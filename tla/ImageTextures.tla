----------------------------- MODULE ImageTextures -----------------------------
(***************************************************************************)
(* The textures of the images that a program places on its screen (class   *)
(* Li of ntwebterm.js, render() of the GPU renderers).  They are kept from *)
(* frame to frame within a budget; the textures of images that are not in  *)
(* the frame are given back first.                                         *)
(***************************************************************************)
EXTENDS Naturals, FiniteSets, FiniteSetsExt

CONSTANTS Images, Areas,
          Budget,         \* 64 MB
          MaxRevisions    \* bound: changes of an image

VARIABLES
  image,    \* the engine's: [area, revision, decoded]
  cache,    \* [image -> area and revision of its texture]
  todo,     \* placements of the frame that have no texture yet
  result,   \* [image -> what became of it in this frame]
  resized   \* history: an image of the frame has another area than its texture

vars == <<image, cache, todo, result, resized>>

Nothing == [i \in {} |-> {}]

Init ==
  /\ image \in [Images -> [area : Areas, revision : {0}, decoded : {TRUE}]]
  /\ cache = Nothing /\ todo = {} /\ result = Nothing /\ resized = FALSE

(* The program sends an image again, with other pixels, another size, or in a
   form that is not decoded. *)
Changes(i) ==
  /\ todo = {} /\ image[i].revision < MaxRevisions
  /\ \E a \in Areas, d \in BOOLEAN :
       image' = [image EXCEPT ![i] = [area |-> a, revision |-> @.revision + 1, decoded |-> d]]
  /\ result' = Nothing
  /\ UNCHANGED <<cache, todo, resized>>

Signature(i) == [area |-> image[i].area, revision |-> image[i].revision]

Only(f, S) == [i \in DOMAIN f \cap S |-> f[i]]
With(f, i, v) == [j \in DOMAIN f \cup {i} |-> IF j = i THEN v ELSE f[j]]

(* Fault: images that are no longer placed keep their textures. *)
RetainAll(placed) == UNCHANGED cache

retain(placed) == cache' = Only(cache, placed)

StartFrame(placed) ==
  /\ todo = {} /\ placed # {} /\ todo' = placed
  /\ retain(placed)
  /\ result' = Nothing
  /\ resized' = \E i \in placed \cap DOMAIN cache : cache[i].area # image[i].area
  /\ UNCHANGED image

Areaof(f, S) == MapThenSumSet(LAMBDA i : f[i].area, S)

Over(i) == Areaof(cache, DOMAIN cache \ {i}) + image[i].area > Budget

(* What getOrUpload returns; the texture is made anew if the size is another. *)
Becomes(i, r, f) == cache' = f /\ result' = With(result, i, r)

Uploaded(i) ==
  /\ i \in DOMAIN cache /\ cache[i] = Signature(i)
  /\ Becomes(i, "drawn", cache)

Refused(i) ==
  /\ ~(i \in DOMAIN cache /\ cache[i] = Signature(i))
  /\ Over(i) \/ ~image[i].decoded
  /\ Becomes(i, IF Over(i) THEN "no room" ELSE "no pixels", cache)

Uploads(i) ==
  /\ ~(i \in DOMAIN cache /\ cache[i] = Signature(i))
  /\ ~Over(i) /\ image[i].decoded
  /\ \/ Becomes(i, "drawn", With(cache, i, Signature(i)))
     \/ /\ ~(i \in DOMAIN cache /\ cache[i].area = image[i].area)
        /\ Becomes(i, "no texture", Only(cache, DOMAIN cache \ {i}))

getOrUpload(i) ==
  /\ i \in todo /\ todo' = todo \ {i}
  /\ Uploaded(i) \/ Refused(i) \/ Uploads(i)
  /\ UNCHANGED <<image, resized>>

Next ==
  \/ \E placed \in SUBSET Images : StartFrame(placed)
  \/ \E i \in Images : Changes(i) \/ getOrUpload(i)

Spec == Init /\ [][Next]_vars

-----------------------------------------------------------------------------
(* A frame draws each image with the pixels it has now; and if the images of
   the frame fit into the budget together, then none of them is left out for
   want of room, whatever other images have been shown before.  Not so in the
   frame after an image has changed its size: the textures that this frame has
   not come to yet count with their old sizes (7022). *)
ImagesShown ==
  todo = {} =>
    /\ \A i \in DOMAIN result : result[i] = "drawn" => cache[i] = Signature(i)
    /\ Areaof(image, DOMAIN result) <= Budget /\ ~resized =>
         \A i \in DOMAIN result : result[i] # "no room"
=============================================================================
