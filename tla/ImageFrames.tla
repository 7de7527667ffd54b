------------------------------ MODULE ImageFrames ------------------------------
(***************************************************************************)
(* From the images that a program places on its screen to the canvas       *)
(* (ntwebterm.js): the engine wrapper's epoch, the frame of placements and *)
(* pixels that class pi keeps while nothing has changed, the renderer's    *)
(* decoded images, and the rows that the 2D renderer draws again.  A       *)
(* change has to get through each of these caches.                         *)
(*                                                                         *)
(* Rows and placements as in RowPainting, scrolling in half lines.  The    *)
(* budgets are ImageTextures' matter, what lies above what is CellLook's.  *)
(***************************************************************************)
EXTENDS Naturals, Integers, FiniteSets

CONSTANTS Pictures,    \* the images of a program
          Tall,        \* the rows that one covers
          LastRow,
          MaxHistory,  \* bound: lines of scrollback
          MaxEpoch,    \* bound: writes and steps of an animation
          MaxResets    \* bound: calls of Terminal.reset

VARIABLES
  screen,      \* the active screen; each has images of its own
  place,       \* [screen -> [image -> the line of its first row]]
  content,     \* [screen -> [image -> its generation, and whether its format is
               \* one that decodes]]
  history,     \* lines of scrollback
  scrolled,    \* Terminal.viewportY, in half lines
  dirty,       \* rows whose text has changed
  epoch,       \* vo.imageEpoch
  resets,      \* the engine has been made anew so often
  lastKey, placementGeneration, placements, frame, pixelCache,  \* class pi
  drawer,      \* "canvas2d" or "gpu"
  painted,     \* the renderer's lastViewportY
  decoded,     \* its canvases or textures: [image -> the pixels they are of]
  canvas       \* [row -> the images that show there, with their generations]

engine == <<screen, place, content, history, dirty, resets>>
cached == <<lastKey, placementGeneration, placements, frame, pixelCache>>
drawn == <<painted, decoded, canvas>>
vars == <<engine, scrolled, epoch, cached, drawer, drawn>>

Rows == 0 .. LastRow
Screens == {"primary", "alternate"}
Empty == [i \in {} |-> {}]
With(f, i, v) == [j \in DOMAIN f \cup {i} |-> IF j = i THEN v ELSE f[j]]
Without(f, S) == [j \in DOMAIN f \ S |-> f[j]]

NoFrame == [key |-> <<>>, resets |-> 0, screen |-> "primary", placements |-> Empty]

Init ==
  /\ screen = "primary" /\ history = 0 /\ scrolled = 0 /\ dirty = {} /\ epoch = 0
  /\ resets = 0
  /\ place = [s \in Screens |-> Empty] /\ content = [s \in Screens |-> Empty]
  /\ lastKey = <<>> /\ placementGeneration = Empty /\ placements = Empty
  /\ frame = NoFrame
  /\ pixelCache = Empty
  /\ drawer \in {"canvas2d", "gpu"}
  /\ painted = 0 /\ decoded = Empty /\ canvas = [r \in Rows |-> {}]

-----------------------------------------------------------------------------
(* Writes of the program, which take the view to the bottom.  Which rows the engine
   marks for them is its affair: an image moves, changes and goes without any row of
   text that does. *)

Marks == \E rows \in {{}, {0}, Rows} : dirty' = dirty \cup rows

(* Fault: the wrapper does not notice what is written. *)
WriteUnnoticed ==
  /\ epoch < MaxEpoch /\ epoch' = epoch
  /\ Marks /\ scrolled' = 0
  /\ UNCHANGED <<resets, cached, drawer, drawn>>

write ==
  /\ epoch < MaxEpoch /\ epoch' = epoch + 1
  /\ Marks /\ scrolled' = 0
  /\ UNCHANGED <<resets, cached, drawer, drawn>>

(* A generation is the epoch in which it began. *)
Transmit(i) ==
  /\ write
  /\ \E d \in BOOLEAN : content' =
       [content EXCEPT ![screen] = With(@, i, [generation |-> epoch + 1, decodes |-> d])]
  /\ UNCHANGED <<screen, place, history>>

Place(i, r) ==
  /\ write
  /\ i \in DOMAIN content[screen]
  /\ place' = [place EXCEPT ![screen] = With(@, i, r + IF screen = "primary" THEN history ELSE 0)]
  /\ UNCHANGED <<screen, content, history>>

Delete(i) ==
  /\ write
  /\ i \in DOMAIN place[screen]
  /\ place' = [place EXCEPT ![screen] = Without(@, {i})]
  /\ UNCHANGED <<screen, content, history>>

AddLine ==
  /\ write
  /\ screen = "primary" /\ history < MaxHistory
  /\ history' = history + 1
  /\ UNCHANGED <<screen, place, content>>

SwitchScreen ==
  /\ write
  /\ screen' \in Screens \ {screen}
  /\ UNCHANGED <<place, content, history>>

(* Terminal.reset: another engine, which starts to count anew, and an invalidated
   renderer.  The view stays where it was. *)
Reset ==
  /\ resets < MaxResets /\ resets' = resets + 1
  /\ screen' = "primary" /\ history' = 0 /\ dirty' = Rows /\ epoch' = 0
  /\ place' = [s \in Screens |-> Empty] /\ content' = [s \in Screens |-> Empty]
  /\ lastKey' = <<>> /\ placementGeneration' = Empty /\ placements' = Empty
  /\ frame' = NoFrame /\ pixelCache' = Empty
  /\ UNCHANGED <<scrolled, drawer, drawn>>

(* The user scrolls. *)
Scroll ==
  /\ screen = "primary"
  /\ scrolled' \in 0 .. 2 * history
  /\ UNCHANGED <<engine, epoch, cached, drawer, drawn>>

-----------------------------------------------------------------------------
(* class pi: getFrame and captureFrame, with the engine's viewport scrolled to
   where the terminal's is. *)

Above == scrolled \div 2

Top(s) == IF s = "primary" /\ history > Above THEN history - Above ELSE 0

(* The placements in view, by row; the engine counts their changes. *)
RowOf(i) == place[screen][i] - Top(screen)
Covers(row, r) == row <= r /\ r < row + Tall
InView == {i \in DOMAIN place[screen] : \E r \in Rows : Covers(RowOf(i), r)}
Generation == [i \in InView |-> RowOf(i)]

Read(i) == [row |-> RowOf(i), generation |-> content'[screen][i].generation]

Listed == IF Generation = placementGeneration THEN placements ELSE [i \in InView |-> Read(i)]

(* Fault: images keep the generation they had when the placements were read. *)
ReadPlacementsOnly == placementGeneration' = Generation /\ placements' = Listed

(* Placements are read again when they have changed, the generations of their
   images each time. *)
ReadPlacements ==
  /\ placementGeneration' = Generation
  /\ placements' = [i \in DOMAIN Listed |->
                      [Listed[i] EXCEPT !.generation = content'[screen][i].generation]]

FrameKey == <<screen, Generation, content'[screen], place[screen], scrolled>>

(* The global count of revisions makes it another frame than those of the engine
   before. *)
MakeFrame ==
  IF frame.key = FrameKey THEN UNCHANGED frame
  ELSE frame' = [key |-> FrameKey, resets |-> resets, screen |-> screen,
                 placements |-> placements']

PixelKey(i) == <<frame'.screen, i, frame'.placements[i].generation>>

(* The pixels that the frame may still ask for. *)
Kept ==
  IF frame' = frame THEN pixelCache
  ELSE Without(pixelCache, DOMAIN pixelCache \ {PixelKey(i) : i \in DOMAIN frame'.placements})

Key == <<epoch', scrolled>>

getFrame ==
  \/ /\ lastKey = Key
     /\ UNCHANGED <<lastKey, placementGeneration, placements, frame>>
  \/ /\ lastKey # Key
     /\ lastKey' = Key
     /\ ReadPlacements /\ MakeFrame

-----------------------------------------------------------------------------
(* The renderers. *)

(* Rows of the frame's images, and of the frame's before. *)
Under(f) == {r \in Rows : \E i \in DOMAIN f.placements : Covers(f.placements[i].row, r)}

(* Fault: an image that has gone leaves its rows as they are. *)
DamagedNow == IF frame' = frame THEN {} ELSE Under(frame')

Damaged == IF frame' = frame THEN {} ELSE Under(frame) \cup Under(frame')

bufferAnyDirty == dirty # {}

(* The signature of the images is the frame's revision. *)
NewSignature == frame' # frame

(* Whether there is anything to draw. *)
Wanted == scrolled # painted \/ bufferAnyDirty \/ NewSignature

Drawn ==
  IF drawer = "gpu" \/ scrolled > 0 \/ scrolled # painted THEN Rows
  ELSE {r \in Rows : \E c \in dirty \cup Damaged : r \in c - 1 .. c + 1}

(* The images that renderImageLayer, or the GPU, comes to draw. *)
Asked(rows) == {i \in DOMAIN frame'.placements :
                  \E r \in rows : Covers(frame'.placements[i].row, r)}

(* What an image looks like now. *)
Looks(i) == <<resets, content'[screen][i]>>

(* Fault: revisions of pixels are counted by each engine for itself. *)
RevisionOfEngine(i) == PixelKey(i)

(* A revision of pixels is counted when they are read from the engine. *)
Revision(i) == <<resets, PixelKey(i)>>

(* frame.pixels: those that are kept, or read now. *)
pixels(i) ==
  [revision |-> Revision(i),
   of |-> IF PixelKey(i) \in DOMAIN Kept THEN Kept[PixelKey(i)] ELSE Looks(i)]

decodeKittyImageToCanvas(i) ==
  IF pixels(i).of[2].decodes THEN {pixels(i)} ELSE {}

(* vB: the canvas or texture is of these pixels. *)
SamePixels(i) == i \in DOMAIN decoded /\ decoded[i].revision = pixels(i).revision

(* Of an image that does not decode there is none. *)
Bitmap(i) == IF SamePixels(i) THEN {decoded[i]} ELSE decodeKittyImageToCanvas(i)

Draw(rows) ==
  LET asked == Asked(rows)
      bitmaps == {i \in asked : Bitmap(i) # {}}
      kept == DOMAIN decoded \cap DOMAIN frame'.placements
  IN /\ canvas' = [r \in Rows |->
          IF r \in rows
          THEN UNION {{<<i, b.of>> : b \in Bitmap(i)} :
                        i \in {j \in asked : Covers(frame'.placements[j].row, r)}}
          ELSE canvas[r]]
     /\ decoded' = [i \in kept \cup bitmaps |->
          IF i \in bitmaps THEN CHOOSE b \in Bitmap(i) : TRUE ELSE decoded[i]]
     /\ pixelCache' = [k \in DOMAIN Kept \cup {PixelKey(i) : i \in asked} |->
          IF k \in DOMAIN Kept THEN Kept[k] ELSE Looks(k[2])]

Render ==
  /\ getFrame
  /\ \/ Wanted /\ Draw(Drawn) /\ painted' = scrolled /\ dirty' = {}
     \/ ~Wanted /\ pixelCache' = Kept /\ UNCHANGED <<drawn, dirty>>
  /\ UNCHANGED <<screen, place, history, resets, scrolled, drawer>>

(* Terminal.renderFrame: an animation that is due shows its next image first. *)
RenderStill == UNCHANGED <<content, epoch>> /\ Render

RenderAnimated(i) ==
  /\ epoch < MaxEpoch /\ i \in DOMAIN content[screen]
  /\ epoch' = epoch + 1
  /\ content' = [content EXCEPT ![screen][i].generation = epoch + 1]
  /\ Render

Next ==
  \/ \E i \in Pictures :
       Transmit(i) \/ Delete(i) \/ RenderAnimated(i) \/ \E r \in Rows : Place(i, r)
  \/ AddLine \/ SwitchScreen \/ Reset \/ Scroll \/ RenderStill

Spec == Init /\ [][Next]_vars

-----------------------------------------------------------------------------
(* While getFrame would hand out the frame it has, the canvas shows in each row
   the images that lie there now, with the pixels they have now, and no others:
   whether they were moved, changed, deleted, animated, scrolled or on another
   screen, and whatever was in any of the caches (51-142, 7428-7440, 7669-7713). *)
ImagesCurrent ==
  lastKey = <<epoch, scrolled>> =>
    \A r \in Rows :
      canvas[r] = {<<i, <<resets, content[screen][i]>>>> :
                     i \in {j \in InView : Covers(RowOf(j), r) /\ content[screen][j].decodes}}
==============================================================================
