------------------------------ MODULE GlyphAtlas ------------------------------
(***************************************************************************)
(* The glyph atlas of the GPU renderers (class ci of ntwebterm.js and its  *)
(* two textures).  Each cell of a frame refers to a slot of one texture,   *)
(* which is drawn when all cells have been encoded: a slot must still hold *)
(* its glyph then.  Slots are packed into shelves; an atlas that is full   *)
(* is doubled, with a new texture and all slots forgotten.                 *)
(***************************************************************************)
EXTENDS Naturals, Sequences

CONSTANTS Glyphs, Wide,   \* texts with their style; Wide: those of two cells
          CellSizes,      \* [w, h] in pixels
          FirstSize,      \* of the texture
          MaxSize,        \* bound: it is not doubled beyond
          MaxCells,       \* bound: cells of a frame
          MaxResets       \* bound: new fonts

VARIABLES
  cell,                      \* cellW and cellH
  size, nextX, nextY, rowHeight,
  cache,                     \* [glyph -> slot]
  texture,                   \* what each pixel of the texture shows
  encoded,                   \* the frame: for each cell its glyph and slot
  grown,                     \* history: the atlas has grown in this frame
  resets

packing == <<size, nextX, nextY, rowHeight, cache>>
vars == <<cell, packing, texture, encoded, grown, resets>>

Pixels(n) == (0 .. n - 1) \X (0 .. n - 1)
Blank(n) == [p \in Pixels(n) |-> "blank"]
NoSlots == [g \in {} |-> {}]

Init ==
  /\ cell \in CellSizes
  /\ size = FirstSize /\ nextX = 0 /\ nextY = 0 /\ rowHeight = 0 /\ cache = NoSlots
  /\ texture = Blank(FirstSize)
  /\ encoded = <<>> /\ grown = FALSE /\ resets = 0

(* A frame.  The one before has been drawn, and the slots stay. *)
NewFrame ==
  /\ encoded # <<>> /\ encoded' = <<>> /\ grown' = FALSE
  /\ UNCHANGED <<cell, packing, texture, resets>>

(* A new font, or cells of another size. *)
Reset ==
  /\ encoded = <<>> /\ resets < MaxResets /\ resets' = resets + 1
  /\ cell' \in CellSizes
  /\ nextX' = 0 /\ nextY' = 0 /\ rowHeight' = 0 /\ cache' = NoSlots
  /\ UNCHANGED <<size, texture, encoded, grown>>

-----------------------------------------------------------------------------
(* getOrRaster *)

Width(g) == IF g \in Wide THEN 2 * cell.w ELSE cell.w

Slot(x, y, g) == (x .. x + Width(g) - 1) \X (y .. y + cell.h - 1)

Image(g) == [glyph |-> g, cell |-> cell]

(* An upload beyond the texture is refused. *)
Uploaded(t, slot, g) ==
  IF slot \subseteq DOMAIN t
  THEN [p \in DOMAIN t |-> IF p \in slot THEN Image(g) ELSE t[p]]
  ELSE t

Encode(g, slot) ==
  encoded' = Append(encoded, [image |-> Image(g), slot |-> slot])

Found(g) ==
  /\ g \in DOMAIN cache /\ Encode(g, cache[g])
  /\ UNCHANGED <<cell, packing, texture, grown, resets>>

(* The glyph goes to (x, y) of a shelf with height h, among the slots kept. *)
Rasterized(g, x, y, h, kept, t) ==
  LET slot == Slot(x, y, g) IN
  /\ nextX' = x + Width(g) /\ nextY' = y
  /\ rowHeight' = IF cell.h > h THEN cell.h ELSE h
  /\ cache' = [k \in DOMAIN kept \cup {g} |-> IF k = g THEN slot ELSE kept[k]]
  /\ texture' = Uploaded(t, slot, g)
  /\ Encode(g, slot)
  /\ UNCHANGED <<cell, resets>>

FullShelf(g) == nextX + Width(g) > size
Y(g) == IF FullShelf(g) THEN nextY + rowHeight ELSE nextY
NoRoom(g) == Y(g) + cell.h > size

Packed(g) ==
  /\ g \notin DOMAIN cache /\ ~NoRoom(g)
  /\ IF FullShelf(g) THEN Rasterized(g, 0, Y(g), 0, cache, texture)
     ELSE Rasterized(g, nextX, nextY, rowHeight, cache, texture)
  /\ UNCHANGED <<size, grown>>

(* Fault: the slots of the smaller texture are kept. *)
GrownKeepingSlots(g) ==
  /\ g \notin DOMAIN cache /\ NoRoom(g) /\ 2 * size <= MaxSize
  /\ size' = 2 * size /\ grown' = TRUE
  /\ Rasterized(g, 0, 0, 0, cache, Blank(2 * size))

(* grow().  If WebGL makes no larger texture it keeps the old one. *)
Grown(g) ==
  /\ g \notin DOMAIN cache /\ NoRoom(g) /\ 2 * size <= MaxSize
  /\ size' = 2 * size /\ grown' = TRUE
  /\ \E t \in {Blank(2 * size), texture} : Rasterized(g, 0, 0, 0, NoSlots, t)

getOrRaster(g) == Found(g) \/ Packed(g) \/ Grown(g)

Next ==
  \/ \E g \in Glyphs : Len(encoded) < MaxCells /\ getOrRaster(g)
  \/ NewFrame \/ Reset

Spec == Init /\ [][Next]_vars

-----------------------------------------------------------------------------
(* Each cell of a frame is drawn with its own glyph, in the size of the font:
   no glyph that is packed later, in this frame or in one before, has written
   over its slot.  Not in a frame during which the atlas grows, for the cells
   that were encoded before refer to the texture that is gone (6851); nor
   where no larger texture could be made (8217). *)
GlyphsShown ==
  ~grown =>
    \A i \in DOMAIN encoded : encoded[i].slot \subseteq DOMAIN texture =>
      \A p \in encoded[i].slot : texture[p] = encoded[i].image
==============================================================================
