------------------------------- MODULE CellLook -------------------------------
(***************************************************************************)
(* What a cell looks like.  Three renderers of ntwebterm.js paint it from  *)
(* the same attributes: on a 2D canvas by drawing calls, with WebGL and    *)
(* with WebGPU by shaders that compute each pixel from flags.  Here a      *)
(* pixel is one of a few points of the cell, and what it shows is the list *)
(* of paints that are to be seen there, the topmost last.                  *)
(***************************************************************************)
EXTENDS Sequences

VARIABLES
  attrs,     \* what the program has written
  selected, hovered,
  cursor,    \* in this cell a "block" or a "line" (a bar or an underline), a
             \* "block elsewhere", or "none" that is to be seen
  scrolled,  \* the viewport is not at the bottom
  images     \* the layers of the images here, and "elsewhere" if there are others

vars == <<attrs, selected, hovered, cursor, scrolled, images>>

Kinds == {"text", "emoji", "block", "shade", "placeholder"}
Attributes ==
  [fgIsDefault: BOOLEAN, bgIsDefault: BOOLEAN, inverse: BOOLEAN, faint: BOOLEAN,
   invisible: BOOLEAN, line: {"none", "underline", "strikethrough"}, kind: Kinds]

(* At one of the bands nothing of the glyph is to be seen. *)
Points == {"blank", "glyph", "underline", "strikethrough", "cursor band"}

Init ==
  /\ attrs = [fgIsDefault |-> TRUE, bgIsDefault |-> TRUE, inverse |-> FALSE,
              faint |-> FALSE, invisible |-> FALSE, line |-> "none", kind |-> "text"]
  /\ selected = FALSE /\ hovered = FALSE /\ cursor = "none" /\ scrolled = FALSE
  /\ images = {}

(* One attribute at a time, which reaches them all. *)
Write ==
  /\ \/ \E b \in {"fgIsDefault", "bgIsDefault", "inverse", "faint", "invisible"} :
          attrs' = [attrs EXCEPT ![b] = ~@]
     \/ \E l \in {"none", "underline", "strikethrough"} : attrs' = [attrs EXCEPT !.line = l]
     \/ \E k \in Kinds : attrs' = [attrs EXCEPT !.kind = k]
  /\ UNCHANGED <<selected, hovered, cursor, scrolled, images>>

Select == selected' = ~selected /\ UNCHANGED <<attrs, hovered, cursor, scrolled, images>>
Hover == hovered' = ~hovered /\ UNCHANGED <<attrs, selected, cursor, scrolled, images>>

MoveCursor ==
  /\ cursor' \in {"none", "block", "line", "block elsewhere"}
  /\ UNCHANGED <<attrs, selected, hovered, scrolled, images>>

Scroll == scrolled' = ~scrolled /\ UNCHANGED <<attrs, selected, hovered, cursor, images>>

PlaceImages ==
  /\ images' \in {{}, {"elsewhere"}, {"layer 0"}, {"layer 1"}, {"layer 2"}}
  /\ UNCHANGED <<attrs, selected, hovered, cursor, scrolled>>

Next == Write \/ Select \/ Hover \/ MoveCursor \/ Scroll \/ PlaceImages

Spec == Init /\ [][Next]_vars

-----------------------------------------------------------------------------
(* A cover of "all" hides what is below. *)
Paint(picture, color, cover) ==
  LET paint == [color |-> color, cover |-> cover] IN
  IF cover = "all" THEN <<paint>> ELSE Append(picture, paint)

Fill(picture, color) == Paint(picture, color, "all")
Cleared == Fill(<<>>, "defaultBg")

Unlined == attrs.line = "none" /\ ~hovered

(* The marks of the glyph at a point; a shade is everywhere. *)
Fade == IF attrs.faint THEN "half" ELSE "all"
InkColor(color) == IF attrs.kind = "emoji" THEN "emoji" ELSE color
Glyph(picture, at, color) ==
  CASE attrs.kind = "shade" -> Paint(picture, color, IF attrs.faint THEN "half shade" ELSE "shade")
    [] attrs.kind # "shade" /\ at = "glyph" -> Paint(picture, InkColor(color), Fade)
    [] OTHER -> picture

(* Lines are not faint, and a hovered link's covers the cell's own. *)
Lines(picture, at, color) ==
  CASE at = "underline" /\ hovered -> Fill(picture, "link")
    [] at = "underline" /\ ~hovered /\ attrs.line = "underline" -> Fill(picture, color)
    [] at = "strikethrough" /\ attrs.line = "strikethrough" -> Fill(picture, color)
    [] OTHER -> picture

-----------------------------------------------------------------------------
(* The 2D canvas *)

renderImageLayer(picture, layer) ==
  IF layer \in images THEN Fill(picture, layer) ELSE picture

renderCellBackground(picture) ==
  LET default == IF attrs.inverse THEN attrs.fgIsDefault ELSE attrs.bgIsDefault IN
  IF selected THEN Fill(picture, "selectionBg")
  ELSE IF default THEN picture
  ELSE Fill(picture, IF attrs.inverse THEN "fg" ELSE "bg")

TextColor ==
  LET default == IF attrs.inverse THEN attrs.bgIsDefault ELSE attrs.fgIsDefault IN
  IF selected THEN "selectionFg"
  ELSE IF default THEN "defaultFg"
  ELSE IF attrs.inverse THEN "bg" ELSE "fg"

(* Fault: lines are drawn of invisible text. *)
LinesOfInvisible(picture, at, color) ==
  IF attrs.kind = "placeholder" THEN picture
  ELSE Lines(IF attrs.invisible THEN picture ELSE Glyph(picture, at, color), at, color)

renderCellText(picture, at, color) ==
  IF attrs.kind = "placeholder" \/ attrs.invisible THEN picture
  ELSE Lines(Glyph(picture, at, color), at, color)

renderCursor(picture, at) ==
  CASE cursor = "block" -> renderCellText(Fill(picture, "cursorBg"), at, "cursorFg")
    [] cursor = "line" /\ at = "cursor band" -> Fill(picture, "cursorBg")
    [] OTHER -> picture

renderLine(at) ==
  LET layer0 == renderImageLayer(Cleared, "layer 0")
      layer1 == renderImageLayer(renderCellBackground(layer0), "layer 1")
  IN renderImageLayer(renderCellText(layer1, at, TextColor), "layer 2")

Canvas2D(at) ==
  IF scrolled THEN renderLine(at) ELSE renderCursor(renderLine(at), at)

-----------------------------------------------------------------------------
(* The shaders.  The cell with the block cursor is flagged, and a placeholder
   is invisible text. *)

IsCursorCell == cursor = "block"
Invisible == attrs.invisible \/ attrs.kind = "placeholder"

Own(f, b) ==
  CASE IsCursorCell -> "cursorFg"
    [] ~IsCursorCell /\ selected -> "selectionFg"
    [] OTHER -> IF attrs.inverse THEN b ELSE f
Ground(f, b) ==
  CASE IsCursorCell -> "cursorBg"
    [] ~IsCursorCell /\ selected -> "selectionBg"
    [] OTHER -> IF attrs.inverse THEN f ELSE b

ThemeOr(default, color, own) == IF default THEN color ELSE own
Fg == Own(ThemeOr(attrs.fgIsDefault, "defaultFg", "fg"), ThemeOr(attrs.bgIsDefault, "defaultBg", "bg"))
Bg == Ground(ThemeOr(attrs.fgIsDefault, "defaultFg", "fg"), ThemeOr(attrs.bgIsDefault, "defaultBg", "bg"))

Passes == {"combined", "backgrounds", "glyphs", "cursor"}

(* What is left of a pass before the text is looked at: "glyphs" are drawn on
   what is there already, the other passes on the cell's background. *)
Background(picture) ==
  LET default == IF attrs.inverse THEN attrs.fgIsDefault ELSE attrs.bgIsDefault IN
  IF default /\ ~selected /\ ~IsCursorCell THEN picture ELSE Fill(picture, Bg)
On(picture, pass) == IF pass = "glyphs" THEN picture ELSE Fill(picture, Bg)

(* Fault: the cursor's pass paints every cell. *)
CursorEverywhere(picture, at, pass) ==
  CASE pass = "backgrounds" -> Background(picture)
    [] OTHER -> IF Invisible THEN On(picture, pass)
                ELSE Lines(Glyph(On(picture, pass), at, Fg), at, Fg)

textFragmentGL(picture, at, pass) ==
  CASE pass = "cursor" /\ ~IsCursorCell -> picture
    [] pass = "backgrounds" -> Background(picture)
    [] OTHER -> IF Invisible THEN On(picture, pass)
                ELSE Lines(Glyph(On(picture, pass), at, Fg), at, Fg)

(* The block elements that WebGPU computes are neither faint nor lined. *)
BlockElement(picture, at) ==
  CASE attrs.kind = "shade" -> Paint(picture, Fg, "shade")
    [] attrs.kind = "block" /\ at = "glyph" -> Fill(picture, Fg)
    [] OTHER -> picture

textFragmentGPU(picture, at, pass) ==
  CASE pass = "cursor" /\ ~IsCursorCell -> picture
    [] pass = "backgrounds" -> Background(picture)
    [] OTHER -> IF Invisible THEN On(picture, pass)
                ELSE IF attrs.kind \in {"block", "shade"}
                     THEN BlockElement(On(picture, pass), at)
                ELSE Lines(Glyph(On(picture, pass), at, Fg), at, Fg)

cursorFragmentGL(picture, at) ==
  IF cursor = "line" /\ at = "cursor band" THEN Fill(picture, "cursorBg") ELSE picture
cursorFragmentGPU(picture, at) ==
  IF cursor = "line" /\ at = "cursor band" THEN Fill(picture, "cursorBg") ELSE picture

kittyFragmentGL(picture, layer) == IF layer \in images THEN Fill(picture, layer) ELSE picture
kittyFragmentGPU(picture, layer) == IF layer \in images THEN Fill(picture, layer) ELSE picture

CursorPass == ~scrolled /\ cursor \in {"block", "block elsewhere"}

(* Each pass paints over the picture of the one before. *)
WebGL(at) ==
  LET F(picture, pass) == textFragmentGL(picture, at, pass)
      J(picture, layer) == kittyFragmentGL(picture, layer)
      layered == J(F(J(F(J(Cleared, "layer 0"), "backgrounds"), "layer 1"), "glyphs"), "layer 2")
      text == IF images = {} THEN J(F(Cleared, "combined"), "layer 2")
              ELSE IF CursorPass THEN F(layered, "cursor") ELSE layered
  IN cursorFragmentGL(text, at)

(* Fault: the images above the text are drawn before it. *)
ImagesUnderText(at) ==
  LET F(picture, pass) == textFragmentGPU(picture, at, pass)
      J(picture, layer) == kittyFragmentGPU(picture, layer)
      layered == F(J(J(F(J(Cleared, "layer 0"), "backgrounds"), "layer 1"), "layer 2"), "glyphs")
  IN cursorFragmentGPU(IF CursorPass THEN F(layered, "cursor") ELSE layered, at)

(* With the engine there is a frame of images, though it may be empty. *)
WebGPU(at) ==
  LET F(picture, pass) == textFragmentGPU(picture, at, pass)
      J(picture, layer) == kittyFragmentGPU(picture, layer)
      layered == J(F(J(F(J(Cleared, "layer 0"), "backgrounds"), "layer 1"), "glyphs"), "layer 2")
  IN cursorFragmentGPU(IF CursorPass THEN F(layered, "cursor") ELSE layered, at)

-----------------------------------------------------------------------------
(* Where the renderers are known to differ: reverse video of a default color
   (7361 leaves the background out and 7381 takes the theme's foreground, the
   shaders swap, 8057, but leave it out in the pass for backgrounds, 8062); the
   cursor in a scrolled viewport (7319, which the shaders show); and on WebGPU
   block elements that are faint or have a line (8797). *)
ReverseOfDefault ==
  attrs.inverse /\ (attrs.fgIsDefault \/ attrs.bgIsDefault) /\ ~selected
CursorScrolledAway == scrolled /\ cursor # "none"
MarkedBlock == attrs.kind \in {"block", "shade"} /\ (attrs.faint \/ ~Unlined)

(* A cell looks the same whichever renderer the page has fallen back to, also
   where images, a selection, a link and the cursor meet, but for these. *)
LooksAlike ==
  \A at \in Points :
    /\ ~ReverseOfDefault /\ ~CursorScrolledAway => Canvas2D(at) = WebGL(at)
    /\ ~ReverseOfDefault /\ ~MarkedBlock => WebGL(at) = WebGPU(at)
===============================================================================
