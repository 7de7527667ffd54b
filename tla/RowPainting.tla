----------------------------- MODULE RowPainting -----------------------------
(***************************************************************************)
(* What one call of a renderer's render() puts on the canvas, and what the *)
(* selection manager leaves it to find out (ntwebterm.js).  The canvas     *)
(* keeps its pixels: render() of the 2D renderer repaints only the rows it *)
(* knows to have changed, by the engine's damage flags, by what it drew    *)
(* last, and by the rows that the selection manager has marked; the GPU    *)
(* renderers encode every row, or none.  When a frame is drawn is the      *)
(* subject of TerminalView: here it may be drawn at any time.              *)
(*                                                                         *)
(* A line is the version of its text.  Columns, images, hovering and the   *)
(* blinking of the cursor are left out.                                    *)
(***************************************************************************)
EXTENDS Integers, Sequences

CONSTANTS LastRow,      \* the rows of the screen are 0 .. LastRow
          MaxHistory,   \* the limit of the scrollback
          MaxOutputs,   \* bound: writes of the program
          MaxMoves      \* bound: what the user does

VARIABLES
  backend,        \* "canvas2d", or "gpu": WebGL and WebGPU
  buffer,         \* the engine's lines: the history, then the screen
  dirty, full,    \* its damage: rows of the screen, or everything
  cursor,         \* [row, visible]
  scrolled,       \* viewportY in halves of a row: the wheel scrolls by pixels
  selection,      \* [start, end, wide]: lines, and whether it has two cells
  dragging,       \* isSelecting: "no", "pressed" (below the threshold), "yes"
  dirtySelection, \* dirtySelectionRows
  autoScroll,     \* autoScrollDirection
  last,           \* what render() keeps: cursor, viewportY, selection and rows
  invalid,        \* invalidateNext
  canvas,         \* the rows as they are to be seen
  outputs, moves

engine == <<buffer, dirty, full, cursor>>
mouse == <<selection, dragging, dirtySelection, autoScroll>>
painter == <<last, invalid, canvas>>
vars == <<backend, engine, scrolled, mouse, painter, outputs, moves>>

Rows == 0 .. LastRow
None == [none |-> TRUE]
Blank == [line |-> -1, selected |-> FALSE, cursor |-> FALSE]

History == Len(buffer) - (LastRow + 1)
(* Math.floor(viewportY). *)
Above == scrolled \div 2

Init ==
  /\ backend \in {"canvas2d", "gpu"}
  /\ buffer = [i \in 1 .. LastRow + 1 |-> 0]
  /\ dirty = {} /\ full = TRUE
  /\ cursor = [row |-> 0, visible |-> TRUE]
  /\ scrolled = 0
  /\ selection = None /\ dragging = "no" /\ dirtySelection = {} /\ autoScroll = 0
  /\ last = [cursor |-> [row |-> 0, visible |-> FALSE], scrolled |-> 0,
             selection |-> None, rows |-> {}]
  /\ invalid = TRUE
  /\ canvas = [r \in Rows |-> Blank]
  /\ outputs = 0 /\ moves = 0

-----------------------------------------------------------------------------
(* The selection, in rows of the view. *)

viewportRowToAbsolute(row) == History + row - Above
absoluteRowToViewport(line) == line - History + Above

HasSelection == selection # None /\ dragging # "pressed"

(* normalizeSelection: the part of it that is in view. *)
SelectedRows ==
  IF selection = None THEN {}
  ELSE {r \in Rows : \/ /\ absoluteRowToViewport(selection.start) <= r
                        /\ r <= absoluteRowToViewport(selection.end)
                     \/ /\ absoluteRowToViewport(selection.end) <= r
                        /\ r <= absoluteRowToViewport(selection.start)}

Signature == IF SelectedRows = {} THEN None
             ELSE [rows |-> SelectedRows, wide |-> selection.wide]

(* markCurrentSelectionDirty *)
MarkedRows == dirtySelection \cup SelectedRows

-----------------------------------------------------------------------------
(* The program writes.  The engine's part is external: it flags each row that
   it has changed, and everything when the screen moves in the buffer.  A write
   scrolls the view down. *)

Written ==
  /\ outputs < MaxOutputs /\ outputs' = outputs + 1
  /\ scrolled' = 0
  /\ UNCHANGED <<backend, mouse, painter, moves>>

WriteRow(r) ==
  /\ Written
  /\ buffer' = [buffer EXCEPT ![History + r + 1] = outputs + 1]
  /\ dirty' = dirty \cup {r} /\ UNCHANGED full
  /\ cursor' \in [row : {r}, visible : BOOLEAN]

MoveCursor ==
  /\ Written
  /\ cursor' \in [row : Rows, visible : BOOLEAN]
  /\ UNCHANGED <<buffer, dirty, full>>

MovesScreen(lines) == Written /\ buffer' = lines /\ full' = TRUE /\ UNCHANGED <<dirty, cursor>>

AddLine ==
  MovesScreen(Append(IF History = MaxHistory THEN Tail(buffer) ELSE buffer, outputs + 1))

ClearHistory == History > 0 /\ MovesScreen(SubSeq(buffer, History + 1, Len(buffer)))

-----------------------------------------------------------------------------
(* The user scrolls and selects. *)

Moves ==
  /\ moves < MaxMoves /\ moves' = moves + 1
  /\ UNCHANGED <<backend, engine, painter, outputs>>

Scroll ==
  /\ Moves /\ UNCHANGED mouse
  /\ scrolled' \in (0 .. 2 * History) \ {scrolled}

From(start, end, wide) == [start |-> start, end |-> end, wide |-> wide]

clearSelection == selection' = None /\ dirtySelection' = MarkedRows

MouseDown(r) ==
  /\ Moves /\ UNCHANGED <<scrolled, autoScroll>>
  /\ dragging = "no" /\ dragging' = "pressed"
  /\ selection' = From(viewportRowToAbsolute(r), viewportRowToAbsolute(r), FALSE)
  /\ dirtySelection' = IF HasSelection THEN MarkedRows ELSE dirtySelection

(* Beyond the threshold.  Near an edge it scrolls. *)
MouseMove(r) ==
  /\ Moves /\ UNCHANGED scrolled
  /\ dragging # "no" /\ dragging' = "yes"
  /\ dirtySelection' = MarkedRows
  /\ LET end == viewportRowToAbsolute(r)
     IN  selection' \in {From(selection.start, end, wide) :
                          wide \in {TRUE, end # selection.start}}
  /\ autoScroll' = IF r = 0 THEN -1 ELSE IF r = LastRow THEN 1 ELSE 0

(* Also beyond the threshold; the selection stays as it is. *)
MouseLeaves(direction) ==
  /\ Moves /\ UNCHANGED <<scrolled, selection, dragging, dirtySelection>>
  /\ dragging # "no" /\ autoScroll' = direction

MouseEnters == MouseLeaves(0)

MouseUp ==
  /\ Moves /\ UNCHANGED scrolled
  /\ dragging # "no" /\ dragging' = "no" /\ autoScroll' = 0
  /\ IF dragging = "pressed" THEN clearSelection
     ELSE UNCHANGED <<selection, dirtySelection>>

Selects(start, end) ==
  /\ Moves /\ UNCHANGED <<scrolled, dragging, dirtySelection, autoScroll>>
  /\ dragging = "no"
  /\ selection' \in {From(start, end, wide) : wide \in {TRUE, start # end}}

(* The clicks themselves have dropped the old selection. *)
DoubleClick(r) ==
  selection = None /\ Selects(viewportRowToAbsolute(r), viewportRowToAbsolute(r))

(* selectAll and select count the rows from the line viewportY. *)
Select(r, s) == Selects(Above + r, Above + s)

selectLines(r, s) == Selects(viewportRowToAbsolute(r), viewportRowToAbsolute(s))

(* A key, a click elsewhere, deselect(). *)
Deselect ==
  /\ Moves /\ UNCHANGED <<scrolled, autoScroll>>
  /\ HasSelection /\ clearSelection
  /\ dragging' = "no"

AtMost(n, m) == IF n < m THEN n ELSE m
AtLeast(n, m) == IF n > m THEN n ELSE m

(* Each 50 ms: three lines up or down, and the selection follows the edge. *)
AutoScroll ==
  /\ autoScroll # 0
  /\ UNCHANGED <<backend, engine, painter, outputs, moves, dragging, dirtySelection>>
  /\ IF dragging = "no"
     THEN autoScroll' = 0 /\ UNCHANGED <<scrolled, selection>>
     ELSE /\ UNCHANGED autoScroll
          /\ scrolled' = AtLeast(0, AtMost(2 * History, scrolled - 6 * autoScroll))
          /\ LET edge == History - scrolled' \div 2 + (IF autoScroll < 0 THEN 0 ELSE LastRow)
                 past == IF autoScroll < 0 THEN edge < selection.end
                         ELSE edge > selection.end
             IN  selection' \in IF past THEN {From(selection.start, edge, TRUE)}
                                ELSE {selection}

-----------------------------------------------------------------------------
(* Rendering. *)

(* A new font, pixel ratio or grid: renderer.resize. *)
ResizeCanvas ==
  /\ moves < MaxMoves /\ moves' = moves + 1
  /\ canvas' = [r \in Rows |-> Blank] /\ invalid' = TRUE
  /\ UNCHANGED <<backend, engine, scrolled, mouse, last, outputs>>

(* The line of a row.  A view scrolled by a fraction has a row with none: it
   counts as history and there is no such line. *)
HasLine(r) == 2 * r >= scrolled \/ r < Above
LineAt(r) == buffer[viewportRowToAbsolute(r) + 1]

Seen(r) ==
  [line |-> LineAt(r), selected |-> HasSelection /\ r \in SelectedRows,
   cursor |-> scrolled = 0 /\ cursor.visible /\ r = cursor.row]

(* Fault: a change of viewportY alone does not ask for a frame to be drawn. *)
WantedButForScrolling ==
  invalid \/ cursor # last.cursor \/ full \/ dirty # {} \/ Signature # last.selection

(* Whether render() does anything. *)
Wanted ==
  \/ invalid \/ cursor # last.cursor \/ scrolled # last.scrolled
  \/ full \/ dirty # {} \/ Signature # last.selection

Everything == invalid \/ full \/ scrolled # last.scrolled

(* The rows of a moved cursor, before and after.  They are drawn first, with the
   selection of the last frame. *)
CursorRows ==
  IF cursor.row = last.cursor.row THEN {} ELSE {cursor.row, last.cursor.row}

Drawn ==
  IF Everything \/ scrolled > 0 THEN Rows
  ELSE LET changed == dirty \cup dirtySelection
                        \cup (IF HasSelection THEN SelectedRows ELSE {})
       IN  {r \in Rows : \E c \in changed : r \in c - 1 .. c + 1}

Repainted(r) ==
  CASE r \in Drawn /\ HasLine(r) -> Seen(r)
    [] r \notin Drawn /\ r \in CursorRows -> [Seen(r) EXCEPT !.selected = r \in last.rows]
    [] OTHER -> [canvas[r] EXCEPT !.cursor = @ \/ Seen(r).cursor]

Encoded(r) == IF HasLine(r) THEN Seen(r) ELSE Blank

Render ==
  /\ Wanted
  /\ canvas' = [r \in Rows |-> IF backend = "canvas2d" THEN Repainted(r) ELSE Encoded(r)]
  /\ last' = [cursor |-> cursor, scrolled |-> scrolled, selection |-> Signature,
              rows |-> IF HasSelection THEN SelectedRows ELSE {}]
  /\ dirtySelection' = IF backend = "canvas2d" THEN {} ELSE dirtySelection
  /\ dirty' = {} /\ full' = FALSE /\ invalid' = FALSE
  /\ UNCHANGED <<backend, buffer, cursor, scrolled, selection, dragging, autoScroll,
                 outputs, moves>>

Next ==
  \/ \E r \in Rows : WriteRow(r) \/ MouseDown(r) \/ MouseMove(r) \/ DoubleClick(r)
  \/ MoveCursor \/ AddLine \/ ClearHistory
  \/ Scroll \/ MouseUp \/ MouseEnters \/ MouseLeaves(-1) \/ MouseLeaves(1)
  \/ \E r \in Rows : \E s \in r .. LastRow : Select(r, s) \/ selectLines(r, s)
  \/ Deselect \/ AutoScroll \/ ResizeCanvas \/ Render

Spec == Init /\ [][Next]_vars

-----------------------------------------------------------------------------
(* When render() has nothing to do, the canvas is right: each row shows its
   line, what is selected is highlighted, and the cursor is in its row and in no
   other.  Not so where the code does not see a change: a drag that is still in
   its first cell, a cursor that is hidden where it was, and the row that has no
   line keep what they showed. *)
RowsCurrent ==
  ~Wanted =>
    \A r \in Rows : HasLine(r) =>
      /\ canvas[r].line = LineAt(r)
      /\ Seen(r).selected /\ last.rows # {} => canvas[r].selected
      /\ cursor.visible => canvas[r].cursor = Seen(r).cursor
==============================================================================
