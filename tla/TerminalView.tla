------------------------------ MODULE TerminalView ------------------------------
(***************************************************************************)
(* The terminal engine in the page (class Terminal of ntwebterm.js): what  *)
(* it holds and what its canvas shows.  It paints on demand: an event that *)
(* changes something asks for one animation frame.  Painting also happens  *)
(* at once, for the echo of a key, a resize and each frame of the          *)
(* scrollbar's fade; and a program that brackets an update with mode 2026  *)
(* holds all painting back, for a second at most.                          *)
(*                                                                         *)
(* The cells are a version number.  Cursor blink is off, its default; the  *)
(* bitmaps' own animation, link hovering and disposal are left out.        *)
(***************************************************************************)
EXTENDS Integers

CONSTANTS Sizes,           \* grid sizes
          MaxWrites,       \* bound: versions of the contents
          MaxScrollback,   \* bound: rows of history
          MaxGestures      \* bound: scrolls, selections and font changes

ASSUME ViewAssumption ==
  /\ Sizes # {} /\ {MaxWrites, MaxScrollback, MaxGestures} \subseteq Nat

VARIABLES
  content, sync, scrollback,       \* the engine; sync: mode 2026 is set
  cols,
  viewportY, target, scrolling,    \* targetViewportY, scrollAnimationFrame
  selection, awaitingEcho,
  hold,          \* syncOutputDeadline and syncOutputTimer: "none", "running",
                 \* "passed", and "fired" when the timer has run too
  frame,         \* animationFrameId is set
  bar,           \* the scrollbar: [visible, hiding, fading]
  screen,        \* what the canvas shows
  unasked,       \* history: something has changed since the last paint that
                 \* asks for no frame (ContentSettles)
  gestures

engine == <<content, sync, scrollback>>
scroll == <<viewportY, target, scrolling>>
canvas == <<hold, screen, unasked>>
viewVars == <<engine, cols, scroll, selection, awaitingEcho, canvas, frame, bar,
              gestures>>

NoSelection == 0
Selections == {NoSelection, 1}
Blank == [kind |-> "blank"]
(* Rows of a viewport beyond the history keep what they showed. *)
Stale == [kind |-> "stale"]

View == [kind |-> "view", content |-> content, viewportY |-> viewportY,
         cols |-> cols, selection |-> selection]
Picture == IF viewportY <= scrollback THEN View ELSE Stale

ViewInit ==
  /\ content = 0 /\ sync = FALSE /\ scrollback \in 0 .. MaxScrollback
  /\ cols = CHOOSE s \in Sizes : TRUE
  /\ viewportY = 0 /\ target = 0 /\ scrolling = FALSE
  /\ selection = NoSelection /\ awaitingEcho = FALSE
  /\ hold = "none" /\ frame = FALSE
  /\ bar = [visible |-> FALSE, hiding |-> FALSE, fading |-> "none"]
  /\ screen = View /\ unasked = FALSE /\ gestures = 0

Gesture == gestures < MaxGestures /\ gestures' = gestures + 1

-----------------------------------------------------------------------------
(* Painting. *)

(* holdSynchronizedOutput sets the deadline at its first call in a bracket and
   drops it at its first call outside one. *)
CheckHold == hold' = CASE ~sync' -> "none"
                       [] sync' /\ hold = "none" -> "running"
                       [] OTHER -> hold
Held == sync /\ hold = "running"

(* Fault: the frame is painted whether or not it is held. *)
RenderFrameAnyway == CheckHold /\ screen' = Picture' /\ unasked' = FALSE

RenderFrame ==
  /\ CheckHold
  /\ \/ Held' /\ UNCHANGED <<screen, unasked>>
     \/ ~Held' /\ screen' = Picture' /\ unasked' = FALSE

(* A resize of the canvas blanks it before the frame is painted. *)
RenderBlanked ==
  /\ CheckHold
  /\ \/ Held' /\ screen' = Blank /\ UNCHANGED unasked
     \/ ~Held' /\ screen' = Picture' /\ unasked' = FALSE

NotPainted == UNCHANGED canvas
Change == UNCHANGED <<hold, screen>> /\ unasked' = TRUE

requestRender == frame' = TRUE

renderTick ==
  /\ UNCHANGED <<engine, cols, scroll, selection, awaitingEcho, bar, gestures>>
  /\ frame /\ frame' = FALSE
  /\ RenderFrame

HoldLapses ==
  /\ hold = "running" /\ hold' = "passed"
  /\ UNCHANGED <<engine, cols, scroll, selection, awaitingEcho, screen, unasked,
                 frame, bar, gestures>>

(* Fault: the timer of a hold does not ask for a frame. *)
SyncTimerQuiet ==
  /\ hold = "passed" /\ hold' = "fired"
  /\ UNCHANGED <<engine, cols, scroll, selection, awaitingEcho, screen, unasked,
                 frame, bar, gestures>>

SyncTimer ==
  /\ hold = "passed" /\ hold' = "fired"
  /\ requestRender
  /\ UNCHANGED <<engine, cols, scroll, selection, awaitingEcho, screen, unasked,
                 bar, gestures>>

-----------------------------------------------------------------------------
(* The scrollbar.  Fading in paints its first frame at once. *)

FadesIn == scrollback' > 0 /\ ~bar.visible

ShowScrollbar ==
  bar' = IF scrollback' = 0 THEN bar
         ELSE [visible |-> TRUE, hiding |-> TRUE,
               fading |-> IF bar.visible THEN bar.fading ELSE "in"]

(* The delay before hiding is longer than a fade. *)
HideScrollbar ==
  /\ UNCHANGED <<engine, cols, scroll, selection, awaitingEcho, frame, gestures>>
  /\ bar.hiding /\ bar.fading = "none"
  /\ \/ bar.visible /\ bar' = [bar EXCEPT !.hiding = FALSE, !.fading = "out"]
        /\ RenderFrame
     \/ ~bar.visible /\ bar' = [bar EXCEPT !.hiding = FALSE] /\ NotPainted

FadeEnds ==
  bar' = [bar EXCEPT !.fading = "none", !.visible = bar.fading = "in"]

FadeFrame ==
  /\ UNCHANGED <<engine, cols, scroll, selection, awaitingEcho, frame, gestures>>
  /\ bar.fading # "none"
  /\ FadeEnds \/ UNCHANGED bar
  /\ RenderFrame

-----------------------------------------------------------------------------
(* Output and input. *)

(* What a program's output may do to the history: push a row, or clear it. *)
History == {scrollback, 0} \cup {n \in {scrollback + 1} : n <= MaxScrollback}

(* writeInternal: the view follows new output to the bottom, and the first
   output after a key is painted at once. *)
Write ==
  /\ UNCHANGED <<cols, target, scrolling, selection, gestures>>
  /\ content < MaxWrites /\ content' = content + 1
  /\ sync' \in BOOLEAN /\ scrollback' \in History
  /\ viewportY' = 0
  /\ CheckHold
  /\ LET scrolled == viewportY # 0
         echo == awaitingEcho /\ ~Held'
     IN  /\ IF scrolled THEN ShowScrollbar ELSE UNCHANGED bar
         /\ IF echo \/ (scrolled /\ FadesIn) THEN RenderFrame
            ELSE UNCHANGED <<screen, unasked>>
         /\ awaitingEcho' = (awaitingEcho /\ ~echo)
  /\ requestRender

(* A key drops the selection and a paste does not. *)
Input ==
  /\ Gesture
  /\ awaitingEcho' = TRUE
  /\ selection' \in {selection, NoSelection}
  /\ IF selection' # selection THEN Change ELSE NotPainted
  /\ UNCHANGED <<engine, cols, scroll, frame, bar>>

Clear ==
  /\ content < MaxWrites /\ content' = content + 1
  /\ Change
  /\ UNCHANGED <<sync, scrollback, cols, scroll, selection, awaitingEcho, frame, bar,
                 gestures>>

Reset ==
  /\ content < MaxWrites /\ content' = content + 1
  /\ sync' = FALSE /\ scrollback' = 0
  /\ requestRender /\ NotPainted
  /\ UNCHANGED <<cols, scroll, selection, awaitingEcho, bar, gestures>>

(* select, selectAll, deselect and the end of a drag report the selection. *)
Select ==
  /\ Gesture
  /\ selection' \in Selections \ {selection}
  /\ requestRender /\ NotPainted
  /\ UNCHANGED <<engine, cols, scroll, awaitingEcho, bar>>

(* A drag, and clearSelection, only call the manager's empty requestRender. *)
DragSelection ==
  /\ Gesture
  /\ selection' \in Selections \ {selection}
  /\ Change
  /\ UNCHANGED <<engine, cols, scroll, awaitingEcho, frame, bar>>

-----------------------------------------------------------------------------
(* Scrolling. *)

ScrolledTo(y) ==
  /\ viewportY' = y
  /\ UNCHANGED engine
  /\ ShowScrollbar
  /\ IF FadesIn THEN RenderFrame ELSE NotPainted
  /\ requestRender

(* scrollLines, scrollPages, scrollToTop, scrollToBottom, scrollToLine. *)
ScrollTo ==
  /\ UNCHANGED <<cols, target, scrolling, selection, awaitingEcho>>
  /\ Gesture
  /\ \E y \in (0 .. scrollback) \ {viewportY} : ScrolledTo(y)

Between(y, z) == IF y < z THEN y + 1 .. z ELSE z .. y - 1

(* One run of animateScroll; the positions between two rows are left out. *)
AnimateScroll(t) ==
  \/ viewportY = t /\ ScrolledTo(t) /\ scrolling' = FALSE
  \/ /\ viewportY # t
     /\ \E y \in Between(viewportY, t) : ScrolledTo(y)
     /\ scrolling' = TRUE

(* smoothScrollTo, by the wheel: a running animation takes the new target. *)
SmoothScrollTo ==
  /\ UNCHANGED <<cols, selection, awaitingEcho>>
  /\ Gesture
  /\ target' \in 0 .. scrollback
  /\ \/ ~scrolling /\ AnimateScroll(target')
     \/ scrolling /\ UNCHANGED <<engine, viewportY, scrolling, canvas, frame, bar>>

ScrollFrame ==
  /\ UNCHANGED <<cols, target, selection, awaitingEcho, gestures>>
  /\ scrolling
  /\ AnimateScroll(target)

-----------------------------------------------------------------------------
(* Sizes. *)

(* Terminal.resize: the frame under way is cancelled and a new one asked for;
   the history is wrapped anew and the viewport stays where it is. *)
Resize(size) ==
  /\ UNCHANGED <<content, sync, scroll, awaitingEcho, bar>>
  /\ cols' = size
  /\ scrollback' \in 0 .. MaxScrollback
  /\ requestRender
  /\ RenderBlanked

(* A new font size or family: handleFontChange, asked for by the renderer. *)
FontChange ==
  /\ UNCHANGED <<engine, cols, scroll, awaitingEcho, bar>>
  /\ Gesture
  /\ selection' = NoSelection
  /\ requestRender
  /\ RenderBlanked

(* A new device pixel ratio: the terminal's listener paints the resized canvas
   and the page's listener, which comes second, blanks it again. *)
DprBlanks ==
  /\ UNCHANGED <<engine, cols, scroll, awaitingEcho, frame, bar>>
  /\ selection' = NoSelection
  /\ CheckHold /\ screen' = Blank /\ unasked' = TRUE

ViewNext ==
  \/ renderTick \/ HoldLapses \/ SyncTimer \/ HideScrollbar \/ FadeFrame
  \/ Write \/ Input \/ Clear \/ Reset \/ Select \/ DragSelection
  \/ ScrollTo \/ SmoothScrollTo \/ ScrollFrame \/ FontChange
=============================================================================
