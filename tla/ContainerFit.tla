------------------------------ MODULE ContainerFit ------------------------------
(***************************************************************************)
(* The grid follows the page: FitAddon of ntwebterm.js with the listeners  *)
(* of booba.ts.  A resize of the window and a new device pixel ratio call  *)
(* fit() at once; the observer of the container calls it 100 ms after the  *)
(* last change it saw; for 50 ms after a resize both are turned away.      *)
(***************************************************************************)
EXTENDS TerminalView

CONSTANT MaxLayouts     \* bound: changes of the container

ASSUME LayoutAssumption == MaxLayouts \in Nat

VARIABLES
  container,     \* the grid that fits: proposeDimensions()
  lastFit,       \* _lastCols and _lastRows
  isResizing,    \* _isResizing and its timer
  debounce,      \* _resizeDebounceTimer is running
  layouts

fitVars == <<container, lastFit, isResizing, debounce, layouts>>
vars == <<viewVars, fitVars>>

(* Some time after init() and its first fit. *)
Init ==
  /\ ViewInit
  /\ container = cols /\ lastFit = cols
  /\ isResizing = FALSE /\ debounce = FALSE /\ layouts = 0

Fits == ~isResizing /\ container' # lastFit /\ container' # cols

(* The observer's callback, delivered after the listeners have run. *)
Observe == debounce' = (debounce \/ ~isResizing')

MarkFit == lastFit' = container' /\ isResizing' = TRUE

(* fit() does nothing; its caller says what happens to the view. *)
NoFit == ~Fits /\ UNCHANGED <<lastFit, isResizing>>

fit ==
  \/ Fits /\ MarkFit /\ UNCHANGED <<selection, gestures>> /\ Resize(container')
  \/ NoFit /\ UNCHANGED viewVars

Layout == layouts < MaxLayouts /\ layouts' = layouts + 1 /\ container' \in Sizes

WindowResizes == Layout /\ fit /\ Observe

(* The page's layout changes without the window: only the observer sees it. *)
LayoutChanges ==
  /\ Layout /\ container' # container
  /\ UNCHANGED <<lastFit, isResizing, viewVars>>
  /\ Observe

(* The cells are measured anew, so that another grid may fit. *)
DprChanges ==
  /\ Layout
  /\ \/ Fits /\ MarkFit /\ selection' = NoSelection /\ UNCHANGED gestures
        /\ Resize(container')
     \/ NoFit /\ DprBlanks /\ UNCHANGED gestures
  /\ Observe

DebounceFires ==
  /\ debounce /\ debounce' = FALSE
  /\ UNCHANGED <<container, layouts>>
  /\ fit

ResizingEnds ==
  /\ isResizing /\ isResizing' = FALSE
  /\ UNCHANGED <<container, lastFit, debounce, layouts, viewVars>>

ViewOnly(A) == A /\ UNCHANGED fitVars

Next ==
  \/ ViewOnly(ViewNext)
  \/ WindowResizes \/ LayoutChanges \/ DprChanges \/ DebounceFires \/ ResizingEnds

(* Frames come and timers fire while the page is shown. *)
Fairness ==
  /\ WF_vars(ViewOnly(renderTick)) /\ WF_vars(ViewOnly(ScrollFrame))
  /\ WF_vars(ViewOnly(HoldLapses)) /\ WF_vars(ViewOnly(SyncTimer))
  /\ WF_vars(ViewOnly(HideScrollbar)) /\ WF_vars(ViewOnly(FadeEnds /\ FadeFrame))
  /\ WF_vars(DebounceFires) /\ WF_vars(ResizingEnds)

Spec == Init /\ [][Next]_vars /\ Fairness

-----------------------------------------------------------------------------
(* No paint path shows a part of an update that the program has bracketed: not
   the echo, a resize, a scroll or the scrollbar's fade, unless the bracket has
   been open for a second (ntwebterm.js:10915-10917). *)
NoTornFrame ==
  [][screen' # screen /\ screen' # Blank /\ sync' => hold' \in {"passed", "fired"}]_vars

(* The canvas comes to show what the terminal holds: what is written, scrolled,
   selected or resized, in a bracket that is never closed too, and although
   every event asks for one frame at most and a held frame is not tried again.
   Not promised where the code asks for no frame (clear(), a drag, a new pixel
   ratio that leaves the grid as it is) and for a viewport that is beyond the
   history. *)
ContentSettles ==
  <>[](unasked \/ viewportY > scrollback \/ screen = View)

(* The observer exists "to automatically call fit() when the container size
   changes" (ntwebterm.js:11287-11293): in the end the grid fits. *)
GridFollowsContainer == <>[](cols = container)
=============================================================================
