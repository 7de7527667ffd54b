----------------------------- MODULE PointerInput -----------------------------
(***************************************************************************)
(* Fingers and a mouse on the terminal's canvas, and the mouse reports the *)
(* program behind it receives: TouchInput (ts/touch_input.ts) and the      *)
(* mouse handlers of the engine's InputHandler                             *)
(* (serve/static/ntwebterm/ntwebterm.js).                                  *)
(*                                                                         *)
(* Fingers move along one line of cells, 40 CSS pixels each; lengths are   *)
(* counted in units of 20.  The program keeps what holds the button, as    *)
(* the one in web/_assets/touch-tracking.js does.                          *)
(***************************************************************************)
EXTENDS Integers, FiniteSets

CONSTANTS
  Fingers,  \* those that touch the canvas
  Outside,  \* those that touch another part of the page: they count as
            \* touches and send the terminal no events
  LastCell, \* the cells are 0 .. LastCell
  Null

ASSUME PointerAssumption == /\ Fingers \cap Outside = {}
                            /\ Null \notin Fingers \cup Outside
                            /\ IsFiniteSet(Fingers \cup Outside)
                            /\ LastCell \in Nat

VARIABLES
  pos,       \* the cell each finger is on, or Up
  gesture,   \* TouchInput's active, finger, lastCell, pendingCell and pair; an
             \* animation frame is requested while pendingCell is a cell
  suppress,  \* suppressMouseUntil is in the future
  compat,    \* the mouse events the browser makes up for the touch that ended:
             \* "none", "down" (still to come) or "up"
  mouse,     \* mouseButtonsPressed, the left button, and where the mouse is
  listening, \* before dispose()
  tracking,  \* the program has asked for mouse reports
  readOnly,  \* actionReadOnly or disableStdin
  report,    \* what this step sent: [by, kind, cell], or Null
  held,      \* the program's view: who holds the button, a subset of
             \* {"touch", "mouse"}
  cut,       \* input was disabled in the middle of a touch the program saw
  past       \* what happened since the canvas was free: a subset of {"reported",
             \* "switched", "canvas", "page"}, the last two for a second touch

settings == <<compat, mouse, listening, tracking, readOnly>>
pointerVars == <<pos, gesture, suppress, settings, report, held, cut, past>>

Up == -1
All == Fingers \cup Outside
Cells == 0 .. LastCell
Threshold == 2

Touches(p) == {f \in All : p[f] # Up}

Tracked == tracking /\ ~readOnly

Idle == [active |-> FALSE, finger |-> Null, last |-> Up, pending |-> Up,
         pair |-> Null]

PointerInit ==
  /\ pos = [f \in All |-> Up]
  /\ gesture = Idle
  /\ suppress = FALSE /\ compat = "none"
  /\ mouse = [down |-> FALSE, pressed |-> FALSE]
  /\ listening = TRUE /\ tracking = TRUE /\ readOnly = FALSE
  /\ report = Null /\ held = {} /\ cut = FALSE /\ past = {}

-----------------------------------------------------------------------------
(* What is sent, and what the program makes of it (receive). *)

Send(by, kind, cell) ==
  /\ report' = [by |-> by, kind |-> kind, cell |-> cell]
  /\ held' = CASE kind = "press" -> held \cup {by}
               [] kind = "release" -> held \ {by}
               [] OTHER -> held
  /\ cut' = (cut /\ ~(by = "touch" /\ kind = "release"))

Silent == report' = Null /\ UNCHANGED <<held, cut>>

-----------------------------------------------------------------------------
(* The touch handlers, after an event with the touches of p: what becomes of
   the gesture, and what is sent. *)

Becomes(g) == gesture' = g
Prevent == suppress' = TRUE

(* hasMouseTracking() is false: clear(), without a release. *)
Forget == /\ gesture' = Idle
          /\ cut' = (cut \/ "touch" \in held)
          /\ report' = Null
          /\ UNCHANGED <<held, suppress>>

(* Fault: the animation frame stays requested. *)
ReleasedKeepsFrame(g) == [g EXCEPT !.finger = Null, !.last = Up]

Released(g) == [g EXCEPT !.finger = Null, !.last = Up, !.pending = Up]

(* Fault: the pending cell is forgotten. *)
LatestIsLast(g) == g.last

Latest(g) == IF g.pending # Up THEN g.pending ELSE g.last

SendRelease(cell) == IF gesture.finger = Null THEN Silent
                     ELSE Send("touch", "release", cell)

Distance(p, q) == 2 * (IF p > q THEN p - q ELSE q - p)

Pair(ids, p) == LET f == CHOOSE f \in ids : TRUE
                    g == CHOOSE g \in ids \ {f} : TRUE
                IN  [ids |-> ids, distance |-> Distance(p[f], p[g]),
                     y |-> p[f] + p[g]]

StartPress(g, f, p) == /\ Becomes([g EXCEPT !.finger = f, !.last = p[f]])
                       /\ Send("touch", "press", p[f])

(* Fault: the second finger forgets the first. *)
StartPairNoRelease(g, p) ==
  /\ Becomes([Released(g) EXCEPT
       !.pair = IF Cardinality(Touches(p)) = 2 THEN Pair(Touches(p), p) ELSE Null])
  /\ Silent

StartPair(g, p) ==
  /\ Becomes([Released(g) EXCEPT
       !.pair = IF Cardinality(Touches(p)) = 2 THEN Pair(Touches(p), p) ELSE Null])
  /\ SendRelease(Latest(g))

Start(p) ==
  \/ ~Tracked /\ Forget
  \/ LET g == [gesture EXCEPT !.active = TRUE]
     IN  /\ Tracked
         /\ Prevent
         /\ IF Cardinality(Touches(p)) >= 2 THEN StartPair(g, p)
            ELSE IF g.finger = Null /\ g.pair = Null
            THEN \E f \in Touches(p) : StartPress(g, f, p)
            ELSE Becomes(g) /\ Silent

Size(n) == IF n < 0 THEN -n ELSE n
Whole(n) == Threshold * (Size(n) \div Threshold) * (IF n < 0 THEN -1 ELSE 1)

(* Two fingers: a pinch or a vertical scroll becomes wheel steps. *)
Wheel(p) ==
  LET was == gesture.pair
      now == Pair(was.ids, p)
      pinch == now.distance - was.distance
      pinches == Size(pinch) >= Threshold
      delta == IF pinches THEN pinch ELSE now.y - was.y
  IN  IF Size(delta) < Threshold THEN Becomes(gesture) /\ Silent
      ELSE /\ Becomes([gesture EXCEPT !.pair.distance =
                         IF pinches THEN @ + Whole(delta) ELSE now.distance,
                                      !.pair.y = now.y])
           /\ Send("touch", IF delta > 0 THEN "up" ELSE "down", now.y \div 2)

Move(p) ==
  \/ ~Tracked /\ Forget
  \/ /\ Tracked /\ ~gesture.active
     /\ Becomes(gesture) /\ Silent /\ UNCHANGED suppress
  \/ /\ Tracked /\ gesture.active
     /\ Prevent
     /\ IF gesture.pair # Null /\ gesture.pair.ids = Touches(p) THEN Wheel(p)
        ELSE IF Touches(p) = {gesture.finger}
        THEN Becomes([gesture EXCEPT !.pending = p[gesture.finger]]) /\ Silent
        ELSE Becomes(gesture) /\ Silent

(* Fault: the end of a touch does not renew the suppression of mouse events. *)
EndPreventNot == UNCHANGED suppress

EndPrevent == Prevent

(* touchend and touchcancel; a finger is lifted where it is. *)
End(lifted, cancel, p) ==
  \/ ~Tracked /\ Forget
  \/ /\ Tracked /\ ~gesture.active
     /\ Becomes(gesture) /\ Silent /\ UNCHANGED suppress
  \/ LET ends == gesture.finger # Null /\ (gesture.finger \in lifted \/ cancel)
         g == IF ends THEN Released(gesture) ELSE gesture
     IN  /\ Tracked /\ gesture.active
         /\ EndPrevent
         /\ Becomes(IF Touches(p) = {} \/ cancel THEN Idle
                    ELSE [g EXCEPT !.pair = IF Cardinality(Touches(p)) < 2
                                            THEN Null ELSE @])
         /\ IF ends THEN SendRelease(IF gesture.finger \in lifted
                                     THEN pos[gesture.finger] ELSE Latest(gesture))
            ELSE Silent

-----------------------------------------------------------------------------
(* The user's fingers.  Events of the canvas reach TouchInput until dispose();
   one or several fingers may land or leave in one event. *)

Free(p) == Touches(p) \cap Fingers = {}

Crowded(p) == IF Free(p) \/ Cardinality(Touches(p)) < 2 THEN {}
              ELSE (IF Cardinality(Touches(p) \cap Fingers) > 1 THEN {"canvas"} ELSE {})
                   \cup (IF Touches(p) \subseteq Fingers THEN {} ELSE {"page"})

Remember == past' = (IF Free(pos) THEN {} ELSE past) \cup Crowded(pos')
                    \cup (IF report' = Null THEN {} ELSE {"reported"})

Handle(handler) == IF listening THEN handler
                   ELSE Silent /\ UNCHANGED <<gesture, suppress>>

Land(fs, p) == /\ \A f \in fs : pos[f] = Up
               /\ pos' = [f \in All |-> IF f \in fs THEN p[f] ELSE pos[f]]
               /\ compat' = "none"
               /\ Handle(Start(pos'))
               /\ Remember
               /\ UNCHANGED <<mouse, listening, tracking, readOnly>>

Drag(f, c) == /\ pos[f] # Up /\ Size(pos[f] - c) = 1
              /\ pos' = [pos EXCEPT ![f] = c]
              /\ Handle(Move(pos'))
              /\ Remember
              /\ UNCHANGED settings

Lift(fs, cancel) ==
  /\ \A f \in fs : pos[f] # Up
  /\ pos' = [f \in All |-> IF f \in fs THEN Up ELSE pos[f]]
  /\ compat' = IF ~cancel /\ Touches(pos') = {} /\ "canvas" \notin past
               THEN "down" ELSE "none"
  /\ Handle(End(fs, cancel, pos'))
  /\ past' = past \cup (IF report' = Null THEN {} ELSE {"reported"})
  /\ UNCHANGED <<mouse, listening, tracking, readOnly>>

(* A finger elsewhere on the page lands or is lifted. *)
OutsideMoves(f) ==
  /\ pos' = [pos EXCEPT ![f] = IF @ = Up THEN 0 ELSE Up]
  /\ past' = past \cup Crowded(pos')
  /\ Silent
  /\ UNCHANGED <<gesture, suppress, settings>>

(* The requested animation frame. *)
Frame ==
  /\ gesture.pending # Up
  /\ \/ ~Tracked /\ Forget
     \/ /\ Tracked
        /\ IF gesture.pending = gesture.last
           THEN Becomes([gesture EXCEPT !.pending = Up]) /\ Silent
           ELSE /\ Becomes([gesture EXCEPT !.pending = Up, !.last = gesture.pending])
                /\ Send("touch", "drag", gesture.pending)
        /\ UNCHANGED suppress
  /\ past' = past \cup (IF report' = Null THEN {} ELSE {"reported"})
  /\ UNCHANGED <<pos, settings>>

(* COMPAT_MOUSE_TIMEOUT, which is longer than a browser waits with the mouse
   events of a touch. *)
Expire == /\ suppress /\ compat = "none"
          /\ suppress' = FALSE
          /\ Silent
          /\ UNCHANGED <<pos, gesture, settings, past>>

Dispose == /\ listening
           /\ listening' = FALSE
           /\ IF gesture.finger # Null /\ Tracked
              THEN SendRelease(Latest(gesture))
              ELSE /\ report' = Null /\ UNCHANGED held
                   /\ cut' = (cut \/ "touch" \in held)
           /\ gesture' = Idle
           /\ UNCHANGED <<pos, suppress, compat, mouse, tracking, readOnly, past>>

-----------------------------------------------------------------------------
(* Mouse events.  TouchInput's capture listener lets a real mouse through and
   stops what the browser makes up for a touch, within the time window; what
   gets through reaches the InputHandler. *)

Stopped == listening /\ suppress

touchSide == <<pos, gesture, suppress, past>>

(* The engine's handleMouseDown, handleMouseUp, handleMouseMove and handleWheel;
   hasMouseTracking() there is the program's mode, and what a read-only terminal
   sends is dropped.  The InputHandler is disposed of with TouchInput. *)
MouseReport(kind) == IF ~tracking \/ readOnly \/ ~listening THEN Silent
                     ELSE Send("mouse", kind, 0)

MouseDown == /\ ~mouse.down
             /\ mouse' = [down |-> TRUE, pressed |-> mouse.pressed \/ tracking]
             /\ MouseReport("press")
             /\ UNCHANGED <<touchSide, compat, listening, tracking, readOnly>>

(* The listeners are the container's: a button released elsewhere is not
   noticed. *)
MouseUp(inside) ==
  /\ mouse.down
  /\ mouse' = [down |-> FALSE, pressed |-> mouse.pressed /\ ~(inside /\ tracking)]
  /\ IF inside THEN MouseReport("release") ELSE Silent
  /\ UNCHANGED <<touchSide, compat, listening, tracking, readOnly>>

MouseMove == /\ MouseReport(IF mouse.pressed THEN "drag" ELSE "motion")
             /\ UNCHANGED <<touchSide, settings>>

MouseWheel == /\ \E kind \in {"up", "down"} : MouseReport(kind)
              /\ UNCHANGED <<touchSide, settings>>

CompatDown == /\ compat = "down"
              /\ compat' = "up"
              /\ IF Stopped THEN Silent /\ UNCHANGED mouse
                 ELSE /\ mouse' = [mouse EXCEPT !.pressed = @ \/ tracking]
                      /\ MouseReport("press")
              /\ UNCHANGED <<touchSide, listening, tracking, readOnly>>

CompatUp == /\ compat = "up"
            /\ compat' = "none"
            /\ IF Stopped THEN Silent /\ UNCHANGED mouse
               ELSE /\ mouse' = [mouse EXCEPT !.pressed = @ /\ ~tracking]
                    /\ MouseReport("release")
            /\ UNCHANGED <<touchSide, listening, tracking, readOnly>>

-----------------------------------------------------------------------------
(* The program switches its mouse mode, and starts afresh (setTracking); the
   page makes the terminal read-only. *)

SetTracking == /\ tracking' = ~tracking
               /\ report' = Null /\ held' = {}
               /\ cut' = (gesture.finger # Null)
               /\ past' = past \cup {"switched"}
               /\ UNCHANGED <<pos, gesture, suppress, compat, mouse, listening,
                              readOnly>>

SetReadOnly == /\ readOnly' = ~readOnly
               /\ Silent
               /\ past' = past \cup {"switched"}
               /\ UNCHANGED <<pos, gesture, suppress, compat, mouse, listening,
                              tracking>>

PointerNext ==
  \/ \E fs \in (SUBSET Fingers) \ {{}} :
       \/ \E p \in [fs -> Cells] : Land(fs, p)
       \/ \E cancel \in BOOLEAN : Lift(fs, cancel)
  \/ \E f \in Fingers, c \in Cells : Drag(f, c)
  \/ \E f \in Outside : OutsideMoves(f)
  \/ Frame \/ Expire \/ Dispose
  \/ MouseDown \/ (\E inside \in BOOLEAN : MouseUp(inside)) \/ MouseMove
  \/ MouseWheel \/ CompatDown \/ CompatUp
  \/ SetTracking \/ SetReadOnly

PointerSpec == PointerInit /\ [][PointerNext]_pointerVars
-----------------------------------------------------------------------------
(* No button is stuck: once the fingers have left the canvas, the program no
   longer takes the button for held by a touch, unless reports were switched
   off, by the program or by the page, before that touch ended. *)
NothingHeld == Free(pos) /\ "touch" \in held => cut

Sent(by) == report' # Null /\ report'.by = by

(* What the program is told of touches makes sense to it: a press when the
   button is up, drags and the release while it is down, a drag or a release at
   the cell where the finger was last, and after a pinch no press and no drag
   until every finger has left ("wait for all fingers to lift rather than
   starting a stray drag", ts/touch_input.ts:136). *)
TouchesPaired ==
  [][Sent("touch") /\ ~cut =>
       /\ report'.kind = "press" => "touch" \notin held
       /\ report'.kind \in {"drag", "release"} =>
            /\ "touch" \in held
            /\ "page" \notin past => report'.cell = pos[gesture.finger]
       /\ report'.kind \in {"press", "drag"} => "canvas" \notin past']_pointerVars

(* A touch that was reported is not reported once more by the mouse events the
   browser makes up for it (ts/touch_input.ts:163-170), unless reports were
   switched off or on in between. *)
NotReportedTwice ==
  [][Sent("mouse") /\ compat = "down" /\ compat' = "up" /\ "reported" \in past
       => "switched" \in past]_pointerVars
=============================================================================
