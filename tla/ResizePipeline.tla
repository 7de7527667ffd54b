---------------------------- MODULE ResizePipeline ----------------------------
(***************************************************************************)
(* The way of a window size from a client's MsgResize to the PTY and to    *)
(* the Bubble Tea program: newResizeApplier (serve/resize_throttle.go),    *)
(* ptySession.applyResize (serve/pty.go) and forwardResizeEvents           *)
(* (serve/bubbletea.go).                                                   *)
(*                                                                         *)
(* A size is the number of the apply call that brought it; 0 is the size   *)
(* of the session's creation and stands for "empty" in a channel.  Every   *)
(* resize carries pixel dimensions.  The select statements, the channel    *)
(* operations under ptySession.mu and the lock itself are separate steps.  *)
(***************************************************************************)
EXTENDS Naturals, FiniteSets

CONSTANTS
  Appliers,  \* goroutines that call apply: a server has one, the input loop
  Wrapped,   \* a SessionMiddleware embeds the session
  MaxCalls   \* bound on the calls of apply

ASSUME ResizeAssumption == /\ Wrapped \in BOOLEAN
                           /\ MaxCalls \in Nat

VARIABLES
  calls,    \* apply calls so far
  ap,       \* per applier: "idle", "drain" or "push" (the two selects)
  val,      \* per applier: the size it applies
  pending,  \* the channel pending
  stopped,  \* stop was called
  thr,      \* the throttle goroutine
  latest, have,
  closed,   \* ptySession.closed
  winSize,  \* ptySession.winSize
  resize,   \* the channel ptySession.resize
  pty,      \* "open" or "closed"
  winch,    \* the PTY's window size: [cells, pixels]
  fwd,      \* the goroutine of forwardResizeEvents
  msg,      \* the size it is about to send
  shown     \* the size the program was told last

throttle == <<stopped, thr, latest, have>>
applier == <<calls, ap, val>>
session == <<closed, winSize, resize, pty, winch>>
forward == <<fwd, msg, shown>>
resizeVars == <<applier, pending, throttle, session, forward>>

None == 0
Locked == {"send", "drain", "resend", "ioctl"}
ThrSteps == {"select", "apply", "dead"} \cup Locked

ResizeInit ==
  /\ calls = 0
  /\ ap = [a \in Appliers |-> "idle"]
  /\ val = [a \in Appliers |-> None]
  /\ pending = None
  /\ stopped = FALSE /\ thr = "select" /\ latest = None /\ have = FALSE
  /\ closed = FALSE /\ winSize = 0 /\ resize = None
  /\ pty = "open" /\ winch = [cells |-> 0, pixels |-> 0]
  /\ fwd = "start" /\ msg = None /\ shown = None

-----------------------------------------------------------------------------
(* apply *)

Call(a) == /\ ap[a] = "idle"
           /\ calls < MaxCalls
           /\ calls' = calls + 1
           /\ ap' = [ap EXCEPT ![a] = "drain"]
           /\ val' = [val EXCEPT ![a] = calls + 1]
           /\ UNCHANGED <<pending, throttle, session, forward>>

(* Fault: apply keeps a value that is pending. *)
DrainPendingNot(a) == /\ ap[a] = "drain"
                      /\ ap' = [ap EXCEPT ![a] = "push"]
                      /\ UNCHANGED <<calls, val, pending, throttle,
                                     session, forward>>

DrainPending(a) == /\ ap[a] = "drain"
                   /\ pending' = None
                   /\ ap' = [ap EXCEPT ![a] = "push"]
                   /\ UNCHANGED <<calls, val, throttle, session,
                                  forward>>

(* The value is dropped when another applier has pushed in between. *)
Push(a) == /\ ap[a] = "push"
           /\ pending' = IF pending = None THEN val[a] ELSE pending
           /\ ap' = [ap EXCEPT ![a] = "idle"]
           /\ UNCHANGED <<calls, val, throttle, session, forward>>

-----------------------------------------------------------------------------
(* The throttle goroutine. *)

(* The deferred stop() of the transport handler. *)
Stop == /\ ~stopped
        /\ stopped' = TRUE
        /\ UNCHANGED <<applier, pending, thr, latest, have, session, forward>>

TakeStop == /\ thr = "select" /\ stopped
            /\ thr' = "dead"
            /\ UNCHANGED <<applier, pending, stopped, latest, have, session,
                           forward>>

TakePending == /\ thr = "select" /\ pending # None
               /\ latest' = pending
               /\ have' = TRUE
               /\ pending' = None
               /\ UNCHANGED <<applier, stopped, thr, session, forward>>

Tick == /\ thr = "select" /\ have
        /\ thr' = "apply"
        /\ UNCHANGED <<applier, pending, stopped, latest, have, session, forward>>

(* applyResize, called through ResizeWindow, or through Resize when the
   session does not show its ResizeWindow: a size without pixels. *)
BackToSelect == thr' = "select" /\ have' = FALSE

Lock == /\ thr = "apply"
        /\ \/ /\ closed
              /\ BackToSelect
              /\ UNCHANGED winSize
           \/ /\ ~closed
              /\ winSize' = latest
              /\ thr' = "send"
              /\ UNCHANGED have
        /\ UNCHANGED <<applier, pending, stopped, latest, closed, resize, pty,
                       winch, forward>>

(* Fault: a full channel keeps the older event. *)
TrySendKeeps == /\ thr = "send"
                /\ resize' = IF resize = None THEN winSize ELSE resize
                /\ thr' = "ioctl"
                /\ UNCHANGED <<applier, pending, stopped, latest, have, closed,
                               winSize, pty, winch, forward>>

TrySend == /\ thr = "send"
           /\ IF resize = None THEN resize' = winSize /\ thr' = "ioctl"
                               ELSE thr' = "drain" /\ UNCHANGED resize
           /\ UNCHANGED <<applier, pending, stopped, latest, have, closed,
                          winSize, pty, winch, forward>>

DrainEvent == /\ thr = "drain"
              /\ resize' = None
              /\ thr' = "resend"
              /\ UNCHANGED <<applier, pending, stopped, latest, have, closed,
                             winSize, pty, winch, forward>>

(* A plain send: it blocks, with the lock held, on a full channel. *)
Resend == /\ thr = "resend"
          /\ resize = None
          /\ resize' = winSize
          /\ thr' = "ioctl"
          /\ UNCHANGED <<applier, pending, stopped, latest, have, closed, winSize,
                         pty, winch, forward>>

SetWinsize == /\ thr = "ioctl"
              /\ winch' = [cells |-> winSize,
                           pixels |-> IF Wrapped THEN 0 ELSE winSize]
              /\ BackToSelect
              /\ UNCHANGED <<applier, pending, stopped, latest, closed, winSize,
                             resize, pty, forward>>

Throttle == \/ TakeStop \/ TakePending \/ Tick
            \/ Lock \/ TrySend \/ DrainEvent \/ Resend \/ SetWinsize

-----------------------------------------------------------------------------
(* Close: see PtySession for what happens between the flag and the PTY. *)

Free == thr \notin Locked

(* Fault: Close does not take the lock. *)
SetClosedUnlocked == /\ ~closed
                     /\ closed' = TRUE
                     /\ UNCHANGED <<applier, pending, throttle, winSize, resize,
                                    pty, winch, forward>>

SetClosed == /\ Free /\ ~closed
             /\ closed' = TRUE
             /\ UNCHANGED <<applier, pending, throttle, winSize, resize, pty,
                            winch, forward>>

ClosePty == /\ closed /\ pty = "open"
            /\ pty' = "closed"
            /\ UNCHANGED <<applier, pending, throttle, closed, winSize, resize,
                           winch, forward>>

-----------------------------------------------------------------------------
(* forwardResizeEvents *)

ReadWindowSize == /\ fwd = "start" /\ Free
                  /\ msg' = winSize
                  /\ fwd' = "send"
                  /\ UNCHANGED <<applier, pending, throttle, session, shown>>

(* prog.Send; a wrapped session is no resizeEventSource. *)
Send == /\ fwd = "send"
        /\ shown' = msg
        /\ fwd' = IF Wrapped THEN "dead" ELSE "select"
        /\ UNCHANGED <<applier, pending, throttle, session, msg>>

TakeEvent == /\ fwd = "select" /\ resize # None
             /\ msg' = resize
             /\ resize' = None
             /\ fwd' = "send"
             /\ UNCHANGED <<applier, pending, throttle, closed, winSize, pty, winch,
                            shown>>

TakeDone == /\ fwd = "select" /\ closed
            /\ fwd' = "dead"
            /\ UNCHANGED <<applier, pending, throttle, session, msg, shown>>

Forward == ReadWindowSize \/ Send \/ TakeEvent \/ TakeDone

-----------------------------------------------------------------------------
ResizeNext ==
  \/ \E a \in Appliers : Call(a) \/ DrainPending(a) \/ Push(a)
  \/ Stop \/ Throttle
  \/ SetClosed \/ ClosePty
  \/ Forward

(* The goroutines run and the ticker ticks; a select with several ready cases
   takes each of them sooner or later.  Nobody has to resize, stop or close. *)
Fairness == /\ \A a \in Appliers : WF_resizeVars(DrainPending(a) \/ Push(a))
            /\ WF_resizeVars(Throttle) /\ SF_resizeVars(Tick)
            /\ WF_resizeVars(ClosePty)
            /\ WF_resizeVars(Forward)

ResizeSpec == ResizeInit /\ [][ResizeNext]_resizeVars /\ Fairness
-----------------------------------------------------------------------------
Sizes == 0 .. MaxCalls

ResizeTypeOK ==
  /\ calls \in Sizes
  /\ ap \in [Appliers -> {"idle", "drain", "push"}]
  /\ val \in [Appliers -> Sizes]
  /\ {pending, latest, winSize, resize, msg, shown} \subseteq Sizes
  /\ {stopped, have, closed} \subseteq BOOLEAN
  /\ thr \in ThrSteps
  /\ have \/ thr \notin {"select", "dead"} => latest # None
  /\ pty \in {"open", "closed"}
  /\ winch \in [cells : Sizes, pixels : Sizes]
  /\ fwd \in {"start", "send", "select", "dead"}

(* "Resizes stop once closing begins" (DEVELOP.md): the ioctl is never made
   on the file descriptor that Close is about to close, or has closed. *)
NoLateResize == thr \in Locked => ~closed /\ pty = "open"

(* Whenever the lock is free the session, the PTY and the program's queue
   agree: the event that is waiting is the size the PTY has. *)
SizesAgree == Free => /\ winch.cells = winSize
                      /\ resize \in {None, winSize}

(* The plain send of applyResize, made while ptySession.mu is held, does not
   block: it would stop Close and WindowSize for ever. *)
SendNeverBlocks == thr = "resend" => resize = None

(* With one applier, as in the server, the program never sees an older size
   after a newer one, although the first message comes from WindowSize() and
   the others from a channel. *)
NeverBackwards == [][shown' >= shown /\ winch'.cells >= winch.cells]_resizeVars

(* The size the client sent last reaches the PTY, with its pixel dimensions,
   and the program, however often the throttle replaced its predecessors. *)
Settled == /\ winch = [cells |-> calls, pixels |-> calls]
           /\ shown = calls

LastSizeArrives == (\A a \in Appliers : ap[a] = "idle")
                     ~> \/ Settled \/ closed \/ stopped
                        \/ \E a \in Appliers : ap[a] # "idle"
=============================================================================
