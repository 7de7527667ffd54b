------------------------------- MODULE ActionHost -------------------------------
(***************************************************************************)
(* A program with actions, as it is or wrapped by actions/termhost: a      *)
(* wrapper of the model and of the output that waits for the terminal's    *)
(* answer to the capability query and, when none comes in time, answers it *)
(* itself, keeps the reports out of the output and draws the buttons.      *)
(*                                                                         *)
(* Three goroutines meet here: the event loop runs the model, the renderer *)
(* calls Writer.Write, and a command waits for the writer's wake-up.  What *)
(* the program writes goes to `written`; the Writer passes it on to the    *)
(* terminal (`wire`) or to the model.  A sequence that is split over two   *)
(* writes is held until it is complete and decided then, as an item here.  *)
(***************************************************************************)
EXTENDS ActionChannel

CONSTANTS Setups,            \* [wrapped, plain, ordered]: with termhost, in a
                             \* terminal that never answers, with commands that
                             \* run in the order of their results
          MaxHostedChanges   \* bound: changes of a wrapped program's description

ASSUME HostAssumption ==
  /\ Setups \subseteq [wrapped : BOOLEAN, plain : BOOLEAN, ordered : BOOLEAN]
  /\ MaxHostedChanges \in Nat

VARIABLES
  setup,            \* chosen once
  written,          \* written by the program, not yet seen by the Writer
  mode, timer,      \* Model.mode, which the Writer shares; the probe's timer
  pending, wake,    \* Writer
  listener,         \* the listen() command: "waiting", "message", "draining"
  taken,            \* the events that a drain has taken
  hosted            \* Model.snapshot

hostVars == <<setup, written, mode, timer, pending, wake, listener, taken, hosted>>
queue == <<pending, wake, listener, taken>>

Program == INSTANCE ActionChannel WITH wire <- written

HostInit ==
  /\ Init
  /\ setup \in Setups /\ setup.ordered = ordered
  /\ written = <<>> /\ mode = "probing" /\ timer = TRUE
  /\ pending = <<>> /\ wake = FALSE /\ listener = "waiting" /\ taken = <<>>
  /\ hosted = Nothing

pageRest == <<ordered, output, screen, wire, replies, page, bounds, wiped>>

-----------------------------------------------------------------------------
(* The event loop: one Update at a time. *)

EventLoopFree == listener # "draining"

(* Model.forward of a message of the program's own. *)
ForwardChange ==
  /\ EventLoopFree
  /\ \/ Program!SwitchScreen
     \/ /\ changes < MaxHostedChanges
        /\ \E d \in Contents \cup {Bad} : Program!Change(d)
  /\ UNCHANGED <<wire, hostVars>>

(* The terminal's ProgramStatusSupportMsg ends the probe, and is forwarded. *)
TerminalAnswers ==
  /\ EventLoopFree
  /\ mode' = IF mode = "probing" THEN "passthrough" ELSE mode
  /\ Program!Supported
  /\ UNCHANGED <<wire, setup, timer, queue, hosted>>

(* forward(ProgramStatusSupportMsg) of the host's own. *)
ForwardSupport == supported' = TRUE /\ Publish(desc, TRUE)

(* Fault: the timeout takes over although the terminal has answered. *)
ProbeTimeoutAnyway ==
  /\ EventLoopFree /\ timer
  /\ timer' = FALSE
  /\ mode' = "hosting" /\ ForwardSupport
  /\ UNCHANGED <<pageRest, desc, alternate, setup, written, queue, hosted>>

ProbeTimeout ==
  /\ EventLoopFree /\ timer
  /\ timer' = FALSE
  /\ \/ mode = "probing" /\ mode' = "hosting" /\ ForwardSupport
     \/ mode # "probing" /\ UNCHANGED <<mode, supported, retry, publisher, cmds>>
  /\ UNCHANGED <<pageRest, desc, alternate, setup, written, queue, hosted>>

(* drainMsg: Writer.drain takes what there is. *)
Drain ==
  /\ listener = "message"
  /\ listener' = "draining"
  /\ taken' = pending /\ pending' = <<>>
  /\ UNCHANGED <<pageRest, model, publisher, cmds, setup, written, mode, timer,
                 wake, hosted>>

HandleEvent ==
  /\ listener = "draining" /\ taken # <<>>
  /\ taken' = Tail(taken)
  /\ LET e == Head(taken)
     IN  \/ e.kind = "query" /\ hosted' = Nothing /\ ForwardSupport
         \/ /\ e.kind = "clear" /\ hosted' = Nothing
            /\ UNCHANGED <<supported, retry, publisher, cmds>>
         \/ /\ e.kind = "report" /\ hosted' = e
            /\ UNCHANGED <<supported, retry, publisher, cmds>>
  /\ UNCHANGED <<pageRest, desc, alternate, setup, written, mode, timer, pending,
                 wake, listener>>

(* Fault: listen() is not run again after a drain. *)
ListenAgainNot ==
  /\ listener = "draining" /\ taken = <<>>
  /\ listener' = "gone"
  /\ UNCHANGED <<pageRest, model, publisher, cmds, setup, written, mode, timer,
                 pending, wake, taken, hosted>>

ListenAgain ==
  /\ listener = "draining" /\ taken = <<>>
  /\ listener' = "waiting"
  /\ UNCHANGED <<pageRest, model, publisher, cmds, setup, written, mode, timer,
                 pending, wake, taken, hosted>>

(* The command of listen() receives the wake-up and sends drainMsg. *)
Listen ==
  /\ listener = "waiting" /\ wake
  /\ wake' = FALSE /\ listener' = "message"
  /\ UNCHANGED <<pageRest, model, publisher, cmds, setup, written, mode, timer,
                 pending, taken, hosted>>

-----------------------------------------------------------------------------
(* Commands and the renderer, which writes to the Writer. *)

RunCommand ==
  /\ \E i \in 1 .. Len(cmds) : Program!Execute(i)
  /\ UNCHANGED <<wire, hostVars>>

Render ==
  /\ Program!Tick
  /\ UNCHANGED <<wire, setup, mode, timer, queue, hosted>>

Intercepts(w) == mode = "hosting" /\ w.kind \in {"query", "report", "clear"}

(* Writer.Write, one sequence; push leaves one wake-up for any number of
   events. *)
Write ==
  /\ written # <<>>
  /\ written' = Tail(written)
  /\ LET w == Head(written)
     IN  IF Intercepts(w)
           THEN pending' = Append(pending, w) /\ wake' = TRUE /\ UNCHANGED wire
           ELSE wire' = Append(wire, w) /\ UNCHANGED <<pending, wake>>
  /\ UNCHANGED <<ordered, model, publisher, cmds, output, screen, replies, page,
                 bounds, wiped, setup, mode, timer, listener, taken, hosted>>

(* The terminal: the page, or one that ignores what it does not know. *)
TerminalReads ==
  /\ \/ ~setup.plain /\ Deliver
     \/ /\ setup.plain /\ wire # <<>> /\ wire' = Tail(wire)
        /\ UNCHANGED <<ordered, model, publisher, cmds, output, screen, replies,
                       page, bounds, wiped>>
  /\ UNCHANGED hostVars

Hosted ==
  \/ ForwardChange \/ TerminalAnswers \/ ProbeTimeout \/ Drain \/ HandleEvent
  \/ ListenAgain \/ Listen \/ RunCommand \/ Render \/ Write \/ TerminalReads

(* A program that is not wrapped writes to the terminal itself. *)
Alone(A) == ~setup.wrapped /\ A /\ UNCHANGED hostVars
Wrapped(A) == setup.wrapped /\ A

HostNext == Alone(Next) \/ Wrapped(Hosted)

hostAll == <<vars, hostVars>>

(* The event loop takes its messages, goroutines run, the timer fires, the
   renderer ticks, the terminal reads and the connection is made again. *)
HostFairness ==
  /\ WF_hostAll(Alone(\E i \in 1 .. Len(cmds) : Execute(i)))
  /\ WF_hostAll(Alone(Tick)) /\ WF_hostAll(Alone(Deliver))
  /\ WF_hostAll(Alone(Supported)) /\ WF_hostAll(Alone(Reconnect))
  /\ WF_hostAll(Wrapped(TerminalAnswers)) /\ WF_hostAll(Wrapped(ProbeTimeout))
  /\ WF_hostAll(Wrapped(Drain \/ HandleEvent \/ ListenAgain))
  /\ WF_hostAll(Wrapped(Listen)) /\ WF_hostAll(Wrapped(RunCommand))
  /\ WF_hostAll(Wrapped(Render)) /\ WF_hostAll(Wrapped(Write))
  /\ WF_hostAll(Wrapped(TerminalReads))

HostSpec == HostInit /\ [][HostNext]_hostAll /\ HostFairness

-----------------------------------------------------------------------------
(* The program and the terminal never both show the actions, whenever the
   terminal's answer comes: before the timeout, after it, or again for a query
   that was sent before (actions/termhost/termhost.go:9-13, "the wrapper steps
   aside"). *)
OneBar == hosted = Nothing \/ current = Nothing

Bar == IF hosted # Nothing THEN hosted.content ELSE Displayed

(* When the program has come to rest the actions that it describes are on show,
   on the page or in a bar of its own, and none if its description is invalid:
   through screen switches, failed publications, retries and reconnects; no
   wake-up of the writer is lost, and a query that was under way when the host
   took over is answered.  Bubble Tea may run the commands in any order; the
   promise is for those in order.  A booba.reset() of the page's own is not told
   to the program (docs/TERMINAL_ACTIONS.md, "Later updates retry, and a valid
   description restores the bar"; actions/termhost/writer.go:146-162). *)
EventuallyShown == <>[](connected /\ ordered /\ ~wiped => Bar = Wanted)
=============================================================================
