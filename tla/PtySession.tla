------------------------------ MODULE PtySession ------------------------------
(***************************************************************************)
(* ptySession (serve/pty.go) and its use by runBubbleTea                   *)
(* (serve/bubbletea.go): the close protocol between the goroutines that    *)
(* end a session and the one that runs a Bubble Tea program on its PTY.    *)
(*                                                                         *)
(* Every critical section of ptySession.mu is one action: none of them     *)
(* blocks while it holds the lock.  The statements of Close after its      *)
(* unlock are one action each.                                             *)
(***************************************************************************)
EXTENDS Naturals

CONSTANTS Closers,  \* goroutines that only ever call Close
          Owners,   \* goroutines that call runBubbleTea, then Close
          Cap       \* writes the kernel buffers before a terminal write blocks

ASSUME Assumption == /\ Closers \cap Owners = {}
                     /\ Cap \in Nat \ {0}

Goroutines == Closers \cup Owners

VARIABLES
  closed,        \* ptySession.closed
  workloadDone,  \* ptySession.workloadDone: "nil", "open" or "closed" channel
  cancelled,     \* the session context is cancelled
  doneCloses,    \* how often ptySession.done was closed (twice panics)
  pty,           \* "open" or "closed"
  backlog,       \* writes of the program nobody has read from the PTY yet
  drain,         \* the goroutine io.Copy(io.Discard, s.pty) was started
  at,            \* per goroutine: where in Close it is
  seen,          \* per goroutine: Close's local `done' is not nil
  run            \* per owner: where in runBubbleTea it is

sessionVars == <<closed, workloadDone, cancelled, doneCloses, pty, drain>>
closeVars == <<at, seen>>
vars == <<closed, workloadDone, cancelled, doneCloses, pty, backlog, drain,
          at, seen, run>>

CloseSteps == {"out", "cancel", "signal", "check", "wait", "pty", "returned"}
RunSteps == {"start", "factory", "running", "rendering", "restoring",
             "leaving", "ended"}
Holding == {"running", "rendering", "restoring", "leaving"}

InClose(g) == at[g] \notin {"out", "returned"}

Init == /\ closed = FALSE
        /\ workloadDone = "nil"
        /\ cancelled = FALSE
        /\ doneCloses = 0
        /\ pty = "open"
        /\ backlog = 0
        /\ drain = FALSE
        /\ at = [g \in Goroutines |-> "out"]
        /\ seen = [g \in Goroutines |-> FALSE]
        /\ run = [o \in Owners |-> "start"]

-----------------------------------------------------------------------------
(* Close *)

(* An owner calls Close from its model factory, to decline the session, or
   by the deferred call after runBubbleTea returned. *)
MayCallClose(g) == g \in Owners => run[g] \in {"factory", "ended"}

(* Fault: Close does not look at the closed flag. *)
CloseFirstUnchecked(g) == /\ closed' = TRUE
                          /\ seen' = [seen EXCEPT ![g] = workloadDone # "nil"]
                          /\ at' = [at EXCEPT ![g] = "cancel"]

CloseFirst(g) == /\ ~closed
                 /\ closed' = TRUE
                 /\ seen' = [seen EXCEPT ![g] = workloadDone # "nil"]
                 /\ at' = [at EXCEPT ![g] = "cancel"]

CloseAgain(g) == /\ closed
                 /\ at' = [at EXCEPT ![g] = "returned"]
                 /\ UNCHANGED <<closed, seen>>

CloseEnter(g) == /\ ~InClose(g)
                 /\ MayCallClose(g)
                 /\ CloseFirst(g) \/ CloseAgain(g)
                 /\ UNCHANGED <<workloadDone, cancelled, doneCloses, pty,
                                backlog, drain, run>>

CloseCancel(g) == /\ at[g] = "cancel"
                  /\ cancelled' = TRUE
                  /\ at' = [at EXCEPT ![g] = "signal"]
                  /\ UNCHANGED <<closed, workloadDone, doneCloses, pty,
                                 backlog, drain, seen, run>>

(* Fault: Close does not wait for the program. *)
CloseSignalNoWait(g) == /\ at[g] = "signal"
                        /\ doneCloses' = doneCloses + 1
                        /\ at' = [at EXCEPT ![g] = "pty"]
                        /\ UNCHANGED <<closed, workloadDone, cancelled, pty,
                                       backlog, drain, seen, run>>

(* Fault: Close leaves the PTY to the program's goroutine. *)
CloseSignalReturns(g) == /\ at[g] = "signal"
                         /\ doneCloses' = doneCloses + 1
                         /\ at' = [at EXCEPT ![g] = IF seen[g] THEN "returned"
                                                               ELSE "pty"]
                         /\ UNCHANGED <<closed, workloadDone, cancelled, pty,
                                        backlog, drain, seen, run>>

CloseSignal(g) == /\ at[g] = "signal"
                  /\ doneCloses' = doneCloses + 1
                  /\ at' = [at EXCEPT ![g] = IF seen[g] THEN "check" ELSE "pty"]
                  /\ UNCHANGED <<closed, workloadDone, cancelled, pty,
                                 backlog, drain, seen, run>>

(* Fault: Close waits for the program without draining its output. *)
CloseCheckNoDrain(g) == /\ at[g] = "check"
                        /\ at' = [at EXCEPT ![g] = IF workloadDone = "closed"
                                                    THEN "pty" ELSE "wait"]
                        /\ UNCHANGED <<sessionVars, backlog, seen, run>>

(* The select: go on at once if the owner is done, otherwise start draining
   and wait for it. *)
CloseCheck(g) == /\ at[g] = "check"
                 /\ \/ /\ workloadDone = "closed"
                       /\ at' = [at EXCEPT ![g] = "pty"]
                       /\ UNCHANGED drain
                    \/ /\ workloadDone # "closed"
                       /\ at' = [at EXCEPT ![g] = "wait"]
                       /\ drain' = TRUE
                 /\ UNCHANGED <<closed, workloadDone, cancelled, doneCloses,
                                pty, backlog, seen, run>>

CloseWait(g) == /\ at[g] = "wait"
                /\ workloadDone = "closed"
                /\ at' = [at EXCEPT ![g] = "pty"]
                /\ UNCHANGED <<sessionVars, backlog, seen, run>>

(* Output nobody read is lost with the PTY. *)
ClosePty(g) == /\ at[g] = "pty"
               /\ pty' = "closed"
               /\ backlog' = 0
               /\ at' = [at EXCEPT ![g] = "returned"]
               /\ UNCHANGED <<closed, workloadDone, cancelled, doneCloses,
                              drain, seen, run>>

CloseStep(g) == \/ CloseCancel(g) \/ CloseSignal(g) \/ CloseCheck(g)
                \/ CloseWait(g) \/ ClosePty(g)

(* The session's context descends from the request's (newPtySession), which
   ends when the request does or the server stops. *)
ParentCancel == /\ cancelled' = TRUE
                /\ UNCHANGED <<closed, workloadDone, doneCloses, pty, backlog,
                               drain, at, seen, run>>

-----------------------------------------------------------------------------
(* runBubbleTea *)

CheckContext(o) ==
  /\ run[o] = "start"
  /\ run' = [run EXCEPT ![o] = IF cancelled THEN "ended" ELSE "factory"]
  /\ UNCHANGED <<sessionVars, backlog, closeVars>>

(* Fault: beginBubbleTea looks only at workloadDone. *)
BeginBubbleTeaClosed(o) ==
  /\ run[o] = "factory"
  /\ ~InClose(o)
  /\ \/ /\ workloadDone # "nil"
        /\ run' = [run EXCEPT ![o] = "ended"]
        /\ UNCHANGED workloadDone
     \/ /\ workloadDone = "nil"
        /\ run' = [run EXCEPT ![o] = "running"]
        /\ workloadDone' = "open"
  /\ UNCHANGED <<closed, cancelled, doneCloses, pty, drain, backlog, closeVars>>

(* beginBubbleTea, called when the model factory has returned. *)
BeginBubbleTea(o) ==
  /\ run[o] = "factory"
  /\ ~InClose(o)
  /\ \/ /\ closed \/ workloadDone # "nil"
        /\ run' = [run EXCEPT ![o] = "ended"]
        /\ UNCHANGED workloadDone
     \/ /\ ~closed /\ workloadDone = "nil"
        /\ run' = [run EXCEPT ![o] = "running"]
        /\ workloadDone' = "open"
  /\ UNCHANGED <<closed, cancelled, doneCloses, pty, drain, backlog, closeVars>>

(* A frame is flushed by a terminal write, which blocks while the kernel's
   buffer is full; the event loop takes no message in the meantime. *)
Render(o) == /\ run[o] = "running"
             /\ run' = [run EXCEPT ![o] = "rendering"]
             /\ UNCHANGED <<sessionVars, backlog, closeVars>>

Flush(o) == /\ run[o] = "rendering"
            /\ backlog < Cap
            /\ backlog' = backlog + 1
            /\ run' = [run EXCEPT ![o] = "running"]
            /\ UNCHANGED <<sessionVars, closeVars>>

(* context.AfterFunc(sess.Context(), prog.Quit) *)
Quit(o) == /\ run[o] = "running"
           /\ cancelled
           /\ run' = [run EXCEPT ![o] = "restoring"]
           /\ UNCHANGED <<sessionVars, backlog, closeVars>>

(* The model quits by itself. *)
Exit(o) == /\ run[o] = "running"
           /\ run' = [run EXCEPT ![o] = "restoring"]
           /\ UNCHANGED <<sessionVars, backlog, closeVars>>

(* Run writes the sequences that restore the terminal and returns. *)
Restore(o) == /\ run[o] = "restoring"
              /\ backlog < Cap
              /\ backlog' = backlog + 1
              /\ run' = [run EXCEPT ![o] = "leaving"]
              /\ UNCHANGED <<sessionVars, closeVars>>

(* The deferred release(). *)
Release(o) == /\ run[o] = "leaving"
              /\ workloadDone' = "closed"
              /\ run' = [run EXCEPT ![o] = "ended"]
              /\ UNCHANGED <<closed, cancelled, doneCloses, pty, drain,
                             backlog, closeVars>>

-----------------------------------------------------------------------------
(* The readers of the PTY's output. *)

ReadPty == /\ pty = "open"
           /\ backlog > 0
           /\ backlog' = backlog - 1
           /\ UNCHANGED <<sessionVars, closeVars, run>>

(* The transport's output goroutine; it may stop reading at any moment. *)
TransportRead == ReadPty

(* io.Copy(io.Discard, s.pty) *)
Drain == drain /\ ReadPty

Next == \/ \E g \in Goroutines : CloseEnter(g) \/ CloseStep(g)
        \/ \E o \in Owners : \/ CheckContext(o) \/ BeginBubbleTea(o)
                             \/ Render(o) \/ Flush(o) \/ Quit(o) \/ Exit(o)
                             \/ Restore(o) \/ Release(o)
        \/ ParentCancel
        \/ TransportRead
        \/ Drain

(* Goroutines keep running, factories return, and a program that has been
   sent a Quit takes it from its message channel however often it renders.
   Nothing makes a model exit, a transport read or anybody call Close. *)
Fairness ==
  /\ \A g \in Goroutines : WF_vars(CloseStep(g))
  /\ \A o \in Owners : /\ WF_vars(CheckContext(o))
                       /\ WF_vars(BeginBubbleTea(o))
                       /\ WF_vars(Flush(o))
                       /\ SF_vars(Quit(o))
                       /\ WF_vars(Restore(o))
                       /\ WF_vars(Release(o))
  /\ WF_vars(Drain)

Spec == Init /\ [][Next]_vars /\ Fairness
-----------------------------------------------------------------------------
TypeOK == /\ closed \in BOOLEAN
          /\ workloadDone \in {"nil", "open", "closed"}
          /\ cancelled \in BOOLEAN
          /\ doneCloses \in Nat
          /\ pty \in {"open", "closed"}
          /\ backlog \in 0 .. Cap
          /\ drain \in BOOLEAN
          /\ at \in [Goroutines -> CloseSteps]
          /\ seen \in [Goroutines -> BOOLEAN]
          /\ run \in [Owners -> RunSteps]

(* Close "must not invalidate the PTY while that owner is still using it"
   (serve/session_close_test.go): no interleaving of closers, of the
   reservation and of the program's shutdown closes the PTY under a running
   program. *)
PtyValidWhileOwned == (\E o \in Owners : run[o] \in Holding) => pty = "open"

(* The reservation of beginBubbleTea is exclusive, and a session's done
   channel is closed at most once, however many goroutines race into Close:
   closing it twice panics. *)
OneOwnerOneClose ==
  /\ \A o, p \in Owners : {run[o], run[p]} \subseteq Holding => o = p
  /\ doneCloses <= 1

(* A session that is closing is never abandoned: as long as its PTY is open,
   some goroutine is inside Close and will close it, although every other
   caller of Close has already been told that the session is closed. *)
CloserAtWork == closed /\ pty = "open" => \E g \in Goroutines : InClose(g)

(* Close always returns to whoever called it, although the program must still
   write its final output and nobody but the drain may be reading it. *)
CloseReturns == \A g \in Goroutines : InClose(g) ~> at[g] = "returned"

(* ptySession keeps the promises of SessionContract. *)
Contract == INSTANCE SessionContract WITH
  phase <- CASE pty = "closed" -> "closed"
             [] pty = "open" /\ closed -> "closing"
             [] OTHER -> "open",
  holder <- CASE workloadDone = "nil" -> "none"
              [] workloadDone = "open" -> "held"
              [] OTHER -> "released"

ContractSpec == Contract!Spec
=============================================================================
