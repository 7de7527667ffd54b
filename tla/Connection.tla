------------------------------ MODULE Connection ------------------------------
(***************************************************************************)
(* One terminal connection from its upgrade to the return of its HTTP      *)
(* handler: handleWS / handleWT (serve/server.go), the transport           *)
(* goroutines of serve/handlers.go, the workload goroutine (runSession)    *)
(* and the idle watcher, composed with the session of PtySession.          *)
(*                                                                         *)
(* The client is part of the environment: it sends what it likes, reads    *)
(* the frames it is sent, and goes away when it likes.                     *)
(***************************************************************************)
EXTENDS Integers, Sequences, FiniteSets

CONSTANTS
  Setups,      \* the connections considered: a transport ("ws" or "wt"), what
               \* runSession runs ("bubbletea" or "command"), and whether an
               \* idle timeout is configured
  ReadOnly,    \* Config.ReadOnly
  Cap,         \* writes the PTY buffers, in either direction
  Window       \* frames the connection buffers before a write blocks

ASSUME ConnectionAssumption ==
  /\ Setups \subseteq [transport : {"ws", "wt"}, idle : BOOLEAN,
                         workload : {"bubbletea", "command"}]
  /\ ReadOnly \in BOOLEAN
  /\ Cap \in Nat \ {0} /\ Window \in Nat \ {0}

Pumps == {"output", "input"}
Programs == {"program"}
OtherClosers == Pumps \cup {"handler", "idle", "command"}

VARIABLES
  closed, workloadDone, cancelled, doneCloses, pty, backlog, drain, at, seen,
  run,       \* the session: see PtySession
  setup,     \* the connection's member of Setups
  h,         \* where the HTTP handler is
  pump,      \* per transport goroutine: where it is
  once,      \* cleanupOnce: "new", "busy" or "done"
  hctx,      \* the transport handler's context was cancelled by it
  req,       \* the request's context is done
  conn,      \* the WebSocket connection or WebTransport session, server side
  readable,  \* the stream can still be read by the server
  writable,  \* the stream can still be written by the server
  out,       \* frames written and not yet read by the client
  peer,      \* "up" or "gone"
  stopped,   \* the client stopped the server's writing (STOP_SENDING)
  abused,    \* the server hung up on an oversized input
  gotClose,  \* the client has read a MsgClose
  inbuf,     \* terminal input the workload has not read yet
  job,       \* the workload goroutine: "off", "start", and for a command
             \* "running", "over"
  watcher    \* the idle watcher

transport == setup.transport
BubbleTea == setup.workload = "bubbletea"

S == INSTANCE PtySession WITH Closers <- OtherClosers, Owners <- Programs

session == <<closed, workloadDone, cancelled, doneCloses, pty, backlog, drain,
             at, seen, run>>
wire == <<setup, conn, readable, writable, out, peer, stopped, abused,
          gotClose>>
local == <<h, pump, once, hctx, req, watcher, job, inbuf>>
vars == <<session, wire, local>>

Frames == {"data", "close"}

Init ==
  /\ S!Init
  /\ setup \in Setups
  /\ h = "upgrade"
  /\ pump = [p \in Pumps |-> "off"]
  /\ once = "new" /\ hctx = FALSE /\ req = FALSE
  /\ conn = "none" /\ readable = TRUE /\ writable = TRUE /\ out = <<>>
  /\ peer = "up" /\ stopped = FALSE /\ abused = FALSE /\ gotClose = FALSE
  /\ inbuf = 0 /\ job = "off" /\ watcher = "off"

-----------------------------------------------------------------------------
(* The transports' reads and writes.  coder/websocket fails them when their
   context is done, and then closes the connection; a WebTransport stream
   knows no context. *)

CtxDone == hctx \/ req

ReadFails == \/ peer = "gone" \/ conn = "closed" \/ ~readable
             \/ (transport = "ws" /\ CtxDone)

WriteFails == \/ peer = "gone" \/ conn = "closed" \/ ~writable
              \/ (transport = "ws" /\ CtxDone)

Broken == IF transport = "ws" THEN "closed" ELSE conn

(* writeWSMessage, writeWTMessage: the frame is buffered, or the write fails;
   while the buffer is full it blocks. *)
WriteOK(f) == /\ ~WriteFails
              /\ Len(out) < Window
              /\ out' = Append(out, f)
              /\ UNCHANGED conn

WriteErr == /\ WriteFails
            /\ conn' = Broken
            /\ UNCHANGED out

wireRest == <<setup, readable, writable, peer, stopped, abused, gotClose>>

-----------------------------------------------------------------------------
(* The HTTP handler. *)

(* The end of the handler: the slot is released, and net/http (or the HTTP/3
   server) ends the request's context. *)
Return == /\ h = "leave"
          /\ h' = "gone"
          /\ req' = TRUE
          /\ S!ParentCancel
          /\ UNCHANGED <<wire, pump, once, hctx, watcher, job, inbuf>>

Upgrade == /\ h = "upgrade"
           /\ \/ /\ peer = "up"
                 /\ h' = IF transport = "ws" THEN "resize" ELSE "stream"
                 /\ conn' = "open"
              \/ /\ h' = "leave"       \* Accept or Upgrade failed
                 /\ UNCHANGED conn
           /\ UNCHANGED <<session, setup, readable, writable, out, peer,
                          stopped, abused, gotClose, pump, once, hctx, req,
                          watcher, job, inbuf>>

HangUpEarly == /\ h' = "leave"
               /\ conn' = "closed"
               /\ out' = <<>>
               /\ UNCHANGED <<session, wireRest, pump, once, hctx, req,
                              watcher, job, inbuf>>

(* wtSess.AcceptStream(r.Context()): no deadline of its own. *)
AcceptStream == /\ h = "stream"
                /\ ~ReadFails /\ ~req
                /\ h' = "resize"
                /\ UNCHANGED <<session, wire, pump, once, hctx, req, watcher,
                               job, inbuf>>

AcceptFails == /\ h = "stream"
               /\ ReadFails \/ req
               /\ HangUpEarly

(* The first frame arrived and is a resize within MaxWindowDims. *)
FirstResize == /\ h = "resize"
               /\ ~ReadFails
               /\ h' = "create"
               /\ UNCHANGED <<session, wire, pump, once, hctx, req, watcher,
                              job, inbuf>>

(* It is something else, or the read failed. *)
BadFirstFrame == h = "resize" /\ HangUpEarly

(* InitialResizeTimeout has passed. *)
ResizeTimeout == h = "resize" /\ HangUpEarly

CreateFails == h = "create" /\ HangUpEarly

(* createSession, the session middleware (which starts the idle watcher) and
   the go statement of the workload. *)
CreateSession == /\ h = "create"
                 /\ h' = "options"
                 /\ job' = "start"
                 /\ watcher' = IF setup.idle THEN "watching" ELSE "off"
                 /\ UNCHANGED <<session, wire, pump, once, hctx, req, inbuf>>

(* MsgOptions, then the two transport goroutines.  When the write fails,
   handleWebSocket's deferred CloseNow or handleWebTransport's deferred
   stream.Close runs and the handler goes on to its own deferred calls. *)
SendOptions == /\ h = "options"
               /\ \/ /\ WriteOK("data")
                     /\ pump' = [p \in Pumps |-> "read"]
                     /\ h' = "serve"
                     /\ UNCHANGED <<hctx, writable>>
                  \/ /\ WriteErr
                     /\ h' = "deferred"
                     /\ hctx' = TRUE
                     /\ writable' = (writable /\ transport = "ws")
                     /\ UNCHANGED pump
               /\ UNCHANGED <<session, setup, readable, peer, stopped,
                              abused, gotClose, once, req, watcher, job,
                              inbuf>>

(* wg.Wait() returns; conn.Close or stream.Close; cancel. *)
Join == /\ h = "serve"
        /\ \A p \in Pumps : pump[p] = "done"
        /\ h' = "deferred"
        /\ hctx' = TRUE
        /\ conn' = Broken
        /\ writable' = (writable /\ transport = "ws")
        /\ UNCHANGED <<session, setup, readable, out, peer, stopped,
                       abused, gotClose, pump, once, req, watcher, job, inbuf>>

(* Fault: the handler does not close its session. *)
HandlerCloseDropped ==
  /\ h = "deferred"
  /\ h' = "closing"
  /\ UNCHANGED <<session, wire, pump, once, hctx, req, watcher, job, inbuf>>

(* defer sess.Close() *)
HandlerClose == /\ h = "deferred"
                /\ S!CloseEnter("handler")
                /\ h' = "closing"
                /\ UNCHANGED <<wire, pump, once, hctx, req, watcher, job,
                               inbuf>>

HandlerClosed == /\ h = "closing"
                 /\ ~S!InClose("handler")
                 /\ h' = IF transport = "ws" THEN "leave" ELSE "drain"
                 /\ UNCHANGED <<session, wire, pump, once, hctx, req, watcher,
                                job, inbuf>>

(* Fault: the WebTransport session is closed at once. *)
DrainPeerSkipped == /\ h = "drain"
                    /\ h' = "leave"
                    /\ conn' = "closed"
                    /\ out' = <<>>
                    /\ UNCHANGED <<session, wireRest, pump, once, hctx, req,
                                   watcher, job, inbuf>>

(* waitForPeerClose, then CloseWithError, which makes the client discard the
   frames it has not read.  The grace period is taken to be long enough for a
   client that is reading. *)
DrainPeer == /\ h = "drain"
             /\ \/ peer = "gone" \/ stopped \/ abused
                \/ out = <<>> \/ conn = "closed"
             /\ h' = "leave"
             /\ conn' = "closed"
             /\ out' = <<>>
             /\ UNCHANGED <<session, wireRest, pump, once, hctx, req, watcher,
                            job, inbuf>>

-----------------------------------------------------------------------------
(* The output goroutine: streamOutputWS, streamOutputWT. *)

pumpRest == <<wireRest, h, once, hctx, req, watcher, job, inbuf>>

Move(p, from, to) == pump[p] = from /\ pump' = [pump EXCEPT ![p] = to]

OutputRead == /\ Move("output", "read", "write")
              /\ S!TransportRead
              /\ UNCHANGED <<conn, out, pumpRest>>

(* Fault: the output goroutine hangs up without a MsgClose. *)
OutputEOFSilent == /\ Move("output", "read", "hangup")
                   /\ pty = "closed"
                   /\ UNCHANGED <<session, conn, out, pumpRest>>

OutputEOF == /\ Move("output", "read", "msgclose")
             /\ pty = "closed"
             /\ UNCHANGED <<session, conn, out, pumpRest>>

OutputWrite == /\ \/ Move("output", "write", "read") /\ WriteOK("data")
                  \/ Move("output", "write", "cleanup") /\ WriteErr
               /\ UNCHANGED <<session, pumpRest>>

OutputMsgClose == /\ Move("output", "msgclose", "hangup")
                  /\ WriteOK("close") \/ WriteErr
                  /\ UNCHANGED <<session, pumpRest>>

(* Fault: the stream is closed for writing only. *)
OutputHangUpHalf == /\ Move("output", "hangup", "cleanup")
                    /\ conn' = Broken
                    /\ writable' = (writable /\ transport = "ws")
                    /\ UNCHANGED <<session, setup, out, readable, peer,
                                   stopped, abused, gotClose, h, once, hctx,
                                   req, watcher, job, inbuf>>

(* conn.Close, or stream.CancelRead and stream.Close: what was written before
   still reaches the client. *)
OutputHangUp == /\ Move("output", "hangup", "cleanup")
                /\ conn' = Broken
                /\ readable' = (readable /\ transport = "ws")
                /\ writable' = (writable /\ transport = "ws")
                /\ UNCHANGED <<session, setup, out, peer, stopped, abused,
                               gotClose, h, once, hctx, req, watcher, job,
                               inbuf>>

-----------------------------------------------------------------------------
(* The input goroutine: handleInputWS, handleInputWT and the dispatch of
   processMessage, processWTMessage.  A resize goes to the throttle (see
   ResizePipeline) and an unknown type is ignored: neither changes anything
   here. *)

Receiving == pump["input"] = "read" /\ ~ReadFails

ReceiveInput == /\ Receiving /\ ~ReadOnly
                /\ Move("input", "read", "feed")
                /\ UNCHANGED <<session, conn, out, pumpRest>>

ReceivePing == /\ Receiving
               /\ Move("input", "read", "pong")
               /\ UNCHANGED <<session, conn, out, pumpRest>>

(* An input beyond MaxPasteBytes: CloseNow, or CancelRead, CancelWrite and
   Close; the loop goes on and its next read fails. *)
ReceiveOversized == /\ Receiving /\ ~ReadOnly
                    /\ conn' = Broken
                    /\ readable' = (readable /\ transport = "ws")
                    /\ writable' = (writable /\ transport = "ws")
                    /\ abused' = TRUE
                    /\ out' \in {out, <<>>}
                    /\ UNCHANGED <<session, setup, peer, stopped, gotClose,
                                   local>>

(* A WebTransport frame of length 0 or beyond MaxMessageSize ends the loop. *)
ReceiveBadFrame == /\ transport = "wt"
                   /\ Receiving
                   /\ Move("input", "read", "cleanup")
                   /\ abused' = TRUE
                   /\ UNCHANGED <<session, setup, conn, out, readable,
                                  writable, peer, stopped, gotClose, h, once,
                                  hctx, req, watcher, job, inbuf>>

InputFails == /\ ReadFails
              /\ Move("input", "read", "cleanup")
              /\ conn' = Broken
              /\ UNCHANGED <<session, out, pumpRest>>

(* sess.InputWriter().Write blocks while the terminal's input queue is full;
   its error is logged. *)
InputFeed == /\ Move("input", "feed", "read")
             /\ \/ pty = "open" /\ inbuf < Cap /\ inbuf' = inbuf + 1
                \/ pty = "closed" /\ UNCHANGED inbuf
             /\ UNCHANGED <<session, wire, h, once, hctx, req, watcher, job>>

(* The error of a pong is logged too. *)
InputPong == /\ Move("input", "pong", "read")
             /\ WriteOK("data") \/ WriteErr
             /\ UNCHANGED <<session, pumpRest>>

-----------------------------------------------------------------------------
(* cleanup(), deferred by both goroutines: cancel and sess.Close once; the
   second caller of cleanupOnce.Do waits for the first. *)

Cleanup(p) == /\ Move(p, "cleanup", "close")
              /\ once = "new"
              /\ once' = "busy"
              /\ hctx' = TRUE
              /\ UNCHANGED <<session, wire, h, req, watcher, job, inbuf>>

(* Fault: cleanup cancels the context and does not close the session. *)
CleanupCloseDropped(p) ==
  /\ Move(p, "close", "closing")
  /\ UNCHANGED <<session, wire, h, once, hctx, req, watcher, job, inbuf>>

(* Fault: cleanup closes the PTY itself. *)
CleanupClosesPty(p) ==
  /\ Move(p, "close", "closing")
  /\ pty' = "closed" /\ backlog' = 0
  /\ UNCHANGED <<closed, workloadDone, cancelled, doneCloses, drain, at, seen,
                 run>>
  /\ UNCHANGED <<wire, h, once, hctx, req, watcher, job, inbuf>>

CleanupClose(p) == /\ Move(p, "close", "closing")
                   /\ S!CloseEnter(p)
                   /\ UNCHANGED <<wire, h, once, hctx, req, watcher, job,
                                  inbuf>>

CleanupDone(p) == /\ Move(p, "closing", "done")
                  /\ ~S!InClose(p)
                  /\ once' = "done"
                  /\ UNCHANGED <<session, wire, h, hctx, req, watcher, job,
                                 inbuf>>

CleanupJoin(p) == /\ Move(p, "cleanup", "done")
                  /\ once = "done"
                  /\ UNCHANGED <<session, wire, h, once, hctx, req, watcher,
                                 job, inbuf>>

-----------------------------------------------------------------------------
(* The workload goroutine and the idle watcher. *)

outside == <<wire, h, pump, once, hctx, req, watcher>>

(* Steps of Close by any goroutine, and of a Bubble Tea program. *)
SessionStep(a) == a /\ UNCHANGED <<outside, job, inbuf>>

ReadsTerminal == IF BubbleTea
                 THEN run["program"] \in {"running", "rendering"}
                 ELSE job = "running"

ConsumeInput == /\ ReadsTerminal
                /\ inbuf > 0
                /\ inbuf' = inbuf - 1
                /\ UNCHANGED <<session, outside, job>>

(* runCommand: the process is bound to the request's context, not to the
   session's, and the PTY is not reserved for it. *)
StartCommand == /\ ~BubbleTea
                /\ job = "start"
                /\ job' = IF pty = "open" THEN "running" ELSE "over"
                /\ UNCHANGED <<session, outside, inbuf>>

CommandWrites == /\ job = "running"
                 /\ pty = "open" /\ backlog < Cap
                 /\ backlog' = backlog + 1
                 /\ UNCHANGED <<closed, workloadDone, cancelled, doneCloses,
                                pty, drain, at, seen, run, outside, job,
                                inbuf>>

CommandExits == /\ job = "running"
                /\ job' = "over"
                /\ UNCHANGED <<session, outside, inbuf>>

(* exec.CommandContext kills the process when the request's context ends. *)
CommandKilled == req /\ CommandExits

WorkloadOver == IF BubbleTea THEN run["program"] = "ended"
                                          ELSE job = "over"

WorkloadClose == /\ WorkloadOver \/ (BubbleTea /\ job = "start")
                 /\ S!CloseEnter(IF BubbleTea THEN "program" ELSE "command")
                 /\ UNCHANGED <<outside, job, inbuf>>

IdleFires == /\ watcher = "watching"
             /\ S!CloseEnter("idle")
             /\ watcher' = "closing"
             /\ UNCHANGED <<wire, h, pump, once, hctx, req, job, inbuf>>

IdleEnds == /\ \/ watcher = "watching" /\ doneCloses > 0
               \/ watcher = "closing" /\ ~S!InClose("idle")
            /\ watcher' = "done"
            /\ UNCHANGED <<session, wire, h, pump, once, hctx, req, job,
                           inbuf>>

-----------------------------------------------------------------------------
(* The client and the server's end. *)

ClientReads == /\ peer = "up" /\ ~stopped
               /\ out # <<>>
               /\ out' = Tail(out)
               /\ gotClose' = (gotClose \/ Head(out) = "close")
               /\ UNCHANGED <<session, setup, conn, readable, writable,
                              peer, stopped, abused, local>>

ClientLeaves == /\ peer = "up" /\ conn # "none"
                /\ peer' = "gone"
                /\ out' = <<>>
                /\ UNCHANGED <<session, setup, conn, readable, writable,
                               stopped, abused, gotClose, local>>

(* A WebTransport client stops reading the stream and keeps it open. *)
ClientStops == /\ transport = "wt" /\ h \notin {"upgrade", "stream", "gone"}
               /\ peer = "up" /\ ~stopped
               /\ stopped' = TRUE
               /\ writable' = FALSE
               /\ UNCHANGED <<session, setup, conn, readable, out, peer,
                              abused, gotClose, local>>

(* The server is stopped, or the QUIC connection of the request is gone. *)
RequestEnds == /\ ~req /\ h # "gone"
               /\ req' = TRUE
               /\ S!ParentCancel
               /\ conn' = IF transport = "wt" /\ conn = "open" THEN "closed"
                                                             ELSE conn
               /\ UNCHANGED <<setup, readable, writable, out, peer,
                              stopped, abused, gotClose, h, pump, once, hctx,
                              watcher, job, inbuf>>

-----------------------------------------------------------------------------
HandlerStep == \/ Return \/ Upgrade \/ AcceptFails \/ ResizeTimeout
               \/ CreateFails \/ CreateSession \/ SendOptions \/ Join
               \/ HandlerClose \/ HandlerClosed \/ DrainPeer

OutputStep == \/ OutputRead \/ OutputEOF \/ OutputWrite \/ OutputMsgClose
              \/ OutputHangUp

InputStep == InputFails \/ InputFeed \/ InputPong

CleanupStep(p) == \/ Cleanup(p) \/ CleanupClose(p) \/ CleanupDone(p)
                  \/ CleanupJoin(p)

Closing(g) == SessionStep(S!CloseStep(g))

(* What a program does of its own accord, and what it does in any case. *)
ProgramMay(o) == /\ BubbleTea /\ job = "start"
                 /\ \/ SessionStep(S!Render(o)) \/ SessionStep(S!Exit(o))

ProgramMust(o) == /\ BubbleTea /\ job = "start"
                  /\ \/ SessionStep(S!CheckContext(o))
                     \/ SessionStep(S!BeginBubbleTea(o))
                     \/ SessionStep(S!Flush(o))
                     \/ SessionStep(S!Restore(o))
                     \/ SessionStep(S!Release(o))

ProgramQuits(o) == SessionStep(S!Quit(o))

Next == \/ HandlerStep \/ AcceptStream \/ FirstResize \/ BadFirstFrame
        \/ OutputStep
        \/ InputStep \/ ReceiveInput \/ ReceivePing \/ ReceiveOversized
        \/ ReceiveBadFrame
        \/ \E p \in Pumps : CleanupStep(p)
        \/ \E g \in S!Goroutines : Closing(g)
        \/ \E o \in Programs :
             ProgramMay(o) \/ ProgramMust(o) \/ ProgramQuits(o)
        \/ SessionStep(S!Drain)
        \/ ConsumeInput \/ StartCommand \/ CommandWrites \/ CommandExits
        \/ WorkloadClose \/ IdleFires \/ IdleEnds
        \/ ClientReads \/ ClientLeaves \/ ClientStops \/ RequestEnds

(* The goroutines run; timers fire; a model factory returns and a program
   takes its Quit and its input; a connected client reads what it is sent
   (unless it stopped the stream), as browsers and the Go client do.  Nothing
   makes a client send or leave, a program or a command exit, or the idle
   timer fire. *)
Fairness ==
  /\ WF_vars(HandlerStep) /\ SF_vars(OutputStep) /\ SF_vars(InputStep)
  /\ WF_vars(\E p \in Pumps : CleanupStep(p))
  /\ WF_vars(\E g \in S!Goroutines : Closing(g))
  /\ \A o \in Programs : WF_vars(ProgramMust(o)) /\ SF_vars(ProgramQuits(o))
  /\ WF_vars(StartCommand \/ CommandKilled)
  /\ WF_vars(WorkloadOver /\ WorkloadClose)
  /\ SF_vars(BubbleTea /\ ConsumeInput)
  /\ WF_vars(SessionStep(S!Drain))
  /\ WF_vars(IdleEnds)
  /\ WF_vars(ClientReads)

Spec == Init /\ [][Next]_vars /\ Fairness
-----------------------------------------------------------------------------
HandlerAt == {"upgrade", "stream", "resize", "create", "options", "serve",
              "deferred", "closing", "drain", "leave", "gone"}
PumpAt == {"off", "read", "write", "msgclose", "hangup", "feed", "pong",
           "cleanup", "close", "closing", "done"}

TypeOK == /\ S!TypeOK
          /\ setup \in Setups
          /\ h \in HandlerAt
          /\ pump \in [Pumps -> PumpAt]
          /\ once \in {"new", "busy", "done"}
          /\ {hctx, req, readable, writable, stopped, abused, gotClose}
               \subseteq BOOLEAN
          /\ conn \in {"none", "open", "closed"}
          /\ out \in Seq(Frames) /\ Len(out) <= Window
          /\ peer \in {"up", "gone"}
          /\ inbuf \in 0 .. Cap
          /\ job \in {"off", "start", "running", "over"}
          /\ watcher \in {"off", "watching", "closing", "done"}

(* The transport, the workload and the idle watcher use the session only in
   the ways PtySession allows; a command writes to the PTY it was given without
   reserving it. *)
SessionSpec == S!Init /\ [][S!Next \/ CommandWrites]_session

(* The HTTP handler returns, and gives back its connection slot, only after
   its transport goroutines have ended and the session was asked to close; a
   program that is still running by then has a closer waiting for it. *)
LeavesNothingBehind ==
  h \in {"leave", "gone"} =>
    /\ \A p \in Pumps : pump[p] \in {"off", "done"}
    /\ job # "off" =>
         \/ pty = "closed"
         \/ \E g \in S!Goroutines : S!InClose(g)

(* A command that neither reads its terminal nor exits, and whose input queue
   is full, keeps the input goroutine in its write: nobody is left to read the
   connection. *)
Stuck == /\ ~BubbleTea /\ job = "running"
         /\ pump["input"] = "feed" /\ inbuf = Cap

(* Once the client is gone, the handler returns, the PTY is closed and every
   goroutine of the connection ends: disconnecting leaks nothing, unless the
   command is stuck for ever. *)
Quiet == /\ h = "gone"
         /\ \A g \in S!Goroutines : ~S!InClose(g)
         /\ job # "off" => pty = "closed" /\ WorkloadOver
         /\ watcher \in {"off", "done"}

DisconnectCleansUp == peer = "gone" ~> (Quiet \/ []Stuck)

(* A client that stays, reads and keeps to the protocol is told with a
   MsgClose that its session ended, whoever ended it, so that it does not
   take the end for a lost connection and dial again. *)
Excused == peer = "gone" \/ stopped \/ abused \/ (req /\ h # "gone")

GoodbyeDelivered == (h = "serve" /\ pty = "closed") ~> (gotClose \/ Excused)

(* When the session is over the handler returns even though the client stays,
   unless it is a WebTransport client that stopped reading and keeps its own
   side of the stream open: the output goroutine ends on its failed write
   without hanging up, and the input goroutine goes on reading. *)
Lingers == /\ transport = "wt" /\ stopped
           /\ pump["input"] \in {"read", "feed", "pong"}

SessionEndFreesSlot ==
  (h = "serve" /\ pty = "closed") ~> (h = "gone" \/ []Lingers)
=============================================================================
