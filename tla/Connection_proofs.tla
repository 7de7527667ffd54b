--------------------------- MODULE Connection_proofs ---------------------------
(***************************************************************************)
(* Proofs about Connection for every set of connections considered, every  *)
(* size of the buffers, and a server that is read-only or not.  What       *)
(* PtySession_proofs shows of a session holds of the session here, as the  *)
(* connection uses it only in the ways PtySession allows.                  *)
(***************************************************************************)
EXTENDS Connection, TLAPS

P == INSTANCE PtySession_proofs WITH Closers <- OtherClosers,
                                     Owners <- Programs

(* The handler starts the workload last, and its session was asked to close
   before it leaves. *)
HandlerOrder ==
  /\ h \in {"upgrade", "stream", "resize", "create"} => job = "off"
  /\ h \in {"closing", "drain"} => closed
  /\ h \in {"leave", "gone"} /\ job # "off" => closed

(* The transport goroutines run between the options and the deferred calls. *)
PumpsJoined ==
  /\ h \in {"upgrade", "stream", "resize", "create", "options"} =>
       \A p \in Pumps : pump[p] = "off"
  /\ h \in {"deferred", "closing", "drain", "leave", "gone"} =>
       \A p \in Pumps : pump[p] \in {"off", "done"}

IInv == TypeOK /\ P!IInv /\ HandlerOrder /\ PumpsJoined

-----------------------------------------------------------------------------
(* The session. *)

(* The session that the connection uses is the one of PtySession_proofs. *)
LEMMA SameSession ==
  /\ S!Init <=> P!Init
  /\ S!Next <=> P!Next
  /\ S!TypeOK <=> P!TypeOK
  /\ session = P!vars
<1>1. S!Goroutines = P!Goroutines  BY DEF S!Goroutines, P!Goroutines
<1>2. \A g : S!CloseEnter(g) <=> P!CloseEnter(g)
  BY DEF S!CloseEnter, P!CloseEnter, S!InClose, P!InClose, S!MayCallClose,
     P!MayCallClose, S!CloseFirst, P!CloseFirst, S!CloseAgain, P!CloseAgain
<1>3. \A g : S!CloseStep(g) <=> P!CloseStep(g)
  BY DEF S!CloseStep, P!CloseStep, S!CloseCancel, P!CloseCancel, S!CloseSignal,
     P!CloseSignal, S!CloseCheck, P!CloseCheck, S!CloseWait, P!CloseWait,
     S!ClosePty, P!ClosePty, S!sessionVars, P!sessionVars
<1>4. \A o : /\ S!CheckContext(o) <=> P!CheckContext(o)
             /\ S!BeginBubbleTea(o) <=> P!BeginBubbleTea(o)
             /\ S!Render(o) <=> P!Render(o)
             /\ S!Flush(o) <=> P!Flush(o)
             /\ S!Quit(o) <=> P!Quit(o)
             /\ S!Exit(o) <=> P!Exit(o)
             /\ S!Restore(o) <=> P!Restore(o)
             /\ S!Release(o) <=> P!Release(o)
  BY DEF S!CheckContext, P!CheckContext, S!BeginBubbleTea, P!BeginBubbleTea,
     S!Render, P!Render, S!Flush, P!Flush, S!Quit, P!Quit, S!Exit, P!Exit,
     S!Restore, P!Restore, S!Release, P!Release, S!sessionVars, P!sessionVars,
     S!closeVars, P!closeVars, S!InClose, P!InClose
<1>5. /\ S!ParentCancel <=> P!ParentCancel
      /\ S!TransportRead <=> P!TransportRead
      /\ S!Drain <=> P!Drain
  BY DEF S!ParentCancel, P!ParentCancel, S!TransportRead, P!TransportRead,
     S!Drain, P!Drain, S!ReadPty, P!ReadPty, S!sessionVars, P!sessionVars,
     S!closeVars, P!closeVars
<1>6. S!Next <=> P!Next
  BY <1>1, <1>2, <1>3, <1>4, <1>5, Zenon DEF S!Next, P!Next
<1>7. S!Init <=> P!Init  BY <1>1 DEF S!Init, P!Init
<1>8. S!TypeOK <=> P!TypeOK
  BY <1>1 DEF S!TypeOK, P!TypeOK, S!CloseSteps, P!CloseSteps, S!RunSteps,
     P!RunSteps
<1> QED  BY <1>6, <1>7, <1>8 DEF session, P!vars

(* What the theorems about a session assume. *)
LEMMA SessionAssumption == P!Assumption
  BY ConnectionAssumption DEF P!Assumption, OtherClosers, Programs, Pumps

Uses == S!Next \/ CommandWrites

(* Whoever uses the session in these ways keeps its invariant; a command that
   writes to the PTY it was given changes nothing that the invariant relates. *)
LEMMA UsesIInv == ASSUME P!IInv, [Uses]_session PROVE P!IInv'
<1>1. CASE S!Next \/ UNCHANGED session
  <2>1. [P!Next]_P!vars  BY <1>1, SameSession DEF session, P!vars
  <2> QED  BY <2>1, SessionAssumption, P!NextIInv
<1>2. CASE CommandWrites
  <2>1. backlog' \in 0 .. Cap
    BY <1>2, ConnectionAssumption DEF CommandWrites, P!IInv, P!TypeOK
  <2> QED
    BY <1>2, <2>1 DEF CommandWrites, P!IInv, P!TypeOK, P!Reservation, P!OneCloser,
       P!CloserAtWork, P!CloserKnows, P!DoneOnce, P!Final, P!InClose
<1> QED  BY <1>1, <1>2 DEF Uses

(* A session that is closed stays so. *)
LEMMA ClosedForGood == ASSUME [Uses]_session, closed PROVE closed'
  BY DEF Uses, CommandWrites, session, S!Next, S!CloseEnter, S!CloseFirst,
     S!CloseAgain, S!CloseStep, S!CloseCancel, S!CloseSignal, S!CloseCheck,
     S!CloseWait, S!ClosePty, S!CheckContext, S!BeginBubbleTea, S!Render, S!Flush,
     S!Quit, S!Exit, S!Restore, S!Release, S!ParentCancel, S!TransportRead,
     S!Drain, S!ReadPty, S!sessionVars

(* Who may call Close. *)
LEMMA Callers ==
  \A g \in Pumps \cup {"handler", "idle", "command", "program"} :
    g \in S!Goroutines
  BY DEF S!Goroutines, OtherClosers, Programs

(* Each step of the connection uses the session in one of these ways or leaves
   it alone. *)
LEMMA NextUses == ASSUME [Next]_vars PROVE [Uses]_session
<1> USE DEF Uses
<1>1. CASE HandlerStep
  BY <1>1, Callers DEF HandlerStep, Return, Upgrade, AcceptFails, ResizeTimeout,
     CreateFails, HangUpEarly, CreateSession, SendOptions, Join, HandlerClose,
     HandlerClosed, DrainPeer, S!Next
<1>2. CASE AcceptStream \/ FirstResize \/ BadFirstFrame
  BY <1>2 DEF AcceptStream, FirstResize, BadFirstFrame, HangUpEarly
<1>3. CASE OutputStep
  BY <1>3 DEF OutputStep, OutputRead, OutputEOF, OutputWrite, OutputMsgClose,
     OutputHangUp, S!Next
<1>4. CASE \/ InputStep \/ ReceiveInput \/ ReceivePing \/ ReceiveOversized
           \/ ReceiveBadFrame
  BY <1>4 DEF InputStep, InputFails, InputFeed, InputPong, ReceiveInput,
     ReceivePing, ReceiveOversized, ReceiveBadFrame
<1>5. ASSUME NEW p \in Pumps, CleanupStep(p) PROVE [Uses]_session
  BY <1>5, Callers DEF CleanupStep, Cleanup, CleanupClose, CleanupDone, CleanupJoin,
     S!Next
<1>6. ASSUME NEW g \in S!Goroutines, Closing(g) PROVE [Uses]_session
  BY <1>6 DEF Closing, SessionStep, S!Next
<1>7. ASSUME NEW o \in Programs, ProgramMay(o) \/ ProgramMust(o) \/ ProgramQuits(o)
      PROVE  [Uses]_session
  BY <1>7 DEF ProgramMay, ProgramMust, ProgramQuits, SessionStep, S!Next
<1>8. CASE \/ SessionStep(S!Drain) \/ ConsumeInput \/ StartCommand
           \/ CommandWrites \/ CommandExits
  BY <1>8 DEF SessionStep, ConsumeInput, StartCommand, CommandExits, S!Next
<1>9. CASE WorkloadClose \/ IdleFires \/ IdleEnds
  BY <1>9, Callers DEF WorkloadClose, IdleFires, IdleEnds, S!Next
<1>10. CASE ClientReads \/ ClientLeaves \/ ClientStops \/ RequestEnds
  BY <1>10 DEF ClientReads, ClientLeaves, ClientStops, RequestEnds, S!Next
<1>11. CASE UNCHANGED vars
  BY <1>11 DEF vars
<1> QED
  BY <1>1, <1>2, <1>3, <1>4, <1>5, <1>6, <1>7, <1>8, <1>9, <1>10, <1>11 DEF Next

-----------------------------------------------------------------------------
(* The types of what belongs to the connection itself. *)

LocalType ==
  /\ setup \in Setups
  /\ h \in HandlerAt
  /\ pump \in [Pumps -> PumpAt]
  /\ once \in {"new", "busy", "done"}
  /\ {hctx, req, readable, writable, stopped, abused, gotClose} \subseteq BOOLEAN
  /\ conn \in {"none", "open", "closed"}
  /\ out \in Seq(Frames) /\ Len(out) <= Window
  /\ peer \in {"up", "gone"}
  /\ inbuf \in 0 .. Cap
  /\ job \in {"off", "start", "running", "over"}
  /\ watcher \in {"off", "watching", "closing", "done"}

(* A frame that is written fits in the window. *)
LEMMA WriteTyped ==
  ASSUME LocalType, NEW f \in Frames, WriteOK(f) \/ WriteErr
  PROVE  /\ out' \in Seq(Frames) /\ Len(out') <= Window
         /\ conn' \in {"none", "open", "closed"}
<1>1. CASE WriteOK(f)
  <2>1. /\ out' = Append(out, f) /\ Len(out) < Window /\ conn' = conn
    BY <1>1 DEF WriteOK
  <2>2. out \in Seq(Frames) /\ Len(out) \in Nat /\ Window \in Nat
    BY ConnectionAssumption DEF LocalType
  <2>3. Append(out, f) \in Seq(Frames) /\ Len(Append(out, f)) = Len(out) + 1
    BY <2>2
  <2> QED  BY <2>1, <2>2, <2>3 DEF LocalType
<1>2. CASE WriteErr
  BY <1>2 DEF LocalType, WriteErr, Broken
<1> QED  BY <1>1, <1>2

(* No frame at all fits, too. *)
LEMMA NoFrames == <<>> \in Seq(Frames) /\ Len(<<>>) <= Window
  BY ConnectionAssumption

(* The steps of the handler keep the types. *)
LEMMA HandlerTyped ==
  ASSUME LocalType,
         HandlerStep \/ AcceptStream \/ FirstResize \/ BadFirstFrame
  PROVE  LocalType'
<1> USE DEF LocalType, HandlerAt, wireRest, wire
<1>1. CASE HangUpEarly  BY <1>1, NoFrames DEF HangUpEarly
<1>2. CASE \/ Return \/ Upgrade \/ CreateSession \/ HandlerClose \/ HandlerClosed
           \/ AcceptStream \/ FirstResize
  BY <1>2 DEF Return, Upgrade, CreateSession, HandlerClose, HandlerClosed,
     AcceptStream, FirstResize
<1>3. CASE SendOptions
  <2>1. /\ out' \in Seq(Frames) /\ Len(out') <= Window
        /\ conn' \in {"none", "open", "closed"}
    BY <1>3, WriteTyped DEF SendOptions, Frames
  <2>2. pump' \in [Pumps -> PumpAt]  BY <1>3 DEF SendOptions, PumpAt
  <2>3. writable' \in BOOLEAN  BY <1>3 DEF SendOptions
  <2> QED  BY <1>3, <2>1, <2>2, <2>3 DEF SendOptions
<1>4. CASE Join
  <2>1. writable' \in BOOLEAN  BY <1>4 DEF Join
  <2> QED  BY <1>4, <2>1 DEF Join, Broken
<1>5. CASE DrainPeer  BY <1>5, NoFrames DEF DrainPeer
<1> QED
  BY <1>1, <1>2, <1>3, <1>4, <1>5 DEF HandlerStep, AcceptFails, ResizeTimeout,
     BadFirstFrame, CreateFails

(* So do those of the output goroutine, ... *)
LEMMA OutputTyped == ASSUME LocalType, OutputStep PROVE LocalType'
<1> USE DEF LocalType, wireRest, pumpRest
<1>1. pump' \in [Pumps -> PumpAt]
  BY DEF OutputStep, OutputRead, OutputEOF, OutputWrite, OutputMsgClose,
     OutputHangUp, Move, PumpAt
<1>2. /\ out' \in Seq(Frames) /\ Len(out') <= Window
      /\ conn' \in {"none", "open", "closed"}
  BY WriteTyped DEF OutputStep, OutputRead, OutputEOF, OutputWrite,
     OutputMsgClose, OutputHangUp, Broken, Frames
<1>3. readable' \in BOOLEAN /\ writable' \in BOOLEAN
  BY DEF OutputStep, OutputRead, OutputEOF, OutputWrite, OutputMsgClose,
     OutputHangUp
<1> QED
  BY <1>1, <1>2, <1>3 DEF OutputStep, OutputRead, OutputEOF, OutputWrite,
     OutputMsgClose, OutputHangUp

Receives == \/ ReceiveInput \/ ReceivePing \/ ReceiveOversized \/ ReceiveBadFrame

(* ... of the input goroutine, ... *)
LEMMA InputTyped == ASSUME LocalType, InputStep \/ Receives PROVE LocalType'
<1> USE DEF LocalType, wireRest, wire, local, pumpRest, Receives
<1>1. pump' \in [Pumps -> PumpAt]
  BY DEF InputStep, InputFails, InputFeed, InputPong, ReceiveInput, ReceivePing,
     ReceiveOversized, ReceiveBadFrame, Move, PumpAt
<1>2. /\ out' \in Seq(Frames) /\ Len(out') <= Window
      /\ conn' \in {"none", "open", "closed"}
  BY WriteTyped, NoFrames DEF InputStep, InputFails, InputFeed, InputPong,
     ReceiveInput, ReceivePing, ReceiveOversized, ReceiveBadFrame, Broken, Frames
<1>3. {readable', writable', abused'} \subseteq BOOLEAN
  BY DEF InputStep, InputFails, InputFeed, InputPong, ReceiveInput, ReceivePing,
     ReceiveOversized, ReceiveBadFrame
<1>4. inbuf' \in 0 .. Cap
  BY ConnectionAssumption DEF InputStep, InputFails, InputFeed, InputPong,
     ReceiveInput, ReceivePing, ReceiveOversized, ReceiveBadFrame
<1> QED
  BY <1>1, <1>2, <1>3, <1>4 DEF InputStep, InputFails, InputFeed, InputPong,
     ReceiveInput, ReceivePing, ReceiveOversized, ReceiveBadFrame

Workload ==
  \/ \E g \in S!Goroutines : Closing(g)
  \/ \E o \in Programs : ProgramMay(o) \/ ProgramMust(o) \/ ProgramQuits(o)
  \/ SessionStep(S!Drain)
  \/ ConsumeInput \/ StartCommand \/ CommandWrites \/ CommandExits
  \/ WorkloadClose \/ IdleFires \/ IdleEnds

(* ... of cleanup, the closers, the workload and the watcher, ... *)
LEMMA WorkloadTyped ==
  ASSUME LocalType, (\E p \in Pumps : CleanupStep(p)) \/ Workload
  PROVE  LocalType'
<1> USE DEF LocalType, wire, outside
<1>1. CASE \E p \in Pumps : CleanupStep(p)
  BY <1>1, ZenonT(60) DEF CleanupStep, Cleanup, CleanupClose, CleanupDone, CleanupJoin, Move,
     PumpAt
<1>2. CASE ConsumeInput
  BY <1>2, ConnectionAssumption DEF ConsumeInput
<1>3. CASE \/ (\E g \in S!Goroutines : Closing(g))
           \/ (\E o \in Programs :
                 ProgramMay(o) \/ ProgramMust(o) \/ ProgramQuits(o))
           \/ SessionStep(S!Drain)
  BY <1>3 DEF Closing, ProgramMay, ProgramMust, ProgramQuits, SessionStep
<1>4. CASE \/ StartCommand \/ CommandWrites \/ CommandExits
           \/ WorkloadClose \/ IdleFires \/ IdleEnds
  BY <1>4 DEF StartCommand, CommandWrites, CommandExits, WorkloadClose, IdleFires,
     IdleEnds
<1> QED  BY <1>1, <1>2, <1>3, <1>4 DEF Workload

Environment == ClientReads \/ ClientLeaves \/ ClientStops \/ RequestEnds

(* ... and of the client and of the server's end. *)
LEMMA EnvironmentTyped == ASSUME LocalType, Environment PROVE LocalType'
<1> USE DEF LocalType, local
<1>1. CASE ClientReads
  <2>1. out' \in Seq(Frames) /\ Len(out') <= Window
    BY <1>1, ConnectionAssumption DEF ClientReads
  <2>2. gotClose' \in BOOLEAN  BY <1>1 DEF ClientReads
  <2> QED  BY <1>1, <2>1, <2>2 DEF ClientReads
<1>2. CASE ClientLeaves  BY <1>2, NoFrames DEF ClientLeaves
<1>3. CASE ClientStops  BY <1>3 DEF ClientStops
<1>4. CASE RequestEnds  BY <1>4 DEF RequestEnds
<1> QED  BY <1>1, <1>2, <1>3, <1>4 DEF Environment

(* Every step keeps the types. *)
LEMMA NextTyped == ASSUME LocalType, [Next]_vars PROVE LocalType'
<1>1. CASE UNCHANGED vars
  BY <1>1 DEF vars, wire, local, LocalType
<1>2. CASE Next
  BY <1>2, HandlerTyped, OutputTyped, InputTyped, WorkloadTyped, EnvironmentTyped
     DEF Next, Receives, Workload, Environment
<1> QED  BY <1>1, <1>2

-----------------------------------------------------------------------------
(* The order of the handler's steps. *)

Order == HandlerOrder /\ PumpsJoined

(* The handler goes from one step to the next. *)
LEMMA HandlerKeepsOrder ==
  ASSUME IInv, closed => closed',
         HandlerStep \/ AcceptStream \/ FirstResize \/ BadFirstFrame
  PROVE  Order'
<1> USE DEF IInv, Order, HandlerOrder, PumpsJoined
<1>1. CASE HangUpEarly /\ h \in {"stream", "resize", "create"}
  BY <1>1 DEF HangUpEarly
<1>2. CASE Return \/ Upgrade \/ AcceptStream \/ FirstResize \/ CreateSession
  BY <1>2 DEF Return, Upgrade, AcceptStream, FirstResize, CreateSession
<1>3. CASE SendOptions  BY <1>3 DEF SendOptions
<1>4. CASE Join  BY <1>4 DEF Join
<1>5. CASE HandlerClose
  <2>1. closed'
    BY <1>5 DEF HandlerClose, S!CloseEnter, S!CloseFirst, S!CloseAgain
  <2> QED  BY <1>5, <2>1 DEF HandlerClose
<1>6. CASE HandlerClosed \/ DrainPeer
  BY <1>6 DEF HandlerClosed, DrainPeer
<1> QED
  BY <1>1, <1>2, <1>3, <1>4, <1>5, <1>6 DEF HandlerStep, AcceptFails,
     ResizeTimeout, BadFirstFrame, CreateFails

(* Nobody else moves the handler, starts a workload or brings an ended
   transport goroutine back. *)
LEMMA OthersKeepOrder ==
  ASSUME IInv, closed => closed', UNCHANGED h,
         job = "off" => job' = "off", job # "off" => job' # "off",
         \A p \in Pumps : pump[p] \in {"off", "done"} => pump'[p] = pump[p]
  PROVE  Order'
  BY DEF IInv, Order, HandlerOrder, PumpsJoined

(* A transport goroutine that moves was neither off nor done. *)
LEMMA Moves ==
  ASSUME LocalType, NEW p \in Pumps, NEW from, NEW to, Move(p, from, to),
         from \notin {"off", "done"}
  PROVE  \A q \in Pumps : pump[q] \in {"off", "done"} => pump'[q] = pump[q]
  BY DEF LocalType, Move

(* Every step keeps the order. *)
LEMMA NextOrder ==
  ASSUME IInv, LocalType, closed => closed', [Next]_vars
  PROVE  Order'
<1> DEFINE Rest == /\ UNCHANGED h
                   /\ job = "off" => job' = "off"
                   /\ job # "off" => job' # "off"
                   /\ \A p \in Pumps :
                        pump[p] \in {"off", "done"} => pump'[p] = pump[p]
<1> USE DEF pumpRest, wireRest, wire, local, outside
<1>1. CASE HandlerStep \/ AcceptStream \/ FirstResize \/ BadFirstFrame
  BY <1>1, HandlerKeepsOrder
<1>2. ASSUME OutputStep PROVE Rest
  BY <1>2, Moves DEF OutputStep, OutputRead, OutputEOF, OutputWrite,
     OutputMsgClose, OutputHangUp, Pumps
<1>3. ASSUME InputStep \/ Receives PROVE Rest
  BY <1>3, Moves DEF Receives, InputStep, InputFails, InputFeed, InputPong,
     ReceiveInput, ReceivePing, ReceiveOversized, ReceiveBadFrame, Pumps
<1>4. ASSUME NEW p \in Pumps, CleanupStep(p) PROVE Rest
  BY <1>4, Moves DEF CleanupStep, Cleanup, CleanupClose, CleanupDone, CleanupJoin
<1>5. ASSUME Workload PROVE Rest
  BY <1>5 DEF Workload, Closing, ProgramMay, ProgramMust, ProgramQuits,
     SessionStep, ConsumeInput, StartCommand, CommandWrites, CommandExits,
     WorkloadClose, IdleFires, IdleEnds
<1>6. ASSUME Environment PROVE Rest
  BY <1>6 DEF Environment, ClientReads, ClientLeaves, ClientStops, RequestEnds
<1>7. ASSUME UNCHANGED vars PROVE Rest
  BY <1>7 DEF vars
<1>8. CASE Rest  BY <1>8, OthersKeepOrder
<1> HIDE DEF Rest
<1> QED
  BY <1>1, <1>2, <1>3, <1>4, <1>5, <1>6, <1>7, <1>8
     DEF Next, Receives, Workload, Environment

-----------------------------------------------------------------------------
(* The type invariant, by its parts. *)
LEMMA TypeParts == TypeOK <=> P!TypeOK /\ LocalType
  BY SameSession DEF TypeOK, LocalType

(* A connection that was not upgraded yet satisfies the invariant. *)
LEMMA InitIInv == Init => IInv
<1> SUFFICES ASSUME Init PROVE IInv
  OBVIOUS
<1>1. P!IInv
  BY SameSession, SessionAssumption, P!InitIInv DEF Init
<1>2. LocalType
  <2>1. pump \in [Pumps -> PumpAt]  BY DEF Init, PumpAt
  <2>2. out \in Seq(Frames) /\ Len(out) <= Window  BY NoFrames DEF Init
  <2>3. inbuf \in 0 .. Cap  BY ConnectionAssumption DEF Init
  <2>4. {hctx, req, readable, writable, stopped, abused, gotClose} \subseteq BOOLEAN
    BY DEF Init
  <2> QED
    BY <2>1, <2>2, <2>3, <2>4 DEF Init, LocalType, HandlerAt
<1>3. HandlerOrder /\ PumpsJoined  BY DEF Init, HandlerOrder, PumpsJoined
<1> QED  BY <1>1, <1>2, <1>3, TypeParts DEF IInv, P!IInv

(* Every step of the connection keeps the invariant. *)
THEOREM Inductive == IInv /\ [Next]_vars => IInv'
<1> SUFFICES ASSUME IInv, [Next]_vars PROVE IInv'
  OBVIOUS
<1>1. [Uses]_session  BY NextUses
<1>2. P!IInv'  BY <1>1, UsesIInv DEF IInv
<1>3. LocalType  BY TypeParts DEF IInv
<1>4. LocalType'  BY <1>3, NextTyped
<1>5. TypeOK'
  <2>1. P!TypeOK'  BY <1>2 DEF P!IInv
  <2> QED  BY <2>1, <1>4, TypeParts, PTL
<1>6. Order'  BY <1>1, <1>3, ClosedForGood, NextOrder
<1> QED  BY <1>2, <1>5, <1>6 DEF IInv, Order

(* The invariant holds in every state of a connection. *)
THEOREM Invariance == Spec => []IInv
  BY InitIInv, Inductive, PTL DEF Spec

(* Every variable of a connection keeps its type: the frames that are buffered
   and the input that waits stay within their limits. *)
THEOREM TypeCorrect == Spec => []TypeOK
<1>1. IInv => TypeOK  BY DEF IInv
<1> QED  BY <1>1, Invariance, PTL

(* The handler returns only after its transport goroutines have ended and the
   session was asked to close (serve/server.go, the deferred calls of handleWS
   and handleWT): a program that is still running has a closer that waits. *)
THEOREM HandlerLeavesNothing == Spec => []LeavesNothingBehind
<1>1. IInv => LeavesNothingBehind
  <2> SUFFICES ASSUME IInv, h \in {"leave", "gone"}
               PROVE  /\ \A p \in Pumps : pump[p] \in {"off", "done"}
                      /\ job # "off" =>
                           \/ pty = "closed"
                           \/ \E g \in S!Goroutines : S!InClose(g)
    BY DEF LeavesNothingBehind
  <2>1. \A p \in Pumps : pump[p] \in {"off", "done"}
    BY DEF IInv, PumpsJoined
  <2>2. job # "off" => closed  BY DEF IInv, HandlerOrder
  <2>3. closed => pty = "closed" \/ \E g \in S!Goroutines : S!InClose(g)
    BY DEF IInv, P!IInv, P!TypeOK, P!OneCloser, P!CloserAtWork, P!InClose,
       P!Goroutines, S!InClose, S!Goroutines
  <2> QED  BY <2>1, <2>2, <2>3
<1> QED  BY <1>1, Invariance, PTL

(* The transport, the workload, the idle watcher and the client use the session
   only in the ways of PtySession: what is proved of these holds here. *)
THEOREM UsesSession == Spec => SessionSpec
<1>1. Init => S!Init  BY DEF Init
<1>2. [Next]_vars => [S!Next \/ CommandWrites]_session  BY NextUses DEF Uses
<1> QED  BY <1>1, <1>2, PTL DEF Spec, SessionSpec

(* Of the session inside a connection: the PTY outlives the program, one
   goroutine closes it, and a closing session has a closer. *)
THEOREM SessionKept ==
  Spec => [](S!PtyValidWhileOwned /\ S!OneOwnerOneClose /\ S!CloserAtWork)
<1>1. P!IInv =>
        P!PtyValidWhileOwned /\ P!OneOwnerOneClose /\ P!CloserAtWork
  BY DEF P!IInv, P!TypeOK, P!Reservation, P!Final, P!DoneOnce, P!OneCloser,
     P!PtyValidWhileOwned, P!OneOwnerOneClose
<1>2. /\ S!PtyValidWhileOwned <=> P!PtyValidWhileOwned
      /\ S!OneOwnerOneClose <=> P!OneOwnerOneClose
      /\ S!CloserAtWork <=> P!CloserAtWork
  BY DEF S!PtyValidWhileOwned, P!PtyValidWhileOwned, S!OneOwnerOneClose,
     P!OneOwnerOneClose, S!CloserAtWork, P!CloserAtWork, S!Holding, P!Holding,
     S!InClose, P!InClose, S!Goroutines, P!Goroutines
<1>3. IInv => S!PtyValidWhileOwned /\ S!OneOwnerOneClose /\ S!CloserAtWork
  BY <1>1, <1>2 DEF IInv
<1> QED  BY <1>3, Invariance, PTL

(* Inside a connection, too, the session keeps the promises of SessionContract
   to its program; what a command writes is no concern of theirs. *)
THEOREM ContractKept == Spec => P!Contract!Safety
<1>1. Init => P!Contract!Init
  BY SameSession, SessionAssumption, P!InitContract DEF Init
<1>2. IInv /\ [Next]_vars => [P!Contract!Next]_P!Contract!vars
  <2> SUFFICES ASSUME IInv, [Next]_vars
               PROVE  [P!Contract!Next]_P!Contract!vars
    OBVIOUS
  <2>1. [Uses]_session  BY NextUses
  <2>2. CASE S!Next \/ UNCHANGED session
    <3>1. [P!Next]_P!vars  BY <2>2, SameSession DEF session, P!vars
    <3> QED  BY <3>1, SessionAssumption, P!NextContract DEF IInv
  <2>3. CASE CommandWrites
    BY <2>3 DEF CommandWrites, P!Contract!vars
  <2> QED  BY <2>1, <2>2, <2>3 DEF Uses
<1> QED  BY <1>1, <1>2, Invariance, PTL DEF Spec, P!Contract!Safety
=============================================================================
