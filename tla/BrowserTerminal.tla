---------------------------- MODULE BrowserTerminal ----------------------------
(***************************************************************************)
(* BoobaTerminal's connection to a server (ts/booba.ts) through a          *)
(* BoobaProtocolAdapter, or through a BoobaAutoAdapter                     *)
(* (ts/auto_adapter.ts) that tries WebTransport first.                     *)
(*                                                                         *)
(* Each call of connectWebSocket or connectAuto makes an adapter, numbered *)
(* by the call; those of earlier calls live on in the callbacks they have  *)
(* registered.  An auto adapter is asked to connect once, so its           *)
(* generation is current as long as it is the terminal's adapter.          *)
(***************************************************************************)
EXTENDS Naturals, FiniteSets

CONSTANTS MaxTries,             \* bound: calls of connectWebSocket, connectAuto
          MaxReconnectAttempts  \* maxReconnectAttempts of an adapter

ASSUME BrowserAssumption == MaxTries \in Nat /\ MaxReconnectAttempts \in Nat

VARIABLES
  protocol,  \* the WebSocket adapter of each call
  wt,        \* the WebTransport adapter of each call
  auto,      \* where _tryConnect is, "ws" when WebSocket was the choice
  tries,     \* how many calls there were
  adapter,   \* this.adapter
  status,    \* the connection state that the page was told last
  controls   \* the adapter whose program's actions are on display

vars == <<protocol, wt, auto, tries, adapter, status, controls>>

Adapters == 1 .. MaxTries
None == 0

WebSocket == INSTANCE WebSocketAdapter
WebTransport == INSTANCE WebTransportAdapter

Init ==
  /\ protocol = [a \in Adapters |-> WebSocket!Fresh]
  /\ wt = [a \in Adapters |-> WebTransport!Fresh]
  /\ auto = [a \in Adapters |-> "none"]
  /\ tries = 0
  /\ adapter = None
  /\ status = "none"
  /\ controls = None

-----------------------------------------------------------------------------
(* The state callback of adapter a. *)
Report(a, state) ==
  IF adapter = a THEN status' = state /\ controls' = None
  ELSE UNCHANGED <<status, controls>>

(* What disconnect() leaves of the adapters. *)
ProtocolLeft == IF adapter = None THEN protocol
                ELSE [protocol EXCEPT ![adapter] = WebSocket!Disconnect(@)]

WtLeft == IF adapter = None \/ auto[adapter] # "wt" THEN wt
          ELSE [wt EXCEPT ![adapter] = WebTransport!Disconnect(@)]

(* connectWebSocket; or connectAuto where there is no WebTransport to try. *)
ConnectWebSocket ==
  /\ tries < MaxTries
  /\ tries' = tries + 1
  /\ adapter' = tries'
  /\ auto' = [auto EXCEPT ![tries'] = "ws"]
  /\ protocol' = [ProtocolLeft EXCEPT ![tries'] = WebSocket!Connect(@)]
  /\ wt' = WtLeft
  /\ status' = "connecting"
  /\ controls' = None

(* connectAuto, up to its fetch of the certificate's hash. *)
ConnectAuto ==
  /\ tries < MaxTries
  /\ tries' = tries + 1
  /\ adapter' = tries'
  /\ auto' = [auto EXCEPT ![tries'] = "fetch"]
  /\ protocol' = ProtocolLeft
  /\ wt' = WtLeft
  /\ status' = IF adapter = None THEN status ELSE "disconnected"
  /\ controls' = None

Disconnect ==
  /\ adapter # None
  /\ adapter' = None
  /\ protocol' = ProtocolLeft
  /\ wt' = WtLeft
  /\ status' = "disconnected"
  /\ controls' = None
  /\ UNCHANGED <<auto, tries>>

-----------------------------------------------------------------------------
(* _tryConnect after each of its awaits. *)

Abandon(a) ==
  /\ auto' = [auto EXCEPT ![a] = "stale"]
  /\ UNCHANGED <<protocol, status, controls>>

FallBack(a) ==
  /\ auto' = [auto EXCEPT ![a] = "ws"]
  /\ protocol' = [protocol EXCEPT ![a] = WebSocket!Connect(@)]
  /\ Report(a, "connecting")

TryTransport(a) ==
  /\ auto' = [auto EXCEPT ![a] = "wt"]
  /\ wt' = [wt EXCEPT ![a] = WebTransport!Connect(@)]
  /\ Report(a, "connecting")
  /\ UNCHANGED protocol

(* Fault: the generation is not compared after the fetch. *)
FetchOkUnchecked(a) ==
  /\ auto[a] = "fetch"
  /\ TryTransport(a)
  /\ UNCHANGED <<tries, adapter>>

FetchOk(a) ==
  /\ auto[a] = "fetch"
  /\ \/ adapter = a /\ TryTransport(a)
     \/ adapter # a /\ Abandon(a) /\ UNCHANGED wt
  /\ UNCHANGED <<tries, adapter>>

FetchFails(a) ==
  /\ auto[a] = "fetch"
  /\ \/ adapter = a /\ FallBack(a)
     \/ adapter # a /\ Abandon(a)
  /\ UNCHANGED <<wt, tries, adapter>>

(* The failure of a first attempt is not reported to the terminal. *)
TransportFails(a) ==
  /\ WebTransport!OnFail(a)
  /\ \/ adapter = a /\ FallBack(a)
     \/ adapter # a /\ Abandon(a)
  /\ UNCHANGED <<tries, adapter>>

-----------------------------------------------------------------------------
(* The callbacks of the adapters. *)

Opens(a, s) ==
  /\ WebSocket!OnOpen(a, s)
  /\ Report(a, "connected")
  /\ UNCHANGED <<wt, auto, tries, adapter>>

Closes(a, s) ==
  /\ WebSocket!OnClose(a, s)
  /\ Report(a, protocol'[a].told)
  /\ UNCHANGED <<wt, auto, tries, adapter>>

Redials(a) ==
  /\ WebSocket!OnTimer(a)
  /\ Report(a, "connecting")
  /\ UNCHANGED <<wt, auto, tries, adapter>>

TransportReady(a) ==
  /\ WebTransport!OnReady(a)
  /\ UNCHANGED <<protocol, auto, tries, adapter, status, controls>>

TransportOpens(a) ==
  /\ WebTransport!OnStream(a)
  /\ Report(a, "connected")
  /\ UNCHANGED <<protocol, auto, tries, adapter>>

TransportCloses(a) ==
  /\ WebTransport!OnDown(a)
  /\ IF wt'[a].told = wt[a].told THEN UNCHANGED <<status, controls>>
     ELSE Report(a, wt'[a].told)
  /\ UNCHANGED <<protocol, auto, tries, adapter>>

(* The server's program has ended. *)
Goodbye(a) ==
  /\ \/ (\E s \in WebSocket!Sockets : WebSocket!OnMsgClose(a, s)) /\ UNCHANGED wt
     \/ WebTransport!OnMsgClose(a) /\ UNCHANGED protocol
  /\ UNCHANGED <<auto, tries, adapter, status, controls>>

Reachable(a) == \/ WebSocket!Open(protocol[a]) # {}
                \/ wt[a].phase = "live" /\ wt[a].net = "up"

(* Output of the program publishes its actions. *)
Publish(a) ==
  /\ Reachable(a) /\ adapter = a /\ status = "connected"
  /\ controls' = a
  /\ UNCHANGED <<protocol, wt, auto, tries, adapter, status>>

(* What an adapter waits for: answers, timers and close events. *)
Awaited(a) ==
  \/ FetchOk(a) \/ FetchFails(a) \/ TransportFails(a)
  \/ TransportReady(a) \/ TransportOpens(a) \/ Redials(a)
  \/ \E s \in WebSocket!Sockets :
       \/ Opens(a, s)
       \/ protocol[a].sock[s] # "open" /\ Closes(a, s)

(* What comes unasked. *)
Unasked(a) ==
  \/ TransportCloses(a) \/ Goodbye(a) \/ Publish(a)
  \/ \E s \in WebSocket!Sockets : protocol[a].sock[s] = "open" /\ Closes(a, s)

Next == \/ ConnectWebSocket \/ ConnectAuto \/ Disconnect
        \/ \E a \in Adapters : Awaited(a) \/ Unasked(a)

(* The browser resolves what it was asked for: a dial is answered or fails, a
   timer runs out, a close is completed, and the fetch ends. *)
Fairness == \A a \in Adapters : WF_vars(Awaited(a))

Spec == Init /\ [][Next]_vars /\ Fairness

-----------------------------------------------------------------------------
(* The types of the terminal and of its adapters; no adapter makes more
   attempts in a row than maxReconnectAttempts, and it has one reconnect timer
   (ts/websocket_adapter.ts _reconnect). *)
TypeOK ==
  /\ WebSocket!TypeOK
  /\ WebTransport!TypeOK
  /\ auto \in [Adapters -> {"none", "fetch", "wt", "ws", "stale"}]
  /\ tries \in 0 .. MaxTries
  /\ adapter \in 0 .. tries
  /\ status \in {"none", "connecting", "connected", "reconnecting",
                 "disconnected"}
  /\ controls \in 0 .. tries

Alive(a) == WebSocket!Live(protocol[a]) # {} \/ wt[a].net \in {"connecting", "up"}

(* What the page shows is so, whichever adapters have called back in whichever
   order: "connected" has a connection (until the server says goodbye over
   WebTransport), "reconnecting" has a timer running, and "disconnected" has no
   connection that goes on unseen (ts/booba.ts _setupAdapter). *)
StatusTruthful ==
  /\ status = "connected" =>
       adapter # None /\ (Reachable(adapter) \/ wt[adapter].ended)
  /\ status = "reconnecting" => protocol[adapter].timers > 0
  /\ status = "disconnected" /\ adapter # None => ~Alive(adapter)

(* A try holds one connection at most, over whichever transport, and a
   WebTransport session does not outlive the terminal's interest in it, although
   the fetch and the handshake may end after a disconnect
   (ts/auto_adapter.ts _tryConnect, the generation checks). *)
OneConnection ==
  \A a \in Adapters :
    /\ Cardinality(WebSocket!Live(protocol[a])) <= 1
    /\ wt[a].net \in {"connecting", "up"} =>
         a = adapter /\ WebSocket!Live(protocol[a]) = {}

(* An adapter pings while its connection is open, over one interval, and never
   after: dropped connections leave no interval behind (_startPing, _stopPing). *)
PingsMatch ==
  \A a \in Adapters :
    /\ protocol[a].pings = Cardinality(WebSocket!Open(protocol[a]))
    /\ wt[a].pinging => wt[a].net = "up" \/ wt[a].ended

(* docs/TERMINAL_ACTIONS.md:145: "Booba clears actions on adapter replacement,
   disconnect/reconnect".  Over WebTransport it does not once the server has
   said goodbye: closed is set, and the end of the session is not reported
   (ts/webtransport_adapter.ts:69, 181). *)
DisconnectClearsActions == controls # None => Reachable(controls)

(* An adapter that was disconnected, or that the server said goodbye to, never
   schedules a reconnect, even when a timer set before dials once more
   (ts/websocket_adapter.ts:101-108). *)
NoRetryAfterEnd ==
  [][\A a \in Adapters :
       protocol[a].ended \/ (a <= tries /\ a # adapter) =>
         protocol'[a].timers <= protocol[a].timers]_vars

Trying == adapter # None /\ \/ auto[adapter] = "fetch"
                            \/ status \in {"connecting", "reconnecting"}

(* A terminal does not try for ever: the attempts, over both transports, end in
   a connection or in "disconnected" (maxReconnectAttempts, the three seconds
   of ts/webtransport_adapter.ts:95-100). *)
Settles == []<>~Trying
=============================================================================
