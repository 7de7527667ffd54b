--------------------------- MODULE WebSocketAdapter ---------------------------
(***************************************************************************)
(* BoobaProtocolAdapter (ts/websocket_adapter.ts): the browser's           *)
(* connection over a WebSocket, which dials again when the socket closes.  *)
(*                                                                         *)
(* JavaScript runs one task at a time, so every callback is one action.  A *)
(* method is an operator from the adapter's state to its next state: a     *)
(* caller may run several of them in one task.  A socket is forgotten when *)
(* its close event has been delivered.                                     *)
(***************************************************************************)
EXTENDS Naturals, FiniteSets

CONSTANTS Adapters,             \* the adapter objects
          MaxReconnectAttempts  \* maxReconnectAttempts

VARIABLE protocol  \* the state of each adapter

Sockets == 1 .. 2  \* one more than an adapter should ever have
None == 0

(* sock: the sockets in the browser; ws: this.ws, None when it is null or
   closed; timers: reconnect timers that are running; pings: ping intervals
   that are running; pinging: pingInterval is not null; told: the state
   reported last; ended: a MsgClose has been received. *)
Fresh == [sock |-> [s \in Sockets |-> "none"], ws |-> None,
          shouldReconnect |-> FALSE, reconnectAttempts |-> 0, timers |-> 0,
          pings |-> 0, pinging |-> FALSE, told |-> "none", ended |-> FALSE]

Open(o) == {s \in Sockets : o.sock[s] = "open"}
Live(o) == {s \in Sockets : o.sock[s] \in {"connecting", "open"}}

-----------------------------------------------------------------------------
(* The methods. *)

(* Fault: every dial starts the backoff anew. *)
DialResets(o) ==
  LET s == CHOOSE s \in Sockets : o.sock[s] = "none"
  IN  [o EXCEPT !.sock[s] = "connecting", !.ws = s, !.told = "connecting",
                !.reconnectAttempts = 0]

(* _connect *)
Dial(o) ==
  LET s == CHOOSE s \in Sockets : o.sock[s] = "none"
  IN  [o EXCEPT !.sock[s] = "connecting", !.ws = s, !.told = "connecting"]

Connect(o) == Dial([o EXCEPT !.shouldReconnect = TRUE])

StartPing(o) == [o EXCEPT !.pings = @ + 1, !.pinging = TRUE]

(* Fault: the interval is forgotten, not cleared. *)
StopPingForgets(o) == [o EXCEPT !.pinging = FALSE]

StopPing(o) == [o EXCEPT !.pings = IF o.pinging THEN @ - 1 ELSE @,
                         !.pinging = FALSE]

(* Fault: the wish to reconnect is not asked for. *)
MayReconnectAlways(o) == o.reconnectAttempts < MaxReconnectAttempts

MayReconnect(o) ==
  o.shouldReconnect /\ o.reconnectAttempts < MaxReconnectAttempts

Reconnect(o) == [o EXCEPT !.reconnectAttempts = @ + 1, !.timers = @ + 1,
                          !.told = "reconnecting"]

Disconnect(o) ==
  LET p == StopPing([o EXCEPT !.shouldReconnect = FALSE])
  IN  IF o.ws = None THEN p
      ELSE [p EXCEPT !.sock[o.ws] = "closing", !.ws = None]

-----------------------------------------------------------------------------
(* The callbacks. *)

Becomes(a, o) == protocol' = [protocol EXCEPT ![a] = o]

OnOpen(a, s) ==
  /\ protocol[a].sock[s] = "connecting"
  /\ Becomes(a, StartPing([protocol[a] EXCEPT !.sock[s] = "open",
                                              !.reconnectAttempts = 0,
                                              !.told = "connected"]))

OnMsgClose(a, s) ==
  /\ protocol[a].sock[s] = "open"
  /\ Becomes(a, [protocol[a] EXCEPT !.shouldReconnect = FALSE, !.ended = TRUE])

(* The handshake failed, the connection was lost or closed by the server, or
   disconnect() closed it. *)
OnClose(a, s) ==
  /\ protocol[a].sock[s] # "none"
  /\ LET o == StopPing([protocol[a] EXCEPT
                          !.sock[s] = "none",
                          !.ws = IF @ = s THEN None ELSE @])
     IN  Becomes(a, IF MayReconnect(o) THEN Reconnect(o)
                    ELSE [o EXCEPT !.told = "disconnected"])

(* Nothing cancels the timer, and its callback asks nothing. *)
OnTimer(a) ==
  /\ protocol[a].timers > 0
  /\ Becomes(a, Dial([protocol[a] EXCEPT !.timers = @ - 1]))

-----------------------------------------------------------------------------
ObjectType ==
  [sock : [Sockets -> {"none", "connecting", "open", "closing"}],
   ws : Sockets \cup {None}, shouldReconnect : BOOLEAN,
   reconnectAttempts : 0 .. MaxReconnectAttempts, timers : 0 .. 1,
   pings : 0 .. 2, pinging : BOOLEAN,
   told : {"none", "connecting", "connected", "reconnecting", "disconnected"},
   ended : BOOLEAN]

TypeOK == protocol \in [Adapters -> ObjectType]
=============================================================================
