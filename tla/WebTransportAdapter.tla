-------------------------- MODULE WebTransportAdapter --------------------------
(***************************************************************************)
(* BoobaWebTransportAdapter (ts/webtransport_adapter.ts) over one call of  *)
(* connect().                                                              *)
(*                                                                         *)
(* A promise's reactions run in the task that settles it, so an await is   *)
(* the only place where another task may come in.                          *)
(***************************************************************************)
EXTENDS Naturals

CONSTANT Adapters  \* the adapter objects

VARIABLE wt  \* the state of each adapter

(* phase: where connect() is, "ready" and "stream" being its awaits; net: the
   WebTransport session; closed: this.closed; attached: this.transport is this
   session; pinging: the ping interval is running; told: the state reported
   last; ended: a MsgClose has been received. *)
Fresh == [phase |-> "none", net |-> "none", closed |-> FALSE,
          attached |-> FALSE, pinging |-> FALSE, told |-> "none",
          ended |-> FALSE]

Opening == {"ready", "stream"}

-----------------------------------------------------------------------------
(* The methods. *)

Connect(o) == [o EXCEPT !.phase = "ready", !.net = "connecting",
                        !.closed = FALSE, !.attached = TRUE,
                        !.told = "connecting"]

Disconnect(o) == [o EXCEPT !.closed = TRUE, !.pinging = FALSE,
                           !.attached = FALSE,
                           !.net = IF @ = "none" THEN @ ELSE "down"]

(* The reactions to transport.closed. *)
Observe(o) == IF ~o.closed /\ o.attached
              THEN [o EXCEPT !.pinging = FALSE, !.told = "disconnected"]
              ELSE o

(* The catch clause of connect(). *)
Fail(o) == [Disconnect(o) EXCEPT
              !.phase = "failed",
              !.told = IF o.closed THEN @ ELSE "disconnected"]

-----------------------------------------------------------------------------
(* What may happen to the session. *)

Becomes(a, o) == wt' = [wt EXCEPT ![a] = o]

(* transport.ready is fulfilled: createBidirectionalStream. *)
OnReady(a) == /\ wt[a].phase = "ready" /\ wt[a].net = "connecting"
              /\ Becomes(a, [wt[a] EXCEPT !.phase = "stream", !.net = "up"])

OnStream(a) == /\ wt[a].phase = "stream" /\ wt[a].net = "up"
               /\ Becomes(a, [wt[a] EXCEPT !.phase = "live", !.pinging = TRUE,
                                           !.told = "connected"])

(* The handshake or the creation of the stream is rejected, or they take
   longer than the three seconds they have; when disconnect() has closed the
   session they are rejected too. *)
OnFail(a) == /\ wt[a].phase \in Opening
             /\ Becomes(a, Fail(Observe(wt[a])))

OnMsgClose(a) == /\ wt[a].phase = "live" /\ wt[a].net = "up"
                 /\ Becomes(a, [wt[a] EXCEPT !.closed = TRUE, !.ended = TRUE])

(* Fault: the end of a session that is in use is not observed. *)
OnDownUnseen(a) == /\ wt[a].phase = "live" /\ wt[a].net = "up"
                   /\ Becomes(a, [wt[a] EXCEPT !.net = "down"])

(* The session in use is closed by the server or lost. *)
OnDown(a) == /\ wt[a].phase = "live" /\ wt[a].net = "up"
             /\ Becomes(a, Observe([wt[a] EXCEPT !.net = "down"]))

-----------------------------------------------------------------------------
ObjectType ==
  [phase : {"none", "ready", "stream", "live", "failed"},
   net : {"none", "connecting", "up", "down"}, closed : BOOLEAN,
   attached : BOOLEAN, pinging : BOOLEAN,
   told : {"none", "connecting", "connected", "disconnected"},
   ended : BOOLEAN]

TypeOK == wt \in [Adapters -> ObjectType]
=============================================================================
