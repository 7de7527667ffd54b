------------------------------ MODULE Admission ------------------------------
(***************************************************************************)
(* The connect chain of a Server and its connection count: the WebSocket   *)
(* and WebTransport handlers (serve/server.go) run the installed           *)
(* ConnectMiddleware, then basicAuthMiddleware, then connLimitMiddleware   *)
(* (serve/builtins.go), and release the slot when they return.             *)
(*                                                                         *)
(* Handlers run concurrently; every access to the atomic connCount is one  *)
(* action.  A request that is over may be made again.                      *)
(***************************************************************************)
EXTENDS Integers, FiniteSets

CONSTANTS
  Requests,  \* requests for /ws or /wt in progress
  Limits,    \* the values Config.MaxConnections may have, 0 for unlimited
  Outer      \* what the installed middleware does besides passing on:
             \* "reject" (an error, next not called), "skip" (approves,
             \* next not called), "late" (fails after next approved)

ASSUME AdmissionAssumption == /\ IsFiniteSet(Requests)
                              /\ Limits \subseteq Nat
                              /\ Outer \subseteq {"reject", "skip", "late"}

VARIABLES
  maxConnections,  \* Config.MaxConnections, which the server never changes
  connCount,       \* Server.connCount
  current,         \* per request: tryAcquireConnection's local variable
  pc               \* per request: where its handler is

vars == <<maxConnections, connCount, current, pc>>

Steps == {"idle", "outer", "auth", "add", "load", "swap", "returning", "serving"}

Init == /\ maxConnections \in Limits
        /\ connCount = 0
        /\ current = [r \in Requests |-> 0]
        /\ pc = [r \in Requests |-> "idle"]

Goto(r, from, to) == pc[r] = from /\ pc' = [pc EXCEPT ![r] = to]

-----------------------------------------------------------------------------
Arrive(r) == /\ Goto(r, "idle", "outer")
             /\ UNCHANGED <<connCount, current>>

(* A rejection, or a chain that never reached the terminal handler: the
   handler answers with an error and returns. *)
OuterEnds(r) == /\ Outer \cap {"reject", "skip"} # {}
                /\ Goto(r, "outer", "idle")
                /\ UNCHANGED <<connCount, current>>

OuterCallsNext(r) == /\ Goto(r, "outer", "auth")
                     /\ UNCHANGED <<connCount, current>>

AuthFails(r) == /\ Goto(r, "auth", "idle")
                /\ UNCHANGED <<connCount, current>>

AuthPasses(r) == /\ Goto(r, "auth", IF maxConnections = 0 THEN "add" ELSE "load")
                 /\ UNCHANGED <<connCount, current>>

(* tryAcquireConnection *)
Add(r) == /\ Goto(r, "add", "returning")
          /\ connCount' = connCount + 1
          /\ UNCHANGED current

Refuse(r) == /\ connCount >= maxConnections
             /\ Goto(r, "load", "idle")
             /\ UNCHANGED <<connCount, current>>

Load(r) == /\ connCount < maxConnections
           /\ Goto(r, "load", "swap")
           /\ current' = [current EXCEPT ![r] = connCount]
           /\ UNCHANGED connCount

(* Fault: the count is checked and then changed. *)
SwapUnchecked(r) == /\ Goto(r, "swap", "returning")
                    /\ connCount' = connCount + 1
                    /\ UNCHANGED current

(* Fault: the count is stored, not compared. *)
SwapStores(r) == /\ Goto(r, "swap", "returning")
                 /\ connCount' = current[r] + 1
                 /\ UNCHANGED current

Swap(r) == \/ /\ connCount = current[r]
              /\ Goto(r, "swap", "returning")
              /\ connCount' = current[r] + 1
              /\ UNCHANGED current
           \/ /\ connCount # current[r]
              /\ Goto(r, "swap", "load")
              /\ UNCHANGED <<connCount, current>>

(* The terminal handler, which is what connLimitMiddleware calls, approves;
   the chain returns nil and the handler defers the release. *)
Approve(r) == /\ Goto(r, "returning", "serving")
              /\ UNCHANGED <<connCount, current>>

(* An installed middleware returns an error of its own, or panics, after its
   next has approved: the handler returns before the deferred release. *)
OuterFailsLate(r) == /\ "late" \in Outer
                     /\ Goto(r, "returning", "idle")
                     /\ UNCHANGED <<connCount, current>>

(* Fault: a handler that failed to upgrade does not release. *)
LeaveKeepsSlot(r) == /\ Goto(r, "serving", "idle")
                     /\ connCount' \in {connCount, connCount - 1}
                     /\ UNCHANGED current

(* The handler returns, whether or not the upgrade succeeded. *)
Leave(r) == /\ Goto(r, "serving", "idle")
            /\ connCount' = connCount - 1
            /\ UNCHANGED current

Next == /\ \E r \in Requests :
             \/ Arrive(r) \/ OuterEnds(r) \/ OuterCallsNext(r)
             \/ AuthFails(r) \/ AuthPasses(r)
             \/ Add(r) \/ Refuse(r) \/ Load(r) \/ Swap(r)
             \/ Approve(r) \/ OuterFailsLate(r) \/ Leave(r)
        /\ UNCHANGED maxConnections

Spec == Init /\ [][Next]_vars
-----------------------------------------------------------------------------
TypeOK == /\ maxConnections \in Limits
          /\ connCount \in Nat
          /\ current \in [Requests -> Int]
          /\ pc \in [Requests -> Steps]

Holders == {r \in Requests : pc[r] \in {"returning", "serving"}}

(* connCount is the number of requests that were let through and have not
   been released: "the handler's deferred srv.releaseConnection() pairs up
   unconditionally" with connLimitMiddleware's acquisition
   (serve/builtins.go).  A slot that is not given back is lost until the
   server restarts. *)
CountExact == connCount = Cardinality(Holders)

(* A request is refused with 503 only while all the slots are really in
   use. *)
RefusedOnlyWhenFull ==
  [][\A r \in Requests : Goto(r, "load", "idle")
                           => Cardinality(Holders) >= maxConnections]_vars

(* The compare-and-swap loop keeps the promise of Config.MaxConnections
   however the two listeners' handlers interleave. *)
Slots == INSTANCE ConnectionSlots WITH holders <- Holders,
                                       limit <- maxConnections

SlotsSpec == Slots!Spec
=============================================================================
