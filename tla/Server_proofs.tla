----------------------------- MODULE Server_proofs -----------------------------
(***************************************************************************)
(* Theorems about a Server.  The connect chain: the connection count is    *)
(* exact and the limit holds for every number of requests, every limit and *)
(* every interleaving, provided that no installed middleware fails after   *)
(* its next has approved.  The way of a resize: the session's lock keeps   *)
(* the PTY, the session and the event queue in step for any number of      *)
(* appliers, and with one applier sizes arrive in order, both for any      *)
(* number of resizes.                                                      *)
(***************************************************************************)
EXTENDS Admission, ResizePipeline, FiniteSetTheorems, TLAPS

(* The contract of ConnectMiddleware that the count relies on. *)
Lawful == "late" \notin Outer

Typed == /\ maxConnections \in Limits
         /\ connCount \in Int
         /\ current \in [Requests -> Int]
         /\ pc \in [Requests -> Steps]

(* What a request that is about to swap has read is below the limit, so a
   swap that succeeds keeps the count within it. *)
BelowLimit == \A r \in Requests : pc[r] = "swap" => current[r] < maxConnections

(* Only an unlimited server adds without looking. *)
AddsUnlimited == \A r \in Requests : pc[r] = "add" => maxConnections = 0

IInv == Typed /\ CountExact /\ BelowLimit /\ AddsUnlimited

-----------------------------------------------------------------------------
(* The three ways a step changes the set of slot holders. *)

LEMMA HoldersFinite == /\ IsFiniteSet(Holders)
                       /\ Cardinality(Holders) \in Nat
  BY AdmissionAssumption, FS_Subset, FS_CardinalityType DEF Holders

LEMMA HoldersSame ==
  ASSUME Typed, NEW r \in Requests, NEW a, NEW b, Goto(r, a, b),
         a \in {"returning", "serving"} <=> b \in {"returning", "serving"}
  PROVE  Holders' = Holders
  BY DEF Typed, Goto, Holders

LEMMA HoldersGrow ==
  ASSUME Typed, NEW r \in Requests, NEW a, Goto(r, a, "returning"),
         a \notin {"returning", "serving"}
  PROVE  /\ r \notin Holders
         /\ Holders' = Holders \cup {r}
         /\ Cardinality(Holders') = Cardinality(Holders) + 1
<1>1. r \notin Holders /\ Holders' = Holders \cup {r}
  BY DEF Typed, Goto, Holders
<1>2. QED
  BY <1>1, HoldersFinite, FS_AddElement

LEMMA HoldersShrink ==
  ASSUME Typed, NEW r \in Requests, Goto(r, "serving", "idle")
  PROVE  /\ r \in Holders
         /\ Holders' = Holders \ {r}
         /\ Cardinality(Holders') = Cardinality(Holders) - 1
<1>1. r \in Holders /\ Holders' = Holders \ {r}
  BY DEF Typed, Goto, Holders
<1>2. QED
  BY <1>1, HoldersFinite, FS_RemoveElement

-----------------------------------------------------------------------------
LEMMA InitIInv == Init => IInv
<1>1. Init => Holders = {}
  BY DEF Init, Holders
<1>2. Init => CountExact
  BY <1>1, FS_EmptySet DEF Init, CountExact
<1>3. QED
  BY <1>2 DEF Init, IInv, Typed, Steps, BelowLimit, AddsUnlimited

LEMMA NextTyped == ASSUME Typed, [Next]_vars PROVE Typed'
<1>1. CASE UNCHANGED vars
  BY <1>1 DEF Typed, vars
<1>2. CASE Next
  BY <1>2, AdmissionAssumption
  DEF Typed, Next, Goto, Steps, Arrive, OuterEnds, OuterCallsNext, AuthFails,
      AuthPasses, Add, Refuse, Load, Swap, Approve, OuterFailsLate, Leave
<1>3. QED
  BY <1>1, <1>2

LEMMA NextCountExact == ASSUME Lawful, Typed, CountExact, [Next]_vars
                        PROVE  CountExact'
<1> USE HoldersFinite DEF Typed, CountExact
<1>1. CASE UNCHANGED vars
  BY <1>1 DEF vars, Holders
<1>2. CASE Next
  <2>1. PICK r \in Requests :
          \/ Arrive(r) \/ OuterEnds(r) \/ OuterCallsNext(r)
          \/ AuthFails(r) \/ AuthPasses(r)
          \/ Add(r) \/ Refuse(r) \/ Load(r) \/ Swap(r)
          \/ Approve(r) \/ OuterFailsLate(r) \/ Leave(r)
    BY <1>2 DEF Next
  <2>2. CASE Arrive(r)
    BY <2>2, HoldersSame DEF Arrive
  <2>3. CASE OuterEnds(r)
    BY <2>3, HoldersSame DEF OuterEnds
  <2>4. CASE OuterCallsNext(r)
    BY <2>4, HoldersSame DEF OuterCallsNext
  <2>5. CASE AuthFails(r)
    BY <2>5, HoldersSame DEF AuthFails
  <2>6. CASE AuthPasses(r)
    BY <2>6, HoldersSame DEF AuthPasses
  <2>7. CASE Add(r)
    BY <2>7, HoldersGrow DEF Add
  <2>8. CASE Refuse(r)
    BY <2>8, HoldersSame DEF Refuse
  <2>9. CASE Load(r)
    BY <2>9, HoldersSame DEF Load
  <2>10. CASE Swap(r)
    <3>1. CASE connCount = current[r]
      BY <2>10, <3>1, HoldersGrow DEF Swap
    <3>2. CASE connCount # current[r]
      BY <2>10, <3>2, HoldersSame DEF Swap
    <3>3. QED
      BY <3>1, <3>2
  <2>11. CASE Approve(r)
    BY <2>11, HoldersSame DEF Approve
  <2>12. CASE OuterFailsLate(r)
    BY <2>12 DEF OuterFailsLate, Lawful
  <2>13. CASE Leave(r)
    BY <2>13, HoldersShrink DEF Leave
  <2>14. QED
    BY <2>1, <2>2, <2>3, <2>4, <2>5, <2>6, <2>7, <2>8, <2>9, <2>10, <2>11,
       <2>12, <2>13
<1>3. QED
  BY <1>1, <1>2

LEMMA NextLocal == ASSUME Typed, BelowLimit, AddsUnlimited, [Next]_vars
                   PROVE  BelowLimit' /\ AddsUnlimited'
<1> USE DEF Typed, BelowLimit, AddsUnlimited
<1>1. CASE UNCHANGED vars
  BY <1>1 DEF vars
<1>2. CASE Next
  BY <1>2, AdmissionAssumption
  DEF Next, Goto, Arrive, OuterEnds, OuterCallsNext, AuthFails, AuthPasses,
      Add, Refuse, Load, Swap, Approve, OuterFailsLate, Leave
<1>3. QED
  BY <1>1, <1>2

LEMMA NextIInv == ASSUME Lawful, IInv, [Next]_vars PROVE IInv'
  BY NextTyped, NextCountExact, NextLocal DEF IInv

(* The invariant the theorems rest on. *)
THEOREM Inductive == ASSUME Lawful PROVE Spec => []IInv
  BY InitIInv, NextIInv, PTL DEF Spec

(* Every value has its type; in particular no interleaving of acquisitions
   and releases takes connCount below zero. *)
THEOREM TypeCorrect == ASSUME Lawful PROVE Spec => []TypeOK
<1>1. IInv => TypeOK
  BY HoldersFinite DEF IInv, Typed, CountExact, TypeOK
<1>2. QED
  BY <1>1, Inductive, PTL

(* connCount is exactly the number of requests that hold a slot. *)
THEOREM ExactCount == ASSUME Lawful PROVE Spec => []CountExact
<1>1. IInv => CountExact
  BY DEF IInv
<1>2. QED
  BY <1>1, Inductive, PTL

(* A 503 is sent only while MaxConnections slots are in use. *)
THEOREM RefusalsJustified == ASSUME Lawful PROVE Spec => RefusedOnlyWhenFull
<1>1. ASSUME IInv, [Next]_vars, NEW r \in Requests, Goto(r, "load", "idle")
      PROVE  Cardinality(Holders) >= maxConnections
  <2>1. pc[r] = "load" /\ pc' = [pc EXCEPT ![r] = "idle"]
    BY <1>1 DEF Goto
  <2>2. pc \in [Requests -> Steps] /\ pc' # pc
    BY <1>1, <2>1 DEF IInv, Typed
  <2>3. Next
    BY <1>1, <2>2 DEF vars
  <2>4. PICK q \in Requests :
          \/ Arrive(q) \/ OuterEnds(q) \/ OuterCallsNext(q)
          \/ AuthFails(q) \/ AuthPasses(q)
          \/ Add(q) \/ Refuse(q) \/ Load(q) \/ Swap(q)
          \/ Approve(q) \/ OuterFailsLate(q) \/ Leave(q)
    BY <2>3 DEF Next
  <2>5. pc[q] # pc'[q] => q = r
    BY <2>1, <2>2
  <2>6. connCount >= maxConnections
    BY <2>1, <2>2, <2>4, <2>5
    DEF Goto, Arrive, OuterEnds, OuterCallsNext, AuthFails, AuthPasses,
        Add, Refuse, Load, Swap, Approve, OuterFailsLate, Leave
  <2>7. QED
    BY <2>6, <1>1 DEF IInv, CountExact
<1>2. IInv /\ [Next]_vars
        => [\A r \in Requests : Goto(r, "load", "idle")
              => Cardinality(Holders) >= maxConnections]_vars
  BY <1>1
<1>3. QED
  BY <1>2, Inductive, PTL DEF Spec, RefusedOnlyWhenFull

(* The limit holds: the chain implements a pool of MaxConnections slots. *)
THEOREM RefinesSlots == ASSUME Lawful PROVE Spec => SlotsSpec
<1>1. Init => Slots!Init
  BY DEF Init, Slots!Init, Holders
<1>2. ASSUME Lawful, IInv, [Next]_vars PROVE [Slots!Next]_<<Holders, maxConnections>>
  <2> USE HoldersFinite
  <2>1. Typed
    BY <1>2 DEF IInv
  <2>2. CASE UNCHANGED vars
    BY <2>2 DEF vars, Holders
  <2>3. CASE Next
    <3>0. maxConnections' = maxConnections
      BY <2>3 DEF Next
    <3> USE <3>0
    <3>1. PICK r \in Requests :
            \/ Arrive(r) \/ OuterEnds(r) \/ OuterCallsNext(r)
            \/ AuthFails(r) \/ AuthPasses(r)
            \/ Add(r) \/ Refuse(r) \/ Load(r) \/ Swap(r)
            \/ Approve(r) \/ OuterFailsLate(r) \/ Leave(r)
      BY <2>3 DEF Next
    <3>2. CASE Arrive(r) \/ OuterEnds(r) \/ OuterCallsNext(r) \/ AuthFails(r)
      BY <3>2, <2>1, HoldersSame
      DEF Arrive, OuterEnds, OuterCallsNext, AuthFails
    <3>3. CASE AuthPasses(r)
      BY <3>3, <2>1, HoldersSame DEF AuthPasses
    <3>4. CASE Refuse(r) \/ Load(r) \/ Approve(r)
      BY <3>4, <2>1, HoldersSame DEF Refuse, Load, Approve
    <3>5. CASE Add(r)
      <4>1. r \notin Holders /\ Holders' = Holders \cup {r}
        BY <3>5, <2>1, HoldersGrow DEF Add
      <4>2. maxConnections = 0
        BY <3>5, <1>2 DEF Add, Goto, IInv, AddsUnlimited
      <4>3. QED
        BY <4>1, <4>2 DEF Slots!Next, Slots!Take
    <3>6. CASE Swap(r)
      <4>1. CASE connCount = current[r]
        <5>1. r \notin Holders /\ Holders' = Holders \cup {r}
          BY <3>6, <4>1, <2>1, HoldersGrow DEF Swap
        <5>2. Cardinality(Holders) < maxConnections
          BY <3>6, <4>1, <1>2 DEF Swap, Goto, IInv, CountExact, BelowLimit
        <5>3. Slots!Cardinality(Holders) = Cardinality(Holders)
          BY DEF Slots!Cardinality, Cardinality
        <5>4. QED
          BY <5>1, <5>2, <5>3 DEF Slots!Next, Slots!Take
      <4>2. CASE connCount # current[r]
        BY <3>6, <4>2, <2>1, HoldersSame DEF Swap
      <4>3. QED
        BY <4>1, <4>2
    <3>7. CASE OuterFailsLate(r)
      BY <3>7, <1>2 DEF OuterFailsLate, Lawful
    <3>8. CASE Leave(r)
      BY <3>8, <2>1, HoldersShrink DEF Leave, Slots!Next, Slots!Give
    <3>9. QED
      BY <3>1, <3>2, <3>3, <3>4, <3>5, <3>6, <3>7, <3>8
  <2>4. QED
    BY <1>2, <2>2, <2>3
<1>3. QED
  BY <1>1, <1>2, Inductive, PTL DEF Spec, SlotsSpec, Slots!Spec

-----------------------------------------------------------------------------
(* The way of a resize *)

SizesTyped ==
  /\ calls \in Nat
  /\ ap \in [Appliers -> {"idle", "drain", "push"}]
  /\ val \in [Appliers -> Nat]
  /\ pending \in Nat /\ latest \in Nat /\ winSize \in Nat
  /\ resize \in Nat /\ msg \in Nat /\ shown \in Nat
  /\ have \in BOOLEAN /\ closed \in BOOLEAN /\ stopped \in BOOLEAN
  /\ thr \in ThrSteps
  /\ pty \in {"open", "closed"}
  /\ winch \in [cells : Nat, pixels : Nat]
  /\ fwd \in {"start", "send", "select", "dead"}

(* What the lock protects, step by step while the throttle holds it. *)
LockInv ==
  /\ pty = "closed" => closed
  /\ thr \in Locked => ~closed /\ winSize = latest
  /\ thr \notin {"send", "drain", "resend", "ioctl"}
       => winch.cells = winSize /\ resize \in {None, winSize}
  /\ thr \in {"send", "drain"} => resize \in {None, winch.cells}
  /\ thr = "resend" => resize = None
  /\ thr = "ioctl" => resize \in {None, winSize}

ResizeInv == SizesTyped /\ LockInv

(* With one applier every stage of the pipeline holds a size at most as old
   as the stage before it. *)
Ordered ==
  /\ \A a \in Appliers :
       /\ ap[a] = "drain" => val[a] = calls /\ pending < calls /\ latest < calls
       /\ ap[a] = "push" => val[a] = calls /\ pending = None /\ latest < calls
       /\ ap[a] = "idle" => pending <= calls /\ latest <= calls
  /\ pending # None => latest <= pending
  /\ winSize <= latest /\ winch.cells <= winSize
  /\ fwd = "start" => shown = None
  /\ fwd = "send" => shown <= msg
  /\ fwd = "select" => shown = msg
  /\ fwd \in {"send", "select"} =>
       msg <= winSize /\ (resize # None => msg <= resize)

OneApplier == \E a : Appliers = {a}

OInv == ResizeInv /\ Ordered

-----------------------------------------------------------------------------
LEMMA InitResizeInv == ResizeInit => ResizeInv
<1> SUFFICES ASSUME ResizeInit PROVE SizesTyped /\ LockInv
  BY DEF ResizeInv
<1>1. have \in BOOLEAN /\ closed \in BOOLEAN /\ stopped \in BOOLEAN /\ ~closed
  BY Zenon DEF ResizeInit
<1>2. SizesTyped
  BY <1>1 DEF ResizeInit, SizesTyped, ThrSteps, Locked, None
<1>3. LockInv
  BY <1>1 DEF ResizeInit, LockInv, Locked, None
<1>4. QED
  BY <1>2, <1>3

LEMMA NextSizesTyped == ASSUME SizesTyped, [ResizeNext]_resizeVars PROVE SizesTyped'
<1> USE DEF SizesTyped, None, applier, throttle, session, forward
<1>1. CASE UNCHANGED resizeVars
  BY <1>1 DEF resizeVars
<1>2. CASE \E a \in Appliers : Call(a) \/ DrainPending(a) \/ Push(a)
  BY <1>2 DEF Call, DrainPending, Push
<1>3. CASE Stop \/ TakeStop \/ TakePending \/ Tick
  <2>1. stopped' \in BOOLEAN /\ have' \in BOOLEAN /\ closed' \in BOOLEAN
    BY <1>3, Zenon DEF Stop, TakeStop, TakePending, Tick
  <2>2. QED
    BY <1>3, <2>1 DEF Stop, TakeStop, TakePending, Tick, ThrSteps, Locked
<1>4. CASE Lock \/ TrySend \/ DrainEvent \/ Resend \/ SetWinsize
  <2>1. stopped' \in BOOLEAN /\ have' \in BOOLEAN /\ closed' \in BOOLEAN
    BY <1>4, Zenon DEF Lock, TrySend, DrainEvent, Resend, SetWinsize,
                       BackToSelect
  <2>2. QED
    BY <1>4, <2>1 DEF Lock, TrySend, DrainEvent, Resend, SetWinsize,
                      BackToSelect, ThrSteps, Locked
<1>5. CASE SetClosed \/ ClosePty \/ Forward
  <2>1. stopped' \in BOOLEAN /\ have' \in BOOLEAN /\ closed' \in BOOLEAN
    BY <1>5, Zenon DEF SetClosed, ClosePty, Forward, ReadWindowSize, Send,
                       TakeEvent, TakeDone
  <2>2. QED
    BY <1>5, <2>1 DEF SetClosed, ClosePty, Forward, ReadWindowSize, Send,
                      TakeEvent, TakeDone
<1>6. QED
  BY <1>1, <1>2, <1>3, <1>4, <1>5 DEF ResizeNext, Throttle

LEMMA NextLockInv == ASSUME SizesTyped, LockInv, [ResizeNext]_resizeVars
                    PROVE  LockInv'
<1> USE DEF SizesTyped, LockInv, None, Locked, ThrSteps
<1>1. CASE UNCHANGED resizeVars
  BY <1>1 DEF resizeVars, applier, throttle, session, forward
<1>2. CASE \E a \in Appliers : Call(a) \/ DrainPending(a) \/ Push(a)
  BY <1>2 DEF Call, DrainPending, Push, throttle, session
<1>3. CASE Stop \/ TakeStop \/ Tick
  BY <1>3 DEF Stop, TakeStop, Tick, session
<1>4. CASE TakePending
  BY <1>4 DEF TakePending, session
<1>5. CASE Lock
  BY <1>5 DEF Lock, BackToSelect
<1>6. CASE TrySend
  BY <1>6 DEF TrySend
<1>7. CASE DrainEvent \/ Resend
  BY <1>7 DEF DrainEvent, Resend
<1>8. CASE SetWinsize
  BY <1>8 DEF SetWinsize, BackToSelect
<1>9. CASE SetClosed \/ ClosePty
  BY <1>9 DEF SetClosed, ClosePty, throttle, Free
<1>10. CASE Forward
  BY <1>10 DEF Forward, ReadWindowSize, Send, TakeEvent, TakeDone, throttle,
               session
<1>11. QED
  BY <1>1, <1>2, <1>3, <1>4, <1>5, <1>6, <1>7, <1>8, <1>9, <1>10
  DEF ResizeNext, Throttle

LEMMA NextResizeInv == ASSUME ResizeInv, [ResizeNext]_resizeVars PROVE ResizeInv'
  BY NextSizesTyped, NextLockInv DEF ResizeInv

(* The invariant of the lock, for any number of appliers. *)
THEOREM ResizesInductive == ResizeSpec => []ResizeInv
  BY InitResizeInv, NextResizeInv, PTL DEF ResizeSpec

(* No resize is in progress once closing has begun. *)
THEOREM ResizesStop == ResizeSpec => []NoLateResize
<1>1. ResizeInv => NoLateResize
  BY DEF ResizeInv, SizesTyped, LockInv, NoLateResize, Locked
<1>2. QED
  BY <1>1, ResizesInductive, PTL

(* The waiting event is the PTY's size whenever the lock is free. *)
THEOREM Agreement == ResizeSpec => []SizesAgree
<1>1. ResizeInv => SizesAgree
  BY DEF ResizeInv, LockInv, SizesAgree, Free, Locked
<1>2. QED
  BY <1>1, ResizesInductive, PTL

(* The send under the lock finds room. *)
THEOREM RoomToSend == ResizeSpec => []SendNeverBlocks
<1>1. ResizeInv => SendNeverBlocks
  BY DEF ResizeInv, LockInv, SendNeverBlocks
<1>2. QED
  BY <1>1, ResizesInductive, PTL

-----------------------------------------------------------------------------
LEMMA InitOrdered == ResizeInit => Ordered
  BY DEF ResizeInit, Ordered, None

LEMMA NextOrdered == ASSUME OneApplier, ResizeInv, Ordered, [ResizeNext]_resizeVars
                     PROVE  Ordered'
<1> USE DEF ResizeInv, SizesTyped, LockInv, Ordered, None, Locked, ThrSteps
<1>1. CASE UNCHANGED resizeVars
  BY <1>1 DEF resizeVars, applier, throttle, session, forward
<1>2. ASSUME NEW a \in Appliers, Call(a) \/ DrainPending(a) \/ Push(a)
      PROVE  Ordered'
  <2>1. Appliers = {a}
    BY <1>2 DEF OneApplier
  <2>2. CASE Call(a)
    BY <2>1, <2>2 DEF Call, throttle, session, forward
  <2>3. CASE DrainPending(a)
    BY <2>1, <2>3 DEF DrainPending, throttle, session, forward
  <2>4. CASE Push(a)
    BY <2>1, <2>4 DEF Push, throttle, session, forward
  <2>5. QED
    BY <1>2, <2>2, <2>3, <2>4
<1>3. CASE Stop \/ TakeStop \/ Tick
  BY <1>3 DEF Stop, TakeStop, Tick, applier, session, forward
<1>4. CASE TakePending
  BY <1>4 DEF TakePending, applier, session, forward
<1>5. CASE Lock
  BY <1>5 DEF Lock, BackToSelect, applier, forward
<1>6. CASE TrySend
  BY <1>6 DEF TrySend, applier, forward
<1>7. CASE DrainEvent \/ Resend
  BY <1>7 DEF DrainEvent, Resend, applier, forward
<1>8. CASE SetWinsize
  BY <1>8 DEF SetWinsize, BackToSelect, applier, forward
<1>9. CASE SetClosed \/ ClosePty
  BY <1>9 DEF SetClosed, ClosePty, applier, throttle, forward
<1>10. CASE ReadWindowSize
  BY <1>10 DEF ReadWindowSize, applier, throttle, session, Free
<1>11. CASE Send \/ TakeDone
  BY <1>11 DEF Send, TakeDone, applier, throttle, session
<1>12. CASE TakeEvent
  BY <1>12 DEF TakeEvent, applier, throttle
<1>13. QED
  BY <1>1, <1>2, <1>3, <1>4, <1>5, <1>6, <1>7, <1>8, <1>9, <1>10, <1>11,
     <1>12 DEF ResizeNext, Throttle, Forward

LEMMA StepForward == ASSUME OInv, [ResizeNext]_resizeVars
                     PROVE  shown' >= shown /\ winch'.cells >= winch.cells
<1> USE DEF OInv, ResizeInv, SizesTyped, LockInv, Ordered, None, Locked
<1>1. CASE UNCHANGED resizeVars
  BY <1>1 DEF resizeVars, session, forward
<1>2. CASE \E a \in Appliers : Call(a) \/ DrainPending(a) \/ Push(a)
  BY <1>2 DEF Call, DrainPending, Push, session, forward
<1>3. CASE Stop \/ TakeStop \/ TakePending \/ Tick
  BY <1>3 DEF Stop, TakeStop, TakePending, Tick, session, forward
<1>4. CASE Lock \/ TrySend \/ DrainEvent \/ Resend
  BY <1>4 DEF Lock, TrySend, DrainEvent, Resend, forward
<1>5. CASE SetWinsize
  BY <1>5 DEF SetWinsize, forward
<1>6. CASE SetClosed \/ ClosePty
  BY <1>6 DEF SetClosed, ClosePty, forward
<1>7. CASE ReadWindowSize \/ TakeEvent \/ TakeDone
  BY <1>7 DEF ReadWindowSize, TakeEvent, TakeDone, session
<1>8. CASE Send
  BY <1>8 DEF Send, session
<1>9. QED
  BY <1>1, <1>2, <1>3, <1>4, <1>5, <1>6, <1>7, <1>8 DEF ResizeNext, Throttle, Forward

(* With the server's single applier, neither the PTY nor the program ever
   goes back to an older size. *)
THEOREM InOrder == ASSUME OneApplier PROVE ResizeSpec => NeverBackwards
<1>1. ResizeInit => OInv
  BY InitResizeInv, InitOrdered DEF OInv
<1>2. OInv /\ [ResizeNext]_resizeVars => OInv'
  BY NextResizeInv, NextOrdered DEF OInv
<1>3. OInv /\ [ResizeNext]_resizeVars
        => [shown' >= shown /\ winch'.cells >= winch.cells]_resizeVars
  BY StepForward
<1>4. QED
  BY <1>1, <1>2, <1>3, PTL DEF ResizeSpec, NeverBackwards
=============================================================================
