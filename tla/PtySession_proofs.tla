--------------------------- MODULE PtySession_proofs ---------------------------
(***************************************************************************)
(* Proofs about PtySession for every set of goroutines that may close the  *)
(* session, every set of programs that may try to run on it, and every     *)
(* size of the kernel's PTY buffer.                                        *)
(***************************************************************************)
EXTENDS PtySession, TLAPS

(* The PTY is reserved while a program holds it, and by that program only. *)
Reservation ==
  /\ \A o \in Owners : run[o] \in Holding => workloadDone = "open"
  /\ \A o, p \in Owners : run[o] \in Holding /\ run[p] \in Holding => o = p

(* One goroutine at a time is inside Close, and only once `closed' is set. *)
OneCloser ==
  /\ \A g \in Goroutines : InClose(g) => closed /\ pty = "open"
  /\ \A g, h \in Goroutines : InClose(g) /\ InClose(h) => g = h
  /\ CloserAtWork

(* What a closer knows at each step: a reservation its local `done' did not
   see was never made, and the PTY is given up only when nobody holds it. *)
CloserKnows ==
  \A g \in Goroutines :
    /\ InClose(g) /\ ~seen[g] => workloadDone = "nil"
    /\ at[g] = "pty" => workloadDone # "open"

(* The done channel is open until the closer signals. *)
DoneOnce ==
  /\ doneCloses <= 1
  /\ ~closed => doneCloses = 0
  /\ \A g \in Goroutines : at[g] \in {"cancel", "signal"} => doneCloses = 0

(* The end of the session is final. *)
Final ==
  /\ ~closed => pty = "open"
  /\ pty = "closed" => workloadDone # "open"

IInv == TypeOK /\ Reservation /\ OneCloser /\ CloserKnows /\ DoneOnce /\ Final

-----------------------------------------------------------------------------
LEMMA InitIInv == Init => IInv
<1> SUFFICES ASSUME Init PROVE IInv
  OBVIOUS
<1> USE DEF Init, InClose
<1>1. TypeOK
  <2>1. doneCloses \in Nat /\ backlog \in 0 .. Cap  BY Assumption
  <2>2. at \in [Goroutines -> CloseSteps]  BY DEF CloseSteps
  <2>3. seen \in [Goroutines -> BOOLEAN]  BY Zenon
  <2>4. run \in [Owners -> RunSteps]  BY DEF RunSteps
  <2> QED  BY <2>1, <2>2, <2>3, <2>4 DEF TypeOK
<1>2. Reservation  BY DEF Reservation, Holding
<1>3. OneCloser  BY DEF OneCloser, CloserAtWork
<1>4. CloserKnows  BY DEF CloserKnows
<1>5. DoneOnce  BY DEF DoneOnce
<1>6. Final  BY DEF Final
<1> QED  BY <1>1, <1>2, <1>3, <1>4, <1>5, <1>6 DEF IInv

LEMMA CloseEnterIInv == ASSUME IInv, NEW g \in Goroutines, CloseEnter(g)
                        PROVE  IInv'
<1> USE DEF IInv, TypeOK, CloseEnter, InClose, CloseSteps
<1>1. CASE CloseFirst(g)
  <2> USE <1>1 DEF CloseFirst
  <2>1. TypeOK'  OBVIOUS
  <2>2. Reservation'  BY DEF Reservation
  <2>3. OneCloser'  BY DEF OneCloser, CloserAtWork, Final
  <2>4. CloserKnows'  BY DEF CloserKnows, OneCloser
  <2>5. DoneOnce'  BY DEF DoneOnce
  <2>6. Final'  BY DEF Final
  <2> QED  BY <2>1, <2>2, <2>3, <2>4, <2>5, <2>6
<1>2. CASE CloseAgain(g)
  <2> USE <1>2 DEF CloseAgain
  <2>1. TypeOK'  OBVIOUS
  <2>2. Reservation'  BY DEF Reservation
  <2>3. OneCloser'  BY DEF OneCloser, CloserAtWork
  <2>4. CloserKnows'  BY DEF CloserKnows
  <2>5. DoneOnce'  BY DEF DoneOnce
  <2>6. Final'  BY DEF Final
  <2> QED  BY <2>1, <2>2, <2>3, <2>4, <2>5, <2>6
<1> QED  BY <1>1, <1>2

LEMMA CloseStepIInv == ASSUME IInv, NEW g \in Goroutines, CloseStep(g)
                       PROVE  IInv'
<1> USE DEF IInv, TypeOK, InClose, CloseSteps
<1>1. CASE CloseCancel(g)
  BY <1>1 DEF CloseCancel, Reservation, OneCloser, CloserAtWork, CloserKnows, DoneOnce, Final
<1>2. CASE CloseSignal(g)
  <2> USE <1>2 DEF CloseSignal
  <2>1. TypeOK'  OBVIOUS
  <2>2. Reservation'  BY DEF Reservation
  <2>3. OneCloser'  BY DEF OneCloser, CloserAtWork
  <2>4. CloserKnows'  BY DEF CloserKnows, OneCloser
  <2>5. DoneOnce'  BY DEF DoneOnce, OneCloser
  <2>6. Final'  BY DEF Final
  <2> QED  BY <2>1, <2>2, <2>3, <2>4, <2>5, <2>6
<1>3. CASE CloseCheck(g)
  BY <1>3 DEF CloseCheck, Reservation, OneCloser, CloserAtWork, CloserKnows, DoneOnce, Final
<1>4. CASE CloseWait(g)
  BY <1>4 DEF CloseWait, sessionVars, Reservation, OneCloser, CloserAtWork, CloserKnows,
     DoneOnce, Final
<1>5. CASE ClosePty(g)
  <2> USE <1>5 DEF ClosePty
  <2>1. TypeOK'  BY Assumption
  <2>2. Reservation'  BY DEF Reservation
  <2>3. OneCloser'  BY DEF OneCloser, CloserAtWork
  <2>4. CloserKnows'  BY DEF CloserKnows
  <2>5. DoneOnce'  BY DEF DoneOnce
  <2>6. Final'  BY DEF Final, OneCloser, CloserKnows
  <2> QED  BY <2>1, <2>2, <2>3, <2>4, <2>5, <2>6
<1> QED  BY <1>1, <1>2, <1>3, <1>4, <1>5 DEF CloseStep

(* The steps of runBubbleTea that leave workloadDone alone neither enter nor
   leave Holding from outside, except that CheckContext stays outside it. *)
LEMMA ProgramIInv ==
  ASSUME IInv, NEW o \in Owners,
         \/ CheckContext(o) \/ Render(o) \/ Flush(o) \/ Quit(o) \/ Exit(o)
         \/ Restore(o)
  PROVE  IInv'
<1> USE DEF IInv, TypeOK, RunSteps, Holding, sessionVars, closeVars
<1>1. /\ UNCHANGED <<sessionVars, closeVars>>
      /\ run' \in [Owners -> RunSteps]
      /\ backlog' \in 0 .. Cap
      /\ \A p \in Owners : run'[p] \in Holding <=> run[p] \in Holding
  <2>1. CASE CheckContext(o)  BY <2>1 DEF CheckContext
  <2>2. CASE Render(o)  BY <2>2 DEF Render
  <2>3. CASE Flush(o)  BY <2>3, Assumption DEF Flush
  <2>4. CASE Quit(o)  BY <2>4 DEF Quit
  <2>5. CASE Exit(o)  BY <2>5 DEF Exit
  <2>6. CASE Restore(o)  BY <2>6, Assumption DEF Restore
  <2> QED  BY <2>1, <2>2, <2>3, <2>4, <2>5, <2>6
<1> HIDE DEF Holding
<1>2. TypeOK'  BY <1>1
<1>3. Reservation'  BY <1>1 DEF Reservation
<1>4. OneCloser'  BY <1>1 DEF OneCloser, CloserAtWork, InClose
<1>5. CloserKnows'  BY <1>1 DEF CloserKnows, InClose
<1>6. DoneOnce'  BY <1>1 DEF DoneOnce
<1>7. Final'  BY <1>1 DEF Final
<1> QED  BY <1>2, <1>3, <1>4, <1>5, <1>6, <1>7

LEMMA BeginIInv == ASSUME IInv, NEW o \in Owners, BeginBubbleTea(o)
                   PROVE  IInv'
<1> USE DEF IInv, TypeOK, BeginBubbleTea, RunSteps, closeVars
<1>1. TypeOK'  OBVIOUS
<1>2. Reservation'  BY DEF Reservation, Holding
<1>3. OneCloser'  BY DEF OneCloser, CloserAtWork, InClose
<1>4. CloserKnows'  BY DEF CloserKnows, OneCloser, InClose
<1>5. DoneOnce'  BY DEF DoneOnce
<1>6. Final'  BY DEF Final
<1> QED  BY <1>1, <1>2, <1>3, <1>4, <1>5, <1>6

LEMMA ReleaseIInv == ASSUME IInv, NEW o \in Owners, Release(o)
                     PROVE  IInv'
<1> USE DEF IInv, TypeOK, Release, RunSteps, closeVars
<1>1. TypeOK'  OBVIOUS
<1>2. Reservation'  BY DEF Reservation, Holding
<1>3. OneCloser'  BY DEF OneCloser, CloserAtWork, InClose
<1>4. CloserKnows'  BY DEF CloserKnows, Reservation, Holding, InClose
<1>5. DoneOnce'  BY DEF DoneOnce
<1>6. Final'  BY DEF Final
<1> QED  BY <1>1, <1>2, <1>3, <1>4, <1>5, <1>6

LEMMA ParentCancelIInv == ASSUME IInv, ParentCancel PROVE IInv'
  BY DEF IInv, TypeOK, ParentCancel, Reservation, OneCloser, CloserAtWork,
     CloserKnows, DoneOnce, Final, InClose

LEMMA ReadIInv == ASSUME IInv, ReadPty PROVE IInv'
  BY Assumption DEF IInv, TypeOK, ReadPty, sessionVars, closeVars, Reservation,
     OneCloser, CloserAtWork, CloserKnows, DoneOnce, Final, InClose

LEMMA NextIInv == IInv /\ [Next]_vars => IInv'
<1> SUFFICES ASSUME IInv, [Next]_vars PROVE IInv'
  OBVIOUS
<1>1. CASE UNCHANGED vars
  BY <1>1 DEF vars, IInv, TypeOK, Reservation, OneCloser, CloserAtWork, CloserKnows,
     DoneOnce, Final, InClose
<1>2. CASE Next
  BY <1>2, CloseEnterIInv, CloseStepIInv, ParentCancelIInv, ProgramIInv,
     BeginIInv, ReleaseIInv, ReadIInv DEF Next, TransportRead, Drain
<1> QED  BY <1>1, <1>2

(* Every reachable state satisfies the inductive invariant. *)
THEOREM Inductive == Spec => []IInv
  BY InitIInv, NextIInv, PTL DEF Spec

(* Type correctness of the session's state. *)
THEOREM TypeCorrect == Spec => []TypeOK
<1>1. IInv => TypeOK  BY DEF IInv
<1> QED  BY <1>1, Inductive, PTL

(* Close never invalidates the PTY under a program that uses it: serve/pty.go,
   Close and beginBubbleTea. *)
THEOREM PtyOutlivesProgram == Spec => []PtyValidWhileOwned
<1>1. IInv => PtyValidWhileOwned
  BY DEF IInv, TypeOK, Reservation, Final, PtyValidWhileOwned
<1> QED  BY <1>1, Inductive, PTL

(* The reservation is exclusive and the done channel is closed at most once. *)
THEOREM ExclusiveAndOnce == Spec => []OneOwnerOneClose
<1>1. IInv => OneOwnerOneClose
  BY DEF IInv, Reservation, DoneOnce, OneOwnerOneClose
<1> QED  BY <1>1, Inductive, PTL

-----------------------------------------------------------------------------
(* Refinement of SessionContract. *)

LEMMA InitContract == Init => Contract!Init
  BY DEF Init, Contract!Init

LEMMA CloseContract ==
  ASSUME IInv, NEW g \in Goroutines, CloseEnter(g) \/ CloseStep(g)
  PROVE  [Contract!Next]_Contract!vars
<1> USE DEF IInv, TypeOK, InClose, Contract!vars
<1>1. CASE CloseEnter(g) /\ CloseFirst(g)
  <2>1. Contract!Close
    BY <1>1 DEF CloseEnter, CloseFirst, Final, Contract!Close
  <2> QED  BY <2>1 DEF Contract!Next
<1>2. CASE CloseEnter(g) /\ CloseAgain(g)
  BY <1>2 DEF CloseEnter, CloseAgain
<1>3. CASE CloseCancel(g) \/ CloseSignal(g) \/ CloseCheck(g) \/ CloseWait(g)
  BY <1>3 DEF CloseCancel, CloseSignal, CloseCheck, CloseWait, sessionVars
<1>4. CASE ClosePty(g)
  <2>1. Contract!Invalidate
    BY <1>4 DEF ClosePty, OneCloser, CloserKnows, Contract!Invalidate
  <2> QED  BY <2>1 DEF Contract!Next
<1> QED  BY <1>1, <1>2, <1>3, <1>4 DEF CloseEnter, CloseStep

LEMMA OwnerContract ==
  ASSUME IInv, NEW o \in Owners, BeginBubbleTea(o) \/ Release(o)
  PROVE  [Contract!Next]_Contract!vars
<1> USE DEF IInv, TypeOK, Contract!vars
<1>1. CASE BeginBubbleTea(o) /\ UNCHANGED workloadDone
  BY <1>1 DEF BeginBubbleTea
<1>2. CASE BeginBubbleTea(o) /\ ~UNCHANGED workloadDone
  <2>1. Contract!Acquire
    BY <1>2 DEF BeginBubbleTea, Final, Contract!Acquire
  <2> QED  BY <2>1 DEF Contract!Next
<1>3. CASE Release(o)
  <2>1. Contract!Release
    BY <1>3 DEF Release, Reservation, Holding, Contract!Release
  <2> QED  BY <2>1 DEF Contract!Next
<1> QED  BY <1>1, <1>2, <1>3

LEMMA NextContract == IInv /\ [Next]_vars => [Contract!Next]_Contract!vars
<1> SUFFICES ASSUME IInv, [Next]_vars PROVE [Contract!Next]_Contract!vars
  OBVIOUS
<1>1. CASE UNCHANGED <<closed, workloadDone, pty>>
  BY <1>1 DEF Contract!vars
<1>2. CASE \E g \in Goroutines : CloseEnter(g) \/ CloseStep(g)
  BY <1>2, CloseContract
<1>3. CASE \E o \in Owners : BeginBubbleTea(o) \/ Release(o)
  BY <1>3, OwnerContract
<1> QED
  BY <1>1, <1>2, <1>3 DEF Next, vars, sessionVars, CheckContext, Render, Flush,
     Quit, Exit, Restore, ParentCancel, TransportRead, Drain, ReadPty

(* A closing session always has a closer that will close its PTY. *)
THEOREM NeverAbandoned == Spec => []CloserAtWork
<1>1. IInv => CloserAtWork  BY DEF IInv, OneCloser
<1> QED  BY <1>1, Inductive, PTL

(* ptySession implements the safety part of SessionContract: a program gets
   the terminal only before the end was asked for, and the PTY is closed only
   after that and after the program let go of it. *)
THEOREM RefinesContract == Spec => Contract!Safety
  BY InitContract, NextContract, Inductive, PTL DEF Spec, Contract!Safety
=============================================================================
