--------------------------- MODULE SessionContract ---------------------------
(***************************************************************************)
(* What serve.Session promises its users about the end of its life, as the *)
(* comments of serve/session.go and the "Served Bubble Tea shutdown"       *)
(* section of DEVELOP.md state it: the terminal is reserved by at most one *)
(* program, only while nobody has asked for the end; asking for the end is *)
(* idempotent; the terminal is invalidated after the program let go of it, *)
(* never under it; and once asked for, the end comes.                      *)
(***************************************************************************)

VARIABLES phase,   \* "open", "closing" (Close was called) or "closed" (PTY gone)
          holder   \* "none", "held" (a program owns the terminal), "released"

vars == <<phase, holder>>

Init == phase = "open" /\ holder = "none"

Acquire == /\ phase = "open"
           /\ holder = "none"
           /\ holder' = "held"
           /\ UNCHANGED phase

Release == /\ holder = "held"
           /\ holder' = "released"
           /\ UNCHANGED phase

Close == /\ phase = "open"
         /\ phase' = "closing"
         /\ UNCHANGED holder

Invalidate == /\ phase = "closing"
              /\ holder # "held"
              /\ phase' = "closed"
              /\ UNCHANGED holder

Next == Acquire \/ Release \/ Close \/ Invalidate

(* A program may run forever, but not once its session is closing. *)
Fairness == /\ WF_vars(phase = "closing" /\ Release)
            /\ WF_vars(Invalidate)

Safety == Init /\ [][Next]_vars
Spec == Safety /\ Fairness
=============================================================================
