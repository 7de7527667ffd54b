--------------------------- MODULE ConnectionSlots ---------------------------
(***************************************************************************)
(* What Config.MaxConnections promises: at any time at most that many      *)
(* requests hold a connection slot, whichever transport they came by; 0    *)
(* means unlimited (serve/config.go).                                      *)
(***************************************************************************)
EXTENDS Naturals, FiniteSets

CONSTANTS Requests, Limits

VARIABLES holders, limit

Init == holders = {} /\ limit \in Limits

Take(r) == /\ r \notin holders
           /\ limit > 0 => Cardinality(holders) < limit
           /\ holders' = holders \cup {r}

Give(r) == /\ r \in holders
           /\ holders' = holders \ {r}

Next == /\ \E r \in Requests : Take(r) \/ Give(r)
        /\ UNCHANGED limit

Spec == Init /\ [][Next]_<<holders, limit>>
=============================================================================
