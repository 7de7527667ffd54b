---------------------------- MODULE MCTerminalPage ----------------------------
(* The page with a bound for every counter, in View.cfg. *)
EXTENDS TerminalPage

MCSizes == {80, 81}
MCCellSizes == {[w |-> 1, h |-> 1], [w |-> 1, h |-> 2]}
===============================================================================
