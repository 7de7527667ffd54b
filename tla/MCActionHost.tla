------------------------------ MODULE MCActionHost ------------------------------
(* Programs that write to a page, their commands in order or not, and wrapped
   ones, in order, in a terminal that answers and in one that does not. *)
EXTENDS ActionHost

MCSetups == [wrapped : {TRUE}, plain : BOOLEAN, ordered : {TRUE}]
              \cup [wrapped : {FALSE}, plain : {FALSE}, ordered : BOOLEAN]
=============================================================================
