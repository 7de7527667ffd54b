--------------------------- MODULE MCProgramOutput ---------------------------
EXTENDS ProgramOutput

Of(id, state, app, progress) ==
  [id |-> id, state |-> state, app |-> app, progress |-> progress]

(* A path and its ancestors; work, a result and a withdrawal. *)
MCReports ==
  {Of(<<>>, "idle", "make", 0), Of(<<"a", "b">>, "error", "", 0),
   Of(<<"a">>, "working", "", 1), Of(<<"a">>, "working", "", 2), Of(<<"a">>, "clear", "", 0)}
=============================================================================
