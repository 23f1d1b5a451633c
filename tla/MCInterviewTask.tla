--------------------------- MODULE MCInterviewTask ---------------------------
(* One retry per phase; the graph and the terminology are left to the run    *)
(* of MultiTurnSolver.                                                       *)
EXTENDS InterviewTask

MCReasons == EndReasons \cup {Blank}
MCInitialLedgers == {<<>>}
MCMaxAttempts == [plan |-> 2, realization |-> 2]
=============================================================================
