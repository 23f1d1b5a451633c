------------------------- MODULE MCMultiTurnSolver -------------------------
EXTENDS MultiTurnSolver

MCReasons == EndReasons \cup {Blank}
MCInitialLedgers == {<<>>, <<"user">>}
=============================================================================
