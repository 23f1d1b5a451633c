-------------------------- MODULE MCStakeholderCall --------------------------
(* The attempt limits of the code: three for each phase. *)
EXTENDS StakeholderCall

MCMaxAttempts == [plan |-> 3, realization |-> 3]
=============================================================================
