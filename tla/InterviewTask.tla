---------------------------- MODULE InterviewTask ----------------------------
(***************************************************************************)
(* The solver and the stakeholder call together: what MultiTurnSolver      *)
(* takes as one await of the stakeholder runs here attempt by attempt, its *)
(* outcome is the call's, and its counters end up in the task's metadata   *)
(* (multiturn.py 406-434).  The module is shown to implement               *)
(* MultiTurnSolver, and to stay within the limit on model turns that       *)
(* phase13_interview_task sets on the Inspect Task.                        *)
(***************************************************************************)
EXTENDS MultiTurnSolver, StakeholderCall

VARIABLES
  metadata,   \* state.metadata's interview_stakeholder_* counters
  spent       \* stakeholder generations, over all calls and resumptions

taskVars == <<vars, callVars, metadata, spent>>

TaskInit ==
  /\ Init
  /\ CallInit
  /\ metadata = [c \in Counters |-> 0]
  /\ spent = 0

(* the solver alone *)
SolverStep ==
  /\ Candidate \/ LastTurnAnswered \/ NextTurn \/ Finish \/ Resume \/ Rest
  /\ UNCHANGED <<callVars, metadata, spent>>

(* the await starts ... *)
CallStarts ==
  /\ pc = "stakeholder"
  /\ phase = "idle"
  /\ Invoke \/ SetupRaises
  /\ UNCHANGED <<vars, metadata, spent>>

(* ... goes on, one generation after the other ... *)
CallGoesOn ==
  /\ pc = "stakeholder"
  /\ Attempt
  /\ spent' = spent + 1
  /\ UNCHANGED <<vars, metadata>>

CallOver ==
  /\ phase' = "idle"
  /\ attempt' = 0
  /\ diagnostics' = NoDiagnostics
  /\ reason' = NoReason
  /\ generations' = 0
  /\ UNCHANGED spent

(* mutant: the plan's counters are recorded by its own phase and again merged *)
RecordDiagnosticsTwice ==
  metadata' = [c \in Counters |-> metadata[c] + 2 * diagnostics["plan"][c]
                                              + diagnostics["realization"][c]]

(* merged() and record_stakeholder_diagnostics: both phases' counters are added *)
RecordDiagnostics ==
  metadata' = [c \in Counters |-> metadata[c] + diagnostics["plan"][c]
                                              + diagnostics["realization"][c]]

(* ... and hands its outcome to the solver. *)
CallAnswers ==
  /\ phase = "answered"
  /\ StakeholderAnswers
  /\ RecordDiagnostics
  /\ CallOver

(* mutant: the error is caught and the interview goes on without an answer *)
CallFailsQuietly ==
  /\ phase = "failed"
  /\ pc = "stakeholder"
  /\ UNCHANGED stores
  /\ Goto("answered")
  /\ RecordDiagnostics
  /\ CallOver

CallFails ==
  /\ phase = "failed"
  /\ StakeholderFails(reason)
  /\ RecordDiagnostics
  /\ CallOver

CallRaises ==
  /\ phase = "raised"
  /\ StakeholderRaises
  /\ UNCHANGED metadata
  /\ CallOver

(* Cancelled: the counters of the call under way are never reported. *)
TaskCancelled ==
  /\ Cancel
  /\ UNCHANGED metadata
  /\ CallOver

TaskNext ==
  \/ SolverStep
  \/ CallStarts \/ CallGoesOn \/ CallAnswers \/ CallFails \/ CallRaises
  \/ TaskCancelled

(* as in MultiTurnSolver: awaits end, and a stopped interview is run again *)
TaskSpec == TaskInit /\ [][TaskNext]_taskVars /\ WF_taskVars(SolverStep)
              /\ WF_taskVars(CallStarts \/ CallGoesOn \/ CallAnswers \/ CallFails \/ CallRaises)

-----------------------------------------------------------------------------
(* Properties *)

(* turn_limit of phase13_interview_task, with the attempts of both phases for  *)
(* its _DEFAULT_STAKEHOLDER_GENERATIONS_PER_TURN                               *)
AttemptsPerTurn == MaxAttempts["plan"] + MaxAttempts["realization"]
TurnLimit == MaxTurns * (MaxSteps + AttemptsPerTurn + 1) + 1

(* Inspect's limit on model turns never cuts an interview short that the       *)
(* protocol still allows: before any generation, the candidate's or the        *)
(* stakeholder's, the task is below it, retries and resumptions included.      *)
BelowTurnLimit == generated + spent < TurnLimit

(* The metadata blame the stakeholder for no more than it was asked: the       *)
(* failures recorded are generations made, and each answered question takes    *)
(* two generations that did not fail.                                          *)
MetadataWithinSpent ==
  metadata["structural"] + metadata["semantic"] + metadata["output_exhaustion"]
    + metadata["provider"] + 2 * rt.stakeholder_turns <= spent

(* Attempt by attempt, the task does what the solver's single await does, and  *)
(* a call always hands an outcome back.                                        *)
ImplementsSolver == FairSpec
=============================================================================
