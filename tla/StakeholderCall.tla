--------------------------- MODULE StakeholderCall ---------------------------
(***************************************************************************)
(* inspect_adapter/stakeholder.py: one bounded stakeholder call.  A call   *)
(* first generates a plan (WHAT), then realizes it (HOW); each phase tries *)
(* at most MaxAttempts[phase] times, a provider failure ends the call at   *)
(* once, and every attempt that fails is counted.  An action is one        *)
(* awaited generation; calls follow one another, one per public question.  *)
(***************************************************************************)
EXTENDS StakeholderAttempt, FiniteSets

CONSTANT MaxAttempts    \* max_plan_attempts and max_realization_attempts

ASSUME AttemptsPositive == MaxAttempts \in [Phases -> Nat \ {0}]

VARIABLES
  phase,        \* where the call stands
  attempt,      \* _attempt of the current phase's loop, counted from 0
  diagnostics,  \* the counters of each phase's StakeholderAttemptDiagnostics
  reason,       \* failure_reason of the error that ended the call
  generations   \* stakeholder generations of this call, for the properties

callVars == <<phase, attempt, diagnostics, reason, generations>>

CallPhases == Phases \cup {"idle", "answered", "failed", "raised"}

Counters ==
  {"structural", "semantic", "output_exhaustion", "provider", "retry"}

NoDiagnostics == [p \in Phases |-> [c \in Counters |-> 0]]

CallInit ==
  /\ phase = "idle"
  /\ attempt = 0
  /\ diagnostics = NoDiagnostics
  /\ reason = NoReason
  /\ generations = 0

(* invoke_stakeholder_response_with_plan, up to the first generation; a fresh *)
(* StakeholderAttemptDiagnostics per phase                                    *)
Invoke ==
  /\ phase \notin Phases
  /\ phase' = "plan"
  /\ attempt' = 0
  /\ diagnostics' = NoDiagnostics
  /\ reason' = NoReason
  /\ generations' = 0

(* no stakeholder role is configured, or the prior ledger does not check: an *)
(* exception that is not a StakeholderResponseError, before any generation   *)
SetupRaises ==
  /\ phase \notin Phases
  /\ phase' = "raised"
  /\ attempt' = 0
  /\ diagnostics' = NoDiagnostics
  /\ reason' = NoReason
  /\ generations' = 0

(* mutant: one attempt too many *)
HasRetryOffByOne == attempt < MaxAttempts[phase]

HasRetry == attempt < MaxAttempts[phase] - 1

(* mutant: the last failed attempt counts as a retry too *)
RecordCountingEveryRetry(d, kind) ==
  [d EXCEPT ![kind] = @ + 1, !["retry"] = @ + 1]

(* StakeholderAttemptDiagnostics.record and _record_provider_failure *)
Record(d, kind) ==
  IF kind # "provider" /\ HasRetry
  THEN [d EXCEPT ![kind] = @ + 1, !["retry"] = @ + 1]
  ELSE [d EXCEPT ![kind] = @ + 1]

(* one generation that passes its phase *)
AttemptPasses(o) ==
  /\ AttemptOutcome(o) = "valid"
  /\ phase' = IF phase = "plan" THEN "realization" ELSE "answered"
  /\ attempt' = 0
  /\ UNCHANGED <<diagnostics, reason>>

(* one that is rejected and tried again with the reason in the instruction *)
AttemptRetried(o) ==
  /\ AttemptOutcome(o) \in RetriedKinds
  /\ HasRetry
  /\ diagnostics' = [diagnostics EXCEPT ![phase] = Record(@, AttemptOutcome(o))]
  /\ attempt' = attempt + 1
  /\ UNCHANGED <<phase, reason>>

(* mutant: a provider failure is reported but not counted *)
AttemptEndsCallUncounted(o) ==
  LET kind == AttemptOutcome(o)
  IN  /\ kind \in FailureKinds
      /\ kind = "provider" \/ ~HasRetry
      /\ phase' = "failed"
      /\ reason' = FailureReason[phase][kind]
      /\ UNCHANGED <<attempt, diagnostics>>

(* one that ends the call: the last attempt's rejection, or any provider failure *)
AttemptEndsCall(o) ==
  LET kind == AttemptOutcome(o)
  IN  /\ kind \in FailureKinds
      /\ kind = "provider" \/ ~HasRetry
      /\ diagnostics' = [diagnostics EXCEPT ![phase] = Record(@, kind)]
      /\ phase' = "failed"
      /\ reason' = FailureReason[phase][kind]
      /\ UNCHANGED attempt

Attempt ==
  /\ phase \in Phases
  /\ generations' = generations + 1
  /\ \E o \in Output : AttemptPasses(o) \/ AttemptRetried(o) \/ AttemptEndsCall(o)

CallNext == Invoke \/ SetupRaises \/ Attempt

(* The model provider answers or raises: an awaited generation ends. *)
CallSpec == CallInit /\ [][CallNext]_callVars /\ WF_callVars(Attempt)

-----------------------------------------------------------------------------
(* Properties *)

CallTypeOK ==
  /\ phase \in CallPhases
  /\ attempt \in Nat
  /\ phase \in Phases => attempt < MaxAttempts[phase]
  /\ diagnostics \in [Phases -> [Counters -> Nat]]
  /\ reason \in FailureReasons \cup {NoReason}
  /\ generations \in Nat

Failures(p) ==
  diagnostics[p]["structural"] + diagnostics[p]["semantic"]
    + diagnostics[p]["output_exhaustion"]

Providers == diagnostics["plan"]["provider"] + diagnostics["realization"]["provider"]
Retries   == diagnostics["plan"]["retry"] + diagnostics["realization"]["retry"]

PhasesPassed ==
  IF phase = "answered" THEN 2
  ELSE IF \/ phase = "realization"
          \/ /\ phase = "failed"
             /\ \E k \in FailureKinds : reason = FailureReason["realization"][k]
  THEN 1 ELSE 0

(* Every generation of a call is in the reported counters exactly once: it     *)
(* passed its phase, or it is a counted failure; and a retry is counted        *)
(* exactly for the failures after which the loop tried again.                  *)
EveryGenerationAccounted ==
  /\ generations =
       PhasesPassed + Failures("plan") + Failures("realization") + Providers
  /\ Retries =
       Failures("plan") + Failures("realization")
         - (IF phase = "failed" /\ Providers = 0 THEN 1 ELSE 0)

(* The reason a call fails with is the truth: that kind of failure happened in *)
(* that phase, and an "exhausted" reason means the phase spent all its attempts *)
(* (stakeholder.py 596-600 and the raises of 684-714 and 757-787).              *)
FailureReasonTrue ==
  phase = "failed" =>
    \E p \in Phases, k \in FailureKinds :
      /\ reason = FailureReason[p][k]
      /\ diagnostics[p][k] > 0
      /\ k # "provider" => Failures(p) = MaxAttempts[p]

=============================================================================
