------------------------- MODULE StakeholderAttempt -------------------------
(***************************************************************************)
(* inspect_adapter/stakeholder.py, the constant part: what one generation  *)
(* of the stakeholder model can return, how the attempt is classified, and *)
(* the failure reason a call that gives up ends with.                      *)
(*                                                                         *)
(* An output keeps what the classification looks at: whether generate      *)
(* raised or the output carries an error, whether it has a choice, its     *)
(* stop reason ("limit" stands for max_tokens, model_length and length),   *)
(* whether its text is blank, and what parsing and validating that text    *)
(* would find.                                                             *)
(***************************************************************************)
EXTENDS Integers

Phases == {"plan", "realization"}        \* WHAT, then HOW

RetriedKinds == {"structural", "semantic", "output_exhaustion"}
FailureKinds == RetriedKinds \cup {"provider"}

Output ==
  [ error   : BOOLEAN,
    choice  : BOOLEAN,
    stop    : {"stop", "limit", "content_filter"},
    blank   : BOOLEAN,
    content : {"valid", "unparsable", "invalid"} ]

(* The kind of failure of one attempt, or "valid"; the first test that hits. *)
AttemptOutcome(o) ==
  IF o.error                                  THEN "provider"
  ELSE IF ~o.choice                           THEN "structural"
  ELSE IF o.stop = "limit"                    THEN "output_exhaustion"
  ELSE IF o.blank /\ o.stop = "content_filter" THEN "provider"
  ELSE IF o.blank                             THEN "structural"
  ELSE IF o.content = "unparsable"            THEN "structural"
  ELSE IF o.content = "invalid"               THEN "semantic"
  ELSE "valid"

(* failure_reason of the StakeholderResponseError that ends a call *)
FailureReason ==
  [ plan |->
      [ structural        |-> "stakeholder_what_structural_exhausted",
        semantic          |-> "stakeholder_what_semantic_exhausted",
        output_exhaustion |-> "stakeholder_what_output_exhaustion_exhausted",
        provider          |-> "stakeholder_what_provider_generation_failure" ],
    realization |->
      [ structural        |-> "stakeholder_how_structural_exhausted",
        semantic          |-> "stakeholder_how_semantic_exhausted",
        output_exhaustion |-> "stakeholder_how_output_exhaustion_exhausted",
        provider          |-> "stakeholder_how_provider_generation_failure" ] ]

NoReason == "none"

FailureReasons == {FailureReason[p][k] : p \in Phases, k \in FailureKinds}
=============================================================================
