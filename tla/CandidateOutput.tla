--------------------------- MODULE CandidateOutput ---------------------------
(***************************************************************************)
(* inspect_adapter/candidate.py: the classification of one candidate       *)
(* generation.  An output keeps the fields the classification reads: the   *)
(* error, the stop reason ("limit" stands for max_tokens, model_length and *)
(* length; "other" for any reason the code does not know), how many tools  *)
(* it calls, whether one of those calls is malformed, and whether its      *)
(* completion shows any text.                                              *)
(***************************************************************************)
EXTENDS Integers

CONSTANT MaxBatch    \* tool calls of one generation, at most

ASSUME BatchIsNat == MaxBatch \in Nat

StopReasons == {"none", "stop", "tool_calls", "limit", "content_filter", "other"}

CandidateOutputs ==
  { o \in [ error      : BOOLEAN,
            stop       : StopReasons,
            tool_calls : 0..MaxBatch,
            malformed  : BOOLEAN,
            text       : BOOLEAN ] : o.malformed => o.tool_calls > 0 }

(* mutant: a truncated output is classified by its tool calls first *)
ClassifyToolsFirst(o) ==
  IF o.tool_calls > 0          THEN "tool_call"
  ELSE IF o.error \/ o.stop \in {"content_filter", "other"} THEN "provider_error"
  ELSE IF o.stop = "limit"     THEN "output_exhaustion"
  ELSE IF o.stop # "stop"      THEN "provider_error"
  ELSE IF o.text               THEN "question"
  ELSE "empty_completion"

(* classify_candidate_output: the first test that hits decides *)
Classify(o) ==
  IF o.error \/ o.stop = "content_filter"           THEN "provider_error"
  ELSE IF o.stop = "limit"                          THEN "output_exhaustion"
  ELSE IF o.stop \notin {"none", "stop", "tool_calls"} THEN "provider_error"
  ELSE IF o.malformed                               THEN "invalid_tool_call"
  ELSE IF o.tool_calls > 0                          THEN "tool_call"
  ELSE IF o.stop = "stop" /\ o.text                 THEN "question"
  ELSE IF o.stop = "stop"                           THEN "empty_completion"
  ELSE "provider_error"
=============================================================================
