---------------------------- MODULE InterviewTools ----------------------------
(***************************************************************************)
(* InterviewToolExecutor over InterviewHarness: the operations of          *)
(* InterviewState called in any order, with any arguments, and the harness *)
(* built again over the state it left.  An operation has one of three      *)
(* results: it is refused by a guard, the state it builds is rejected by   *)
(* the validator, or the state and the evidence counter are replaced       *)
(* together.  last is what the caller knows of its last call.  The read    *)
(* inspect_interview_state changes nothing and is left out.                *)
(***************************************************************************)
EXTENDS InterviewState

CONSTANTS
  Sayable,       \* what requests say of each field
  CitationLists, \* the sequences of citations they give
  MaxEvidence,   \* bound on the evidence numbers issued
  MaxClaims      \* bound on the claims an issue relates

Citation == [utterance : UtteranceIds, exact : BOOLEAN, support : Supports]
ItemOf(field) ==
  [ id    : IF field \in EntityFields THEN EntityIds ELSE Contents,
    label : Labels \cup {NoLabel} ]
SaidOf(field) == [state : {"unset", "value", "absent"}, items : Seq(ItemOf(field))]

ASSUME RequestsTyped ==
  /\ DOMAIN Sayable = Fields
  /\ \A f \in Fields : Sayable[f] \subseteq SaidOf(f)
  /\ CitationLists \subseteq Seq(Citation)
  /\ MaxEvidence \in Nat /\ MaxClaims \in Nat

VARIABLES
  state,         \* InterviewHarness.state
  next_evidence, \* InterviewHarness._next_evidence_number
  last           \* the caller's last operation and its result

vars == <<state, next_evidence, last>>

Operations ==
  { "register_utterance", "record_process_step", "connect_process_steps",
    "record_resource_usage", "record_issue", "revise_record",
    "complete_interview", "restart" }

Call == [ op : Operations, result : {"ok", "refused", "rejected"},
          claim : ClaimIds \cup {NoClaim}, expected : ClaimIds \cup {NoClaim} ]

Outcome(op, result) ==
  [op |-> op, result |-> result, claim |-> NoClaim, expected |-> NoClaim]

(* InterviewHarness(state) *)
Init ==
  /\ state = EmptyState
  /\ next_evidence = HighestEvidence(EmptyState) + 1
  /\ last = Outcome("restart", "ok")

(* _resolve_evidence *)
Resolved(citations) == Prepared(next_evidence, citations)

CitationsHold(citations) ==
  \A k \in DOMAIN citations : CitationHolds(state, citations[k])

(* _commit: what a request whose guard is can, and which builds built, results in *)
Result(can, built, citations) ==
  IF ~(can /\ CitationsHold(citations)) THEN "refused"
  ELSE IF Valid(built) THEN "ok" ELSE "rejected"

Commit(result, built, citations) ==
  IF result = "ok"
  THEN /\ next_evidence + Len(citations) <= MaxEvidence + 1
       /\ state' = built
       /\ next_evidence' = next_evidence + Len(citations)
  ELSE UNCHANGED <<state, next_evidence>>

-----------------------------------------------------------------------------
(* register_utterance does not validate the state it builds. *)
RegisterUtterance ==
  \E u \in UtteranceIds :
    LET result == IF CanRegister(state, u) THEN "ok" ELSE "refused"
    IN  /\ state' = IF result = "ok" THEN Register(state, u) ELSE state
        /\ last' = Outcome("register_utterance", result)
        /\ UNCHANGED next_evidence

(* The claims a request can make when it must speak of the fields in required *)
(* and may speak of those in optional; unset makes a claim of an activity     *)
(* only.                                                                      *)
Requests(required, optional) ==
  UNION {{said \in [required \cup more -> UNION {Sayable[f] : f \in required \cup more}] :
            \A f \in DOMAIN said :
              /\ said[f] \in Sayable[f]
              /\ said[f].state = "unset" => f = "activity"} : more \in SUBSET optional}

RecordProcessStep ==
  \E r \in RecordIds, status \in ClaimStatuses, citations \in CitationLists,
     said \in Requests({"activity"}, {"actor", "inputs", "outputs"}) :
    LET can    == /\ citations # <<>>
                  /\ CanRecord(state, "process_step", r, said, status, citations)
        built  == Record(state, "process_step", r, said, status, Resolved(citations))
        result == Result(can, built, citations)
    IN  /\ Commit(result, built, citations)
        /\ last' = Outcome("record_process_step", result)

ConnectProcessSteps ==
  \E r \in RecordIds, status \in ClaimStatuses, citations \in CitationLists,
     kind \in {"source_boundary", "sink_boundary", "normal"},
     said \in Requests({"relation"}, {"condition"}) :
    LET ends   == ValueSaid(said["relation"]).content
        can    == /\ citations # <<>>
                  /\ EndpointsFit(state, kind, ends[1], ends[2])
                  /\ CanRecord(state, "flow", r, said, status, citations)
        built  == Record(state, "flow", r, said, status, Resolved(citations))
        result == Result(can, built, citations)
    IN  /\ Commit(result, built, citations)
        /\ last' = Outcome("connect_process_steps", result)

RecordResourceUsage ==
  \E r, step \in RecordIds, status \in ClaimStatuses, citations \in CitationLists,
     said \in Requests({"crud", "system", "data_type"}, {}) :
    LET can    == /\ citations # <<>>
                  /\ step \in RecordsOf(state, "process_step")
                  /\ CanRecord(state, "resource_usage", r, said, status, citations)
        built  == Record(state, "resource_usage", r, said, status, Resolved(citations))
        result == Result(can, built, citations)
    IN  /\ Commit(result, built, citations)
        /\ last' = Outcome("record_resource_usage", result)

(* Callers choose among the claims there are: one nobody made is refused.     *)
(* Only a contradiction can name its resolution (RecordIssueInput).           *)
RecordIssueOp ==
  \E issue \in IssueIds, kind \in {"unknown", "contradiction", "exception"},
     targets \in SUBSET RecordIds, citations \in CitationLists,
     claims \in {c \in SUBSET ClaimIdsOf(state) : Cardinality(c) <= MaxClaims} :
   \E resolution \in {NoClaim} \cup
         (IF kind = "contradiction" THEN ClaimIdsOf(state) ELSE {}) :
    LET can    == /\ citations # <<>>
                  /\ CanRecordIssue(state, issue, kind, targets, claims, resolution)
        built  == RecordIssue(state, issue, kind, targets, claims, resolution,
                              Resolved(citations))
        result == Result(can, built, citations)
    IN  /\ Commit(result, built, citations)
        /\ last' = Outcome("record_issue", result)

ReviseRecord ==
  \E r \in RecordIds, f \in Fields, status \in ClaimStatuses,
     citations \in CitationLists, expected \in ClaimIdsOf(state) \cup {NoClaim} :
    \E said \in Sayable[f] :
      LET can    == /\ citations # <<>>
                    /\ CanRevise(state, r, f, said, status, citations, expected)
          built  == Revise(state, r, f, said, status, Resolved(citations))
          result == Result(can, built, citations)
      IN  /\ Commit(result, built, citations)
          /\ last' = IF result = "ok"
                     THEN [op       |-> "revise_record",
                           result   |-> "ok",
                           claim    |-> <<r, f, NextRevision(state, r, f)>>,
                           expected |-> expected]
                     ELSE Outcome("revise_record", result)

CompleteInterview ==
  \E unresolved \in SUBSET IssueIds, citations \in CitationLists :
    LET can    == CanComplete(state, unresolved, citations)
        built  == Complete(state, unresolved, Resolved(citations))
        result == Result(can, built, citations)
    IN  /\ Commit(result, built, citations)
        /\ last' = Outcome("complete_interview", result)

(* A new harness over the state of the old one; nothing else was kept. *)
Restart ==
  /\ next_evidence' = HighestEvidence(state) + 1
  /\ last' = Outcome("restart", "ok")
  /\ UNCHANGED state

Next ==
  \/ RegisterUtterance
  \/ RecordProcessStep
  \/ ConnectProcessSteps
  \/ RecordResourceUsage
  \/ RecordIssueOp
  \/ ReviseRecord
  \/ CompleteInterview
  \/ Restart

Spec == Init /\ [][Next]_vars

-----------------------------------------------------------------------------
(* Properties *)

(* Type correctness. *)
TypeOK ==
  /\ state \in State
  /\ next_evidence \in Nat \ {0}
  /\ last \in Call

(* The state could be written out and loaded again at any moment: the        *)
(* validator, which register_utterance never calls, accepts it.              *)
Reloadable == Valid(state)

(* Guards suffice for revise_record, record_issue and complete_interview:    *)
(* only a request that records a new record is ever left to the validator    *)
(* to stop.                                                                  *)
RecordGuardsSuffice ==
  last.result = "rejected" =>
    last.op \in {"record_process_step", "connect_process_steps", "record_resource_usage"}

(* An evidence number stands for one citation, in the claims, the issues and *)
(* the confirmation together, whatever restarts came between.                *)
EvidenceDistinct ==
  \A e, f \in AllEvidence(state) : e.number = f.number => e = f

(* Correction history: the claims of a field are numbered without a gap; a   *)
(* claim supersedes an earlier one; no claim is superseded twice; a claim    *)
(* that is current was not superseded.                                       *)
HistoryLinear ==
  \A c \in state.claims :
    /\ \A n \in 0..c.id[3] : <<c.id[1], c.id[2], n>> \in ClaimIdsOf(state)
    /\ c.supersedes # NoClaim => c.supersedes[3] < c.id[3]
    /\ \A d \in state.claims :
         /\ c.supersedes # NoClaim /\ c.supersedes = d.supersedes => c = d
         /\ d.supersedes = c.id => c.status = "rejected"

(* No lost update: a revision that named the claim it expected to be current *)
(* and was accepted superseded that very claim and no other, unless it was   *)
(* recorded as rejected itself and superseded nothing.                       *)
ExpectedSuperseded ==
  last.expected # NoClaim =>
    \E c \in state.claims :
      /\ c.id = last.claim
      /\ c.supersedes = IF c.status = "rejected" THEN NoClaim ELSE last.expected

(* Nothing that was recorded is lost or rewritten: utterances, records,      *)
(* entities with their labels, issues; a claim keeps what it says and its    *)
(* evidence, and its status changes only to rejected.                        *)
HistoryKept ==
  [][/\ state.utterances \subseteq state'.utterances
     /\ state.records \subseteq state'.records
     /\ state.entities \subseteq state'.entities
     /\ state.issues \subseteq state'.issues
     /\ \A c \in state.claims :
          \/ c \in state'.claims
          \/ [c EXCEPT !.status = "rejected"] \in state'.claims]_vars

(* After complete_interview nothing changes the state any more. *)
EndedIsFinal == [][~Active(state) => UNCHANGED state]_vars
=============================================================================
