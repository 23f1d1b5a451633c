---------------------------- MODULE InterviewState ----------------------------
(***************************************************************************)
(* bi/interview_state.py and the builders of bi/interview_tools.py: the    *)
(* durable state of the utterance-based interview.  Like a live store, a   *)
(* state is a value: CanXxx is what operation xxx and its input models     *)
(* check, Xxx the state it builds, and Valid the validator of              *)
(* InterviewState, which decides whether that state is accepted.           *)
(*                                                                         *)
(* Abstractions.  Business records and their fields: the projection maps   *)
(* every field of every record to its value, Unset where there is none;    *)
(* what a record keeps besides (a flow's kind, a usage's process step) is  *)
(* checked when it is recorded and never changes.  A value is its state    *)
(* and, if there is something to say, the ids or texts it consists of.     *)
(* "absent" stands for dont_know too.  The claim id                        *)
(* "claim:<record>:<field>:revision<n>" is <<record, field, n>>, and n = 0 *)
(* where the code leaves the suffix out.  A system's kind is part of its   *)
(* label.  A question or a contradiction is the issue that opened it: it   *)
(* is built from the issue's fields under an id derived from the issue's,  *)
(* and no operation changes it.                                            *)
(***************************************************************************)
EXTENDS Integers, Sequences, FiniteSets

CONSTANTS
  RecordIds,     \* ids of process steps, flows and resource usages
  IssueIds,
  UtteranceIds,
  EntityIds,     \* ids of actors, systems and data types
  Labels,        \* their labels
  Texts          \* other contents of a field

RecordTypes == {"process_step", "flow", "resource_usage"}

FieldsOf ==
  [ process_step   |-> {"activity", "actor", "inputs", "outputs"},
    flow           |-> {"relation", "condition"},
    resource_usage |-> {"crud", "system", "data_type"} ]

Fields == UNION {FieldsOf[t] : t \in RecordTypes}

TypeOf(field) == CHOOSE t \in RecordTypes : field \in FieldsOf[t]

(* The fields that name entities, and the kind of entity they name. *)
EntityFields == {"actor", "inputs", "outputs", "system", "data_type"}
KindOf(field) == IF field \in {"inputs", "outputs"} THEN "data_type" ELSE field

(* SOURCE and SINK, the endpoints that are no process step *)
Boundary == {"SOURCE", "SINK"}

Contents == RecordIds \cup EntityIds \cup Texts \cup Boundary
Value    == [state : {"unset", "value", "absent"}, content : Seq(Contents)]
Unset    == [state |-> "unset", content |-> <<>>]
NoLabel  == "no label"

ClaimStatuses == {"provisional", "confirmed", "rejected"}
Supports      == {"unassessed", "supports", "contradicts"}
ClaimIds      == RecordIds \X Fields \X Nat
NoClaim       == <<>>

Evidence == [number : Nat \ {0}, utterance : UtteranceIds, support : Supports]
Claim    == [id : ClaimIds, value : Value, evidence : SUBSET Evidence,
             status : ClaimStatuses, supersedes : ClaimIds \cup {NoClaim}]
Entity   == [kind : {"actor", "system", "data_type"}, id : EntityIds, label : Labels]
Issue    == [id : IssueIds, kind : {"unknown", "contradiction", "exception", "business_rule"},
             targets : SUBSET RecordIds, claims : SUBSET ClaimIds,
             resolution : ClaimIds \cup {NoClaim}, evidence : SUBSET Evidence]
Completion == [status : {"active", "ended"}, unresolved : SUBSET IssueIds,
               confirmation : SUBSET Evidence]

State ==
  [ utterances : SUBSET UtteranceIds,
    claims     : SUBSET Claim,
    records    : SUBSET (RecordTypes \X RecordIds),
    projection : [RecordIds \X Fields -> Value],
    entities   : SUBSET Entity,
    issues     : SUBSET Issue,
    completion : Completion ]

EmptyState ==
  [ utterances |-> {},
    claims     |-> {},
    records    |-> {},
    projection |-> [rf \in RecordIds \X Fields |-> Unset],
    entities   |-> {},
    issues     |-> {},
    completion |-> [status |-> "active", unresolved |-> {}, confirmation |-> {}] ]

Active(s) == s.completion.status = "active"

RecordsOf(s, type) == {r \in RecordIds : <<type, r>> \in s.records}

ClaimIdsOf(s) == {c.id : c \in s.claims}

(* _all_evidence *)
AllEvidence(s) ==
  (UNION {c.evidence : c \in s.claims}) \cup (UNION {i.evidence : i \in s.issues})
    \cup s.completion.confirmation

(* active_claims, those of one field *)
CurrentClaims(s, record, field) ==
  {c \in s.claims : c.status # "rejected" /\ c.id[1] = record /\ c.id[2] = field}

OpenQuestions(s) == {i.id : i \in {j \in s.issues : j.kind = "unknown"}}

-----------------------------------------------------------------------------
(* The validator, one named part per group of checks.                      *)

IdsUnique(s) ==
  /\ \A c, d \in s.claims : c.id = d.id => c = d
  /\ \A e, f \in s.entities : e.kind = f.kind /\ e.id = f.id => e = f
  /\ \A i, j \in s.issues : i.id = j.id => i = j
  /\ RecordsOf(s, "process_step") \cap RecordsOf(s, "resource_usage") = {}

SupersededRejected(s) ==
  \A c \in s.claims :
    c.supersedes # NoClaim =>
      \E d \in s.claims : /\ d.id = c.supersedes
                          /\ d.status = "rejected"
                          /\ d.id[1] = c.id[1] /\ d.id[2] = c.id[2]

(* Claim's own validator *)
ConfirmedGrounded(s) ==
  \A c \in s.claims :
    c.status = "confirmed" => \E e \in c.evidence : e.support = "supports"

EvidenceQuoted(s) == \A e \in AllEvidence(s) : e.utterance \in s.utterances

IssuesRefer(s) ==
  /\ \A i \in s.issues :
       /\ \A r \in i.targets : \E t \in RecordTypes : <<t, r>> \in s.records
       /\ i.claims \subseteq ClaimIdsOf(s)
       /\ i.resolution # NoClaim => i.resolution \in ClaimIdsOf(s)
  /\ s.completion.unresolved \subseteq OpenQuestions(s)

EntitiesKnown(s) ==
  \A r \in RecordIds, f \in EntityFields :
    LET v == s.projection[<<r, f>>]
    IN  v.state = "value" =>
          \A k \in DOMAIN v.content :
            \E e \in s.entities : e.kind = KindOf(f) /\ e.id = v.content[k]

EndpointsKnown(s) ==
  \A r \in RecordsOf(s, "flow") :
    LET v == s.projection[<<r, "relation">>]
    IN  /\ v.content[1] \in RecordsOf(s, "process_step") \cup {"SOURCE"}
        /\ v.content[2] \in RecordsOf(s, "process_step") \cup {"SINK"}

(* _validate_active_claims: the projection is what the current claims say, and *)
(* nothing else: a flow's relation and everything of a usage must have a claim. *)
ClaimsExplain(s) ==
  /\ \A c \in s.claims : <<TypeOf(c.id[2]), c.id[1]>> \in s.records
  /\ \A r \in RecordIds, f \in Fields :
       LET current == CurrentClaims(s, r, f)
       IN  /\ \A c, d \in current : c = d
           /\ \A c \in current : c.value = s.projection[<<r, f>>]
           /\ current = {} =>
                /\ s.projection[<<r, f>>] = Unset
                /\ f \in {"relation", "crud", "system", "data_type"}
                     => <<TypeOf(f), r>> \notin s.records

Valid(s) ==
  /\ IdsUnique(s)
  /\ SupersededRejected(s)
  /\ ConfirmedGrounded(s)
  /\ EvidenceQuoted(s)
  /\ IssuesRefer(s)
  /\ EntitiesKnown(s)
  /\ EndpointsKnown(s)
  /\ ClaimsExplain(s)

-----------------------------------------------------------------------------
(* An entity as a request mentions it. *)
Mention == [kind : {"actor", "system", "data_type"}, id : EntityIds,
            label : Labels \cup {NoLabel}]

(* Entities mentioned by a request: items in the order of _ensure_actor,   *)
(* _ensure_data_list, _ensure_one_data and _ensure_system.  An item names  *)
(* an entity that exists, with its label or none, or the first item to     *)
(* name it creates it and needs a label.                                   *)
ItemsResolve(entities, items) ==
  \A k \in DOMAIN items :
    LET known == {e \in entities : e.kind = items[k].kind /\ e.id = items[k].id}
        first == CHOOSE j \in 1..k : /\ items[j].kind = items[k].kind
                                     /\ items[j].id = items[k].id
                                     /\ \A i \in 1..(j - 1) :
                                          \/ items[i].kind # items[k].kind
                                          \/ items[i].id # items[k].id
    IN  IF known # {}
        THEN \A e \in known : items[k].label \in {NoLabel, e.label}
        ELSE /\ items[first].label # NoLabel
             /\ items[k].label \in {NoLabel, items[first].label}

WithEntities(entities, items) ==
  entities \cup {items[k] : k \in {j \in DOMAIN items : items[j].label # NoLabel}}

(* What a request says of a field, as a value; the items it names; and       *)
(* EntityList's own check.  said is [state, items], items is a sequence of   *)
(* [id, label], where the label of a text is NoLabel.                        *)
ValueSaid(said) ==
  [state |-> said.state, content |-> [k \in DOMAIN said.items |-> said.items[k].id]]

ItemsSaid(field, said) ==
  IF field \in EntityFields
  THEN [k \in DOMAIN said.items |-> [kind  |-> KindOf(field),
                                     id    |-> said.items[k].id,
                                     label |-> said.items[k].label]]
  ELSE <<>>

NoDuplicate(said) ==
  \A j, k \in DOMAIN said.items : said.items[j].id = said.items[k].id => j = k

(* Claim's own validator, on the citations of the request *)
Grounded(status, citations) ==
  status = "confirmed" => \E k \in DOMAIN citations : citations[k].support = "supports"

-----------------------------------------------------------------------------
(* record_process_step, connect_process_steps, record_resource_usage.      *)
(* said maps the fields the request makes a claim of to what it says.      *)

ItemsOfRequest(type, said) ==
  LET Of(f) == IF f \in DOMAIN said THEN ItemsSaid(f, said[f]) ELSE <<>>
  IN  CASE type = "process_step"   -> Of("actor") \o Of("inputs") \o Of("outputs")
        [] type = "flow"           -> <<>>
        [] type = "resource_usage" -> Of("system") \o Of("data_type")

CanRecord(s, type, record, said, status, citations) ==
  /\ Active(s)
  /\ <<type, record>> \notin s.records
  /\ \A f \in DOMAIN said : f \in EntityFields => NoDuplicate(said[f])
  /\ ItemsResolve(s.entities, ItemsOfRequest(type, said))
  /\ Grounded(status, citations)

Record(s, type, record, said, status, evidence) ==
  [s EXCEPT
    !.records    = @ \cup {<<type, record>>},
    !.projection = [rf \in DOMAIN @ |->
                      IF rf[1] = record /\ rf[2] \in DOMAIN said
                      THEN ValueSaid(said[rf[2]]) ELSE @[rf]],
    !.entities   = WithEntities(@, ItemsOfRequest(type, said)),
    !.claims     = @ \cup {[ id         |-> <<record, f, 0>>,
                             value      |-> ValueSaid(said[f]),
                             evidence   |-> evidence,
                             status     |-> status,
                             supersedes |-> NoClaim ] : f \in DOMAIN said}]

(* _validate_flow_endpoints, of a flow from one endpoint to another *)
EndpointsFit(s, kind, from, to) ==
  LET steps == RecordsOf(s, "process_step")
  IN  /\ from \in steps \cup {"SOURCE"}
      /\ to \in steps \cup {"SINK"}
      /\ kind = "source_boundary" => from = "SOURCE" /\ to # "SINK"
      /\ kind = "sink_boundary"   => to = "SINK" /\ from # "SOURCE"
      /\ kind = "normal"          => from \notin Boundary /\ to \notin Boundary

-----------------------------------------------------------------------------
(* revise_record *)

(* _next_claim_id: the first revision number the record's field never had *)
NextRevision(s, record, field) ==
  LET used == {c.id[3] : c \in {d \in s.claims : d.id[1] = record /\ d.id[2] = field}}
  IN  CHOOSE n \in 0..Cardinality(used) : n \notin used /\ \A m \in 0..(n - 1) : m \in used

(* mutant: the claim the caller expects must merely exist *)
ExpectedExists(s, record, field, expected) ==
  expected # NoClaim =>
    \E c \in s.claims : c.id = expected /\ c.id[1] = record /\ c.id[2] = field

(* the claim the caller expects to be current, if it names one, is *)
ExpectedCurrent(s, record, field, expected) ==
  expected # NoClaim => \E c \in CurrentClaims(s, record, field) : c.id = expected

CanRevise(s, record, field, said, status, citations, expected) ==
  /\ Active(s)
  /\ field # "relation"
  /\ <<TypeOf(field), record>> \in s.records
  /\ Cardinality(CurrentClaims(s, record, field)) <= 1
  /\ ExpectedCurrent(s, record, field, expected)
  /\ field \in EntityFields => NoDuplicate(said)
  /\ ItemsResolve(s.entities, ItemsSaid(field, said))
  /\ Grounded(status, citations)

(* mutant: any claim of the field *)
SupersededAny(s, record, field, status) ==
  IF status = "rejected" THEN {}
  ELSE {c.id : c \in {d \in s.claims : d.id[1] = record /\ d.id[2] = field}}

(* the current claim, if there is one, as a set of its id *)
Superseded(s, record, field, status) ==
  IF status = "rejected" THEN {} ELSE {c.id : c \in CurrentClaims(s, record, field)}

NewClaim(s, record, field, said, status, evidence) ==
  LET old == Superseded(s, record, field, status)
  IN  [ id         |-> <<record, field, NextRevision(s, record, field)>>,
        value      |-> ValueSaid(said),
        evidence   |-> evidence,
        status     |-> status,
        supersedes |-> IF old = {} THEN NoClaim ELSE CHOOSE c \in old : TRUE ]

(* mutant: the old claim stays as it is when the new one is confirmed *)
ReviseKeepingOld(s, record, field, said, status, evidence) ==
  LET old == Superseded(s, record, field, status)
  IN  [s EXCEPT
        !.claims     = {IF c.id \in old /\ status # "confirmed"
                        THEN [c EXCEPT !.status = "rejected"] ELSE c : c \in @}
                         \cup {NewClaim(s, record, field, said, status, evidence)},
        !.projection = IF status = "rejected" THEN @
                       ELSE [@ EXCEPT ![<<record, field>>] = ValueSaid(said)],
        !.entities   = IF status = "rejected" THEN @
                       ELSE WithEntities(@, ItemsSaid(field, said))]

(* mutant: the new claim takes the place of the old one *)
ReviseInPlace(s, record, field, said, status, evidence) ==
  LET old == Superseded(s, record, field, status)
  IN  [s EXCEPT
        !.claims     = {c \in @ : c.id \notin old} \cup
                         {[NewClaim(s, record, field, said, status, evidence)
                             EXCEPT !.supersedes = NoClaim]},
        !.projection = IF status = "rejected" THEN @
                       ELSE [@ EXCEPT ![<<record, field>>] = ValueSaid(said)],
        !.entities   = IF status = "rejected" THEN @
                       ELSE WithEntities(@, ItemsSaid(field, said))]

(* A rejected revision is kept for the record only: it supersedes nothing and *)
(* changes neither the projection nor the entities.                           *)
Revise(s, record, field, said, status, evidence) ==
  LET old == Superseded(s, record, field, status)
  IN  [s EXCEPT
        !.claims     = {IF c.id \in old THEN [c EXCEPT !.status = "rejected"] ELSE c
                          : c \in @}
                         \cup {NewClaim(s, record, field, said, status, evidence)},
        !.projection = IF status = "rejected" THEN @
                       ELSE [@ EXCEPT ![<<record, field>>] = ValueSaid(said)],
        !.entities   = IF status = "rejected" THEN @
                       ELSE WithEntities(@, ItemsSaid(field, said))]

-----------------------------------------------------------------------------
(* record_issue and complete_interview *)

CanRecordIssue(s, issue, kind, targets, claims, resolution) ==
  /\ Active(s)
  /\ issue \notin {i.id : i \in s.issues}
  /\ targets # {}
  /\ \A r \in targets : \E t \in RecordTypes : <<t, r>> \in s.records
  /\ claims \subseteq ClaimIdsOf(s)
  /\ kind = "contradiction" => Cardinality(claims) >= 2
  /\ resolution # NoClaim => resolution \in ClaimIdsOf(s)

RecordIssue(s, issue, kind, targets, claims, resolution, evidence) ==
  [s EXCEPT !.issues = @ \cup {[ id         |-> issue,
                                 kind       |-> kind,
                                 targets    |-> targets,
                                 claims     |-> claims,
                                 resolution |-> resolution,
                                 evidence   |-> evidence ]}]

(* citations are the confirmation's; none: the stakeholder did not confirm *)
CanComplete(s, unresolved, citations) ==
  /\ Active(s)
  /\ unresolved \subseteq OpenQuestions(s)
  /\ citations # <<>> => \E k \in DOMAIN citations : citations[k].support = "supports"

Complete(s, unresolved, evidence) ==
  [s EXCEPT !.completion = [ status       |-> "ended",
                             unresolved   |-> unresolved,
                             confirmation |-> evidence ]]

-----------------------------------------------------------------------------
(* InterviewHarness *)

(* mutant: the end of the interview is not checked *)
CanRegisterAlways(s, utterance) == utterance \notin s.utterances

CanRegister(s, utterance) == Active(s) /\ utterance \notin s.utterances

(* mutant: only the last utterance is kept *)
RegisterLast(s, utterance) == [s EXCEPT !.utterances = {utterance}]

Register(s, utterance) == [s EXCEPT !.utterances = @ \cup {utterance}]

(* validate_citation; exact: the quote is what the utterance says there *)
CitationHolds(s, citation) == citation.utterance \in s.utterances /\ citation.exact

(* prepare_evidence: references numbered from the harness's next number on *)
Prepared(next, citations) ==
  {[ number    |-> next + k - 1,
     utterance |-> citations[k].utterance,
     support   |-> citations[k].support ] : k \in DOMAIN citations}

(* mutant: the evidence of issues and of the confirmation is overlooked *)
HighestInClaims(s) ==
  LET numbers == {e.number : e \in UNION {c.evidence : c \in s.claims}}
  IN  IF numbers = {} THEN 0 ELSE CHOOSE n \in numbers : \A m \in numbers : m <= n

(* _existing_evidence_count *)
HighestEvidence(s) ==
  LET numbers == {e.number : e \in AllEvidence(s)}
  IN  IF numbers = {} THEN 0 ELSE CHOOSE n \in numbers : \A m \in numbers : m <= n
=============================================================================
