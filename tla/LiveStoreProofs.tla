--------------------------- MODULE LiveStoreProofs ---------------------------
(***************************************************************************)
(* Facts about the operations of LiveStore, for every value of its         *)
(* constants and every store: an operation whose guard holds turns a valid *)
(* store into a valid store.  These are the lemmas the proofs about        *)
(* LiveStoreAPI and MultiTurnSolver rest on.  The one operation whose      *)
(* guard is not enough is Ask, which needs a candidate turn that has not   *)
(* asked yet.                                                              *)
(***************************************************************************)
EXTENDS LiveStore, FiniteSetTheorems, SequenceTheorems, TLAPS

(* The fields of a store with their types. *)
LEMMA StoreFields ==
  ASSUME NEW s \in Store
  PROVE  /\ s.public_message_ledger \in Seq(Role)
         /\ s.observations \in Seq(Observation)
         /\ s.semantic_ledger \in Seq(Entry)
         /\ s.agent_graph \in SUBSET Fact
         /\ s.initial_observation_count \in Nat
         /\ s.candidate_turns \in Nat
         /\ s.candidate_steps \in Nat
         /\ s.question_count \in Nat
         /\ s.stakeholder_turns \in Nat
         /\ s.protocol_state \in Protocol
BY DEF Store

(* The turns of a role in a ledger one message longer. *)
LEMMA TurnsOfAppend ==
  ASSUME NEW ledger \in Seq(Role), NEW r \in Role
  PROVE  /\ \A role \in Role : TurnsOf(ledger, role) \subseteq TurnsOf(Append(ledger, r), role)
         /\ \A role \in Role : TurnsOf(Append(ledger, r), role) \subseteq
                                 TurnsOf(ledger, role) \cup {Len(ledger)}
         /\ Len(ledger) \in TurnsOf(Append(ledger, r), r)
         /\ \A role \in Role : role # r => Len(ledger) \notin TurnsOf(Append(ledger, r), role)
<1> DEFINE longer == Append(ledger, r)
<1>1. /\ longer \in Seq(Role) /\ Len(longer) = Len(ledger) + 1 /\ Len(ledger) \in Nat
      /\ \A i \in 1..Len(ledger) : longer[i] = ledger[i]
      /\ longer[Len(ledger) + 1] = r
  OBVIOUS
<1>2. DOMAIN longer = 1..(Len(ledger) + 1) /\ DOMAIN ledger = 1..Len(ledger)
  BY <1>1
<1> HIDE DEF longer
<1>3. \A role \in Role : TurnsOf(ledger, role) \subseteq TurnsOf(longer, role)
  BY <1>1, <1>2 DEF TurnsOf
<1>4. \A role \in Role : TurnsOf(longer, role) \subseteq TurnsOf(ledger, role) \cup {Len(ledger)}
  BY <1>1, <1>2 DEF TurnsOf
<1>5. Len(ledger) \in TurnsOf(longer, r)
  BY <1>1, <1>2 DEF TurnsOf
<1>6. \A role \in Role : role # r => Len(ledger) \notin TurnsOf(longer, role)
  BY <1>1, <1>2 DEF TurnsOf
<1>7. QED
  BY <1>3, <1>4, <1>5, <1>6 DEF longer

LEMMA TurnsOfBounds ==
  ASSUME NEW ledger \in Seq(Role), NEW role
  PROVE  TurnsOf(ledger, role) \subseteq 0..(Len(ledger) - 1)
BY DEF TurnsOf

(* What the validator says about the history depends on these fields only. *)
LEMMA HistoryUnchanged ==
  ASSUME NEW s, NEW t, Valid(s),
         t.public_message_ledger = s.public_message_ledger,
         t.observations = s.observations,
         t.semantic_ledger = s.semantic_ledger,
         t.initial_observation_count = s.initial_observation_count,
         t.stakeholder_turns = s.stakeholder_turns
  PROVE  /\ ObservationsOrdered(t) /\ ObservationsPublic(t) /\ ObservationsCounted(t)
         /\ EntriesMatch(t) /\ TerminologySourced(t)
         /\ \A graph : EvidenceKnown(t, graph) <=> EvidenceKnown(s, graph)
         /\ Pending(t) <=> Pending(s)
<1>1. ObservationsOrdered(t) /\ ObservationsPublic(t) /\ ObservationsCounted(t)
  BY DEF Valid, ObservationsOrdered, ObservationsPublic, ObservationsCounted
<1>2. EntriesMatch(t)
  BY DEF Valid, EntriesMatch
<1>3. TerminologySourced(t)
  BY DEF Valid, TerminologySourced
<1>4. \A graph : EvidenceKnown(t, graph) <=> EvidenceKnown(s, graph)
  BY DEF EvidenceKnown, ObservationIds
<1>5. Pending(t) <=> Pending(s)
  BY DEF Pending
<1>6. QED
  BY <1>1, <1>2, <1>3, <1>4, <1>5

-----------------------------------------------------------------------------
(* record_candidate_turn *)
LEMMA RecordTurnValid ==
  ASSUME NEW s \in Store, Valid(s), CanRecordTurn(s)
  PROVE  RecordTurn(s) \in Store /\ Valid(RecordTurn(s))
<1> DEFINE t == RecordTurn(s)
<1>1. t \in Store
  <2>1. s.candidate_turns + 1 \in Nat /\ 0 \in Nat
    BY StoreFields
  <2>2. QED
    BY <2>1 DEF RecordTurn, Store
<1>2. /\ t.public_message_ledger = s.public_message_ledger
      /\ t.observations = s.observations
      /\ t.semantic_ledger = s.semantic_ledger
      /\ t.agent_graph = s.agent_graph
      /\ t.initial_observation_count = s.initial_observation_count
      /\ t.candidate_turns = s.candidate_turns + 1
      /\ t.candidate_steps = 0
      /\ t.question_count = s.question_count
      /\ t.stakeholder_turns = s.stakeholder_turns
      /\ t.protocol_state = s.protocol_state
  BY DEF RecordTurn, Store
<1> HIDE DEF t
<1>3. CountersBounded(t)
  BY <1>2, HistoryUnchanged, StoreFields, LimitsPositive
     DEF Valid, CountersBounded, CanRecordTurn
<1>4. ProtocolConsistent(t)
  BY <1>2 DEF Valid, ProtocolConsistent, CanRecordTurn, Active
<1>5. Valid(t)
  BY <1>2, <1>3, <1>4, HistoryUnchanged DEF Valid
<1>6. QED
  BY <1>1, <1>5 DEF t

(* record_candidate_step *)
LEMMA RecordStepValid ==
  ASSUME NEW s \in Store, Valid(s), CanRecordStep(s)
  PROVE  RecordStep(s) \in Store /\ Valid(RecordStep(s))
<1> DEFINE t == RecordStep(s)
<1>1. t \in Store
  <2>1. s.candidate_steps + 1 \in Nat
    BY StoreFields
  <2>2. QED
    BY <2>1 DEF RecordStep, Store
<1>2. /\ t.public_message_ledger = s.public_message_ledger
      /\ t.observations = s.observations
      /\ t.semantic_ledger = s.semantic_ledger
      /\ t.agent_graph = s.agent_graph
      /\ t.initial_observation_count = s.initial_observation_count
      /\ t.candidate_turns = s.candidate_turns
      /\ t.candidate_steps = s.candidate_steps + 1
      /\ t.question_count = s.question_count
      /\ t.stakeholder_turns = s.stakeholder_turns
      /\ t.protocol_state = s.protocol_state
  BY DEF RecordStep, Store
<1> HIDE DEF t
<1>3. CountersBounded(t)
  BY <1>2, HistoryUnchanged, StoreFields, LimitsPositive
     DEF Valid, CountersBounded, CanRecordStep
<1>4. ProtocolConsistent(t)
  BY <1>2 DEF Valid, ProtocolConsistent, CanRecordStep, Active
<1>5. Valid(t)
  BY <1>2, <1>3, <1>4, HistoryUnchanged DEF Valid
<1>6. QED
  BY <1>1, <1>5 DEF t

(* apply_agent_graph *)
LEMMA ApplyGraphValid ==
  ASSUME NEW s \in Store, Valid(s), NEW graph \in SUBSET Fact, CanApplyGraph(s, graph)
  PROVE  ApplyGraph(s, graph) \in Store /\ Valid(ApplyGraph(s, graph))
<1> DEFINE t == ApplyGraph(s, graph)
<1>1. t \in Store
  BY DEF ApplyGraph, Store
<1>2. /\ t.public_message_ledger = s.public_message_ledger
      /\ t.observations = s.observations
      /\ t.semantic_ledger = s.semantic_ledger
      /\ t.agent_graph = graph
      /\ t.initial_observation_count = s.initial_observation_count
      /\ t.candidate_turns = s.candidate_turns
      /\ t.candidate_steps = s.candidate_steps
      /\ t.question_count = s.question_count
      /\ t.stakeholder_turns = s.stakeholder_turns
      /\ t.protocol_state = s.protocol_state
  BY DEF ApplyGraph, Store
<1> HIDE DEF t
<1>3. CountersBounded(t)
  BY <1>2, HistoryUnchanged, StoreFields DEF Valid, CountersBounded
<1>4. ProtocolConsistent(t)
  BY <1>2 DEF Valid, ProtocolConsistent, CanApplyGraph, Active
<1>5. Valid(t)
  BY <1>2, <1>3, <1>4, HistoryUnchanged DEF Valid, CanApplyGraph
<1>6. QED
  BY <1>1, <1>5 DEF t

(* mark_complete *)
LEMMA CompleteValid ==
  ASSUME NEW s \in Store, Valid(s), NEW reason \in Reasons, CanComplete(s, reason)
  PROVE  Complete(s, reason) \in Store /\ Valid(Complete(s, reason))
<1> DEFINE t == Complete(s, reason)
           p == [status        |-> "completed",
                 reason        |-> reason,
                 terminal_turn |-> s.candidate_turns]
<1>1. t \in Store
  <2>1. p \in Protocol
    BY StoreFields DEF Protocol, Status
  <2>2. t = [s EXCEPT !.protocol_state = p]
    BY DEF Complete
  <2>3. QED
    BY <2>1, <2>2 DEF Store
<1>2. /\ t.public_message_ledger = s.public_message_ledger
      /\ t.observations = s.observations
      /\ t.semantic_ledger = s.semantic_ledger
      /\ t.agent_graph = s.agent_graph
      /\ t.initial_observation_count = s.initial_observation_count
      /\ t.candidate_turns = s.candidate_turns
      /\ t.candidate_steps = s.candidate_steps
      /\ t.question_count = s.question_count
      /\ t.stakeholder_turns = s.stakeholder_turns
      /\ t.protocol_state = p
  BY DEF Complete, Store
<1> HIDE DEF t
<1>3. CountersBounded(t)
  BY <1>2, HistoryUnchanged, StoreFields DEF Valid, CountersBounded
<1>4. ProtocolConsistent(t)
  BY <1>2, HistoryUnchanged DEF ProtocolConsistent, CanComplete, Active
<1>5. Valid(t)
  BY <1>2, <1>3, <1>4, HistoryUnchanged DEF Valid
<1>6. QED
  BY <1>1, <1>5 DEF t

(* mark_incomplete; not even the status of the store it starts from matters *)
LEMMA FailValid ==
  ASSUME NEW s \in Store, Valid(s), NEW reason \in Reasons, reason # Blank
  PROVE  Fail(s, reason) \in Store /\ Valid(Fail(s, reason))
<1> DEFINE t == Fail(s, reason)
           p == [status        |-> "incomplete",
                 reason        |-> reason,
                 terminal_turn |-> s.candidate_turns]
<1>1. t \in Store
  <2>1. p \in Protocol
    BY StoreFields DEF Protocol, Status
  <2>2. t = [s EXCEPT !.protocol_state = p]
    BY DEF Fail
  <2>3. QED
    BY <2>1, <2>2 DEF Store
<1>2. /\ t.public_message_ledger = s.public_message_ledger
      /\ t.observations = s.observations
      /\ t.semantic_ledger = s.semantic_ledger
      /\ t.agent_graph = s.agent_graph
      /\ t.initial_observation_count = s.initial_observation_count
      /\ t.candidate_turns = s.candidate_turns
      /\ t.candidate_steps = s.candidate_steps
      /\ t.question_count = s.question_count
      /\ t.stakeholder_turns = s.stakeholder_turns
      /\ t.protocol_state = p
  BY DEF Fail, Store
<1> HIDE DEF t
<1>3. CountersBounded(t)
  BY <1>2, HistoryUnchanged, StoreFields DEF Valid, CountersBounded
<1>4. ProtocolConsistent(t)
  BY <1>2 DEF ProtocolConsistent, Active
<1>5. Valid(t)
  BY <1>2, <1>3, <1>4, HistoryUnchanged DEF Valid
<1>6. QED
  BY <1>1, <1>5 DEF t

-----------------------------------------------------------------------------
(* An open question is the one question without an answer. *)
LEMMA PendingCounts ==
  ASSUME NEW s \in Store, Valid(s)
  PROVE  IF Pending(s) THEN s.question_count = s.stakeholder_turns + 1
                       ELSE s.question_count = s.stakeholder_turns
BY StoreFields DEF Valid, CountersBounded

LEMMA AskType == ASSUME NEW s \in Store PROVE Ask(s) \in Store
<1>1. "assistant" \in Role
  BY DEF Role
<1>2. /\ Append(s.public_message_ledger, "assistant") \in Seq(Role)
      /\ s.question_count + 1 \in Nat
  BY <1>1, StoreFields
<1>3. QED
  BY <1>2 DEF Ask, Store

(* record_candidate_question, when this turn has not asked yet *)
LEMMA AskValid ==
  ASSUME NEW s \in Store, Valid(s), CanAsk(s), s.question_count < s.candidate_turns
  PROVE  /\ Ask(s) \in Store
         /\ Valid(Ask(s))
         /\ Pending(Ask(s))
<1> DEFINE t == Ask(s)
           ledger == s.public_message_ledger
<1>a. ledger \in Seq(Role) /\ "assistant" \in Role
  BY StoreFields DEF Role
<1>1. t \in Store
  BY AskType
<1>2. /\ t.public_message_ledger = Append(ledger, "assistant")
      /\ t.observations = s.observations
      /\ t.semantic_ledger = s.semantic_ledger
      /\ t.agent_graph = s.agent_graph
      /\ t.initial_observation_count = s.initial_observation_count
      /\ t.candidate_turns = s.candidate_turns
      /\ t.candidate_steps = s.candidate_steps
      /\ t.question_count = s.question_count + 1
      /\ t.stakeholder_turns = s.stakeholder_turns
      /\ t.protocol_state = s.protocol_state
  BY DEF Ask, Store
<1> HIDE DEF t
<1>3. Pending(t)
  <2>1. /\ Len(t.public_message_ledger) = Len(ledger) + 1
        /\ t.public_message_ledger[Len(ledger) + 1] = "assistant"
        /\ t.public_message_ledger # <<>>
    BY <1>a, <1>2
  <2>2. QED
    BY <2>1 DEF Pending
<1>4. CountersBounded(t)
  <2>1. s.question_count = s.stakeholder_turns
    BY PendingCounts DEF CanAsk
  <2>2. QED
    BY <1>2, <1>3, <2>1, StoreFields, LimitsPositive DEF Valid, CountersBounded
<1>5. \A role \in Role : TurnsOf(ledger, role) \subseteq
                           TurnsOf(t.public_message_ledger, role)
  BY <1>a, <1>2, TurnsOfAppend
<1>6. ObservationsOrdered(t) /\ ObservationsCounted(t) /\ EntriesMatch(t)
  BY <1>2 DEF Valid, ObservationsOrdered, ObservationsCounted, EntriesMatch
<1>7. ObservationsPublic(t)
  BY <1>2, <1>5 DEF Valid, ObservationsPublic, Role
<1>8. TerminologySourced(t)
  BY <1>2, <1>5 DEF Valid, TerminologySourced, ProposalsPrecede, Role
<1>9. EvidenceKnown(t, t.agent_graph)
  BY <1>2 DEF Valid, EvidenceKnown, ObservationIds
<1>10. ProtocolConsistent(t)
  BY <1>2 DEF Valid, ProtocolConsistent, CanAsk, Active
<1>11. Valid(t)
  BY <1>4, <1>6, <1>7, <1>8, <1>9, <1>10 DEF Valid
<1>12. QED
  BY <1>1, <1>3, <1>11 DEF t

(* ingest_validated_stakeholder_response: the guard alone is enough *)
LEMMA IngestValid ==
  ASSUME NEW s \in Store, Valid(s), NEW id \in Nat, NEW proposals \in SUBSET Nat,
         CanIngest(s, id, proposals)
  PROVE  /\ Ingest(s, id, proposals) \in Store
         /\ Valid(Ingest(s, id, proposals))
         /\ ~Pending(Ingest(s, id, proposals))
<1> DEFINE t      == Ingest(s, id, proposals)
           ledger == s.public_message_ledger
           turn   == Len(ledger)
           obs    == [id |-> id, turn |-> turn]
           entry  == [id |-> id, turn |-> turn, proposals |-> proposals]
           n      == Len(s.observations)
<1>a. /\ ledger \in Seq(Role) /\ "user" \in Role /\ "assistant" \in Role
      /\ turn \in Nat /\ n \in Nat
      /\ s.observations \in Seq(Observation) /\ s.semantic_ledger \in Seq(Entry)
  BY StoreFields DEF Role
<1>b. obs \in Observation /\ entry \in Entry
  BY <1>a DEF Observation, Entry
<1>1. t \in Store
  <2>1. /\ Append(ledger, "user") \in Seq(Role)
        /\ Append(s.observations, obs) \in Seq(Observation)
        /\ Append(s.semantic_ledger, entry) \in Seq(Entry)
        /\ s.stakeholder_turns + 1 \in Nat
    BY <1>a, <1>b, StoreFields
  <2>2. QED
    BY <2>1 DEF Ingest, NextPublicTurn, Store
<1>2. /\ t.public_message_ledger = Append(ledger, "user")
      /\ t.observations = Append(s.observations, obs)
      /\ t.semantic_ledger = Append(s.semantic_ledger, entry)
      /\ t.agent_graph = s.agent_graph
      /\ t.initial_observation_count = s.initial_observation_count
      /\ t.candidate_turns = s.candidate_turns
      /\ t.candidate_steps = s.candidate_steps
      /\ t.question_count = s.question_count
      /\ t.stakeholder_turns = s.stakeholder_turns + 1
      /\ t.protocol_state = s.protocol_state
  BY DEF Ingest, NextPublicTurn, Store
<1> HIDE DEF t
<1>3. ~Pending(t)
  <2>1. /\ Len(t.public_message_ledger) = turn + 1
        /\ t.public_message_ledger[turn + 1] = "user"
    BY <1>a, <1>2
  <2>2. QED
    BY <2>1 DEF Pending
<1>4. CountersBounded(t)
  <2>1. s.question_count = s.stakeholder_turns + 1
    BY PendingCounts DEF CanIngest
  <2>2. /\ s.candidate_turns \in Nat /\ s.candidate_steps \in Nat /\ s.question_count \in Nat
        /\ s.stakeholder_turns \in Nat /\ MaxTurns \in Nat /\ MaxSteps \in Nat
    BY StoreFields, LimitsPositive
  <2>3. CountersBounded(s)
    BY DEF Valid
  <2>4. t.stakeholder_turns <= t.question_count /\ t.question_count # t.stakeholder_turns + 1
    BY <1>2, <2>1, <2>2
  <2>5. QED
    BY <1>2, <1>3, <2>2, <2>3, <2>4 DEF CountersBounded
<1>5. /\ \A role \in Role : TurnsOf(ledger, role) \subseteq
                              TurnsOf(t.public_message_ledger, role)
      /\ turn \in TurnsOf(t.public_message_ledger, "user")
  BY <1>a, <1>2, TurnsOfAppend
<1>6. /\ Len(t.observations) = n + 1
      /\ \A i \in 1..n : t.observations[i] = s.observations[i]
      /\ t.observations[n + 1] = obs
      /\ DOMAIN s.observations = 1..n /\ DOMAIN t.observations = 1..(n + 1)
  BY <1>a, <1>b, <1>2
<1>7. Len(s.semantic_ledger) = n
  BY DEF Valid, EntriesMatch
<1>8. /\ Len(t.semantic_ledger) = n + 1
      /\ \A i \in 1..n : t.semantic_ledger[i] = s.semantic_ledger[i]
      /\ t.semantic_ledger[n + 1] = entry
      /\ DOMAIN s.semantic_ledger = 1..n /\ DOMAIN t.semantic_ledger = 1..(n + 1)
  BY <1>a, <1>b, <1>2, <1>7
<1>9. \A i \in 1..n : /\ s.observations[i].turn \in Nat
                      /\ s.observations[i].turn < turn
                      /\ s.observations[i].id # id
  <2>1. \A i \in 1..n : s.observations[i].turn \in TurnsOf(ledger, "user")
    BY <1>6 DEF Valid, ObservationsPublic
  <2>2. \A i \in 1..n : s.observations[i].id # id
    BY <1>6 DEF CanIngest, ObservationIds
  <2>3. QED
    BY <1>a, <2>1, <2>2, TurnsOfBounds
<1>10. ObservationsOrdered(t)
  <2>a. /\ ObservationsOrdered(s)
        /\ \A k \in 1..(n + 1) : k \in 1..n \/ k = n + 1
    BY <1>a DEF Valid
  <2> SUFFICES ASSUME NEW i \in 1..(n + 1), NEW j \in 1..(n + 1), i < j
               PROVE  /\ t.observations[i].turn < t.observations[j].turn
                      /\ t.observations[i].id # t.observations[j].id
    BY <1>6 DEF ObservationsOrdered
  <2>1. CASE j \in 1..n
    <3>1. i \in 1..n
      BY <2>1, <1>a
    <3>2. /\ t.observations[i] = s.observations[i]
          /\ t.observations[j] = s.observations[j]
      BY <2>1, <3>1, <1>6
    <3>3. i \in DOMAIN s.observations /\ j \in DOMAIN s.observations
      BY <2>1, <3>1, <1>6
    <3>4. /\ s.observations[i].turn < s.observations[j].turn
          /\ s.observations[i].id # s.observations[j].id
      BY <3>3, <2>a DEF ObservationsOrdered
    <3>5. QED
      BY <3>2, <3>4
  <2>2. CASE j = n + 1
    <3>1. i \in 1..n
      BY <2>2, <1>a
    <3>2. QED
      BY <2>2, <3>1, <1>6, <1>9
  <2>3. j \in 1..n \/ j = n + 1
    BY <2>a
  <2>4. QED
    BY <2>1, <2>2, <2>3
<1>11. ObservationsPublic(t)
  <2>1. \A i \in 1..n : s.observations[i].turn \in TurnsOf(t.public_message_ledger, "user")
    BY <1>5, <1>6, <1>a DEF Valid, ObservationsPublic
  <2>2. QED
    BY <2>1, <1>5, <1>6, <1>a DEF ObservationsPublic
<1>12. ObservationsCounted(t)
  <2>1. n = s.initial_observation_count + s.stakeholder_turns
    BY DEF Valid, ObservationsCounted
  <2>a. n \in Nat /\ s.initial_observation_count \in Nat /\ s.stakeholder_turns \in Nat
    BY StoreFields
  <2>2. n + 1 = s.initial_observation_count + (s.stakeholder_turns + 1)
    <3> HIDE DEF n
    <3> QED
      BY <2>1, <2>a
  <2>3. QED
    BY <2>2, <1>2, <1>6 DEF ObservationsCounted
<1>13. EntriesMatch(t)
  <2>a. /\ s.initial_observation_count \in Nat /\ s.stakeholder_turns \in Nat
        /\ n = s.initial_observation_count + s.stakeholder_turns
    BY StoreFields DEF Valid, ObservationsCounted
  <2>1. n + 1 > t.initial_observation_count
    <3> HIDE DEF n
    <3> QED
      BY <1>2, <2>a
  <2>2. \A i \in 1..n : /\ s.semantic_ledger[i].id = s.observations[i].id
                        /\ s.semantic_ledger[i].turn = s.observations[i].turn
                        /\ i <= s.initial_observation_count =>
                             s.semantic_ledger[i].proposals = {}
    BY <1>6 DEF Valid, EntriesMatch
  <2> SUFFICES ASSUME NEW i \in 1..(n + 1)
               PROVE  /\ t.semantic_ledger[i].id = t.observations[i].id
                      /\ t.semantic_ledger[i].turn = t.observations[i].turn
                      /\ i <= t.initial_observation_count =>
                           t.semantic_ledger[i].proposals = {}
    BY <1>6, <1>8 DEF EntriesMatch
  <2>3. CASE i \in 1..n
    BY <2>2, <2>3, <1>2, <1>6, <1>8
  <2>4. CASE i = n + 1
    <3>1. ~(n + 1 <= t.initial_observation_count)
      BY <2>1, <1>2, <1>a, StoreFields
    <3>2. QED
      BY <3>1, <2>4, <1>6, <1>8
  <2>5. i \in 1..n \/ i = n + 1
    BY <1>a
  <2>6. QED
    BY <2>3, <2>4, <2>5
<1>14. TerminologySourced(t)
  <2> SUFFICES ASSUME NEW i \in 1..(n + 1)
               PROVE  ProposalsPrecede(t.public_message_ledger,
                        t.semantic_ledger[i].proposals, t.semantic_ledger[i].turn)
    BY <1>8 DEF TerminologySourced
  <2>1. CASE i \in 1..n
    <3>1. ProposalsPrecede(ledger, s.semantic_ledger[i].proposals, s.semantic_ledger[i].turn)
      BY <2>1, <1>8 DEF Valid, TerminologySourced
    <3>2. QED
      BY <3>1, <2>1, <1>5, <1>8, <1>a DEF ProposalsPrecede
  <2>2. CASE i = n + 1
    <3>1. ProposalsPrecede(ledger, proposals, turn)
      BY DEF CanIngest, NextPublicTurn
    <3>2. t.semantic_ledger[i].proposals = proposals /\ t.semantic_ledger[i].turn = turn
      BY <2>2, <1>8
    <3>3. QED
      BY <3>1, <3>2, <1>5, <1>a DEF ProposalsPrecede
  <2>3. i \in 1..n \/ i = n + 1
    BY <1>a
  <2>4. QED
    BY <2>1, <2>2, <2>3
<1>15. EvidenceKnown(t, t.agent_graph)
  <2>1. ObservationIds(s) \subseteq ObservationIds(t)
    BY <1>6, <1>a DEF ObservationIds
  <2>2. QED
    BY <2>1, <1>2 DEF Valid, EvidenceKnown
<1>16. ProtocolConsistent(t)
  BY <1>2 DEF Valid, ProtocolConsistent, CanIngest, Active
<1>17. Valid(t)
  BY <1>4, <1>10, <1>11, <1>12, <1>13, <1>14, <1>15, <1>16 DEF Valid
<1>18. QED
  BY <1>1, <1>3, <1>17 DEF t

-----------------------------------------------------------------------------
(* create_live_interview_store: the store it returns, when its validator let *)
(* the history through, has its types and observes every answer in it.  No   *)
(* turn is counted twice, since the validator wants them increasing, and     *)
(* there are as many observations as answers.                                *)
LEMMA CreateStoreFacts ==
  ASSUME NEW ledger \in Seq(Role), Valid(CreateStore(ledger))
  PROVE  /\ CreateStore(ledger) \in Store
         /\ Active(CreateStore(ledger))
         /\ CreateStore(ledger).candidate_turns = 0
         /\ CreateStore(ledger).candidate_steps = 0
         /\ CreateStore(ledger).question_count = 0
         /\ CreateStore(ledger).stakeholder_turns = 0
         /\ AnswersObserved(CreateStore(ledger))
<1> DEFINE s     == CreateStore(ledger)
           turns == TurnsOf(ledger, "user")
           Nth(k) == CHOOSE t \in turns : Cardinality({u \in turns : u < t}) = k - 1
           n     == Cardinality(turns)
           obs   == InitialObservations(ledger)
<1>1. turns \in SUBSET Nat /\ IsFiniteSet(turns) /\ n \in Nat
  <2>1. turns \in SUBSET (0..(Len(ledger) - 1)) /\ 0 \in Int /\ Len(ledger) - 1 \in Int
    BY TurnsOfBounds
  <2>2. IsFiniteSet(0..(Len(ledger) - 1))
    BY <2>1, FS_Interval
  <2>3. IsFiniteSet(turns)
    BY <2>1, <2>2, FS_Subset
  <2>4. n \in Nat
    BY <2>3, FS_CardinalityType
  <2>5. turns \in SUBSET Nat
    BY <2>1
  <2>6. QED
    BY <2>3, <2>4, <2>5
<1>2. obs = [k \in 1..n |-> [id |-> Nth(k), turn |-> Nth(k)]]
  BY DEF InitialObservations
<1> HIDE DEF turns, Nth, n, obs
<1>3. /\ s.public_message_ledger = ledger /\ s.observations = obs
      /\ s.agent_graph = {} /\ s.initial_observation_count = Len(obs)
      /\ s.candidate_turns = 0 /\ s.candidate_steps = 0
      /\ s.question_count = 0 /\ s.stakeholder_turns = 0
      /\ s.protocol_state = [status |-> "active", reason |-> Blank, terminal_turn |-> None]
      /\ s.semantic_ledger = [k \in DOMAIN obs |-> [id        |-> obs[k].id,
                                                    turn      |-> obs[k].turn,
                                                    proposals |-> {}]]
  BY DEF CreateStore, obs
<1>4. DOMAIN obs = 1..n /\ Len(obs) = n
  BY <1>1, <1>2
<1>5. \A k \in 1..n : /\ obs[k].id = Nth(k) /\ obs[k].turn = Nth(k)
                      /\ Nth(k) \in turns
  <2>1. \A k \in 1..n : obs[k].turn \in TurnsOf(ledger, "user")
    BY <1>3, <1>4 DEF Valid, ObservationsPublic
  <2>2. QED
    BY <1>2, <2>1 DEF turns
<1>6. obs \in Seq(Observation)
  <2>1. \A k \in 1..n : obs[k] \in Observation
    BY <1>1, <1>2, <1>5 DEF Observation
  <2>2. QED
    BY <1>1, <1>2, <2>1
<1>7. s.semantic_ledger \in Seq(Entry)
  <2>1. \A k \in 1..n : [id |-> obs[k].id, turn |-> obs[k].turn, proposals |-> {}] \in Entry
    BY <1>1, <1>5 DEF Entry
  <2>2. QED
    BY <1>1, <1>3, <1>4, <2>1
<1>8. s \in Store
  <2>1. [status |-> "active", reason |-> Blank, terminal_turn |-> None] \in Protocol
    BY BlankIsReason DEF Protocol, Status
  <2>2. s = [ public_message_ledger     |-> s.public_message_ledger,
              observations              |-> s.observations,
              semantic_ledger           |-> s.semantic_ledger,
              agent_graph               |-> s.agent_graph,
              initial_observation_count |-> s.initial_observation_count,
              candidate_turns           |-> s.candidate_turns,
              candidate_steps           |-> s.candidate_steps,
              question_count            |-> s.question_count,
              stakeholder_turns         |-> s.stakeholder_turns,
              protocol_state            |-> s.protocol_state ]
    BY DEF CreateStore
  <2> HIDE DEF s
  <2>3. /\ s.public_message_ledger \in Seq(Role)
        /\ s.observations \in Seq(Observation)
        /\ s.semantic_ledger \in Seq(Entry)
        /\ s.agent_graph \in SUBSET Fact
        /\ s.initial_observation_count \in Nat
        /\ s.candidate_turns \in Nat /\ s.candidate_steps \in Nat
        /\ s.question_count \in Nat /\ s.stakeholder_turns \in Nat
        /\ s.protocol_state \in Protocol
    BY <1>1, <1>3, <1>4, <1>6, <1>7, <2>1
  <2>4. QED
    BY <2>2, <2>3 DEF Store
<1>9. AnswersObserved(s)
  <2> DEFINE f == [k \in 1..n |-> Nth(k)]
  <2>1. f \in [1..n -> turns]
    BY <1>5
  <2>2. \A j, k \in 1..n : j < k => f[j] < f[k]
    <3>1. ObservationsOrdered(s)
      BY DEF Valid
    <3>2. \A j, k \in 1..n : j < k => obs[j].turn < obs[k].turn
      BY <1>3, <1>4, <3>1 DEF ObservationsOrdered
    <3>3. QED
      BY <1>5, <3>2
  <2>3. \A k \in 1..n : f[k] \in Nat
    BY <1>1, <2>1
  <2> HIDE DEF f
  <2>4. \A j, k \in 1..n : f[j] = f[k] => j = k
    <3> SUFFICES ASSUME NEW j \in 1..n, NEW k \in 1..n, f[j] = f[k], j # k PROVE FALSE
      OBVIOUS
    <3>1. j < k \/ k < j
      BY <1>1
    <3>2. QED
      BY <2>2, <2>3, <3>1
  <2>5. f \in Injection(1..n, turns)
    BY <2>1, <2>4 DEF Injection, IsInjective
  <2>6. Cardinality(1..n) = Cardinality(turns)
    <3>1. Cardinality(1..n) = n
      BY <1>1, FS_Interval
    <3>2. QED
      BY <3>1 DEF n
  <2>7. f \in Surjection(1..n, turns)
    BY <1>1, <2>5, <2>6, FS_Injection
  <2>8. \A t \in turns : \E k \in 1..n : f[k] = t
    BY <2>7 DEF Surjection
  <2>9. {s.observations[k].turn : k \in DOMAIN s.observations} = {f[k] : k \in 1..n}
    BY <1>3, <1>4, <1>5 DEF f
  <2>10. {f[k] : k \in 1..n} = turns
    BY <2>1, <2>8
  <2>11. QED
    BY <1>3, <2>9, <2>10 DEF AnswersObserved, turns
<1>10. Active(s)
  BY <1>3 DEF Active
<1>11. QED
  BY <1>3, <1>8, <1>9, <1>10

-----------------------------------------------------------------------------
(* A question changes no answer; an answer is observed as it is published. *)
LEMMA AskObserved ==
  ASSUME NEW s \in Store, AnswersObserved(s)
  PROVE  AnswersObserved(Ask(s))
<1>1. s.public_message_ledger \in Seq(Role) /\ "assistant" \in Role /\ "user" \in Role
  BY StoreFields DEF Role
<1>2. /\ Ask(s).public_message_ledger = Append(s.public_message_ledger, "assistant")
      /\ Ask(s).observations = s.observations
  BY DEF Ask, Store
<1>3. TurnsOf(Append(s.public_message_ledger, "assistant"), "user")
        = TurnsOf(s.public_message_ledger, "user")
  <2> DEFINE ledger == s.public_message_ledger
             longer == TurnsOf(Append(ledger, "assistant"), "user")
  <2>1. /\ TurnsOf(ledger, "user") \subseteq longer
        /\ longer \subseteq TurnsOf(ledger, "user") \cup {Len(ledger)}
    BY <1>1, TurnsOfAppend
  <2>2. Len(ledger) \notin longer
    <3>1. "user" # "assistant"
      OBVIOUS
    <3>2. QED
      BY <1>1, <3>1, TurnsOfAppend
  <2>3. QED
    BY <2>1, <2>2
<1>4. QED
  BY <1>2, <1>3 DEF AnswersObserved

LEMMA IngestObserved ==
  ASSUME NEW s \in Store, NEW id \in Nat, NEW proposals \in SUBSET Nat, AnswersObserved(s)
  PROVE  AnswersObserved(Ingest(s, id, proposals))
<1> DEFINE t      == Ingest(s, id, proposals)
           ledger == s.public_message_ledger
           obs    == [id |-> id, turn |-> Len(ledger)]
           n      == Len(s.observations)
<1>1. /\ ledger \in Seq(Role) /\ "user" \in Role /\ n \in Nat
      /\ s.observations \in Seq(Observation) /\ obs \in Observation
  BY StoreFields DEF Role, Observation
<1>2. /\ t.public_message_ledger = Append(ledger, "user")
      /\ t.observations = Append(s.observations, obs)
  BY DEF Ingest, NextPublicTurn, Store
<1> HIDE DEF t
<1>3. TurnsOf(Append(ledger, "user"), "user") = TurnsOf(ledger, "user") \cup {Len(ledger)}
  BY <1>1, TurnsOfAppend
<1>4. /\ \A i \in 1..n : t.observations[i] = s.observations[i]
      /\ t.observations[n + 1].turn = Len(ledger)
      /\ DOMAIN s.observations = 1..n /\ DOMAIN t.observations = 1..(n + 1)
  BY <1>1, <1>2
<1>5. 1..(n + 1) = (1..n) \cup {n + 1}
  BY <1>1
<1>6. {t.observations[i].turn : i \in DOMAIN t.observations}
        = {s.observations[i].turn : i \in DOMAIN s.observations} \cup {Len(ledger)}
  BY <1>4, <1>5
<1>7. QED
  BY <1>2, <1>3, <1>6 DEF AnswersObserved, t

LEMMA ObservationIdsType ==
  ASSUME NEW s \in Store
  PROVE  ObservationIds(s) \subseteq Nat
<1>1. \A i \in DOMAIN s.observations : s.observations[i] \in Observation
  BY StoreFields
<1>2. QED
  BY <1>1 DEF ObservationIds, Observation

(* An accepted question had a turn to be asked in. *)
LEMMA AskedInTurn ==
  ASSUME NEW s \in Store, Valid(Ask(s))
  PROVE  s.question_count < s.candidate_turns /\ s.question_count < MaxTurns
<1>1. Ask(s).question_count = s.question_count + 1 /\ Ask(s).candidate_turns = s.candidate_turns
  BY DEF Ask, Store
<1>2. s.question_count + 1 <= s.candidate_turns /\ s.question_count + 1 <= MaxTurns
  BY <1>1 DEF Valid, CountersBounded
<1>3. QED
  BY <1>2, StoreFields, LimitsPositive

-----------------------------------------------------------------------------
(* What the operations do to the counters and the public history. *)
SameCounts(s, t) ==
  /\ s.candidate_turns = t.candidate_turns
  /\ s.candidate_steps = t.candidate_steps
  /\ s.question_count = t.question_count
  /\ s.stakeholder_turns = t.stakeholder_turns
  /\ s.public_message_ledger = t.public_message_ledger

LEMMA RecordTurnEffect ==
  ASSUME NEW s \in Store
  PROVE  /\ RecordTurn(s).candidate_turns = s.candidate_turns + 1
         /\ RecordTurn(s).candidate_steps = 0
         /\ RecordTurn(s).question_count = s.question_count
         /\ RecordTurn(s).stakeholder_turns = s.stakeholder_turns
         /\ RecordTurn(s).public_message_ledger = s.public_message_ledger
         /\ RecordTurn(s).protocol_state = s.protocol_state
BY DEF RecordTurn, Store

LEMMA RecordStepEffect ==
  ASSUME NEW s \in Store
  PROVE  /\ RecordStep(s).candidate_turns = s.candidate_turns
         /\ RecordStep(s).candidate_steps = s.candidate_steps + 1
         /\ RecordStep(s).question_count = s.question_count
         /\ RecordStep(s).stakeholder_turns = s.stakeholder_turns
         /\ RecordStep(s).public_message_ledger = s.public_message_ledger
         /\ RecordStep(s).protocol_state = s.protocol_state
BY DEF RecordStep, Store

LEMMA AskEffect ==
  ASSUME NEW s \in Store
  PROVE  /\ Ask(s).candidate_turns = s.candidate_turns
         /\ Ask(s).candidate_steps = s.candidate_steps
         /\ Ask(s).protocol_state = s.protocol_state
         /\ Ask(s).question_count = s.question_count + 1
         /\ Ask(s).stakeholder_turns = s.stakeholder_turns
BY DEF Ask, Store

LEMMA IngestEffect ==
  ASSUME NEW s \in Store, NEW id, NEW proposals
  PROVE  /\ Ingest(s, id, proposals).candidate_turns = s.candidate_turns
         /\ Ingest(s, id, proposals).candidate_steps = s.candidate_steps
         /\ Ingest(s, id, proposals).protocol_state = s.protocol_state
         /\ Ingest(s, id, proposals).question_count = s.question_count
         /\ Ingest(s, id, proposals).stakeholder_turns = s.stakeholder_turns + 1
BY DEF Ingest, Store

LEMMA ApplyGraphEffect ==
  ASSUME NEW s \in Store, NEW graph
  PROVE  /\ SameCounts(ApplyGraph(s, graph), s)
         /\ ApplyGraph(s, graph).protocol_state = s.protocol_state
BY DEF ApplyGraph, SameCounts, Store

LEMMA CompleteEffect ==
  ASSUME NEW s \in Store, NEW reason
  PROVE  /\ SameCounts(Complete(s, reason), s)
         /\ Complete(s, reason).protocol_state.status = "completed"
         /\ Complete(s, reason).protocol_state.reason = reason
BY DEF Complete, SameCounts, Store

LEMMA FailEffect ==
  ASSUME NEW s \in Store, NEW reason
  PROVE  /\ SameCounts(Fail(s, reason), s)
         /\ Fail(s, reason).protocol_state.status = "incomplete"
         /\ Fail(s, reason).protocol_state.reason = reason
BY DEF Fail, SameCounts, Store
=============================================================================
