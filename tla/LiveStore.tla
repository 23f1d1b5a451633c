------------------------------ MODULE LiveStore ------------------------------
(***************************************************************************)
(* business_interview/runtime.py: LiveInterviewStore, the durable state of *)
(* one live interview.  The class is immutable by operation: every method  *)
(* checks its guards, builds a new payload and validates the whole of it   *)
(* again before it returns it.  This module therefore has no variables: a  *)
(* store is a record, CanXxx is the guard of method xxx, Xxx the payload   *)
(* it builds, and Valid the validator every payload passes.  Callers keep  *)
(* several copies (the solver's reference, its local variable, the         *)
(* persisted JSON) and all of them are built by these operators.           *)
(*                                                                         *)
(* Abstractions.  A public message is its role: its turn is its position,  *)
(* counted from 0, and its text matters only where a quote has to be found *)
(* in it, which is represented by the observation or turn the quote names. *)
(* The observation id "obs_N" is the number N; an id chosen by a caller is *)
(* any number.  A graph is a set of facts, each citing one observation or  *)
(* none.                                                                   *)
(***************************************************************************)
EXTENDS Integers, Sequences, FiniteSets

CONSTANTS
  MaxTurns,    \* max_turns
  MaxSteps,    \* max_candidate_steps_per_turn
  Items,       \* what an AgentGraph can say, without its evidence
  Reasons      \* why an interview can end, the empty reason included

ASSUME LimitsPositive == MaxTurns \in Nat \ {0} /\ MaxSteps \in Nat \ {0}

Role   == {"assistant", "user"}
Status == {"active", "completed", "incomplete"}
None   == -1                        \* Python's None for a turn or a citation
Blank  == "blank"                   \* the empty reason, or one of blanks only

ASSUME BlankIsReason == Blank \in Reasons

Observation == [id: Nat, turn: Nat]
Entry       == [id: Nat, turn: Nat, proposals: SUBSET Nat]
Fact        == [item: Items, cites: Nat \cup {None}]
Protocol    == [status: Status, reason: Reasons, terminal_turn: Nat \cup {None}]

Store ==
  [ public_message_ledger     : Seq(Role),
    observations              : Seq(Observation),
    semantic_ledger           : Seq(Entry),
    agent_graph               : SUBSET Fact,
    initial_observation_count : Nat,
    candidate_turns           : Nat,
    candidate_steps           : Nat,
    question_count            : Nat,
    stakeholder_turns         : Nat,
    protocol_state            : Protocol ]

Active(s) == s.protocol_state.status = "active"

Pending(s) ==
  LET ledger == s.public_message_ledger
  IN  ledger # <<>> /\ ledger[Len(ledger)] = "assistant"

NextPublicTurn(s) == Len(s.public_message_ledger)

TurnsOf(ledger, role) == {i - 1 : i \in {j \in DOMAIN ledger : ledger[j] = role}}

ObservationIds(s) == {s.observations[i].id : i \in DOMAIN s.observations}

-----------------------------------------------------------------------------
(* The validator, one named part per group of checks.                      *)

ObservationsOrdered(s) ==
  \A i, j \in DOMAIN s.observations :
    i < j => /\ s.observations[i].turn < s.observations[j].turn
             /\ s.observations[i].id # s.observations[j].id

ObservationsPublic(s) ==
  \A i \in DOMAIN s.observations :
    s.observations[i].turn \in TurnsOf(s.public_message_ledger, "user")

ObservationsCounted(s) ==
  Len(s.observations) = s.initial_observation_count + s.stakeholder_turns

(* One private entry per observation, in the same order; none of the initial *)
(* observations carries a private event.                                     *)
EntriesMatch(s) ==
  /\ Len(s.semantic_ledger) = Len(s.observations)
  /\ \A i \in DOMAIN s.observations :
       /\ s.semantic_ledger[i].id = s.observations[i].id
       /\ s.semantic_ledger[i].turn = s.observations[i].turn
       /\ i <= s.initial_observation_count => s.semantic_ledger[i].proposals = {}

(* validate_terminology_provenance: a confirmed term was proposed by the     *)
(* interviewer, in a message that precedes the answer confirming it.         *)
ProposalsPrecede(ledger, proposals, turn) ==
  \A p \in proposals : p \in TurnsOf(ledger, "assistant") /\ p < turn

TerminologySourced(s) ==
  \A i \in DOMAIN s.semantic_ledger :
    ProposalsPrecede(s.public_message_ledger, s.semantic_ledger[i].proposals,
                     s.semantic_ledger[i].turn)

(* _validate_graph_evidence *)
EvidenceKnown(s, graph) ==
  \A f \in graph : f.cites # None => f.cites \in ObservationIds(s)

CountersBounded(s) ==
  /\ s.candidate_turns <= MaxTurns
  /\ s.candidate_steps <= MaxSteps
  /\ s.stakeholder_turns <= s.question_count
  /\ s.question_count <= s.candidate_turns
  /\ s.question_count <= MaxTurns
  /\ s.question_count <= s.stakeholder_turns + 1
  /\ Pending(s) <=> s.question_count = s.stakeholder_turns + 1

(* InterviewProtocolState's own validator and the terminal part of the store's. *)
ProtocolConsistent(s) ==
  LET p == s.protocol_state
  IN  IF Active(s)
      THEN p.reason = Blank /\ p.terminal_turn = None
      ELSE /\ p.reason # Blank
           /\ p.terminal_turn = s.candidate_turns
           /\ p.status = "completed" => ~Pending(s)

Valid(s) ==
  /\ ObservationsOrdered(s)
  /\ ObservationsPublic(s)
  /\ ObservationsCounted(s)
  /\ EntriesMatch(s)
  /\ TerminologySourced(s)
  /\ EvidenceKnown(s, s.agent_graph)
  /\ CountersBounded(s)
  /\ ProtocolConsistent(s)

(* What the validator leaves out: it checks that every observation is an     *)
(* answer, not that every answer is an observation.                          *)
AnswersObserved(s) ==
  {s.observations[i].turn : i \in DOMAIN s.observations}
     = TurnsOf(s.public_message_ledger, "user")

-----------------------------------------------------------------------------
(* create_live_interview_store *)

(* mutant: only live answers are observed *)
InitialObservationsNone(ledger) == <<>>

(* Every user message of the initial history becomes an observation. *)
InitialObservations(ledger) ==
  LET turns == TurnsOf(ledger, "user")
      Nth(k) == CHOOSE t \in turns : Cardinality({u \in turns : u < t}) = k - 1
  IN  [k \in 1..Cardinality(turns) |-> [id |-> Nth(k), turn |-> Nth(k)]]

CreateStore(ledger) ==
  LET observed == InitialObservations(ledger)
  IN  [ public_message_ledger     |-> ledger,
        observations              |-> observed,
        semantic_ledger           |->
          [k \in DOMAIN observed |-> [id        |-> observed[k].id,
                                      turn      |-> observed[k].turn,
                                      proposals |-> {}]],
        agent_graph               |-> {},
        initial_observation_count |-> Len(observed),
        candidate_turns           |-> 0,
        candidate_steps           |-> 0,
        question_count            |-> 0,
        stakeholder_turns         |-> 0,
        protocol_state            |->
          [status |-> "active", reason |-> Blank, terminal_turn |-> None] ]

-----------------------------------------------------------------------------
(* The operations: guard and payload. *)

CanRecordTurn(s) == Active(s) /\ s.candidate_turns < MaxTurns

RecordTurn(s) ==
  [s EXCEPT !.candidate_turns = @ + 1, !.candidate_steps = 0]

CanRecordStep(s) == Active(s) /\ s.candidate_steps < MaxSteps

RecordStep(s) == [s EXCEPT !.candidate_steps = @ + 1]

CanAsk(s) == Active(s) /\ ~Pending(s)

Ask(s) ==
  [s EXCEPT !.public_message_ledger = Append(@, "assistant"),
            !.question_count = @ + 1]

CanApplyGraph(s, graph) == Active(s) /\ EvidenceKnown(s, graph)

ApplyGraph(s, graph) == [s EXCEPT !.agent_graph = graph]

(* proposals are the turns in which the terms this answer confirms were proposed *)
CanIngest(s, id, proposals) ==
  /\ Active(s)
  /\ Pending(s)
  /\ ProposalsPrecede(s.public_message_ledger, proposals, NextPublicTurn(s))
  /\ id \notin ObservationIds(s)

Ingest(s, id, proposals) ==
  LET turn == NextPublicTurn(s)
  IN  [s EXCEPT
        !.observations = Append(@, [id |-> id, turn |-> turn]),
        !.public_message_ledger = Append(@, "user"),
        !.semantic_ledger =
          Append(@, [id |-> id, turn |-> turn, proposals |-> proposals]),
        !.stakeholder_turns = @ + 1]

(* mutant: an open question does not stand in the way *)
CanCompleteOverQuestion(s, reason) == Active(s) /\ reason # Blank

CanComplete(s, reason) == Active(s) /\ reason # Blank /\ ~Pending(s)

Complete(s, reason) ==
  [s EXCEPT !.protocol_state = [status        |-> "completed",
                                reason        |-> reason,
                                terminal_turn |-> s.candidate_turns]]

CanFail(s, reason) == Active(s) /\ reason # Blank

(* mutant: giving up withdraws the open question *)
FailWithdrawingQuestion(s, reason) ==
  [s EXCEPT !.public_message_ledger =
              IF Pending(s) THEN SubSeq(@, 1, Len(@) - 1) ELSE @,
            !.question_count = s.stakeholder_turns,
            !.protocol_state = [status        |-> "incomplete",
                                reason        |-> reason,
                                terminal_turn |-> s.candidate_turns]]

Fail(s, reason) ==
  [s EXCEPT !.protocol_state = [status        |-> "incomplete",
                                reason        |-> reason,
                                terminal_turn |-> s.candidate_turns]]
=============================================================================
