---------------------------- MODULE LiveStoreAPI ----------------------------
(***************************************************************************)
(* A LiveInterviewStore in the hands of any caller: the operations of      *)
(* business_interview/runtime.py in any order, with good and bad           *)
(* arguments.  A call answers "ok" (the new store replaces the old one),   *)
(* "refused" (a guard of the operation names what is wrong) or "rejected"  *)
(* (the guards let it through and only the validator in _copy stops it,    *)
(* with the generic "could not update live interview state").              *)
(***************************************************************************)
EXTENDS LiveStore

CONSTANTS
  InitialLedgers,   \* the public histories an interview may start from
  CallerIds,        \* observation ids a caller may choose; 2 stands for "obs_2"
  MaxTerms          \* how many confirmed terms one answer carries, at most

ASSUME LedgersAreRoles == InitialLedgers \subseteq Seq(Role)
ASSUME CallerIdsAreIds == CallerIds \subseteq Nat

VARIABLES
  store,     \* the LiveInterviewStore the caller holds
  outcome    \* the last call and how it ended

vars == <<store, outcome>>

Operations == {"create", "turn", "step", "ask", "graph", "ingest", "complete", "fail"}
Results    == {"ok", "refused", "rejected"}

(* create_live_interview_store raises when the validator refuses the history, *)
(* as it does for one that ends with an unanswered interviewer message.       *)
Init ==
  \E ledger \in InitialLedgers :
    /\ Valid(CreateStore(ledger))
    /\ store = CreateStore(ledger)
    /\ outcome = [op |-> "create", result |-> "ok"]

(* Every operation ends in _copy: the payload is validated as a whole. *)
Call(op, guard, payload) ==
  LET result == IF ~guard THEN "refused"
                ELSE IF Valid(payload) THEN "ok" ELSE "rejected"
  IN  /\ outcome' = [op |-> op, result |-> result]
      /\ store' = IF result = "ok" THEN payload ELSE store

CallTurn == Call("turn", CanRecordTurn(store), RecordTurn(store))

CallStep == Call("step", CanRecordStep(store), RecordStep(store))

CallAsk == Call("ask", CanAsk(store), Ask(store))

(* apply_agent_graph_mutation with an operation that adds or drops one fact *)
CallGraph(item, cites) ==
  \E graph \in { store.agent_graph \cup {[item |-> item, cites |-> cites]},
                 store.agent_graph \ {[item |-> item, cites |-> cites]} } :
    Call("graph", CanApplyGraph(store, graph), ApplyGraph(store, graph))

CallIngest(id, proposals) ==
  Call("ingest", CanIngest(store, id, proposals), Ingest(store, id, proposals))

CallComplete(reason) ==
  Call("complete", CanComplete(store, reason), Complete(store, reason))

CallFail(reason) == Call("fail", CanFail(store, reason), Fail(store, reason))

(* The arguments: no id (the default obs_N) or a caller's; terms proposed at   *)
(* any turn, the answer's own included; a citation of any known or unknown id. *)
AnswerIds == {NextPublicTurn(store)} \cup CallerIds
Citable   == {None} \cup ObservationIds(store) \cup CallerIds
TermSets  == {p \in SUBSET (0..NextPublicTurn(store)) : Cardinality(p) <= MaxTerms}

Next ==
  \/ CallTurn
  \/ CallStep
  \/ CallAsk
  \/ \E item \in Items, cites \in Citable : CallGraph(item, cites)
  \/ \E id \in AnswerIds, proposals \in TermSets : CallIngest(id, proposals)
  \/ \E reason \in Reasons : CallComplete(reason)
  \/ \E reason \in Reasons : CallFail(reason)

Spec == Init /\ [][Next]_vars

-----------------------------------------------------------------------------
(* Properties *)

(* The store and the last call's report have their types, whatever was called. *)
TypeOK ==
  /\ store \in Store
  /\ outcome \in [op : Operations, result : Results]

(* The guards of the operations are the complete contract but for one: the     *)
(* validator behind _copy stops nothing a guard let through, except a question *)
(* for which the caller did not first record a candidate turn.  (runtime.py    *)
(* 685-832 against 478-584.)                                                   *)
GuardsSuffice == outcome.result = "rejected" => outcome.op = "ask"

(* No answer is lost to scoring and none is invented: the observations are     *)
(* exactly the user messages of the public ledger.  The validator checks only  *)
(* one direction.                                                              *)
EveryAnswerObserved == AnswersObserved(store)

(* A mutation never rewrites history: ledger, observations and private sidecar *)
(* only grow, together, and the graph's evidence can therefore never dangle.   *)
IsPrefixOf(s, t) == Len(s) <= Len(t) /\ \A i \in DOMAIN s : s[i] = t[i]

HistoryAppendOnly ==
  [][ /\ IsPrefixOf(store.public_message_ledger, store'.public_message_ledger)
      /\ IsPrefixOf(store.observations, store'.observations)
      /\ IsPrefixOf(store.semantic_ledger, store'.semantic_ledger) ]_vars

(* "interview is terminal; no further runtime mutation is allowed": once       *)
(* completed or incomplete, no call changes anything (runtime.py 678-683).     *)
TerminalIsFinal == [][~Active(store) => store' = store]_vars

(* Every operation is a step of the turn protocol or none: the store is a      *)
(* faithful record of an alternating interview.                                *)
Protocol_ ==
  INSTANCE TurnProtocol WITH
    MaxQuestions <- MaxTurns,
    status   <- store.protocol_state.status,
    open     <- Pending(store),
    asked    <- store.question_count,
    answered <- store.stakeholder_turns

ImplementsTurnProtocol == Protocol_!Spec
=============================================================================
