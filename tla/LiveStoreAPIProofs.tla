------------------------- MODULE LiveStoreAPIProofs -------------------------
(***************************************************************************)
(* Proofs about LiveStoreAPI: whatever a caller does, for every limit on   *)
(* turns and steps, every set of initial histories and every choice of     *)
(* ids.  Validity of the store is what makes the invariants inductive: it  *)
(* is preserved because every call ends in the validator, and together     *)
(* with a guard it implies that the validator has nothing left to object   *)
(* to (LiveStoreProofs).                                                   *)
(***************************************************************************)
EXTENDS LiveStoreAPI, LiveStoreProofs, TLAPS

StoreInv ==
  /\ TypeOK
  /\ Valid(store)
  /\ EveryAnswerObserved
  /\ GuardsSuffice

-----------------------------------------------------------------------------
LEMMA InitInv == Init => StoreInv
<1> SUFFICES ASSUME Init PROVE StoreInv
  OBVIOUS
<1>1. PICK ledger \in InitialLedgers :
        /\ Valid(CreateStore(ledger))
        /\ store = CreateStore(ledger)
        /\ outcome = [op |-> "create", result |-> "ok"]
  BY DEF Init
<1>2. ledger \in Seq(Role)
  BY LedgersAreRoles
<1>3. store \in Store /\ AnswersObserved(store)
  BY <1>1, <1>2, CreateStoreFacts
<1>4. outcome \in [op : Operations, result : Results]
  BY <1>1 DEF Operations, Results
<1>5. QED
  BY <1>1, <1>3, <1>4 DEF StoreInv, TypeOK, EveryAnswerObserved, GuardsSuffice

(* The arguments of Next are of the right types. *)
LEMMA ArgumentTypes ==
  ASSUME TypeOK
  PROVE  /\ AnswerIds \subseteq Nat
         /\ TermSets \subseteq SUBSET Nat
         /\ \A item \in Items, cites \in Citable : [item |-> item, cites |-> cites] \in Fact
<1>1. store \in Store
  BY DEF TypeOK
<1>2. Len(store.public_message_ledger) \in Nat
  BY <1>1, StoreFields
<1>3. AnswerIds \subseteq Nat
  BY <1>2, CallerIdsAreIds DEF AnswerIds, NextPublicTurn
<1>4. TermSets \subseteq SUBSET Nat
  <2>1. 0..NextPublicTurn(store) \subseteq Nat
    BY <1>2 DEF NextPublicTurn
  <2>2. QED
    BY <2>1 DEF TermSets
<1>5. Citable \subseteq Nat \cup {None}
  BY <1>1, ObservationIdsType, CallerIdsAreIds DEF Citable
<1>6. QED
  BY <1>3, <1>4, <1>5 DEF Fact

(* What a call does to the store, whichever it was: nothing, or one operation *)
(* whose guard held and whose payload is valid.                               *)
StoreStep ==
  \/ store' = store
  \/ CanRecordTurn(store) /\ store' = RecordTurn(store)
  \/ CanRecordStep(store) /\ store' = RecordStep(store)
  \/ CanAsk(store) /\ store' = Ask(store)
  \/ \E graph \in SUBSET Fact : CanApplyGraph(store, graph) /\ store' = ApplyGraph(store, graph)
  \/ \E id \in Nat, proposals \in SUBSET Nat :
       CanIngest(store, id, proposals) /\ store' = Ingest(store, id, proposals)
  \/ \E reason \in Reasons : CanComplete(store, reason) /\ store' = Complete(store, reason)
  \/ \E reason \in Reasons : CanFail(store, reason) /\ store' = Fail(store, reason)

LEMMA CallIsStoreStep ==
  ASSUME StoreInv, [Next]_vars
  PROVE  /\ StoreStep
         /\ store' # store => Valid(store')
         /\ TypeOK'
         /\ GuardsSuffice'
<1>1. TypeOK /\ store \in Store /\ Valid(store)
  BY DEF StoreInv, TypeOK
<1>2. CASE UNCHANGED vars
  BY <1>2 DEF vars, StoreStep, StoreInv, TypeOK, GuardsSuffice
<1>3. CASE CallTurn
  BY <1>1, <1>3, RecordTurnValid
     DEF CallTurn, Call, StoreStep, TypeOK, GuardsSuffice, Operations, Results
<1>4. CASE CallStep
  BY <1>1, <1>4, RecordStepValid
     DEF CallStep, Call, StoreStep, TypeOK, GuardsSuffice, Operations, Results
<1>5. CASE CallAsk
  <2>1. Ask(store) \in Store
    BY <1>1, AskType
  <2>2. QED
    BY <1>1, <1>5, <2>1 DEF CallAsk, Call, StoreStep, TypeOK, GuardsSuffice, Operations, Results
<1>6. ASSUME NEW item \in Items, NEW cites \in Citable, CallGraph(item, cites)
      PROVE  StoreStep /\ (store' # store => Valid(store')) /\ TypeOK' /\ GuardsSuffice'
  <2>1. PICK graph \in { store.agent_graph \cup {[item |-> item, cites |-> cites]},
                         store.agent_graph \ {[item |-> item, cites |-> cites]} } :
          Call("graph", CanApplyGraph(store, graph), ApplyGraph(store, graph))
    BY <1>6 DEF CallGraph
  <2>2. graph \in SUBSET Fact
    BY <1>1, <2>1, ArgumentTypes, StoreFields
  <2>3. QED
    BY <1>1, <2>1, <2>2, ApplyGraphValid
       DEF Call, StoreStep, TypeOK, GuardsSuffice, Operations, Results
<1>7. ASSUME NEW id \in AnswerIds, NEW proposals \in TermSets, CallIngest(id, proposals)
      PROVE  StoreStep /\ (store' # store => Valid(store')) /\ TypeOK' /\ GuardsSuffice'
  <2>1. id \in Nat /\ proposals \in SUBSET Nat
    BY <1>1, ArgumentTypes
  <2>2. QED
    BY <1>1, <1>7, <2>1, IngestValid
       DEF CallIngest, Call, StoreStep, TypeOK, GuardsSuffice, Operations, Results
<1>8. ASSUME NEW reason \in Reasons, CallComplete(reason)
      PROVE  StoreStep /\ (store' # store => Valid(store')) /\ TypeOK' /\ GuardsSuffice'
  BY <1>1, <1>8, CompleteValid
     DEF CallComplete, Call, StoreStep, TypeOK, GuardsSuffice, Operations, Results
<1>9. ASSUME NEW reason \in Reasons, CallFail(reason)
      PROVE  StoreStep /\ (store' # store => Valid(store')) /\ TypeOK' /\ GuardsSuffice'
  BY <1>1, <1>9, FailValid
     DEF CallFail, CanFail, Call, StoreStep, TypeOK, GuardsSuffice, Operations, Results
<1>10. QED
  BY <1>2, <1>3, <1>4, <1>5, <1>6, <1>7, <1>8, <1>9 DEF Next

-----------------------------------------------------------------------------
LEMMA StepInv == StoreInv /\ [Next]_vars => StoreInv'
<1> SUFFICES ASSUME StoreInv, [Next]_vars PROVE StoreInv'
  OBVIOUS
<1>1. /\ StoreStep /\ TypeOK' /\ GuardsSuffice'
      /\ store' # store => Valid(store')
  BY CallIsStoreStep
<1>2. store \in Store /\ AnswersObserved(store) /\ Valid(store)
  BY DEF StoreInv, TypeOK, EveryAnswerObserved
<1>3. AnswersObserved(store')
  <2>1. CASE /\ store'.public_message_ledger = store.public_message_ledger
             /\ store'.observations = store.observations
    BY <1>2, <2>1 DEF AnswersObserved
  <2>2. CASE store' = Ask(store)
    BY <1>2, <2>2, AskObserved
  <2>3. CASE \E id \in Nat, proposals \in SUBSET Nat : store' = Ingest(store, id, proposals)
    BY <1>2, <2>3, IngestObserved
  <2>4. QED
    BY <1>1, <1>2, <2>1, <2>2, <2>3
       DEF StoreStep, RecordTurn, RecordStep, ApplyGraph, Complete, Fail, Store
<1>4. Valid(store')
  BY <1>1, <1>2
<1>5. QED
  BY <1>1, <1>3, <1>4 DEF StoreInv, EveryAnswerObserved

(* The store is always well-typed, valid and complete, for every caller. *)
THEOREM Invariance == Spec => []StoreInv
BY InitInv, StepInv, PTL DEF Spec

(* Store and report keep their types for every value of the constants. *)
THEOREM TypeCorrect == Spec => []TypeOK
<1>1. StoreInv => TypeOK
  BY DEF StoreInv
<1>2. QED
  BY <1>1, Invariance, PTL

(* For every caller, the guards of the operations are the whole contract: the *)
(* validator behind them refuses nothing but a question asked out of turn.    *)
THEOREM GuardsAreTheContract == Spec => []GuardsSuffice
<1>1. StoreInv => GuardsSuffice
  BY DEF StoreInv
<1>2. QED
  BY <1>1, Invariance, PTL

(* For every caller and history, the observations are the answers, all of them. *)
THEOREM AnswersNeverLost == Spec => []EveryAnswerObserved
<1>1. StoreInv => EveryAnswerObserved
  BY DEF StoreInv
<1>2. QED
  BY <1>1, Invariance, PTL

-----------------------------------------------------------------------------
(* A terminal store is final for every caller: each operation begins with *)
(* _require_active.                                                       *)
THEOREM TerminalStoreIsFinal == Spec => TerminalIsFinal
<1>1. StoreInv /\ [Next]_vars => [~Active(store) => store' = store]_vars
  <2> SUFFICES ASSUME StoreInv, [Next]_vars, ~Active(store) PROVE store' = store
    OBVIOUS
  <2>1. QED
    BY CallIsStoreStep
       DEF StoreStep, CanRecordTurn, CanRecordStep, CanAsk, CanApplyGraph, CanIngest,
           CanComplete, CanFail
<1>2. QED
  BY <1>1, Invariance, PTL DEF Spec, TerminalIsFinal

LEMMA AppendExtends ==
  ASSUME NEW S, NEW q \in Seq(S), NEW x
  PROVE  IsPrefixOf(q, Append(q, x)) /\ IsPrefixOf(q, q)
BY DEF IsPrefixOf

(* Ledger, observations and private entries only grow, for every caller. *)
THEOREM HistoryNeverRewritten == Spec => HistoryAppendOnly
<1>1. StoreInv /\ [Next]_vars =>
        [ /\ IsPrefixOf(store.public_message_ledger, store'.public_message_ledger)
          /\ IsPrefixOf(store.observations, store'.observations)
          /\ IsPrefixOf(store.semantic_ledger, store'.semantic_ledger) ]_vars
  <2> SUFFICES ASSUME StoreInv, [Next]_vars
               PROVE  /\ IsPrefixOf(store.public_message_ledger, store'.public_message_ledger)
                      /\ IsPrefixOf(store.observations, store'.observations)
                      /\ IsPrefixOf(store.semantic_ledger, store'.semantic_ledger)
    OBVIOUS
  <2>1. StoreStep /\ store \in Store
    BY CallIsStoreStep DEF StoreInv, TypeOK
  <2>2. /\ store.public_message_ledger \in Seq(Role)
        /\ store.observations \in Seq(Observation)
        /\ store.semantic_ledger \in Seq(Entry)
    BY <2>1, StoreFields
  <2>3. CASE /\ store'.public_message_ledger = store.public_message_ledger
             /\ store'.observations = store.observations
             /\ store'.semantic_ledger = store.semantic_ledger
    BY <2>2, <2>3, AppendExtends
  <2>4. CASE store' = Ask(store)
    <3>1. /\ store'.public_message_ledger = Append(store.public_message_ledger, "assistant")
          /\ store'.observations = store.observations
          /\ store'.semantic_ledger = store.semantic_ledger
      BY <2>1, <2>4 DEF Ask, Store
    <3>2. QED
      BY <2>2, <3>1, AppendExtends
  <2>5. CASE \E id \in Nat, proposals \in SUBSET Nat : store' = Ingest(store, id, proposals)
    <3>1. PICK id \in Nat, proposals \in SUBSET Nat : store' = Ingest(store, id, proposals)
      BY <2>5
    <3>2. \E x, y : /\ store'.public_message_ledger = Append(store.public_message_ledger, "user")
                    /\ store'.observations = Append(store.observations, x)
                    /\ store'.semantic_ledger = Append(store.semantic_ledger, y)
      BY <2>1, <3>1 DEF Ingest, Store
    <3>3. QED
      BY <2>2, <3>2, AppendExtends
  <2>6. QED
    BY <2>1, <2>3, <2>4, <2>5
       DEF StoreStep, RecordTurn, RecordStep, ApplyGraph, Complete, Fail, Store
<1>2. QED
  BY <1>1, Invariance, PTL DEF Spec, HistoryAppendOnly

-----------------------------------------------------------------------------
(* The store, in the hands of any caller, follows the turn protocol. *)
THEOREM RefinesTurnProtocol == Spec => ImplementsTurnProtocol
<1>1. Init => Protocol_!Init
  <2> SUFFICES ASSUME Init PROVE Protocol_!Init
    OBVIOUS
  <2>1. PICK ledger \in InitialLedgers :
          Valid(CreateStore(ledger)) /\ store = CreateStore(ledger)
    BY DEF Init
  <2>2. ledger \in Seq(Role)
    BY LedgersAreRoles
  <2>3. /\ store \in Store /\ Valid(store) /\ Active(store)
        /\ store.question_count = 0 /\ store.stakeholder_turns = 0
    BY <2>1, <2>2, CreateStoreFacts
  <2>4. ~Pending(store)
    BY <2>3, PendingCounts
  <2>5. QED
    BY <2>3, <2>4 DEF Protocol_!Init, Active
<1>2. StoreInv /\ [Next]_vars => [Protocol_!Next]_(Protocol_!vars)
  <2> SUFFICES ASSUME StoreInv, [Next]_vars
               PROVE  Protocol_!Next \/ UNCHANGED Protocol_!vars
    OBVIOUS
  <2>1. /\ StoreStep /\ store \in Store /\ Valid(store)
        /\ store' # store => Valid(store')
    BY CallIsStoreStep DEF StoreInv, TypeOK
  <2>2. CASE store' = store
    BY <2>2 DEF Protocol_!vars, Pending
  <2>3. CASE \/ store' = RecordTurn(store)
             \/ store' = RecordStep(store)
             \/ \E graph \in SUBSET Fact : store' = ApplyGraph(store, graph)
    <3>1. /\ store'.protocol_state = store.protocol_state
          /\ store'.public_message_ledger = store.public_message_ledger
          /\ store'.question_count = store.question_count
          /\ store'.stakeholder_turns = store.stakeholder_turns
      BY <2>1, <2>3 DEF RecordTurn, RecordStep, ApplyGraph, Store
    <3>2. QED
      BY <3>1 DEF Protocol_!vars, Pending
  <2>4. CASE CanAsk(store) /\ store' = Ask(store) /\ store' # store
    <3>1. /\ store'.protocol_state = store.protocol_state
          /\ store'.question_count = store.question_count + 1
          /\ store'.stakeholder_turns = store.stakeholder_turns
      BY <2>1, <2>4 DEF Ask, Store
    <3>2. store.question_count < MaxTurns /\ store.question_count < store.candidate_turns
      BY <2>1, <2>4, AskedInTurn
    <3>3. Pending(store')
      BY <2>1, <2>4, <3>2, AskValid
    <3>4. QED
      BY <2>4, <3>1, <3>2, <3>3 DEF CanAsk, Active, Protocol_!Next, Protocol_!Ask
  <2>5. CASE \E id \in Nat, proposals \in SUBSET Nat :
               CanIngest(store, id, proposals) /\ store' = Ingest(store, id, proposals)
    <3>1. PICK id \in Nat, proposals \in SUBSET Nat :
            CanIngest(store, id, proposals) /\ store' = Ingest(store, id, proposals)
      BY <2>5
    <3>2. /\ store'.protocol_state = store.protocol_state
          /\ store'.question_count = store.question_count
          /\ store'.stakeholder_turns = store.stakeholder_turns + 1
      BY <2>1, <3>1 DEF Ingest, Store
    <3>3. ~Pending(store')
      BY <2>1, <3>1, IngestValid
    <3>4. QED
      BY <3>1, <3>2, <3>3 DEF CanIngest, Active, Protocol_!Next, Protocol_!Answer
  <2>6. CASE \E reason \in Reasons :
               CanComplete(store, reason) /\ store' = Complete(store, reason)
    <3>1. /\ store'.protocol_state.status = "completed"
          /\ store'.public_message_ledger = store.public_message_ledger
          /\ store'.question_count = store.question_count
          /\ store'.stakeholder_turns = store.stakeholder_turns
          /\ Active(store) /\ ~Pending(store)
      BY <2>1, <2>6 DEF Complete, CanComplete, Store
    <3>2. QED
      BY <3>1 DEF Active, Pending, Protocol_!Next, Protocol_!Complete
  <2>7. CASE \E reason \in Reasons : CanFail(store, reason) /\ store' = Fail(store, reason)
    <3>1. /\ store'.protocol_state.status = "incomplete"
          /\ store'.public_message_ledger = store.public_message_ledger
          /\ store'.question_count = store.question_count
          /\ store'.stakeholder_turns = store.stakeholder_turns
          /\ Active(store)
      BY <2>1, <2>7 DEF Fail, CanFail, Store
    <3>2. QED
      BY <3>1 DEF Active, Pending, Protocol_!Next, Protocol_!Fail
  <2>8. QED
    BY <2>1, <2>2, <2>3, <2>4, <2>5, <2>6, <2>7 DEF StoreStep
<1>3. QED
  BY <1>1, <1>2, Invariance, PTL DEF Spec, ImplementsTurnProtocol, Protocol_!Spec
=============================================================================
