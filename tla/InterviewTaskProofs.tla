-------------------------- MODULE InterviewTaskProofs --------------------------
(***************************************************************************)
(* Proofs about the solver, about the stakeholder call, and about the task *)
(* that composes them, for all limits on turns, steps and tool calls, all  *)
(* initial histories and every number of attempts per phase.               *)
(*                                                                         *)
(* The solver: the invariants of the runs are not inductive alone.         *)
(* SolverInv adds what ties the three copies of the store to the place     *)
(* where the coroutine stands: the copies never differ in what has been    *)
(* paid for, a turn that is under way has not asked yet, and the           *)
(* generations so far are covered by the turns and steps paid.             *)
(*                                                                         *)
(* The call: its accounting and the truth of its failure reason are not    *)
(* inductive alone.  CallInv adds what ties the loop variable attempt to   *)
(* the counters: a phase's failures so far are exactly its attempts so     *)
(* far, a phase not yet entered has none, and only a failed call has a     *)
(* reason or a provider failure.                                           *)
(*                                                                         *)
(* The task: every step is a step of the solver or leaves it alone, so     *)
(* that what is proved of MultiTurnSolver holds of the task.  TaskInv adds *)
(* to both invariants what ties them together: a call is under way only    *)
(* while the solver awaits it, the generations of all calls before it are  *)
(* paid for by the questions asked before, and the metadata is behind what *)
(* was spent by at least the generations of the call under way.            *)
(***************************************************************************)
EXTENDS InterviewTask, LiveStoreProofs, TLAPS

(* (candidate_turns - 1) full turns and the steps of the current one *)
Covered(s) ==
  IF s.candidate_turns = 0 THEN generated = 0
  ELSE generated <= (s.candidate_turns - 1) * MaxSteps + s.candidate_steps

Unasked(s) == s.question_count < s.candidate_turns

SolverInv ==
  /\ TypeOK
  /\ RuntimeValid
  /\ AwaitsPersisted
  /\ SameCounts(local, rt) /\ SameCounts(disk, rt)
  /\ Covered(rt)
  /\ FailedQuestionStaysOpen
  /\ pc \in {"inner", "generate", "tools", "ask"} => Unasked(rt)
  /\ pc \in {"generate", "ask", "stakeholder", "answered"} => Active(rt)
  /\ pc \in {"stakeholder", "answered"} => local = rt
  /\ pc = "stakeholder" => Pending(rt)
  /\ pc = "tools" => Active(local)
  /\ pc = "ask" => disk = rt

-----------------------------------------------------------------------------
LEMMA ReasonFacts ==
  /\ EndReasons \subseteq Reasons
  /\ Blank \notin EndReasons
  /\ FailureReasons \subseteq EndReasons
BY EndReasonsGiven DEF EndReasons

LEMMA OwnReasons ==
  ASSUME NEW r \in EndReasons \ FailureReasons
  PROVE  r \in Reasons /\ r # Blank /\ r \notin FailureReasons
BY ReasonFacts

LEMMA OwnReasonsAre ==
  {"agent_declared", "max_turns_exhausted", "candidate_step_limit_exhausted",
   "candidate_generation_failure", "candidate_output_exhausted",
   "candidate_did_not_ask_question"} \subseteq EndReasons \ FailureReasons
BY DEF EndReasons, FailureReasons, FailureReason, Phases, FailureKinds, RetriedKinds

(* An active store has the empty reason, which no failure leaves. *)
LEMMA ActiveReason ==
  ASSUME NEW s \in Store, Valid(s), Active(s)
  PROVE  s.protocol_state.reason \notin FailureReasons
BY ReasonFacts DEF Valid, ProtocolConsistent

LEMMA SamePending ==
  ASSUME NEW s, NEW t, SameCounts(s, t)
  PROVE  Pending(s) <=> Pending(t)
BY DEF SameCounts, Pending

-----------------------------------------------------------------------------
LEMMA InitInv == Init => SolverInv
<1> SUFFICES ASSUME Init PROVE SolverInv
  OBVIOUS
<1>1. PICK ledger \in InitialLedgers : rt = CreateStore(ledger)
  BY DEF Init
<1>2. ledger \in Seq(Role) /\ Valid(CreateStore(ledger))
  BY SolverLedgers
<1>3. /\ rt \in Store /\ Valid(rt) /\ Active(rt)
      /\ rt.candidate_turns = 0 /\ rt.question_count = 0
  BY <1>1, <1>2, CreateStoreFacts
<1>4. local = rt /\ disk = rt /\ pc = "loop" /\ calls = 0 /\ stop = "none" /\ generated = 0
  BY DEF Init
<1>5. TypeOK
  BY <1>3, <1>4, BatchIsNat DEF TypeOK, PCs, Awaits, StopReasons
<1>6. FailedQuestionStaysOpen
  BY <1>3, ActiveReason DEF FailedQuestionStaysOpen
<1>7. QED
  BY <1>3, <1>4, <1>5, <1>6
     DEF SolverInv, RuntimeValid, AwaitsPersisted, Awaits, SameCounts, Covered

-----------------------------------------------------------------------------
(* Giving up: from any copy of the store that agrees on the counts. *)
LEMMA GiveUpInv ==
  ASSUME SolverInv, NEW s \in Store, Valid(s), SameCounts(s, rt),
         NEW why \in EndReasons, why \in FailureReasons => Pending(s),
         GiveUp(s, why)
  PROVE  SolverInv'
<1> DEFINE t == Fail(s, why)
<1>1. t \in Store /\ Valid(t)
  BY ReasonFacts, FailValid
<1>2. SameCounts(t, s) /\ t.protocol_state.reason = why
  BY FailEffect
<1>3. SameCounts(t, rt)
  BY <1>2 DEF SameCounts
<1> HIDE DEF t
<1>4. /\ rt' = t /\ local' = t /\ disk' = t /\ pc' = "finish" /\ calls' = 0
      /\ stop' = "none" /\ generated' = generated
  BY DEF GiveUp, Save, t
<1>5. TypeOK'
  BY <1>1, <1>4, BatchIsNat DEF SolverInv, TypeOK, PCs, StopReasons
<1>6. Covered(rt)'
  BY <1>3, <1>4 DEF SolverInv, Covered, SameCounts
<1>7. FailedQuestionStaysOpen'
  BY <1>2, <1>4, SamePending DEF FailedQuestionStaysOpen
<1>8. QED
  BY <1>1, <1>4, <1>5, <1>6, <1>7
     DEF SolverInv, RuntimeValid, AwaitsPersisted, Awaits, SameCounts

-----------------------------------------------------------------------------
(* The loops. *)
LEMMA StartTurnInv == ASSUME SolverInv, StartTurn PROVE SolverInv'
<1> DEFINE t == RecordTurn(rt)
<1>1. rt \in Store /\ Valid(rt) /\ generated \in Nat /\ calls \in 0..MaxBatch /\ stop \in StopReasons
  BY DEF SolverInv, TypeOK, RuntimeValid
<1>2. CanRecordTurn(rt)
  BY DEF StartTurn
<1>3. t \in Store /\ Valid(t)
  BY <1>1, <1>2, RecordTurnValid
<1>4. /\ t.candidate_turns = rt.candidate_turns + 1 /\ t.candidate_steps = 0
      /\ t.question_count = rt.question_count
      /\ t.protocol_state = rt.protocol_state
  BY <1>1, RecordTurnEffect
<1> HIDE DEF t
<1>5. /\ rt' = t /\ local' = t /\ disk' = t /\ pc' = "inner"
      /\ UNCHANGED <<calls, stop, generated>>
  BY DEF StartTurn, Save, Goto, t
<1>6. TypeOK'
  BY <1>1, <1>3, <1>5 DEF TypeOK, PCs
<1>7. Covered(rt)'
  <2>1. /\ rt.candidate_turns \in Nat /\ rt.candidate_steps \in Nat
        /\ rt.candidate_steps <= MaxSteps /\ MaxSteps \in Nat
    BY <1>1, StoreFields, LimitsPositive DEF Valid, CountersBounded
  <2>2. CASE rt.candidate_turns = 0
    BY <2>1, <2>2, <1>4, <1>5 DEF SolverInv, Covered
  <2>3. CASE rt.candidate_turns # 0
    <3>1. generated <= (rt.candidate_turns - 1) * MaxSteps + rt.candidate_steps
      BY <2>3 DEF SolverInv, Covered
    <3>2. (rt.candidate_turns - 1) * MaxSteps + MaxSteps = rt.candidate_turns * MaxSteps
      BY <2>1
    <3>3. (rt.candidate_turns - 1) * MaxSteps \in Int /\ rt.candidate_turns * MaxSteps \in Int
      BY <2>1
    <3>4. generated <= rt.candidate_turns * MaxSteps
      BY <1>1, <2>1, <3>1, <3>2, <3>3
    <3>5. /\ t.candidate_turns - 1 = rt.candidate_turns /\ t.candidate_turns # 0
      BY <1>4, <2>1
    <3>6. (t.candidate_turns - 1) * MaxSteps + t.candidate_steps = rt.candidate_turns * MaxSteps
      BY <1>4, <3>3, <3>5
    <3>7. QED
      BY <1>5, <3>4, <3>5, <3>6 DEF Covered
  <2>4. QED
    BY <2>2, <2>3
<1>8. Unasked(rt')
  BY <1>1, <1>4, <1>5, StoreFields DEF Unasked, Valid, CountersBounded
<1>9. FailedQuestionStaysOpen'
  <2>1. rt.protocol_state.reason \notin FailureReasons
    BY <1>1, <1>2, ActiveReason DEF CanRecordTurn
  <2>2. QED
    BY <1>4, <1>5, <2>1 DEF FailedQuestionStaysOpen
<1>10. QED
  BY <1>3, <1>5, <1>6, <1>7, <1>8, <1>9
     DEF SolverInv, RuntimeValid, AwaitsPersisted, Awaits, SameCounts

LEMMA StartGenerationInv == ASSUME SolverInv, StartGeneration PROVE SolverInv'
<1> DEFINE t == RecordStep(rt)
<1>1. /\ rt \in Store /\ Valid(rt) /\ generated \in Nat /\ calls \in 0..MaxBatch
      /\ stop \in StopReasons /\ Unasked(rt)
  BY DEF SolverInv, TypeOK, RuntimeValid, StartGeneration
<1>2. CanRecordStep(rt) /\ Active(rt)
  BY DEF StartGeneration, CanRecordStep
<1>3. t \in Store /\ Valid(t)
  BY <1>1, <1>2, RecordStepValid
<1>4. /\ t.candidate_turns = rt.candidate_turns
      /\ t.candidate_steps = rt.candidate_steps + 1
      /\ t.question_count = rt.question_count
      /\ t.protocol_state = rt.protocol_state
  BY <1>1, RecordStepEffect
<1> HIDE DEF t
<1>5. /\ rt' = t /\ local' = t /\ disk' = t /\ pc' = "generate"
      /\ generated' = generated + 1 /\ UNCHANGED <<calls, stop>>
  BY DEF StartGeneration, Save, t
<1>6. TypeOK'
  BY <1>1, <1>3, <1>5 DEF TypeOK, PCs, Awaits
<1>7. Covered(rt)'
  <2>1. /\ rt.candidate_turns \in Nat /\ rt.candidate_steps \in Nat
        /\ rt.question_count \in Nat /\ MaxSteps \in Nat
    BY <1>1, StoreFields, LimitsPositive
  <2>2. rt.candidate_turns # 0
    BY <1>1, <2>1 DEF Unasked
  <2>3. (rt.candidate_turns - 1) * MaxSteps \in Int
    BY <2>1
  <2>4. generated <= (rt.candidate_turns - 1) * MaxSteps + rt.candidate_steps
    BY <2>2 DEF SolverInv, Covered
  <2>5. generated + 1 <= (rt.candidate_turns - 1) * MaxSteps + (rt.candidate_steps + 1)
    BY <1>1, <2>1, <2>3, <2>4
  <2>6. QED
    BY <1>4, <1>5, <2>2, <2>5 DEF Covered
<1>8. Unasked(rt') /\ Active(rt')
  BY <1>1, <1>2, <1>4, <1>5 DEF Unasked, Active
<1>9. FailedQuestionStaysOpen'
  <2>1. rt.protocol_state.reason \notin FailureReasons
    BY <1>1, <1>2, ActiveReason
  <2>2. QED
    BY <1>4, <1>5, <2>1 DEF FailedQuestionStaysOpen
<1>10. QED
  BY <1>3, <1>5, <1>6, <1>7, <1>8, <1>9
     DEF SolverInv, RuntimeValid, AwaitsPersisted, Awaits, SameCounts

-----------------------------------------------------------------------------
(* Moves of the coroutine that leave all copies of the store alone. *)
LEMMA GotoInv ==
  ASSUME SolverInv, UNCHANGED stores, NEW label \in PCs, Goto(label),
         label \in Awaits \cup {"ask", "down", "done"} => disk = rt,
         label \in {"inner", "generate", "tools", "ask"} => Unasked(rt),
         label \in {"generate", "ask", "stakeholder", "answered"} => Active(rt),
         label \in {"stakeholder", "answered"} => local = rt,
         label = "stakeholder" => Pending(rt),
         label = "tools" => Active(local)
  PROVE  SolverInv'
<1>1. /\ rt' = rt /\ local' = local /\ disk' = disk /\ pc' = label
      /\ calls' = calls /\ stop' = stop /\ generated' = generated
  BY DEF stores, Goto
<1>2. TypeOK'
  BY <1>1 DEF SolverInv, TypeOK
<1>3. Covered(rt)' /\ FailedQuestionStaysOpen'
  BY <1>1 DEF SolverInv, Covered, FailedQuestionStaysOpen
<1>4. QED
  BY <1>1, <1>2, <1>3 DEF SolverInv, RuntimeValid, AwaitsPersisted

LEMMA LoopInv ==
  ASSUME SolverInv, TurnsExhausted \/ StepsExhausted \/ LeaveLoop
  PROVE  SolverInv'
<1>1. rt \in Store /\ Valid(rt) /\ SameCounts(rt, rt)
  BY DEF SolverInv, TypeOK, RuntimeValid, SameCounts
<1>2. CASE TurnsExhausted
  BY <1>1, <1>2, OwnReasonsAre, GiveUpInv DEF TurnsExhausted
<1>3. CASE StepsExhausted
  BY <1>1, <1>3, OwnReasonsAre, GiveUpInv DEF StepsExhausted
<1>4. CASE LeaveLoop
  BY <1>4, GotoInv DEF LeaveLoop, PCs, Awaits
<1>5. QED
  BY <1>2, <1>3, <1>4

-----------------------------------------------------------------------------
(* The candidate's generation. *)
LEMMA UnusableReasons ==
  \A k \in DOMAIN UnusableReason : UnusableReason[k] \in EndReasons \ FailureReasons
<1>1. \A k \in DOMAIN UnusableReason :
        UnusableReason[k] \in {"candidate_generation_failure", "candidate_output_exhausted",
                               "candidate_did_not_ask_question"}
  BY DEF UnusableReason
<1>2. QED
  BY <1>1, OwnReasonsAre

LEMMA GenerateInv ==
  ASSUME SolverInv,
         \/ GenerateRaises \/ GenerateUnusable \/ GenerateToolCalls
         \/ GenerateQuestion \/ GenerateBlankQuestion
  PROVE  SolverInv'
<1>1. /\ rt \in Store /\ Valid(rt) /\ SameCounts(rt, rt) /\ SameCounts(disk, rt)
      /\ generated \in Nat
  BY DEF SolverInv, TypeOK, RuntimeValid, SameCounts
<1>2. CASE GenerateRaises
  BY <1>1, <1>2, OwnReasonsAre, GiveUpInv DEF GenerateRaises
<1>3. CASE GenerateUnusable
  <2>1. PICK o \in CandidateOutputs :
          Classify(o) \in DOMAIN UnusableReason /\ GiveUp(rt, UnusableReason[Classify(o)])
    BY <1>3 DEF GenerateUnusable
  <2>2. QED
    BY <1>1, <2>1, UnusableReasons, GiveUpInv
<1>4. CASE GenerateBlankQuestion
  BY <1>1, <1>4, OwnReasonsAre, GiveUpInv DEF GenerateBlankQuestion
<1>5. CASE GenerateToolCalls
  <2>1. PICK o \in CandidateOutputs : calls' = o.tool_calls /\ stop' = o.stop
    BY <1>5 DEF GenerateToolCalls
  <2>2. calls' \in 0..MaxBatch /\ stop' \in StopReasons
    BY <2>1 DEF CandidateOutputs
  <2>3. /\ pc = "generate" /\ pc' = "tools" /\ local' = rt /\ rt' = rt /\ disk' = disk
        /\ generated' = generated
    BY <1>5 DEF GenerateToolCalls
  <2>4. disk = rt /\ Unasked(rt) /\ Active(rt)
    BY <2>3 DEF SolverInv, AwaitsPersisted, Awaits
  <2>5. TypeOK'
    BY <1>1, <2>2, <2>3 DEF SolverInv, TypeOK, PCs, Awaits
  <2>6. Covered(rt)' /\ FailedQuestionStaysOpen'
    BY <2>3 DEF SolverInv, Covered, FailedQuestionStaysOpen
  <2>7. QED
    BY <1>1, <2>3, <2>4, <2>5, <2>6 DEF SolverInv, RuntimeValid, AwaitsPersisted
<1>6. CASE GenerateQuestion
  <2>1. /\ pc = "generate" /\ pc' = "ask" /\ local' = rt /\ rt' = rt /\ disk' = disk
        /\ generated' = generated /\ calls' = calls /\ stop' = stop
    BY <1>6 DEF GenerateQuestion, Goto
  <2>2. Unasked(rt) /\ Active(rt) /\ disk = rt
    BY <2>1 DEF SolverInv, AwaitsPersisted, Awaits
  <2>3. TypeOK'
    BY <1>1, <2>1 DEF SolverInv, TypeOK, PCs
  <2>4. Covered(rt)' /\ FailedQuestionStaysOpen'
    BY <2>1 DEF SolverInv, Covered, FailedQuestionStaysOpen
  <2>5. QED
    BY <1>1, <2>1, <2>2, <2>3, <2>4
       DEF SolverInv, RuntimeValid, AwaitsPersisted, Awaits
<1>7. QED
  BY <1>2, <1>3, <1>4, <1>5, <1>6

-----------------------------------------------------------------------------
(* The tools.  A call that takes effect keeps the counts; what it does to the *)
(* status is not seen by local.                                               *)
LEMMA ToolSavesInv ==
  ASSUME SolverInv, NextCall, NEW t \in Store, Valid(t), SameCounts(t, rt),
         t.protocol_state.reason \notin FailureReasons, ToolSaves(t)
  PROVE  SolverInv'
<1>1. /\ pc = "tools" /\ pc' = "tools" /\ calls' = calls - 1 /\ calls > 0
      /\ stop' = stop /\ generated' = generated
      /\ rt' = t /\ disk' = t /\ local' = local
  BY DEF NextCall, ToolSaves
<1>2. TypeOK'
  BY <1>1, BatchIsNat DEF SolverInv, TypeOK
<1>3. Covered(rt)'
  BY <1>1 DEF SolverInv, Covered, SameCounts
<1>4. Unasked(rt')
  BY <1>1 DEF SolverInv, Unasked, SameCounts
<1>5. SameCounts(local, rt)'
  BY <1>1 DEF SolverInv, SameCounts
<1>6. QED
  BY <1>1, <1>2, <1>3, <1>4, <1>5
     DEF SolverInv, RuntimeValid, AwaitsPersisted, FailedQuestionStaysOpen, SameCounts

LEMMA ToolsInv ==
  ASSUME SolverInv,
         ToolWithoutEffect \/ ToolMutates \/ ToolCompletes \/ ToolsRaise \/ ToolsReturn
  PROVE  SolverInv'
<1>1. /\ rt \in Store /\ Valid(rt) /\ local \in Store /\ Valid(local)
      /\ SameCounts(local, rt) /\ SameCounts(disk, rt)
  BY DEF SolverInv, TypeOK, RuntimeValid
<1>2. CASE ToolWithoutEffect
  <2>1. /\ pc = "tools" /\ pc' = "tools" /\ calls' = calls - 1 /\ calls > 0
        /\ stop' = stop /\ generated' = generated
        /\ rt' = rt /\ disk' = disk /\ local' = local
    BY <1>2 DEF ToolWithoutEffect, NextCall, stores
  <2>2. TypeOK'
    BY <2>1, BatchIsNat DEF SolverInv, TypeOK
  <2>3. Covered(rt)' /\ FailedQuestionStaysOpen'
    BY <2>1 DEF SolverInv, Covered, FailedQuestionStaysOpen
  <2>4. QED
    BY <2>1, <2>2, <2>3 DEF SolverInv, RuntimeValid, AwaitsPersisted
<1>3. CASE ToolMutates
  <2>1. PICK item \in Items, cites \in ObservationIds(rt) \cup {None} :
          \E graph \in { rt.agent_graph \cup {[item |-> item, cites |-> cites]},
                         rt.agent_graph \ {[item |-> item, cites |-> cites]} } :
            CanApplyGraph(rt, graph) /\ ToolSaves(ApplyGraph(rt, graph))
    BY <1>3 DEF ToolMutates
  <2>2. PICK graph \in { rt.agent_graph \cup {[item |-> item, cites |-> cites]},
                         rt.agent_graph \ {[item |-> item, cites |-> cites]} } :
            CanApplyGraph(rt, graph) /\ ToolSaves(ApplyGraph(rt, graph))
    BY <2>1
  <2>3. [item |-> item, cites |-> cites] \in Fact
    BY <1>1, ObservationIdsType DEF Fact
  <2>4. graph \in SUBSET Fact
    BY <1>1, <2>3, StoreFields
  <2>5. ApplyGraph(rt, graph) \in Store /\ Valid(ApplyGraph(rt, graph))
    BY <1>1, <2>2, <2>4, ApplyGraphValid
  <2>6. ApplyGraph(rt, graph).protocol_state.reason \notin FailureReasons
    BY <1>1, <2>2, ApplyGraphEffect, ActiveReason DEF CanApplyGraph
  <2>7. SameCounts(ApplyGraph(rt, graph), rt)
    BY <1>1, ApplyGraphEffect
  <2>8. QED
    BY <1>3, <2>2, <2>5, <2>6, <2>7, ToolSavesInv DEF ToolMutates
<1>4. CASE ToolCompletes
  <2>1. "agent_declared" \in Reasons /\ "agent_declared" \notin FailureReasons
    BY OwnReasonsAre, OwnReasons
  <2>2. CanComplete(rt, "agent_declared") /\ ToolSaves(Complete(rt, "agent_declared")) /\ NextCall
    BY <1>4 DEF ToolCompletes
  <2>3. /\ Complete(rt, "agent_declared") \in Store
        /\ Valid(Complete(rt, "agent_declared"))
    BY <1>1, <2>1, <2>2, CompleteValid
  <2>4. /\ SameCounts(Complete(rt, "agent_declared"), rt)
        /\ Complete(rt, "agent_declared").protocol_state.reason \notin FailureReasons
    BY <1>1, <2>1, CompleteEffect
  <2>5. QED
    BY <2>2, <2>3, <2>4, ToolSavesInv
<1>5. CASE ToolsRaise
  BY <1>1, <1>5, OwnReasonsAre, GiveUpInv DEF ToolsRaise
<1>6. CASE ToolsReturn
  <2>1. /\ pc = "tools" /\ disk' = local /\ stop' = "none" /\ rt' = rt /\ local' = local
        /\ calls' = calls /\ generated' = generated
    BY <1>6 DEF ToolsReturn
  <2>2. Active(local) /\ Unasked(rt)
    BY <2>1 DEF SolverInv
  <2>3. pc' = "inner"
    BY <1>6, <2>2 DEF ToolsReturn
  <2>4. TypeOK'
    BY <1>1, <2>1, <2>3 DEF SolverInv, TypeOK, PCs, StopReasons
  <2>5. Covered(rt)' /\ FailedQuestionStaysOpen'
    BY <2>1 DEF SolverInv, Covered, FailedQuestionStaysOpen
  <2>6. QED
    BY <1>1, <2>1, <2>2, <2>3, <2>4, <2>5
       DEF SolverInv, RuntimeValid, AwaitsPersisted, Awaits
<1>7. QED
  BY <1>2, <1>3, <1>4, <1>5, <1>6

-----------------------------------------------------------------------------
(* The question and the answer. *)
LEMMA AskQuestionInv == ASSUME SolverInv, AskQuestion PROVE SolverInv'
<1> DEFINE t == Ask(rt)
<1>1. /\ rt \in Store /\ Valid(rt) /\ generated \in Nat /\ calls \in 0..MaxBatch
      /\ stop \in StopReasons /\ CanAsk(rt) /\ Active(rt) /\ Unasked(rt)
  BY DEF SolverInv, TypeOK, RuntimeValid, AskQuestion
<1>2. t \in Store /\ Valid(t) /\ Pending(t)
  BY <1>1, AskValid DEF Unasked
<1>3. /\ t.candidate_turns = rt.candidate_turns
      /\ t.candidate_steps = rt.candidate_steps
      /\ t.protocol_state = rt.protocol_state
  BY <1>1, AskEffect
<1> HIDE DEF t
<1>4. /\ rt' = t /\ local' = t /\ disk' = t /\ pc' = "stakeholder"
      /\ UNCHANGED <<calls, stop, generated>>
  BY DEF AskQuestion, Save, Goto, t
<1>5. TypeOK'
  BY <1>1, <1>2, <1>4 DEF TypeOK, PCs, Awaits
<1>6. Covered(rt)' /\ Active(rt')
  BY <1>1, <1>3, <1>4 DEF SolverInv, Covered, Active
<1>7. FailedQuestionStaysOpen'
  BY <1>2, <1>4 DEF FailedQuestionStaysOpen
<1>8. QED
  BY <1>2, <1>4, <1>5, <1>6, <1>7
     DEF SolverInv, RuntimeValid, AwaitsPersisted, SameCounts

LEMMA AnswersInv == ASSUME SolverInv, StakeholderAnswers PROVE SolverInv'
<1>1. /\ rt \in Store /\ Valid(rt) /\ generated \in Nat /\ calls \in 0..MaxBatch
      /\ stop \in StopReasons /\ local = rt /\ Active(rt)
  BY DEF SolverInv, TypeOK, RuntimeValid, StakeholderAnswers
<1>2. PICK proposals \in SUBSET TurnsOf(local.public_message_ledger, "assistant") :
        /\ CanIngest(local, NextPublicTurn(local), proposals)
        /\ Save(Ingest(local, NextPublicTurn(local), proposals))
  BY DEF StakeholderAnswers
<1>3. NextPublicTurn(rt) \in Nat /\ proposals \in SUBSET Nat
  <2>1. rt.public_message_ledger \in Seq(Role)
    BY <1>1, StoreFields
  <2>2. TurnsOf(rt.public_message_ledger, "assistant") \subseteq Nat
    BY <2>1, TurnsOfBounds
  <2>3. QED
    BY <1>1, <2>1, <2>2 DEF NextPublicTurn
<1> DEFINE t == Ingest(rt, NextPublicTurn(rt), proposals)
<1>4. t \in Store /\ Valid(t)
  BY <1>1, <1>2, <1>3, IngestValid
<1>5. /\ t.candidate_turns = rt.candidate_turns
      /\ t.candidate_steps = rt.candidate_steps
      /\ t.protocol_state = rt.protocol_state
  BY <1>1, IngestEffect
<1>6. rt' = t /\ local' = t /\ disk' = t
  BY <1>1, <1>2 DEF Save
<1>7. pc' = "answered" /\ UNCHANGED <<calls, stop, generated>>
  BY DEF StakeholderAnswers, Goto
<1> HIDE DEF t
<1>8. TypeOK'
  BY <1>1, <1>4, <1>6, <1>7 DEF TypeOK, PCs, Awaits
<1>9. Covered(rt)' /\ Active(rt')
  BY <1>1, <1>5, <1>6, <1>7 DEF SolverInv, Covered, Active
<1>10. FailedQuestionStaysOpen'
  BY <1>1, <1>5, <1>6, ActiveReason DEF FailedQuestionStaysOpen
<1>11. QED
  BY <1>4, <1>6, <1>7, <1>8, <1>9, <1>10
     DEF SolverInv, RuntimeValid, AwaitsPersisted, Awaits, SameCounts

LEMMA QuestionInv ==
  ASSUME SolverInv,
         \/ AskRaises \/ Stakeholder \/ LastTurnAnswered \/ NextTurn
  PROVE  SolverInv'
<1>1. /\ local \in Store /\ Valid(local) /\ SameCounts(local, rt)
      /\ "down" \in PCs /\ "loop" \in PCs
  BY DEF SolverInv, TypeOK, RuntimeValid, PCs
<1>2. CASE AskRaises
  <2>1. disk = rt
    BY <1>2 DEF AskRaises, SolverInv
  <2>2. QED
    BY <1>1, <1>2, <2>1, GotoInv DEF AskRaises, Awaits
<1>3. CASE StakeholderAnswers
  BY <1>3, AnswersInv
<1>4. ASSUME NEW why \in FailureReasons, StakeholderFails(why) PROVE SolverInv'
  <2>1. pc = "stakeholder" /\ GiveUp(local, why)
    BY <1>4 DEF StakeholderFails
  <2>2. Pending(local)
    BY <2>1 DEF SolverInv
  <2>3. QED
    BY <1>1, <2>1, <2>2, ReasonFacts, GiveUpInv
<1>5. CASE StakeholderRaises
  <2>1. disk = rt
    BY <1>5 DEF StakeholderRaises, SolverInv, AwaitsPersisted, Awaits
  <2>2. QED
    BY <1>1, <1>5, <2>1, GotoInv DEF StakeholderRaises
<1>6. CASE LastTurnAnswered
  BY <1>1, <1>6, OwnReasonsAre, GiveUpInv DEF LastTurnAnswered
<1>7. CASE NextTurn
  BY <1>1, <1>7, GotoInv DEF NextTurn, Awaits
<1>8. QED
  BY <1>2, <1>3, <1>4, <1>5, <1>6, <1>7 DEF Stakeholder

-----------------------------------------------------------------------------
(* The end, a cancellation and a resumption. *)
LEMMA EndInv ==
  ASSUME SolverInv, Finish \/ Cancel \/ Resume \/ Rest
  PROVE  SolverInv'
<1>1. /\ rt \in Store /\ Valid(rt) /\ generated \in Nat /\ calls \in 0..MaxBatch
      /\ stop \in StopReasons /\ BatchIsNat
  BY BatchIsNat DEF SolverInv, TypeOK, RuntimeValid
<1>2. CASE Finish
  <2>1. /\ rt' = rt /\ local' = rt /\ disk' = rt /\ pc' = "done"
        /\ UNCHANGED <<calls, stop, generated>>
    BY <1>2 DEF Finish, Goto
  <2>2. TypeOK'
    BY <1>1, <2>1 DEF TypeOK, PCs
  <2>3. Covered(rt)' /\ FailedQuestionStaysOpen'
    BY <2>1 DEF SolverInv, Covered, FailedQuestionStaysOpen
  <2>4. QED
    BY <1>1, <2>1, <2>2, <2>3 DEF SolverInv, RuntimeValid, AwaitsPersisted, SameCounts
<1>3. CASE Cancel
  <2>1. /\ rt' = rt /\ local' = local /\ disk' = disk /\ pc' = "down"
        /\ calls' = 0 /\ stop' = "none" /\ generated' = generated /\ pc \in Awaits
    BY <1>3 DEF Cancel, stores
  <2>2. TypeOK'
    BY <2>1, BatchIsNat DEF SolverInv, TypeOK, PCs, StopReasons
  <2>3. Covered(rt)' /\ FailedQuestionStaysOpen'
    BY <2>1 DEF SolverInv, Covered, FailedQuestionStaysOpen
  <2>4. QED
    BY <2>1, <2>2, <2>3 DEF SolverInv, RuntimeValid, AwaitsPersisted
<1>4. CASE Resume
  <2>1. disk = rt
    BY <1>4 DEF Resume, SolverInv, AwaitsPersisted
  <2>2. /\ rt' = rt /\ local' = rt /\ disk' = rt /\ pc' = "loop"
        /\ UNCHANGED <<calls, stop, generated>>
    BY <1>4, <2>1 DEF Resume, Save, Goto
  <2>3. TypeOK'
    BY <1>1, <2>2 DEF TypeOK, PCs
  <2>4. Covered(rt)' /\ FailedQuestionStaysOpen'
    BY <2>2 DEF SolverInv, Covered, FailedQuestionStaysOpen
  <2>5. QED
    BY <1>1, <2>2, <2>3, <2>4
       DEF SolverInv, RuntimeValid, AwaitsPersisted, Awaits, SameCounts
<1>5. CASE UNCHANGED vars
  BY <1>5 DEF vars, stores, SolverInv, TypeOK, RuntimeValid, AwaitsPersisted, Covered,
              FailedQuestionStaysOpen
<1>6. QED
  BY <1>2, <1>3, <1>4, <1>5 DEF Rest

LEMMA StepInv == SolverInv /\ [Next]_vars => SolverInv'
<1> SUFFICES ASSUME SolverInv, [Next]_vars PROVE SolverInv'
  OBVIOUS
<1>1. CASE Candidate
  BY <1>1, StartTurnInv, StartGenerationInv, LoopInv, GenerateInv, ToolsInv,
     AskQuestionInv, QuestionInv DEF Candidate
<1>2. CASE Stakeholder \/ LastTurnAnswered \/ NextTurn
  BY <1>2, QuestionInv
<1>3. CASE Finish \/ Cancel \/ Resume \/ Rest
  BY <1>3, EndInv
<1>4. CASE UNCHANGED vars
  BY <1>4 DEF vars, stores, SolverInv, TypeOK, RuntimeValid, AwaitsPersisted, Covered,
              FailedQuestionStaysOpen
<1>5. QED
  BY <1>1, <1>2, <1>3, <1>4 DEF Next, Solve

-----------------------------------------------------------------------------
(* The invariant of the solver holds in every state of every behaviour. *)
THEOREM Invariance == Spec => []SolverInv
BY InitInv, StepInv, PTL DEF Spec

(* The state of the coroutine keeps its types, for all limits. *)
THEOREM TypeCorrect == Spec => []TypeOK
<1>1. SolverInv => TypeOK
  BY DEF SolverInv
<1>2. QED
  BY <1>1, Invariance, PTL

(* For all limits and histories, the validator never refuses a store the      *)
(* solver, its tools or a resumption build.                                   *)
THEOREM RuntimeAlwaysValid == Spec => []RuntimeValid
<1>1. SolverInv => RuntimeValid
  BY DEF SolverInv
<1>2. QED
  BY <1>1, Invariance, PTL

(* A cancellation at any await, at any point of any interview, loses nothing. *)
THEOREM SuspendedIsPersisted == Spec => []AwaitsPersisted
<1>1. SolverInv => AwaitsPersisted
  BY DEF SolverInv
<1>2. QED
  BY <1>1, Invariance, PTL

(* A failed stakeholder leaves its question open, for all limits. *)
THEOREM NoFabricatedAnswer == Spec => []FailedQuestionStaysOpen
<1>1. SolverInv => FailedQuestionStaysOpen
  BY DEF SolverInv
<1>2. QED
  BY <1>1, Invariance, PTL

(* Paid for: a full set of steps for each turn but the last. *)
LEMMA GenerationBudgetInv == SolverInv => GenerationBudget
<1> SUFFICES ASSUME SolverInv PROVE generated <= MaxTurns * MaxSteps
  BY DEF GenerationBudget
<1>1. /\ rt.candidate_turns \in Nat /\ rt.candidate_steps \in Nat /\ generated \in Nat
      /\ rt.candidate_turns <= MaxTurns /\ rt.candidate_steps <= MaxSteps
      /\ MaxTurns \in Nat /\ MaxSteps \in Nat /\ Covered(rt)
  BY StoreFields, LimitsPositive DEF SolverInv, TypeOK, RuntimeValid, Valid, CountersBounded
<1>2. MaxTurns * MaxSteps \in Nat
  BY <1>1
<1>3. CASE rt.candidate_turns = 0
  BY <1>1, <1>2, <1>3 DEF Covered
<1>4. CASE rt.candidate_turns # 0
  <2>1. generated <= (rt.candidate_turns - 1) * MaxSteps + rt.candidate_steps
    BY <1>1, <1>4 DEF Covered
  <2>2. (rt.candidate_turns - 1) * MaxSteps + MaxSteps = rt.candidate_turns * MaxSteps
    BY <1>1
  <2>3. MaxTurns * MaxSteps = rt.candidate_turns * MaxSteps
                                + (MaxTurns - rt.candidate_turns) * MaxSteps
    BY <1>1
  <2>4. (MaxTurns - rt.candidate_turns) * MaxSteps >= 0
    BY <1>1
  <2>5. (rt.candidate_turns - 1) * MaxSteps \in Int /\ rt.candidate_turns * MaxSteps \in Int
        /\ (MaxTurns - rt.candidate_turns) * MaxSteps \in Int
    BY <1>1
  <2>6. QED
    BY <1>1, <1>2, <2>1, <2>2, <2>3, <2>4, <2>5
<1>5. QED
  BY <1>3, <1>4

(* However often an interview is cancelled and resumed, it costs at most      *)
(* MaxTurns * MaxSteps candidate generations, for all limits.                 *)
THEOREM BudgetHolds == Spec => []GenerationBudget
BY GenerationBudgetInv, Invariance, PTL

-----------------------------------------------------------------------------
(* What a step does to the runtime the tools see: nothing, or one operation of *)
(* LiveStore under its guard.  The one exception is an exception out of        *)
(* execute_tools after a call took effect, which brings back an older store.   *)
RuntimeStep ==
  \/ rt' = rt
  \/ CanRecordTurn(rt) /\ rt' = RecordTurn(rt)
  \/ CanRecordStep(rt) /\ rt' = RecordStep(rt)
  \/ CanAsk(rt) /\ Unasked(rt) /\ rt' = Ask(rt)
  \/ \E graph : CanApplyGraph(rt, graph) /\ rt' = ApplyGraph(rt, graph)
  \/ \E id \in Nat, proposals \in SUBSET Nat :
       CanIngest(rt, id, proposals) /\ rt' = Ingest(rt, id, proposals)
  \/ \E why : CanComplete(rt, why) /\ rt' = Complete(rt, why)
  \/ \E why : Active(rt) /\ rt' = Fail(rt, why)

LEMMA StepIsRuntimeStep ==
  ASSUME ~LateToolErrors, SolverInv, [Next]_vars
  PROVE  RuntimeStep
<1>1. /\ pc = "generate" => Active(rt)
      /\ pc = "tools" => Active(local)
      /\ pc \in {"stakeholder", "answered"} => local = rt /\ Active(rt)
      /\ pc = "down" => disk = rt
      /\ pc = "ask" => Unasked(rt)
  BY DEF SolverInv, AwaitsPersisted
<1>2. CASE StartTurn \/ StartGeneration \/ TurnsExhausted \/ StepsExhausted \/ LeaveLoop
  BY <1>2 DEF StartTurn, StartGeneration, TurnsExhausted, StepsExhausted, LeaveLoop,
              GiveUp, Save, stores, RuntimeStep
<1>3. CASE \/ GenerateRaises \/ GenerateUnusable \/ GenerateToolCalls
           \/ GenerateQuestion \/ GenerateBlankQuestion
  BY <1>1, <1>3 DEF GenerateRaises, GenerateUnusable, GenerateToolCalls, GenerateQuestion,
                    GenerateBlankQuestion, GiveUp, Save, RuntimeStep
<1>4. CASE ToolWithoutEffect \/ ToolMutates \/ ToolCompletes \/ ToolsReturn
  BY <1>4 DEF ToolWithoutEffect, ToolMutates, ToolCompletes, ToolsReturn, ToolSaves,
              stores, RuntimeStep
<1>5. CASE ToolsRaise
  BY <1>1, <1>5 DEF ToolsRaise, GiveUp, Save, RuntimeStep
<1>6. CASE AskQuestion \/ AskRaises
  BY <1>1, <1>6 DEF AskQuestion, AskRaises, Save, stores, RuntimeStep
<1>7. CASE StakeholderAnswers
  <2>1. pc = "stakeholder" /\ local = rt /\ rt \in Store
    BY <1>1, <1>7 DEF StakeholderAnswers, SolverInv, TypeOK
  <2>2. PICK proposals \in SUBSET TurnsOf(rt.public_message_ledger, "assistant") :
          /\ CanIngest(rt, NextPublicTurn(rt), proposals)
          /\ rt' = Ingest(rt, NextPublicTurn(rt), proposals)
    BY <1>7, <2>1 DEF StakeholderAnswers, Save
  <2>3. NextPublicTurn(rt) \in Nat /\ proposals \in SUBSET Nat
    <3>1. rt.public_message_ledger \in Seq(Role)
      BY <2>1, StoreFields
    <3>2. TurnsOf(rt.public_message_ledger, "assistant") \subseteq Nat
      BY <3>1, TurnsOfBounds
    <3>3. QED
      BY <3>1, <3>2 DEF NextPublicTurn
  <2>4. QED
    BY <2>2, <2>3 DEF RuntimeStep
<1>8. CASE \/ \E why \in FailureReasons : StakeholderFails(why)
           \/ StakeholderRaises \/ LastTurnAnswered \/ NextTurn
  BY <1>1, <1>8 DEF StakeholderFails, StakeholderRaises, LastTurnAnswered, NextTurn,
                    GiveUp, Save, stores, RuntimeStep
<1>9. CASE Finish \/ Cancel \/ Resume \/ Rest \/ UNCHANGED vars
  BY <1>1, <1>9 DEF Finish, Cancel, Resume, Rest, Save, vars, stores, RuntimeStep
<1>10. QED
  BY <1>2, <1>3, <1>4, <1>5, <1>6, <1>7, <1>8, <1>9 DEF Next, Solve, Candidate, Stakeholder

(* If execute_tools raises only while none of its calls has taken effect, a *)
(* terminal interview never changes again, for all limits.                  *)
THEOREM TerminalRuntimeIsFinal == ~LateToolErrors => (Spec => TerminalIsFinal)
<1> SUFFICES ASSUME ~LateToolErrors PROVE Spec => TerminalIsFinal
  OBVIOUS
<1>1. SolverInv /\ [Next]_vars => [~Active(rt) => rt' = rt]_vars
  <2> SUFFICES ASSUME SolverInv, [Next]_vars, ~Active(rt) PROVE rt' = rt
    OBVIOUS
  <2>1. RuntimeStep
    BY StepIsRuntimeStep
  <2>2. QED
    BY <2>1 DEF RuntimeStep, CanRecordTurn, CanRecordStep, CanAsk, CanApplyGraph,
                CanIngest, CanComplete
<1>2. QED
  BY <1>1, Invariance, PTL DEF Spec, TerminalIsFinal

(* Under the same condition the runtime follows the turn protocol, through *)
(* every cancellation and resumption, for all limits.                      *)
THEOREM RefinesTurnProtocol == ~LateToolErrors => (Spec => ImplementsTurnProtocol)
<1> SUFFICES ASSUME ~LateToolErrors PROVE Spec => ImplementsTurnProtocol
  OBVIOUS
<1>1. Init => Protocol_!Init
  <2> SUFFICES ASSUME Init PROVE Protocol_!Init
    OBVIOUS
  <2>1. PICK ledger \in InitialLedgers : rt = CreateStore(ledger)
    BY DEF Init
  <2>2. ledger \in Seq(Role) /\ Valid(CreateStore(ledger))
    BY SolverLedgers
  <2>3. /\ rt \in Store /\ Valid(rt) /\ Active(rt)
        /\ rt.question_count = 0 /\ rt.stakeholder_turns = 0
    BY <2>1, <2>2, CreateStoreFacts
  <2>4. ~Pending(rt)
    BY <2>3, PendingCounts
  <2>5. QED
    BY <2>3, <2>4 DEF Protocol_!Init, Active
<1>2. SolverInv /\ [Next]_vars => [Protocol_!Next]_(Protocol_!vars)
  <2> SUFFICES ASSUME SolverInv, [Next]_vars
               PROVE  Protocol_!Next \/ UNCHANGED Protocol_!vars
    OBVIOUS
  <2>1. RuntimeStep /\ rt \in Store /\ Valid(rt)
    BY StepIsRuntimeStep DEF SolverInv, TypeOK, RuntimeValid
  <2>2. CASE /\ rt'.protocol_state = rt.protocol_state
             /\ rt'.public_message_ledger = rt.public_message_ledger
             /\ rt'.question_count = rt.question_count
             /\ rt'.stakeholder_turns = rt.stakeholder_turns
    BY <2>2 DEF Protocol_!vars, Pending
  <2>3. CASE \/ rt' = rt \/ rt' = RecordTurn(rt) \/ rt' = RecordStep(rt)
             \/ \E graph : rt' = ApplyGraph(rt, graph)
    BY <2>1, <2>2, <2>3, RecordTurnEffect, RecordStepEffect, ApplyGraphEffect DEF SameCounts
  <2>4. CASE CanAsk(rt) /\ Unasked(rt) /\ rt' = Ask(rt)
    <3>1. Pending(rt') /\ Valid(Ask(rt))
      BY <2>1, <2>4, AskValid DEF Unasked
    <3>2. rt.question_count < MaxTurns
      BY <2>1, <3>1, AskedInTurn
    <3>3. /\ rt'.protocol_state = rt.protocol_state
          /\ rt'.question_count = rt.question_count + 1
          /\ rt'.stakeholder_turns = rt.stakeholder_turns
      BY <2>1, <2>4, AskEffect
    <3>4. QED
      BY <2>4, <3>1, <3>2, <3>3 DEF CanAsk, Active, Protocol_!Next, Protocol_!Ask
  <2>5. CASE \E id \in Nat, proposals \in SUBSET Nat :
               CanIngest(rt, id, proposals) /\ rt' = Ingest(rt, id, proposals)
    <3>1. PICK id \in Nat, proposals \in SUBSET Nat :
            CanIngest(rt, id, proposals) /\ rt' = Ingest(rt, id, proposals)
      BY <2>5
    <3>2. ~Pending(rt')
      BY <2>1, <3>1, IngestValid
    <3>3. /\ rt'.protocol_state = rt.protocol_state
          /\ rt'.question_count = rt.question_count
          /\ rt'.stakeholder_turns = rt.stakeholder_turns + 1
      BY <2>1, <3>1, IngestEffect
    <3>4. QED
      BY <3>1, <3>2, <3>3 DEF CanIngest, Active, Protocol_!Next, Protocol_!Answer
  <2>6. CASE \E why : CanComplete(rt, why) /\ rt' = Complete(rt, why)
    <3>1. SameCounts(rt', rt) /\ rt'.protocol_state.status = "completed"
      BY <2>1, <2>6, CompleteEffect
    <3>2. Pending(rt') <=> Pending(rt)
      BY <3>1, SamePending
    <3>3. QED
      BY <2>6, <3>1, <3>2
         DEF CanComplete, Active, SameCounts, Pending, Protocol_!Next, Protocol_!Complete
  <2>7. CASE \E why : Active(rt) /\ rt' = Fail(rt, why)
    <3>1. SameCounts(rt', rt) /\ rt'.protocol_state.status = "incomplete"
      BY <2>1, <2>7, FailEffect
    <3>2. Pending(rt') <=> Pending(rt)
      BY <3>1, SamePending
    <3>3. QED
      BY <2>7, <3>1, <3>2 DEF Active, SameCounts, Pending, Protocol_!Next, Protocol_!Fail
  <2>8. QED
    BY <2>1, <2>3, <2>4, <2>5, <2>6, <2>7 DEF RuntimeStep
<1>3. QED
  BY <1>1, <1>2, Invariance, PTL DEF Spec, ImplementsTurnProtocol, Protocol_!Spec
-----------------------------------------------------------------------------
(* Only an output that ended normally gets its tool calls executed: stop keeps *)
(* what classify_candidate_output found, whatever reason the provider gave.    *)
StopClean == stop \in {"none", "stop", "tool_calls"}

LEMMA CallsAreClean ==
  ASSUME NEW o \in CandidateOutputs, Classify(o) \in {"tool_call", "invalid_tool_call"}
  PROVE  o.stop \in {"none", "stop", "tool_calls"}
BY DEF Classify

LEMMA StopStep == StopClean /\ [Next]_vars => StopClean'
<1> SUFFICES ASSUME StopClean, [Next]_vars PROVE StopClean'
  OBVIOUS
<1>1. CASE GenerateToolCalls
  BY <1>1, CallsAreClean DEF GenerateToolCalls, StopClean
<1>2. CASE stop' = "none" \/ stop' = stop
  BY <1>2 DEF StopClean
<1>3. GenerateToolCalls \/ stop' = "none" \/ stop' = stop
  BY DEF Next, Solve, Candidate, Stakeholder, Cancel, Rest, vars,
         StartTurn, TurnsExhausted, StartGeneration, StepsExhausted, LeaveLoop,
         GenerateRaises, GenerateUnusable, GenerateQuestion, GenerateBlankQuestion,
         ToolWithoutEffect, ToolMutates, ToolCompletes, ToolsRaise, ToolsReturn, NextCall,
         AskQuestion, AskRaises, StakeholderAnswers, StakeholderFails, StakeholderRaises,
         LastTurnAnswered, NextTurn, Finish, Resume, GiveUp, Goto
<1>4. QED
  BY <1>1, <1>2, <1>3

(* For all limits, batches and histories, a truncated generation neither      *)
(* mutates the graph nor completes the interview, an exception out of         *)
(* execute_tools included.                                                    *)
THEOREM TruncatedHasNoEffect == Spec => NoTruncatedEffect
<1>1. Init => StopClean
  BY DEF Init, StopClean
<1>2. StopClean /\ [Next]_vars =>
        [ (rt'.agent_graph # rt.agent_graph \/ (Completed(rt') /\ ~Completed(rt)))
             => stop \in {"none", "stop", "tool_calls"} ]_vars
  BY DEF StopClean
<1>3. QED
  BY <1>1, <1>2, StopStep, PTL DEF Spec, NoTruncatedEffect

-----------------------------------------------------------------------------
(* Every operation but ApplyGraph leaves the graph of a store alone. *)
LEMMA GraphKept ==
  ASSUME NEW s \in Store, NEW id, NEW proposals, NEW why
  PROVE  /\ RecordTurn(s).agent_graph = s.agent_graph
         /\ RecordStep(s).agent_graph = s.agent_graph
         /\ Ask(s).agent_graph = s.agent_graph
         /\ Ingest(s, id, proposals).agent_graph = s.agent_graph
         /\ Complete(s, why).agent_graph = s.agent_graph
         /\ Fail(s, why).agent_graph = s.agent_graph
BY DEF RecordTurn, RecordStep, Ask, Ingest, Complete, Fail, Store

(* If execute_tools raises only while none of its calls has taken effect, no   *)
(* step but a tool call changes the graph of the runtime, for all limits: a    *)
(* receipt is never taken back by a failure, a cancellation or a resumption.   *)
THEOREM ReceiptsAlwaysHold == ~LateToolErrors => (Spec => ReceiptsHold)
<1> SUFFICES ASSUME ~LateToolErrors PROVE Spec => ReceiptsHold
  OBVIOUS
<1>1. SolverInv /\ [Next]_vars =>
        [rt'.agent_graph # rt.agent_graph => pc = "tools" /\ pc' = "tools"]_vars
  <2> SUFFICES ASSUME SolverInv, [Next]_vars, ~(pc = "tools" /\ pc' = "tools")
               PROVE  rt'.agent_graph = rt.agent_graph
    OBVIOUS
  <2>1. /\ rt \in Store
        /\ pc \in {"stakeholder", "answered"} => local = rt
        /\ pc = "down" => disk = rt
    BY DEF SolverInv, TypeOK, AwaitsPersisted
  <2>2. CASE StartTurn \/ StartGeneration \/ TurnsExhausted \/ StepsExhausted \/ LeaveLoop
    BY <2>1, <2>2, GraphKept
       DEF StartTurn, StartGeneration, TurnsExhausted, StepsExhausted, LeaveLoop,
           GiveUp, Save, stores
  <2>3. CASE \/ GenerateRaises \/ GenerateUnusable \/ GenerateToolCalls
             \/ GenerateQuestion \/ GenerateBlankQuestion
    BY <2>1, <2>3, GraphKept
       DEF GenerateRaises, GenerateUnusable, GenerateToolCalls, GenerateQuestion,
           GenerateBlankQuestion, GiveUp, Save
  <2>4. CASE ToolWithoutEffect \/ ToolMutates \/ ToolCompletes \/ ToolsReturn
    BY <2>4 DEF ToolWithoutEffect, ToolMutates, ToolCompletes, ToolsReturn, NextCall
  <2>5. CASE ToolsRaise
    BY <2>1, <2>5, GraphKept DEF ToolsRaise, GiveUp, Save
  <2>6. CASE AskQuestion \/ AskRaises
    BY <2>1, <2>6, GraphKept DEF AskQuestion, AskRaises, Save, stores
  <2>7. CASE StakeholderAnswers
    BY <2>1, <2>7, GraphKept DEF StakeholderAnswers, Save
  <2>8. CASE \/ \E why \in FailureReasons : StakeholderFails(why)
             \/ StakeholderRaises \/ LastTurnAnswered \/ NextTurn
    BY <2>1, <2>8, GraphKept
       DEF StakeholderFails, StakeholderRaises, LastTurnAnswered, NextTurn,
           GiveUp, Save, stores
  <2>9. CASE Finish \/ Cancel \/ Resume \/ Rest \/ UNCHANGED vars
    BY <2>1, <2>9 DEF Finish, Cancel, Resume, Rest, Save, vars, stores
  <2>10. QED
    BY <2>2, <2>3, <2>4, <2>5, <2>6, <2>7, <2>8, <2>9
       DEF Next, Solve, Candidate, Stakeholder
<1>2. QED
  BY <1>1, Invariance, PTL DEF Spec, ReceiptsHold

-----------------------------------------------------------------------------
(* A question nobody waits for any more: it is open, and the coroutine is not *)
(* where its answer would come in.                                            *)
Stranded ==
  /\ Pending(rt)
  /\ ~Completed(rt)
  /\ pc \notin {"stakeholder", "answered"}

LEMMA GiveUpStranded ==
  ASSUME Stranded, NEW s \in Store, SameCounts(s, rt), NEW why, GiveUp(s, why)
  PROVE  Stranded'
<1>1. rt' = Fail(s, why) /\ pc' = "finish"
  BY DEF GiveUp, Save
<1>2. SameCounts(rt', s) /\ rt'.protocol_state.status = "incomplete"
  BY <1>1, FailEffect
<1>3. Pending(rt')
  BY <1>2, SamePending DEF Stranded
<1>4. QED
  BY <1>1, <1>2, <1>3 DEF Stranded, Completed

LEMMA StrandedStep == SolverInv /\ Stranded /\ [Next]_vars => Stranded'
<1> SUFFICES ASSUME SolverInv, Stranded, [Next]_vars PROVE Stranded'
  OBVIOUS
<1>1. /\ rt \in Store /\ local \in Store
      /\ SameCounts(local, rt) /\ SameCounts(rt, rt)
      /\ Pending(rt) /\ ~Completed(rt)
      /\ pc = "down" => disk = rt
  BY DEF SolverInv, TypeOK, AwaitsPersisted, SameCounts, Stranded
<1>2. CASE StartTurn \/ StartGeneration
  <2>1. pc' \in {"inner", "generate"} /\ (rt' = RecordTurn(rt) \/ rt' = RecordStep(rt))
    BY <1>2 DEF StartTurn, StartGeneration, Save, Goto
  <2>2. /\ rt'.protocol_state = rt.protocol_state
        /\ rt'.public_message_ledger = rt.public_message_ledger
    BY <1>1, <2>1, RecordTurnEffect, RecordStepEffect
  <2>3. QED
    BY <1>1, <2>1, <2>2 DEF Stranded, Completed, Pending
<1>3. CASE \/ TurnsExhausted \/ StepsExhausted \/ GenerateRaises \/ GenerateUnusable
           \/ GenerateBlankQuestion \/ ToolsRaise
  BY <1>1, <1>3, GiveUpStranded
     DEF TurnsExhausted, StepsExhausted, GenerateRaises, GenerateUnusable,
         GenerateBlankQuestion, ToolsRaise
<1>4. CASE ToolMutates
  <2>1. PICK graph : rt' = ApplyGraph(rt, graph)
    BY <1>4 DEF ToolMutates, ToolSaves
  <2>2. SameCounts(rt', rt) /\ rt'.protocol_state = rt.protocol_state /\ pc' = "tools"
    BY <1>1, <1>4, <2>1, ApplyGraphEffect DEF ToolMutates, NextCall
  <2>3. QED
    BY <1>1, <2>2, SamePending DEF Stranded, Completed
<1>5. CASE \/ LeaveLoop \/ GenerateToolCalls \/ GenerateQuestion
           \/ ToolWithoutEffect \/ ToolsReturn \/ AskRaises
  BY <1>1, <1>5 DEF LeaveLoop, GenerateToolCalls, GenerateQuestion, ToolWithoutEffect,
                    ToolsReturn, AskRaises, NextCall, Goto, stores, Stranded
<1>6. CASE ToolCompletes \/ AskQuestion
  BY <1>1, <1>6 DEF ToolCompletes, AskQuestion, CanComplete, CanAsk
<1>7. CASE Stakeholder \/ LastTurnAnswered \/ NextTurn
  BY <1>7 DEF Stakeholder, StakeholderAnswers, StakeholderFails, StakeholderRaises,
              LastTurnAnswered, NextTurn, Stranded
<1>8. CASE Finish \/ Cancel \/ Resume \/ Rest \/ UNCHANGED vars
  BY <1>1, <1>8 DEF Finish, Cancel, Resume, Rest, Save, Goto, vars, stores, Stranded
<1>9. QED
  BY <1>2, <1>3, <1>4, <1>5, <1>6, <1>7, <1>8 DEF Next, Solve, Candidate

(* An interview cancelled, or left by an exception, while its question is out *)
(* is never completed, whatever happens to it later, for all limits.          *)
THEOREM StrandedStaysIncomplete == Spec => StrandedNeverCompletes
<1>1. SolverInv /\ pc = "down" /\ Pending(rt) => Stranded
  BY DEF SolverInv, RuntimeValid, Valid, ProtocolConsistent, Active, Stranded, Completed
<1>2. Stranded => rt.protocol_state.status # "completed"
  BY DEF Stranded, Completed
<1>3. QED
  BY <1>1, <1>2, StrandedStep, Invariance, PTL DEF Spec, StrandedNeverCompletes
-----------------------------------------------------------------------------
(* The stakeholder call *)

CallInv ==
  /\ CallTypeOK
  /\ EveryGenerationAccounted
  /\ FailureReasonTrue
  /\ phase # "failed" => reason = NoReason /\ Providers = 0
  /\ phase \in Phases => attempt = Failures(phase)
  /\ phase = "plan" => Failures("realization") = 0

-----------------------------------------------------------------------------
(* Every output gets one outcome: a failure kind or "valid". *)
LEMMA OutcomeType ==
  ASSUME NEW o \in Output
  PROVE  AttemptOutcome(o) \in FailureKinds \cup {"valid"}
BY DEF AttemptOutcome, FailureKinds, RetriedKinds

(* A failure reason names its phase and its kind without ambiguity. *)
LEMMA ReasonsDistinct ==
  ASSUME NEW p \in Phases, NEW q \in Phases,
         NEW k \in FailureKinds, NEW l \in FailureKinds,
         FailureReason[p][k] = FailureReason[q][l]
  PROVE  p = q /\ k = l
BY DEF NoReason, FailureReason, Phases, FailureKinds, RetriedKinds

LEMMA ReasonType ==
  ASSUME NEW p \in Phases, NEW k \in FailureKinds
  PROVE  FailureReason[p][k] \in FailureReasons /\ FailureReason[p][k] # NoReason
<1>1. FailureReason[p][k] \in FailureReasons
  BY DEF NoReason, FailureReasons
<1>2. CASE p = "plan"
  BY <1>1, <1>2 DEF NoReason, FailureReason, FailureKinds, RetriedKinds
<1>3. CASE p = "realization"
  BY <1>1, <1>3 DEF NoReason, FailureReason, FailureKinds, RetriedKinds
<1>4. QED
  BY <1>2, <1>3 DEF Phases

(* Record counts one failure of its kind, and a retry when there is one. *)
LEMMA RecordCounts ==
  ASSUME NEW d \in [Counters -> Nat], NEW kind \in FailureKinds
  PROVE  /\ Record(d, kind) \in [Counters -> Nat]
         /\ \A c \in FailureKinds :
              Record(d, kind)[c] = d[c] + (IF c = kind THEN 1 ELSE 0)
         /\ Record(d, kind)["retry"]
              = d["retry"] + (IF kind # "provider" /\ HasRetry THEN 1 ELSE 0)
<1> USE DEF Record, Counters, FailureKinds, RetriedKinds
<1>1. CASE kind # "provider" /\ HasRetry
  BY <1>1
<1>2. CASE ~(kind # "provider" /\ HasRetry)
  BY <1>2
<1>3. QED
  BY <1>1, <1>2

-----------------------------------------------------------------------------
LEMMA CallInitInv == CallInit => CallInv
<1> SUFFICES ASSUME CallInit PROVE CallInv
  OBVIOUS
<1>1. \A p \in Phases, c \in Counters : diagnostics[p][c] = 0
  BY DEF CallInit, NoDiagnostics
<1>2. Failures("plan") = 0 /\ Failures("realization") = 0 /\ Providers = 0 /\ Retries = 0
  BY <1>1 DEF Failures, Providers, Retries, Phases, Counters
<1>3. CallTypeOK
  BY DEF CallInit, CallTypeOK, NoDiagnostics, CallPhases, Phases
<1>4. EveryGenerationAccounted
  <2>1. PhasesPassed = 0
    BY DEF CallInit, PhasesPassed
  <2>2. QED
    BY <1>2, <2>1 DEF CallInit, EveryGenerationAccounted
<1>5. QED
  BY <1>2, <1>3, <1>4 DEF CallInit, CallInv, FailureReasonTrue, Phases

-----------------------------------------------------------------------------
(* The counters start anew: a call that starts, one that cannot, and one whose *)
(* outcome has been handed on.                                                 *)
LEMMA ResetInv ==
  ASSUME phase' \in {"idle", "plan", "raised"}, attempt' = 0,
         diagnostics' = NoDiagnostics, reason' = NoReason, generations' = 0
  PROVE  CallInv'
<1>1. \A p \in Phases, c \in Counters : diagnostics'[p][c] = 0
  BY DEF NoDiagnostics
<1>2. (Failures("plan") = 0 /\ Failures("realization") = 0 /\ Providers = 0 /\ Retries = 0)'
  BY <1>1 DEF Failures, Providers, Retries, Phases, Counters
<1>3. CallTypeOK'
  <2>1. diagnostics' \in [Phases -> [Counters -> Nat]]
    BY DEF NoDiagnostics
  <2>2. phase' \in Phases => 0 < MaxAttempts[phase']
    BY AttemptsPositive
  <2>3. QED
    BY <2>1, <2>2 DEF CallTypeOK, CallPhases, Phases
<1>4. EveryGenerationAccounted'
  <2>1. PhasesPassed' = 0
    BY DEF PhasesPassed
  <2>2. QED
    BY <1>2, <2>1 DEF EveryGenerationAccounted
<1>5. QED
  BY <1>2, <1>3, <1>4 DEF CallInv, FailureReasonTrue, Phases

(* The counters of a phase under way, and what one more failure of a kind does *)
(* to the sums the properties speak of.                                        *)
LEMMA FailureCounted ==
  ASSUME CallTypeOK, phase \in Phases, NEW kind \in FailureKinds,
         diagnostics' = [diagnostics EXCEPT ![phase] = Record(@, kind)]
  PROVE  /\ diagnostics' \in [Phases -> [Counters -> Nat]]
         /\ \A p \in Phases : Failures(p)' =
              Failures(p) + (IF p = phase /\ kind # "provider" THEN 1 ELSE 0)
         /\ Providers' = Providers + (IF kind = "provider" THEN 1 ELSE 0)
         /\ Retries' = Retries + (IF kind # "provider" /\ HasRetry THEN 1 ELSE 0)
         /\ diagnostics'[phase][kind] > 0
<1>1. diagnostics \in [Phases -> [Counters -> Nat]]
  BY DEF CallTypeOK
<1>2. diagnostics'[phase] = Record(diagnostics[phase], kind)
  BY <1>1
<1>3. \A p \in Phases : p # phase => diagnostics'[p] = diagnostics[p]
  BY <1>1
<1>4. diagnostics[phase] \in [Counters -> Nat]
  BY <1>1
<1>5. /\ Record(diagnostics[phase], kind) \in [Counters -> Nat]
      /\ \A c \in FailureKinds : diagnostics'[phase][c]
           = diagnostics[phase][c] + (IF c = kind THEN 1 ELSE 0)
      /\ diagnostics'[phase]["retry"] = diagnostics[phase]["retry"]
           + (IF kind # "provider" /\ HasRetry THEN 1 ELSE 0)
  BY <1>2, <1>4, RecordCounts
<1>6. diagnostics' \in [Phases -> [Counters -> Nat]]
  BY <1>1, <1>5
<1>7. \A p \in Phases, c \in Counters : diagnostics[p][c] \in Nat
  BY <1>1
<1>8. QED
  <2>1. CASE phase = "plan"
    BY <1>3, <1>5, <1>6, <1>7, <2>1
       DEF Failures, Providers, Retries, Phases, Counters, FailureKinds, RetriedKinds
  <2>2. CASE phase = "realization"
    BY <1>3, <1>5, <1>6, <1>7, <2>2
       DEF Failures, Providers, Retries, Phases, Counters, FailureKinds, RetriedKinds
  <2>3. QED
    BY <2>1, <2>2 DEF Phases

-----------------------------------------------------------------------------
(* One lemma per way an attempt ends. *)
LEMMA AttemptPassInv ==
  ASSUME CallInv, phase \in Phases, generations' = generations + 1,
         NEW o \in Output, AttemptPasses(o)
  PROVE  CallInv'
<1> USE DEF CallInv
<1>1. /\ diagnostics \in [Phases -> [Counters -> Nat]]
      /\ generations \in Nat
      /\ phase # "failed" /\ reason = NoReason /\ Providers = 0
  BY DEF CallTypeOK, Phases
<1>2. /\ diagnostics' = diagnostics /\ reason' = reason /\ attempt' = 0
      /\ phase' = IF phase = "plan" THEN "realization" ELSE "answered"
  BY DEF AttemptPasses
<1>3. /\ Providers' = Providers /\ Retries' = Retries
      /\ \A p \in Phases : Failures(p)' = Failures(p)
  BY <1>2 DEF Providers, Retries, Failures
<1>4. \A p \in Phases : Failures(p) \in Nat
  BY <1>1 DEF Failures, Counters
<1>5. CallTypeOK'
  <2>1. phase' \in Phases => 0 < MaxAttempts[phase']
    BY AttemptsPositive
  <2>2. QED
    BY <1>1, <1>2, <2>1 DEF CallTypeOK, CallPhases, Phases
<1>6. EveryGenerationAccounted'
  <2>1. PhasesPassed' = PhasesPassed + 1
    BY <1>1, <1>2 DEF PhasesPassed, Phases
  <2>2. PhasesPassed \in Nat
    BY DEF PhasesPassed
  <2>3. QED
    BY <1>1, <1>2, <1>3, <1>4, <2>1, <2>2 DEF EveryGenerationAccounted, Phases
<1>7. phase' = "realization" => Failures("realization")' = 0
  BY <1>1, <1>2, <1>3 DEF Phases
<1>8. QED
  BY <1>1, <1>2, <1>3, <1>5, <1>6, <1>7 DEF FailureReasonTrue, Phases

LEMMA AttemptRetryInv ==
  ASSUME CallInv, phase \in Phases, generations' = generations + 1,
         NEW o \in Output, AttemptRetried(o)
  PROVE  CallInv'
<1> USE DEF CallInv
<1> DEFINE kind == AttemptOutcome(o)
<1>1. kind \in FailureKinds /\ kind # "provider" /\ HasRetry
  BY DEF AttemptRetried, FailureKinds, RetriedKinds
<1>2. /\ CallTypeOK /\ attempt \in Nat /\ generations \in Nat
      /\ diagnostics \in [Phases -> [Counters -> Nat]]
      /\ phase # "failed" /\ reason = NoReason /\ Providers = 0
  BY DEF CallTypeOK, Phases
<1>3. /\ phase' = phase /\ reason' = reason /\ attempt' = attempt + 1
      /\ diagnostics' = [diagnostics EXCEPT ![phase] = Record(@, kind)]
  BY DEF AttemptRetried
<1>4. /\ diagnostics' \in [Phases -> [Counters -> Nat]]
      /\ \A p \in Phases :
           Failures(p)' = Failures(p) + (IF p = phase THEN 1 ELSE 0)
      /\ Providers' = Providers
      /\ Retries' = Retries + 1
  <2> HIDE DEF kind
  <2>1. Providers \in Nat
    BY <1>2 DEF Providers, Phases, Counters
  <2>2. /\ diagnostics' \in [Phases -> [Counters -> Nat]]
        /\ \A p \in Phases : Failures(p)' =
             Failures(p) + (IF p = phase /\ kind # "provider" THEN 1 ELSE 0)
        /\ Providers' = Providers + (IF kind = "provider" THEN 1 ELSE 0)
        /\ Retries' = Retries + (IF kind # "provider" /\ HasRetry THEN 1 ELSE 0)
        /\ diagnostics'[phase][kind] > 0
    BY <1>1, <1>2, <1>3, FailureCounted
  <2>3. QED
    BY <1>1, <2>1, <2>2
<1>5. \A p \in Phases : Failures(p) \in Nat
  BY <1>2 DEF Failures, Counters
<1>6. Retries \in Nat
  BY <1>2 DEF Retries, Phases, Counters
<1>7. CallTypeOK'
  <2>1. MaxAttempts[phase] \in Nat
    BY AttemptsPositive
  <2>2. attempt + 1 < MaxAttempts[phase]
    BY <1>1, <1>2, <2>1 DEF HasRetry
  <2>3. QED
    BY <1>2, <1>3, <1>4, <2>2 DEF CallTypeOK
<1>8. EveryGenerationAccounted'
  <2>1. PhasesPassed' = PhasesPassed /\ PhasesPassed \in Nat
    BY <1>3 DEF PhasesPassed
  <2>2. QED
    BY <1>2, <1>3, <1>4, <1>5, <1>6, <2>1 DEF EveryGenerationAccounted, Phases
<1>9. QED
  BY <1>2, <1>3, <1>4, <1>5, <1>7, <1>8 DEF FailureReasonTrue, Phases

LEMMA AttemptEndInv ==
  ASSUME CallInv, phase \in Phases, generations' = generations + 1,
         NEW o \in Output, AttemptEndsCall(o)
  PROVE  CallInv'
<1> USE DEF CallInv
<1> DEFINE kind == AttemptOutcome(o)
<1>1. kind \in FailureKinds /\ (kind = "provider" \/ ~HasRetry)
  BY DEF AttemptEndsCall
<1>2. /\ CallTypeOK /\ attempt \in Nat /\ generations \in Nat
      /\ diagnostics \in [Phases -> [Counters -> Nat]]
      /\ phase # "failed" /\ Providers = 0
      /\ attempt = Failures(phase) /\ attempt < MaxAttempts[phase]
  BY DEF CallTypeOK, Phases
<1>3. /\ phase' = "failed" /\ attempt' = attempt
      /\ reason' = FailureReason[phase][kind]
      /\ diagnostics' = [diagnostics EXCEPT ![phase] = Record(@, kind)]
  BY DEF AttemptEndsCall
<1> HIDE DEF kind
<1>4. /\ diagnostics' \in [Phases -> [Counters -> Nat]]
      /\ \A p \in Phases : Failures(p)' =
           Failures(p) + (IF p = phase /\ kind # "provider" THEN 1 ELSE 0)
      /\ Providers' = IF kind = "provider" THEN 1 ELSE 0
      /\ Retries' = Retries
      /\ diagnostics'[phase][kind] > 0
  <2>1. Retries \in Nat
    BY <1>2 DEF Retries, Phases, Counters
  <2>2. /\ diagnostics' \in [Phases -> [Counters -> Nat]]
        /\ \A p \in Phases : Failures(p)' =
             Failures(p) + (IF p = phase /\ kind # "provider" THEN 1 ELSE 0)
        /\ Providers' = Providers + (IF kind = "provider" THEN 1 ELSE 0)
        /\ Retries' = Retries + (IF kind # "provider" /\ HasRetry THEN 1 ELSE 0)
        /\ diagnostics'[phase][kind] > 0
    BY <1>1, <1>2, <1>3, FailureCounted
  <2>3. QED
    BY <1>1, <1>2, <2>1, <2>2
<1>5. \A p \in Phases : Failures(p) \in Nat
  BY <1>2 DEF Failures, Counters
<1>6. CallTypeOK'
  BY <1>1, <1>2, <1>3, <1>4, ReasonType DEF CallTypeOK, CallPhases, Phases
<1>7. EveryGenerationAccounted'
  <2>1. PhasesPassed' = PhasesPassed
    BY <1>1, <1>2, <1>3, ReasonsDistinct DEF PhasesPassed, Phases
  <2>2. PhasesPassed \in Nat
    BY DEF PhasesPassed
  <2>3. QED
    BY <1>1, <1>2, <1>3, <1>4, <1>5, <2>1, <2>2 DEF EveryGenerationAccounted, Phases
<1>8. FailureReasonTrue'
  <2>1. MaxAttempts[phase] \in Nat
    BY AttemptsPositive
  <2>2. kind # "provider" => Failures(phase) + 1 = MaxAttempts[phase]
    BY <1>1, <1>2, <2>1 DEF HasRetry
  <2>3. PICK p \in Phases : p = phase
    OBVIOUS
  <2>4. /\ reason' = FailureReason[p][kind]
        /\ diagnostics'[p][kind] > 0
        /\ kind # "provider" => Failures(p)' = MaxAttempts[p]
    BY <1>3, <1>4, <2>2, <2>3
  <2>5. QED
    BY <1>1, <2>4 DEF FailureReasonTrue
<1>9. QED
  BY <1>3, <1>6, <1>7, <1>8 DEF Phases

-----------------------------------------------------------------------------
LEMMA CallStepInv == CallInv /\ [CallNext]_callVars => CallInv'
<1> SUFFICES ASSUME CallInv, [CallNext]_callVars PROVE CallInv'
  OBVIOUS
<1>1. CASE Invoke \/ SetupRaises
  BY <1>1, ResetInv DEF Invoke, SetupRaises
<1>2. CASE Attempt
  <2>1. phase \in Phases /\ generations' = generations + 1
    BY <1>2 DEF Attempt
  <2>2. PICK o \in Output : AttemptPasses(o) \/ AttemptRetried(o) \/ AttemptEndsCall(o)
    BY <1>2 DEF Attempt
  <2>3. QED
    BY <2>1, <2>2, AttemptPassInv, AttemptRetryInv, AttemptEndInv
<1>3. CASE UNCHANGED callVars
  BY <1>3 DEF callVars, CallInv, CallTypeOK, EveryGenerationAccounted, FailureReasonTrue,
              PhasesPassed, Failures, Providers, Retries
<1>4. QED
  BY <1>1, <1>2, <1>3 DEF CallNext

(* The strengthened invariant holds in every state of every behaviour. *)
THEOREM CallInvariance == CallSpec => []CallInv
BY CallInitInv, CallStepInv, PTL DEF CallSpec

(* For any positive numbers of attempts: the loop counter stays below the limit *)
(* of its phase, and counters, phase and reason keep their types.               *)
THEOREM CallTypeCorrect == CallSpec => []CallTypeOK
<1>1. CallInv => CallTypeOK
  BY DEF CallInv
<1>2. QED
  BY <1>1, CallInvariance, PTL

(* Every generation is in the reported counters exactly once, for any limits. *)
THEOREM GenerationsAccounted == CallSpec => []EveryGenerationAccounted
<1>1. CallInv => EveryGenerationAccounted
  BY DEF CallInv
<1>2. QED
  BY <1>1, CallInvariance, PTL

(* "exhausted" is said only after all the phase's attempts failed, for any limits. *)
THEOREM FailureReasonsTrue == CallSpec => []FailureReasonTrue
<1>1. CallInv => FailureReasonTrue
  BY DEF CallInv
<1>2. QED
  BY <1>1, CallInvariance, PTL
-----------------------------------------------------------------------------
(* The attempts left bound the generations of a call, whichever phase it is in. *)
GenerationsBounded ==
  IF phase = "plan" THEN generations <= attempt
  ELSE IF phase = "realization" THEN generations <= MaxAttempts["plan"] + attempt
  ELSE generations <= AttemptsPerTurn

LEMMA AttemptLimits ==
  /\ MaxAttempts["plan"] \in Nat \ {0} /\ MaxAttempts["realization"] \in Nat \ {0}
  /\ AttemptsPerTurn = MaxAttempts["plan"] + MaxAttempts["realization"]
  /\ AttemptsPerTurn \in Nat
BY AttemptsPositive DEF AttemptsPerTurn, Phases

LEMMA ResetBounded ==
  ASSUME attempt' = 0, generations' = 0
  PROVE  GenerationsBounded'
BY AttemptLimits DEF GenerationsBounded

LEMMA AttemptBounded ==
  ASSUME CallTypeOK, GenerationsBounded, Attempt
  PROVE  GenerationsBounded'
<1>1. /\ phase \in {"plan", "realization"} /\ generations' = generations + 1
      /\ attempt \in Nat /\ attempt < MaxAttempts[phase] /\ generations \in Nat
  BY DEF Attempt, CallTypeOK, Phases
<1>2. PICK o \in Output : AttemptPasses(o) \/ AttemptRetried(o) \/ AttemptEndsCall(o)
  BY DEF Attempt
<1>3. CASE AttemptPasses(o)
  BY <1>1, <1>3, AttemptLimits DEF AttemptPasses, GenerationsBounded
<1>4. CASE AttemptRetried(o)
  BY <1>1, <1>4, AttemptLimits DEF AttemptRetried, GenerationsBounded
<1>5. CASE AttemptEndsCall(o)
  BY <1>1, <1>5, AttemptLimits DEF AttemptEndsCall, GenerationsBounded
<1>6. QED
  BY <1>2, <1>3, <1>4, <1>5

-----------------------------------------------------------------------------
(* The task as the solver sees it. *)
LEMMA CallInvIsEnough ==
  ASSUME CallInv, phase = "failed"
  PROVE  reason \in FailureReasons
BY DEF CallInv, FailureReasonTrue, FailureReasons

LEMMA TaskStepIsSolverStep == CallInv /\ [TaskNext]_taskVars => [Next]_vars
<1> SUFFICES ASSUME CallInv, [TaskNext]_taskVars PROVE [Next]_vars
  OBVIOUS
<1>1. CASE SolverStep
  BY <1>1 DEF SolverStep, Next, Solve
<1>2. CASE CallStarts \/ CallGoesOn \/ UNCHANGED taskVars
  BY <1>2 DEF CallStarts, CallGoesOn, taskVars
<1>3. CASE CallAnswers
  BY <1>3 DEF CallAnswers, Next, Solve, Stakeholder
<1>4. CASE CallFails
  BY <1>4, CallInvIsEnough DEF CallFails, Next, Solve, Stakeholder
<1>5. CASE CallRaises
  BY <1>5 DEF CallRaises, Next, Solve, Stakeholder
<1>6. CASE TaskCancelled
  BY <1>6 DEF TaskCancelled, Next
<1>7. QED
  BY <1>1, <1>2, <1>3, <1>4, <1>5, <1>6 DEF TaskNext

LEMMA TaskCallStep == CallInv /\ [TaskNext]_taskVars => CallInv'
<1> SUFFICES ASSUME CallInv, [TaskNext]_taskVars PROVE CallInv'
  OBVIOUS
<1>1. CASE [CallNext]_callVars
  BY <1>1, CallStepInv
<1>2. CASE CallOver
  BY <1>2, ResetInv DEF CallOver
<1>3. [CallNext]_callVars \/ CallOver
  BY DEF TaskNext, SolverStep, CallStarts, CallGoesOn, CallAnswers, CallFails, CallRaises,
         TaskCancelled, CallNext, taskVars
<1>4. QED
  BY <1>1, <1>2, <1>3

(* The invariant of a call holds inside the task. *)
THEOREM TaskCallInvariance == TaskSpec => []CallInv
<1>1. TaskInit => CallInv
  BY CallInitInv DEF TaskInit
<1>2. QED
  BY <1>1, TaskCallStep, PTL DEF TaskSpec

(* Attempt by attempt, every step of the task is a step of the solver or       *)
(* leaves it alone, for all limits: the safety part of ImplementsSolver.       *)
THEOREM TaskIsSolver == TaskSpec => Spec
<1>1. TaskInit => Init
  BY DEF TaskInit
<1>2. QED
  BY <1>1, TaskStepIsSolverStep, TaskCallInvariance, PTL DEF TaskSpec, Spec

-----------------------------------------------------------------------------
(* Questions whose calls are over. *)
CallsOver == IF pc = "stakeholder" THEN rt.question_count - 1 ELSE rt.question_count

Blamed ==
  metadata["structural"] + metadata["semantic"] + metadata["output_exhaustion"]
    + metadata["provider"]

TaskInv ==
  /\ CallInv
  /\ GenerationsBounded
  /\ metadata \in [Counters -> Nat] /\ spent \in Nat
  /\ phase = "idle" => generations = 0
  /\ pc # "stakeholder" => phase = "idle"
  /\ spent <= CallsOver * AttemptsPerTurn + generations
  /\ Blamed + 2 * rt.stakeholder_turns + generations <= spent

LEMMA TaskTypes ==
  ASSUME SolverInv, TaskInv
  PROVE  /\ rt.question_count \in Nat /\ rt.stakeholder_turns \in Nat
         /\ rt.question_count <= MaxTurns
         /\ generations \in Nat /\ spent \in Nat /\ generated \in Nat
         /\ Blamed \in Nat
         /\ \A c \in Counters : metadata[c] \in Nat
         /\ CallsOver * AttemptsPerTurn \in Int
         /\ CallsOver \in Int
<1>1. /\ rt \in Store /\ Valid(rt) /\ generated \in Nat
      /\ generations \in Nat /\ spent \in Nat /\ metadata \in [Counters -> Nat]
  BY DEF SolverInv, TypeOK, RuntimeValid, TaskInv, CallInv, CallTypeOK
<1>2. rt.question_count \in Nat /\ rt.stakeholder_turns \in Nat /\ rt.question_count <= MaxTurns
  BY <1>1, StoreFields DEF Valid, CountersBounded
<1>3. \A c \in Counters : metadata[c] \in Nat
  BY <1>1
<1>4. Blamed \in Nat
  BY <1>3 DEF Blamed, Counters
<1>5. CallsOver \in Int
  BY <1>2 DEF CallsOver
<1>6. CallsOver * AttemptsPerTurn \in Int
  BY <1>5, AttemptLimits
<1>7. QED
  BY <1>1, <1>2, <1>3, <1>4, <1>5, <1>6

(* What a step of the solver alone does to the numbers of questions and answers. *)
LEMMA SolverStepCounts ==
  ASSUME SolverInv, Candidate \/ LastTurnAnswered \/ NextTurn \/ Finish \/ Resume \/ Rest
  PROVE  /\ pc # "stakeholder"
         /\ rt'.stakeholder_turns = rt.stakeholder_turns
         /\ \/ /\ pc' = "stakeholder" /\ rt'.question_count = rt.question_count + 1
            \/ /\ pc' # "stakeholder" /\ rt'.question_count = rt.question_count
<1>1. /\ rt \in Store /\ local \in Store /\ SameCounts(local, rt) /\ SameCounts(disk, rt)
  BY DEF SolverInv, TypeOK
<1>2. CASE StartTurn \/ StartGeneration \/ LeaveLoop
  BY <1>1, <1>2, RecordTurnEffect, RecordStepEffect
     DEF StartTurn, StartGeneration, LeaveLoop, Save, Goto, stores
<1>3. ASSUME NEW s \in Store, SameCounts(s, rt), NEW why, GiveUp(s, why)
      PROVE  /\ pc' = "finish" /\ rt'.stakeholder_turns = rt.stakeholder_turns
             /\ rt'.question_count = rt.question_count
  BY <1>3, FailEffect DEF GiveUp, Save, SameCounts
<1>4. SameCounts(rt, rt)
  BY DEF SameCounts
<1>5. CASE \/ TurnsExhausted \/ StepsExhausted \/ GenerateRaises \/ GenerateUnusable
           \/ GenerateBlankQuestion \/ ToolsRaise \/ LastTurnAnswered
  <2>1. pc # "stakeholder" /\ \E s \in {rt, local} : \E why : GiveUp(s, why)
    BY <1>5 DEF TurnsExhausted, StepsExhausted, GenerateRaises, GenerateUnusable,
                GenerateBlankQuestion, ToolsRaise, LastTurnAnswered
  <2>2. QED
    BY <1>1, <1>3, <1>4, <2>1
<1>6. CASE GenerateToolCalls \/ GenerateQuestion \/ AskRaises \/ NextTurn
  BY <1>6 DEF GenerateToolCalls, GenerateQuestion, AskRaises, NextTurn, Goto, stores
<1>7. CASE ToolWithoutEffect \/ ToolsReturn
  BY <1>7 DEF ToolWithoutEffect, ToolsReturn, NextCall, stores
<1>8. CASE ToolMutates
  <2>1. pc = "tools" /\ pc' = "tools" /\ \E graph : rt' = ApplyGraph(rt, graph)
    BY <1>8 DEF ToolMutates, NextCall, ToolSaves
  <2>2. QED
    BY <1>1, <2>1, ApplyGraphEffect DEF SameCounts
<1>9. CASE ToolCompletes
  <2>1. pc = "tools" /\ pc' = "tools" /\ \E why : rt' = Complete(rt, why)
    BY <1>9 DEF ToolCompletes, NextCall, ToolSaves
  <2>2. QED
    BY <1>1, <2>1, CompleteEffect DEF SameCounts
<1>10. CASE AskQuestion
  BY <1>1, <1>10, AskEffect DEF AskQuestion, Save, Goto
<1>11. CASE Finish \/ Resume \/ Rest
  BY <1>1, <1>11 DEF Finish, Resume, Rest, Save, Goto, vars, stores, SameCounts
<1>12. QED
  BY <1>2, <1>5, <1>6, <1>7, <1>8, <1>9, <1>10, <1>11 DEF Candidate

LEMMA CountersAreNat ==
  ASSUME CallTypeOK
  PROVE  Failures("plan") \in Nat /\ Failures("realization") \in Nat /\ Providers \in Nat
<1>1. \A p \in Phases, c \in Counters : diagnostics[p][c] \in Nat
  BY DEF CallTypeOK
<1>2. QED
  BY <1>1 DEF Failures, Providers, Phases, Counters

(* A step of the solver alone: the call under way, if any, is not its business. *)
LEMMA SolverStepInv == ASSUME SolverInv, TaskInv, SolverStep PROVE TaskInv'
<1>1. /\ UNCHANGED <<phase, attempt, diagnostics, reason, generations>>
      /\ metadata' = metadata /\ spent' = spent
  BY DEF SolverStep, callVars
<1>2. /\ pc # "stakeholder"
      /\ rt'.stakeholder_turns = rt.stakeholder_turns
      /\ \/ /\ pc' = "stakeholder" /\ rt'.question_count = rt.question_count + 1
         \/ /\ pc' # "stakeholder" /\ rt'.question_count = rt.question_count
  BY SolverStepCounts DEF SolverStep
<1>3. CallInv'
  BY TaskCallStep DEF TaskInv, TaskNext
<1>4. GenerationsBounded'
  BY <1>1 DEF TaskInv, GenerationsBounded
<1>5. CallsOver' = CallsOver /\ Blamed' = Blamed
  BY <1>1, <1>2, TaskTypes DEF CallsOver, Blamed
<1>6. QED
  BY <1>1, <1>2, <1>3, <1>4, <1>5 DEF TaskInv

(* The call begins, or goes on by one generation. *)
LEMMA CallUnderWayInv == ASSUME SolverInv, TaskInv, CallStarts \/ CallGoesOn PROVE TaskInv'
<1>1. /\ pc = "stakeholder" /\ UNCHANGED <<pc, rt>> /\ metadata' = metadata
  BY DEF CallStarts, CallGoesOn, vars, stores
<1>2. CallsOver' = CallsOver /\ Blamed' = Blamed
  BY <1>1 DEF CallsOver, Blamed
<1>3. CallInv'
  BY TaskCallStep DEF TaskInv, TaskNext
<1>4. CASE CallStarts
  <2>1. /\ generations = 0 /\ generations' = 0 /\ attempt' = 0 /\ phase' # "idle"
        /\ spent' = spent
    BY <1>4 DEF CallStarts, Invoke, SetupRaises, TaskInv
  <2>2. GenerationsBounded'
    BY <2>1, ResetBounded
  <2>3. QED
    BY <1>1, <1>2, <1>3, <2>1, <2>2 DEF TaskInv
<1>5. CASE CallGoesOn
  <2>1. /\ Attempt /\ phase \in Phases /\ generations' = generations + 1 /\ spent' = spent + 1
    BY <1>5 DEF CallGoesOn, Attempt
  <2>2. GenerationsBounded' /\ phase' # "idle"
    <3>1. phase' # "idle"
      BY <2>1 DEF Attempt, AttemptPasses, AttemptRetried, AttemptEndsCall, Phases
    <3>2. QED
      BY <2>1, <3>1, AttemptBounded DEF TaskInv, CallInv
  <2>3. /\ spent' <= CallsOver' * AttemptsPerTurn + generations'
        /\ Blamed' + 2 * rt'.stakeholder_turns + generations' <= spent'
    BY <1>1, <1>2, <2>1, TaskTypes DEF TaskInv
  <2>4. spent' \in Nat
    BY <2>1, TaskTypes
  <2>5. QED
    BY <1>1, <1>3, <2>2, <2>3, <2>4 DEF TaskInv
<1>6. QED
  BY <1>4, <1>5

-----------------------------------------------------------------------------
(* The call is over, in one of four ways.  Whatever it made of its attempts,   *)
(* the question is paid for now.                                               *)
LEMMA CallOverPaid ==
  ASSUME SolverInv, TaskInv, pc = "stakeholder", pc' # "stakeholder",
         rt'.question_count = rt.question_count, CallOver
  PROVE  /\ CallInv' /\ GenerationsBounded' /\ spent' = spent
         /\ phase' = "idle" /\ generations' = 0
         /\ spent' <= CallsOver' * AttemptsPerTurn + generations'
<1>1. /\ phase' = "idle" /\ generations' = 0 /\ attempt' = 0 /\ spent' = spent
      /\ diagnostics' = NoDiagnostics /\ reason' = NoReason
  BY DEF CallOver
<1>2. CallInv' /\ GenerationsBounded'
  BY <1>1, ResetInv, ResetBounded
<1>3. generations <= AttemptsPerTurn
  <2>1. phase \in Phases => attempt < MaxAttempts[phase] /\ attempt \in Nat
    BY DEF TaskInv, CallInv, CallTypeOK
  <2>2. QED
    BY <2>1, TaskTypes, AttemptLimits DEF TaskInv, GenerationsBounded, Phases
<1>4. /\ CallsOver = rt.question_count - 1 /\ CallsOver' = rt.question_count
  BY DEF CallsOver
<1>5. rt.question_count * AttemptsPerTurn
        = (rt.question_count - 1) * AttemptsPerTurn + AttemptsPerTurn
  BY TaskTypes, AttemptLimits
<1>6. /\ (rt.question_count - 1) * AttemptsPerTurn \in Int
      /\ rt.question_count * AttemptsPerTurn \in Int
  BY TaskTypes, AttemptLimits
<1>7. spent <= rt.question_count * AttemptsPerTurn
  BY <1>3, <1>4, <1>5, <1>6, TaskTypes, AttemptLimits DEF TaskInv
<1>8. CallsOver' * AttemptsPerTurn = rt.question_count * AttemptsPerTurn
  BY <1>4
<1>9. QED
  BY <1>1, <1>2, <1>6, <1>7, <1>8

(* What merged() adds to the metadata: the failures of both phases. *)
LEMMA RecordedBlame ==
  ASSUME SolverInv, TaskInv, RecordDiagnostics
  PROVE  /\ metadata' \in [Counters -> Nat]
         /\ Blamed' = Blamed + Failures("plan") + Failures("realization") + Providers
<1>1. metadata \in [Counters -> Nat] /\ diagnostics \in [Phases -> [Counters -> Nat]]
  BY DEF TaskInv, CallInv, CallTypeOK
<1>2. \A p \in Phases, c \in Counters : diagnostics[p][c] \in Nat
  BY <1>1
<1>3. \A c \in Counters :
        /\ metadata'[c] = metadata[c] + diagnostics["plan"][c] + diagnostics["realization"][c]
        /\ metadata[c] \in Nat
  BY <1>1 DEF RecordDiagnostics
<1>4. metadata' \in [Counters -> Nat]
  BY <1>1, <1>2 DEF RecordDiagnostics, Phases
<1>5. QED
  BY <1>2, <1>3, <1>4 DEF Blamed, Failures, Providers, Counters, Phases

LEMMA CallOverInv ==
  ASSUME SolverInv, TaskInv, CallAnswers \/ CallFails \/ CallRaises \/ TaskCancelled
  PROVE  TaskInv'
<1>1. /\ rt \in Store /\ local \in Store /\ SameCounts(local, rt)
      /\ pc = "stakeholder" => local = rt
  BY DEF SolverInv, TypeOK
<1>2. CallOver
  BY DEF CallAnswers, CallFails, CallRaises, TaskCancelled
<1>3. CASE CallAnswers
  <2>1. /\ pc = "stakeholder" /\ pc' = "answered" /\ phase = "answered"
        /\ rt'.question_count = rt.question_count
        /\ rt'.stakeholder_turns = rt.stakeholder_turns + 1
    BY <1>1, <1>3, IngestEffect DEF CallAnswers, StakeholderAnswers, Save, Goto
  <2>2. generations = 2 + Failures("plan") + Failures("realization") + Providers
    BY <2>1 DEF TaskInv, CallInv, EveryGenerationAccounted, PhasesPassed
  <2>3. /\ metadata' \in [Counters -> Nat]
        /\ Blamed' = Blamed + Failures("plan") + Failures("realization") + Providers
    BY <1>3, RecordedBlame DEF CallAnswers
  <2>4. Failures("plan") \in Nat /\ Failures("realization") \in Nat /\ Providers \in Nat
    BY CountersAreNat DEF TaskInv, CallInv
  <2>5. Blamed' + 2 * rt'.stakeholder_turns + 0 <= spent
    BY <2>1, <2>2, <2>3, <2>4, TaskTypes DEF TaskInv
  <2>6. QED
    BY <1>2, <2>1, <2>3, <2>5, CallOverPaid DEF TaskInv
<1>4. CASE CallFails
  <2>1. /\ pc = "stakeholder" /\ pc' = "finish"
        /\ rt'.question_count = rt.question_count
        /\ rt'.stakeholder_turns = rt.stakeholder_turns
    BY <1>1, <1>4, FailEffect DEF CallFails, StakeholderFails, GiveUp, Save, SameCounts
  <2>2. generations = PhasesPassed + Failures("plan") + Failures("realization") + Providers
    BY DEF TaskInv, CallInv, EveryGenerationAccounted
  <2>3. /\ metadata' \in [Counters -> Nat]
        /\ Blamed' = Blamed + Failures("plan") + Failures("realization") + Providers
    BY <1>4, RecordedBlame DEF CallFails
  <2>4. Failures("plan") \in Nat /\ Failures("realization") \in Nat /\ Providers \in Nat
        /\ PhasesPassed \in Nat
    BY CountersAreNat DEF TaskInv, CallInv, PhasesPassed
  <2>5. Blamed' + 2 * rt'.stakeholder_turns + 0 <= spent
    BY <2>1, <2>2, <2>3, <2>4, TaskTypes DEF TaskInv
  <2>6. QED
    BY <1>2, <2>1, <2>3, <2>5, CallOverPaid DEF TaskInv
<1>5. CASE CallRaises
  <2>1. /\ pc = "stakeholder" /\ pc' = "down" /\ rt' = rt /\ metadata' = metadata
    BY <1>5 DEF CallRaises, StakeholderRaises, Goto, stores
  <2>2. Blamed' = Blamed
    BY <2>1 DEF Blamed
  <2>3. Blamed' + 2 * rt'.stakeholder_turns + 0 <= spent
    BY <2>1, <2>2, TaskTypes DEF TaskInv
  <2>4. QED
    BY <1>2, <2>1, <2>3, CallOverPaid DEF TaskInv
<1>6. CASE TaskCancelled
  <2>1. /\ pc' = "down" /\ rt' = rt /\ metadata' = metadata
    BY <1>6 DEF TaskCancelled, Cancel, stores
  <2>2. Blamed' = Blamed
    BY <2>1 DEF Blamed
  <2>3. Blamed' + 2 * rt'.stakeholder_turns + 0 <= spent
    BY <2>1, <2>2, TaskTypes DEF TaskInv
  <2>4. CASE pc = "stakeholder"
    BY <1>2, <2>1, <2>3, <2>4, CallOverPaid DEF TaskInv
  <2>5. CASE pc # "stakeholder"
    <3>1. generations = 0 /\ generations' = 0 /\ phase' = "idle" /\ spent' = spent
          /\ attempt' = 0
      BY <1>2, <2>5 DEF TaskInv, CallOver
    <3>2. CallInv' /\ GenerationsBounded'
      BY <1>2, <3>1, ResetInv, ResetBounded DEF CallOver
    <3>3. CallsOver' = CallsOver
      BY <2>1, <2>5 DEF CallsOver
    <3>4. QED
      BY <2>1, <2>3, <3>1, <3>2, <3>3 DEF TaskInv
  <2>6. QED
    BY <2>4, <2>5
<1>7. QED
  BY <1>3, <1>4, <1>5, <1>6

-----------------------------------------------------------------------------
LEMMA TaskInitInv == TaskInit => TaskInv
<1> SUFFICES ASSUME TaskInit PROVE TaskInv
  OBVIOUS
<1>1. CallInv
  BY CallInitInv DEF TaskInit
<1>2. /\ phase = "idle" /\ generations = 0 /\ attempt = 0 /\ pc = "loop" /\ spent = 0
      /\ metadata = [c \in Counters |-> 0]
  BY DEF TaskInit, CallInit, Init
<1>3. GenerationsBounded
  BY <1>2, AttemptLimits DEF GenerationsBounded
<1>4. SolverInv
  BY InitInv DEF TaskInit
<1>5. rt.question_count = 0 /\ rt.stakeholder_turns = 0
  BY SolverLedgers, CreateStoreFacts DEF TaskInit, Init
<1>6. CallsOver * AttemptsPerTurn = 0
  BY <1>2, <1>5, AttemptLimits DEF CallsOver
<1>7. Blamed = 0
  BY <1>2 DEF Blamed, Counters
<1>8. QED
  BY <1>1, <1>2, <1>3, <1>5, <1>6, <1>7 DEF TaskInv

LEMMA TaskStepInv == SolverInv /\ TaskInv /\ [TaskNext]_taskVars => TaskInv'
<1> SUFFICES ASSUME SolverInv, TaskInv, [TaskNext]_taskVars PROVE TaskInv'
  OBVIOUS
<1>1. CASE SolverStep
  BY <1>1, SolverStepInv
<1>2. CASE CallStarts \/ CallGoesOn
  BY <1>2, CallUnderWayInv
<1>3. CASE CallAnswers \/ CallFails \/ CallRaises \/ TaskCancelled
  BY <1>3, CallOverInv
<1>4. CASE UNCHANGED taskVars
  <2>1. CallInv'
    BY <1>4, TaskCallStep DEF TaskInv
  <2>2. QED
    BY <1>4, <2>1 DEF taskVars, callVars, vars, stores, TaskInv, GenerationsBounded,
                      CallsOver, Blamed
<1>5. QED
  BY <1>1, <1>2, <1>3, <1>4 DEF TaskNext

(* Solver and call keep their invariants inside the task, and the accounts     *)
(* between them agree.                                                         *)
THEOREM TaskInvariance == TaskSpec => [](SolverInv /\ TaskInv)
<1>1. TaskSpec => []SolverInv
  BY TaskIsSolver, Invariance, PTL
<1>2. QED
  BY <1>1, TaskInitInv, TaskStepInv, PTL DEF TaskSpec

(* For every number of turns, steps and attempts: retries and resumptions      *)
(* included, the task stays below the limit on model turns it sets itself.     *)
THEOREM TaskBelowTurnLimit == TaskSpec => []BelowTurnLimit
<1>1. SolverInv /\ TaskInv => BelowTurnLimit
  <2> SUFFICES ASSUME SolverInv, TaskInv PROVE generated + spent < TurnLimit
    BY DEF BelowTurnLimit
  <2>1. /\ MaxTurns \in Nat \ {0} /\ MaxSteps \in Nat \ {0} /\ AttemptsPerTurn \in Nat
    BY LimitsPositive, AttemptLimits
  <2>2. generated <= MaxTurns * MaxSteps
    BY GenerationBudgetInv DEF GenerationBudget
  <2>3. spent <= MaxTurns * AttemptsPerTurn
    <3>1. spent <= rt.question_count * AttemptsPerTurn
      <4>1. CASE pc = "stakeholder"
        <5>1. generations <= AttemptsPerTurn
          <6>1. phase \in Phases => attempt < MaxAttempts[phase] /\ attempt \in Nat
            BY DEF TaskInv, CallInv, CallTypeOK
          <6>2. QED
            BY <6>1, TaskTypes, AttemptLimits DEF TaskInv, GenerationsBounded, Phases
        <5>2. spent <= (rt.question_count - 1) * AttemptsPerTurn + generations
          BY <4>1 DEF TaskInv, CallsOver
        <5>3. rt.question_count * AttemptsPerTurn
                = (rt.question_count - 1) * AttemptsPerTurn + AttemptsPerTurn
          BY TaskTypes, AttemptLimits
        <5>4. /\ (rt.question_count - 1) * AttemptsPerTurn \in Int
              /\ rt.question_count * AttemptsPerTurn \in Int
          BY TaskTypes, AttemptLimits
        <5>5. QED
          BY <5>1, <5>2, <5>3, <5>4, TaskTypes, AttemptLimits
      <4>2. CASE pc # "stakeholder"
        <5>1. spent <= rt.question_count * AttemptsPerTurn + 0
          BY <4>2 DEF TaskInv, CallsOver
        <5>2. rt.question_count * AttemptsPerTurn \in Int
          BY TaskTypes, AttemptLimits
        <5>3. QED
          BY <5>1, <5>2
      <4>3. QED
        BY <4>1, <4>2
    <3>2. MaxTurns * AttemptsPerTurn
            = rt.question_count * AttemptsPerTurn + (MaxTurns - rt.question_count) * AttemptsPerTurn
      BY <2>1, TaskTypes
    <3>3. (MaxTurns - rt.question_count) * AttemptsPerTurn \in Nat
      BY <2>1, TaskTypes
    <3>4. /\ rt.question_count * AttemptsPerTurn \in Int /\ MaxTurns * AttemptsPerTurn \in Int
      BY <2>1, TaskTypes
    <3>5. QED
      BY <3>1, <3>2, <3>3, <3>4, TaskTypes
  <2>4. MaxTurns * (MaxSteps + AttemptsPerTurn + 1)
          = MaxTurns * MaxSteps + MaxTurns * AttemptsPerTurn + MaxTurns
    BY <2>1
  <2>5. MaxTurns * MaxSteps \in Int /\ MaxTurns * AttemptsPerTurn \in Int
    BY <2>1
  <2>6. TurnLimit = MaxTurns * MaxSteps + MaxTurns * AttemptsPerTurn + MaxTurns + 1
    BY <2>4 DEF TurnLimit
  <2>7. QED
    BY <2>1, <2>2, <2>3, <2>5, <2>6, TaskTypes
<1>2. QED
  BY <1>1, TaskInvariance, PTL

(* For all limits, and over all cancellations, the metadata blame the          *)
(* stakeholder for no more generations than were made.                         *)
THEOREM MetadataCoveredBySpent == TaskSpec => []MetadataWithinSpent
<1>1. SolverInv /\ TaskInv => MetadataWithinSpent
  BY TaskTypes DEF TaskInv, MetadataWithinSpent, Blamed
<1>2. QED
  BY <1>1, TaskInvariance, PTL
=============================================================================
