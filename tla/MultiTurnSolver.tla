--------------------------- MODULE MultiTurnSolver ---------------------------
(***************************************************************************)
(* inspect_adapter/multiturn.py: the coroutine that runs a live interview, *)
(* with the tools of inspect_adapter/tools.py.  An action is the code      *)
(* between two suspension points or loop heads.  The coroutine is          *)
(* suspended only where it awaits: the candidate's generation, the         *)
(* execution of its tool calls, the stakeholder's answer.  It can be       *)
(* cancelled there, and a later solve() resumes from the persisted state.  *)
(*                                                                         *)
(* Three copies of the LiveInterviewStore are in play and the code writes  *)
(* them separately: runtime_ref[0], which the tools read and replace (rt); *)
(* the coroutine's own variable runtime (local), which is not refreshed    *)
(* while tools run; and the JSON in Inspect's store (disk).                *)
(***************************************************************************)
EXTENDS LiveStore, CandidateOutput, StakeholderAttempt

CONSTANTS
  InitialLedgers,    \* public histories create_live_interview_store accepts
  MaxTerms,          \* terms one answer confirms, at most
  LateToolErrors     \* may execute_tools raise after a call took effect?

(* The reasons solve() and its tools end an interview with. *)
EndReasons ==
  {"agent_declared", "max_turns_exhausted", "candidate_step_limit_exhausted",
   "candidate_generation_failure", "candidate_output_exhausted",
   "candidate_did_not_ask_question"} \cup FailureReasons

ASSUME EndReasonsGiven == EndReasons \subseteq Reasons \ {Blank}
ASSUME SolverLedgers ==
  \A l \in InitialLedgers : l \in Seq(Role) /\ Valid(CreateStore(l))
ASSUME LateToolErrorsIsFlag == LateToolErrors \in BOOLEAN

VARIABLES
  pc,          \* where the coroutine stands
  rt,          \* runtime_ref[0]
  local,       \* the local variable runtime
  disk,        \* inspect_store.live_state
  calls,       \* tool calls of the current batch still to execute
  stop,        \* stop reason of the output whose tool calls are executed
  generated    \* candidate generations started, over all resumptions

stores == <<rt, local, disk>>
vars == <<pc, stores, calls, stop, generated>>

Awaits == {"generate", "tools", "stakeholder"}
PCs    == Awaits \cup {"loop", "inner", "ask", "answered", "finish", "done", "down"}

(* create, or find nothing persisted; then the first persist (449) *)
Init ==
  /\ \E ledger \in InitialLedgers : rt = CreateStore(ledger)
  /\ local = rt
  /\ disk = rt
  /\ pc = "loop"
  /\ calls = 0
  /\ stop = "none"
  /\ generated = 0

(* mutant: nothing is persisted *)
SaveInMemory(s) == rt' = s /\ local' = s /\ disk' = disk

(* runtime = s; runtime_ref[0] = runtime; persist(runtime) *)
Save(s) == rt' = s /\ local' = s /\ disk' = s

(* the same with an incomplete store, and out of the loops *)
GiveUp(s, reason) ==
  /\ Save(Fail(s, reason))
  /\ pc' = "finish"
  /\ calls' = 0
  /\ stop' = "none"
  /\ UNCHANGED generated

Goto(label) == pc' = label /\ UNCHANGED <<calls, stop, generated>>

-----------------------------------------------------------------------------
(* The outer loop: one interview turn. *)

StartTurn ==
  /\ pc = "loop"
  /\ CanRecordTurn(rt)
  /\ Save(RecordTurn(rt))
  /\ Goto("inner")

TurnsExhausted ==
  /\ pc = "loop"
  /\ Active(rt)
  /\ ~CanRecordTurn(rt)
  /\ GiveUp(rt, "max_turns_exhausted")

(* The inner loop: one candidate generation, paid for before it starts. *)
StartGeneration ==
  /\ pc = "inner"
  /\ CanRecordStep(rt)
  /\ Save(RecordStep(rt))
  /\ pc' = "generate"
  /\ generated' = generated + 1
  /\ UNCHANGED <<calls, stop>>

(* mutant: the step limit is looked at before the status *)
StepsExhaustedFirst ==
  /\ pc = "inner"
  /\ ~CanRecordStep(rt)
  /\ GiveUp(rt, "candidate_step_limit_exhausted")

StepsExhausted ==
  /\ pc = "inner"
  /\ Active(rt)
  /\ ~CanRecordStep(rt)
  /\ GiveUp(rt, "candidate_step_limit_exhausted")

(* Either loop ends when runtime_ref[0] is terminal. *)
LeaveLoop ==
  /\ pc \in {"loop", "inner"}
  /\ ~Active(rt)
  /\ UNCHANGED stores
  /\ Goto("finish")

-----------------------------------------------------------------------------
(* await generate(...) *)

GenerateRaises ==
  /\ pc = "generate"
  /\ GiveUp(rt, "candidate_generation_failure")

UnusableReason ==
  [ provider_error    |-> "candidate_generation_failure",
    output_exhaustion |-> "candidate_output_exhausted",
    empty_completion  |-> "candidate_did_not_ask_question" ]

GenerateUnusable ==
  /\ pc = "generate"
  /\ \E o \in CandidateOutputs :
       /\ Classify(o) \in DOMAIN UnusableReason
       /\ GiveUp(rt, UnusableReason[Classify(o)])

(* runtime = runtime_ref[0], before the tools run (522) *)
GenerateToolCalls ==
  /\ pc = "generate"
  /\ \E o \in CandidateOutputs :
       /\ Classify(o) \in {"tool_call", "invalid_tool_call"}
       /\ calls' = o.tool_calls
       /\ stop' = o.stop
  /\ local' = rt
  /\ pc' = "tools"
  /\ UNCHANGED <<rt, disk, generated>>

GenerateQuestion ==
  /\ pc = "generate"
  /\ \E o \in CandidateOutputs : Classify(o) = "question"
  /\ local' = rt
  /\ UNCHANGED <<rt, disk>>
  /\ Goto("ask")

(* the completion shows text but the message's own text is blank (583-592) *)
GenerateBlankQuestion ==
  /\ pc = "generate"
  /\ \E o \in CandidateOutputs : Classify(o) = "question"
  /\ GiveUp(rt, "candidate_did_not_ask_question")

-----------------------------------------------------------------------------
(* await execute_tools(...): the calls of the batch, one after another. *)

(* mutant: a tool's save does not persist *)
ToolSavesInMemory(s) ==
  /\ rt' = s
  /\ UNCHANGED <<local, disk>>

(* save(updated) in tools.py: the reference and the JSON, not the local *)
ToolSaves(s) ==
  /\ rt' = s
  /\ disk' = s
  /\ UNCHANGED local

NextCall ==
  /\ pc = "tools"
  /\ calls > 0
  /\ calls' = calls - 1
  /\ UNCHANGED <<pc, stop, generated>>

(* a read, a malformed call, or a ToolError: nothing changes *)
ToolWithoutEffect == NextCall /\ UNCHANGED stores

ToolMutates ==
  /\ NextCall
  /\ \E item \in Items, cites \in ObservationIds(rt) \cup {None} :
       \E graph \in { rt.agent_graph \cup {[item |-> item, cites |-> cites]},
                      rt.agent_graph \ {[item |-> item, cites |-> cites]} } :
         /\ CanApplyGraph(rt, graph)
         /\ ToolSaves(ApplyGraph(rt, graph))

ToolCompletes ==
  /\ NextCall
  /\ CanComplete(rt, "agent_declared")
  /\ ToolSaves(Complete(rt, "agent_declared"))

(* An exception out of execute_tools: the handler goes on from local, the    *)
(* store as it was before the batch (563-570).                               *)
ToolsRaise ==
  /\ pc = "tools"
  /\ LateToolErrors \/ rt = local
  /\ GiveUp(local, "candidate_generation_failure")

(* mutant: the local variable is written back to the reference as well *)
ToolsReturnStale ==
  /\ pc = "tools"
  /\ calls = 0
  /\ Save(local)
  /\ stop' = "none"
  /\ pc' = "inner"
  /\ UNCHANGED <<calls, generated>>

(* The batch is done: persist(runtime) writes local (577), then the inner    *)
(* loop looks at runtime_ref[0] again.                                       *)
ToolsReturn ==
  /\ pc = "tools"
  /\ calls = 0
  /\ disk' = local
  /\ stop' = "none"
  /\ pc' = IF Active(local) THEN "inner" ELSE "finish"
  /\ UNCHANGED <<rt, local, calls, generated>>

-----------------------------------------------------------------------------
(* The question and await invoke_stakeholder_response_with_plan(...). *)

AskQuestion ==
  /\ pc = "ask"
  /\ CanAsk(rt)
  /\ Save(Ask(rt))
  /\ Goto("stakeholder")

(* an older question is still open: record_candidate_question raises, and   *)
(* so does solve()                                                           *)
AskRaises ==
  /\ pc = "ask"
  /\ ~CanAsk(rt)
  /\ UNCHANGED stores
  /\ Goto("down")

StakeholderAnswers ==
  /\ pc = "stakeholder"
  /\ \E proposals \in SUBSET TurnsOf(local.public_message_ledger, "assistant") :
       /\ Cardinality(proposals) <= MaxTerms
       /\ CanIngest(local, NextPublicTurn(local), proposals)
       /\ Save(Ingest(local, NextPublicTurn(local), proposals))
  /\ Goto("answered")

(* a StakeholderResponseError; the question stays in the ledger, unanswered *)
StakeholderFails(reason) ==
  /\ pc = "stakeholder"
  /\ GiveUp(local, reason)

(* any other exception leaves solve() *)
StakeholderRaises ==
  /\ pc = "stakeholder"
  /\ UNCHANGED stores
  /\ Goto("down")

(* The question of the last turn has had its answer (646-650). *)
LastTurnAnswered ==
  /\ pc = "answered"
  /\ local.candidate_turns >= MaxTurns
  /\ GiveUp(local, "max_turns_exhausted")

NextTurn ==
  /\ pc = "answered"
  /\ local.candidate_turns < MaxTurns
  /\ UNCHANGED stores
  /\ Goto("loop")

-----------------------------------------------------------------------------
(* mutant: the last persist is left out *)
FinishUnpersisted ==
  /\ pc = "finish"
  /\ local' = rt
  /\ UNCHANGED <<rt, disk>>
  /\ Goto("done")

Finish ==
  /\ pc = "finish"
  /\ local' = rt
  /\ disk' = rt
  /\ UNCHANGED rt
  /\ Goto("done")

(* Cancelled at an await: what is in memory is gone. *)
Cancel ==
  /\ pc \in Awaits
  /\ pc' = "down"
  /\ calls' = 0
  /\ stop' = "none"
  /\ UNCHANGED <<stores, generated>>

(* solve() on a store that holds a live state (355-361, 390, 449). *)
Resume ==
  /\ pc = "down"
  /\ Valid(disk)
  /\ Save(disk)
  /\ Goto("loop")

Candidate ==
  \/ StartTurn \/ TurnsExhausted \/ StartGeneration \/ StepsExhausted \/ LeaveLoop
  \/ GenerateRaises \/ GenerateUnusable \/ GenerateToolCalls
  \/ GenerateQuestion \/ GenerateBlankQuestion
  \/ ToolWithoutEffect \/ ToolMutates \/ ToolCompletes \/ ToolsRaise \/ ToolsReturn
  \/ AskQuestion \/ AskRaises

Stakeholder ==
  \/ StakeholderAnswers
  \/ \E reason \in FailureReasons : StakeholderFails(reason)
  \/ StakeholderRaises

Solve == Candidate \/ Stakeholder \/ LastTurnAnswered \/ NextTurn \/ Finish \/ Resume

(* A finished interview stays as it is. *)
Rest == pc = "done" /\ UNCHANGED vars

Next == Solve \/ Cancel \/ Rest

Spec == Init /\ [][Next]_vars

(* Every await returns or raises, the coroutine runs on, and an interview    *)
(* that stopped half-way is run again.  Nothing limits how often it stops.   *)
FairSpec == Spec /\ WF_vars(Solve)

-----------------------------------------------------------------------------
(* Properties *)

TypeOK ==
  /\ pc \in PCs
  /\ rt \in Store /\ local \in Store /\ disk \in Store
  /\ calls \in 0..MaxBatch
  /\ stop \in StopReasons
  /\ generated \in Nat

(* The validator never refuses what the solver does: no copy of the runtime   *)
(* the solver builds breaks a cross-field condition, so that neither          *)
(* "could not update live interview state" nor "invalid persisted live        *)
(* interview state" can end an interview, at any point of any run.            *)
RuntimeValid == Valid(rt) /\ Valid(local) /\ Valid(disk)

(* Wherever the coroutine can be suspended, cancelled or ended, the persisted *)
(* state is the runtime's: a resumption loses nothing.  In between it is not: *)
(* persist(runtime) after a tool batch writes the store of before the batch.  *)
AwaitsPersisted == pc \in Awaits \cup {"down", "done"} => disk = rt

(* Steps are paid for before the generation, turns before the steps: however  *)
(* often an interview is cancelled and resumed, the candidate model is called *)
(* at most MaxTurns * MaxSteps times.                                         *)
GenerationBudget == generated <= MaxTurns * MaxSteps

(* Giving up on the stakeholder fabricates nothing: the question it failed to *)
(* answer is still the last public message.                                   *)
FailedQuestionStaysOpen == rt.protocol_state.reason \in FailureReasons => Pending(rt)

(* A truncated generation cannot mutate the graph or complete the interview   *)
(* (multiturn.py 501-504).                                                    *)
Completed(s) == s.protocol_state.status = "completed"

NoTruncatedEffect ==
  [][ (rt'.agent_graph # rt.agent_graph \/ (Completed(rt') /\ ~Completed(rt)))
        => stop \in {"none", "stop", "tool_calls"} ]_vars

(* A terminal interview is terminal: nothing changes the runtime any more.    *)
TerminalIsFinal == [][~Active(rt) => rt' = rt]_vars

(* What a tool did to the graph only another tool call undoes: no receipt     *)
(* "ok" is followed by a runtime without the mutation.                        *)
ReceiptsHold ==
  [][rt'.agent_graph # rt.agent_graph => pc = "tools" /\ pc' = "tools"]_vars

(* An interview that stopped while its question was out is never completed:   *)
(* no code asks the stakeholder again, and completion refuses an open         *)
(* question.                                                                  *)
StrandedNeverCompletes ==
  [](pc = "down" /\ Pending(rt) => [](rt.protocol_state.status # "completed"))

(* Every interview ends, however often it is cancelled: a resumption costs a  *)
(* turn.                                                                      *)
EveryInterviewEnds == <>(pc = "done" /\ ~Active(disk))

(* The runtime follows the turn protocol, resumptions included. *)
Protocol_ ==
  INSTANCE TurnProtocol WITH
    MaxQuestions <- MaxTurns,
    status   <- rt.protocol_state.status,
    open     <- Pending(rt),
    asked    <- rt.question_count,
    answered <- rt.stakeholder_turns

ImplementsTurnProtocol == Protocol_!Spec
=============================================================================
