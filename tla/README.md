# Verification of business-interview-bench

This directory holds TLA+ modules that model business-interview-bench: the live
interview, the interview state and its agent, the graphs both sides build, what
a stakeholder knows, and the comparison that scores an interview. TLC
configurations check them on small instances, and TLAPS proofs hold for every
value of the constants. Paths
below are relative to the package directories `src/business_interview` (`bi/`)
and `src/business_interview_bench` (`bench/`) of the repository.

## 1. The system

A benchmark runs an interview between a *candidate* (the model under test),
which asks questions and builds a graph of a business process with tools, and a
*stakeholder* (a second model) that knows the process and answers. The harness
keeps everything in one immutable-by-operation store, which is later scored
against the truth.

| component | state it keeps | operations | what can go wrong |
|---|---|---|---|
| live interview store, `bi/runtime.py` | public messages, observations, private semantic entries, agent graph, counters, protocol state | record turn / step / question, apply graph, ingest answer, complete, give up | the guards of the operations and the cross-field validator disagree; a part of the history is lost or rewritten; a terminal interview changes |
| multi-turn solver, `bench/inspect_adapter/multiturn.py` | three copies of the store: `runtime_ref[0]`, the local `runtime`, the persisted JSON | one coroutine, suspended at three awaits | copies used stale after an await, cancellation and resumption at any await, exceptions out of a tool batch |
| interview tools, `.../tools.py` | none (the reference and the persisted JSON) | reads, graph mutations, `complete_interview` | what a tool saved is overwritten |
| candidate output, `.../candidate.py` | none | classification | a truncated output is executed |
| stakeholder call, `.../stakeholder.py` | attempt number, counters of each phase | plan, realize, retry, give up | attempts miscounted, wrong failure reason, unbounded retries |
| interview task, `multiturn.py`, `task.py` | metadata counters, limits | composition | the Task's limit on turns cuts interviews short |
| interview state and tools, `bi/interview_state.py`, `bi/interview_tools.py` | utterances, claims, business model, evidence counter | seven typed operations | claims and projection diverge, evidence numbers reused after a restart |
| interview state agent, `bench/interview_agent.py` | interview state, public and provider conversation, completion gate, metadata, checkpoint file | process utterance, finish, mark stopped, save, resume; the command line that calls them | a failed, cancelled or crashed turn half recorded, a checkpoint that cannot be loaded, a reply shown and lost, completion outside `finish` |
| graphs and their mutations, `bi/graph_mutations.py`, `bi/models/` | a graph | add, update, remove, set, attach evidence | dangling references, citations of what nobody said, claims changed by attaching evidence |
| stakeholder knowledge, `bi/stakeholders/` | none | sample, contract, mask, validate, draw again | the order of contraction matters, a profile knows what it must not, a useless retry |
| comparison and evaluation, `bi/comparison/`, `bi/evaluation/` | none | assignment, alignment of concepts, nodes and edges, metrics | a mapping that is no optimum, a match that depends on names, a full score for an unfaithful graph |

The components interact by direct calls within one asyncio task. The solver
calls the store's operations and awaits the candidate, the tool batch and the
stakeholder call. The tools replace the solver's reference behind its back
while it is suspended, which is the one place where two writers meet. The graph
mutations are what those tools apply; the stakeholder projection is made before
an interview and the comparison after it. The interview state agent is a program
of its own over the interview state and tools; its command line is where a
process may crash and be started again.

What is hard about it, and where a test hardly reaches (PROJECT.json lists each
at its line):

* the solver is suspended at three awaits, can be cancelled there, and is run
  again on the persisted state; its three copies of the store are written
  separately;
* a tool batch can raise after some of its calls took effect;
* the stakeholder call has two retry loops, four kinds of failure per attempt
  and counters that are merged at the end;
* the durable states (the live store, the interview state, the agent graph) are
  replaced as a whole by operations whose guards and whose validator were written
  apart, and the evidence in a graph is walked twice, once by the runtime and once
  by the evaluator, each in its own way;
* the agent's turn may fail, be cancelled or crash at any step, before, while and
  after its checkpoint is written, and replies are printed in two places;
* pure algorithms whose result must not depend on an order: contraction of
  forgotten nodes, matching of interchangeable nodes, the Hungarian method with
  ties;
* corrections, evidence numbers and restarts of the interview state interleave
  over long sequences of legal calls.

The program runs in one asyncio task per interview. There are no threads and no
locks, so nothing in it can wait for something else forever; the only
interleavings are those of awaits, callbacks and cancellations.

## 2. Modules

| module | models | state and actions |
|---|---|---|
| `TurnProtocol` | what a live interview promises, whoever runs it: questions and answers alternate, none is open at completion, terminal is terminal | abstract specification: `Ask`, `Answer`, `Complete`, `Fail` |
| `LiveStore` | `bi/runtime.py`: a store as a record, each operation as a guard `CanXxx` and a builder `Xxx`, the cross-field validator as `Valid` in named parts | none (operators) |
| `LiveStoreAPI` | the operations called in any order with any arguments | `store`, `outcome` (ok, refused by a guard, rejected by the validator) |
| `CandidateOutput` | `candidate.py`: `Classify`, test by test in the code's order | none |
| `StakeholderAttempt` | one generation of the stakeholder and the failure reasons | none |
| `StakeholderCall` | `invoke_stakeholder_response_with_plan`: plan, then realization, with their attempts | `phase`, `attempt`, `diagnostics`, `reason`, `generations`; `Invoke`, `SetupRaises`, `Attempt` |
| `MultiTurnSolver` | `solve()` with the tools of `tools.py`: an action is the code between two awaits or loop heads | `pc`, `rt` (`runtime_ref[0]`), `local` (`runtime`), `disk` (persisted JSON), `calls`, `stop`, `generated` |
| `InterviewTask` | solver and stakeholder call composed: the solver's one await of the stakeholder, attempt by attempt | those of both, `metadata`, `spent` |
| `InterviewState` | `bi/interview_state.py` and the builders of `bi/interview_tools.py`: a state as a record, guards, builders, the validator `Valid` in named parts, the evidence numbers | none (operators) |
| `InterviewTools` | `InterviewToolExecutor` over `InterviewHarness`: the operations in any order, and a new harness over the old state (`Restart`) | `state`, `next_evidence`, `last` |
| `InterviewAgent` | `bench/interview_agent.py`: the agent, its checkpoint and its command line, in one process after the other | `state`, `public`, `next_number`, `allowed`, `metadata`, `unanswered`, `turn` (the agent), `pc`, `mode`, `then`, `shown` (the command line), `temporary`, `disk` (files); an action per await, file operation and command |
| `AgentGraph` | `bi/models/graph.py`, `epistemic.py`, `concepts.py`: the agent's graph, its validity, the runtime's walk over its evidence (`Grounded`) and the evaluator's (`EvaluatorInvalid`) | none (operators) |
| `GraphMutations` | `bi/graph_mutations.py` under the runtime's check: every operation with its own guard, then `_finish` and the runtime (`Apply`) | `graph`, `observed` |
| `CanonicalGraph` | `bi/models/canonical.py`: processes between SOURCE and SINK | none (operators) |
| `KnowledgeCoverage` | `bi/evaluation/coverage.py`: the addresses of a truth a knowledge graph holds | none (operators) |
| `KnowledgeProjection` | `bi/stakeholders/projection.py`: draw, contract node by node, mask, project, validate, draw again | `call`, `phase`, `attempt`, the sample under way, `knowledge` |
| `Assignment` | `bi/comparison/assignment.py`: the Hungarian method, a step per row, column and flip, and the reference definition `Heaviest` | none (operators over a search record) |
| `GraphComparison` | `bi/comparison/`: concepts by `Assignment`, nodes, edges, metrics, verdict | `input`, `phase`, `search`, the three maps, `metrics` |

`LiveStoreAPI` and `MultiTurnSolver` each implement `TurnProtocol` under the
mapping at the end of the module. `InterviewTask` implements `MultiTurnSolver`
with its fairness. `GraphMutations` and `GraphComparison` share `AgentGraph`;
`KnowledgeProjection` and `GraphComparison` share `CanonicalGraph`. `MC*` modules give the constants of a configuration their
values. `*Proofs` modules hold the theorems of the module they are named after;
`InterviewTaskProofs` also holds those of the two modules it composes,
`MultiTurnSolver` and `StakeholderCall`, and `LiveStoreProofs` the lemmas about
`LiveStore` that two of them share.
A definition preceded by "mutant:" is a plausible bug in the definition that
follows it; PROJECT.json pairs it with the property that catches it. No
specification uses it.

### What the models abstract from

Live interview:

* A message is its role, a graph is a set of facts with the observation each one
  cites, a reason is a name; text, wording and layout are left out. The default
  observation id `obs_N` is the number N, and a caller's own id may collide with
  one.
* Confirmed terms are the turns at which they were proposed: what the validator
  compares (runtime.py, provenance of confirmed terminology) is their order.
* The checks of single fields (`ge=0`, enumerations) are the type invariant.
* An interview starts from an empty graph. The chat messages handed to the
  model (`state.messages`) and `state.completed` are left out: no guard of the
  solver reads them.
* `execute_tools`, `generate` and Inspect's store are outside `src/` and are modelled
  by how the solver uses them: they return what the code distinguishes, or raise.
  Whether `execute_tools` can raise after a call took effect is the constant
  `LateToolErrors`.
* A resumption is `solve()` on a store with a live state. It happens after a
  cancellation and after an exception that leaves `solve()`.

Interview state:

* The projection maps every field of every record to its value; the record
  collections, the entities (actors, systems, data types), the claims and the
  issues are sets. A claim's id is the triple of record, field and revision
  number it is printed from; the printed form determines the triple because a
  field's name has no colon. A question or contradiction is the issue that
  opened it; no operation changes one afterwards.
* `absent` stands for `dont_know` too, `normal` for branch and exception flows
  (which have the same checks), `exception` for business rules. Quotes are exact
  or not; what they say is left out. A request that its own input model refuses
  for its wording (a blank termination reason, a claim listed twice) changes
  nothing and is not enumerated.

Interview state agent:

* Of the interview state, the utterances, a count of changes and whether it has
  ended; what a call records is `InterviewTools`. Of the provider conversation,
  whether it holds tool calls without results.
* An utterance id is a number and a spelling, as `_utterance_number` reads it:
  `u1` and `u01` have the same number, and an id without one has number 0.
* `asyncio.CancelledError` is no `Exception`, so a cancelled turn leaves the metadata
  of the turn before it; `StatusTrue` allows that in a process about to exit.
* A checkpoint is written to a temporary file, which a crash may tear, and moved
  over the old one in one step, as the operating system promises.

Graphs, knowledge and comparison:

* A quote stands for a quote and its occurrence. Kinds, labels and descriptions are
  left out. Identifiers hold no colon; one that does could not be named as the
  target of evidence (graph_mutations.py:806).
* A payload names at most one slot of a node and cites at most one item per
  reference; both are bounds of `GraphMutations`.
* A random draw picks any subset of what may be forgotten, so every seed is covered.
  SOURCE and SINK are told by their identifiers. Two checks of the canonical
  validator (isolated nodes, at least one boundary) follow from the others and
  have no conjunct of their own.
* The lexical similarity of concepts and the topology bonus of nodes are inputs
  with any values; tokenisation and the fingerprints behind them are not modelled.
  Weights are integers (eighths, tenths, quarters), exact for the lists compared;
  the code adds floating-point numbers and takes two sums for equal when they
  are close (alignment.py:406).
* Concepts are of one kind. The counts of fabricated and unsupported elements,
  which enter no verdict, are left out.

Bounds that are part of a specification, not of the code: `MaxEvidence` (evidence
numbers issued) and `MaxClaims` (claims one issue relates) in `InterviewTools`,
`MaxTerms` (terms one answer confirms) in the live interview, `MaxBatch` (tool
calls in one generation), `MaxNumber`, `MaxChanges` and `MaxSessions` in
`InterviewAgent`, `MaxSize` in `GraphMutations`. `MaxTurns`, `MaxSteps`,
`MaxAttempts`, `MaxModelCalls`, `MaxToolCalls` and `ComponentLimit` are limits of
the code; a call of `InterviewAgent` may ask for one tool call more than allowed.

## 3. Runs

| run | configuration | shows |
|---|---|---|
| `livestore_api` | two turns of one step, histories of 0 to 2 messages, colliding and unknown ids | the guards of the store's operations are its contract: the validator stops nothing they let through but a question without a recorded turn; every answer has its observation; the store implements `TurnProtocol` |
| `stakeholder_call` | three attempts per phase, the code's values | every generation is counted once and in its phase, failure reasons name what happened |
| `solver_core` | three turns of two steps, batches of two calls, `LateToolErrors` | no copy of the runtime ever fails its validator; every await, stop and end is persisted; the candidate is called at most `MaxTurns * MaxSteps` times over all resumptions; failed questions stay open; truncated outputs have no effect; an interview stranded with an open question is never completed |
| `solver_protocol` | two turns of two steps, tool batches raise only before a call took effect | terminal is terminal, receipts hold, `TurnProtocol` is implemented, every interview ends however often it is cancelled |
| `solver_late_tool_error` | the same with `LateToolErrors` | a violation: see section 5 |
| `interview_task` | two turns of one step, two attempts per phase | the Task's limit on model turns never cuts an interview short; the metadata never count more failures than generations; the composition implements the solver |
| `interview_history` | one process step with two fields, one issue, two utterances, three evidence numbers | the history of corrections is one gapless line; a revision with an expected claim supersedes that claim; evidence numbers survive restarts; the state can be loaded at any moment; ended is final |
| `interview_records` | two record ids under all three record types, one entity id under two labels, two evidence numbers | records that refer to each other and share entities: nothing recorded is lost, and only a new record is ever stopped by the validator |
| `interview_agent` | two model calls and two tool calls a turn, three utterances, two processes, ids given that collide in number | the checkpoint and memory can be resumed from at any moment; a reply a user saw is saved, but for the turn that fixed inputs print before saving it; the provider never gets unanswered tool calls; the status is true, in memory and in the file; the interview ends only in `finish`; a turn ends, saved and reported |
| `graph_mutations` | every graph of up to six elements, references and citations over two nodes, one edge and two concepts; one observation, one quote in it and one not | each operation's own checks suffice for the validator and the runtime; runtime and evaluator agree on the evidence; attaching evidence changes no claim, loses no citation and keeps complete evidence complete |
| `knowledge_projection` | every process of three steps and up to four edges, one edge conditional or none; chains, branches, a loop; any subset forgotten | contraction refuses exactly what cannot be forgotten and leaves exactly the walks between remembered steps, in any order of nodes; the result knows nothing hidden and all the rest; a draw that forgets nothing is rejected only for a duplicate in a list |
| `graph_comparison` | any similarities of three concepts to two and two to three; two and three nodes with ties and any bonus; every reconstruction of a process with two parallel conditional edges | the Hungarian method ends with a heaviest mapping; a node is matched exactly when every best mapping matches it so; a graph scored complete is the truth renamed |

Why the bounds are enough. Each operation of the live store looks at the last
message, at whether a counter is at its limit, and at the relation of an id to
those recorded. One turn before the limit, one at it, and a colliding and a free
id reach every combination; the third turn of `solver_core` lets a resumption
happen before, between and after answered questions. Two steps per turn let a
tool batch be followed by another generation, and two calls let the second one
raise or follow a completion. Two attempts have a retry and a last attempt;
`stakeholder_call` uses the code's three. Three evidence numbers let a field be
corrected twice after it was recorded or an issue with its own evidence come
between a restart and the next number, and two utterances let a citation fail.
Two processes let the second resume what the first left at any point; a
limit of two calls lets a second batch fit or exceed it. Six elements in a graph
hold an edge with a cited condition between two nodes, or a node with a list of
two references, to one concept or to two, one of them cited. Three steps in a row, a branch and a loop are the cases
contraction distinguishes, and four steps let two neighbours be forgotten between
two remembered ones. Three concepts against two leave a row for a dummy column
and the reverse. The theorems below remove the bounds for most of the invariants.

Deadlock is checked where the system goes on or rests explicitly (`Rest`,
`Returned`). It is not in `interview_agent`, where no process runs once
`MaxSessions` have been started, and in `graph_mutations`, where `MaxSize` stops a
graph from growing; nothing of the code waits there.

Fairness. `FairSpec` is weak fairness of the solver's own steps: an await of a
model or tool returns or raises (the provider's timeout), the coroutine is
scheduled, and an interview that stopped half-way is run again. Nothing is
assumed about cancellation, which may happen at every await; `EveryInterviewEnds`
holds because a resumption costs a turn. `CallSpec` is weak fairness of the
attempts, for the same reason; it is used through `ImplementsSolver`, whose
fairness part says that the stakeholder call ends. `InterviewAgent` has weak
fairness of a turn's steps (`generate` and `execute_tools` return or raise) and of
the steps of a save; nobody need type, interrupt or restart, and crashes and
interrupts may come at any time. `TurnEnds` rests on the limits of model and tool
calls. `InterviewTools`, `GraphMutations` and `LiveStoreAPI` have no liveness:
nothing in the code obliges a caller to call. `KnowledgeProjection` and
`GraphComparison` are functions, checked for what they return.

## 4. Proofs

All theorems hold for every value of the constants that satisfies the named
assumptions of the modules (limits are naturals, initial ledgers are histories
that pass the validator, requests are typed).

* **`LiveStoreAPIProofs`.** `Invariance`: types, `Valid`, the observations are the
  user messages, and the next turn number is free. The last two are not in the
  validator; without them an answer under the default id could collide and the
  guards would not imply `Valid` of the payload. From it: `TypeCorrect`,
  `GuardsAreTheContract`, `AnswersNeverLost`, `TerminalStoreIsFinal`,
  `HistoryNeverRewritten`, `RefinesTurnProtocol`. `LiveStoreProofs` has one lemma per
  operation (typed, valid, observed) that `InterviewTaskProofs` cites too.
* **`InterviewTaskProofs`**, the solver. `Invariance`: how the three copies relate at every
  `pc` (equal except while tools run and right after), that each of them is
  valid, and that the generations started are those paid for in the copy that
  would be resumed. From it validity, persistence at every await, the budget of
  generations, and, with `LateToolErrors` false, `TerminalRuntimeIsFinal`,
  `ReceiptsAlwaysHold` and `RefinesTurnProtocol`. `TruncatedHasNoEffect` needs
  beside it that tools run only under the stop reason of an output that ended (`StopClean`);
  `StrandedStaysIncomplete` that once an interview is down with an open question,
  every copy stays active with it or fails (`Stranded`).
* **`InterviewTaskProofs`**, the call and the task. `CallInvariance`: attempt number, counters and
  generations of a stakeholder call agree in every phase. From it the accounting
  and the truth of the failure reasons, for any attempt limits.
  `TaskIsSolver`: the composition implements the solver's specification, so every
  safety theorem of the solver holds of it; this is the safety part of
  `ImplementsSolver`. `TaskInvariance`: what is spent is at most the attempts of the
  questions whose calls are over and the generations of the one that runs; what
  the metadata blame, two generations for every answer and those of the running
  call are at most what is spent (`TaskInv`). A running call is counted apart
  because its generations reach the metadata only when it returns, and never
  if it is cancelled. From it `TaskBelowTurnLimit` and `MetadataCoveredBySpent`.
* **`InterviewToolsProofs`.** `Invariance`: types, finitely many claims (so a next
  revision number exists), `Valid`, `Linear` (the correction history of any
  state), every evidence number below `next_evidence`, and every number used
  once. A restart keeps the invariant because the highest number found in the
  state bounds every number in it. `Linear` is needed beside `Valid`: the
  validator accepts forks and gaps. From it `AlwaysReloadable`,
  `EvidenceNeverReused`, `HistoryIsLinear`, `HistoryIsKept`, `EndIsFinal`, and by what each
  operation tells its caller (`Told`) `GuardsAreEnough` and `NoLostCorrection`.
* **`InterviewAgentProofs`.** `Invariance`: `AgentInv` holds. Its parts: memory, and
  the checkpoint if there is one, hold a conversation that matches the utterances and whose ids have
  the form the code gives them (`Held`: an assistant message carries its place,
  a user message its utterance, so a new message never collides with an old
  one); while the temporary file is about to be moved it is the memory as saved;
  the gate is open only in a turn of `finish`; calls lack results only in a batch
  or in a turn that ends the process; `user_stopped` is set only by a process
  that is about to exit; what a user was shown is a beginning of memory, and
  memory agrees with the checkpoint but for the messages of the turn under way or
  about to be saved (`NewMessages`). `Restorable` alone is not inductive: that ids stay
  distinct needs their form, and that a torn file is never moved needs the
  command line's place. Of `StatusTrue`: a turn starts with an interview under way and
  status `active`, so that only a failed or cancelled batch leaves an ended
  interview with another status. From it `CheckpointRestorable`, `RepliesShownAreSaved`,
  `ProviderConversationAnswered`, `MetadataStatusTrue`, `InterviewEndsInFinish`.
* **`GraphMutationsProofs`.** `StoredGraphSound`: every operation ends in the check
  of the whole graph, and observations are only added. `EvaluatorAgreesWithRuntime`:
  every citation the evaluator's walk visits is one the runtime's walk visited.
  `GraphInvariance` adds the shape of a graph (`GraphOK`: the fields of its elements and the
  form of their slots, lists and references), without which nothing can be said of
  an update of one field. From it
  `AttachingKeepsClaims`, one target after the other, and `GuardsAreEnough`.
* **`KnowledgeProjectionProofs`**, for any true processes, profiles and draws.
  `Invariance`: sample, contracted graph, conditions and masked slots relate to the
  truth in every phase. From it `KnowsJustTheRest` and `WholeViewIsAccepted`.
  `ContractionInvariance`: every edge stands for a path of drawn edges through
  forgotten nodes, these paths share no edge and leave none out, a shortcut is
  unconditional, no loop and parallel to nothing, and every node that is gone was
  in series and inside one of the paths (`Traced`); a sample that was refused is
  `Traced` up to a node that cannot be contracted (`Stuck`).
  From it `ContractionIsExact`: the conditions `Contractible` looks at hold of
  the graph half contracted exactly when they hold of the walks of the
  drawn one. `InputsAssumption` is what the code gives: graphs are finite, nodes are
  numbered in the order of their names (projection.py sorts them), no true edge
  has the identifier of a shortcut (the code takes one not in use,
  projection.py:264) or stands for others (knowledge.py:516 refuses such metadata
  on an edge that is no shortcut, and the scenarios have none), and no true value is the
  marker of what is not known.
* **`GraphComparisonProofs`**, for any graphs, similarities and topology bonuses.
  A score is a fold over a set; the first lemmas make it a sum one can take
  apart, compare and count with. `SearchInv` is the invariant of the Hungarian
  method, kept by the entry of a row (`EnteredInv`), the growth of the tree
  (`GrownInv`) and every single flip (`FlippedInv`): the rows that entered are placed once
  each, except for the hole a flip leaves; reduced costs are not negative, and zero
  for a matched pair; a column without a row has price zero and no price is positive; the
  columns of the tree lead back to the entering row by steps of reduced cost
  zero, and `minimum` is the least reduced cost from the tree. At its end no permutation of rows
  and columns, dummies included, costs less (`Cheapest`), a permutation costs
  what its real part weighs (`TotalParts`) and every matching is part of one (`MatchingExtends`),
  so that what is matched is heaviest: `AlignmentIsOptimal`.
  `NodesAreUnambiguous` rests on the components of the candidate pairs: a matching
  can be exchanged in one component and kept elsewhere (`ScoreParts`), so that
  dropping a pair costs its component weight exactly when every heaviest matching of
  the whole holds it. `CompleteIsTheTruth` counts: mappings as large as both sides are onto,
  a sum of slot scores that is full is full in every summand, and a list that
  scores in full claims just what is true. `InputsAssumption` says that graphs are
  finite, that a scalar slot holds one concept (epistemic.py:57), and that similarities
  are between 0 and 1; `CostsAssumption` that the two large costs of assignment.py
  are far apart and larger than any weight.

How far the prover reaches shaped the models a little. `SelectSeq`, `:>` and `@@`
are opaque to its backends, so the model has `Only`, `RemoveFirst` and `Over`,
which are defined without them; the costs are a function of columns to
functions of rows, and sums are `Score` of a set and a function. Induction is done once, by a least
counterexample in the set of naturals where a claim fails (lemma `Upwards`), because
the induction theorems of the library take an operator as a parameter.

Only model-checked: liveness (`EveryInterviewEnds`, `TurnEnds` and the fairness part of
`ImplementsSolver`), which is out of the prover's reach. Every invariant the runs
check is stated by a theorem.

## 5. A disagreement between code and documentation

`solver_late_tool_error`: `complete_interview`'s docstring (tools.py:530) and the guard
in runtime.py:681 say that a terminal interview does not change. When
`execute_tools` raises after `complete_interview` of the same batch took effect, the
handler in multiturn.py:563 goes on from the `runtime` it read before the batch,
marks that one incomplete and stores it over the completed one. The batch's
mutations of the graph are gone as well. The other runs and theorems say which
properties survive this (`RuntimeValid`, `AwaitsPersisted`, `GenerationBudget`) and
which hold only without it.

## 6. What the models say about the code beyond the checks

Met while modelling, and allowed by the properties as the code has it:

* A truth without edges between business steps can never be scored complete:
  `edge_precision` is 0.0 when the candidate has no edges (scoring.py).
* A truth that lists the same concept twice in a slot is accepted as a truth, but a
  projection that knows the slot fails its validation, and drawing again helps only
  if the draw masks the slot or forgets the node.
* With fixed inputs a reply is printed before its turn is saved
  (interview_agent.py:1976), so a crash between the two loses that turn, and only
  that one; the interactive loop saves first.
* An interview that ends in a batch which then fails or is cancelled is saved as
  ended with the status `technical_failure` or `active` beside it. The command line
  exits, and the next process sets the status to `completed`.
* `ConversationAnswered` holds because a turn that raises ends the command line's
  process. A program that catches `InterviewAgentError` and calls
  `process_utterance` on the same agent again sends the calls left without results.
* The guards of the graph operations suffice for the tools the candidate has, whose
  slots come without evidence; nodes and edges that come with slots rely on the
  check of the whole graph.

## 7. Not modelled, and the plan

Left out for good: the set-up of an interview from scenario, profile and seed
(static data), rendering, prompts, option parsing and logging, the parsing of
mutation payloads and profiles, the offline log diagnostics, the scenario catalog,
the replay prototype (which only calls what is modelled), the Inspect task that
feeds fixed utterances to the agent, the weighting of the primary score, the
similarity of texts and the topology fingerprints, and the message and token limits
of the Task, whose units belong to the framework.

`LiveStore` keeps a graph as a set of facts: the graph of `GraphMutations` in its place
would multiply the states of every solver run by those of the graphs and add no
interleaving, since a mutation is one step between two awaits.

To come, proofs: that the Hungarian method ends (each row enters once, its tree
grows by a column a step and its path is no longer than the tree), as a bound
on the number of steps; that `LiveStore`'s facts abstract the graphs of
`GraphMutations`.
