---------------------------- MODULE InterviewAgent ----------------------------
(***************************************************************************)
(* bb/interview_agent.py: one model interviewed about public utterances.   *)
(* The agent keeps an interview state, the public conversation and the     *)
(* private one with the provider; its command line feeds it utterances,    *)
(* saves a checkpoint after everything it does and, started again, resumes *)
(* from the checkpoint.  The process may crash between any two steps, and  *)
(* an interrupt cancels the turn at its next await.                        *)
(*                                                                         *)
(* Abstractions.  Of the interview state: the utterances in order, how     *)
(* many records tool calls changed, and whether it has ended; what the     *)
(* calls record is InterviewTools.  Of the provider conversation: whether  *)
(* it holds tool calls without a result.  An utterance id is a number and  *)
(* a spelling: <<n, "plain">> is "u<n>", <<n, other>> a longer spelling of *)
(* the same number ("u0<n>") and <<0, name>> an id without a number.  The  *)
(* checkpoint path is given, and a process that finds a checkpoint there   *)
(* resumes from it.                                                        *)
(***************************************************************************)
EXTENDS Integers, Sequences, FiniteSets, Functions

CONSTANTS
  MaxModelCalls, \* max_tool_rounds
  MaxToolCalls,  \* max_tool_calls
  GenerationFailures, \* kinds of communication_failure .. content_filter
  GivenIds,      \* ids that inputs with an id of their own have
  MaxNumber,     \* bound on the numbers given to utterances
  MaxChanges,    \* bound on the records changed
  MaxSessions    \* bound on the processes started

ASSUME AgentAssumption ==
  /\ MaxModelCalls \in Nat \ {0} /\ MaxToolCalls \in Nat \ {0}
  /\ MaxNumber \in Nat /\ MaxChanges \in Nat /\ MaxSessions \in Nat
  /\ GivenIds \subseteq Nat \X STRING
  /\ "none" \notin GenerationFailures

VARIABLES
  state,       \* InterviewState: utterances, changes, ended
  public,      \* the public conversation
  next_number, \* _next_utterance_number
  allowed,     \* _completion_allowed
  metadata,    \* execution_status and last_failure_kind
  unanswered,  \* _messages holds tool calls without a result
  turn,        \* the model turn: what it is about, calls made, tool calls left
  pc,          \* where the command line is
  mode,        \* "interactive" or "fixed"
  then,        \* what follows the save: "next", "stop" or "exit"
  shown,       \* the public conversation when a reply was last printed
  temporary,   \* <checkpoint>.tmp
  disk,        \* the checkpoint
  sessions     \* processes started

agent == <<state, public, next_number, allowed, metadata, unanswered, turn>>
vars  == <<agent, pc, mode, then, shown, temporary, disk, sessions>>

NumberOf(id) == id[1]
Numbered(n)  == <<n, "plain">>
Id == GivenIds \cup {Numbered(n) : n \in Nat}

NoReply == <<>>
NoFile  == [file |-> "none"]
Torn    == [file |-> "torn"]

FailureKinds ==
  GenerationFailures \cup
    {"tool_execution_limit", "tool_execution_failure", "model_call_limit"}

(* The messages of the public conversation and their ids.  What they say is *)
(* not modelled: a user message has the text of its utterance.              *)
UserMessage(id, reply_to) ==
  [id |-> <<"user", id>>, role |-> "user", utterance |-> id, reply_to |-> reply_to]
AssistantMessage(sequence) ==
  [id |-> <<"assistant", sequence>>, role |-> "assistant",
   utterance |-> NoReply, reply_to |-> NoReply]

(* a user message replies to the assistant message just before it, if any *)
ReplyLink(messages) ==
  IF messages # <<>> /\ messages[Len(messages)].role = "assistant"
  THEN messages[Len(messages)].id ELSE NoReply

(* _validate_public_messages; sequence numbers are positions.  The user     *)
(* messages are the utterances, in their order.                             *)
UserMessages(messages, k) == {j \in 1..k : messages[j].role = "user"}

MessagesMatch(messages, utterances) ==
  /\ \A j, k \in DOMAIN messages : messages[j].id = messages[k].id => j = k
  /\ Cardinality(UserMessages(messages, Len(messages))) = Len(utterances)
  /\ \A k \in DOMAIN messages :
       messages[k].role = "user" =>
         /\ messages[k].reply_to = ReplyLink(SubSeq(messages, 1, k - 1))
         /\ messages[k].utterance = utterances[Cardinality(UserMessages(messages, k))]

(* _coerce_utterance: the number after an utterance with or without an id *)
Bumped(n, id) == IF NumberOf(id) + 1 > n THEN NumberOf(id) + 1 ELSE n

(* _public_messages_from_utterances is not used: a checkpoint has its own.  *)
Checkpoint ==
  [ file |-> "whole", state |-> state, public |-> public,
    next_number |-> next_number, metadata |-> metadata ]

NoTurn == [about |-> "nothing", rounds |-> 0, calls |-> 0, batch |-> 0]
Started(about) == [NoTurn EXCEPT !.about = about]

Success == [status |-> IF state'.ended THEN "completed" ELSE "active", failure |-> "none"]
Failed(kind) == [status |-> "technical_failure", failure |-> kind]

NothingSaid == [utterances |-> <<>>, changes |-> 0, ended |-> FALSE]
Active == [status |-> "active", failure |-> "none"]

Init ==
  /\ state = NothingSaid /\ public = <<>> /\ next_number = 1
  /\ allowed = FALSE /\ metadata = Active
  /\ unanswered = FALSE /\ turn = NoTurn
  /\ pc = "down" /\ mode = "fixed" /\ then = "next" /\ shown = <<>>
  /\ temporary = NoFile /\ disk = NoFile
  /\ sessions = 0

(* A process that is gone leaves its files; its memory is as if it never was. *)
Gone ==
  /\ state' = NothingSaid /\ public' = <<>> /\ next_number' = 1
  /\ allowed' = FALSE /\ metadata' = Active
  /\ unanswered' = FALSE /\ turn' = NoTurn
  /\ pc' = "down" /\ mode' = "fixed" /\ then' = "next" /\ shown' = <<>>
  /\ UNCHANGED sessions

-----------------------------------------------------------------------------
(* Starting *)

(* from_checkpoint over load_checkpoint, which refuses what does not match *)
Loadable(file) ==
  /\ file.file = "whole"
  /\ file.next_number >= 1
  /\ MessagesMatch(file.public, file.state.utterances)

Resume ==
  /\ Loadable(disk)
  /\ state' = disk.state
  /\ public' = disk.public
  /\ next_number' = disk.next_number
  /\ metadata' = [status  |-> IF disk.state.ended THEN "completed" ELSE "active",
                  failure |-> "none"]

Fresh ==
  /\ disk = NoFile
  /\ state' = NothingSaid
  /\ public' = <<>>
  /\ next_number' = 1
  /\ metadata' = Active

(* main: a new process, and a new provider conversation of public messages *)
Start ==
  /\ pc = "down"
  /\ sessions < MaxSessions
  /\ Resume \/ Fresh
  /\ sessions' = sessions + 1
  /\ mode' \in {"interactive", "fixed"}
  /\ allowed' = FALSE
  /\ unanswered' = FALSE
  /\ turn' = NoTurn
  /\ pc' = "ready"
  /\ UNCHANGED <<then, shown, temporary, disk>>

-----------------------------------------------------------------------------
(* Inputs *)

NumberAfter(id, given) == IF given THEN Bumped(next_number, id) ELSE next_number + 1

(* process_utterance up to its first await.  Interactive inputs are numbered *)
(* by the agent; fixed ones may have an id.  An id that is taken, or an      *)
(* interview that has ended, is refused after the number was taken.          *)
Say(id, given) ==
  /\ pc = "ready"
  /\ mode = "interactive" => ~given /\ ~state.ended
  /\ next_number' = NumberAfter(id, given)
  /\ next_number' <= MaxNumber
  /\ IF <<"user", id>> \in {m.id : m \in Range(public)} \/ state.ended
     THEN /\ pc' = "save" /\ then' = "exit"
          /\ UNCHANGED <<state, public, turn>>
     ELSE /\ state' = [state EXCEPT !.utterances = Append(@, id)]
          /\ public' = Append(public, UserMessage(id, ReplyLink(public)))
          /\ turn' = Started("utterance")
          /\ pc' = "turn"
          /\ UNCHANGED then
  /\ UNCHANGED <<allowed, metadata, unanswered, mode, shown, temporary, disk, sessions>>

SayNumbered == Say(Numbered(next_number), FALSE)
SayGiven    == \E id \in GivenIds : Say(id, TRUE)

(* /done, or the end of fixed inputs with --complete: finish *)
Finish ==
  /\ pc = "ready"
  /\ mode = "interactive" => ~state.ended
  /\ IF state.ended
     THEN /\ pc' = "save" /\ then' = "stop"
          /\ UNCHANGED <<allowed, turn>>
     ELSE /\ allowed' = TRUE
          /\ turn' = Started("finish")
          /\ pc' = "turn"
          /\ UNCHANGED then
  /\ UNCHANGED <<state, public, next_number, metadata, unanswered, mode, shown,
                 temporary, disk, sessions>>

(* mutant: whether the interview has ended is not asked *)
StoppedAlways == [status |-> "user_stopped", failure |-> "none"]

(* mark_user_stopped *)
Stopped ==
  IF state.ended THEN metadata ELSE [status |-> "user_stopped", failure |-> "none"]

(* the end of inputs without --complete, or EOF *)
Stop ==
  /\ pc = "ready"
  /\ ~(mode = "interactive" /\ state.ended)
  /\ metadata' = Stopped
  /\ pc' = "save" /\ then' = "exit"
  /\ UNCHANGED <<state, public, next_number, allowed, unanswered, turn, mode, shown,
                 temporary, disk, sessions>>

(* the interactive loop over an interview that has ended saves nothing *)
Leave ==
  /\ pc = "ready"
  /\ mode = "interactive" /\ state.ended
  /\ Gone
  /\ UNCHANGED <<temporary, disk>>

-----------------------------------------------------------------------------
(* _run_model_turn *)

(* mutant: the command line reports the error and reads on *)
RaiseAndGoOn ==
  /\ allowed' = FALSE
  /\ turn' = Started(turn.about)
  /\ pc' = "save" /\ then' = "next"

(* The turn is over and its counters are gone: the finally of finish closes  *)
(* the gate, the finally of the command line saves.  A turn that raised ends *)
(* the process after that.                                                   *)
Raise ==
  /\ allowed' = FALSE
  /\ turn' = Started(turn.about)
  /\ pc' = "save" /\ then' = "exit"

Return ==
  /\ allowed' = FALSE
  /\ turn' = Started(turn.about)
  /\ pc' = "save"
  /\ then' = IF turn.about = "finish" THEN "stop" ELSE "next"

(* generate fails, or its output is none the agent can use *)
GenerateFails ==
  /\ pc = "turn"
  /\ \E kind \in GenerationFailures : metadata' = Failed(kind)
  /\ Raise
  /\ UNCHANGED <<state, public, next_number, unanswered, mode, shown,
                 temporary, disk, sessions>>

(* asyncio.CancelledError is no Exception: nothing is recorded of it *)
Cancel ==
  /\ pc \in {"turn", "tools"}
  /\ Raise
  /\ UNCHANGED <<state, public, next_number, metadata, unanswered, mode, shown,
                 temporary, disk, sessions>>

PrintsAlways == TRUE \* mutant: replies are printed before they are saved

(* With fixed inputs a reply is printed at once. *)
PrintsAtOnce == mode = "fixed"

(* An answer without tool calls. *)
Answer ==
  /\ pc = "turn"
  /\ public' = Append(public, AssistantMessage(Len(public)))
  /\ UNCHANGED state
  /\ metadata' = Success
  /\ shown' = IF PrintsAtOnce THEN public' ELSE shown
  /\ Return
  /\ UNCHANGED <<next_number, unanswered, mode, temporary, disk, sessions>>

CallsExceed(n) == turn.calls + n > MaxToolCalls

(* A message with n tool calls: refused as a whole, or executed one by one. *)
AskForTools ==
  \E n \in 1..(MaxToolCalls + 1) :
    /\ pc = "turn"
    /\ unanswered' = TRUE
    /\ IF CallsExceed(n)
       THEN /\ metadata' = Failed("tool_execution_limit")
            /\ Raise
       ELSE /\ turn' = [turn EXCEPT !.calls = @ + n, !.batch = n]
            /\ pc' = "tools"
            /\ UNCHANGED <<metadata, allowed, then>>
    /\ UNCHANGED <<state, public, next_number, mode, shown, temporary, disk, sessions>>

MayCompleteAlways == TRUE \* mutant: the gate is not asked

(* _completion_is_allowed *)
MayComplete == allowed

(* One call of the batch: it changes a record, ends the interview, or does   *)
(* neither (a read, or one that is refused).  Only while finish allows it    *)
(* does complete_interview reach its handler, and an ended interview refuses *)
(* the rest.                                                                 *)
Call ==
  /\ pc = "tools" /\ turn.batch > 0
  /\ turn' = [turn EXCEPT !.batch = @ - 1]
  /\ \/ UNCHANGED state
     \/ ~state.ended /\ state.changes < MaxChanges
        /\ state' = [state EXCEPT !.changes = @ + 1]
     \/ ~state.ended /\ MayComplete /\ state' = [state EXCEPT !.ended = TRUE]
  /\ UNCHANGED <<public, next_number, allowed, metadata, unanswered, pc, mode, then,
                 shown, temporary, disk, sessions>>

(* execute_tools raises: what its earlier calls did stays done *)
ExecuteFails ==
  /\ pc = "tools"
  /\ metadata' = Failed("tool_execution_failure")
  /\ Raise
  /\ UNCHANGED <<state, public, next_number, unanswered, mode, shown,
                 temporary, disk, sessions>>

(* mutant: every round counts from nothing again *)
NextRoundAfresh(t) == [Started(t.about) EXCEPT !.rounds = 0]

NextRound(t) == [t EXCEPT !.rounds = @ + 1]

(* The results are in: the interview has ended, or this was the last model  *)
(* call, or the model is asked again.                                        *)
BatchEnds ==
  /\ pc = "tools" /\ turn.batch = 0
  /\ unanswered' = FALSE
  /\ UNCHANGED state
  /\ \/ /\ state.ended
        /\ metadata' = Success
        /\ Return
     \/ /\ ~state.ended /\ turn.rounds + 1 = MaxModelCalls
        /\ metadata' = Failed("model_call_limit")
        /\ Raise
     \/ /\ ~state.ended /\ turn.rounds + 1 < MaxModelCalls
        /\ turn' = NextRound(turn)
        /\ pc' = "turn"
        /\ UNCHANGED <<metadata, allowed, then>>
  /\ UNCHANGED <<public, next_number, mode, shown, temporary, disk, sessions>>

-----------------------------------------------------------------------------
(* Saving *)

(* mutant: the checkpoint is written in place *)
WriteInPlace(file) ==
  /\ disk' = file
  /\ UNCHANGED temporary

(* save_checkpoint writes a temporary file, which a crash leaves half done, *)
(* and then moves it over the checkpoint                                     *)
Write(file) ==
  /\ temporary' = file
  /\ UNCHANGED disk

SaveBegins ==
  /\ pc = "save"
  /\ Write(Torn)
  /\ pc' = "write"
  /\ UNCHANGED <<agent, mode, then, shown, sessions>>

SaveWrites ==
  /\ pc = "write"
  /\ Write(Checkpoint)
  /\ pc' = "replace"
  /\ UNCHANGED <<agent, mode, then, shown, sessions>>

(* The move, and what the command line does next: it reads another input, or *)
(* marks an interview that finish did not end as stopped and saves again, or *)
(* exits.  The interactive loop prints replies only now.                     *)
Replace ==
  /\ pc = "replace"
  /\ disk' = temporary
  /\ temporary' = NoFile
  /\ \/ /\ then = "next"
        /\ pc' = "ready"
        /\ shown' = IF mode = "interactive" THEN public ELSE shown
        /\ turn' = NoTurn
        /\ UNCHANGED <<state, public, next_number, allowed, metadata, unanswered, mode,
                       then, sessions>>
     \/ /\ then = "stop" /\ ~state.ended
        /\ pc' = "save" /\ then' = "exit"
        /\ shown' = IF mode = "interactive" THEN public ELSE shown
        /\ metadata' = Stopped
        /\ turn' = NoTurn
        /\ UNCHANGED <<state, public, next_number, allowed, unanswered, mode, sessions>>
     \/ /\ then = "exit" \/ (then = "stop" /\ state.ended)
        /\ Gone

Crash ==
  /\ pc # "down"
  /\ Gone
  /\ UNCHANGED <<temporary, disk>>

TurnStep == GenerateFails \/ Answer \/ AskForTools \/ Call \/ ExecuteFails \/ BatchEnds
SaveStep == SaveBegins \/ SaveWrites \/ Replace

Next ==
  \/ Start \/ SayNumbered \/ SayGiven \/ Finish \/ Stop \/ Leave
  \/ TurnStep \/ Cancel \/ SaveStep \/ Crash

(* A running process goes on: generate answers or times out, tool calls     *)
(* return, files get written.  Nobody need type, interrupt or restart.      *)
Spec == Init /\ [][Next]_vars /\ WF_vars(TurnStep) /\ WF_vars(SaveStep)

-----------------------------------------------------------------------------
(* Properties *)

(* The checkpoint can always be resumed from, in spite of failed turns,      *)
(* cancelled turns and crashes while it was written, and so can the agent's  *)
(* memory be saved at any time; the next number is above every number an     *)
(* utterance has, so an utterance the agent numbers itself is never refused  *)
(* as one that exists.                                                       *)
Sound(utterances, messages, number) ==
  /\ MessagesMatch(messages, utterances)
  /\ \A k \in DOMAIN utterances : NumberOf(utterances[k]) < number

Restorable ==
  /\ Sound(state.utterances, public, next_number)
  /\ disk # NoFile =>
       Loadable(disk) /\ Sound(disk.state.utterances, disk.public, disk.next_number)

(* A reply a user has seen is in the checkpoint.  Fixed inputs print theirs  *)
(* before the save: until then a crash may lose what this turn added, and no *)
(* more.                                                                     *)
SavedMessages == IF disk = NoFile THEN <<>> ELSE disk.public

(* the messages of a turn that returned *)
AddedBy(t) == IF t.about = "utterance" THEN 2 ELSE IF t.about = "finish" THEN 1 ELSE 0

InSave == pc \in {"save", "write", "replace"}

Unsaved == IF mode = "fixed" /\ InSave /\ then # "exit" THEN AddedBy(turn) ELSE 0

ShownIsSaved ==
  \A k \in 1..(Len(shown) - Unsaved) :
    k \in DOMAIN SavedMessages /\ SavedMessages[k] = shown[k]

(* The provider is never sent a conversation with unanswered tool calls,    *)
(* though a turn that fails or is cancelled may leave some behind.           *)
ConversationAnswered == pc = "turn" => ~unanswered

(* The status in the metadata is that of the interview, in memory and as     *)
(* saved beside it: completed only if it ended, stopped only if not; a       *)
(* technical failure has its kind.  An interview that ended in a batch which *)
(* then failed or was cancelled has another status, but no process goes on   *)
(* with it.  The utterance of a turn that failed got no reply.               *)
Fits(status, about) ==
  /\ status.status = "completed" => about.ended
  /\ status.status = "user_stopped" => ~about.ended
  /\ status.failure # "none" <=> status.status = "technical_failure"
  /\ status.status = "technical_failure" /\ about.ended =>
       status.failure = "tool_execution_failure"

GoesOn == pc = "ready" \/ (InSave /\ then # "exit")

StatusTrue ==
  /\ Fits(metadata, state)
  /\ disk # NoFile => Fits(disk.metadata, disk.state)
  /\ GoesOn => metadata.status = IF state.ended THEN "completed" ELSE "active"
  /\ metadata.status = "technical_failure" /\ turn.about = "utterance" =>
       public[Len(public)].role = "user"

(* The interview ends in a turn of finish and nowhere else: not in a turn    *)
(* about an utterance, not in a later one, and not by being resumed.         *)
EndsInFinish ==
  [][~state.ended /\ state'.ended =>
       IF pc = "down" THEN disk.state.ended ELSE turn.about = "finish"]_vars

(* A turn once begun is over, saved and reported, whatever the model does.   *)
TurnEnds == pc \in {"turn", "tools", "save", "write", "replace"} ~> pc \in {"ready", "down"}
=============================================================================
