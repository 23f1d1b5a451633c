------------------------- MODULE InterviewAgentProofs -------------------------
(***************************************************************************)
(* Proofs about InterviewAgent for any limits, ids, processes and crashes.  *)
(***************************************************************************)
EXTENDS InterviewAgent, FiniteSetTheorems, SequenceTheorems, TLAPS

AssistantId(n) == <<"assistant", n>>
Replies == {NoReply} \cup {AssistantId(n) : n \in Nat}

Messages ==
  {UserMessage(id, r) : id \in Id, r \in Replies} \cup {AssistantMessage(n) : n \in Nat}

(* Messages with the ids they have: those of users say their utterance,     *)
(* those of the assistant their place.                                      *)
Wellformed(messages) ==
  /\ messages \in Seq(Messages)
  /\ \A k \in DOMAIN messages :
       \/ messages[k].role = "user" /\ messages[k].id = <<"user", messages[k].utterance>>
       \/ messages[k].role = "assistant" /\ messages[k].id = AssistantId(k - 1)

Held(utterances, messages, number) ==
  /\ utterances \in Seq(Id)
  /\ number \in Nat \ {0}
  /\ Wellformed(messages)
  /\ Sound(utterances, messages, number)

-----------------------------------------------------------------------------
LEMMA IdNumbers ==
  /\ \A id \in Id : NumberOf(id) \in Nat
  /\ \A n \in Nat : Numbered(n) \in Id /\ NumberOf(Numbered(n)) = n
  /\ GivenIds \subseteq Id
<1>1. \A n \in Nat : Numbered(n) \in Id /\ NumberOf(Numbered(n)) = n
  BY DEF Numbered, NumberOf, Id
<1>2. \A id \in GivenIds : NumberOf(id) \in Nat
  BY AgentAssumption DEF NumberOf
<1>3. QED
  BY <1>1, <1>2 DEF Id

(* The public conversation grows by one message. *)

LEMMA MessageRoles ==
  /\ \A id, r : UserMessage(id, r).role = "user"
  /\ \A n : AssistantMessage(n).role = "assistant"
BY DEF UserMessage, AssistantMessage

LEMMA UsersFinite ==
  ASSUME NEW messages, NEW k \in Nat
  PROVE  /\ IsFiniteSet(UserMessages(messages, k))
         /\ Cardinality(UserMessages(messages, k)) \in Nat
<1>1. IsFiniteSet(1..k)
  BY FS_Interval
<1>2. UserMessages(messages, k) \subseteq 1..k
  BY DEF UserMessages
<1>3. QED
  BY <1>1, <1>2, FS_Subset, FS_CardinalityType

LEMMA UsersBefore ==
  ASSUME NEW messages \in Seq(Messages), NEW m \in Messages, NEW k \in 0..Len(messages)
  PROVE  UserMessages(Append(messages, m), k) = UserMessages(messages, k)
BY DEF UserMessages

LEMMA UsersAfter ==
  ASSUME NEW messages \in Seq(Messages), NEW m \in Messages
  PROVE  Cardinality(UserMessages(Append(messages, m), Len(messages) + 1))
           = Cardinality(UserMessages(messages, Len(messages)))
             + (IF m.role = "user" THEN 1 ELSE 0)
<1> DEFINE n == Len(messages)
           S == UserMessages(messages, n)
<1>1. n \in Nat /\ IsFiniteSet(S) /\ n + 1 \notin S /\ Cardinality(S) \in Nat
  BY UsersFinite DEF UserMessages
<1>2. UserMessages(Append(messages, m), n + 1)
        = S \cup (IF m.role = "user" THEN {n + 1} ELSE {})
  BY DEF UserMessages
<1>3. Cardinality(S \cup {n + 1}) = Cardinality(S) + 1
  BY <1>1, FS_AddElement
<1>4. CASE m.role = "user"
  BY <1>2, <1>3, <1>4
<1>5. CASE m.role # "user"
  BY <1>1, <1>2, <1>5
<1>6. QED
  BY <1>4, <1>5

LEMMA PrefixOfAppend ==
  ASSUME NEW messages \in Seq(Messages), NEW m \in Messages, NEW k \in 0..Len(messages)
  PROVE  SubSeq(Append(messages, m), 1, k) = SubSeq(messages, 1, k)
OBVIOUS

LEMMA WholePrefix ==
  ASSUME NEW messages \in Seq(Messages)
  PROVE  SubSeq(messages, 1, Len(messages)) = messages
OBVIOUS

(* Ids stay distinct, and a message that is no user's adds no utterance. *)
LEMMA MatchGrows ==
  ASSUME NEW messages, Wellformed(messages), NEW utterances \in Seq(Id),
         MessagesMatch(messages, utterances),
         NEW m \in Messages, NEW added \in Seq(Id),
         Len(added) = Len(utterances) + (IF m.role = "user" THEN 1 ELSE 0),
         \A k \in DOMAIN utterances : added[k] = utterances[k],
         m.role = "user" => /\ m.reply_to = ReplyLink(messages)
                            /\ m.utterance = added[Len(added)],
         \A k \in DOMAIN messages : messages[k].id # m.id
  PROVE  MessagesMatch(Append(messages, m), added)
<1> DEFINE grown == Append(messages, m)
<1>1. /\ messages \in Seq(Messages) /\ grown \in Seq(Messages)
      /\ Len(grown) = Len(messages) + 1 /\ Len(messages) \in Nat
      /\ \A k \in DOMAIN messages : grown[k] = messages[k]
      /\ grown[Len(messages) + 1] = m
  BY DEF Wellformed
<1>2. \A j, k \in DOMAIN grown : grown[j].id = grown[k].id => j = k
  BY <1>1 DEF MessagesMatch
<1>3. Cardinality(UserMessages(grown, Len(grown))) = Len(added)
  BY <1>1, UsersAfter DEF MessagesMatch
<1>4. ASSUME NEW k \in DOMAIN grown, grown[k].role = "user"
      PROVE  /\ grown[k].reply_to = ReplyLink(SubSeq(grown, 1, k - 1))
             /\ grown[k].utterance = added[Cardinality(UserMessages(grown, k))]
  <2>1. CASE k = Len(messages) + 1
    <3>1. SubSeq(grown, 1, k - 1) = messages
      BY <1>1, <2>1, PrefixOfAppend, WholePrefix
    <3>2. QED
      BY <1>1, <1>3, <1>4, <2>1, <3>1
  <2>2. CASE k \in DOMAIN messages
    <3>1. k \in 1..Len(messages) /\ k - 1 \in 0..Len(messages)
      BY <1>1, <2>2
    <3>2. SubSeq(grown, 1, k - 1) = SubSeq(messages, 1, k - 1)
      BY <1>1, <3>1, PrefixOfAppend
    <3>3. UserMessages(grown, k) = UserMessages(messages, k)
      BY <1>1, <3>1, UsersBefore
    <3>4. Cardinality(UserMessages(messages, k)) \in DOMAIN utterances
      <4>1. /\ IsFiniteSet(UserMessages(messages, Len(messages)))
            /\ UserMessages(messages, k) \subseteq UserMessages(messages, Len(messages))
        BY <1>1, <3>1, UsersFinite DEF UserMessages
      <4>2. Cardinality(UserMessages(messages, k)) <= Len(utterances)
        BY <4>1, FS_Subset DEF MessagesMatch
      <4>3. k \in UserMessages(messages, k)
        BY <1>1, <1>4, <2>2, <3>1 DEF UserMessages
      <4>4. Cardinality(UserMessages(messages, k)) \in Nat \ {0}
        BY <3>1, <4>3, UsersFinite, FS_EmptySet
      <4>5. QED
        BY <4>2, <4>4
    <3>5. QED
      BY <1>1, <1>4, <2>2, <3>2, <3>3, <3>4 DEF MessagesMatch
  <2>3. QED
    BY <1>1, <2>1, <2>2
<1>5. QED
  BY <1>2, <1>3, <1>4 DEF MessagesMatch

LEMMA ReplyLinkType ==
  ASSUME NEW messages, Wellformed(messages)
  PROVE  ReplyLink(messages) \in Replies
<1>1. CASE messages = <<>>
  BY <1>1 DEF ReplyLink, Replies
<1>2. CASE messages # <<>>
  <2>1. Len(messages) \in DOMAIN messages /\ Len(messages) - 1 \in Nat
    BY <1>2 DEF Wellformed
  <2>2. QED
    BY <2>1 DEF ReplyLink, Replies, Wellformed
<1>3. QED
  BY <1>1, <1>2

(* An utterance whose id is not taken is added with a message of its own. *)
LEMMA SayHolds ==
  ASSUME NEW utterances, NEW messages, NEW number, Held(utterances, messages, number),
         NEW id \in Id, \A k \in DOMAIN messages : messages[k].id # <<"user", id>>,
         NEW next \in Nat, next >= number, next > NumberOf(id)
  PROVE  Held(Append(utterances, id), Append(messages, UserMessage(id, ReplyLink(messages))), next)
<1> DEFINE m == UserMessage(id, ReplyLink(messages))
<1>1. /\ m \in Messages /\ m.role = "user" /\ m.reply_to = ReplyLink(messages)
      /\ m.utterance = id /\ m.id = <<"user", id>>
  BY ReplyLinkType DEF Held, Messages, UserMessage
<1>2. /\ utterances \in Seq(Id) /\ messages \in Seq(Messages) /\ number \in Nat \ {0}
      /\ Wellformed(messages) /\ Sound(utterances, messages, number)
  BY DEF Held, Wellformed
<1>3. /\ Append(utterances, id) \in Seq(Id)
      /\ Len(Append(utterances, id)) = Len(utterances) + 1
      /\ \A k \in DOMAIN utterances : Append(utterances, id)[k] = utterances[k]
      /\ Append(utterances, id)[Len(utterances) + 1] = id
      /\ DOMAIN Append(utterances, id) = DOMAIN utterances \cup {Len(utterances) + 1}
  BY <1>2
<1>4. MessagesMatch(Append(messages, m), Append(utterances, id))
  <2>1. MessagesMatch(messages, utterances)
    BY <1>2 DEF Sound
  <2>2. m.utterance = Append(utterances, id)[Len(Append(utterances, id))]
    BY <1>1, <1>2, <1>3
  <2>3. \A k \in DOMAIN messages : messages[k].id # m.id
    BY <1>1
  <2> DEFINE added == Append(utterances, id)
  <2>4. /\ added \in Seq(Id)
        /\ Len(added) = Len(utterances) + (IF m.role = "user" THEN 1 ELSE 0)
        /\ \A k \in DOMAIN utterances : added[k] = utterances[k]
        /\ m.utterance = added[Len(added)]
    BY <1>1, <1>3, <2>2
  <2> HIDE DEF m, added
  <2>5. MessagesMatch(Append(messages, m), added)
    BY <1>1, <1>2, <2>1, <2>3, <2>4, MatchGrows
  <2>6. QED
    BY <2>5 DEF added
<1>5. Wellformed(Append(messages, m))
  <2>1. /\ Append(messages, m) \in Seq(Messages)
        /\ DOMAIN Append(messages, m) = DOMAIN messages \cup {Len(messages) + 1}
        /\ \A k \in DOMAIN messages : Append(messages, m)[k] = messages[k]
        /\ Append(messages, m)[Len(messages) + 1] = m
    BY <1>1, <1>2
  <2>2. QED
    BY <1>1, <1>2, <2>1 DEF Wellformed
<1>6. \A k \in DOMAIN utterances : NumberOf(utterances[k]) \in Nat /\ NumberOf(utterances[k]) < number
  BY <1>2, IdNumbers DEF Sound
<1>7. \A k \in DOMAIN Append(utterances, id) : NumberOf(Append(utterances, id)[k]) < next
  BY <1>2, <1>3, <1>6
<1>8. QED
  BY <1>2, <1>3, <1>4, <1>5, <1>7 DEF Held, Sound

(* A reply of the assistant is added. *)
LEMMA ReplyHolds ==
  ASSUME NEW utterances, NEW messages, NEW number, Held(utterances, messages, number)
  PROVE  Held(utterances, Append(messages, AssistantMessage(Len(messages))), number)
<1> DEFINE m == AssistantMessage(Len(messages))
<1>1. /\ utterances \in Seq(Id) /\ messages \in Seq(Messages) /\ number \in Nat \ {0}
      /\ Wellformed(messages) /\ Sound(utterances, messages, number) /\ Len(messages) \in Nat
  BY DEF Held, Wellformed
<1>2. m \in Messages /\ m.role = "assistant" /\ m.id = AssistantId(Len(messages))
  BY <1>1 DEF Messages, AssistantMessage, AssistantId
<1>3. \A k \in DOMAIN messages : messages[k].id # m.id
  BY <1>1, <1>2 DEF Wellformed, AssistantId
<1>4. MessagesMatch(Append(messages, m), utterances)
  BY <1>1, <1>2, <1>3, MatchGrows DEF Sound
<1>5. Wellformed(Append(messages, m))
  <2>1. /\ Append(messages, m) \in Seq(Messages)
        /\ DOMAIN Append(messages, m) = DOMAIN messages \cup {Len(messages) + 1}
        /\ \A k \in DOMAIN messages : Append(messages, m)[k] = messages[k]
        /\ Append(messages, m)[Len(messages) + 1] = m
    BY <1>1, <1>2
  <2>2. QED
    BY <1>1, <1>2, <2>1 DEF Wellformed
<1>6. QED
  BY <1>1, <1>4, <1>5 DEF Held, Sound

-----------------------------------------------------------------------------
(* The inductive invariant *)

Saving == {"save", "write", "replace"}
InTurn == {"turn", "tools"}

StateType == [utterances : Seq(Id), changes : Nat, ended : BOOLEAN]
MetadataType ==
  [status  : {"active", "completed", "user_stopped", "technical_failure"},
   failure : FailureKinds \cup {"none"}]

TurnType == [about : {"nothing", "utterance", "finish"}, rounds : Nat, calls : Nat, batch : Nat]

AgentTypes ==
  /\ state \in StateType
  /\ metadata \in MetadataType
  /\ allowed \in BOOLEAN /\ unanswered \in BOOLEAN
  /\ turn \in TurnType
  /\ pc \in {"down", "ready"} \cup Saving \cup InTurn
  /\ mode \in {"interactive", "fixed"}
  /\ then \in {"next", "stop", "exit"}
  /\ shown \in Seq(Messages)

MemoryHeld == Held(state.utterances, public, next_number)

Whole(file) ==
  /\ file.file = "whole"
  /\ file.state \in StateType
  /\ Held(file.state.utterances, file.public, file.next_number)

FilesHeld ==
  /\ disk = NoFile \/ Whole(disk)
  /\ pc = "replace" => temporary = Checkpoint

(* The gate is open only while a turn of finish runs. *)
GateHeld == allowed => pc \in InTurn /\ turn.about = "finish"

(* Only a turn under way or one that ends the process leaves calls open. *)
AnsweredHeld ==
  /\ pc \in {"ready", "turn"} => ~unanswered
  /\ pc \in Saving /\ then # "exit" => ~unanswered

(* A turn starts with an interview under way; its tools may end that.       *)
StatusHeld ==
  /\ StatusTrue
  /\ metadata.status = "user_stopped" => pc \in Saving /\ then = "exit"
  /\ pc \in InTurn => metadata.status = "active"
  /\ pc = "turn" => ~state.ended
  /\ pc \in InTurn /\ turn.about = "utterance" =>
       public # <<>> /\ public[Len(public)].role = "user"

(* What is saved differs from memory by the messages of this turn, unless    *)
(* the turn failed; what the user saw is in memory, and saved but for them.  *)
Agrees(messages, start, n) ==
  \A k \in 1..n : k \in DOMAIN messages /\ messages[k] = start[k]

Goes == pc \in InTurn \/ GoesOn

NewMessages ==
  IF pc \in InTurn THEN (IF turn.about = "utterance" THEN 1 ELSE 0)
  ELSE IF InSave THEN AddedBy(turn) ELSE 0

ShownHeld ==
  /\ pc = "down" => shown = <<>>
  /\ pc \in InTurn => turn.about \in {"utterance", "finish"}
  /\ Agrees(public, shown, Len(shown))
  /\ Agrees(SavedMessages, shown, Len(shown) - Unsaved)
  /\ Goes => Agrees(SavedMessages, public, Len(public) - NewMessages)

AgentInv ==
  /\ AgentTypes /\ MemoryHeld /\ FilesHeld
  /\ GateHeld /\ AnsweredHeld /\ StatusHeld /\ ShownHeld

-----------------------------------------------------------------------------
LEMMA NothingHeld == Held(<<>>, <<>>, 1)
<1>1. UserMessages(<<>>, 0) = {}
  BY DEF UserMessages
<1>2. MessagesMatch(<<>>, <<>>)
  BY <1>1, FS_EmptySet DEF MessagesMatch
<1>3. QED
  BY <1>2 DEF Held, Wellformed, Sound

LEMMA FreshType == NothingSaid \in StateType /\ Active \in MetadataType
BY DEF NothingSaid, StateType, Active, MetadataType

LEMMA TurnTypes ==
  /\ NoTurn \in TurnType /\ NoTurn.about = "nothing"
  /\ \A a \in {"utterance", "finish"} : Started(a) \in TurnType /\ Started(a).about = a
  /\ \A t \in TurnType : Started(t.about) \in TurnType /\ Started(t.about).about = t.about
BY DEF NoTurn, Started, TurnType

LEMMA TurnGoesOn ==
  ASSUME NEW t \in TurnType
  PROVE  /\ NextRound(t) \in TurnType /\ NextRound(t).about = t.about
         /\ \A n \in Nat : /\ [t EXCEPT !.calls = @ + n, !.batch = n] \in TurnType
                           /\ [t EXCEPT !.calls = @ + n, !.batch = n].about = t.about
         /\ t.batch > 0 => /\ [t EXCEPT !.batch = @ - 1] \in TurnType
                           /\ [t EXCEPT !.batch = @ - 1].about = t.about
<1>1. NextRound(t) \in TurnType /\ NextRound(t).about = t.about
  BY DEF TurnType, NextRound
<1>2. ASSUME NEW n \in Nat
      PROVE  /\ [t EXCEPT !.calls = @ + n, !.batch = n] \in TurnType
             /\ [t EXCEPT !.calls = @ + n, !.batch = n].about = t.about
  <2> DEFINE u == [t EXCEPT !.calls = @ + n]
  <2>1. u \in TurnType /\ u.about = t.about
    BY DEF TurnType
  <2>2. [t EXCEPT !.calls = @ + n, !.batch = n] = [u EXCEPT !.batch = n]
    OBVIOUS
  <2> HIDE DEF u
  <2>3. [u EXCEPT !.batch = n] \in TurnType /\ [u EXCEPT !.batch = n].about = u.about
    BY <2>1 DEF TurnType
  <2>4. QED
    BY <2>1, <2>2, <2>3
<1>3. ASSUME t.batch > 0
      PROVE  /\ [t EXCEPT !.batch = @ - 1] \in TurnType
             /\ [t EXCEPT !.batch = @ - 1].about = t.about
  BY <1>3 DEF TurnType
<1>4. QED
  BY <1>1, <1>2, <1>3

LEMMA FailedType ==
  \A kind \in FailureKinds :
    /\ Failed(kind) \in MetadataType
    /\ Failed(kind).status = "technical_failure" /\ Failed(kind).failure = kind /\ kind # "none"
BY AgentAssumption DEF Failed, MetadataType, FailureKinds

LEMMA LimitsAreFailures ==
  /\ GenerationFailures \subseteq FailureKinds
  /\ {"tool_execution_limit", "tool_execution_failure", "model_call_limit"} \subseteq FailureKinds
BY DEF FailureKinds

LEMMA AgreesGrows ==
  ASSUME NEW messages \in Seq(Messages), NEW m \in Messages, NEW start, NEW n \in Int,
         Agrees(messages, start, n)
  PROVE  Agrees(Append(messages, m), start, n)
BY DEF Agrees

LEMMA AgreesLess ==
  ASSUME NEW messages, NEW start, NEW n \in Int, NEW k \in Int, k <= n, Agrees(messages, start, n)
  PROVE  Agrees(messages, start, k)
BY DEF Agrees

LEMMA AddedTypes ==
  /\ \A t : AddedBy(t) \in Nat
  /\ \A t : t.about = "utterance" => AddedBy(t) = 2
  /\ \A t : t.about = "finish" => AddedBy(t) = 1
  /\ AddedBy(NoTurn) = 0
  /\ Unsaved \in Nat /\ NewMessages \in Nat
BY TurnTypes DEF AddedBy, Unsaved, NewMessages

LEMMA NoneShown ==
  ASSUME shown = <<>>, pc = "down"
  PROVE  ShownHeld
<1>1. Unsaved = 0 /\ ~Goes /\ pc \notin InTurn
  BY DEF Unsaved, Goes, GoesOn, InSave, InTurn
<1>2. QED
  BY <1>1 DEF ShownHeld, Agrees

LEMMA InitInv == Init => AgentInv
<1> SUFFICES ASSUME Init PROVE AgentInv
  OBVIOUS
<1>1. AgentTypes
  BY FreshType, TurnTypes, EmptySeq DEF Init, AgentTypes, Saving, InTurn
<1>2. MemoryHeld
  BY NothingHeld DEF Init, MemoryHeld, NothingSaid
<1>3. FilesHeld /\ GateHeld /\ AnsweredHeld
  BY DEF Init, FilesHeld, GateHeld, AnsweredHeld, Saving, InTurn
<1>4. ShownHeld
  BY NoneShown DEF Init
<1>5. StatusHeld
  BY TurnTypes DEF Init, StatusHeld, StatusTrue, Fits, GoesOn, InSave, Active, InTurn, NoTurn
<1>6. QED
  BY <1>1, <1>2, <1>3, <1>4, <1>5 DEF AgentInv

(* A process that ends or crashes leaves its files. *)
LEMMA GoneInv ==
  ASSUME AgentInv, Gone,
         disk' = disk \/ (Whole(disk') /\ Fits(disk'.metadata, disk'.state))
  PROVE  AgentInv'
<1>1. AgentTypes'
  BY FreshType, TurnTypes, EmptySeq DEF Gone, AgentTypes, Saving, InTurn
<1>2. MemoryHeld'
  BY NothingHeld DEF Gone, MemoryHeld, NothingSaid
<1>3. FilesHeld' /\ GateHeld' /\ AnsweredHeld'
  BY DEF AgentInv, Gone, FilesHeld, GateHeld, AnsweredHeld, Saving, InTurn, Whole
<1>4. ShownHeld'
  <2>1. shown' = <<>> /\ pc' = "down"
    BY DEF Gone
  <2>2. Unsaved' = 0 /\ ~Goes' /\ pc' \notin InTurn
    BY <2>1 DEF Unsaved, Goes, GoesOn, InSave, InTurn
  <2>3. QED
    BY <2>1, <2>2 DEF ShownHeld, Agrees
<1>5. StatusHeld'
  BY TurnTypes DEF AgentInv, Gone, NothingSaid, StatusHeld, StatusTrue, Fits, GoesOn, InSave, Active, InTurn, NoTurn
<1>6. QED
  BY <1>1, <1>2, <1>3, <1>4, <1>5 DEF AgentInv

-----------------------------------------------------------------------------
(* Most steps leave the conversation, the screen and the files alone. *)
LEMMA QuietSteps ==
  ASSUME AgentInv, UNCHANGED <<public, next_number, disk>>,
         state'.utterances = state.utterances, pc' \notin {"down", "replace"}
  PROVE  MemoryHeld' /\ FilesHeld'
BY DEF AgentInv, MemoryHeld, FilesHeld

LEMMA QuietScreen ==
  ASSUME AgentInv, UNCHANGED <<public, mode, shown, disk>>, pc' # "down",
         pc' \in InTurn => turn'.about \in {"utterance", "finish"},
         Unsaved <= Unsaved', Goes' => Goes /\ NewMessages <= NewMessages'
  PROVE  ShownHeld'
<1>1. /\ Unsaved \in Nat /\ NewMessages \in Nat
      /\ Unsaved' \in Nat /\ NewMessages' \in Nat
  <2>1. Unsaved' \in Nat /\ NewMessages' \in Nat
    BY AddedTypes, TurnTypes DEF Unsaved, NewMessages
  <2>2. QED
    BY <2>1, AddedTypes
<1>2. Len(shown) \in Nat /\ Len(public) \in Nat
  BY DEF AgentInv, AgentTypes, MemoryHeld, Held, Wellformed
<1>3. SavedMessages' = SavedMessages
  BY DEF SavedMessages
<1>4. Agrees(public, shown, Len(shown))'
  BY DEF AgentInv, ShownHeld, Agrees
<1>5. Agrees(SavedMessages, shown, Len(shown) - Unsaved)'
  BY <1>1, <1>2, <1>3, AgreesLess DEF AgentInv, ShownHeld
<1>6. (Goes => Agrees(SavedMessages, public, Len(public) - NewMessages))'
  BY <1>1, <1>2, <1>3, AgreesLess DEF AgentInv, ShownHeld
<1>7. QED
  BY <1>4, <1>5, <1>6 DEF ShownHeld

(* A turn that raises ends the process, and one that goes on adds nothing.   *)
LEMMA RaiseScreen ==
  ASSUME AgentInv, UNCHANGED <<public, mode, shown, disk>>, pc \in InTurn \cup {"ready"},
         pc' = "save" /\ then' = "exit"
  PROVE  ShownHeld'
<1>1. Unsaved = 0 /\ Unsaved' = 0 /\ ~Goes'
  BY DEF Unsaved, InSave, Goes, GoesOn, InTurn
<1>2. pc' # "down" /\ pc' \notin InTurn
  BY DEF InTurn
<1>3. QED
  BY <1>1, <1>2, QuietScreen

LEMMA TurnScreen ==
  ASSUME AgentInv, UNCHANGED <<public, mode, shown, disk>>, pc \in InTurn, pc' \in InTurn,
         turn'.about = turn.about
  PROVE  ShownHeld'
<1>1. Unsaved = 0 /\ Unsaved' = 0 /\ Goes /\ NewMessages' = NewMessages /\ pc' # "down"
  BY DEF Unsaved, InSave, Goes, NewMessages, InTurn
<1>2. turn'.about \in {"utterance", "finish"}
  BY DEF AgentInv, ShownHeld
<1>3. QED
  BY <1>1, <1>2, AddedTypes, QuietScreen

LEMMA FinishInv == AgentInv /\ Finish => AgentInv'
<1> SUFFICES ASSUME AgentInv, Finish PROVE AgentInv'
  OBVIOUS
<1>1. AgentTypes'
  BY TurnTypes DEF AgentInv, AgentTypes, StateType, MetadataType, TurnType, Saving, InTurn, Finish
<1>2. MemoryHeld' /\ FilesHeld'
  BY QuietSteps DEF AgentInv, AgentTypes, StateType, Finish
<1>3. GateHeld'
  BY TurnTypes DEF AgentInv, GateHeld, InTurn, Finish
<1>4. AnsweredHeld'
  BY DEF AgentInv, AnsweredHeld, Saving, InTurn, Finish
<1>5. StatusHeld'
  BY TurnTypes, AgentAssumption DEF AgentInv, AgentTypes, StateType, MetadataType, TurnType, Saving, InTurn, GateHeld, StatusHeld, StatusTrue, Fits, GoesOn, InSave, FailureKinds, Finish
<1>6. ShownHeld'
  <2>1. pc = "ready" /\ UNCHANGED <<public, mode, shown, disk>>
    BY DEF Finish
  <2>2. Unsaved = 0 /\ Goes /\ NewMessages = 0
    BY <2>1 DEF Unsaved, InSave, Goes, GoesOn, NewMessages, InTurn
  <2>3. Unsaved' \in Nat /\ NewMessages' \in Nat
    BY AddedTypes DEF Unsaved, NewMessages
  <2>4. pc' # "down" /\ (pc' \in InTurn => turn'.about \in {"utterance", "finish"})
    BY TurnTypes DEF Finish, InTurn
  <2>5. QED
    BY <2>1, <2>2, <2>3, <2>4, QuietScreen
<1>7. QED
  BY <1>1, <1>2, <1>3, <1>4, <1>5, <1>6 DEF AgentInv

LEMMA StopInv == AgentInv /\ Stop => AgentInv'
<1> SUFFICES ASSUME AgentInv, Stop PROVE AgentInv'
  OBVIOUS
<1>1. AgentTypes'
  BY TurnTypes DEF AgentInv, AgentTypes, StateType, MetadataType, TurnType, Saving, InTurn, Stop, Stopped
<1>2. MemoryHeld' /\ FilesHeld'
  BY QuietSteps DEF AgentInv, AgentTypes, StateType, Stop, Stopped
<1>3. GateHeld'
  BY DEF AgentInv, GateHeld, InTurn, Stop, Stopped
<1>4. AnsweredHeld'
  BY DEF AgentInv, AnsweredHeld, Saving, InTurn, Stop, Stopped
<1>5. StatusHeld'
  BY TurnTypes, AgentAssumption DEF AgentInv, AgentTypes, StateType, MetadataType, TurnType, Saving, InTurn, GateHeld, StatusHeld, StatusTrue, Fits, GoesOn, InSave, FailureKinds, Stop, Stopped
<1>6. ShownHeld'
  BY RaiseScreen DEF Stop
<1>7. QED
  BY <1>1, <1>2, <1>3, <1>4, <1>5, <1>6 DEF AgentInv

LEMMA GenerateFailsInv == AgentInv /\ GenerateFails => AgentInv'
<1> SUFFICES ASSUME AgentInv, GenerateFails PROVE AgentInv'
  OBVIOUS
<1>1. AgentTypes'
  BY TurnTypes, FailedType, LimitsAreFailures DEF AgentInv, AgentTypes, Saving, InTurn, GenerateFails, Raise
<1>2. MemoryHeld' /\ FilesHeld'
  BY QuietSteps DEF AgentInv, AgentTypes, StateType, GenerateFails, Raise, Failed
<1>3. GateHeld'
  BY DEF AgentInv, GateHeld, InTurn, GenerateFails, Raise, Failed
<1>4. AnsweredHeld'
  BY DEF AgentInv, AnsweredHeld, Saving, InTurn, GenerateFails, Raise, Failed
<1>5. StatusHeld'
  BY TurnTypes, FailedType, LimitsAreFailures DEF AgentInv, AgentTypes, Saving, InTurn, StatusHeld, StatusTrue, Fits, GoesOn, InSave, GenerateFails, Raise
<1>6. ShownHeld'
  BY RaiseScreen DEF GenerateFails, Raise, InTurn
<1>7. QED
  BY <1>1, <1>2, <1>3, <1>4, <1>5, <1>6 DEF AgentInv

LEMMA CancelInv == AgentInv /\ Cancel => AgentInv'
<1> SUFFICES ASSUME AgentInv, Cancel PROVE AgentInv'
  OBVIOUS
<1>1. AgentTypes'
  BY TurnTypes DEF AgentInv, AgentTypes, StateType, MetadataType, TurnType, Saving, InTurn, Cancel, Raise
<1>2. MemoryHeld' /\ FilesHeld'
  BY QuietSteps DEF AgentInv, AgentTypes, StateType, Cancel, Raise
<1>3. GateHeld'
  BY DEF AgentInv, GateHeld, InTurn, Cancel, Raise
<1>4. AnsweredHeld'
  BY DEF AgentInv, AnsweredHeld, Saving, InTurn, Cancel, Raise
<1>5. StatusHeld'
  BY TurnTypes, AgentAssumption DEF AgentInv, AgentTypes, StateType, MetadataType, TurnType, Saving, InTurn, GateHeld, StatusHeld, StatusTrue, Fits, GoesOn, InSave, FailureKinds, Cancel, Raise
<1>6. ShownHeld'
  BY RaiseScreen DEF Cancel, Raise, InTurn
<1>7. QED
  BY <1>1, <1>2, <1>3, <1>4, <1>5, <1>6 DEF AgentInv

LEMMA AskForToolsInv == AgentInv /\ AskForTools => AgentInv'
<1> SUFFICES ASSUME AgentInv, AskForTools PROVE AgentInv'
  OBVIOUS
<1>1. MemoryHeld' /\ FilesHeld'
  BY QuietSteps DEF AgentInv, AgentTypes, StateType, AskForTools, Raise
<1>2. AnsweredHeld'
  BY DEF AgentInv, AnsweredHeld, Saving, InTurn, AskForTools, Raise
<1>3. /\ unanswered' = TRUE /\ pc = "turn"
      /\ UNCHANGED <<state, public, mode, shown, disk>>
      /\ turn \in TurnType
  BY DEF AgentInv, AgentTypes, AskForTools
<1>4. CASE metadata' = Failed("tool_execution_limit") /\ Raise
  <2>1. AgentTypes'
    BY <1>3, <1>4, TurnTypes, FailedType, LimitsAreFailures DEF AgentInv, AgentTypes, Saving, InTurn, Raise
  <2>2. GateHeld'
    BY <1>4 DEF GateHeld, Raise
  <2>3. StatusHeld'
    BY <1>3, <1>4, TurnTypes, FailedType, LimitsAreFailures
    DEF AgentInv, StatusHeld, StatusTrue, Fits, GoesOn, InSave, Raise, InTurn
  <2>4. ShownHeld'
    BY <1>3, <1>4, RaiseScreen DEF Raise, InTurn
  <2>5. QED
    BY <1>1, <1>2, <2>1, <2>2, <2>3, <2>4 DEF AgentInv
<1>5. ASSUME NEW n \in 1..(MaxToolCalls + 1),
             turn' = [turn EXCEPT !.calls = @ + n, !.batch = n],
             pc' = "tools", UNCHANGED <<metadata, allowed, then>>
      PROVE  AgentInv'
  <2>1. turn' \in TurnType /\ turn'.about = turn.about
    <3>1. n \in Nat
      BY AgentAssumption
    <3>2. /\ [turn EXCEPT !.calls = @ + n, !.batch = n] \in TurnType
          /\ [turn EXCEPT !.calls = @ + n, !.batch = n].about = turn.about
      BY <1>3, <3>1, TurnGoesOn, Zenon
    <3>3. QED
      BY <1>5, <3>2, Zenon
  <2>2. AgentTypes'
    BY <1>3, <1>5, <2>1 DEF AgentInv, AgentTypes, Saving, InTurn
  <2>3. GateHeld'
    BY <1>5, <2>1 DEF AgentInv, GateHeld, InTurn
  <2>4. StatusHeld'
    BY <1>3, <1>5, <2>1 DEF AgentInv, StatusHeld, StatusTrue, Fits, GoesOn, InSave, Saving, InTurn
  <2>5. ShownHeld'
    BY <1>3, <1>5, <2>1, TurnScreen DEF InTurn
  <2>6. QED
    BY <1>1, <1>2, <2>2, <2>3, <2>4, <2>5 DEF AgentInv
<1>6. QED
  BY <1>4, <1>5 DEF AskForTools

LEMMA CallInv == AgentInv /\ Call => AgentInv'
<1> SUFFICES ASSUME AgentInv, Call PROVE AgentInv'
  OBVIOUS
<1>1. AgentTypes'
  <2>1. state' \in StateType
    <3>1. state \in StateType
      BY DEF AgentInv, AgentTypes
    <3>2. [state EXCEPT !.changes = @ + 1] \in StateType
      BY <3>1 DEF StateType
    <3>3. [state EXCEPT !.ended = TRUE] \in StateType
      BY <3>1 DEF StateType
    <3>4. \/ state' = state
          \/ state' = [state EXCEPT !.changes = @ + 1]
          \/ state' = [state EXCEPT !.ended = TRUE]
      BY DEF Call
    <3>5. QED
      BY <3>1, <3>2, <3>3, <3>4
  <2>2. turn' \in TurnType
    BY TurnGoesOn DEF AgentInv, AgentTypes, Call
  <2>3. QED
    BY <2>1, <2>2 DEF AgentInv, AgentTypes, Saving, InTurn, Call
<1>2. MemoryHeld' /\ FilesHeld'
  BY QuietSteps DEF AgentInv, AgentTypes, StateType, Call, MayComplete
<1>3. GateHeld'
  BY DEF AgentInv, GateHeld, InTurn, Call, MayComplete
<1>4. AnsweredHeld'
  BY DEF AgentInv, AnsweredHeld, Saving, InTurn, Call, MayComplete
<1>5. StatusHeld'
  BY TurnTypes, AgentAssumption DEF AgentInv, AgentTypes, StateType, MetadataType, TurnType, Saving, InTurn, GateHeld, StatusHeld, StatusTrue, Fits, GoesOn, InSave, FailureKinds, Call, MayComplete
<1>6. ShownHeld'
  <2>1. turn'.about = turn.about
    BY TurnGoesOn DEF AgentInv, AgentTypes, Call
  <2>2. QED
    BY <2>1, TurnScreen DEF Call, InTurn
<1>7. QED
  BY <1>1, <1>2, <1>3, <1>4, <1>5, <1>6 DEF AgentInv

LEMMA ExecuteFailsInv == AgentInv /\ ExecuteFails => AgentInv'
<1> SUFFICES ASSUME AgentInv, ExecuteFails PROVE AgentInv'
  OBVIOUS
<1>1. AgentTypes'
  BY TurnTypes, FailedType, LimitsAreFailures DEF AgentInv, AgentTypes, Saving, InTurn, ExecuteFails, Raise
<1>2. MemoryHeld' /\ FilesHeld'
  BY QuietSteps DEF AgentInv, AgentTypes, StateType, ExecuteFails, Raise, Failed
<1>3. GateHeld'
  BY DEF AgentInv, GateHeld, InTurn, ExecuteFails, Raise, Failed
<1>4. AnsweredHeld'
  BY DEF AgentInv, AnsweredHeld, Saving, InTurn, ExecuteFails, Raise, Failed
<1>5. StatusHeld'
  BY TurnTypes, FailedType, LimitsAreFailures DEF AgentInv, AgentTypes, Saving, InTurn, StatusHeld, StatusTrue, Fits, GoesOn, InSave, ExecuteFails, Raise
<1>6. ShownHeld'
  BY RaiseScreen DEF ExecuteFails, Raise, InTurn
<1>7. QED
  BY <1>1, <1>2, <1>3, <1>4, <1>5, <1>6 DEF AgentInv

(* The results are in: three cases. *)
LEMMA BatchEndsInv == AgentInv /\ BatchEnds => AgentInv'
<1> SUFFICES ASSUME AgentInv, BatchEnds PROVE AgentInv'
  OBVIOUS
<1>1. MemoryHeld' /\ FilesHeld'
  BY QuietSteps DEF AgentInv, AgentTypes, StateType, BatchEnds, Raise, Return
<1>2. AnsweredHeld'
  BY DEF AgentInv, AnsweredHeld, Saving, InTurn, BatchEnds, Raise, Return
<1>3. CASE state.ended /\ metadata' = Success /\ Return
  <2>1. metadata' = [status |-> "completed", failure |-> "none"]
    BY <1>3 DEF Success, BatchEnds
  <2>2. AgentTypes'
    <3>1. metadata' \in MetadataType
      BY <2>1 DEF MetadataType
    <3>2. turn' \in TurnType /\ then' \in {"next", "stop", "exit"}
      BY <1>3, TurnTypes DEF AgentInv, AgentTypes, Return
    <3>3. QED
      BY <1>3, <3>1, <3>2 DEF AgentInv, AgentTypes, Saving, InTurn, BatchEnds, Return
  <2>3. GateHeld'
    BY <1>3 DEF GateHeld, Return
  <2>4. StatusHeld'
    BY <1>3, <2>1 DEF AgentInv, StatusHeld, StatusTrue, Fits, GoesOn, InSave, BatchEnds, Return, InTurn
  <2>5. ShownHeld'
    <3>1. /\ pc \in InTurn /\ pc' = "save" /\ UNCHANGED <<public, mode, shown, disk>>
          /\ turn'.about = turn.about /\ turn.about \in {"utterance", "finish"}
      BY <1>3, TurnTypes DEF AgentInv, AgentTypes, ShownHeld, BatchEnds, Return, InTurn
    <3>2. Unsaved = 0 /\ Unsaved' \in Nat /\ Goes
      BY <3>1, AddedTypes DEF Unsaved, InSave, Goes, InTurn
    <3>3. NewMessages <= NewMessages'
      BY <3>1 DEF NewMessages, AddedBy, InSave, InTurn
    <3>4. QED
      BY <3>1, <3>2, <3>3, QuietScreen DEF InTurn
  <2>6. QED
    BY <1>1, <1>2, <2>2, <2>3, <2>4, <2>5 DEF AgentInv
<1>4. CASE ~state.ended /\ metadata' = Failed("model_call_limit") /\ Raise
  <2>1. AgentTypes'
    BY <1>4, TurnTypes, FailedType, LimitsAreFailures DEF AgentInv, AgentTypes, Saving, InTurn, BatchEnds, Raise
  <2>2. GateHeld'
    BY <1>4 DEF GateHeld, Raise
  <2>3. StatusHeld'
    BY <1>4, TurnTypes, FailedType, LimitsAreFailures
    DEF AgentInv, AgentTypes, StatusHeld, StatusTrue, Fits, GoesOn, InSave, BatchEnds, Raise, InTurn
  <2>4. ShownHeld'
    BY <1>4, RaiseScreen DEF BatchEnds, Raise, InTurn
  <2>5. QED
    BY <1>1, <1>2, <2>1, <2>2, <2>3, <2>4 DEF AgentInv
<1>5. CASE /\ ~state.ended /\ turn' = NextRound(turn) /\ pc' = "turn"
           /\ UNCHANGED <<metadata, allowed, then>>
  <2>1. turn' \in TurnType /\ turn'.about = turn.about
    BY <1>5, TurnGoesOn DEF AgentInv, AgentTypes
  <2>2. AgentTypes'
    BY <1>5, <2>1 DEF AgentInv, AgentTypes, Saving, InTurn, BatchEnds
  <2>3. GateHeld'
    BY <1>5, <2>1 DEF AgentInv, GateHeld, InTurn
  <2>4. StatusHeld'
    BY <1>5, <2>1 DEF AgentInv, StatusHeld, StatusTrue, Fits, GoesOn, InSave, BatchEnds, Saving, InTurn
  <2>5. ShownHeld'
    BY <1>5, <2>1, TurnScreen DEF BatchEnds, InTurn
  <2>6. QED
    BY <1>1, <1>2, <2>2, <2>3, <2>4, <2>5 DEF AgentInv
<1>6. QED
  BY <1>3, <1>4, <1>5 DEF BatchEnds

LEMMA SaveBeginsInv == AgentInv /\ SaveBegins => AgentInv'
<1> SUFFICES ASSUME AgentInv, SaveBegins PROVE AgentInv'
  OBVIOUS
<1>1. AgentTypes'
  BY TurnTypes DEF AgentInv, AgentTypes, StateType, MetadataType, TurnType, Saving, InTurn, SaveBegins, Write, agent
<1>2. MemoryHeld' /\ FilesHeld'
  BY QuietSteps DEF AgentInv, AgentTypes, StateType, SaveBegins, Write, agent
<1>3. GateHeld'
  BY DEF AgentInv, GateHeld, InTurn, SaveBegins, Write, agent
<1>4. AnsweredHeld'
  BY DEF AgentInv, AnsweredHeld, Saving, InTurn, SaveBegins, Write, agent
<1>5. StatusHeld'
  BY TurnTypes, AgentAssumption DEF AgentInv, AgentTypes, StateType, MetadataType, TurnType, Saving, InTurn, GateHeld, StatusHeld, StatusTrue, Fits, GoesOn, InSave, FailureKinds, SaveBegins, Write, agent
<1>6. ShownHeld'
  <2>1. /\ pc = "save" /\ pc' = "write" /\ UNCHANGED <<turn, then, mode, public, shown, disk>>
    BY DEF SaveBegins, Write, agent
  <2>2. Unsaved' = Unsaved /\ NewMessages' = NewMessages /\ Goes' = Goes
    BY <2>1 DEF Unsaved, InSave, Goes, GoesOn, NewMessages, InTurn
  <2>3. QED
    BY <2>1, <2>2, AddedTypes, QuietScreen DEF InTurn
<1>7. QED
  BY <1>1, <1>2, <1>3, <1>4, <1>5, <1>6 DEF AgentInv

-----------------------------------------------------------------------------
(* Steps that change the conversation, the screen or the files *)

LEMMA StartInv == AgentInv /\ Start => AgentInv'
<1> SUFFICES ASSUME AgentInv, Start PROVE AgentInv'
  OBVIOUS
<1>1. /\ state' \in StateType /\ Held(state'.utterances, public', next_number')
      /\ metadata' = [status |-> IF state'.ended THEN "completed" ELSE "active", failure |-> "none"]
  <2>1. CASE Resume
    <3>1. Whole(disk)
      BY <2>1 DEF AgentInv, FilesHeld, Resume, Loadable, NoFile
    <3>2. QED
      BY <2>1, <3>1 DEF Resume, Whole
  <2>2. CASE Fresh
    BY <2>2, NothingHeld, FreshType DEF Fresh, NothingSaid, Active
  <2>3. QED
    BY <2>1, <2>2 DEF Start
<1>2. AgentTypes'
  <2>1. metadata' \in MetadataType
    BY <1>1 DEF MetadataType
  <2>2. QED
    BY <1>1, <2>1, TurnTypes DEF AgentInv, AgentTypes, Saving, InTurn, Start
<1>3. MemoryHeld'
  BY <1>1 DEF MemoryHeld
<1>4. FilesHeld' /\ GateHeld' /\ AnsweredHeld'
  BY DEF AgentInv, FilesHeld, GateHeld, AnsweredHeld, Saving, Start
<1>5. StatusHeld'
  BY <1>1, TurnTypes DEF AgentInv, StatusHeld, StatusTrue, Fits, GoesOn, InSave, InTurn, Start
<1>6. ShownHeld'
  <2>1. /\ shown' = <<>> /\ pc' = "ready" /\ disk' = disk
    BY DEF AgentInv, ShownHeld, Start
  <2>2. Unsaved' = 0 /\ NewMessages' = 0
    BY <2>1 DEF Unsaved, InSave, NewMessages, InTurn
  <2>3. public' = SavedMessages'
    BY <2>1 DEF Start, Resume, Fresh, SavedMessages, Loadable, NoFile
  <2>4. Len(public') \in Nat /\ DOMAIN public' = 1..Len(public')
    BY <1>1 DEF Held, Wellformed
  <2>5. QED
    BY <2>1, <2>2, <2>3, <2>4 DEF ShownHeld, Agrees, InTurn
<1>7. QED
  BY <1>2, <1>3, <1>4, <1>5, <1>6 DEF AgentInv

(* An utterance with an id: refused, or said and answered in a turn. *)
LEMMA SayInv ==
  ASSUME AgentInv, NEW id \in Id, NEW given \in BOOLEAN, Say(id, given),
         NumberAfter(id, given) \in Nat, NumberAfter(id, given) >= next_number,
         NumberAfter(id, given) > NumberOf(id)
  PROVE  AgentInv'
<1>1. Held(state.utterances, public, next_number) /\ state \in StateType
  BY DEF AgentInv, MemoryHeld, AgentTypes
<1>2. /\ next_number' = NumberAfter(id, given) /\ pc = "ready"
      /\ UNCHANGED <<allowed, metadata, unanswered, mode, shown, temporary, disk, sessions>>
  BY DEF Say
<1>3. CASE pc' = "save" /\ then' = "exit" /\ UNCHANGED <<state, public, turn>>
  <2>1. Held(state'.utterances, public', next_number')
    <3>1. \A k \in DOMAIN state.utterances :
            NumberOf(state.utterances[k]) \in Nat /\ NumberOf(state.utterances[k]) < next_number
      BY <1>1, IdNumbers DEF Held, Sound
    <3>2. \A k \in DOMAIN state.utterances : NumberOf(state.utterances[k]) < next_number'
      BY <1>1, <1>2, <3>1 DEF Held
    <3>3. QED
      BY <1>1, <1>2, <1>3, <3>2 DEF Held, Sound
  <2>2. AgentTypes' /\ MemoryHeld' /\ FilesHeld'
    BY <1>2, <1>3, <2>1 DEF AgentInv, AgentTypes, MemoryHeld, FilesHeld, Saving, InTurn
  <2>3. GateHeld' /\ AnsweredHeld'
    BY <1>2, <1>3 DEF AgentInv, GateHeld, AnsweredHeld, Saving, InTurn
  <2>4. StatusHeld'
    BY <1>2, <1>3 DEF AgentInv, StatusHeld, StatusTrue, Fits, GoesOn, InSave, Saving, InTurn
  <2>5. ShownHeld'
    BY <1>2, <1>3, RaiseScreen
  <2>6. QED
    BY <2>2, <2>3, <2>4, <2>5 DEF AgentInv
<1>4. CASE /\ <<"user", id>> \notin {m.id : m \in Range(public)} /\ ~state.ended
           /\ state' = [state EXCEPT !.utterances = Append(@, id)]
           /\ public' = Append(public, UserMessage(id, ReplyLink(public)))
           /\ turn' = Started("utterance") /\ pc' = "turn" /\ UNCHANGED then
  <2>1. \A k \in DOMAIN public : public[k].id # <<"user", id>>
    BY <1>4 DEF Range
  <2>2. /\ state'.utterances = Append(state.utterances, id) /\ state'.ended = state.ended
        /\ state' \in StateType
    <3>1. Append(state.utterances, id) \in Seq(Id)
      BY <1>1 DEF Held
    <3>2. state'.utterances = Append(state.utterances, id)
      BY <1>1, <1>4 DEF StateType
    <3>3. state'.ended = state.ended
      BY <1>1, <1>4 DEF StateType
    <3>4. state' \in StateType
      BY <1>1, <1>4, <3>1 DEF StateType
    <3>5. QED
      BY <3>2, <3>3, <3>4
  <2>3. Held(state'.utterances, public', next_number')
    BY <1>1, <1>2, <1>4, <2>1, <2>2, SayHolds
  <2>4. public \in Seq(Messages) /\ UserMessage(id, ReplyLink(public)) \in Messages
    BY <1>1, ReplyLinkType DEF Held, Wellformed, Messages
  <2>5. /\ public' # <<>> /\ public'[Len(public')].role = "user"
    BY <1>4, <2>4, MessageRoles
  <2>6. AgentTypes' /\ MemoryHeld' /\ FilesHeld'
    BY <1>2, <1>4, <2>2, <2>3, TurnTypes
    DEF AgentInv, AgentTypes, MemoryHeld, FilesHeld, Saving, InTurn
  <2>7. GateHeld' /\ AnsweredHeld'
    BY <1>2, <1>4 DEF AgentInv, GateHeld, AnsweredHeld, Saving, InTurn
  <2>8. StatusHeld'
    BY <1>2, <1>4, <2>2, <2>5 DEF AgentInv, StatusHeld, StatusTrue, Fits, GoesOn, InSave, Saving, InTurn
  <2>9. ShownHeld'
    <3>1. /\ Len(shown) \in Nat /\ Len(public) \in Nat
          /\ Len(public') - 1 = Len(public)
      BY <1>1, <1>4, <2>4 DEF AgentInv, AgentTypes
    <3>2. /\ Unsaved = 0 /\ Unsaved' = 0 /\ NewMessages = 0 /\ NewMessages' = 1 /\ Goes
      BY <1>2, <1>4, TurnTypes DEF Unsaved, InSave, NewMessages, InTurn, Goes, GoesOn
    <3>3. Agrees(public', shown', Len(shown'))
      BY <1>2, <1>4, <2>4, <3>1, AgreesGrows DEF AgentInv, ShownHeld
    <3>4. Agrees(SavedMessages', shown', Len(shown') - Unsaved')
      BY <1>2, <3>2 DEF AgentInv, ShownHeld, SavedMessages
    <3>5. Agrees(SavedMessages, public, Len(public))
      BY <3>1, <3>2 DEF AgentInv, ShownHeld
    <3>6. Agrees(SavedMessages', public', Len(public') - NewMessages')
      BY <1>2, <1>4, <2>4, <3>1, <3>2, <3>5 DEF Agrees, SavedMessages
    <3>7. QED
      BY <1>4, <3>3, <3>4, <3>6, TurnTypes DEF ShownHeld, InTurn
  <2>10. QED
    BY <2>6, <2>7, <2>8, <2>9 DEF AgentInv
<1>5. QED
  BY <1>3, <1>4 DEF Say

LEMMA SayNumberedInv == AgentInv /\ SayNumbered => AgentInv'
<1> SUFFICES ASSUME AgentInv, SayNumbered PROVE AgentInv'
  OBVIOUS
<1>1. next_number \in Nat
  BY DEF AgentInv, MemoryHeld, Held
<1> DEFINE id == Numbered(next_number)
<1>2. id \in Id /\ NumberOf(id) = next_number
  BY <1>1, IdNumbers
<1>3. NumberAfter(id, FALSE) = next_number + 1
  BY DEF NumberAfter
<1>4. Say(id, FALSE)
  BY DEF SayNumbered
<1> HIDE DEF id
<1>5. /\ next_number + 1 \in Nat /\ next_number + 1 >= next_number
      /\ next_number + 1 > next_number
  BY <1>1
<1>6. /\ NumberAfter(id, FALSE) \in Nat
      /\ NumberAfter(id, FALSE) >= next_number
      /\ NumberAfter(id, FALSE) > NumberOf(id)
  BY <1>2, <1>3, <1>5, Zenon
<1>7. QED
  BY <1>2, <1>4, <1>6, SayInv

LEMMA SayGivenInv == AgentInv /\ SayGiven => AgentInv'
<1> SUFFICES ASSUME AgentInv, NEW id \in GivenIds, Say(id, TRUE) PROVE AgentInv'
  BY DEF SayGiven
<1>1. next_number \in Nat /\ id \in Id /\ NumberOf(id) \in Nat
  BY IdNumbers DEF AgentInv, MemoryHeld, Held
<1>2. NumberAfter(id, TRUE) \in Nat /\ NumberAfter(id, TRUE) >= next_number
      /\ NumberAfter(id, TRUE) > NumberOf(id)
  BY <1>1 DEF NumberAfter, Bumped
<1>3. QED
  BY <1>1, <1>2, SayInv

LEMMA AnswerInv == AgentInv /\ Answer => AgentInv'
<1> SUFFICES ASSUME AgentInv, Answer PROVE AgentInv'
  OBVIOUS
<1> DEFINE m == AssistantMessage(Len(public))
<1>1. /\ Held(state.utterances, public, next_number)
      /\ public \in Seq(Messages) /\ m \in Messages
  BY DEF AgentInv, MemoryHeld, Held, Wellformed, Messages
<1>2. /\ public' = Append(public, m) /\ public' \in Seq(Messages) /\ pc = "turn"
      /\ metadata' = [status |-> IF state.ended THEN "completed" ELSE "active", failure |-> "none"]
      /\ UNCHANGED <<state, next_number, unanswered, mode, temporary, disk>>
  BY <1>1 DEF Answer, Success
<1>3. AgentTypes'
  <2>1. metadata' \in MetadataType
    BY <1>2 DEF MetadataType
  <2>2. shown' \in Seq(Messages)
    BY <1>2 DEF AgentInv, AgentTypes, Answer
  <2>3. turn' \in TurnType
    BY TurnTypes DEF AgentInv, AgentTypes, Answer, Return
  <2>4. QED
    BY <1>2, <2>1, <2>2, <2>3 DEF AgentInv, AgentTypes, Saving, InTurn, Answer, Return
<1>4. MemoryHeld'
  BY <1>1, <1>2, ReplyHolds DEF MemoryHeld
<1>5. FilesHeld' /\ GateHeld' /\ AnsweredHeld'
  BY <1>2 DEF AgentInv, FilesHeld, GateHeld, AnsweredHeld, Saving, InTurn, Answer, Return
<1>6. StatusHeld'
  BY <1>2 DEF AgentInv, StatusHeld, StatusTrue, Fits, GoesOn, InSave, InTurn, Answer, Return
<1>7. ShownHeld'
  <2>1. /\ pc' = "save" /\ turn'.about = turn.about /\ turn.about \in {"utterance", "finish"}
        /\ then' # "exit" /\ Goes /\ Unsaved = 0
    BY <1>2, TurnTypes
    DEF AgentInv, AgentTypes, ShownHeld, Answer, Return, InTurn, Goes, Unsaved, InSave
  <2>2. /\ Len(shown) \in Nat /\ Len(public) \in Nat /\ Len(public') = Len(public) + 1
    BY <1>1, <1>2 DEF AgentInv, AgentTypes
  <2>3. /\ NewMessages \in Nat /\ NewMessages' = NewMessages + 1
    BY <1>2, <2>1 DEF NewMessages, AddedBy, InSave, InTurn
  <2>4. Unsaved' = IF mode = "fixed" THEN NewMessages' ELSE 0
    BY <1>2, <2>1 DEF Unsaved, NewMessages, InSave, InTurn
  <2>5. Agrees(SavedMessages', public', Len(public') - NewMessages')
    <3>1. Agrees(SavedMessages, public, Len(public) - NewMessages)
      BY <2>1 DEF AgentInv, ShownHeld
    <3>2. Len(public') - NewMessages' = Len(public) - NewMessages
      BY <2>2, <2>3
    <3>3. \A k \in 1..(Len(public) - NewMessages) : public'[k] = public[k]
      BY <1>1, <1>2, <2>2, <2>3
    <3>4. QED
      BY <1>2, <3>1, <3>2, <3>3 DEF Agrees, SavedMessages
  <2>6. Agrees(public, shown, Len(shown)) /\ Agrees(SavedMessages, shown, Len(shown))
    BY <2>1, <2>2 DEF AgentInv, ShownHeld
  <2>7. CASE shown' = public' /\ mode = "fixed"
    <3>1. Agrees(public', shown', Len(shown'))
      BY <1>2, <2>7 DEF Agrees
    <3>2. Agrees(SavedMessages', shown', Len(shown') - Unsaved')
      BY <2>4, <2>5, <2>7
    <3>3. QED
      BY <2>1, <2>5, <3>1, <3>2 DEF ShownHeld, InTurn
  <2>8. CASE shown' = shown /\ mode = "interactive"
    <3>1. Agrees(public', shown', Len(shown'))
      BY <1>1, <1>2, <2>2, <2>6, <2>8, AgreesGrows
    <3>2. Agrees(SavedMessages', shown', Len(shown') - Unsaved')
      BY <1>2, <2>2, <2>4, <2>6, <2>8 DEF SavedMessages
    <3>3. QED
      BY <2>1, <2>5, <3>1, <3>2 DEF ShownHeld, InTurn
  <2>9. QED
    BY <2>7, <2>8 DEF AgentInv, AgentTypes, Answer, PrintsAtOnce
<1>8. QED
  BY <1>3, <1>4, <1>5, <1>6, <1>7 DEF AgentInv

LEMMA SaveWritesInv == AgentInv /\ SaveWrites => AgentInv'
<1> SUFFICES ASSUME AgentInv, SaveWrites PROVE AgentInv'
  OBVIOUS
<1>1. /\ UNCHANGED <<state, public, next_number, allowed, metadata, unanswered, turn>>
      /\ UNCHANGED <<mode, then, shown, disk>>
      /\ temporary' = Checkpoint /\ pc = "write" /\ pc' = "replace"
  BY DEF SaveWrites, Write, agent
<1>2. AgentTypes' /\ MemoryHeld'
  BY <1>1 DEF AgentInv, AgentTypes, MemoryHeld, Saving, InTurn
<1>3. FilesHeld'
  BY <1>1 DEF AgentInv, FilesHeld, Checkpoint
<1>4. GateHeld' /\ AnsweredHeld'
  BY <1>1 DEF AgentInv, GateHeld, AnsweredHeld, Saving, InTurn
<1>5. StatusHeld'
  BY <1>1 DEF AgentInv, StatusHeld, StatusTrue, Fits, GoesOn, InSave, Saving, InTurn
<1>6. ShownHeld'
  <2>1. Unsaved' = Unsaved /\ NewMessages' = NewMessages /\ Goes' = Goes
    BY <1>1 DEF Unsaved, InSave, Goes, GoesOn, NewMessages, InTurn
  <2>2. QED
    BY <1>1, <2>1, AddedTypes, QuietScreen DEF InTurn
<1>7. QED
  BY <1>2, <1>3, <1>4, <1>5, <1>6 DEF AgentInv

LEMMA ReplaceInv == AgentInv /\ Replace => AgentInv'
<1> SUFFICES ASSUME AgentInv, Replace PROVE AgentInv'
  OBVIOUS
<1>1. /\ pc = "replace" /\ disk' = Checkpoint /\ disk' # NoFile
      /\ disk'.public = public /\ Whole(disk') /\ Fits(disk'.metadata, disk'.state)
  BY DEF AgentInv, AgentTypes, MemoryHeld, FilesHeld, StatusHeld, StatusTrue, Replace, Checkpoint,
         Whole, NoFile
<1>2. public \in Seq(Messages)
  BY DEF AgentInv, MemoryHeld, Held, Wellformed
<1>3. CASE Gone
  BY <1>1, <1>3, GoneInv
<1>4. CASE /\ then # "exit"
           /\ pc' \in {"ready", "save"} /\ (pc' = "save" => then' = "exit")
           /\ then' \in {"next", "stop", "exit"}
           /\ shown' = (IF mode = "interactive" THEN public ELSE shown)
           /\ turn' = NoTurn
           /\ metadata' = metadata \/ (metadata' = Stopped /\ pc' = "save")
           /\ UNCHANGED <<state, public, next_number, allowed, unanswered, mode>>
  <2>1. AgentTypes'
    <3>1. metadata' \in MetadataType
      BY <1>4 DEF AgentInv, AgentTypes, Stopped, MetadataType
    <3>2. QED
      BY <1>2, <1>4, <3>1, TurnTypes DEF AgentInv, AgentTypes, Saving, InTurn
  <2>2. MemoryHeld' /\ FilesHeld'
    BY <1>1, <1>4 DEF AgentInv, MemoryHeld, FilesHeld
  <2>3. GateHeld' /\ AnsweredHeld'
    BY <1>1, <1>4 DEF AgentInv, GateHeld, AnsweredHeld, Saving, InTurn
  <2>4. StatusHeld'
    BY <1>1, <1>4, TurnTypes DEF AgentInv, AgentTypes, StatusHeld, StatusTrue, Fits, GoesOn, InSave, Saving, InTurn, Stopped
  <2>5. ShownHeld'
    <3>1. SavedMessages' = public /\ pc' \notin InTurn \cup {"down"}
      BY <1>1, <1>4 DEF SavedMessages, InTurn
    <3>2. Unsaved' = 0 /\ NewMessages' \in Nat
      BY <1>4, <3>1, AddedTypes DEF Unsaved, NewMessages, InSave
    <3>3. Len(public) \in Nat /\ Len(shown) \in Nat /\ DOMAIN public = 1..Len(public)
      BY <1>2 DEF AgentInv, AgentTypes
    <3>4. Agrees(public, shown', Len(shown')) /\ Len(shown') \in Nat
      BY <1>4, <3>3 DEF AgentInv, ShownHeld, Agrees
    <3>5. Agrees(public, public, Len(public) - NewMessages')
      BY <3>2, <3>3 DEF Agrees
    <3>6. QED
      BY <1>4, <3>1, <3>2, <3>4, <3>5 DEF ShownHeld, InTurn
  <2>6. QED
    BY <2>1, <2>2, <2>3, <2>4, <2>5 DEF AgentInv
<1>5. QED
  BY <1>3, <1>4 DEF Replace

LEMMA LeaveInv == AgentInv /\ (Leave \/ Crash) => AgentInv'
<1> SUFFICES ASSUME AgentInv, Leave \/ Crash PROVE AgentInv'
  OBVIOUS
<1>1. Gone /\ disk' = disk
  BY DEF Leave, Crash
<1>2. QED
  BY <1>1, GoneInv

LEMMA StepInv == AgentInv /\ [Next]_vars => AgentInv'
<1> SUFFICES ASSUME AgentInv, [Next]_vars PROVE AgentInv'
  OBVIOUS
<1>1. CASE UNCHANGED vars
  <2>1. /\ UNCHANGED <<state, public, next_number, allowed, metadata, unanswered, turn>>
        /\ UNCHANGED <<pc, mode, then, shown, temporary, disk>>
    BY <1>1 DEF vars, agent
  <2>2. AgentTypes' /\ MemoryHeld' /\ GateHeld' /\ AnsweredHeld'
    BY <2>1 DEF AgentInv, AgentTypes, MemoryHeld, GateHeld, AnsweredHeld
  <2>3. FilesHeld' /\ StatusHeld' /\ ShownHeld'
    BY <2>1 DEF AgentInv, FilesHeld, Checkpoint, StatusHeld, StatusTrue, Fits, GoesOn, InSave,
                ShownHeld, Agrees, SavedMessages, Unsaved, NewMessages, Goes
  <2>4. QED
    BY <2>2, <2>3 DEF AgentInv
<1>2. CASE Start \/ SayNumbered \/ SayGiven \/ Finish \/ Stop \/ Leave \/ Crash
  BY <1>2, StartInv, SayNumberedInv, SayGivenInv, FinishInv, StopInv, LeaveInv
<1>3. CASE TurnStep \/ Cancel
  BY <1>3, GenerateFailsInv, AnswerInv, AskForToolsInv, CallInv, ExecuteFailsInv,
     BatchEndsInv, CancelInv DEF TurnStep
<1>4. CASE SaveStep
  BY <1>4, SaveBeginsInv, SaveWritesInv, ReplaceInv DEF SaveStep
<1>5. QED
  BY <1>1, <1>2, <1>3, <1>4 DEF Next

-----------------------------------------------------------------------------
(* The invariant holds in every reachable state. *)
THEOREM Invariance == Spec => []AgentInv
BY InitInv, StepInv, PTL DEF Spec

(* Whatever fails, is cancelled or crashes, the checkpoint can be resumed     *)
(* from and memory be saved, and the next number is a new one.               *)
THEOREM CheckpointRestorable == Spec => []Restorable
<1>1. AgentInv => Restorable
  <2> SUFFICES ASSUME AgentInv PROVE Restorable
    OBVIOUS
  <2>1. Sound(state.utterances, public, next_number)
    BY DEF AgentInv, MemoryHeld, Held
  <2>2. ASSUME disk # NoFile
        PROVE  Loadable(disk) /\ Sound(disk.state.utterances, disk.public, disk.next_number)
    <3>1. Whole(disk)
      BY <2>2 DEF AgentInv, FilesHeld
    <3>2. disk.next_number >= 1
      BY <3>1 DEF Whole, Held
    <3>3. QED
      BY <3>1, <3>2 DEF Whole, Held, Sound, Loadable
  <2>3. QED
    BY <2>1, <2>2 DEF Restorable
<1>2. QED
  BY <1>1, Invariance, PTL

(* A reply that a user has seen survives a crash, but for those of the turn   *)
(* that a process with fixed inputs has printed and not yet saved.            *)
THEOREM RepliesShownAreSaved == Spec => []ShownIsSaved
<1>1. AgentInv => ShownIsSaved
  BY DEF AgentInv, ShownHeld, Agrees, ShownIsSaved
<1>2. QED
  BY <1>1, Invariance, PTL

(* No generation is asked for while tool calls lack their results: a turn     *)
(* that left some behind ends the process.                                    *)
THEOREM ProviderConversationAnswered == Spec => []ConversationAnswered
<1>1. AgentInv => ConversationAnswered
  BY DEF AgentInv, AnsweredHeld, ConversationAnswered
<1>2. QED
  BY <1>1, Invariance, PTL

(* The status in the metadata, saved or not, is that of the interview, but    *)
(* for one whose last batch failed or was cancelled after ending it: no       *)
(* process goes on with that one.                                             *)
THEOREM MetadataStatusTrue == Spec => []StatusTrue
<1>1. AgentInv => StatusTrue
  BY DEF AgentInv, StatusHeld
<1>2. QED
  BY <1>1, Invariance, PTL

(* The interview ends in a turn of finish, and nowhere else. *)
THEOREM InterviewEndsInFinish == Spec => EndsInFinish
<1> DEFINE Ends == ~state.ended /\ state'.ended =>
                     IF pc = "down" THEN disk.state.ended ELSE turn.about = "finish"
<1>1. ASSUME AgentInv, [Next]_vars PROVE [Ends]_vars
  <2>1. CASE UNCHANGED vars
    BY <2>1
  <2>2. CASE Start
    BY <2>2 DEF Start, Resume, Fresh, NothingSaid
  <2>3. CASE SayNumbered \/ SayGiven
    <3>1. state'.ended = state.ended
      BY <1>1, <2>3 DEF SayNumbered, SayGiven, Say, AgentInv, AgentTypes, StateType
    <3>2. QED
      BY <3>1
  <2>4. CASE Finish \/ Stop \/ GenerateFails \/ Answer \/ AskForTools \/ ExecuteFails
             \/ BatchEnds \/ Cancel \/ SaveBegins \/ SaveWrites
    <3>1. state' = state
      BY <2>4 DEF Finish, Stop, GenerateFails, Answer, AskForTools, ExecuteFails, BatchEnds,
                  Cancel, SaveBegins, SaveWrites, agent
    <3>2. QED
      BY <3>1
  <2>5. CASE Call
    <3>1. pc = "tools"
      BY <2>5 DEF Call
    <3>2. CASE allowed
      BY <1>1, <3>1, <3>2 DEF AgentInv, GateHeld
    <3>3. CASE ~allowed
      <4>1. state' = state \/ state' = [state EXCEPT !.changes = @ + 1]
        BY <2>5, <3>3 DEF Call, MayComplete
      <4>2. state'.ended = state.ended
        BY <1>1, <4>1 DEF AgentInv, AgentTypes, StateType
      <4>3. QED
        BY <4>2
    <3>4. QED
      BY <3>2, <3>3
  <2>6. CASE Leave \/ Crash \/ Replace
    <3>1. state' = state \/ state' = NothingSaid
      BY <2>6 DEF Leave, Crash, Replace, Gone
    <3>2. QED
      BY <3>1 DEF NothingSaid
  <2>7. QED
    BY <1>1, <2>1, <2>2, <2>3, <2>4, <2>5, <2>6 DEF Next, TurnStep, SaveStep
<1>2. QED
  BY <1>1, Invariance, PTL DEF Spec, EndsInFinish
=============================================================================
