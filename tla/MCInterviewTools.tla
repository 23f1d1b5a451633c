--------------------------- MODULE MCInterviewTools ---------------------------
(* Bounds for InterviewTools.  InterviewHistory: one process step with an    *)
(* activity and an actor, three evidence numbers: the step, two corrections  *)
(* of one field or an issue between two claims.  InterviewRecords: two       *)
(* record ids, so a step and a flow or a usage of it, which say something of *)
(* every field but the outputs (which are like the inputs) and share one     *)
(* entity id under two labels; two evidence numbers.  Citations: none, a     *)
(* misquoted one, one that does not support, and one with a supporting one.  *)
EXTENDS InterviewTools

Text(content)         == [state |-> "value", items |-> <<[id |-> content, label |-> NoLabel]>>]
Named(entity, label)  == [state |-> "value", items |-> <<[id |-> entity, label |-> label]>>]
Flow(from, to)        == [state |-> "value", items |-> <<[id |-> from, label |-> NoLabel],
                                                         [id |-> to, label |-> NoLabel]>>]
Nothing(how)          == [state |-> how, items |-> <<>>]

MCHistorySayable ==
  [f \in Fields |->
     CASE f = "activity" -> {Nothing("unset"), Text("t1")}
       [] f = "actor"    -> {Named("e1", "l1")}
       [] OTHER          -> {}]

MCRecordsSayable ==
  [f \in Fields |->
     CASE f = "activity"  -> {Text("t1")}
       [] f = "actor"     -> {Nothing("absent"), Named("e1", "l1")}
       [] f = "inputs"    -> {Named("e1", NoLabel),
                              [state |-> "value",
                               items |-> <<[id |-> "e1", label |-> "l1"],
                                           [id |-> "e1", label |-> NoLabel]>>]}
       [] f = "relation"  -> {Flow("SOURCE", "r1"), Flow("r1", "r2"), Flow("r1", "SINK")}
       [] f = "condition" -> {Text("t1")}
       [] f = "crud"      -> {Text("t1")}
       [] f = "system"    -> {Nothing("absent")}
       [] f = "data_type" -> {Named("e1", "l1"), Named("e1", "l2")}
       [] OTHER           -> {}]

Cite(utterance, exact, support) ==
  [utterance |-> utterance, exact |-> exact, support |-> support]

MCHistoryCitations ==
  { <<>>,
    <<Cite("u2", TRUE, "unassessed")>>,
    <<Cite("u2", TRUE, "unassessed"), Cite("u1", TRUE, "supports")>> }

MCRecordsCitations ==
  { <<Cite("u1", FALSE, "supports")>>, <<Cite("u1", TRUE, "supports")>> }
=============================================================================
