-------------------------- MODULE MCGraphComparison --------------------------
(* Small graphs against small processes, with ties and near misses. *)
EXTENDS GraphComparison

Properties == <<"activity", "actor", "reads">>
Lists      == {"reads"}
NoTexts    == <<>>
Flow(k)    == <<"flow", k>>

(* the agent's concepts are named like the true ones they mean, in capitals *)
Value(cs)  == Holding([k \in DOMAIN cs |-> Ref(cs[k], <<>>)])
Absent     == Marker("absent", <<>>)
Node(activity, actor, reads) == [activity |-> activity, actor |-> actor, reads |-> reads]

AgentEdge(from, to, condition) == [NewEdge(from, to) EXCEPT !.condition = condition]

Agent(ns, es, ends) ==
  [nodes |-> ns, edges |-> es, concepts |-> [c \in Concepts |-> <<>>],
   starts |-> <<"N1">>, ends |-> ends]

Process(slots, es, entries, exits) ==
  LET g == Canonicalized(DOMAIN slots, es, entries, exits)
  IN [nodes |-> g.nodes, edges |-> g.edges, slots |-> slots]

Alike == [p \in Concepts \X {"a", "b", "c"} |->
            IF p \in {<<"A", "a">>, <<"B", "b">>, <<"C", "c">>} THEN 10 ELSE 0]
Equally(S, T) == [p \in S \X T |-> 0]
Input(a, t, similarity, bonus) ==
  [agent |-> a, truth |-> t, similarity |-> similarity, bonus |-> bonus]

(* any similarities of three concepts to two, and of two to three *)
OneStep(activity, actor, reads) ==
  Process([n \in {"n1"} |-> Node(activity, actor, reads)], <<>>, {"n1"}, {"n1"})
OneNode(actor, reads) ==
  Agent([n \in {"N1"} |-> Node(Value(<<"A">>), actor, reads)], <<>>, <<"N1">>)

Similar ==
  {Input(OneNode(Value(<<"B">>), Value(<<"C">>)), OneStep(<<"a">>, <<"b">>, <<>>), s,
         Equally({"N1"}, {"n1"})) : s \in [{"A", "B", "C"} \X {"a", "b"} -> {3, 4, 7}]}
  \cup
  {Input(OneNode(Value(<<"B">>), Absent), OneStep(<<"a">>, <<"b">>, <<"c">>), s,
         Equally({"N1"}, {"n1"})) : s \in [{"A", "B"} \X {"a", "b", "c"} -> {3, 4, 7}]}

(* two or three nodes of the same or another activity, any bonus *)
Chain(slots) ==
  Process(slots, (Flow(1) :> Edge("n1", "n2", NoCondition)), {"n1"}, {"n2"})
TwoSteps(second, actor) == Chain(("n1" :> Node(<<"a">>, <<>>, <<>>)) @@ ("n2" :> Node(second, actor, <<>>)))

Activities == {Value(<<"A">>), Value(<<"B">>), Unset}
Actors     == {Value(<<"C">>), Absent}

Interchangeable ==
  UNION {{Input(Agent([n \in ns |-> Node(activity[n], actor[n], Absent)],
                      ("E1" :> AgentEdge("N1", "N2", Absent)), <<"N2">>),
                TwoSteps(second, <<"c">>), Alike, bonus) :
            activity \in [ns -> Activities], actor \in [ns -> Actors],
            second \in {<<"a">>, <<"b">>},
            bonus \in [ns \X {"n1", "n2"} -> {0, 16}]} :
           ns \in {{"N1", "N2"}}}
  \cup {Input(Agent([n \in {"N1", "N2", "N3"} |-> Node(Value(<<"A">>), actor[n], Absent)],
                    <<>>, <<"N2">>), TwoSteps(<<"a">>, <<"c">>), Alike,
              Equally({"N1", "N2", "N3"}, {"n1", "n2"})) : actor \in [{"N1", "N2", "N3"} -> Actors]}

(* every reconstruction of a process with two conditional edges in parallel *)
Forked ==
  Process(("n1" :> Node(<<"a">>, <<>>, <<"b", "c">>)) @@ ("n2" :> Node(<<"b">>, <<>>, <<>>)),
          (Flow(1) :> Edge("n1", "n2", "a")) @@ (Flow(2) :> Edge("n1", "n2", "c")), {"n1"}, {"n2"})
Conditions == {Value(<<"A">>), Value(<<"C">>), Absent}
ReadLists  == {Value(<<"B", "C">>), Value(<<"B">>), Value(<<"B", "C", "D">>)}

Reconstructions ==
  {Input(Agent(("N1" :> Node(Value(<<"A">>), actor, reads)) @@
               ("N2" :> Node(Value(<<"B">>), Absent, Absent)),
               [e \in DOMAIN es |-> AgentEdge(es[e][1], es[e][2], es[e][3])], ends),
         Forked, Alike, Equally({"N1", "N2"}, {"n1", "n2"})) :
     actor \in {Absent, Unset}, reads \in ReadLists, ends \in {<<"N2">>, <<"N1">>, <<"N1", "N2">>},
     es \in [{"E1", "E2"} -> {"N1"} \X {"N2"} \X Conditions]
            \cup [{"E1"} -> {"N1"} \X {"N2"} \X Conditions]
            \cup [{"E1", "E2", "E3"} -> {"N1"} \X {"N1", "N2"} \X {Value(<<"A">>), Value(<<"C">>)}]}

Comparisons == Similar \cup Interchangeable \cup Reconstructions
=============================================================================
