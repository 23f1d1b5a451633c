------------------------- MODULE MCKnowledgeProjection -------------------------
(* Processes of up to four steps, and what may be forgotten of them. *)
EXTENDS KnowledgeProjection

Properties == {"actor", "reads"}
Lists      == {"reads"}

Flow(u, v) == <<"flow", u, v>>
Drawn(pairs, conditioned) ==
  [e \in {Flow(p[1], p[2]) : p \in pairs} |->
     Edge(e[2], e[3], IF e \in conditioned THEN "if" ELSE NoCondition)]

WithSlots(g, slots) == [nodes |-> g.nodes, edges |-> g.edges, slots |-> slots]
NoSlots(g) == WithSlots(g, [n \in BusinessNodes(g) |-> [p \in NodeProperties |-> <<>>]])

Process(steps, pairs, conditioned) ==
  LET flows == Drawn(pairs, conditioned)
  IN NoSlots(Canonicalized(steps, flows, Entries(steps, flows), Exits(steps, flows)))

(* every process of three steps, one edge of it possibly conditional *)
Triples == {<<u, v>> \in (1 .. 3) \X (1 .. 3) : u # v}
ThreeSteps ==
  UNION {{Process(1 .. 3, pairs, conditioned) :
            conditioned \in {{}} \cup {{Flow(p[1], p[2])} : p \in pairs}} :
           pairs \in {pairs \in SUBSET Triples : Cardinality(pairs) <= 4}}

(* a chain, two branches that meet, and a loop of three steps *)
FourSteps ==
  {Process(1 .. 4, pairs, {}) :
     pairs \in {{<<4, 3>>, <<3, 1>>, <<1, 2>>},
                {<<1, 2>>, <<2, 4>>, <<1, 3>>, <<3, 4>>},
                {<<1, 2>>, <<2, 3>>, <<3, 4>>, <<1, 4>>}}}
Looping ==
  LET flows == Drawn({<<1, 2>>, <<2, 3>>, <<3, 1>>}, {})
  IN NoSlots(Canonicalized(1 .. 3, flows, {1}, {1}))

Everything(g) ==
  [nodes |-> BusinessNodes(g), edges |-> BusinessEdges(g), conditions |-> BusinessEdges(g),
   slots |-> BusinessNodes(g) \X NodeProperties]

Forgetting(ns, es, ps, retries, shortcuts) ==
  [nodes |-> ns, edges |-> es, properties |-> ps, retries |-> retries, shortcuts |-> shortcuts]

Input(g, profile_, forgetting_) == [truth |-> g, profile |-> profile_, forgetting |-> forgetting_]

Topologies ==
  {Input(g, Everything(g), Forgetting("maybe", "maybe", "zero", 1, TRUE)) :
     g \in ThreeSteps \cup FourSteps \cup {Looping}}

(* two steps in a row, the first reading two documents, perhaps the same one *)
InARow(first, second) ==
  LET flows == Drawn({<<1, 2>>}, {Flow(1, 2)})
      g     == Canonicalized(1 .. 2, flows, {1}, {2})
  IN WithSlots(g, [n \in 1 .. 2 |-> [p \in NodeProperties |->
       IF n = 1 /\ p = "reads" THEN <<first, second>> ELSE IF n = 2 THEN <<first>> ELSE <<>>]])

Hiding(g) ==
  {[Everything(g) EXCEPT !.nodes = @ \ {2}], [Everything(g) EXCEPT !.edges = {}],
   [Everything(g) EXCEPT !.conditions = {}, !.slots = @ \ {<<1, "reads">>}], Everything(g)}

Properly ==
  UNION {{Input(g, p, Forgetting(ns, "zero", ps, 2, sc)) :
            p \in Hiding(g), ns \in {"zero", "maybe", "one"}, ps \in {"zero", "maybe", "one"},
            sc \in BOOLEAN} :
           g \in {InARow("order", "form"), InARow("order", "order"), Process(1 .. 3, {<<1, 2>>, <<2, 3>>}, {})}}

Calls == Topologies \cup Properly
=============================================================================
