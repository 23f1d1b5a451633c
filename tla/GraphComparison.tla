--------------------------- MODULE GraphComparison ---------------------------
(***************************************************************************)
(* comparison/alignment.py, concepts.py and scoring.py: the graph an        *)
(* interviewer built, aligned with the true process and scored.             *)
(*                                                                         *)
(* Abstractions.  The lexical similarity of two concepts, in tenths, and    *)
(* the bonus two nodes have from the topology around them, in eighths, are  *)
(* inputs: any values are tried.  Concepts are of one kind, and the counts  *)
(* of what is fabricated or unsupported are left out.  Node weights are in  *)
(* eighths and slot scores in quarters, which is exact while lists hold at  *)
(* most two true concepts.                                                  *)
(***************************************************************************)
EXTENDS AgentGraph, CanonicalGraph, Assignment

CONSTANTS
  Inputs,                 \* [agent, truth, similarity, bonus] compared
  ComponentLimit          \* ambiguous groups above this size are skipped (8)

(* Graphs are finite, slots and values hold sequences, a scalar one at most *)
(* one concept, similarities are at most one and nothing takes weight from  *)
(* a node.                                                                  *)
Single(slot) == slot.state = "value" => DOMAIN slot.refs = {1}

ASSUME PropertiesAssumption ==
  Slots \subseteq {"activity", "actor", "system", "reads", "writes", "rationale"}

ASSUME InputsAssumption ==
  \A i \in Inputs :
    /\ IsFiniteSet(DOMAIN i.agent.nodes) /\ IsFiniteSet(DOMAIN i.agent.edges)
    /\ IsFiniteSet(i.truth.nodes) /\ IsFiniteSet(DOMAIN i.truth.edges)
    /\ \A n \in DOMAIN i.agent.nodes, p \in Slots :
         LET slot == i.agent.nodes[n][p]
         IN  IsFiniteSet(DOMAIN RefsOf(slot)) /\ (p \in ListSlots \/ Single(slot))
    /\ \A e \in DOMAIN i.agent.edges : Single(i.agent.edges[e].condition)
    /\ \A n \in BusinessNodes(i.truth), p \in Slots :
         LET value == i.truth.slots[n][p]
         IN  value \in Seq(Range(value)) /\ (p \in ListSlots \/ Len(value) <= 1)
    /\ \A q \in DOMAIN i.similarity : i.similarity[q] \in 0 .. 10
    /\ \A q \in (DOMAIN i.agent.nodes) \X BusinessNodes(i.truth) : i.bonus[q] \in Nat

VARIABLES
  input,                  \* the arguments
  phase,                  \* the next thing to align
  search,                 \* the assignment of concepts under way
  conceptMap, nodeMap, edgeMap, \* sets of pairs <<of the agent, of the truth>>
  metrics                 \* the result

vars == <<input, phase, search, conceptMap, nodeMap, edgeMap, metrics>>

agent == input.agent

(* The business-only view of the truth. *)
truth ==
  [nodes  |-> BusinessNodes(input.truth),
   edges  |-> Restrict(input.truth.edges, BusinessEdges(input.truth)),
   slots  |-> input.truth.slots,
   starts |-> {input.truth.edges[e].to : e \in Outgoing(input.truth.edges, Source)},
   ends   |-> {input.truth.edges[e].from : e \in Incoming(input.truth.edges, Sink)}]

Lefts(map)  == {p[1] : p \in map}
Rights(map) == {p[2] : p \in map}

Init ==
  /\ input \in Inputs
  /\ phase = "concepts"
  /\ search = Fresh(0)
  /\ conceptMap = {} /\ nodeMap = {} /\ edgeMap = {}
  /\ metrics = <<>>
-----------------------------------------------------------------------------
(* Concepts, by similarity *)
MatchThreshold == 4

ConditionOf(e) ==
  IF truth.edges[e].condition = NoCondition THEN <<>> ELSE <<truth.edges[e].condition>>

Expected ==
  (UNION {Range(truth.slots[n][p]) : n \in truth.nodes, p \in Slots})
  \cup (UNION {Range(ConditionOf(e)) : e \in DOMAIN truth.edges})

Attempted ==
  (UNION {ConceptsOf(agent.nodes[n][p]) : n \in DOMAIN agent.nodes, p \in Slots})
  \cup (UNION {ConceptsOf(agent.edges[e].condition) : e \in DOMAIN agent.edges})

ConceptWeights ==
  Restrict(input.similarity,
           {q \in (Attempted \cap DOMAIN agent.concepts) \X Expected :
              q \in DOMAIN input.similarity /\ input.similarity[q] >= MatchThreshold})

Rows    == Sorted(Attempted \cap DOMAIN agent.concepts)
Columns == Sorted(Expected)
Size    == Len(Rows) + Len(Columns)

StartConcepts ==
  /\ phase = "concepts"
  /\ search' = Fresh(Size)
  /\ phase' = IF Rows = <<>> \/ Columns = <<>> THEN "nodes" ELSE "assigning"
  /\ UNCHANGED <<input, conceptMap, nodeMap, edgeMap, metrics>>

Assign(state, next) ==
  /\ phase = "assigning"
  /\ search.state = state
  /\ search' = next
  /\ UNCHANGED <<input, phase, conceptMap, nodeMap, edgeMap, metrics>>

EnterRow == search.row < Size /\ Assign("ready", Entered(search, Size))
GrowTree == Assign("growing", Grown(search, Size, Cost(ConceptWeights, Rows, Columns, MatchThreshold)))
FlipPath == Assign("flipping", Flipped(search))

MapConcepts ==
  /\ phase = "assigning"
  /\ search.state = "ready" /\ search.row = Size
  /\ conceptMap' = Matched(search, ConceptWeights, Rows, Columns, MatchThreshold)
  /\ search' = Fresh(0)
  /\ phase' = "nodes"
  /\ UNCHANGED <<input, nodeMap, edgeMap, metrics>>
-----------------------------------------------------------------------------
(* Slot scores, in quarters: what is true must be named by a concept mapped *)
(* to it, what is not there must be marked absent.                          *)
Full == 4

ScalarScore(slot, value) ==
  LET right == IF value = <<>> THEN slot.state = "absent"
               ELSE slot.state = "value" /\ <<slot.refs[1].concept, value[1]>> \in conceptMap
  IN IF right THEN Full ELSE 0

Claims(slot) == {p[2] : p \in {q \in conceptMap : q[1] \in ConceptsOf(slot)}}

ListScore(slot, value) ==
  LET hits == Cardinality(Claims(slot) \cap Range(value))
  IN IF value = <<>> THEN IF slot.state = "absent" THEN Full ELSE 0
     ELSE IF Claims(slot) = {} THEN 0
     ELSE (hits * hits * Full) \div (Cardinality(Claims(slot)) * Cardinality(Range(value)))

SlotScore(n, t, p) ==
  IF p \in ListSlots THEN ListScore(agent.nodes[n][p], truth.slots[t][p])
  ELSE ScalarScore(agent.nodes[n][p], truth.slots[t][p])

ConditionScore(a, e) == ScalarScore(agent.edges[a].condition, ConditionOf(e)) \div Full

-----------------------------------------------------------------------------
(* Nodes, by activity; other slots and topology break ties.  Only pairs     *)
(* that every best mapping holds are kept.                                  *)
SameActivity(n, t) ==
  truth.slots[t]["activity"] # <<>> /\ SlotScore(n, t, "activity") > 0

SlotWeight(p) ==
  CASE p = "activity"             -> 16
    [] p \in {"actor", "system"}  -> 4
    [] p \in {"reads", "writes"}  -> 2
    [] p = "rationale"            -> 1

NodeWeights ==
  [pair \in {q \in (DOMAIN agent.nodes) \X truth.nodes : SameActivity(q[1], q[2])} |->
     800 + input.bonus[pair]
         + Score(Slots, [p \in Slots |-> SlotWeight(p) * SlotScore(pair[1], pair[2], p)])]

Best(weights, pairs) == CHOOSE m \in Heaviest(Restrict(weights, pairs)) : TRUE

Oversized(pairs) ==
  Cardinality(Lefts(pairs)) > ComponentLimit \/ Cardinality(Rights(pairs)) > ComponentLimit

(* mutant of Indispensable: any best mapping is taken for the only one *)
IndispensableAlways(weights, pairs, p) == TRUE

(* removing a pair from its component costs weight *)
Indispensable(weights, pairs, p) ==
  Score(Best(weights, pairs \ {p}), weights) # Score(Best(weights, pairs), weights)

Chosen(weights) ==
  UNION {{p \in Best(weights, pairs) : Indispensable(weights, pairs, p)} :
           pairs \in {q \in Components(weights) : ~Oversized(q)}}

MapNodes ==
  /\ phase = "nodes"
  /\ nodeMap' = Chosen(NodeWeights)
  /\ phase' = "edges"
  /\ UNCHANGED <<input, search, conceptMap, edgeMap, metrics>>
-----------------------------------------------------------------------------
(* Edges between mapped nodes, by condition *)
Joins(a, e) ==
  /\ <<agent.edges[a].from, truth.edges[e].from>> \in nodeMap
  /\ <<agent.edges[a].to, truth.edges[e].to>> \in nodeMap

EdgeWeights ==
  [pair \in {q \in (DOMAIN agent.edges) \X (DOMAIN truth.edges) : Joins(q[1], q[2])} |->
     2 + ConditionScore(pair[1], pair[2])]

MapEdges ==
  /\ phase = "edges"
  /\ \E best \in Heaviest(EdgeWeights) : edgeMap' = best
  /\ phase' = "scoring"
  /\ UNCHANGED <<input, search, conceptMap, nodeMap, metrics>>
-----------------------------------------------------------------------------
(* Scores are fractions <<numerator, denominator>>. *)
Fraction(n, d, otherwise) == IF d = 0 THEN <<otherwise, 1>> ELSE <<n, d>>
One(f) == f[1] = f[2]

MappedOf(ids) == Rights({p \in nodeMap : p[1] \in ids})

Correctness(p) ==
  <<Score(nodeMap, [q \in nodeMap |-> SlotScore(q[1], q[2], p)]),
    Full * (IF nodeMap = {} THEN 1 ELSE Cardinality(nodeMap))>>

Metrics ==
  LET starts   == MappedOf(Range(agent.starts))
      ends     == MappedOf(Range(agent.ends))
      hits     == Cardinality(ends \cap truth.ends)
  IN [created          |-> DOMAIN agent.nodes # {},
      valid            |-> /\ ReferencesKnown(agent)
                           /\ \A n \in DOMAIN agent.nodes : agent.nodes[n]["activity"] # Unset,
      nodeRecall       |-> Fraction(Cardinality(Rights(nodeMap)), Cardinality(truth.nodes), 0),
      nodePrecision    |-> Fraction(Cardinality(nodeMap), Cardinality(DOMAIN agent.nodes), 0),
      edgeRecall       |-> Fraction(Cardinality(Rights(edgeMap)), Cardinality(DOMAIN truth.edges), 1),
      edgePrecision    |-> Fraction(Cardinality(edgeMap), Cardinality(DOMAIN agent.edges), 0),
      startCorrect     |-> starts = truth.starts,
      endRecall        |-> Fraction(hits, Cardinality(truth.ends), 1),
      endPrecision     |-> Fraction(hits, Cardinality(ends), 0),
      correct          |-> [p \in Slots |-> Correctness(p)],
      conditions       |-> Fraction(Score(edgeMap, [q \in edgeMap |-> ConditionScore(q[1], q[2])]),
                                    Cardinality(DOMAIN truth.edges), 1),
      conceptRecall    |-> Fraction(Cardinality(Rights(conceptMap)), Cardinality(Expected), 1),
      conceptPrecision |-> Fraction(Cardinality(conceptMap), Cardinality(Attempted), 1)]

Compare ==
  /\ phase = "scoring"
  /\ metrics' = Metrics
  /\ phase' = "done"
  /\ UNCHANGED <<input, search, conceptMap, nodeMap, edgeMap>>

(* mutant of Complete: concepts the agent adds do not count *)
CompleteIfRecalled(m) ==
  /\ m.created /\ m.valid /\ m.startCorrect
  /\ One(m.nodeRecall) /\ One(m.nodePrecision)
  /\ One(m.edgeRecall) /\ One(m.edgePrecision)
  /\ One(m.endRecall) /\ One(m.endPrecision)
  /\ \A p \in Slots : One(m.correct[p])
  /\ One(m.conditions) /\ One(m.conceptRecall)

(* reconstruction_complete *)
Complete(m) ==
  /\ m.created /\ m.valid /\ m.startCorrect
  /\ One(m.nodeRecall) /\ One(m.nodePrecision)
  /\ One(m.edgeRecall) /\ One(m.edgePrecision)
  /\ One(m.endRecall) /\ One(m.endPrecision)
  /\ \A p \in Slots : One(m.correct[p])
  /\ One(m.conditions)
  /\ One(m.conceptRecall) /\ One(m.conceptPrecision)

Returned == phase = "done" /\ UNCHANGED vars

Next ==
  \/ StartConcepts \/ EnterRow \/ GrowTree \/ FlipPath \/ MapConcepts
  \/ MapNodes \/ MapEdges \/ Compare \/ Returned
Spec == Init /\ [][Next]_vars
-----------------------------------------------------------------------------
(* No one-to-one mapping of similar concepts is more similar in total than  *)
(* the one the row-by-row method ends with (max_weight_assignment).         *)
AlignmentOptimal ==
  phase \notin {"concepts", "assigning"} => conceptMap \in Heaviest(ConceptWeights)

(* A node is matched exactly when every best mapping matches it alike: two  *)
(* nodes that could be exchanged are left out, and nothing that is matched  *)
(* depends on names or on how the candidates fall into components, as long  *)
(* as the group is not oversized (_map_nodes_one_to_one).                   *)
NodesUnambiguous ==
  phase \notin {"concepts", "assigning", "nodes"} =>
    LET weights == NodeWeights
    IN nodeMap = {p \in DOMAIN weights :
                    /\ ~Oversized(ComponentOf(DOMAIN weights, p))
                    /\ \A m \in Heaviest(weights) : p \in m}

(* A reconstruction scored complete is the true process under other names:  *)
(* the same nodes, edges, boundaries, values and conditions, nothing        *)
(* missing, nothing added and nothing left open (reconstruction_complete).  *)
Renamed(ids, map) == {p[2] : p \in {q \in map : q[1] \in ids}}
OneToOne(map, S, T) ==
  /\ Lefts(map) = S /\ Rights(map) = T
  /\ \A p, q \in map : p[1] = q[1] <=> p[2] = q[2]

SameValue(slot, value) ==
  IF value = <<>> THEN slot.state = "absent"
  ELSE /\ slot.state = "value"
       /\ ConceptsOf(slot) \subseteq Lefts(conceptMap)
       /\ Renamed(ConceptsOf(slot), conceptMap) = Range(value)

Faithful ==
  /\ OneToOne(nodeMap, DOMAIN agent.nodes, truth.nodes)
  /\ OneToOne(edgeMap, DOMAIN agent.edges, DOMAIN truth.edges)
  /\ OneToOne(conceptMap, Attempted, Expected)
  /\ \A q \in edgeMap : Joins(q[1], q[2])
  /\ Renamed(Range(agent.starts), nodeMap) = truth.starts
  /\ Renamed(Range(agent.ends), nodeMap) = truth.ends
  /\ \A q \in nodeMap, p \in Slots : SameValue(agent.nodes[q[1]][p], truth.slots[q[2]][p])
  /\ \A q \in edgeMap : SameValue(agent.edges[q[1]].condition, ConditionOf(q[2]))

CompleteIsFaithful == phase = "done" /\ Complete(metrics) => Faithful
=============================================================================
