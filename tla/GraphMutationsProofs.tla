------------------------- MODULE GraphMutationsProofs -------------------------
(***************************************************************************)
(* Proofs about GraphMutations for any identifiers, slots, observations,    *)
(* quotes and sizes.                                                        *)
(***************************************************************************)
EXTENDS GraphMutations, TLAPS

(* The graph stored is valid and cites what was observed. *)
GraphInv == Valid(graph) /\ Grounded(graph, observed)

(* A step that is no observation stored a graph that passed both checks. *)
Stored == Valid(graph') /\ Grounded(graph', observed) /\ observed' = observed

LEMMA ApplyStores == \A new : Apply(new) => Stored
BY DEF Apply, Stored

LEMMA NodeOperations ==
  ASSUME NEW n, NEW payload, AddNode(n, payload) \/ UpdateNode(n, payload) \/ RemoveNode(n)
  PROVE  Stored
BY ApplyStores DEF AddNode, UpdateNode, RemoveNode

LEMMA EdgeOperations ==
  /\ \A e, m, n, payload : AddEdge(e, m, n, payload) => Stored
  /\ \A e : UpdateEdge(e) \/ RemoveEdge(e) => Stored
BY ApplyStores DEF AddEdge, UpdateEdge, RemoveEdge

LEMMA ConceptOperations ==
  /\ \A c, xs : DefineConcept(c, xs) \/ UpdateConcept(c, xs) => Stored
  /\ \A c : RemoveConcept(c) => Stored
BY ApplyStores DEF DefineConcept, UpdateConcept, RemoveConcept

LEMMA SlotOperations ==
  /\ \A n, p, v : SetNodeProperty(n, p, v) => Stored
  /\ \A e, v : SetEdgeCondition(e, v) => Stored
  /\ \A ns : SetEndpoints(ns) => Stored
BY ApplyStores DEF SetNodeProperty, SetEdgeCondition, SetEndpoints

LEMMA EvidenceOperations == AttachEvidence => Stored
<1>1. \A n, p, c, x : AttachToNode(n, p, c, x) => Stored
  BY ApplyStores DEF AttachToNode
<1>2. \A e, x : AttachToCondition(e, x) \/ AttachToEdge(e, x) => Stored
  BY ApplyStores DEF AttachToCondition, AttachToEdge
<1>3. \A c, x : AttachToConcept(c, x) => Stored
  BY ApplyStores DEF AttachToConcept
<1>4. QED
  BY <1>1, <1>2, <1>3 DEF AttachEvidence

LEMMA NextStoresOrObserves == Next => Stored \/ Observe
BY NodeOperations, EdgeOperations, ConceptOperations, SlotOperations, EvidenceOperations, Zenon
   DEF Next

(* What was observed stays observed. *)
LEMMA GroundedStays ==
  ASSUME NEW g, NEW before, NEW after, before \subseteq after, Grounded(g, before)
  PROVE  Grounded(g, after)
<1>1. \A x : Exact(x, before) => Exact(x, after)
  BY DEF Exact
<1>2. QED
  BY <1>1 DEF Grounded

LEMMA InitInv == Init => GraphInv
<1> SUFFICES ASSUME Init PROVE GraphInv
  OBVIOUS
<1>1. /\ DOMAIN graph.nodes = {} /\ DOMAIN graph.edges = {} /\ DOMAIN graph.concepts = {}
      /\ graph.starts = <<>> /\ graph.ends = <<>>
  BY DEF Init, EmptyGraph
<1>2. Valid(graph)
  BY <1>1 DEF Valid, ReferencesKnown, IsInjective, Range
<1>3. Grounded(graph, observed)
  BY <1>1 DEF Grounded, CitedInNodes, CitedInEdges, CitedInConditions, CitedInConcepts
<1>4. QED
  BY <1>2, <1>3 DEF GraphInv

LEMMA StepInv == GraphInv /\ [Next]_vars => GraphInv'
<1> SUFFICES ASSUME GraphInv, [Next]_vars PROVE GraphInv'
  OBVIOUS
<1>1. CASE Stored
  BY <1>1 DEF Stored, GraphInv
<1>2. CASE Observe
  <2>1. graph' = graph /\ observed \subseteq observed'
    BY <1>2 DEF Observe
  <2>2. QED
    BY <2>1, GroundedStays DEF GraphInv
<1>3. CASE UNCHANGED vars
  BY <1>3 DEF vars, GraphInv
<1>4. QED
  BY <1>1, <1>2, <1>3, NextStoresOrObserves

(* The graph stored has no dangling reference, lists no endpoint twice, and *)
(* cites only what was observed, in every reachable state.                  *)
THEOREM StoredGraphSound == Spec => []GraphInv
BY InitInv, StepInv, PTL DEF Spec

-----------------------------------------------------------------------------
(* The evaluator's walk visits only what the runtime checked. *)

LEMMA MarksAreCited ==
  ASSUME NEW g, NEW n \in DOMAIN g.nodes, NEW m \in Marks(g.nodes[n])
  PROVE  Mark(g.nodes[n], m) \in CitedInNodes(g)
<1>1. PICK k \in DOMAIN NodeProperties :
        m \in {k} \X DOMAIN MarkedBy(g.nodes[n][NodeProperties[k]])
  BY DEF Marks
<1> DEFINE p == NodeProperties[k]
<1>2. p \in Slots
  BY DEF Slots, Range
<1>3. Mark(g.nodes[n], m) \in Range(MarkedBy(g.nodes[n][p]))
  BY <1>1 DEF Mark, Range
<1>4. Mark(g.nodes[n], m) \in EvidenceIn(g.nodes[n][p])
  BY <1>3 DEF EvidenceIn
<1>5. QED
  BY <1>2, <1>4 DEF CitedInNodes

LEMMA ReferencesAreCited ==
  ASSUME NEW g, NEW n \in DOMAIN g.nodes, NEW r \in NodeRefs(g.nodes[n]),
         NEW x \in Range(r.evidence)
  PROVE  x \in CitedInNodes(g)
<1>1. PICK p \in Slots : r \in Range(RefsOf(g.nodes[n][p]))
  BY DEF NodeRefs
<1>2. x \in EvidenceIn(g.nodes[n][p])
  BY <1>1 DEF EvidenceIn
<1>3. QED
  BY <1>2 DEF CitedInNodes

LEMMA GroundedPasses ==
  ASSUME NEW g, NEW seen, Grounded(g, seen)
  PROVE  ~EvaluatorInvalid(g, seen)
<1>1. ASSUME NEW n \in DOMAIN g.nodes, NEW r \in NodeRefs(g.nodes[n]),
             NEW x \in Range(r.evidence)
      PROVE  Exact(x, seen)
  BY ReferencesAreCited DEF Grounded
<1>2. ASSUME NEW n \in DOMAIN g.nodes, NEW m \in Visited(g.nodes[n], seen)
      PROVE  Exact(Mark(g.nodes[n], m), seen)
  <2>1. m \in Marks(g.nodes[n])
    BY DEF Visited
  <2>2. QED
    BY <2>1, MarksAreCited DEF Grounded
<1>3. \A x \in CitedInEdges(g) : Exact(x, seen)
  BY DEF Grounded
<1>4. QED
  BY <1>1, <1>2, <1>3 DEF EvaluatorInvalid

(* The evaluator finds no invalid citation in a graph the runtime stored.   *)
THEOREM EvaluatorAgreesWithRuntime == Spec => []ProvenanceHolds
<1>1. GraphInv => ProvenanceHolds
  BY GroundedPasses DEF GraphInv, ProvenanceHolds
<1>2. QED
  BY <1>1, StoredGraphSound, PTL

-----------------------------------------------------------------------------
(* What the operations can build. *)

References == [concept : Concepts, evidence : Seq(Evidence)]

SlotOK(slot, list) ==
  \/ slot = Unset
  \/ \E m \in Markers, xs \in Seq(Evidence) : slot = Marker(m, xs)
  \/ \E refs \in Seq(References) : slot = Holding(refs) /\ (list \/ Len(refs) = 1)

NodeOK(node) == DOMAIN node = Slots /\ \A p \in Slots : SlotOK(node[p], p \in ListSlots)

EdgeOK(edge) ==
  /\ DOMAIN edge = {"from", "to", "condition", "evidence"}
  /\ edge.from \in Nodes /\ edge.to \in Nodes
  /\ SlotOK(edge.condition, FALSE)
  /\ edge.evidence \in Seq(Evidence)

GraphOK(g) ==
  /\ DOMAIN g = {"nodes", "edges", "concepts", "starts", "ends"}
  /\ \A n \in DOMAIN g.nodes : NodeOK(g.nodes[n])
  /\ \A e \in DOMAIN g.edges : EdgeOK(g.edges[e])
  /\ \A c \in DOMAIN g.concepts : g.concepts[c] \in Seq(Evidence)
  /\ g.starts \in Seq(Nodes) /\ g.ends \in Seq(Nodes)

LEMMA SomeEvidenceTyped == SomeEvidence \subseteq Seq(Evidence)
<1>1. <<>> \in Seq(Evidence) /\ \A x \in Evidence : <<x>> \in Seq(Evidence)
  OBVIOUS
<1>2. \A xs \in SomeEvidence : xs = <<>> \/ \E x \in Evidence : xs = <<x>>
  BY DEF SomeEvidence
<1>3. QED
  BY <1>1, <1>2

LEMMA MarkerInputsOK == \A v \in MarkerInputs : \A list : SlotOK(v, list)
BY SomeEvidenceTyped DEF MarkerInputs, SlotOK

LEMMA ScalarInputsOK == \A v \in ScalarInputs : \A list : SlotOK(v, list)
<1> SUFFICES ASSUME NEW v \in ScalarInputs, NEW list PROVE SlotOK(v, list)
  OBVIOUS
<1>1. CASE v \in MarkerInputs
  BY <1>1, MarkerInputsOK
<1>2. CASE v \notin MarkerInputs
  <2>1. PICK c \in Concepts, xs \in SomeEvidence : v = Holding(<<Ref(c, xs)>>)
    BY <1>2 DEF ScalarInputs
  <2>2. Ref(c, xs) \in References
    BY SomeEvidenceTyped DEF Ref, References
  <2>3. <<Ref(c, xs)>> \in Seq(References) /\ Len(<<Ref(c, xs)>>) = 1
    BY <2>2
  <2>4. QED
    BY <2>1, <2>3 DEF SlotOK
<1>3. QED
  BY <1>1, <1>2

LEMMA InputsOK == \A p \in Slots : \A v \in InputsOf(p) : SlotOK(v, p \in ListSlots)
<1> SUFFICES ASSUME NEW p \in Slots, NEW v \in InputsOf(p) PROVE SlotOK(v, p \in ListSlots)
  OBVIOUS
<1>1. CASE p \notin ListSlots \/ v \in MarkerInputs
  BY <1>1, MarkerInputsOK, ScalarInputsOK DEF InputsOf
<1>2. CASE p \in ListSlots /\ v \notin MarkerInputs
  <2>1. PICK cs \in SeqOf(Concepts, 2), xs \in SomeEvidence :
          v = Holding([k \in DOMAIN cs |-> Ref(cs[k], xs)])
    BY <1>2 DEF InputsOf, ListInputs
  <2>2. PICK m \in 0..2 : cs \in [1..m -> Concepts]
    BY DEF SeqOf
  <2>3. \A k \in 1..m : Ref(cs[k], xs) \in References
    BY <2>2, SomeEvidenceTyped DEF Ref, References
  <2>4. [k \in DOMAIN cs |-> Ref(cs[k], xs)] \in Seq(References)
    BY <2>2, <2>3
  <2>5. QED
    BY <1>2, <2>1, <2>4 DEF SlotOK
<1>3. QED
  BY <1>1, <1>2

LEMMA PayloadsOK ==
  ASSUME NEW payload \in Payloads, NEW node, NodeOK(node)
  PROVE  NodeOK(Over(payload, node))
<1>1. CASE payload = <<>>
  BY <1>1 DEF Over, NodeOK
<1>2. CASE payload # <<>>
  <2>1. PICK p \in Slots : \E v \in InputsOf(p) : payload = Only(p, v)
    BY <1>2 DEF Payloads
  <2>2. PICK v \in InputsOf(p) : payload = Only(p, v)
    BY <2>1
  <2>3. SlotOK(v, p \in ListSlots)
    BY InputsOK
  <2>4. QED
    BY <2>2, <2>3 DEF Over, Only, NodeOK
<1>3. QED
  BY <1>1, <1>2

LEMMA NoNodeOK == NodeOK(NoNode)
BY DEF NodeOK, NoNode, SlotOK

LEMMA NewEdgeOK == \A m, n \in Nodes : EdgeOK(NewEdge(m, n))
BY DEF NewEdge, EdgeOK, SlotOK

LEMMA EdgePatchesOK ==
  ASSUME NEW patch \in EdgePatches, NEW edge, EdgeOK(edge)
  PROVE  EdgeOK(Over(patch, edge))
<1>1. CASE patch = <<>>
  <2>1. Over(patch, edge) = [x \in DOMAIN edge |-> edge[x]]
    BY <1>1 DEF Over
  <2>2. QED
    BY <2>1 DEF EdgeOK
<1>2. ASSUME NEW v \in ScalarInputs, patch = Only("condition", v)
      PROVE  EdgeOK(Over(patch, edge))
  <2>1. SlotOK(v, FALSE)
    BY ScalarInputsOK
  <2>2. QED
    BY <1>2, <2>1 DEF Over, Only, EdgeOK
<1>3. ASSUME NEW xs \in SomeEvidence, patch = Only("evidence", xs)
      PROVE  EdgeOK(Over(patch, edge))
  BY <1>3, SomeEvidenceTyped DEF Over, Only, EdgeOK
<1>4. ASSUME NEW n \in Nodes, patch = Only("from", n) \/ patch = Only("to", n)
      PROVE  EdgeOK(Over(patch, edge))
  BY <1>4 DEF Over, Only, EdgeOK
<1>5. QED
  BY <1>1, <1>2, <1>3, <1>4 DEF EdgePatches, EdgePayloads

(* A list without repetitions loses one entry, or is left alone. *)
LEMMA RemoveFirstProperties ==
  ASSUME NEW S, NEW s \in Seq(S), IsInjective(s), NEW x
  PROVE  /\ RemoveFirst(s, x) \in Seq(S)
         /\ IsInjective(RemoveFirst(s, x))
         /\ Range(RemoveFirst(s, x)) = Range(s) \ {x}
<1>1. CASE \A i \in 1..Len(s) : s[i] # x
  <2>1. RemoveFirst(s, x) = s
    BY <1>1 DEF RemoveFirst
  <2>2. x \notin Range(s)
    BY <1>1 DEF Range
  <2>3. QED
    BY <2>1, <2>2
<1>2. CASE \E i \in 1..Len(s) : s[i] = x
  <2>1. PICK i \in 1..Len(s) : s[i] = x
    BY <1>2
  <2>2. {j \in 1..Len(s) : s[j] = x} = {i}
    BY <2>1 DEF IsInjective
  <2>3. Min({i}) = i
    BY DEF Min
  <2>4. RemoveFirst(s, x) = RemoveAt(s, i)
    BY <1>2, <2>2, <2>3 DEF RemoveFirst, SelectInSeq
  <2> DEFINE t == RemoveAt(s, i)
  <2>5. /\ t \in Seq(S) /\ Len(t) = Len(s) - 1
        /\ \A j \in 1..(Len(s) - 1) : t[j] = IF j < i THEN s[j] ELSE s[j + 1]
    <3> DEFINE left == SubSeq(s, 1, i - 1)
               right == SubSeq(s, i + 1, Len(s))
    <3>1. left \in Seq(S) /\ Len(left) = i - 1 /\ \A j \in 1..(i - 1) : left[j] = s[j]
      OBVIOUS
    <3>2. /\ right \in Seq(S) /\ Len(right) = Len(s) - i
          /\ \A j \in 1..(Len(s) - i) : right[j] = s[i + j]
      OBVIOUS
    <3>3. t = left \o right
      BY DEF RemoveAt
    <3> HIDE DEF left, right, t
    <3>4. t \in Seq(S) /\ Len(t) = Len(s) - 1
      BY <3>1, <3>2, <3>3
    <3>5. ASSUME NEW j \in 1..(Len(s) - 1)
          PROVE  t[j] = IF j < i THEN s[j] ELSE s[j + 1]
      <4>1. CASE j < i
        BY <4>1, <3>1, <3>2, <3>3
      <4>2. CASE j >= i
        <5>1. t[j] = right[j - (i - 1)] /\ j - (i - 1) \in 1..(Len(s) - i)
          BY <4>2, <3>1, <3>2, <3>3
        <5>2. i + (j - (i - 1)) = j + 1
          BY <4>2
        <5>3. QED
          BY <4>2, <5>1, <5>2, <3>2
      <4>3. QED
        BY <4>1, <4>2
    <3>6. QED
      BY <3>4, <3>5
  <2>6. DOMAIN t = 1..(Len(s) - 1) /\ DOMAIN s = 1..Len(s)
    BY <2>5
  <2> HIDE DEF t
  <2>7. IsInjective(t)
    BY <2>5, <2>6 DEF IsInjective
  <2>8. \A j \in DOMAIN t : t[j] \in Range(s) \ {x}
    BY <2>1, <2>5, <2>6 DEF IsInjective, Range
  <2>9. ASSUME NEW y \in Range(s) \ {x}
        PROVE  y \in Range(t)
    <3>1. PICK j \in 1..Len(s) : s[j] = y
      BY <2>6 DEF Range
    <3>2. j # i
      BY <2>1, <3>1
    <3>3. t[IF j < i THEN j ELSE j - 1] = y /\ (IF j < i THEN j ELSE j - 1) \in DOMAIN t
      BY <2>5, <2>6, <3>1, <3>2
    <3>4. QED
      BY <3>3 DEF Range
  <2>10. Range(t) = Range(s) \ {x}
    BY <2>8, <2>9 DEF Range
  <2>11. QED
    BY <2>4, <2>5, <2>7, <2>10 DEF t
<1>3. QED
  BY <1>1, <1>2
LEMMA WithoutProperties ==
  ASSUME NEW f, NEW x
  PROVE  /\ DOMAIN Without(f, x) = DOMAIN f \ {x}
         /\ \A y \in DOMAIN f \ {x} : Without(f, x)[y] = f[y]
BY DEF Without, Restrict

(* Every operation keeps the graph in shape. *)
LEMMA NodesKeepShape ==
  ASSUME NEW g, GraphOK(g), Valid(g), NEW n \in Nodes
  PROVE  /\ \A payload \in Payloads : GraphOK(WithNode(g, n, payload))
         /\ \A payload \in Payloads : n \in DOMAIN g.nodes => GraphOK(WithSlots(g, n, payload))
         /\ GraphOK(WithoutNode(g, n))
<1>1. ASSUME NEW payload \in Payloads
      PROVE  GraphOK(WithNode(g, n, payload))
  <2> DEFINE node == Over(payload, NoNode)
             nodes == With(g.nodes, n, node)
  <2>1. NodeOK(node)
    BY NoNodeOK, PayloadsOK
  <2> HIDE DEF node
  <2>2. WithNode(g, n, payload) = [g EXCEPT !.nodes = nodes]
    BY DEF WithNode, node
  <2>3. /\ DOMAIN nodes = DOMAIN g.nodes \cup {n} /\ nodes[n] = node
        /\ \A m \in DOMAIN g.nodes \ {n} : nodes[m] = g.nodes[m]
    BY DEF With, Over, Only
  <2> HIDE DEF nodes
  <2>4. \A m \in DOMAIN nodes : NodeOK(nodes[m])
    BY <2>1, <2>3 DEF GraphOK
  <2>5. QED
    BY <2>2, <2>4 DEF GraphOK
<1>2. ASSUME NEW payload \in Payloads, n \in DOMAIN g.nodes
      PROVE  GraphOK(WithSlots(g, n, payload))
  <2> DEFINE node == Over(payload, g.nodes[n])
  <2>1. NodeOK(node)
    BY <1>2, PayloadsOK DEF GraphOK
  <2>2. WithSlots(g, n, payload) = [g EXCEPT !.nodes[n] = node]
    BY DEF WithSlots
  <2> HIDE DEF node
  <2>3. QED
    BY <2>1, <2>2 DEF GraphOK
<1>3. GraphOK(WithoutNode(g, n))
  <2>1. RemoveFirst(g.starts, n) \in Seq(Nodes) /\ RemoveFirst(g.ends, n) \in Seq(Nodes)
    BY RemoveFirstProperties DEF GraphOK, Valid
  <2>2. /\ DOMAIN Without(g.nodes, n) = DOMAIN g.nodes \ {n}
        /\ \A m \in DOMAIN g.nodes \ {n} : Without(g.nodes, n)[m] = g.nodes[m]
    BY WithoutProperties
  <2>3. \A m \in DOMAIN Without(g.nodes, n) : NodeOK(Without(g.nodes, n)[m])
    BY <2>2 DEF GraphOK
  <2>4. QED
    BY <2>1, <2>3 DEF GraphOK, WithoutNode
<1>4. QED
  BY <1>1, <1>2, <1>3

LEMMA EdgesKeepShape ==
  ASSUME NEW g, GraphOK(g), NEW e \in Edges
  PROVE  /\ \A m, n \in Nodes, payload \in EdgePayloads : GraphOK(WithEdge(g, e, m, n, payload))
         /\ \A patch \in EdgePatches : e \in DOMAIN g.edges => GraphOK(WithFields(g, e, patch))
         /\ \A v : e \in DOMAIN g.edges /\ SlotOK(v, FALSE) => GraphOK(WithCondition(g, e, v))
         /\ GraphOK(WithoutEdge(g, e))
<1>1. ASSUME NEW m \in Nodes, NEW n \in Nodes, NEW payload \in EdgePayloads
      PROVE  GraphOK(WithEdge(g, e, m, n, payload))
  <2> DEFINE edge == Over(payload, NewEdge(m, n))
             edges == With(g.edges, e, edge)
  <2>1. EdgeOK(edge)
    BY NewEdgeOK, EdgePatchesOK DEF EdgePatches
  <2> HIDE DEF edge
  <2>2. WithEdge(g, e, m, n, payload) = [g EXCEPT !.edges = edges]
    BY DEF WithEdge, edge
  <2>3. /\ DOMAIN edges = DOMAIN g.edges \cup {e} /\ edges[e] = edge
        /\ \A x \in DOMAIN g.edges \ {e} : edges[x] = g.edges[x]
    BY DEF With, Over, Only
  <2> HIDE DEF edges
  <2>4. \A x \in DOMAIN edges : EdgeOK(edges[x])
    BY <2>1, <2>3 DEF GraphOK
  <2>5. QED
    BY <2>2, <2>4 DEF GraphOK
<1>2. ASSUME NEW patch \in EdgePatches, e \in DOMAIN g.edges
      PROVE  GraphOK(WithFields(g, e, patch))
  <2> DEFINE edge == Over(patch, g.edges[e])
  <2>1. EdgeOK(edge)
    BY <1>2, EdgePatchesOK DEF GraphOK
  <2>2. WithFields(g, e, patch) = [g EXCEPT !.edges[e] = edge]
    BY DEF WithFields
  <2> HIDE DEF edge
  <2>3. QED
    BY <2>1, <2>2 DEF GraphOK
<1>3. ASSUME NEW v, e \in DOMAIN g.edges, SlotOK(v, FALSE)
      PROVE  GraphOK(WithCondition(g, e, v))
  <2>1. EdgeOK([g.edges[e] EXCEPT !.condition = v])
    BY <1>3 DEF GraphOK, EdgeOK
  <2>2. WithCondition(g, e, v) = [g EXCEPT !.edges[e] = [g.edges[e] EXCEPT !.condition = v]]
    BY DEF WithCondition
  <2>3. QED
    BY <2>1, <2>2 DEF GraphOK
<1>4. GraphOK(WithoutEdge(g, e))
  <2>1. /\ DOMAIN Without(g.edges, e) = DOMAIN g.edges \ {e}
        /\ \A x \in DOMAIN g.edges \ {e} : Without(g.edges, e)[x] = g.edges[x]
    BY WithoutProperties
  <2>2. \A x \in DOMAIN Without(g.edges, e) : EdgeOK(Without(g.edges, e)[x])
    BY <2>1 DEF GraphOK
  <2>3. QED
    BY <2>2 DEF GraphOK, WithoutEdge
<1>5. QED
  BY <1>1, <1>2, <1>3, <1>4

LEMMA OthersKeepShape ==
  ASSUME NEW g, GraphOK(g)
  PROVE  /\ \A c, xs : xs \in Seq(Evidence) => GraphOK(WithConcept(g, c, xs))
         /\ \A c : GraphOK(WithoutConcept(g, c))
         /\ \A ns \in Endpoints : /\ GraphOK([g EXCEPT !.starts = ns])
                                 /\ GraphOK([g EXCEPT !.ends = ns])
<1>1. ASSUME NEW c, NEW xs \in Seq(Evidence)
      PROVE  GraphOK(WithConcept(g, c, xs))
  <2> DEFINE concepts == With(g.concepts, c, xs)
  <2>1. WithConcept(g, c, xs) = [g EXCEPT !.concepts = concepts]
    BY DEF WithConcept
  <2>2. /\ DOMAIN concepts = DOMAIN g.concepts \cup {c} /\ concepts[c] = xs
        /\ \A d \in DOMAIN g.concepts \ {c} : concepts[d] = g.concepts[d]
    BY DEF With, Over, Only
  <2> HIDE DEF concepts
  <2>3. \A d \in DOMAIN concepts : concepts[d] \in Seq(Evidence)
    BY <2>2 DEF GraphOK
  <2>4. QED
    BY <2>1, <2>3 DEF GraphOK
<1>2. ASSUME NEW c
      PROVE  GraphOK(WithoutConcept(g, c))
  <2>1. /\ DOMAIN Without(g.concepts, c) = DOMAIN g.concepts \ {c}
        /\ \A d \in DOMAIN g.concepts \ {c} : Without(g.concepts, c)[d] = g.concepts[d]
    BY WithoutProperties
  <2>2. \A d \in DOMAIN Without(g.concepts, c) : Without(g.concepts, c)[d] \in Seq(Evidence)
    BY <2>1 DEF GraphOK
  <2>3. QED
    BY <2>2 DEF GraphOK, WithoutConcept
<1>3. ASSUME NEW ns \in Endpoints
      PROVE  /\ GraphOK([g EXCEPT !.starts = ns])
             /\ GraphOK([g EXCEPT !.ends = ns])
  <2>1. PICK m \in 0..2 : ns \in [1..m -> Nodes]
    BY DEF Endpoints, SeqOf
  <2>2. ns \in Seq(Nodes)
    BY <2>1
  <2>3. QED
    BY <2>2 DEF GraphOK
<1>4. QED
  BY <1>1, <1>2, <1>3
-----------------------------------------------------------------------------
(* Attaching evidence: slots and graphs that differ by a citation more. *)

More(xs, ys, x) == ys \in {xs, Append(xs, x)}

SlotGrown(slot, new, x) ==
  /\ Claimed(new) = Claimed(slot)
  /\ DOMAIN RefsOf(new) = DOMAIN RefsOf(slot)
  /\ \A k \in DOMAIN RefsOf(slot) : More(RefsOf(slot)[k].evidence, RefsOf(new)[k].evidence, x)
  /\ More(MarkedBy(slot), MarkedBy(new), x)

GraphGrown(g, h, x) ==
  /\ DOMAIN h.nodes = DOMAIN g.nodes
  /\ \A n \in DOMAIN g.nodes, p \in Slots : SlotGrown(g.nodes[n][p], h.nodes[n][p], x)
  /\ DOMAIN h.edges = DOMAIN g.edges
  /\ \A e \in DOMAIN g.edges :
       /\ h.edges[e].from = g.edges[e].from /\ h.edges[e].to = g.edges[e].to
       /\ SlotGrown(g.edges[e].condition, h.edges[e].condition, x)
       /\ More(g.edges[e].evidence, h.edges[e].evidence, x)
  /\ DOMAIN h.concepts = DOMAIN g.concepts
  /\ h.starts = g.starts /\ h.ends = g.ends

LEMMA SlotSame == \A slot, x : SlotGrown(slot, slot, x)
BY DEF SlotGrown, More

LEMMA MarkersAreNotValues == Markers = {"absent", "dont_know"} /\ "value" \notin Markers /\ "unset" \notin Markers
BY DEF Markers

LEMMA MarkerAttached ==
  ASSUME NEW m \in Markers, NEW xs \in Seq(Evidence), NEW concept, NEW x \in Evidence, NEW list
  PROVE  /\ SlotOK(Attached(Marker(m, xs), concept, x), list)
         /\ SlotGrown(Marker(m, xs), Attached(Marker(m, xs), concept, x), x)
<1> DEFINE slot == Marker(m, xs)
           new  == Marker(m, Append(xs, x))
<1>1. Attached(slot, concept, x) = new
  BY DEF Attached, Marker
<1>2. Append(xs, x) \in Seq(Evidence)
  OBVIOUS
<1>3. SlotOK(new, list)
  BY <1>2 DEF SlotOK
<1>4. /\ RefsOf(slot) = <<>> /\ RefsOf(new) = <<>>
      /\ MarkedBy(slot) = xs /\ MarkedBy(new) = Append(xs, x)
      /\ slot.state = new.state
  BY MarkersAreNotValues DEF RefsOf, MarkedBy, Marker
<1> HIDE DEF slot, new
<1>5. Claimed(new) = Claimed(slot)
  BY <1>4 DEF Claimed
<1>6. SlotGrown(slot, new, x)
  BY <1>4, <1>5 DEF SlotGrown, More
<1>7. QED
  BY <1>1, <1>3, <1>6 DEF slot

LEMMA RefsAttached ==
  ASSUME NEW refs \in Seq(References), NEW concept, NEW x \in Evidence, NEW list,
         list \/ Len(refs) = 1, concept = NoConcept => Len(refs) = 1
  PROVE  /\ SlotOK(Attached(Holding(refs), concept, x), list)
         /\ SlotGrown(Holding(refs), Attached(Holding(refs), concept, x), x)
<1> DEFINE slot == Holding(refs)
           more == [k \in DOMAIN refs |->
                      IF concept = NoConcept \/ refs[k].concept = concept
                      THEN [refs[k] EXCEPT !.evidence = Append(@, x)] ELSE refs[k]]
           new  == Holding(more)
<1>1. DOMAIN refs = 1..Len(refs) /\ \A k \in DOMAIN refs : refs[k] \in References
  OBVIOUS
<1>2. Attached(slot, concept, x) = new
  <2>1. slot.state = "value" /\ slot.refs = refs
    BY DEF Holding
  <2>2. CASE concept = NoConcept
    <3>1. <<[refs[1] EXCEPT !.evidence = Append(@, x)]>> = more
      BY <1>1, <2>2
    <3>2. QED
      BY <2>1, <2>2, <3>1, MarkersAreNotValues DEF Attached
  <2>3. CASE concept # NoConcept
    BY <2>1, <2>3, MarkersAreNotValues DEF Attached
  <2>4. QED
    BY <2>2, <2>3
<1>3. /\ DOMAIN more = DOMAIN refs
      /\ \A k \in DOMAIN refs :
           /\ more[k] \in References
           /\ more[k].concept = refs[k].concept
           /\ More(refs[k].evidence, more[k].evidence, x)
  <2> SUFFICES ASSUME NEW k \in DOMAIN refs
               PROVE  /\ more[k] \in References
                      /\ more[k].concept = refs[k].concept
                      /\ More(refs[k].evidence, more[k].evidence, x)
    OBVIOUS
  <2> DEFINE ref == refs[k]
             cited == [ref EXCEPT !.evidence = Append(@, x)]
  <2>1. ref \in References
    BY <1>1
  <2>2. more[k] = cited \/ more[k] = ref
    OBVIOUS
  <2> HIDE DEF ref
  <2>3. Append(ref.evidence, x) \in Seq(Evidence)
    BY <2>1 DEF References
  <2>4. /\ cited \in References /\ cited.concept = ref.concept
        /\ cited.evidence = Append(ref.evidence, x)
    BY <2>1, <2>3 DEF References
  <2> HIDE DEF cited, more
  <2>5. QED
    BY <2>1, <2>2, <2>4 DEF More, ref
<1>4. more \in Seq(References) /\ Len(more) = Len(refs)
  <2>1. more = [k \in 1..Len(refs) |-> more[k]]
    BY <1>1
  <2> HIDE DEF more
  <2>2. more \in [1..Len(refs) -> References]
    BY <1>1, <1>3, <2>1
  <2>3. QED
    BY <2>2
<1> HIDE DEF more
<1>5. SlotOK(new, list)
  BY <1>4 DEF SlotOK
<1>6. /\ RefsOf(slot) = refs /\ RefsOf(new) = more
      /\ MarkedBy(slot) = <<>> /\ MarkedBy(new) = <<>>
      /\ slot.state = new.state
  BY MarkersAreNotValues DEF RefsOf, MarkedBy, Holding
<1> HIDE DEF slot, new
<1>7. Claimed(new) = Claimed(slot)
  BY <1>3, <1>6 DEF Claimed
<1>8. SlotGrown(slot, new, x)
  BY <1>3, <1>6, <1>7 DEF SlotGrown, More
<1>9. QED
  BY <1>2, <1>5, <1>8 DEF slot

LEMMA SlotAttached ==
  ASSUME NEW slot, NEW list \in BOOLEAN, SlotOK(slot, list),
         NEW concept, NEW x \in Evidence, Attachable(slot, list, concept)
  PROVE  /\ SlotOK(Attached(slot, concept, x), list)
         /\ SlotGrown(slot, Attached(slot, concept, x), x)
<1>1. slot # Unset
  BY MarkersAreNotValues DEF Attachable, Unset
<1>2. CASE \E m \in Markers, xs \in Seq(Evidence) : slot = Marker(m, xs)
  BY <1>2, MarkerAttached
<1>3. ASSUME NEW refs \in Seq(References), slot = Holding(refs), list \/ Len(refs) = 1
      PROVE  /\ SlotOK(Attached(slot, concept, x), list)
             /\ SlotGrown(slot, Attached(slot, concept, x), x)
  <2>1. slot.state = "value" /\ slot.refs = refs
    BY <1>3 DEF Holding
  <2>2. concept = NoConcept => Len(refs) = 1
    BY <1>3, <2>1, MarkersAreNotValues DEF Attachable
  <2>3. QED
    BY <1>3, <2>2, RefsAttached
<1>4. QED
  BY <1>1, <1>2, <1>3 DEF SlotOK
LEMMA SlotParts ==
  ASSUME NEW slot, NEW list, SlotOK(slot, list)
  PROVE  RefsOf(slot) \in Seq(References) /\ MarkedBy(slot) \in Seq(Evidence)
<1>1. CASE slot = Unset
  BY <1>1, MarkersAreNotValues DEF Unset, RefsOf, MarkedBy
<1>2. CASE \E m \in Markers, xs \in Seq(Evidence) : slot = Marker(m, xs)
  BY <1>2, MarkersAreNotValues DEF Marker, RefsOf, MarkedBy
<1>3. CASE \E refs \in Seq(References) : slot = Holding(refs)
  BY <1>3, MarkersAreNotValues DEF Holding, RefsOf, MarkedBy
<1>4. QED
  BY <1>1, <1>2, <1>3 DEF SlotOK

LEMMA EntryTyped ==
  ASSUME NEW refs \in Seq(References), NEW k \in DOMAIN refs
  PROVE  refs[k] \in References /\ refs[k].evidence \in Seq(Evidence)
<1>1. refs[k] \in References
  OBVIOUS
<1>2. QED
  BY <1>1 DEF References

LEMMA MoreCites ==
  ASSUME NEW xs \in Seq(Evidence), NEW x \in Evidence, NEW ys, More(xs, ys, x)
  PROVE  /\ DOMAIN xs \subseteq DOMAIN ys /\ \A j \in DOMAIN xs : ys[j] = xs[j]
         /\ Range(xs) \subseteq Range(ys) /\ Range(ys) \subseteq Range(xs) \cup {x}
         /\ xs # <<>> => ys # <<>>
<1>1. CASE ys = xs
  BY <1>1
<1>2. CASE ys = Append(xs, x)
  <2>1. /\ DOMAIN xs = 1..Len(xs) /\ DOMAIN ys = 1..(Len(xs) + 1) /\ Len(xs) \in Nat
        /\ \A j \in 1..Len(xs) : ys[j] = xs[j]
        /\ ys[Len(xs) + 1] = x
    BY <1>2
  <2>2. ys # <<>>
    BY <1>2
  <2>3. DOMAIN xs \subseteq DOMAIN ys
    BY <2>1
  <2>4. \A j \in DOMAIN ys : j \in DOMAIN xs \/ ys[j] = x
    BY <2>1
  <2>5. Range(ys) \subseteq Range(xs) \cup {x}
    BY <2>1, <2>4 DEF Range
  <2>6. Range(xs) \subseteq Range(ys)
    BY <2>1, <2>3 DEF Range
  <2>7. QED
    BY <2>1, <2>2, <2>3, <2>5, <2>6
<1>3. QED
  BY <1>1, <1>2 DEF More

LEMMA SlotGrownCites ==
  ASSUME NEW slot, NEW new, NEW list, SlotOK(slot, list), NEW x \in Evidence, SlotGrown(slot, new, x)
  PROVE  EvidenceIn(slot) \subseteq EvidenceIn(new)
<1>1. RefsOf(slot) \in Seq(References) /\ MarkedBy(slot) \in Seq(Evidence)
  BY SlotParts
<1>2. Range(MarkedBy(slot)) \subseteq Range(MarkedBy(new))
  BY <1>1, MoreCites DEF SlotGrown
<1>3. ASSUME NEW r \in Range(RefsOf(slot)), NEW y \in Range(r.evidence)
      PROVE  \E s \in Range(RefsOf(new)) : y \in Range(s.evidence)
  <2>1. PICK k \in DOMAIN RefsOf(slot) : r = RefsOf(slot)[k]
    BY DEF Range
  <2>2. r \in References /\ r.evidence \in Seq(Evidence)
    BY <1>1, <2>1, EntryTyped
  <2>3. Range(r.evidence) \subseteq Range(RefsOf(new)[k].evidence)
    BY <2>1, <2>2, MoreCites DEF SlotGrown
  <2>4. RefsOf(new)[k] \in Range(RefsOf(new))
    BY DEF SlotGrown, Range
  <2>5. QED
    BY <2>3, <2>4
<1>4. QED
  BY <1>2, <1>3 DEF EvidenceIn

LEMMA NodeGrownHits ==
  ASSUME NEW node, NEW new, NodeOK(node), NEW x \in Evidence, NEW seen, Exact(x, seen),
         \A p \in Slots : SlotGrown(node[p], new[p], x),
         NodeHit(node, seen), \A r \in NodeRefs(node) : RefHit(r, seen)
  PROVE  NodeHit(new, seen) /\ \A r \in NodeRefs(new) : RefHit(r, seen)
<1>1. \A p \in Slots : RefsOf(node[p]) \in Seq(References) /\ MarkedBy(node[p]) \in Seq(Evidence)
  BY SlotParts DEF NodeOK
<1>2. ASSUME NEW p \in Slots, NEW k \in DOMAIN RefsOf(node[p])
      PROVE  /\ RefsOf(node[p])[k].evidence \in Seq(Evidence)
             /\ More(RefsOf(node[p])[k].evidence, RefsOf(new[p])[k].evidence, x)
             /\ k \in DOMAIN RefsOf(new[p])
  BY <1>1, EntryTyped DEF SlotGrown
<1>3. ASSUME NEW r \in NodeRefs(new)
      PROVE  RefHit(r, seen)
  <2>1. PICK p \in Slots : r \in Range(RefsOf(new[p]))
    BY DEF NodeRefs
  <2>2. PICK k \in DOMAIN RefsOf(new[p]) : r = RefsOf(new[p])[k]
    BY <2>1 DEF Range
  <2>3. k \in DOMAIN RefsOf(node[p])
    BY DEF SlotGrown
  <2> DEFINE old == RefsOf(node[p])[k]
  <2>4. old \in NodeRefs(node)
    BY <2>3 DEF NodeRefs, Range
  <2>5. old.evidence \in Seq(Evidence) /\ More(old.evidence, r.evidence, x)
    BY <1>2, <2>2, <2>3
  <2> HIDE DEF old
  <2>6. old.evidence # <<>> /\ \A y \in Range(old.evidence) : Exact(y, seen)
    BY <2>4 DEF RefHit
  <2>7. r.evidence # <<>> /\ Range(r.evidence) \subseteq Range(old.evidence) \cup {x}
    BY <2>5, <2>6, MoreCites
  <2>8. QED
    BY <2>6, <2>7 DEF RefHit
<1>4. NodeHit(new, seen)
  <2>1. CASE \E r \in NodeRefs(node) : Hits(r.evidence, seen)
    <3>1. PICK p \in Slots : \E r \in Range(RefsOf(node[p])) : Hits(r.evidence, seen)
      BY <2>1 DEF NodeRefs
    <3>2. PICK k \in DOMAIN RefsOf(node[p]) : Hits(RefsOf(node[p])[k].evidence, seen)
      BY <3>1 DEF Range
    <3> DEFINE old == RefsOf(node[p])[k]
               r   == RefsOf(new[p])[k]
    <3>3. old.evidence \in Seq(Evidence) /\ More(old.evidence, r.evidence, x)
      BY <1>2
    <3>4. r \in NodeRefs(new)
      <4>1. r \in Range(RefsOf(new[p]))
        BY <1>2 DEF Range
      <4>2. QED
        BY <4>1 DEF NodeRefs
    <3>5. Hits(old.evidence, seen)
      BY <3>2
    <3> HIDE DEF old, r
    <3>6. Range(old.evidence) \subseteq Range(r.evidence)
      BY <3>3, MoreCites
    <3>7. QED
      BY <3>4, <3>5, <3>6 DEF Hits, NodeHit
  <2>2. CASE \E m \in Marks(node) : Exact(Mark(node, m), seen)
    <3>1. PICK m \in Marks(node) : Exact(Mark(node, m), seen)
      BY <2>2
    <3>2. PICK i \in DOMAIN NodeProperties : m \in {i} \X DOMAIN MarkedBy(node[NodeProperties[i]])
      BY DEF Marks
    <3>3. NodeProperties[i] \in Slots
      BY DEF Slots, Range
    <3>4. m[1] = i /\ m[2] \in DOMAIN MarkedBy(node[NodeProperties[i]])
      BY <3>2
    <3>5. /\ m[2] \in DOMAIN MarkedBy(new[NodeProperties[i]])
          /\ MarkedBy(new[NodeProperties[i]])[m[2]] = MarkedBy(node[NodeProperties[i]])[m[2]]
      BY <1>1, <3>3, <3>4, MoreCites DEF SlotGrown
    <3>6. m \in {i} \X DOMAIN MarkedBy(new[NodeProperties[i]])
      BY <3>2, <3>5
    <3>7. m \in Marks(new) /\ Mark(new, m) = Mark(node, m)
      BY <3>4, <3>5, <3>6 DEF Marks, Mark
    <3>8. QED
      BY <3>1, <3>7 DEF NodeHit
  <2>3. QED
    BY <2>1, <2>2 DEF NodeHit
<1>5. QED
  BY <1>3, <1>4
LEMMA GraphGrownKeeps ==
  ASSUME NEW g, NEW h, GraphOK(g), NEW x \in Evidence, NEW seen, Exact(x, seen),
         GraphGrown(g, h, x)
  PROVE  /\ Claims(h) = Claims(g)
         /\ \A n \in DOMAIN g.nodes, p \in Slots :
              EvidenceIn(g.nodes[n][p]) \subseteq EvidenceIn(h.nodes[n][p])
         /\ EvidenceComplete(g, seen) => EvidenceComplete(h, seen)
<1>1. Claims(h) = Claims(g)
  <2>1. [n \in DOMAIN h.nodes |-> [p \in Slots |-> Claimed(h.nodes[n][p])]]
          = [n \in DOMAIN g.nodes |-> [p \in Slots |-> Claimed(g.nodes[n][p])]]
    BY DEF GraphGrown, SlotGrown
  <2>2. [e \in DOMAIN h.edges |->
           <<h.edges[e].from, h.edges[e].to, Claimed(h.edges[e].condition)>>]
          = [e \in DOMAIN g.edges |->
               <<g.edges[e].from, g.edges[e].to, Claimed(g.edges[e].condition)>>]
    BY DEF GraphGrown, SlotGrown
  <2>3. QED
    BY <2>1, <2>2 DEF Claims, GraphGrown
<1>2. \A n \in DOMAIN g.nodes, p \in Slots :
        EvidenceIn(g.nodes[n][p]) \subseteq EvidenceIn(h.nodes[n][p])
  BY SlotGrownCites DEF GraphOK, NodeOK, GraphGrown
<1>3. ASSUME EvidenceComplete(g, seen)
      PROVE  EvidenceComplete(h, seen)
  <2>1. ASSUME NEW n \in DOMAIN h.nodes
        PROVE  /\ NodeHit(h.nodes[n], seen)
               /\ \A r \in NodeRefs(h.nodes[n]) : RefHit(r, seen)
    <3>1. n \in DOMAIN g.nodes
      BY DEF GraphGrown
    <3>2. /\ NodeOK(g.nodes[n])
          /\ \A p \in Slots : SlotGrown(g.nodes[n][p], h.nodes[n][p], x)
          /\ NodeHit(g.nodes[n], seen)
          /\ \A r \in NodeRefs(g.nodes[n]) : RefHit(r, seen)
      BY <1>3, <3>1 DEF GraphOK, GraphGrown, EvidenceComplete
    <3>3. QED
      BY <3>2, NodeGrownHits
  <2>2. ASSUME NEW e \in DOMAIN h.edges
        PROVE  EdgeHit(h.edges[e], seen)
    <3>1. e \in DOMAIN g.edges
      BY DEF GraphGrown
    <3>2. /\ g.edges[e].evidence \in Seq(Evidence)
          /\ More(g.edges[e].evidence, h.edges[e].evidence, x)
          /\ EdgeHit(g.edges[e], seen)
      BY <1>3, <3>1 DEF GraphOK, EdgeOK, GraphGrown, EvidenceComplete
    <3>3. /\ g.edges[e].evidence # <<>> => h.edges[e].evidence # <<>>
          /\ Range(h.edges[e].evidence) \subseteq Range(g.edges[e].evidence) \cup {x}
      BY <3>2, MoreCites
    <3>4. QED
      BY <3>2, <3>3 DEF EdgeHit
  <2>3. QED
    BY <2>1, <2>2 DEF EvidenceComplete
<1>4. QED
  BY <1>1, <1>2, <1>3

LEMMA NodeAttachGrows ==
  ASSUME GraphOK(graph), NEW n, NEW p \in Slots, NEW c, NEW x \in Evidence,
         AttachToNode(n, p, c, x)
  PROVE  GraphOK(graph') /\ GraphGrown(graph, graph', x)
<1> DEFINE new  == Attached(graph.nodes[n][p], c, x)
           node == [graph.nodes[n] EXCEPT ![p] = new]
<1>1. n \in DOMAIN graph.nodes /\ Attachable(graph.nodes[n][p], p \in ListSlots, c)
  BY DEF AttachToNode
<1>2. NodeOK(graph.nodes[n])
  BY <1>1 DEF GraphOK
<1>3. SlotOK(new, p \in ListSlots) /\ SlotGrown(graph.nodes[n][p], new, x)
  <2> DEFINE slot == graph.nodes[n][p]
             list == p \in ListSlots
  <2>1. SlotOK(slot, list) /\ list \in BOOLEAN
    BY <1>2 DEF NodeOK
  <2>2. Attachable(slot, list, c)
    BY <1>1
  <2> HIDE DEF slot, list
  <2>3. SlotOK(Attached(slot, c, x), list) /\ SlotGrown(slot, Attached(slot, c, x), x)
    BY <2>1, <2>2, SlotAttached
  <2>4. QED
    BY <2>3 DEF slot, list
<1>4. graph' = [graph EXCEPT !.nodes[n] = node]
  BY DEF AttachToNode, Apply
<1> HIDE DEF new
<1>5. NodeOK(node)
  BY <1>2, <1>3 DEF NodeOK
<1>6. \A q \in Slots : SlotGrown(graph.nodes[n][q], node[q], x)
  BY <1>2, <1>3, SlotSame DEF NodeOK
<1> HIDE DEF node
<1>7. GraphOK(graph')
  BY <1>1, <1>4, <1>5 DEF GraphOK
<1>8. /\ graph'.edges = graph.edges /\ graph'.concepts = graph.concepts
      /\ graph'.starts = graph.starts /\ graph'.ends = graph.ends
      /\ DOMAIN graph'.nodes = DOMAIN graph.nodes
      /\ \A m \in DOMAIN graph.nodes :
           graph'.nodes[m] = IF m = n THEN node ELSE graph.nodes[m]
  BY <1>4 DEF GraphOK
<1>9. QED
  BY <1>6, <1>7, <1>8, SlotSame DEF GraphGrown, More

LEMMA EdgeAttachGrows ==
  ASSUME GraphOK(graph), NEW e, NEW x \in Evidence,
         AttachToCondition(e, x) \/ AttachToEdge(e, x)
  PROVE  GraphOK(graph') /\ GraphGrown(graph, graph', x)
<1>1. e \in DOMAIN graph.edges /\ EdgeOK(graph.edges[e])
  BY DEF AttachToCondition, AttachToEdge, GraphOK
<1>2. PICK edge :
        /\ graph' = [graph EXCEPT !.edges[e] = edge]
        /\ EdgeOK(edge)
        /\ edge.from = graph.edges[e].from /\ edge.to = graph.edges[e].to
        /\ SlotGrown(graph.edges[e].condition, edge.condition, x)
        /\ More(graph.edges[e].evidence, edge.evidence, x)
  <2>1. CASE AttachToCondition(e, x)
    <3> DEFINE new  == Attached(graph.edges[e].condition, NoConcept, x)
               edge == [graph.edges[e] EXCEPT !.condition = new]
    <3>1. SlotOK(new, FALSE) /\ SlotGrown(graph.edges[e].condition, new, x)
      BY <1>1, <2>1, SlotAttached DEF AttachToCondition, EdgeOK
    <3>2. graph' = [graph EXCEPT !.edges[e] = edge]
      BY <2>1 DEF AttachToCondition, WithCondition, Apply
    <3> HIDE DEF new
    <3>3. /\ EdgeOK(edge) /\ edge.condition = new /\ edge.evidence = graph.edges[e].evidence
          /\ edge.from = graph.edges[e].from /\ edge.to = graph.edges[e].to
      BY <1>1, <3>1 DEF EdgeOK
    <3> HIDE DEF edge
    <3>4. QED
      BY <3>1, <3>2, <3>3 DEF More
  <2>2. CASE AttachToEdge(e, x)
    <3> DEFINE cited == Append(graph.edges[e].evidence, x)
               edge  == [graph.edges[e] EXCEPT !.evidence = cited]
    <3>1. cited \in Seq(Evidence)
      BY <1>1 DEF EdgeOK
    <3>2. graph' = [graph EXCEPT !.edges[e] = edge]
      BY <2>2 DEF AttachToEdge, Apply
    <3>3. More(graph.edges[e].evidence, cited, x)
      BY DEF More
    <3> HIDE DEF cited
    <3>4. /\ EdgeOK(edge) /\ edge.condition = graph.edges[e].condition /\ edge.evidence = cited
          /\ edge.from = graph.edges[e].from /\ edge.to = graph.edges[e].to
      BY <1>1, <3>1 DEF EdgeOK
    <3> HIDE DEF edge
    <3>5. QED
      BY <3>2, <3>3, <3>4, SlotSame
  <2>3. QED
    BY <2>1, <2>2
<1>3. GraphOK(graph')
  BY <1>1, <1>2 DEF GraphOK
<1>4. /\ graph'.nodes = graph.nodes /\ graph'.concepts = graph.concepts
      /\ graph'.starts = graph.starts /\ graph'.ends = graph.ends
      /\ DOMAIN graph'.edges = DOMAIN graph.edges
      /\ \A f \in DOMAIN graph.edges :
           graph'.edges[f] = IF f = e THEN edge ELSE graph.edges[f]
  BY <1>2 DEF GraphOK
<1>5. QED
  BY <1>2, <1>3, <1>4, SlotSame DEF GraphGrown, More

LEMMA ConceptAttachGrows ==
  ASSUME GraphOK(graph), NEW c, NEW x \in Evidence, AttachToConcept(c, x)
  PROVE  GraphOK(graph') /\ GraphGrown(graph, graph', x)
<1>1. c \in DOMAIN graph.concepts /\ Append(graph.concepts[c], x) \in Seq(Evidence)
  BY DEF AttachToConcept, GraphOK
<1>2. graph' = [graph EXCEPT !.concepts[c] = Append(graph.concepts[c], x)]
  BY DEF AttachToConcept, Apply
<1>3. GraphOK(graph')
  BY <1>1, <1>2 DEF GraphOK
<1>4. /\ graph'.nodes = graph.nodes /\ graph'.edges = graph.edges
      /\ graph'.starts = graph.starts /\ graph'.ends = graph.ends
      /\ DOMAIN graph'.concepts = DOMAIN graph.concepts
  BY <1>2 DEF GraphOK
<1>5. QED
  BY <1>3, <1>4, SlotSame DEF GraphGrown, More

LEMMA AttachGrows ==
  ASSUME GraphOK(graph), AttachEvidence
  PROVE  /\ GraphOK(graph') /\ observed' = observed
         /\ \E x \in Evidence : Exact(x, observed) /\ GraphGrown(graph, graph', x)
<1>1. PICK x \in Evidence :
        \/ \E n \in Nodes, p \in Slots, c \in Concepts \cup {NoConcept} : AttachToNode(n, p, c, x)
        \/ \E e \in Edges : AttachToCondition(e, x) \/ AttachToEdge(e, x)
        \/ \E c \in Concepts : AttachToConcept(c, x)
  BY DEF AttachEvidence
<1>2. Exact(x, observed)
  BY <1>1 DEF AttachToNode, AttachToCondition, AttachToEdge, AttachToConcept
<1>3. GraphOK(graph') /\ GraphGrown(graph, graph', x)
  BY <1>1, NodeAttachGrows, EdgeAttachGrows, ConceptAttachGrows
<1>4. QED
  BY <1>2, <1>3, EvidenceOperations DEF Stored
-----------------------------------------------------------------------------
(* The invariant, and attaching evidence under it. *)

Inv == GraphInv /\ GraphOK(graph)

LEMMA ApplyKeeps == \A new : Apply(new) /\ GraphOK(new) => GraphOK(graph')
BY DEF Apply

LEMMA SlotPayload == \A p \in Slots : \A v \in InputsOf(p) : Only(p, v) \in Payloads
BY DEF Payloads

LEMMA NodeStepOK ==
  ASSUME Inv, NEW n \in Nodes, NEW payload \in Payloads,
         AddNode(n, payload) \/ UpdateNode(n, payload) \/ RemoveNode(n)
  PROVE  GraphOK(graph')
<1>1. GraphOK(graph) /\ Valid(graph)
  BY DEF Inv, GraphInv
<1>2. CASE AddNode(n, payload)
  BY <1>1, <1>2, NodesKeepShape, ApplyKeeps DEF AddNode
<1>3. CASE UpdateNode(n, payload)
  BY <1>1, <1>3, NodesKeepShape, ApplyKeeps DEF UpdateNode
<1>4. CASE RemoveNode(n)
  BY <1>1, <1>4, NodesKeepShape, ApplyKeeps DEF RemoveNode
<1>5. QED
  BY <1>2, <1>3, <1>4

LEMMA ConceptStepOK ==
  ASSUME Inv, NEW c, NEW xs \in SomeEvidence,
         DefineConcept(c, xs) \/ UpdateConcept(c, xs) \/ RemoveConcept(c)
  PROVE  GraphOK(graph')
<1>1. GraphOK(graph) /\ xs \in Seq(Evidence)
  BY SomeEvidenceTyped DEF Inv
<1>2. QED
  BY <1>1, OthersKeepShape, ApplyKeeps DEF DefineConcept, UpdateConcept, RemoveConcept

LEMMA SlotStepOK ==
  ASSUME Inv
  PROVE  /\ \A n \in Nodes, p \in Slots : \A v \in InputsOf(p) :
              SetNodeProperty(n, p, v) => GraphOK(graph')
         /\ \A e \in Edges, v \in ScalarInputs : SetEdgeCondition(e, v) => GraphOK(graph')
         /\ \A ns \in Endpoints : SetEndpoints(ns) => GraphOK(graph')
<1>1. GraphOK(graph) /\ Valid(graph)
  BY DEF Inv, GraphInv
<1>2. ASSUME NEW n \in Nodes, NEW p \in Slots, NEW v \in InputsOf(p), SetNodeProperty(n, p, v)
      PROVE  GraphOK(graph')
  <2>1. Only(p, v) \in Payloads
    BY SlotPayload
  <2>2. n \in DOMAIN graph.nodes /\ Apply(WithSlots(graph, n, Only(p, v)))
    BY <1>2 DEF SetNodeProperty, SlotSettable
  <2>3. QED
    BY <1>1, <2>1, <2>2, NodesKeepShape, ApplyKeeps
<1>3. ASSUME NEW e \in Edges, NEW v \in ScalarInputs, SetEdgeCondition(e, v)
      PROVE  GraphOK(graph')
  <2>1. SlotOK(v, FALSE)
    BY ScalarInputsOK
  <2>2. e \in DOMAIN graph.edges /\ Apply(WithCondition(graph, e, v))
    BY <1>3 DEF SetEdgeCondition, ConditionSettable
  <2>3. QED
    BY <1>1, <2>1, <2>2, EdgesKeepShape, ApplyKeeps
<1>4. ASSUME NEW ns \in Endpoints, SetEndpoints(ns)
      PROVE  GraphOK(graph')
  BY <1>1, <1>4, OthersKeepShape, ApplyKeeps DEF SetEndpoints
<1>5. QED
  BY <1>2, <1>3, <1>4

LEMMA InitOK == Init => Inv
<1> SUFFICES ASSUME Init PROVE Inv
  OBVIOUS
<1>1. /\ DOMAIN graph = {"nodes", "edges", "concepts", "starts", "ends"}
      /\ graph.nodes = <<>> /\ graph.edges = <<>> /\ graph.concepts = <<>>
      /\ graph.starts = <<>> /\ graph.ends = <<>>
  BY DEF Init, EmptyGraph
<1>2. QED
  BY <1>1, InitInv DEF Inv, GraphOK

LEMMA StepOK == Inv /\ [Next]_vars => Inv'
<1> SUFFICES ASSUME Inv, [Next]_vars PROVE GraphOK(graph')
  BY StepInv DEF Inv
<1>1. ASSUME NEW n \in Nodes, NEW payload \in Payloads,
             AddNode(n, payload) \/ UpdateNode(n, payload)
      PROVE  GraphOK(graph')
  BY <1>1, NodeStepOK
<1>2. ASSUME NEW n \in Nodes, RemoveNode(n)
      PROVE  GraphOK(graph')
  BY <1>2, NodeStepOK DEF Payloads
<1>3. ASSUME NEW e \in Edges, NEW m \in Nodes, NEW n \in Nodes, NEW payload \in EdgePayloads,
             AddEdge(e, m, n, payload)
      PROVE  GraphOK(graph')
  BY <1>3, EdgesKeepShape, ApplyKeeps DEF Inv, AddEdge
<1>4. ASSUME NEW e \in Edges, UpdateEdge(e) \/ RemoveEdge(e)
      PROVE  GraphOK(graph')
  BY <1>4, EdgesKeepShape, ApplyKeeps DEF Inv, UpdateEdge, RemoveEdge
<1>5. ASSUME NEW c \in Concepts, NEW xs \in SomeEvidence, DefineConcept(c, xs) \/ UpdateConcept(c, xs)
      PROVE  GraphOK(graph')
  BY <1>5, ConceptStepOK
<1>6. ASSUME NEW c \in Concepts, RemoveConcept(c)
      PROVE  GraphOK(graph')
  BY <1>6, ConceptStepOK DEF SomeEvidence
<1>7. CASE AttachEvidence
  BY <1>7, AttachGrows DEF Inv
<1>8. CASE Observe \/ UNCHANGED vars
  BY <1>8 DEF Observe, vars, Inv
<1>9. QED
  BY <1>1, <1>2, <1>3, <1>4, <1>5, <1>6, <1>7, <1>8, SlotStepOK DEF Next

(* The stored graph keeps its shape: slots of a node hold what their kind   *)
(* allows, a scalar never more than one reference.                          *)
THEOREM GraphInvariance == Spec => []Inv
BY InitOK, StepOK, PTL DEF Spec

(* Attaching evidence never changes what the graph says, loses no citation  *)
(* and leaves complete evidence complete (attach_evidence).                 *)
THEOREM AttachingKeepsClaims == Spec => AttachKeepsClaims
<1>1. ASSUME Inv, AttachEvidence
      PROVE  /\ Claims(graph') = Claims(graph)
             /\ \A n \in DOMAIN graph.nodes, p \in Slots :
                  EvidenceIn(graph.nodes[n][p]) \subseteq EvidenceIn(graph'.nodes[n][p])
             /\ EvidenceComplete(graph, observed) => EvidenceComplete(graph', observed)
  <2>1. PICK x \in Evidence : Exact(x, observed) /\ GraphGrown(graph, graph', x)
    BY <1>1, AttachGrows DEF Inv
  <2>2. GraphOK(graph) /\ observed' = observed
    BY <1>1, AttachGrows DEF Inv
  <2>3. QED
    BY <2>1, <2>2, GraphGrownKeeps
<1>2. QED
  BY <1>1, GraphInvariance, PTL DEF AttachKeepsClaims
-----------------------------------------------------------------------------
(* The operations' own checks suffice. *)

LEMMA OwnCited ==
  ASSUME NEW g
  PROVE  /\ \A n \in DOMAIN g.nodes, p \in Slots : EvidenceIn(g.nodes[n][p]) \subseteq CitedInNodes(g)
         /\ \A e \in DOMAIN g.edges : /\ Range(g.edges[e].evidence) \subseteq CitedInEdges(g)
                                     /\ EvidenceIn(g.edges[e].condition) \subseteq CitedInConditions(g)
         /\ \A c \in DOMAIN g.concepts : Range(g.concepts[c]) \subseteq CitedInConcepts(g)
BY DEF CitedInNodes, CitedInEdges, CitedInConditions, CitedInConcepts

(* A graph that cites no more than a grounded one is grounded. *)
LEMMA GroundedFrom ==
  ASSUME NEW g, NEW h, NEW seen, Grounded(g, seen),
         \A n \in DOMAIN h.nodes, p \in Slots : EvidenceIn(h.nodes[n][p]) \subseteq CitedInNodes(g),
         \A e \in DOMAIN h.edges : /\ Range(h.edges[e].evidence) \subseteq CitedInEdges(g)
                                 /\ EvidenceIn(h.edges[e].condition) \subseteq CitedInConditions(g),
         \A c \in DOMAIN h.concepts : Range(h.concepts[c]) \subseteq CitedInConcepts(g)
  PROVE  Grounded(h, seen)
<1>1. CitedInNodes(h) \subseteq CitedInNodes(g)
  BY DEF CitedInNodes
<1>2. CitedInEdges(h) \subseteq CitedInEdges(g)
  BY DEF CitedInEdges
<1>3. CitedInConditions(h) \subseteq CitedInConditions(g)
  BY DEF CitedInConditions
<1>4. CitedInConcepts(h) \subseteq CitedInConcepts(g)
  BY DEF CitedInConcepts
<1>5. QED
  BY <1>1, <1>2, <1>3, <1>4 DEF Grounded

LEMMA UnsetSaysNothing == ConceptsOf(Unset) = {} /\ EvidenceIn(Unset) = {}
<1>1. RefsOf(Unset) = <<>> /\ MarkedBy(Unset) = <<>>
  BY MarkersAreNotValues DEF Unset, RefsOf, MarkedBy
<1>2. Range(<<>>) = {}
  BY DEF Range
<1>3. QED
  BY <1>1, <1>2 DEF ConceptsOf, EvidenceIn

LEMMA NewNodeAccepted ==
  ASSUME NEW g, GraphOK(g), Valid(g), NEW seen, Grounded(g, seen), NEW n \in Nodes, n \notin DOMAIN g.nodes
  PROVE  Valid(WithNode(g, n, <<>>)) /\ Grounded(WithNode(g, n, <<>>), seen)
<1> DEFINE node  == Over(<<>>, NoNode)
           nodes == With(g.nodes, n, node)
           h     == WithNode(g, n, <<>>)
<1>1. h = [g EXCEPT !.nodes = nodes]
  BY DEF WithNode
<1>2. \A p \in Slots : node[p] = Unset
  BY DEF Over, NoNode
<1>3. /\ DOMAIN nodes = DOMAIN g.nodes \cup {n} /\ nodes[n] = node
      /\ \A m \in DOMAIN g.nodes : nodes[m] = g.nodes[m]
  BY DEF With, Over, Only
<1> HIDE DEF node, nodes, h
<1>4. /\ h.nodes = nodes /\ h.edges = g.edges /\ h.concepts = g.concepts
      /\ h.starts = g.starts /\ h.ends = g.ends
  BY <1>1 DEF GraphOK
<1>5. ReferencesKnown(h)
  <2>1. \A m \in DOMAIN h.nodes, p \in Slots : ConceptsOf(h.nodes[m][p]) \subseteq DOMAIN h.concepts
    BY <1>2, <1>3, <1>4, UnsetSaysNothing DEF Valid, ReferencesKnown
  <2>2. QED
    BY <2>1, <1>3, <1>4 DEF Valid, ReferencesKnown
<1>6. Valid(h)
  BY <1>4, <1>5 DEF Valid
<1>7. \A m \in DOMAIN h.nodes, p \in Slots : EvidenceIn(h.nodes[m][p]) \subseteq CitedInNodes(g)
  BY <1>2, <1>3, <1>4, UnsetSaysNothing, OwnCited
<1>8. Grounded(h, seen)
  BY <1>4, <1>7, OwnCited, GroundedFrom
<1>9. QED
  BY <1>6, <1>8 DEF h

LEMMA NodeRemovalAccepted ==
  ASSUME NEW g, GraphOK(g), Valid(g), NEW seen, Grounded(g, seen), NEW n \in Nodes, NodeRemovable(g, n)
  PROVE  Valid(WithoutNode(g, n)) /\ Grounded(WithoutNode(g, n), seen)
<1> DEFINE h == WithoutNode(g, n)
<1>1. /\ IsInjective(RemoveFirst(g.starts, n)) /\ Range(RemoveFirst(g.starts, n)) = Range(g.starts) \ {n}
      /\ IsInjective(RemoveFirst(g.ends, n)) /\ Range(RemoveFirst(g.ends, n)) = Range(g.ends) \ {n}
  BY RemoveFirstProperties DEF GraphOK, Valid
<1>2. /\ DOMAIN Without(g.nodes, n) = DOMAIN g.nodes \ {n}
      /\ \A m \in DOMAIN g.nodes \ {n} : Without(g.nodes, n)[m] = g.nodes[m]
  BY WithoutProperties
<1>3. /\ h.nodes = Without(g.nodes, n) /\ h.edges = g.edges /\ h.concepts = g.concepts
      /\ h.starts = RemoveFirst(g.starts, n) /\ h.ends = RemoveFirst(g.ends, n)
  BY DEF WithoutNode, GraphOK
<1>4. \A e \in DOMAIN g.edges : g.edges[e].from # n /\ g.edges[e].to # n
  BY DEF NodeRemovable, Incident
<1> HIDE DEF h
<1>5. ReferencesKnown(h)
  BY <1>1, <1>2, <1>3, <1>4 DEF Valid, ReferencesKnown
<1>6. Valid(h)
  BY <1>1, <1>3, <1>5 DEF Valid
<1>7. \A m \in DOMAIN h.nodes, p \in Slots : EvidenceIn(h.nodes[m][p]) \subseteq CitedInNodes(g)
  BY <1>2, <1>3, OwnCited
<1>8. Grounded(h, seen)
  BY <1>3, <1>7, OwnCited, GroundedFrom
<1>9. QED
  BY <1>6, <1>8 DEF h

LEMMA SlotAccepted ==
  ASSUME NEW g, GraphOK(g), Valid(g), NEW seen, Grounded(g, seen), NEW n \in Nodes,
         NEW p \in Slots, NEW v, Bare(v), SlotSettable(g, n, v)
  PROVE  Valid(WithSlots(g, n, Only(p, v))) /\ Grounded(WithSlots(g, n, Only(p, v)), seen)
<1> DEFINE node == Over(Only(p, v), g.nodes[n])
           h    == WithSlots(g, n, Only(p, v))
<1>1. h = [g EXCEPT !.nodes[n] = node]
  BY DEF WithSlots
<1>2. \A q \in Slots : node[q] = IF q = p THEN v ELSE g.nodes[n][q]
  BY DEF Over, Only, SlotSettable, GraphOK, NodeOK
<1>3. n \in DOMAIN g.nodes /\ ConceptsOf(v) \subseteq DOMAIN g.concepts /\ EvidenceIn(v) = {}
  BY DEF SlotSettable, Bare
<1> HIDE DEF node, h
<1>4. /\ DOMAIN h.nodes = DOMAIN g.nodes
      /\ \A m \in DOMAIN g.nodes : h.nodes[m] = IF m = n THEN node ELSE g.nodes[m]
      /\ h.edges = g.edges /\ h.concepts = g.concepts /\ h.starts = g.starts /\ h.ends = g.ends
  BY <1>1, <1>3 DEF GraphOK
<1>5. ReferencesKnown(h)
  <2>1. \A m \in DOMAIN h.nodes, q \in Slots : ConceptsOf(h.nodes[m][q]) \subseteq DOMAIN h.concepts
    BY <1>2, <1>3, <1>4 DEF Valid, ReferencesKnown
  <2>2. QED
    BY <2>1, <1>4 DEF Valid, ReferencesKnown
<1>6. Valid(h)
  BY <1>4, <1>5 DEF Valid
<1>7. \A m \in DOMAIN h.nodes, q \in Slots : EvidenceIn(h.nodes[m][q]) \subseteq CitedInNodes(g)
  BY <1>2, <1>3, <1>4, OwnCited
<1>8. Grounded(h, seen)
  BY <1>4, <1>7, OwnCited, GroundedFrom
<1>9. QED
  BY <1>6, <1>8 DEF h
LEMMA NewEdgeAccepted ==
  ASSUME NEW g, GraphOK(g), Valid(g), NEW seen, Grounded(g, seen), NEW e,
         NEW m, NEW n, EdgeAddable(g, e, m, n)
  PROVE  Valid(WithEdge(g, e, m, n, <<>>)) /\ Grounded(WithEdge(g, e, m, n, <<>>), seen)
<1> DEFINE edge  == Over(<<>>, NewEdge(m, n))
           edges == With(g.edges, e, edge)
           h     == WithEdge(g, e, m, n, <<>>)
<1>1. h = [g EXCEPT !.edges = edges]
  BY DEF WithEdge
<1>2. edge.from = m /\ edge.to = n /\ edge.condition = Unset /\ Range(edge.evidence) = {}
  BY DEF Over, NewEdge, Range
<1>3. /\ DOMAIN edges = DOMAIN g.edges \cup {e} /\ edges[e] = edge
      /\ \A d \in DOMAIN g.edges : edges[d] = g.edges[d]
  BY DEF With, Over, Only, EdgeAddable
<1> HIDE DEF edge, edges, h
<1>4. /\ h.edges = edges /\ h.nodes = g.nodes /\ h.concepts = g.concepts
      /\ h.starts = g.starts /\ h.ends = g.ends
  BY <1>1 DEF GraphOK
<1>5. ASSUME NEW d \in DOMAIN h.edges
      PROVE  /\ {h.edges[d].from, h.edges[d].to} \subseteq DOMAIN h.nodes
             /\ ConceptsOf(h.edges[d].condition) \subseteq DOMAIN h.concepts
             /\ Range(h.edges[d].evidence) \subseteq CitedInEdges(g)
             /\ EvidenceIn(h.edges[d].condition) \subseteq CitedInConditions(g)
  <2>1. CASE d = e
    BY <2>1, <1>2, <1>3, <1>4, UnsetSaysNothing DEF EdgeAddable
  <2>2. CASE d # e
    BY <2>2, <1>3, <1>4, OwnCited DEF Valid, ReferencesKnown
  <2>3. QED
    BY <2>1, <2>2
<1>6. Valid(h)
  BY <1>4, <1>5 DEF Valid, ReferencesKnown
<1>7. Grounded(h, seen)
  BY <1>4, <1>5, OwnCited, GroundedFrom
<1>8. QED
  BY <1>6, <1>7 DEF h

LEMMA EdgeRemovalAccepted ==
  ASSUME NEW g, GraphOK(g), Valid(g), NEW seen, Grounded(g, seen), NEW e
  PROVE  Valid(WithoutEdge(g, e)) /\ Grounded(WithoutEdge(g, e), seen)
<1> DEFINE h == WithoutEdge(g, e)
<1>1. /\ DOMAIN Without(g.edges, e) = DOMAIN g.edges \ {e}
      /\ \A d \in DOMAIN g.edges \ {e} : Without(g.edges, e)[d] = g.edges[d]
  BY WithoutProperties
<1>2. /\ h.edges = Without(g.edges, e) /\ h.nodes = g.nodes /\ h.concepts = g.concepts
      /\ h.starts = g.starts /\ h.ends = g.ends
  BY DEF WithoutEdge, GraphOK
<1> HIDE DEF h
<1>3. Valid(h)
  BY <1>1, <1>2 DEF Valid, ReferencesKnown
<1>4. \A d \in DOMAIN h.edges : /\ Range(h.edges[d].evidence) \subseteq CitedInEdges(g)
                              /\ EvidenceIn(h.edges[d].condition) \subseteq CitedInConditions(g)
  BY <1>1, <1>2, OwnCited
<1>5. Grounded(h, seen)
  BY <1>2, <1>4, OwnCited, GroundedFrom
<1>6. QED
  BY <1>3, <1>5 DEF h

LEMMA ConditionAccepted ==
  ASSUME NEW g, GraphOK(g), Valid(g), NEW seen, Grounded(g, seen), NEW e, NEW v,
         Bare(v), ConditionSettable(g, e, v)
  PROVE  Valid(WithCondition(g, e, v)) /\ Grounded(WithCondition(g, e, v), seen)
<1> DEFINE edge == [g.edges[e] EXCEPT !.condition = v]
           h    == WithCondition(g, e, v)
<1>1. h = [g EXCEPT !.edges[e] = edge]
  BY DEF WithCondition
<1>2. e \in DOMAIN g.edges /\ ConceptsOf(v) \subseteq DOMAIN g.concepts /\ EvidenceIn(v) = {}
  BY DEF ConditionSettable, Bare
<1>3. /\ edge.from = g.edges[e].from /\ edge.to = g.edges[e].to
      /\ edge.evidence = g.edges[e].evidence /\ edge.condition = v
  BY <1>2 DEF GraphOK, EdgeOK
<1> HIDE DEF edge, h
<1>4. /\ DOMAIN h.edges = DOMAIN g.edges
      /\ \A d \in DOMAIN g.edges : h.edges[d] = IF d = e THEN edge ELSE g.edges[d]
      /\ h.nodes = g.nodes /\ h.concepts = g.concepts /\ h.starts = g.starts /\ h.ends = g.ends
  BY <1>1, <1>2 DEF GraphOK
<1>5. ASSUME NEW d \in DOMAIN h.edges
      PROVE  /\ {h.edges[d].from, h.edges[d].to} \subseteq DOMAIN h.nodes
             /\ ConceptsOf(h.edges[d].condition) \subseteq DOMAIN h.concepts
             /\ Range(h.edges[d].evidence) \subseteq CitedInEdges(g)
             /\ EvidenceIn(h.edges[d].condition) \subseteq CitedInConditions(g)
  BY <1>2, <1>3, <1>4, OwnCited DEF Valid, ReferencesKnown
<1>6. Valid(h)
  BY <1>4, <1>5 DEF Valid, ReferencesKnown
<1>7. Grounded(h, seen)
  BY <1>4, <1>5, OwnCited, GroundedFrom
<1>8. QED
  BY <1>6, <1>7 DEF h

LEMMA NewConceptAccepted ==
  ASSUME NEW g, GraphOK(g), Valid(g), NEW seen, Grounded(g, seen), NEW c, c \notin DOMAIN g.concepts
  PROVE  Valid(WithConcept(g, c, <<>>)) /\ Grounded(WithConcept(g, c, <<>>), seen)
<1> DEFINE concepts == With(g.concepts, c, <<>>)
           h        == WithConcept(g, c, <<>>)
<1>1. h = [g EXCEPT !.concepts = concepts]
  BY DEF WithConcept
<1>2. /\ DOMAIN concepts = DOMAIN g.concepts \cup {c} /\ Range(concepts[c]) = {}
      /\ \A d \in DOMAIN g.concepts : concepts[d] = g.concepts[d]
  BY DEF With, Over, Only, Range
<1> HIDE DEF concepts, h
<1>3. /\ h.concepts = concepts /\ h.nodes = g.nodes /\ h.edges = g.edges
      /\ h.starts = g.starts /\ h.ends = g.ends
  BY <1>1 DEF GraphOK
<1>4. Valid(h)
  BY <1>2, <1>3 DEF Valid, ReferencesKnown
<1>5. \A d \in DOMAIN h.concepts : Range(h.concepts[d]) \subseteq CitedInConcepts(g)
  BY <1>2, <1>3, OwnCited
<1>6. Grounded(h, seen)
  BY <1>3, <1>5, OwnCited, GroundedFrom
<1>7. QED
  BY <1>4, <1>6 DEF h

LEMMA ConceptRemovalAccepted ==
  ASSUME NEW g, GraphOK(g), Valid(g), NEW seen, Grounded(g, seen), NEW c, ConceptRemovable(g, c)
  PROVE  Valid(WithoutConcept(g, c)) /\ Grounded(WithoutConcept(g, c), seen)
<1> DEFINE h == WithoutConcept(g, c)
<1>1. /\ DOMAIN Without(g.concepts, c) = DOMAIN g.concepts \ {c}
      /\ \A d \in DOMAIN g.concepts \ {c} : Without(g.concepts, c)[d] = g.concepts[d]
  BY WithoutProperties
<1>2. /\ h.concepts = Without(g.concepts, c) /\ h.nodes = g.nodes /\ h.edges = g.edges
      /\ h.starts = g.starts /\ h.ends = g.ends
  BY DEF WithoutConcept, GraphOK
<1>3. /\ \A n \in DOMAIN g.nodes, p \in Slots : c \notin ConceptsOf(g.nodes[n][p])
      /\ \A e \in DOMAIN g.edges : c \notin ConceptsOf(g.edges[e].condition)
  BY DEF ConceptRemovable, Referenced
<1> HIDE DEF h
<1>4. Valid(h)
  BY <1>1, <1>2, <1>3 DEF Valid, ReferencesKnown
<1>5. \A d \in DOMAIN h.concepts : Range(h.concepts[d]) \subseteq CitedInConcepts(g)
  BY <1>1, <1>2, OwnCited
<1>6. Grounded(h, seen)
  BY <1>2, <1>5, OwnCited, GroundedFrom
<1>7. QED
  BY <1>4, <1>6 DEF h

LEMMA EndpointsAccepted ==
  ASSUME NEW g, GraphOK(g), Valid(g), NEW seen, Grounded(g, seen), NEW ns, EndpointsSettable(g, ns),
         NEW h, h = [g EXCEPT !.starts = ns] \/ h = [g EXCEPT !.ends = ns]
  PROVE  Valid(h) /\ Grounded(h, seen)
<1>1. /\ h.nodes = g.nodes /\ h.edges = g.edges /\ h.concepts = g.concepts
      /\ h.starts \in {g.starts, ns} /\ h.ends \in {g.ends, ns}
  BY DEF GraphOK
<1>2. Valid(h)
  BY <1>1 DEF Valid, ReferencesKnown, EndpointsSettable
<1>3. Grounded(h, seen)
  BY <1>1, OwnCited, GroundedFrom
<1>4. QED
  BY <1>2, <1>3

(* With the candidate's tools an operation that passes its own checks is    *)
(* refused neither by the check of the whole graph nor by the runtime's, in *)
(* every reachable graph of any size (_finish, apply_agent_graph).          *)
THEOREM GuardsAreEnough == Spec => []OwnChecksSuffice
<1>1. ASSUME Inv
      PROVE  OwnChecksSuffice
  <2>1. GraphOK(graph) /\ Valid(graph) /\ Grounded(graph, observed)
    BY <1>1 DEF Inv, GraphInv
  <2>2. ASSUME NEW n \in Nodes
        PROVE  /\ n \notin DOMAIN graph.nodes => Accepted(WithNode(graph, n, <<>>))
               /\ NodeRemovable(graph, n) => Accepted(WithoutNode(graph, n))
               /\ \A p \in Slots : \A v \in InputsOf(p) :
                    Bare(v) /\ SlotSettable(graph, n, v) => Accepted(WithSlots(graph, n, Only(p, v)))
    BY <2>1, NewNodeAccepted, NodeRemovalAccepted, SlotAccepted DEF Accepted
  <2>3. ASSUME NEW e \in Edges
        PROVE  /\ \A m, n \in Nodes :
                    EdgeAddable(graph, e, m, n) => Accepted(WithEdge(graph, e, m, n, <<>>))
               /\ e \in DOMAIN graph.edges => Accepted(WithoutEdge(graph, e))
               /\ \A v \in ScalarInputs :
                    Bare(v) /\ ConditionSettable(graph, e, v) => Accepted(WithCondition(graph, e, v))
    BY <2>1, NewEdgeAccepted, EdgeRemovalAccepted, ConditionAccepted DEF Accepted
  <2>4. ASSUME NEW c \in Concepts
        PROVE  /\ c \notin DOMAIN graph.concepts => Accepted(WithConcept(graph, c, <<>>))
               /\ ConceptRemovable(graph, c) => Accepted(WithoutConcept(graph, c))
    BY <2>1, NewConceptAccepted, ConceptRemovalAccepted DEF Accepted
  <2>5. ASSUME NEW ns \in Endpoints, EndpointsSettable(graph, ns)
        PROVE  /\ Accepted([graph EXCEPT !.starts = ns])
               /\ Accepted([graph EXCEPT !.ends = ns])
    BY <2>1, <2>5, EndpointsAccepted DEF Accepted
  <2>6. QED
    BY <2>2, <2>3, <2>4, <2>5 DEF OwnChecksSuffice
<1>2. QED
  BY <1>1, GraphInvariance, PTL
=============================================================================
