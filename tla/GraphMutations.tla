---------------------------- MODULE GraphMutations ----------------------------
(***************************************************************************)
(* graph_mutations.py under the live runtime: an interviewer changes the    *)
(* graph, one operation at a time, and the runtime stores what its own      *)
(* check of the evidence accepts; meanwhile observations arrive.            *)
(*                                                                         *)
(* Every operation copies the graph, changes the copy after checks of its   *)
(* own, checks the copy as a whole (_finish) and returns it; a check that   *)
(* fails leaves the graph as it was, which is no step here.  A payload      *)
(* names at most one slot of a node and gives its references the same       *)
(* evidence, which is at most one item; both are bounds.                    *)
(***************************************************************************)
EXTENDS AgentGraph

CONSTANT MaxSize \* bound on the elements, references and citations of a graph

ASSUME GraphAssumption ==
  /\ MaxSize \in Nat
  /\ ListSlots \subseteq Slots
  /\ DOMAIN Texts = Observations
  /\ \A x \in Evidence : x.observation \in Observations
  /\ \A o \in Observations : NoQuote \notin Texts[o]

VARIABLES
  graph,   \* agent_graph
  observed \* the identifiers of observations

vars == <<graph, observed>>

(* the references and the citations of a slot *)
Parts(slot) ==
  LET refs == RefsOf(slot)
  IN  (UNION {{<<k, j>> : j \in 0..Len(refs[k].evidence)} : k \in DOMAIN refs})
        \cup {<<0, j>> : j \in DOMAIN MarkedBy(slot)}
Size(g) ==
  LET NodeParts(n)    == UNION {{<<n, p, x>> : x \in Parts(g.nodes[n][p])} : p \in Slots}
      EdgeParts(e)    == {<<e, "condition", x>> : x \in Parts(g.edges[e].condition)}
                           \cup {<<e, "edge", j>> : j \in 0..Len(g.edges[e].evidence)}
      ConceptParts(c) == {<<c, "concept", j>> : j \in 0..Len(g.concepts[c])}
  IN  Cardinality(DOMAIN g.nodes) + Len(g.starts) + Len(g.ends)
        + Cardinality(UNION {NodeParts(n) : n \in DOMAIN g.nodes})
        + Cardinality(UNION {EdgeParts(e) : e \in DOMAIN g.edges})
        + Cardinality(UNION {ConceptParts(c) : c \in DOMAIN g.concepts})

-----------------------------------------------------------------------------
(* Inputs *)

SomeEvidence == {<<>>} \cup {<<x>> : x \in Evidence}

MarkerInputs == {Marker(m, xs) : m \in Markers, xs \in SomeEvidence} \cup {Unset}
ScalarInputs == MarkerInputs \cup {Holding(<<Ref(c, xs)>>) : c \in Concepts, xs \in SomeEvidence}
ListInputs ==
  MarkerInputs \cup {Holding([k \in DOMAIN cs |-> Ref(cs[k], xs)]) :
                       cs \in SeqOf(Concepts, 2), xs \in SomeEvidence}
InputsOf(p) == IF p \in ListSlots THEN ListInputs ELSE ScalarInputs

(* payloads that name no slot, or one *)
Only(x, v) == [y \in {x} |-> v]
Payloads == {<<>>} \cup (UNION {{Only(p, v) : v \in InputsOf(p)} : p \in Slots})
EdgePayloads ==
  {<<>>} \cup {Only("condition", v) : v \in ScalarInputs}
         \cup {Only("evidence", xs) : xs \in SomeEvidence}
EdgePatches ==
  EdgePayloads \cup {Only("from", n) : n \in Nodes} \cup {Only("to", n) : n \in Nodes}
Endpoints == SeqOf(Nodes, 2)

-----------------------------------------------------------------------------
(* The operations: the graph each makes, and what it checks of its own *)

Over(f, g) == [x \in DOMAIN f \cup DOMAIN g |-> IF x \in DOMAIN f THEN f[x] ELSE g[x]]
With(f, x, v) == Over(Only(x, v), f)
Without(f, x) == Restrict(f, DOMAIN f \ {x})

WithNode(g, n, payload) == [g EXCEPT !.nodes = With(@, n, Over(payload, NoNode))]
WithSlots(g, n, payload) == [g EXCEPT !.nodes[n] = Over(payload, @)]

Incident(g, n) == {e \in DOMAIN g.edges : n \in {g.edges[e].from, g.edges[e].to}}
NodeRemovable(g, n) == n \in DOMAIN g.nodes /\ Incident(g, n) = {}
(* a valid graph lists an endpoint at most once *)
WithoutNode(g, n) ==
  [g EXCEPT !.nodes = Without(@, n), !.starts = RemoveFirst(@, n), !.ends = RemoveFirst(@, n)]

EdgeAddable(g, e, from, to) == e \notin DOMAIN g.edges /\ {from, to} \subseteq DOMAIN g.nodes
WithEdge(g, e, from, to, payload) ==
  [g EXCEPT !.edges = With(@, e, Over(payload, NewEdge(from, to)))]
WithFields(g, e, payload) == [g EXCEPT !.edges[e] = Over(payload, @)]
WithoutEdge(g, e) == [g EXCEPT !.edges = Without(@, e)]

(* mutant: conditions of edges are forgotten *)
ReferencedByNodes(g, c) ==
  \E n \in DOMAIN g.nodes, p \in Slots : c \in ConceptsOf(g.nodes[n][p])

Referenced(g, c) ==
  \/ \E n \in DOMAIN g.nodes, p \in Slots : c \in ConceptsOf(g.nodes[n][p])
  \/ \E e \in DOMAIN g.edges : c \in ConceptsOf(g.edges[e].condition)
ConceptRemovable(g, c) == c \in DOMAIN g.concepts /\ ~Referenced(g, c)
WithConcept(g, c, mentions) == [g EXCEPT !.concepts = With(@, c, mentions)]
WithoutConcept(g, c) == [g EXCEPT !.concepts = Without(@, c)]

SlotSettable(g, n, v) == n \in DOMAIN g.nodes /\ ConceptsOf(v) \subseteq DOMAIN g.concepts
ConditionSettable(g, e, v) == e \in DOMAIN g.edges /\ ConceptsOf(v) \subseteq DOMAIN g.concepts
WithCondition(g, e, v) == [g EXCEPT !.edges[e].condition = v]

EndpointsSettable(g, ns) == IsInjective(ns) /\ Range(ns) \subseteq DOMAIN g.nodes

-----------------------------------------------------------------------------
(* attach_evidence *)

NoConcept == "no concept"

(* mutant: a list slot takes evidence without a concept, for its first one *)
AttachableToAny(slot, list, concept) ==
  \/ slot.state \in Markers
  \/ /\ slot.state = "value"
     /\ IF concept = NoConcept THEN Len(slot.refs) >= 1 ELSE concept \in ConceptsOf(slot)

(* A marker takes evidence whatever the concept; a list slot with other than *)
(* one reference has to be told which.                                       *)
Attachable(slot, list, concept) ==
  \/ slot.state \in Markers
  \/ /\ slot.state = "value"
     /\ IF concept = NoConcept THEN list => Len(slot.refs) = 1 ELSE concept \in ConceptsOf(slot)

Attached(slot, concept, x) ==
  IF slot.state \in Markers THEN [slot EXCEPT !.evidence = Append(@, x)]
  ELSE IF concept = NoConcept
  THEN Holding(<<[slot.refs[1] EXCEPT !.evidence = Append(@, x)]>>)
  ELSE Holding([k \in DOMAIN slot.refs |->
                  IF slot.refs[k].concept = concept
                  THEN [slot.refs[k] EXCEPT !.evidence = Append(@, x)]
                  ELSE slot.refs[k]])

-----------------------------------------------------------------------------

Init == graph = EmptyGraph /\ observed = {}

(* the end of every operation: _finish, then the runtime's apply_agent_graph *)
Apply(new) ==
  /\ Size(new) <= MaxSize
  /\ Valid(new)
  /\ Grounded(new, observed)
  /\ graph' = new
  /\ UNCHANGED observed

AddNode(n, payload) == n \notin DOMAIN graph.nodes /\ Apply(WithNode(graph, n, payload))

(* in part, or replaced as a whole *)
UpdateNode(n, payload) ==
  /\ n \in DOMAIN graph.nodes
  /\ \/ payload # <<>> /\ Apply(WithSlots(graph, n, payload))
     \/ Apply(WithNode(graph, n, payload))

RemoveNode(n) == NodeRemovable(graph, n) /\ Apply(WithoutNode(graph, n))

AddEdge(e, from, to, payload) ==
  EdgeAddable(graph, e, from, to) /\ Apply(WithEdge(graph, e, from, to, payload))

(* in part, or replaced as a whole; that the endpoints exist, Apply checks too *)
UpdateEdge(e) ==
  /\ e \in DOMAIN graph.edges
  /\ \/ \E patch \in EdgePatches \ {<<>>} : Apply(WithFields(graph, e, patch))
     \/ \E m, n \in Nodes, payload \in EdgePayloads : Apply(WithEdge(graph, e, m, n, payload))

RemoveEdge(e) == e \in DOMAIN graph.edges /\ Apply(WithoutEdge(graph, e))

DefineConcept(c, mentions) ==
  c \notin DOMAIN graph.concepts /\ Apply(WithConcept(graph, c, mentions))

UpdateConcept(c, mentions) ==
  c \in DOMAIN graph.concepts /\ Apply(WithConcept(graph, c, mentions))

RemoveConcept(c) == ConceptRemovable(graph, c) /\ Apply(WithoutConcept(graph, c))

(* also set_node_absent and set_node_dont_know *)
SetNodeProperty(n, p, v) == SlotSettable(graph, n, v) /\ Apply(WithSlots(graph, n, Only(p, v)))

SetEdgeCondition(e, v) ==
  ConditionSettable(graph, e, v) /\ Apply(WithCondition(graph, e, v))

SetEndpoints(ns) ==
  /\ EndpointsSettable(graph, ns)
  /\ Apply([graph EXCEPT !.starts = ns]) \/ Apply([graph EXCEPT !.ends = ns])

AttachToNode(n, p, concept, x) ==
  /\ Exact(x, observed)
  /\ n \in DOMAIN graph.nodes
  /\ Attachable(graph.nodes[n][p], p \in ListSlots, concept)
  /\ Apply([graph EXCEPT !.nodes[n][p] = Attached(@, concept, x)])

AttachToCondition(e, x) ==
  /\ Exact(x, observed)
  /\ e \in DOMAIN graph.edges
  /\ Attachable(graph.edges[e].condition, FALSE, NoConcept)
  /\ Apply(WithCondition(graph, e, Attached(graph.edges[e].condition, NoConcept, x)))

AttachToEdge(e, x) ==
  /\ Exact(x, observed)
  /\ e \in DOMAIN graph.edges
  /\ Apply([graph EXCEPT !.edges[e].evidence = Append(@, x)])

AttachToConcept(c, x) ==
  /\ Exact(x, observed)
  /\ c \in DOMAIN graph.concepts
  /\ Apply([graph EXCEPT !.concepts[c] = Append(@, x)])

AttachEvidence ==
  \E x \in Evidence :
    \/ \E n \in Nodes, p \in Slots, c \in Concepts \cup {NoConcept} : AttachToNode(n, p, c, x)
    \/ \E e \in Edges : AttachToCondition(e, x) \/ AttachToEdge(e, x)
    \/ \E c \in Concepts : AttachToConcept(c, x)

(* a stakeholder answers *)
Observe ==
  /\ \E o \in Observations \ observed : observed' = observed \cup {o}
  /\ UNCHANGED graph

Next ==
  \/ \E n \in Nodes, payload \in Payloads : AddNode(n, payload) \/ UpdateNode(n, payload)
  \/ \E n \in Nodes : RemoveNode(n)
  \/ \E e \in Edges, m, n \in Nodes, payload \in EdgePayloads : AddEdge(e, m, n, payload)
  \/ \E e \in Edges : UpdateEdge(e) \/ RemoveEdge(e)
  \/ \E c \in Concepts, xs \in SomeEvidence : DefineConcept(c, xs) \/ UpdateConcept(c, xs)
  \/ \E c \in Concepts : RemoveConcept(c)
  \/ \E n \in Nodes, p \in Slots : \E v \in InputsOf(p) : SetNodeProperty(n, p, v)
  \/ \E e \in Edges, v \in ScalarInputs : SetEdgeCondition(e, v)
  \/ \E ns \in Endpoints : SetEndpoints(ns)
  \/ AttachEvidence
  \/ Observe

Spec == Init /\ [][Next]_vars

-----------------------------------------------------------------------------
(* Properties *)

(* The checks each operation makes of its own suffice: with the candidate's *)
(* tools, whose slots come without evidence, neither the check of the whole *)
(* graph nor the runtime's ever refuses what an operation made, whatever    *)
(* the graph.  (Nodes and edges that come with slots are another matter.)   *)
Bare(v) == EvidenceIn(v) = {}
Accepted(new) == Valid(new) /\ Grounded(new, observed)

OwnChecksSuffice ==
  /\ \A n \in Nodes :
       /\ n \notin DOMAIN graph.nodes => Accepted(WithNode(graph, n, <<>>))
       /\ NodeRemovable(graph, n) => Accepted(WithoutNode(graph, n))
       /\ \A p \in Slots : \A v \in InputsOf(p) :
            Bare(v) /\ SlotSettable(graph, n, v) => Accepted(WithSlots(graph, n, Only(p, v)))
  /\ \A e \in Edges :
       /\ \A m, n \in Nodes :
            EdgeAddable(graph, e, m, n) => Accepted(WithEdge(graph, e, m, n, <<>>))
       /\ e \in DOMAIN graph.edges => Accepted(WithoutEdge(graph, e))
       /\ \A v \in ScalarInputs :
            Bare(v) /\ ConditionSettable(graph, e, v) => Accepted(WithCondition(graph, e, v))
  /\ \A c \in Concepts :
       /\ c \notin DOMAIN graph.concepts => Accepted(WithConcept(graph, c, <<>>))
       /\ ConceptRemovable(graph, c) => Accepted(WithoutConcept(graph, c))
  /\ \A ns \in Endpoints : EndpointsSettable(graph, ns) =>
       Accepted([graph EXCEPT !.starts = ns]) /\ Accepted([graph EXCEPT !.ends = ns])

(* The evaluator never finds a graph the runtime stored to cite what no      *)
(* stakeholder said: the two walk the graph each in its own way, and the     *)
(* evaluator must not fail an interview for what the runtime let pass.       *)
ProvenanceHolds == ~EvaluatorInvalid(graph, observed)

(* Attaching evidence only ever adds evidence: every slot says what it said, *)
(* for as many concepts, no citation is lost, and evidence that the evaluator *)
(* found complete stays complete.                                            *)
Claims(g) ==
  [nodes  |-> [n \in DOMAIN g.nodes |-> [p \in Slots |-> Claimed(g.nodes[n][p])]],
   edges  |-> [e \in DOMAIN g.edges |->
                 <<g.edges[e].from, g.edges[e].to, Claimed(g.edges[e].condition)>>],
   concepts |-> DOMAIN g.concepts,
   ends   |-> <<g.starts, g.ends>>]

AttachKeepsClaims ==
  [][AttachEvidence =>
       /\ Claims(graph') = Claims(graph)
       /\ \A n \in DOMAIN graph.nodes, p \in Slots :
            EvidenceIn(graph.nodes[n][p]) \subseteq EvidenceIn(graph'.nodes[n][p])
       /\ EvidenceComplete(graph, observed) => EvidenceComplete(graph', observed)]_vars
=============================================================================
