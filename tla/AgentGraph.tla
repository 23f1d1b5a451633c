------------------------------ MODULE AgentGraph ------------------------------
(***************************************************************************)
(* models/graph.py, models/epistemic.py, models/concepts.py: the graph an   *)
(* interviewer builds, what makes it valid, and the evidence in it as the   *)
(* live runtime and the evaluator see it.                                   *)
(*                                                                         *)
(* Abstractions.  The four scalar slots of a node behave alike, as do the   *)
(* two list slots: NodeProperties may be a sample.  Kinds, labels           *)
(* and descriptions are left out, every reference is asserted, and a quote  *)
(* stands for a quote with its occurrence.  Identifiers hold no colon; one  *)
(* that does cannot be named as the target of evidence.                     *)
(***************************************************************************)
EXTENDS Naturals, Sequences, FiniteSets, Functions, SequencesExt

CONSTANTS
  Nodes, Edges, Concepts, \* identifiers the interviewer may use
  NodeProperties,         \* the names of a node's slots, in order
  ListSlots,              \* those that hold lists
  Observations,           \* identifiers of observations
  Texts,                  \* the quotes each observation has in it
  Evidence                \* the citations made: an observation and a quote, or none

Slots == Range(NodeProperties)

NoQuote == "no quote"
Cite(observation, quote) == [observation |-> observation, quote |-> quote]

(* A slot is unset, marked absent or unknown, or holds references: one if   *)
(* scalar, any number if a list.                                             *)
Unset                   == [state |-> "unset"]
Marker(state, evidence) == [state |-> state, evidence |-> evidence]
Markers                 == {"absent", "dont_know"}
Ref(concept, evidence)  == [concept |-> concept, evidence |-> evidence]
Holding(refs)           == [state |-> "value", refs |-> refs]

RefsOf(slot)     == IF slot.state = "value" THEN slot.refs ELSE <<>>
ConceptsOf(slot) == {r.concept : r \in Range(RefsOf(slot))}
MarkedBy(slot)   == IF slot.state \in Markers THEN slot.evidence ELSE <<>>

EvidenceIn(slot) ==
  Range(MarkedBy(slot)) \cup (UNION {Range(r.evidence) : r \in Range(RefsOf(slot))})

(* what a slot says, without its evidence *)
Claimed(slot) ==
  [state    |-> slot.state,
   concepts |-> [k \in DOMAIN RefsOf(slot) |-> RefsOf(slot)[k].concept]]

NoNode == [p \in Slots |-> Unset]
NewEdge(from, to) == [from |-> from, to |-> to, condition |-> Unset, evidence |-> <<>>]

EmptyGraph == [nodes |-> <<>>, edges |-> <<>>, concepts |-> <<>>, starts |-> <<>>, ends |-> <<>>]

(* A graph without dangling references, and with its endpoints listed once. *)
ReferencesKnown(g) ==
  /\ \A n \in DOMAIN g.nodes, p \in Slots : ConceptsOf(g.nodes[n][p]) \subseteq DOMAIN g.concepts
  /\ \A e \in DOMAIN g.edges :
       /\ {g.edges[e].from, g.edges[e].to} \subseteq DOMAIN g.nodes
       /\ ConceptsOf(g.edges[e].condition) \subseteq DOMAIN g.concepts
  /\ Range(g.starts) \cup Range(g.ends) \subseteq DOMAIN g.nodes

Valid(g) == ReferencesKnown(g) /\ IsInjective(g.starts) /\ IsInjective(g.ends)

-----------------------------------------------------------------------------
(* The runtime's view of the evidence *)

(* what _validate_graph_evidence checks: everything a graph cites *)
CitedInNodes(g)    == UNION {EvidenceIn(g.nodes[n][p]) : n \in DOMAIN g.nodes, p \in Slots}
CitedInEdges(g)    == UNION {Range(g.edges[e].evidence) : e \in DOMAIN g.edges}
CitedInConditions(g) == UNION {EvidenceIn(g.edges[e].condition) : e \in DOMAIN g.edges}
CitedInConcepts(g) == UNION {Range(g.concepts[c]) : c \in DOMAIN g.concepts}

Exact(x, observed) ==
  x.observation \in observed /\ (x.quote # NoQuote => x.quote \in Texts[x.observation])

(* mutant: the evidence of references in a slot is not looked at *)
GroundedMarkers(g, observed) ==
  /\ \A n \in DOMAIN g.nodes, p \in Slots :
       \A x \in Range(MarkedBy(g.nodes[n][p])) : Exact(x, observed)
  /\ \A x \in CitedInEdges(g) \cup CitedInConditions(g) \cup CitedInConcepts(g) :
       Exact(x, observed)

Grounded(g, observed) ==
  \A x \in CitedInNodes(g) \cup CitedInEdges(g) \cup CitedInConditions(g) \cup CitedInConcepts(g) :
    Exact(x, observed)

-----------------------------------------------------------------------------
(* The evaluator's view of the evidence *)

Hits(items, observed) == \E x \in Range(items) : Exact(x, observed)

(* The marks of a node, slot by slot; any() looks at them in that order, up *)
(* to the first that is exact.                                              *)
Marks(node) ==
  UNION {{k} \X DOMAIN MarkedBy(node[NodeProperties[k]]) : k \in DOMAIN NodeProperties}
Mark(node, m) == MarkedBy(node[NodeProperties[m[1]]])[m[2]]
Earlier(l, m) == l[1] < m[1] \/ (l[1] = m[1] /\ l[2] < m[2])
Visited(node, observed) ==
  {m \in Marks(node) :
     \A l \in Marks(node) : Earlier(l, m) => ~Exact(Mark(node, l), observed)}

NodeRefs(node) == UNION {Range(RefsOf(node[p])) : p \in Slots}
NodeHit(node, observed) ==
  \/ \E r \in NodeRefs(node) : Hits(r.evidence, observed)
  \/ \E m \in Marks(node) : Exact(Mark(node, m), observed)
RefHit(r, observed)  == r.evidence # <<>> /\ \A x \in Range(r.evidence) : Exact(x, observed)
EdgeHit(e, observed) == e.evidence # <<>> /\ \A x \in Range(e.evidence) : Exact(x, observed)

(* _evidence_metrics visits the evidence of a reference as a whole, that of  *)
(* a marker only until a node has its evidence, and that of an edge but not  *)
(* of its condition or of a concept.                                         *)
EvaluatorInvalid(g, observed) ==
  \/ \E n \in DOMAIN g.nodes :
       \/ \E r \in NodeRefs(g.nodes[n]) : \E x \in Range(r.evidence) : ~Exact(x, observed)
       \/ /\ \A r \in NodeRefs(g.nodes[n]) : ~Hits(r.evidence, observed)
          /\ \E m \in Visited(g.nodes[n], observed) : ~Exact(Mark(g.nodes[n], m), observed)
  \/ \E x \in CitedInEdges(g) : ~Exact(x, observed)

(* Every node, reference and edge has its evidence. *)
EvidenceComplete(g, observed) ==
  /\ \A n \in DOMAIN g.nodes :
       /\ NodeHit(g.nodes[n], observed)
       /\ \A r \in NodeRefs(g.nodes[n]) : RefHit(r, observed)
  /\ \A e \in DOMAIN g.edges : EdgeHit(g.edges[e], observed)
=============================================================================
