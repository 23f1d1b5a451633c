--------------------------- MODULE KnowledgeCoverage ---------------------------
(***************************************************************************)
(* evaluation/coverage.py: how much of the true process a knowledge graph   *)
(* holds, as the addresses known among those there are.                     *)
(***************************************************************************)
EXTENDS CanonicalGraph, Sequences

CONSTANTS
  NodeProperties,         \* the slots of a node
  ListSlots               \* those that hold lists

DontKnow == "dont_know"

Elements(truth, n, p) == IF p \in ListSlots THEN DOMAIN truth.slots[n][p] ELSE {}

(* Each node, slot, list element, edge and condition counts once. *)
Addresses(truth) ==
  LET business == BusinessNodes(truth)
  IN {<<"node", n>> : n \in business}
     \cup {<<"slot", n, p>> : n \in business, p \in NodeProperties}
     \cup (UNION {{<<"element", n, p, k>> : k \in Elements(truth, n, p)} :
                    n \in business, p \in NodeProperties})
     \cup (UNION {{<<"edge", e>>, <<"condition", e>>} : e \in BusinessEdges(truth)})

(* A list known to be empty counts all its elements, a known list those it  *)
(* holds.                                                                   *)
KnownElement(truth, slot, n, p, k) ==
  slot # DontKnow /\ (slot = <<>> \/ truth.slots[n][p][k] \in Range(slot))

Knows(truth, graph, address) ==
  LET kind == address[1]  id == address[2]
  IN CASE kind = "node"      -> id \in graph.nodes
       [] kind = "slot"      -> id \in graph.nodes /\ graph.slots[id][address[3]] # DontKnow
       [] kind = "element"   -> /\ id \in graph.nodes
                                /\ KnownElement(truth, graph.slots[id][address[3]],
                                                id, address[3], address[4])
       [] kind = "edge"      -> id \in DOMAIN graph.edges
       [] kind = "condition" -> id \in DOMAIN graph.edges /\ graph.edges[id].condition # DontKnow

Known(truth, graph) == {a \in Addresses(truth) : Knows(truth, graph, a)}

Coverage(truth, graph) == <<Cardinality(Known(truth, graph)), Cardinality(Addresses(truth))>>
=============================================================================
