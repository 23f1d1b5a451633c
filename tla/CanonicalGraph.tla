---------------------------- MODULE CanonicalGraph ----------------------------
(***************************************************************************)
(* models/canonical.py: process graphs between one SOURCE and one SINK.     *)
(*                                                                         *)
(* A graph is a set of nodes and a function from edge identifiers to edges. *)
(* The two structural nodes are told by their identifiers: whatever builds  *)
(* a graph gives exactly those two their role, protects them and leaves     *)
(* their properties empty, so the checks of that metadata always pass.      *)
(***************************************************************************)
EXTENDS Naturals, FiniteSets, Functions

CONSTANTS
  Source, Sink,           \* identifiers of the structural nodes
  NoCondition             \* the condition of an unconditional edge

ASSUME StructuralDistinct == Source # Sink

Structural == {Source, Sink}

Edge(from, to, condition) ==
  [from |-> from, to |-> to, condition |-> condition, structural |-> FALSE,
   shortcut |-> FALSE, contracted |-> <<>>, derived |-> <<>>]

Boundary(from, to) == [Edge(from, to, NoCondition) EXCEPT !.structural = TRUE]

BusinessNodes(g) == g.nodes \ Structural
BusinessEdges(g) == {e \in DOMAIN g.edges : ~g.edges[e].structural}

Incoming(edges, n) == {e \in DOMAIN edges : edges[e].to = n}
Outgoing(edges, n) == {e \in DOMAIN edges : edges[e].from = n}

(* The nodes met from start along the edges, breadth first.                 *)
Reachable(nodes, start, next) ==
  LET within[k \in 0 .. Cardinality(nodes)] ==
        IF k = 0 THEN {start}
        ELSE within[k - 1] \cup (UNION {next[n] : n \in within[k - 1]})
  IN within[Cardinality(nodes)]

(* Every business node lies between SOURCE and SINK, and only unconditional *)
(* boundary edges touch those two.                                          *)
Canonical(g) ==
  LET after  == [n \in g.nodes |-> {g.edges[e].to : e \in Outgoing(g.edges, n)}]
      before == [n \in g.nodes |-> {g.edges[e].from : e \in Incoming(g.edges, n)}]
  IN /\ BusinessNodes(g) # {}
     /\ Structural \subseteq g.nodes
     /\ \A e \in DOMAIN g.edges : {g.edges[e].from, g.edges[e].to} \subseteq g.nodes
     /\ {n \in g.nodes : before[n] = {}} = {Source}
     /\ {n \in g.nodes : after[n] = {}} = {Sink}
     /\ BusinessNodes(g) \subseteq Reachable(g.nodes, Source, after)
     /\ BusinessNodes(g) \subseteq Reachable(g.nodes, Sink, before)
     /\ \A e \in DOMAIN g.edges :
          LET from == g.edges[e].from  to == g.edges[e].to
          IN IF g.edges[e].structural
             THEN /\ g.edges[e].condition = NoCondition
                  /\ \/ from = Source /\ to \in BusinessNodes(g)
                     \/ to = Sink /\ from \in BusinessNodes(g)
             ELSE {from, to} \cap Structural = {}

(* Boundary edges join SOURCE to every entry and every exit to SINK; a new  *)
(* process enters where no edge arrives and ends where none leaves.         *)
Entries(nodes, edges) == {n \in nodes : ~\E e \in DOMAIN edges : edges[e].to = n /\ edges[e].from \in nodes}
Exits(nodes, edges)   == {n \in nodes : ~\E e \in DOMAIN edges : edges[e].from = n /\ edges[e].to \in nodes}

Canonicalized(nodes, edges, entries, exits) ==
  LET boundaries == {<<"source", n>> : n \in entries} \cup {<<"sink", n>> : n \in exits}
      all        == DOMAIN edges \cup boundaries
  IN [nodes |-> nodes \cup Structural,
      edges |-> [e \in all |->
                   IF e \in DOMAIN edges THEN edges[e]
                   ELSE IF e[1] = "source" THEN Boundary(Source, e[2])
                   ELSE Boundary(e[2], Sink)]]
=============================================================================
