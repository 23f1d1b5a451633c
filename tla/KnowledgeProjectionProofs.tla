----------------------- MODULE KnowledgeProjectionProofs -----------------------
(***************************************************************************)
(* Proofs about KnowledgeProjection for any processes, profiles and         *)
(* probabilities of forgetting.                                             *)
(***************************************************************************)
EXTENDS KnowledgeProjection, FiniteSetTheorems, SequenceTheorems,
        WellFoundedInduction, TLAPS

Sampled == phase \in {"contracting", "projecting", "done"}

TypeOK ==
  /\ call \in Inputs
  /\ phase \in {"called", "refused", "drawing", "contracting", "projecting", "done", "failed"}
  /\ phase = "called" => attempt = 0
  /\ phase \notin {"called", "refused"} => Canonical(truth)

(* What a draw leaves, before any contraction. *)
Drawn ==
  /\ forgotten \subseteq BusinessNodes(truth)
  /\ BusinessNodes(truth) \ profile.nodes \subseteq forgotten
  /\ DOMAIN working \subseteq DOMAIN truth.edges
  /\ \A e \in DOMAIN working :
       /\ working[e] = truth.edges[e]
       /\ ~truth.edges[e].structural => e \in profile.edges

(* What contraction keeps: only forgotten nodes are gone, every edge joins   *)
(* nodes that remain, and every true edge is as drawn; those away from       *)
(* forgotten nodes are all still there.                                      *)
Contracted ==
  /\ nodes \subseteq truth.nodes
  /\ truth.nodes \ nodes \subseteq forgotten
  /\ IsFiniteSet(DOMAIN edges)
  /\ \A e \in DOMAIN edges : edges[e].from \in nodes /\ edges[e].to \in nodes
  /\ \A e \in DOMAIN edges \cap DOMAIN truth.edges :
       e \in DOMAIN working /\ edges[e] = working[e]
  /\ \A e \in DOMAIN working : Spared(e) => e \in DOMAIN edges
  /\ forgotten = {} => nodes = truth.nodes /\ edges = working

(* Which conditions are known. *)
Conditions ==
  /\ \A e \in knownConditions \cap DOMAIN truth.edges : e \in profile.conditions
  /\ phase = "contracting" \/ forgetting.properties = "zero" =>
       \A e \in DOMAIN edges \cap DOMAIN truth.edges :
         ~truth.edges[e].structural /\ e \in profile.conditions => e \in knownConditions

(* What masking leaves of the rest. *)
Masked ==
  /\ Pending = {}
  /\ knownSlots \subseteq ConfiguredSlots
  /\ forgetting.properties = "zero" => knownSlots = ConfiguredSlots

Inv ==
  /\ TypeOK
  /\ Sampled => Drawn /\ Contracted /\ Conditions
  /\ phase \in {"projecting", "done"} => Masked
  /\ phase = "done" => knowledge = Projected
  /\ WholeViewAccepted

-----------------------------------------------------------------------------
(* Lemmas about the operators *)

LEMMA DrawsAreSubsets ==
  ASSUME NEW probability, NEW S
  PROVE  /\ \A D \in Draws(probability, S) : D \subseteq S
         /\ probability = "zero" => Draws(probability, S) = {{}}
BY DEF Draws

(* The first of some nodes is one of them. *)
LEMMA FirstOfThem ==
  ASSUME NEW S, S \subseteq Nat, S # {}
  PROVE  Min(S) \in S
<1>1. PICK n \in S : \A m \in S : ~ (<<m, n>> \in OpToRel(<, Nat))
  BY NatLessThanWellFounded, WFMin
<1>2. \A m \in S : ~ (m < n)
  BY <1>1 DEF OpToRel
<1>3. \A m \in S : n <= m
  BY <1>2
<1>4. QED
  BY <1>3 DEF Min

LEMMA OnlyOne ==
  ASSUME NEW S, IsFiniteSet(S), Cardinality(S) = 1, NEW x \in S
  PROVE  S = {x}
BY FS_Singleton

LEMMA TrueEdges ==
  ASSUME Inv
  PROVE  \A e \in DOMAIN truth.edges : DOMAIN truth.edges[e] = EdgeFields /\ truth.edges[e].condition # DontKnow
BY InputsAssumption DEF Inv, TypeOK, truth

LEMMA CanonicalEdges ==
  ASSUME NEW g, Canonical(g)
  PROVE  /\ BusinessNodes(g) # {}
         /\ \A e \in DOMAIN g.edges : g.edges[e].from \in g.nodes /\ g.edges[e].to \in g.nodes
         /\ \A e \in DOMAIN g.edges : g.edges[e].structural => g.edges[e].condition = NoCondition
BY DEF Canonical

(* Whether a graph is canonical depends on the ends of its edges and on the *)
(* conditions of its boundary edges alone.                                  *)
LEMMA CanonicalDepends ==
  ASSUME NEW g, NEW h, Canonical(g), h.nodes = g.nodes, DOMAIN h.edges = DOMAIN g.edges,
         \A e \in DOMAIN g.edges :
           /\ h.edges[e].from = g.edges[e].from /\ h.edges[e].to = g.edges[e].to
           /\ h.edges[e].structural = g.edges[e].structural
           /\ g.edges[e].structural => h.edges[e].condition = g.edges[e].condition
  PROVE  Canonical(h)
<1> DEFINE after(k)  == [n \in k.nodes |-> {k.edges[e].to : e \in Outgoing(k.edges, n)}]
           before(k) == [n \in k.nodes |-> {k.edges[e].from : e \in Incoming(k.edges, n)}]
<1>1. BusinessNodes(h) = BusinessNodes(g)
  BY DEF BusinessNodes
<1>2. \A n : Outgoing(h.edges, n) = Outgoing(g.edges, n) /\ Incoming(h.edges, n) = Incoming(g.edges, n)
  BY DEF Outgoing, Incoming
<1>3. ASSUME NEW n
      PROVE  /\ {h.edges[e].to : e \in Outgoing(h.edges, n)} = {g.edges[e].to : e \in Outgoing(g.edges, n)}
             /\ {h.edges[e].from : e \in Incoming(h.edges, n)} = {g.edges[e].from : e \in Incoming(g.edges, n)}
  BY <1>2 DEF Outgoing, Incoming
<1>4. after(h) = after(g) /\ before(h) = before(g)
  BY <1>3
<1>5. /\ {n \in g.nodes : before(g)[n] = {}} = {Source}
      /\ {n \in g.nodes : after(g)[n] = {}} = {Sink}
      /\ BusinessNodes(g) \subseteq Reachable(g.nodes, Source, after(g))
      /\ BusinessNodes(g) \subseteq Reachable(g.nodes, Sink, before(g))
  BY DEF Canonical
<1>6. \A e \in DOMAIN h.edges : {h.edges[e].from, h.edges[e].to} \subseteq h.nodes
  BY DEF Canonical
<1>7. ASSUME NEW e \in DOMAIN h.edges
      PROVE  LET from == h.edges[e].from  to == h.edges[e].to
             IN IF h.edges[e].structural
                THEN /\ h.edges[e].condition = NoCondition
                     /\ \/ from = Source /\ to \in BusinessNodes(h)
                        \/ to = Sink /\ from \in BusinessNodes(h)
                ELSE {from, to} \cap Structural = {}
  BY <1>1 DEF Canonical
<1>8. BusinessNodes(h) # {} /\ Structural \subseteq h.nodes
  BY <1>1 DEF Canonical
<1> HIDE DEF after, before
<1>9. /\ {n \in h.nodes : before(h)[n] = {}} = {Source}
      /\ {n \in h.nodes : after(h)[n] = {}} = {Sink}
      /\ BusinessNodes(h) \subseteq Reachable(h.nodes, Source, after(h))
      /\ BusinessNodes(h) \subseteq Reachable(h.nodes, Sink, before(h))
  BY <1>1, <1>4, <1>5
<1>10. QED
  BY <1>6, <1>7, <1>8, <1>9 DEF Canonical, after, before
-----------------------------------------------------------------------------
(* The invariant, step by step *)

LEMMA InitInv == Init => Inv
BY DEF Init, Inv, TypeOK, Sampled, WholeViewAccepted

LEMMA StartInv == Inv /\ Start => Inv'
<1> SUFFICES ASSUME Inv, Start PROVE Inv'
  OBVIOUS
<1>1. /\ phase' = (IF Canonical(truth) THEN "drawing" ELSE "refused")
      /\ call' = call /\ attempt' = attempt /\ attempt = 0
  BY DEF Start, Inv, TypeOK
<1>2. TypeOK'
  BY <1>1 DEF Inv, TypeOK, truth
<1>3. WholeViewAccepted'
  BY <1>1 DEF WholeViewAccepted
<1>4. QED
  BY <1>1, <1>2, <1>3 DEF Inv, Sampled

LEMMA SampleInv == Inv /\ Sample => Inv'
<1> SUFFICES ASSUME Inv, Sample PROVE Inv'
  OBVIOUS
<1>1. PICK drawnNodes \in Draws(forgetting.nodes, VisibleNodes),
           drawnEdges \in Draws(forgetting.edges, VisibleEdges) :
        /\ forgotten' = (BusinessNodes(truth) \ VisibleNodes) \cup drawnNodes
        /\ working' = Working(drawnEdges)
  BY DEF Sample
<1>2. /\ phase = "drawing" /\ phase' = "contracting"
      /\ nodes' = truth.nodes /\ edges' = working'
      /\ knownConditions' = KnownAtFirst(working')
      /\ call' = call /\ truth' = truth /\ profile' = profile /\ forgetting' = forgetting
  BY DEF Sample, truth, profile, forgetting
<1>3. drawnNodes \subseteq VisibleNodes
  BY DrawsAreSubsets
<1>4. /\ DOMAIN working' = {e \in DOMAIN truth.edges :
                             truth.edges[e].structural \/ e \in VisibleEdges \ drawnEdges}
      /\ \A e \in DOMAIN working' : working'[e] = truth.edges[e]
  BY <1>1 DEF Working, RestrictDomain, Restrict
<1>5. TypeOK'
  BY <1>2 DEF Inv, TypeOK
<1>6. Drawn'
  <2>1. forgotten' \subseteq BusinessNodes(truth) /\ BusinessNodes(truth) \ profile.nodes \subseteq forgotten'
    BY <1>1, <1>3 DEF VisibleNodes
  <2>2. \A e \in DOMAIN working' : ~truth.edges[e].structural => e \in profile.edges
    BY <1>4 DEF VisibleEdges
  <2>3. QED
    BY <1>2, <1>4, <2>1, <2>2 DEF Drawn
<1>7. Contracted'
  <2>1. Canonical(truth) /\ call \in Inputs
    BY <1>2 DEF Inv, TypeOK
  <2>2. IsFiniteSet(DOMAIN truth.edges)
    BY <2>1, InputsAssumption DEF truth
  <2>3. IsFiniteSet(DOMAIN edges')
    BY <1>2, <1>4, <2>2, FS_Subset
  <2>4. \A e \in DOMAIN edges' : edges'[e].from \in nodes' /\ edges'[e].to \in nodes'
    BY <1>2, <1>4, <2>1, CanonicalEdges
  <2>5. QED
    BY <1>2, <1>4, <2>3, <2>4 DEF Contracted
<1>8. Conditions'
  <2>1. \A e \in DOMAIN working' : e \in knownConditions' <=>
          ~truth.edges[e].structural /\ e \in profile.conditions
    BY <1>2, <1>4 DEF KnownAtFirst
  <2>2. knownConditions' \subseteq profile.conditions
    BY <1>2 DEF KnownAtFirst
  <2>3. QED
    BY <1>2, <2>1, <2>2 DEF Conditions
<1>9. QED
  BY <1>2, <1>5, <1>6, <1>7, <1>8 DEF Inv, WholeViewAccepted

(* A shortcut never takes the place of a true edge. *)
LEMMA ShortcutIsNew ==
  ASSUME Inv, Contracted, NEW n \in nodes
  PROVE  NextShortcut \notin DOMAIN truth.edges
<1>1. IsFiniteSet(truth.nodes)
  BY InputsAssumption DEF Inv, TypeOK, truth
<1>2. n \in truth.nodes
  BY DEF Contracted
<1> DEFINE gone == truth.nodes \ nodes
<1>3. Cardinality(truth.nodes) \in Nat /\ Cardinality(truth.nodes \ {n}) = Cardinality(truth.nodes) - 1
  BY <1>1, <1>2, FS_CardinalityType, FS_RemoveElement
<1>4. IsFiniteSet(truth.nodes \ {n}) /\ gone \in SUBSET (truth.nodes \ {n})
  BY <1>1, FS_RemoveElement
<1>5. Cardinality(gone) \in Nat /\ Cardinality(gone) <= Cardinality(truth.nodes) - 1
  BY <1>3, <1>4, FS_Subset, FS_CardinalityType
<1>6. Cardinality(gone) + 1 \in 1 .. Cardinality(truth.nodes)
  BY <1>3, <1>5
<1>7. \A k \in 1 .. Cardinality(truth.nodes) : <<"shortcut", k>> \notin DOMAIN truth.edges
  BY InputsAssumption DEF Inv, TypeOK, truth
<1>8. QED
  BY <1>6, <1>7 DEF NextShortcut

(* A step of contraction, at the first node still to be forgotten.          *)
LEMMA Contracting ==
  ASSUME Inv, Contract
  PROVE  /\ phase = "contracting" /\ forgetting.shortcuts
         /\ call' = call /\ attempt' = attempt /\ forgotten' = forgotten
         /\ working' = working /\ phase' = phase
         /\ \E n \in Pending : \E left, right \in DOMAIN edges :
              /\ Contractible(n) /\ nodes' = nodes \ {n}
              /\ Incoming(edges, n) = {left} /\ Outgoing(edges, n) = {right}
              /\ edges' = [e \in (DOMAIN edges \ {left, right}) \cup {NextShortcut} |->
                             IF e = NextShortcut THEN Shortcut(left, n, right) ELSE edges[e]]
              /\ knownConditions' = (knownConditions \ {left, right}) \cup {NextShortcut}
<1> DEFINE n == Min(Pending)
<1>1. /\ phase = "contracting" /\ phase' = phase /\ Pending # {} /\ Contractible(n)
      /\ nodes' = nodes \ {n} /\ forgetting.shortcuts
      /\ call' = call /\ attempt' = attempt /\ forgotten' = forgotten /\ working' = working
  BY DEF Contract
<1>2. PICK left \in Incoming(edges, n), right \in Outgoing(edges, n) :
        /\ edges' = [e \in (DOMAIN edges \ {left, right}) \cup {NextShortcut} |->
                       IF e = NextShortcut THEN Shortcut(left, n, right) ELSE edges[e]]
        /\ knownConditions' = (knownConditions \ {left, right}) \cup {NextShortcut}
  BY DEF Contract
<1>3. Drawn /\ Contracted
  BY <1>1 DEF Inv, Sampled
<1>4. n \in Pending
  <2>1. BusinessNodes(truth) \subseteq Nat
    BY InputsAssumption DEF Inv, TypeOK, truth
  <2>2. Pending \subseteq Nat
    BY <1>3, <2>1 DEF Pending, Drawn
  <2>3. QED
    BY <1>1, <2>2, FirstOfThem
<1> HIDE DEF n
<1>5. Incoming(edges, n) = {left} /\ Outgoing(edges, n) = {right}
  <2>1. IsFiniteSet(Incoming(edges, n)) /\ IsFiniteSet(Outgoing(edges, n))
    BY <1>3, FS_Subset DEF Incoming, Outgoing, Contracted
  <2>2. Cardinality(Incoming(edges, n)) = 1 /\ Cardinality(Outgoing(edges, n)) = 1
    BY <1>1 DEF Contractible, Serial
  <2>3. QED
    BY <2>1, <2>2, OnlyOne
<1>6. left \in DOMAIN edges /\ right \in DOMAIN edges
  BY DEF Incoming, Outgoing
<1>7. QED
  BY <1>1, <1>2, <1>4, <1>5, <1>6

LEMMA ContractInv == Inv /\ Contract => Inv'
<1> SUFFICES ASSUME Inv, Contract PROVE Inv'
  OBVIOUS
<1>1. PICK n \in Pending, left \in DOMAIN edges, right \in DOMAIN edges :
        /\ Contractible(n) /\ nodes' = nodes \ {n}
        /\ Incoming(edges, n) = {left} /\ Outgoing(edges, n) = {right}
        /\ edges' = [e \in (DOMAIN edges \ {left, right}) \cup {NextShortcut} |->
                       IF e = NextShortcut THEN Shortcut(left, n, right) ELSE edges[e]]
        /\ knownConditions' = (knownConditions \ {left, right}) \cup {NextShortcut}
  BY Contracting
<1>2. /\ phase = "contracting" /\ phase' = phase
      /\ call' = call /\ attempt' = attempt /\ forgotten' = forgotten /\ working' = working
      /\ truth' = truth /\ profile' = profile /\ forgetting' = forgetting
  BY Contracting DEF truth, profile, forgetting
<1>3. Drawn /\ Contracted /\ Conditions
  BY <1>2 DEF Inv, Sampled
<1>4. n \in forgotten /\ n \in nodes
  BY DEF Pending
<1> DEFINE id == NextShortcut
<1>5. id \notin DOMAIN truth.edges
  BY <1>3, <1>4, ShortcutIsNew
<1>6. Incoming(edges, n) = {left} /\ Outgoing(edges, n) = {right}
  BY <1>1
<1>7. /\ left \in DOMAIN edges /\ edges[left].to = n
      /\ right \in DOMAIN edges /\ edges[right].from = n
      /\ \A e \in DOMAIN edges \ {left, right} : edges[e].from # n /\ edges[e].to # n
  BY <1>6 DEF Incoming, Outgoing
<1>8. edges[left].from # n /\ edges[right].to # n
  <2>1. edges[left].from # edges[right].to
    BY <1>1 DEF Contractible
  <2>2. edges[left].from = n => left = right
    BY <1>6, <1>7 DEF Outgoing
  <2>3. edges[right].to = n => left = right
    BY <1>6, <1>7 DEF Incoming
  <2>4. QED
    BY <1>7, <2>1, <2>2, <2>3
<1>9. Shortcut(left, n, right).from = edges[left].from /\ Shortcut(left, n, right).to = edges[right].to
  BY DEF Shortcut
<1>10. /\ DOMAIN edges' = (DOMAIN edges \ {left, right}) \cup {id}
       /\ edges'[id].from = edges[left].from /\ edges'[id].to = edges[right].to
       /\ \A e \in DOMAIN edges' \ {id} : edges'[e] = edges[e]
  BY <1>1, <1>9
<1>11. knownConditions' = (knownConditions \ {left, right}) \cup {id}
  BY <1>1
<1> HIDE DEF id
<1>12. Contracted'
  <2>1. nodes' \subseteq truth.nodes /\ truth.nodes \ nodes' \subseteq forgotten
    BY <1>1, <1>3, <1>4 DEF Contracted
  <2>2. IsFiniteSet(DOMAIN edges')
    <3>1. IsFiniteSet(DOMAIN edges \ {left, right})
      BY <1>3, FS_Subset DEF Contracted
    <3>2. QED
      BY <1>10, <3>1, FS_AddElement
  <2>3. ASSUME NEW e \in DOMAIN edges'
        PROVE  edges'[e].from \in nodes' /\ edges'[e].to \in nodes'
    <3>1. CASE e = id
      BY <1>1, <1>3, <1>7, <1>8, <1>10, <3>1 DEF Contracted
    <3>2. CASE e # id
      BY <1>1, <1>3, <1>7, <1>10, <3>2 DEF Contracted
    <3>3. QED
      BY <3>1, <3>2
  <2>4. \A e \in DOMAIN edges' \cap DOMAIN truth.edges :
          e \in DOMAIN working /\ edges'[e] = working[e]
    BY <1>3, <1>5, <1>10 DEF Contracted
  <2>5. ASSUME NEW e \in DOMAIN working, Spared(e)
        PROVE  e \in DOMAIN edges'
    <3>1. e \in DOMAIN edges /\ e \in DOMAIN truth.edges /\ edges[e] = working[e]
      BY <1>3, <2>5 DEF Contracted, Drawn
    <3>2. e # left /\ e # right
      BY <1>4, <1>7, <2>5, <3>1 DEF Spared
    <3>3. QED
      BY <1>10, <3>1, <3>2
  <2>6. \A e : Spared(e)' <=> Spared(e)
    BY <1>2 DEF Spared
  <2>7. forgotten' # {}
    BY <1>2, <1>4
  <2>8. QED
    BY <1>2, <2>1, <2>2, <2>3, <2>4, <2>5, <2>6, <2>7 DEF Contracted
<1>13. Conditions'
  <2>1. \A e \in knownConditions' \cap DOMAIN truth.edges : e \in profile.conditions
    BY <1>3, <1>5, <1>11 DEF Conditions
  <2>2. \A e \in DOMAIN edges' \cap DOMAIN truth.edges :
          ~truth.edges[e].structural /\ e \in profile.conditions => e \in knownConditions'
    BY <1>2, <1>3, <1>5, <1>10, <1>11 DEF Conditions
  <2>3. QED
    BY <1>2, <2>1, <2>2 DEF Conditions
<1>14. Drawn' /\ TypeOK'
  BY <1>2, <1>3 DEF Drawn, Inv, TypeOK
<1>15. QED
  BY <1>2, <1>12, <1>13, <1>14 DEF Inv, WholeViewAccepted

LEMMA MaskInv == Inv /\ Mask => Inv'
<1> SUFFICES ASSUME Inv, Mask PROVE Inv'
  OBVIOUS
<1>1. PICK maskedConditions \in Draws(forgetting.properties,
                                     {e \in knownConditions : ~edges[e].structural}),
           maskedSlots \in Draws(forgetting.properties, ConfiguredSlots) :
        /\ knownConditions' = knownConditions \ maskedConditions
        /\ knownSlots' = ConfiguredSlots \ maskedSlots
  BY DEF Mask
<1>2. /\ phase = "contracting" /\ Pending = {} /\ phase' = "projecting"
      /\ call' = call /\ attempt' = attempt /\ forgotten' = forgotten /\ working' = working
      /\ nodes' = nodes /\ edges' = edges
      /\ truth' = truth /\ profile' = profile /\ forgetting' = forgetting
  BY DEF Mask, truth, profile, forgetting
<1>3. Drawn /\ Contracted /\ Conditions
  BY <1>2 DEF Inv, Sampled
<1>4. forgetting.properties = "zero" => maskedConditions = {} /\ maskedSlots = {}
  BY DrawsAreSubsets
<1>5. Drawn' /\ TypeOK'
  BY <1>2, <1>3 DEF Drawn, Inv, TypeOK
<1>6. Contracted'
  BY <1>2, <1>3 DEF Contracted, Spared
<1>7. Conditions'
  BY <1>1, <1>2, <1>3, <1>4 DEF Conditions
<1>8. Masked'
  <2>1. Pending' = {} /\ ConfiguredSlots' = ConfiguredSlots
    BY <1>2 DEF Pending, ConfiguredSlots, Remaining
  <2>2. QED
    BY <1>1, <1>2, <1>4, <2>1 DEF Masked
<1>9. QED
  BY <1>2, <1>5, <1>6, <1>7, <1>8 DEF Inv, WholeViewAccepted

LEMMA ProjectInv == Inv /\ Project => Inv'
<1> SUFFICES ASSUME Inv, Project PROVE Inv'
  OBVIOUS
<1>1. /\ phase = "projecting" /\ phase' = "done" /\ knowledge' = Projected
      /\ call' = call /\ attempt' = attempt /\ forgotten' = forgotten /\ working' = working
      /\ nodes' = nodes /\ edges' = edges
      /\ knownConditions' = knownConditions /\ knownSlots' = knownSlots
      /\ truth' = truth /\ profile' = profile /\ forgetting' = forgetting
  BY DEF Project, sample, truth, profile, forgetting
<1>2. Drawn /\ Contracted /\ Conditions /\ Masked
  BY <1>1 DEF Inv, Sampled
<1>3. Drawn' /\ TypeOK' /\ Contracted' /\ Conditions'
  BY <1>1, <1>2 DEF Drawn, Inv, TypeOK, Contracted, Spared, Conditions
<1>4. Masked'
  BY <1>1, <1>2 DEF Masked, Pending, ConfiguredSlots, Remaining
<1>5. Projected' = Projected
  BY <1>1 DEF Projected, LocalCondition, LocalSlots, Remaining
<1>6. QED
  BY <1>1, <1>3, <1>4, <1>5 DEF Inv, WholeViewAccepted

(* A sample is rejected for a node that cannot be contracted, or because    *)
(* nothing remains, only if something is forgotten.                         *)
LEMMA RejectedForForgetting ==
  ASSUME Inv, RejectNode \/ RejectEmpty
  PROVE  Inv'
<1>1. /\ phase = "contracting" /\ phase' = "drawing"
      /\ call' = call /\ attempt' = attempt /\ forgotten' = forgotten /\ working' = working
      /\ truth' = truth
  BY DEF RejectNode, RejectEmpty, Reject, sample, truth
<1>2. Contracted /\ Canonical(truth)
  BY <1>1 DEF Inv, Sampled, TypeOK
<1>3. forgotten # {}
  <2>1. CASE RejectNode
    BY <2>1 DEF RejectNode, Pending
  <2>2. CASE RejectEmpty
    BY <1>2, <2>2, CanonicalEdges DEF RejectEmpty, Remaining, Contracted, BusinessNodes
  <2>3. QED
    BY <2>1, <2>2
<1>4. TypeOK'
  BY <1>1, <1>2 DEF Inv, TypeOK
<1>5. QED
  BY <1>1, <1>3, <1>4 DEF Inv, Sampled, WholeViewAccepted

(* What is shown as a whole is canonical, so only a list with a concept     *)
(* twice is left to object to.                                              *)
LEMMA WholeIsCanonical ==
  ASSUME Inv, Canonical(truth), nodes = truth.nodes, edges = truth.edges
  PROVE  Canonical(Projected)
<1>1. Projected.nodes = truth.nodes /\ DOMAIN Projected.edges = DOMAIN truth.edges
  BY DEF Projected
<1>2. ASSUME NEW e \in DOMAIN truth.edges
      PROVE  /\ Projected.edges[e].from = truth.edges[e].from
             /\ Projected.edges[e].to = truth.edges[e].to
             /\ Projected.edges[e].structural = truth.edges[e].structural
             /\ truth.edges[e].structural =>
                  Projected.edges[e].condition = truth.edges[e].condition
  <2>1. Projected.edges[e] = [truth.edges[e] EXCEPT !.condition = LocalCondition(e)]
    BY DEF Projected
  <2>2. truth.edges[e].structural =>
          LocalCondition(e) = NoCondition /\ truth.edges[e].condition = NoCondition
    BY CanonicalEdges DEF LocalCondition
  <2>3. DOMAIN truth.edges[e] = EdgeFields
    BY TrueEdges
  <2>4. QED
    BY <2>1, <2>2, <2>3 DEF EdgeFields
<1> HIDE DEF Projected
<1>3. QED
  BY <1>1, <1>2, CanonicalDepends

LEMMA RejectInvalidInv == Inv /\ RejectInvalid => Inv'
<1> SUFFICES ASSUME Inv, RejectInvalid PROVE Inv'
  OBVIOUS
<1>1. /\ phase = "projecting" /\ phase' = "drawing" /\ ~ValidKnowledge(Projected)
      /\ call' = call /\ attempt' = attempt /\ forgotten' = forgotten /\ working' = working
      /\ truth' = truth
  BY DEF RejectInvalid, Reject, sample, truth
<1>2. Contracted /\ Masked /\ Canonical(truth)
  BY <1>1 DEF Inv, Sampled, TypeOK
<1>3. ASSUME forgotten = {}, working = truth.edges
      PROVE  ~WithoutDuplicates(truth)
  <2>1. nodes = truth.nodes /\ edges = truth.edges
    BY <1>2, <1>3 DEF Contracted
  <2>2. ~WithoutDuplicates(Projected)
    BY <1>1, <1>2, <2>1, WholeIsCanonical DEF ValidKnowledge
  <2>3. PICK n \in BusinessNodes(Projected), p \in NodeProperties :
          Projected.slots[n][p] # DontKnow /\ ~IsInjective(Projected.slots[n][p])
    BY <2>2 DEF WithoutDuplicates
  <2>4. n \in BusinessNodes(truth) /\ n \in Remaining
    BY <2>1 DEF Projected, BusinessNodes, Remaining
  <2>5. Projected.slots[n][p] = LocalSlots(n)[p]
    BY <2>4 DEF Projected
  <2>6. LocalSlots(n)[p] = IF <<n, p>> \in knownSlots THEN truth.slots[n][p] ELSE DontKnow
    BY DEF LocalSlots
  <2>7. truth.slots[n][p] # DontKnow /\ ~IsInjective(truth.slots[n][p])
    BY <2>3, <2>5, <2>6
  <2>8. QED
    BY <2>4, <2>7 DEF WithoutDuplicates
<1>4. TypeOK'
  BY <1>1, <1>2 DEF Inv, TypeOK
<1>5. WholeViewAccepted'
  BY <1>1, <1>3 DEF WholeViewAccepted, WithoutDuplicates, BusinessNodes
<1>6. QED
  BY <1>1, <1>4, <1>5 DEF Inv, Sampled

LEMMA NextInv == Inv /\ [Next]_vars => Inv'
<1> SUFFICES ASSUME Inv, [Next]_vars PROVE Inv'
  OBVIOUS
<1>1. CASE GiveUp
  <2>1. phase' = "failed" /\ phase = "drawing" /\ call' = call /\ truth' = truth
    BY <1>1 DEF GiveUp, truth
  <2>2. QED
    BY <2>1 DEF Inv, TypeOK, Sampled, WholeViewAccepted
<1>2. CASE UNCHANGED vars
  <2>1. /\ phase' = phase /\ call' = call /\ attempt' = attempt /\ forgotten' = forgotten
        /\ working' = working /\ nodes' = nodes /\ edges' = edges
        /\ knownConditions' = knownConditions /\ knownSlots' = knownSlots /\ knowledge' = knowledge
        /\ truth' = truth /\ profile' = profile /\ forgetting' = forgetting
    BY <1>2 DEF vars, sample, truth, profile, forgetting
  <2>2. Projected' = Projected
    BY <2>1 DEF Projected, LocalCondition, LocalSlots, Remaining
  <2>3. Drawn' = Drawn /\ Contracted' = Contracted
    BY <2>1 DEF Drawn, Contracted, Spared
  <2>4. Conditions' = Conditions /\ Masked' = Masked
    BY <2>1 DEF Conditions, Masked, Pending, ConfiguredSlots, Remaining
  <2>5. TypeOK' /\ WholeViewAccepted'
    BY <2>1 DEF Inv, TypeOK, WholeViewAccepted, WithoutDuplicates, BusinessNodes
  <2>6. QED
    BY <2>1, <2>2, <2>3, <2>4, <2>5 DEF Inv, Sampled
<1>3. CASE Returned
  BY <1>2, <1>3 DEF Returned
<1>4. QED
  BY <1>1, <1>2, <1>3, StartInv, SampleInv, ContractInv, MaskInv, ProjectInv,
     RejectedForForgetting, RejectInvalidInv DEF Next

(* The invariant holds in every state of every projection. *)
THEOREM Invariance == Spec => []Inv
BY InitInv, NextInv, PTL DEF Spec

(* A stakeholder shown everything is refused only for a list of the true    *)
(* process that names a concept twice (_sample_projection).                 *)
THEOREM WholeViewIsAccepted == Spec => []WholeViewAccepted
<1>1. Inv => WholeViewAccepted
  BY DEF Inv
<1>2. QED
  BY <1>1, Invariance, PTL

-----------------------------------------------------------------------------
(* What the result knows. *)

(* The result, once returned, in terms of the sample. *)
LEMMA Result ==
  ASSUME Inv, phase = "done"
  PROVE  /\ Drawn /\ Contracted /\ Conditions /\ Masked
         /\ knowledge.nodes = nodes /\ DOMAIN knowledge.edges = DOMAIN edges
         /\ \A e \in DOMAIN edges : knowledge.edges[e] = [edges[e] EXCEPT !.condition = LocalCondition(e)]
         /\ \A n \in Remaining, p \in NodeProperties :
              knowledge.slots[n][p] = IF <<n, p>> \in knownSlots THEN truth.slots[n][p] ELSE DontKnow
         /\ nodes \cap forgotten = {}
<1>1. Drawn /\ Contracted /\ Conditions /\ Masked /\ knowledge = Projected
  BY DEF Inv, Sampled
<1>2. nodes \cap forgotten = {}
  BY <1>1 DEF Masked, Pending
<1>3. QED
  BY <1>1, <1>2 DEF Projected, LocalSlots

(* A business node remains unless it is forgotten. *)
LEMMA NodesKnown ==
  ASSUME Inv, phase = "done", NEW n \in BusinessNodes(truth)
  PROVE  /\ n \in knowledge.nodes <=> n \notin forgotten
         /\ n \in knowledge.nodes => n \in Remaining /\ n \in profile.nodes
<1>1. /\ Drawn /\ Contracted /\ knowledge.nodes = nodes /\ nodes \cap forgotten = {}
  BY Result
<1>2. QED
  BY <1>1 DEF Drawn, Contracted, Remaining, BusinessNodes

(* A true business edge remains just when neither end is forgotten, and is  *)
(* in the profile.                                                          *)
LEMMA EdgesKnown ==
  ASSUME Inv, phase = "done", NEW e \in BusinessEdges(truth)
  PROVE  /\ e \in DOMAIN knowledge.edges <=> Spared(e)
         /\ e \in DOMAIN knowledge.edges => e \in profile.edges
         /\ e \in DOMAIN knowledge.edges =>
              knowledge.edges[e].condition =
                IF e \in knownConditions THEN truth.edges[e].condition ELSE DontKnow
<1>1. /\ Drawn /\ Contracted /\ DOMAIN knowledge.edges = DOMAIN edges /\ nodes \cap forgotten = {}
      /\ \A d \in DOMAIN edges : knowledge.edges[d] = [edges[d] EXCEPT !.condition = LocalCondition(d)]
  BY Result
<1>2. e \in DOMAIN truth.edges /\ ~truth.edges[e].structural
  BY DEF BusinessEdges
<1>3. e \in DOMAIN edges => /\ e \in DOMAIN working /\ edges[e] = working[e] /\ edges[e] = truth.edges[e]
                           /\ edges[e].from \notin forgotten /\ edges[e].to \notin forgotten
  BY <1>1, <1>2 DEF Contracted, Drawn
<1>4. e \in DOMAIN edges <=> Spared(e)
  BY <1>1, <1>3 DEF Contracted, Spared
<1>5. e \in DOMAIN edges => e \in profile.edges
  BY <1>1, <1>2, <1>3 DEF Drawn
<1>6. e \in DOMAIN edges => LocalCondition(e) =
        IF e \in knownConditions THEN truth.edges[e].condition ELSE DontKnow
  BY <1>2, <1>3 DEF LocalCondition
<1>7. e \in DOMAIN edges => knowledge.edges[e].condition = LocalCondition(e)
  <2>1. DOMAIN truth.edges[e] = EdgeFields
    BY <1>2, TrueEdges
  <2>2. QED
    BY <1>1, <1>3, <2>1 DEF EdgeFields
<1>8. QED
  BY <1>1, <1>4, <1>5, <1>6, <1>7
(* What an address of each kind asks. *)
LEMMA NodeAddress ==
  \A t, g, n : /\ Knows(t, g, <<"node", n>>) <=> n \in g.nodes
               /\ MayKnow(<<"node", n>>) <=> n \in profile.nodes \ forgotten
BY DEF Knows, MayKnow

LEMMA SlotAddress ==
  \A t, g, n, p :
    /\ Knows(t, g, <<"slot", n, p>>) <=> n \in g.nodes /\ g.slots[n][p] # DontKnow
    /\ MayKnow(<<"slot", n, p>>) <=> n \notin forgotten /\ <<n, p>> \in profile.slots
BY DEF Knows, MayKnow

LEMMA ElementAddress ==
  \A t, g, n, p, k :
    /\ Knows(t, g, <<"element", n, p, k>>) <=>
         n \in g.nodes /\ KnownElement(t, g.slots[n][p], n, p, k)
    /\ MayKnow(<<"element", n, p, k>>) <=> n \notin forgotten /\ <<n, p>> \in profile.slots
BY DEF Knows, MayKnow

LEMMA EdgeAddress ==
  \A t, g, e : /\ Knows(t, g, <<"edge", e>>) <=> e \in DOMAIN g.edges
               /\ MayKnow(<<"edge", e>>) <=> e \in profile.edges /\ Spared(e)
BY DEF Knows, MayKnow

LEMMA ConditionAddress ==
  \A t, g, e :
    /\ Knows(t, g, <<"condition", e>>) <=> e \in DOMAIN g.edges /\ g.edges[e].condition # DontKnow
    /\ MayKnow(<<"condition", e>>) <=> e \in profile.edges /\ e \in profile.conditions /\ Spared(e)
BY DEF Knows, MayKnow

(* Of each address, that it is known only if it may be, and, when nothing   *)
(* was masked, just if it may be.                                           *)
Right(a) ==
  /\ Knows(truth, knowledge, a) => MayKnow(a)
  /\ forgetting.properties = "zero" => (MayKnow(a) => Knows(truth, knowledge, a))

LEMMA NodesRight ==
  ASSUME Inv, phase = "done", NEW n \in BusinessNodes(truth)
  PROVE  Right(<<"node", n>>)
<1>1. Knows(truth, knowledge, <<"node", n>>) <=> n \in knowledge.nodes
  BY NodeAddress, Zenon
<1>2. MayKnow(<<"node", n>>) <=> n \in profile.nodes \ forgotten
  BY NodeAddress, Zenon
<1>3. QED
  BY <1>1, <1>2, NodesKnown DEF Right

(* A slot that remains holds what is true if it is in the profile and was   *)
(* not masked.                                                              *)
LEMMA SlotsKnown ==
  ASSUME Inv, phase = "done", NEW n \in BusinessNodes(truth), n \in knowledge.nodes,
         NEW p \in NodeProperties
  PROVE  /\ knowledge.slots[n][p] # DontKnow => /\ <<n, p>> \in profile.slots
                                              /\ knowledge.slots[n][p] = truth.slots[n][p]
         /\ forgetting.properties = "zero" /\ <<n, p>> \in profile.slots =>
              knowledge.slots[n][p] = truth.slots[n][p]
<1>1. n \in Remaining
  BY NodesKnown
<1>2. knowledge.slots[n][p] = IF <<n, p>> \in knownSlots THEN truth.slots[n][p] ELSE DontKnow
  BY <1>1, Result
<1>3. /\ knownSlots \subseteq ConfiguredSlots
      /\ forgetting.properties = "zero" => knownSlots = ConfiguredSlots
  BY Result DEF Masked
<1>4. <<n, p>> \in ConfiguredSlots <=> <<n, p>> \in profile.slots
  BY <1>1 DEF ConfiguredSlots
<1>5. QED
  BY <1>2, <1>3, <1>4

LEMMA SlotsRight ==
  ASSUME Inv, phase = "done", NEW n \in BusinessNodes(truth), NEW p \in NodeProperties
  PROVE  /\ Right(<<"slot", n, p>>)
         /\ \A k \in Elements(truth, n, p) : Right(<<"element", n, p, k>>)
<1>1. n \in knowledge.nodes <=> n \notin forgotten
  BY NodesKnown
<1>2. truth.slots[n][p] # DontKnow
  BY InputsAssumption DEF Inv, TypeOK, truth
<1>3. Right(<<"slot", n, p>>)
  <2>1. Knows(truth, knowledge, <<"slot", n, p>>) <=>
          n \in knowledge.nodes /\ knowledge.slots[n][p] # DontKnow
    BY SlotAddress, Zenon
  <2>2. MayKnow(<<"slot", n, p>>) <=> n \notin forgotten /\ <<n, p>> \in profile.slots
    BY SlotAddress, Zenon
  <2>3. QED
    BY <1>1, <1>2, <2>1, <2>2, SlotsKnown DEF Right
<1>4. ASSUME NEW k \in Elements(truth, n, p)
      PROVE  Right(<<"element", n, p, k>>)
  <2>1. Knows(truth, knowledge, <<"element", n, p, k>>) <=>
          n \in knowledge.nodes /\ KnownElement(truth, knowledge.slots[n][p], n, p, k)
    BY ElementAddress, Zenon
  <2>2. MayKnow(<<"element", n, p, k>>) <=> n \notin forgotten /\ <<n, p>> \in profile.slots
    BY ElementAddress, Zenon
  <2>3. k \in DOMAIN truth.slots[n][p]
    BY DEF Elements
  <2>4. truth.slots[n][p][k] \in Range(truth.slots[n][p])
    BY <2>3 DEF Range
  <2>5. KnownElement(truth, truth.slots[n][p], n, p, k)
    BY <1>2, <2>4 DEF KnownElement
  <2>6. KnownElement(truth, knowledge.slots[n][p], n, p, k) => knowledge.slots[n][p] # DontKnow
    BY DEF KnownElement
  <2>7. QED
    BY <1>1, <2>1, <2>2, <2>5, <2>6, SlotsKnown DEF Right
<1>5. QED
  BY <1>3, <1>4

LEMMA EdgesRight ==
  ASSUME Inv, phase = "done", NEW e \in BusinessEdges(truth)
  PROVE  Right(<<"edge", e>>) /\ Right(<<"condition", e>>)
<1>1. /\ Knows(truth, knowledge, <<"edge", e>>) <=> e \in DOMAIN knowledge.edges
      /\ MayKnow(<<"edge", e>>) <=> e \in profile.edges /\ Spared(e)
  BY EdgeAddress, Zenon
<1>2. /\ Knows(truth, knowledge, <<"condition", e>>) <=>
           e \in DOMAIN knowledge.edges /\ knowledge.edges[e].condition # DontKnow
      /\ MayKnow(<<"condition", e>>) <=>
           e \in profile.edges /\ e \in profile.conditions /\ Spared(e)
  BY ConditionAddress, Zenon
<1>3. /\ e \in DOMAIN knowledge.edges <=> Spared(e)
      /\ e \in DOMAIN knowledge.edges => e \in profile.edges
      /\ e \in DOMAIN knowledge.edges =>
           knowledge.edges[e].condition =
             IF e \in knownConditions THEN truth.edges[e].condition ELSE DontKnow
  BY EdgesKnown
<1>4. e \in DOMAIN truth.edges /\ ~truth.edges[e].structural
  BY DEF BusinessEdges
<1>5. truth.edges[e].condition # DontKnow
  BY <1>4, TrueEdges
<1>6. /\ e \in knownConditions => e \in profile.conditions
      /\ forgetting.properties = "zero" /\ e \in DOMAIN knowledge.edges /\ e \in profile.conditions =>
           e \in knownConditions
  BY <1>4, Result DEF Conditions
<1>7. QED
  BY <1>1, <1>2, <1>3, <1>5, <1>6 DEF Right

LEMMA AddressesRight ==
  ASSUME Inv, phase = "done", NEW a \in Addresses(truth)
  PROVE  Right(a)
<1>1. CASE \E n \in BusinessNodes(truth) : a = <<"node", n>>
  BY <1>1, NodesRight
<1>2. CASE \E n \in BusinessNodes(truth), p \in NodeProperties : a = <<"slot", n, p>>
  BY <1>2, SlotsRight
<1>3. CASE \E n \in BusinessNodes(truth), p \in NodeProperties :
             \E k \in Elements(truth, n, p) : a = <<"element", n, p, k>>
  BY <1>3, SlotsRight
<1>4. CASE \E e \in BusinessEdges(truth) : a = <<"edge", e>> \/ a = <<"condition", e>>
  BY <1>4, EdgesRight
<1>5. QED
  BY <1>1, <1>2, <1>3, <1>4 DEF Addresses

(* A returned result knows nothing outside the profile, nothing of what was *)
(* forgotten and nothing but the truth; unless properties are forgotten it  *)
(* knows all the rest, and its coverage counts just that.                   *)
THEOREM KnowsJustTheRest == Spec => []KnowsTheRest
<1>1. ASSUME Inv, phase = "done"
      PROVE  /\ \A a \in Known(truth, knowledge) : MayKnow(a)
             /\ forgetting.properties = "zero" =>
                  Coverage(truth, knowledge)
                    = <<Cardinality({a \in Addresses(truth) : MayKnow(a)}), Cardinality(Addresses(truth))>>
             /\ \A e \in DOMAIN knowledge.edges \cap DOMAIN truth.edges :
                  knowledge.edges[e].condition \in {truth.edges[e].condition, DontKnow}
  <2>1. \A a \in Known(truth, knowledge) : MayKnow(a)
    BY <1>1, AddressesRight DEF Known, Right
  <2>2. ASSUME forgetting.properties = "zero"
        PROVE  Known(truth, knowledge) = {a \in Addresses(truth) : MayKnow(a)}
    BY <1>1, <2>2, AddressesRight DEF Known, Right
  <2>3. ASSUME NEW e \in DOMAIN knowledge.edges \cap DOMAIN truth.edges
        PROVE  knowledge.edges[e].condition \in {truth.edges[e].condition, DontKnow}
    <3>1. CASE e \in BusinessEdges(truth)
      BY <1>1, <3>1, EdgesKnown
    <3>2. CASE e \notin BusinessEdges(truth)
      <4>1. truth.edges[e].structural
        BY <3>2 DEF BusinessEdges
      <4>2. Canonical(truth)
        BY <1>1 DEF Inv, TypeOK
      <4>3. truth.edges[e].condition = NoCondition
        BY <4>1, <4>2, CanonicalEdges
      <4>4. /\ e \in DOMAIN edges /\ edges[e] = truth.edges[e]
            /\ knowledge.edges[e] = [edges[e] EXCEPT !.condition = LocalCondition(e)]
        BY <1>1, Result DEF Contracted, Drawn
      <4>5. LocalCondition(e) = NoCondition /\ DOMAIN truth.edges[e] = EdgeFields
        BY <1>1, <4>1, <4>4, TrueEdges DEF LocalCondition
      <4>6. QED
        BY <4>3, <4>4, <4>5 DEF EdgeFields
    <3>3. QED
      BY <3>1, <3>2
  <2>4. QED
    BY <2>1, <2>2, <2>3 DEF Coverage
<1>2. Inv => KnowsTheRest
  BY <1>1 DEF KnowsTheRest
<1>3. QED
  BY <1>2, Invariance, PTL
-----------------------------------------------------------------------------
(* Contraction leaves exactly the walks between remembered nodes.           *)

(* What has been contracted.                                                *)
Gone == forgotten \ nodes

(* An edge stands for s, a path of drawn edges through nodes of S.          *)
StandsFor(drawn, S, edge, s) ==
  /\ s \in Seq(DOMAIN drawn) /\ Len(s) > 0
  /\ \A k \in 1 .. Len(s) - 1 : drawn[s[k]].to \in S /\ drawn[s[k + 1]].from = drawn[s[k]].to
  /\ edge.from = drawn[s[1]].from /\ edge.to = drawn[s[Len(s)]].to
  /\ edge.contracted = [k \in 1 .. Len(s) - 1 |-> drawn[s[k]].to]

(* Each element of D is in one place of one of the sequences.               *)
Covers(D, o) == \A w \in D : \E e \in DOMAIN o : \E k \in 1 .. Len(o[e]) : o[e][k] = w
Apart(o) ==
  \A e, f \in DOMAIN o : \A k \in 1 .. Len(o[e]), l \in 1 .. Len(o[f]) :
    o[e][k] = o[f][l] => e = f /\ k = l

(* No two numbers number the same.                                          *)
Distinct(s) == \A k, l \in 1 .. Len(s) : s[k] = s[l] => k = l

(* What holds of one number and of the next to each holds of all.           *)
LEMMA Upwards ==
  ASSUME NEW S, 0 \in S, \A n \in Nat : n \in S => n + 1 \in S
  PROVE  \A n \in Nat : n \in S
<1>1. SUFFICES ASSUME Nat \ S # {} PROVE FALSE
  OBVIOUS
<1>2. PICK n \in Nat \ S : \A m \in Nat \ S : ~ (<<m, n>> \in OpToRel(<, Nat))
  BY <1>1, NatLessThanWellFounded, WFMin
<1>3. \A m \in Nat \ S : ~ (m < n)
  BY <1>2 DEF OpToRel
<1>4. n \in Nat /\ n # 0
  OBVIOUS
<1>5. n - 1 \in Nat /\ n - 1 < n /\ (n - 1) + 1 = n
  BY <1>4
<1>6. n - 1 \in S
  BY <1>3, <1>5
<1>7. QED
  BY <1>5, <1>6

LEMMA Around ==
  ASSUME NEW T, NEW a \in Seq(T), NEW b \in Seq(T), NEW n \in T
  PROVE  /\ a \o <<n>> \o b \in Seq(T) /\ Len(a \o <<n>> \o b) = Len(a) + 1 + Len(b)
         /\ \A k \in 1 .. Len(a) + 1 + Len(b) :
              (a \o <<n>> \o b)[k] = IF k <= Len(a) THEN a[k]
                                     ELSE IF k = Len(a) + 1 THEN n ELSE b[k - (Len(a) + 1)]
<1> DEFINE m == <<n>>
<1>1. m \in Seq(T) /\ Len(m) = 1 /\ m[1] = n /\ Len(a) \in Nat /\ Len(b) \in Nat
  OBVIOUS
<1> HIDE DEF m
<1>2. /\ a \o m \in Seq(T) /\ Len(a \o m) = Len(a) + Len(m)
      /\ \A k \in 1 .. Len(a) + Len(m) : (a \o m)[k] = IF k <= Len(a) THEN a[k] ELSE m[k - Len(a)]
  BY <1>1, ConcatProperties
<1> DEFINE am == a \o m
<1> HIDE DEF am
<1>3. am \in Seq(T) /\ Len(am) = Len(a) + 1
      /\ \A k \in 1 .. Len(a) + 1 : am[k] = IF k <= Len(a) THEN a[k] ELSE n
  BY <1>1, <1>2 DEF am
<1>4. /\ am \o b \in Seq(T) /\ Len(am \o b) = Len(am) + Len(b)
      /\ \A k \in 1 .. Len(am) + Len(b) : (am \o b)[k] = IF k <= Len(am) THEN am[k] ELSE b[k - Len(am)]
  BY <1>3, ConcatProperties
<1>5. QED
  BY <1>1, <1>3, <1>4 DEF am, m

(* A path and one that goes on where it ends.                               *)
LEMMA Joined ==
  ASSUME NEW drawn, NEW S, NEW l, NEW r, NEW s, NEW t, NEW n, NEW edge,
         StandsFor(drawn, S, l, s), StandsFor(drawn, S, r, t), l.to = n, r.from = n,
         edge.from = l.from, edge.to = r.to,
         edge.contracted = l.contracted \o <<n>> \o r.contracted
  PROVE  StandsFor(drawn, S \cup {n}, edge, s \o t)
<1> DEFINE D == DOMAIN drawn
<1>1. s \in Seq(D) /\ Len(s) \in Nat /\ Len(s) > 0 /\ t \in Seq(D) /\ Len(t) \in Nat /\ Len(t) > 0
  BY LenProperties DEF StandsFor
<1>2. /\ s \o t \in Seq(D) /\ Len(s \o t) = Len(s) + Len(t)
      /\ \A k \in 1 .. Len(s) + Len(t) : (s \o t)[k] = IF k <= Len(s) THEN s[k] ELSE t[k - Len(s)]
  BY <1>1, ConcatProperties
<1> DEFINE st == s \o t
<1>3. /\ \A k \in 1 .. Len(s) : st[k] = s[k]
      /\ \A k \in 1 .. Len(t) : st[Len(s) + k] = t[k]
      /\ \A k \in Len(s) + 1 .. Len(s) + Len(t) : st[k] = t[k - Len(s)]
  BY <1>1, <1>2
<1> HIDE DEF st
<1>4. drawn[s[Len(s)]].to = n /\ drawn[t[1]].from = n
  BY DEF StandsFor
<1>5. ASSUME NEW k \in 1 .. Len(st) - 1
      PROVE  drawn[st[k]].to \in S \cup {n} /\ drawn[st[k + 1]].from = drawn[st[k]].to
  <2>1. CASE k < Len(s)
    <3>1. k \in 1 .. Len(s) - 1 /\ k + 1 \in 1 .. Len(s)
      BY <1>1, <2>1
    <3>2. st[k] = s[k] /\ st[k + 1] = s[k + 1]
      BY <1>3, <3>1
    <3>3. QED
      BY <3>1, <3>2 DEF StandsFor
  <2>2. CASE k = Len(s)
    <3>1. st[k] = s[k] /\ st[k + 1] = t[1]
      BY <1>1, <1>3, <2>2
    <3>2. QED
      BY <1>4, <2>2, <3>1
  <2>3. CASE k > Len(s)
    <3>1. /\ st[k] = t[k - Len(s)] /\ st[k + 1] = t[(k - Len(s)) + 1]
          /\ k - Len(s) \in 1 .. Len(t) - 1
      BY <1>1, <1>2, <1>3, <2>3 DEF st
    <3>2. QED
      BY <3>1 DEF StandsFor
  <2>4. QED
    BY <1>1, <2>1, <2>2, <2>3
<1>6. edge.from = drawn[st[1]].from /\ edge.to = drawn[st[Len(st)]].to
  <2>1. st[1] = s[1] /\ st[Len(st)] = t[Len(t)]
    BY <1>1, <1>2, <1>3 DEF st
  <2>2. QED
    BY <2>1 DEF StandsFor
<1>7. edge.contracted = [k \in 1 .. Len(st) - 1 |-> drawn[st[k]].to]
  <2> DEFINE a == l.contracted  b == r.contracted  T == S \cup {n}
  <2>1. /\ a = [k \in 1 .. Len(s) - 1 |-> drawn[s[k]].to] /\ b = [k \in 1 .. Len(t) - 1 |-> drawn[t[k]].to]
        /\ \A k \in 1 .. Len(s) - 1 : drawn[s[k]].to \in T
        /\ \A k \in 1 .. Len(t) - 1 : drawn[t[k]].to \in T
    BY DEF StandsFor
  <2>2. /\ a \in Seq(T) /\ Len(a) = Len(s) - 1 /\ \A k \in 1 .. Len(s) - 1 : a[k] = drawn[s[k]].to
        /\ b \in Seq(T) /\ Len(b) = Len(t) - 1 /\ \A k \in 1 .. Len(t) - 1 : b[k] = drawn[t[k]].to
    BY <1>1, <2>1
  <2>3. n \in T
    OBVIOUS
  <2> HIDE DEF a, b, T
  <2> DEFINE ab == a \o <<n>> \o b
  <2>4. /\ ab \in Seq(T) /\ Len(ab) = Len(a) + 1 + Len(b)
        /\ \A k \in 1 .. Len(a) + 1 + Len(b) :
              ab[k] = IF k <= Len(a) THEN a[k]
                      ELSE IF k = Len(a) + 1 THEN n ELSE b[k - (Len(a) + 1)]
    <3>1. a \in Seq(T) /\ b \in Seq(T) /\ n \in T
      BY <2>2, <2>3
    <3>2. QED
      BY ONLY <3>1, Around
  <2> HIDE DEF ab
  <2>5. Len(st) \in Nat /\ Len(ab) = Len(st) - 1 /\ Len(a) + 1 = Len(s)
    BY <1>1, <1>2, <2>2, <2>4 DEF st
  <2>6. ASSUME NEW k \in 1 .. Len(st) - 1
        PROVE  ab[k] = drawn[st[k]].to
    <3>1. CASE k < Len(s)
      <4>1. k \in 1 .. Len(s) - 1 /\ st[k] = s[k] /\ ab[k] = a[k]
        BY <1>1, <1>3, <2>4, <2>5, <3>1
      <4>2. QED
        BY <2>2, <4>1
    <3>2. CASE k = Len(s)
      BY <1>1, <1>3, <1>4, <2>4, <2>5, <3>2
    <3>3. CASE k > Len(s)
      <4>1. k - Len(s) \in 1 .. Len(t) - 1 /\ st[k] = t[k - Len(s)]
        BY <1>1, <1>2, <1>3, <3>3 DEF st
      <4>2. ab[k] = b[k - Len(s)]
        <5>1. k \in 1 .. Len(a) + 1 + Len(b) /\ ~ (k <= Len(a)) /\ k # Len(a) + 1
          BY <1>1, <2>2, <2>4, <2>5, <3>3
        <5>2. QED
          BY <2>4, <2>5, <5>1
      <4>3. QED
        BY <2>2, <4>1, <4>2
    <3>4. QED
      BY <1>1, <2>5, <3>1, <3>2, <3>3
  <2>7. DOMAIN ab = 1 .. Len(st) - 1 /\ ab \in [1 .. Len(st) - 1 -> T]
    BY <2>4, <2>5, LenProperties
  <2>8. ab = [k \in 1 .. Len(st) - 1 |-> drawn[st[k]].to]
    BY <2>6, <2>7
  <2>9. QED
    BY <2>8 DEF ab, a, b
<1>8. st \in Seq(D) /\ Len(st) > 0
  BY <1>1, <1>2 DEF st
<1>9. StandsFor(drawn, S \cup {n}, edge, st)
  BY <1>5, <1>6, <1>7, <1>8 DEF StandsFor
<1>10. QED
  BY <1>9 DEF st

(* Joining two of the sequences leaves each element in one place.           *)
LEMMA JoinedApart ==
  ASSUME NEW D, NEW o, NEW p, NEW left \in DOMAIN o, NEW right \in DOMAIN o, left # right,
         NEW id, id \notin DOMAIN o,
         \A e \in DOMAIN o : o[e] \in Seq(D),
         Covers(D, o), Apart(o),
         DOMAIN p = (DOMAIN o \ {left, right}) \cup {id},
         p[id] = o[left] \o o[right],
         \A e \in DOMAIN p \ {id} : p[e] = o[e]
  PROVE  Covers(D, p) /\ Apart(p)
<1> DEFINE a == Len(o[left])  b == Len(o[right])
<1>1. /\ a \in Nat /\ b \in Nat /\ Len(p[id]) = a + b
      /\ \A k \in 1 .. a + b : p[id][k] = IF k <= a THEN o[left][k] ELSE o[right][k - a]
  BY ConcatProperties, LenProperties
<1> DEFINE whence(e, k) == IF e # id THEN e ELSE IF k <= a THEN left ELSE right
           place(e, k)  == IF e = id /\ k > a THEN k - a ELSE k
<1>2. ASSUME NEW e \in DOMAIN p, NEW k \in 1 .. Len(p[e])
      PROVE  /\ whence(e, k) \in DOMAIN o /\ place(e, k) \in 1 .. Len(o[whence(e, k)])
             /\ p[e][k] = o[whence(e, k)][place(e, k)]
  <2>1. CASE e = id
    BY <1>1, <1>2, <2>1
  <2>2. CASE e # id
    BY <1>2, <2>2
  <2>3. QED
    BY <2>1, <2>2
<1>3. ASSUME NEW e \in DOMAIN p, NEW k \in 1 .. Len(p[e]),
             NEW f \in DOMAIN p, NEW l \in 1 .. Len(p[f]),
             whence(e, k) = whence(f, l), place(e, k) = place(f, l)
      PROVE  e = f /\ k = l
  BY <1>1, <1>3
<1>4. Apart(p)
  <2> SUFFICES ASSUME NEW e \in DOMAIN p, NEW f \in DOMAIN p,
                      NEW k \in 1 .. Len(p[e]), NEW l \in 1 .. Len(p[f]), p[e][k] = p[f][l]
               PROVE  e = f /\ k = l
    BY DEF Apart
  <2> HIDE DEF whence, place
  <2>1. o[whence(e, k)][place(e, k)] = o[whence(f, l)][place(f, l)]
    BY <1>2
  <2>2. whence(e, k) = whence(f, l) /\ place(e, k) = place(f, l)
    BY <1>2, <2>1 DEF Apart
  <2>3. QED
    BY <1>3, <2>2
<1>5. Covers(D, p)
  <2> SUFFICES ASSUME NEW w \in D PROVE \E e \in DOMAIN p : \E k \in 1 .. Len(p[e]) : p[e][k] = w
    BY DEF Covers
  <2>1. PICK e \in DOMAIN o : \E k \in 1 .. Len(o[e]) : o[e][k] = w
    BY DEF Covers
  <2>2. PICK k \in 1 .. Len(o[e]) : o[e][k] = w
    BY <2>1
  <2>3. CASE e = left
    BY <1>1, <2>2, <2>3
  <2>4. CASE e = right
    <3>1. a + k \in 1 .. a + b /\ p[id][a + k] = w
      BY <1>1, <2>2, <2>4
    <3>2. QED
      BY <1>1, <3>1
  <2>5. CASE e # left /\ e # right
    BY <2>2, <2>5
  <2>6. QED
    BY <2>3, <2>4, <2>5
<1>6. QED
  BY <1>4, <1>5

-----------------------------------------------------------------------------
(* Walks *)

Further(s) ==
  LET met == working[s[Len(s)]].to
  IN IF met \in forgotten THEN Append(s, OnlyEdge(Outgoing(working, met))) ELSE s

(* The steps of a walk exist for any number of them.                        *)
LEMMA StepsExist ==
  ASSUME NEW e
  PROVE  \A n \in Nat : \E f : f = [k \in 0 .. n |-> IF k = 0 THEN <<e>> ELSE Further(f[k - 1])]
<1> DEFINE Steps(n, f) == f = [k \in 0 .. n |-> IF k = 0 THEN <<e>> ELSE Further(f[k - 1])]
           S == {n \in Nat : \E f : Steps(n, f)}
<1>1. 0 \in S
  <2>1. Steps(0, [k \in 0 .. 0 |-> <<e>>])
    OBVIOUS
  <2>2. QED
    BY <2>1
<1>2. ASSUME NEW n \in Nat, n \in S
      PROVE  n + 1 \in S
  <2>1. PICK f : Steps(n, f)
    BY <1>2
  <2> DEFINE g == [k \in 0 .. n + 1 |-> IF k <= n THEN f[k] ELSE Further(f[n])]
  <2>2. g = [k \in 0 .. n + 1 |-> IF k = 0 THEN <<e>> ELSE Further(g[k - 1])]
    <3>1. ASSUME NEW k \in 0 .. n + 1
          PROVE  g[k] = IF k = 0 THEN <<e>> ELSE Further(g[k - 1])
      <4>1. CASE k = 0
        BY <2>1, <4>1
      <4>2. CASE k # 0 /\ k <= n
        <5>1. k \in 0 .. n /\ k - 1 \in 0 .. n /\ k - 1 \in 0 .. n + 1 /\ k - 1 <= n
          BY <4>2
        <5>2. g[k] = f[k] /\ g[k - 1] = f[k - 1]
          BY <4>2, <5>1
        <5>3. f[k] = Further(f[k - 1])
          BY <2>1, <4>2, <5>1
        <5>4. QED
          BY <4>2, <5>2, <5>3
      <4>3. CASE k = n + 1
        <5>1. k # 0 /\ ~(k <= n) /\ k - 1 = n /\ n \in 0 .. n + 1 /\ n <= n
          BY <4>3
        <5>2. g[k] = Further(f[n]) /\ g[k - 1] = f[n]
          BY <5>1
        <5>3. QED
          BY <5>1, <5>2
      <4>4. QED
        BY <4>1, <4>2, <4>3
    <3> HIDE DEF g
    <3>2. g = [k \in 0 .. n + 1 |-> g[k]]
      BY DEF g
    <3>3. QED
      BY <3>1, <3>2
  <2> HIDE DEF g
  <2>3. Steps(n + 1, g)
    BY <2>2
  <2>4. QED
    BY <2>3
<1>3. \A n \in Nat : n \in S
  <2> HIDE DEF S
  <2>1. QED
    BY <1>1, <1>2, Upwards
<1>4. QED
  BY <1>3

LEMMA WalkSteps ==
  ASSUME NEW e, Cardinality(forgotten) \in Nat
  PROVE  \E f : /\ f[0] = <<e>>
                /\ \A k \in 1 .. Cardinality(forgotten) : f[k] = Further(f[k - 1])
                /\ Walk(e) = f[Cardinality(forgotten)]
<1> DEFINE N == Cardinality(forgotten)
           f == CHOOSE f : f = [k \in 0 .. N |-> IF k = 0 THEN <<e>> ELSE Further(f[k - 1])]
<1>1. Walk(e) = f[N]
  BY DEF Walk, Further
<1>2. \E g : g = [k \in 0 .. N |-> IF k = 0 THEN <<e>> ELSE Further(g[k - 1])]
  BY StepsExist
<1>3. f = [k \in 0 .. N |-> IF k = 0 THEN <<e>> ELSE Further(f[k - 1])]
  BY <1>2
<1> HIDE DEF f
<1>4. f[0] = <<e>> /\ \A k \in 1 .. N : f[k] = Further(f[k - 1])
  BY <1>3
<1>5. QED
  BY <1>1, <1>4

(* Drawn edges that follow each other through forgotten nodes.              *)
Route(s) ==
  /\ s \in Seq(DOMAIN working) /\ Len(s) > 0
  /\ \A k \in 1 .. Len(s) - 1 :
       working[s[k]].to \in forgotten /\ working[s[k + 1]].from = working[s[k]].to

OneOut == \A n \in forgotten : \E d : Outgoing(working, n) = {d}
OneIn  == \A n \in forgotten : \E d : Incoming(working, n) = {d}

LEMMA OneLeads ==
  ASSUME OneOut, NEW n \in forgotten
  PROVE  /\ Outgoing(working, n) = {OnlyEdge(Outgoing(working, n))}
         /\ OnlyEdge(Outgoing(working, n)) \in DOMAIN working
         /\ working[OnlyEdge(Outgoing(working, n))].from = n
<1>1. PICK d : Outgoing(working, n) = {d}
  BY DEF OneOut
<1>2. OnlyEdge({d}) = d
  BY DEF OnlyEdge
<1>3. d \in DOMAIN working /\ working[d].from = n
  BY <1>1 DEF Outgoing
<1>4. QED
  BY <1>1, <1>2, <1>3

LEMMA WalkIsRoute ==
  ASSUME OneOut, Cardinality(forgotten) \in Nat, NEW e \in DOMAIN working
  PROVE  Route(Walk(e)) /\ Walk(e)[1] = e
<1> DEFINE N == Cardinality(forgotten)
<1>1. PICK f : /\ f[0] = <<e>> /\ \A k \in 1 .. N : f[k] = Further(f[k - 1])
               /\ Walk(e) = f[N]
  BY WalkSteps
<1> DEFINE S == {n \in Nat : n <= N => Route(f[n]) /\ f[n][1] = e}
<1>2. 0 \in S
  <2>1. <<e>> \in Seq(DOMAIN working) /\ Len(<<e>>) = 1 /\ <<e>>[1] = e
    OBVIOUS
  <2>2. Route(<<e>>)
    BY <2>1 DEF Route
  <2>3. QED
    BY <1>1, <2>1, <2>2
<1>3. ASSUME NEW n \in Nat, n \in S
      PROVE  n + 1 \in S
  <2> SUFFICES ASSUME n + 1 <= N PROVE Route(f[n + 1]) /\ f[n + 1][1] = e
    OBVIOUS
  <2> DEFINE s == f[n]  met == working[s[Len(s)]].to
  <2>1. Route(s) /\ s[1] = e
    BY <1>3
  <2>2. f[n + 1] = Further(s)
    <3>1. n + 1 \in 1 .. N /\ (n + 1) - 1 = n
      OBVIOUS
    <3>2. f[n + 1] = Further(f[(n + 1) - 1])
      BY <1>1, <3>1
    <3>3. QED
      BY <3>1, <3>2
  <2> HIDE DEF s
  <2>3. CASE met \notin forgotten
    BY <2>1, <2>2, <2>3 DEF Further
  <2>4. CASE met \in forgotten
    <3> DEFINE d == OnlyEdge(Outgoing(working, met))
    <3>1. d \in DOMAIN working /\ working[d].from = met
      BY <2>4, OneLeads
    <3>2. f[n + 1] = Append(s, d)
      BY <2>2, <2>4 DEF Further
    <3> HIDE DEF d
    <3>3. s \in Seq(DOMAIN working) /\ Len(s) \in Nat /\ Len(s) > 0
      BY <2>1, LenProperties DEF Route
    <3>4. /\ Append(s, d) \in Seq(DOMAIN working) /\ Len(Append(s, d)) = Len(s) + 1
          /\ \A k \in 1 .. Len(s) : Append(s, d)[k] = s[k]
          /\ Append(s, d)[Len(s) + 1] = d
      BY <3>1, <3>3
    <3> DEFINE t == Append(s, d)
    <3> HIDE DEF t
    <3>5. ASSUME NEW k \in 1 .. Len(t) - 1
          PROVE  working[t[k]].to \in forgotten /\ working[t[k + 1]].from = working[t[k]].to
      <4>1. CASE k < Len(s)
        <5>1. k \in 1 .. Len(s) - 1 /\ t[k] = s[k] /\ t[k + 1] = s[k + 1]
          BY <3>3, <3>4, <4>1 DEF t
        <5>2. QED
          BY <2>1, <5>1 DEF Route
      <4>2. CASE k = Len(s)
        BY <2>4, <3>1, <3>3, <3>4, <4>2 DEF t
      <4>3. QED
        BY <3>3, <3>4, <4>1, <4>2 DEF t
    <3>6. Route(t) /\ t[1] = e
      BY <2>1, <3>3, <3>4, <3>5 DEF t, Route
    <3>7. QED
      BY <3>2, <3>6 DEF t
  <2>5. QED
    BY <2>3, <2>4
<1>4. \A n \in Nat : n \in S
  <2> HIDE DEF S
  <2>1. QED
    BY <1>2, <1>3, Upwards
<1>5. QED
  BY <1>1, <1>4

(* A route that meets no node twice is short enough to be a walk.           *)
LEMMA ShortRoute ==
  ASSUME NEW s, Route(s), OneIn, IsFiniteSet(forgotten), Distinct(s)
  PROVE  Len(s) - 1 <= Cardinality(forgotten)
<1> DEFINE met == [k \in 1 .. Len(s) - 1 |-> working[s[k]].to]
<1>1. Len(s) \in Nat /\ \A k \in 1 .. Len(s) : s[k] \in DOMAIN working
  BY LenProperties, ElementOfSeq DEF Route
<1>2. ASSUME NEW k \in 1 .. Len(s) - 1, NEW l \in 1 .. Len(s) - 1, met[k] = met[l]
      PROVE  k = l
  <2>1. working[s[k]].to \in forgotten /\ working[s[l]].to = working[s[k]].to
    BY <1>2 DEF Route
  <2>2. PICK d : Incoming(working, working[s[k]].to) = {d}
    BY <2>1 DEF OneIn
  <2>3. s[k] = d /\ s[l] = d
    BY <1>1, <2>1, <2>2 DEF Incoming
  <2>4. QED
    BY <1>1, <2>3 DEF Distinct
<1>3. met \in Injection(1 .. Len(s) - 1, forgotten)
  BY <1>2 DEF Injection, IsInjective, Route
<1>4. Cardinality(1 .. Len(s) - 1) <= Cardinality(forgotten)
  BY <1>3, FS_Injection
<1>5. Cardinality(1 .. Len(s) - 1) = Len(s) - 1
  BY <1>1, FS_Interval DEF Route
<1>6. QED
  BY <1>4, <1>5

(* A route from one remembered node to another is a walk.                   *)
LEMMA RouteIsWalk ==
  ASSUME NEW s, Route(s), working[s[Len(s)]].to \notin forgotten,
         OneIn, OneOut, IsFiniteSet(forgotten), Distinct(s)
  PROVE  Walk(s[1]) = s
<1> DEFINE N == Cardinality(forgotten)
<1>1. N \in Nat
  BY FS_CardinalityType
<1>2. PICK f : /\ f[0] = <<s[1]>> /\ \A k \in 1 .. N : f[k] = Further(f[k - 1])
               /\ Walk(s[1]) = f[N]
  BY <1>1, WalkSteps
<1>3. /\ s \in Seq(DOMAIN working) /\ Len(s) \in Nat /\ Len(s) > 0 /\ Len(s) - 1 <= N
      /\ \A k \in 1 .. Len(s) : s[k] \in DOMAIN working
  BY ShortRoute, LenProperties, ElementOfSeq DEF Route
<1> DEFINE upTo(n) == [k \in 1 .. n |-> s[k]]
           far(n)  == IF n < Len(s) THEN n + 1 ELSE Len(s)
           S == {n \in Nat : n <= N => f[n] = upTo(far(n))}
<1>4. ASSUME NEW n \in 1 .. Len(s)
      PROVE  upTo(n) \in Seq(DOMAIN working) /\ Len(upTo(n)) = n /\ upTo(n)[Len(upTo(n))] = s[n]
  BY <1>3, <1>4
<1>5. 0 \in S
  <2>1. far(0) = 1
    BY <1>3
  <2>2. upTo(1) = <<s[1]>>
    OBVIOUS
  <2>3. QED
    BY <1>2, <2>1, <2>2
<1>6. ASSUME NEW n \in Nat, n \in S
      PROVE  n + 1 \in S
  <2> SUFFICES ASSUME n + 1 <= N PROVE f[n + 1] = upTo(far(n + 1))
    OBVIOUS
  <2>1. f[n + 1] = Further(f[n])
    <3>1. n + 1 \in 1 .. N /\ (n + 1) - 1 = n
      BY <1>1
    <3>2. f[n + 1] = Further(f[(n + 1) - 1])
      BY <1>2, <3>1
    <3>3. QED
      BY <3>1, <3>2
  <2>2. f[n] = upTo(far(n)) /\ far(n) \in 1 .. Len(s)
    BY <1>1, <1>3, <1>6
  <2>3. f[n][Len(f[n])] = s[far(n)]
    BY <1>4, <2>2
  <2>4. CASE n + 1 < Len(s)
    <3>1. far(n) = n + 1 /\ far(n + 1) = n + 2 /\ n + 1 \in 1 .. Len(s) - 1
      BY <1>3, <2>4
    <3> DEFINE met == working[s[n + 1]].to
    <3>2. met \in forgotten /\ working[s[n + 2]].from = met
      BY <3>1 DEF Route
    <3>3. OnlyEdge(Outgoing(working, met)) = s[n + 2]
      <4>1. s[n + 2] \in Outgoing(working, met)
        BY <1>3, <2>4, <3>2 DEF Outgoing
      <4>2. QED
        BY <3>2, <4>1, OneLeads
    <3>4. f[n + 1] = Append(upTo(n + 1), s[n + 2])
      BY <2>1, <2>2, <2>3, <3>1, <3>2, <3>3 DEF Further
    <3>5. Append(upTo(n + 1), s[n + 2]) = upTo(n + 2)
      <4>1. upTo(n + 1) \in Seq(DOMAIN working) /\ Len(upTo(n + 1)) = n + 1
        <5>1. n + 1 \in 1 .. Len(s)
          BY <2>4
        <5> HIDE DEF upTo
        <5>2. QED
          BY <1>4, <5>1
      <4> DEFINE a == Append(upTo(n + 1), s[n + 2])
      <4>2. s[n + 2] \in DOMAIN working
        BY <1>3, <2>4
      <4>3. /\ a \in Seq(DOMAIN working) /\ Len(a) = n + 2
            /\ \A k \in 1 .. n + 1 : a[k] = s[k]
            /\ a[n + 2] = s[n + 2]
        BY <4>1, <4>2
      <4>4. upTo(n + 2) \in Seq(DOMAIN working) /\ Len(upTo(n + 2)) = n + 2
        <5>1. n + 2 \in 1 .. Len(s)
          BY <1>3, <2>4
        <5> HIDE DEF upTo
        <5>2. QED
          BY <1>4, <5>1
      <4> HIDE DEF a
      <4>5. \A k \in 1 .. Len(a) : a[k] = upTo(n + 2)[k]
        BY <4>3
      <4>6. QED
        BY <4>3, <4>4, <4>5, SeqEqual DEF a
    <3>6. QED
      BY <3>1, <3>4, <3>5
  <2>5. CASE n + 1 >= Len(s)
    <3>1. far(n) = Len(s) /\ far(n + 1) = Len(s)
      BY <1>3, <2>5
    <3>2. Further(f[n]) = f[n]
      BY <2>3, <3>1 DEF Further
    <3>3. QED
      BY <2>1, <2>2, <3>1, <3>2
  <2>6. QED
    BY <1>3, <2>4, <2>5
<1>7. \A n \in Nat : n \in S
  <2> HIDE DEF S
  <2>1. QED
    BY <1>5, <1>6, Upwards
<1>8. f[N] = upTo(Len(s))
  <2>1. far(N) = Len(s)
    BY <1>1, <1>3
  <2>2. QED
    BY <1>1, <1>7, <2>1
<1>9. upTo(Len(s)) = s
  BY <1>3
<1>10. QED
  BY <1>2, <1>8, <1>9

-----------------------------------------------------------------------------
(* The invariant of contraction *)

AllOrigins == [e \in DOMAIN edges |-> Origins(e)]

Shortcuts == {e \in DOMAIN edges : edges[e].derived # <<>>}

(* Every edge stands for the drawn edges it has replaced, each drawn edge   *)
(* in one place; a shortcut replaces several, is unconditional, and joins   *)
(* two nodes nothing else joins; what is gone lay in series on one of them. *)
Traced ==
  /\ \A e \in DOMAIN edges : StandsFor(working, Gone, edges[e], Origins(e))
  /\ Covers(DOMAIN working, AllOrigins) /\ Apart(AllOrigins)
  /\ \A e \in Shortcuts :
       /\ Len(edges[e].derived) > 1
       /\ edges[e].condition = NoCondition
       /\ edges[e].from # edges[e].to
       /\ \A f \in DOMAIN edges \ {e} :
            ~ (edges[f].from = edges[e].from /\ edges[f].to = edges[e].to)
  /\ \A n \in Gone :
       /\ InSeries(n)
       /\ \E e \in DOMAIN edges : \E k \in 1 .. Len(Origins(e)) - 1 : working[Origins(e)[k]].to = n
  /\ Gone # {} => forgetting.shortcuts
  /\ \A e \in DOMAIN edges :
       \/ e \in DOMAIN truth.edges
       \/ \E k \in 1 .. Cardinality(truth.nodes \ nodes) : e = <<"shortcut", k>>

(* A node refuses to be contracted.                                         *)
Stuck ==
  /\ Drawn /\ Contracted /\ Traced
  /\ \E n \in Pending : ~ (forgetting.shortcuts /\ Contractible(n))

ContractionInv ==
  /\ Traced
  /\ phase = "called" => forgotten = {}
  /\ phase = "drawing" /\ Pending # {} => Stuck

LEMMA OriginsOf ==
  ASSUME Traced, NEW e \in DOMAIN edges
  PROVE  /\ Origins(e) \in Seq(DOMAIN working)
         /\ Len(Origins(e)) \in Nat /\ Len(Origins(e)) > 0
         /\ \A k \in 1 .. Len(Origins(e)) : Origins(e)[k] \in DOMAIN working
         /\ \A k \in 1 .. Len(Origins(e)) - 1 :
              /\ working[Origins(e)[k]].to \in Gone
              /\ working[Origins(e)[k + 1]].from = working[Origins(e)[k]].to
         /\ edges[e].from = working[Origins(e)[1]].from
         /\ edges[e].to = working[Origins(e)[Len(Origins(e))]].to
<1>1. StandsFor(working, Gone, edges[e], Origins(e))
  BY DEF Traced
<1>2. QED
  BY <1>1, LenProperties, ElementOfSeq DEF StandsFor

LEMMA OriginsApart ==
  ASSUME Traced, NEW e \in DOMAIN edges, NEW f \in DOMAIN edges,
         NEW k \in 1 .. Len(Origins(e)), NEW l \in 1 .. Len(Origins(f)), Origins(e)[k] = Origins(f)[l]
  PROVE  e = f /\ k = l
BY DEF Traced, Apart, AllOrigins

LEMMA OriginsCover ==
  ASSUME Traced, NEW w \in DOMAIN working
  PROVE  \E e \in DOMAIN edges : \E k \in 1 .. Len(Origins(e)) : Origins(e)[k] = w
BY DEF Traced, Covers, AllOrigins

First(e) == Origins(e)[1]
Last(e)  == Origins(e)[Len(Origins(e))]

(* The drawn edges at a node that is still there are the ends of what the   *)
(* edges at it stand for.                                                   *)
LEMMA Arriving ==
  ASSUME Traced, NEW n, n \notin Gone
  PROVE  \A w : w \in Incoming(working, n) <=> \E e \in Incoming(edges, n) : w = Last(e)
<1>1. ASSUME NEW e \in Incoming(edges, n)
      PROVE  Last(e) \in Incoming(working, n)
  <2>1. e \in DOMAIN edges /\ edges[e].to = n
    BY DEF Incoming
  <2>2. QED
    BY <2>1, OriginsOf DEF Incoming, Last
<1>2. ASSUME NEW w \in Incoming(working, n)
      PROVE  \E e \in Incoming(edges, n) : w = Last(e)
  <2>1. w \in DOMAIN working /\ working[w].to = n
    BY DEF Incoming
  <2>2. PICK e \in DOMAIN edges : \E k \in 1 .. Len(Origins(e)) : Origins(e)[k] = w
    BY <2>1, OriginsCover
  <2>3. PICK k \in 1 .. Len(Origins(e)) : Origins(e)[k] = w
    BY <2>2
  <2>4. k = Len(Origins(e))
    <3>1. k \notin 1 .. Len(Origins(e)) - 1
      BY <2>1, <2>3, OriginsOf
    <3>2. QED
      BY <3>1, OriginsOf
  <2>5. edges[e].to = n /\ w = Last(e)
    BY <2>1, <2>3, <2>4, OriginsOf DEF Last
  <2>6. QED
    BY <2>5 DEF Incoming
<1>3. QED
  BY <1>1, <1>2

LEMMA Leaving ==
  ASSUME Traced, NEW n, n \notin Gone
  PROVE  \A w : w \in Outgoing(working, n) <=> \E e \in Outgoing(edges, n) : w = First(e)
<1>1. ASSUME NEW e \in Outgoing(edges, n)
      PROVE  First(e) \in Outgoing(working, n)
  <2>1. e \in DOMAIN edges /\ edges[e].from = n
    BY DEF Outgoing
  <2>2. 1 \in 1 .. Len(Origins(e))
    BY <2>1, OriginsOf
  <2>3. QED
    BY <2>1, <2>2, OriginsOf DEF Outgoing, First
<1>2. ASSUME NEW w \in Outgoing(working, n)
      PROVE  \E e \in Outgoing(edges, n) : w = First(e)
  <2>1. w \in DOMAIN working /\ working[w].from = n
    BY DEF Outgoing
  <2>2. PICK e \in DOMAIN edges : \E k \in 1 .. Len(Origins(e)) : Origins(e)[k] = w
    BY <2>1, OriginsCover
  <2>3. PICK k \in 1 .. Len(Origins(e)) : Origins(e)[k] = w
    BY <2>2
  <2>4. k = 1
    <3>1. SUFFICES ASSUME k # 1 PROVE FALSE
      OBVIOUS
    <3>2. k - 1 \in 1 .. Len(Origins(e)) - 1 /\ (k - 1) + 1 = k
      BY <3>1, OriginsOf
    <3>3. working[Origins(e)[k - 1]].to \in Gone /\ working[w].from = working[Origins(e)[k - 1]].to
      BY <2>3, <3>2, OriginsOf
    <3>4. QED
      BY <2>1, <3>3
  <2>5. edges[e].from = n /\ w = First(e)
    BY <2>1, <2>3, <2>4, OriginsOf DEF First
  <2>6. QED
    BY <2>5 DEF Outgoing
<1>3. QED
  BY <1>1, <1>2

(* An edge is unconditional when its first or last drawn edge is, and then  *)
(* both are.                                                                *)
LEMMA SameConditions ==
  ASSUME Traced, Drawn, Contracted, NEW e \in DOMAIN edges
  PROVE  /\ edges[e].condition = NoCondition <=> working[First(e)].condition = NoCondition
         /\ edges[e].condition = NoCondition <=> working[Last(e)].condition = NoCondition
<1> DEFINE s == Origins(e)
<1>1. CASE e \notin Shortcuts
  <2>1. s = <<e>>
    BY <1>1 DEF Shortcuts, Origins
  <2>2. First(e) = e /\ Last(e) = e
    BY <2>1 DEF First, Last
  <2>3. e \in DOMAIN working
    BY <2>2, OriginsOf DEF First
  <2>4. edges[e] = working[e]
    BY <2>3 DEF Drawn, Contracted
  <2>5. QED
    BY <2>2, <2>4
<1>2. CASE e \in Shortcuts
  <2>1. edges[e].condition = NoCondition /\ Len(s) > 1
    BY <1>2 DEF Traced, Shortcuts, Origins
  <2> HIDE DEF s
  <2>2. s = Origins(e) /\ Len(s) \in Nat /\ \A k \in 1 .. Len(s) : s[k] \in DOMAIN working
    BY OriginsOf DEF s
  <2>3. /\ 1 \in 1 .. Len(s) - 1 /\ Len(s) - 1 \in 1 .. Len(s) - 1
        /\ (Len(s) - 1) + 1 = Len(s)
    BY <2>1, <2>2
  <2>4. InSeries(working[s[1]].to) /\ InSeries(working[s[Len(s) - 1]].to)
    BY <2>2, <2>3, OriginsOf DEF Traced
  <2>5. working[s[Len(s)]].from = working[s[Len(s) - 1]].to
    BY <2>2, <2>3, OriginsOf
  <2>6. /\ s[1] \in Incoming(working, working[s[1]].to)
        /\ s[Len(s)] \in Outgoing(working, working[s[Len(s) - 1]].to)
    BY <2>1, <2>2, <2>5 DEF Incoming, Outgoing
  <2>7. working[s[1]].condition = NoCondition /\ working[s[Len(s)]].condition = NoCondition
    BY <2>4, <2>6 DEF InSeries
  <2>8. QED
    BY <2>1, <2>2, <2>7 DEF First, Last
<1>3. QED
  BY <1>1, <1>2

(* A node still there is in series just if it has one edge in and one out   *)
(* without conditions, before or after contraction.                         *)
LEMMA SameSeries ==
  ASSUME Traced, Drawn, Contracted, IsFiniteSet(DOMAIN working), NEW n, n \notin Gone
  PROVE  InSeries(n) <=> Serial(n) /\ Unconditional(n)
<1>1. /\ \A w : w \in Incoming(working, n) <=> \E e \in Incoming(edges, n) : w = Last(e)
      /\ \A w : w \in Outgoing(working, n) <=> \E e \in Outgoing(edges, n) : w = First(e)
  BY Arriving, Leaving
<1>2. /\ IsFiniteSet(Incoming(working, n)) /\ IsFiniteSet(Outgoing(working, n))
      /\ IsFiniteSet(Incoming(edges, n)) /\ IsFiniteSet(Outgoing(edges, n))
  BY FS_Subset DEF Incoming, Outgoing, Contracted
<1>3. Incoming(edges, n) \subseteq DOMAIN edges /\ Outgoing(edges, n) \subseteq DOMAIN edges
  BY DEF Incoming, Outgoing
<1>4. \A e, f \in DOMAIN edges : (First(e) = First(f) => e = f) /\ (Last(e) = Last(f) => e = f)
  <2> SUFFICES ASSUME NEW e \in DOMAIN edges, NEW f \in DOMAIN edges
               PROVE  (First(e) = First(f) => e = f) /\ (Last(e) = Last(f) => e = f)
    OBVIOUS
  <2>1. /\ 1 \in 1 .. Len(Origins(e)) /\ 1 \in 1 .. Len(Origins(f))
        /\ Len(Origins(e)) \in 1 .. Len(Origins(e)) /\ Len(Origins(f)) \in 1 .. Len(Origins(f))
    BY OriginsOf
  <2>2. QED
    BY <2>1, OriginsApart DEF First, Last
<1>5. Cardinality(Incoming(working, n)) = 1 <=> Cardinality(Incoming(edges, n)) = 1
  <2>1. (\E w : Incoming(working, n) = {w}) <=> (\E e : Incoming(edges, n) = {e})
    <3>1. ASSUME NEW w, Incoming(working, n) = {w}
          PROVE  \E e : Incoming(edges, n) = {e}
      <4>1. PICK e \in Incoming(edges, n) : w = Last(e)
        BY <1>1, <3>1
      <4>2. \A f \in Incoming(edges, n) : Last(f) = w
        BY <1>1, <3>1
      <4>3. \A f \in Incoming(edges, n) : f = e
        BY <1>3, <1>4, <4>1, <4>2
      <4>4. QED
        BY <4>1, <4>3
    <3>2. ASSUME NEW e, Incoming(edges, n) = {e}
          PROVE  Incoming(working, n) = {Last(e)}
      BY <1>1, <3>2
    <3>3. QED
      BY <3>1, <3>2
  <2>2. QED
    BY <1>2, <2>1, FS_Singleton
<1>6. Cardinality(Outgoing(working, n)) = 1 <=> Cardinality(Outgoing(edges, n)) = 1
  <2>1. (\E w : Outgoing(working, n) = {w}) <=> (\E e : Outgoing(edges, n) = {e})
    <3>1. ASSUME NEW w, Outgoing(working, n) = {w}
          PROVE  \E e : Outgoing(edges, n) = {e}
      <4>1. PICK e \in Outgoing(edges, n) : w = First(e)
        BY <1>1, <3>1
      <4>2. \A f \in Outgoing(edges, n) : First(f) = w
        BY <1>1, <3>1
      <4>3. \A f \in Outgoing(edges, n) : f = e
        BY <1>3, <1>4, <4>1, <4>2
      <4>4. QED
        BY <4>1, <4>3
    <3>2. ASSUME NEW e, Outgoing(edges, n) = {e}
          PROVE  Outgoing(working, n) = {First(e)}
      BY <1>1, <3>2
    <3>3. QED
      BY <3>1, <3>2
  <2>2. QED
    BY <1>2, <2>1, FS_Singleton
<1>7. (\A w \in Incoming(working, n) \cup Outgoing(working, n) : working[w].condition = NoCondition)
        <=> Unconditional(n)
  <2>1. \A e \in DOMAIN edges :
          /\ edges[e].condition = NoCondition <=> working[First(e)].condition = NoCondition
          /\ edges[e].condition = NoCondition <=> working[Last(e)].condition = NoCondition
    BY SameConditions
  <2>2. QED
    BY <1>1, <1>3, <2>1 DEF Unconditional
<1>8. QED
  BY <1>5, <1>6, <1>7 DEF InSeries, Serial

LEMMA ContractTraced ==
  ASSUME Inv, Traced, Contract
  PROVE  Traced'
<1>1. PICK n \in Pending : \E left, right \in DOMAIN edges :
        /\ Contractible(n) /\ nodes' = nodes \ {n}
        /\ Incoming(edges, n) = {left} /\ Outgoing(edges, n) = {right}
        /\ edges' = [e \in (DOMAIN edges \ {left, right}) \cup {NextShortcut} |->
                       IF e = NextShortcut THEN Shortcut(left, n, right) ELSE edges[e]]
  BY Contracting
<1>2. PICK left \in DOMAIN edges, right \in DOMAIN edges :
        /\ Contractible(n) /\ nodes' = nodes \ {n}
        /\ Incoming(edges, n) = {left} /\ Outgoing(edges, n) = {right}
        /\ edges' = [e \in (DOMAIN edges \ {left, right}) \cup {NextShortcut} |->
                       IF e = NextShortcut THEN Shortcut(left, n, right) ELSE edges[e]]
  BY <1>1
<1>3. /\ phase = "contracting" /\ forgetting.shortcuts
      /\ call' = call /\ forgotten' = forgotten /\ working' = working
      /\ truth' = truth /\ forgetting' = forgetting
  BY Contracting DEF truth, forgetting
<1>4. Drawn /\ Contracted
  BY <1>3 DEF Inv, Sampled
<1>5. n \in forgotten /\ n \in nodes /\ n \in truth.nodes /\ n \notin Gone
  BY <1>4 DEF Pending, Contracted, Gone
<1>6. IsFiniteSet(truth.nodes) /\ IsFiniteSet(DOMAIN working)
  <2>1. IsFiniteSet(truth.nodes) /\ IsFiniteSet(DOMAIN truth.edges)
    BY InputsAssumption DEF Inv, TypeOK, truth
  <2>2. QED
    BY <1>4, <2>1, FS_Subset DEF Drawn
<1>0. PICK id : id = NextShortcut
  OBVIOUS
<1> DEFINE gone == truth.nodes \ nodes
           s == Origins(left)
           t == Origins(right)
<1>7. /\ edges[left].to = n /\ edges[right].from = n
      /\ edges[left].from # edges[right].to /\ left # right
      /\ edges[left].condition = NoCondition
      /\ \A e \in DOMAIN edges \ {left, right} :
           ~ (edges[e].from = edges[left].from /\ edges[e].to = edges[right].to)
  <2>1. left \in Incoming(edges, n) /\ right \in Outgoing(edges, n)
    BY <1>2
  <2>2. edges[left].to = n /\ edges[right].from = n
    BY <2>1 DEF Incoming, Outgoing
  <2>3. /\ edges[left].from # edges[right].to
        /\ ~Bypassed(edges[left].from, edges[right].to, {left, right})
        /\ edges[left].condition = NoCondition
    BY <1>2, <2>1 DEF Contractible, Unconditional
  <2>4. QED
    BY <2>2, <2>3 DEF Bypassed
<1>8. id \notin DOMAIN edges /\ Cardinality(truth.nodes \ nodes') = Cardinality(gone) + 1
      /\ id = <<"shortcut", Cardinality(gone) + 1>> /\ Cardinality(gone) \in Nat
  <2>1. IsFiniteSet(gone) /\ Cardinality(gone) \in Nat
    BY <1>6, FS_Subset, FS_CardinalityType
  <2>2. Cardinality(gone \cup {n}) = Cardinality(gone) + 1
    BY <1>5, <2>1, FS_AddElement
  <2>3. truth.nodes \ nodes' = gone \cup {n}
    BY <1>2, <1>5
  <2>4. id \notin DOMAIN truth.edges
    BY <1>0, <1>4, <1>5, ShortcutIsNew
  <2>5. \A k \in 1 .. Cardinality(gone) : id # <<"shortcut", k>>
    BY <1>0, <2>1 DEF NextShortcut
  <2>6. id \notin DOMAIN edges
    BY <2>4, <2>5 DEF Traced
  <2>7. QED
    BY <1>0, <2>1, <2>2, <2>3, <2>6 DEF NextShortcut
<1>9. /\ DOMAIN edges' = (DOMAIN edges \ {left, right}) \cup {id}
      /\ edges'[id] = Shortcut(left, n, right)
      /\ \A e \in DOMAIN edges' \ {id} : edges'[e] = edges[e] /\ e \in DOMAIN edges \ {left, right}
  BY <1>0, <1>2, Zenon
<1>10. /\ edges'[id].from = edges[left].from /\ edges'[id].to = edges[right].to
       /\ edges'[id].condition = NoCondition
       /\ edges'[id].contracted = edges[left].contracted \o <<n>> \o edges[right].contracted
       /\ edges'[id].derived = s \o t
  <2>1. /\ Shortcut(left, n, right).from = edges[left].from
        /\ Shortcut(left, n, right).to = edges[right].to
        /\ Shortcut(left, n, right).condition = NoCondition
        /\ Shortcut(left, n, right).contracted = edges[left].contracted \o <<n>> \o edges[right].contracted
        /\ Shortcut(left, n, right).derived = Origins(left) \o Origins(right)
    BY DEF Shortcut
  <2>2. QED
    BY <1>9, <2>1
<1>11. Gone' = Gone \cup {n}
  BY <1>2, <1>3, <1>5 DEF Gone
<1>12. /\ s \in Seq(DOMAIN working) /\ Len(s) \in Nat /\ Len(s) > 0
       /\ t \in Seq(DOMAIN working) /\ Len(t) \in Nat /\ Len(t) > 0
       /\ s \o t \in Seq(DOMAIN working) /\ Len(s \o t) = Len(s) + Len(t)
       /\ \A k \in 1 .. Len(s) + Len(t) : (s \o t)[k] = IF k <= Len(s) THEN s[k] ELSE t[k - Len(s)]
  BY OriginsOf, ConcatProperties
<1>13. Origins(id)' = s \o t
  <2>1. s \o t # <<>>
    BY <1>12
  <2>2. QED
    BY <1>10, <2>1 DEF Origins
<1>14. \A e \in DOMAIN edges' \ {id} : Origins(e)' = Origins(e)
  BY <1>9 DEF Origins
<1> HIDE DEF gone, s, t
<1>15. ASSUME NEW e \in DOMAIN edges'
       PROVE  StandsFor(working', Gone', edges'[e], Origins(e)')
  <2>1. CASE e = id
    <3>1. StandsFor(working, Gone, edges[left], s) /\ StandsFor(working, Gone, edges[right], t)
      BY DEF Traced, s, t
    <3>2. StandsFor(working, Gone \cup {n}, edges'[id], s \o t)
      BY <1>7, <1>10, <3>1, Joined
    <3>3. QED
      BY <1>3, <1>11, <1>13, <2>1, <3>2
  <2>2. CASE e # id
    <3>1. StandsFor(working, Gone, edges[e], Origins(e))
      BY <1>9, <2>2 DEF Traced
    <3>2. StandsFor(working, Gone \cup {n}, edges[e], Origins(e))
      BY <3>1 DEF StandsFor
    <3>3. QED
      BY <1>3, <1>9, <1>11, <1>14, <2>2, <3>2
  <2>3. QED
    BY <2>1, <2>2
<1>16. Covers(DOMAIN working', AllOrigins') /\ Apart(AllOrigins')
  <2> DEFINE o == AllOrigins
             p == AllOrigins'
  <2>1. DOMAIN o = DOMAIN edges /\ \A e \in DOMAIN edges : o[e] = Origins(e)
    BY DEF AllOrigins
  <2>2. DOMAIN p = DOMAIN edges' /\ \A e \in DOMAIN edges' : p[e] = Origins(e)'
    BY DEF AllOrigins
  <2>3. Covers(DOMAIN working, o) /\ Apart(o)
    BY DEF Traced
  <2>4. \A e \in DOMAIN o : o[e] \in Seq(DOMAIN working)
    BY <2>1, OriginsOf
  <2> HIDE DEF o, p
  <2>5. /\ DOMAIN p = (DOMAIN o \ {left, right}) \cup {id} /\ id \notin DOMAIN o
        /\ left \in DOMAIN o /\ right \in DOMAIN o /\ left # right
    BY <1>7, <1>8, <1>9, <2>1, <2>2
  <2>6. p[id] = o[left] \o o[right]
    BY <1>9, <1>13, <2>1, <2>2 DEF s, t
  <2>7. \A e \in DOMAIN p \ {id} : p[e] = o[e]
    BY <1>9, <1>14, <2>1, <2>2
  <2>8. Covers(DOMAIN working, p) /\ Apart(p)
    BY <2>3, <2>4, <2>5, <2>6, <2>7, JoinedApart
  <2>9. QED
    BY <1>3, <2>8 DEF p
<1>17. ASSUME NEW e \in Shortcuts'
       PROVE  /\ Len(edges'[e].derived) > 1
              /\ edges'[e].condition = NoCondition
              /\ edges'[e].from # edges'[e].to
              /\ \A f \in DOMAIN edges' \ {e} :
                   ~ (edges'[f].from = edges'[e].from /\ edges'[f].to = edges'[e].to)
  <2>1. e \in DOMAIN edges' /\ edges'[e].derived # <<>>
    BY DEF Shortcuts
  <2>2. CASE e = id
    <3>1. Len(edges'[e].derived) > 1
      BY <1>10, <1>12, <2>2
    <3>2. \A f \in DOMAIN edges' \ {e} :
            ~ (edges'[f].from = edges'[e].from /\ edges'[f].to = edges'[e].to)
      BY <1>7, <1>9, <1>10, <2>2
    <3>3. QED
      BY <1>7, <1>10, <2>2, <3>1, <3>2
  <2>3. CASE e # id
    <3>1. e \in Shortcuts /\ edges'[e] = edges[e] /\ e \in DOMAIN edges \ {left, right}
      BY <1>9, <2>1, <2>3 DEF Shortcuts
    <3>2. /\ Len(edges[e].derived) > 1 /\ edges[e].condition = NoCondition
          /\ edges[e].from # edges[e].to
          /\ \A f \in DOMAIN edges \ {e} :
               ~ (edges[f].from = edges[e].from /\ edges[f].to = edges[e].to)
      BY <3>1 DEF Traced
    <3>3. ASSUME NEW f \in DOMAIN edges' \ {e}
          PROVE  ~ (edges'[f].from = edges'[e].from /\ edges'[f].to = edges'[e].to)
      <4>1. CASE f = id
        BY <1>7, <1>10, <3>1, <4>1
      <4>2. CASE f # id
        BY <1>9, <3>1, <3>2, <4>2
      <4>3. QED
        BY <4>1, <4>2
    <3>4. QED
      BY <3>1, <3>2, <3>3
  <2>4. QED
    BY <2>2, <2>3
<1>18. ASSUME NEW m \in Gone'
       PROVE  /\ InSeries(m)'
              /\ \E e \in DOMAIN edges' : \E k \in 1 .. Len(Origins(e)') - 1 : working'[Origins(e)'[k]].to = m
  <2>1. \A x : InSeries(x)' <=> InSeries(x)
    BY <1>3 DEF InSeries
  <2>2. CASE m = n
    <3>1. InSeries(n)
      <4>1. Serial(n) /\ Unconditional(n)
        BY <1>2 DEF Contractible
      <4>2. QED
        BY <1>4, <1>5, <1>6, <4>1, SameSeries
    <3>2. Len(s) \in 1 .. Len(s \o t) - 1 /\ (s \o t)[Len(s)] = s[Len(s)]
      BY <1>12
    <3>3. working[s[Len(s)]].to = n
      BY <1>7, OriginsOf DEF s
    <3>4. QED
      BY <1>3, <1>9, <1>13, <2>1, <2>2, <3>1, <3>2, <3>3
  <2>3. CASE m # n
    <3>1. m \in Gone
      BY <1>11, <2>3
    <3>2. PICK e \in DOMAIN edges : \E k \in 1 .. Len(Origins(e)) - 1 : working[Origins(e)[k]].to = m
      BY <3>1 DEF Traced
    <3>3. PICK k \in 1 .. Len(Origins(e)) - 1 : working[Origins(e)[k]].to = m
      BY <3>2
    <3>4. CASE e = left
      <4>1. k \in 1 .. Len(s \o t) - 1 /\ (s \o t)[k] = Origins(e)[k]
        BY <1>12, <3>4 DEF s
      <4>2. QED
        BY <1>3, <1>9, <1>13, <2>1, <3>1, <3>3, <4>1 DEF Traced
    <3>5. CASE e = right
      <4>1. Len(s) + k \in 1 .. Len(s \o t) - 1 /\ (s \o t)[Len(s) + k] = Origins(e)[k]
        BY <1>12, <3>5 DEF t
      <4>2. working'[Origins(id)'[Len(s) + k]].to = m /\ Len(s) + k \in 1 .. Len(Origins(id)') - 1
        BY <1>3, <1>13, <3>3, <4>1
      <4>3. id \in DOMAIN edges' /\ InSeries(m)'
        BY <1>9, <2>1, <3>1 DEF Traced
      <4>4. QED
        BY <4>2, <4>3
    <3>6. CASE e # left /\ e # right
      <4>1. e \in DOMAIN edges' /\ e # id
        BY <1>8, <1>9, <3>6
      <4>2. QED
        BY <1>3, <1>14, <2>1, <3>1, <3>3, <4>1 DEF Traced
    <3>7. QED
      BY <3>4, <3>5, <3>6
  <2>4. QED
    BY <2>2, <2>3
<1>19. ASSUME NEW e \in DOMAIN edges'
       PROVE  \/ e \in DOMAIN truth'.edges
              \/ \E k \in 1 .. Cardinality(truth'.nodes \ nodes') : e = <<"shortcut", k>>
  <2>1. CASE e = id
    BY <1>3, <1>8, <2>1
  <2>2. CASE e # id
    <3>1. \/ e \in DOMAIN truth.edges
          \/ \E k \in 1 .. Cardinality(gone) : e = <<"shortcut", k>>
      BY <1>9, <2>2 DEF Traced, gone
    <3>2. \A k \in 1 .. Cardinality(gone) : k \in 1 .. Cardinality(gone) + 1
      BY <1>8
    <3>3. QED
      BY <1>3, <1>8, <3>1, <3>2
  <2>3. QED
    BY <2>1, <2>2
<1>20. Gone' # {} => forgetting'.shortcuts
  BY <1>3
<1>21. QED
  BY <1>15, <1>16, <1>17, <1>18, <1>19, <1>20 DEF Traced

(* A fresh sample has nothing contracted.                                   *)
LEMMA SampleTraced ==
  ASSUME Inv, Sample
  PROVE  Traced'
<1>1. PICK drawnNodes \in Draws(forgetting.nodes, VisibleNodes),
           drawnEdges \in Draws(forgetting.edges, VisibleEdges) :
        /\ forgotten' = (BusinessNodes(truth) \ VisibleNodes) \cup drawnNodes
        /\ working' = Working(drawnEdges)
  BY DEF Sample
<1>2. nodes' = truth.nodes /\ edges' = working' /\ truth' = truth
  BY DEF Sample, truth
<1>3. drawnNodes \subseteq VisibleNodes
  BY DrawsAreSubsets
<1>4. /\ DOMAIN working' \subseteq DOMAIN truth.edges
      /\ \A e \in DOMAIN working' : working'[e] = truth.edges[e]
  BY <1>1 DEF Working, RestrictDomain, Restrict
<1>5. Gone' = {}
  BY <1>1, <1>2, <1>3 DEF Gone, BusinessNodes, VisibleNodes
<1>6. \A e \in DOMAIN edges' : edges'[e].contracted = <<>> /\ edges'[e].derived = <<>>
  BY <1>2, <1>4, InputsAssumption DEF Inv, TypeOK, truth
<1>7. \A e \in DOMAIN edges' : Origins(e)' = <<e>>
  BY <1>6 DEF Origins
<1>8. ASSUME NEW e \in DOMAIN edges'
      PROVE  StandsFor(working', Gone', edges'[e], Origins(e)')
  <2> DEFINE s == <<e>>
  <2>1. s \in Seq(DOMAIN working') /\ Len(s) = 1 /\ s[1] = e
    BY <1>2
  <2> HIDE DEF s
  <2>2. 1 .. Len(s) - 1 = {}
    BY <2>1
  <2>3. edges'[e].contracted = [k \in 1 .. Len(s) - 1 |-> working'[s[k]].to]
    <3>1. <<>> = [k \in {} |-> working'[s[k]].to]
      OBVIOUS
    <3>2. QED
      BY <1>6, <2>2, <3>1
  <2>4. StandsFor(working', Gone', edges'[e], s)
    BY <1>2, <2>1, <2>2, <2>3 DEF StandsFor
  <2>5. QED
    BY <1>7, <2>4 DEF s
<1>9. Covers(DOMAIN working', AllOrigins') /\ Apart(AllOrigins')
  <2> DEFINE p == AllOrigins'
  <2>1. DOMAIN p = DOMAIN edges' /\ \A e \in DOMAIN edges' : p[e] = <<e>>
    BY <1>7 DEF AllOrigins
  <2> HIDE DEF p
  <2>2. \A e \in DOMAIN p : Len(p[e]) = 1 /\ p[e][1] = e
    BY <2>1
  <2>3. Covers(DOMAIN working', p) /\ Apart(p)
    BY <1>2, <2>1, <2>2 DEF Covers, Apart
  <2>4. QED
    BY <2>3 DEF p
<1>10. Shortcuts' = {}
  BY <1>6 DEF Shortcuts
<1>11. \A e \in DOMAIN edges' : e \in DOMAIN truth'.edges
  BY <1>2, <1>4
<1>12. QED
  BY <1>5, <1>8, <1>9, <1>10, <1>11 DEF Traced

LEMMA SameTraced ==
  ASSUME UNCHANGED <<call, forgotten, working, nodes, edges>>
  PROVE  /\ Traced' <=> Traced
         /\ Pending' = Pending
         /\ Stuck' <=> Stuck
<1>1. /\ forgotten' = forgotten /\ working' = working /\ nodes' = nodes /\ edges' = edges
      /\ truth' = truth /\ forgetting' = forgetting /\ profile' = profile /\ Gone' = Gone
  BY DEF truth, forgetting, profile, Gone
<1>2. AllOrigins' = AllOrigins /\ \A e : Origins(e)' = Origins(e)
  BY <1>1 DEF AllOrigins, Origins
<1>3. \A n : InSeries(n)' <=> InSeries(n)
  BY <1>1 DEF InSeries
<1>4. Traced' <=> Traced
  <2>1. Shortcuts' = Shortcuts
    BY <1>1 DEF Shortcuts
  <2>2. (\A e \in DOMAIN edges : StandsFor(working, Gone, edges[e], Origins(e)))'
          <=> \A e \in DOMAIN edges : StandsFor(working, Gone, edges[e], Origins(e))
    BY <1>1, <1>2
  <2>3. (Covers(DOMAIN working, AllOrigins) /\ Apart(AllOrigins))'
          <=> Covers(DOMAIN working, AllOrigins) /\ Apart(AllOrigins)
    BY <1>1, <1>2
  <2>4. (\A n \in Gone :
           /\ InSeries(n)
           /\ \E e \in DOMAIN edges : \E k \in 1 .. Len(Origins(e)) - 1 : working[Origins(e)[k]].to = n)'
          <=> \A n \in Gone :
           /\ InSeries(n)
           /\ \E e \in DOMAIN edges : \E k \in 1 .. Len(Origins(e)) - 1 : working[Origins(e)[k]].to = n
    BY <1>1, <1>2, <1>3
  <2>5. (\A e \in Shortcuts :
           /\ Len(edges[e].derived) > 1
           /\ edges[e].condition = NoCondition
           /\ edges[e].from # edges[e].to
           /\ \A f \in DOMAIN edges \ {e} :
                ~ (edges[f].from = edges[e].from /\ edges[f].to = edges[e].to))'
          <=> \A e \in Shortcuts :
           /\ Len(edges[e].derived) > 1
           /\ edges[e].condition = NoCondition
           /\ edges[e].from # edges[e].to
           /\ \A f \in DOMAIN edges \ {e} :
                ~ (edges[f].from = edges[e].from /\ edges[f].to = edges[e].to)
    BY <1>1, <2>1
  <2>6. (Gone # {} => forgetting.shortcuts)' <=> (Gone # {} => forgetting.shortcuts)
    BY <1>1
  <2>7. (\A e \in DOMAIN edges :
           \/ e \in DOMAIN truth.edges
           \/ \E k \in 1 .. Cardinality(truth.nodes \ nodes) : e = <<"shortcut", k>>)'
          <=> \A e \in DOMAIN edges :
           \/ e \in DOMAIN truth.edges
           \/ \E k \in 1 .. Cardinality(truth.nodes \ nodes) : e = <<"shortcut", k>>
    BY <1>1
  <2>8. QED
    BY <2>2, <2>3, <2>4, <2>5, <2>6, <2>7, Zenon DEF Traced
<1>5. Pending' = Pending
  BY <1>1 DEF Pending
<1>6. \A n : Contractible(n)' <=> Contractible(n)
  BY <1>1 DEF Contractible, Serial, Unconditional, Bypassed
<1>7. (Drawn' <=> Drawn) /\ (Contracted' <=> Contracted)
  BY <1>1 DEF Drawn, Contracted, Spared
<1>8. QED
  BY <1>1, <1>4, <1>5, <1>6, <1>7 DEF Stuck

LEMMA ContractionInvInit == Init => ContractionInv
<1> SUFFICES ASSUME Init PROVE ContractionInv
  OBVIOUS
<1>1. /\ phase = "called" /\ forgotten = {} /\ working = <<>> /\ edges = <<>>
  BY DEF Init
<1>2. DOMAIN edges = {} /\ DOMAIN working = {} /\ Gone = {}
  BY <1>1 DEF Gone
<1>3. DOMAIN AllOrigins = {} /\ Shortcuts = {}
  BY <1>2 DEF AllOrigins, Shortcuts
<1>4. Traced
  BY <1>2, <1>3 DEF Traced, Covers, Apart
<1>5. QED
  BY <1>1, <1>4 DEF ContractionInv

LEMMA ContractionInvNext == Inv /\ ContractionInv /\ [Next]_vars => ContractionInv'
<1> SUFFICES ASSUME Inv, ContractionInv, [Next]_vars PROVE ContractionInv'
  OBVIOUS
<1>1. CASE Sample
  <2>1. phase' = "contracting"
    BY <1>1 DEF Sample
  <2>2. QED
    BY <1>1, <2>1, SampleTraced DEF ContractionInv
<1>2. CASE Contract
  <2>1. phase' = "contracting"
    BY <1>2 DEF Contract
  <2>2. QED
    BY <1>2, <2>1, ContractTraced DEF ContractionInv
<1>3. CASE UNCHANGED <<call, forgotten, working, nodes, edges>> /\ ~Contract /\ ~Sample
  <2>1. (Traced' <=> Traced) /\ Pending' = Pending /\ (Stuck' <=> Stuck) /\ forgotten' = forgotten
    BY <1>3, SameTraced
  <2>2. Traced'
    BY <2>1 DEF ContractionInv
  <2>3. phase' = "called" => phase = "called"
    BY <1>3 DEF Next, Start, GiveUp, RejectNode, Reject, RejectEmpty, Mask, Project,
                RejectInvalid, Returned, vars
  <2>4. ASSUME phase' = "drawing", Pending' # {}
        PROVE  Stuck'
    <3>1. CASE phase = "drawing"
      BY <2>1, <2>4, <3>1 DEF ContractionInv
    <3>2. CASE phase = "called"
      BY <2>1, <2>4, <3>2 DEF ContractionInv, Pending
    <3>3. CASE RejectNode
      <4>1. /\ phase = "contracting" /\ Pending # {}
            /\ ~ (forgetting.shortcuts /\ Contractible(Min(Pending)))
        BY <3>3 DEF RejectNode
      <4>2. Drawn /\ Contracted
        BY <4>1 DEF Inv, Sampled
      <4>3. Min(Pending) \in Pending
        <5>1. BusinessNodes(truth) \subseteq Nat
          BY InputsAssumption DEF Inv, TypeOK, truth
        <5>2. Pending \subseteq Nat
          BY <4>2, <5>1 DEF Pending, Drawn
        <5>3. QED
          BY <4>1, <5>2, FirstOfThem
      <4>4. Stuck
        BY <4>1, <4>2, <4>3 DEF Stuck, ContractionInv
      <4>5. QED
        BY <2>1, <4>4
    <3>4. CASE RejectEmpty \/ RejectInvalid
      <4>1. Pending = {}
        BY <3>4 DEF RejectEmpty, RejectInvalid, Inv, Masked
      <4>2. QED
        BY <2>1, <2>4, <4>1
    <3>5. QED
      BY <1>3, <2>4, <3>1, <3>2, <3>3, <3>4
         DEF Next, Start, GiveUp, Mask, Project, Returned, vars
  <2>5. QED
    BY <2>1, <2>2, <2>3, <2>4 DEF ContractionInv
<1>4. \/ Sample \/ Contract
      \/ UNCHANGED <<call, forgotten, working, nodes, edges>> /\ ~Contract /\ ~Sample
  BY DEF Next, Start, GiveUp, RejectNode, Reject, RejectEmpty, Mask, Project,
         RejectInvalid, Returned, vars, sample
<1>5. QED
  BY <1>1, <1>2, <1>3, <1>4

(* So does that of contraction. *)
THEOREM ContractionInvariance == Spec => []ContractionInv
BY ContractionInvInit, ContractionInvNext, Invariance, PTL DEF Spec

-----------------------------------------------------------------------------
(* What is left are the walks; what is stuck cannot be forgotten.           *)

LEMMA SeriesIsOne ==
  ASSUME IsFiniteSet(DOMAIN working), \A n \in forgotten : InSeries(n)
  PROVE  OneIn /\ OneOut
<1>1. \A n : IsFiniteSet(Incoming(working, n)) /\ IsFiniteSet(Outgoing(working, n))
  BY FS_Subset DEF Incoming, Outgoing
<1>2. QED
  BY <1>1, FS_Singleton DEF OneIn, OneOut, InSeries

(* An edge between remembered nodes stands for a walk.                      *)
LEMMA EdgeIsWalk ==
  ASSUME Traced, OneIn, OneOut, IsFiniteSet(forgotten), NEW e \in DOMAIN edges,
         edges[e].from \notin forgotten, edges[e].to \notin forgotten
  PROVE  /\ Walk(First(e)) = Origins(e) /\ Origins(e) \in Walks
         /\ Ends(Origins(e)) = <<edges[e].from, edges[e].to>>
<1> DEFINE s == Origins(e)
<1>1. Route(s) /\ working[s[1]].from = edges[e].from /\ working[s[Len(s)]].to = edges[e].to
  BY OriginsOf DEF Route, Gone
<1>2. Distinct(s)
  BY OriginsApart DEF Distinct
<1>3. Walk(s[1]) = s
  BY <1>1, <1>2, RouteIsWalk
<1>4. s[1] \in DOMAIN working
  BY <1>1, OriginsOf
<1>5. s \in Walks
  BY <1>1, <1>3, <1>4 DEF Walks
<1>6. QED
  BY <1>1, <1>3, <1>5 DEF First, Ends

(* So do two that meet in a forgotten node.                                 *)
LEMMA SpanIsWalk ==
  ASSUME Traced, OneIn, OneOut, IsFiniteSet(forgotten),
         NEW left \in DOMAIN edges, NEW right \in DOMAIN edges, left # right,
         NEW n \in forgotten, edges[left].to = n, edges[right].from = n,
         edges[left].from \notin forgotten, edges[right].to \notin forgotten
  PROVE  LET s == Origins(left) \o Origins(right)
         IN /\ s \in Walks /\ Len(s) > 1
            /\ Ends(s) = <<edges[left].from, edges[right].to>>
            /\ s[1] = First(left)
<1> DEFINE a == Origins(left)  b == Origins(right)  s == a \o b  edge == Shortcut(left, n, right)
<1>1. /\ a \in Seq(DOMAIN working) /\ Len(a) \in Nat /\ Len(a) > 0
      /\ b \in Seq(DOMAIN working) /\ Len(b) \in Nat /\ Len(b) > 0
  BY OriginsOf
<1>2. /\ s \in Seq(DOMAIN working) /\ Len(s) = Len(a) + Len(b)
      /\ \A k \in 1 .. Len(a) + Len(b) : s[k] = IF k <= Len(a) THEN a[k] ELSE b[k - Len(a)]
  BY <1>1, ConcatProperties
<1>3. StandsFor(working, Gone \cup {n}, edge, s)
  <2>1. StandsFor(working, Gone, edges[left], a) /\ StandsFor(working, Gone, edges[right], b)
    BY DEF Traced
  <2>2. /\ edge.from = edges[left].from /\ edge.to = edges[right].to
        /\ edge.contracted = edges[left].contracted \o <<n>> \o edges[right].contracted
    BY DEF Shortcut
  <2> HIDE DEF a, b, edge
  <2>3. QED
    BY <2>1, <2>2, Joined
<1>4. edge.from = edges[left].from /\ edge.to = edges[right].to
  BY DEF Shortcut
<1> HIDE DEF s, edge
<1>5. Route(s) /\ working[s[1]].from = edges[left].from /\ working[s[Len(s)]].to = edges[right].to
  BY <1>3, <1>4 DEF StandsFor, Route, Gone
<1>6. Distinct(s)
  <2> SUFFICES ASSUME NEW k \in 1 .. Len(s), NEW l \in 1 .. Len(s), s[k] = s[l]
               PROVE  k = l
    BY DEF Distinct
  <2>1. /\ \A i \in 1 .. Len(a), j \in 1 .. Len(a) : a[i] = a[j] => i = j
        /\ \A i \in 1 .. Len(b), j \in 1 .. Len(b) : b[i] = b[j] => i = j
        /\ \A i \in 1 .. Len(a), j \in 1 .. Len(b) : a[i] # b[j]
    <3>1. \A e, f \in DOMAIN edges : \A i \in 1 .. Len(Origins(e)), j \in 1 .. Len(Origins(f)) :
            Origins(e)[i] = Origins(f)[j] => e = f /\ i = j
      <4> SUFFICES ASSUME NEW e \in DOMAIN edges, NEW f \in DOMAIN edges,
                          NEW i \in 1 .. Len(Origins(e)), NEW j \in 1 .. Len(Origins(f)),
                          Origins(e)[i] = Origins(f)[j]
                   PROVE  e = f /\ i = j
        OBVIOUS
      <4> QED
        BY OriginsApart
    <3>2. QED
      BY ONLY <3>1, left \in DOMAIN edges, right \in DOMAIN edges, left # right
  <2> HIDE DEF a, b
  <2>2. CASE k <= Len(a) /\ l <= Len(a)
    <3>1. k \in 1 .. Len(a) /\ l \in 1 .. Len(a) /\ s[k] = a[k] /\ s[l] = a[l]
      BY <1>1, <1>2, <2>2
    <3>2. QED
      BY <2>1, <3>1
  <2>3. CASE k > Len(a) /\ l > Len(a)
    <3>1. k - Len(a) \in 1 .. Len(b) /\ l - Len(a) \in 1 .. Len(b)
      BY <1>1, <1>2, <2>3
    <3>2. s[k] = b[k - Len(a)] /\ s[l] = b[l - Len(a)]
      BY <1>1, <1>2, <2>3
    <3>3. k - Len(a) = l - Len(a)
      BY <2>1, <3>1, <3>2
    <3>4. QED
      BY <1>1, <1>2, <3>3
  <2>4. CASE k <= Len(a) /\ l > Len(a)
    <3>1. k \in 1 .. Len(a) /\ l - Len(a) \in 1 .. Len(b) /\ s[k] = a[k] /\ s[l] = b[l - Len(a)]
      BY <1>1, <1>2, <2>4
    <3>2. QED
      BY <2>1, <3>1
  <2>5. CASE k > Len(a) /\ l <= Len(a)
    <3>1. l \in 1 .. Len(a) /\ k - Len(a) \in 1 .. Len(b) /\ s[l] = a[l] /\ s[k] = b[k - Len(a)]
      BY <1>1, <1>2, <2>5
    <3>2. QED
      BY <2>1, <3>1
  <2>6. QED
    BY <1>1, <1>2, <2>2, <2>3, <2>4, <2>5
<1>7. Walk(s[1]) = s
  BY <1>5, <1>6, RouteIsWalk
<1>8. s[1] = First(left) /\ Len(s) > 1
  BY <1>1, <1>2 DEF First
<1>9. First(left) \in DOMAIN working
  BY <1>1, OriginsOf DEF First
<1>10. s \in Walks
  BY <1>5, <1>7, <1>8, <1>9 DEF Walks
<1>11. QED
  BY <1>5, <1>8, <1>10 DEF Ends, s

(* When nothing is left to contract, the walks are what the edges stand for. *)
LEMMA ContractedWalks ==
  ASSUME Drawn, Contracted, Traced, Pending = {},
         IsFiniteSet(forgotten), IsFiniteSet(DOMAIN working)
  PROVE  /\ Gone = forgotten /\ \A n \in forgotten : InSeries(n)
         /\ Walks = {Origins(e) : e \in DOMAIN edges}
         /\ \A e \in DOMAIN edges : /\ Ends(Origins(e)) = <<edges[e].from, edges[e].to>>
                                   /\ Inner(Origins(e)) = edges[e].contracted
<1>1. Gone = forgotten
  BY DEF Pending, Gone
<1>2. \A n \in forgotten : InSeries(n)
  BY <1>1 DEF Traced
<1>3. OneIn /\ OneOut
  BY <1>2, SeriesIsOne
<1>4. \A e \in DOMAIN edges : edges[e].from \notin forgotten /\ edges[e].to \notin forgotten
  BY DEF Contracted, Pending
<1>5. \A e \in DOMAIN edges : /\ Walk(First(e)) = Origins(e) /\ Origins(e) \in Walks
                             /\ Ends(Origins(e)) = <<edges[e].from, edges[e].to>>
  BY <1>3, <1>4, EdgeIsWalk
<1>6. ASSUME NEW w \in Walks
      PROVE  \E e \in DOMAIN edges : w = Origins(e)
  <2>1. PICK f \in DOMAIN working : working[f].from \notin forgotten /\ w = Walk(f)
    BY DEF Walks
  <2>2. f \in Outgoing(working, working[f].from)
    BY DEF Outgoing
  <2>3. PICK e \in Outgoing(edges, working[f].from) : f = First(e)
    BY <1>1, <2>1, <2>2, Leaving
  <2>4. QED
    BY <1>5, <2>1, <2>3 DEF Outgoing
<1>7. \A e \in DOMAIN edges : Inner(Origins(e)) = edges[e].contracted
  BY DEF Traced, StandsFor, Inner
<1>8. QED
  BY <1>1, <1>2, <1>5, <1>6, <1>7

LEMMA Exact ==
  ASSUME Drawn, Contracted, Traced, Pending = {},
         IsFiniteSet(forgotten), IsFiniteSet(DOMAIN working)
  PROVE  /\ CanForget
         /\ {<<Origins(e), <<edges[e].from, edges[e].to>>, edges[e].contracted>> : e \in DOMAIN edges}
              = {<<w, Ends(w), Inner(w)>> : w \in Walks}
<1>1. /\ Gone = forgotten /\ \A n \in forgotten : InSeries(n)
      /\ Walks = {Origins(e) : e \in DOMAIN edges}
      /\ \A e \in DOMAIN edges : /\ Ends(Origins(e)) = <<edges[e].from, edges[e].to>>
                                /\ Inner(Origins(e)) = edges[e].contracted
  BY ContractedWalks
<1>2. forgotten = {} \/ forgetting.shortcuts
  BY <1>1 DEF Traced
<1>3. ASSUME NEW n \in forgotten
      PROVE  n \in UNION {Range(Inner(w)) : w \in Walks}
  <2>1. PICK e \in DOMAIN edges : \E k \in 1 .. Len(Origins(e)) - 1 : working[Origins(e)[k]].to = n
    BY <1>1 DEF Traced
  <2>2. n \in Range(Inner(Origins(e)))
    BY <2>1 DEF Range, Inner
  <2>3. QED
    BY <1>1, <2>2
<1>4. ASSUME NEW w \in Walks, Len(w) > 1
      PROVE  Ends(w)[1] # Ends(w)[2] /\ \A other \in Walks \ {w} : Ends(other) # Ends(w)
  <2>1. PICK e \in DOMAIN edges : w = Origins(e)
    BY <1>1
  <2>2. e \in Shortcuts
    <3>1. Len(<<e>>) = 1
      OBVIOUS
    <3>2. QED
      BY <1>4, <2>1, <3>1 DEF Shortcuts, Origins
  <2>3. /\ edges[e].from # edges[e].to
        /\ \A f \in DOMAIN edges \ {e} :
             ~ (edges[f].from = edges[e].from /\ edges[f].to = edges[e].to)
    BY <2>2 DEF Traced
  <2>4. Ends(w) = <<edges[e].from, edges[e].to>>
    BY <1>1, <2>1
  <2>5. ASSUME NEW other \in Walks \ {w}
        PROVE  Ends(other) # Ends(w)
    <3>1. PICK f \in DOMAIN edges : other = Origins(f)
      BY <1>1
    <3>2. f # e /\ Ends(other) = <<edges[f].from, edges[f].to>>
      BY <1>1, <2>1, <3>1
    <3>3. QED
      BY <2>3, <2>4, <3>2
  <2>6. QED
    BY <2>3, <2>4, <2>5
<1>5. CanForget
  BY <1>1, <1>2, <1>3, <1>4 DEF CanForget
<1>6. QED
  BY <1>1, <1>5

(* No walk passes through a ring of forgotten nodes.                        *)
LEMMA RingIsNoWalk ==
  ASSUME OneIn, OneOut, IsFiniteSet(forgotten),
         NEW S, S \subseteq DOMAIN working,
         \A x \in S : working[x].from \in forgotten
                      /\ \E y \in S : working[y].to = working[x].from,
         NEW w \in Walks, NEW j \in 1 .. Len(w), w[j] \in S
  PROVE  FALSE
<1>1. PICK f \in DOMAIN working : working[f].from \notin forgotten /\ w = Walk(f)
  BY DEF Walks
<1>2. Route(w) /\ w[1] = f
  BY <1>1, WalkIsRoute, FS_CardinalityType
<1>3. Len(w) \in Nat /\ \A k \in 1 .. Len(w) : w[k] \in DOMAIN working
  BY <1>2, LenProperties, ElementOfSeq DEF Route
<1> DEFINE T == {i \in Nat : i < j => w[j - i] \in S}
<1>4. 0 \in T
  BY <1>3
<1>5. ASSUME NEW i \in Nat, i \in T
      PROVE  i + 1 \in T
  <2> SUFFICES ASSUME i + 1 < j PROVE w[j - (i + 1)] \in S
    OBVIOUS
  <2> DEFINE k == j - (i + 1)
  <2>1. k \in 1 .. Len(w) - 1 /\ k + 1 = j - i /\ i < j
    BY <1>3
  <2>2. w[k + 1] \in S
    BY <1>5, <2>1
  <2> HIDE DEF k
  <2>3. working[w[k]].to \in forgotten /\ working[w[k + 1]].from = working[w[k]].to
    BY <1>2, <2>1 DEF Route
  <2>4. PICK y \in S : working[y].to = working[w[k]].to
    BY <2>2, <2>3
  <2>5. PICK d : Incoming(working, working[w[k]].to) = {d}
    BY <2>3 DEF OneIn
  <2>6. w[k] \in DOMAIN working
    BY <1>3, <2>1
  <2>7. w[k] = y
    BY <2>4, <2>5, <2>6 DEF Incoming
  <2>8. QED
    BY <2>7 DEF k
<1>6. \A i \in Nat : i \in T
  <2> HIDE DEF T
  <2>1. QED
    BY <1>4, <1>5, Upwards
<1>7. j - 1 \in T /\ j - 1 < j /\ j - (j - 1) = 1
  BY <1>3, <1>6
<1>8. w[1] \in S
  BY <1>7
<1>9. QED
  BY <1>1, <1>2, <1>8

LEMMA StuckCannotForget ==
  ASSUME Stuck, IsFiniteSet(forgotten), IsFiniteSet(DOMAIN working)
  PROVE  ~CanForget
<1> SUFFICES ASSUME CanForget PROVE FALSE
  OBVIOUS
<1>1. Drawn /\ Contracted /\ Traced
  BY DEF Stuck
<1>2. PICK n \in Pending : ~ (forgetting.shortcuts /\ Contractible(n))
  BY DEF Stuck
<1>3. n \in forgotten /\ n \notin Gone /\ ~Contractible(n)
  BY <1>2 DEF Pending, Gone, CanForget
<1>4. \A m \in forgotten : InSeries(m)
  BY DEF CanForget
<1>5. OneIn /\ OneOut
  BY <1>4, SeriesIsOne
<1>6. \A m \in forgotten \ Gone : \A e, f \in DOMAIN edges :
        /\ edges[e].to = m /\ edges[f].to = m => e = f
        /\ edges[e].from = m /\ edges[f].from = m => e = f
  <2> SUFFICES ASSUME NEW m \in forgotten \ Gone, NEW e \in DOMAIN edges, NEW f \in DOMAIN edges
               PROVE  /\ edges[e].to = m /\ edges[f].to = m => e = f
                      /\ edges[e].from = m /\ edges[f].from = m => e = f
    BY Zenon
  <2>1. Cardinality(Incoming(edges, m)) = 1 /\ Cardinality(Outgoing(edges, m)) = 1
    BY <1>1, <1>4, SameSeries DEF Serial
  <2>2. IsFiniteSet(Incoming(edges, m)) /\ IsFiniteSet(Outgoing(edges, m))
    BY <1>1, FS_Subset DEF Incoming, Outgoing, Contracted
  <2>3. (\E x : Incoming(edges, m) = {x}) /\ (\E x : Outgoing(edges, m) = {x})
    BY <2>1, <2>2, FS_Singleton
  <2>4. QED
    BY <2>3 DEF Incoming, Outgoing
<1>7. Serial(n) /\ Unconditional(n)
  BY <1>1, <1>3, <1>4, SameSeries
<1>8. PICK left \in Incoming(edges, n), right \in Outgoing(edges, n) :
        \/ edges[left].from = edges[right].to
        \/ Bypassed(edges[left].from, edges[right].to, {left, right})
  BY <1>3, <1>7 DEF Contractible
<1>9. /\ left \in DOMAIN edges /\ right \in DOMAIN edges
      /\ edges[left].to = n /\ edges[right].from = n
  BY DEF Incoming, Outgoing
<1> DEFINE a == edges[left].from  b == edges[right].to  s == Origins(left) \o Origins(right)
<1>10. a \notin Gone /\ b \notin Gone /\ Gone \subseteq forgotten
  BY <1>1, <1>9 DEF Contracted, Gone
<1>11. CASE a = b /\ a \in forgotten
  <2> DEFINE S == {Origins(left)[k] : k \in 1 .. Len(Origins(left))}
                  \cup {Origins(right)[k] : k \in 1 .. Len(Origins(right))}
  <2>1. Last(left) \in S /\ Last(right) \in S /\ S \subseteq DOMAIN working
    BY <1>1, <1>9, OriginsOf DEF Last
  <2>2. ASSUME NEW e \in {left, right}, NEW k \in 1 .. Len(Origins(e))
        PROVE  /\ working[Origins(e)[k]].from \in forgotten
               /\ \E y \in S : working[y].to = working[Origins(e)[k]].from
    <3>1. e \in DOMAIN edges
      BY <1>9
    <3>2. CASE k = 1
      <4>1. /\ working[Origins(e)[k]].from = edges[e].from
            /\ working[Last(left)].to = n /\ working[Last(right)].to = b
        BY <1>1, <1>9, <3>1, <3>2, OriginsOf DEF Last
      <4>2. QED
        BY <1>3, <1>9, <1>11, <2>1, <4>1
    <3>3. CASE k # 1
      <4>1. k - 1 \in 1 .. Len(Origins(e)) - 1 /\ (k - 1) + 1 = k /\ k - 1 \in 1 .. Len(Origins(e))
        BY <1>1, <3>1, <3>3, OriginsOf
      <4>2. /\ working[Origins(e)[k - 1]].to \in Gone
            /\ working[Origins(e)[k]].from = working[Origins(e)[k - 1]].to
        BY <1>1, <3>1, <4>1, OriginsOf
      <4>3. Origins(e)[k - 1] \in S
        BY <4>1
      <4>4. QED
        BY <1>10, <4>2, <4>3
    <3>4. QED
      BY <3>2, <3>3
  <2>3. \A x \in S : working[x].from \in forgotten /\ \E y \in S : working[y].to = working[x].from
    <3> SUFFICES ASSUME NEW x \in S
                 PROVE  working[x].from \in forgotten /\ \E y \in S : working[y].to = working[x].from
      OBVIOUS
    <3>1. \E e \in {left, right} : \E k \in 1 .. Len(Origins(e)) : x = Origins(e)[k]
      OBVIOUS
    <3> HIDE DEF S
    <3>2. QED
      BY <2>2, <3>1
  <2>4. PICK w \in Walks : n \in Range(Inner(w))
    BY <1>3 DEF CanForget
  <2>5. PICK j \in 1 .. Len(w) - 1 : working[w[j]].to = n
    BY <2>4 DEF Range, Inner
  <2> HIDE DEF S
  <2>6. PICK f \in DOMAIN working : w = Walk(f)
    BY DEF Walks
  <2>7. Route(w)
    BY <1>5, <2>6, WalkIsRoute, FS_CardinalityType
  <2>8. j \in 1 .. Len(w) /\ w[j] \in DOMAIN working
    BY <2>7, LenProperties, ElementOfSeq DEF Route
  <2>9. w[j] = Last(left)
    <3>1. w[j] \in Incoming(working, n)
      BY <2>5, <2>8 DEF Incoming
    <3>2. PICK e \in Incoming(edges, n) : w[j] = Last(e)
      BY <1>1, <1>3, <3>1, Arriving
    <3>3. e = left
      BY <1>3, <1>6, <1>9 DEF Incoming
    <3>4. QED
      BY <3>2, <3>3
  <2>10. QED
    BY <1>5, <2>1, <2>3, <2>8, <2>9, RingIsNoWalk
<1>12. CASE a = b /\ a \notin forgotten
  <2>1. left # right
    BY <1>3, <1>9, <1>12
  <2>2. s \in Walks /\ Len(s) > 1 /\ Ends(s) = <<a, b>>
    BY <1>1, <1>3, <1>5, <1>9, <1>12, <2>1, SpanIsWalk
  <2>3. Ends(s)[1] # Ends(s)[2]
    BY <2>2 DEF CanForget
  <2>4. QED
    BY <1>12, <2>2, <2>3
<1>13. CASE a # b
  <2>1. left # right
    BY <1>9, <1>13
  <2>2. PICK e \in DOMAIN edges \ {left, right} : edges[e].from = a /\ edges[e].to = b
    BY <1>8, <1>13 DEF Bypassed
  <2>3. a \notin forgotten /\ b \notin forgotten
    BY <1>6, <1>9, <1>10, <2>2
  <2>4. s \in Walks /\ Len(s) > 1 /\ Ends(s) = <<a, b>> /\ s[1] = First(left)
    BY <1>1, <1>3, <1>5, <1>9, <2>1, <2>3, SpanIsWalk
  <2>5. Origins(e) \in Walks /\ Ends(Origins(e)) = <<a, b>>
    BY <1>1, <1>5, <2>2, <2>3, EdgeIsWalk
  <2>6. Origins(e) # s
    <3>1. 1 \in 1 .. Len(Origins(e)) /\ 1 \in 1 .. Len(Origins(left))
      BY <1>1, <1>9, <2>2, OriginsOf
    <3>2. First(e) # First(left)
      BY <1>1, <1>9, <2>2, <3>1, OriginsApart DEF First
    <3>3. QED
      BY <2>4, <3>2 DEF First
  <2>7. QED
    BY <2>4, <2>5, <2>6 DEF CanForget
<1>14. QED
  BY <1>11, <1>12, <1>13

(* A sample is refused for a node to forget just when it cannot be          *)
(* forgotten, and what contraction leaves are the walks between remembered  *)
(* nodes, each once, for any process and any order of its nodes             *)
(* (_contract_forgotten_nodes).                                             *)
THEOREM ContractionIsExact == Spec => []ContractionExact
<1>1. ASSUME Inv, ContractionInv
      PROVE  ContractionExact
  <2>1. ASSUME Drawn
        PROVE  IsFiniteSet(forgotten) /\ IsFiniteSet(DOMAIN working)
    <3>1. IsFiniteSet(truth.nodes) /\ IsFiniteSet(DOMAIN truth.edges)
      BY <1>1, InputsAssumption DEF Inv, TypeOK, truth
    <3>2. forgotten \subseteq truth.nodes /\ DOMAIN working \subseteq DOMAIN truth.edges
      BY <2>1 DEF Drawn, BusinessNodes
    <3>3. QED
      BY <3>1, <3>2, FS_Subset
  <2>2. ASSUME phase = "drawing", Pending # {}
        PROVE  ~CanForget
    <3>1. Stuck
      BY <1>1, <2>2 DEF ContractionInv
    <3>2. QED
      BY <2>1, <3>1, StuckCannotForget DEF Stuck
  <2>3. ASSUME phase \in {"contracting", "projecting", "done"}, Pending = {}
        PROVE  /\ CanForget
               /\ {<<Origins(e), <<edges[e].from, edges[e].to>>, edges[e].contracted>> : e \in DOMAIN edges}
                    = {<<w, Ends(w), Inner(w)>> : w \in Walks}
    <3>1. Drawn /\ Contracted /\ Traced
      BY <1>1, <2>3 DEF Inv, Sampled, ContractionInv
    <3>2. QED
      BY <2>1, <2>3, <3>1, Exact
  <2>4. QED
    BY <2>2, <2>3, Zenon DEF ContractionExact
<1>2. Inv /\ ContractionInv => ContractionExact
  BY <1>1
<1>3. QED
  BY <1>2, Invariance, ContractionInvariance, PTL
=============================================================================
