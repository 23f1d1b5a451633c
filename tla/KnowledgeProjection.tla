-------------------------- MODULE KnowledgeProjection --------------------------
(***************************************************************************)
(* stakeholders/projection.py: what a simulated stakeholder knows of the    *)
(* true process.  Elements outside the profile and elements drawn at random *)
(* are forgotten; a forgotten node is contracted into a shortcut between    *)
(* its neighbours; a sample that cannot be contracted, or whose result is   *)
(* not canonical, is drawn again, a bounded number of times.                *)
(*                                                                         *)
(* Abstractions.  A draw picks any subset of what may be forgotten.  Local  *)
(* identifiers stand for the true element they were issued for, and a       *)
(* slot holds the list of its concepts.  Labels, descriptions and terms of  *)
(* concepts, and the overrides of these, are left out.                      *)
(***************************************************************************)
EXTENDS KnowledgeCoverage, FiniteSetsExt

CONSTANT Inputs           \* the calls made: [truth, profile, forgetting]

EdgeFields == {"from", "to", "condition", "structural", "shortcut", "contracted", "derived"}

(* Nodes are numbered in the order of their names, no true edge has the     *)
(* identifier of a shortcut or stands for others, and what is true is never *)
(* the marker of what is not known.                                         *)
ASSUME InputsAssumption ==
  \A input \in Inputs :
    LET g == input.truth
    IN  /\ IsFiniteSet(g.nodes) /\ IsFiniteSet(DOMAIN g.edges)
        /\ BusinessNodes(g) \subseteq Nat
        /\ \A k \in 1 .. Cardinality(g.nodes) : <<"shortcut", k>> \notin DOMAIN g.edges
        /\ \A e \in DOMAIN g.edges :
             /\ DOMAIN g.edges[e] = EdgeFields
             /\ g.edges[e].condition # DontKnow
             /\ g.edges[e].contracted = <<>> /\ g.edges[e].derived = <<>>
        /\ \A n \in BusinessNodes(g), p \in NodeProperties : g.slots[n][p] # DontKnow

NoKnowledge == "no knowledge"

VARIABLES
  call,                   \* the arguments: truth, profile and forgetting
  phase,                  \* where project_knowledge stands
  attempt,                \* samples drawn so far
  forgotten,              \* nodes to contract
  working,                \* the edges left to the sample before contraction
  nodes, edges,           \* what remains of the nodes and of these edges
  knownConditions,        \* edges whose condition is known
  knownSlots,             \* <<node, property>> pairs known
  knowledge               \* the result

sample == <<forgotten, working, nodes, edges, knownConditions, knownSlots>>
vars   == <<call, phase, attempt, sample, knowledge>>

truth      == call.truth
profile    == call.profile
forgetting == call.forgetting

(* random() < p for each element *)
Draws(probability, S) ==
  CASE probability = "zero" -> {{}}
    [] probability = "one"  -> {S}
    [] OTHER                -> SUBSET S

Init ==
  /\ call \in Inputs
  /\ phase = "called"
  /\ attempt = 0
  /\ forgotten = {} /\ nodes = {} /\ knownConditions = {} /\ knownSlots = {}
  /\ working = <<>> /\ edges = <<>>
  /\ knowledge = NoKnowledge

Start ==
  /\ phase = "called"
  /\ phase' = IF Canonical(truth) THEN "drawing" ELSE "refused"
  /\ UNCHANGED <<call, attempt, sample, knowledge>>

(* Draw what is forgotten; edges out of sight are gone before contraction.  *)
VisibleNodes == BusinessNodes(truth) \cap profile.nodes
VisibleEdges == BusinessEdges(truth) \cap profile.edges

Working(lost) ==
  RestrictDomain(truth.edges, LAMBDA e : truth.edges[e].structural \/ e \in VisibleEdges \ lost)

(* mutant of KnownAtFirst: the profile is not asked for conditions *)
KnownIfVisible(left) == {e \in DOMAIN left : ~left[e].structural}

KnownAtFirst(left) ==
  {e \in DOMAIN left : ~left[e].structural /\ e \in profile.conditions}

Sample ==
  /\ phase = "drawing"
  /\ attempt < forgetting.retries
  /\ attempt' = attempt + 1
  /\ \E drawnNodes \in Draws(forgetting.nodes, VisibleNodes),
        drawnEdges \in Draws(forgetting.edges, VisibleEdges) :
       /\ forgotten' = (BusinessNodes(truth) \ VisibleNodes) \cup drawnNodes
       /\ working' = Working(drawnEdges)
  /\ nodes' = truth.nodes
  /\ edges' = working'
  /\ knownConditions' = KnownAtFirst(working')
  /\ knownSlots' = {}
  /\ phase' = "contracting"
  /\ UNCHANGED <<call, knowledge>>

GiveUp ==
  /\ phase = "drawing"
  /\ attempt = forgetting.retries
  /\ phase' = "failed"
  /\ UNCHANGED <<call, attempt, sample, knowledge>>
-----------------------------------------------------------------------------
(* Contraction, one forgotten node at a time, in the order of their names.  *)
Pending == forgotten \cap nodes

NextShortcut == <<"shortcut", Cardinality(truth.nodes \ nodes) + 1>>

(* mutant of Origins: a shortcut is not taken apart again *)
OriginsItself(e) == <<e>>

(* the edges an edge stands for, and the nodes between them *)
Origins(e) == IF edges[e].derived = <<>> THEN <<e>> ELSE edges[e].derived

Serial(n) ==
  /\ Cardinality(Incoming(edges, n)) = 1
  /\ Cardinality(Outgoing(edges, n)) = 1

Unconditional(n) ==
  \A e \in Incoming(edges, n) \cup Outgoing(edges, n) : edges[e].condition = NoCondition

Bypassed(from, to, replaced) ==
  \E e \in DOMAIN edges \ replaced : edges[e].from = from /\ edges[e].to = to

Contractible(n) ==
  /\ Serial(n)
  /\ Unconditional(n)
  /\ \A left \in Incoming(edges, n), right \in Outgoing(edges, n) :
       /\ edges[left].from # edges[right].to
       /\ ~Bypassed(edges[left].from, edges[right].to, {left, right})

Shortcut(left, n, right) ==
  [from       |-> edges[left].from,
   to         |-> edges[right].to,
   condition  |-> NoCondition,
   structural |-> edges[left].from = Source \/ edges[right].to = Sink,
   shortcut   |-> TRUE,
   contracted |-> edges[left].contracted \o <<n>> \o edges[right].contracted,
   derived    |-> Origins(left) \o Origins(right)]

Contract ==
  /\ phase = "contracting"
  /\ Pending # {}
  /\ forgetting.shortcuts
  /\ LET n == Min(Pending) IN
       /\ Contractible(n)
       /\ \E left \in Incoming(edges, n), right \in Outgoing(edges, n) :
            LET id == NextShortcut IN
            /\ edges' = [e \in (DOMAIN edges \ {left, right}) \cup {id} |->
                           IF e = id THEN Shortcut(left, n, right) ELSE edges[e]]
            /\ knownConditions' = (knownConditions \ {left, right}) \cup {id}
       /\ nodes' = nodes \ {n}
  /\ UNCHANGED <<call, phase, attempt, forgotten, working, knownSlots, knowledge>>

Reject == phase' = "drawing" /\ UNCHANGED <<call, attempt, sample, knowledge>>

RejectNode ==
  /\ phase = "contracting"
  /\ Pending # {}
  /\ ~(forgetting.shortcuts /\ Contractible(Min(Pending)))
  /\ Reject
-----------------------------------------------------------------------------
(* Forget conditions and slots of what remains. *)
Remaining == nodes \ Structural

ConfiguredSlots == {s \in Remaining \X NodeProperties : s \in profile.slots}

RejectEmpty ==
  /\ phase = "contracting"
  /\ Pending = {}
  /\ Remaining = {}
  /\ Reject

Mask ==
  /\ phase = "contracting"
  /\ Pending = {}
  /\ Remaining # {}
  /\ \E maskedConditions \in Draws(forgetting.properties,
                                   {e \in knownConditions : ~edges[e].structural}),
        maskedSlots \in Draws(forgetting.properties, ConfiguredSlots) :
       /\ knownConditions' = knownConditions \ maskedConditions
       /\ knownSlots' = ConfiguredSlots \ maskedSlots
  /\ phase' = "projecting"
  /\ UNCHANGED <<call, attempt, forgotten, working, nodes, edges, knowledge>>

LocalSlots(n) ==
  [p \in NodeProperties |-> IF <<n, p>> \in knownSlots THEN truth.slots[n][p] ELSE DontKnow]

(* mutant of LocalCondition: boundary edges are treated like the others *)
LocalConditionKnown(e) ==
  IF e \in knownConditions THEN edges[e].condition ELSE DontKnow

LocalCondition(e) ==
  IF edges[e].structural THEN NoCondition
  ELSE IF e \in knownConditions THEN edges[e].condition
  ELSE DontKnow

(* A true element is found again under its identifier; a shortcut stands    *)
(* for none.                                                                *)
Projected ==
  [nodes |-> nodes,
   edges |-> [e \in DOMAIN edges |-> [edges[e] EXCEPT !.condition = LocalCondition(e)]],
   slots |-> [n \in Remaining |-> LocalSlots(n)]]

WithoutDuplicates(graph) ==
  \A n \in BusinessNodes(graph), p \in NodeProperties :
    graph.slots[n][p] # DontKnow => IsInjective(graph.slots[n][p])

ValidKnowledge(graph) == Canonical(graph) /\ WithoutDuplicates(graph)

Project ==
  /\ phase = "projecting"
  /\ ValidKnowledge(Projected)
  /\ knowledge' = Projected
  /\ phase' = "done"
  /\ UNCHANGED <<call, attempt, sample>>

RejectInvalid ==
  /\ phase = "projecting"
  /\ ~ValidKnowledge(Projected)
  /\ Reject

Returned == phase \in {"done", "failed", "refused"} /\ UNCHANGED vars

Next ==
  \/ Start \/ Sample \/ GiveUp \/ Contract \/ RejectNode \/ RejectEmpty
  \/ Mask \/ Project \/ RejectInvalid \/ Returned

Spec == Init /\ [][Next]_vars
-----------------------------------------------------------------------------
(* What contraction should do, whatever the order of the nodes: every       *)
(* forgotten node has one edge in and one out, without conditions, and lies *)
(* on a walk between remembered nodes that differ and are not joined        *)
(* otherwise; each walk becomes one edge.                                   *)
OnlyEdge(S) == CHOOSE e \in S : TRUE

Walk(e) ==
  LET steps[k \in 0 .. Cardinality(forgotten)] ==
        IF k = 0 THEN <<e>>
        ELSE LET met == working[steps[k - 1][Len(steps[k - 1])]].to
             IN IF met \in forgotten
                THEN Append(steps[k - 1], OnlyEdge(Outgoing(working, met)))
                ELSE steps[k - 1]
  IN steps[Cardinality(forgotten)]

Walks   == {Walk(e) : e \in {f \in DOMAIN working : working[f].from \notin forgotten}}
Ends(w) == <<working[w[1]].from, working[w[Len(w)]].to>>
Inner(w) == [k \in 1 .. Len(w) - 1 |-> working[w[k]].to]

InSeries(n) ==
  /\ Cardinality(Incoming(working, n)) = 1
  /\ Cardinality(Outgoing(working, n)) = 1
  /\ \A e \in Incoming(working, n) \cup Outgoing(working, n) : working[e].condition = NoCondition

CanForget ==
  /\ forgotten = {} \/ forgetting.shortcuts
  /\ \A n \in forgotten : InSeries(n)
  /\ forgotten \subseteq UNION {Range(Inner(w)) : w \in Walks}
  /\ \A w \in Walks : Len(w) > 1 =>
       /\ Ends(w)[1] # Ends(w)[2]
       /\ \A other \in Walks \ {w} : Ends(other) # Ends(w)

(* Contraction refuses exactly the samples that cannot be forgotten, and    *)
(* leaves exactly the walks, each with the nodes and edges it replaces in   *)
(* order: nothing is lost, invented or counted twice, and the order in      *)
(* which nodes are contracted is immaterial (_contract_forgotten_nodes).    *)
ContractionExact ==
  /\ phase = "drawing" /\ Pending # {} => ~CanForget
  /\ phase \in {"contracting", "projecting", "done"} /\ Pending = {} =>
       /\ CanForget
       /\ {<<Origins(e), <<edges[e].from, edges[e].to>>, edges[e].contracted>> : e \in DOMAIN edges}
            = {<<w, Ends(w), Inner(w)>> : w \in Walks}

(* The result knows nothing outside the profile, nothing of a forgotten     *)
(* node or of an edge at one, and nothing but the truth; without property   *)
(* forgetting it knows all the rest, and coverage counts just that          *)
(* (_sample_projection, knowledge_coverage_view).                           *)
Spared(e) == e \in DOMAIN working /\ {working[e].from, working[e].to} \cap forgotten = {}

MayKnow(address) ==
  LET kind == address[1]  id == address[2]
  IN CASE kind = "node"              -> id \in profile.nodes \ forgotten
       [] kind \in {"slot", "element"} -> id \notin forgotten /\ <<id, address[3]>> \in profile.slots
       [] kind = "edge"              -> id \in profile.edges /\ Spared(id)
       [] kind = "condition"         -> id \in profile.edges \cap profile.conditions /\ Spared(id)

KnowsTheRest ==
  phase = "done" =>
    /\ \A a \in Known(truth, knowledge) : MayKnow(a)
    /\ forgetting.properties = "zero" =>
         Coverage(truth, knowledge)
           = <<Cardinality({a \in Addresses(truth) : MayKnow(a)}), Cardinality(Addresses(truth))>>
    /\ \A e \in DOMAIN knowledge.edges \cap DOMAIN truth.edges :
         knowledge.edges[e].condition \in {truth.edges[e].condition, DontKnow}

(* A sample that forgets no node and no edge is rejected only for a list    *)
(* that names a concept twice; retrying cannot help then, and never is a    *)
(* stakeholder who was shown everything refused (_sample_projection,        *)
(* structure_errors).                                                       *)
WholeViewAccepted ==
  phase = "drawing" /\ attempt > 0 /\ forgotten = {} /\ working = truth.edges =>
    ~WithoutDuplicates(truth)
=============================================================================
