------------------------ MODULE InterviewToolsProofs ------------------------
(* Theorems about InterviewTools and InterviewState. *)
EXTENDS InterviewTools, FiniteSetTheorems, WellFoundedInduction, TLAPS

-----------------------------------------------------------------------------
(* Least and greatest numbers. *)

(* A set of numbers that is not empty has a least one. *)
LEMMA LeastExists ==
  ASSUME NEW S, S \subseteq Nat, S # {}
  PROVE  \E n \in S : \A m \in S : n <= m
<1>1. PICK n \in S : \A m \in S : ~ (<<m, n>> \in OpToRel(<, Nat))
  BY NatLessThanWellFounded, WFMin
<1>2. \A m \in S : ~ (m < n)
  BY <1>1 DEF OpToRel
<1>3. QED
  BY <1>2

(* A bounded set of numbers that is not empty has a greatest one. *)
LEMMA GreatestExists ==
  ASSUME NEW S, S \subseteq Nat, S # {}, NEW b \in Nat, \A n \in S : n <= b
  PROVE  \E n \in S : \A m \in S : m <= n
<1> DEFINE T == {b - n : n \in S}
<1>1. T \subseteq Nat /\ T # {}
  <2>1. \A n \in S : n \in Nat /\ n <= b
    OBVIOUS
  <2>2. \A n \in S : b - n \in Nat
    BY <2>1
  <2>3. QED
    BY <2>2
<1>2. PICK t \in T : \A u \in T : t <= u
  BY <1>1, LeastExists
<1>3. PICK n \in S : t = b - n
  BY <1>2
<1>4. ASSUME NEW m \in S
      PROVE  m <= n
  <2>1. b - m \in T
    OBVIOUS
  <2>2. b - n <= b - m
    BY <2>1, <1>2, <1>3
  <2>3. QED
    BY <2>2
<1>5. QED
  BY <1>4

(* Among the numbers up to the size of a finite set there is one that it     *)
(* lacks and below which it lacks none.                                      *)
LEMMA GapExists ==
  ASSUME NEW used, used \subseteq Nat, IsFiniteSet(used)
  PROVE  \E n \in 0..Cardinality(used) :
            n \notin used /\ \A m \in 0..(n - 1) : m \in used
<1> DEFINE k == Cardinality(used)
           free == (0..k) \ used
<1>1. k \in Nat
  BY FS_CardinalityType
<1>2. free # {}
  <2>1. SUFFICES ASSUME 0..k \subseteq used
                 PROVE  FALSE
    OBVIOUS
  <2>2. Cardinality(0..k) = k + 1
    <3>1. Cardinality(0..k) = IF 0 > k THEN 0 ELSE k - 0 + 1
      BY <1>1, FS_Interval
    <3>2. QED
      BY <1>1, <3>1
  <2>3. Cardinality(0..k) <= k
    BY <2>1, FS_Subset
  <2>4. QED
    BY <1>1, <2>2, <2>3
<1>3. PICK n \in free : \A m \in free : n <= m
  <2>1. free \subseteq Nat
    BY <1>1
  <2> HIDE DEF free
  <2>2. QED
    BY <2>1, <1>2, LeastExists
<1>4. ASSUME NEW m \in 0..(n - 1)
      PROVE  m \in used
  <2>1. n \in 0..k
    OBVIOUS
  <2>2. m \in 0..k /\ ~ (n <= m)
    BY <1>1, <2>1
  <2>3. m \notin free
    BY <1>3, <2>2
  <2>4. QED
    BY <2>2, <2>3
<1>5. QED
  BY <1>3, <1>4

-----------------------------------------------------------------------------
(* What the operations of InterviewState build from well-typed arguments. *)

(* The numbers prepared for a request are new, consecutive and distinct. *)
LEMMA PreparedNumbers ==
  ASSUME NEW next \in Nat \ {0}, NEW citations \in CitationLists
  PROVE  /\ Prepared(next, citations) \in SUBSET Evidence
         /\ Len(citations) \in Nat
         /\ \A e \in Prepared(next, citations) :
              next <= e.number /\ e.number < next + Len(citations)
         /\ \A e, f \in Prepared(next, citations) : e.number = f.number => e = f
<1>1. citations \in Seq(Citation) /\ Len(citations) \in Nat
      /\ DOMAIN citations = 1..Len(citations)
  BY RequestsTyped
<1>2. \A k \in DOMAIN citations : citations[k] \in Citation
  BY <1>1
<1>3. ASSUME NEW k \in DOMAIN citations
      PROVE  [ number    |-> next + k - 1,
               utterance |-> citations[k].utterance,
               support   |-> citations[k].support ] \in Evidence
  BY <1>1, <1>2 DEF Citation, Evidence
<1> DEFINE Ref(k) == [ number    |-> next + k - 1,
                       utterance |-> citations[k].utterance,
                       support   |-> citations[k].support ]
<1>4. Prepared(next, citations) = {Ref(k) : k \in DOMAIN citations}
  BY DEF Prepared
<1>5. \A k \in 1..Len(citations) : Ref(k).number = next + k - 1
  OBVIOUS
<1>6. \A k \in DOMAIN citations : Ref(k) \in Evidence
  BY <1>3
<1> HIDE DEF Ref
<1>7. \A e \in Prepared(next, citations) :
        \E k \in 1..Len(citations) : e = Ref(k) /\ e.number = next + k - 1
  BY <1>1, <1>4, <1>5
<1>8. Prepared(next, citations) \in SUBSET Evidence
  BY <1>4, <1>6
<1>9. \A e \in Prepared(next, citations) :
        next <= e.number /\ e.number < next + Len(citations)
  BY <1>1, <1>7
<1>10. ASSUME NEW e \in Prepared(next, citations), NEW f \in Prepared(next, citations),
              e.number = f.number
       PROVE  e = f
  <2>1. PICK k \in 1..Len(citations) : e = Ref(k) /\ e.number = next + k - 1
    BY <1>7
  <2>2. PICK l \in 1..Len(citations) : f = Ref(l) /\ f.number = next + l - 1
    BY <1>7
  <2>3. k = l
    BY <1>1, <1>10, <2>1, <2>2
  <2>4. QED
    BY <2>1, <2>2, <2>3
<1>11. QED
  BY <1>1, <1>8, <1>9, <1>10

LEMMA RequestTyped ==
  ASSUME NEW required \in SUBSET Fields, NEW optional \in SUBSET Fields,
         NEW said \in Requests(required, optional)
  PROVE  /\ DOMAIN said \subseteq Fields
         /\ \A f \in DOMAIN said : said[f] \in SaidOf(f)
<1>1. PICK more \in SUBSET optional :
        /\ said \in [required \cup more ->
                       UNION {Sayable[f] : f \in required \cup more}]
        /\ \A f \in DOMAIN said : said[f] \in Sayable[f]
  BY DEF Requests
<1>2. DOMAIN said \subseteq Fields
  BY <1>1
<1>3. QED
  BY <1>1, <1>2, RequestsTyped

LEMMA SeqElement ==
  ASSUME NEW S, NEW q \in Seq(S), NEW k \in DOMAIN q
  PROVE  q[k] \in S
OBVIOUS

LEMMA SaidItems ==
  ASSUME NEW f \in Fields, NEW said \in SaidOf(f), NEW k \in DOMAIN said.items
  PROVE  /\ said.items[k].id \in (IF f \in EntityFields THEN EntityIds ELSE Contents)
         /\ said.items[k].label \in Labels \cup {NoLabel}
<1>1. said.items \in Seq(ItemOf(f))
  BY DEF SaidOf
<1>2. said.items[k] \in ItemOf(f)
  BY <1>1, SeqElement
<1>3. QED
  BY <1>2 DEF ItemOf

LEMMA ValueSaidTyped ==
  ASSUME NEW f \in Fields, NEW said \in SaidOf(f)
  PROVE  ValueSaid(said) \in Value
<1>1. said.items \in Seq(ItemOf(f)) /\ said.state \in {"unset", "value", "absent"}
  BY DEF SaidOf
<1>2. \A k \in DOMAIN said.items : said.items[k].id \in Contents
  BY SaidItems DEF Contents
<1>3. [k \in DOMAIN said.items |-> said.items[k].id] \in Seq(Contents)
  BY <1>1, <1>2
<1>4. QED
  BY <1>1, <1>3 DEF ValueSaid, Value

(* The entities a request mentions are well typed once they have a label.    *)
LEMMA ItemsSaidTyped ==
  ASSUME NEW f \in Fields, NEW said \in SaidOf(f)
  PROVE  ItemsSaid(f, said) \in Seq(Mention)
<1>1. CASE f \in EntityFields
  <2> DEFINE M(k) == [kind  |-> KindOf(f),
                      id    |-> said.items[k].id,
                      label |-> said.items[k].label]
  <2>1. said.items \in Seq(ItemOf(f))
    BY DEF SaidOf
  <2>2. KindOf(f) \in {"actor", "system", "data_type"}
    BY <1>1 DEF EntityFields, KindOf
  <2>3. \A k \in DOMAIN said.items : M(k) \in Mention
    BY <1>1, <2>2, SaidItems DEF Mention
  <2>4. ItemsSaid(f, said) = [k \in DOMAIN said.items |-> M(k)]
    BY <1>1 DEF ItemsSaid
  <2> HIDE DEF M
  <2>5. QED
    BY <2>1, <2>3, <2>4
<1>2. CASE f \notin EntityFields
  BY <1>2 DEF ItemsSaid
<1>3. QED
  BY <1>1, <1>2

LEMMA WithEntitiesTyped ==
  ASSUME NEW entities \in SUBSET Entity, NEW items \in Seq(Mention)
  PROVE  WithEntities(entities, items) \in SUBSET Entity
<1>1. ASSUME NEW k \in DOMAIN items, items[k].label # NoLabel
      PROVE  items[k] \in Entity
  <2>1. items[k] \in Mention
    BY SeqElement
  <2>2. QED
    BY <1>1, <2>1 DEF Mention, Entity
<1>2. QED
  BY <1>1 DEF WithEntities

LEMMA ItemsOfRequestTyped ==
  ASSUME NEW type \in RecordTypes, NEW said,
         DOMAIN said \subseteq Fields, \A f \in DOMAIN said : said[f] \in SaidOf(f)
  PROVE  ItemsOfRequest(type, said) \in Seq(Mention)
<1> DEFINE Of(f) == IF f \in DOMAIN said THEN ItemsSaid(f, said[f]) ELSE <<>>
<1>1. ASSUME NEW f
      PROVE  Of(f) \in Seq(Mention)
  <2>1. CASE f \in DOMAIN said
    <3>1. ItemsSaid(f, said[f]) \in Seq(Mention)
      BY <2>1, ItemsSaidTyped
    <3>2. QED
      BY <2>1, <3>1
  <2>2. CASE f \notin DOMAIN said
    BY <2>2
  <2>3. QED
    BY <2>1, <2>2
<1>2. ItemsOfRequest(type, said) =
        CASE type = "process_step"   -> Of("actor") \o Of("inputs") \o Of("outputs")
          [] type = "flow"           -> <<>>
          [] type = "resource_usage" -> Of("system") \o Of("data_type")
  BY DEF ItemsOfRequest
<1> HIDE DEF Of
<1>3. /\ Of("actor") \o Of("inputs") \o Of("outputs") \in Seq(Mention)
      /\ Of("system") \o Of("data_type") \in Seq(Mention)
      /\ <<>> \in Seq(Mention)
  BY <1>1
<1>4. QED
  BY <1>2, <1>3 DEF RecordTypes

-----------------------------------------------------------------------------
(* _next_claim_id: the id is new, and the numbers below it are taken.        *)
LEMMA NextRevisionFresh ==
  ASSUME NEW s \in State, IsFiniteSet(s.claims),
         NEW r \in RecordIds, NEW f \in Fields
  PROVE  /\ NextRevision(s, r, f) \in Nat
         /\ <<r, f, NextRevision(s, r, f)>> \notin ClaimIdsOf(s)
         /\ \A m \in 0..(NextRevision(s, r, f) - 1) : <<r, f, m>> \in ClaimIdsOf(s)
<1> DEFINE mine == {d \in s.claims : d.id[1] = r /\ d.id[2] = f}
           used == {c.id[3] : c \in mine}
           revision == [c \in mine |-> c.id[3]]
<1>1. \A c \in s.claims : c.id \in ClaimIds
  BY DEF State, Claim
<1>2. \A c \in mine : c.id[3] \in Nat /\ c.id = <<r, f, c.id[3]>>
  BY <1>1 DEF ClaimIds
<1>3. used \subseteq Nat
  BY <1>2
<1>4. IsFiniteSet(used)
  <2>1. IsFiniteSet(mine)
    BY FS_Subset
  <2>2. revision \in Surjection(mine, used)
    BY DEF Surjection
  <2> HIDE DEF mine, used, revision
  <2>3. QED
    BY <2>1, <2>2, FS_Surjection
<1>5. NextRevision(s, r, f) =
        CHOOSE n \in 0..Cardinality(used) :
          n \notin used /\ \A m \in 0..(n - 1) : m \in used
  BY DEF NextRevision
<1>6. /\ NextRevision(s, r, f) \in 0..Cardinality(used)
      /\ NextRevision(s, r, f) \notin used
      /\ \A m \in 0..(NextRevision(s, r, f) - 1) : m \in used
  <2> HIDE DEF used
  <2>1. QED
    BY <1>3, <1>4, <1>5, GapExists
<1>7. NextRevision(s, r, f) \in Nat
  <2> HIDE DEF used
  <2>1. QED
    BY <1>4, <1>6, FS_CardinalityType
<1>8. ASSUME NEW m \in used
      PROVE  <<r, f, m>> \in ClaimIdsOf(s)
  BY <1>2 DEF ClaimIdsOf
<1>9. ASSUME NEW m \in Nat, <<r, f, m>> \in ClaimIdsOf(s)
      PROVE  m \in used
  <2>1. PICK c \in s.claims : c.id = <<r, f, m>>
    BY <1>9 DEF ClaimIdsOf
  <2>2. QED
    BY <2>1
<1>10. QED
  BY <1>6, <1>7, <1>8, <1>9
-----------------------------------------------------------------------------
(* The state after each operation: typed, with finitely many claims, and     *)
(* with no evidence but the old and that of the request.                     *)
Follows(s, t, evidence) ==
  /\ t \in State
  /\ IsFiniteSet(s.claims) => IsFiniteSet(t.claims)
  /\ AllEvidence(t) \subseteq AllEvidence(s) \cup evidence

LEMMA StateFields ==
  ASSUME NEW s \in State
  PROVE  /\ s.utterances \in SUBSET UtteranceIds
         /\ s.claims \in SUBSET Claim
         /\ s.records \in SUBSET (RecordTypes \X RecordIds)
         /\ s.projection \in [RecordIds \X Fields -> Value]
         /\ s.entities \in SUBSET Entity
         /\ s.issues \in SUBSET Issue
         /\ s.completion \in Completion
BY DEF State

LEMMA EvidenceOf ==
  ASSUME NEW s, NEW e
  PROVE  e \in AllEvidence(s) <=>
           \/ \E c \in s.claims : e \in c.evidence
           \/ \E i \in s.issues : e \in i.evidence
           \/ e \in s.completion.confirmation
BY DEF AllEvidence

LEMMA EvidenceTyped ==
  ASSUME NEW s \in State
  PROVE  AllEvidence(s) \subseteq Evidence
<1>1. /\ s.claims \in SUBSET Claim /\ s.issues \in SUBSET Issue
      /\ s.completion \in Completion
  BY StateFields
<1>2. \A c \in s.claims : c.evidence \subseteq Evidence
  BY <1>1 DEF Claim
<1>3. \A i \in s.issues : i.evidence \subseteq Evidence
  BY <1>1 DEF Issue
<1>4. s.completion.confirmation \subseteq Evidence
  BY <1>1 DEF Completion
<1>5. QED
  BY <1>2, <1>3, <1>4, EvidenceOf

LEMMA FieldsFinite == IsFiniteSet(Fields)
<1>1. ASSUME NEW a, NEW b, NEW c
      PROVE  IsFiniteSet({a, b, c})
  <2>1. IsFiniteSet({a})
    BY FS_Singleton
  <2>2. IsFiniteSet({a} \cup {b})
    BY <2>1, FS_AddElement
  <2>3. IsFiniteSet(({a} \cup {b}) \cup {c})
    BY <2>2, FS_AddElement
  <2>4. {a, b, c} = ({a} \cup {b}) \cup {c}
    OBVIOUS
  <2>5. QED
    BY <2>3, <2>4
<1>2. Fields = {"activity", "actor", "inputs"} \cup {"outputs", "relation", "condition"}
                 \cup {"crud", "system", "data_type"}
  BY DEF Fields, FieldsOf, RecordTypes
<1>3. QED
  BY <1>1, <1>2, FS_Union

LEMMA RegisterFollows ==
  ASSUME NEW s \in State, NEW u \in UtteranceIds
  PROVE  /\ Follows(s, Register(s, u), {})
         /\ Register(s, u).claims = s.claims
<1> DEFINE t == Register(s, u)
<1>1. /\ t \in State /\ t.claims = s.claims /\ t.issues = s.issues
      /\ t.completion = s.completion
  BY DEF Register, State
<1>2. QED
  BY <1>1 DEF Follows, AllEvidence

LEMMA CompleteFollows ==
  ASSUME NEW s \in State, NEW unresolved \in SUBSET IssueIds,
         NEW evidence \in SUBSET Evidence
  PROVE  /\ Follows(s, Complete(s, unresolved, evidence), evidence)
         /\ Complete(s, unresolved, evidence).claims = s.claims
<1> DEFINE t == Complete(s, unresolved, evidence)
           ended == [ status |-> "ended", unresolved |-> unresolved,
                      confirmation |-> evidence ]
<1>1. ended \in Completion
  BY DEF Completion
<1>2. t = [s EXCEPT !.completion = ended]
  BY DEF Complete
<1>3. /\ t \in State /\ t.claims = s.claims /\ t.issues = s.issues
      /\ t.completion = ended
  <2> HIDE DEF ended, t
  <2>1. QED
    BY <1>1, <1>2 DEF State
<1>4. t.completion.confirmation = evidence
  BY <1>3
<1>5. AllEvidence(t) \subseteq AllEvidence(s) \cup evidence
  <2> HIDE DEF ended, t
  <2>1. QED
    BY <1>3, <1>4, EvidenceOf
<1>6. QED
  BY <1>3, <1>5 DEF Follows

LEMMA IssueFollows ==
  ASSUME NEW s \in State, NEW issue \in IssueIds,
         NEW kind \in {"unknown", "contradiction", "exception"},
         NEW targets \in SUBSET RecordIds, NEW claims \in SUBSET ClaimIds,
         NEW resolution \in ClaimIds \cup {NoClaim},
         NEW evidence \in SUBSET Evidence
  PROVE  LET t == RecordIssue(s, issue, kind, targets, claims, resolution, evidence)
         IN  Follows(s, t, evidence) /\ t.claims = s.claims
<1> DEFINE t == RecordIssue(s, issue, kind, targets, claims, resolution, evidence)
           new == [ id |-> issue, kind |-> kind, targets |-> targets,
                    claims |-> claims, resolution |-> resolution,
                    evidence |-> evidence ]
<1>1. new \in Issue /\ new.evidence = evidence
  BY DEF Issue
<1>2. t = [s EXCEPT !.issues = @ \cup {new}]
  BY DEF RecordIssue
<1>3. /\ t \in State /\ t.claims = s.claims /\ t.issues = s.issues \cup {new}
      /\ t.completion = s.completion
  <2> HIDE DEF new, t
  <2>1. QED
    BY <1>1, <1>2 DEF State
<1>4. AllEvidence(t) \subseteq AllEvidence(s) \cup evidence
  <2> HIDE DEF new, t
  <2>1. ASSUME NEW e \in AllEvidence(t)
        PROVE  e \in AllEvidence(s) \cup evidence
    BY <1>1, <1>3, EvidenceOf
  <2>2. QED
    BY <2>1
<1>5. QED
  BY <1>3, <1>4 DEF Follows

LEMMA RecordFollows ==
  ASSUME NEW s \in State, NEW type \in RecordTypes, NEW r \in RecordIds, NEW said,
         DOMAIN said \subseteq Fields, \A f \in DOMAIN said : said[f] \in SaidOf(f),
         NEW status \in ClaimStatuses, NEW evidence \in SUBSET Evidence
  PROVE  LET t == Record(s, type, r, said, status, evidence)
         IN  /\ Follows(s, t, evidence)
             /\ s.claims \subseteq t.claims
             /\ \A c \in t.claims \ s.claims :
                  c.supersedes = NoClaim /\ c.id[3] = 0 /\ c.id \in ClaimIds
<1> DEFINE t == Record(s, type, r, said, status, evidence)
           New(f) == [ id         |-> <<r, f, 0>>,
                       value      |-> ValueSaid(said[f]),
                       evidence   |-> evidence,
                       status     |-> status,
                       supersedes |-> NoClaim ]
           news == {New(f) : f \in DOMAIN said}
           projected == [rf \in DOMAIN s.projection |->
                           IF rf[1] = r /\ rf[2] \in DOMAIN said
                           THEN ValueSaid(said[rf[2]]) ELSE s.projection[rf]]
           known == WithEntities(s.entities, ItemsOfRequest(type, said))
<1>1. \A f \in DOMAIN said : ValueSaid(said[f]) \in Value
  BY ValueSaidTyped
<1>2. ASSUME NEW f \in DOMAIN said
      PROVE  /\ New(f) \in Claim /\ New(f).evidence = evidence
             /\ New(f).supersedes = NoClaim /\ New(f).id[3] = 0 /\ New(f).id \in ClaimIds
  <2>1. <<r, f, 0>> \in ClaimIds
    BY DEF ClaimIds
  <2>2. QED
    BY <1>1, <2>1 DEF Claim
<1>3. projected \in [RecordIds \X Fields -> Value]
  <2>1. s.projection \in [RecordIds \X Fields -> Value]
    BY StateFields
  <2>2. QED
    BY <1>1, <2>1
<1>4. known \in SUBSET Entity
  <2>1. s.entities \in SUBSET Entity
    BY StateFields
  <2>2. QED
    BY <2>1, ItemsOfRequestTyped, WithEntitiesTyped
<1>5. IsFiniteSet(news)
  <2> DEFINE g == [f \in DOMAIN said |-> New(f)]
  <2>1. IsFiniteSet(DOMAIN said)
    BY FieldsFinite, FS_Subset
  <2>2. g \in Surjection(DOMAIN said, news)
    BY DEF Surjection
  <2> HIDE DEF g, news
  <2>3. QED
    BY <2>1, <2>2, FS_Surjection
<1>6. t = [s EXCEPT !.records = @ \cup {<<type, r>>}, !.projection = projected,
                    !.entities = known, !.claims = @ \cup news]
  BY DEF Record
<1> HIDE DEF t, New, projected, known
<1>7. /\ t \in State /\ t.claims = s.claims \cup news /\ t.issues = s.issues
      /\ t.completion = s.completion
  <2>1. news \subseteq Claim
    BY <1>2
  <2> HIDE DEF news
  <2>2. s.records \cup {<<type, r>>} \in SUBSET (RecordTypes \X RecordIds)
    BY StateFields
  <2>3. s.claims \cup news \in SUBSET Claim
    BY <2>1, StateFields
  <2> DEFINE records == s.records \cup {<<type, r>>}
             claims == s.claims \cup news
  <2>4. t = [s EXCEPT !.records = records, !.projection = projected,
                      !.entities = known, !.claims = claims]
    BY <1>6
  <2>5. /\ records \in SUBSET (RecordTypes \X RecordIds)
        /\ claims \in SUBSET Claim
    BY <2>2, <2>3
  <2> HIDE DEF records, claims
  <2>6. t = [ utterances |-> s.utterances, claims |-> claims, records |-> records,
              projection |-> projected, entities |-> known, issues |-> s.issues,
              completion |-> s.completion ]
    BY <2>4 DEF State
  <2>7. /\ s.utterances \in SUBSET UtteranceIds /\ s.issues \in SUBSET Issue
        /\ s.completion \in Completion
    BY StateFields
  <2>8. t \in State
    BY <1>3, <1>4, <2>5, <2>6, <2>7 DEF State
  <2>9. QED
    BY <2>6, <2>8 DEF claims
<1>8. AllEvidence(t) \subseteq AllEvidence(s) \cup evidence
  BY <1>2, <1>7, EvidenceOf
<1>9. ASSUME IsFiniteSet(s.claims)
      PROVE  IsFiniteSet(t.claims)
  <2> HIDE DEF news
  <2>1. IsFiniteSet(s.claims \cup news)
    BY <1>5, <1>9, FS_Union
  <2>2. QED
    BY <1>7, <2>1
<1>10. Follows(s, t, evidence)
  BY <1>7, <1>8, <1>9 DEF Follows
<1>11. \A c \in t.claims \ s.claims :
         c.supersedes = NoClaim /\ c.id[3] = 0 /\ c.id \in ClaimIds
  BY <1>2, <1>7
<1>12. QED
  BY <1>7, <1>10, <1>11 DEF t

(* A revision: the claims stay, but for the status of the one it supersedes, *)
(* and a new one is added.                                                   *)
LEMMA ReviseFollows ==
  ASSUME NEW s \in State, IsFiniteSet(s.claims), NEW r \in RecordIds, NEW f \in Fields,
         NEW said \in SaidOf(f), NEW status \in ClaimStatuses,
         NEW evidence \in SUBSET Evidence
  PROVE  LET t   == Revise(s, r, f, said, status, evidence)
             new == NewClaim(s, r, f, said, status, evidence)
         IN  /\ Follows(s, t, evidence)
             /\ new \in t.claims /\ new \in Claim
             /\ new.id = <<r, f, NextRevision(s, r, f)>>
             /\ \A c \in t.claims : c = new \/ \E d \in s.claims :
                  c.id = d.id /\ c.supersedes = d.supersedes
             /\ \A d \in s.claims : \/ d \in t.claims
                                    \/ [d EXCEPT !.status = "rejected"] \in t.claims
<1> DEFINE t == Revise(s, r, f, said, status, evidence)
           new == NewClaim(s, r, f, said, status, evidence)
           old == Superseded(s, r, f, status)
           Kept(c) == IF c.id \in old THEN [c EXCEPT !.status = "rejected"] ELSE c
           kept == {Kept(c) : c \in s.claims}
           projected == IF status = "rejected" THEN s.projection
                        ELSE [s.projection EXCEPT ![<<r, f>>] = ValueSaid(said)]
           known == IF status = "rejected" THEN s.entities
                    ELSE WithEntities(s.entities, ItemsSaid(f, said))
<1>1. s.claims \in SUBSET Claim
  BY StateFields
<1>2. \A c \in s.claims : Kept(c) \in Claim /\ Kept(c).id = c.id
                         /\ Kept(c).evidence = c.evidence
                         /\ Kept(c).supersedes = c.supersedes
                         /\ (Kept(c) = c \/ Kept(c) = [c EXCEPT !.status = "rejected"])
  BY <1>1 DEF Claim, ClaimStatuses
<1>3. old \subseteq ClaimIds
  BY <1>1 DEF Superseded, CurrentClaims, Claim
<1>4. /\ new \in Claim /\ new.evidence = evidence
      /\ new.id = <<r, f, NextRevision(s, r, f)>>
  <2>1. <<r, f, NextRevision(s, r, f)>> \in ClaimIds
    BY NextRevisionFresh DEF ClaimIds
  <2>2. (IF old = {} THEN NoClaim ELSE CHOOSE c \in old : TRUE) \in ClaimIds \cup {NoClaim}
    BY <1>3
  <2>3. ValueSaid(said) \in Value
    BY ValueSaidTyped
  <2> HIDE DEF old
  <2>4. QED
    BY <2>1, <2>2, <2>3 DEF NewClaim, Claim, old
<1>5. projected \in [RecordIds \X Fields -> Value]
  <2>1. s.projection \in [RecordIds \X Fields -> Value]
    BY StateFields
  <2>2. ValueSaid(said) \in Value
    BY ValueSaidTyped
  <2>3. QED
    BY <2>1, <2>2
<1>6. known \in SUBSET Entity
  <2>1. s.entities \in SUBSET Entity
    BY StateFields
  <2>2. QED
    BY <2>1, ItemsSaidTyped, WithEntitiesTyped
<1>7. IsFiniteSet(kept)
  <2> DEFINE g == [c \in s.claims |-> Kept(c)]
  <2>1. g \in Surjection(s.claims, kept)
    BY DEF Surjection
  <2> HIDE DEF g, kept
  <2>2. QED
    BY <2>1, FS_Surjection
<1> DEFINE claims == kept \cup {new}
<1>8. t = [s EXCEPT !.claims = claims, !.projection = projected, !.entities = known]
  BY DEF Revise
<1>9. claims \in SUBSET Claim
  BY <1>2, <1>4
<1> HIDE DEF t, new, old, Kept, projected, known
<1>10. /\ t \in State /\ t.claims = claims /\ t.issues = s.issues
       /\ t.completion = s.completion
  <2> HIDE DEF claims
  <2>1. QED
    BY <1>5, <1>6, <1>8, <1>9 DEF State
<1>11. AllEvidence(t) \subseteq AllEvidence(s) \cup evidence
  <2>1. ASSUME NEW e \in AllEvidence(t)
        PROVE  e \in AllEvidence(s) \cup evidence
    BY <1>2, <1>4, <1>10, EvidenceOf
  <2>2. QED
    BY <2>1
<1>12. IsFiniteSet(t.claims)
  BY <1>7, <1>10, FS_AddElement
<1>13. Follows(s, t, evidence)
  BY <1>10, <1>11, <1>12 DEF Follows
<1>14. \A c \in t.claims : c = new \/ \E d \in s.claims :
          c.id = d.id /\ c.supersedes = d.supersedes
  BY <1>2, <1>10
<1>15. \A d \in s.claims : \/ d \in t.claims
                          \/ [d EXCEPT !.status = "rejected"] \in t.claims
  <2>1. \A d \in s.claims : Kept(d) \in t.claims
    BY <1>10
  <2>2. QED
    BY <2>1, <1>2
<1>16. new \in t.claims
  BY <1>10
<1>17. QED
  BY <1>4, <1>13, <1>14, <1>15, <1>16 DEF t, new
-----------------------------------------------------------------------------
(* The correction history.  Linear is HistoryLinear of any state; the last   *)
(* conjunct follows from the validator, the others from the operations.      *)
Gapless(s) ==
  \A c \in s.claims : \A n \in 0..c.id[3] : <<c.id[1], c.id[2], n>> \in ClaimIdsOf(s)

Forward(s) ==
  \A c \in s.claims : c.supersedes # NoClaim => c.supersedes[3] < c.id[3]

Unforked(s) ==
  \A c, d \in s.claims : c.supersedes # NoClaim /\ c.supersedes = d.supersedes => c = d

Settled(s) ==
  \A c, d \in s.claims : d.supersedes = c.id => c.status = "rejected"

Linear(s) == Gapless(s) /\ Forward(s) /\ Unforked(s) /\ Settled(s)

LEMMA LinearIsHistoryLinear == HistoryLinear <=> Linear(state)
BY DEF HistoryLinear, Linear, Gapless, Forward, Unforked, Settled

(* A claim's id is a triple, which NoClaim is not. *)
LEMMA IdIsClaim ==
  ASSUME NEW id \in ClaimIds
  PROVE  /\ id # NoClaim /\ id[3] \in Nat
         /\ id = <<id[1], id[2], id[3]>>
BY DEF ClaimIds, NoClaim

LEMMA ValidSettled ==
  ASSUME NEW s \in State, Valid(s)
  PROVE  Settled(s)
<1> SUFFICES ASSUME NEW c \in s.claims, NEW d \in s.claims, d.supersedes = c.id
             PROVE  c.status = "rejected"
  BY DEF Settled
<1>1. c.id # NoClaim
  BY StateFields, IdIsClaim DEF Claim
<1>2. PICK e \in s.claims : e.id = d.supersedes /\ e.status = "rejected"
  BY <1>1 DEF Valid, SupersededRejected
<1>3. e = c
  BY <1>2 DEF Valid, IdsUnique
<1>4. QED
  BY <1>2, <1>3

LEMMA SameClaimsLinear ==
  ASSUME NEW s, NEW t, Linear(s), t.claims = s.claims
  PROVE  Linear(t)
BY DEF Linear, Gapless, Forward, Unforked, Settled, ClaimIdsOf

(* Recording adds first claims, which supersede nothing. *)
LEMMA AddedLinear ==
  ASSUME NEW s \in State, NEW t \in State, Linear(s), Valid(t),
         s.claims \subseteq t.claims,
         \A c \in t.claims \ s.claims :
           c.supersedes = NoClaim /\ c.id[3] = 0 /\ c.id \in ClaimIds
  PROVE  Linear(t)
<1>1. Gapless(t)
  <2> SUFFICES ASSUME NEW c \in t.claims, NEW n \in 0..c.id[3]
               PROVE  <<c.id[1], c.id[2], n>> \in ClaimIdsOf(t)
    BY DEF Gapless
  <2>1. CASE c \in s.claims
    BY <2>1 DEF Linear, Gapless, ClaimIdsOf
  <2>2. CASE c \notin s.claims
    <3>1. c.id[3] = 0 /\ c.id \in ClaimIds
      BY <2>2
    <3>2. n = 0
      BY <3>1
    <3>3. <<c.id[1], c.id[2], n>> = c.id
      BY <3>1, <3>2, IdIsClaim
    <3>4. QED
      BY <3>3 DEF ClaimIdsOf
  <2>3. QED
    BY <2>1, <2>2
<1>2. Forward(t)
  BY DEF Linear, Forward
<1>3. Unforked(t)
  BY DEF Linear, Unforked
<1>4. QED
  BY <1>1, <1>2, <1>3, ValidSettled DEF Linear

(* A revision's claim takes the next number and supersedes the claim that    *)
(* was current, which nothing had superseded.                                *)
LEMMA RevisedLinear ==
  ASSUME NEW s \in State, IsFiniteSet(s.claims), NEW r \in RecordIds, NEW f \in Fields,
         NEW said \in SaidOf(f), NEW status \in ClaimStatuses,
         NEW evidence \in SUBSET Evidence,
         Linear(s), Valid(Revise(s, r, f, said, status, evidence))
  PROVE  Linear(Revise(s, r, f, said, status, evidence))
<1> DEFINE t   == Revise(s, r, f, said, status, evidence)
           new == NewClaim(s, r, f, said, status, evidence)
           old == Superseded(s, r, f, status)
           rev == NextRevision(s, r, f)
<1>1. /\ t \in State /\ Valid(t)
      /\ new \in t.claims /\ new.id = <<r, f, rev>>
      /\ \A c \in t.claims : c = new \/ \E d \in s.claims :
            c.id = d.id /\ c.supersedes = d.supersedes
      /\ \A d \in s.claims : d \in t.claims \/ [d EXCEPT !.status = "rejected"] \in t.claims
  BY ReviseFollows DEF Follows
<1>2. /\ rev \in Nat /\ <<r, f, rev>> \notin ClaimIdsOf(s)
      /\ \A m \in 0..(rev - 1) : <<r, f, m>> \in ClaimIdsOf(s)
  BY NextRevisionFresh
<1>3. \A d \in s.claims : d \in Claim /\ d.id \in ClaimIds
  BY StateFields DEF Claim
<1>4. ClaimIdsOf(s) \subseteq ClaimIdsOf(t)
  <2>1. ASSUME NEW d \in s.claims
        PROVE  \E c \in t.claims : c.id = d.id
    <3>1. [d EXCEPT !.status = "rejected"].id = d.id
      BY <1>3 DEF Claim
    <3>2. QED
      BY <1>1, <3>1
  <2>2. QED
    BY <2>1 DEF ClaimIdsOf
<1>5. new.supersedes = NoClaim \/ new.supersedes \in old
  <2>1. new.supersedes = IF old = {} THEN NoClaim ELSE CHOOSE c \in old : TRUE
    BY DEF NewClaim
  <2> HIDE DEF old, new
  <2>2. QED
    BY <2>1
<1>6. \A id \in old : \E d \in s.claims :
        d.id = id /\ d.status # "rejected" /\ d.id[1] = r /\ d.id[2] = f
  BY DEF Superseded, CurrentClaims
<1> HIDE DEF t, new, old, rev
<1>7. Gapless(t)
  <2> SUFFICES ASSUME NEW c \in t.claims, NEW n \in 0..c.id[3]
               PROVE  <<c.id[1], c.id[2], n>> \in ClaimIdsOf(t)
    BY DEF Gapless
  <2>1. CASE c = new
    <3>1. c.id[1] = r /\ c.id[2] = f /\ c.id[3] = rev
      BY <2>1, <1>1
    <3>2. CASE n = rev
      BY <1>1, <3>1, <3>2 DEF ClaimIdsOf
    <3>3. CASE n # rev
      BY <1>2, <1>4, <3>1, <3>3
    <3>4. QED
      BY <3>2, <3>3
  <2>2. CASE \E d \in s.claims : c.id = d.id /\ c.supersedes = d.supersedes
    BY <2>2, <1>4 DEF Linear, Gapless
  <2>3. QED
    BY <1>1, <2>1, <2>2
<1>8. Forward(t)
  <2> SUFFICES ASSUME NEW c \in t.claims, c.supersedes # NoClaim
               PROVE  c.supersedes[3] < c.id[3]
    BY DEF Forward
  <2>1. CASE c = new
    <3>1. PICK d \in s.claims : d.id = c.supersedes /\ d.id[1] = r /\ d.id[2] = f
      BY <2>1, <1>5, <1>6
    <3>2. d.id[3] \in Nat
      BY <1>3, IdIsClaim
    <3>3. ASSUME rev <= d.id[3]
          PROVE  FALSE
      <4>1. rev \in 0..d.id[3]
        BY <1>2, <3>2, <3>3
      <4>2. <<d.id[1], d.id[2], rev>> \in ClaimIdsOf(s)
        BY <4>1 DEF Linear, Gapless
      <4>3. QED
        BY <4>2, <3>1, <1>2
    <3>4. c.id[3] = rev
      BY <2>1, <1>1
    <3>5. QED
      BY <3>1, <3>2, <3>3, <3>4, <1>2
  <2>2. CASE \E d \in s.claims : c.id = d.id /\ c.supersedes = d.supersedes
    BY <2>2 DEF Linear, Forward
  <2>3. QED
    BY <1>1, <2>1, <2>2
<1>9. ASSUME NEW d \in s.claims, d.supersedes # NoClaim, d.supersedes = new.supersedes
      PROVE  FALSE
  <2>1. PICK e \in s.claims : e.id = new.supersedes /\ e.status # "rejected"
    BY <1>5, <1>6, <1>9
  <2>2. e.status = "rejected"
    BY <2>1, <1>9 DEF Linear, Settled
  <2>3. QED
    BY <2>1, <2>2
<1>10. Unforked(t)
  <2> SUFFICES ASSUME NEW c \in t.claims, NEW d \in t.claims,
                      c.supersedes # NoClaim, c.supersedes = d.supersedes
               PROVE  c = d
    BY DEF Unforked
  <2>1. CASE c = new \/ d = new
    BY <2>1, <1>1, <1>9
  <2>2. CASE c # new /\ d # new
    <3>1. PICK b \in s.claims : c.id = b.id /\ c.supersedes = b.supersedes
      BY <2>2, <1>1
    <3>2. PICK e \in s.claims : d.id = e.id /\ d.supersedes = e.supersedes
      BY <2>2, <1>1
    <3>3. b = e
      BY <3>1, <3>2 DEF Linear, Unforked
    <3>4. QED
      BY <3>1, <3>2, <3>3, <1>1 DEF Valid, IdsUnique
  <2>3. QED
    BY <2>1, <2>2
<1>11. QED
  BY <1>1, <1>7, <1>8, <1>10, ValidSettled DEF Linear, t
-----------------------------------------------------------------------------
(* Inductive invariant.  The evidence numbers stay below the harness's next  *)
(* number: that makes the numbers it prepares new, and a restart harmless.   *)
(* The claims are finite in number, so there is always a next revision.      *)

EvidenceBelow == \A e \in AllEvidence(state) : e.number < next_evidence

Inv ==
  /\ TypeOK
  /\ IsFiniteSet(state.claims)
  /\ Valid(state)
  /\ Linear(state)
  /\ EvidenceBelow
  /\ EvidenceDistinct

LEMMA EmptyValid ==
  /\ EmptyState \in State /\ IsFiniteSet(EmptyState.claims)
  /\ Valid(EmptyState) /\ Linear(EmptyState)
  /\ AllEvidence(EmptyState) = {}
<1> DEFINE s == EmptyState
<1>1. /\ s.utterances = {} /\ s.claims = {} /\ s.records = {} /\ s.entities = {}
      /\ s.issues = {} /\ s.completion.confirmation = {} /\ s.completion.unresolved = {}
      /\ s.projection = [rf \in RecordIds \X Fields |-> Unset]
  BY DEF EmptyState
<1>2. s \in State
  <2>1. Unset \in Value
    BY DEF Unset, Value
  <2>2. [rf \in RecordIds \X Fields |-> Unset] \in [RecordIds \X Fields -> Value]
    BY <2>1
  <2>3. [status |-> "active", unresolved |-> {}, confirmation |-> {}] \in Completion
    BY DEF Completion
  <2>4. QED
    BY <2>2, <2>3 DEF EmptyState, State
<1>3. AllEvidence(s) = {}
  BY <1>1, EvidenceOf
<1>4. \A r \in RecordIds, f \in Fields : s.projection[<<r, f>>] = Unset
  BY <1>1
<1> HIDE DEF s
<1>5. IdsUnique(s) /\ SupersededRejected(s) /\ ConfirmedGrounded(s) /\ IssuesRefer(s)
  BY <1>1 DEF IdsUnique, SupersededRejected, ConfirmedGrounded, IssuesRefer, RecordsOf
<1>6. EvidenceQuoted(s)
  BY <1>3 DEF EvidenceQuoted
<1>7. EntitiesKnown(s)
  <2>1. EntityFields \subseteq Fields
    BY DEF EntityFields, Fields, FieldsOf, RecordTypes
  <2>2. Unset.state # "value"
    BY DEF Unset
  <2>3. QED
    BY <1>4, <2>1, <2>2 DEF EntitiesKnown
<1>8. EndpointsKnown(s)
  BY <1>1 DEF EndpointsKnown, RecordsOf
<1>9. ClaimsExplain(s)
  BY <1>1, <1>4 DEF ClaimsExplain, CurrentClaims
<1>10. Valid(s)
  BY <1>5, <1>6, <1>7, <1>8, <1>9 DEF Valid
<1>11. Linear(s)
  BY <1>1 DEF Linear, Gapless, Forward, Unforked, Settled
<1>12. QED
  BY <1>1, <1>2, <1>3, <1>10, <1>11, FS_EmptySet DEF s

LEMMA RegisterValid ==
  ASSUME NEW s \in State, Valid(s), NEW u \in UtteranceIds
  PROVE  Valid(Register(s, u))
<1> DEFINE t == Register(s, u)
<1>1. /\ t.utterances = s.utterances \cup {u} /\ t.claims = s.claims
      /\ t.records = s.records /\ t.projection = s.projection /\ t.entities = s.entities
      /\ t.issues = s.issues /\ t.completion = s.completion
  BY DEF Register, State
<1> HIDE DEF t
<1>2. AllEvidence(t) = AllEvidence(s)
  BY <1>1 DEF AllEvidence
<1>3. EvidenceQuoted(t)
  BY <1>1, <1>2 DEF Valid, EvidenceQuoted
<1>4. /\ ClaimIdsOf(t) = ClaimIdsOf(s) /\ OpenQuestions(t) = OpenQuestions(s)
      /\ \A type : RecordsOf(t, type) = RecordsOf(s, type)
      /\ \A r, f : CurrentClaims(t, r, f) = CurrentClaims(s, r, f)
  BY <1>1 DEF ClaimIdsOf, OpenQuestions, RecordsOf, CurrentClaims
<1>5. IdsUnique(t) /\ SupersededRejected(t) /\ ConfirmedGrounded(t) /\ IssuesRefer(t)
  BY <1>1, <1>4 DEF Valid, IdsUnique, SupersededRejected, ConfirmedGrounded, IssuesRefer
<1>6. EntitiesKnown(t) /\ EndpointsKnown(t)
  BY <1>1, <1>4 DEF Valid, EntitiesKnown, EndpointsKnown
<1>7. ClaimsExplain(t)
  BY <1>1, <1>4 DEF Valid, ClaimsExplain
<1>8. QED
  BY <1>3, <1>5, <1>6, <1>7 DEF Valid, t

(* Highest: no number in the state exceeds it, if all are below some bound.  *)
LEMMA HighestBounds ==
  ASSUME NEW s \in State, NEW b \in Nat, \A e \in AllEvidence(s) : e.number < b
  PROVE  /\ HighestEvidence(s) \in Nat
         /\ \A e \in AllEvidence(s) : e.number <= HighestEvidence(s)
<1> DEFINE numbers == {e.number : e \in AllEvidence(s)}
<1>1. numbers \subseteq Nat /\ \A n \in numbers : n <= b
  <2>1. \A e \in AllEvidence(s) : e.number \in Nat
    BY EvidenceTyped DEF Evidence
  <2>2. QED
    BY <2>1
<1>2. HighestEvidence(s) =
        IF numbers = {} THEN 0 ELSE CHOOSE n \in numbers : \A m \in numbers : m <= n
  BY DEF HighestEvidence
<1>3. CASE numbers = {}
  BY <1>2, <1>3
<1>4. CASE numbers # {}
  <2> HIDE DEF numbers
  <2>1. \E n \in numbers : \A m \in numbers : m <= n
    BY <1>1, <1>4, GreatestExists
  <2>2. HighestEvidence(s) \in numbers /\ \A m \in numbers : m <= HighestEvidence(s)
    BY <1>2, <1>4, <2>1
  <2>3. \A e \in AllEvidence(s) : e.number \in numbers
    BY DEF numbers
  <2>4. QED
    BY <1>1, <2>2, <2>3
<1>5. QED
  BY <1>3, <1>4

(* An operation whose state is typed, valid and linear, and whose evidence   *)
(* was prepared for it, keeps the invariant, whatever its result.            *)
LEMMA CommitKeepsInv ==
  ASSUME Inv, NEW citations \in CitationLists, NEW built, NEW result,
         Commit(result, built, citations), last' \in Call,
         result = "ok" => /\ Follows(state, built, Resolved(citations))
                          /\ Valid(built)
                          /\ Linear(built)
  PROVE  Inv'
<1>1. CASE result # "ok"
  <2>1. state' = state /\ next_evidence' = next_evidence
    BY <1>1 DEF Commit
  <2>2. QED
    BY <2>1 DEF Inv, TypeOK, EvidenceBelow, EvidenceDistinct
<1>2. CASE result = "ok"
  <2> DEFINE fresh == Resolved(citations)
  <2>1. state' = built /\ next_evidence' = next_evidence + Len(citations)
    BY <1>2 DEF Commit
  <2>2. next_evidence \in Nat \ {0} /\ state \in State
    BY DEF Inv, TypeOK
  <2>3. /\ Len(citations) \in Nat
        /\ \A e \in fresh : next_evidence <= e.number
                            /\ e.number < next_evidence + Len(citations)
        /\ \A e, f \in fresh : e.number = f.number => e = f
    BY <2>2, PreparedNumbers DEF Resolved
  <2>4. /\ built \in State /\ IsFiniteSet(built.claims)
        /\ AllEvidence(built) \subseteq AllEvidence(state) \cup fresh
    BY <1>2 DEF Follows, Inv
  <2>5. /\ \A e \in AllEvidence(state) : e.number < next_evidence
        /\ \A e, f \in AllEvidence(state) : e.number = f.number => e = f
        /\ \A e \in AllEvidence(built) : e.number \in Nat
    BY <2>4, EvidenceTyped DEF Inv, EvidenceBelow, EvidenceDistinct, Evidence
  <2> HIDE DEF fresh
  <2>6. \A e \in AllEvidence(built) : e.number < next_evidence + Len(citations)
    BY <2>2, <2>3, <2>4, <2>5
  <2>7. ASSUME NEW e \in AllEvidence(built), NEW f \in AllEvidence(built),
               e.number = f.number
        PROVE  e = f
    <3>1. CASE e \in fresh <=> f \in fresh
      BY <2>3, <2>4, <2>5, <2>7, <3>1
    <3>2. CASE ~ (e \in fresh <=> f \in fresh)
      BY <2>2, <2>3, <2>4, <2>5, <2>7, <3>2
    <3>3. QED
      BY <3>1, <3>2
  <2>8. EvidenceBelow' /\ EvidenceDistinct'
    BY <2>1, <2>6, <2>7 DEF EvidenceBelow, EvidenceDistinct
  <2>9. TypeOK'
    BY <2>1, <2>2, <2>3, <2>4 DEF TypeOK
  <2>10. QED
    BY <1>2, <2>1, <2>4, <2>8, <2>9 DEF Inv
<1>3. QED
  BY <1>1, <1>2

LEMMA OutcomeTyped ==
  ASSUME NEW op \in Operations, NEW result \in {"ok", "refused", "rejected"}
  PROVE  Outcome(op, result) \in Call
BY DEF Outcome, Call

LEMMA ResultOk ==
  ASSUME NEW can \in BOOLEAN, NEW built, NEW citations
  PROVE  /\ Result(can, built, citations) \in {"ok", "refused", "rejected"}
         /\ Result(can, built, citations) = "ok" => can /\ Valid(built)
BY DEF Result
-----------------------------------------------------------------------------
(* Every action keeps the invariant. *)

LEMMA InitInv == Init => Inv
<1> SUFFICES ASSUME Init PROVE Inv
  OBVIOUS
<1>1. state = EmptyState /\ last = Outcome("restart", "ok")
  BY DEF Init
<1>2. next_evidence \in Nat \ {0}
  <2>1. HighestEvidence(EmptyState) \in Nat
    BY EmptyValid, HighestBounds
  <2>2. QED
    BY <2>1 DEF Init
<1>3. last \in Call
  BY <1>1, OutcomeTyped DEF Operations
<1>4. QED
  BY <1>1, <1>2, <1>3, EmptyValid DEF Inv, TypeOK, EvidenceBelow, EvidenceDistinct

LEMMA RegisterInv ==
  ASSUME Inv, RegisterUtterance
  PROVE  Inv'
<1>1. PICK u \in UtteranceIds :
        LET result == IF CanRegister(state, u) THEN "ok" ELSE "refused"
        IN  /\ state' = IF result = "ok" THEN Register(state, u) ELSE state
            /\ last' = Outcome("register_utterance", result)
            /\ UNCHANGED next_evidence
  BY DEF RegisterUtterance
<1>2. last' \in Call
  BY <1>1, OutcomeTyped DEF Operations
<1>3. state \in State
  BY DEF Inv, TypeOK
<1>4. state' = state \/ state' = Register(state, u)
  BY <1>1
<1>5. CASE state' = state
  BY <1>1, <1>2, <1>5 DEF Inv, TypeOK, EvidenceBelow, EvidenceDistinct
<1>6. CASE state' = Register(state, u)
  <2>1. /\ Follows(state, state', {}) /\ state'.claims = state.claims
    BY <1>3, <1>6, RegisterFollows
  <2>2. Valid(state')
    BY <1>3, <1>6, RegisterValid DEF Inv
  <2>3. Linear(state')
    BY <2>1, SameClaimsLinear DEF Inv
  <2>4. AllEvidence(state') \subseteq AllEvidence(state)
    BY <2>1 DEF Follows
  <2>5. QED
    BY <1>1, <1>2, <2>1, <2>2, <2>3, <2>4
    DEF Inv, TypeOK, EvidenceBelow, EvidenceDistinct, Follows
<1>7. QED
  BY <1>4, <1>5, <1>6

(* The three operations that record a new record. *)
LEMMA RecordedInv ==
  ASSUME Inv, NEW type \in RecordTypes, NEW r \in RecordIds, NEW status \in ClaimStatuses,
         NEW citations \in CitationLists, NEW said,
         DOMAIN said \subseteq Fields, \A f \in DOMAIN said : said[f] \in SaidOf(f),
         NEW can \in BOOLEAN, NEW built,
         built = Record(state, type, r, said, status, Resolved(citations)),
         Commit(Result(can, built, citations), built, citations), last' \in Call
  PROVE  Inv'
<1>1. state \in State /\ next_evidence \in Nat \ {0}
  BY DEF Inv, TypeOK
<1>2. Resolved(citations) \in SUBSET Evidence
  BY <1>1, PreparedNumbers DEF Resolved
<1>3. /\ Follows(state, built, Resolved(citations))
      /\ state.claims \subseteq built.claims
      /\ \A c \in built.claims \ state.claims :
           c.supersedes = NoClaim /\ c.id[3] = 0 /\ c.id \in ClaimIds
  BY <1>1, <1>2, RecordFollows
<1>4. ASSUME Valid(built)
      PROVE  Linear(built)
  BY <1>1, <1>3, <1>4, AddedLinear DEF Inv, Follows
<1>5. Result(can, built, citations) = "ok" => Valid(built)
  BY ResultOk
<1>6. QED
  BY <1>3, <1>4, <1>5, CommitKeepsInv

LEMMA RecordProcessStepInv ==
  ASSUME Inv, RecordProcessStep
  PROVE  Inv'
<1>1. PICK r \in RecordIds, status \in ClaimStatuses, citations \in CitationLists,
           said \in Requests({"activity"}, {"actor", "inputs", "outputs"}) :
        LET can    == /\ citations # <<>>
                      /\ CanRecord(state, "process_step", r, said, status, citations)
            built  == Record(state, "process_step", r, said, status, Resolved(citations))
            result == Result(can, built, citations)
        IN  /\ Commit(result, built, citations)
            /\ last' = Outcome("record_process_step", result)
  BY DEF RecordProcessStep
<1> DEFINE can   == /\ citations # <<>>
                    /\ CanRecord(state, "process_step", r, said, status, citations)
           built == Record(state, "process_step", r, said, status, Resolved(citations))
<1>2. can \in BOOLEAN
  BY DEF CanRecord
<1>3. /\ DOMAIN said \subseteq Fields /\ \A f \in DOMAIN said : said[f] \in SaidOf(f)
      /\ "process_step" \in RecordTypes
  BY RequestTyped DEF Fields, FieldsOf, RecordTypes
<1>4. last' \in Call
  BY <1>1, <1>2, ResultOk, OutcomeTyped DEF Operations
<1>5. Commit(Result(can, built, citations), built, citations)
  BY <1>1
<1> HIDE DEF can
<1>6. QED
  BY <1>2, <1>3, <1>4, <1>5, RecordedInv

LEMMA ConnectProcessStepsInv ==
  ASSUME Inv, ConnectProcessSteps
  PROVE  Inv'
<1>1. PICK r \in RecordIds, status \in ClaimStatuses, citations \in CitationLists,
           kind \in {"source_boundary", "sink_boundary", "normal"},
           said \in Requests({"relation"}, {"condition"}) :
        LET ends   == ValueSaid(said["relation"]).content
            can    == /\ citations # <<>>
                      /\ EndpointsFit(state, kind, ends[1], ends[2])
                      /\ CanRecord(state, "flow", r, said, status, citations)
            built  == Record(state, "flow", r, said, status, Resolved(citations))
            result == Result(can, built, citations)
        IN  /\ Commit(result, built, citations)
            /\ last' = Outcome("connect_process_steps", result)
  BY DEF ConnectProcessSteps
<1> DEFINE ends  == ValueSaid(said["relation"]).content
           can   == /\ citations # <<>>
                    /\ EndpointsFit(state, kind, ends[1], ends[2])
                    /\ CanRecord(state, "flow", r, said, status, citations)
           built == Record(state, "flow", r, said, status, Resolved(citations))
<1>2. can \in BOOLEAN
  BY DEF CanRecord, EndpointsFit
<1>3. /\ DOMAIN said \subseteq Fields /\ \A f \in DOMAIN said : said[f] \in SaidOf(f)
      /\ "flow" \in RecordTypes
  BY RequestTyped DEF Fields, FieldsOf, RecordTypes
<1>4. last' \in Call
  BY <1>1, <1>2, ResultOk, OutcomeTyped DEF Operations
<1>5. Commit(Result(can, built, citations), built, citations)
  BY <1>1
<1> HIDE DEF can
<1>6. QED
  BY <1>2, <1>3, <1>4, <1>5, RecordedInv

LEMMA RecordResourceUsageInv ==
  ASSUME Inv, RecordResourceUsage
  PROVE  Inv'
<1>1. PICK r \in RecordIds, step \in RecordIds, status \in ClaimStatuses,
           citations \in CitationLists,
           said \in Requests({"crud", "system", "data_type"}, {}) :
        LET can    == /\ citations # <<>>
                      /\ step \in RecordsOf(state, "process_step")
                      /\ CanRecord(state, "resource_usage", r, said, status, citations)
            built  == Record(state, "resource_usage", r, said, status, Resolved(citations))
            result == Result(can, built, citations)
        IN  /\ Commit(result, built, citations)
            /\ last' = Outcome("record_resource_usage", result)
  BY DEF RecordResourceUsage
<1> DEFINE can   == /\ citations # <<>>
                    /\ step \in RecordsOf(state, "process_step")
                    /\ CanRecord(state, "resource_usage", r, said, status, citations)
           built == Record(state, "resource_usage", r, said, status, Resolved(citations))
<1>2. can \in BOOLEAN
  BY DEF CanRecord
<1>3. /\ DOMAIN said \subseteq Fields /\ \A f \in DOMAIN said : said[f] \in SaidOf(f)
      /\ "resource_usage" \in RecordTypes
  BY RequestTyped DEF Fields, FieldsOf, RecordTypes
<1>4. last' \in Call
  BY <1>1, <1>2, ResultOk, OutcomeTyped DEF Operations
<1>5. Commit(Result(can, built, citations), built, citations)
  BY <1>1
<1> HIDE DEF can
<1>6. QED
  BY <1>2, <1>3, <1>4, <1>5, RecordedInv

LEMMA RecordIssueInv ==
  ASSUME Inv, RecordIssueOp
  PROVE  Inv'
<1>1. PICK issue \in IssueIds, kind \in {"unknown", "contradiction", "exception"},
           targets \in SUBSET RecordIds, citations \in CitationLists,
           claims \in {c \in SUBSET ClaimIdsOf(state) : Cardinality(c) <= MaxClaims} :
        \E resolution \in {NoClaim} \cup
              (IF kind = "contradiction" THEN ClaimIdsOf(state) ELSE {}) :
          LET can    == /\ citations # <<>>
                        /\ CanRecordIssue(state, issue, kind, targets, claims, resolution)
              built  == RecordIssue(state, issue, kind, targets, claims, resolution,
                                    Resolved(citations))
              result == Result(can, built, citations)
          IN  /\ Commit(result, built, citations)
              /\ last' = Outcome("record_issue", result)
  BY DEF RecordIssueOp
<1>2. PICK resolution \in {NoClaim} \cup
              (IF kind = "contradiction" THEN ClaimIdsOf(state) ELSE {}) :
          LET can    == /\ citations # <<>>
                        /\ CanRecordIssue(state, issue, kind, targets, claims, resolution)
              built  == RecordIssue(state, issue, kind, targets, claims, resolution,
                                    Resolved(citations))
              result == Result(can, built, citations)
          IN  /\ Commit(result, built, citations)
              /\ last' = Outcome("record_issue", result)
  BY <1>1
<1> DEFINE can    == /\ citations # <<>>
                     /\ CanRecordIssue(state, issue, kind, targets, claims, resolution)
           built  == RecordIssue(state, issue, kind, targets, claims, resolution,
                                 Resolved(citations))
<1>3. can \in BOOLEAN
  BY DEF CanRecordIssue
<1>4. last' \in Call
  BY <1>2, <1>3, ResultOk, OutcomeTyped DEF Operations
<1>5. state \in State /\ next_evidence \in Nat \ {0}
  BY DEF Inv, TypeOK
<1>6. ClaimIdsOf(state) \subseteq ClaimIds
  BY <1>5, StateFields DEF ClaimIdsOf, Claim
<1>7. Follows(state, built, Resolved(citations)) /\ built.claims = state.claims
  <2>1. Resolved(citations) \in SUBSET Evidence
    BY <1>5, PreparedNumbers DEF Resolved
  <2>2. claims \in SUBSET ClaimIds /\ resolution \in ClaimIds \cup {NoClaim}
    BY <1>6
  <2>3. QED
    BY <1>5, <2>1, <2>2, IssueFollows
<1>8. Commit(Result(can, built, citations), built, citations)
  BY <1>2
<1> HIDE DEF can, built
<1>9. Result(can, built, citations) = "ok" => Valid(built)
  BY <1>3, ResultOk
<1>10. Linear(built)
  BY <1>7, SameClaimsLinear DEF Inv
<1>11. QED
  BY <1>4, <1>7, <1>8, <1>9, <1>10, CommitKeepsInv

LEMMA ReviseRecordInv ==
  ASSUME Inv, ReviseRecord
  PROVE  Inv'
<1>1. PICK r \in RecordIds, f \in Fields, status \in ClaimStatuses,
           citations \in CitationLists, expected \in ClaimIdsOf(state) \cup {NoClaim} :
        \E said \in Sayable[f] :
          LET can    == /\ citations # <<>>
                        /\ CanRevise(state, r, f, said, status, citations, expected)
              built  == Revise(state, r, f, said, status, Resolved(citations))
              result == Result(can, built, citations)
          IN  /\ Commit(result, built, citations)
              /\ last' = IF result = "ok"
                         THEN [op       |-> "revise_record",
                               result   |-> "ok",
                               claim    |-> <<r, f, NextRevision(state, r, f)>>,
                               expected |-> expected]
                         ELSE Outcome("revise_record", result)
  BY DEF ReviseRecord
<1>2. PICK said \in Sayable[f] :
          LET can    == /\ citations # <<>>
                        /\ CanRevise(state, r, f, said, status, citations, expected)
              built  == Revise(state, r, f, said, status, Resolved(citations))
              result == Result(can, built, citations)
          IN  /\ Commit(result, built, citations)
              /\ last' = IF result = "ok"
                         THEN [op       |-> "revise_record",
                               result   |-> "ok",
                               claim    |-> <<r, f, NextRevision(state, r, f)>>,
                               expected |-> expected]
                         ELSE Outcome("revise_record", result)
  BY <1>1
<1> DEFINE can    == /\ citations # <<>>
                     /\ CanRevise(state, r, f, said, status, citations, expected)
           built  == Revise(state, r, f, said, status, Resolved(citations))
           result == Result(can, built, citations)
<1>3. can \in BOOLEAN
  BY DEF CanRevise
<1>4. /\ state \in State /\ next_evidence \in Nat \ {0} /\ IsFiniteSet(state.claims)
      /\ Linear(state)
  BY DEF Inv, TypeOK
<1>5. said \in SaidOf(f)
  BY RequestsTyped
<1>6. Resolved(citations) \in SUBSET Evidence
  BY <1>4, PreparedNumbers DEF Resolved
<1>7. Follows(state, built, Resolved(citations))
  BY <1>4, <1>5, <1>6, ReviseFollows
<1>8. Valid(built) => Linear(built)
  BY <1>4, <1>5, <1>6, RevisedLinear
<1>9. last' \in Call
  <2>1. <<r, f, NextRevision(state, r, f)>> \in ClaimIds
    BY <1>4, NextRevisionFresh DEF ClaimIds
  <2>2. expected \in ClaimIds \cup {NoClaim}
    BY <1>4, StateFields DEF ClaimIdsOf, Claim
  <2>3. [op |-> "revise_record", result |-> "ok",
         claim |-> <<r, f, NextRevision(state, r, f)>>, expected |-> expected] \in Call
    BY <2>1, <2>2 DEF Call, Operations
  <2>4. Outcome("revise_record", result) \in Call
    BY <1>3, ResultOk, OutcomeTyped DEF Operations
  <2>5. QED
    BY <1>2, <2>3, <2>4
<1>10. Commit(result, built, citations)
  BY <1>2
<1>11. result = "ok" => Valid(built)
  BY <1>3, ResultOk
<1> HIDE DEF can, built, result
<1>12. QED
  BY <1>7, <1>8, <1>9, <1>10, <1>11, CommitKeepsInv

LEMMA CompleteInterviewInv ==
  ASSUME Inv, CompleteInterview
  PROVE  Inv'
<1>1. PICK unresolved \in SUBSET IssueIds, citations \in CitationLists :
        LET can    == CanComplete(state, unresolved, citations)
            built  == Complete(state, unresolved, Resolved(citations))
            result == Result(can, built, citations)
        IN  /\ Commit(result, built, citations)
            /\ last' = Outcome("complete_interview", result)
  BY DEF CompleteInterview
<1> DEFINE can   == CanComplete(state, unresolved, citations)
           built == Complete(state, unresolved, Resolved(citations))
<1>2. can \in BOOLEAN
  BY DEF CanComplete
<1>3. last' \in Call
  BY <1>1, <1>2, ResultOk, OutcomeTyped DEF Operations
<1>4. state \in State /\ next_evidence \in Nat \ {0}
  BY DEF Inv, TypeOK
<1>5. Resolved(citations) \in SUBSET Evidence
  BY <1>4, PreparedNumbers DEF Resolved
<1>6. Follows(state, built, Resolved(citations)) /\ built.claims = state.claims
  BY <1>4, <1>5, CompleteFollows
<1>7. Commit(Result(can, built, citations), built, citations)
  BY <1>1
<1> HIDE DEF can, built
<1>8. Result(can, built, citations) = "ok" => Valid(built)
  BY <1>2, ResultOk
<1>9. Linear(built)
  BY <1>6, SameClaimsLinear DEF Inv
<1>10. QED
  BY <1>3, <1>6, <1>7, <1>8, <1>9, CommitKeepsInv

LEMMA RestartInv ==
  ASSUME Inv, Restart
  PROVE  Inv'
<1>1. /\ state' = state /\ next_evidence' = HighestEvidence(state) + 1
      /\ last' = Outcome("restart", "ok")
  BY DEF Restart
<1>2. /\ HighestEvidence(state) \in Nat
      /\ \A e \in AllEvidence(state) : e.number <= HighestEvidence(state)
  BY HighestBounds DEF Inv, TypeOK, EvidenceBelow
<1>3. \A e \in AllEvidence(state) : e.number \in Nat
  BY EvidenceTyped DEF Inv, TypeOK, Evidence
<1>4. EvidenceBelow'
  BY <1>1, <1>2, <1>3 DEF EvidenceBelow
<1>5. last' \in Call
  BY <1>1, OutcomeTyped DEF Operations
<1>6. QED
  BY <1>1, <1>2, <1>4, <1>5 DEF Inv, TypeOK, EvidenceDistinct

LEMMA NextInv == Inv /\ [Next]_vars => Inv'
<1> SUFFICES ASSUME Inv, [Next]_vars PROVE Inv'
  OBVIOUS
<1>1. CASE RegisterUtterance
  BY <1>1, RegisterInv
<1>2. CASE RecordProcessStep
  BY <1>2, RecordProcessStepInv
<1>3. CASE ConnectProcessSteps
  BY <1>3, ConnectProcessStepsInv
<1>4. CASE RecordResourceUsage
  BY <1>4, RecordResourceUsageInv
<1>5. CASE RecordIssueOp
  BY <1>5, RecordIssueInv
<1>6. CASE ReviseRecord
  BY <1>6, ReviseRecordInv
<1>7. CASE CompleteInterview
  BY <1>7, CompleteInterviewInv
<1>8. CASE Restart
  BY <1>8, RestartInv
<1>9. CASE UNCHANGED vars
  BY <1>9 DEF vars, Inv, TypeOK, EvidenceBelow, EvidenceDistinct
<1>10. QED
  BY <1>1, <1>2, <1>3, <1>4, <1>5, <1>6, <1>7, <1>8, <1>9 DEF Next

(* The invariant holds in every reachable state. *)
THEOREM Invariance == Spec => []Inv
BY InitInv, NextInv, PTL DEF Spec

(* Type correctness. *)
THEOREM TypeCorrect == Spec => []TypeOK
<1>1. Inv => TypeOK
  BY DEF Inv
<1>2. QED
  BY <1>1, Invariance, PTL

(* The state can be reloaded at any moment, register_utterance included. *)
THEOREM AlwaysReloadable == Spec => []Reloadable
<1>1. Inv => Reloadable
  BY DEF Inv, Reloadable
<1>2. QED
  BY <1>1, Invariance, PTL

(* No evidence number is ever issued twice, restarts included. *)
THEOREM EvidenceNeverReused == Spec => []EvidenceDistinct
<1>1. Inv => EvidenceDistinct
  BY DEF Inv
<1>2. QED
  BY <1>1, Invariance, PTL

(* The correction history of every field is one line. *)
THEOREM HistoryIsLinear == Spec => []HistoryLinear
<1>1. Inv => HistoryLinear
  BY LinearIsHistoryLinear DEF Inv
<1>2. QED
  BY <1>1, Invariance, PTL

-----------------------------------------------------------------------------
(* What a step keeps.  Every operation that changes the state needs it       *)
(* active, and each keeps what was recorded.                                 *)
Keeps(s, t) ==
  /\ s.utterances \subseteq t.utterances
  /\ s.records \subseteq t.records
  /\ s.entities \subseteq t.entities
  /\ s.issues \subseteq t.issues
  /\ \A c \in s.claims : c \in t.claims \/ [c EXCEPT !.status = "rejected"] \in t.claims

LEMMA RegisterKeeps ==
  ASSUME NEW s \in State, NEW u
  PROVE  Keeps(s, Register(s, u))
BY DEF State, Register, Keeps

LEMMA RecordKeeps ==
  ASSUME NEW s \in State, NEW type, NEW r, NEW said, NEW status, NEW evidence
  PROVE  Keeps(s, Record(s, type, r, said, status, evidence))
<1> DEFINE known == WithEntities(s.entities, ItemsOfRequest(type, said))
           news == {[ id         |-> <<r, f, 0>>,
                      value      |-> ValueSaid(said[f]),
                      evidence   |-> evidence,
                      status     |-> status,
                      supersedes |-> NoClaim ] : f \in DOMAIN said}
           projected == [rf \in DOMAIN s.projection |->
                           IF rf[1] = r /\ rf[2] \in DOMAIN said
                           THEN ValueSaid(said[rf[2]]) ELSE s.projection[rf]]
           t == [s EXCEPT !.records = @ \cup {<<type, r>>}, !.projection = projected,
                          !.entities = known, !.claims = @ \cup news]
<1>1. s.entities \subseteq known
  BY DEF WithEntities
<1>2. Record(s, type, r, said, status, evidence) = t
  BY DEF Record
<1> HIDE DEF known, news, projected
<1>3. Keeps(s, t)
  BY <1>1 DEF State, Keeps
<1>4. QED
  BY <1>2, <1>3

LEMMA IssueKeeps ==
  ASSUME NEW s \in State, NEW issue, NEW kind, NEW targets, NEW claims, NEW resolution,
         NEW evidence
  PROVE  Keeps(s, RecordIssue(s, issue, kind, targets, claims, resolution, evidence))
BY DEF State, RecordIssue, Keeps

LEMMA CompleteKeeps ==
  ASSUME NEW s \in State, NEW unresolved, NEW evidence
  PROVE  Keeps(s, Complete(s, unresolved, evidence))
BY DEF State, Complete, Keeps

LEMMA ReviseKeeps ==
  ASSUME NEW s \in State, IsFiniteSet(s.claims), NEW r \in RecordIds, NEW f \in Fields,
         NEW said \in SaidOf(f), NEW status \in ClaimStatuses,
         NEW evidence \in SUBSET Evidence
  PROVE  Keeps(s, Revise(s, r, f, said, status, evidence))
<1> DEFINE t == Revise(s, r, f, said, status, evidence)
<1>1. \A c \in s.claims : c \in t.claims \/ [c EXCEPT !.status = "rejected"] \in t.claims
  BY ReviseFollows
<1>2. /\ t.utterances = s.utterances /\ t.records = s.records /\ t.issues = s.issues
      /\ t.entities = IF status = "rejected" THEN s.entities
                      ELSE WithEntities(s.entities, ItemsSaid(f, said))
  BY DEF State, Revise
<1>3. s.entities \subseteq t.entities
  BY <1>2 DEF WithEntities
<1> HIDE DEF t
<1>4. Keeps(s, t)
  BY <1>1, <1>2, <1>3 DEF Keeps
<1>5. QED
  BY <1>4 DEF t

(* What committing an operation does: nothing, or what it built for a        *)
(* request that was let through.                                             *)
LEMMA Committed ==
  ASSUME NEW can \in BOOLEAN, NEW built, NEW citations,
         Commit(Result(can, built, citations), built, citations)
  PROVE  state' = state \/ (can /\ state' = built)
<1>1. CASE Result(can, built, citations) = "ok"
  BY <1>1, ResultOk DEF Commit
<1>2. CASE Result(can, built, citations) # "ok"
  BY <1>2 DEF Commit
<1>3. QED
  BY <1>1, <1>2

LEMMA StepKeeps ==
  ASSUME Inv, Next
  PROVE  state' = state \/ (Active(state) /\ Keeps(state, state'))
<1>1. state \in State /\ IsFiniteSet(state.claims) /\ next_evidence \in Nat \ {0}
  BY DEF Inv, TypeOK
<1>2. CASE RegisterUtterance
  <2>1. PICK u \in UtteranceIds :
          state' = IF CanRegister(state, u) THEN Register(state, u) ELSE state
    BY <1>2 DEF RegisterUtterance
  <2>2. QED
    BY <1>1, <2>1, RegisterKeeps DEF CanRegister
<1>3. CASE RecordProcessStep
  <2>1. PICK r \in RecordIds, status \in ClaimStatuses, citations \in CitationLists,
             said \in Requests({"activity"}, {"actor", "inputs", "outputs"}) :
          LET can   == /\ citations # <<>>
                       /\ CanRecord(state, "process_step", r, said, status, citations)
              built == Record(state, "process_step", r, said, status, Resolved(citations))
              result == Result(can, built, citations)
          IN  /\ Commit(result, built, citations)
              /\ last' = Outcome("record_process_step", result)
    BY <1>3 DEF RecordProcessStep
  <2> DEFINE can   == /\ citations # <<>>
                      /\ CanRecord(state, "process_step", r, said, status, citations)
             built == Record(state, "process_step", r, said, status, Resolved(citations))
  <2>2. can \in BOOLEAN /\ (can => Active(state))
    BY DEF CanRecord
  <2>3. Keeps(state, built)
    BY <1>1, RecordKeeps
  <2>4. Commit(Result(can, built, citations), built, citations)
    BY <2>1
  <2> HIDE DEF can, built
  <2>5. QED
    BY <2>2, <2>3, <2>4, Committed
<1>4. CASE ConnectProcessSteps
  <2>1. PICK r \in RecordIds, status \in ClaimStatuses, citations \in CitationLists,
             kind \in {"source_boundary", "sink_boundary", "normal"},
             said \in Requests({"relation"}, {"condition"}) :
          LET ends  == ValueSaid(said["relation"]).content
              can   == /\ citations # <<>>
                       /\ EndpointsFit(state, kind, ends[1], ends[2])
                       /\ CanRecord(state, "flow", r, said, status, citations)
              built == Record(state, "flow", r, said, status, Resolved(citations))
              result == Result(can, built, citations)
          IN  /\ Commit(result, built, citations)
              /\ last' = Outcome("connect_process_steps", result)
    BY <1>4 DEF ConnectProcessSteps
  <2> DEFINE ends  == ValueSaid(said["relation"]).content
             can   == /\ citations # <<>>
                      /\ EndpointsFit(state, kind, ends[1], ends[2])
                      /\ CanRecord(state, "flow", r, said, status, citations)
             built == Record(state, "flow", r, said, status, Resolved(citations))
  <2>2. can \in BOOLEAN /\ (can => Active(state))
    BY DEF CanRecord, EndpointsFit
  <2>3. Keeps(state, built)
    BY <1>1, RecordKeeps
  <2>4. Commit(Result(can, built, citations), built, citations)
    BY <2>1
  <2> HIDE DEF can, built
  <2>5. QED
    BY <2>2, <2>3, <2>4, Committed
<1>5. CASE RecordResourceUsage
  <2>1. PICK r \in RecordIds, step \in RecordIds, status \in ClaimStatuses,
             citations \in CitationLists,
             said \in Requests({"crud", "system", "data_type"}, {}) :
          LET can   == /\ citations # <<>>
                       /\ step \in RecordsOf(state, "process_step")
                       /\ CanRecord(state, "resource_usage", r, said, status, citations)
              built == Record(state, "resource_usage", r, said, status, Resolved(citations))
              result == Result(can, built, citations)
          IN  /\ Commit(result, built, citations)
              /\ last' = Outcome("record_resource_usage", result)
    BY <1>5 DEF RecordResourceUsage
  <2> DEFINE can   == /\ citations # <<>>
                      /\ step \in RecordsOf(state, "process_step")
                      /\ CanRecord(state, "resource_usage", r, said, status, citations)
             built == Record(state, "resource_usage", r, said, status, Resolved(citations))
  <2>2. can \in BOOLEAN /\ (can => Active(state))
    BY DEF CanRecord
  <2>3. Keeps(state, built)
    BY <1>1, RecordKeeps
  <2>4. Commit(Result(can, built, citations), built, citations)
    BY <2>1
  <2> HIDE DEF can, built
  <2>5. QED
    BY <2>2, <2>3, <2>4, Committed
<1>6. CASE RecordIssueOp
  <2>1. PICK issue \in IssueIds, kind \in {"unknown", "contradiction", "exception"},
             targets \in SUBSET RecordIds, citations \in CitationLists,
             claims \in {c \in SUBSET ClaimIdsOf(state) : Cardinality(c) <= MaxClaims} :
          \E resolution \in {NoClaim} \cup
                (IF kind = "contradiction" THEN ClaimIdsOf(state) ELSE {}) :
            LET can   == /\ citations # <<>>
                         /\ CanRecordIssue(state, issue, kind, targets, claims, resolution)
                built == RecordIssue(state, issue, kind, targets, claims, resolution,
                                     Resolved(citations))
                result == Result(can, built, citations)
            IN  /\ Commit(result, built, citations)
                /\ last' = Outcome("record_issue", result)
    BY <1>6 DEF RecordIssueOp
  <2>2. PICK resolution \in {NoClaim} \cup
                (IF kind = "contradiction" THEN ClaimIdsOf(state) ELSE {}) :
            LET can   == /\ citations # <<>>
                         /\ CanRecordIssue(state, issue, kind, targets, claims, resolution)
                built == RecordIssue(state, issue, kind, targets, claims, resolution,
                                     Resolved(citations))
            IN  Commit(Result(can, built, citations), built, citations)
    BY <2>1
  <2> DEFINE can   == /\ citations # <<>>
                      /\ CanRecordIssue(state, issue, kind, targets, claims, resolution)
             built == RecordIssue(state, issue, kind, targets, claims, resolution,
                                  Resolved(citations))
  <2>3. can \in BOOLEAN /\ (can => Active(state))
    BY DEF CanRecordIssue
  <2>4. Keeps(state, built)
    BY <1>1, IssueKeeps
  <2>5. Commit(Result(can, built, citations), built, citations)
    BY <2>2
  <2> HIDE DEF can, built
  <2>6. QED
    BY <2>3, <2>4, <2>5, Committed
<1>7. CASE ReviseRecord
  <2>1. PICK r \in RecordIds, f \in Fields, status \in ClaimStatuses,
             citations \in CitationLists, expected \in ClaimIdsOf(state) \cup {NoClaim} :
          \E said \in Sayable[f] :
            LET can   == /\ citations # <<>>
                         /\ CanRevise(state, r, f, said, status, citations, expected)
                built == Revise(state, r, f, said, status, Resolved(citations))
                result == Result(can, built, citations)
            IN  /\ Commit(result, built, citations)
                /\ last' = IF result = "ok"
                           THEN [op       |-> "revise_record",
                                 result   |-> "ok",
                                 claim    |-> <<r, f, NextRevision(state, r, f)>>,
                                 expected |-> expected]
                           ELSE Outcome("revise_record", result)
    BY <1>7 DEF ReviseRecord
  <2>2. PICK said \in Sayable[f] :
            LET can   == /\ citations # <<>>
                         /\ CanRevise(state, r, f, said, status, citations, expected)
                built == Revise(state, r, f, said, status, Resolved(citations))
            IN  Commit(Result(can, built, citations), built, citations)
    BY <2>1
  <2> DEFINE can   == /\ citations # <<>>
                      /\ CanRevise(state, r, f, said, status, citations, expected)
             built == Revise(state, r, f, said, status, Resolved(citations))
  <2>3. can \in BOOLEAN /\ (can => Active(state))
    BY DEF CanRevise
  <2>4. said \in SaidOf(f) /\ Resolved(citations) \in SUBSET Evidence
    BY <1>1, RequestsTyped, PreparedNumbers DEF Resolved
  <2>5. Keeps(state, built)
    BY <1>1, <2>4, ReviseKeeps
  <2>6. Commit(Result(can, built, citations), built, citations)
    BY <2>2
  <2> HIDE DEF can, built
  <2>7. QED
    BY <2>3, <2>5, <2>6, Committed
<1>8. CASE CompleteInterview
  <2>1. PICK unresolved \in SUBSET IssueIds, citations \in CitationLists :
          LET can   == CanComplete(state, unresolved, citations)
              built == Complete(state, unresolved, Resolved(citations))
              result == Result(can, built, citations)
          IN  /\ Commit(result, built, citations)
              /\ last' = Outcome("complete_interview", result)
    BY <1>8 DEF CompleteInterview
  <2> DEFINE can   == CanComplete(state, unresolved, citations)
             built == Complete(state, unresolved, Resolved(citations))
  <2>2. can \in BOOLEAN /\ (can => Active(state))
    BY DEF CanComplete
  <2>3. Keeps(state, built)
    BY <1>1, CompleteKeeps
  <2>4. Commit(Result(can, built, citations), built, citations)
    BY <2>1
  <2> HIDE DEF can, built
  <2>5. QED
    BY <2>2, <2>3, <2>4, Committed
<1>9. CASE Restart
  BY <1>9 DEF Restart
<1>10. QED
  BY <1>2, <1>3, <1>4, <1>5, <1>6, <1>7, <1>8, <1>9 DEF Next

(* Nothing that was recorded is ever lost or rewritten, but for the status   *)
(* of a claim that was superseded.                                           *)
THEOREM HistoryIsKept == Spec => HistoryKept
<1>1. ASSUME Inv, [Next]_vars
      PROVE  \/ /\ state.utterances \subseteq state'.utterances
                /\ state.records \subseteq state'.records
                /\ state.entities \subseteq state'.entities
                /\ state.issues \subseteq state'.issues
                /\ \A c \in state.claims :
                     \/ c \in state'.claims
                     \/ [c EXCEPT !.status = "rejected"] \in state'.claims
             \/ UNCHANGED vars
  <2>1. CASE state' = state
    BY <2>1
  <2>2. CASE state' # state
    <3>1. Next
      BY <1>1, <2>2 DEF vars
    <3>2. QED
      BY <1>1, <2>2, <3>1, StepKeeps DEF Keeps
  <2>3. QED
    BY <2>1, <2>2
<1>2. QED
  BY <1>1, Invariance, PTL DEF Spec, HistoryKept

(* The state of an interview that was completed never changes again. *)
THEOREM EndIsFinal == Spec => EndedIsFinal
<1>1. ASSUME Inv, [Next]_vars
      PROVE  (~Active(state) => UNCHANGED state) \/ UNCHANGED vars
  <2>1. CASE Next
    BY <1>1, <2>1, StepKeeps
  <2>2. CASE UNCHANGED vars
    BY <2>2
  <2>3. QED
    BY <1>1, <2>1, <2>2
<1>2. QED
  BY <1>1, Invariance, PTL DEF Spec, EndedIsFinal

-----------------------------------------------------------------------------
(* Why the guards of record_issue, complete_interview and revise_record are   *)
(* enough for the validator, which judges the whole state they build.         *)

(* Evidence prepared from citations that hold is quoted from the transcript,  *)
(* and supports what the citations support.                                   *)
LEMMA ResolvedQuoted ==
  ASSUME NEW citations
  PROVE  /\ CitationsHold(citations) =>
              \A e \in Resolved(citations) : e.utterance \in state.utterances
         /\ (\E k \in DOMAIN citations : citations[k].support = "supports") =>
              \E e \in Resolved(citations) : e.support = "supports"
<1> DEFINE Ref(k) == [ number    |-> next_evidence + k - 1,
                       utterance |-> citations[k].utterance,
                       support   |-> citations[k].support ]
<1>1. \A k : /\ Ref(k).utterance = citations[k].utterance
             /\ Ref(k).support = citations[k].support
  OBVIOUS
<1>2. Resolved(citations) = {Ref(k) : k \in DOMAIN citations}
  BY DEF Resolved, Prepared
<1> HIDE DEF Ref
<1>3. QED
  BY <1>1, <1>2 DEF CitationsHold, CitationHolds

LEMMA ResultRejected ==
  ASSUME NEW can \in BOOLEAN, NEW built, NEW citations,
         Result(can, built, citations) = "rejected"
  PROVE  can /\ CitationsHold(citations) /\ ~Valid(built)
BY DEF Result

LEMMA IssueValid ==
  ASSUME NEW s \in State, Valid(s), NEW issue, NEW kind, NEW targets, NEW claims,
         NEW resolution, CanRecordIssue(s, issue, kind, targets, claims, resolution),
         NEW evidence, \A e \in evidence : e.utterance \in s.utterances
  PROVE  Valid(RecordIssue(s, issue, kind, targets, claims, resolution, evidence))
<1> DEFINE t == RecordIssue(s, issue, kind, targets, claims, resolution, evidence)
           new == [ id |-> issue, kind |-> kind, targets |-> targets,
                    claims |-> claims, resolution |-> resolution,
                    evidence |-> evidence ]
<1>1. /\ new.id = issue /\ new.targets = targets /\ new.claims = claims
      /\ new.resolution = resolution /\ new.evidence = evidence
  OBVIOUS
<1>2. /\ t.utterances = s.utterances /\ t.claims = s.claims /\ t.records = s.records
      /\ t.projection = s.projection /\ t.entities = s.entities
      /\ t.issues = s.issues \cup {new} /\ t.completion = s.completion
  BY DEF RecordIssue, State
<1>3. /\ issue \notin {i.id : i \in s.issues}
      /\ \A r \in targets : \E type \in RecordTypes : <<type, r>> \in s.records
      /\ claims \subseteq ClaimIdsOf(s)
      /\ resolution # NoClaim => resolution \in ClaimIdsOf(s)
  BY DEF CanRecordIssue
<1> HIDE DEF t, new
<1>4. /\ ClaimIdsOf(t) = ClaimIdsOf(s)
      /\ \A type : RecordsOf(t, type) = RecordsOf(s, type)
      /\ \A r, f : CurrentClaims(t, r, f) = CurrentClaims(s, r, f)
  BY <1>2 DEF ClaimIdsOf, RecordsOf, CurrentClaims
<1>5. IdsUnique(t)
  <2>1. \A i, j \in t.issues : i.id = j.id => i = j
    BY <1>1, <1>2, <1>3 DEF Valid, IdsUnique
  <2>2. QED
    BY <1>2, <1>4, <2>1 DEF Valid, IdsUnique
<1>6. SupersededRejected(t) /\ ConfirmedGrounded(t)
  BY <1>2 DEF Valid, SupersededRejected, ConfirmedGrounded
<1>7. EvidenceQuoted(t)
  <2>1. \A e \in AllEvidence(t) : e \in AllEvidence(s) \/ e \in evidence
    BY <1>1, <1>2, EvidenceOf
  <2>2. QED
    BY <1>2, <2>1 DEF Valid, EvidenceQuoted
<1>8. IssuesRefer(t)
  <2>1. OpenQuestions(s) \subseteq OpenQuestions(t)
    BY <1>2 DEF OpenQuestions
  <2>2. QED
    BY <1>1, <1>2, <1>3, <1>4, <2>1 DEF Valid, IssuesRefer
<1>9. EntitiesKnown(t) /\ EndpointsKnown(t) /\ ClaimsExplain(t)
  BY <1>2, <1>4 DEF Valid, EntitiesKnown, EndpointsKnown, ClaimsExplain
<1>10. QED
  BY <1>5, <1>6, <1>7, <1>8, <1>9 DEF Valid, t

LEMMA EndValid ==
  ASSUME NEW s \in State, Valid(s), NEW unresolved, NEW citations,
         CanComplete(s, unresolved, citations),
         NEW evidence, \A e \in evidence : e.utterance \in s.utterances
  PROVE  Valid(Complete(s, unresolved, evidence))
<1> DEFINE t == Complete(s, unresolved, evidence)
<1>1. /\ t.utterances = s.utterances /\ t.claims = s.claims /\ t.records = s.records
      /\ t.projection = s.projection /\ t.entities = s.entities /\ t.issues = s.issues
      /\ t.completion.confirmation = evidence /\ t.completion.unresolved = unresolved
  BY DEF Complete, State
<1>2. unresolved \subseteq OpenQuestions(s)
  BY DEF CanComplete
<1> HIDE DEF t
<1>3. /\ ClaimIdsOf(t) = ClaimIdsOf(s) /\ OpenQuestions(t) = OpenQuestions(s)
      /\ \A type : RecordsOf(t, type) = RecordsOf(s, type)
      /\ \A r, f : CurrentClaims(t, r, f) = CurrentClaims(s, r, f)
  BY <1>1 DEF ClaimIdsOf, OpenQuestions, RecordsOf, CurrentClaims
<1>4. EvidenceQuoted(t)
  <2>1. \A e \in AllEvidence(t) : e \in AllEvidence(s) \/ e \in evidence
    BY <1>1, EvidenceOf
  <2>2. QED
    BY <1>1, <2>1 DEF Valid, EvidenceQuoted
<1>5. IdsUnique(t) /\ SupersededRejected(t) /\ ConfirmedGrounded(t) /\ IssuesRefer(t)
  BY <1>1, <1>2, <1>3 DEF Valid, IdsUnique, SupersededRejected, ConfirmedGrounded, IssuesRefer
<1>6. EntitiesKnown(t) /\ EndpointsKnown(t) /\ ClaimsExplain(t)
  BY <1>1, <1>3 DEF Valid, EntitiesKnown, EndpointsKnown, ClaimsExplain
<1>7. QED
  BY <1>4, <1>5, <1>6 DEF Valid, t

-----------------------------------------------------------------------------
(* The entities a revision mentions: each is known afterwards, and none has  *)
(* two labels.  _ensure_actor and its siblings refuse a label that differs.  *)
LEMMA MentionedKnown ==
  ASSUME NEW entities \in SUBSET Entity, NEW items \in Seq(Mention),
         ItemsResolve(entities, items),
         \A j, k \in DOMAIN items : items[j].id = items[k].id => j = k,
         \A e, g \in entities : e.kind = g.kind /\ e.id = g.id => e = g
  PROVE  /\ \A k \in DOMAIN items : \E e \in WithEntities(entities, items) :
              e.kind = items[k].kind /\ e.id = items[k].id
         /\ \A e, g \in WithEntities(entities, items) :
              e.kind = g.kind /\ e.id = g.id => e = g
<1> DEFINE Known(k) == {e \in entities : e.kind = items[k].kind /\ e.id = items[k].id}
           IsFirst(j, k) == /\ items[j].kind = items[k].kind
                            /\ items[j].id = items[k].id
                            /\ \A i \in 1..(j - 1) :
                                 \/ items[i].kind # items[k].kind
                                 \/ items[i].id # items[k].id
           First(k) == CHOOSE j \in 1..k : IsFirst(j, k)
<1>1. DOMAIN items = 1..Len(items) /\ Len(items) \in Nat
  OBVIOUS
<1>2. \A k \in DOMAIN items : items[k] \in Mention
  BY SeqElement
<1>3. ASSUME NEW k \in DOMAIN items
      PROVE  First(k) = k
  <2>1. k \in 1..k /\ IsFirst(k, k)
    BY <1>1
  <2>2. \A j \in 1..k : IsFirst(j, k) => j = k
    BY <1>1
  <2> HIDE DEF IsFirst
  <2>3. QED
    BY <2>1, <2>2
<1>4. \A k \in DOMAIN items :
        IF Known(k) # {}
        THEN \A e \in Known(k) : items[k].label \in {NoLabel, e.label}
        ELSE items[First(k)].label # NoLabel
  BY DEF ItemsResolve
<1>5. \A k \in DOMAIN items : Known(k) = {} => items[k].label # NoLabel
  <2> HIDE DEF Known, First
  <2>1. QED
    BY <1>3, <1>4
<1>6. \A e \in WithEntities(entities, items) :
        e \in entities \/ \E k \in DOMAIN items : e = items[k] /\ items[k].label # NoLabel
  BY DEF WithEntities
<1>7. \A k \in DOMAIN items : \E e \in WithEntities(entities, items) :
        e.kind = items[k].kind /\ e.id = items[k].id
  <2> SUFFICES ASSUME NEW k \in DOMAIN items
               PROVE  \E e \in WithEntities(entities, items) :
                        e.kind = items[k].kind /\ e.id = items[k].id
    OBVIOUS
  <2>1. CASE Known(k) # {}
    BY <2>1 DEF WithEntities
  <2>2. CASE Known(k) = {}
    <3>1. items[k] \in WithEntities(entities, items)
      BY <1>5, <2>2 DEF WithEntities
    <3>2. QED
      BY <3>1
  <2>3. QED
    BY <2>1, <2>2
<1>8. ASSUME NEW e \in entities, NEW k \in DOMAIN items, items[k].label # NoLabel,
             e.kind = items[k].kind, e.id = items[k].id
      PROVE  e = items[k]
  <2>1. items[k].label = e.label
    BY <1>4, <1>8
  <2>2. e \in Entity /\ items[k] \in Mention
    BY <1>2
  <2>3. QED
    BY <1>8, <2>1, <2>2 DEF Entity, Mention
<1>9. QED
  BY <1>6, <1>7, <1>8

LEMMA ReviseValid ==
  ASSUME NEW s \in State, Valid(s), IsFiniteSet(s.claims),
         NEW r \in RecordIds, NEW f \in Fields, NEW said \in SaidOf(f),
         NEW status \in ClaimStatuses, NEW citations, NEW expected,
         CanRevise(s, r, f, said, status, citations, expected),
         NEW evidence \in SUBSET Evidence, \A e \in evidence : e.utterance \in s.utterances,
         status = "confirmed" => \E e \in evidence : e.support = "supports"
  PROVE  Valid(Revise(s, r, f, said, status, evidence))
<1> DEFINE t == Revise(s, r, f, said, status, evidence)
           new == NewClaim(s, r, f, said, status, evidence)
           old == Superseded(s, r, f, status)
           Kept(c) == IF c.id \in old THEN [c EXCEPT !.status = "rejected"] ELSE c
           items == ItemsSaid(f, said)
<1>1. /\ t.claims = {Kept(c) : c \in s.claims} \cup {new}
      /\ t.projection = IF status = "rejected" THEN s.projection
                        ELSE [s.projection EXCEPT ![<<r, f>>] = ValueSaid(said)]
      /\ t.entities = IF status = "rejected" THEN s.entities
                      ELSE WithEntities(s.entities, items)
      /\ t.utterances = s.utterances /\ t.records = s.records /\ t.issues = s.issues
      /\ t.completion = s.completion
  BY DEF State, Revise
<1>2. /\ new.id = <<r, f, NextRevision(s, r, f)>> /\ new.value = ValueSaid(said)
      /\ new.evidence = evidence /\ new.status = status
      /\ new.supersedes = IF old = {} THEN NoClaim ELSE CHOOSE id \in old : TRUE
  BY DEF NewClaim
<1>3. \A c \in s.claims :
        /\ c.id \in ClaimIds
        /\ Kept(c).id = c.id /\ Kept(c).supersedes = c.supersedes
        /\ Kept(c).value = c.value /\ Kept(c).evidence = c.evidence
        /\ c.id \in old => Kept(c).status = "rejected"
        /\ c.id \notin old => Kept(c) = c
  <2>1. \A c \in s.claims : c \in Claim
    BY StateFields
  <2>2. QED
    BY <2>1 DEF Claim
<1>4. /\ old = IF status = "rejected" THEN {} ELSE {c.id : c \in CurrentClaims(s, r, f)}
      /\ \A id \in old : \E c \in s.claims :
           c.id = id /\ c.id[1] = r /\ c.id[2] = f /\ c.status # "rejected"
  BY DEF Superseded, CurrentClaims
<1>5. /\ f # "relation" /\ <<TypeOf(f), r>> \in s.records
      /\ f \in EntityFields => NoDuplicate(said)
      /\ ItemsResolve(s.entities, items)
  BY DEF CanRevise
<1>6. /\ <<r, f, NextRevision(s, r, f)>> \notin ClaimIdsOf(s)
      /\ new.id[1] = r /\ new.id[2] = f
  BY <1>2, NextRevisionFresh
<1>7. IF status = "rejected" THEN old = {} ELSE TRUE
  BY <1>4
<1> HIDE DEF t, new, old, Kept
<1>8. /\ \A c \in s.claims : Kept(c) \in t.claims
      /\ new \in t.claims
      /\ \A d \in t.claims : d = new \/ \E c \in s.claims : d = Kept(c)
      /\ ClaimIdsOf(s) \subseteq ClaimIdsOf(t)
      /\ \A c \in s.claims : c.id # new.id
  BY <1>1, <1>2, <1>3, <1>6 DEF ClaimIdsOf
<1>9. /\ \A type : RecordsOf(t, type) = RecordsOf(s, type)
      /\ OpenQuestions(t) = OpenQuestions(s)
  BY <1>1 DEF RecordsOf, OpenQuestions
<1>10. /\ \A e, g \in t.entities : e.kind = g.kind /\ e.id = g.id => e = g
       /\ s.entities \subseteq t.entities
       /\ status # "rejected" => \A k \in DOMAIN items : \E e \in t.entities :
                                   e.kind = items[k].kind /\ e.id = items[k].id
  <2>1. /\ s.entities \in SUBSET Entity /\ items \in Seq(Mention)
        /\ \A e, g \in s.entities : e.kind = g.kind /\ e.id = g.id => e = g
    BY StateFields, ItemsSaidTyped DEF Valid, IdsUnique
  <2>2. \A j, k \in DOMAIN items : items[j].id = items[k].id => j = k
    <3>1. CASE f \in EntityFields
      BY <1>5, <3>1 DEF ItemsSaid, NoDuplicate
    <3>2. CASE f \notin EntityFields
      BY <3>2 DEF ItemsSaid
    <3>3. QED
      BY <3>1, <3>2
  <2> HIDE DEF items
  <2>3. s.entities \subseteq WithEntities(s.entities, items)
    BY DEF WithEntities
  <2>4. QED
    BY <1>1, <1>5, <2>1, <2>2, <2>3, MentionedKnown
<1>11. IdsUnique(t)
  <2>1. \A c, d \in s.claims : c.id = d.id => c = d
    BY DEF Valid, IdsUnique
  <2>2. \A c, d \in t.claims : c.id = d.id => c = d
    BY <1>3, <1>8, <2>1
  <2>3. QED
    BY <1>1, <1>9, <1>10, <2>2 DEF Valid, IdsUnique
<1>12. SupersededRejected(t)
  <2> SUFFICES ASSUME NEW c \in t.claims, c.supersedes # NoClaim
               PROVE  \E d \in t.claims : /\ d.id = c.supersedes
                                          /\ d.status = "rejected"
                                          /\ d.id[1] = c.id[1] /\ d.id[2] = c.id[2]
    BY DEF SupersededRejected
  <2>1. CASE c = new
    <3>1. c.supersedes \in old
      BY <1>2, <2>1
    <3>2. PICK d \in s.claims : d.id = c.supersedes /\ d.id[1] = r /\ d.id[2] = f
      BY <1>4, <3>1
    <3>3. Kept(d) \in t.claims /\ Kept(d).id = d.id /\ Kept(d).status = "rejected"
      BY <1>3, <1>8, <3>1, <3>2
    <3>4. QED
      BY <1>6, <2>1, <3>2, <3>3
  <2>2. CASE c # new
    <3>1. PICK b \in s.claims : c = Kept(b)
      BY <1>8, <2>2
    <3>2. c.supersedes = b.supersedes /\ c.id = b.id
      BY <1>3, <3>1
    <3>3. PICK d \in s.claims : /\ d.id = c.supersedes /\ d.status = "rejected"
                                /\ d.id[1] = c.id[1] /\ d.id[2] = c.id[2]
      BY <3>2 DEF Valid, SupersededRejected
    <3>4. Kept(d) \in t.claims /\ Kept(d).id = d.id /\ Kept(d).status = "rejected"
      BY <1>3, <1>8, <3>3
    <3>5. QED
      BY <3>3, <3>4
  <2>3. QED
    BY <2>1, <2>2
<1>13. ConfirmedGrounded(t)
  <2>1. \A c \in s.claims : Kept(c).status = "confirmed" =>
           \E e \in Kept(c).evidence : e.support = "supports"
    BY <1>3 DEF Valid, ConfirmedGrounded
  <2>2. QED
    BY <1>2, <1>8, <2>1 DEF ConfirmedGrounded
<1>14. EvidenceQuoted(t)
  <2>1. \A e \in AllEvidence(t) : e \in AllEvidence(s) \/ e \in evidence
    BY <1>1, <1>2, <1>3, <1>8, EvidenceOf
  <2>2. QED
    BY <1>1, <2>1 DEF Valid, EvidenceQuoted
<1>15. IssuesRefer(t)
  BY <1>1, <1>8, <1>9 DEF Valid, IssuesRefer
<1>16. s.projection \in [RecordIds \X Fields -> Value]
  BY StateFields
<1>17. \A q \in RecordIds, g \in Fields :
         t.projection[<<q, g>>] = IF status # "rejected" /\ q = r /\ g = f
                                  THEN ValueSaid(said) ELSE s.projection[<<q, g>>]
  BY <1>1, <1>16
<1>18. EntitiesKnown(t)
  <2> SUFFICES ASSUME NEW q \in RecordIds, NEW g \in EntityFields,
                      t.projection[<<q, g>>].state = "value",
                      NEW k \in DOMAIN t.projection[<<q, g>>].content
               PROVE  \E e \in t.entities :
                        e.kind = KindOf(g) /\ e.id = t.projection[<<q, g>>].content[k]
    BY DEF EntitiesKnown
  <2>1. g \in Fields
    BY DEF EntityFields, Fields, FieldsOf, RecordTypes
  <2>2. CASE status # "rejected" /\ q = r /\ g = f
    <3>1. t.projection[<<q, g>>] = ValueSaid(said)
      BY <1>17, <2>1, <2>2
    <3>2. /\ DOMAIN ValueSaid(said).content = DOMAIN said.items
          /\ \A i \in DOMAIN said.items : ValueSaid(said).content[i] = said.items[i].id
      BY DEF ValueSaid
    <3>3. /\ DOMAIN items = DOMAIN said.items
          /\ \A i \in DOMAIN said.items :
                items[i].kind = KindOf(f) /\ items[i].id = said.items[i].id
      BY <2>2 DEF ItemsSaid
    <3> HIDE DEF items
    <3>4. QED
      BY <1>10, <2>2, <3>1, <3>2, <3>3
  <2>3. CASE ~(status # "rejected" /\ q = r /\ g = f)
    <3>1. t.projection[<<q, g>>] = s.projection[<<q, g>>]
      BY <1>17, <2>1, <2>3
    <3>2. QED
      BY <1>10, <3>1 DEF Valid, EntitiesKnown
  <2>4. QED
    BY <2>2, <2>3
<1>19. EndpointsKnown(t)
  <2>1. "relation" \in Fields
    BY DEF Fields, FieldsOf, RecordTypes
  <2>2. \A q \in RecordIds : t.projection[<<q, "relation">>] = s.projection[<<q, "relation">>]
    BY <1>5, <1>17, <2>1
  <2>3. \A q \in RecordsOf(s, "flow") : q \in RecordIds
    BY DEF RecordsOf
  <2>4. ASSUME NEW q \in RecordsOf(t, "flow")
        PROVE  LET v == t.projection[<<q, "relation">>]
               IN  /\ v.content[1] \in RecordsOf(t, "process_step") \cup {"SOURCE"}
                   /\ v.content[2] \in RecordsOf(t, "process_step") \cup {"SINK"}
    <3>1. /\ q \in RecordsOf(s, "flow")
          /\ t.projection[<<q, "relation">>] = s.projection[<<q, "relation">>]
          /\ RecordsOf(t, "process_step") = RecordsOf(s, "process_step")
      BY <1>9, <2>2, <2>3
    <3>2. QED
      BY <3>1 DEF Valid, EndpointsKnown
  <2>5. QED
    BY <2>4 DEF EndpointsKnown
<1>20. ClaimsExplain(t)
  <2>1. ASSUME NEW c \in t.claims
        PROVE  <<TypeOf(c.id[2]), c.id[1]>> \in t.records
    <3>1. CASE c = new
      BY <1>1, <1>5, <1>6, <3>1
    <3>2. CASE c # new
      <4>1. PICK b \in s.claims : c = Kept(b)
        BY <1>8, <3>2
      <4>2. c.id = b.id
        BY <1>3, <4>1
      <4>3. <<TypeOf(b.id[2]), b.id[1]>> \in s.records
        BY DEF Valid, ClaimsExplain
      <4>4. QED
        BY <1>1, <4>2, <4>3
    <3>3. QED
      BY <3>1, <3>2
  <2>2. ASSUME NEW q \in RecordIds, NEW g \in Fields
        PROVE  LET current == CurrentClaims(t, q, g)
               IN  /\ \A c, d \in current : c = d
                   /\ \A c \in current : c.value = t.projection[<<q, g>>]
                   /\ current = {} =>
                        /\ t.projection[<<q, g>>] = Unset
                        /\ g \in {"relation", "crud", "system", "data_type"}
                             => <<TypeOf(g), q>> \notin t.records
    <3>1. CASE status # "rejected" /\ q = r /\ g = f
      <4>1. \A c \in s.claims : c.id[1] = r /\ c.id[2] = f => Kept(c).status = "rejected"
        BY <1>3, <1>4, <3>1 DEF CurrentClaims
      <4>2. CurrentClaims(t, q, g) = {new}
        BY <1>2, <1>3, <1>6, <1>8, <3>1, <4>1 DEF CurrentClaims
      <4>3. t.projection[<<q, g>>] = new.value
        BY <1>2, <1>17, <3>1
      <4>4. QED
        BY <4>2, <4>3
    <3>2. CASE ~(status # "rejected" /\ q = r /\ g = f)
      <4>1. new \notin CurrentClaims(t, q, g)
        BY <1>2, <1>6, <3>2 DEF CurrentClaims
      <4>2. \A c \in s.claims : c.id[1] = q /\ c.id[2] = g => Kept(c) = c
        <5> SUFFICES ASSUME NEW c \in s.claims, c.id[1] = q, c.id[2] = g, c.id \in old
                     PROVE  FALSE
          BY <1>3
        <5>1. status # "rejected" /\ c.id[1] = r /\ c.id[2] = f
          BY <1>4, <1>7
        <5>2. QED
          BY <3>2, <5>1
      <4>3. CurrentClaims(t, q, g) = CurrentClaims(s, q, g)
        BY <1>3, <1>8, <4>1, <4>2 DEF CurrentClaims
      <4>4. t.projection[<<q, g>>] = s.projection[<<q, g>>]
        BY <1>17, <3>2
      <4>5. QED
        BY <1>1, <4>3, <4>4 DEF Valid, ClaimsExplain
    <3>3. QED
      BY <3>1, <3>2
  <2>3. QED
    BY <2>1, <2>2 DEF ClaimsExplain
<1>21. QED
  BY <1>11, <1>12, <1>13, <1>14, <1>15, <1>18, <1>19, <1>20 DEF Valid, t

-----------------------------------------------------------------------------
(* What a revision that is accepted supersedes. *)
LEMMA RevisedExpected ==
  ASSUME NEW s \in State, Valid(s), IsFiniteSet(s.claims),
         NEW r \in RecordIds, NEW f \in Fields, NEW said \in SaidOf(f),
         NEW status \in ClaimStatuses, NEW citations, NEW expected,
         CanRevise(s, r, f, said, status, citations, expected), expected # NoClaim,
         NEW evidence \in SUBSET Evidence
  PROVE  \E c \in Revise(s, r, f, said, status, evidence).claims :
           /\ c.id = <<r, f, NextRevision(s, r, f)>>
           /\ c.supersedes = IF c.status = "rejected" THEN NoClaim ELSE expected
<1> DEFINE new == NewClaim(s, r, f, said, status, evidence)
           old == Superseded(s, r, f, status)
<1>1. /\ new \in Revise(s, r, f, said, status, evidence).claims
      /\ new.id = <<r, f, NextRevision(s, r, f)>>
  BY ReviseFollows
<1>2. /\ new.status = status
      /\ new.supersedes = IF old = {} THEN NoClaim ELSE CHOOSE id \in old : TRUE
  BY DEF NewClaim
<1>3. PICK c \in CurrentClaims(s, r, f) : c.id = expected
  BY DEF CanRevise, ExpectedCurrent
<1>4. \A d \in CurrentClaims(s, r, f) : d = c
  BY DEF Valid, ClaimsExplain
<1>5. old = IF status = "rejected" THEN {} ELSE {expected}
  <2>1. {d.id : d \in CurrentClaims(s, r, f)} = {expected}
    BY <1>3, <1>4
  <2>2. QED
    BY <2>1 DEF Superseded
<1> HIDE DEF old, new
<1>6. new.supersedes = IF status = "rejected" THEN NoClaim ELSE expected
  BY <1>2, <1>5
<1>7. QED
  BY <1>1, <1>2, <1>6

(* What the caller's last call tells it, one operation at a time. *)
Told == RecordGuardsSuffice /\ ExpectedSuperseded

LEMMA OutcomeTold ==
  ASSUME NEW op, NEW result, last' = Outcome(op, result),
         result = "rejected" =>
           op \in {"record_process_step", "connect_process_steps", "record_resource_usage"}
  PROVE  Told'
<1>1. last'.op = op /\ last'.result = result /\ last'.expected = NoClaim
  BY DEF Outcome
<1>2. QED
  BY <1>1 DEF Told, RecordGuardsSuffice, ExpectedSuperseded

LEMMA RecordTold ==
  ASSUME RegisterUtterance \/ RecordProcessStep \/ ConnectProcessSteps
           \/ RecordResourceUsage \/ Restart
  PROVE  Told'
<1>1. CASE RegisterUtterance
  <2>1. \E result \in {"ok", "refused"} : last' = Outcome("register_utterance", result)
    BY <1>1 DEF RegisterUtterance
  <2>2. QED
    BY <2>1, OutcomeTold
<1>2. CASE RecordProcessStep
  <2>1. \E result : last' = Outcome("record_process_step", result)
    BY <1>2 DEF RecordProcessStep
  <2>2. QED
    BY <2>1, OutcomeTold
<1>3. CASE ConnectProcessSteps
  <2>1. PICK r \in RecordIds, status \in ClaimStatuses, citations \in CitationLists,
             kind \in {"source_boundary", "sink_boundary", "normal"},
             said \in Requests({"relation"}, {"condition"}) :
          LET ends   == ValueSaid(said["relation"]).content
              can    == /\ citations # <<>>
                        /\ EndpointsFit(state, kind, ends[1], ends[2])
                        /\ CanRecord(state, "flow", r, said, status, citations)
              built  == Record(state, "flow", r, said, status, Resolved(citations))
              result == Result(can, built, citations)
          IN  /\ Commit(result, built, citations)
              /\ last' = Outcome("connect_process_steps", result)
    BY <1>3 DEF ConnectProcessSteps
  <2> DEFINE ends   == ValueSaid(said["relation"]).content
             can    == /\ citations # <<>>
                       /\ EndpointsFit(state, kind, ends[1], ends[2])
                       /\ CanRecord(state, "flow", r, said, status, citations)
             built  == Record(state, "flow", r, said, status, Resolved(citations))
             result == Result(can, built, citations)
  <2>2. last' = Outcome("connect_process_steps", result)
    BY <2>1
  <2> HIDE DEF result
  <2>3. QED
    BY <2>2, OutcomeTold
<1>4. CASE RecordResourceUsage
  <2>1. \E result : last' = Outcome("record_resource_usage", result)
    BY <1>4 DEF RecordResourceUsage
  <2>2. QED
    BY <2>1, OutcomeTold
<1>5. CASE Restart
  BY <1>5, OutcomeTold DEF Restart
<1>6. QED
  BY <1>1, <1>2, <1>3, <1>4, <1>5

LEMMA IssueTold == ASSUME Inv, RecordIssueOp PROVE Told'
<1>1. PICK issue \in IssueIds, kind \in {"unknown", "contradiction", "exception"},
           targets \in SUBSET RecordIds, citations \in CitationLists,
           claims \in {c \in SUBSET ClaimIdsOf(state) : Cardinality(c) <= MaxClaims} :
        \E resolution \in {NoClaim} \cup
              (IF kind = "contradiction" THEN ClaimIdsOf(state) ELSE {}) :
          LET can    == /\ citations # <<>>
                        /\ CanRecordIssue(state, issue, kind, targets, claims, resolution)
              built  == RecordIssue(state, issue, kind, targets, claims, resolution,
                                    Resolved(citations))
              result == Result(can, built, citations)
          IN  /\ Commit(result, built, citations)
              /\ last' = Outcome("record_issue", result)
  BY DEF RecordIssueOp
<1>2. PICK resolution \in {NoClaim} \cup
              (IF kind = "contradiction" THEN ClaimIdsOf(state) ELSE {}) :
          LET can    == /\ citations # <<>>
                        /\ CanRecordIssue(state, issue, kind, targets, claims, resolution)
              built  == RecordIssue(state, issue, kind, targets, claims, resolution,
                                    Resolved(citations))
              result == Result(can, built, citations)
          IN  /\ Commit(result, built, citations)
              /\ last' = Outcome("record_issue", result)
  BY <1>1
<1> DEFINE can    == /\ citations # <<>>
                     /\ CanRecordIssue(state, issue, kind, targets, claims, resolution)
           built  == RecordIssue(state, issue, kind, targets, claims, resolution,
                                 Resolved(citations))
<1>3. state \in State /\ Valid(state) /\ can \in BOOLEAN
  BY DEF Inv, TypeOK, CanRecordIssue
<1>4. can /\ CitationsHold(citations) => Valid(built)
  BY <1>3, IssueValid, ResolvedQuoted
<1>5. last' = Outcome("record_issue", Result(can, built, citations))
  BY <1>2
<1> HIDE DEF can, built
<1>6. Result(can, built, citations) # "rejected"
  BY <1>3, <1>4, ResultRejected
<1>7. QED
  BY <1>5, <1>6, OutcomeTold

LEMMA CompleteTold == ASSUME Inv, CompleteInterview PROVE Told'
<1>1. PICK unresolved \in SUBSET IssueIds, citations \in CitationLists :
        LET can    == CanComplete(state, unresolved, citations)
            built  == Complete(state, unresolved, Resolved(citations))
        IN  last' = Outcome("complete_interview", Result(can, built, citations))
  BY DEF CompleteInterview
<1> DEFINE can   == CanComplete(state, unresolved, citations)
           built == Complete(state, unresolved, Resolved(citations))
<1>2. state \in State /\ Valid(state) /\ can \in BOOLEAN
  BY DEF Inv, TypeOK, CanComplete
<1>3. can /\ CitationsHold(citations) => Valid(built)
  BY <1>2, EndValid, ResolvedQuoted
<1>4. last' = Outcome("complete_interview", Result(can, built, citations))
  BY <1>1
<1> HIDE DEF can, built
<1>5. Result(can, built, citations) # "rejected"
  BY <1>2, <1>3, ResultRejected
<1>6. QED
  BY <1>4, <1>5, OutcomeTold

LEMMA ReviseTold == ASSUME Inv, ReviseRecord PROVE Told'
<1>1. PICK r \in RecordIds, f \in Fields, status \in ClaimStatuses,
           citations \in CitationLists, expected \in ClaimIdsOf(state) \cup {NoClaim} :
        \E said \in Sayable[f] :
          LET can    == /\ citations # <<>>
                        /\ CanRevise(state, r, f, said, status, citations, expected)
              built  == Revise(state, r, f, said, status, Resolved(citations))
              result == Result(can, built, citations)
          IN  /\ Commit(result, built, citations)
              /\ last' = IF result = "ok"
                         THEN [op       |-> "revise_record",
                               result   |-> "ok",
                               claim    |-> <<r, f, NextRevision(state, r, f)>>,
                               expected |-> expected]
                         ELSE Outcome("revise_record", result)
  BY DEF ReviseRecord
<1>2. PICK said \in Sayable[f] :
          LET can    == /\ citations # <<>>
                        /\ CanRevise(state, r, f, said, status, citations, expected)
              built  == Revise(state, r, f, said, status, Resolved(citations))
              result == Result(can, built, citations)
          IN  /\ Commit(result, built, citations)
              /\ last' = IF result = "ok"
                         THEN [op       |-> "revise_record",
                               result   |-> "ok",
                               claim    |-> <<r, f, NextRevision(state, r, f)>>,
                               expected |-> expected]
                         ELSE Outcome("revise_record", result)
  BY <1>1
<1> DEFINE can    == /\ citations # <<>>
                     /\ CanRevise(state, r, f, said, status, citations, expected)
           built  == Revise(state, r, f, said, status, Resolved(citations))
           result == Result(can, built, citations)
<1>3. /\ state \in State /\ Valid(state) /\ IsFiniteSet(state.claims)
      /\ next_evidence \in Nat \ {0} /\ can \in BOOLEAN /\ said \in SaidOf(f)
  BY RequestsTyped DEF Inv, TypeOK, CanRevise
<1>4. Resolved(citations) \in SUBSET Evidence
  BY <1>3, PreparedNumbers DEF Resolved
<1>5. can /\ CitationsHold(citations) => Valid(built)
  <2> SUFFICES ASSUME can, CitationsHold(citations) PROVE Valid(built)
    OBVIOUS
  <2>1. status = "confirmed" => \E e \in Resolved(citations) : e.support = "supports"
    BY ResolvedQuoted DEF CanRevise, Grounded
  <2>2. \A e \in Resolved(citations) : e.utterance \in state.utterances
    BY ResolvedQuoted
  <2>3. QED
    BY <1>3, <1>4, <2>1, <2>2, ReviseValid
<1>6. can /\ expected # NoClaim =>
        \E c \in built.claims :
          /\ c.id = <<r, f, NextRevision(state, r, f)>>
          /\ c.supersedes = IF c.status = "rejected" THEN NoClaim ELSE expected
  <2> SUFFICES ASSUME CanRevise(state, r, f, said, status, citations, expected),
                      expected # NoClaim
               PROVE  \E c \in Revise(state, r, f, said, status, Resolved(citations)).claims :
                        /\ c.id = <<r, f, NextRevision(state, r, f)>>
                        /\ c.supersedes = IF c.status = "rejected" THEN NoClaim ELSE expected
    OBVIOUS
  <2> HIDE DEF can, built, result
  <2>1. state \in State /\ Valid(state) /\ IsFiniteSet(state.claims)
    BY <1>3
  <2>2. said \in SaidOf(f)
    BY <1>3
  <2>3. QED
    BY <1>4, <2>1, <2>2, RevisedExpected, SMTT(60)
<1>7. /\ Commit(result, built, citations)
      /\ last' = IF result = "ok"
                 THEN [op       |-> "revise_record",
                       result   |-> "ok",
                       claim    |-> <<r, f, NextRevision(state, r, f)>>,
                       expected |-> expected]
                 ELSE Outcome("revise_record", result)
  BY <1>2
<1>8. /\ result # "rejected"
      /\ result = "ok" => can
  <2> HIDE DEF can, built
  <2>1. QED
    BY <1>3, <1>5, ResultOk, ResultRejected
<1> HIDE DEF can, built, result
<1>9. CASE result # "ok"
  BY <1>7, <1>8, <1>9, OutcomeTold
<1>10. CASE result = "ok"
  <2>1. state' = built /\ can
    BY <1>7, <1>8, <1>10 DEF Commit
  <2>2. /\ last'.result = "ok" /\ last'.expected = expected
        /\ last'.claim = <<r, f, NextRevision(state, r, f)>>
    BY <1>7, <1>10
  <2>3. QED
    BY <1>6, <2>1, <2>2 DEF Told, RecordGuardsSuffice, ExpectedSuperseded
<1>11. QED
  BY <1>9, <1>10

LEMMA ToldStep == Inv /\ Told /\ [Next]_vars => Told'
<1> SUFFICES ASSUME Inv, Told, [Next]_vars PROVE Told'
  OBVIOUS
<1>1. CASE UNCHANGED vars
  BY <1>1 DEF vars, Told, RecordGuardsSuffice, ExpectedSuperseded
<1>2. CASE Next
  BY <1>2, RecordTold, IssueTold, ReviseTold, CompleteTold DEF Next
<1>3. QED
  BY <1>1, <1>2

(* What the caller was told holds in every state. *)
THEOREM ToldInvariance == Spec => []Told
<1>1. Init => Told
  BY DEF Init, Outcome, Told, RecordGuardsSuffice, ExpectedSuperseded
<1>2. QED
  BY <1>1, ToldStep, Invariance, PTL DEF Spec

(* For all ids, requests and bounds: the validator never turns down an issue, *)
(* a revision or a completion that passed its guards, from any reachable      *)
(* state; what the guards of the tools check is all the validator needs.      *)
THEOREM GuardsAreEnough == Spec => []RecordGuardsSuffice
<1>1. Told => RecordGuardsSuffice
  BY DEF Told
<1>2. QED
  BY <1>1, ToldInvariance, PTL

(* For all ids, requests and bounds: an accepted revision supersedes the very *)
(* claim its caller expected to be current, so no correction is lost.         *)
THEOREM NoLostCorrection == Spec => []ExpectedSuperseded
<1>1. Told => ExpectedSuperseded
  BY DEF Told
<1>2. QED
  BY <1>1, ToldInvariance, PTL
=============================================================================
