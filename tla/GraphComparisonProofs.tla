----------------------- MODULE GraphComparisonProofs -----------------------
(***************************************************************************)
(* Proofs about the assignment method and the comparison of graphs, for    *)
(* all graphs, similarities and bonuses compared.                          *)
(*                                                                         *)
(* The sums the model scores with are folds over sets; they are reduced to *)
(* sums one element at a time.  The Hungarian method keeps an invariant    *)
(* SearchInv: reduced costs of the rows entered are not negative and those *)
(* of matched pairs are zero, unmatched columns have no price, and columns *)
(* of the tree lead back to the entering row by steps that cost nothing.   *)
(* At its end no permutation of the square costs less, and a matching      *)
(* weighs what its permutation saves.  Components do not touch, so that a  *)
(* pair every heaviest matching holds is one that its component cannot     *)
(* spare.  CompInv carries both to the end of the comparison, where counts *)
(* that agree make the mappings onto.                                      *)
(***************************************************************************)
EXTENDS Integers, GraphComparison, FiniteSetTheorems, WellFoundedInduction, TLAPS

(* Sums *)
(* What holds of 0 and of the next number holds of all.                     *)
LEMMA Upwards ==
  ASSUME NEW S, 0 \in S, \A n \in Nat : n \in S => n + 1 \in S
  PROVE  \A n \in Nat : n \in S
<1>1. SUFFICES ASSUME Nat \ S # {} PROVE FALSE
  OBVIOUS
<1>2. PICK n \in Nat \ S : \A m \in Nat \ S : ~ (<<m, n>> \in OpToRel(<, Nat))
  BY <1>1, NatLessThanWellFounded, WFMin
<1>3. \A m \in Nat \ S : ~ (m < n)
  BY <1>2 DEF OpToRel
<1>4. n \in Nat /\ n # 0
  OBVIOUS
<1>5. n - 1 \in Nat /\ n - 1 < n /\ (n - 1) + 1 = n
  BY <1>4
<1>6. n - 1 \in S
  BY <1>3, <1>5
<1>7. QED
  BY <1>5, <1>6

(* The function by which a sum is computed, element by element.             *)
OneOf(S) == CHOOSE x \in S : TRUE
IsSum(g, S, f) ==
  g = [s \in SUBSET S |-> IF s = {} THEN 0 ELSE f[OneOf(s)] + g[s \ {OneOf(s)}]]

LEMMA ScoreIsSum == \A S, f : Score(S, f) = (CHOOSE g : IsSum(g, S, f))[S]
BY DEF Score, MapThenSumSet, MapThenFoldSet, IsSum, OneOf

LEMMA AnyIn == \A S : S # {} => OneOf(S) \in S
BY DEF OneOf

(* A finite set has one element less without one of its elements.           *)
LEMMA WithoutAny ==
  ASSUME NEW S, IsFiniteSet(S), S # {}
  PROVE  /\ IsFiniteSet(S \ {OneOf(S)})
         /\ Cardinality(S) \in Nat /\ Cardinality(S \ {OneOf(S)}) \in Nat
         /\ Cardinality(S) = Cardinality(S \ {OneOf(S)}) + 1
<1>1. OneOf(S) \in S
  BY AnyIn
<1>2. IsFiniteSet(S \ {OneOf(S)}) /\ Cardinality(S \ {OneOf(S)}) = Cardinality(S) - 1
  BY <1>1, FS_RemoveElement
<1>3. Cardinality(S) \in Nat /\ Cardinality(S \ {OneOf(S)}) \in Nat
  BY <1>2, FS_CardinalityType
<1>4. QED
  BY <1>2, <1>3

(* The sum over the parts of a finite set is a function ...                 *)
LEMMA SumExists ==
  ASSUME NEW f, NEW S, IsFiniteSet(S)
  PROVE  \E g : IsSum(g, S, f)
<1> DEFINE Small(n) == {s \in SUBSET S : Cardinality(s) <= n}
           Layer(g, n) == g = [s \in Small(n) |-> IF s = {} THEN 0 ELSE f[OneOf(s)] + g[s \ {OneOf(s)}]]
           K == {n \in Nat : \E g : Layer(g, n)}
<1>1. \A s \in SUBSET S : IsFiniteSet(s) /\ Cardinality(s) \in Nat
  BY FS_Subset, FS_CardinalityType
<1>2. 0 \in K
  <2>1. \A s \in Small(0) : s = {}
    BY <1>1, FS_EmptySet
  <2>2. Layer([s \in Small(0) |-> 0], 0)
    BY <2>1
  <2>3. QED
    BY <2>2
<1>3. ASSUME NEW n \in Nat, n \in K
      PROVE  n + 1 \in K
  <2>1. PICK g : Layer(g, n)
    BY <1>3
  <2> DEFINE h == [s \in Small(n + 1) |-> IF s \in Small(n) THEN g[s] ELSE f[OneOf(s)] + g[s \ {OneOf(s)}]]
  <2>2. ASSUME NEW s \in Small(n + 1)
        PROVE  h[s] = IF s = {} THEN 0 ELSE f[OneOf(s)] + h[s \ {OneOf(s)}]
    <3>1. CASE s = {}
      <4>1. s \in Small(n)
        BY <3>1, FS_EmptySet
      <4>2. g[s] = 0
        BY <2>1, <3>1, <4>1
      <4>3. QED
        BY <3>1, <4>1, <4>2
    <3>2. CASE s # {}
      <4>1. s \ {OneOf(s)} \in Small(n) /\ s \ {OneOf(s)} \in Small(n + 1)
        BY <1>1, <3>2, WithoutAny
      <4>2. h[s \ {OneOf(s)}] = g[s \ {OneOf(s)}]
        BY <4>1
      <4>3. s \in Small(n) => g[s] = f[OneOf(s)] + g[s \ {OneOf(s)}]
        BY <2>1, <3>2
      <4>4. QED
        BY <3>2, <4>2, <4>3
    <3>3. QED
      BY <3>1, <3>2
  <2>3. h = [s \in Small(n + 1) |-> h[s]]
    OBVIOUS
  <2> HIDE DEF h
  <2>4. Layer(h, n + 1)
    <3> HIDE DEF Small
    <3> QED
      BY <2>2, <2>3
  <2>5. QED
    <3> HIDE DEF Layer
    <3> QED
      BY <2>4
<1>4. \A n \in Nat : n \in K
  <2> HIDE DEF K
  <2> QED
    BY <1>2, <1>3, Upwards
<1>5. PICK g : Layer(g, Cardinality(S))
  BY <1>1, <1>4
<1>6. Small(Cardinality(S)) = SUBSET S
  BY FS_Subset
<1>7. IsSum(g, S, f)
  <2> HIDE DEF Small
  <2> QED
    BY <1>5, <1>6 DEF IsSum
<1>8. QED
  BY <1>7

(* ... and the sums over two sets agree on what is part of both.            *)
LEMMA SumUnique ==
  ASSUME NEW f, NEW S, NEW T, NEW g, NEW h, IsSum(g, S, f), IsSum(h, T, f),
         NEW U \in (SUBSET S) \cap (SUBSET T), IsFiniteSet(U)
  PROVE  g[U] = h[U]
<1> DEFINE K == {n \in Nat : \A V \in SUBSET U : Cardinality(V) = n => g[V] = h[V]}
<1>1. \A V \in SUBSET U : /\ IsFiniteSet(V) /\ Cardinality(V) \in Nat
                          /\ V \in SUBSET S /\ V \in SUBSET T
  BY FS_Subset, FS_CardinalityType
<1>2. \A V \in SUBSET U :
        /\ g[V] = IF V = {} THEN 0 ELSE f[OneOf(V)] + g[V \ {OneOf(V)}]
        /\ h[V] = IF V = {} THEN 0 ELSE f[OneOf(V)] + h[V \ {OneOf(V)}]
  BY <1>1 DEF IsSum
<1>3. 0 \in K
  <2>1. ASSUME NEW V \in SUBSET U, Cardinality(V) = 0
        PROVE  g[V] = h[V]
    <3>1. V = {}
      BY <1>1, <2>1, FS_EmptySet
    <3>2. QED
      BY <1>2, <3>1
  <2>2. QED
    BY <2>1
<1>4. ASSUME NEW n \in Nat, n \in K
      PROVE  n + 1 \in K
  <2>1. ASSUME NEW V \in SUBSET U, Cardinality(V) = n + 1
        PROVE  g[V] = h[V]
    <3>1. V # {}
      BY <2>1, FS_EmptySet
    <3>2. V \ {OneOf(V)} \in SUBSET U /\ Cardinality(V \ {OneOf(V)}) = n
      BY <1>1, <2>1, <3>1, WithoutAny
    <3>3. g[V \ {OneOf(V)}] = h[V \ {OneOf(V)}]
      BY <1>4, <3>2
    <3>4. QED
      BY <1>2, <3>1, <3>3
  <2>2. QED
    BY <2>1
<1>5. \A n \in Nat : n \in K
  <2> HIDE DEF K
  <2> QED
    BY <1>3, <1>4, Upwards
<1>6. QED
  BY <1>1, <1>5

(* A score is computed element by element.                                  *)
LEMMA ScoreUnfolds ==
  ASSUME NEW f, NEW S, IsFiniteSet(S)
  PROVE  /\ Score({}, f) = 0
         /\ S # {} => Score(S, f) = f[OneOf(S)] + Score(S \ {OneOf(S)}, f)
<1>1. \A T : IsFiniteSet(T) => IsSum(CHOOSE g : IsSum(g, T, f), T, f)
  BY SumExists
<1>2. Score({}, f) = 0
  <2>1. IsFiniteSet({})
    BY FS_EmptySet
  <2>2. PICK g : IsSum(g, {}, f) /\ Score({}, f) = g[{}]
    BY <1>1, <2>1, ScoreIsSum
  <2>3. QED
    BY <2>2 DEF IsSum
<1>3. ASSUME S # {}
      PROVE  Score(S, f) = f[OneOf(S)] + Score(S \ {OneOf(S)}, f)
  <2> DEFINE T == S \ {OneOf(S)}
  <2>1. IsFiniteSet(T)
    BY <1>3, WithoutAny
  <2>2. PICK g : IsSum(g, S, f) /\ Score(S, f) = g[S]
    BY <1>1, ScoreIsSum
  <2>3. PICK h : IsSum(h, T, f) /\ Score(T, f) = h[T]
    BY <1>1, <2>1, ScoreIsSum
  <2>4. g[T] = h[T]
    BY <2>1, <2>2, <2>3, SumUnique
  <2>5. g[S] = f[OneOf(S)] + g[T]
    BY <1>3, <2>2 DEF IsSum
  <2>6. QED
    BY <2>2, <2>3, <2>4, <2>5
<1>4. QED
  BY <1>2, <1>3

(* Nothing scores nothing, and integers add up to an integer.               *)
LEMMA ScoreEmpty == \A f : Score({}, f) = 0
BY ScoreUnfolds, FS_EmptySet

LEMMA ScoreInt ==
  ASSUME NEW f, NEW S, IsFiniteSet(S), \A x \in S : f[x] \in Int
  PROVE  Score(S, f) \in Int
<1> DEFINE K == {n \in Nat : \A T \in SUBSET S : Cardinality(T) = n => Score(T, f) \in Int}
<1>1. \A T \in SUBSET S : IsFiniteSet(T) /\ Cardinality(T) \in Nat
  BY FS_Subset, FS_CardinalityType
<1>2. 0 \in K
  <2>1. \A T \in SUBSET S : Cardinality(T) = 0 => T = {}
    BY <1>1, FS_EmptySet
  <2>2. QED
    BY <2>1, ScoreEmpty
<1>3. ASSUME NEW n \in Nat, n \in K
      PROVE  n + 1 \in K
  <2>1. ASSUME NEW T \in SUBSET S, Cardinality(T) = n + 1
        PROVE  Score(T, f) \in Int
    <3>1. T # {}
      BY <2>1, FS_EmptySet
    <3>2. T \ {OneOf(T)} \in SUBSET S /\ Cardinality(T \ {OneOf(T)}) = n /\ OneOf(T) \in S
      BY <1>1, <2>1, <3>1, WithoutAny, AnyIn
    <3>3. Score(T \ {OneOf(T)}, f) \in Int /\ f[OneOf(T)] \in Int
      BY <1>3, <3>2
    <3>4. Score(T, f) = f[OneOf(T)] + Score(T \ {OneOf(T)}, f)
      BY <1>1, <3>1, ScoreUnfolds
    <3>5. QED
      BY <3>3, <3>4
  <2>2. QED
    BY <2>1
<1>4. \A n \in Nat : n \in K
  <2> HIDE DEF K
  <2> QED
    BY <1>2, <1>3, Upwards
<1>5. QED
  BY <1>1, <1>4

(* The order of the elements is immaterial.                                 *)
LEMMA ScoreTakes ==
  ASSUME NEW f, NEW S, IsFiniteSet(S), \A x \in S : f[x] \in Int, NEW y \in S
  PROVE  Score(S, f) = f[y] + Score(S \ {y}, f)
<1> DEFINE K == {n \in Nat : \A T \in SUBSET S : Cardinality(T) = n =>
                               \A x \in T : Score(T, f) = f[x] + Score(T \ {x}, f)}
<1>1. \A T \in SUBSET S : IsFiniteSet(T) /\ Cardinality(T) \in Nat /\ Score(T, f) \in Int
  BY FS_Subset, FS_CardinalityType, ScoreInt
<1>2. 0 \in K
  BY <1>1, FS_EmptySet
<1>3. ASSUME NEW n \in Nat, n \in K
      PROVE  n + 1 \in K
  <2>1. ASSUME NEW T \in SUBSET S, Cardinality(T) = n + 1, NEW x \in T
        PROVE  Score(T, f) = f[x] + Score(T \ {x}, f)
    <3> DEFINE a == OneOf(T)
    <3>1. a \in T /\ f[a] \in Int /\ f[x] \in Int
      BY AnyIn
    <3>2. Score(T, f) = f[a] + Score(T \ {a}, f)
      BY <1>1, ScoreUnfolds
    <3>3. T \ {a} \in SUBSET S /\ T \ {x} \in SUBSET S /\ (T \ {a}) \ {x} \in SUBSET S
          /\ (T \ {a}) \ {x} = (T \ {x}) \ {a}
      OBVIOUS
    <3>4. Cardinality(T \ {a}) = n /\ Cardinality(T \ {x}) = n
      <4>1. IsFiniteSet(T) /\ (n + 1) - 1 = n
        BY <1>1
      <4>2. \A z \in T : Cardinality(T \ {z}) = Cardinality(T) - 1
        BY <4>1, FS_RemoveElement
      <4>3. QED
        BY <2>1, <3>1, <4>1, <4>2
    <3> HIDE DEF a
    <3>5. CASE x = a
      BY <3>2, <3>5
    <3>6. CASE x # a
      <4>1. Score(T \ {a}, f) = f[x] + Score((T \ {a}) \ {x}, f)
        BY <1>3, <3>3, <3>4, <3>6
      <4>2. Score(T \ {x}, f) = f[a] + Score((T \ {x}) \ {a}, f)
        BY <1>3, <3>1, <3>3, <3>4, <3>6
      <4>3. Score((T \ {a}) \ {x}, f) \in Int
        BY <1>1, <3>3
      <4>4. Score((T \ {a}) \ {x}, f) = Score((T \ {x}) \ {a}, f)
        BY <3>3, Zenon
      <4>5. QED
        BY ONLY <3>1, <3>2, <4>1, <4>2, <4>3, <4>4
    <3>7. QED
      BY <3>5, <3>6
  <2>2. QED
    BY <2>1
<1>4. \A n \in Nat : n \in K
  <2> HIDE DEF K
  <2> QED
    BY <1>2, <1>3, Upwards
<1>5. QED
  BY <1>1, <1>4

(* Induction over the elements of a finite set: the sets reached from the   *)
(* empty one by adding one element after the other are all its subsets.     *)
LEMMA OneByOne ==
  ASSUME NEW S, IsFiniteSet(S), NEW C, {} \in C,
         \A T \in SUBSET S : \A x \in S \ T : T \in C => T \cup {x} \in C
  PROVE  S \in C
<1> DEFINE K == {n \in Nat : \A T \in SUBSET S : Cardinality(T) = n => T \in C}
<1>1. \A T \in SUBSET S : IsFiniteSet(T) /\ Cardinality(T) \in Nat
  BY FS_Subset, FS_CardinalityType
<1>2. 0 \in K
  BY <1>1, FS_EmptySet
<1>3. ASSUME NEW n \in Nat, n \in K
      PROVE  n + 1 \in K
  <2>1. ASSUME NEW T \in SUBSET S, Cardinality(T) = n + 1
        PROVE  T \in C
    <3>1. T # {}
      <4>1. Cardinality(T) # 0
        BY <2>1
      <4>2. QED
        BY <4>1, FS_EmptySet
    <3>2. /\ T \ {OneOf(T)} \in SUBSET S /\ Cardinality(T \ {OneOf(T)}) = n
          /\ OneOf(T) \in S \ (T \ {OneOf(T)})
          /\ (T \ {OneOf(T)}) \cup {OneOf(T)} = T
      BY <1>1, <2>1, <3>1, WithoutAny, AnyIn
    <3>3. T \ {OneOf(T)} \in C
      BY <1>3, <3>2
    <3>4. QED
      BY <3>2, <3>3
  <2>2. QED
    BY <2>1
<1>4. \A n \in Nat : n \in K
  <2> HIDE DEF K
  <2> QED
    BY <1>2, <1>3, Upwards
<1>5. QED
  BY <1>1, <1>4

(* Scores add up.                                                           *)
LEMMA ScoreAdds ==
  ASSUME NEW f, NEW S, IsFiniteSet(S), NEW y, y \notin S,
         \A x \in S \cup {y} : f[x] \in Int
  PROVE  Score(S \cup {y}, f) = Score(S, f) + f[y]
<1>1. IsFiniteSet(S \cup {y}) /\ (S \cup {y}) \ {y} = S
  BY FS_AddElement
<1>2. Score(S \cup {y}, f) = f[y] + Score((S \cup {y}) \ {y}, f)
  BY <1>1, ScoreTakes
<1>3. Score(S, f) \in Int /\ f[y] \in Int
  BY ScoreInt
<1>4. Score((S \cup {y}) \ {y}, f) = Score(S, f)
  BY <1>1, Zenon
<1>5. QED
  BY ONLY <1>2, <1>3, <1>4

LEMMA ScoreUnion ==
  ASSUME NEW f, NEW S, NEW T, IsFiniteSet(S), IsFiniteSet(T), S \cap T = {},
         \A x \in S \cup T : f[x] \in Int
  PROVE  Score(S \cup T, f) = Score(S, f) + Score(T, f)
<1> DEFINE C == {U \in SUBSET T : Score(S \cup U, f) = Score(S, f) + Score(U, f)}
<1>1. \A U \in SUBSET T : /\ IsFiniteSet(U) /\ IsFiniteSet(S \cup U)
                          /\ Score(U, f) \in Int /\ Score(S \cup U, f) \in Int
  BY FS_Subset, FS_Union, ScoreInt
<1>2. Score(S, f) \in Int
  BY ScoreInt
<1>3. {} \in C
  <2>1. Score({}, f) = 0 /\ S \cup {} = S
    BY ScoreEmpty
  <2>2. QED
    BY <1>2, <2>1
<1>4. ASSUME NEW U \in SUBSET T, NEW x \in T \ U, U \in C
      PROVE  U \cup {x} \in C
  <2>1. Score(U \cup {x}, f) = Score(U, f) + f[x]
    BY <1>1, ScoreAdds
  <2>2. Score((S \cup U) \cup {x}, f) = Score(S \cup U, f) + f[x]
    BY <1>1, ScoreAdds
  <2>3. (S \cup U) \cup {x} = S \cup (U \cup {x}) /\ U \cup {x} \in SUBSET T
    OBVIOUS
  <2>4. Score(S \cup U, f) = Score(S, f) + Score(U, f) /\ f[x] \in Int
    BY <1>4
  <2>5. Score(S \cup (U \cup {x}), f) = Score(S, f) + Score(U \cup {x}, f)
    <3>1. Score((S \cup U) \cup {x}, f) = Score(S \cup (U \cup {x}), f)
      BY <2>3, Zenon
    <3>2. Score(U, f) \in Int /\ Score(S \cup U, f) \in Int
      BY <1>1
    <3>3. QED
      BY ONLY <1>2, <2>1, <2>2, <2>4, <3>1, <3>2
  <2>6. QED
    BY <2>3, <2>5
<1>5. T \in C
  <2> HIDE DEF C
  <2> QED
    BY <1>3, <1>4, OneByOne
<1>6. QED
  BY <1>5

(* Equal summands have equal sums, smaller ones a smaller sum.              *)
LEMMA ScoreSame ==
  ASSUME NEW f, NEW g, NEW S, IsFiniteSet(S), \A x \in S : f[x] \in Int /\ f[x] = g[x]
  PROVE  Score(S, f) = Score(S, g)
<1> DEFINE C == {U \in SUBSET S : Score(U, f) = Score(U, g)}
<1>1. \A U \in SUBSET S : IsFiniteSet(U)
  BY FS_Subset
<1>2. {} \in C
  BY ScoreEmpty
<1>3. ASSUME NEW U \in SUBSET S, NEW x \in S \ U, U \in C
      PROVE  U \cup {x} \in C
  <2>1. Score(U \cup {x}, f) = Score(U, f) + f[x] /\ Score(U \cup {x}, g) = Score(U, g) + g[x]
    BY <1>1, ScoreAdds
  <2>2. U \cup {x} \in SUBSET S /\ f[x] = g[x] /\ Score(U, f) = Score(U, g)
    BY <1>3
  <2>3. QED
    BY <2>1, <2>2
<1>4. S \in C
  <2> HIDE DEF C
  <2> QED
    BY <1>2, <1>3, OneByOne
<1>5. QED
  BY <1>4

LEMMA ScoreLeq ==
  ASSUME NEW f, NEW g, NEW S, IsFiniteSet(S),
         \A x \in S : f[x] \in Int /\ g[x] \in Int /\ f[x] <= g[x]
  PROVE  Score(S, f) <= Score(S, g)
<1> DEFINE C == {U \in SUBSET S : Score(U, f) <= Score(U, g)}
<1>1. \A U \in SUBSET S : IsFiniteSet(U) /\ Score(U, f) \in Int /\ Score(U, g) \in Int
  BY FS_Subset, ScoreInt
<1>2. {} \in C
  BY ScoreEmpty
<1>3. ASSUME NEW U \in SUBSET S, NEW x \in S \ U, U \in C
      PROVE  U \cup {x} \in C
  <2>1. Score(U \cup {x}, f) = Score(U, f) + f[x] /\ Score(U \cup {x}, g) = Score(U, g) + g[x]
    BY <1>1, ScoreAdds
  <2>2. U \cup {x} \in SUBSET S /\ f[x] \in Int /\ g[x] \in Int /\ f[x] <= g[x] /\ Score(U, f) <= Score(U, g)
    BY <1>3
  <2>3. QED
    BY <1>1, <2>1, <2>2
<1>4. S \in C
  <2> HIDE DEF C
  <2> QED
    BY <1>2, <1>3, OneByOne
<1>5. QED
  BY <1>4

(* A sum reaches its upper bound only if every summand does.                *)
LEMMA ScoreFull ==
  ASSUME NEW f, NEW k \in Nat, NEW S, IsFiniteSet(S),
         \A x \in S : f[x] \in Int /\ f[x] <= k
  PROVE  /\ Score(S, f) <= k * Cardinality(S)
         /\ Score(S, f) = k * Cardinality(S) => \A x \in S : f[x] = k
<1> DEFINE C == {U \in SUBSET S : /\ Score(U, f) <= k * Cardinality(U)
                                  /\ Score(U, f) = k * Cardinality(U) => \A x \in U : f[x] = k}
<1>1. \A U \in SUBSET S : IsFiniteSet(U) /\ Score(U, f) \in Int /\ Cardinality(U) \in Nat
  BY FS_Subset, FS_CardinalityType, ScoreInt
<1>2. {} \in C
  <2>1. Score({}, f) = 0 /\ Cardinality({}) = 0 /\ k * 0 = 0
    BY ScoreEmpty, FS_EmptySet
  <2>2. QED
    BY <2>1
<1>3. ASSUME NEW U \in SUBSET S, NEW x \in S \ U, U \in C
      PROVE  U \cup {x} \in C
  <2>1. Score(U \cup {x}, f) = Score(U, f) + f[x]
    BY <1>1, ScoreAdds
  <2>2. Cardinality(U \cup {x}) = Cardinality(U) + 1
    BY <1>1, FS_AddElement
  <2>3. k * (Cardinality(U) + 1) = k * Cardinality(U) + k /\ k * Cardinality(U) \in Int
    BY <1>1
  <2>4. /\ f[x] \in Int /\ f[x] <= k
        /\ Score(U, f) <= k * Cardinality(U)
        /\ Score(U, f) = k * Cardinality(U) => \A y \in U : f[y] = k
    BY <1>3
  <2>5. /\ Score(U \cup {x}, f) <= k * Cardinality(U \cup {x})
        /\ Score(U \cup {x}, f) = k * Cardinality(U \cup {x}) =>
             f[x] = k /\ Score(U, f) = k * Cardinality(U)
    BY <1>1, <2>1, <2>2, <2>3, <2>4
  <2>6. QED
    BY <2>4, <2>5
<1>4. S \in C
  <2> HIDE DEF C
  <2> QED
    BY <1>2, <1>3, OneByOne
<1>5. QED
  BY <1>4

(* A finite set has an element of greatest value.                           *)
LEMMA Greatest ==
  ASSUME NEW f, NEW S, IsFiniteSet(S), S # {}, \A x \in S : f[x] \in Int
  PROVE  \E x \in S : \A y \in S : f[y] <= f[x]
<1> DEFINE C == {U \in SUBSET S : U # {} => \E x \in U : \A y \in U : f[y] <= f[x]}
<1>1. {} \in C
  OBVIOUS
<1>2. ASSUME NEW U \in SUBSET S, NEW z \in S \ U, U \in C
      PROVE  U \cup {z} \in C
  <2>1. CASE U = {}
    BY <2>1
  <2>2. CASE U # {}
    <3>1. PICK x \in U : \A y \in U : f[y] <= f[x]
      BY <1>2, <2>2
    <3>2. \A y \in S : f[y] \in Int
      OBVIOUS
    <3>3. CASE f[z] <= f[x]
      BY <3>1, <3>3
    <3>4. CASE ~(f[z] <= f[x])
      <4>1. \A y \in U \cup {z} : f[y] <= f[z]
        BY <3>1, <3>2, <3>4
      <4>2. QED
        BY <4>1
    <3>5. QED
      BY <3>3, <3>4
  <2>3. QED
    BY <2>1, <2>2
<1>3. S \in C
  <2> HIDE DEF C
  <2> QED
    BY <1>1, <1>2, OneByOne
<1>4. QED
  BY <1>3

-----------------------------------------------------------------------------
(* The search for an assignment *)
States == {"ready", "growing", "flipping"}

Searches(N) ==
  [row : 0 .. N, at : 0 .. N, state : States,
   match : [0 .. N -> 0 .. N], previous : [0 .. N -> 0 .. N],
   u : [0 .. N -> Int], v : [0 .. N -> Int], minimum : [0 .. N -> Int],
   used : SUBSET (0 .. N)]

Reduced(s, cost, c, r) == cost[c][r] - s.u[r] - s.v[c]

(* The row under way has no price before the tree first grows.              *)
Priced(s) == IF s.state = "growing" /\ s.used = {} THEN 1 .. s.row - 1 ELSE 1 .. s.row

Prices(s, N, cost) ==
  /\ \A r \in Priced(s), c \in 1 .. N : Reduced(s, cost, c, r) >= 0
  /\ \A c \in 1 .. N : s.match[c] # 0 => Reduced(s, cost, c, s.match[c]) = 0
  /\ \A c \in 1 .. N : s.v[c] <= 0 /\ (s.match[c] = 0 => s.v[c] = 0)
  /\ \A r \in (1 .. N) \ Priced(s) : s.u[r] = 0

(* The column whose row is also elsewhere.                                  *)
Hole(s) == IF s.state = "growing" THEN {} ELSE {s.at}

Placed(s, N) ==
  /\ \A c \in 0 .. N : s.match[c] <= s.row
  /\ \A c, d \in (0 .. N) \ Hole(s) : s.match[c] # 0 /\ s.match[c] = s.match[d] => c = d
  /\ \A r \in 1 .. s.row : \E c \in (0 .. N) \ Hole(s) : s.match[c] = r

(* Columns of the tree lead back to column 0 by free steps.                 *)
Back(s, cost, P, rank) ==
  \A c \in P \ {0} :
    /\ s.previous[c] \in P /\ rank[s.previous[c]] < rank[c]
    /\ Reduced(s, cost, c, s.match[s.previous[c]]) = 0

Tree(s, N, cost) ==
  /\ s.match[0] = s.row /\ s.row > 0
  /\ s.at \notin s.used
  /\ \A c \in s.used \cup {s.at} : s.match[c] # 0
  /\ s.used = {} => s.at = 0 /\ \A c \in 1 .. N : s.minimum[c] = Infinite
  /\ s.used # {} =>
       /\ 0 \in s.used
       /\ s.minimum[s.at] = 0
       /\ \A c \in (1 .. N) \ s.used :
            /\ s.minimum[c] >= 0 /\ s.previous[c] \in s.used
            /\ s.minimum[c] = Reduced(s, cost, c, s.match[s.previous[c]])
            /\ \A j \in s.used : s.minimum[c] <= Reduced(s, cost, c, s.match[j])
  /\ \E rank \in [0 .. N -> Nat] : \E k \in Nat :
       (\A c \in s.used : rank[c] < k) /\ Back(s, cost, s.used, rank)

Path(s, N, cost) ==
  /\ s.at # 0
  /\ \E P \in SUBSET (0 .. N) : \E rank \in [0 .. N -> Nat] :
       /\ s.at \in P /\ Back(s, cost, P, rank)
       /\ \A c \in P : rank[c] <= rank[s.at]
       /\ \A c \in P \ {s.at} : s.match[c] # 0

SearchInv(s, N, cost) ==
  /\ s \in Searches(N)
  /\ Placed(s, N) /\ Prices(s, N, cost)
  /\ s.state = "ready"    => s.at = 0
  /\ s.state = "growing"  => Tree(s, N, cost)
  /\ s.state = "flipping" => Path(s, N, cost)

Costs(N) == [1 .. N -> [1 .. N -> -10 .. Forbidden]]

(* The fields of a search.                                                  *)
LEMMA SearchFields ==
  ASSUME NEW N \in Nat, NEW s \in Searches(N)
  PROVE  /\ s.row \in 0 .. N /\ s.at \in 0 .. N /\ s.state \in States
         /\ s.match \in [0 .. N -> 0 .. N] /\ s.previous \in [0 .. N -> 0 .. N]
         /\ s.u \in [0 .. N -> Int] /\ s.v \in [0 .. N -> Int] /\ s.minimum \in [0 .. N -> Int]
         /\ s.used \in SUBSET (0 .. N)
BY DEF Searches

(* The search invariant holds at the start of a search ...                  *)
LEMMA FreshInv ==
  ASSUME NEW N \in Nat, NEW cost
  PROVE  SearchInv(Fresh(N), N, cost)
<1> DEFINE s == Fresh(N)
<1>1. /\ s.row = 0 /\ s.at = 0 /\ s.state = "ready" /\ s.used = {}
      /\ \A c \in 0 .. N : s.match[c] = 0 /\ s.u[c] = 0 /\ s.v[c] = 0
  BY DEF Fresh
<1>2. s \in Searches(N)
  BY DEF Fresh, Searches, States
<1> HIDE DEF s
<1>3. Placed(s, N)
  BY <1>1 DEF Placed
<1>4. Prices(s, N, cost)
  BY <1>1 DEF Prices, Priced
<1>5. QED
  BY <1>1, <1>2, <1>3, <1>4 DEF SearchInv, s

(* ... and when the next row enters.                                        *)
LEMMA EnteredInv ==
  ASSUME NEW N \in Nat, NEW cost, NEW s, SearchInv(s, N, cost), s.state = "ready", s.row < N,
         Infinite \in Int
  PROVE  SearchInv(Entered(s, N), N, cost)
<1> DEFINE t == Entered(s, N)
<1>1. s \in Searches(N) /\ Placed(s, N) /\ Prices(s, N, cost) /\ s.at = 0
  BY DEF SearchInv
<1>2. /\ s.row \in 0 .. N /\ s.match \in [0 .. N -> 0 .. N]
      /\ s.u \in [0 .. N -> Int] /\ s.v \in [0 .. N -> Int]
  BY <1>1, SearchFields
<1>3. /\ t.row = s.row + 1 /\ t.at = 0 /\ t.state = "growing" /\ t.used = {}
      /\ t.match = [s.match EXCEPT ![0] = s.row + 1]
      /\ t.u = s.u /\ t.v = s.v /\ t.previous = s.previous
      /\ t.minimum = [c \in 0 .. N |-> Infinite]
  BY <1>1 DEF Entered, Searches
<1>a. s.row \in Nat /\ s.row + 1 \in 0 .. N /\ s.row + 1 \in 1 .. N /\ 0 \in 0 .. N
  <2>1. s.row \in 0 .. N /\ s.row < N
    BY <1>2
  <2>2. QED
    BY ONLY <2>1, N \in Nat
<1>4. t \in Searches(N)
  <2>1. [s.match EXCEPT ![0] = s.row + 1] \in [0 .. N -> 0 .. N]
    BY <1>2, <1>a
  <2>2. [c \in 0 .. N |-> Infinite] \in [0 .. N -> Int]
    OBVIOUS
  <2>3. QED
    BY <1>1, <1>a, <2>1, <2>2 DEF Entered, Searches, States
<1> HIDE DEF t
<1>5. t.match[0] = s.row + 1 /\ \A c \in 1 .. N : t.match[c] = s.match[c] /\ t.match[c] \in 0 .. N
  <2>1. t.match[0] = s.row + 1
    BY <1>2, <1>3, <1>a
  <2>2. ASSUME NEW c \in 1 .. N PROVE t.match[c] = s.match[c] /\ t.match[c] \in 0 .. N
    <3>1. c \in 0 .. N /\ c # 0
      OBVIOUS
    <3>2. QED
      BY <1>2, <1>3, <3>1
  <2>3. QED
    BY <2>1, <2>2
<1>6. \A c \in 1 .. N : s.match[c] <= s.row
  BY <1>1 DEF Placed
<1>7. Placed(t, N)
  <2>1. \A c \in 0 .. N : t.match[c] <= t.row
    <3> SUFFICES ASSUME NEW c \in 0 .. N PROVE t.match[c] <= s.row + 1
      BY <1>3
    <3>1. CASE c = 0
      BY <1>5, <1>a, <3>1
    <3>2. CASE c # 0
      <4>1. c \in 1 .. N
        BY <3>2
      <4>2. t.match[c] \in 0 .. N /\ t.match[c] <= s.row
        BY <1>5, <1>6, <4>1
      <4>3. QED
        BY <1>a, <4>2
    <3>3. QED
      BY <3>1, <3>2
  <2>2. \A c, d \in 1 .. N : s.match[c] # 0 /\ s.match[c] = s.match[d] => c = d
    BY <1>1 DEF Placed, Hole
  <2>3. \A c, d \in 0 .. N : t.match[c] # 0 /\ t.match[c] = t.match[d] => c = d
    <3>1. \A c \in 0 .. N : c = 0 \/ c \in 1 .. N
      OBVIOUS
    <3>2. \A c \in 1 .. N : t.match[c] # t.match[0]
      BY <1>5, <1>6, <1>a
    <3>3. QED
      BY <1>5, <2>2, <3>1, <3>2
  <2>4. \A r \in 1 .. s.row : \E c \in 1 .. N : s.match[c] = r
    BY <1>1 DEF Placed, Hole
  <2>5. \A r \in 1 .. t.row : \E c \in 0 .. N : t.match[c] = r
    <3> SUFFICES ASSUME NEW r \in 1 .. t.row PROVE \E c \in 0 .. N : t.match[c] = r
      OBVIOUS
    <3>1. CASE r = s.row + 1
      BY <1>5, <3>1
    <3>2. CASE r # s.row + 1
      <4>1. r \in 1 .. s.row
        BY <1>a, <1>3, <3>2
      <4>2. PICK c \in 1 .. N : s.match[c] = r
        BY <2>4, <4>1
      <4>3. QED
        BY <1>5, <4>2
    <3>3. QED
      BY <3>1, <3>2
  <2>6. QED
    BY <1>3, <2>1, <2>3, <2>5 DEF Placed, Hole
<1>8. Prices(t, N, cost)
  <2>1. Priced(s) = 1 .. s.row /\ Priced(t) = 1 .. s.row
    BY <1>2, <1>3 DEF Priced
  <2>2. \A c, r : Reduced(t, cost, c, r) = Reduced(s, cost, c, r)
    BY <1>3 DEF Reduced
  <2>3. QED
    BY <1>1, <1>3, <1>5, <2>1, <2>2 DEF Prices
<1>9. Tree(t, N, cost)
  <2>1. Back(t, cost, t.used, [c \in 0 .. N |-> 0])
    BY <1>3 DEF Back
  <2>2. [c \in 0 .. N |-> 0] \in [0 .. N -> Nat] /\ \A c \in t.used : [d \in 0 .. N |-> 0][c] < 0
    BY <1>3
  <2>3. \E rank \in [0 .. N -> Nat] : \E k \in Nat :
           (\A c \in t.used : rank[c] < k) /\ Back(t, cost, t.used, rank)
    BY <2>1, <2>2
  <2>4. QED
    <3>1. t.match[0] = t.row /\ t.row > 0 /\ t.row # 0
      BY <1>3, <1>5, <1>a
    <3>2. \A c \in 1 .. N : t.minimum[c] = Infinite
      BY <1>3
    <3>3. QED
      BY <1>3, <2>3, <3>1, <3>2 DEF Tree
<1>10. QED
  BY <1>3, <1>4, <1>7, <1>8, <1>9 DEF SearchInv, t

(* A flip moves the hole one column back along the path.                    *)
LEMMA FlippedInv ==
  ASSUME NEW N \in Nat, NEW cost, NEW s, SearchInv(s, N, cost), s.state = "flipping"
  PROVE  SearchInv(Flipped(s), N, cost)
<1> DEFINE t == Flipped(s)  p == s.previous[s.at]
<1>1. s \in Searches(N) /\ Placed(s, N) /\ Prices(s, N, cost) /\ Path(s, N, cost)
  BY DEF SearchInv
<1>2. /\ s.row \in 0 .. N /\ s.at \in 0 .. N /\ s.match \in [0 .. N -> 0 .. N]
      /\ s.previous \in [0 .. N -> 0 .. N]
  BY <1>1, SearchFields
<1>3. p \in 0 .. N /\ s.at # 0 /\ s.match[p] \in 0 .. N
  BY <1>1, <1>2 DEF Path
<1>4. /\ t.row = s.row /\ t.at = p /\ t.used = s.used
      /\ t.state = IF p = 0 THEN "ready" ELSE "flipping"
      /\ t.match = [s.match EXCEPT ![s.at] = s.match[p]]
      /\ t.u = s.u /\ t.v = s.v /\ t.previous = s.previous
  BY <1>1 DEF Flipped, Searches
<1>5. t \in Searches(N)
  BY <1>1, <1>2, <1>3 DEF Flipped, Searches, States
<1>6. PICK P \in SUBSET (0 .. N), rank \in [0 .. N -> Nat] :
        /\ s.at \in P /\ Back(s, cost, P, rank)
        /\ \A c \in P : rank[c] <= rank[s.at]
        /\ \A c \in P \ {s.at} : s.match[c] # 0
  BY <1>1 DEF Path
<1>7. /\ p \in P /\ rank[p] < rank[s.at] /\ p # s.at /\ s.match[p] # 0
      /\ Reduced(s, cost, s.at, s.match[p]) = 0
  BY <1>3, <1>6 DEF Back
<1>8. t.match[s.at] = s.match[p] /\ \A c \in (0 .. N) \ {s.at} : t.match[c] = s.match[c]
  BY <1>2, <1>3, <1>4
<1>9. \A c, r : Reduced(t, cost, c, r) = Reduced(s, cost, c, r)
  BY <1>4 DEF Reduced
<1> HIDE DEF t, p
<1>10. Placed(t, N)
  <2>1. Hole(s) = {s.at} /\ Hole(t) = {p}
    BY <1>4 DEF Hole
  <2>2. \A c \in 0 .. N : t.match[c] <= t.row
    BY <1>1, <1>3, <1>4, <1>8 DEF Placed
  <2>3. \A c, d \in (0 .. N) \ {s.at} : s.match[c] # 0 /\ s.match[c] = s.match[d] => c = d
    BY <1>1, <2>1 DEF Placed
  <2>4. \A c, d \in (0 .. N) \ {p} : t.match[c] # 0 /\ t.match[c] = t.match[d] => c = d
    <3> DEFINE from(c) == IF c = s.at THEN p ELSE c
    <3>1. \A c \in (0 .. N) \ {p} : /\ from(c) \in (0 .. N) \ {s.at}
                                     /\ t.match[c] = s.match[from(c)]
      BY <1>3, <1>7, <1>8
    <3>2. \A c, d \in (0 .. N) \ {p} : from(c) = from(d) => c = d
      OBVIOUS
    <3> HIDE DEF from
    <3>3. QED
      BY <2>3, <3>1, <3>2
  <2>5. \A r \in 1 .. t.row : \E c \in (0 .. N) \ {p} : t.match[c] = r
    <3> SUFFICES ASSUME NEW r \in 1 .. s.row PROVE \E c \in (0 .. N) \ {p} : t.match[c] = r
      BY <1>4
    <3>1. PICK c \in (0 .. N) \ {s.at} : s.match[c] = r
      BY <1>1, <2>1 DEF Placed
    <3>2. CASE c = p
      BY <1>2, <1>7, <1>8, <3>1, <3>2
    <3>3. CASE c # p
      BY <1>8, <3>1, <3>3
    <3>4. QED
      BY <3>2, <3>3
  <2>6. QED
    BY <2>1, <2>2, <2>4, <2>5 DEF Placed
<1>11. Prices(t, N, cost)
  <2>1. Priced(s) = 1 .. s.row /\ Priced(t) = 1 .. s.row
    BY <1>4 DEF Priced
  <2>2. \A c \in 1 .. N : t.match[c] # 0 => Reduced(t, cost, c, t.match[c]) = 0
    BY <1>1, <1>7, <1>8, <1>9 DEF Prices
  <2>3. \A c \in 1 .. N : t.v[c] <= 0 /\ (t.match[c] = 0 => t.v[c] = 0)
    BY <1>1, <1>4, <1>7, <1>8 DEF Prices
  <2>4. QED
    BY <1>1, <1>4, <1>9, <2>1, <2>2, <2>3 DEF Prices
<1>12. p # 0 => Path(t, N, cost)
  <2> SUFFICES ASSUME p # 0 PROVE Path(t, N, cost)
    OBVIOUS
  <2> DEFINE Q == {c \in P : rank[c] <= rank[p]}
  <2>1. \A c \in P : rank[c] \in Nat
    OBVIOUS
  <2>2. s.at \notin Q /\ p \in Q
    <3>1. p \in P /\ rank[p] < rank[s.at] /\ rank[p] \in Nat /\ rank[s.at] \in Nat
      BY <1>6, <1>7, <2>1
    <3>2. rank[p] <= rank[p] /\ ~(rank[s.at] <= rank[p])
      BY ONLY <3>1
    <3>3. QED
      BY <3>1, <3>2
  <2>3. Back(t, cost, Q, rank)
    <3> SUFFICES ASSUME NEW c \in Q \ {0}
                 PROVE  /\ t.previous[c] \in Q /\ rank[t.previous[c]] < rank[c]
                        /\ Reduced(t, cost, c, t.match[t.previous[c]]) = 0
      BY DEF Back
    <3>1. /\ s.previous[c] \in P /\ rank[s.previous[c]] < rank[c]
          /\ Reduced(s, cost, c, s.match[s.previous[c]]) = 0
      BY <1>6 DEF Back
    <3>2. s.previous[c] \in Q
      <4>1. rank[s.previous[c]] \in Nat /\ rank[c] \in Nat /\ rank[p] \in Nat /\ rank[c] <= rank[p]
        BY <1>7, <2>1, <3>1
      <4>2. QED
        BY <3>1, <4>1
    <3>3. t.match[s.previous[c]] = s.match[s.previous[c]]
      BY <1>8, <2>2, <3>2
    <3>4. QED
      BY <1>4, <1>9, <3>1, <3>2, <3>3
  <2>4. \A c \in Q \ {p} : t.match[c] # 0
    BY <1>6, <1>8, <2>2
  <2>5. QED
    BY <1>4, <2>2, <2>3, <2>4 DEF Path
<1>13. QED
  BY <1>4, <1>5, <1>10, <1>11, <1>12 DEF SearchInv, t
-----------------------------------------------------------------------------
(* A finite set of integers, and one of natural numbers, has a least one.   *)
LEMMA LeastValue ==
  ASSUME NEW f, NEW S, IsFiniteSet(S), S # {}, \A x \in S : f[x] \in Int
  PROVE  /\ \E x \in S : f[x] = Least({f[y] : y \in S})
         /\ \A x \in S : Least({f[y] : y \in S}) <= f[x]
<1> DEFINE g == [x \in S |-> -f[x]]
<1>1. \A x \in S : g[x] \in Int /\ g[x] = -f[x]
  OBVIOUS
<1>2. PICK x \in S : \A y \in S : g[y] <= g[x]
  <2> HIDE DEF g
  <2> QED
    BY <1>1, Greatest
<1>3. \A y \in S : f[x] <= f[y]
  <2> HIDE DEF g
  <2> QED
    BY <1>1, <1>2
<1>4. f[x] \in {f[y] : y \in S} /\ \A z \in {f[y] : y \in S} : f[x] <= z
  BY <1>3
<1>5. /\ Least({f[y] : y \in S}) \in {f[y] : y \in S}
      /\ \A z \in {f[y] : y \in S} : Least({f[y] : y \in S}) <= z
  BY <1>4 DEF Least
<1>6. QED
  BY <1>5

LEMMA LeastNumber ==
  ASSUME NEW S, IsFiniteSet(S), S # {}, S \subseteq Int
  PROVE  Least(S) \in S
<1> DEFINE f == [x \in S |-> x]
<1>1. \A x \in S : f[x] \in Int /\ f[x] = x
  OBVIOUS
<1>2. {f[y] : y \in S} = S
  BY <1>1
<1> HIDE DEF f
<1>3. \E x \in S : f[x] = Least({f[y] : y \in S})
  BY <1>1, LeastValue
<1>4. QED
  BY <1>1, <1>2, <1>3

(* While a row seeks its column, some column is free: no more rows than     *)
(* columns have entered.                                                    *)
LEMMA SomeFree ==
  ASSUME NEW N \in Nat, NEW s \in Searches(N), Placed(s, N), s.state = "growing",
         s.match[0] = s.row, s.row > 0
  PROVE  \E c \in 1 .. N : s.match[c] = 0
<1> SUFFICES ASSUME \A c \in 1 .. N : s.match[c] # 0 PROVE FALSE
  OBVIOUS
<1>1. s.match \in [0 .. N -> 0 .. N] /\ s.row \in 0 .. N
  BY SearchFields
<1>2. \A c \in 0 .. N : s.match[c] # 0
  <2>1. \A c \in 0 .. N : c = 0 \/ c \in 1 .. N
    OBVIOUS
  <2>2. s.match[0] # 0
    BY <1>1
  <2>3. QED
    BY <2>1, <2>2
<1>3. s.match \in [0 .. N -> 1 .. N]
  <2>1. \A c \in 0 .. N : s.match[c] \in 1 .. N
    <3>1. \A c \in 0 .. N : s.match[c] \in 0 .. N
      BY <1>1
    <3>2. \A r \in 0 .. N : r # 0 => r \in 1 .. N
      BY ONLY N \in Nat
    <3>3. QED
      BY <1>2, <3>1, <3>2
  <2>2. s.match = [c \in 0 .. N |-> s.match[c]]
    BY <1>1
  <2> DEFINE g == s.match
  <2> HIDE DEF g
  <2>3. g \in [0 .. N -> 1 .. N]
    BY <2>1, <2>2 DEF g
  <2>4. QED
    BY <2>3 DEF g
<1>4. /\ IsFiniteSet(0 .. N) /\ IsFiniteSet(1 .. N)
      /\ Cardinality(0 .. N) = N + 1 /\ Cardinality(1 .. N) = N
  <2>1. IsFiniteSet(0 .. N) /\ IsFiniteSet(1 .. N)
    BY FS_Interval
  <2>2. Cardinality(0 .. N) = IF 0 > N THEN 0 ELSE N - 0 + 1
    BY FS_Interval
  <2>3. Cardinality(1 .. N) = IF 1 > N THEN 0 ELSE N - 1 + 1
    BY FS_Interval
  <2>4. QED
    BY <2>1, <2>2, <2>3
<1>5. \E c, d \in 0 .. N : c # d /\ s.match[c] = s.match[d]
  <2>1. Cardinality(1 .. N) < Cardinality(0 .. N)
    BY <1>4
  <2> DEFINE S == 0 .. N  T == 1 .. N
  <2>2. /\ IsFiniteSet(S) /\ IsFiniteSet(T) /\ Cardinality(T) < Cardinality(S)
        /\ s.match \in [S -> T]
    BY <1>3, <1>4, <2>1
  <2> HIDE DEF S, T
  <2>3. \E c, d \in S : c # d /\ s.match[c] = s.match[d]
    BY <2>2, FS_PigeonHole
  <2>4. QED
    BY <2>3 DEF S
<1>6. QED
  BY <1>2, <1>5 DEF Placed, Hole
-----------------------------------------------------------------------------
TreeOf(s) == s.used \cup {s.at}
OpenOf(s, N) == (1 .. N) \ TreeOf(s)
Nearer(s, N, cost) ==
  {c \in OpenOf(s, N) : Reduced(s, cost, c, s.match[s.at]) < s.minimum[c]}
Nearest(s, N, cost) ==
  [c \in 0 .. N |-> IF c \in Nearer(s, N, cost) THEN Reduced(s, cost, c, s.match[s.at])
                    ELSE s.minimum[c]]
Gap(s, N, cost) == Least({Nearest(s, N, cost)[c] : c \in OpenOf(s, N)})
Reached(s, N, cost) == Least({c \in OpenOf(s, N) : Nearest(s, N, cost)[c] = Gap(s, N, cost)})
RowsOf(s) == {s.match[c] : c \in TreeOf(s)}

(* What growth does, in these terms.                                        *)
LEMMA GrownIs ==
  ASSUME NEW N \in Nat, NEW cost, NEW s \in Searches(N)
  PROVE  Grown(s, N, cost) =
           [row      |-> s.row,
            at       |-> Reached(s, N, cost),
            state    |-> IF s.match[Reached(s, N, cost)] = 0 THEN "flipping" ELSE "growing",
            match    |-> s.match,
            previous |-> [c \in 0 .. N |-> IF c \in Nearer(s, N, cost) THEN s.at ELSE s.previous[c]],
            u        |-> [r \in 0 .. N |-> IF r \in RowsOf(s) THEN s.u[r] + Gap(s, N, cost) ELSE s.u[r]],
            v        |-> [c \in 0 .. N |-> IF c \in TreeOf(s) THEN s.v[c] - Gap(s, N, cost) ELSE s.v[c]],
            minimum  |-> [c \in 0 .. N |-> IF c \in TreeOf(s) THEN Nearest(s, N, cost)[c]
                                           ELSE Nearest(s, N, cost)[c] - Gap(s, N, cost)],
            used     |-> TreeOf(s)]
<1> DEFINE used    == TreeOf(s)
           row     == s.match[s.at]
           open    == OpenOf(s, N)
           reduced == [c \in open |-> cost[c][row] - s.u[row] - s.v[c]]
           closer  == {c \in open : reduced[c] < s.minimum[c]}
           minimum == [c \in 0 .. N |-> IF c \in closer THEN reduced[c] ELSE s.minimum[c]]
           delta   == Least({minimum[c] : c \in open})
           reached == Least({c \in open : minimum[c] = delta})
           inTree  == {s.match[c] : c \in used}
<1>1. Grown(s, N, cost) =
        [row      |-> s.row,
         at       |-> reached,
         state    |-> IF s.match[reached] = 0 THEN "flipping" ELSE "growing",
         match    |-> s.match,
         previous |-> [c \in 0 .. N |-> IF c \in closer THEN s.at ELSE s.previous[c]],
         u        |-> [r \in 0 .. N |-> IF r \in inTree THEN s.u[r] + delta ELSE s.u[r]],
         v        |-> [c \in 0 .. N |-> IF c \in used THEN s.v[c] - delta ELSE s.v[c]],
         minimum  |-> [c \in 0 .. N |-> IF c \in used THEN minimum[c] ELSE minimum[c] - delta],
         used     |-> used]
  BY DEF Grown, TreeOf, OpenOf
<1>2. closer = Nearer(s, N, cost)
  BY DEF Nearer, Reduced
<1>3. minimum = Nearest(s, N, cost)
  <2>1. \A c \in closer : reduced[c] = Reduced(s, cost, c, s.match[s.at])
    BY DEF Reduced
  <2> HIDE DEF closer, reduced
  <2>2. QED
    BY <1>2, <2>1 DEF Nearest
<1> HIDE DEF minimum
<1>4. delta = Gap(s, N, cost)
  BY <1>3 DEF Gap
<1> HIDE DEF delta
<1>5. reached = Reached(s, N, cost)
  BY <1>3, <1>4 DEF Reached
<1>6. inTree = RowsOf(s)
  BY DEF RowsOf
<1> HIDE DEF used, closer, reached, inTree
<1>7. QED
  BY <1>1, <1>2, <1>3, <1>4, <1>5, <1>6 DEF used

(* Potentials stay so small that any first distance is less than infinite.  *)
LEMMA FirstDistances ==
  ASSUME NEW N \in Nat, NEW cost \in Costs(N), NEW s, SearchInv(s, N, cost),
         s.state = "growing", s.used = {}, NEW c \in 1 .. N
  PROVE  Reduced(s, cost, c, s.row) \in Int /\ Reduced(s, cost, c, s.row) < Infinite
<1>1. s \in Searches(N) /\ Placed(s, N) /\ Prices(s, N, cost) /\ Tree(s, N, cost)
  BY DEF SearchInv
<1>2. /\ s.row \in 1 .. N /\ s.match \in [0 .. N -> 0 .. N]
      /\ s.u \in [0 .. N -> Int] /\ s.v \in [0 .. N -> Int] /\ s.match[0] = s.row
  <2>1. s.match[0] = s.row /\ s.row > 0
    BY <1>1 DEF Tree
  <2>2. s.row \in 0 .. N
    BY <1>1, SearchFields
  <2>3. s.row \in 1 .. N /\ s.row \in Nat
    BY ONLY <2>1, <2>2, N \in Nat
  <2>4. QED
    BY <1>1, <2>1, <2>3, SearchFields
<1>3. Priced(s) = 1 .. s.row - 1
  BY DEF Priced
<1>4. \A d \in 1 .. N, r \in 1 .. N : cost[d][r] \in -10 .. Forbidden
  BY DEF Costs
<1>5. s.u[s.row] = 0
  <2>1. s.row \in (1 .. N) \ Priced(s)
    BY <1>2, <1>3
  <2>2. QED
    BY <1>1, <2>1 DEF Prices
<1>6. PICK f \in 1 .. N : s.match[f] = 0
  BY <1>1, <1>2, SomeFree
<1>7. s.v[f] = 0
  BY <1>1, <1>6 DEF Prices
<1>8. s.v[c] >= -10 - Forbidden
  <2>0. c \in 0 .. N
    OBVIOUS
  <2>1. s.v[c] \in Int /\ c \in 0 .. N /\ s.match[c] \in 0 .. N
    BY <1>2, <2>0
  <2>2. CASE s.match[c] = 0
    <3>1. s.v[c] = 0
      BY <1>1, <2>2 DEF Prices
    <3>2. QED
      BY <3>1, CostsAssumption
  <2>3. CASE s.match[c] # 0
    <3> DEFINE r == s.match[c]
    <3>1. Reduced(s, cost, c, r) = 0
      BY <1>1, <2>3 DEF Prices
    <3>2. r \in Priced(s)
      <4>1. r <= s.row
        BY <1>1, <2>1 DEF Placed
      <4>2. r # s.row
        <5>1. 0 \in (0 .. N) \ Hole(s) /\ c \in (0 .. N) \ Hole(s) /\ c # 0
          BY <2>1 DEF Hole
        <5>2. QED
          BY <1>1, <1>2, <2>3, <5>1 DEF Placed
      <4>3. r \in 0 .. N /\ r # 0 /\ s.row \in 1 .. N
        BY <1>2, <2>1, <2>3
      <4> HIDE DEF r
      <4>4. r \in 1 .. s.row - 1
        BY ONLY <4>1, <4>2, <4>3, N \in Nat
      <4>5. QED
        BY <1>3, <4>4
    <3>3. Reduced(s, cost, f, r) >= 0
      BY <1>1, <1>6, <3>2 DEF Prices
    <3>4. r \in 1 .. N /\ r \in 0 .. N /\ f \in 0 .. N
      BY <2>1, <2>3
    <3>5. s.u[r] \in Int /\ cost[c][r] \in -10 .. Forbidden /\ cost[f][r] \in -10 .. Forbidden
      BY <1>2, <1>4, <1>6, <3>4
    <3> HIDE DEF r
    <3>6. /\ cost[c][r] - s.u[r] - s.v[c] = 0
          /\ cost[f][r] - s.u[r] - s.v[f] >= 0
      BY <3>1, <3>3 DEF Reduced
    <3>7. QED
      BY <1>7, <2>1, <3>5, <3>6, CostsAssumption
  <2>4. QED
    BY <2>2, <2>3
<1>9. cost[c][s.row] \in -10 .. Forbidden /\ s.v[c] \in Int
  <2>1. c \in 0 .. N
    OBVIOUS
  <2>2. cost[c][s.row] \in -10 .. Forbidden
    BY <1>2, <1>4
  <2>3. s.v[c] \in Int
    BY <1>2, <2>1
  <2>4. QED
    BY <2>2, <2>3
<1>10. Reduced(s, cost, c, s.row) = cost[c][s.row] - s.u[s.row] - s.v[c]
  BY DEF Reduced
<1>11. QED
  BY <1>5, <1>8, <1>9, <1>10, CostsAssumption

(* Reduced costs are integers.                                              *)
LEMMA ReducedInt ==
  ASSUME NEW N \in Nat, NEW cost \in Costs(N), NEW s \in Searches(N),
         NEW c \in 1 .. N, NEW r \in 1 .. N
  PROVE  /\ Reduced(s, cost, c, r) \in Int
         /\ cost[c][r] \in Int /\ s.u[r] \in Int /\ s.v[c] \in Int
<1>1. cost[c][r] \in Int
  BY CostsAssumption DEF Costs
<1>2. s.u[r] \in Int /\ s.v[c] \in Int
  BY SearchFields
<1>3. QED
  BY <1>1, <1>2 DEF Reduced

(* The distances of the open columns from the tree with one more column.    *)
LEMMA Distances ==
  ASSUME NEW N \in Nat, NEW cost \in Costs(N), NEW s, SearchInv(s, N, cost),
         s.state = "growing"
  PROVE  LET near == Nearest(s, N, cost)
             via(c) == IF c \in Nearer(s, N, cost) THEN s.at ELSE s.previous[c]
         IN  /\ s.match[s.at] \in 1 .. s.row
             /\ OpenOf(s, N) # {}
             /\ \A c \in OpenOf(s, N) :
                  /\ near[c] \in Int /\ via(c) \in TreeOf(s)
                  /\ near[c] = Reduced(s, cost, c, s.match[via(c)])
                  /\ \A j \in TreeOf(s) : near[c] <= Reduced(s, cost, c, s.match[j])
                  /\ s.used # {} => near[c] >= 0
<1> DEFINE near == Nearest(s, N, cost)
           via(c) == IF c \in Nearer(s, N, cost) THEN s.at ELSE s.previous[c]
           a == s.match[s.at]
<1>1. s \in Searches(N) /\ Placed(s, N) /\ Prices(s, N, cost) /\ Tree(s, N, cost)
  BY DEF SearchInv
<1>2. /\ s.row \in 1 .. N /\ s.row \in Nat /\ s.match \in [0 .. N -> 0 .. N] /\ s.at \in 0 .. N
      /\ s.minimum \in [0 .. N -> Int] /\ s.used \in SUBSET (0 .. N) /\ s.match[0] = s.row
  <2>1. s.match[0] = s.row /\ s.row > 0
    BY <1>1 DEF Tree
  <2>2. s.row \in 0 .. N
    BY <1>1, SearchFields
  <2>3. s.row \in 1 .. N /\ s.row \in Nat
    BY ONLY <2>1, <2>2, N \in Nat
  <2>4. QED
    BY <1>1, <2>1, <2>3, SearchFields
<1>3. a \in 1 .. s.row /\ a \in 1 .. N
  <2>1. a \in 0 .. N /\ a # 0 /\ a <= s.row
    BY <1>1, <1>2 DEF Tree, Placed
  <2> HIDE DEF a
  <2>2. s.row \in 1 .. N
    BY <1>2
  <2>3. QED
    BY ONLY <2>1, <2>2, N \in Nat
<1>4. OpenOf(s, N) # {}
  <2>1. PICK c \in 1 .. N : s.match[c] = 0
    BY <1>1, <1>2, SomeFree DEF Tree
  <2>2. c \notin TreeOf(s)
    BY <1>1, <2>1 DEF Tree, TreeOf
  <2>3. QED
    BY <2>1, <2>2 DEF OpenOf
<1> HIDE DEF a
<1>5. ASSUME NEW c \in OpenOf(s, N)
      PROVE  /\ near[c] \in Int /\ via(c) \in TreeOf(s)
             /\ near[c] = Reduced(s, cost, c, s.match[via(c)])
             /\ \A j \in TreeOf(s) : near[c] <= Reduced(s, cost, c, s.match[j])
             /\ s.used # {} => near[c] >= 0
  <2>1. c \in 1 .. N /\ c \in 0 .. N /\ c \notin s.used /\ s.at \in TreeOf(s)
    BY DEF OpenOf, TreeOf
  <2>2. near[c] = IF c \in Nearer(s, N, cost) THEN Reduced(s, cost, c, a) ELSE s.minimum[c]
    BY <2>1 DEF Nearest, a
  <2>3. c \in Nearer(s, N, cost) <=> Reduced(s, cost, c, a) < s.minimum[c]
    BY DEF Nearer, a
  <2>4. Reduced(s, cost, c, a) \in Int /\ s.minimum[c] \in Int
    BY <1>1, <1>2, <1>3, <2>1, ReducedInt
  <2>5. CASE s.used = {}
    <3>1. s.at = 0 /\ s.minimum[c] = Infinite /\ a = s.row /\ TreeOf(s) = {s.at}
      BY <1>1, <1>2, <2>1, <2>5 DEF Tree, TreeOf, a
    <3>2. Reduced(s, cost, c, a) < Infinite
      BY <2>1, <2>5, <3>1, FirstDistances
    <3>3. c \in Nearer(s, N, cost) /\ near[c] = Reduced(s, cost, c, a)
      BY <2>2, <2>3, <3>1, <3>2
    <3>4. QED
      BY <2>1, <2>4, <2>5, <3>1, <3>3 DEF a
  <2>6. CASE s.used # {}
    <3>1. /\ s.minimum[c] >= 0 /\ s.previous[c] \in s.used
          /\ s.minimum[c] = Reduced(s, cost, c, s.match[s.previous[c]])
          /\ \A j \in s.used : s.minimum[c] <= Reduced(s, cost, c, s.match[j])
      BY <1>1, <2>1, <2>6 DEF Tree
    <3>2. Reduced(s, cost, c, a) >= 0
      <4>1. a \in Priced(s)
        BY <1>3, <2>6 DEF Priced
      <4>2. QED
        BY <1>1, <2>1, <4>1 DEF Prices
    <3>3. \A j \in s.used : Reduced(s, cost, c, s.match[j]) \in Int
      <4>1. \A j \in s.used : s.match[j] \in 1 .. N
        <5>1. \A j \in s.used : s.match[j] \in 0 .. N /\ s.match[j] # 0
          BY <1>1, <1>2 DEF Tree
        <5>2. \A r \in 0 .. N : r # 0 => r \in 1 .. N
          OBVIOUS
        <5>3. QED
          BY <5>1, <5>2
      <4>2. QED
        BY <1>1, <2>1, <4>1, ReducedInt
    <3>4. near[c] \in Int /\ near[c] >= 0 /\ near[c] <= Reduced(s, cost, c, a) /\ near[c] <= s.minimum[c]
      BY <2>2, <2>3, <2>4, <3>1, <3>2
    <3>5. \A j \in TreeOf(s) : near[c] <= Reduced(s, cost, c, s.match[j])
      <4>1. ASSUME NEW j \in s.used PROVE near[c] <= Reduced(s, cost, c, s.match[j])
        <5>1. Reduced(s, cost, c, s.match[j]) \in Int /\ s.minimum[c] <= Reduced(s, cost, c, s.match[j])
          BY <3>1, <3>3
        <5> HIDE DEF near
        <5>2. QED
          BY ONLY <2>4, <3>4, <5>1
      <4>2. near[c] <= Reduced(s, cost, c, s.match[s.at])
        BY <3>4 DEF a
      <4>3. QED
        BY <4>1, <4>2 DEF TreeOf
    <3>6. via(c) \in TreeOf(s) /\ near[c] = Reduced(s, cost, c, s.match[via(c)])
      <4>1. CASE c \in Nearer(s, N, cost)
        BY <2>1, <2>2, <4>1 DEF a
      <4>2. CASE c \notin Nearer(s, N, cost)
        BY <2>2, <3>1, <4>2 DEF TreeOf
      <4>3. QED
        BY <4>1, <4>2
    <3>7. QED
      BY <3>4, <3>5, <3>6
  <2>7. QED
    BY <2>5, <2>6
<1>6. QED
  BY <1>3, <1>4, <1>5 DEF a

(* The gap is the least distance of an open column, reached a nearest one.  *)
LEMMA GapAndReached ==
  ASSUME NEW N \in Nat, NEW cost \in Costs(N), NEW s, SearchInv(s, N, cost),
         s.state = "growing"
  PROVE  /\ Gap(s, N, cost) \in Int
         /\ Reached(s, N, cost) \in OpenOf(s, N)
         /\ Nearest(s, N, cost)[Reached(s, N, cost)] = Gap(s, N, cost)
         /\ \A c \in OpenOf(s, N) : Gap(s, N, cost) <= Nearest(s, N, cost)[c]
         /\ s.used # {} => Gap(s, N, cost) >= 0
<1> DEFINE near == Nearest(s, N, cost)  open == OpenOf(s, N)  delta == Gap(s, N, cost)
<1>1. open # {} /\ IsFiniteSet(open) /\ open \subseteq Int
  <2>1. open # {}
    BY Distances
  <2>2. IsFiniteSet(1 .. N)
    BY FS_Interval
  <2>3. open \subseteq 1 .. N
    BY DEF OpenOf
  <2>4. QED
    BY <2>1, <2>2, <2>3, FS_Subset
<1>2. \A c \in open : near[c] \in Int /\ (s.used # {} => near[c] >= 0)
  BY Distances
<1> HIDE DEF near, open
<1>3. /\ \E c \in open : near[c] = delta
      /\ \A c \in open : delta <= near[c]
  BY <1>1, <1>2, LeastValue DEF Gap, near, open
<1> DEFINE closest == {c \in open : near[c] = delta}
<1>4. closest # {} /\ IsFiniteSet(closest) /\ closest \subseteq Int
  BY <1>1, <1>3, FS_Subset
<1>5. Least(closest) \in closest
  <2> HIDE DEF closest
  <2> QED
    BY <1>4, LeastNumber
<1>6. Least(closest) = Reached(s, N, cost)
  BY DEF Reached, near, open
<1>7. QED
  BY <1>2, <1>3, <1>5, <1>6 DEF near, open

(* How reduced costs move: by the gap between a row of the tree and a       *)
(* column outside it.                                                       *)
LEMMA ReducedMoves ==
  ASSUME NEW N \in Nat, NEW cost \in Costs(N), NEW s, SearchInv(s, N, cost),
         s.state = "growing", NEW c \in 1 .. N, NEW r \in 1 .. N
  PROVE  LET before == Reduced(s, cost, c, r)
             after  == Reduced(Grown(s, N, cost), cost, c, r)
             delta  == Gap(s, N, cost)
         IN  /\ before \in Int /\ after \in Int
             /\ r \in RowsOf(s) /\ c \in TreeOf(s)       => after = before
             /\ r \notin RowsOf(s) /\ c \notin TreeOf(s) => after = before
             /\ r \in RowsOf(s) /\ c \notin TreeOf(s)    => after = before - delta
             /\ r \notin RowsOf(s) /\ c \in TreeOf(s)    => after = before + delta
<1> DEFINE t == Grown(s, N, cost)  delta == Gap(s, N, cost)
<1>1. s \in Searches(N) /\ delta \in Int
  BY GapAndReached DEF SearchInv
<1>2. c \in 0 .. N /\ r \in 0 .. N
  OBVIOUS
<1>3. /\ t.u[r] = IF r \in RowsOf(s) THEN s.u[r] + delta ELSE s.u[r]
      /\ t.v[c] = IF c \in TreeOf(s) THEN s.v[c] - delta ELSE s.v[c]
  <2>1. /\ t.u = [k \in 0 .. N |-> IF k \in RowsOf(s) THEN s.u[k] + delta ELSE s.u[k]]
        /\ t.v = [k \in 0 .. N |-> IF k \in TreeOf(s) THEN s.v[k] - delta ELSE s.v[k]]
    <3>1. t = Grown(s, N, cost)
      OBVIOUS
    <3> HIDE DEF t
    <3>2. QED
      BY <1>1, <3>1, GrownIs
  <2> HIDE DEF t, delta
  <2>2. QED
    BY <1>2, <2>1
<1>4. cost[c][r] \in Int /\ s.u[r] \in Int /\ s.v[c] \in Int
  BY <1>1, ReducedInt
<1>5. /\ Reduced(s, cost, c, r) = cost[c][r] - s.u[r] - s.v[c]
      /\ Reduced(t, cost, c, r) = cost[c][r] - t.u[r] - t.v[c]
  BY DEF Reduced
<1> HIDE DEF t, delta
<1>6. QED
  BY <1>1, <1>3, <1>4, <1>5 DEF t, delta

(* What a tree that grew holds is of the right type.                        *)
LEMMA GrownTypes ==
  ASSUME NEW N \in Nat, NEW cost \in Costs(N), NEW s, SearchInv(s, N, cost),
         s.state = "growing"
  PROVE  LET t == Grown(s, N, cost) IN
         /\ t \in Searches(N)
         /\ t.used = TreeOf(s) /\ t.row = s.row /\ t.match = s.match
         /\ t.at \in OpenOf(s, N) /\ t.at = Reached(s, N, cost)
         /\ t.state = IF s.match[t.at] = 0 THEN "flipping" ELSE "growing"
         /\ \A c \in OpenOf(s, N) :
              /\ t.minimum[c] = Nearest(s, N, cost)[c] - Gap(s, N, cost)
              /\ t.previous[c] = IF c \in Nearer(s, N, cost) THEN s.at ELSE s.previous[c]
         /\ \A c \in TreeOf(s) : t.previous[c] = s.previous[c]
<1> DEFINE t == Grown(s, N, cost)  near == Nearest(s, N, cost)  delta == Gap(s, N, cost)
<1>1. s \in Searches(N) /\ Tree(s, N, cost)
  BY DEF SearchInv
<1>2. /\ s.row \in 0 .. N /\ s.at \in 0 .. N /\ s.match \in [0 .. N -> 0 .. N]
      /\ s.previous \in [0 .. N -> 0 .. N] /\ s.u \in [0 .. N -> Int] /\ s.v \in [0 .. N -> Int]
      /\ s.minimum \in [0 .. N -> Int] /\ s.used \in SUBSET (0 .. N)
  BY <1>1, SearchFields
<1>3. /\ delta \in Int /\ Reached(s, N, cost) \in OpenOf(s, N)
  BY GapAndReached
<1>4. \A c \in OpenOf(s, N) : near[c] \in Int
  BY Distances
<1>5. \A c \in 0 .. N : near[c] \in Int
  <2> SUFFICES ASSUME NEW c \in 0 .. N PROVE near[c] \in Int
    OBVIOUS
  <2>1. CASE c \in Nearer(s, N, cost)
    BY <1>4, <2>1 DEF Nearer
  <2>2. CASE c \notin Nearer(s, N, cost)
    <3>1. near[c] = s.minimum[c]
      BY <2>2 DEF Nearest
    <3>2. QED
      BY <1>2, <3>1
  <2>3. QED
    BY <2>1, <2>2
<1>6. OpenOf(s, N) \subseteq 0 .. N /\ TreeOf(s) \subseteq 0 .. N /\ OpenOf(s, N) \cap TreeOf(s) = {}
  <2>1. 1 .. N \subseteq 0 .. N
    OBVIOUS
  <2>2. QED
    BY <1>2, <2>1 DEF OpenOf, TreeOf
<1>7. /\ t.used = TreeOf(s) /\ t.row = s.row /\ t.match = s.match
      /\ t.at = Reached(s, N, cost)
      /\ t.state = IF s.match[Reached(s, N, cost)] = 0 THEN "flipping" ELSE "growing"
      /\ t.previous = [c \in 0 .. N |-> IF c \in Nearer(s, N, cost) THEN s.at ELSE s.previous[c]]
      /\ t.u = [r \in 0 .. N |-> IF r \in RowsOf(s) THEN s.u[r] + delta ELSE s.u[r]]
      /\ t.v = [c \in 0 .. N |-> IF c \in TreeOf(s) THEN s.v[c] - delta ELSE s.v[c]]
      /\ t.minimum = [c \in 0 .. N |-> IF c \in TreeOf(s) THEN near[c] ELSE near[c] - delta]
  <2>1. t = Grown(s, N, cost)
    OBVIOUS
  <2> HIDE DEF t
  <2>2. t =
           [row      |-> s.row,
            at       |-> Reached(s, N, cost),
            state    |-> IF s.match[Reached(s, N, cost)] = 0 THEN "flipping" ELSE "growing",
            match    |-> s.match,
            previous |-> [c \in 0 .. N |-> IF c \in Nearer(s, N, cost) THEN s.at ELSE s.previous[c]],
            u        |-> [r \in 0 .. N |-> IF r \in RowsOf(s) THEN s.u[r] + Gap(s, N, cost) ELSE s.u[r]],
            v        |-> [c \in 0 .. N |-> IF c \in TreeOf(s) THEN s.v[c] - Gap(s, N, cost) ELSE s.v[c]],
            minimum  |-> [c \in 0 .. N |-> IF c \in TreeOf(s) THEN Nearest(s, N, cost)[c]
                                           ELSE Nearest(s, N, cost)[c] - Gap(s, N, cost)],
            used     |-> TreeOf(s)]
    BY <1>1, <2>1, GrownIs
  <2>3. QED
    BY ONLY <2>2
<1>a. t = [row |-> t.row, at |-> t.at, state |-> t.state, match |-> t.match,
           previous |-> t.previous, u |-> t.u, v |-> t.v, minimum |-> t.minimum, used |-> t.used]
  BY <1>1, GrownIs
<1> HIDE DEF t, near, delta
<1>8. t \in Searches(N)
  <2>1. t.previous \in [0 .. N -> 0 .. N]
    <3>1. \A c \in 0 .. N : s.previous[c] \in 0 .. N
      BY <1>2
    <3>2. QED
      BY <1>2, <1>7, <3>1
  <2>2. t.u \in [0 .. N -> Int]
    <3>1. \A c \in 0 .. N : s.u[c] \in Int
      BY <1>2
    <3>a. \A c \in 0 .. N : s.u[c] + delta \in Int
      BY <1>3, <3>1
    <3>2. QED
      BY <1>7, <3>1, <3>a
  <2>3. t.v \in [0 .. N -> Int]
    <3>1. \A c \in 0 .. N : s.v[c] \in Int
      BY <1>2
    <3>a. \A c \in 0 .. N : s.v[c] - delta \in Int
      BY <1>3, <3>1
    <3>2. QED
      BY <1>7, <3>1, <3>a
  <2>4. t.minimum \in [0 .. N -> Int]
    <3>1. \A c \in 0 .. N : near[c] \in Int /\ near[c] - delta \in Int
      BY <1>3, <1>5
    <3>2. QED
      BY <1>7, <3>1
  <2>5. t.row \in 0 .. N /\ t.at \in 0 .. N /\ t.state \in States /\ t.match \in [0 .. N -> 0 .. N]
        /\ t.used \in SUBSET (0 .. N)
    BY <1>2, <1>3, <1>6, <1>7 DEF States
  <2>6. QED
    BY <1>a, <2>1, <2>2, <2>3, <2>4, <2>5 DEF Searches
<1>9. \A c \in OpenOf(s, N) :
        /\ t.minimum[c] = near[c] - delta
        /\ t.previous[c] = IF c \in Nearer(s, N, cost) THEN s.at ELSE s.previous[c]
  BY <1>6, <1>7
<1>10. \A c \in TreeOf(s) : t.previous[c] = s.previous[c]
  BY <1>6, <1>7 DEF Nearer
<1>11. QED
  BY <1>3, <1>7, <1>8, <1>9, <1>10 DEF t, near, delta

(* When the tree grows, prices stay fair and tight where columns are        *)
(* matched; the column reached joins the tree or ends the path.             *)
LEMMA GrownPrices ==
  ASSUME NEW N \in Nat, NEW cost \in Costs(N), NEW s, SearchInv(s, N, cost),
         s.state = "growing"
  PROVE  Prices(Grown(s, N, cost), N, cost)
<1> DEFINE t == Grown(s, N, cost)  delta == Gap(s, N, cost)
<1>1. s \in Searches(N) /\ Placed(s, N) /\ Prices(s, N, cost) /\ Tree(s, N, cost)
  BY DEF SearchInv
<1>2. /\ t \in Searches(N) /\ t.used = TreeOf(s) /\ t.row = s.row /\ t.match = s.match
  BY GrownTypes
<1>3. /\ s.row \in 0 .. N /\ s.at \in 0 .. N /\ s.match \in [0 .. N -> 0 .. N]
      /\ s.u \in [0 .. N -> Int] /\ s.v \in [0 .. N -> Int] /\ s.used \in SUBSET (0 .. N)
  BY <1>1, SearchFields
<1>4. delta \in Int /\ (s.used # {} => delta >= 0)
  BY GapAndReached
<1>5. Priced(t) = 1 .. s.row /\ Priced(s) \subseteq 1 .. s.row
      /\ (s.used = {} => Priced(s) = 1 .. s.row - 1) /\ (s.used # {} => Priced(s) = 1 .. s.row)
  <2>1. t.used # {}
    BY <1>2 DEF TreeOf
  <2>2. Priced(t) = 1 .. s.row
    BY <1>2, <2>1 DEF Priced
  <2>3. 1 .. s.row - 1 \subseteq 1 .. s.row
    <3>1. s.row \in 0 .. N
      BY <1>3
    <3>2. \A k \in 0 .. N : 1 .. k - 1 \subseteq 1 .. k
      BY ONLY N \in Nat
    <3>3. QED
      BY <3>1, <3>2
  <2>4. QED
    BY <2>2, <2>3 DEF Priced
<1>6. s.used = {} => TreeOf(s) = {0} /\ RowsOf(s) = {s.row}
  BY <1>1 DEF Tree, TreeOf, RowsOf
<1>7. \A c \in 1 .. N, r \in 1 .. N :
        /\ Reduced(s, cost, c, r) \in Int /\ Reduced(t, cost, c, r) \in Int
        /\ r \in RowsOf(s) /\ c \in TreeOf(s)       => Reduced(t, cost, c, r) = Reduced(s, cost, c, r)
        /\ r \notin RowsOf(s) /\ c \notin TreeOf(s) => Reduced(t, cost, c, r) = Reduced(s, cost, c, r)
        /\ r \in RowsOf(s) /\ c \notin TreeOf(s)    => Reduced(t, cost, c, r) = Reduced(s, cost, c, r) - delta
        /\ r \notin RowsOf(s) /\ c \in TreeOf(s)    => Reduced(t, cost, c, r) = Reduced(s, cost, c, r) + delta
  BY ReducedMoves
<1>8. /\ \A r \in 0 .. N : t.u[r] = IF r \in RowsOf(s) THEN s.u[r] + delta ELSE s.u[r]
      /\ \A c \in 0 .. N : t.v[c] = IF c \in TreeOf(s) THEN s.v[c] - delta ELSE s.v[c]
  <2>1. /\ t.u = [r \in 0 .. N |-> IF r \in RowsOf(s) THEN s.u[r] + delta ELSE s.u[r]]
        /\ t.v = [c \in 0 .. N |-> IF c \in TreeOf(s) THEN s.v[c] - delta ELSE s.v[c]]
    BY <1>1, GrownIs
  <2> HIDE DEF t, delta
  <2>2. QED
    BY <2>1
<1>9. \A c \in OpenOf(s, N), j \in TreeOf(s) : delta <= Reduced(s, cost, c, s.match[j])
  <2> SUFFICES ASSUME NEW c \in OpenOf(s, N), NEW j \in TreeOf(s)
               PROVE  delta <= Reduced(s, cost, c, s.match[j])
    OBVIOUS
  <2>1. delta <= Nearest(s, N, cost)[c] /\ Nearest(s, N, cost)[c] \in Int
        /\ Nearest(s, N, cost)[c] <= Reduced(s, cost, c, s.match[j])
    BY Distances, GapAndReached
  <2>2. c \in 1 .. N /\ s.match[j] \in 1 .. N
    <3>1. j \in 0 .. N /\ s.match[j] # 0
      BY <1>1, <1>3 DEF Tree, TreeOf
    <3>2. s.match[j] \in 0 .. N
      BY <1>3, <3>1
    <3>3. QED
      BY <3>1, <3>2 DEF OpenOf
  <2>3. Reduced(s, cost, c, s.match[j]) \in Int
    BY <1>7, <2>2
  <2> HIDE DEF delta
  <2>4. QED
    BY <1>4, <2>1, <2>3
<1> HIDE DEF t, delta
<1>10. \A r \in 1 .. s.row : r \in 1 .. N
  BY <1>3
<1>11. \A r \in Priced(t), c \in 1 .. N : Reduced(t, cost, c, r) >= 0
  <2> SUFFICES ASSUME NEW r \in 1 .. s.row, NEW c \in 1 .. N
               PROVE  Reduced(t, cost, c, r) >= 0
    BY <1>5
  <2>1. r \in 1 .. N
    BY <1>10
  <2>2. CASE c \notin TreeOf(s) /\ r \in RowsOf(s)
    <3>1. c \in OpenOf(s, N)
      BY <2>2 DEF OpenOf
    <3>2. delta <= Reduced(s, cost, c, r)
      BY <1>9, <2>2, <3>1 DEF RowsOf
    <3>3. Reduced(s, cost, c, r) \in Int /\ Reduced(t, cost, c, r) = Reduced(s, cost, c, r) - delta
      BY <1>7, <2>1, <2>2
    <3>4. QED
      BY <1>4, <3>2, <3>3
  <2>3. CASE s.used = {} /\ ~(c \notin TreeOf(s) /\ r \in RowsOf(s))
    <3>1. c \notin TreeOf(s)
      BY <1>6, <2>3
    <3>2. r \notin RowsOf(s) /\ r # s.row
      BY <1>6, <2>3, <3>1
    <3>3. r \in Priced(s)
      BY <1>3, <1>5, <2>3, <3>2
    <3>4. QED
      BY <1>1, <1>7, <2>1, <3>1, <3>2, <3>3 DEF Prices
  <2>4. CASE s.used # {} /\ ~(c \notin TreeOf(s) /\ r \in RowsOf(s))
    <3>1. Reduced(s, cost, c, r) >= 0 /\ Reduced(s, cost, c, r) \in Int
      BY <1>1, <1>5, <1>7, <2>1, <2>4 DEF Prices
    <3>2. \/ Reduced(t, cost, c, r) = Reduced(s, cost, c, r)
          \/ Reduced(t, cost, c, r) = Reduced(s, cost, c, r) + delta
      BY <1>7, <2>1, <2>4
    <3>3. QED
      BY <1>4, <2>4, <3>1, <3>2
  <2>5. QED
    BY <2>2, <2>3, <2>4
<1>12. \A c \in 1 .. N : t.match[c] # 0 => Reduced(t, cost, c, t.match[c]) = 0
  <2> SUFFICES ASSUME NEW c \in 1 .. N, s.match[c] # 0
               PROVE  Reduced(t, cost, c, s.match[c]) = 0
    BY <1>2
  <2>0. c \in 0 .. N
    OBVIOUS
  <2>1. Reduced(s, cost, c, s.match[c]) = 0 /\ s.match[c] \in 1 .. N
    BY <1>1, <1>3, <2>0 DEF Prices
  <2>2. CASE c \in TreeOf(s)
    <3>1. s.match[c] \in RowsOf(s)
      BY <2>2 DEF RowsOf
    <3>2. QED
      BY <1>7, <2>1, <2>2, <3>1
  <2>3. CASE c \notin TreeOf(s)
    <3>1. s.match[c] \notin RowsOf(s)
      <4>1. \A j \in TreeOf(s) : j \in 0 .. N /\ j # c
        BY <1>3, <2>3 DEF TreeOf
      <4>2. \A j \in 0 .. N : s.match[c] = s.match[j] => c = j
        BY <1>1, <2>0 DEF Placed, Hole
      <4>3. QED
        BY <4>1, <4>2 DEF RowsOf
    <3>2. QED
      BY <1>7, <2>1, <2>3, <3>1
  <2>4. QED
    BY <2>2, <2>3
<1>13. \A c \in 1 .. N : t.v[c] <= 0 /\ (t.match[c] = 0 => t.v[c] = 0)
  <2> SUFFICES ASSUME NEW c \in 1 .. N
               PROVE  t.v[c] <= 0 /\ (s.match[c] = 0 => t.v[c] = 0)
    BY <1>2
  <2>0. c \in 0 .. N
    OBVIOUS
  <2>1. s.v[c] <= 0 /\ (s.match[c] = 0 => s.v[c] = 0) /\ s.v[c] \in Int
    BY <1>1, <1>3, <2>0 DEF Prices
  <2>2. CASE c \in TreeOf(s)
    <3>1. s.used # {} /\ s.match[c] # 0
      BY <1>1, <1>6, <2>2 DEF Tree, TreeOf
    <3>2. t.v[c] = s.v[c] - delta
      BY <1>8, <2>0, <2>2
    <3>3. QED
      BY <1>4, <2>1, <3>1, <3>2
  <2>3. CASE c \notin TreeOf(s)
    BY <1>8, <2>0, <2>1, <2>3
  <2>4. QED
    BY <2>2, <2>3
<1>14. \A r \in (1 .. N) \ Priced(t) : t.u[r] = 0
  <2> SUFFICES ASSUME NEW r \in 1 .. N, r \notin 1 .. s.row PROVE t.u[r] = 0
    BY <1>5
  <2>1. r \notin Priced(s) /\ r \in 0 .. N
    BY <1>5
  <2>2. s.u[r] = 0
    BY <1>1, <2>1 DEF Prices
  <2>3. r \notin RowsOf(s)
    <3>1. \A j \in TreeOf(s) : j \in 0 .. N /\ s.match[j] <= s.row /\ s.match[j] \in 0 .. N
      BY <1>1, <1>3 DEF TreeOf, Placed
    <3>2. ASSUME NEW j \in TreeOf(s), s.match[j] = r PROVE FALSE
      <4>1. r <= s.row /\ s.row \in 0 .. N /\ r \in 1 .. N
        BY <1>3, <3>1, <3>2
      <4>2. r \in 1 .. s.row
        BY ONLY <4>1, N \in Nat
      <4>3. QED
        BY <4>2
    <3>3. QED
      BY <3>2 DEF RowsOf
  <2>4. QED
    BY <1>8, <2>1, <2>2, <2>3
<1>15. QED
  BY <1>11, <1>12, <1>13, <1>14 DEF Prices, t

(* The columns that have joined still lead back to column 0, by steps that  *)
(* are free, and so does the column reached.                                *)
LEMMA GrownBack ==
  ASSUME NEW N \in Nat, NEW cost \in Costs(N), NEW s, SearchInv(s, N, cost),
         s.state = "growing"
  PROVE  LET t == Grown(s, N, cost) IN
         /\ t.previous[t.at] \in t.used /\ Reduced(t, cost, t.at, t.match[t.previous[t.at]]) = 0
         /\ \E rank \in [0 .. N -> Nat] : \E k \in Nat :
              (\A c \in t.used : rank[c] < k) /\ Back(t, cost, t.used, rank)
         /\ t.minimum[t.at] = 0
         /\ \A c \in OpenOf(s, N) :
              /\ t.minimum[c] >= 0 /\ t.previous[c] \in t.used
              /\ t.minimum[c] = Reduced(t, cost, c, t.match[t.previous[c]])
              /\ \A j \in t.used : t.minimum[c] <= Reduced(t, cost, c, t.match[j])
<1> DEFINE t == Grown(s, N, cost)  delta == Gap(s, N, cost)  near == Nearest(s, N, cost)
<1>1. s \in Searches(N) /\ Tree(s, N, cost)
  BY DEF SearchInv
<1>2. /\ t \in Searches(N) /\ t.used = TreeOf(s) /\ t.match = s.match
      /\ t.at \in OpenOf(s, N) /\ t.at = Reached(s, N, cost)
  BY GrownTypes
<1>3. /\ \A c \in OpenOf(s, N) : t.minimum[c] = near[c] - delta
      /\ \A c \in OpenOf(s, N) : t.previous[c] = IF c \in Nearer(s, N, cost) THEN s.at ELSE s.previous[c]
      /\ \A c \in TreeOf(s) : t.previous[c] = s.previous[c]
  BY GrownTypes
<1>4. /\ s.at \in 0 .. N /\ s.match \in [0 .. N -> 0 .. N] /\ s.used \in SUBSET (0 .. N)
  BY <1>1, SearchFields
<1>5. delta \in Int /\ near[t.at] = delta /\ \A c \in OpenOf(s, N) : delta <= near[c]
  BY <1>2, GapAndReached
<1>6. /\ \A c \in OpenOf(s, N) :
           /\ near[c] \in Int
           /\ \A j \in TreeOf(s) : near[c] <= Reduced(s, cost, c, s.match[j])
      /\ \A c \in OpenOf(s, N) : t.previous[c] \in TreeOf(s)
      /\ \A c \in OpenOf(s, N) : near[c] = Reduced(s, cost, c, s.match[t.previous[c]])
  <2>1. \A c \in OpenOf(s, N) :
           LET via == IF c \in Nearer(s, N, cost) THEN s.at ELSE s.previous[c]
           IN  /\ near[c] \in Int
               /\ \A j \in TreeOf(s) : near[c] <= Reduced(s, cost, c, s.match[j])
               /\ via \in TreeOf(s)
               /\ near[c] = Reduced(s, cost, c, s.match[via])
    BY Distances
  <2> HIDE DEF t, near
  <2>2. QED
    BY <1>3, <2>1
<1>7. \A j \in TreeOf(s) : j \in 0 .. N /\ s.match[j] \in 1 .. N /\ s.match[j] \in RowsOf(s)
  <2> SUFFICES ASSUME NEW j \in TreeOf(s) PROVE j \in 0 .. N /\ s.match[j] \in 1 .. N
    BY DEF RowsOf
  <2>1. j \in 0 .. N /\ s.match[j] # 0
    BY <1>1, <1>4 DEF Tree, TreeOf
  <2>2. s.match[j] \in 0 .. N
    BY <1>4, <2>1
  <2>3. QED
    BY <2>1, <2>2
<1>8. \A c \in OpenOf(s, N) : c \in 1 .. N /\ c \notin TreeOf(s)
  BY DEF OpenOf
<1>9. \A c \in OpenOf(s, N), j \in TreeOf(s) :
        /\ Reduced(s, cost, c, s.match[j]) \in Int
        /\ Reduced(t, cost, c, s.match[j]) = Reduced(s, cost, c, s.match[j]) - delta
  BY <1>7, <1>8, ReducedMoves
<1>10. \A c \in TreeOf(s) \ {0}, j \in TreeOf(s) :
         Reduced(t, cost, c, s.match[j]) = Reduced(s, cost, c, s.match[j])
  <2>1. \A c \in TreeOf(s) \ {0} : c \in 1 .. N
    BY <1>7
  <2>2. QED
    BY <1>7, <2>1, ReducedMoves
<1> HIDE DEF t, delta, near
<1>11. \A c \in OpenOf(s, N) :
         /\ t.minimum[c] >= 0 /\ t.previous[c] \in t.used
         /\ t.minimum[c] = Reduced(t, cost, c, t.match[t.previous[c]])
         /\ \A j \in t.used : t.minimum[c] <= Reduced(t, cost, c, t.match[j])
  <2> SUFFICES ASSUME NEW c \in OpenOf(s, N)
               PROVE  /\ t.minimum[c] >= 0 /\ t.previous[c] \in TreeOf(s)
                      /\ t.minimum[c] = Reduced(t, cost, c, s.match[t.previous[c]])
                      /\ \A j \in TreeOf(s) : t.minimum[c] <= Reduced(t, cost, c, s.match[j])
    BY <1>2
  <2>1. near[c] \in Int /\ delta <= near[c] /\ t.minimum[c] = near[c] - delta /\ delta \in Int
    BY <1>3, <1>5, <1>6
  <2>2. t.minimum[c] >= 0
    BY ONLY <2>1
  <2>3. t.previous[c] \in TreeOf(s) /\ near[c] = Reduced(s, cost, c, s.match[t.previous[c]])
    BY <1>6
  <2>4. t.minimum[c] = Reduced(t, cost, c, s.match[t.previous[c]])
    BY <1>9, <2>1, <2>3
  <2>5. ASSUME NEW j \in TreeOf(s) PROVE t.minimum[c] <= Reduced(t, cost, c, s.match[j])
    <3>1. /\ near[c] <= Reduced(s, cost, c, s.match[j])
          /\ Reduced(s, cost, c, s.match[j]) \in Int
          /\ Reduced(t, cost, c, s.match[j]) = Reduced(s, cost, c, s.match[j]) - delta
      BY <1>6, <1>9
    <3>2. QED
      BY ONLY <2>1, <3>1
  <2>6. QED
    BY <2>2, <2>3, <2>4, <2>5
<1>12. t.minimum[t.at] = 0
  BY <1>2, <1>3, <1>5
<1>13. PICK rank \in [0 .. N -> Nat], k \in Nat :
         (\A c \in s.used : rank[c] < k) /\ Back(s, cost, s.used, rank)
  BY <1>1 DEF Tree
<1> DEFINE next == [rank EXCEPT ![s.at] = k]
<1>14. /\ next \in [0 .. N -> Nat] /\ next[s.at] = k
       /\ \A c \in s.used : next[c] = rank[c] /\ rank[c] \in Nat /\ rank[c] < k
  <2>1. s.at \notin s.used
    BY <1>1 DEF Tree
  <2>2. QED
    BY <1>4, <1>13, <2>1
<1> HIDE DEF next
<1>15. \A c \in t.used : next[c] < k + 1
  BY <1>2, <1>14 DEF TreeOf
<1>16. Back(t, cost, t.used, next)
  <2> SUFFICES ASSUME NEW c \in TreeOf(s), c # 0
               PROVE  /\ s.previous[c] \in TreeOf(s) /\ next[s.previous[c]] < next[c]
                      /\ Reduced(t, cost, c, s.match[s.previous[c]]) = 0
    BY <1>2, <1>3 DEF Back
  <2>1. CASE c \in s.used
    <3>1. /\ s.previous[c] \in s.used /\ rank[s.previous[c]] < rank[c]
          /\ Reduced(s, cost, c, s.match[s.previous[c]]) = 0
      BY <1>13, <2>1 DEF Back
    <3>2. s.previous[c] \in TreeOf(s)
      BY <3>1 DEF TreeOf
    <3>3. QED
      BY <1>10, <1>14, <2>1, <3>1, <3>2
  <2>2. CASE c = s.at
    <3>1. s.used # {} /\ s.at \in (1 .. N) \ s.used
      <4>1. s.at # 0 /\ s.at \in 1 .. N
        BY <1>4, <2>2
      <4>2. s.used # {} /\ s.at \notin s.used
        BY <1>1, <4>1 DEF Tree
      <4>3. QED
        BY <4>1, <4>2
    <3>2. /\ s.minimum[s.at] = 0 /\ s.previous[s.at] \in s.used
          /\ s.minimum[s.at] = Reduced(s, cost, s.at, s.match[s.previous[s.at]])
      BY <1>1, <3>1 DEF Tree
    <3>3. s.previous[s.at] \in TreeOf(s)
      BY <3>2 DEF TreeOf
    <3>4. QED
      BY <1>10, <1>14, <2>2, <3>2, <3>3
  <2>3. QED
    BY <2>1, <2>2 DEF TreeOf
<1>17. QED
  <2>1. t.previous[t.at] \in t.used /\ Reduced(t, cost, t.at, t.match[t.previous[t.at]]) = 0
    BY <1>2, <1>11, <1>12
  <2>2. \E r \in [0 .. N -> Nat] : \E j \in Nat :
              (\A c \in t.used : r[c] < j) /\ Back(t, cost, t.used, r)
    <3>1. k + 1 \in Nat
      OBVIOUS
    <3>2. QED
      BY <1>14, <1>15, <1>16, <3>1
  <2>3. QED
    BY <1>11, <1>12, <2>1, <2>2 DEF t

(* The invariant holds when the tree has grown.                             *)
LEMMA GrownInv ==
  ASSUME NEW N \in Nat, NEW cost \in Costs(N), NEW s, SearchInv(s, N, cost),
         s.state = "growing"
  PROVE  SearchInv(Grown(s, N, cost), N, cost)
<1> DEFINE t == Grown(s, N, cost)
<1>1. s \in Searches(N) /\ Placed(s, N) /\ Tree(s, N, cost)
  BY DEF SearchInv
<1>2. /\ t \in Searches(N) /\ t.used = TreeOf(s) /\ t.row = s.row /\ t.match = s.match
      /\ t.at \in OpenOf(s, N)
      /\ t.state = IF s.match[t.at] = 0 THEN "flipping" ELSE "growing"
  BY GrownTypes
<1>3. /\ s.row \in 0 .. N /\ s.at \in 0 .. N /\ s.match \in [0 .. N -> 0 .. N]
      /\ s.used \in SUBSET (0 .. N)
  BY <1>1, SearchFields
<1>4. Prices(t, N, cost)
  BY GrownPrices
<1>5. /\ t.previous[t.at] \in t.used /\ Reduced(t, cost, t.at, t.match[t.previous[t.at]]) = 0
      /\ \E rank \in [0 .. N -> Nat] : \E k \in Nat :
           (\A c \in t.used : rank[c] < k) /\ Back(t, cost, t.used, rank)
      /\ t.minimum[t.at] = 0
      /\ \A c \in OpenOf(s, N) :
           /\ t.minimum[c] >= 0 /\ t.previous[c] \in t.used
           /\ t.minimum[c] = Reduced(t, cost, c, t.match[t.previous[c]])
           /\ \A j \in t.used : t.minimum[c] <= Reduced(t, cost, c, t.match[j])
  BY GrownBack
<1> HIDE DEF t
<1>6. /\ t.at \in 1 .. N /\ t.at \notin t.used /\ 0 \in t.used
      /\ \A c \in t.used : t.match[c] # 0
      /\ (1 .. N) \ t.used = OpenOf(s, N)
  <2>1. 0 \in TreeOf(s)
    BY <1>1 DEF Tree, TreeOf
  <2>2. \A c \in TreeOf(s) : s.match[c] # 0
    BY <1>1 DEF Tree, TreeOf
  <2>3. QED
    BY <1>2, <2>1, <2>2 DEF OpenOf
<1>7. Placed(t, N)
  <2>1. Hole(t) = {} \/ (Hole(t) = {t.at} /\ s.match[t.at] = 0)
    BY <1>2 DEF Hole
  <2>2. \A c \in 0 .. N : t.match[c] <= t.row
    BY <1>1, <1>2 DEF Placed
  <2>3. \A c, d \in 0 .. N : s.match[c] # 0 /\ s.match[c] = s.match[d] => c = d
    BY <1>1, s.state = "growing" DEF Placed, Hole
  <2>4. \A r \in 1 .. t.row : \E c \in (0 .. N) \ Hole(t) : t.match[c] = r
    <3> SUFFICES ASSUME NEW r \in 1 .. s.row PROVE \E c \in (0 .. N) \ Hole(t) : s.match[c] = r
      BY <1>2
    <3>1. PICK c \in 0 .. N : s.match[c] = r
      BY <1>1, s.state = "growing" DEF Placed, Hole
    <3>2. r # 0
      OBVIOUS
    <3>3. c \notin Hole(t)
      BY <2>1, <3>1, <3>2
    <3>4. QED
      BY <3>1, <3>3
  <2>5. QED
    BY <1>2, <2>2, <2>3, <2>4 DEF Placed
<1>8. CASE s.match[t.at] = 0
  <2>1. t.state = "flipping"
    BY <1>2, <1>8
  <2>2. PICK rank \in [0 .. N -> Nat], k \in Nat :
          (\A c \in t.used : rank[c] < k) /\ Back(t, cost, t.used, rank)
    BY <1>5
  <2> DEFINE last == [rank EXCEPT ![t.at] = k]  P == t.used \cup {t.at}
  <2>3. /\ last \in [0 .. N -> Nat] /\ last[t.at] = k
        /\ \A c \in t.used : last[c] = rank[c] /\ rank[c] \in Nat /\ rank[c] < k
        /\ P \in SUBSET (0 .. N)
    <3>1. t.used \in SUBSET (0 .. N)
      BY <1>2, SearchFields
    <3>2. t.at \in 0 .. N
      BY <1>6
    <3>3. QED
      BY <1>6, <2>2, <3>1, <3>2
  <2> HIDE DEF last
  <2>4. Back(t, cost, P, last)
    <3> SUFFICES ASSUME NEW c \in P \ {0}
                 PROVE  /\ t.previous[c] \in P /\ last[t.previous[c]] < last[c]
                        /\ Reduced(t, cost, c, t.match[t.previous[c]]) = 0
      BY DEF Back
    <3>1. CASE c = t.at
      BY <1>5, <2>3, <3>1
    <3>2. CASE c \in t.used
      <4>1. /\ t.previous[c] \in t.used /\ rank[t.previous[c]] < rank[c]
            /\ Reduced(t, cost, c, t.match[t.previous[c]]) = 0
        BY <2>2, <3>2 DEF Back
      <4>2. QED
        BY <2>3, <3>2, <4>1
    <3>3. QED
      BY <3>1, <3>2
  <2>5. \A c \in P : last[c] <= last[t.at]
    BY <2>3
  <2>6. \A c \in P \ {t.at} : t.match[c] # 0
    BY <1>6
  <2>7. t.at # 0 /\ t.at \in P
    BY <1>6
  <2>8. Path(t, N, cost)
    <3> HIDE DEF P
    <3> QED
      BY <2>3, <2>4, <2>5, <2>6, <2>7 DEF Path
  <2>9. QED
    BY <1>2, <1>4, <1>7, <2>1, <2>8 DEF SearchInv, t
<1>9. CASE s.match[t.at] # 0
  <2>1. t.state = "growing"
    BY <1>2, <1>9
  <2>2. t.match[0] = t.row /\ t.row > 0
    BY <1>1, <1>2 DEF Tree
  <2>3. Tree(t, N, cost)
    BY <1>2, <1>5, <1>6, <1>9, <2>2 DEF Tree
  <2>4. QED
    BY <1>2, <1>4, <1>7, <2>1, <2>3 DEF SearchInv, t
<1>10. QED
  BY <1>8, <1>9

-----------------------------------------------------------------------------
(* What an assignment found is worth *)
(* Sums of sums, of zeros, of opposites and of natural numbers.             *)
LEMMA ScorePlus ==
  ASSUME NEW f, NEW g, NEW h, NEW S, IsFiniteSet(S),
         \A x \in S : f[x] \in Int /\ g[x] \in Int /\ h[x] = f[x] + g[x]
  PROVE  Score(S, h) = Score(S, f) + Score(S, g)
<1> DEFINE C == {U \in SUBSET S : Score(U, h) = Score(U, f) + Score(U, g)}
<1>1. \A U \in SUBSET S : IsFiniteSet(U) /\ Score(U, f) \in Int /\ Score(U, g) \in Int
  BY FS_Subset, ScoreInt
<1>2. {} \in C
  BY ScoreEmpty
<1>3. ASSUME NEW U \in SUBSET S, NEW x \in S \ U, U \in C
      PROVE  U \cup {x} \in C
  <2>1. \A y \in S : h[y] \in Int
    OBVIOUS
  <2>2. /\ Score(U \cup {x}, f) = Score(U, f) + f[x]
        /\ Score(U \cup {x}, g) = Score(U, g) + g[x]
        /\ Score(U \cup {x}, h) = Score(U, h) + h[x]
    BY <1>1, <2>1, ScoreAdds
  <2>3. U \cup {x} \in SUBSET S /\ Score(U, h) = Score(U, f) + Score(U, g)
    BY <1>3
  <2>4. f[x] \in Int /\ g[x] \in Int /\ h[x] = f[x] + g[x]
    OBVIOUS
  <2>5. Score(U, f) \in Int /\ Score(U, g) \in Int
    BY <1>1
  <2>6. Score(U \cup {x}, h) = Score(U \cup {x}, f) + Score(U \cup {x}, g)
    BY ONLY <2>2, <2>3, <2>4, <2>5
  <2>7. QED
    BY <2>3, <2>6
<1>4. S \in C
  <2> HIDE DEF C
  <2> QED
    BY <1>2, <1>3, OneByOne
<1>5. QED
  BY <1>4

LEMMA ScoreZero ==
  ASSUME NEW f, NEW S, IsFiniteSet(S), \A x \in S : f[x] = 0
  PROVE  Score(S, f) = 0
<1> DEFINE C == {U \in SUBSET S : Score(U, f) = 0}
<1>1. {} \in C
  BY ScoreEmpty
<1>2. ASSUME NEW U \in SUBSET S, NEW x \in S \ U, U \in C
      PROVE  U \cup {x} \in C
  <2>1. IsFiniteSet(U) /\ \A y \in S : f[y] \in Int
    BY FS_Subset
  <2>2. Score(U \cup {x}, f) = Score(U, f) + f[x]
    BY <2>1, ScoreAdds
  <2>3. QED
    BY <1>2, <2>2
<1>3. S \in C
  <2> HIDE DEF C
  <2> QED
    BY <1>1, <1>2, OneByOne
<1>4. QED
  BY <1>3

LEMMA ScoreNegated ==
  ASSUME NEW f, NEW g, NEW S, IsFiniteSet(S), \A x \in S : f[x] \in Int /\ g[x] = -f[x]
  PROVE  Score(S, f) \in Int /\ Score(S, g) = -Score(S, f)
<1> DEFINE z == [x \in S |-> 0]
<1>1. \A x \in S : g[x] \in Int /\ z[x] = f[x] + g[x] /\ z[x] = 0
  OBVIOUS
<1> HIDE DEF z
<1>2. Score(S, z) = Score(S, f) + Score(S, g)
  BY <1>1, ScorePlus
<1>3. Score(S, z) = 0
  BY <1>1, ScoreZero
<1>4. Score(S, f) \in Int /\ Score(S, g) \in Int
  BY <1>1, ScoreInt
<1>5. QED
  BY ONLY <1>2, <1>3, <1>4

LEMMA ScoreNatural ==
  ASSUME NEW f, NEW S, IsFiniteSet(S), \A x \in S : f[x] \in Int /\ f[x] >= 0
  PROVE  Score(S, f) \in Int /\ Score(S, f) >= 0
<1> DEFINE z == [x \in S |-> 0]
<1>1. \A x \in S : z[x] = 0 /\ z[x] \in Int /\ f[x] \in Int /\ z[x] <= f[x]
  OBVIOUS
<1> HIDE DEF z
<1>2. Score(S, z) <= Score(S, f) /\ Score(S, z) = 0
  BY <1>1, ScoreLeq, ScoreZero
<1>3. QED
  BY <1>2, ScoreInt

Apart(g, S) == \A x, y \in S : g[x] = g[y] => x = y
Through(f, g, h, S) == \A x \in S : f[g[x]] \in Int /\ h[x] = f[g[x]]

(* A sum over the images of an injection.                                   *)
LEMMA ScoreRenamed ==
  ASSUME NEW f, NEW g, NEW h, NEW S, IsFiniteSet(S), Apart(g, S), Through(f, g, h, S)
  PROVE  Score({g[x] : x \in S}, f) = Score(S, h)
<1>0. /\ \A x, y \in S : g[x] = g[y] => x = y
      /\ \A x \in S : f[g[x]] \in Int /\ h[x] = f[g[x]]
  BY DEF Apart, Through
<1> DEFINE C == {U \in SUBSET S : /\ Score({g[x] : x \in U}, f) = Score(U, h)
                                  /\ IsFiniteSet({g[x] : x \in U})}
<1>1. {} \in C
  <2>1. {g[x] : x \in {}} = {}
    OBVIOUS
  <2>2. QED
    BY <2>1, ScoreEmpty, FS_EmptySet
<1>2. ASSUME NEW U \in SUBSET S, NEW z \in S \ U, U \in C
      PROVE  U \cup {z} \in C
  <2> DEFINE T == {g[x] : x \in U}
  <2>1. IsFiniteSet(U) /\ IsFiniteSet(T) /\ Score(T, f) = Score(U, h)
    BY <1>2, FS_Subset
  <2>2. {g[x] : x \in U \cup {z}} = T \cup {g[z]}
    OBVIOUS
  <2>3. g[z] \notin T
    BY <1>0
  <2>4. \A y \in T \cup {g[z]} : f[y] \in Int
    BY <1>0
  <2>5. \A y \in U \cup {z} : h[y] \in Int
    BY <1>0
  <2> HIDE DEF T
  <2>6. IsFiniteSet(T \cup {g[z]})
    BY <2>1, FS_AddElement
  <2>7. Score(T \cup {g[z]}, f) = Score(T, f) + f[g[z]]
    BY <2>1, <2>3, <2>4, ScoreAdds
  <2>8. Score(U \cup {z}, h) = Score(U, h) + h[z]
    BY <2>1, <2>5, ScoreAdds
  <2>9. Score(T \cup {g[z]}, f) = Score(U \cup {z}, h)
    BY <1>0, <2>1, <2>7, <2>8
  <2>10. QED
    BY <2>2, <2>6, <2>9
<1>3. S \in C
  <2> HIDE DEF C
  <2> QED
    BY <1>1, <1>2, OneByOne
<1>4. QED
  BY <1>3
-----------------------------------------------------------------------------
(* A sorted set has each of its elements once.                              *)
LEMMA SortedIs ==
  ASSUME NEW S, IsFiniteSet(S)
  PROVE  /\ Len(Sorted(S)) = Cardinality(S) /\ Cardinality(S) \in Nat
         /\ Sorted(S) \in [1 .. Cardinality(S) -> S]
         /\ \A i, j \in 1 .. Cardinality(S) : Sorted(S)[i] = Sorted(S)[j] => i = j
         /\ \A x \in S : \E i \in 1 .. Cardinality(S) : Sorted(S)[i] = x
<1> DEFINE n == Cardinality(S)
<1>1. n \in Nat
  BY FS_CardinalityType
<1>2. IsFiniteSet(1 .. n) /\ Cardinality(1 .. n) = n
  <2>1. Cardinality(1 .. n) = IF 1 > n THEN 0 ELSE n - 1 + 1
    BY <1>1, FS_Interval
  <2>2. QED
    BY <1>1, <2>1, FS_Interval
<1> HIDE DEF n
<1>3. ExistsBijection(1 .. n, S)
  BY <1>1, <1>2, FS_SameCardinalityBij DEF n
<1>4. \E f \in [1 .. n -> S] : IsInjective(f)
  BY <1>3 DEF ExistsBijection, Bijection, Injection, IsInjective
<1>5. Sorted(S) \in [1 .. n -> S] /\ IsInjective(Sorted(S))
  BY <1>4 DEF Sorted, SetToSeq, n
<1> DEFINE f == Sorted(S)  T == {f[i] : i \in 1 .. n}
<1> HIDE DEF f
<1>6. f \in [1 .. n -> S] /\ \A i, j \in 1 .. n : f[i] = f[j] => i = j
  BY <1>5 DEF IsInjective, f
<1>7. \A x \in S : \E i \in 1 .. n : f[i] = x
  <2>1. f \in Injection(1 .. n, S)
    BY <1>6 DEF Injection, IsInjective
  <2>2. f \in Surjection(1 .. n, S)
    BY <1>2, <2>1, FS_Injection DEF n
  <2>3. QED
    BY <2>2 DEF Surjection
<1>8. Len(f) = n
  BY <1>1, <1>6
<1>9. QED
  BY <1>1, <1>6, <1>7, <1>8 DEF f, n
-----------------------------------------------------------------------------
(* A permutation of the rows 1 .. N, by column.                             *)
Permutes(N, g) ==
  /\ \A c \in 1 .. N : g[c] \in 1 .. N
  /\ \A c, d \in 1 .. N : g[c] = g[d] => c = d

Total(N, cost, g) == Score(1 .. N, [c \in 1 .. N |-> cost[c][g[c]]])

(* A permutation of a finite set takes every value.                         *)
LEMMA PermutesOnto ==
  ASSUME NEW N \in Nat, NEW g, Permutes(N, g)
  PROVE  {g[c] : c \in 1 .. N} = 1 .. N
<1> DEFINE h == [c \in 1 .. N |-> g[c]]
<1>1. h \in [1 .. N -> 1 .. N] /\ \A c, d \in 1 .. N : h[c] = h[d] => c = d
  BY DEF Permutes
<1>2. IsFiniteSet(1 .. N)
  BY FS_Interval
<1> DEFINE S == 1 .. N
<1> HIDE DEF S
<1>3. h \in Injection(S, S)
  BY <1>1 DEF Injection, IsInjective, S
<1>4. IsFiniteSet(S) /\ Cardinality(S) = Cardinality(S)
  BY <1>2 DEF S
<1>5. h \in Surjection(S, S)
  <2> HIDE DEF h
  <2> QED
    BY <1>3, <1>4, FS_Injection
<1>6. \A r \in 1 .. N : \E c \in 1 .. N : g[c] = r
  BY <1>5 DEF Surjection, S
<1>7. QED
  BY <1>6 DEF Permutes

(* Fair prices bound every assignment from below, tight ones are its cost.  *)
LEMMA PricesBound ==
  ASSUME NEW N \in Nat, NEW cost \in Costs(N), NEW s \in Searches(N), NEW g, Permutes(N, g),
         \A r \in 1 .. N, c \in 1 .. N : Reduced(s, cost, c, r) >= 0
  PROVE  /\ Score(1 .. N, s.u) + Score(1 .. N, s.v) <= Total(N, cost, g)
         /\ (\A c \in 1 .. N : Reduced(s, cost, c, g[c]) = 0) =>
              Total(N, cost, g) = Score(1 .. N, s.u) + Score(1 .. N, s.v)
<1> DEFINE S == 1 .. N
           ug == [c \in S |-> s.u[g[c]]]
           uv == [c \in S |-> s.u[g[c]] + s.v[c]]
           f  == [c \in S |-> cost[c][g[c]]]
<1>1. IsFiniteSet(S) /\ \A c \in S : g[c] \in S
  BY FS_Interval DEF Permutes
<1>2. \A c, r \in S : /\ cost[c][r] \in Int /\ s.u[r] \in Int /\ s.v[c] \in Int
                      /\ Reduced(s, cost, c, r) = cost[c][r] - s.u[r] - s.v[c]
  BY ReducedInt DEF Reduced
<1>3. \A c \in S : /\ ug[c] = s.u[g[c]] /\ uv[c] = s.u[g[c]] + s.v[c] /\ f[c] = cost[c][g[c]]
                   /\ ug[c] \in Int /\ s.v[c] \in Int /\ uv[c] = ug[c] + s.v[c] /\ uv[c] \in Int
                   /\ f[c] \in Int /\ Reduced(s, cost, c, g[c]) = f[c] - uv[c]
                   /\ Reduced(s, cost, c, g[c]) >= 0
  <2> SUFFICES ASSUME NEW c \in S
               PROVE  /\ s.u[g[c]] \in Int /\ s.v[c] \in Int /\ cost[c][g[c]] \in Int
                      /\ Reduced(s, cost, c, g[c]) = cost[c][g[c]] - (s.u[g[c]] + s.v[c])
                      /\ Reduced(s, cost, c, g[c]) >= 0
    BY <1>1
  <2> DEFINE r == g[c]
  <2>1. r \in S
    BY <1>1
  <2> HIDE DEF r
  <2>2. /\ cost[c][r] \in Int /\ s.u[r] \in Int /\ s.v[c] \in Int
        /\ Reduced(s, cost, c, r) = cost[c][r] - s.u[r] - s.v[c]
        /\ Reduced(s, cost, c, r) >= 0
    BY <1>2, <2>1
  <2>3. QED
    BY <2>2 DEF r
<1>4. {g[c] : c \in S} = S
  BY PermutesOnto
<1> HIDE DEF S, ug, uv, f
<1>5. Score({g[c] : c \in S}, s.u) = Score(S, ug)
  <2>1. \A c, d \in S : g[c] = g[d] => c = d
    BY DEF Permutes, S
  <2>2. \A c \in S : s.u[g[c]] \in Int /\ ug[c] = s.u[g[c]]
    BY <1>3
  <2>3. QED
    BY <1>1, <2>1, <2>2, ScoreRenamed DEF Apart, Through
<1>6. Score(S, uv) = Score(S, ug) + Score(S, s.v)
  BY <1>1, <1>3, ScorePlus
<1>7. Score(S, uv) = Score(S, s.u) + Score(S, s.v)
  BY <1>4, <1>5, <1>6
<1>8. \A c \in S : uv[c] <= f[c]
  BY <1>3
<1>9. Score(S, uv) <= Score(S, f)
  BY <1>1, <1>3, <1>8, ScoreLeq
<1>10. ASSUME \A c \in S : Reduced(s, cost, c, g[c]) = 0
       PROVE  Score(S, f) = Score(S, uv)
  <2>1. \A c \in S : f[c] = uv[c]
    BY <1>3, <1>10
  <2>2. QED
    BY <1>1, <1>3, <2>1, ScoreSame
<1>11. Total(N, cost, g) = Score(S, f)
  BY DEF Total, S, f
<1>12. QED
  BY <1>7, <1>9, <1>10, <1>11 DEF S

(* When all rows have entered, the rows are assigned at the least cost.     *)
LEMMA Cheapest ==
  ASSUME NEW N \in Nat, NEW cost \in Costs(N), NEW s, SearchInv(s, N, cost),
         s.state = "ready", s.row = N
  PROVE  /\ Permutes(N, s.match)
         /\ \A g : Permutes(N, g) => Total(N, cost, s.match) <= Total(N, cost, g)
<1>1. s \in Searches(N) /\ Placed(s, N) /\ Prices(s, N, cost) /\ s.at = 0
  BY DEF SearchInv
<1>2. s.match \in [0 .. N -> 0 .. N]
  BY <1>1, SearchFields
<1>3. (0 .. N) \ Hole(s) = 1 .. N
  BY <1>1 DEF Hole
<1>4. \A r \in 1 .. N : \E c \in 1 .. N : s.match[c] = r
  BY <1>1, <1>3 DEF Placed
<1>5. \A c \in 1 .. N : s.match[c] # 0
  <2> SUFFICES ASSUME NEW d \in 1 .. N, s.match[d] = 0 PROVE FALSE
    OBVIOUS
  <2> DEFINE T == (1 .. N) \ {d}  S == 1 .. N
             back == [r \in S |-> CHOOSE c \in S : s.match[c] = r]
  <2>1. IsFiniteSet(S) /\ Cardinality(S) \in Nat
    BY FS_Interval, FS_CardinalityType
  <2>2. IsFiniteSet(T) /\ Cardinality(T) < Cardinality(S)
    <3>1. d \in S
      OBVIOUS
    <3> HIDE DEF S
    <3>2. T = S \ {d}
      BY DEF S
    <3>3. IsFiniteSet(S \ {d}) /\ Cardinality(S \ {d}) = Cardinality(S) - 1
      BY <2>1, <3>1, FS_RemoveElement
    <3>4. QED
      BY <2>1, <3>2, <3>3
  <2>3. \A r \in S : back[r] \in T /\ s.match[back[r]] = r
    BY <1>4
  <2>4. back \in [S -> T]
    BY <2>3
  <2> HIDE DEF S, T, back
  <2>5. \E x, y \in S : x # y /\ back[x] = back[y]
    BY <2>1, <2>2, <2>4, FS_PigeonHole
  <2>6. QED
    BY <2>3, <2>5
<1>6. Permutes(N, s.match)
  <2>1. \A c \in 1 .. N : c \in 0 .. N
    OBVIOUS
  <2>2. \A c \in 1 .. N : s.match[c] \in 0 .. N
    BY <1>2, <2>1
  <2>3. \A c \in 1 .. N : s.match[c] \in 1 .. N
    BY <1>5, <2>2
  <2>4. \A c, d \in 1 .. N : s.match[c] # 0 /\ s.match[c] = s.match[d] => c = d
    BY <1>1, <1>3 DEF Placed
  <2>5. QED
    BY <1>5, <2>3, <2>4 DEF Permutes
<1>7. Priced(s) = 1 .. N
  BY DEF Priced
<1>8. /\ \A r \in 1 .. N, c \in 1 .. N : Reduced(s, cost, c, r) >= 0
      /\ \A c \in 1 .. N : Reduced(s, cost, c, s.match[c]) = 0
  BY <1>1, <1>5, <1>7 DEF Prices
<1>9. Total(N, cost, s.match) = Score(1 .. N, s.u) + Score(1 .. N, s.v)
  BY <1>1, <1>6, <1>8, PricesBound
<1>10. \A g : Permutes(N, g) => Score(1 .. N, s.u) + Score(1 .. N, s.v) <= Total(N, cost, g)
  BY <1>1, <1>8, PricesBound
<1>11. QED
  BY <1>6, <1>9, <1>10
-----------------------------------------------------------------------------
(* Weights between the rows and the columns, all of them admissible.        *)
Admissible(w, L, M, threshold) ==
  /\ IsFiniteSet(L) /\ IsFiniteSet(M) /\ DOMAIN w \subseteq L \X M
  /\ threshold \in Int
  /\ \A p \in DOMAIN w : w[p] \in 0 .. 10 /\ w[p] >= threshold

(* Admissible weights are integers on a finite set of pairs.                *)
LEMMA WeightsFinite ==
  ASSUME NEW w, NEW L, NEW M, NEW threshold, Admissible(w, L, M, threshold)
  PROVE  /\ IsFiniteSet(DOMAIN w) /\ \A p \in DOMAIN w : w[p] \in Int
         /\ Cardinality(L) \in Nat /\ Cardinality(M) \in Nat
<1>1. IsFiniteSet(L \X M)
  BY FS_Product DEF Admissible
<1>2. QED
  BY <1>1, FS_Subset, FS_CardinalityType DEF Admissible

(* Costs are within bounds, and those of real pairs are opposite to the weights.*)
LEMMA CostIs ==
  ASSUME NEW w, NEW L, NEW M, NEW threshold, Admissible(w, L, M, threshold)
  PROVE  LET rows == Sorted(L)  columns == Sorted(M)
             R == Cardinality(L)  C == Cardinality(M)
             cost == Cost(w, rows, columns, threshold)
         IN  /\ cost \in Costs(R + C)
             /\ \A c, r \in 1 .. R + C :
                  /\ r > R \/ c > C => cost[c][r] = 0
                  /\ r <= R /\ c <= C =>
                       cost[c][r] = IF <<rows[r], columns[c]>> \in DOMAIN w
                                    THEN -w[<<rows[r], columns[c]>>] ELSE Forbidden
<1> DEFINE rows == Sorted(L)  columns == Sorted(M)
           R == Cardinality(L)  C == Cardinality(M)  N == R + C
           cost == Cost(w, rows, columns, threshold)
<1>1. Len(rows) = R /\ Len(columns) = C /\ R \in Nat /\ C \in Nat /\ N \in Nat
  BY SortedIs DEF Admissible
<1> HIDE DEF rows, columns, R, C
<1>2. cost = [c \in 1 .. N |-> [r \in 1 .. N |->
                IF r > R \/ c > C THEN 0
                ELSE IF <<rows[r], columns[c]>> \in DOMAIN w
                        /\ w[<<rows[r], columns[c]>>] >= threshold
                     THEN -w[<<rows[r], columns[c]>>]
                ELSE Forbidden]]
  BY <1>1 DEF Cost
<1>3. \A p \in DOMAIN w : w[p] \in 0 .. 10 /\ w[p] >= threshold
  BY DEF Admissible
<1> HIDE DEF N, cost
<1>4. ASSUME NEW c \in 1 .. N, NEW r \in 1 .. N
      PROVE  cost[c][r] = IF r > R \/ c > C THEN 0
                          ELSE IF <<rows[r], columns[c]>> \in DOMAIN w
                               THEN -w[<<rows[r], columns[c]>>] ELSE Forbidden
  BY <1>2, <1>3
<1>5. \A x \in 0 .. 10 : -x \in -10 .. Forbidden /\ 0 \in -10 .. Forbidden /\ Forbidden \in -10 .. Forbidden
  BY CostsAssumption
<1>6. ASSUME NEW c \in 1 .. N, NEW r \in 1 .. N
      PROVE  cost[c][r] \in -10 .. Forbidden
  <2>1. 0 \in 0 .. 10
    OBVIOUS
  <2>2. CASE r > R \/ c > C
    BY <1>4, <1>5, <2>1, <2>2
  <2>3. CASE ~(r > R \/ c > C) /\ <<rows[r], columns[c]>> \in DOMAIN w
    <3>1. cost[c][r] = -w[<<rows[r], columns[c]>>]
      BY <1>4, <2>3
    <3>2. w[<<rows[r], columns[c]>>] \in 0 .. 10
      BY <1>3, <2>3
    <3>3. QED
      BY <1>5, <3>1, <3>2
  <2>4. CASE ~(r > R \/ c > C) /\ <<rows[r], columns[c]>> \notin DOMAIN w
    BY <1>4, <1>5, <2>1, <2>4
  <2>5. QED
    BY <2>2, <2>3, <2>4
<1>7. cost \in Costs(N)
  <2>1. \A c \in 1 .. N : cost[c] \in [1 .. N -> -10 .. Forbidden]
    BY <1>2, <1>6
  <2>2. cost \in [1 .. N -> [1 .. N -> -10 .. Forbidden]]
    BY <1>2, <2>1
  <2>3. QED
    BY <2>2 DEF Costs
<1>8. \A c, r \in 1 .. N :
                  /\ r > R \/ c > C => cost[c][r] = 0
                  /\ r <= R /\ c <= C =>
                       cost[c][r] = IF <<rows[r], columns[c]>> \in DOMAIN w
                                    THEN -w[<<rows[r], columns[c]>>] ELSE Forbidden
  <2>1. \A c, r \in 1 .. N : r <= R /\ c <= C => ~(r > R \/ c > C)
    BY <1>1 DEF N
  <2>2. QED
    BY <1>4, <2>1
<1>9. QED
  BY <1>7, <1>8 DEF N, cost, rows, columns, R, C

(* Every matching is the real part of a permutation: a column without a row *)
(* takes the dummy row of its own, a row without a column the dummy column. *)
LEMMA MatchingExtends ==
  ASSUME NEW R \in Nat, NEW C \in Nat, NEW J \in SUBSET (1 .. C), NEW rho,
         \A c \in J : rho[c] \in 1 .. R, Apart(rho, J)
  PROVE  \E g : /\ Permutes(R + C, g)
                /\ \A c \in J : g[c] = rho[c]
                /\ \A c \in (1 .. R + C) \ J : c > C \/ g[c] > R
<1> DEFINE I == {rho[c] : c \in J}
           inv == [r \in I |-> CHOOSE c \in J : rho[c] = r]
           g == [c \in 1 .. R + C |->
                   IF c \in J THEN rho[c]
                   ELSE IF c <= C THEN R + c
                   ELSE IF c - C \in I THEN R + inv[c - C]
                   ELSE c - C]
           h == [r \in 1 .. R + C |->
                   IF r \in I THEN inv[r]
                   ELSE IF r <= R THEN C + r
                   ELSE IF r - R \in J THEN C + rho[r - R]
                   ELSE r - R]
<1>1. \A r \in I : r \in 1 .. R /\ inv[r] \in J /\ rho[inv[r]] = r
  OBVIOUS
<1>2. \A c \in J : c \in 1 .. C /\ rho[c] \in I /\ inv[rho[c]] = c
  BY <1>1 DEF Apart
<1>3. \A c \in 1 .. R + C : g[c] = IF c \in J THEN rho[c]
                   ELSE IF c <= C THEN R + c
                   ELSE IF c - C \in I THEN R + inv[c - C]
                   ELSE c - C
  OBVIOUS
<1>4. \A r \in 1 .. R + C : h[r] = IF r \in I THEN inv[r]
                   ELSE IF r <= R THEN C + r
                   ELSE IF r - R \in J THEN C + rho[r - R]
                   ELSE r - R
  OBVIOUS
<1> HIDE DEF I, inv, g, h
<1>5. ASSUME NEW c \in 1 .. R + C
      PROVE  /\ g[c] \in 1 .. R + C /\ h[g[c]] = c
             /\ c \in J \/ c > C \/ g[c] > R
  <2>1. CASE c \in J
    <3>1. g[c] = rho[c] /\ rho[c] \in I /\ inv[rho[c]] = c /\ rho[c] \in 1 .. R
      BY <1>1, <1>2, <1>3, <2>1
    <3>2. rho[c] \in 1 .. R + C
      BY <3>1
    <3>3. QED
      BY <1>4, <2>1, <3>1, <3>2
  <2>2. CASE c \notin J /\ c <= C
    <3>1. g[c] = R + c /\ R + c \in 1 .. R + C /\ R + c > R /\ (R + c) - R = c
      BY <1>3, <2>2
    <3>2. R + c \notin I
      BY <1>1, <3>1
    <3>3. QED
      BY <1>4, <2>2, <3>1, <3>2
  <2>3. CASE c > C /\ c - C \in I
    <3>1. c \notin J /\ ~(c <= C)
      BY <1>2, <2>3
    <3>2. g[c] = R + inv[c - C]
      BY <1>3, <2>3, <3>1
    <3> DEFINE k == inv[c - C]
    <3>3. k \in J /\ rho[k] = c - C /\ k \in 1 .. C
      BY <1>1, <1>2, <2>3
    <3> HIDE DEF k
    <3>4. R + k \in 1 .. R + C /\ R + k > R /\ (R + k) - R = k
      BY <3>3
    <3>5. R + k \notin I
      BY <1>1, <3>4
    <3>6. h[R + k] = C + (c - C)
      BY <1>4, <3>3, <3>4, <3>5
    <3>7. QED
      BY <2>3, <3>2, <3>4, <3>6 DEF k
  <2>4. CASE c > C /\ c - C \notin I
    <3>1. c \notin J /\ ~(c <= C)
      BY <1>2, <2>4
    <3>2. g[c] = c - C /\ c - C \in 1 .. R + C /\ c - C <= R
      BY <1>3, <2>4, <3>1
    <3>3. h[c - C] = C + (c - C)
      BY <1>4, <2>4, <3>2
    <3>4. QED
      BY <2>4, <3>2, <3>3
  <2>5. QED
    BY <2>1, <2>2, <2>3, <2>4
<1>6. Permutes(R + C, g)
  <2>1. \A c, d \in 1 .. R + C : g[c] = g[d] => c = d
    BY <1>5
  <2>2. QED
    BY <1>5, <2>1 DEF Permutes
<1>7. \A c \in J : g[c] = rho[c]
  <2>1. J \subseteq 1 .. R + C
    BY <1>2
  <2>2. QED
    BY <1>3, <2>1
<1>8. QED
  BY <1>5, <1>6, <1>7

(* What an assignment costs, when columns K hold admissible pairs and the   *)
(* others hold what costs at least nothing.                                 *)
Real(N, cost, g, w, pair, K) ==
  /\ K \subseteq 1 .. N /\ Apart(pair, K)
  /\ \A c \in K : w[pair[c]] \in Int /\ cost[c][g[c]] = -w[pair[c]]
  /\ \A c \in (1 .. N) \ K : cost[c][g[c]] >= 0

(* The cost of a permutation is that of its real part.                      *)
LEMMA TotalParts ==
  ASSUME NEW N \in Nat, NEW cost \in Costs(N), NEW g, Permutes(N, g), NEW K,
         NEW w, NEW pair, Real(N, cost, g, w, pair, K)
  PROVE  LET m == {pair[c] : c \in K} IN
         /\ Score(m, w) \in Int /\ Total(N, cost, g) \in Int
         /\ Total(N, cost, g) >= -Score(m, w)
         /\ (\A c \in (1 .. N) \ K : cost[c][g[c]] = 0) => Total(N, cost, g) = -Score(m, w)
<1> DEFINE S == 1 .. N
           f == [c \in S |-> cost[c][g[c]]]
           h == [c \in K |-> w[pair[c]]]
           m == {pair[c] : c \in K}
<1>0. /\ K \subseteq 1 .. N /\ Apart(pair, K)
      /\ \A c \in K : w[pair[c]] \in Int /\ cost[c][g[c]] = -w[pair[c]]
      /\ \A c \in (1 .. N) \ K : cost[c][g[c]] >= 0
  BY DEF Real
<1>1. IsFiniteSet(S) /\ K \subseteq S /\ IsFiniteSet(K) /\ IsFiniteSet(S \ K)
  <2>1. IsFiniteSet(S) /\ K \subseteq S
    BY <1>0, FS_Interval
  <2> HIDE DEF S
  <2>2. QED
    BY <2>1, FS_Subset
<1>2. \A c \in S : cost[c][g[c]] \in Int
  <2> SUFFICES ASSUME NEW c \in S PROVE cost[c][g[c]] \in Int
    OBVIOUS
  <2> DEFINE r == g[c]
  <2>1. r \in 1 .. N
    BY DEF Permutes
  <2> HIDE DEF r
  <2>2. cost[c][r] \in Int
    BY <2>1, CostsAssumption DEF Costs
  <2>3. QED
    BY <2>2 DEF r
<1>3. \A c \in K : h[c] = w[pair[c]] /\ h[c] \in Int /\ f[c] = -h[c]
  BY <1>0, <1>1
<1>4. \A c \in S : f[c] \in Int /\ f[c] = cost[c][g[c]]
  BY <1>2
<1>5. \A c \in S \ K : f[c] >= 0
  BY <1>0
<1> HIDE DEF S, f, h
<1>6. Score(K, h) \in Int /\ Score(K, f) = -Score(K, h)
  <2>1. \A c \in K : h[c] \in Int /\ f[c] = -h[c]
    BY <1>3
  <2>2. QED
    BY ONLY <1>1, <2>1, ScoreNegated
<1>7. Score(m, w) = Score(K, h)
  <2>1. \A c \in K : w[pair[c]] \in Int /\ h[c] = w[pair[c]]
    BY <1>3
  <2>3. Score({pair[c] : c \in K}, w) = Score(K, h)
    <3>1. IsFiniteSet(K)
      BY <1>1
    <3>3. Apart(pair, K) /\ Through(w, pair, h, K)
      BY <1>0, <2>1 DEF Through
    <3>2. QED
      BY <3>1, <3>3, ScoreRenamed
  <2>4. QED
    BY <2>3
<1>8. Score(S, f) = Score(K, f) + Score(S \ K, f)
  <2>1. K \cup (S \ K) = S /\ K \cap (S \ K) = {}
    BY <1>1
  <2>2. Score(K \cup (S \ K), f) = Score(K, f) + Score(S \ K, f)
    BY <1>1, <1>4, <2>1, ScoreUnion
  <2>3. Score(K \cup (S \ K), f) = Score(S, f)
    BY <2>1, Zenon
  <2>4. QED
    BY <2>2, <2>3
<1>9. Score(S \ K, f) \in Int /\ Score(S \ K, f) >= 0
  BY <1>1, <1>4, <1>5, ScoreNatural
<1>10. ASSUME \A c \in S \ K : cost[c][g[c]] = 0
       PROVE  Score(S \ K, f) = 0
  <2>1. \A c \in S \ K : f[c] = 0
    BY <1>4, <1>10
  <2>2. QED
    BY <1>1, <2>1, ScoreZero
<1>11. Total(N, cost, g) = Score(S, f)
  BY DEF Total, S, f
<1> HIDE DEF m
<1>12. QED
  BY <1>6, <1>7, <1>8, <1>9, <1>10, <1>11 DEF m, S

(* Every matching is extended by a permutation that costs what it weighs.   *)
LEMMA MatchingCost ==
  ASSUME NEW w, NEW L, NEW M, NEW threshold, Admissible(w, L, M, threshold),
         NEW m \in Matchings(DOMAIN w)
  PROVE  LET N == Cardinality(L) + Cardinality(M)
             cost == Cost(w, Sorted(L), Sorted(M), threshold)
         IN  Score(m, w) \in Int
             /\ \E g : Permutes(N, g) /\ Total(N, cost, g) = -Score(m, w)
<1> DEFINE rows == Sorted(L)  columns == Sorted(M)
           R == Cardinality(L)  C == Cardinality(M)  N == R + C
           cost == Cost(w, rows, columns, threshold)
<1>1. /\ R \in Nat /\ C \in Nat /\ N \in Nat
      /\ rows \in [1 .. R -> L] /\ \A i, j \in 1 .. R : rows[i] = rows[j] => i = j
      /\ \A x \in L : \E i \in 1 .. R : rows[i] = x
      /\ columns \in [1 .. C -> M] /\ \A i, j \in 1 .. C : columns[i] = columns[j] => i = j
      /\ \A x \in M : \E i \in 1 .. C : columns[i] = x
  BY SortedIs DEF Admissible
<1>2. /\ cost \in Costs(N)
      /\ \A c, r \in 1 .. N :
                  /\ r > R \/ c > C => cost[c][r] = 0
                  /\ r <= R /\ c <= C =>
                       cost[c][r] = IF <<rows[r], columns[c]>> \in DOMAIN w
                                    THEN -w[<<rows[r], columns[c]>>] ELSE Forbidden
  BY CostIs
<1>3. /\ DOMAIN w \subseteq L \X M /\ \A p \in DOMAIN w : w[p] \in Int
      /\ m \subseteq DOMAIN w /\ \A p, q \in m : p # q => p[1] # q[1] /\ p[2] # q[2]
  BY WeightsFinite DEF Admissible, Matchings
<1> HIDE DEF rows, columns, R, C, cost
<1> DEFINE J    == {c \in 1 .. C : \E p \in m : p[2] = columns[c]}
           at   == [c \in J |-> CHOOSE p \in m : p[2] = columns[c]]
           rho  == [c \in J |-> CHOOSE i \in 1 .. R : rows[i] = at[c][1]]
<1>4. ASSUME NEW c \in J
      PROVE  /\ at[c] \in m /\ at[c][2] = columns[c] /\ c \in 1 .. C
             /\ rho[c] \in 1 .. R /\ rows[rho[c]] = at[c][1]
             /\ at[c] = <<rows[rho[c]], columns[c]>>
  <2>1. at[c] \in m /\ at[c][2] = columns[c]
    OBVIOUS
  <2>2. at[c] \in L \X M
    BY <1>3, <2>1
  <2>3. \E i \in 1 .. R : rows[i] = at[c][1]
    BY <1>1, <2>2
  <2>4. rho[c] \in 1 .. R /\ rows[rho[c]] = at[c][1]
    BY <2>3
  <2>5. at[c] = <<at[c][1], at[c][2]>>
    <3>1. \A p \in L \X M : p = <<p[1], p[2]>>
      OBVIOUS
    <3> HIDE DEF at
    <3>2. QED
      BY <2>2, <3>1
  <2>6. QED
    BY <2>1, <2>4, <2>5
<1>5. ASSUME NEW p \in m
      PROVE  \E c \in J : at[c] = p
  <2>1. p \in L \X M
    BY <1>3
  <2>2. PICK c \in 1 .. C : columns[c] = p[2]
    BY <1>1, <2>1
  <2>3. c \in J
    BY <2>2
  <2>4. at[c] \in m /\ at[c][2] = p[2]
    BY <1>4, <2>2, <2>3
  <2>5. at[c] = p
    BY <1>3, <2>4
  <2>6. QED
    BY <2>3, <2>5
<1>6. J \in SUBSET (1 .. C)
  OBVIOUS
<1> HIDE DEF J, at, rho
<1>7. Apart(at, J)
  BY <1>1, <1>4 DEF Apart
<1>8. Apart(rho, J)
  <2> SUFFICES ASSUME NEW c \in J, NEW d \in J, rho[c] = rho[d] PROVE c = d
    BY DEF Apart
  <2>1. at[c] \in m /\ at[d] \in m /\ at[c][1] = at[d][1]
    BY <1>4
  <2>2. at[c] = at[d]
    BY <1>3, <2>1
  <2>3. QED
    BY <1>7, <2>2 DEF Apart
<1>9. PICK g : /\ Permutes(R + C, g)
               /\ \A c \in J : g[c] = rho[c]
               /\ \A c \in (1 .. R + C) \ J : c > C \/ g[c] > R
  <2>1. \A c \in J : rho[c] \in 1 .. R
    BY <1>4
  <2>2. QED
    <3>1. R \in Nat /\ C \in Nat
      BY <1>1
    <3>2. QED
      BY <3>1, <1>6, <1>8, <2>1, MatchingExtends
<1>10. m = {at[c] : c \in J}
  BY <1>4, <1>5
<1>11. J \in SUBSET (1 .. N)
  <2>1. 1 .. C \subseteq 1 .. N
    BY <1>1
  <2>2. QED
    BY <1>6, <2>1
<1>12. \A c \in J : w[at[c]] \in Int /\ cost[c][g[c]] = -w[at[c]]
  <2> SUFFICES ASSUME NEW c \in J PROVE w[at[c]] \in Int /\ cost[c][g[c]] = -w[at[c]]
    OBVIOUS
  <2>1. /\ at[c] \in DOMAIN w /\ at[c] = <<rows[rho[c]], columns[c]>>
        /\ rho[c] \in 1 .. R /\ c \in 1 .. C /\ g[c] = rho[c]
    BY <1>3, <1>4, <1>9
  <2>2. rho[c] \in 1 .. N /\ c \in 1 .. N /\ rho[c] <= R /\ c <= C
    BY <1>1, <2>1
  <2>3. cost[c][rho[c]] = -w[<<rows[rho[c]], columns[c]>>]
    BY <1>2, <2>1, <2>2
  <2>4. QED
    BY <1>3, <2>1, <2>3
<1>13. \A c \in (1 .. N) \ J : cost[c][g[c]] = 0
  <2> SUFFICES ASSUME NEW c \in 1 .. N, c \notin J PROVE cost[c][g[c]] = 0
    OBVIOUS
  <2> DEFINE r == g[c]
  <2>1. r \in 1 .. N /\ (c > C \/ r > R)
    BY <1>9 DEF Permutes
  <2> HIDE DEF r
  <2>2. cost[c][r] = 0
    BY <1>2, <2>1
  <2>3. QED
    BY <2>2 DEF r
<1> HIDE DEF N
<1>14. Permutes(N, g)
  BY <1>9 DEF N
<1>15. Score(m, w) \in Int /\ Total(N, cost, g) = -Score(m, w)
  <2>1. \A c \in (1 .. N) \ J : cost[c][g[c]] >= 0
    BY <1>13
  <2>2. LET k == {at[c] : c \in J} IN
         /\ Score(k, w) \in Int /\ Total(N, cost, g) \in Int
         /\ Total(N, cost, g) >= -Score(k, w)
         /\ (\A c \in (1 .. N) \ J : cost[c][g[c]] = 0) => Total(N, cost, g) = -Score(k, w)
    <3>1. N \in Nat /\ cost \in Costs(N)
      BY <1>1, <1>2
    <3>2. Real(N, cost, g, w, at, J)
      BY <1>7, <1>11, <1>12, <2>1 DEF Real
    <3>3. QED
      BY <3>1, <3>2, <1>14, TotalParts
  <2>3. QED
    BY <1>10, <1>13, <2>2
<1>16. QED
  BY <1>14, <1>15 DEF N, cost, rows, columns, R, C

(* The pairs read off at the end, and what the assignment costs for them.   *)
LEMMA MatchedCost ==
  ASSUME NEW w, NEW L, NEW M, NEW threshold, Admissible(w, L, M, threshold),
         NEW s, Permutes(Cardinality(L) + Cardinality(M), s.match)
  PROVE  LET N == Cardinality(L) + Cardinality(M)
             cost == Cost(w, Sorted(L), Sorted(M), threshold)
             m == Matched(s, w, Sorted(L), Sorted(M), threshold)
         IN  /\ m \in Matchings(DOMAIN w) /\ Score(m, w) \in Int
             /\ Total(N, cost, s.match) \in Int /\ Total(N, cost, s.match) >= -Score(m, w)
<1> DEFINE rows == Sorted(L)  columns == Sorted(M)
           R == Cardinality(L)  C == Cardinality(M)  N == R + C
           cost == Cost(w, rows, columns, threshold)
           m == Matched(s, w, rows, columns, threshold)
<1>1. /\ R \in Nat /\ C \in Nat /\ N \in Nat /\ Len(rows) = R /\ Len(columns) = C
      /\ \A i, j \in 1 .. R : rows[i] = rows[j] => i = j
      /\ \A i, j \in 1 .. C : columns[i] = columns[j] => i = j
  BY SortedIs DEF Admissible
<1>2. /\ cost \in Costs(N)
      /\ \A c, r \in 1 .. N :
                  /\ r > R \/ c > C => cost[c][r] = 0
                  /\ r <= R /\ c <= C =>
                       cost[c][r] = IF <<rows[r], columns[c]>> \in DOMAIN w
                                    THEN -w[<<rows[r], columns[c]>>] ELSE Forbidden
  BY CostIs
<1>3. \A p \in DOMAIN w : w[p] \in Int /\ w[p] >= threshold
  BY WeightsFinite DEF Admissible
<1>4. Permutes(N, s.match)
  OBVIOUS
<1> HIDE DEF rows, columns, R, C, cost
<1> DEFINE K == {k \in 1 .. C : s.match[k] \in 1 .. R /\ <<rows[s.match[k]], columns[k]>> \in DOMAIN w}
           pair == [c \in K |-> <<rows[s.match[c]], columns[c]>>]
<1>5. m = {pair[c] : c \in K}
  <2>1. K = {k \in 1 .. C : /\ s.match[k] \in 1 .. R
                            /\ <<rows[s.match[k]], columns[k]>> \in {p \in DOMAIN w : w[p] >= threshold}}
    BY <1>3
  <2>2. m = {<<rows[s.match[c]], columns[c]>> : c \in K}
    <3> HIDE DEF K
    <3> QED
      BY <1>1, <2>1 DEF Matched
  <2>3. QED
    BY <2>2
<1>6. \A c \in K : /\ c \in 1 .. C /\ s.match[c] \in 1 .. R
                   /\ pair[c] = <<rows[s.match[c]], columns[c]>> /\ pair[c] \in DOMAIN w
                   /\ pair[c][1] = rows[s.match[c]] /\ pair[c][2] = columns[c]
  OBVIOUS
<1>7. \A c \in 1 .. C : c \notin K /\ s.match[c] \in 1 .. R => <<rows[s.match[c]], columns[c]>> \notin DOMAIN w
  OBVIOUS
<1>8. K \subseteq 1 .. N /\ 1 .. C \subseteq 1 .. N /\ 1 .. R \subseteq 1 .. N
  <2>1. 1 .. C \subseteq 1 .. N /\ 1 .. R \subseteq 1 .. N
    BY <1>1
  <2>2. QED
    BY <1>6, <2>1
<1> HIDE DEF K, pair
<1>9. ASSUME NEW c \in K, NEW d \in K, c # d
      PROVE  pair[c][1] # pair[d][1] /\ pair[c][2] # pair[d][2]
  <2>1. s.match[c] # s.match[d]
    BY <1>4, <1>8, <1>9 DEF Permutes
  <2>2. QED
    BY <1>1, <1>6, <1>9, <2>1
<1>10. m \in Matchings(DOMAIN w)
  <2>1. m \subseteq DOMAIN w
    BY <1>5, <1>6
  <2>2. \A p, q \in m : p # q => p[1] # q[1] /\ p[2] # q[2]
    BY <1>5, <1>9
  <2>3. QED
    BY <2>1, <2>2 DEF Matchings
<1>11. Apart(pair, K)
  BY <1>9 DEF Apart
<1>12. \A c \in K : w[pair[c]] \in Int /\ cost[c][s.match[c]] = -w[pair[c]]
  <2> SUFFICES ASSUME NEW c \in K PROVE cost[c][s.match[c]] = -w[pair[c]]
    BY <1>3, <1>6
  <2> DEFINE r == s.match[c]
  <2>1. c \in 1 .. C /\ r \in 1 .. R /\ pair[c] = <<rows[r], columns[c]>> /\ pair[c] \in DOMAIN w
    BY <1>6
  <2> HIDE DEF r
  <2>2. c \in 1 .. N /\ r \in 1 .. N /\ r <= R /\ c <= C
    BY <1>1, <1>8, <2>1
  <2>3. cost[c][r] = -w[pair[c]]
    BY <1>2, <2>1, <2>2
  <2>4. QED
    BY <2>3 DEF r
<1>13. \A c \in (1 .. N) \ K : cost[c][s.match[c]] >= 0
  <2> SUFFICES ASSUME NEW c \in 1 .. N, c \notin K PROVE cost[c][s.match[c]] >= 0
    OBVIOUS
  <2> DEFINE r == s.match[c]
  <2>1. r \in 1 .. N
    BY <1>4 DEF Permutes
  <2>2. CASE r > R \/ c > C
    <3> HIDE DEF r
    <3>1. cost[c][r] = 0
      BY <1>2, <2>1, <2>2
    <3>2. QED
      BY <3>1 DEF r
  <2>3. CASE ~(r > R \/ c > C)
    <3> HIDE DEF r
    <3>1. r \in 1 .. R /\ c \in 1 .. C /\ r <= R /\ c <= C
      BY <1>1, <2>1, <2>3
    <3>2. <<rows[r], columns[c]>> \notin DOMAIN w
      BY <1>7, <3>1 DEF r
    <3>3. cost[c][r] = Forbidden
      BY <1>2, <2>1, <3>1, <3>2
    <3>4. QED
      BY <3>3, CostsAssumption DEF r
  <2>4. QED
    BY <2>2, <2>3
<1> HIDE DEF N, m
<1>14. Real(N, cost, s.match, w, pair, K)
  BY <1>8, <1>11, <1>12, <1>13 DEF Real
<1>15. Score(m, w) \in Int /\ Total(N, cost, s.match) \in Int /\ Total(N, cost, s.match) >= -Score(m, w)
  BY <1>1, <1>2, <1>4, <1>5, <1>14, TotalParts
<1>16. QED
  BY <1>10, <1>15 DEF N, m, cost, rows, columns, R, C

(* What the method ends with is a heaviest matching.                        *)
LEMMA MatchedIsHeaviest ==
  ASSUME NEW w, NEW L, NEW M, NEW threshold, Admissible(w, L, M, threshold), NEW s,
         SearchInv(s, Cardinality(L) + Cardinality(M), Cost(w, Sorted(L), Sorted(M), threshold)),
         s.state = "ready", s.row = Cardinality(L) + Cardinality(M)
  PROVE  Matched(s, w, Sorted(L), Sorted(M), threshold) \in Heaviest(w)
<1> DEFINE N == Cardinality(L) + Cardinality(M)
           cost == Cost(w, Sorted(L), Sorted(M), threshold)
           m == Matched(s, w, Sorted(L), Sorted(M), threshold)
<1>1. N \in Nat /\ cost \in Costs(N)
  BY WeightsFinite, CostIs
<1>2. /\ Permutes(N, s.match)
      /\ \A g : Permutes(N, g) => Total(N, cost, s.match) <= Total(N, cost, g)
  <2> HIDE DEF N, cost
  <2>1. SearchInv(s, N, cost) /\ s.row = N
    BY DEF N, cost
  <2>2. QED
    BY <1>1, <2>1, Cheapest
<1>3. /\ m \in Matchings(DOMAIN w) /\ Score(m, w) \in Int
      /\ Total(N, cost, s.match) \in Int /\ Total(N, cost, s.match) >= -Score(m, w)
  BY <1>2, MatchedCost
<1>4. ASSUME NEW other \in Matchings(DOMAIN w)
      PROVE  Score(other, w) <= Score(m, w)
  <2>1. Score(other, w) \in Int /\ \E g : Permutes(N, g) /\ Total(N, cost, g) = -Score(other, w)
    BY MatchingCost
  <2> HIDE DEF N, cost, m
  <2>2. Total(N, cost, s.match) <= -Score(other, w)
    BY <1>2, <2>1
  <2>3. QED
    BY <1>3, <2>1, <2>2
<1>5. QED
  BY <1>3, <1>4 DEF Heaviest

-----------------------------------------------------------------------------
(* Components *)
(* A finite set of pairs has finitely many matchings, and a heaviest one.   *)
LEMMA MatchingsFinite ==
  ASSUME NEW D, IsFiniteSet(D)
  PROVE  /\ IsFiniteSet(Matchings(D)) /\ {} \in Matchings(D)
         /\ \A m \in Matchings(D) : m \subseteq D /\ IsFiniteSet(m)
<1>1. IsFiniteSet(SUBSET D)
  BY FS_SUBSET
<1>2. Matchings(D) \subseteq SUBSET D
  BY DEF Matchings
<1>3. QED
  BY <1>1, <1>2, FS_Subset DEF Matchings

LEMMA HeaviestExists ==
  ASSUME NEW w, IsFiniteSet(DOMAIN w), \A p \in DOMAIN w : w[p] \in Int
  PROVE  Heaviest(w) # {}
<1> DEFINE M == Matchings(DOMAIN w)
           f == [m \in M |-> Score(m, w)]
<1>1. IsFiniteSet(M) /\ M # {}
  BY MatchingsFinite
<1>2. \A m \in M : f[m] \in Int
  <2> SUFFICES ASSUME NEW m \in M PROVE Score(m, w) \in Int
    OBVIOUS
  <2>1. IsFiniteSet(m) /\ m \subseteq DOMAIN w
    BY MatchingsFinite
  <2>2. QED
    BY <2>1, ScoreInt
<1>3. \E m \in M : \A n \in M : f[n] <= f[m]
  <2> HIDE DEF f, M
  <2> QED
    BY <1>1, <1>2, Greatest
<1>4. QED
  BY <1>3 DEF Heaviest

(* The heaviest matchings of some of the pairs; Best is one of them.        *)
LEMMA HeaviestOfPart ==
  ASSUME NEW w, IsFiniteSet(DOMAIN w), \A p \in DOMAIN w : w[p] \in Int, NEW D \in SUBSET DOMAIN w
  PROVE  /\ Heaviest(Restrict(w, D)) # {}
         /\ \A m \in Heaviest(Restrict(w, D)) :
              m \in Matchings(D) /\ \A n \in Matchings(D) : Score(n, w) <= Score(m, w)
<1> DEFINE r == Restrict(w, D)
<1>1. DOMAIN r = D /\ IsFiniteSet(D) /\ \A p \in D : r[p] \in Int /\ r[p] = w[p]
  BY FS_Subset DEF Restrict
<1> HIDE DEF r
<1>2. Heaviest(r) # {}
  BY <1>1, HeaviestExists
<1>3. \A m \in Matchings(D) : Score(m, r) = Score(m, w)
  <2> SUFFICES ASSUME NEW m \in Matchings(D) PROVE Score(m, r) = Score(m, w)
    OBVIOUS
  <2>1. IsFiniteSet(m) /\ m \subseteq D
    BY <1>1, MatchingsFinite
  <2>2. QED
    BY <1>1, <2>1, ScoreSame
<1>4. \A m \in Heaviest(r) : m \in Matchings(D) /\ \A n \in Matchings(D) : Score(n, r) <= Score(m, r)
  BY <1>1 DEF Heaviest
<1>5. QED
  BY <1>2, <1>3, <1>4 DEF r

LEMMA BestIsHeaviest ==
  ASSUME NEW w, IsFiniteSet(DOMAIN w), \A p \in DOMAIN w : w[p] \in Int, NEW D \in SUBSET DOMAIN w
  PROVE  Best(w, D) \in Matchings(D) /\ \A n \in Matchings(D) : Score(n, w) <= Score(Best(w, D), w)
BY HeaviestOfPart DEF Best
-----------------------------------------------------------------------------
Touch(q, r) == q[1] = r[1] \/ q[2] = r[2]
Touched(pairs, S) == {q \in pairs : \E r \in S : Touch(q, r)}
Closed(pairs, S) == \A q \in S, r \in pairs : Touch(q, r) => r \in S

(* f gathers the pairs around p in n rounds.                                *)
Rounds(pairs, p, n, f) == f = [k \in 0 .. n |-> IF k = 0 THEN {p} ELSE Touched(pairs, f[k - 1])]

(* The rounds in which a component is collected.                            *)
LEMMA RoundsExist ==
  ASSUME NEW pairs, NEW p
  PROVE  \A n \in Nat : \E f : Rounds(pairs, p, n, f)
<1> DEFINE K == {n \in Nat : \E f : Rounds(pairs, p, n, f)}
<1>1. 0 \in K
  <2>1. Rounds(pairs, p, 0, [k \in 0 .. 0 |-> {p}])
    BY DEF Rounds
  <2>2. QED
    BY <2>1
<1>2. ASSUME NEW n \in Nat, n \in K
      PROVE  n + 1 \in K
  <2>1. PICK f : Rounds(pairs, p, n, f)
    BY <1>2
  <2> DEFINE g == [k \in 0 .. n + 1 |-> IF k <= n THEN f[k] ELSE Touched(pairs, f[n])]
  <2>2. ASSUME NEW k \in 0 .. n + 1
        PROVE  g[k] = IF k = 0 THEN {p} ELSE Touched(pairs, g[k - 1])
    <3>1. CASE k = 0
      BY <2>1, <3>1 DEF Rounds
    <3>2. CASE k # 0 /\ k <= n
      <4>1. k \in 0 .. n /\ k - 1 \in 0 .. n /\ k - 1 \in 0 .. n + 1 /\ k - 1 <= n
        BY <3>2
      <4>2. g[k] = f[k] /\ g[k - 1] = f[k - 1]
        BY <3>2, <4>1
      <4>3. f[k] = Touched(pairs, f[k - 1])
        BY <2>1, <3>2, <4>1 DEF Rounds
      <4>4. QED
        BY <3>2, <4>2, <4>3
    <3>3. CASE k = n + 1
      <4>1. k # 0 /\ ~(k <= n) /\ k - 1 = n /\ n \in 0 .. n + 1 /\ n <= n
        BY <3>3
      <4>2. g[k] = Touched(pairs, f[n]) /\ g[k - 1] = f[n]
        BY <4>1
      <4>3. QED
        BY <4>1, <4>2
    <3>4. QED
      BY <3>1, <3>2, <3>3
  <2>3. g = [k \in 0 .. n + 1 |-> g[k]]
    OBVIOUS
  <2> HIDE DEF g
  <2>4. Rounds(pairs, p, n + 1, g)
    BY <2>2, <2>3 DEF Rounds
  <2>5. QED
    BY <2>4
<1>3. \A n \in Nat : n \in K
  <2> HIDE DEF K
  <2> QED
    BY <1>1, <1>2, Upwards
<1>4. QED
  BY <1>3

(* The component of a pair is the smallest set of pairs closed under        *)
(* sharing an element: as many rounds as there are pairs reach all of it.   *)
LEMMA ComponentClosed ==
  ASSUME NEW pairs, IsFiniteSet(pairs), NEW p \in pairs
  PROVE  /\ p \in ComponentOf(pairs, p) /\ ComponentOf(pairs, p) \subseteq pairs
         /\ Closed(pairs, ComponentOf(pairs, p))
         /\ \A D \in SUBSET pairs : p \in D /\ Closed(pairs, D) => ComponentOf(pairs, p) \subseteq D
<1> DEFINE N == Cardinality(pairs)
<1>1. N \in Nat
  BY FS_CardinalityType
<1>2. ComponentOf(pairs, p) = (CHOOSE f : Rounds(pairs, p, N, f))[N]
  BY DEF ComponentOf, Rounds, Touched, Touch
<1>3. \E f : Rounds(pairs, p, N, f)
  BY <1>1, RoundsExist
<1>4. PICK f : Rounds(pairs, p, N, f) /\ ComponentOf(pairs, p) = f[N]
  BY <1>2, <1>3
<1> HIDE DEF N
<1>5. f[0] = {p} /\ \A k \in Nat : k + 1 \in 0 .. N => f[k + 1] = Touched(pairs, f[k])
  <2>1. \A k \in 0 .. N : f[k] = IF k = 0 THEN {p} ELSE Touched(pairs, f[k - 1])
    BY <1>4 DEF Rounds
  <2>2. ASSUME NEW k \in Nat, k + 1 \in 0 .. N
        PROVE  f[k + 1] = Touched(pairs, f[k])
    <3>1. k + 1 # 0 /\ (k + 1) - 1 = k
      OBVIOUS
    <3>2. QED
      BY <2>1, <2>2, <3>1
  <2>3. 0 \in 0 .. N
    BY <1>1
  <2>4. QED
    BY <2>1, <2>2, <2>3
<1>6. \A D \in SUBSET pairs : p \in D /\ Closed(pairs, D) => f[N] \subseteq D
  <2> SUFFICES ASSUME NEW D \in SUBSET pairs, p \in D, Closed(pairs, D) PROVE f[N] \subseteq D
    OBVIOUS
  <2> DEFINE K == {k \in Nat : k \in 0 .. N => f[k] \subseteq D}
  <2>1. 0 \in K
    BY <1>5
  <2>2. \A k \in Nat : k \in K => k + 1 \in K
    <3> SUFFICES ASSUME NEW k \in Nat, k \in K, k + 1 \in 0 .. N PROVE f[k + 1] \subseteq D
      OBVIOUS
    <3>1. f[k] \subseteq D
      BY <1>1
    <3>2. QED
      BY <1>5, <3>1 DEF Touched, Touch, Closed
  <2>3. \A k \in Nat : k \in K
    <3> HIDE DEF K
    <3> QED
      BY <2>1, <2>2, Upwards
  <2>4. QED
    BY <1>1, <2>3
<1> DEFINE L == {k \in Nat : k \in 0 .. N =>
                   /\ p \in f[k] /\ f[k] \subseteq pairs
                   /\ Closed(pairs, f[k]) \/ Cardinality(f[k]) >= k + 1}
<1>7. 0 \in L
  <2>1. Cardinality(f[0]) = 1 /\ p \in f[0] /\ f[0] \subseteq pairs
    BY <1>5, FS_Singleton
  <2>2. QED
    BY <2>1
<1>8. \A k \in Nat : k \in L => k + 1 \in L
  <2> SUFFICES ASSUME NEW k \in Nat, k \in L, k + 1 \in 0 .. N
               PROVE  k + 1 \in L
    OBVIOUS
  <2>1. /\ p \in f[k] /\ f[k] \subseteq pairs
        /\ Closed(pairs, f[k]) \/ Cardinality(f[k]) >= k + 1
    BY <1>1
  <2>2. f[k + 1] = Touched(pairs, f[k])
    BY <1>5
  <2>3. f[k] \subseteq f[k + 1] /\ f[k + 1] \subseteq pairs
    BY <2>1, <2>2 DEF Touched, Touch
  <2>4. CASE Closed(pairs, f[k])
    <3>1. f[k + 1] = f[k]
      BY <2>1, <2>2, <2>3, <2>4 DEF Touched, Touch, Closed
    <3>2. QED
      BY <2>1, <2>4, <3>1
  <2>5. CASE ~Closed(pairs, f[k])
    <3>1. f[k] # f[k + 1]
      BY <2>1, <2>2, <2>5 DEF Touched, Touch, Closed
    <3>2. IsFiniteSet(f[k + 1]) /\ IsFiniteSet(f[k])
      BY <2>1, <2>3, FS_Subset
    <3>3. Cardinality(f[k]) \in Nat /\ Cardinality(f[k + 1]) \in Nat
      BY <3>2, FS_CardinalityType
    <3>4. Cardinality(f[k]) <= Cardinality(f[k + 1]) /\ Cardinality(f[k]) # Cardinality(f[k + 1])
      BY <2>3, <3>1, <3>2, FS_Subset
    <3>5. Cardinality(f[k + 1]) >= (k + 1) + 1
      BY <2>1, <2>5, <3>3, <3>4
    <3>6. QED
      BY <2>1, <2>3, <3>5
  <2>6. QED
    BY <2>4, <2>5
<1>9. \A k \in Nat : k \in L
  <2> HIDE DEF L
  <2> QED
    BY <1>7, <1>8, Upwards
<1>10. /\ p \in f[N] /\ f[N] \subseteq pairs
       /\ Closed(pairs, f[N]) \/ Cardinality(f[N]) >= N + 1
  BY <1>1, <1>9
<1>11. Cardinality(f[N]) <= N /\ Cardinality(f[N]) \in Nat
  BY <1>10, FS_Subset, FS_CardinalityType DEF N
<1>12. Closed(pairs, f[N])
  BY <1>1, <1>10, <1>11
<1>13. QED
  BY <1>4, <1>6, <1>10, <1>12

(* Two components are equal or have nothing in common.                      *)
LEMMA ComponentsApart ==
  ASSUME NEW pairs, IsFiniteSet(pairs), NEW p \in pairs, NEW q \in ComponentOf(pairs, p)
  PROVE  ComponentOf(pairs, q) = ComponentOf(pairs, p)
<1>1. q \in pairs
  BY ComponentClosed
<1>2. ComponentOf(pairs, q) \subseteq ComponentOf(pairs, p)
  BY <1>1, ComponentClosed
<1>3. p \in ComponentOf(pairs, q)
  <2> SUFFICES ASSUME p \notin ComponentOf(pairs, q) PROVE FALSE
    OBVIOUS
  <2> DEFINE D == pairs \ ComponentOf(pairs, q)
  <2>1. Closed(pairs, ComponentOf(pairs, q))
    BY <1>1, ComponentClosed
  <2>2. Closed(pairs, D)
    BY <2>1 DEF Closed, Touch
  <2>3. ComponentOf(pairs, p) \subseteq D
    BY <2>2, ComponentClosed
  <2>4. q \in ComponentOf(pairs, q)
    BY <1>1, ComponentClosed
  <2>5. QED
    BY <2>3, <2>4
<1>4. QED
  BY <1>1, <1>2, <1>3, ComponentClosed
-----------------------------------------------------------------------------
(* What of a matching lies inside a component and what outside can be       *)
(* exchanged apart from each other.                                         *)
LEMMA MatchingParts ==
  ASSUME NEW D, NEW C \in SUBSET D, Closed(D, C), NEW m \in Matchings(D), NEW n \in Matchings(C)
  PROVE  /\ m \cap C \in Matchings(C)
         /\ n \cup (m \ C) \in Matchings(D)
         /\ n \in Matchings(D)
<1>1. \A p, q \in m : p # q => p[1] # q[1] /\ p[2] # q[2]
  BY DEF Matchings
<1>2. \A p, q \in n : p # q => p[1] # q[1] /\ p[2] # q[2]
  BY DEF Matchings
<1>3. m \subseteq D /\ n \subseteq C
  BY DEF Matchings
<1>4. \A p \in n, q \in m \ C : p[1] # q[1] /\ p[2] # q[2] /\ q[1] # p[1] /\ q[2] # p[2]
  BY <1>3 DEF Closed, Touch
<1>5. QED
  BY <1>1, <1>2, <1>3, <1>4 DEF Matchings

(* A matching weighs what its part in a component and the rest of it weigh. *)
LEMMA ScoreParts ==
  ASSUME NEW w, IsFiniteSet(DOMAIN w), \A p \in DOMAIN w : w[p] \in Int,
         NEW C \in SUBSET DOMAIN w, Closed(DOMAIN w, C),
         NEW m \in Matchings(DOMAIN w), NEW n \in Matchings(C)
  PROVE  /\ Score(n \cup (m \ C), w) = Score(n, w) + Score(m \ C, w)
         /\ Score(m, w) = Score(m \cap C, w) + Score(m \ C, w)
         /\ Score(m, w) \in Int /\ Score(n, w) \in Int
         /\ Score(m \cap C, w) \in Int /\ Score(m \ C, w) \in Int
<1>1. IsFiniteSet(m) /\ m \subseteq DOMAIN w
  BY MatchingsFinite
<1>2. n \subseteq C /\ IsFiniteSet(n)
  BY FS_Subset DEF Matchings
<1>3. IsFiniteSet(m \cap C) /\ IsFiniteSet(m \ C)
  BY <1>1, FS_Subset
<1>4. Score(n \cup (m \ C), w) = Score(n, w) + Score(m \ C, w)
  BY <1>1, <1>2, <1>3, ScoreUnion
<1>5. Score((m \cap C) \cup (m \ C), w) = Score(m \cap C, w) + Score(m \ C, w)
  BY <1>1, <1>3, ScoreUnion
<1>6. (m \cap C) \cup (m \ C) = m
  OBVIOUS
<1>7. Score((m \cap C) \cup (m \ C), w) = Score(m, w)
  BY <1>6, Zenon
<1>8. /\ Score(m, w) \in Int /\ Score(n, w) \in Int
      /\ Score(m \cap C, w) \in Int /\ Score(m \ C, w) \in Int
  BY <1>1, <1>2, <1>3, ScoreInt
<1>9. QED
  BY <1>4, <1>5, <1>7, <1>8

(* What is chosen is what every heaviest matching holds, in small components.*)
LEMMA ChosenIsIndispensable ==
  ASSUME NEW w, IsFiniteSet(DOMAIN w), \A p \in DOMAIN w : w[p] \in Int
  PROVE  Chosen(w) = {p \in DOMAIN w : /\ ~Oversized(ComponentOf(DOMAIN w, p))
                                       /\ \A m \in Heaviest(w) : p \in m}
<1> DEFINE D == DOMAIN w
           Of(p) == ComponentOf(D, p)
<1>1. \A p \in D : p \in Of(p) /\ Of(p) \in SUBSET D /\ Closed(D, Of(p))
  BY ComponentClosed
<1>2. \A p \in D : \A q \in Of(p) : Of(q) = Of(p)
  BY ComponentsApart
<1>3. \A p \in D : Best(w, Of(p)) \in Matchings(Of(p))
                   /\ \A n \in Matchings(Of(p)) : Score(n, w) <= Score(Best(w, Of(p)), w)
  BY <1>1, BestIsHeaviest
<1>4. \A p \in D : Best(w, Of(p) \ {p}) \in Matchings(Of(p) \ {p})
                   /\ \A n \in Matchings(Of(p) \ {p}) : Score(n, w) <= Score(Best(w, Of(p) \ {p}), w)
  BY <1>1, BestIsHeaviest
<1>5. \A p \in D : \A n \in Matchings(Of(p) \ {p}) : n \in Matchings(Of(p)) /\ p \notin n
  BY DEF Matchings
<1>6. ASSUME NEW p
      PROVE  p \in Chosen(w) <=> /\ p \in D /\ ~Oversized(Of(p)) /\ p \in Best(w, Of(p))
                                 /\ Indispensable(w, Of(p), p)
  <2>1. ASSUME p \in Chosen(w)
        PROVE  /\ p \in D /\ ~Oversized(Of(p)) /\ p \in Best(w, Of(p))
               /\ Indispensable(w, Of(p), p)
    <3>1. PICK q \in D : ~Oversized(Of(q)) /\ p \in Best(w, Of(q)) /\ Indispensable(w, Of(q), p)
      BY <2>1 DEF Chosen, Components
    <3>2. p \in Of(q)
      BY <1>3, <3>1 DEF Matchings
    <3>3. Of(p) = Of(q) /\ p \in D
      BY <1>1, <1>2, <3>2
    <3>4. QED
      BY <3>1, <3>3
  <2>2. ASSUME p \in D, ~Oversized(Of(p)), p \in Best(w, Of(p)), Indispensable(w, Of(p), p)
        PROVE  p \in Chosen(w)
    BY <2>2 DEF Chosen, Components
  <2>3. QED
    BY <2>1, <2>2
<1> DEFINE Heavy(m) == m \in Matchings(D) /\ \A n \in Matchings(D) : Score(n, w) <= Score(m, w)
<1>7. \A m : m \in Heaviest(w) <=> Heavy(m)
  BY DEF Heaviest
<1>8. ASSUME NEW p \in D, NEW m, Heavy(m)
      PROVE  /\ Score(m \cap Of(p), w) = Score(Best(w, Of(p)), w)
             /\ m \cap Of(p) \in Matchings(Of(p))
             /\ \A n \in Matchings(Of(p)) :
                  Score(n, w) = Score(Best(w, Of(p)), w) => Heavy(n \cup (m \ Of(p)))
  <2> DEFINE b == Best(w, Of(p))
  <2>1. b \in Matchings(Of(p)) /\ \A n \in Matchings(Of(p)) : Score(n, w) <= Score(b, w)
    BY <1>3
  <2>2. \A n \in Matchings(Of(p)) : n \cup (m \ Of(p)) \in Matchings(D) /\ m \cap Of(p) \in Matchings(Of(p))
    BY <1>1, <1>8, MatchingParts
  <2>3. \A n \in Matchings(Of(p)) :
          /\ Score(n \cup (m \ Of(p)), w) = Score(n, w) + Score(m \ Of(p), w)
          /\ Score(m, w) = Score(m \cap Of(p), w) + Score(m \ Of(p), w)
          /\ Score(m, w) \in Int /\ Score(n, w) \in Int
          /\ Score(m \cap Of(p), w) \in Int /\ Score(m \ Of(p), w) \in Int
    BY <1>1, <1>8, ScoreParts
  <2> HIDE DEF b, D, Of
  <2>4. \A n \in Matchings(D) : Score(n, w) <= Score(m, w)
    BY <1>8
  <2>5. Score(b \cup (m \ Of(p)), w) <= Score(m, w)
    BY <2>1, <2>2, <2>4
  <2>6. Score(m \cap Of(p), w) = Score(b, w)
    <3>1. m \cap Of(p) \in Matchings(Of(p))
      BY <2>1, <2>2
    <3>2. Score(m \cap Of(p), w) <= Score(b, w)
      BY <2>1, <3>1
    <3>3. /\ Score(b \cup (m \ Of(p)), w) = Score(b, w) + Score(m \ Of(p), w)
          /\ Score(m, w) = Score(m \cap Of(p), w) + Score(m \ Of(p), w)
          /\ Score(b, w) \in Int
          /\ Score(m \cap Of(p), w) \in Int /\ Score(m \ Of(p), w) \in Int
      BY <2>1, <2>3
    <3>4. QED
      BY ONLY <2>5, <3>2, <3>3
  <2>7. \A n \in Matchings(Of(p)) : Score(n, w) = Score(b, w) => Score(n \cup (m \ Of(p)), w) = Score(m, w)
    BY <2>3, <2>6
  <2>8. QED
    BY <2>1, <2>2, <2>4, <2>6, <2>7 DEF b
<1>9. \E m : Heavy(m)
  BY <1>7, HeaviestExists
<1>10. ASSUME NEW p \in D, p \in Best(w, Of(p)), Indispensable(w, Of(p), p), NEW m, Heavy(m), p \notin m
       PROVE  FALSE
  <2>1. m \cap Of(p) \in Matchings(Of(p) \ {p})
    BY <1>8, <1>10 DEF Matchings
  <2>2. Score(Best(w, Of(p)), w) <= Score(Best(w, Of(p) \ {p}), w)
    BY <1>4, <1>8, <1>10, <2>1
  <2>3. Score(Best(w, Of(p) \ {p}), w) <= Score(Best(w, Of(p)), w)
    <3>1. Best(w, Of(p) \ {p}) \in Matchings(Of(p))
      BY <1>4, <1>5
    <3>2. QED
      BY <1>3, <3>1
  <2>4. Score(Best(w, Of(p)), w) \in Int /\ Score(Best(w, Of(p) \ {p}), w) \in Int
    <3>1. \A n \in Matchings(Of(p)) : Score(n, w) \in Int
      BY <1>1, <1>10, ScoreParts
    <3>2. QED
      BY <1>3, <1>4, <1>5, <3>1
  <2>5. QED
    BY <1>10, <2>2, <2>3, <2>4 DEF Indispensable
<1>11. ASSUME NEW p \in D, \A m : Heavy(m) => p \in m
       PROVE  p \in Best(w, Of(p)) /\ Indispensable(w, Of(p), p)
  <2>1. PICK m : Heavy(m)
    BY <1>9
  <2>2. Heavy(Best(w, Of(p)) \cup (m \ Of(p)))
    BY <1>3, <1>8, <2>1
  <2>3. p \in Best(w, Of(p))
    BY <1>1, <1>11, <2>2
  <2>4. ASSUME Score(Best(w, Of(p) \ {p}), w) = Score(Best(w, Of(p)), w)
        PROVE  FALSE
    <3>1. Heavy(Best(w, Of(p) \ {p}) \cup (m \ Of(p)))
      BY <1>4, <1>5, <1>8, <2>1, <2>4
    <3>2. p \notin Best(w, Of(p) \ {p}) \cup (m \ Of(p))
      BY <1>1, <1>4, <1>5
    <3>3. QED
      BY <1>11, <3>1, <3>2
  <2>5. QED
    BY <2>3, <2>4 DEF Indispensable
<1>12. \A p : p \in Chosen(w) <=> p \in D /\ ~Oversized(Of(p)) /\ \A m \in Heaviest(w) : p \in m
  <2> HIDE DEF Heavy, D, Of
  <2> QED
    BY <1>6, <1>7, <1>10, <1>11
<1>13. QED
  BY <1>12

(* What is chosen is one-to-one.                                            *)
LEMMA ChosenIsMatching ==
  ASSUME NEW w, IsFiniteSet(DOMAIN w), \A p \in DOMAIN w : w[p] \in Int
  PROVE  Chosen(w) \in Matchings(DOMAIN w)
<1>1. PICK m : m \in Heaviest(w)
  BY HeaviestExists
<1>2. m \in Matchings(DOMAIN w) /\ Chosen(w) \subseteq m
  BY <1>1, ChosenIsIndispensable DEF Heaviest
<1>3. QED
  BY <1>2 DEF Matchings

-----------------------------------------------------------------------------
(* Finite sets and matchings *)
(* What a function makes of a finite set is finite.                         *)
LEMMA ImageFinite ==
  ASSUME NEW S, IsFiniteSet(S), NEW f, NEW T, T = {f[x] : x \in S}
  PROVE  IsFiniteSet(T) /\ Cardinality(T) <= Cardinality(S)
<1> DEFINE g == [x \in S |-> f[x]]
<1>1. g \in Surjection(S, T)
  BY DEF Surjection
<1>2. QED
  BY <1>1, FS_Surjection

(* A set as large as a part of it is that part.                             *)
LEMMA SameSize ==
  ASSUME NEW S, NEW T \in SUBSET S, IsFiniteSet(S), Cardinality(T) = Cardinality(S)
  PROVE  T = S
BY FS_Subset

(* A finite union of finite sets is finite.                                 *)
LEMMA UnionOfFamily ==
  ASSUME NEW A, IsFiniteSet(A), NEW f, \A x \in A : IsFiniteSet(f[x])
  PROVE  IsFiniteSet(UNION {f[x] : x \in A})
<1> DEFINE T == {f[x] : x \in A}
<1>1. IsFiniteSet(T)
  BY ImageFinite
<1>2. QED
  BY <1>1, FS_UNION

Between(D, A, B) == D \subseteq A \X B

(* A matching is as large as either side of it.                             *)
LEMMA SidesOfMatching ==
  ASSUME NEW D, IsFiniteSet(D), NEW A, NEW B, Between(D, A, B), NEW m \in Matchings(D)
  PROVE  /\ IsFiniteSet(m) /\ Lefts(m) \subseteq A /\ Rights(m) \subseteq B
         /\ IsFiniteSet(Lefts(m)) /\ IsFiniteSet(Rights(m))
         /\ Cardinality(Lefts(m)) = Cardinality(m) /\ Cardinality(Rights(m)) = Cardinality(m)
         /\ \A p \in m : p = <<p[1], p[2]>> /\ p[1] \in A /\ p[2] \in B
         /\ \A p, q \in m : p[1] = q[1] <=> p[2] = q[2]
<1> DEFINE f == [p \in m |-> p[1]]  g == [p \in m |-> p[2]]
<1>1. m \subseteq D /\ IsFiniteSet(m)
  BY MatchingsFinite
<1>2. \A p \in m : p = <<p[1], p[2]>> /\ p[1] \in A /\ p[2] \in B
  BY <1>1 DEF Between
<1>3. \A p, q \in m : p # q => p[1] # q[1] /\ p[2] # q[2]
  BY DEF Matchings
<1>4. f \in Surjection(m, Lefts(m)) /\ f \in Injection(m, Lefts(m))
  BY <1>3 DEF Surjection, Injection, IsInjective, Lefts
<1>5. g \in Surjection(m, Rights(m)) /\ g \in Injection(m, Rights(m))
  BY <1>3 DEF Surjection, Injection, IsInjective, Rights
<1>6. IsFiniteSet(Lefts(m)) /\ Cardinality(Lefts(m)) = Cardinality(m)
  BY <1>1, <1>4, FS_Surjection
<1>7. IsFiniteSet(Rights(m)) /\ Cardinality(Rights(m)) = Cardinality(m)
  BY <1>1, <1>5, FS_Surjection
<1>8. Lefts(m) \subseteq A /\ Rights(m) \subseteq B
  BY <1>2 DEF Lefts, Rights
<1>9. \A p, q \in m : p[1] = q[1] <=> p[2] = q[2]
  BY <1>3
<1>10. QED
  BY <1>1, <1>2, <1>6, <1>7, <1>8, <1>9

(* One to one when as large as both sides.                                  *)
LEMMA AsLargeAsBoth ==
  ASSUME NEW D, IsFiniteSet(D), NEW A, NEW B, Between(D, A, B), NEW m \in Matchings(D),
         IsFiniteSet(A), IsFiniteSet(B),
         Cardinality(m) = Cardinality(A), Cardinality(Rights(m)) = Cardinality(B)
  PROVE  OneToOne(m, A, B)
<1>1. /\ IsFiniteSet(m) /\ Lefts(m) \subseteq A /\ Rights(m) \subseteq B
      /\ IsFiniteSet(Lefts(m)) /\ IsFiniteSet(Rights(m))
      /\ Cardinality(Lefts(m)) = Cardinality(m) /\ Cardinality(Rights(m)) = Cardinality(m)
      /\ \A p \in m : p = <<p[1], p[2]>> /\ p[1] \in A /\ p[2] \in B
      /\ \A p, q \in m : p[1] = q[1] <=> p[2] = q[2]
  BY SidesOfMatching
<1>2. Lefts(m) = A
  <2>1. Lefts(m) \in SUBSET A /\ Cardinality(Lefts(m)) = Cardinality(A)
    BY <1>1
  <2>2. QED
    BY <2>1, SameSize
<1>3. Rights(m) = B
  <2>1. Rights(m) \in SUBSET B /\ Cardinality(Rights(m)) = Cardinality(B)
    BY <1>1
  <2>2. QED
    BY <2>1, SameSize
<1>4. QED
  BY <1>1, <1>2, <1>3 DEF OneToOne

(* Precision times recall is one only if both are.                          *)
LEMMA ShareIsFull ==
  ASSUME NEW h \in Nat, NEW a \in Nat, NEW b \in Nat, h <= a, h <= b, a # 0, b # 0
  PROVE  /\ (h * h * 4) \div (a * b) \in 0 .. 4
         /\ (h * h * 4) \div (a * b) = 4 => h = a /\ h = b
<1> DEFINE x == h * h * 4  y == a * b
<1>1. x \in Nat /\ y \in Nat /\ y > 0
  OBVIOUS
<1>2. h * h <= y
  OBVIOUS
<1>3. x <= 4 * y
  BY <1>2
<1>4. h < a \/ h < b => h * h < y
  OBVIOUS
<1>5. ASSUME NEW q, q = x \div y
      PROVE  q \in 0 .. 4 /\ (q = 4 => x = 4 * y)
  <2> HIDE DEF x, y
  <2>1. q \in Int /\ y * q <= x /\ x < y * (q + 1)
    BY <1>1, <1>5
  <2>2. q >= 0
    BY <1>1, <2>1
  <2>3. q <= 4
    BY <1>1, <1>3, <2>1
  <2>4. QED
    BY <1>1, <1>3, <2>1, <2>2, <2>3
<1>6. x = 4 * y => h = a /\ h = b
  BY <1>2, <1>4
<1>7. QED
  BY <1>5, <1>6

-----------------------------------------------------------------------------
(* What is compared *)
(* The graphs compared are finite.                                          *)
LEMMA GraphsFinite ==
  ASSUME input \in Inputs
  PROVE  /\ IsFiniteSet(DOMAIN agent.nodes) /\ IsFiniteSet(DOMAIN agent.edges)
         /\ IsFiniteSet(truth.nodes) /\ IsFiniteSet(DOMAIN truth.edges)
         /\ IsFiniteSet(truth.ends) /\ IsFiniteSet(Slots)
<1>1. /\ IsFiniteSet(DOMAIN input.agent.nodes) /\ IsFiniteSet(DOMAIN input.agent.edges)
      /\ IsFiniteSet(input.truth.nodes) /\ IsFiniteSet(DOMAIN input.truth.edges)
  BY InputsAssumption
<1>2. IsFiniteSet(truth.nodes)
  BY <1>1, FS_Subset DEF truth, BusinessNodes
<1>3. IsFiniteSet(DOMAIN truth.edges)
  <2>1. DOMAIN truth.edges = BusinessEdges(input.truth)
    BY DEF truth, Restrict
  <2>2. BusinessEdges(input.truth) \in SUBSET DOMAIN input.truth.edges
    BY DEF BusinessEdges
  <2>3. QED
    BY <1>1, <2>1, <2>2, FS_Subset
<1>4. IsFiniteSet(truth.ends)
  <2> DEFINE S == Incoming(input.truth.edges, Sink)
             f == [e \in S |-> input.truth.edges[e].from]
  <2>1. S \in SUBSET DOMAIN input.truth.edges
    BY DEF Incoming
  <2>2. IsFiniteSet(S)
    BY <1>1, <2>1, FS_Subset
  <2>3. truth.ends = {f[e] : e \in S}
    BY DEF truth
  <2> HIDE DEF f, S
  <2>4. QED
    BY <2>2, <2>3, ImageFinite
<1>5. IsFiniteSet(Slots)
  <2> DEFINE all == {"activity", "actor", "system", "reads", "writes", "rationale"}
  <2>1. IsFiniteSet(all)
    <3>1. IsFiniteSet({"activity"}) /\ IsFiniteSet({"actor"}) /\ IsFiniteSet({"system"})
          /\ IsFiniteSet({"reads"}) /\ IsFiniteSet({"writes"}) /\ IsFiniteSet({"rationale"})
      BY FS_Singleton
    <3>2. IsFiniteSet({"activity"} \cup {"actor"} \cup {"system"})
      BY <3>1, FS_Union
    <3>3. IsFiniteSet({"reads"} \cup {"writes"} \cup {"rationale"})
      BY <3>1, FS_Union
    <3> DEFINE left  == {"activity"} \cup {"actor"} \cup {"system"}
               right == {"reads"} \cup {"writes"} \cup {"rationale"}
    <3>4. all = left \cup right
      OBVIOUS
    <3>5. IsFiniteSet(left) /\ IsFiniteSet(right)
      BY <3>2, <3>3
    <3> HIDE DEF left, right, all
    <3>6. QED
      BY <3>4, <3>5, FS_Union
  <2>2. Slots \in SUBSET all
    BY PropertiesAssumption
  <2>3. QED
    BY <2>1, <2>2, FS_Subset
<1>6. QED
  BY <1>1, <1>2, <1>3, <1>4, <1>5 DEF agent

(* What the slots and conditions of the two graphs hold.                    *)
LEMMA AgentSlots ==
  ASSUME input \in Inputs
  PROVE  /\ \A n \in DOMAIN agent.nodes, p \in Slots :
              /\ IsFiniteSet(DOMAIN RefsOf(agent.nodes[n][p]))
              /\ p \in ListSlots \/ Single(agent.nodes[n][p])
         /\ \A e \in DOMAIN agent.edges : Single(agent.edges[e].condition)
BY InputsAssumption DEF agent

LEMMA TrueSlots ==
  ASSUME input \in Inputs
  PROVE  \A n \in truth.nodes, p \in Slots :
           /\ truth.slots[n][p] \in Seq(Range(truth.slots[n][p]))
           /\ p \in ListSlots \/ Len(truth.slots[n][p]) <= 1
BY InputsAssumption DEF truth

(* A true condition is one concept or none.                                 *)
LEMMA TrueConditions ==
  \A e : ConditionOf(e) \in Seq(Range(ConditionOf(e))) /\ Len(ConditionOf(e)) <= 1
<1> SUFFICES ASSUME NEW e
             PROVE  ConditionOf(e) \in Seq(Range(ConditionOf(e))) /\ Len(ConditionOf(e)) <= 1
  OBVIOUS
<1>1. CASE truth.edges[e].condition = NoCondition
  <2>1. ConditionOf(e) = <<>>
    BY <1>1 DEF ConditionOf
  <2>2. QED
    BY <2>1
<1>2. CASE truth.edges[e].condition # NoCondition
  <2> DEFINE c == truth.edges[e].condition
  <2>1. ConditionOf(e) = <<c>>
    BY <1>2 DEF ConditionOf
  <2> HIDE DEF c
  <2>2. c \in Range(<<c>>)
    BY DEF Range
  <2>3. <<c>> \in Seq(Range(<<c>>)) /\ Len(<<c>>) = 1
    BY <2>2
  <2>4. QED
    BY <2>1, <2>3
<1>3. QED
  BY <1>1, <1>2

(* What a sequence holds, a slot names and a single slot refers to is finite.*)
LEMMA SequenceFinite ==
  ASSUME NEW s, s \in Seq(Range(s))
  PROVE  IsFiniteSet(Range(s))
<1>1. DOMAIN s = 1 .. Len(s) /\ Len(s) \in Nat
  OBVIOUS
<1>2. IsFiniteSet(DOMAIN s)
  BY <1>1, FS_Interval
<1>3. QED
  BY <1>2, ImageFinite DEF Range

LEMMA ConceptsFinite ==
  ASSUME NEW slot, IsFiniteSet(DOMAIN RefsOf(slot))
  PROVE  IsFiniteSet(ConceptsOf(slot))
<1> DEFINE R == Range(RefsOf(slot))  f == [r \in R |-> r.concept]
<1>1. IsFiniteSet(R)
  BY ImageFinite DEF Range
<1>2. ConceptsOf(slot) = {f[r] : r \in R}
  BY DEF ConceptsOf
<1> HIDE DEF R, f
<1>3. QED
  BY <1>1, <1>2, ImageFinite

LEMMA SingleFinite ==
  ASSUME NEW slot, Single(slot)
  PROVE  IsFiniteSet(DOMAIN RefsOf(slot))
<1>1. CASE slot.state = "value"
  BY <1>1, FS_Singleton DEF Single, RefsOf
<1>2. CASE slot.state # "value"
  BY <1>2, FS_EmptySet DEF RefsOf
<1>3. QED
  BY <1>1, <1>2

(* Finitely many concepts are attempted and expected.                       *)
LEMMA ConceptSetsFinite ==
  ASSUME input \in Inputs
  PROVE  IsFiniteSet(Attempted) /\ IsFiniteSet(Expected)
<1>1. IsFiniteSet(UNION {ConceptsOf(agent.nodes[n][p]) : n \in DOMAIN agent.nodes, p \in Slots})
  <2> DEFINE A == DOMAIN agent.nodes
             row == [n \in A |-> UNION {ConceptsOf(agent.nodes[n][p]) : p \in Slots}]
  <2>1. ASSUME NEW n \in A
        PROVE  IsFiniteSet(row[n])
    <3> DEFINE f == [p \in Slots |-> ConceptsOf(agent.nodes[n][p])]
    <3>1. \A p \in Slots : IsFiniteSet(f[p])
      BY AgentSlots, ConceptsFinite
    <3>2. {ConceptsOf(agent.nodes[n][p]) : p \in Slots} = {f[p] : p \in Slots}
      OBVIOUS
    <3>3. row[n] = UNION {f[p] : p \in Slots}
      BY <3>2
    <3> HIDE DEF f, row
    <3>4. QED
      BY <3>1, <3>3, UnionOfFamily, GraphsFinite
  <2> DEFINE U == UNION {ConceptsOf(agent.nodes[n][p]) : n \in DOMAIN agent.nodes, p \in Slots}
  <2>2. U = UNION {row[n] : n \in A}
    <3>1. ASSUME NEW x \in U
          PROVE  x \in UNION {row[n] : n \in A}
      <4>1. PICK S \in {ConceptsOf(agent.nodes[n][p]) : n \in DOMAIN agent.nodes, p \in Slots} : x \in S
        BY <3>1
      <4>2. PICK n \in A, p \in Slots : S = ConceptsOf(agent.nodes[n][p])
        BY <4>1
      <4>3. QED
        BY <4>1, <4>2
    <3>2. ASSUME NEW n \in A, NEW x \in row[n]
          PROVE  x \in U
      <4>1. PICK p \in Slots : x \in ConceptsOf(agent.nodes[n][p])
        BY <3>2
      <4>2. ConceptsOf(agent.nodes[n][p]) \in {ConceptsOf(agent.nodes[k][q]) : k \in DOMAIN agent.nodes, q \in Slots}
        OBVIOUS
      <4>3. QED
        BY <4>1, <4>2
    <3> HIDE DEF U, row, A
    <3>3. QED
      BY <3>1, <3>2
  <2>3. IsFiniteSet(A)
    BY GraphsFinite
  <2>4. IsFiniteSet(UNION {row[n] : n \in A})
    <3> HIDE DEF row, A
    <3>1. QED
      BY <2>1, <2>3, UnionOfFamily
  <2> HIDE DEF U, row, A
  <2>5. IsFiniteSet(U)
    BY <2>2, <2>4
  <2>6. QED
    BY <2>5 DEF U
<1>2. IsFiniteSet(UNION {ConceptsOf(agent.edges[e].condition) : e \in DOMAIN agent.edges})
  <2> DEFINE f == [e \in DOMAIN agent.edges |-> ConceptsOf(agent.edges[e].condition)]
             A == DOMAIN agent.edges
  <2>1. \A e \in A : IsFiniteSet(f[e])
    BY AgentSlots, SingleFinite, ConceptsFinite
  <2>2. {ConceptsOf(agent.edges[e].condition) : e \in A} = {f[e] : e \in A}
    OBVIOUS
  <2>3. IsFiniteSet(A)
    BY GraphsFinite
  <2> HIDE DEF f, A
  <2>4. IsFiniteSet(UNION {f[e] : e \in A})
    BY <2>1, <2>3, UnionOfFamily
  <2>5. QED
    BY <2>2, <2>4 DEF A
<1>3. IsFiniteSet(UNION {Range(truth.slots[n][p]) : n \in truth.nodes, p \in Slots})
  <2> DEFINE A == truth.nodes
             row == [n \in A |-> UNION {Range(truth.slots[n][p]) : p \in Slots}]
  <2>1. ASSUME NEW n \in A
        PROVE  IsFiniteSet(row[n])
    <3> DEFINE f == [p \in Slots |-> Range(truth.slots[n][p])]
    <3>1. \A p \in Slots : IsFiniteSet(f[p])
      BY TrueSlots, SequenceFinite
    <3>2. {Range(truth.slots[n][p]) : p \in Slots} = {f[p] : p \in Slots}
      OBVIOUS
    <3>3. row[n] = UNION {f[p] : p \in Slots}
      BY <3>2
    <3> HIDE DEF f, row
    <3>4. QED
      BY <3>1, <3>3, UnionOfFamily, GraphsFinite
  <2> DEFINE U == UNION {Range(truth.slots[n][p]) : n \in truth.nodes, p \in Slots}
  <2>2. U = UNION {row[n] : n \in A}
    <3>1. ASSUME NEW x \in U
          PROVE  x \in UNION {row[n] : n \in A}
      <4>1. PICK S \in {Range(truth.slots[n][p]) : n \in truth.nodes, p \in Slots} : x \in S
        BY <3>1
      <4>2. PICK n \in A, p \in Slots : S = Range(truth.slots[n][p])
        BY <4>1
      <4>3. QED
        BY <4>1, <4>2
    <3>2. ASSUME NEW n \in A, NEW x \in row[n]
          PROVE  x \in U
      <4>1. PICK p \in Slots : x \in Range(truth.slots[n][p])
        BY <3>2
      <4>2. Range(truth.slots[n][p]) \in {Range(truth.slots[k][q]) : k \in truth.nodes, q \in Slots}
        OBVIOUS
      <4>3. QED
        BY <4>1, <4>2
    <3> HIDE DEF U, row, A
    <3>3. QED
      BY <3>1, <3>2
  <2>3. IsFiniteSet(A)
    BY GraphsFinite
  <2>4. IsFiniteSet(UNION {row[n] : n \in A})
    <3> HIDE DEF row, A
    <3>1. QED
      BY <2>1, <2>3, UnionOfFamily
  <2> HIDE DEF U, row, A
  <2>5. IsFiniteSet(U)
    BY <2>2, <2>4
  <2>6. QED
    BY <2>5 DEF U
<1>4. IsFiniteSet(UNION {Range(ConditionOf(e)) : e \in DOMAIN truth.edges})
  <2> DEFINE f == [e \in DOMAIN truth.edges |-> Range(ConditionOf(e))]
             A == DOMAIN truth.edges
  <2>1. \A e \in A : IsFiniteSet(f[e])
    BY TrueConditions, SequenceFinite
  <2>2. {Range(ConditionOf(e)) : e \in A} = {f[e] : e \in A}
    OBVIOUS
  <2>3. IsFiniteSet(A)
    BY GraphsFinite
  <2> HIDE DEF f, A
  <2>4. IsFiniteSet(UNION {f[e] : e \in A})
    BY <2>1, <2>3, UnionOfFamily
  <2>5. QED
    BY <2>2, <2>4 DEF A
<1>5. IsFiniteSet(Attempted)
  <2> DEFINE S == UNION {ConceptsOf(agent.nodes[n][p]) : n \in DOMAIN agent.nodes, p \in Slots}
             T == UNION {ConceptsOf(agent.edges[e].condition) : e \in DOMAIN agent.edges}
  <2>1. IsFiniteSet(S) /\ IsFiniteSet(T) /\ Attempted = S \cup T
    BY <1>1, <1>2 DEF Attempted
  <2> HIDE DEF S, T
  <2>2. QED
    BY <2>1, FS_Union
<1>6. IsFiniteSet(Expected)
  <2> DEFINE S == UNION {Range(truth.slots[n][p]) : n \in truth.nodes, p \in Slots}
             T == UNION {Range(ConditionOf(e)) : e \in DOMAIN truth.edges}
  <2>1. IsFiniteSet(S) /\ IsFiniteSet(T) /\ Expected = S \cup T
    BY <1>3, <1>4 DEF Expected
  <2> HIDE DEF S, T
  <2>2. QED
    BY <2>1, FS_Union
<1>7. QED
  BY <1>5, <1>6

Rated == Attempted \cap DOMAIN agent.concepts

(* Concepts are paired by admissible weights.                               *)
LEMMA ConceptsAdmissible ==
  ASSUME input \in Inputs
  PROVE  /\ Admissible(ConceptWeights, Rated, Expected, MatchThreshold)
         /\ Rows = Sorted(Rated) /\ Columns = Sorted(Expected)
         /\ Size = Cardinality(Rated) + Cardinality(Expected) /\ Size \in Nat
<1>1. IsFiniteSet(Rated) /\ IsFiniteSet(Expected)
  BY ConceptSetsFinite, FS_Intersection DEF Rated
<1>2. DOMAIN ConceptWeights \subseteq Rated \X Expected
  BY DEF ConceptWeights, Restrict, Rated
<1>3. \A q \in DOMAIN ConceptWeights : /\ q \in DOMAIN input.similarity
                                       /\ ConceptWeights[q] = input.similarity[q]
                                       /\ input.similarity[q] >= MatchThreshold
  <2> DEFINE D == {q \in Rated \X Expected :
                     q \in DOMAIN input.similarity /\ input.similarity[q] >= MatchThreshold}
  <2>1. ConceptWeights = [q \in D |-> input.similarity[q]]
    BY DEF ConceptWeights, Restrict, Rated
  <2>2. \A q \in D : q \in DOMAIN input.similarity /\ input.similarity[q] >= MatchThreshold
    OBVIOUS
  <2> HIDE DEF D
  <2>3. QED
    BY <2>1, <2>2
<1>4. \A q \in DOMAIN input.similarity : input.similarity[q] \in 0 .. 10
  BY InputsAssumption
<1>5. MatchThreshold \in Int
  BY DEF MatchThreshold
<1>6. Admissible(ConceptWeights, Rated, Expected, MatchThreshold)
  <2> DEFINE w == ConceptWeights
  <2>1. \A q \in DOMAIN w : w[q] \in 0 .. 10 /\ w[q] >= MatchThreshold
    BY <1>3, <1>4
  <2> HIDE DEF w
  <2>2. QED
    BY <1>1, <1>2, <1>5, <2>1 DEF Admissible, w
<1>7. Rows = Sorted(Rated) /\ Columns = Sorted(Expected)
  BY DEF Rows, Columns, Rated
<1>8. QED
  BY <1>1, <1>6, <1>7, SortedIs DEF Size

(* With nothing on one side there is nothing to map.                        *)
LEMMA NothingToMap ==
  ASSUME input \in Inputs, Rows = <<>> \/ Columns = <<>>
  PROVE  {} \in Heaviest(ConceptWeights)
<1>1. /\ Admissible(ConceptWeights, Rated, Expected, MatchThreshold)
      /\ Rows = Sorted(Rated) /\ Columns = Sorted(Expected)
  BY ConceptsAdmissible
<1>2. Cardinality(Rated) = 0 \/ Cardinality(Expected) = 0
  <2>1. Len(Rows) = Cardinality(Rated) /\ Len(Columns) = Cardinality(Expected)
    BY <1>1, SortedIs DEF Admissible
  <2>2. QED
    BY <2>1
<1>3. Rated = {} \/ Expected = {}
  BY <1>1, <1>2, FS_EmptySet DEF Admissible
<1>4. DOMAIN ConceptWeights = {}
  BY <1>1, <1>3 DEF Admissible
<1>5. Matchings(DOMAIN ConceptWeights) = {{}}
  BY <1>4 DEF Matchings
<1>6. Score({}, ConceptWeights) <= Score({}, ConceptWeights)
  BY ScoreEmpty
<1>7. QED
  BY <1>5, <1>6 DEF Heaviest

-----------------------------------------------------------------------------
(* Scores *)
(* The mapping of concepts, once there is one.                              *)
ConceptsMapped == input \in Inputs /\ conceptMap \in Heaviest(ConceptWeights)

(* It is a matching of concepts attempted with concepts expected.           *)
LEMMA ConceptPairs ==
  ASSUME ConceptsMapped
  PROVE  /\ input \in Inputs /\ IsFiniteSet(DOMAIN ConceptWeights)
         /\ Between(DOMAIN ConceptWeights, Attempted, Expected)
         /\ conceptMap \in Matchings(DOMAIN ConceptWeights) /\ IsFiniteSet(conceptMap)
         /\ \A p, q \in conceptMap : p[1] = q[1] <=> p[2] = q[2]
         /\ \A p \in conceptMap : p = <<p[1], p[2]>>
<1>1. Admissible(ConceptWeights, Rated, Expected, MatchThreshold)
  BY ConceptsAdmissible DEF ConceptsMapped
<1>2. IsFiniteSet(DOMAIN ConceptWeights)
  BY <1>1, WeightsFinite
<1>3. DOMAIN ConceptWeights \subseteq Rated \X Expected
  BY <1>1 DEF Admissible
<1>4. Between(DOMAIN ConceptWeights, Attempted, Expected)
  BY <1>3 DEF Between, Rated
<1>5. conceptMap \in Matchings(DOMAIN ConceptWeights)
  BY DEF ConceptsMapped, Heaviest
<1>6. /\ IsFiniteSet(conceptMap)
      /\ \A p \in conceptMap : p = <<p[1], p[2]>> /\ p[1] \in Attempted /\ p[2] \in Expected
      /\ \A p, q \in conceptMap : p[1] = q[1] <=> p[2] = q[2]
  BY <1>2, <1>4, <1>5, SidesOfMatching
<1>7. QED
  BY <1>2, <1>4, <1>5, <1>6 DEF ConceptsMapped

(* A scalar slot is right or wrong.                                         *)
LEMMA ScalarScoreIs ==
  \A slot, value : ScalarScore(slot, value) \in {0, 4}
BY DEF ScalarScore, Full

(* A scalar slot that is right says what is true.                           *)
LEMMA ScalarIsSame ==
  ASSUME ConceptsMapped, NEW slot, NEW value, Single(slot),
         value \in Seq(Range(value)), Len(value) <= 1,
         ConceptsOf(slot) \subseteq Lefts(conceptMap), ScalarScore(slot, value) = 4
  PROVE  SameValue(slot, value)
<1>1. CASE value = <<>>
  BY <1>1 DEF ScalarScore, SameValue, Full
<1>2. CASE value # <<>>
  <2>1. slot.state = "value" /\ <<slot.refs[1].concept, value[1]>> \in conceptMap
    BY <1>2 DEF ScalarScore, Full
  <2>2. DOMAIN slot.refs = {1} /\ RefsOf(slot) = slot.refs
    BY <2>1 DEF Single, RefsOf
  <2>3. ConceptsOf(slot) = {slot.refs[1].concept}
    BY <2>2 DEF ConceptsOf, Range
  <2>4. Len(value) = 1
    <3>1. \A S, s : s \in Seq(S) => Len(s) \in Nat /\ (Len(s) = 0 => s = <<>>)
      OBVIOUS
    <3>2. Len(value) \in Nat /\ (Len(value) = 0 => value = <<>>)
      BY <3>1
    <3>3. Len(value) # 0
      BY <1>2, <3>2
    <3>4. \A k \in Nat : k # 0 /\ k <= 1 => k = 1
      OBVIOUS
    <3>5. QED
      BY <3>2, <3>3, <3>4
  <2>5. Range(value) = {value[1]}
    BY <2>4 DEF Range
  <2> DEFINE a == slot.refs[1].concept  b == value[1]
  <2>6. Renamed(ConceptsOf(slot), conceptMap) = {b}
    <3>1. \A p, q \in conceptMap : p[1] = q[1] <=> p[2] = q[2]
      BY ConceptPairs
    <3>2. <<a, b>> \in conceptMap
      BY <2>1
    <3> HIDE DEF a, b
    <3>3. \A p \in conceptMap : p[1] = a <=> p[2] = b
      BY <3>1, <3>2
    <3>4. ConceptsOf(slot) = {a}
      BY <2>3 DEF a
    <3>5. QED
      BY <3>2, <3>3, <3>4 DEF Renamed
  <2>7. QED
    BY <1>2, <2>1, <2>5, <2>6 DEF SameValue
<1>3. QED
  BY <1>1, <1>2

(* A list is right only when what it claims is what is true.                *)
LEMMA ListScoreIs ==
  ASSUME ConceptsMapped, NEW slot, NEW value, value \in Seq(Range(value))
  PROVE  /\ ListScore(slot, value) \in 0 .. 4
         /\ ListScore(slot, value) = 4 /\ value # <<>> =>
              Claims(slot) = Range(value) /\ Claims(slot) # {}
<1>1. CASE value = <<>>
  BY <1>1 DEF ListScore, Full
<1>2. CASE value # <<>> /\ Claims(slot) = {}
  BY <1>2 DEF ListScore
<1>3. CASE value # <<>> /\ Claims(slot) # {}
  <2> DEFINE A == Claims(slot)  B == Range(value)
             h == Cardinality(A \cap B)  a == Cardinality(A)  b == Cardinality(B)
  <2>1. IsFiniteSet(A)
    <3> DEFINE S == {q \in conceptMap : q[1] \in ConceptsOf(slot)}  f == [p \in S |-> p[2]]
    <3>1. IsFiniteSet(S)
      BY ConceptPairs, FS_Subset
    <3>2. A = {f[p] : p \in S}
      BY DEF Claims
    <3> HIDE DEF S, f, A
    <3>3. QED
      BY <3>1, <3>2, ImageFinite
  <2>2. IsFiniteSet(B)
    BY SequenceFinite
  <2>3. B # {} /\ A # {}
    <3>1. 1 \in DOMAIN value
      BY <1>3
    <3>2. QED
      BY <1>3, <3>1 DEF Range
  <2>4. ListScore(slot, value) = (h * h * 4) \div (a * b)
    BY <1>3 DEF ListScore, Full
  <2> HIDE DEF A, B
  <2>5. /\ h \in Nat /\ a \in Nat /\ b \in Nat /\ h <= a /\ h <= b
        /\ a # 0 /\ b # 0
    BY <2>1, <2>2, <2>3, FS_CardinalityType, FS_Intersection, FS_EmptySet
  <2>6. h = a /\ h = b => A = B
    <3> SUFFICES ASSUME h = a, h = b PROVE A = B
      OBVIOUS
    <3> DEFINE C == A \cap B
    <3>1. C \in SUBSET A /\ C \in SUBSET B
          /\ Cardinality(C) = Cardinality(A) /\ Cardinality(C) = Cardinality(B)
      OBVIOUS
    <3>2. C = A /\ C = B
      <4> HIDE DEF C
      <4>1. QED
        BY <2>1, <2>2, <3>1, SameSize
    <3>3. QED
      BY <3>2
  <2> HIDE DEF h, a, b
  <2>7. /\ (h * h * 4) \div (a * b) \in 0 .. 4
        /\ (h * h * 4) \div (a * b) = 4 => h = a /\ h = b
    BY <2>5, ShareIsFull
  <2>8. QED
    BY <2>3, <2>4, <2>6, <2>7 DEF A, B
<1>4. QED
  BY <1>1, <1>2, <1>3

(* A list that is right says what is true.                                  *)
LEMMA ListIsSame ==
  ASSUME ConceptsMapped, NEW slot, NEW value, value \in Seq(Range(value)),
         ConceptsOf(slot) \subseteq Lefts(conceptMap), ListScore(slot, value) = 4
  PROVE  SameValue(slot, value)
<1>1. CASE value = <<>>
  BY <1>1 DEF ListScore, SameValue, Full
<1>2. CASE value # <<>>
  <2>1. Claims(slot) = Range(value) /\ Claims(slot) # {}
    BY <1>2, ListScoreIs
  <2>2. Renamed(ConceptsOf(slot), conceptMap) = Range(value)
    BY <2>1 DEF Renamed, Claims
  <2>3. slot.state = "value"
    <3>1. ConceptsOf(slot) # {}
      BY <2>1 DEF Claims
    <3>2. DOMAIN RefsOf(slot) # {}
      BY <3>1 DEF ConceptsOf, Range
    <3>3. QED
      BY <3>2 DEF RefsOf
  <2>4. QED
    BY <1>2, <2>2, <2>3 DEF SameValue
<1>3. QED
  BY <1>1, <1>2

(* Every concept a slot or condition names is attempted.                    *)
LEMMA ConceptsAttempted ==
  /\ \A n \in DOMAIN agent.nodes, p \in Slots : ConceptsOf(agent.nodes[n][p]) \subseteq Attempted
  /\ \A e \in DOMAIN agent.edges : ConceptsOf(agent.edges[e].condition) \subseteq Attempted
BY DEF Attempted

(* Slots and conditions score at most in full, and in full only for the truth.*)
LEMMA SlotScoreIs ==
  ASSUME ConceptsMapped, NEW n \in DOMAIN agent.nodes, NEW t \in truth.nodes, NEW p \in Slots
  PROVE  /\ SlotScore(n, t, p) \in 0 .. 4
         /\ SlotScore(n, t, p) = 4 /\ Lefts(conceptMap) = Attempted =>
              SameValue(agent.nodes[n][p], truth.slots[t][p])
<1> DEFINE slot == agent.nodes[n][p]  value == truth.slots[t][p]
<1>1. /\ value \in Seq(Range(value)) /\ (p \in ListSlots \/ Len(value) <= 1)
      /\ p \in ListSlots \/ Single(slot)
      /\ ConceptsOf(slot) \subseteq Attempted
  BY TrueSlots, AgentSlots, ConceptsAttempted DEF ConceptsMapped
<1>2. SlotScore(n, t, p) = IF p \in ListSlots THEN ListScore(slot, value) ELSE ScalarScore(slot, value)
  BY DEF SlotScore
<1> HIDE DEF slot, value
<1>3. CASE p \in ListSlots
  BY <1>1, <1>2, <1>3, ListScoreIs, ListIsSame DEF slot, value
<1>4. CASE p \notin ListSlots
  <2>1. SlotScore(n, t, p) \in 0 .. 4
    BY <1>2, <1>4, ScalarScoreIs
  <2>2. SlotScore(n, t, p) = 4 /\ Lefts(conceptMap) = Attempted => SameValue(slot, value)
    BY <1>1, <1>2, <1>4, ScalarIsSame
  <2>3. QED
    BY <2>1, <2>2 DEF slot, value
<1>5. QED
  BY <1>3, <1>4

LEMMA ConditionScoreIs ==
  ASSUME ConceptsMapped, NEW a \in DOMAIN agent.edges, NEW e
  PROVE  /\ ConditionScore(a, e) \in {0, 1}
         /\ ConditionScore(a, e) = 1 /\ Lefts(conceptMap) = Attempted =>
              SameValue(agent.edges[a].condition, ConditionOf(e))
<1> DEFINE slot == agent.edges[a].condition
<1>1. Single(slot) /\ ConceptsOf(slot) \subseteq Attempted
  BY AgentSlots, ConceptsAttempted DEF ConceptsMapped
<1>2. ScalarScore(slot, ConditionOf(e)) \in {0, 4}
  BY ScalarScoreIs
<1>3. ConditionScore(a, e) = ScalarScore(slot, ConditionOf(e)) \div 4
  BY DEF ConditionScore, Full
<1> HIDE DEF slot
<1>4. /\ ConditionScore(a, e) \in {0, 1}
      /\ ConditionScore(a, e) = 1 => ScalarScore(slot, ConditionOf(e)) = 4
  BY <1>2, <1>3
<1>5. ScalarScore(slot, ConditionOf(e)) = 4 /\ Lefts(conceptMap) = Attempted
        => SameValue(slot, ConditionOf(e))
  BY <1>1, TrueConditions, ScalarIsSame
<1>6. QED
  BY <1>4, <1>5 DEF slot

-----------------------------------------------------------------------------
(* Weights and the invariant *)
(* Nodes and edges are paired by integer weights, on finitely many pairs.   *)
LEMMA NodeWeightsAre ==
  ASSUME ConceptsMapped
  PROVE  /\ IsFiniteSet(DOMAIN NodeWeights) /\ \A q \in DOMAIN NodeWeights : NodeWeights[q] \in Int
         /\ Between(DOMAIN NodeWeights, DOMAIN agent.nodes, truth.nodes)
<1> DEFINE D == {q \in (DOMAIN agent.nodes) \X truth.nodes : SameActivity(q[1], q[2])}
           f(q) == [p \in Slots |-> SlotWeight(p) * SlotScore(q[1], q[2], p)]
<1>1. DOMAIN NodeWeights = D
  BY DEF NodeWeights
<1>2. IsFiniteSet(D) /\ Between(D, DOMAIN agent.nodes, truth.nodes)
  <2> DEFINE P == (DOMAIN agent.nodes) \X truth.nodes
  <2>1. IsFiniteSet(DOMAIN agent.nodes) /\ IsFiniteSet(truth.nodes)
    BY GraphsFinite DEF ConceptsMapped
  <2>2. IsFiniteSet(P)
    BY <2>1, FS_Product
  <2>3. D \in SUBSET P
    OBVIOUS
  <2>4. IsFiniteSet(D)
    <3> HIDE DEF P, D
    <3>1. QED
      BY <2>2, <2>3, FS_Subset
  <2>5. QED
    BY <2>3, <2>4 DEF Between
<1>3. ASSUME NEW q \in D
      PROVE  NodeWeights[q] \in Int
  <2>1. q[1] \in DOMAIN agent.nodes /\ q[2] \in truth.nodes
        /\ q \in (DOMAIN agent.nodes) \X truth.nodes
    OBVIOUS
  <2>2. NodeWeights[q] = 800 + input.bonus[q] + Score(Slots, f(q))
    BY DEF NodeWeights
  <2>3. input.bonus[q] \in Nat
    BY <2>1, InputsAssumption DEF ConceptsMapped, agent, truth
  <2>4. \A p \in Slots : f(q)[p] \in Int
    <3> SUFFICES ASSUME NEW p \in Slots PROVE SlotWeight(p) * SlotScore(q[1], q[2], p) \in Int
      OBVIOUS
    <3>1. SlotScore(q[1], q[2], p) \in 0 .. 4
      BY <2>1, SlotScoreIs
    <3>2. SlotWeight(p) \in Int
      BY PropertiesAssumption DEF SlotWeight
    <3>3. QED
      BY <3>1, <3>2
  <2>5. Score(Slots, f(q)) \in Int
    <3> DEFINE g == f(q)
    <3>1. \A p \in Slots : g[p] \in Int
      BY <2>4
    <3>2. IsFiniteSet(Slots)
      BY GraphsFinite DEF ConceptsMapped
    <3> HIDE DEF g
    <3>3. Score(Slots, g) \in Int
      BY <3>1, <3>2, ScoreInt
    <3>4. QED
      BY <3>3 DEF g
  <2> HIDE DEF f
  <2>6. QED
    BY <2>2, <2>3, <2>5
<1>4. QED
  BY <1>1, <1>2, <1>3

LEMMA EdgeWeightsAre ==
  ASSUME ConceptsMapped
  PROVE  /\ IsFiniteSet(DOMAIN EdgeWeights) /\ \A q \in DOMAIN EdgeWeights : EdgeWeights[q] \in Int
         /\ Between(DOMAIN EdgeWeights, DOMAIN agent.edges, DOMAIN truth.edges)
         /\ \A q \in DOMAIN EdgeWeights : Joins(q[1], q[2])
<1> DEFINE D == {q \in (DOMAIN agent.edges) \X (DOMAIN truth.edges) : Joins(q[1], q[2])}
<1>1. DOMAIN EdgeWeights = D
  BY DEF EdgeWeights
<1>2. IsFiniteSet(D) /\ Between(D, DOMAIN agent.edges, DOMAIN truth.edges)
  <2> DEFINE P == (DOMAIN agent.edges) \X (DOMAIN truth.edges)
  <2>1. IsFiniteSet(DOMAIN agent.edges) /\ IsFiniteSet(DOMAIN truth.edges)
    BY GraphsFinite DEF ConceptsMapped
  <2>2. IsFiniteSet(P)
    BY <2>1, FS_Product
  <2>3. D \in SUBSET P
    OBVIOUS
  <2>4. IsFiniteSet(D)
    <3> HIDE DEF P, D
    <3>1. QED
      BY <2>2, <2>3, FS_Subset
  <2>5. QED
    BY <2>3, <2>4 DEF Between
<1>3. ASSUME NEW q \in D
      PROVE  EdgeWeights[q] \in Int /\ Joins(q[1], q[2])
  <2>1. q[1] \in DOMAIN agent.edges /\ Joins(q[1], q[2])
    OBVIOUS
  <2>2. EdgeWeights[q] = 2 + ConditionScore(q[1], q[2])
    BY DEF EdgeWeights
  <2>3. ConditionScore(q[1], q[2]) \in {0, 1}
    BY <2>1, ConditionScoreIs
  <2>4. QED
    BY <2>1, <2>2, <2>3
<1>4. QED
  BY <1>1, <1>2, <1>3
-----------------------------------------------------------------------------
Aligned == {"nodes", "edges", "scoring", "done"}

(* The inductive invariant of a comparison.                                 *)
CompInv ==
  /\ input \in Inputs
  /\ phase \in {"concepts", "assigning"} \cup Aligned
  /\ phase = "concepts" => conceptMap = {}
  /\ phase = "assigning" =>
       SearchInv(search, Size, Cost(ConceptWeights, Rows, Columns, MatchThreshold))
  /\ phase \in Aligned => conceptMap \in Heaviest(ConceptWeights)
  /\ phase \in Aligned \ {"nodes"} => nodeMap = Chosen(NodeWeights)
  /\ phase \in {"scoring", "done"} => edgeMap \in Heaviest(EdgeWeights)
  /\ phase = "done" => metrics = Metrics

(* What is computed of variables that stay as they are stays as it is.      *)
LEMMA InputsKept ==
  ASSUME UNCHANGED input
  PROVE  /\ agent' = agent /\ truth' = truth
<1>1. agent' = agent
  BY DEF agent
<1>2. truth' = truth
  BY DEF truth
<1>3. QED
  BY <1>1, <1>2

LEMMA ConditionsKept ==
  ASSUME UNCHANGED input
  PROVE  \A e : ConditionOf(e)' = ConditionOf(e)
<1>1. truth' = truth
  BY InputsKept
<1>2. QED
  BY <1>1 DEF ConditionOf

LEMMA ConceptSetsKept ==
  ASSUME UNCHANGED input
  PROVE  Attempted' = Attempted /\ Expected' = Expected
<1>1. agent' = agent /\ truth' = truth
  BY InputsKept
<1>2. Attempted' = Attempted
  BY <1>1 DEF Attempted
<1>3. Expected' = Expected
  BY <1>1, ConditionsKept DEF Expected
<1>4. QED
  BY <1>2, <1>3

LEMMA ConceptWeightsKept ==
  ASSUME UNCHANGED input
  PROVE  /\ ConceptWeights' = ConceptWeights
         /\ Rows' = Rows /\ Columns' = Columns /\ Size' = Size
<1>1. agent' = agent /\ Attempted' = Attempted /\ Expected' = Expected
  BY InputsKept, ConceptSetsKept
<1>2. ConceptWeights' = ConceptWeights
  BY <1>1 DEF ConceptWeights
<1>3. Rows' = Rows /\ Columns' = Columns
  BY <1>1 DEF Rows, Columns
<1>4. QED
  BY <1>2, <1>3 DEF Size

LEMMA ScoresKept ==
  ASSUME UNCHANGED <<input, conceptMap>>
  PROVE  /\ \A n, t, p : SlotScore(n, t, p)' = SlotScore(n, t, p)
         /\ \A a, e : ConditionScore(a, e)' = ConditionScore(a, e)
<1>1. agent' = agent /\ truth' = truth /\ \A e : ConditionOf(e)' = ConditionOf(e)
  BY InputsKept, ConditionsKept
<1>2. \A slot, value : ScalarScore(slot, value)' = ScalarScore(slot, value)
  BY DEF ScalarScore
<1>3. \A slot : Claims(slot)' = Claims(slot)
  BY DEF Claims
<1>4. \A slot, value : ListScore(slot, value)' = ListScore(slot, value)
  BY <1>3 DEF ListScore
<1>5. \A n, t, p : SlotScore(n, t, p)' = SlotScore(n, t, p)
  BY <1>1, <1>2, <1>4 DEF SlotScore
<1>6. \A a, e : ConditionScore(a, e)' = ConditionScore(a, e)
  BY <1>1, <1>2 DEF ConditionScore
<1>7. QED
  BY <1>5, <1>6

LEMMA NodeWeightsKept ==
  ASSUME UNCHANGED <<input, conceptMap>>
  PROVE  NodeWeights' = NodeWeights
<1> DEFINE D == {q \in (DOMAIN agent.nodes) \X truth.nodes : SameActivity(q[1], q[2])}
           E == {q \in (DOMAIN agent'.nodes) \X truth'.nodes : SameActivity(q[1], q[2])'}
<1>1. agent' = agent /\ truth' = truth
  BY InputsKept
<1>2. \A n, t, p : SlotScore(n, t, p)' = SlotScore(n, t, p)
  BY ScoresKept
<1>3. \A n, t : SameActivity(n, t)' = SameActivity(n, t)
  BY <1>1, <1>2 DEF SameActivity
<1>4. E = D
  BY <1>1, <1>3
<1>5. ASSUME NEW q
      PROVE  Score(Slots, [p \in Slots |-> SlotWeight(p) * SlotScore(q[1], q[2], p)'])
               = Score(Slots, [p \in Slots |-> SlotWeight(p) * SlotScore(q[1], q[2], p)])
  <2>1. [p \in Slots |-> SlotWeight(p) * SlotScore(q[1], q[2], p)']
          = [p \in Slots |-> SlotWeight(p) * SlotScore(q[1], q[2], p)]
    BY <1>2
  <2>2. QED
    BY <2>1
<1>6. NodeWeights' = [q \in E |-> 800 + input.bonus[q]
                        + Score(Slots, [p \in Slots |-> SlotWeight(p) * SlotScore(q[1], q[2], p)'])]
  BY DEF NodeWeights
<1>7. NodeWeights = [q \in D |-> 800 + input.bonus[q]
                        + Score(Slots, [p \in Slots |-> SlotWeight(p) * SlotScore(q[1], q[2], p)])]
  BY DEF NodeWeights
<1> HIDE DEF D, E
<1>8. QED
  BY <1>4, <1>5, <1>6, <1>7

LEMMA EdgeWeightsKept ==
  ASSUME UNCHANGED <<input, conceptMap, nodeMap>>
  PROVE  EdgeWeights' = EdgeWeights
<1>1. agent' = agent /\ truth' = truth
  BY InputsKept
<1>2. \A a, e : ConditionScore(a, e)' = ConditionScore(a, e)
  BY ScoresKept
<1>3. \A a, e : Joins(a, e)' = Joins(a, e)
  BY <1>1 DEF Joins
<1>4. QED
  BY <1>1, <1>2, <1>3 DEF EdgeWeights

(* The invariant holds at first, and every step keeps it.                   *)
LEMMA CompInit == Init => CompInv
BY DEF Init, CompInv, Aligned

LEMMA CompConcepts ==
  ASSUME CompInv, StartConcepts
  PROVE  CompInv'
<1>1. /\ input \in Inputs /\ phase = "concepts" /\ conceptMap = {}
      /\ search' = Fresh(Size)
      /\ phase' = IF Rows = <<>> \/ Columns = <<>> THEN "nodes" ELSE "assigning"
      /\ UNCHANGED <<input, conceptMap, nodeMap, edgeMap, metrics>>
  BY DEF CompInv, StartConcepts
<1>2. ConceptWeights' = ConceptWeights /\ Rows' = Rows /\ Columns' = Columns /\ Size' = Size
  BY <1>1, ConceptWeightsKept
<1>3. Size \in Nat
  BY <1>1, ConceptsAdmissible
<1>4. SearchInv(search', Size, Cost(ConceptWeights, Rows, Columns, MatchThreshold))
  BY <1>1, <1>3, FreshInv
<1>5. Rows = <<>> \/ Columns = <<>> => {} \in Heaviest(ConceptWeights)
  BY <1>1, NothingToMap
<1>6. QED
  BY <1>1, <1>2, <1>4, <1>5 DEF CompInv, Aligned

LEMMA CompAssigning ==
  ASSUME CompInv, EnterRow \/ GrowTree \/ FlipPath
  PROVE  CompInv'
<1> DEFINE cost == Cost(ConceptWeights, Rows, Columns, MatchThreshold)
<1>1. /\ input \in Inputs /\ phase = "assigning" /\ SearchInv(search, Size, cost)
      /\ UNCHANGED <<input, phase, conceptMap, nodeMap, edgeMap, metrics>>
  BY DEF CompInv, EnterRow, GrowTree, FlipPath, Assign
<1>2. ConceptWeights' = ConceptWeights /\ Rows' = Rows /\ Columns' = Columns /\ Size' = Size
  BY <1>1, ConceptWeightsKept
<1>3. Size \in Nat /\ cost \in Costs(Size)
  BY <1>1, ConceptsAdmissible, CostIs
<1>4. SearchInv(search', Size, cost)
  <2>1. CASE EnterRow
    <3>1. search.state = "ready" /\ search.row < Size /\ search' = Entered(search, Size)
      BY <2>1 DEF EnterRow, Assign
    <3> HIDE DEF cost
    <3>2. QED
      BY <1>1, <1>3, <3>1, EnteredInv, CostsAssumption
  <2>2. CASE GrowTree
    <3>1. search.state = "growing" /\ search' = Grown(search, Size, cost)
      BY <2>2 DEF GrowTree, Assign
    <3> HIDE DEF cost
    <3>2. QED
      BY <1>1, <1>3, <3>1, GrownInv
  <2>3. CASE FlipPath
    <3>1. search.state = "flipping" /\ search' = Flipped(search)
      BY <2>3 DEF FlipPath, Assign
    <3> HIDE DEF cost
    <3>2. QED
      BY <1>1, <1>3, <3>1, FlippedInv
  <2>4. QED
    BY <2>1, <2>2, <2>3
<1>5. cost' = cost
  BY <1>2 DEF MatchThreshold
<1>6. QED
  BY <1>1, <1>2, <1>4, <1>5 DEF CompInv, Aligned

LEMMA CompMapped ==
  ASSUME CompInv, MapConcepts
  PROVE  CompInv'
<1>1. /\ input \in Inputs /\ phase = "assigning"
      /\ SearchInv(search, Size, Cost(ConceptWeights, Rows, Columns, MatchThreshold))
      /\ search.state = "ready" /\ search.row = Size
      /\ conceptMap' = Matched(search, ConceptWeights, Rows, Columns, MatchThreshold)
      /\ phase' = "nodes" /\ UNCHANGED input
  BY DEF CompInv, MapConcepts
<1>2. ConceptWeights' = ConceptWeights
  BY <1>1, ConceptWeightsKept
<1>3. /\ Admissible(ConceptWeights, Rated, Expected, MatchThreshold)
      /\ Rows = Sorted(Rated) /\ Columns = Sorted(Expected)
      /\ Size = Cardinality(Rated) + Cardinality(Expected)
  BY <1>1, ConceptsAdmissible
<1>4. conceptMap' \in Heaviest(ConceptWeights)
  BY <1>1, <1>3, MatchedIsHeaviest
<1>5. QED
  BY <1>1, <1>2, <1>4 DEF CompInv, Aligned

LEMMA CompNodes ==
  ASSUME CompInv, MapNodes
  PROVE  CompInv'
<1>1. /\ input \in Inputs /\ phase = "nodes" /\ conceptMap \in Heaviest(ConceptWeights)
      /\ nodeMap' = Chosen(NodeWeights)
      /\ phase' = "edges" /\ UNCHANGED <<input, conceptMap, edgeMap, metrics>>
  BY DEF CompInv, MapNodes, Aligned
<1>2. ConceptWeights' = ConceptWeights /\ NodeWeights' = NodeWeights
  BY <1>1, ConceptWeightsKept, NodeWeightsKept
<1>3. Chosen(NodeWeights)' = Chosen(NodeWeights)
  BY <1>2 DEF Chosen, Best, Indispensable
<1>4. QED
  BY <1>1, <1>2, <1>3 DEF CompInv, Aligned

LEMMA CompEdges ==
  ASSUME CompInv, MapEdges
  PROVE  CompInv'
<1>1. /\ input \in Inputs /\ phase = "edges" /\ conceptMap \in Heaviest(ConceptWeights)
      /\ nodeMap = Chosen(NodeWeights) /\ edgeMap' \in Heaviest(EdgeWeights)
      /\ phase' = "scoring" /\ UNCHANGED <<input, conceptMap, nodeMap, metrics>>
  BY DEF CompInv, MapEdges, Aligned
<1>2. /\ ConceptWeights' = ConceptWeights /\ NodeWeights' = NodeWeights
      /\ EdgeWeights' = EdgeWeights
  BY <1>1, ConceptWeightsKept, NodeWeightsKept, EdgeWeightsKept
<1>3. Chosen(NodeWeights)' = Chosen(NodeWeights)
  BY <1>2 DEF Chosen, Best, Indispensable
<1>4. QED
  BY <1>1, <1>2, <1>3 DEF CompInv, Aligned

LEMMA MetricsKept ==
  ASSUME UNCHANGED <<input, conceptMap, nodeMap, edgeMap>>
  PROVE  Metrics' = Metrics
<1>1. /\ agent' = agent /\ truth' = truth /\ Attempted' = Attempted /\ Expected' = Expected
      /\ \A n, t, p : SlotScore(n, t, p)' = SlotScore(n, t, p)
      /\ \A a, e : ConditionScore(a, e)' = ConditionScore(a, e)
  BY InputsKept, ConceptSetsKept, ScoresKept
<1>2. \A ids : MappedOf(ids)' = MappedOf(ids)
  BY DEF MappedOf
<1>3. \A p : Correctness(p)' = Correctness(p)
  <2> SUFFICES ASSUME NEW p PROVE Correctness(p)' = Correctness(p)
    OBVIOUS
  <2>1. [q \in nodeMap |-> SlotScore(q[1], q[2], p)]' = [q \in nodeMap |-> SlotScore(q[1], q[2], p)]
    BY <1>1
  <2>2. QED
    BY <2>1 DEF Correctness
<1>4. [q \in edgeMap |-> ConditionScore(q[1], q[2])]' = [q \in edgeMap |-> ConditionScore(q[1], q[2])]
  BY <1>1
<1>5. QED
  BY <1>1, <1>2, <1>3, <1>4 DEF Metrics

LEMMA CompCompare ==
  ASSUME CompInv, Compare
  PROVE  CompInv'
<1>1. /\ input \in Inputs /\ phase = "scoring" /\ conceptMap \in Heaviest(ConceptWeights)
      /\ nodeMap = Chosen(NodeWeights) /\ edgeMap \in Heaviest(EdgeWeights)
      /\ metrics' = Metrics /\ phase' = "done"
      /\ UNCHANGED <<input, conceptMap, nodeMap, edgeMap>>
  BY DEF CompInv, Compare, Aligned
<1>2. /\ ConceptWeights' = ConceptWeights /\ NodeWeights' = NodeWeights
      /\ EdgeWeights' = EdgeWeights /\ Metrics' = Metrics
  BY <1>1, ConceptWeightsKept, NodeWeightsKept, EdgeWeightsKept, MetricsKept
<1>3. Chosen(NodeWeights)' = Chosen(NodeWeights)
  BY <1>2 DEF Chosen, Best, Indispensable
<1>4. QED
  BY <1>1, <1>2, <1>3 DEF CompInv, Aligned

LEMMA CompUnchanged ==
  ASSUME CompInv, UNCHANGED vars
  PROVE  CompInv'
<1>1. UNCHANGED <<input, phase, search, conceptMap, nodeMap, edgeMap, metrics>>
  BY DEF vars
<1>2. /\ ConceptWeights' = ConceptWeights /\ Rows' = Rows /\ Columns' = Columns /\ Size' = Size
      /\ NodeWeights' = NodeWeights /\ EdgeWeights' = EdgeWeights /\ Metrics' = Metrics
  BY <1>1, ConceptWeightsKept, NodeWeightsKept, EdgeWeightsKept, MetricsKept
<1>3. Chosen(NodeWeights)' = Chosen(NodeWeights)
  BY <1>2 DEF Chosen, Best, Indispensable
<1>4. Cost(ConceptWeights, Rows, Columns, MatchThreshold)'
        = Cost(ConceptWeights, Rows, Columns, MatchThreshold)
  BY <1>2 DEF MatchThreshold
<1>5. QED
  BY <1>1, <1>2, <1>3, <1>4 DEF CompInv, Aligned

(* The inductive invariant: the search for concepts keeps its own invariant,*)
(* and each mapping made is what its weights make it, until the end.        *)
THEOREM CompInvariance == Spec => []CompInv
<1>1. CompInv /\ [Next]_vars => CompInv'
  BY CompConcepts, CompAssigning, CompMapped, CompNodes, CompEdges, CompCompare, CompUnchanged
     DEF Next, Returned
<1>2. QED
  BY CompInit, <1>1, PTL DEF Spec

(* Whatever the similarities, the row-by-row method of max_weight_assignment*)
(* ends with a one-to-one mapping of concepts no other is heavier than.     *)
THEOREM AlignmentIsOptimal == Spec => []AlignmentOptimal
<1>1. CompInv => AlignmentOptimal
  BY DEF CompInv, AlignmentOptimal, Aligned
<1>2. QED
  BY CompInvariance, <1>1, PTL

(* _map_nodes_one_to_one keeps a pair of nodes exactly when every heaviest  *)
(* mapping holds it, outside oversized components, whatever the weights.    *)
THEOREM NodesAreUnambiguous == Spec => []NodesUnambiguous
<1>1. CompInv => NodesUnambiguous
  <2> SUFFICES ASSUME CompInv, phase \notin {"concepts", "assigning", "nodes"}
               PROVE  nodeMap = {p \in DOMAIN NodeWeights :
                                   /\ ~Oversized(ComponentOf(DOMAIN NodeWeights, p))
                                   /\ \A m \in Heaviest(NodeWeights) : p \in m}
    BY DEF NodesUnambiguous
  <2>1. ConceptsMapped /\ nodeMap = Chosen(NodeWeights)
    BY DEF CompInv, Aligned, ConceptsMapped
  <2> DEFINE w == NodeWeights
  <2>2. IsFiniteSet(DOMAIN w) /\ \A p \in DOMAIN w : w[p] \in Int
    BY <2>1, NodeWeightsAre
  <2>3. nodeMap = Chosen(w)
    BY <2>1
  <2> HIDE DEF w
  <2>4. nodeMap = {p \in DOMAIN w : /\ ~Oversized(ComponentOf(DOMAIN w, p))
                                    /\ \A m \in Heaviest(w) : p \in m}
    BY <2>2, <2>3, ChosenIsIndispensable
  <2>5. QED
    BY <2>4 DEF w
<1>2. QED
  BY CompInvariance, <1>1, PTL
-----------------------------------------------------------------------------
(* A fraction is one when there is nothing to find and that is all right,   *)
(* or when all of it is found.                                              *)
LEMMA WholeFraction ==
  ASSUME NEW n, NEW d, NEW otherwise, One(Fraction(n, d, otherwise))
  PROVE  IF d = 0 THEN otherwise = 1 ELSE n = d
BY DEF One, Fraction

(* Full recall and precision: the mapping of nodes is one-to-one and onto ...*)
LEMMA NodesOneToOne ==
  ASSUME CompInv, phase = "done", One(Metrics.nodeRecall), One(Metrics.nodePrecision)
  PROVE  OneToOne(nodeMap, DOMAIN agent.nodes, truth.nodes) /\ IsFiniteSet(nodeMap)
<1> DEFINE w == NodeWeights  A == DOMAIN agent.nodes  B == truth.nodes
<1>1. ConceptsMapped /\ nodeMap = Chosen(w)
  BY DEF CompInv, Aligned, ConceptsMapped
<1>2. /\ IsFiniteSet(DOMAIN w) /\ \A q \in DOMAIN w : w[q] \in Int
      /\ Between(DOMAIN w, A, B)
  BY <1>1, NodeWeightsAre
<1>3. IsFiniteSet(A) /\ IsFiniteSet(B)
  BY GraphsFinite DEF CompInv
<1>4. One(Fraction(Cardinality(Rights(nodeMap)), Cardinality(B), 0))
  BY DEF Metrics
<1>5. One(Fraction(Cardinality(nodeMap), Cardinality(A), 0))
  BY DEF Metrics
<1> HIDE DEF w, A, B
<1>6. nodeMap \in Matchings(DOMAIN w)
  BY <1>1, <1>2, ChosenIsMatching
<1>7. Cardinality(Rights(nodeMap)) = Cardinality(B) /\ Cardinality(nodeMap) = Cardinality(A)
  BY <1>4, <1>5, WholeFraction
<1>8. OneToOne(nodeMap, A, B)
  BY <1>2, <1>3, <1>6, <1>7, AsLargeAsBoth
<1>9. IsFiniteSet(nodeMap)
  BY <1>2, <1>6, SidesOfMatching
<1>10. QED
  BY <1>8, <1>9 DEF A, B

(* A mapping without elements on one side is empty.                         *)
LEMMA AllOrNothing ==
  ASSUME NEW m, IsFiniteSet(m), NEW S, IsFiniteSet(S),
         Cardinality(m) <= Cardinality(S), NEW otherwise, One(Fraction(Cardinality(m), Cardinality(S), otherwise))
  PROVE  Cardinality(m) = Cardinality(S)
<1>1. Cardinality(m) \in Nat /\ Cardinality(S) \in Nat
  BY FS_CardinalityType
<1>2. QED
  BY <1>1, WholeFraction

(* ... and so is the one of edges ...                                       *)
LEMMA EdgesOneToOne ==
  ASSUME CompInv, phase = "done", One(Metrics.edgeRecall), One(Metrics.edgePrecision)
  PROVE  /\ OneToOne(edgeMap, DOMAIN agent.edges, DOMAIN truth.edges) /\ IsFiniteSet(edgeMap)
         /\ edgeMap \subseteq DOMAIN EdgeWeights
         /\ Cardinality(edgeMap) = Cardinality(DOMAIN truth.edges)
<1> DEFINE w == EdgeWeights  A == DOMAIN agent.edges  B == DOMAIN truth.edges
<1>1. ConceptsMapped /\ edgeMap \in Matchings(DOMAIN w)
  BY DEF CompInv, Aligned, ConceptsMapped, Heaviest
<1>2. IsFiniteSet(DOMAIN w) /\ Between(DOMAIN w, A, B)
  BY <1>1, EdgeWeightsAre
<1>3. IsFiniteSet(A) /\ IsFiniteSet(B)
  BY GraphsFinite DEF CompInv
<1>4. One(Fraction(Cardinality(Rights(edgeMap)), Cardinality(B), 1))
  BY DEF Metrics
<1>5. One(Fraction(Cardinality(edgeMap), Cardinality(A), 0))
  BY DEF Metrics
<1> HIDE DEF w, A, B
<1>6. /\ IsFiniteSet(edgeMap) /\ IsFiniteSet(Rights(edgeMap)) /\ Rights(edgeMap) \in SUBSET B
      /\ Cardinality(Rights(edgeMap)) = Cardinality(edgeMap)
  BY <1>1, <1>2, SidesOfMatching
<1>7. Cardinality(Rights(edgeMap)) <= Cardinality(B)
  BY <1>3, <1>6, FS_Subset
<1>8. Cardinality(Rights(edgeMap)) = Cardinality(B)
  BY <1>3, <1>4, <1>6, <1>7, AllOrNothing
<1>9. Cardinality(edgeMap) = Cardinality(A)
  BY <1>5, WholeFraction
<1>10. OneToOne(edgeMap, A, B)
  BY <1>1, <1>2, <1>3, <1>8, <1>9, AsLargeAsBoth
<1>11. edgeMap \subseteq DOMAIN w
  BY <1>1 DEF Matchings
<1>12. QED
  BY <1>6, <1>8, <1>10, <1>11 DEF A, B, w

(* ... and the one of concepts.                                             *)
LEMMA ConceptsOneToOne ==
  ASSUME CompInv, phase = "done", One(Metrics.conceptRecall), One(Metrics.conceptPrecision)
  PROVE  OneToOne(conceptMap, Attempted, Expected)
<1> DEFINE D == DOMAIN ConceptWeights
<1>1. ConceptsMapped
  BY DEF CompInv, Aligned, ConceptsMapped
<1>2. IsFiniteSet(D) /\ Between(D, Attempted, Expected) /\ conceptMap \in Matchings(D)
  BY <1>1, ConceptPairs
<1>3. IsFiniteSet(Attempted) /\ IsFiniteSet(Expected)
  BY ConceptSetsFinite DEF CompInv
<1>4. One(Fraction(Cardinality(Rights(conceptMap)), Cardinality(Expected), 1))
  BY DEF Metrics
<1>5. One(Fraction(Cardinality(conceptMap), Cardinality(Attempted), 1))
  BY DEF Metrics
<1> HIDE DEF D
<1>6. /\ IsFiniteSet(conceptMap)
      /\ IsFiniteSet(Rights(conceptMap)) /\ Rights(conceptMap) \in SUBSET Expected
      /\ IsFiniteSet(Lefts(conceptMap)) /\ Lefts(conceptMap) \in SUBSET Attempted
      /\ Cardinality(Lefts(conceptMap)) = Cardinality(conceptMap)
  BY <1>2, SidesOfMatching
<1>7. Cardinality(Rights(conceptMap)) <= Cardinality(Expected)
  BY <1>3, <1>6, FS_Subset
<1>8. Cardinality(Lefts(conceptMap)) <= Cardinality(Attempted)
  BY <1>3, <1>6, FS_Subset
<1>9. Cardinality(Rights(conceptMap)) = Cardinality(Expected)
  BY <1>3, <1>4, <1>6, <1>7, AllOrNothing
<1>10. Cardinality(conceptMap) = Cardinality(Attempted)
  BY <1>3, <1>5, <1>6, <1>8, AllOrNothing
<1>11. QED
  BY <1>2, <1>3, <1>9, <1>10, AsLargeAsBoth

(* The ends that are hit are all the true ends and all the ends claimed.    *)
LEMMA EndsSame ==
  ASSUME CompInv, phase = "done", IsFiniteSet(nodeMap),
         One(Metrics.endRecall), One(Metrics.endPrecision)
  PROVE  Renamed(Range(agent.ends), nodeMap) = truth.ends
<1> DEFINE E == MappedOf(Range(agent.ends))  T == truth.ends
<1>1. IsFiniteSet(T)
  BY GraphsFinite DEF CompInv
<1>2. IsFiniteSet(E)
  <2> DEFINE S == {p \in nodeMap : p[1] \in Range(agent.ends)}  f == [p \in S |-> p[2]]
  <2>1. IsFiniteSet(S)
    BY FS_Subset
  <2>2. E = {f[p] : p \in S}
    BY DEF MappedOf, Rights
  <2> HIDE DEF E, S, f
  <2>3. QED
    BY <2>1, <2>2, ImageFinite
<1>3. One(Fraction(Cardinality(E \cap T), Cardinality(T), 1))
  BY DEF Metrics
<1>4. One(Fraction(Cardinality(E \cap T), Cardinality(E), 0))
  BY DEF Metrics
<1>5. E = Renamed(Range(agent.ends), nodeMap)
  BY DEF MappedOf, Rights, Renamed
<1> HIDE DEF E, T
<1> DEFINE C == E \cap T
<1>6. /\ IsFiniteSet(C) /\ C \in SUBSET E /\ C \in SUBSET T
      /\ Cardinality(C) <= Cardinality(T)
  BY <1>1, <1>2, FS_Intersection
<1> HIDE DEF C
<1>7. Cardinality(C) = Cardinality(T)
  BY <1>1, <1>3, <1>6, AllOrNothing DEF C
<1>8. Cardinality(C) = Cardinality(E)
  BY <1>4, WholeFraction DEF C
<1>9. C = E /\ C = T
  BY <1>1, <1>2, <1>6, <1>7, <1>8, SameSize
<1>10. QED
  BY <1>5, <1>9 DEF T

(* Every slot of a mapped node says what is true, and so does every condition.*)
LEMMA SlotsSame ==
  ASSUME CompInv, phase = "done", IsFiniteSet(nodeMap),
         OneToOne(nodeMap, DOMAIN agent.nodes, truth.nodes), Lefts(conceptMap) = Attempted,
         \A p \in Slots : One(Metrics.correct[p]), NEW q \in nodeMap, NEW p \in Slots
  PROVE  SameValue(agent.nodes[q[1]][p], truth.slots[q[2]][p])
<1> DEFINE f == [x \in nodeMap |-> SlotScore(x[1], x[2], p)]
<1>1. ConceptsMapped
  BY DEF CompInv, Aligned, ConceptsMapped
<1>2. \A x \in nodeMap : x[1] \in DOMAIN agent.nodes /\ x[2] \in truth.nodes
  BY DEF OneToOne, Lefts, Rights
<1>3. \A x \in nodeMap : f[x] \in Int /\ f[x] <= 4
  BY <1>1, <1>2, SlotScoreIs
<1>4. Score(nodeMap, f) = 4 * Cardinality(nodeMap)
  <2>1. One(Correctness(p))
    BY DEF Metrics
  <2>2. nodeMap # {}
    OBVIOUS
  <2>3. QED
    BY <2>1, <2>2 DEF One, Correctness, Full
<1>5. f[q] = SlotScore(q[1], q[2], p)
  OBVIOUS
<1> HIDE DEF f
<1>6. f[q] = 4
  BY <1>3, <1>4, ScoreFull
<1>7. QED
  BY <1>1, <1>2, <1>5, <1>6, SlotScoreIs

LEMMA ConditionsSame ==
  ASSUME CompInv, phase = "done", IsFiniteSet(edgeMap), Lefts(conceptMap) = Attempted,
         OneToOne(edgeMap, DOMAIN agent.edges, DOMAIN truth.edges),
         Cardinality(edgeMap) = Cardinality(DOMAIN truth.edges),
         One(Metrics.conditions), NEW q \in edgeMap
  PROVE  SameValue(agent.edges[q[1]].condition, ConditionOf(q[2]))
<1> DEFINE f == [x \in edgeMap |-> ConditionScore(x[1], x[2])]
<1>1. ConceptsMapped
  BY DEF CompInv, Aligned, ConceptsMapped
<1>2. \A x \in edgeMap : x[1] \in DOMAIN agent.edges /\ x[2] \in DOMAIN truth.edges
  BY DEF OneToOne, Lefts, Rights
<1>3. \A x \in edgeMap : f[x] \in Int /\ f[x] <= 1
  BY <1>1, <1>2, ConditionScoreIs
<1>4. One(Fraction(Score(edgeMap, f), Cardinality(DOMAIN truth.edges), 1))
  BY DEF Metrics
<1>5. f[q] = ConditionScore(q[1], q[2])
  OBVIOUS
<1>6. Cardinality(edgeMap) # 0 /\ Cardinality(edgeMap) \in Nat
  BY FS_EmptySet, FS_CardinalityType
<1> HIDE DEF f
<1>7. Score(edgeMap, f) = 1 * Cardinality(edgeMap)
  BY <1>4, <1>6, WholeFraction
<1>8. f[q] = 1
  BY <1>3, <1>7, ScoreFull
<1>9. QED
  BY <1>1, <1>2, <1>5, <1>8, ConditionScoreIs

(* A reconstruction for which reconstruction_complete answers true is the   *)
(* true process under other names, for all graphs and similarities.         *)
THEOREM CompleteIsTheTruth == Spec => []CompleteIsFaithful
<1>1. CompInv => CompleteIsFaithful
  <2> SUFFICES ASSUME CompInv, phase = "done", Complete(metrics)
               PROVE  Faithful
    BY DEF CompleteIsFaithful
  <2>1. metrics = Metrics
    BY DEF CompInv
  <2>2. /\ Metrics.startCorrect
        /\ One(Metrics.nodeRecall) /\ One(Metrics.nodePrecision)
        /\ One(Metrics.edgeRecall) /\ One(Metrics.edgePrecision)
        /\ One(Metrics.endRecall) /\ One(Metrics.endPrecision)
        /\ \A p \in Slots : One(Metrics.correct[p])
        /\ One(Metrics.conditions)
        /\ One(Metrics.conceptRecall) /\ One(Metrics.conceptPrecision)
    BY <2>1 DEF Complete
  <2>3. OneToOne(nodeMap, DOMAIN agent.nodes, truth.nodes) /\ IsFiniteSet(nodeMap)
    BY <2>2, NodesOneToOne
  <2>4. /\ OneToOne(edgeMap, DOMAIN agent.edges, DOMAIN truth.edges) /\ IsFiniteSet(edgeMap)
        /\ edgeMap \subseteq DOMAIN EdgeWeights
        /\ Cardinality(edgeMap) = Cardinality(DOMAIN truth.edges)
    BY <2>2, EdgesOneToOne
  <2>5. OneToOne(conceptMap, Attempted, Expected)
    BY <2>2, ConceptsOneToOne
  <2>6. Lefts(conceptMap) = Attempted
    BY <2>5 DEF OneToOne
  <2>7. \A q \in edgeMap : Joins(q[1], q[2])
    BY <2>4, EdgeWeightsAre DEF CompInv, Aligned, ConceptsMapped
  <2>8. Renamed(Range(agent.starts), nodeMap) = truth.starts
    <3>1. MappedOf(Range(agent.starts)) = truth.starts
      BY <2>2 DEF Metrics
    <3>2. QED
      BY <3>1 DEF MappedOf, Rights, Renamed
  <2>9. Renamed(Range(agent.ends), nodeMap) = truth.ends
    BY <2>2, <2>3, EndsSame
  <2>10. \A q \in nodeMap, p \in Slots : SameValue(agent.nodes[q[1]][p], truth.slots[q[2]][p])
    BY <2>2, <2>3, <2>6, SlotsSame
  <2>11. \A q \in edgeMap : SameValue(agent.edges[q[1]].condition, ConditionOf(q[2]))
    BY <2>2, <2>4, <2>6, ConditionsSame
  <2>12. QED
    BY <2>3, <2>4, <2>5, <2>7, <2>8, <2>9, <2>10, <2>11 DEF Faithful
<1>2. QED
  BY CompInvariance, <1>1, PTL
=============================================================================
