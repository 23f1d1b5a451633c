------------------------------ MODULE Assignment ------------------------------
(***************************************************************************)
(* comparison/assignment.py: a one-to-one mapping of greatest weight, by    *)
(* the Hungarian method.                                                    *)
(*                                                                         *)
(* Abstractions.  Weights are tenths, ten at most.  Identifiers are put in  *)
(* a fixed order; that it is the order of their spelling is immaterial.     *)
(***************************************************************************)
EXTENDS Integers, Sequences, FiniteSets, Functions, SequencesExt

CONSTANTS
  Forbidden,              \* the cost of a pair that may not be matched (1e15)
  Infinite                \* more than any reduced cost (1e18)

ASSUME CostsAssumption ==
  Forbidden \in Nat /\ Infinite \in Nat /\ Infinite > 2 * Forbidden + 10

Sorted(S) == SetToSeq(S)

(* Rows and columns beyond the real ones are dummies, which cost nothing.   *)
Cost(weights, rows, columns, threshold) ==
  [c \in 1 .. Len(rows) + Len(columns) |-> [r \in 1 .. Len(rows) + Len(columns) |->
     IF r > Len(rows) \/ c > Len(columns) THEN 0
     ELSE IF <<rows[r], columns[c]>> \in DOMAIN weights
             /\ weights[<<rows[r], columns[c]>>] >= threshold
          THEN -weights[<<rows[r], columns[c]>>]
     ELSE Forbidden]]

(* Rows enter one after another at column 0.  Columns join the tree of      *)
(* cheapest alternating paths, and potentials u and v move, until a free    *)
(* column is reached; the path to it is then flipped.                       *)
Fresh(size) ==
  LET zero == [k \in 0 .. size |-> 0]
  IN [row |-> 0, at |-> 0, state |-> "ready", match |-> zero, previous |-> zero,
      u |-> zero, v |-> zero, minimum |-> zero, used |-> {}]

Entered(s, size) ==
  [s EXCEPT !.row = @ + 1, !.at = 0, !.state = "growing", !.match[0] = s.row + 1,
            !.minimum = [c \in 0 .. size |-> Infinite], !.used = {}]

Least(S) == CHOOSE x \in S : \A y \in S : x <= y

Grown(s, size, cost) ==
  LET used    == s.used \cup {s.at}
      row     == s.match[s.at]
      open    == (1 .. size) \ used
      reduced == [c \in open |-> cost[c][row] - s.u[row] - s.v[c]]
      closer  == {c \in open : reduced[c] < s.minimum[c]}
      minimum == [c \in 0 .. size |-> IF c \in closer THEN reduced[c] ELSE s.minimum[c]]
      delta   == Least({minimum[c] : c \in open})
      reached == Least({c \in open : minimum[c] = delta})
      inTree  == {s.match[c] : c \in used}
  IN [row      |-> s.row,
      at       |-> reached,
      state    |-> IF s.match[reached] = 0 THEN "flipping" ELSE "growing",
      match    |-> s.match,
      previous |-> [c \in 0 .. size |-> IF c \in closer THEN s.at ELSE s.previous[c]],
      u        |-> [r \in 0 .. size |-> IF r \in inTree THEN s.u[r] + delta ELSE s.u[r]],
      v        |-> [c \in 0 .. size |-> IF c \in used THEN s.v[c] - delta ELSE s.v[c]],
      minimum  |-> [c \in 0 .. size |-> IF c \in used THEN minimum[c] ELSE minimum[c] - delta],
      used     |-> used]

(* mutant of Flipped: only the last column of the path is matched anew *)
FlippedOnce(s) ==
  [s EXCEPT !.match[s.at] = s.match[0], !.at = 0, !.state = "ready"]

Flipped(s) ==
  [s EXCEPT !.match[s.at] = s.match[s.previous[s.at]],
            !.at          = s.previous[s.at],
            !.state       = IF s.previous[s.at] = 0 THEN "ready" ELSE "flipping"]

(* The matched pairs that are real and allowed. *)
Matched(s, weights, rows, columns, threshold) ==
  {<<rows[s.match[c]], columns[c]>> :
     c \in {k \in 1 .. Len(columns) :
              /\ s.match[k] \in 1 .. Len(rows)
              /\ <<rows[s.match[k]], columns[k]>> \in {p \in DOMAIN weights : weights[p] >= threshold}}}
-----------------------------------------------------------------------------
(* What the method promises: of all one-to-one mappings, a heaviest one. *)
Score(assignment, weights) ==
  MapThenSumSet(LAMBDA p : weights[p], assignment)

Matchings(pairs) ==
  {m \in SUBSET pairs : \A p, q \in m : p # q => p[1] # q[1] /\ p[2] # q[2]}

Heaviest(weights) ==
  LET matchings == Matchings(DOMAIN weights)
  IN {m \in matchings : \A other \in matchings : Score(other, weights) <= Score(m, weights)}

(* Pairs that share an element are in one component. *)
ComponentOf(pairs, p) ==
  LET near[k \in 0 .. Cardinality(pairs)] ==
        IF k = 0 THEN {p}
        ELSE LET reached == near[k - 1]
             IN {q \in pairs : \E r \in reached : q[1] = r[1] \/ q[2] = r[2]}
  IN near[Cardinality(pairs)]

Components(weights) == {ComponentOf(DOMAIN weights, p) : p \in DOMAIN weights}
=============================================================================
