--------------------------- MODULE MCGraphMutations ---------------------------
(* Bounds for GraphMutations: two nodes with a list slot each, and an edge    *)
(* whose condition is the scalar slot; one observation, which has one of the  *)
(* two quotes cited from it in its text.                                      *)
EXTENDS GraphMutations, TLC

CONSTANTS n1, n2, c1, c2, o1, said, unsaid

MCTexts == o1 :> {said}
MCEvidence == {Cite(o1, said), Cite(o1, unsaid)}
MCNodeProperties == <<"reads">>
Symmetry == Permutations(Nodes) \cup Permutations(Concepts)
=============================================================================
