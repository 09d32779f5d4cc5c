--------------------------- MODULE MCWeightCache ---------------------------
(* Small instances of WeightCache: see the .cfg files for the questions.    *)
EXTENDS WeightCache, TLC

\* hashBytes() without collisions: every content is its own hash.
Injective == [v \in Contents |-> v]

\* The program variables are interchangeable.
Symmetry == Permutations(Slots)
=============================================================================
