---------------------------- MODULE MCIndexPass ----------------------------
(* Instances of IndexPass for TLC. *)
EXTENDS IndexPass, TLC

\* The workers of a pass are interchangeable.
Symmetry == Permutations(Worker)

\* A store with gaps in the keyset.
MCStoredBefore == {{2, 4} \cap 1..NumPosts}
=============================================================================
