--------------------------- MODULE MCToolApproval ---------------------------
(* ToolApproval on small instances. *)
EXTENDS ToolApproval, TLC

\* Every request creates at most a result turn and an anchor, so MaxTurns is
\* never what stops an insert.
ASSUME MaxTurns >= 1 + 2 * Cardinality(Req)

\* A request that has not started or has returned no longer uses its locals.
View ==
  LET Local(f, none) == [r \in Req |-> IF Live(r) THEN f[r] ELSE none]
  IN <<dbVars, holder, pc, req, history, Local(seen, 0), Local(tgt, 0),
       Local(out, 0), Local(autoRan, 0), Local(wrote, 0)>>

Symmetry == Permutations(Node) \cup Permutations(Req)
=============================================================================
