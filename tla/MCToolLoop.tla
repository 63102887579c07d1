----------------------------- MODULE MCToolLoop -----------------------------
(* Instances of ToolLoop for TLC. *)
EXTENDS ToolLoop

\* The first run may use tools for two rounds, later ones for one.
MCRounds == [r \in 1..MaxRuns |-> IF r = 1 THEN 2 ELSE 1]
=============================================================================
