---------------------------- MODULE MCIndexerJob ----------------------------
(* Instances of IndexerJob for TLC. *)
EXTENDS IndexerJob

Ended(j) == worker[j] \in {"off", "gone"}

\* Past the build and its release, a claim and a position are read no more.
Late(j) == worker[j] \in {"catchup", "fail", "failing", "ack", "acking", "finish", "finishing", "after"}

\* What a worker that ended keeps in memory no longer matters, nor that it
\* ever ran, nor where an earlier run began; of the stalls only that there are.
View ==
  <<rowVars, indexVars, adminVars, activationVars, cursor, lastIndexed, stalls = {},
    {j \in strays : j \in Job => j = row.job \/ ~Ended(j)},
    [j \in Job |-> IF Ended(j) THEN <<>>
                   ELSE IF Late(j) THEN <<worker[j], mine[j]>>
                   ELSE <<worker[j], mine[j], claim[j], pos[j]>>]>>
=============================================================================
