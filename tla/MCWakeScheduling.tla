-------------------------- MODULE MCWakeScheduling --------------------------
(* WakeScheduling on small instances. *)
EXTENDS WakeScheduling, TLC

\* Requests are interchangeable, and so are the participants.
Symmetry == Permutations(UserTask) \cup Permutations(Conv)
=============================================================================
