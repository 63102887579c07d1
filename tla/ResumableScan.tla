--------------------------- MODULE ResumableScan ---------------------------
(***************************************************************************)
(* What a resumable scan over a keyset promises (indexer/index_pass.go:    *)
(* 60-65).  Positions are handled in any order, several at a time.  A mark *)
(* moves over positions that are all handled, and a checkpoint remembers a *)
(* mark, so that a scan that starts again from its checkpoint skips        *)
(* nothing.  A scan that says it is complete has handled everything.       *)
(***************************************************************************)
EXTENDS Naturals

CONSTANT NumPosts          \* length of the keyset

VARIABLES stored,          \* positions that have been handled
          mark,            \* everything up to here is handled
          saved,           \* the mark a restart begins from
          complete         \* the scan has reported success

vars == <<stored, mark, saved, complete>>

Init == /\ stored \in SUBSET (1..NumPosts)
        /\ mark = 0
        /\ saved = 0
        /\ complete = FALSE

Store == /\ ~complete
         /\ stored' \in SUBSET (1..NumPosts)
         /\ stored \subseteq stored'
         /\ UNCHANGED <<mark, saved, complete>>

Advance == /\ ~complete
           /\ mark' \in mark..NumPosts
           /\ 1..mark' \subseteq stored
           /\ UNCHANGED <<stored, saved, complete>>

Save == /\ ~complete
        /\ saved' = mark
        /\ UNCHANGED <<stored, mark, complete>>

Restart == /\ ~complete
           /\ mark' = saved
           /\ UNCHANGED <<stored, saved, complete>>

Complete == /\ ~complete
            /\ 1..NumPosts \subseteq stored
            /\ complete' = TRUE
            /\ saved' \in {0, saved}
            /\ UNCHANGED <<stored, mark>>

Next == Store \/ Advance \/ Save \/ Restart \/ Complete

Spec == Init /\ [][Next]_vars
=============================================================================
