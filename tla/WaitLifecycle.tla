--------------------------- MODULE WaitLifecycle ---------------------------
(***************************************************************************)
(* What the wait_for_async_work protocol promises for one thread and bot,  *)
(* with no KV store, jobs, locks or failures: at most one wait is pending, *)
(* a wait ends once and in one way, and only a wait that ended by resuming *)
(* wakes its conversation, once.  WakeScheduling implements this.          *)
(***************************************************************************)
EXTENDS Naturals

CONSTANT Wait     \* the waits ever scheduled

VARIABLES
  status,         \* what became of each wait
  woken           \* how many wake turns each wait has produced

vars == <<status, woken>>

Ends == {"resumed", "canceled", "released", "expired"}

Init ==
  /\ status = [w \in Wait |-> "none"]
  /\ woken = [w \in Wait |-> 0]

\* A wait starts while no other is pending.
Start(w) ==
  /\ status[w] = "none"
  /\ \A v \in Wait : status[v] # "pending"
  /\ status' = [status EXCEPT ![w] = "pending"]
  /\ UNCHANGED woken

\* A pending wait ends.
End(w, how) ==
  /\ status[w] = "pending"
  /\ status' = [status EXCEPT ![w] = how]
  /\ UNCHANGED woken

\* A resumed wait produces its wake turn.
Wake(w) ==
  /\ status[w] = "resumed"
  /\ woken[w] = 0
  /\ woken' = [woken EXCEPT ![w] = 1]
  /\ UNCHANGED status

Next ==
  \E w \in Wait : \/ Start(w) \/ Wake(w)
                  \/ \E how \in Ends : End(w, how)

Spec == Init /\ [][Next]_vars
=============================================================================
