----------------------------- MODULE DecideOnce -----------------------------
(***************************************************************************)
(* What the approval protocol promises about a batch of tool calls, with   *)
(* no turns, nodes, streams or failures: at most one click ever decides a  *)
(* batch, and after that decision every call of the batch runs at most     *)
(* once.  ToolApproval implements this specification.                      *)
(***************************************************************************)
EXTENDS Naturals

CONSTANTS
  Batch,   \* batches of tool calls (the assistant turns that carry them)
  Tool,    \* the calls of a batch
  Req,     \* the clicks
  NoReq    \* no click

VARIABLES
  decider, \* the click that decided each batch, or NoReq
  ran      \* how often each call has run

vars == <<decider, ran>>

Init ==
  /\ decider = [b \in Batch |-> NoReq]
  /\ ran = [b \in Batch |-> [t \in Tool |-> 0]]

\* A click decides a batch nobody has decided.
Decide(b, r) ==
  /\ decider[b] = NoReq
  /\ decider' = [decider EXCEPT ![b] = r]
  /\ UNCHANGED ran

\* A call of a decided batch runs, for the first time.
Run(b, t) ==
  /\ decider[b] # NoReq
  /\ ran[b][t] = 0
  /\ ran' = [ran EXCEPT ![b][t] = 1]
  /\ UNCHANGED decider

Next ==
  \/ \E b \in Batch, r \in Req : Decide(b, r)
  \/ \E b \in Batch, t \in Tool : Run(b, t)

Spec == Init /\ [][Next]_vars
=============================================================================
