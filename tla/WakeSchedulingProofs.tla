------------------------ MODULE WakeSchedulingProofs ------------------------
(***************************************************************************)
(* Machine-checked theorems about WakeScheduling, for any participants,    *)
(* requests, deliveries, failures and limits.                              *)
(***************************************************************************)
EXTENDS WakeScheduling, TLAPS

-----------------------------------------------------------------------------
(* Locals of a task *)

LEMMA UserInTask == UserTask \subseteq Task
  BY DEF Task

\* Only the wait of task k changes.
KeepsLocals(k) ==
  /\ loc' \in [Task -> Locals]
  /\ \A j \in Task : /\ loc'[j].kind = loc[j].kind
                     /\ loc'[j].conv = loc[j].conv
                     /\ loc'[j].count = loc[j].count
                     /\ j # k => loc'[j] = loc[j]

LEMMA SetWait ==
  ASSUME loc \in [Task -> Locals], NEW k \in Task, NEW w \in Wait \cup {NoWait},
         loc' = [loc EXCEPT ![k].wait = w]
  PROVE  KeepsLocals(k) /\ loc'[k].wait = w
  BY DEF Locals, KeepsLocals

LEMMA SetPost ==
  ASSUME loc \in [Task -> Locals], NEW k \in Task, NEW p \in Task,
         loc' = [loc EXCEPT ![k].post = p]
  PROVE  loc' \in [Task -> Locals]
  BY DEF Locals

LEMMA SetCount ==
  ASSUME loc \in [Task -> Locals], NEW k \in Task, NEW n \in Nat,
         loc' = [loc EXCEPT ![k].count = n]
  PROVE  loc' \in [Task -> Locals]
  BY DEF Locals

LEMMA SetFired ==
  ASSUME job \in [Conv -> [wait : Wait \cup {NoWait}, fired : BOOLEAN]],
         NEW c \in Conv, NEW b \in BOOLEAN, job' = [job EXCEPT ![c].fired = b]
  PROVE  job' \in [Conv -> [wait : Wait \cup {NoWait}, fired : BOOLEAN]]
  OBVIOUS

\* A job that is there belongs to a wait.
LEMMA JobHasWait ==
  ASSUME TypeOK, NEW c \in Conv, job[c] # NoJob, ~ job[c].fired
  PROVE  job[c].wait \in Wait
<1>1. job[c] \in [wait : Wait \cup {NoWait}, fired : BOOLEAN]
  BY DEF TypeOK
<1>2. job[c].fired = FALSE
  BY <1>1
<1>3. job[c] = [wait |-> job[c].wait, fired |-> job[c].fired]
  BY <1>1
<1> QED BY <1>1, <1>2, <1>3 DEF NoJob

-----------------------------------------------------------------------------
(* Each action preserves the types and the invariant *)

\* A message restarts its conversation's chain, so the counts read before it are
\* still bounds.
LEMMA MessagePreserves ==
  ASSUME TypeOK, WakeInv, NEW k \in UserTask, NEW c \in Conv,
         Message(k, c)
  PROVE  TypeOK' /\ WakeInv'
<1> USE WakeAssumption, UserInTask DEF TypeOK, Message, NoLoc, Goto, waitVars,
         history, taskVars
<1>0. TypeOK'
  BY DEF Pcs, Locals, NoWait
<1>1. /\ MarkerIsPending' /\ OnlyResumedWoke' /\ WaitsAreOld' /\ ConsumersHaveWaits'
      /\ WinnersAreUnique' /\ ResumesHoldLock' /\ WakeChainBounded'
  BY DEF WakeInv, MarkerIsPending, OnlyResumedWoke, WaitsAreOld, ConsumersHaveWaits,
     WinnersAreUnique, ResumesHoldLock, WakeChainBounded, Winner
<1>2. CountIsCurrent'
  <2>1. \A j \in Task : pc'[j] = "append" =>
          pc[j] = "append" /\ loc'[j] = loc[j] /\ loc[j].count \in Nat
    BY DEF Locals
  <2>2. \A d \in Conv : chain'[d] <= chain[d] /\ (d = c => chain'[d] = 0)
    OBVIOUS
  <2> QED BY <2>1, <2>2 DEF WakeInv, CountIsCurrent, ConsumersHaveWaits
<1> QED BY <1>0, <1>1, <1>2 DEF WakeInv

\* A regeneration or a follow-up starts in a known conversation.
LEMMA RevisitPreserves ==
  ASSUME TypeOK, WakeInv, NEW k \in UserTask, NEW i \in Task,
         Revisit(k, i)
  PROVE  TypeOK' /\ WakeInv'
<1> USE WakeAssumption, UserInTask DEF TypeOK, Revisit, Streams, NoLoc, Goto,
         waitVars, history, taskVars
<1>0. TypeOK'
  <2>1. PICK op \in Kinds \cap {"regenerate", "followup"} :
          loc' = [loc EXCEPT ![k] = [NoLoc EXCEPT !.kind = op, !.conv = loc[i].conv,
                                                  !.post = loc[i].post, !.found = marker]]
    BY DEF Kinds
  <2>2. [NoLoc EXCEPT !.kind = op, !.conv = loc[i].conv, !.post = loc[i].post,
                      !.found = marker] \in Locals
    BY DEF NoLoc, Locals, NoWait
  <2>3. ASSUME NEW l \in Locals PROVE [loc EXCEPT ![k] = l] \in [Task -> Locals]
    OBVIOUS
  <2>4. loc' \in [Task -> Locals]
    BY <2>1, <2>2, <2>3
  <2>5. pc' \in [Task -> Pcs]
    BY DEF Pcs
  <2> QED BY <2>4, <2>5
<1>1. /\ MarkerIsPending' /\ OnlyResumedWoke' /\ WaitsAreOld' /\ ConsumersHaveWaits'
      /\ WinnersAreUnique' /\ ResumesHoldLock' /\ CountIsCurrent' /\ WakeChainBounded'
  BY DEF WakeInv, MarkerIsPending, OnlyResumedWoke, WaitsAreOld, ConsumersHaveWaits,
     WinnersAreUnique, ResumesHoldLock, CountIsCurrent, WakeChainBounded, Winner
<1> QED BY <1>0, <1>1 DEF WakeInv

\* The wait a control shows has an owner.
LEMMA ClickControlPreserves ==
  ASSUME TypeOK, WakeInv, NEW k \in UserTask, NEW op \in {"cancel", "checknow"},
         ClickControl(k, op)
  PROVE  TypeOK' /\ WakeInv'
<1> USE WakeAssumption, UserInTask DEF TypeOK, ClickControl, NoLoc, Goto, waitVars,
         history, taskVars
<1>0. TypeOK'
  BY DEF Pcs, Locals, NoWait
<1>1. /\ MarkerIsPending' /\ OnlyResumedWoke' /\ WaitsAreOld' /\ WinnersAreUnique'
      /\ ResumesHoldLock' /\ CountIsCurrent' /\ WakeChainBounded'
  BY DEF WakeInv, MarkerIsPending, OnlyResumedWoke, WaitsAreOld, WinnersAreUnique,
     ResumesHoldLock, CountIsCurrent, WakeChainBounded, Winner
<1>2. ConsumersHaveWaits'
  <2>1. marker \in Wait /\ marker < nextWait
    BY DEF WakeInv, WaitsAreOld, MarkerIsPending, Wait, NoWait
  <2>2. owner[marker] \in Conv
    BY <2>1 DEF WakeInv, WaitsAreOld
  <2>3. /\ loc'[k].conv \in Conv /\ pc'[k] = "control"
        /\ \A j \in Task : j # k => pc'[j] = pc[j] /\ loc'[j] = loc[j]
    BY <2>2
  <2> QED BY <2>3 DEF WakeInv, ConsumersHaveWaits
<1> QED BY <1>0, <1>1, <1>2 DEF WakeInv

\* Reading the marker makes nobody a winner.
LEMMA ReadMarkerPreserves ==
  ASSUME TypeOK, WakeInv, NEW k \in Task,
         ReadMarker(k)
  PROVE  TypeOK' /\ WakeInv'
<1> USE WakeAssumption DEF TypeOK, ReadMarker, SteeredWait, Goto, waitVars, history,
         taskVars
<1>a. KeepsLocals(k)
  <2>1. CASE UNCHANGED loc
    BY <2>1 DEF KeepsLocals
  <2>2. ASSUME NEW w \in Wait \cup {NoWait}, loc' = [loc EXCEPT ![k].wait = w]
        PROVE  KeepsLocals(k)
    BY <2>2, SetWait
  <2> QED BY <2>1, <2>2
<1>b. /\ pc' \in [Task -> Pcs]
      /\ pc'[k] \in {"consume", "stream"}
      /\ pc'[k] = "consume" => loc[k].kind # "checknow"
      /\ pc'[k] \in {"consume", "lock"} => loc'[k].wait \in Wait
  <2>1. CASE /\ SteeredWait(k) # NoWait
             /\ loc' = [loc EXCEPT ![k].wait = SteeredWait(k)]
             /\ Goto(k, "consume")
    <3>1. pc' \in [Task -> Pcs]
      BY <2>1 DEF Pcs
    <3>2. loc'[k].wait \in Wait /\ pc'[k] = "consume"
      BY <2>1, SetWait DEF NoWait
    <3>3. loc[k].kind # "checknow"
      BY DEF WakeInv, ConsumersHaveWaits
    <3> QED BY <3>1, <3>2, <3>3
  <2>2. CASE Goto(k, "stream")
    <3>1. pc' \in [Task -> Pcs] /\ pc'[k] = "stream"
      BY <2>2 DEF Pcs
    <3> QED BY <3>1
  <2> QED BY <2>1, <2>2
<1>d. \A j \in Task : j # k => pc'[j] = pc[j]
  OBVIOUS
<1>c. \A j \in Task : Winner(j)' => Winner(j) /\ j # k
  BY <1>a, <1>b, <1>d DEF Winner, KeepsLocals
<1> USE <1>a, <1>b, <1>c, <1>d DEF KeepsLocals
<1>0. TypeOK'
  OBVIOUS
<1>1. /\ MarkerIsPending' /\ OnlyResumedWoke' /\ WaitsAreOld' /\ ConsumersHaveWaits'
      /\ WinnersAreUnique' /\ ResumesHoldLock' /\ CountIsCurrent' /\ WakeChainBounded'
  BY DEF WakeInv, MarkerIsPending, OnlyResumedWoke, WaitsAreOld, ConsumersHaveWaits,
     WinnersAreUnique, ResumesHoldLock, CountIsCurrent, WakeChainBounded, Winner
<1> QED BY <1>0, <1>1 DEF WakeInv

\* A consume that cancels ends the pending wait; its task is no winner.
LEMMA CancelMarkerPreserves ==
  ASSUME TypeOK, WakeInv, NEW k \in Task,
         CancelMarker(k)
  PROVE  TypeOK' /\ WakeInv'
<1> USE WakeAssumption DEF TypeOK, CancelMarker, Consume, ConsumeSucceeds, Goto,
         waitVars, history, taskVars
<1>0. TypeOK'
  BY DEF Pcs
<1>1. ConsumersHaveWaits' /\ CountIsCurrent' /\ WakeChainBounded'
  BY DEF WakeInv, ConsumersHaveWaits, CountIsCurrent, WakeChainBounded
<1>2. MarkerIsPending'
  BY DEF WakeInv, Wait, NoWait, MarkerIsPending
<1>3. OnlyResumedWoke'
  BY DEF WakeInv, OnlyResumedWoke, MarkerIsPending
<1>4. WaitsAreOld'
  BY DEF WakeInv, WaitsAreOld, MarkerIsPending
<1>5. WinnersAreUnique'
  BY DEF WakeInv, WinnersAreUnique, ConsumersHaveWaits, MarkerIsPending, Winner
<1>6. ResumesHoldLock'
  <2>1. \A j \in Task : (pc'[j] = "resume" \/ Winner(j)') => (pc[j] = "resume" \/ Winner(j))
    BY DEF Winner, WakeInv, ConsumersHaveWaits
  <2> QED BY <2>1 DEF WakeInv, ResumesHoldLock, Winner
<1> QED BY <1>0, <1>1, <1>2, <1>3, <1>4, <1>5, <1>6 DEF WakeInv

\* Only the scheduler's job goes.
LEMMA UnschedulePreserves ==
  ASSUME TypeOK, WakeInv, NEW k \in Task,
         Unschedule(k)
  PROVE  TypeOK' /\ WakeInv'
<1> USE WakeAssumption DEF TypeOK, Unschedule, NoJob, Goto, waitVars, history,
         taskVars
<1>0. TypeOK'
  BY DEF Pcs
<1>1. /\ MarkerIsPending' /\ OnlyResumedWoke' /\ WaitsAreOld' /\ ConsumersHaveWaits'
      /\ WinnersAreUnique' /\ ResumesHoldLock' /\ CountIsCurrent' /\ WakeChainBounded'
  BY DEF WakeInv, MarkerIsPending, OnlyResumedWoke, WaitsAreOld, ConsumersHaveWaits,
     WinnersAreUnique, ResumesHoldLock, CountIsCurrent, WakeChainBounded, Winner
<1> QED BY <1>0, <1>1 DEF WakeInv

\* A check-now queues on the mutex; a cancel goes to the consume.
LEMMA ReadControlPreserves ==
  ASSUME TypeOK, WakeInv, NEW k \in Task,
         ReadControl(k)
  PROVE  TypeOK' /\ WakeInv'
<1> USE WakeAssumption DEF TypeOK, ReadControl, PendingOn, Goto, waitVars, history,
         taskVars
<1>a. KeepsLocals(k)
  <2>1. CASE UNCHANGED loc
    BY <2>1 DEF KeepsLocals
  <2>2. ASSUME NEW w \in Wait \cup {NoWait}, loc' = [loc EXCEPT ![k].wait = w]
        PROVE  KeepsLocals(k)
    BY <2>2, SetWait
  <2> QED BY <2>1, <2>2
<1>b. /\ pc' \in [Task -> Pcs]
      /\ pc'[k] \in {"consume", "lock", "done"}
      /\ pc'[k] = "consume" => loc[k].kind # "checknow"
      /\ pc'[k] \in {"consume", "lock"} => loc'[k].wait \in Wait
  <2>1. ASSUME NEW w \in Wait, loc' = [loc EXCEPT ![k].wait = w],
               Goto(k, IF loc[k].kind = "cancel" THEN "consume" ELSE "lock")
        PROVE  /\ pc' \in [Task -> Pcs]
               /\ pc'[k] \in {"consume", "lock"}
               /\ pc'[k] = "consume" => loc[k].kind # "checknow"
               /\ loc'[k].wait \in Wait
    <3>1. loc'[k].wait = w
      BY <2>1, SetWait
    <3> QED BY <2>1, <3>1 DEF Pcs
  <2>2. CASE Goto(k, "done")
    <3>1. pc' \in [Task -> Pcs] /\ pc'[k] = "done"
      BY <2>2 DEF Pcs
    <3> QED BY <3>1
  <2> QED BY <2>1, <2>2
<1>d. \A j \in Task : j # k => pc'[j] = pc[j]
  OBVIOUS
<1>c. \A j \in Task : Winner(j)' => Winner(j) /\ j # k
  BY <1>a, <1>b, <1>d DEF Winner, KeepsLocals
<1> USE <1>a, <1>b, <1>c, <1>d DEF KeepsLocals
<1>0. TypeOK'
  OBVIOUS
<1>1. /\ MarkerIsPending' /\ OnlyResumedWoke' /\ WaitsAreOld' /\ ConsumersHaveWaits'
      /\ WinnersAreUnique' /\ ResumesHoldLock' /\ CountIsCurrent' /\ WakeChainBounded'
  BY DEF WakeInv, MarkerIsPending, OnlyResumedWoke, WaitsAreOld, ConsumersHaveWaits,
     WinnersAreUnique, ResumesHoldLock, CountIsCurrent, WakeChainBounded, Winner
<1> QED BY <1>0, <1>1 DEF WakeInv

\* The claimed wait is the one pending wait, and a new one.
LEMMA ClaimMarkerPreserves ==
  ASSUME TypeOK, WakeInv, NEW k \in Task,
         ClaimMarker(k)
  PROVE  TypeOK' /\ WakeInv'
<1> USE WakeAssumption DEF TypeOK, ClaimMarker, MarkerFree, Goto, waitVars, history,
         taskVars
<1>0. TypeOK'
  <2>1. nextWait \in Wait
    BY DEF Wait
  <2>2. loc' \in [Task -> Locals]
    BY <2>1, SetWait DEF KeepsLocals
  <2>3. shownOn' \in [Wait -> Task \cup {NoTask}] /\ owner' \in [Wait -> Conv \cup {NoConv}]
    BY <2>1 DEF Locals
  <2> QED BY <2>1, <2>2, <2>3 DEF Pcs
<1>1. ResumesHoldLock' /\ CountIsCurrent' /\ WakeChainBounded'
  BY DEF WakeInv, ResumesHoldLock, CountIsCurrent, WakeChainBounded, Winner
<1>2. MarkerIsPending'
  BY DEF WakeInv, Wait, NoWait, MarkerIsPending
<1>3. OnlyResumedWoke'
  BY DEF WakeInv, Wait, NoWait, OnlyResumedWoke, MarkerIsPending, WaitsAreOld,
     ConsumersHaveWaits
<1>4. WaitsAreOld'
  BY DEF WakeInv, Wait, NoWait, WaitsAreOld, ConsumersHaveWaits, MarkerIsPending
<1>5. ConsumersHaveWaits'
  BY DEF WakeInv, Wait, NoWait, ConsumersHaveWaits
<1>6. WinnersAreUnique'
  BY DEF WakeInv, Wait, NoWait, WinnersAreUnique, MarkerIsPending, WaitsAreOld,
     ConsumersHaveWaits, Winner
<1> QED BY <1>0, <1>1, <1>2, <1>3, <1>4, <1>5, <1>6 DEF WakeInv

\* The job belongs to the wait just claimed.
LEMMA ScheduleJobPreserves ==
  ASSUME TypeOK, WakeInv, NEW k \in Task,
         ScheduleJob(k)
  PROVE  TypeOK' /\ WakeInv'
<1> USE WakeAssumption DEF TypeOK, ScheduleJob, NoJob, Job, Goto, waitVars, history,
         taskVars
<1>0. TypeOK'
  <2>1. ASSUME NEW c \in Conv, NEW r \in [wait : Wait \cup {NoWait}, fired : BOOLEAN]
        PROVE  [job EXCEPT ![c] = r] \in [Conv -> [wait : Wait \cup {NoWait}, fired : BOOLEAN]]
    OBVIOUS
  <2>2. [wait |-> loc[k].wait, fired |-> FALSE] \in [wait : Wait \cup {NoWait}, fired : BOOLEAN]
    BY DEF WakeInv, ConsumersHaveWaits
  <2>3. loc[k].conv \in Conv
    BY DEF WakeInv, ConsumersHaveWaits
  <2>4. job' \in [Conv -> [wait : Wait \cup {NoWait}, fired : BOOLEAN]]
    BY <2>1, <2>2, <2>3
  <2> QED BY <2>4 DEF Pcs
<1>1. /\ MarkerIsPending' /\ OnlyResumedWoke' /\ WaitsAreOld' /\ ConsumersHaveWaits'
      /\ WinnersAreUnique' /\ ResumesHoldLock' /\ CountIsCurrent' /\ WakeChainBounded'
  BY DEF WakeInv, MarkerIsPending, OnlyResumedWoke, WaitsAreOld, ConsumersHaveWaits,
     WinnersAreUnique, ResumesHoldLock, CountIsCurrent, WakeChainBounded, Winner
<1> QED BY <1>0, <1>1 DEF WakeInv

\* Undoing the claim ends the pending wait.
LEMMA ReleaseMarkerPreserves ==
  ASSUME TypeOK, WakeInv, NEW k \in Task,
         ReleaseMarker(k)
  PROVE  TypeOK' /\ WakeInv'
<1> USE WakeAssumption DEF TypeOK, ReleaseMarker, Consume, ConsumeSucceeds, Goto,
         waitVars, history, taskVars
<1>0. TypeOK'
  BY DEF Pcs
<1>1. /\ ConsumersHaveWaits' /\ ResumesHoldLock' /\ CountIsCurrent' /\ WakeChainBounded'
  BY DEF WakeInv, ConsumersHaveWaits, ResumesHoldLock, CountIsCurrent,
     WakeChainBounded, Winner
<1>2. MarkerIsPending'
  BY DEF WakeInv, Wait, NoWait, MarkerIsPending
<1>3. OnlyResumedWoke'
  BY DEF WakeInv, OnlyResumedWoke, MarkerIsPending
<1>4. WaitsAreOld'
  BY DEF WakeInv, WaitsAreOld, MarkerIsPending
<1>5. WinnersAreUnique'
  BY DEF WakeInv, WinnersAreUnique, ConsumersHaveWaits, MarkerIsPending, Winner
<1> QED BY <1>0, <1>1, <1>2, <1>3, <1>4, <1>5 DEF WakeInv

\* A stream ends.
LEMMA EndStreamPreserves ==
  ASSUME TypeOK, WakeInv, NEW k \in Task,
         EndStream(k)
  PROVE  TypeOK' /\ WakeInv'
<1> USE WakeAssumption DEF TypeOK, EndStream, Goto, waitVars, history, taskVars
<1>0. TypeOK'
  BY DEF Pcs
<1>1. /\ MarkerIsPending' /\ OnlyResumedWoke' /\ WaitsAreOld' /\ ConsumersHaveWaits'
      /\ WinnersAreUnique' /\ ResumesHoldLock' /\ CountIsCurrent' /\ WakeChainBounded'
  BY DEF WakeInv, MarkerIsPending, OnlyResumedWoke, WaitsAreOld, ConsumersHaveWaits,
     WinnersAreUnique, ResumesHoldLock, CountIsCurrent, WakeChainBounded, Winner
<1> QED BY <1>0, <1>1 DEF WakeInv

\* The mutex was free, so nobody else of the conversation is past it.
LEMMA LockResumePreserves ==
  ASSUME TypeOK, WakeInv, NEW k \in Task,
         LockResume(k)
  PROVE  TypeOK' /\ WakeInv'
<1> USE WakeAssumption DEF TypeOK, LockResume, LockFree, Goto, waitVars, history,
         taskVars
<1>0. TypeOK'
  BY DEF Pcs
<1>1. /\ MarkerIsPending' /\ OnlyResumedWoke' /\ WaitsAreOld' /\ ConsumersHaveWaits'
      /\ WinnersAreUnique' /\ CountIsCurrent' /\ WakeChainBounded'
  BY DEF WakeInv, MarkerIsPending, OnlyResumedWoke, WaitsAreOld, ConsumersHaveWaits,
     WinnersAreUnique, CountIsCurrent, WakeChainBounded, Winner
<1>2. ResumesHoldLock'
  BY DEF WakeInv, ResumesHoldLock, ConsumersHaveWaits, Winner
<1> QED BY <1>0, <1>1, <1>2 DEF WakeInv

\* The wake is dropped.
LEMMA GiveUpLockPreserves ==
  ASSUME TypeOK, WakeInv, NEW k \in Task,
         GiveUpLock(k)
  PROVE  TypeOK' /\ WakeInv'
<1> USE WakeAssumption DEF TypeOK, GiveUpLock, LockFree, Goto, waitVars, history,
         taskVars
<1>0. TypeOK'
  BY DEF Pcs
<1>1. /\ MarkerIsPending' /\ OnlyResumedWoke' /\ WaitsAreOld' /\ ConsumersHaveWaits'
      /\ WinnersAreUnique' /\ ResumesHoldLock' /\ CountIsCurrent' /\ WakeChainBounded'
  BY DEF WakeInv, MarkerIsPending, OnlyResumedWoke, WaitsAreOld, ConsumersHaveWaits,
     WinnersAreUnique, ResumesHoldLock, CountIsCurrent, WakeChainBounded, Winner
<1> QED BY <1>0, <1>1 DEF WakeInv

\* The consumer wins a wait that was pending, which nobody had won.
LEMMA ConsumeToResumePreserves ==
  ASSUME TypeOK, WakeInv, NEW k \in Task,
         ConsumeToResume(k)
  PROVE  TypeOK' /\ WakeInv'
<1> USE WakeAssumption DEF TypeOK, ConsumeToResume, Consume, ConsumeSucceeds, Goto,
         waitVars, history, taskVars
<1>0. TypeOK'
  BY DEF Pcs
<1>1. /\ OnlyResumedWoke' /\ ConsumersHaveWaits' /\ ResumesHoldLock' /\ CountIsCurrent'
      /\ WakeChainBounded'
  BY DEF WakeInv, OnlyResumedWoke, ConsumersHaveWaits, ResumesHoldLock,
     CountIsCurrent, WakeChainBounded, Winner
<1>2. MarkerIsPending'
  BY DEF WakeInv, Wait, NoWait, MarkerIsPending
<1>3. WaitsAreOld'
  BY DEF WakeInv, WaitsAreOld, MarkerIsPending
<1>4. WinnersAreUnique'
  BY DEF WakeInv, Wait, NoWait, MarkerIsPending, OnlyResumedWoke, WaitsAreOld,
     ConsumersHaveWaits, WinnersAreUnique, ResumesHoldLock, CountIsCurrent,
     WakeChainBounded, Winner
<1> QED BY <1>0, <1>1, <1>2, <1>3, <1>4 DEF WakeInv

\* The wake is dropped.
LEMMA DropWakePreserves ==
  ASSUME TypeOK, WakeInv, NEW k \in Task,
         DropWake(k)
  PROVE  TypeOK' /\ WakeInv'
<1> USE WakeAssumption DEF TypeOK, DropWake, ConsumeSucceeds, Goto, waitVars,
         history, taskVars
<1>0. TypeOK'
  BY DEF Pcs
<1>1. /\ MarkerIsPending' /\ OnlyResumedWoke' /\ WaitsAreOld' /\ ConsumersHaveWaits'
      /\ WinnersAreUnique' /\ ResumesHoldLock' /\ CountIsCurrent' /\ WakeChainBounded'
  BY DEF WakeInv, MarkerIsPending, OnlyResumedWoke, WaitsAreOld, ConsumersHaveWaits,
     WinnersAreUnique, ResumesHoldLock, CountIsCurrent, WakeChainBounded, Winner
<1> QED BY <1>0, <1>1 DEF WakeInv

\* The count is exact when it is read.
LEMMA ReadTurnsPreserves ==
  ASSUME TypeOK, WakeInv, NEW k \in Task,
         ReadTurns(k)
  PROVE  TypeOK' /\ WakeInv'
<1> USE WakeAssumption DEF TypeOK, ReadTurns, Goto, waitVars, history, taskVars
<1>0. TypeOK'
  <2>1. loc[k].conv \in Conv
    BY DEF WakeInv, ConsumersHaveWaits
  <2>2. loc' \in [Task -> Locals]
    BY <2>1, SetCount
  <2> QED BY <2>2 DEF Pcs
<1>1. /\ MarkerIsPending' /\ OnlyResumedWoke' /\ WaitsAreOld' /\ ConsumersHaveWaits'
      /\ WinnersAreUnique' /\ ResumesHoldLock' /\ WakeChainBounded'
  BY DEF WakeInv, MarkerIsPending, OnlyResumedWoke, WaitsAreOld, ConsumersHaveWaits,
     WinnersAreUnique, ResumesHoldLock, WakeChainBounded, Winner
<1>2. CountIsCurrent'
  BY DEF WakeInv, CountIsCurrent, ConsumersHaveWaits
<1> QED BY <1>0, <1>1, <1>2 DEF WakeInv

\* The winner holds the mutex, so no other count of the conversation goes stale.
LEMMA AppendWakeTurnPreserves ==
  ASSUME TypeOK, WakeInv, NEW k \in Task,
         AppendWakeTurn(k)
  PROVE  TypeOK' /\ WakeInv'
<1> USE WakeAssumption DEF TypeOK, AppendWakeTurn, ChainFull, Goto, waitVars,
         history, taskVars
<1>0. TypeOK'
  BY DEF Pcs, Kinds, Locals, NoLoc, Wait, NoWait, WakeInv, WinnersAreUnique, Winner, ConsumersHaveWaits
<1>1. /\ MarkerIsPending' /\ WaitsAreOld' /\ ConsumersHaveWaits' /\ WinnersAreUnique'
      /\ ResumesHoldLock'
  BY DEF WakeInv, MarkerIsPending, WaitsAreOld, ConsumersHaveWaits,
     WinnersAreUnique, ResumesHoldLock, Winner
<1>2. OnlyResumedWoke'
  <2>1. fate[loc[k].wait] = "resumed"
    BY DEF WakeInv, WinnersAreUnique, Winner
  <2> QED BY <2>1 DEF WakeInv, OnlyResumedWoke
<1>3. CountIsCurrent'
  <2>1. \A j \in Task : (pc[j] = "append" /\ j # k) => loc[j].conv # loc[k].conv
    BY DEF WakeInv, ResumesHoldLock, Winner
  <2> QED BY <2>1 DEF WakeInv, CountIsCurrent
<1>4. WakeChainBounded'
  BY DEF WakeInv, Wait, NoWait, MarkerIsPending, OnlyResumedWoke, WaitsAreOld,
     ConsumersHaveWaits, WinnersAreUnique, ResumesHoldLock, CountIsCurrent,
     WakeChainBounded, Winner
<1> QED BY <1>0, <1>1, <1>2, <1>3, <1>4 DEF WakeInv

\* A winner gives up.
LEMMA AbandonWakePreserves ==
  ASSUME TypeOK, WakeInv, NEW k \in Task,
         AbandonWake(k)
  PROVE  TypeOK' /\ WakeInv'
<1> USE WakeAssumption DEF TypeOK, AbandonWake, ChainFull, Goto, waitVars, history,
         taskVars
<1>0. TypeOK'
  BY DEF Pcs
<1>1. /\ MarkerIsPending' /\ OnlyResumedWoke' /\ WaitsAreOld' /\ ConsumersHaveWaits'
      /\ WinnersAreUnique' /\ ResumesHoldLock' /\ CountIsCurrent' /\ WakeChainBounded'
  BY DEF WakeInv, MarkerIsPending, OnlyResumedWoke, WaitsAreOld, ConsumersHaveWaits,
     WinnersAreUnique, ResumesHoldLock, CountIsCurrent, WakeChainBounded, Winner
<1> QED BY <1>0, <1>1 DEF WakeInv

\* The reply streams to a post of its own.
LEMMA StartStreamPreserves ==
  ASSUME TypeOK, WakeInv, NEW k \in Task,
         StartStream(k)
  PROVE  TypeOK' /\ WakeInv'
<1> USE WakeAssumption DEF TypeOK, StartStream, Goto, waitVars, history, taskVars
<1>0. TypeOK'
  <2>1. loc' \in [Task -> Locals]
    BY SetPost
  <2> QED BY <2>1 DEF Pcs
<1>1. /\ MarkerIsPending' /\ OnlyResumedWoke' /\ WaitsAreOld' /\ ConsumersHaveWaits'
      /\ WinnersAreUnique' /\ ResumesHoldLock' /\ CountIsCurrent' /\ WakeChainBounded'
  BY DEF WakeInv, MarkerIsPending, OnlyResumedWoke, WaitsAreOld, ConsumersHaveWaits,
     WinnersAreUnique, ResumesHoldLock, CountIsCurrent, WakeChainBounded, Winner
<1> QED BY <1>0, <1>1 DEF WakeInv

\* The holder has left the part the mutex protects.
LEMMA UnlockPreserves ==
  ASSUME TypeOK, WakeInv, NEW k \in Task,
         Unlock(k)
  PROVE  TypeOK' /\ WakeInv'
<1> USE WakeAssumption DEF TypeOK, Unlock, Streams, Goto, waitVars, history,
         taskVars
<1>0. TypeOK'
  OBVIOUS
<1>1. /\ MarkerIsPending' /\ OnlyResumedWoke' /\ WaitsAreOld' /\ ConsumersHaveWaits'
      /\ WinnersAreUnique' /\ ResumesHoldLock' /\ CountIsCurrent' /\ WakeChainBounded'
  BY DEF WakeInv, MarkerIsPending, OnlyResumedWoke, WaitsAreOld, ConsumersHaveWaits,
     WinnersAreUnique, ResumesHoldLock, CountIsCurrent, WakeChainBounded, Winner
<1> QED BY <1>0, <1>1 DEF WakeInv

\* A crashed task is no winner; its mutex stays until it expires.
LEMMA CrashPreserves ==
  ASSUME TypeOK, WakeInv, NEW k \in Task,
         Crash(k)
  PROVE  TypeOK' /\ WakeInv'
<1> USE WakeAssumption DEF TypeOK, Crash, Live, Goto, waitVars, history, taskVars
<1>0. TypeOK'
  BY DEF Pcs
<1>1. /\ MarkerIsPending' /\ OnlyResumedWoke' /\ WaitsAreOld' /\ ConsumersHaveWaits'
      /\ WinnersAreUnique' /\ ResumesHoldLock' /\ CountIsCurrent' /\ WakeChainBounded'
  BY DEF WakeInv, MarkerIsPending, OnlyResumedWoke, WaitsAreOld, ConsumersHaveWaits,
     WinnersAreUnique, ResumesHoldLock, CountIsCurrent, WakeChainBounded, Winner
<1> QED BY <1>0, <1>1 DEF WakeInv

\* Only the scheduler's job goes.
LEMMA RetirePreserves ==
  ASSUME TypeOK, WakeInv, NEW c \in Conv,
         Retire(c)
  PROVE  TypeOK' /\ WakeInv'
<1> USE WakeAssumption DEF TypeOK, Retire, NoJob, Goto, waitVars, history, taskVars
<1>0. TypeOK'
  OBVIOUS
<1>1. /\ MarkerIsPending' /\ OnlyResumedWoke' /\ WaitsAreOld' /\ ConsumersHaveWaits'
      /\ WinnersAreUnique' /\ ResumesHoldLock' /\ CountIsCurrent' /\ WakeChainBounded'
  BY DEF WakeInv, MarkerIsPending, OnlyResumedWoke, WaitsAreOld, ConsumersHaveWaits,
     WinnersAreUnique, ResumesHoldLock, CountIsCurrent, WakeChainBounded, Winner
<1> QED BY <1>0, <1>1 DEF WakeInv

\* Only the scheduler's job changes.
LEMMA RedeliverPreserves ==
  ASSUME TypeOK, WakeInv, NEW c \in Conv,
         Redeliver(c)
  PROVE  TypeOK' /\ WakeInv'
<1> USE WakeAssumption DEF TypeOK, Redeliver, Goto, waitVars, history, taskVars
<1>0. TypeOK'
  BY SetFired
<1>1. /\ MarkerIsPending' /\ OnlyResumedWoke' /\ WaitsAreOld' /\ ConsumersHaveWaits'
      /\ WinnersAreUnique' /\ ResumesHoldLock' /\ CountIsCurrent' /\ WakeChainBounded'
  BY DEF WakeInv, MarkerIsPending, OnlyResumedWoke, WaitsAreOld, ConsumersHaveWaits,
     WinnersAreUnique, ResumesHoldLock, CountIsCurrent, WakeChainBounded, Winner
<1> QED BY <1>0, <1>1 DEF WakeInv

\* The job's wake names its wait and conversation.
LEMMA FirePreserves ==
  ASSUME TypeOK, WakeInv, NEW c \in Conv,
         Fire(c)
  PROVE  TypeOK' /\ WakeInv'
<1> USE WakeAssumption DEF TypeOK, Fire, NoLoc, NoJob, Goto, waitVars, history,
         taskVars
<1>0. TypeOK'
  <2>1. job[c].wait \in Wait
    BY JobHasWait
  <2>2. ASSUME NEW l \in Locals, NEW k PROVE [loc EXCEPT ![k] = l] \in [Task -> Locals]
    OBVIOUS
  <2>3. [NoLoc EXCEPT !.kind = "wake", !.conv = c, !.wait = job[c].wait] \in Locals
    BY <2>1 DEF NoLoc, Locals, NoWait
  <2>4. loc' \in [Task -> Locals]
    BY <2>2, <2>3
  <2>5. pc' \in [Task -> Pcs]
    <3>1. pc \in [Task -> Pcs] /\ "lock" \in Pcs
      BY DEF Pcs
    <3>2. ASSUME NEW k PROVE [pc EXCEPT ![k] = "lock"] \in [Task -> Pcs]
      BY ONLY <3>1
    <3>3. \E k : pc' = [pc EXCEPT ![k] = "lock"]
      OBVIOUS
    <3> QED BY ONLY <3>2, <3>3
  <2>6. job' \in [Conv -> [wait : Wait \cup {NoWait}, fired : BOOLEAN]]
    BY SetFired
  <2> QED BY <2>4, <2>5, <2>6
<1>1. /\ MarkerIsPending' /\ OnlyResumedWoke' /\ WaitsAreOld' /\ ConsumersHaveWaits'
      /\ WinnersAreUnique' /\ ResumesHoldLock' /\ CountIsCurrent' /\ WakeChainBounded'
  BY DEF WakeInv, MarkerIsPending, OnlyResumedWoke, WaitsAreOld, ConsumersHaveWaits,
     WinnersAreUnique, ResumesHoldLock, CountIsCurrent, WakeChainBounded, Winner
<1> QED BY <1>0, <1>1 DEF WakeInv

\* The pending wait ends.
LEMMA ExpirePreserves ==
  ASSUME TypeOK, WakeInv, Expire
  PROVE  TypeOK' /\ WakeInv'
<1> USE WakeAssumption DEF TypeOK, Expire, Attended, Goto, waitVars, history,
         taskVars
<1>0. TypeOK'
  OBVIOUS
<1>1. /\ ConsumersHaveWaits' /\ ResumesHoldLock' /\ CountIsCurrent' /\ WakeChainBounded'
  BY DEF WakeInv, ConsumersHaveWaits, ResumesHoldLock, CountIsCurrent,
     WakeChainBounded, Winner
<1>2. MarkerIsPending'
  BY DEF WakeInv, Wait, NoWait, MarkerIsPending
<1>3. OnlyResumedWoke'
  BY DEF WakeInv, OnlyResumedWoke, MarkerIsPending
<1>4. WaitsAreOld'
  BY DEF WakeInv, WaitsAreOld, MarkerIsPending
<1>5. WinnersAreUnique'
  BY DEF WakeInv, WinnersAreUnique, MarkerIsPending, Winner
<1> QED BY <1>0, <1>1, <1>2, <1>3, <1>4, <1>5 DEF WakeInv

-----------------------------------------------------------------------------
(* The invariant holds *)

LEMMA InitEstablishes ==
  ASSUME Init
  PROVE  TypeOK /\ WakeInv
<1> USE WakeAssumption DEF Init, NoWait, Wait
<1>1. TypeOK
  <2>1. NoLoc \in Locals
    BY DEF NoLoc, Locals
  <2>2. NoJob \in [wait : Wait \cup {NoWait}, fired : BOOLEAN]
    BY DEF NoJob
  <2> QED BY <2>1, <2>2 DEF TypeOK, Pcs
<1>2. \A k \in Task : pc[k] = "idle"
  OBVIOUS
<1>3. WakeInv
  BY <1>2 DEF WakeInv, MarkerIsPending, OnlyResumedWoke, WaitsAreOld, ConsumersHaveWaits,
     WinnersAreUnique, ResumesHoldLock, CountIsCurrent, WakeChainBounded, Winner
<1> QED BY <1>1, <1>3

LEMMA StutterPreserves ==
  ASSUME TypeOK, WakeInv, UNCHANGED vars
  PROVE  TypeOK' /\ WakeInv'
<1> USE DEF vars, taskVars, waitVars, history
<1>1. TypeOK'
  BY DEF TypeOK
<1>2. WakeInv'
  BY DEF WakeInv, MarkerIsPending, OnlyResumedWoke, WaitsAreOld, ConsumersHaveWaits,
     WinnersAreUnique, ResumesHoldLock, CountIsCurrent, WakeChainBounded, Winner
<1> QED BY <1>1, <1>2

LEMMA StepPreserves ==
  ASSUME TypeOK, WakeInv, [Next]_vars
  PROVE  TypeOK' /\ WakeInv'
<1>1. ASSUME NEW k \in UserTask, Request(k)
      PROVE  TypeOK' /\ WakeInv'
  BY <1>1, MessagePreserves, RevisitPreserves, ClickControlPreserves DEF Request
<1>2. ASSUME NEW k \in Task, Steer(k)
      PROVE  TypeOK' /\ WakeInv'
  BY <1>2, ReadMarkerPreserves, CancelMarkerPreserves, UnschedulePreserves,
     ReadControlPreserves DEF Steer
<1>3. ASSUME NEW k \in Task, Schedule(k)
      PROVE  TypeOK' /\ WakeInv'
  BY <1>3, ClaimMarkerPreserves, ScheduleJobPreserves, ReleaseMarkerPreserves,
     EndStreamPreserves DEF Schedule
<1>4. ASSUME NEW k \in Task, Resume(k)
      PROVE  TypeOK' /\ WakeInv'
  BY <1>4, LockResumePreserves, GiveUpLockPreserves, ConsumeToResumePreserves,
     DropWakePreserves, ReadTurnsPreserves, AppendWakeTurnPreserves,
     AbandonWakePreserves, StartStreamPreserves DEF Resume
<1>5. ASSUME NEW k \in Task, Unlock(k) \/ Crash(k)
      PROVE  TypeOK' /\ WakeInv'
  BY <1>5, UnlockPreserves, CrashPreserves
<1>6. ASSUME NEW c \in Conv, Scheduler(c) \/ Redeliver(c)
      PROVE  TypeOK' /\ WakeInv'
  BY <1>6, FirePreserves, RetirePreserves, RedeliverPreserves DEF Scheduler
<1>7. CASE Expire
  BY <1>7, ExpirePreserves
<1>8. CASE UNCHANGED vars
  BY <1>8, StutterPreserves
<1> QED
  BY <1>1, <1>2, <1>3, <1>4, <1>5, <1>6, <1>7, <1>8 DEF Next, Run, Quiet

LEMMA Invariance == Spec => [](TypeOK /\ WakeInv)
<1>1. Init => TypeOK /\ WakeInv
  BY InitEstablishes
<1>2. TypeOK /\ WakeInv /\ [Next]_vars => (TypeOK /\ WakeInv)'
  BY StepPreserves
<1> QED BY <1>1, <1>2, PTL DEF Spec

\* Every step of every task and of the scheduler keeps the types; that a wait
\* wakes its conversation at most once is part of them.
THEOREM TypeCorrect == Spec => []TypeOK
  BY Invariance, PTL

\* However many wakes are in flight, redelivered or racing a message, a
\* conversation has at most MaxWakes consecutive wake turns.
THEOREM ChainBounded == Spec => []WakeChainBounded
<1>1. WakeInv => WakeChainBounded
  BY DEF WakeInv
<1> QED BY <1>1, Invariance, PTL

-----------------------------------------------------------------------------
(* The protocol implements WaitLifecycle *)

\* A consume of the marker ends the wait it names.
LEMMA ConsumeEnds ==
  ASSUME TypeOK, WakeInv, NEW w \in Wait, NEW how \in Abs!Ends,
         Consume(w, how), UNCHANGED resumes
  PROVE  Abs!Next
<1>1. fate[w] = "pending"
  BY DEF Consume, ConsumeSucceeds, WakeInv, MarkerIsPending
<1>2. Abs!End(w, how)
  BY <1>1 DEF Abs!End, Consume
<1> QED BY <1>2 DEF Abs!Next

LEMMA AbstractStep ==
  ASSUME TypeOK, WakeInv, [Next]_vars
  PROVE  [Abs!Next]_(Abs!vars)
<1> USE DEF Abs!vars, taskVars, waitVars, history
<1> DEFINE Quietly == UNCHANGED <<fate, resumes>>
<1>1. ASSUME NEW k \in UserTask, Request(k)
      PROVE  Quietly
  BY <1>1 DEF Request, Message, Revisit, ClickControl
<1>2. ASSUME NEW k \in Task, Steer(k)
      PROVE  Abs!Next \/ Quietly
  <2>1. CASE ReadMarker(k) \/ Unschedule(k) \/ ReadControl(k)
    BY <2>1 DEF ReadMarker, Unschedule, ReadControl
  <2>2. CASE CancelMarker(k)
    <3>1. loc[k].wait \in Wait
      BY <2>2 DEF CancelMarker, WakeInv, ConsumersHaveWaits
    <3> QED BY <2>2, <3>1, ConsumeEnds DEF CancelMarker, Abs!Ends
  <2> QED BY <1>2, <2>1, <2>2 DEF Steer
<1>3. ASSUME NEW k \in Task, Schedule(k)
      PROVE  Abs!Next \/ Quietly
  <2>1. CASE ScheduleJob(k) \/ EndStream(k)
    BY <2>1 DEF ScheduleJob, EndStream
  <2>2. CASE ReleaseMarker(k)
    <3>1. loc[k].wait \in Wait
      BY <2>2 DEF ReleaseMarker, WakeInv, ConsumersHaveWaits
    <3> QED BY <2>2, <3>1, ConsumeEnds DEF ReleaseMarker, Abs!Ends
  <2>3. CASE ClaimMarker(k)
    <3>1. nextWait \in Wait
      BY <2>3, WakeAssumption DEF ClaimMarker, TypeOK, Wait
    <3>2. fate[nextWait] = "none"
      BY <3>1 DEF WakeInv, WaitsAreOld, TypeOK
    <3>3. \A w \in Wait : fate[w] # "pending"
      BY <2>3 DEF ClaimMarker, MarkerFree, WakeInv, MarkerIsPending, Wait, NoWait
    <3>4. Abs!Start(nextWait)
      BY <2>3, <3>2, <3>3 DEF ClaimMarker, Abs!Start
    <3> QED BY <3>1, <3>4 DEF Abs!Next
  <2> QED BY <1>3, <2>1, <2>2, <2>3 DEF Schedule
<1>4. ASSUME NEW k \in Task, Resume(k)
      PROVE  Abs!Next \/ Quietly
  <2>1. CASE LockResume(k) \/ GiveUpLock(k) \/ DropWake(k) \/ ReadTurns(k)
             \/ AbandonWake(k) \/ StartStream(k)
    BY <2>1 DEF LockResume, GiveUpLock, DropWake, ReadTurns, AbandonWake, StartStream
  <2>2. CASE ConsumeToResume(k)
    <3>1. loc[k].wait \in Wait
      BY <2>2 DEF ConsumeToResume, WakeInv, ConsumersHaveWaits
    <3> QED BY <2>2, <3>1, ConsumeEnds DEF ConsumeToResume, Abs!Ends
  <2>3. CASE AppendWakeTurn(k)
    <3> DEFINE w == loc[k].wait
    <3>1. w \in Wait
      BY <2>3 DEF AppendWakeTurn, WakeInv, ConsumersHaveWaits
    <3>2. fate[w] = "resumed" /\ resumes[w] = 0
      BY <2>3 DEF AppendWakeTurn, WakeInv, WinnersAreUnique, Winner
    <3>3. resumes' = [resumes EXCEPT ![w] = 1]
      BY <2>3, <3>1, <3>2 DEF AppendWakeTurn, TypeOK
    <3>4. Abs!Wake(w)
      BY <2>3, <3>2, <3>3 DEF AppendWakeTurn, Abs!Wake
    <3> QED BY <3>1, <3>4 DEF Abs!Next
  <2> QED BY <1>4, <2>1, <2>2, <2>3 DEF Resume
<1>5. ASSUME NEW k \in Task, Unlock(k) \/ Crash(k)
      PROVE  Quietly
  BY <1>5 DEF Unlock, Crash
<1>6. ASSUME NEW c \in Conv, Scheduler(c) \/ Redeliver(c)
      PROVE  Quietly
  BY <1>6 DEF Scheduler, Fire, Retire, Redeliver
<1>7. CASE Expire
  <2>1. marker \in Wait /\ fate[marker] = "pending"
    BY <1>7 DEF Expire, TypeOK, WakeInv, MarkerIsPending
  <2>2. Abs!End(marker, "expired")
    BY <1>7, <2>1 DEF Expire, Abs!End
  <2> QED BY <2>1, <2>2 DEF Abs!Next, Abs!Ends
<1>8. CASE UNCHANGED vars
  BY <1>8 DEF vars
<1> QED
  BY <1>1, <1>2, <1>3, <1>4, <1>5, <1>6, <1>7, <1>8 DEF Next, Run, Quiet

\* Every behaviour of the protocol, with its races, crashes and failed calls,
\* is one of WaitLifecycle: one wait at a time, ended once, waking once.
THEOREM ImplementsAbstract == Spec => ImplementsWaitLifecycle
<1>1. Init => Abs!Init
  BY DEF Init, Abs!Init
<1>2. TypeOK /\ WakeInv /\ [Next]_vars => [Abs!Next]_(Abs!vars)
  BY AbstractStep
<1> QED BY <1>1, <1>2, Invariance, PTL DEF Spec, ImplementsWaitLifecycle, Abs!Spec
-----------------------------------------------------------------------------
(* A message steers away the wait it found *)

\* A step moves the marker to no wait or to a new one.
MarkerMoves == /\ marker' \in {marker, NoWait, nextWait}
               /\ nextWait' \in {nextWait, nextWait + 1}

\* A task that does not move keeps what it knows about the wait it found: a new
\* wait is never that one.
LEMMA OthersSteer ==
  ASSUME TypeOK, NEW j \in Task, SteersItsWait(j), MarkerMoves,
         pc'[j] = pc[j], loc'[j] = loc[j]
  PROVE  SteersItsWait(j)'
<1>1. loc[j].found \in Nat /\ nextWait \in Nat
  BY DEF TypeOK, Locals, Wait, NoWait
<1>2. loc[j].found < nextWait /\ FoundIsOver(j) => FoundIsOver(j)'
  BY <1>1 DEF FoundIsOver, MarkerMoves, NoWait
<1> QED BY <1>1, <1>2 DEF SteersItsWait, MarkerMoves

\* So does a task that goes on within its stream or leaves it.
LEMMA StreamerSteers ==
  ASSUME TypeOK, NEW k \in Task, SteersItsWait(k), MarkerMoves,
         pc'[k] \in {"stream", "schedule", "release", "done"},
         pc[k] \in {"unschedule", "stream", "schedule", "release"} \/ pc'[k] = "done",
         loc'[k].kind = loc[k].kind, loc'[k].found = loc[k].found
  PROVE  SteersItsWait(k)'
<1>1. loc[k].found \in Nat /\ nextWait \in Nat
  BY DEF TypeOK, Locals, Wait, NoWait
<1>2. loc[k].found < nextWait /\ FoundIsOver(k) => FoundIsOver(k)'
  BY <1>1 DEF FoundIsOver, MarkerMoves, NoWait
<1> QED BY <1>1, <1>2 DEF SteersItsWait, MarkerMoves, SteerPcs

\* A task of another kind, or in a part of the protocol no message reaches,
\* steers nothing.
LEMMA OtherKindSteers ==
  ASSUME NEW k \in Task, SteersItsWait(k), pc[k] \notin SteerPcs,
         loc'[k].kind = loc[k].kind
  PROVE  SteersItsWait(k)'
  BY DEF SteersItsWait

\* The pending wait has been numbered.
LEMMA MarkerIsOld ==
  ASSUME TypeOK, WakeInv
  PROVE  marker < nextWait
<1>1. marker \in Wait => marker < nextWait
  BY DEF TypeOK, WakeInv, WaitsAreOld, MarkerIsPending, Wait
<1> QED BY <1>1 DEF TypeOK, NoWait

\* A field of a task's locals is set; the kind and the wait found stay.
LEMMA SetKeepsKind ==
  ASSUME loc \in [Task -> Locals], NEW k \in Task, NEW x,
         \/ loc' = [loc EXCEPT ![k].wait = x] \/ loc' = [loc EXCEPT ![k].post = x]
         \/ loc' = [loc EXCEPT ![k].count = x]
  PROVE  /\ loc'[k].kind = loc[k].kind /\ loc'[k].found = loc[k].found
         /\ \A j \in Task : j # k => loc'[j] = loc[j]
  BY DEF Locals

\* A request starts: what it found has been numbered.
LEMMA RequestSteers ==
  ASSUME TypeOK, WakeInv, SteerInv, NEW k \in UserTask, Request(k)
  PROVE  SteerInv'
<1> USE UserInTask DEF TypeOK
<1>1. MarkerMoves /\ nextWait' = nextWait
  BY DEF Request, Message, Revisit, ClickControl, waitVars, MarkerMoves
<1>2. \A j \in Task : j # k => pc'[j] = pc[j] /\ loc'[j] = loc[j]
  BY DEF Request, Message, Revisit, ClickControl, Goto
<1>3. \/ loc'[k].kind = "message" /\ pc'[k] = "read" /\ loc'[k].found = marker
      \/ loc'[k].kind = "regenerate" /\ pc'[k] = "read" /\ loc'[k].found = marker
      \/ loc'[k].kind \notin {"message", "regenerate"}
  <2>1. ASSUME NEW c \in Conv, Message(k, c)
        PROVE  loc'[k].kind = "message" /\ pc'[k] = "read" /\ loc'[k].found = marker
    BY <2>1 DEF Message, Goto, NoLoc
  <2>2. ASSUME NEW i \in Task, Revisit(k, i)
        PROVE  \/ /\ loc'[k].kind = "regenerate" /\ pc'[k] = "read"
                  /\ loc'[k].found = marker
               \/ loc'[k].kind = "followup"
    BY <2>2 DEF Revisit, Goto, NoLoc
  <2>3. ASSUME NEW op \in {"cancel", "checknow"}, ClickControl(k, op)
        PROVE  loc'[k].kind \in {"cancel", "checknow"}
    BY <2>3 DEF ClickControl, NoLoc
  <2> QED BY <2>1, <2>2, <2>3 DEF Request
<1>4. SteersItsWait(k)'
  BY <1>1, <1>3, MarkerIsOld DEF SteersItsWait, SteerPcs
<1>5. \A j \in Task : j # k => SteersItsWait(j)'
  BY <1>1, <1>2, OthersSteer DEF SteerInv
<1> QED BY <1>4, <1>5 DEF SteerInv

\* Without KV failures a message holds the wait it found pending, and consumes
\* it or finds it over.
LEMMA SteerSteers ==
  ASSUME "kv" \notin Faults, TypeOK, WakeInv, SteerInv, NEW k \in Task, Steer(k)
  PROVE  SteerInv'
<1> USE DEF TypeOK
<1>0. SteersItsWait(k) /\ ~ KvFails
  BY DEF SteerInv, KvFails
<1>1. MarkerMoves
  BY DEF Steer, ReadMarker, CancelMarker, Consume, Unschedule, ReadControl, waitVars,
         MarkerMoves
<1>2. \A j \in Task : j # k => pc'[j] = pc[j] /\ loc'[j] = loc[j]
  BY DEF Steer, ReadMarker, CancelMarker, Unschedule, ReadControl, Goto
<1>3. loc'[k].kind = loc[k].kind /\ loc'[k].found = loc[k].found
  BY SetKeepsKind DEF Steer, ReadMarker, CancelMarker, Unschedule, ReadControl
<1>4. SteersItsWait(k)'
  <2>1. CASE ReadMarker(k)
    <3>1. UNCHANGED <<marker, nextWait>>
      BY <2>1 DEF ReadMarker, waitVars
    <3>2. CASE marker # NoWait /\ Goto(k, "consume") /\ loc'[k].wait = marker
      BY <1>0, <1>3, <3>1, <3>2 DEF SteersItsWait, FoundIsOver, Goto, SteerPcs
    <3>3. CASE marker = NoWait /\ Goto(k, "stream")
      BY <1>0, <1>3, <3>1, <3>3 DEF SteersItsWait, FoundIsOver, Goto, SteerPcs
    <3> QED BY <2>1, <1>0, <3>2, <3>3, SetWait DEF ReadMarker, SteeredWait
  <2>2. CASE CancelMarker(k)
    <3>1. FoundIsOver(k) \/ loc[k].wait = loc[k].found
          \/ loc[k].kind \notin {"message", "regenerate"}
      BY <2>2, <1>0 DEF CancelMarker, SteersItsWait
    <3>2. marker' = NoWait \/ (marker' = marker /\ marker # loc[k].wait)
      BY <2>2, <1>0 DEF CancelMarker, Consume, ConsumeSucceeds
    <3>3. pc'[k] \in {"unschedule", "stream", "done"} /\ nextWait' = nextWait
      BY <2>2 DEF CancelMarker, Goto, waitVars
    <3>4. FoundIsOver(k)' \/ loc[k].kind \notin {"message", "regenerate"}
      BY <1>3, <3>1, <3>2 DEF FoundIsOver
    <3> QED BY <1>0, <1>3, <3>3, <3>4 DEF SteersItsWait, SteerPcs
  <2>3. CASE Unschedule(k)
    <3>1. CASE loc[k].kind \notin {"message", "regenerate"}
      BY <1>3, <3>1 DEF SteersItsWait
    <3>2. CASE loc[k].kind \in {"message", "regenerate"}
      BY <2>3, <3>2, <1>0, <1>1, <1>3, StreamerSteers DEF Unschedule, Goto
    <3> QED BY <3>1, <3>2
  <2>4. CASE ReadControl(k)
    BY <2>4, <1>0, <1>3, OtherKindSteers DEF ReadControl, SteerPcs
  <2> QED BY <2>1, <2>2, <2>3, <2>4 DEF Steer
<1>5. \A j \in Task : j # k => SteersItsWait(j)'
  BY <1>1, <1>2, OthersSteer DEF SteerInv
<1> QED BY <1>4, <1>5 DEF SteerInv

\* Within its stream a message schedules new waits only.
LEMMA ScheduleSteers ==
  ASSUME TypeOK, WakeInv, SteerInv, NEW k \in Task, Schedule(k)
  PROVE  SteerInv'
<1> USE DEF TypeOK
<1>0. SteersItsWait(k)
  BY DEF SteerInv
<1>1. MarkerMoves
  BY DEF Schedule, ClaimMarker, ScheduleJob, ReleaseMarker, EndStream, Consume,
         waitVars, MarkerMoves
<1>2. \A j \in Task : j # k => pc'[j] = pc[j]
  BY DEF Schedule, ClaimMarker, ScheduleJob, ReleaseMarker, EndStream, Goto
<1>3. /\ loc'[k].kind = loc[k].kind /\ loc'[k].found = loc[k].found
      /\ \A j \in Task : j # k => loc'[j] = loc[j]
  BY SetKeepsKind DEF Schedule, ClaimMarker, ScheduleJob, ReleaseMarker, EndStream
<1>4. /\ pc[k] \in {"stream", "schedule", "release"}
      /\ pc'[k] \in {"stream", "schedule", "release", "done"}
  BY DEF Schedule, ClaimMarker, ScheduleJob, ReleaseMarker, EndStream, Goto
<1>5. SteersItsWait(k)'
  BY <1>0, <1>1, <1>3, <1>4, StreamerSteers
<1>6. \A j \in Task : j # k => SteersItsWait(j)'
  BY <1>1, <1>2, <1>3, OthersSteer DEF SteerInv
<1> QED BY <1>5, <1>6 DEF SteerInv

\* A resume is not a message's.
LEMMA ResumeSteers ==
  ASSUME TypeOK, WakeInv, SteerInv, NEW k \in Task, Resume(k)
  PROVE  SteerInv'
<1> USE DEF TypeOK
<1>1. MarkerMoves
  BY DEF Resume, LockResume, GiveUpLock, ConsumeToResume, DropWake, ReadTurns,
         AppendWakeTurn, AbandonWake, StartStream, Consume, waitVars, MarkerMoves
<1>2. \A j \in Task : j # k => pc'[j] = pc[j]
  BY DEF Resume, LockResume, GiveUpLock, ConsumeToResume, DropWake, ReadTurns,
         AppendWakeTurn, AbandonWake, StartStream, Goto
<1>3. /\ loc'[k].kind = loc[k].kind
      /\ \A j \in Task : j # k => loc'[j] = loc[j]
  BY SetKeepsKind DEF Resume, LockResume, GiveUpLock, ConsumeToResume, DropWake,
         ReadTurns, AppendWakeTurn, AbandonWake, StartStream
<1>4. pc[k] \in {"lock", "resume", "turns", "append", "start"}
  BY DEF Resume, LockResume, GiveUpLock, ConsumeToResume, DropWake, ReadTurns,
         AppendWakeTurn, AbandonWake, StartStream
<1>5. SteersItsWait(k)'
  BY <1>3, <1>4, OtherKindSteers DEF SteerInv, SteerPcs
<1>6. \A j \in Task : j # k => SteersItsWait(j)'
  BY <1>1, <1>2, <1>3, OthersSteer DEF SteerInv
<1> QED BY <1>5, <1>6 DEF SteerInv

\* A crashed message steers nothing more.
LEMMA UnlockOrCrashSteers ==
  ASSUME TypeOK, WakeInv, SteerInv, NEW k \in Task, Unlock(k) \/ Crash(k)
  PROVE  SteerInv'
<1>1. UNCHANGED <<marker, nextWait, loc>> /\ MarkerMoves
  BY DEF Unlock, Crash, taskVars, waitVars, MarkerMoves
<1>2. \A j \in Task : pc'[j] \in {pc[j], "done"}
  BY DEF Unlock, Crash, Goto, taskVars, TypeOK
<1>3. ASSUME NEW j \in Task PROVE SteersItsWait(j)'
  <2>1. CASE pc'[j] = pc[j]
    BY <2>1, <1>1, OthersSteer DEF SteerInv
  <2>2. CASE pc'[j] = "done"
    BY <2>2, <1>1, StreamerSteers DEF SteerInv
  <2> QED BY <1>2, <2>1, <2>2
<1> QED BY <1>3 DEF SteerInv

\* The scheduler starts wakes, which are no messages.
LEMMA SchedulerSteers ==
  ASSUME TypeOK, WakeInv, SteerInv, NEW c \in Conv, Scheduler(c) \/ Redeliver(c)
  PROVE  SteerInv'
<1>1. UNCHANGED <<marker, nextWait>> /\ MarkerMoves
  BY DEF Scheduler, Fire, Retire, Redeliver, waitVars, MarkerMoves
<1>2. ASSUME NEW j \in Task
      PROVE  \/ pc'[j] = pc[j] /\ loc'[j] = loc[j]
             \/ loc'[j].kind = "wake"
  <2>1. CASE Fire(c)
    BY <2>1 DEF Fire, Goto, TypeOK, NoLoc
  <2>2. CASE Retire(c) \/ Redeliver(c)
    BY <2>2 DEF Retire, Redeliver, taskVars
  <2> QED BY <2>1, <2>2 DEF Scheduler
<1>3. ASSUME NEW j \in Task PROVE SteersItsWait(j)'
  <2>1. CASE loc'[j].kind = "wake"
    BY <2>1 DEF SteersItsWait
  <2>2. CASE pc'[j] = pc[j] /\ loc'[j] = loc[j]
    BY <2>2, <1>1, OthersSteer DEF SteerInv
  <2> QED BY <1>2, <2>1, <2>2
<1> QED BY <1>3 DEF SteerInv

LEMMA SteerStep ==
  ASSUME "kv" \notin Faults, TypeOK, WakeInv, SteerInv, [Next]_vars
  PROVE  SteerInv'
<1>1. CASE Expire \/ UNCHANGED vars
  <2>1. MarkerMoves /\ UNCHANGED taskVars
    BY <1>1 DEF Expire, vars, waitVars, MarkerMoves
  <2> QED BY <2>1, OthersSteer DEF SteerInv, taskVars
<1> QED
  BY <1>1, RequestSteers, SteerSteers, ScheduleSteers, ResumeSteers,
     UnlockOrCrashSteers, SchedulerSteers DEF Next, Run, Quiet

\* When the KV store answers, a message or a regeneration that streams has ended
\* the wait it found, whichever conversation's it was and whatever else ran,
\* crashed or was refused in between.
THEOREM MessagesSteer ==
  ASSUME "kv" \notin Faults
  PROVE  Spec => []SteeredAway
<1>1. Init => SteerInv
  BY DEF Init, SteerInv, SteersItsWait, NoLoc
<1>2. TypeOK /\ WakeInv /\ SteerInv /\ [Next]_vars => SteerInv'
  BY SteerStep
<1>3. SteerInv => SteeredAway
  BY DEF SteerInv, SteersItsWait, SteeredAway, FoundIsOver, Streams, SteerPcs
<1> QED BY <1>1, <1>2, <1>3, Invariance, PTL DEF Spec
-----------------------------------------------------------------------------
(* In an undisturbed thread a pending wait keeps its trigger *)

\* One request reaches the thread, whatever it asks for.
OneRequest == \A j, k \in UserTask : j = k

\* Once a task has gone past reading the marker, nobody still comes before.
LEMMA AlreadyTouched ==
  ASSUME OneRequest, OneRequestPcs, NEW k \in Task, pc[k] \notin {"idle", "read"}
  PROVE  \A u \in UserTask : pc[u] \notin {"idle", "read"}
<1>1. CASE k \in UserTask
  BY <1>1 DEF OneRequest
<1>2. CASE k \in WakeTask
  BY <1>2 DEF OneRequestPcs, Untouched
<1> QED BY <1>1, <1>2 DEF Task

LEMMA JobTouches ==
  ASSUME OneRequestPcs, NEW c \in Conv, job[c] # NoJob \/ marker # NoWait
  PROVE  \A u \in UserTask : pc[u] \notin {"idle", "read"}
  BY DEF OneRequestPcs, Untouched

\* The waits of the jobs and the deliveries of a step that moves no wait.
LEMMA AttendedStays ==
  ASSUME marker' \in {marker, NoWait}, PendingHasTrigger,
         marker' # NoWait => /\ \A c \in Conv : job[c].wait = marker => job'[c].wait = marker
                             /\ \A k \in Task :
                                  (loc[k].wait = marker
                                     /\ pc[k] \in {"schedule", "release", "lock", "resume"})
                                  => Attended(marker)'
  PROVE  PendingHasTrigger'
<1>1. ASSUME marker' = marker, marker # NoWait PROVE Attended(marker)'
  <2>1. CASE \E c \in Conv : job[c].wait = marker
    BY <1>1, <2>1 DEF Attended
  <2>2. CASE \E k \in Task : /\ loc[k].wait = marker
                             /\ pc[k] \in {"schedule", "release", "lock", "resume"}
    BY <1>1, <2>2
  <2> QED BY <1>1, <2>1, <2>2 DEF PendingHasTrigger, Attended
<1> QED BY <1>1 DEF PendingHasTrigger

\* The one request is a message: there is no response to revisit and no wait to
\* control yet.
LEMMA RequestUndisturbed ==
  ASSUME OneRequest, TypeOK, WakeInv, UndisturbedInv, NEW k \in UserTask, Request(k)
  PROVE  UndisturbedInv'
<1> USE UserInTask DEF TypeOK, UndisturbedInv
<1>0. pc[k] = "idle"
  BY DEF Request, Message, Revisit, ClickControl
<1>1. Untouched /\ \A j \in Task : pc[j] = "idle"
  <2>1. Untouched
    BY <1>0 DEF OneRequestPcs
  <2> QED BY <1>0, <2>1 DEF Untouched, OneRequest, Task
<1>2. \E c \in Conv : Message(k, c)
  BY <1>1 DEF Request, Revisit, ClickControl, Streams, Untouched
<1>3. /\ UNCHANGED <<marker, job, nextWait>> /\ pc'[k] = "read"
      /\ \A j \in Task : j # k => pc'[j] = pc[j] /\ loc'[j] = loc[j]
  BY <1>2 DEF Message, Goto, waitVars
<1>4. k \notin WakeTask
  BY WakeAssumption
<1>5. Untouched'
  BY <1>1, <1>3, <1>4 DEF Untouched, Task
<1>6. OneRequestPcs'
  <2>1. \A u \in UserTask : u = k
    BY DEF OneRequest
  <2>2. \A j \in WakeTask : pc'[j] = "idle"
    BY <1>5 DEF Untouched
  <2> QED BY <1>3, <1>5, <2>1, <2>2 DEF OneRequestPcs
<1>7. FiredIsOnItsWay' /\ PendingHasTrigger'
  BY <1>5 DEF Untouched, FiredIsOnItsWay, PendingHasTrigger
<1>8. JobsAreOld'
  BY <1>1, <1>3 DEF JobsAreOld
<1> QED BY <1>6, <1>7, <1>8

\* It finds no wait, so it steers nothing.
LEMMA SteerUndisturbed ==
  ASSUME Faults = {}, OneRequest, TypeOK, WakeInv, UndisturbedInv, NEW k \in Task, Steer(k)
  PROVE  UndisturbedInv'
<1> USE DEF TypeOK, UndisturbedInv
<1>1. pc[k] \notin {"control", "consume", "unschedule"}
  BY DEF OneRequestPcs, Task
<1>2. ReadMarker(k)
  BY <1>1 DEF Steer, CancelMarker, Unschedule, ReadControl
<1>3. k \in UserTask /\ k \notin WakeTask /\ Untouched
  BY <1>2, WakeAssumption DEF ReadMarker, OneRequestPcs, Task
<1>4. /\ UNCHANGED <<marker, job, nextWait, loc>> /\ pc'[k] = "stream"
      /\ \A j \in Task : j # k => pc'[j] = pc[j]
  BY <1>2, <1>3 DEF ReadMarker, SteeredWait, Untouched, Goto, waitVars
<1>5. OneRequestPcs'
  <2>1. \A u \in UserTask : u = k
    BY <1>3 DEF OneRequest
  <2>2. \A j \in WakeTask : pc'[j] = pc[j]
    BY <1>3, <1>4 DEF Task
  <2> QED BY <1>3, <1>4, <2>1, <2>2 DEF OneRequestPcs
<1>6. FiredIsOnItsWay' /\ PendingHasTrigger'
  BY <1>3, <1>4 DEF Untouched, FiredIsOnItsWay, PendingHasTrigger
<1>7. JobsAreOld'
  BY <1>4 DEF JobsAreOld
<1> QED BY <1>5, <1>6, <1>7

\* A task in its stream, or a wake, moves on: no other task disturbs the thread.
LEMMA TaskKeepsPcs ==
  ASSUME OneRequest, OneRequestPcs, NEW k \in Task, pc[k] \notin {"idle", "read"},
         \A j \in Task : j # k => pc'[j] = pc[j] /\ loc'[j] = loc[j],
         loc'[k].kind = loc[k].kind,
         \/ pc'[k] \in {"stream", "schedule", "release", "done"}
         \/ k \in WakeTask /\ pc'[k] \in {"resume", "turns", "append", "start"}
  PROVE  OneRequestPcs'
<1>1. \A u \in UserTask : pc'[u] \notin {"idle", "read"}
  BY AlreadyTouched, UserInTask, WakeAssumption
<1>2. \A u \in UserTask : pc'[u] \in {"stream", "schedule", "release", "done"}
  BY <1>1, UserInTask, WakeAssumption DEF OneRequestPcs
<1>3. \A j \in WakeTask : /\ pc'[j] \notin {"read", "control", "consume", "unschedule"}
                          /\ pc'[j] # "idle" => loc'[j].kind = "wake"
  BY DEF OneRequestPcs, Task
<1> QED BY <1>1, <1>2, <1>3 DEF OneRequestPcs

\* A wait is claimed, gets its job, or its claim is undone.
LEMMA ScheduleUndisturbed ==
  ASSUME Faults = {}, OneRequest, TypeOK, WakeInv, UndisturbedInv,
         NEW k \in Task, Schedule(k)
  PROVE  UndisturbedInv'
<1> USE DEF TypeOK, UndisturbedInv
<1>1. /\ \A j \in Task : j # k => pc'[j] = pc[j]
      /\ pc[k] \in {"stream", "schedule", "release"}
      /\ pc'[k] \in {"stream", "schedule", "release", "done"}
  BY DEF Schedule, ClaimMarker, ScheduleJob, ReleaseMarker, EndStream, Goto
<1>2. /\ loc'[k].kind = loc[k].kind
      /\ \A j \in Task : j # k => loc'[j] = loc[j]
  BY SetKeepsKind DEF Schedule, ClaimMarker, ScheduleJob, ReleaseMarker, EndStream
<1>3. OneRequestPcs'
  BY <1>1, <1>2, TaskKeepsPcs
<1>4. CASE ClaimMarker(k)
  <2>1. /\ marker = NoWait /\ marker' = nextWait /\ nextWait' = nextWait + 1
        /\ pc'[k] = "schedule" /\ nextWait \in Wait /\ UNCHANGED job
    BY <1>4, WakeAssumption DEF ClaimMarker, MarkerFree, Goto, Wait
  <2>2. loc'[k].wait = nextWait
    BY <1>4, <2>1, SetWait DEF ClaimMarker
  <2>3. JobsAreOld'
    <3>1. \A c \in Conv : job[c].wait \in Nat
      BY DEF Wait, NoWait
    <3>2. \A j \in Task : loc[j].wait \in Nat
      BY DEF Locals, Wait, NoWait
    <3> QED BY <1>1, <1>2, <2>1, <2>2, <3>1, <3>2 DEF JobsAreOld
  <2>4. FiredIsOnItsWay'
    BY <2>1 DEF FiredIsOnItsWay, JobsAreOld
  <2>5. PendingHasTrigger'
    BY <2>1, <2>2 DEF PendingHasTrigger, Attended
  <2> QED BY <1>3, <2>3, <2>4, <2>5
<1>5. CASE ScheduleJob(k)
  <2>1. /\ UNCHANGED <<marker, nextWait, loc>> /\ pc[k] = "schedule"
        /\ pc'[k] \in {"stream", "release"}
    BY <1>5 DEF ScheduleJob, Goto, waitVars
  <2>2. loc[k].conv \in Conv /\ loc[k].wait \in Wait /\ loc[k].wait < nextWait
    BY <2>1 DEF WakeInv, ConsumersHaveWaits, JobsAreOld
  <2>3. \/ /\ job[loc[k].conv] = NoJob /\ pc'[k] = "stream"
           /\ job' = [job EXCEPT ![loc[k].conv] = [wait |-> loc[k].wait, fired |-> FALSE]]
        \/ job' = job /\ pc'[k] = "release"
    BY <1>5 DEF ScheduleJob, Job, Goto
  <2>4. \A c \in Conv : \/ job'[c] = job[c]
                        \/ /\ job[c] = NoJob
                           /\ job'[c] = [wait |-> loc[k].wait, fired |-> FALSE]
    BY <2>3
  <2>5. JobsAreOld'
    BY <1>1, <2>1, <2>2, <2>4 DEF JobsAreOld
  <2>6. FiredIsOnItsWay'
    <3>1. OnItsWay(marker) => OnItsWay(marker)'
      BY <1>1, <2>1 DEF OnItsWay
    <3> QED BY <2>1, <2>4, <3>1 DEF FiredIsOnItsWay
  <2>7. PendingHasTrigger'
    <3>1. \A c \in Conv : (marker # NoWait /\ job[c].wait = marker) => job'[c].wait = marker
      BY <2>4 DEF NoJob
    <3>2. \A j \in Task : (loc[j].wait = marker
                             /\ pc[j] \in {"schedule", "release", "lock", "resume"})
                          => Attended(marker)'
      <4>1. CASE job' = job /\ pc'[k] = "release"
        BY <1>1, <2>1, <4>1 DEF Attended
      <4>2. CASE job'[loc[k].conv].wait = loc[k].wait
        BY <1>1, <2>1, <2>2, <4>2 DEF Attended
      <4> QED BY <2>2, <2>3, <4>1, <4>2
    <3> QED BY <2>1, <3>1, <3>2, AttendedStays
  <2> QED BY <1>3, <2>5, <2>6, <2>7
<1>6. CASE ReleaseMarker(k) \/ EndStream(k)
  <2>1. /\ UNCHANGED <<job, nextWait, loc>> /\ marker' \in {marker, NoWait}
        /\ pc'[k] \in {"stream", "done"}
        /\ (pc[k] = "release" /\ marker' # NoWait) => loc[k].wait # marker
        /\ pc[k] \in {"stream", "release"}
    BY <1>6 DEF ReleaseMarker, EndStream, Consume, ConsumeSucceeds, KvFails, Goto, waitVars
  <2>2. JobsAreOld'
    BY <1>1, <2>1 DEF JobsAreOld
  <2>3. FiredIsOnItsWay'
    <3>1. (OnItsWay(marker) /\ marker' = marker) => OnItsWay(marker)'
      BY <1>1, <2>1 DEF OnItsWay
    <3> QED BY <2>1, <3>1 DEF FiredIsOnItsWay
  <2>4. PendingHasTrigger'
    <3>1. ASSUME marker' # NoWait, NEW j \in Task, loc[j].wait = marker,
                 pc[j] \in {"schedule", "release", "lock", "resume"}
          PROVE  Attended(marker)'
      BY <1>1, <2>1, <3>1 DEF Attended
    <3> QED BY <2>1, <3>1, AttendedStays
  <2> QED BY <1>3, <2>2, <2>3, <2>4
<1> QED BY <1>4, <1>5, <1>6 DEF Schedule

\* A wake on its way reaches the marker, which then is free.
LEMMA ResumeUndisturbed ==
  ASSUME Faults = {}, OneRequest, TypeOK, WakeInv, UndisturbedInv,
         NEW k \in Task, Resume(k)
  PROVE  UndisturbedInv'
<1> USE DEF TypeOK, UndisturbedInv
<1>1. /\ \A j \in Task : j # k => pc'[j] = pc[j]
      /\ pc[k] \in {"lock", "resume", "turns", "append", "start"}
  BY DEF Resume, LockResume, GiveUpLock, ConsumeToResume, DropWake, ReadTurns,
         AppendWakeTurn, AbandonWake, StartStream, Goto
<1>2. /\ loc'[k].kind = loc[k].kind /\ loc'[k].wait = loc[k].wait
      /\ \A j \in Task : j # k => loc'[j] = loc[j]
  BY DEF Resume, LockResume, GiveUpLock, ConsumeToResume, DropWake, ReadTurns,
         AppendWakeTurn, AbandonWake, StartStream, Locals
<1>3. k \in WakeTask /\ loc[k].kind = "wake"
  BY <1>1 DEF OneRequestPcs, Task
<1>4. /\ UNCHANGED <<job, nextWait>> /\ marker' \in {marker, NoWait}
      /\ pc'[k] \in {"resume", "turns", "append", "start", "stream", "done"}
      /\ (marker' # NoWait /\ loc[k].wait = marker /\ pc[k] \in {"lock", "resume"})
           => pc'[k] = "resume"
  BY <1>3 DEF Resume, LockResume, GiveUpLock, ConsumeToResume, DropWake, ReadTurns,
         AppendWakeTurn, AbandonWake, StartStream, Consume, ConsumeSucceeds, KvFails,
         Gate, Goto, waitVars
<1>5. OneRequestPcs'
  BY <1>1, <1>2, <1>3, <1>4, TaskKeepsPcs
<1>6. JobsAreOld'
  BY <1>1, <1>2, <1>4 DEF JobsAreOld
<1>7. FiredIsOnItsWay'
  <2>1. ASSUME OnItsWay(marker), marker' # NoWait PROVE OnItsWay(marker)'
    BY <1>1, <1>2, <1>4, <2>1 DEF OnItsWay
  <2> QED BY <1>4, <2>1 DEF FiredIsOnItsWay
<1>8. PendingHasTrigger'
  <2>1. ASSUME marker' # NoWait, NEW j \in Task, loc[j].wait = marker,
               pc[j] \in {"schedule", "release", "lock", "resume"}
        PROVE  Attended(marker)'
    BY <1>1, <1>2, <1>4, <2>1 DEF Attended
  <2> QED BY <1>4, <2>1, AttendedStays
<1> QED BY <1>5, <1>6, <1>7, <1>8

\* A due job starts its wake before it goes.
LEMMA SchedulerUndisturbed ==
  ASSUME Faults = {}, OneRequest, TypeOK, WakeInv, UndisturbedInv,
         NEW c \in Conv, Scheduler(c)
  PROVE  UndisturbedInv'
<1> USE DEF TypeOK, UndisturbedInv
<1>1. job[c] # NoJob /\ UNCHANGED <<marker, nextWait>>
  BY DEF Scheduler, Fire, Retire, NoJob, waitVars
<1>2. \A u \in UserTask : pc[u] \notin {"idle", "read"}
  BY <1>1, JobTouches
<1>3. CASE Fire(c)
  <2>1. job[c].wait \in Wait
    BY <1>3, JobHasWait DEF Fire
  <2>2. PICK d \in 1..MaxDeliveries :
          /\ pc[<<job[c].wait, d>>] = "idle"
          /\ loc' = [loc EXCEPT ![<<job[c].wait, d>>] =
                       [NoLoc EXCEPT !.kind = "wake", !.conv = c, !.wait = job[c].wait]]
          /\ pc' = [pc EXCEPT ![<<job[c].wait, d>>] = "lock"]
    BY <1>3 DEF Fire, Goto
  <2> DEFINE k == <<job[c].wait, d>>
  <2>3. k \in WakeTask /\ k \in Task /\ k \notin UserTask
    BY <2>1, WakeAssumption DEF WakeTask, Task
  <2>4. /\ pc[k] = "idle" /\ pc'[k] = "lock" /\ loc'[k].kind = "wake"
        /\ loc'[k].wait = job[c].wait
        /\ \A j \in Task : j # k => pc'[j] = pc[j] /\ loc'[j] = loc[j]
    BY <2>2, <2>3 DEF NoLoc
  <2>5. \A e \in Conv : job'[e].wait = job[e].wait /\ (e # c => job'[e] = job[e])
    BY <1>3 DEF Fire
  <2> HIDE DEF k
  <2>6. OneRequestPcs'
    BY <1>2, <2>3, <2>4 DEF OneRequestPcs, Task
  <2>7. JobsAreOld'
    BY <1>1, <2>4, <2>5 DEF JobsAreOld
  <2>8. FiredIsOnItsWay'
    <3>1. OnItsWay(marker) => OnItsWay(marker)'
      BY <1>1, <2>4 DEF OnItsWay
    <3>2. marker = job[c].wait => OnItsWay(marker)'
      BY <1>1, <2>3, <2>4 DEF OnItsWay
    <3> QED BY <1>1, <2>5, <3>1, <3>2 DEF FiredIsOnItsWay
  <2>9. PendingHasTrigger'
    <3>1. ASSUME NEW j \in Task, loc[j].wait = marker,
                 pc[j] \in {"schedule", "release", "lock", "resume"}
          PROVE  Attended(marker)'
      BY <1>1, <2>4, <3>1 DEF Attended
    <3> QED BY <1>1, <2>5, <3>1, AttendedStays
  <2> QED BY <2>6, <2>7, <2>8, <2>9
<1>4. CASE Retire(c)
  <2>1. UNCHANGED <<pc, loc>> /\ job[c].fired /\ job'[c] = NoJob
        /\ \A e \in Conv : e # c => job'[e] = job[e]
    BY <1>4 DEF Retire, taskVars
  <2>2. OneRequestPcs'
    BY <1>2, <2>1 DEF OneRequestPcs
  <2>3. JobsAreOld'
    <3>1. NoJob.wait < nextWait
      BY DEF NoJob, NoWait
    <3> QED BY <1>1, <2>1, <3>1 DEF JobsAreOld
  <2>4. FiredIsOnItsWay'
    <3>1. ~ job'[c].fired
      BY <2>1 DEF NoJob
    <3> QED BY <1>1, <2>1, <3>1 DEF FiredIsOnItsWay, OnItsWay
  <2>5. PendingHasTrigger'
    <3>1. CASE marker # NoWait /\ OnItsWay(marker)
      BY <1>1, <2>1, <3>1 DEF PendingHasTrigger, Attended, OnItsWay
    <3>2. CASE marker # NoWait /\ ~ OnItsWay(marker)
      <4>1. job[c].wait # marker
        BY <2>1, <3>2 DEF FiredIsOnItsWay
      <4> QED BY <1>1, <2>1, <3>2, <4>1 DEF PendingHasTrigger, Attended
    <3> QED BY <1>1, <3>1, <3>2 DEF PendingHasTrigger
  <2> QED BY <2>2, <2>3, <2>4, <2>5
<1> QED BY <1>3, <1>4 DEF Scheduler

LEMMA UndisturbedStep ==
  ASSUME Faults = {}, OneRequest, TypeOK, WakeInv, UndisturbedInv, [Next]_vars
  PROVE  UndisturbedInv'
<1> DEFINE Elsewhere == UNCHANGED <<marker, job, pc, loc, nextWait>>
<1>1. CASE Elsewhere
  BY <1>1 DEF UndisturbedInv, OneRequestPcs, Untouched, FiredIsOnItsWay, OnItsWay,
         JobsAreOld, PendingHasTrigger, Attended
<1>2. ASSUME NEW k \in Task PROVE ~ Crash(k) /\ (Unlock(k) => Elsewhere)
  BY DEF Crash, Unlock, taskVars, waitVars
<1>3. \A c \in Conv : ~ Redeliver(c)
  BY DEF Redeliver
<1>4. ~ Expire
  BY DEF Expire, UndisturbedInv, PendingHasTrigger
<1>5. UNCHANGED vars => Elsewhere
  BY DEF vars, taskVars, waitVars
<1> QED
  BY <1>1, <1>2, <1>3, <1>4, <1>5, RequestUndisturbed, SteerUndisturbed,
     ScheduleUndisturbed, ResumeUndisturbed, SchedulerUndisturbed DEF Next, Run, Quiet

\* In a thread that one request reaches and where no call fails, however many
\* wakes follow each other and whoever's conversations they are, a pending wait
\* always has its job or a wake on its way.
THEOREM WaitsAreTriggered ==
  ASSUME Faults = {}, OneRequest
  PROVE  Spec => []PendingHasTrigger
<1>1. Init => UndisturbedInv
  <2> SUFFICES ASSUME Init PROVE UndisturbedInv
    OBVIOUS
  <2>1. \A k \in Task : pc[k] = "idle"
    BY DEF Init
  <2>2. Untouched
    BY <2>1 DEF Init, Untouched, Task
  <2>3. OneRequestPcs
    BY <2>1, <2>2, UserInTask DEF OneRequestPcs, Task
  <2>4. JobsAreOld /\ FiredIsOnItsWay
    BY <2>1, <2>2 DEF Init, Untouched, JobsAreOld, FiredIsOnItsWay, NoJob, NoWait
  <2>5. PendingHasTrigger
    BY <2>2 DEF Untouched, PendingHasTrigger
  <2> QED BY <2>3, <2>4, <2>5 DEF UndisturbedInv
<1>2. TypeOK /\ WakeInv /\ UndisturbedInv /\ [Next]_vars => UndisturbedInv'
  BY UndisturbedStep
<1>3. UndisturbedInv => PendingHasTrigger
  BY DEF UndisturbedInv
<1> QED BY <1>1, <1>2, <1>3, Invariance, PTL DEF Spec

=============================================================================
