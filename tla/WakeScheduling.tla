--------------------------- MODULE WakeScheduling ---------------------------
(***************************************************************************)
(* Waits and wakes of one thread and bot (conversations/wakeup.go): the KV *)
(* marker that says a wait is pending, the one-time job of the cluster     *)
(* scheduler that ends it, the mutex that serializes resumes, and          *)
(* everything that races for the marker: messages and regenerations that   *)
(* steer the thread, the requester's cancel and check-now, the job itself. *)
(*                                                                         *)
(* The participants' conversations share the marker.  A task is a request  *)
(* or a goroutine on any node; every access to the KV store, the scheduler *)
(* and the turns is a step of its own.  Waits are numbered as they are     *)
(* scheduled.                                                              *)
(***************************************************************************)
EXTENDS Naturals

CONSTANTS
  Conv,          \* conversations of the thread, one per participant
  NoConv,        \* no conversation
  UserTask,      \* requests of users, each handled once
  NoTask,        \* no task
  Operations,    \* what user requests do
  MaxWakes,      \* maxConsecutiveWakes
  MaxWaits,      \* bound: waits ever scheduled
  MaxDeliveries, \* bound: how often the scheduler fires one job
  Faults         \* which of "kv", "gate", "lock", "crash" happen

Wait     == 1..MaxWaits
NoWait   == 0
WakeTask == Wait \X (1..MaxDeliveries)
Task     == UserTask \cup WakeTask
Kinds    == {"message", "regenerate", "followup", "cancel", "checknow"}

ASSUME WakeAssumption ==
  /\ NoConv \notin Conv /\ NoTask \notin Task
  /\ UserTask \cap WakeTask = {}
  /\ Operations \subseteq Kinds
  /\ MaxWakes \in Nat /\ MaxWaits \in Nat /\ MaxDeliveries \in Nat
  /\ Faults \subseteq {"kv", "gate", "lock", "crash"}

VARIABLES
  marker,    \* the wait named by the thread's KV marker, or NoWait
  job,       \* the scheduler's job of each conversation
  lock,      \* the holder of each conversation's resume mutex
  chain,     \* countConsecutiveWakes of each conversation's turns
  pc,        \* where each task is
  loc,       \* its locals
  nextWait,  \* the next wait to schedule
  owner,     \* the conversation that scheduled each wait
  shownOn,   \* ResponsePostID of each wait: the task whose post shows it
  fate,      \* history: what became of each wait
  resumes    \* history: how many wake turns each wait produced

taskVars == <<pc, loc>>
waitVars == <<nextWait, owner, shownOn>>
history  == <<fate, resumes>>
vars     == <<marker, job, lock, chain, taskVars, waitVars, history>>

-----------------------------------------------------------------------------
NoJob == [wait |-> NoWait, fired |-> FALSE]
NoLoc == [kind |-> "none", conv |-> NoConv, post |-> NoTask, wait |-> NoWait,
          found |-> NoWait, count |-> 0]
Locals == [kind : Kinds \cup {"none", "wake"}, conv : Conv \cup {NoConv},
           post : Task \cup {NoTask}, wait : Wait \cup {NoWait},
           found : Wait \cup {NoWait}, count : Nat]

Pcs == {"idle", "read", "control", "consume", "unschedule", "stream", "schedule",
        "release", "lock", "resume", "turns", "append", "start", "done"}
Live(k)    == pc[k] \notin {"idle", "done"}
Goto(k, p) == pc' = [pc EXCEPT ![k] = p]
Streams(k) == pc[k] \in {"stream", "schedule", "release"}

Job(k)  == job[loc[k].conv]
KvFails == "kv" \in Faults
Gate    == "gate" \in Faults

Init ==
  /\ marker = NoWait
  /\ job = [c \in Conv |-> NoJob]
  /\ lock = [c \in Conv |-> NoTask]
  /\ chain = [c \in Conv |-> 0]
  /\ pc = [k \in Task |-> "idle"]
  /\ loc = [k \in Task |-> NoLoc]
  /\ nextWait = 1
  /\ owner = [w \in Wait |-> NoConv]
  /\ shownOn = [w \in Wait |-> NoTask]
  /\ fate = [w \in Wait |-> "none"]
  /\ resumes = [w \in Wait |-> 0]

-----------------------------------------------------------------------------
(* Live turns: messages, regenerations, tool follow-ups *)

\* GetOrCreateConversation appends the requester's turn, which ends the chain.
Message(k, c) ==
  /\ pc[k] = "idle" /\ "message" \in Operations
  /\ chain' = [chain EXCEPT ![c] = 0]
  /\ loc' = [loc EXCEPT ![k] = [NoLoc EXCEPT !.kind = "message", !.conv = c,
                                             !.post = k, !.found = marker]]
  /\ Goto(k, "read")
  /\ UNCHANGED <<marker, job, lock, waitVars, history>>

\* A response of task j is regenerated, or its tool calls are approved and the
\* completion goes on, which steers nothing.
Revisit(k, j) ==
  /\ pc[k] = "idle"
  /\ Streams(j) \/ pc[j] = "done"
  /\ loc[j].post # NoTask
  /\ \E op \in Operations \cap {"regenerate", "followup"} :
       /\ loc' = [loc EXCEPT ![k] = [NoLoc EXCEPT !.kind = op, !.conv = loc[j].conv,
                                                  !.post = loc[j].post, !.found = marker]]
       /\ Goto(k, IF op = "regenerate" THEN "read" ELSE "stream")
  /\ UNCHANGED <<marker, job, lock, chain, waitVars, history>>

\* The wait a steering task ends: whoever's conversation scheduled it.
SteeredWait_OwnOnly(k) ==
  IF marker # NoWait /\ owner[marker] = loc[k].conv THEN marker ELSE NoWait

SteeredWait(k) == marker

\* cancelThreadWake reads the marker.
ReadMarker(k) ==
  /\ pc[k] = "read"
  /\ \/ /\ SteeredWait(k) # NoWait
        /\ loc' = [loc EXCEPT ![k].wait = SteeredWait(k)]
        /\ Goto(k, "consume")
     \/ /\ SteeredWait(k) = NoWait \/ KvFails
        /\ Goto(k, "stream")
        /\ UNCHANGED loc
  /\ UNCHANGED <<marker, job, lock, chain, waitVars, history>>

\* consumeWakeMarker: the marker still holds the wait.
ConsumeSucceeds_AnyWait(w) == marker # NoWait

ConsumeSucceeds(w) == marker = w

\* The marker is deleted; the wait has ended that way.
Consume(w, how) ==
  /\ ConsumeSucceeds(w)
  /\ marker' = NoWait
  /\ fate' = [fate EXCEPT ![w] = how]

\* cancelWakeMarker, up to the consume.
CancelMarker(k) ==
  LET w == loc[k].wait IN
  /\ pc[k] = "consume"
  /\ \/ Consume(w, "canceled") /\ Goto(k, "unschedule")
     \/ /\ ~ ConsumeSucceeds(w) \/ KvFails
        /\ Goto(k, IF loc[k].kind = "cancel" THEN "done" ELSE "stream")
        /\ UNCHANGED <<marker, fate>>
  /\ UNCHANGED <<job, lock, chain, loc, waitVars, resumes>>

\* wakeScheduler.Cancel, by the key of the wait's conversation.  A message
\* then records the canceled wait in a turn that countConsecutiveWakes skips.
Unschedule(k) ==
  /\ pc[k] = "unschedule"
  /\ job' = [job EXCEPT ![owner[loc[k].wait]] = NoJob]
  /\ Goto(k, CASE loc[k].kind = "cancel" -> "done"
               [] loc[k].kind = "checknow" -> "turns"
               [] OTHER -> "stream")
  /\ UNCHANGED <<marker, lock, chain, loc, waitVars, history>>

-----------------------------------------------------------------------------
(* ScheduleWake, called by the model while a response streams *)

MarkerFree == marker = NoWait

\* The marker is claimed.  While a wait is pending, the call changes nothing
\* (ErrWaitAlreadyScheduled).
ClaimMarker(k) ==
  /\ pc[k] = "stream"
  /\ nextWait <= MaxWaits
  /\ MarkerFree
  /\ marker' = nextWait
  /\ loc' = [loc EXCEPT ![k].wait = nextWait]
  /\ owner' = [owner EXCEPT ![nextWait] = loc[k].conv]
  /\ shownOn' = [shownOn EXCEPT ![nextWait] = loc[k].post]
  /\ fate' = [fate EXCEPT ![nextWait] = "pending"]
  /\ nextWait' = nextWait + 1
  /\ Goto(k, "schedule")
  /\ UNCHANGED <<job, lock, chain, resumes>>

\* ScheduleOnce refuses a key that is still present.
ScheduleJob(k) ==
  /\ pc[k] = "schedule"
  /\ \/ /\ Job(k) = NoJob
        /\ job' = [job EXCEPT ![loc[k].conv] = [wait |-> loc[k].wait, fired |-> FALSE]]
        /\ Goto(k, "stream")
     \/ /\ Job(k) # NoJob \/ KvFails
        /\ Goto(k, "release")
        /\ UNCHANGED job
  /\ UNCHANGED <<marker, lock, chain, loc, waitVars, history>>

\* The claim is undone.
ReleaseMarker_Skipped(k) ==
  /\ pc[k] = "release"
  /\ Goto(k, "stream")
  /\ UNCHANGED <<marker, fate, job, lock, chain, loc, waitVars, resumes>>

ReleaseMarker(k) ==
  LET w == loc[k].wait IN
  /\ pc[k] = "release"
  /\ \/ Consume(w, "released")
     \/ (~ ConsumeSucceeds(w) \/ KvFails) /\ UNCHANGED <<marker, fate>>
  /\ Goto(k, "stream")
  /\ UNCHANGED <<job, lock, chain, loc, waitVars, resumes>>

EndStream(k) ==
  /\ pc[k] = "stream"
  /\ Goto(k, "done")
  /\ UNCHANGED <<marker, job, lock, chain, loc, waitVars, history>>

-----------------------------------------------------------------------------
(* The requester's controls *)

\* The requester clicks on the post that shows the wait.
ClickControl(k, op) ==
  /\ pc[k] = "idle" /\ op \in Operations
  /\ marker # NoWait
  /\ loc' = [loc EXCEPT ![k] = [NoLoc EXCEPT !.kind = op, !.conv = owner[marker],
                                             !.post = shownOn[marker]]]
  /\ Goto(k, "control")
  /\ UNCHANGED <<marker, job, lock, chain, waitVars, history>>

\* pendingWaitForPost.
PendingOn(p) == {w \in Wait : marker = w /\ shownOn[w] = p}

ReadControl(k) ==
  /\ pc[k] = "control"
  /\ \/ \E w \in PendingOn(loc[k].post) :
          /\ loc' = [loc EXCEPT ![k].wait = w]
          /\ Goto(k, IF loc[k].kind = "cancel" THEN "consume" ELSE "lock")
     \/ /\ PendingOn(loc[k].post) = {} \/ KvFails
        /\ Goto(k, "done")
        /\ UNCHANGED loc
  /\ UNCHANGED <<marker, job, lock, chain, waitVars, history>>

-----------------------------------------------------------------------------
(* The cluster scheduler (external) *)

\* The job of conversation c is due: HandleWakeJob starts a goroutine.
Fire(c) ==
  /\ job[c] # NoJob /\ ~ job[c].fired
  /\ \E d \in 1..MaxDeliveries :
       LET k == <<job[c].wait, d>> IN
       /\ pc[k] = "idle"
       /\ \A e \in 1..MaxDeliveries : e < d => pc[<<job[c].wait, e>>] # "idle"
       /\ loc' = [loc EXCEPT ![k] = [NoLoc EXCEPT !.kind = "wake", !.conv = c,
                                                  !.wait = job[c].wait]]
       /\ Goto(k, "lock")
  /\ job' = [job EXCEPT ![c].fired = TRUE]
  /\ UNCHANGED <<marker, lock, chain, waitVars, history>>

\* The job is deleted after its callback has returned.
Retire(c) ==
  /\ job[c].fired
  /\ job' = [job EXCEPT ![c] = NoJob]
  /\ UNCHANGED <<marker, lock, chain, taskVars, waitVars, history>>

\* The node that fired the job died before it deleted the job.
Redeliver(c) ==
  /\ "crash" \in Faults
  /\ job[c].fired
  /\ pc[<<job[c].wait, MaxDeliveries>>] = "idle"
  /\ job' = [job EXCEPT ![c].fired = FALSE]
  /\ UNCHANGED <<marker, lock, chain, taskVars, waitVars, history>>

-----------------------------------------------------------------------------
(* runWake and ResumeConversation *)

LockFree_Ignored(c) == TRUE

LockFree(c) == lock[c] = NoTask

LockResume(k) ==
  /\ pc[k] = "lock"
  /\ LockFree(loc[k].conv)
  /\ lock' = [lock EXCEPT ![loc[k].conv] = k]
  /\ Goto(k, "resume")
  /\ UNCHANGED <<marker, job, chain, loc, waitVars, history>>

\* resumeLockMaxWait has passed: the wake is dropped, the marker stays.
GiveUpLock(k) ==
  /\ pc[k] = "lock" /\ "lock" \in Faults
  /\ ~ LockFree(loc[k].conv)
  /\ Goto(k, "done")
  /\ UNCHANGED <<marker, job, lock, chain, loc, waitVars, history>>

\* A wake that is not steered or superseded consumes the marker; an early one
\* then cancels its trigger.
ConsumeToResume(k) ==
  /\ pc[k] = "resume"
  /\ Consume(loc[k].wait, "resumed")
  /\ Goto(k, IF loc[k].kind = "checknow" THEN "unschedule" ELSE "turns")
  /\ UNCHANGED <<job, lock, chain, loc, waitVars, resumes>>

\* Steered or superseded, or the post or the KV store cannot be read.
DropWake(k) ==
  /\ pc[k] = "resume"
  /\ ~ ConsumeSucceeds(loc[k].wait) \/ Gate \/ KvFails
  /\ Goto(k, "done")
  /\ UNCHANGED <<marker, job, lock, chain, loc, waitVars, history>>

\* GetTurns, long before the turn is appended.
ReadTurns(k) ==
  /\ pc[k] = "turns"
  /\ loc' = [loc EXCEPT ![k].count = chain[loc[k].conv]]
  /\ Goto(k, "append")
  /\ UNCHANGED <<marker, job, lock, chain, waitVars, history>>

ChainFull_Early(n) == n + 1 >= MaxWakes

ChainFull(n) == n >= MaxWakes

\* The wake turn.
AppendWakeTurn(k) ==
  /\ pc[k] = "append"
  /\ ~ ChainFull(loc[k].count)
  /\ chain' = [chain EXCEPT ![loc[k].conv] = @ + 1]
  /\ resumes' = [resumes EXCEPT ![loc[k].wait] = @ + 1]
  /\ Goto(k, "start")
  /\ UNCHANGED <<marker, job, lock, loc, waitVars, fate>>

\* The chain limit, an entity that is gone, a requester who lost access, a
\* failed write or a completion that does not start.
AbandonWake(k) ==
  /\ \/ pc[k] = "append" /\ ChainFull(loc[k].count)
     \/ pc[k] \in {"turns", "append", "start"} /\ Gate
  /\ Goto(k, "done")
  /\ UNCHANGED <<marker, job, lock, chain, loc, waitVars, history>>

\* The reply streams on a goroutine of its own, to a post of its own.
StartStream(k) ==
  /\ pc[k] = "start"
  /\ loc' = [loc EXCEPT ![k].post = k]
  /\ Goto(k, "stream")
  /\ UNCHANGED <<marker, job, lock, chain, waitVars, history>>

Unlock_OnSuccess(k) ==
  /\ Streams(k)
  /\ loc[k].conv # NoConv /\ lock[loc[k].conv] = k
  /\ lock' = [lock EXCEPT ![loc[k].conv] = NoTask]
  /\ UNCHANGED <<marker, job, chain, taskVars, waitVars, history>>

\* runWake has returned (or its node died and the mutex expired).
Unlock(k) ==
  /\ Streams(k) \/ pc[k] = "done"
  /\ loc[k].conv # NoConv /\ lock[loc[k].conv] = k
  /\ lock' = [lock EXCEPT ![loc[k].conv] = NoTask]
  /\ UNCHANGED <<marker, job, chain, taskVars, waitVars, history>>

-----------------------------------------------------------------------------
(* Time and crashes *)

\* Something will still end wait w, or is scheduling it.
Attended(w) ==
  \/ \E c \in Conv : job[c].wait = w
  \/ \E k \in Task : loc[k].wait = w /\ pc[k] \in {"schedule", "release", "lock", "resume"}

\* wakeMarkerTTL outlives the wait and the queue on the mutex, so the marker
\* expires only when nothing is left that could consume it.
Expire ==
  /\ marker # NoWait
  /\ ~ Attended(marker)
  /\ marker' = NoWait
  /\ fate' = [fate EXCEPT ![marker] = "expired"]
  /\ UNCHANGED <<job, lock, chain, taskVars, waitVars, resumes>>

\* The node of task k dies.
Crash(k) ==
  /\ "crash" \in Faults
  /\ Live(k)
  /\ Goto(k, "done")
  /\ UNCHANGED <<marker, job, lock, chain, loc, waitVars, history>>

-----------------------------------------------------------------------------
Steer(k)    == ReadMarker(k) \/ CancelMarker(k) \/ Unschedule(k) \/ ReadControl(k)
Schedule(k) == ClaimMarker(k) \/ ScheduleJob(k) \/ ReleaseMarker(k) \/ EndStream(k)
Resume(k)   == \/ LockResume(k) \/ GiveUpLock(k) \/ ConsumeToResume(k) \/ DropWake(k)
               \/ ReadTurns(k) \/ AppendWakeTurn(k) \/ AbandonWake(k) \/ StartStream(k)

Run(k) == Steer(k) \/ Schedule(k) \/ Resume(k)

Scheduler(c) == Fire(c) \/ Retire(c)

Request(k) ==
  \/ \E c \in Conv : Message(k, c)
  \/ \E j \in Task : Revisit(k, j)
  \/ \E op \in {"cancel", "checknow"} : ClickControl(k, op)

Quiet == (\A k \in Task : ~ Live(k)) /\ UNCHANGED vars

Next ==
  \/ \E k \in UserTask : Request(k)
  \/ \E k \in Task : Run(k) \/ Unlock(k) \/ Crash(k)
  \/ \E c \in Conv : Scheduler(c) \/ Redeliver(c)
  \/ Expire
  \/ Quiet

Spec == Init /\ [][Next]_vars

\* Started goroutines run, due jobs fire, mutexes are released, markers expire.
FairSpec ==
  /\ Spec
  /\ \A k \in Task : WF_vars(Run(k)) /\ WF_vars(Unlock(k))
  /\ \A c \in Conv : WF_vars(Scheduler(c))
  /\ WF_vars(Expire)

-----------------------------------------------------------------------------
(* Properties *)

TypeOK ==
  /\ marker \in Wait \cup {NoWait}
  /\ job \in [Conv -> [wait : Wait \cup {NoWait}, fired : BOOLEAN]]
  /\ lock \in [Conv -> Task \cup {NoTask}]
  /\ chain \in [Conv -> Nat]
  /\ pc \in [Task -> Pcs]
  /\ loc \in [Task -> Locals]
  /\ nextWait \in Nat \ {0}
  /\ owner \in [Wait -> Conv \cup {NoConv}]
  /\ shownOn \in [Wait -> Task \cup {NoTask}]
  /\ fate \in [Wait -> {"none", "pending", "resumed", "canceled", "released", "expired"}]
  /\ resumes \in [Wait -> 0..1]

\* A chain of wakes the requester did not re-engage with stops at
\* maxConsecutiveWakes, although the turns are counted long before one is added
\* and several wakes of a conversation may be in flight.
WakeChainBounded == \A c \in Conv : chain[c] <= MaxWakes

\* "A new message in a thread steers away the thread's pending wake": once a
\* message or a regeneration has passed that point, the wait that was pending
\* when it arrived is over, whichever participant's conversation owns it.
SteeredAway ==
  \A k \in Task :
    (loc[k].kind \in {"message", "regenerate"} /\ Streams(k)) =>
      (loc[k].found = NoWait \/ marker # loc[k].found)

\* A pending wait whose ScheduleWake has returned still has what will end it:
\* its job, or a wake on its way to the marker.
PendingHasTrigger == marker # NoWait => Attended(marker)

\* A pending wait does not stay pending: it resumes, is canceled or released,
\* or its marker expires, even after crashes, failed calls and lost wakes.
WaitEnds == \A w \in Wait : marker = w ~> marker # w

\* In a thread nobody disturbs, a scheduled wait wakes its conversation, unless
\* the chain has reached the limit.
WaitResumes ==
  \A w \in Wait, c \in Conv :
    (marker = w /\ job[c].wait = w) ~> (resumes[w] > 0 \/ chain[c] >= MaxWakes)

\* The protocol implements WaitLifecycle: a consume ends the wait the marker
\* names, and one wake turn follows a consume by a wake.
Abs == INSTANCE WaitLifecycle WITH status <- fate, woken <- resumes
ImplementsWaitLifecycle == Abs!Spec

-----------------------------------------------------------------------------
(* Why these hold: an inductive invariant *)

\* The marker names the one pending wait; a wait that did not resume has
\* produced no wake turn; waits beyond nextWait do not exist.
MarkerIsPending == \A w \in Wait : fate[w] = "pending" <=> marker = w
OnlyResumedWoke == \A w \in Wait : fate[w] # "resumed" => resumes[w] = 0
WaitsAreOld ==
  \A w \in Wait : /\ w >= nextWait => fate[w] = "none"
                  /\ w < nextWait => owner[w] \in Conv

\* A task that consumes names a wait; a started task knows its conversation;
\* only a task that steers or cancels goes through cancelWakeMarker.
ConsumersHaveWaits ==
  \A k \in Task :
    /\ pc[k] \in {"consume", "unschedule", "schedule", "release", "lock", "resume",
                  "turns", "append", "start"} => loc[k].wait \in Wait
    /\ pc[k] # "idle" => loc[k].conv \in Conv
    /\ pc[k] \in {"read", "consume"} => loc[k].kind # "checknow"

\* A winner has consumed its wait and has not yet appended the wake turn; no
\* two tasks have won the same wait.
Winner(k) ==
  pc[k] \in {"turns", "append"} \/ (pc[k] = "unschedule" /\ loc[k].kind = "checknow")
WinnersAreUnique ==
  \A k \in Task : Winner(k) =>
    /\ fate[loc[k].wait] = "resumed"
    /\ resumes[loc[k].wait] = 0
    /\ \A j \in Task : Winner(j) /\ loc[j].wait = loc[k].wait => j = k

\* A resume holds its conversation's mutex, so the wakes it counted are still
\* all there are: only a message, which starts at none, can intervene.
ResumesHoldLock ==
  \A k \in Task : (pc[k] = "resume" \/ Winner(k)) => lock[loc[k].conv] = k
CountIsCurrent ==
  \A k \in Task : pc[k] = "append" => chain[loc[k].conv] <= loc[k].count

WakeInv ==
  /\ MarkerIsPending /\ OnlyResumedWoke /\ WaitsAreOld /\ ConsumersHaveWaits
  /\ WinnersAreUnique /\ ResumesHoldLock /\ CountIsCurrent /\ WakeChainBounded

\* A message or a regeneration that found a wait pending either sees it ended
\* or holds that very wait for its consume; waits are numbered as they are
\* scheduled, so one that has ended never comes back.
SteerPcs == {"read", "consume", "unschedule", "stream", "schedule", "release", "done"}
FoundIsOver(k) == loc[k].found = NoWait \/ marker # loc[k].found
SteersItsWait(k) ==
  loc[k].kind \in {"message", "regenerate"} =>
    /\ pc[k] \in SteerPcs
    /\ loc[k].found < nextWait
    /\ pc[k] = "consume" => FoundIsOver(k) \/ loc[k].wait = loc[k].found
    /\ pc[k] \in SteerPcs \ {"read", "consume", "done"} => FoundIsOver(k)
SteerInv == \A k \in Task : SteersItsWait(k)

\* In a thread that one request reaches and where nothing fails: nothing has
\* happened before that request, it found no wait, and everything later is a
\* wake; a job that has fired the pending wait has a wake on its way.
Untouched ==
  /\ marker = NoWait
  /\ \A c \in Conv : job[c] = NoJob
  /\ \A k \in WakeTask : pc[k] = "idle"
OneRequestPcs ==
  /\ \A u \in UserTask :
       /\ pc[u] \in {"idle", "read", "stream", "schedule", "release", "done"}
       /\ pc[u] \in {"idle", "read"} => Untouched
  /\ \A k \in WakeTask :
       /\ pc[k] \notin {"read", "control", "consume", "unschedule"}
       /\ pc[k] # "idle" => loc[k].kind = "wake"
OnItsWay(w) == \E k \in Task : loc[k].wait = w /\ pc[k] \in {"lock", "resume"}
FiredIsOnItsWay ==
  \A c \in Conv :
    (job[c].fired /\ marker # NoWait /\ marker = job[c].wait) => OnItsWay(marker)
JobsAreOld ==
  /\ \A c \in Conv : job[c].wait < nextWait
  /\ \A k \in Task : pc[k] = "schedule" => loc[k].wait < nextWait
UndisturbedInv == OneRequestPcs /\ FiredIsOnItsWay /\ JobsAreOld /\ PendingHasTrigger
=============================================================================
