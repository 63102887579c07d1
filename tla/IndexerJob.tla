----------------------------- MODULE IndexerJob -----------------------------
(***************************************************************************)
(* The exclusive jobs of the indexer: a full reindex, its resume, a        *)
(* catch-up and a rebuild of the vector index, which all use one job row,  *)
(* one cursor and one marker of the vector index in the KV store.          *)
(* (indexer/indexer.go, indexer_job.go, exclusive_job.go, vector_index.go, *)
(* rebuild_vector_index.go)                                                *)
(*                                                                         *)
(* A start holds the cluster mutex, commits the row by compare-and-set,    *)
(* claims the marker and spawns a worker.  Starts and cancels exclude each *)
(* other; workers, activations of a node and post hooks do not.            *)
(*                                                                         *)
(* The posts are those of the cutoff, in the order of the cursor; what a   *)
(* pass does inside is IndexPass, here it stores the posts one by one.     *)
(* A compare-and-set of the row succeeds when nobody wrote the row since   *)
(* its writer read it: every write changes the value, so "seen" holds the  *)
(* readers whose value is still the current one.                           *)
(***************************************************************************)
EXTENDS Naturals, FiniteSets

CONSTANTS
  NumPosts,       \* posts up to the cutoff
  MaxJobs,        \* bound: jobs started
  MaxStallJobs,   \* bound: jobs started, where a worker outlives its heartbeat
  MaxActivations, \* bound: activations of a plugin node
  Operation,      \* what an admin starts: "full", "resume", "catchup", "rebuild"
  Defer,          \* the reindex strategy is defer: drop the index for the load
  Faults          \* "crash", "stall", "error", "ddl", "config"

ASSUME IndexerJobAssumption ==
  /\ NumPosts \in Nat
  /\ MaxJobs \in Nat
  /\ MaxStallJobs \in Nat
  /\ MaxActivations \in Nat
  /\ Operation \subseteq {"full", "resume", "catchup", "rebuild"}
  /\ Defer \in BOOLEAN

VARIABLES
  row,          \* KV ReindexJobKey
  stale,        \* its heartbeat is older than StaleJobThreshold
  seen,         \* who read the row as it is now and may still compare-and-set it
  cursor,       \* KV IndexerCursorKey; 0 when absent
  lastIndexed,  \* KV IndexerLastIndexedKey is set
  marker,       \* KV VectorIndexStateKey
  indexExists,  \* a valid ANN index is in the catalog
  vectors,      \* posts whose embedding is stored
  admin,        \* where the start is that holds the mutex
  request,      \* what it starts
  worker,       \* where the worker of each job is
  mine,         \* the worker's own copy of the row
  claim,        \* deferredRun: its last claim of the marker, how it came to it
  pos,          \* posts up to here are processed by the worker's pass
  activation,   \* where the activation of a node is
  observed,     \* the marker as that activation read it
  activations,
  stalls,       \* jobs whose worker missed its heartbeat while alive
  strays        \* who holds a cursor a rebuild left: the key, jobs that began there

rowVars == <<row, stale, seen>>
indexVars == <<marker, indexExists, vectors>>
adminVars == <<admin, request>>
workerVars == <<worker, mine, claim, pos>>
activationVars == <<activation, observed, activations>>
vars == <<rowVars, indexVars, adminVars, workerVars, activationVars,
          cursor, strays, lastIndexed, stalls>>

Post == 1..NumPosts

Job == 1..MaxJobs

\* Who reads the row to compare-and-set it: workers, the start, an activation.
Admin == 0
Activator == MaxJobs + 1
Reader == 0..(MaxJobs + 1)

\* The cursor in the KV store, beside the jobs, for strays.
CursorKey == MaxJobs + 1

Status == {"running", "cancel_requested", "completed", "failed", "canceled"}

Row == [job : 0..MaxJobs, status : Status, op : {"reindex", "catch_up", "rebuild_vector_index"},
        resumable : BOOLEAN, clear : BOOLEAN]

\* Job 0 is the full reindex that completed before the model starts.
FirstRow == [job |-> 0, status |-> "completed", op |-> "reindex", resumable |-> FALSE, clear |-> TRUE]

Marker == [job : Job, phase : {"dropped", "building", "repairing"}]

NoMarker == [job |-> 0, phase |-> "none"]

NoClaim == [state |-> NoMarker, adopted |-> FALSE, converted |-> FALSE]

isActiveJob(r) == r.status \in {"running", "cancel_requested"}

isJobStale == isActiveJob(row) /\ stale

isUnfinishedFullReindex(r) ==
  /\ ~r.resumable
  /\ r.op = "reindex"
  /\ r.status \in {"failed", "canceled"}

deferredIndexGated == marker.phase \in {"dropped", "building"}

Init ==
  /\ row = FirstRow
  /\ stale = FALSE
  /\ seen = {}
  /\ cursor = 0
  /\ lastIndexed = TRUE
  /\ marker = NoMarker
  /\ indexExists = TRUE
  /\ vectors = Post
  /\ admin = "idle"
  /\ request = "none"
  /\ worker = [j \in Job |-> "off"]
  /\ mine = [j \in Job |-> FirstRow]
  /\ claim = [j \in Job |-> NoClaim]
  /\ pos = [j \in Job |-> 0]
  /\ activation = "off"
  /\ observed = NoMarker
  /\ activations = 0
  /\ stalls = {}
  /\ strays = {}

----------------------------------------------------------------------------
(* Compare-and-set *)

\* A write of the row invalidates what everybody else has read of it.
WriteRow(r, s) ==
  /\ row' = r
  /\ stale' = s
  /\ seen' = {}

ReadRow(who) ==
  /\ seen' = seen \cup {who}
  /\ UNCHANGED <<row, stale>>

\* The compare-and-set of a reader: it writes r, or its value is outdated.
CasRow(who, r) ==
  IF who \in seen THEN WriteRow(r, FALSE) ELSE UNCHANGED rowVars

----------------------------------------------------------------------------
(* Starting a job: under the cluster mutex *)

\* What the handlers refuse with the row they read.
Refused(op) ==
  \/ op = "resume" /\ row.op = "rebuild_vector_index"
  \/ op = "catchup" /\ ~lastIndexed
  \/ op = "rebuild" /\ isUnfinishedFullReindex(row)

beginExclusiveJob(op) ==
  /\ admin = "idle"
  /\ row.job < MaxJobs
  /\ stalls # {} => row.job < MaxStallJobs
  /\ ~(isActiveJob(row) /\ ~stale)
  /\ ~Refused(op)
  /\ admin' = "commit"
  /\ request' = op
  /\ ReadRow(Admin)
  /\ UNCHANGED <<indexVars, workerVars, activationVars, cursor, strays, lastIndexed, stalls>>

\* A resume continues the operation of the row, any other start is a new one.
NewRow(op) ==
  [job |-> row.job + 1,
   status |-> "running",
   op |-> CASE op = "rebuild" -> "rebuild_vector_index"
            [] op = "catchup" -> "catch_up"
            [] op = "resume" /\ row.op = "catch_up" -> "catch_up"
            [] OTHER -> "reindex",
   resumable |-> op \in {"resume", "catchup"},
   clear |-> op = "full"]

commit ==
  /\ admin = "commit"
  /\ IF Admin \in seen
     THEN /\ WriteRow(NewRow(request), FALSE)
          /\ admin' = IF request \in {"full", "catchup"} THEN "cursor"
                      ELSE IF NewRow(request).op = "catch_up" THEN "spawn" ELSE "resolve"
          /\ UNCHANGED request
     ELSE /\ admin' = "idle"
          /\ request' = "none"
          /\ UNCHANGED rowVars
  /\ UNCHANGED <<indexVars, workerVars, activationVars, cursor, strays, lastIndexed, stalls>>

\* A full reindex deletes the cursor, a catch-up sets it to the retention floor.
ResetCursor ==
  /\ admin = "cursor"
  /\ cursor' = 0
  /\ strays' = strays \ {CursorKey}
  /\ admin' = IF request = "full" THEN "resolve" ELSE "spawn"
  /\ UNCHANGED <<rowVars, indexVars, workerVars, activationVars, request, lastIndexed, stalls>>

\* As if the error of the delete were only logged.
CursorDeleteIgnored ==
  /\ admin = "cursor"
  /\ request = "full"
  /\ "error" \in Faults
  /\ admin' = "resolve"
  /\ UNCHANGED <<rowVars, indexVars, workerVars, activationVars, request,
                 cursor, strays, lastIndexed, stalls>>

\* The delete fails: the start returns its error, and nobody runs the row.
CursorDeleteFails ==
  /\ admin = "cursor"
  /\ request = "full"
  /\ "error" \in Faults
  /\ admin' = "idle"
  /\ request' = "none"
  /\ UNCHANGED <<rowVars, indexVars, workerVars, activationVars,
                 cursor, strays, lastIndexed, stalls>>

\* The claim a start makes: what it writes to the marker, whether it took over
\* an earlier claim, and whether that was a pending repair it must restore.
ClaimFor(op, j) ==
  LET taking(phase, converts) == [state |-> [job |-> j, phase |-> phase], adopted |-> TRUE,
                                  converted |-> converts]
      drops == op = "rebuild" \/ (op = "full" /\ Defer)
      pending == marker.phase = "repairing"
  IN CASE marker = NoMarker /\ drops -> [taking("dropped", FALSE) EXCEPT !.adopted = FALSE]
       [] marker = NoMarker /\ ~drops -> NoClaim
       [] marker # NoMarker /\ ~pending -> taking("dropped", FALSE)
       [] pending /\ op = "resume" -> taking("repairing", FALSE)
       [] pending /\ op = "full" /\ ~Defer -> NoClaim
       [] OTHER -> taking("dropped", TRUE)

\* Without a claim the marker is deleted by a full reindex, or there is none.
resolveDeferredRebuild ==
  /\ admin = "resolve"
  /\ LET j == row.job
         c == ClaimFor(request, j)
     IN /\ claim' = [claim EXCEPT ![j] = c]
        /\ marker' = c.state
        /\ worker' = [worker EXCEPT ![j] = "begin"]
        /\ mine' = [mine EXCEPT ![j] = row]
  /\ admin' = "idle"
  /\ request' = "none"
  /\ UNCHANGED <<rowVars, activationVars, indexExists, vectors, pos,
                 cursor, strays, lastIndexed, stalls>>

\* The marker cannot be read or written: the start records the failure.
ResolveFails ==
  /\ admin = "resolve"
  /\ "error" \in Faults
  /\ WriteRow([row EXCEPT !.status = "failed"], FALSE)
  /\ admin' = "idle"
  /\ request' = "none"
  /\ UNCHANGED <<indexVars, workerVars, activationVars, cursor, strays, lastIndexed, stalls>>

\* A catch-up leaves the marker alone.
SpawnCatchUp ==
  /\ admin = "spawn"
  /\ worker' = [worker EXCEPT ![row.job] = "begin"]
  /\ mine' = [mine EXCEPT ![row.job] = row]
  /\ admin' = "idle"
  /\ request' = "none"
  /\ UNCHANGED <<rowVars, indexVars, activationVars, claim, pos,
                 cursor, strays, lastIndexed, stalls>>

\* CancelJob holds the mutex from its read to its compare-and-set; only a
\* worker's write in between can make it fail, and then nothing happens.
CancelJob ==
  /\ admin = "idle"
  /\ row.status = "running"
  /\ WriteRow([row EXCEPT !.status = "cancel_requested"], stale)
  /\ UNCHANGED <<indexVars, adminVars, workerVars, activationVars,
                 cursor, strays, lastIndexed, stalls>>

----------------------------------------------------------------------------
(* The worker of a job: runIndexJob *)

Current(j) == row.job = j

CancelSeen(j) == Current(j) /\ row.status = "cancel_requested"

Goto(j, there) == worker' = [worker EXCEPT ![j] = there]

\* With a claim a reindex resumes a pending repair or drops the index; a
\* rebuild always drops it.
Repairs(j) == mine[j].op # "rebuild_vector_index" /\ claim[j].state.phase = "repairing"

MainOf(j) ==
  IF mine[j].op = "rebuild_vector_index" THEN "finalize"
  ELSE IF mine[j].clear THEN "clear" ELSE "load"

Begin(j) ==
  /\ worker[j] = "begin"
  /\ Goto(j, IF claim[j] = NoClaim \/ Repairs(j) THEN MainOf(j) ELSE "prepare")
  /\ UNCHANGED <<rowVars, indexVars, adminVars, activationVars, mine, claim, pos,
                 cursor, strays, lastIndexed, stalls>>

\* The claim is confirmed by a compare-and-set to itself ...
ConfirmClaim(j) ==
  /\ worker[j] = "prepare"
  /\ Goto(j, IF marker = claim[j].state THEN "drop" ELSE "fail")
  /\ UNCHANGED <<rowVars, indexVars, adminVars, activationVars, mine, claim, pos,
                 cursor, strays, lastIndexed, stalls>>

\* ... and then the index is dropped, whoever owns the marker by then.
PrepareBulkIndex(j) ==
  /\ worker[j] = "drop"
  /\ indexExists' = FALSE
  /\ Goto(j, MainOf(j))
  /\ UNCHANGED <<rowVars, adminVars, activationVars, mine, claim, pos, marker, vectors, cursor, strays,
                 lastIndexed, stalls>>

\* The marker cannot be read, or the DROP fails and leaves claim and index.
PrepareFails(j) ==
  /\ worker[j] \in {"prepare", "drop"}
  /\ "ddl" \in Faults
  /\ Goto(j, "fail")
  /\ UNCHANGED <<rowVars, indexVars, adminVars, activationVars, mine, claim, pos,
                 cursor, strays, lastIndexed, stalls>>

\* The search the job finds is not configured, or cannot rebuild an index:
\* it leaves before the DROP and gives up what it claimed.
abandonUndroppedClaim(j) ==
  /\ "config" \in Faults
  /\ worker[j] = "begin"
  /\ claim[j] # NoClaim
  /\ marker' = IF marker # claim[j].state THEN marker
               ELSE IF claim[j].converted THEN [marker EXCEPT !.phase = "repairing"]
               ELSE IF claim[j].adopted THEN marker ELSE NoMarker
  /\ Goto(j, "fail")
  /\ UNCHANGED <<rowVars, adminVars, activationVars, mine, claim, pos, indexExists, vectors, cursor, strays,
                 lastIndexed, stalls>>

Clear(j) ==
  /\ worker[j] = "clear"
  /\ vectors' = {}
  /\ Goto(j, "load")
  /\ UNCHANGED <<rowVars, adminVars, activationVars, mine, claim, pos, marker, indexExists, cursor, strays,
                 lastIndexed, stalls>>

ClearFails(j) ==
  /\ worker[j] = "clear"
  /\ "error" \in Faults
  /\ Goto(j, "fail")
  /\ UNCHANGED <<rowVars, indexVars, adminVars, activationVars, mine, claim, pos,
                 cursor, strays, lastIndexed, stalls>>

loadCursor(j) ==
  /\ worker[j] = "load"
  /\ pos' = [pos EXCEPT ![j] = cursor]
  /\ strays' = IF CursorKey \in strays THEN strays \cup {j} ELSE strays
  /\ Goto(j, "pass")
  /\ UNCHANGED <<rowVars, indexVars, adminVars, activationVars, mine, claim, cursor, lastIndexed, stalls>>

\* The cursor in the KV store becomes c, the work of the worker of j.
WriteCursor(j, c) ==
  /\ cursor' = c
  /\ strays' = IF j \in strays \/ mine[j].op = "rebuild_vector_index"
               THEN strays \cup {CursorKey} ELSE strays \ {CursorKey}

\* The posts left for the pass: a catch-up fetches only those not stored.
Ahead(j) ==
  {p \in Post : p > pos[j] /\ (mine[j].op = "catch_up" => p \notin vectors)}

StorePost(j) ==
  /\ worker[j] = "pass"
  /\ \E p \in Ahead(j) :
       /\ \A q \in Ahead(j) : p <= q
       /\ vectors' = vectors \cup {p}
       /\ pos' = [pos EXCEPT ![j] = p]
  /\ UNCHANGED <<rowVars, adminVars, worker, mine, claim, activationVars, marker, indexExists, cursor, strays,
                 lastIndexed, stalls>>

\* A checkpoint of a pass; it asks nobody whether the job still runs.  The pass
\* over the posts after the cutoff checkpoints too, that of a rebuild as well.
saveCursor(j) ==
  /\ \/ worker[j] = "pass" /\ WriteCursor(j, pos[j])
     \/ worker[j] = "catchup" /\ WriteCursor(j, NumPosts)
  /\ UNCHANGED <<rowVars, indexVars, adminVars, workerVars, activationVars, lastIndexed, stalls>>

\* The pass is over when nothing is left to fetch.
AfterPass(j) ==
  IF claim[j] = NoClaim THEN "catchup" ELSE IF Repairs(j) THEN "repair" ELSE "finalize"

EndPass(j) ==
  /\ worker[j] = "pass"
  /\ Ahead(j) = {}
  /\ Goto(j, AfterPass(j))
  /\ UNCHANGED <<rowVars, indexVars, adminVars, activationVars, mine, claim, pos,
                 cursor, strays, lastIndexed, stalls>>

\* The marker goes to building, which gates the hooks' writes from now on.
StartBuild(j) ==
  /\ worker[j] = "finalize"
  /\ LET building == [claim[j].state EXCEPT !.phase = "building"]
     IN IF marker = claim[j].state
        THEN /\ marker' = building
             /\ claim' = [claim EXCEPT ![j].state = building]
             /\ Goto(j, "build")
        ELSE /\ Goto(j, "error")
             /\ UNCHANGED <<marker, claim>>
  /\ UNCHANGED <<rowVars, adminVars, activationVars, mine, pos, indexExists, vectors, cursor, strays,
                 lastIndexed, stalls>>

\* FinalizeBulkIndex; it may fail before or after the index is there.
BuildIndex(j) ==
  /\ worker[j] = "build"
  /\ indexExists' = TRUE
  /\ Goto(j, "built")
  /\ UNCHANGED <<rowVars, adminVars, activationVars, mine, claim, pos, marker, vectors, cursor, strays,
                 lastIndexed, stalls>>

BuildFails(j) ==
  /\ worker[j] \in {"build", "built"}
  /\ "ddl" \in Faults
  /\ marker' = IF marker = claim[j].state THEN [marker EXCEPT !.phase = "dropped"] ELSE marker
  /\ Goto(j, "error")
  /\ UNCHANGED <<rowVars, adminVars, activationVars, mine, claim, pos, indexExists, vectors, cursor, strays,
                 lastIndexed, stalls>>

\* The marker goes to repairing and the worker looks for a cancel; a worker
\* that lost the marker to another run fails.
EndBuild(j) ==
  /\ worker[j] = "built"
  /\ LET repairing == [claim[j].state EXCEPT !.phase = "repairing"]
     IN IF marker = claim[j].state
        THEN /\ marker' = repairing
             /\ claim' = [claim EXCEPT ![j].state = repairing]
             /\ Goto(j, IF CancelSeen(j) THEN "ack" ELSE "repair")
        ELSE /\ Goto(j, "error")
             /\ UNCHANGED <<marker, claim>>
  /\ UNCHANGED <<rowVars, adminVars, activationVars, mine, pos, indexExists, vectors, cursor, strays,
                 lastIndexed, stalls>>

\* The posts edited while their writes were gated are stored again.
reindexEditedPosts(j) ==
  /\ worker[j] = "repair"
  /\ Goto(j, "release")
  /\ UNCHANGED <<rowVars, indexVars, adminVars, activationVars, mine, claim, pos,
                 cursor, strays, lastIndexed, stalls>>

clearVectorIndexState(j) ==
  /\ worker[j] = "release"
  /\ IF marker = claim[j].state
     THEN marker' = NoMarker /\ Goto(j, "catchup")
     ELSE Goto(j, "error") /\ UNCHANGED marker
  /\ UNCHANGED <<rowVars, adminVars, activationVars, mine, claim, pos, indexExists, vectors, cursor, strays,
                 lastIndexed, stalls>>

\* The pass over the posts after the cutoff, from the cutoff, ends; what it
\* stores is not among the posts here, its checkpoints are saveCursor.
runCatchUpPass(j) ==
  /\ worker[j] = "catchup"
  /\ pos' = [pos EXCEPT ![j] = NumPosts]
  /\ Goto(j, "finish")
  /\ UNCHANGED <<rowVars, indexVars, adminVars, activationVars, mine, claim,
                 cursor, strays, lastIndexed, stalls>>

\* A step of a pass, of the repair or of the catch-up fails, or it panics,
\* which leaves the cursor alone.
StepFails(j) ==
  /\ "error" \in Faults
  /\ worker[j] \in {"pass", "repair", "release", "catchup"}
  /\ pos' = [pos EXCEPT ![j] = IF worker[j] = "catchup" THEN NumPosts ELSE @]
  /\ \E there \in {"error", "fail"} : Goto(j, there)
  /\ UNCHANGED <<rowVars, indexVars, adminVars, activationVars, mine, claim,
                 cursor, strays, lastIndexed, stalls>>

\* The passes and the repair poll for a cancel of their own job.
HearCancel(j) ==
  /\ worker[j] \in {"pass", "repair", "catchup"}
  /\ CancelSeen(j)
  /\ Goto(j, "ack")
  /\ UNCHANGED <<rowVars, indexVars, adminVars, activationVars, mine, claim, pos,
                 cursor, strays, lastIndexed, stalls>>

\* The first half of handleJobError; a rebuild leaves the cursor alone.
SaveErrorCursor(j) ==
  /\ worker[j] = "error"
  /\ IF mine[j].op = "rebuild_vector_index" THEN UNCHANGED <<cursor, strays>>
     ELSE WriteCursor(j, pos[j])
  /\ Goto(j, "fail")
  /\ UNCHANGED <<rowVars, indexVars, adminVars, activationVars, mine, claim, pos, lastIndexed, stalls>>

----------------------------------------------------------------------------
(* What a worker writes to the row *)

\* As if a heartbeat wrote whatever the row is.
heartbeatTickUnconditional(j) ==
  /\ worker[j] \in {"pass", "build", "built", "repair", "catchup"}
  /\ WriteRow(mine[j], FALSE)
  /\ UNCHANGED <<indexVars, adminVars, activationVars, workerVars,
                 cursor, strays, lastIndexed, stalls>>

\* saveJobStatus with the status running, by a heartbeat or a checkpoint: a
\* newer run's row is left alone, and a cancel request is copied instead of
\* overwritten.  A compare-and-set that is lost is a heartbeat that is missed.
heartbeatTick(j) ==
  /\ worker[j] \in {"pass", "build", "built", "repair", "catchup"}
  /\ Current(j)
  /\ IF row.status = "cancel_requested" /\ mine[j].status = "running"
     THEN /\ mine' = [mine EXCEPT ![j].status = "cancel_requested"]
          /\ UNCHANGED rowVars
     ELSE /\ WriteRow(mine[j], FALSE)
          /\ UNCHANGED mine
  /\ UNCHANGED <<indexVars, adminVars, activationVars, worker, claim, pos,
                 cursor, strays, lastIndexed, stalls>>

\* saveJobStatus with the status failed.
ReadToFail(j) ==
  /\ worker[j] = "fail"
  /\ IF Current(j)
     THEN ReadRow(j) /\ Goto(j, "failing")
     ELSE UNCHANGED rowVars /\ Goto(j, "gone")
  /\ UNCHANGED <<indexVars, adminVars, activationVars, mine, claim, pos,
                 cursor, strays, lastIndexed, stalls>>

FailJob(j) ==
  /\ worker[j] = "failing"
  /\ CasRow(j, [mine[j] EXCEPT !.status = "failed"])
  /\ Goto(j, "gone")
  /\ UNCHANGED <<indexVars, adminVars, activationVars, mine, claim, pos,
                 cursor, strays, lastIndexed, stalls>>

ReadToAcknowledge(j) ==
  /\ worker[j] = "ack"
  /\ IF CancelSeen(j)
     THEN ReadRow(j) /\ Goto(j, "acking")
     ELSE UNCHANGED rowVars /\ Goto(j, "gone")
  /\ UNCHANGED <<indexVars, adminVars, activationVars, mine, claim, pos,
                 cursor, strays, lastIndexed, stalls>>

acknowledgeCancel(j) ==
  /\ worker[j] = "acking"
  /\ CasRow(j, [row EXCEPT !.status = "canceled"])
  /\ Goto(j, "gone")
  /\ UNCHANGED <<indexVars, adminVars, activationVars, mine, claim, pos,
                 cursor, strays, lastIndexed, stalls>>

\* finishJob: running becomes completed, a cancel request becomes canceled, a
\* terminal row or a newer run's row is left alone.
ReadToFinish(j) ==
  /\ worker[j] = "finish"
  /\ IF Current(j) /\ isActiveJob(row)
     THEN ReadRow(j) /\ Goto(j, "finishing")
     ELSE UNCHANGED rowVars /\ Goto(j, "gone")
  /\ UNCHANGED <<indexVars, adminVars, activationVars, mine, claim, pos,
                 cursor, strays, lastIndexed, stalls>>

\* What the finished job's row becomes, by the row its worker read.
Finished(j) ==
  [mine[j] EXCEPT !.status = IF row.status = "running" THEN "completed" ELSE "canceled"]

\* A lost race is tried again from the read.
finishJob(j) ==
  /\ worker[j] = "finishing"
  /\ CasRow(j, Finished(j))
  /\ Goto(j, IF j \notin seen THEN "finish" ELSE IF row.status = "running" THEN "after" ELSE "gone")
  /\ UNCHANGED <<indexVars, adminVars, activationVars, mine, claim, pos,
                 cursor, strays, lastIndexed, stalls>>

\* After a completion the cursor is deleted and the time of it saved.
AfterCompletion(j) ==
  /\ worker[j] = "after"
  /\ IF mine[j].op = "rebuild_vector_index"
     THEN UNCHANGED <<cursor, strays, lastIndexed>>
     ELSE cursor' = 0 /\ strays' = strays \ {CursorKey} /\ lastIndexed' = TRUE
  /\ Goto(j, "gone")
  /\ UNCHANGED <<rowVars, indexVars, adminVars, activationVars, mine, claim, pos, stalls>>

----------------------------------------------------------------------------
(* Activations of a node, hooks, time and crashes *)

\* The constructor of the vector store creates the index unless the marker,
\* read before, gates it.
ActivateGated ==
  /\ activation = "off"
  /\ activations < MaxActivations
  /\ activations' = activations + 1
  /\ activation' = IF deferredIndexGated THEN "orphan" ELSE "construct"
  /\ UNCHANGED <<rowVars, indexVars, adminVars, workerVars, observed,
                 cursor, strays, lastIndexed, stalls>>

ConstructIndex ==
  /\ activation = "construct"
  /\ indexExists' = TRUE
  /\ activation' = "orphan"
  /\ UNCHANGED <<rowVars, adminVars, workerVars, observed, activations, marker, vectors, cursor, strays,
                 lastIndexed, stalls>>

ReadOrphan ==
  /\ activation = "orphan"
  /\ IF isJobStale
     THEN ReadRow(Activator) /\ activation' = "orphaned"
     ELSE UNCHANGED rowVars /\ activation' = "reconcile"
  /\ UNCHANGED <<indexVars, adminVars, workerVars, observed, activations,
                 cursor, strays, lastIndexed, stalls>>

\* A reindex that is marked as an orphan can be resumed, a rebuild cannot.
MarkOrphanedJobAsFailed ==
  /\ activation = "orphaned"
  /\ CasRow(Activator,
            [row EXCEPT !.status = "failed", !.resumable = row.op # "rebuild_vector_index"])
  /\ activation' = "reconcile"
  /\ UNCHANGED <<indexVars, adminVars, workerVars, observed, activations,
                 cursor, strays, lastIndexed, stalls>>

\* As if a live owner were not looked for.
ReadMarkerOfAnyJob ==
  /\ activation = "reconcile"
  /\ LET wrong == marker # NoMarker /\ marker.phase # "repairing" /\ indexExists
     IN /\ activation' = IF wrong THEN "correct" ELSE "off"
        /\ observed' = IF wrong THEN marker ELSE NoMarker
  /\ UNCHANGED <<rowVars, indexVars, adminVars, workerVars, activations,
                 cursor, strays, lastIndexed, stalls>>

\* A live job that owns the marker is left alone, and so is a pending repair;
\* only a marker that disagrees with the catalog is corrected.
ReadMarker ==
  /\ activation = "reconcile"
  /\ LET live == row.job = marker.job /\ isActiveJob(row) /\ ~stale
         wrong == marker # NoMarker /\ ~live /\ marker.phase # "repairing" /\ indexExists
     IN /\ activation' = IF wrong THEN "correct" ELSE "off"
        /\ observed' = IF wrong THEN marker ELSE NoMarker
  /\ UNCHANGED <<rowVars, indexVars, adminVars, workerVars, activations,
                 cursor, strays, lastIndexed, stalls>>

ReconcileVectorIndexState ==
  /\ activation = "correct"
  /\ marker' = IF marker # observed THEN marker
               ELSE IF marker.phase = "building" THEN [marker EXCEPT !.phase = "repairing"]
               ELSE NoMarker
  /\ activation' = "off"
  /\ observed' = NoMarker
  /\ UNCHANGED <<rowVars, adminVars, workerVars, activations, indexExists, vectors, cursor, strays,
                 lastIndexed, stalls>>

\* Ten minutes without a heartbeat: the worker is dead, or it waits for a long
\* statement (the DROP, the TRUNCATE, the delete of stale rows) without one.
GrowStale ==
  /\ isActiveJob(row) /\ ~stale
  /\ admin \notin {"cursor", "resolve", "spawn"}
  /\ stale' = TRUE
  /\ IF worker[row.job] \in {"off", "gone"} THEN UNCHANGED stalls
     ELSE /\ "stall" \in Faults
          /\ row.job <= MaxStallJobs
          /\ worker[row.job] \in {"drop", "clear", "repair"}
          /\ stalls' = stalls \cup {row.job}
  /\ UNCHANGED <<row, seen, indexVars, adminVars, workerVars, activationVars, cursor, strays, lastIndexed>>

WorkerDies(j) ==
  /\ "crash" \in Faults
  /\ worker[j] \notin {"off", "gone"}
  /\ Goto(j, "gone")
  /\ seen' = seen \ {j}
  /\ UNCHANGED <<row, stale, indexVars, adminVars, activationVars, mine, claim, pos,
                 cursor, strays, lastIndexed, stalls>>

StartDies ==
  /\ "crash" \in Faults
  /\ admin # "idle"
  /\ admin' = "idle"
  /\ request' = "none"
  /\ seen' = seen \ {Admin}
  /\ UNCHANGED <<row, stale, indexVars, workerVars, activationVars,
                 cursor, strays, lastIndexed, stalls>>

----------------------------------------------------------------------------
Start ==
  \/ \E op \in Operation : beginExclusiveJob(op)
  \/ commit
  \/ ResetCursor
  \/ CursorDeleteFails
  \/ resolveDeferredRebuild
  \/ ResolveFails
  \/ SpawnCatchUp
  \/ CancelJob

Work(j) ==
  \/ Begin(j)
  \/ ConfirmClaim(j)
  \/ PrepareBulkIndex(j)
  \/ PrepareFails(j)
  \/ abandonUndroppedClaim(j)
  \/ Clear(j)
  \/ ClearFails(j)
  \/ loadCursor(j)
  \/ StorePost(j)
  \/ saveCursor(j)
  \/ EndPass(j)
  \/ StartBuild(j)
  \/ BuildIndex(j)
  \/ BuildFails(j)
  \/ EndBuild(j)
  \/ reindexEditedPosts(j)
  \/ clearVectorIndexState(j)
  \/ runCatchUpPass(j)
  \/ StepFails(j)
  \/ HearCancel(j)
  \/ SaveErrorCursor(j)
  \/ heartbeatTick(j)
  \/ ReadToFail(j)
  \/ FailJob(j)
  \/ ReadToAcknowledge(j)
  \/ acknowledgeCancel(j)
  \/ ReadToFinish(j)
  \/ finishJob(j)
  \/ AfterCompletion(j)

Activate ==
  \/ ActivateGated
  \/ ConstructIndex
  \/ ReadOrphan
  \/ MarkOrphanedJobAsFailed
  \/ ReadMarker
  \/ ReconcileVectorIndexState

Next ==
  \/ Start
  \/ \E j \in Job : Work(j)
  \/ Activate
  \/ GrowStale
  \/ \E j \in Job : WorkerDies(j)
  \/ StartDies

Spec == Init /\ [][Next]_vars

----------------------------------------------------------------------------
(* Properties *)

TypeOK ==
  /\ row \in Row
  /\ stale \in BOOLEAN
  /\ seen \subseteq Reader
  /\ cursor \in 0..NumPosts
  /\ lastIndexed \in BOOLEAN
  /\ marker \in Marker \cup {NoMarker}
  /\ indexExists \in BOOLEAN
  /\ vectors \subseteq Post
  /\ admin \in {"idle", "commit", "cursor", "resolve", "spawn"}
  /\ request \in Operation \cup {"none"}
  /\ worker \in [Job -> {"off", "begin", "prepare", "drop", "clear", "load", "pass", "finalize", "build", "built",
                         "repair", "release", "catchup", "error", "fail", "failing", "ack", "acking",
                         "finish", "finishing", "after", "gone"}]
  /\ mine \in [Job -> Row]
  /\ claim \in [Job -> [state : Marker \cup {NoMarker}, adopted : BOOLEAN,
                        converted : BOOLEAN]]
  /\ pos \in [Job -> 0..NumPosts]
  /\ activation \in {"off", "construct", "orphan", "orphaned", "reconcile", "correct"}
  /\ observed \in Marker \cup {NoMarker}
  /\ activations \in 0..MaxActivations
  /\ stalls \subseteq Job
  /\ strays \subseteq Job \cup {CursorKey}

\* While no worker outlives its heartbeat, a missing vector index is always
\* covered by a marker that gates the search, whoever crashed where
\* (vector_index.go: the marker is claimed before the DROP, released after the
\* build, adopted by the next run and corrected by an activation).
SearchGate == ~indexExists /\ stalls = {} => deferredIndexGated

\* A job that embeds posts and completed has every post of the cutoff stored,
\* however often it was canceled, failed, died and was resumed, whatever jobs ran
\* in between, and wherever a start died, while no worker outlives its
\* heartbeat.  Except a job that began at a cursor a rebuild left (saveCursor,
\* loadCursor, StartReindexJob).
CompletedCoversAll ==
  /\ row.status = "completed"
  /\ row.op # "rebuild_vector_index"
  /\ row.job \notin strays
  /\ stalls = {}
  => vectors = Post

\* The row never goes back to an earlier run, even when workers outlive their
\* heartbeat; a cancel request is not overwritten by a heartbeat or a
\* completion; and a terminal row stays as it is until the next run
\* (saveJobStatus, finishJob, acknowledgeCancel against CancelJob and commit).
RowForward ==
  [][/\ row'.job >= row.job
     /\ row'.job = row.job =>
          /\ row.status = "cancel_requested" => row'.status \notin {"running", "completed"}
          /\ ~isActiveJob(row) /\ stalls = {} => row' = row]_row

=============================================================================
