----------------------------- MODULE IndexPass -----------------------------
(***************************************************************************)
(* One indexing job over the posts of a server (indexer/index_pass.go): a  *)
(* fetcher pages through the posts, workers store the batches in any       *)
(* order, and a committer counts them in fetch order and checkpoints.      *)
(* The pass ends with success, an error or a cancel, or its node dies, and *)
(* a later run resumes it from the checkpoint.                             *)
(*                                                                         *)
(* A post is its position in the order of the keyset (CreateAt, Id); the   *)
(* cutoff of the job makes the posts a fixed set.  Storing a post stands   *)
(* for whatever becomes of it, filtered posts included.                    *)
(***************************************************************************)
EXTENDS Naturals, Sequences, FiniteSets

CONSTANTS
  Worker,        \* the worker goroutines of a pass
  NumPosts,      \* number of posts of the job
  StoredBefore,  \* what the vector store may hold before the first run
  BatchSize,     \* posts per fetch
  MaxAttempts,   \* attempts to store one batch (storeRetryAttempts)
  MaxRuns,       \* bound: how often the job is started or resumed
  Faults         \* failures of the instance: "fetch", "store", "panic", "kv", "crash"

ASSUME IndexPassAssumption ==
  /\ IsFiniteSet(Worker) /\ Worker # {}
  /\ NumPosts \in Nat
  /\ StoredBefore \subseteq SUBSET (1..NumPosts)
  /\ BatchSize \in Nat \ {0}
  /\ MaxAttempts \in Nat \ {0}
  /\ MaxRuns \in Nat

VARIABLES
  stored,           \* posts in the vector store
  cursor,           \* KV IndexerCursorKey; 0 when absent
  processedRows,    \* ProcessedRows of the job row
  cancelRequested,  \* the job row says cancel_requested
  sawCancel,        \* the job's own copy of the row says cancel_requested
  skipExisting,     \* the fetch leaves out posts that are stored (catch-up)
  runs,             \* how often the job was started
  canceled,         \* the context of the pass
  fetching,         \* where the fetcher is
  fetchCursor,      \* its keyset position
  fetched,          \* the batch it has in hand
  fetchErr,
  orderedCh,        \* batches in fetch order, for the committer
  worker,           \* where each worker is
  inHand,           \* the batch each worker stores
  attempt,          \* which attempt that is
  result,           \* what became of a batch, by the cursor after it
  committing,       \* where the committer, and then the job, is
  oldest,           \* the batch whose result it waits for
  watermark,
  processed,
  firstErr

kv == <<cursor, processedRows, cancelRequested>>
fetcher == <<fetching, fetchCursor, fetched, fetchErr>>
workers == <<worker, inHand, attempt, result, stored>>
committer == <<committing, oldest, watermark, processed, firstErr, canceled>>
job == <<sawCancel, skipExisting, runs>>
vars == <<kv, fetcher, workers, committer, job, orderedCh>>

Post == 1..NumPosts

Batch == [posts : SUBSET Post, cursor : Post]

NoBatch == [posts |-> {}, cursor |-> 0]

\* The pass runs while its committer does, or waits for its workers.
PassRuns == committing \in {"next", "wait", "savecursor", "saverow", "join"}

\* No job is running: none was started, it has returned, or its node died.
JobOver == committing \in {"off", "completed"}

Init ==
  /\ stored \in StoredBefore
  /\ skipExisting \in BOOLEAN
  /\ cursor = 0
  /\ processedRows = 0
  /\ cancelRequested = FALSE
  /\ sawCancel = FALSE
  /\ runs = 0
  /\ canceled = FALSE
  /\ fetching = "off"
  /\ fetchCursor = 0
  /\ fetched = NoBatch
  /\ fetchErr = "none"
  /\ orderedCh = <<>>
  /\ worker = [w \in Worker |-> "gone"]
  /\ inHand = [w \in Worker |-> NoBatch]
  /\ attempt = [w \in Worker |-> 1]
  /\ result = [p \in Post |-> "pending"]
  /\ committing = "off"
  /\ oldest = NoBatch
  /\ watermark = 0
  /\ processed = 0
  /\ firstErr = "none"

----------------------------------------------------------------------------
(* Starting, cancelling and losing the job *)

\* A run begins at the checkpoint, with the count of the job row it continues.
StartPass ==
  /\ committing = "off"
  /\ runs < MaxRuns
  /\ runs' = runs + 1
  /\ cancelRequested' = FALSE
  /\ fetching' = "poll"
  /\ fetchCursor' = cursor
  /\ worker' = [w \in Worker |-> "receive"]
  /\ committing' = "next"
  /\ watermark' = cursor
  /\ processed' = processedRows
  /\ UNCHANGED <<stored, cursor, processedRows, sawCancel, skipExisting, canceled, fetched, fetchErr,
                 orderedCh, inHand, attempt, result, oldest, firstErr>>

CancelJob ==
  /\ ~JobOver
  /\ ~cancelRequested
  /\ cancelRequested' = TRUE
  /\ UNCHANGED <<cursor, processedRows, fetcher, workers, committer, job, orderedCh>>

\* What a run leaves behind in memory when it is over: nothing.
Forget ==
  /\ sawCancel' = FALSE
  /\ canceled' = FALSE
  /\ fetching' = "off"
  /\ fetchCursor' = 0
  /\ fetched' = NoBatch
  /\ fetchErr' = "none"
  /\ orderedCh' = <<>>
  /\ worker' = [w \in Worker |-> "gone"]
  /\ inHand' = [w \in Worker |-> NoBatch]
  /\ attempt' = [w \in Worker |-> 1]
  /\ result' = [p \in Post |-> "pending"]
  /\ oldest' = NoBatch
  /\ processed' = 0
  /\ firstErr' = "none"
  /\ UNCHANGED <<stored, cancelRequested, watermark, skipExisting, runs>>

\* The node dies.  The vector store and the KV store remain.
Crash ==
  /\ "crash" \in Faults
  /\ ~JobOver
  /\ committing' = "off"
  /\ Forget
  /\ UNCHANGED <<cursor, processedRows>>

----------------------------------------------------------------------------
(* The fetcher *)

\* An unreadable job row counts as not canceled.
PollCancel ==
  /\ fetching = "poll"
  /\ \/ /\ cancelRequested
        /\ fetchErr' = "cancel"
        /\ fetching' = "off"
     \/ /\ ~cancelRequested \/ "kv" \in Faults
        /\ fetching' = "fetch"
        /\ UNCHANGED fetchErr
  /\ UNCHANGED <<kv, fetchCursor, fetched, workers, committer, job, orderedCh>>

\* The keyset query starts one post too late.
Remaining_OffByOne == {p \in Post : p > fetchCursor + 1 /\ (skipExisting => p \notin stored)}

\* What the keyset query returns without its LIMIT.
Remaining == {p \in Post : p > fetchCursor /\ (skipExisting => p \notin stored)}

\* The page of the query that ends at post m.
Page(m) == {p \in Remaining : p <= m}

IsPage(m) == \/ Cardinality(Page(m)) = BatchSize
             \/ Cardinality(Page(m)) < BatchSize /\ Page(m) = Remaining

FetchBatch ==
  /\ fetching = "fetch"
  /\ \E m \in Remaining :
       /\ IsPage(m)
       /\ fetched' = [posts |-> Page(m), cursor |-> m]
       /\ fetchCursor' = m
  /\ fetching' = "dispatch"
  /\ UNCHANGED <<fetchErr, kv, workers, committer, job, orderedCh>>

FetchEnds ==
  /\ fetching = "fetch"
  /\ Remaining = {}
  /\ fetching' = "off"
  /\ UNCHANGED <<fetchCursor, fetched, fetchErr, kv, workers, committer, job, orderedCh>>

FetchFails ==
  /\ fetching = "fetch"
  /\ canceled \/ "fetch" \in Faults
  /\ fetchErr' = "error"
  /\ fetching' = "off"
  /\ UNCHANGED <<fetchCursor, fetched, kv, workers, committer, job, orderedCh>>

\* workCh has no buffer: handing a batch over is one step of both sides.
Dispatch(w) ==
  /\ fetching = "dispatch"
  /\ worker[w] = "receive"
  /\ worker' = [worker EXCEPT ![w] = "store"]
  /\ inHand' = [inHand EXCEPT ![w] = fetched]
  /\ fetching' = "queue"
  /\ UNCHANGED <<fetchCursor, fetched, fetchErr, attempt, result, stored, kv, committer, job, orderedCh>>

Queue ==
  /\ fetching = "queue"
  /\ Len(orderedCh) < Cardinality(Worker)
  /\ orderedCh' = Append(orderedCh, fetched)
  /\ fetched' = NoBatch
  /\ fetching' = "poll"
  /\ UNCHANGED <<fetchCursor, fetchErr, kv, workers, committer, job>>

\* Queueing a batch does not look at the context.
StopFetching_DispatchOnly ==
  /\ fetching = "dispatch"
  /\ canceled
  /\ fetching' = "off"
  /\ UNCHANGED <<fetchCursor, fetched, fetchErr, kv, workers, committer, job, orderedCh>>

StopFetching ==
  /\ fetching \in {"dispatch", "queue"}
  /\ canceled
  /\ fetching' = "off"
  /\ UNCHANGED <<fetchCursor, fetched, fetchErr, kv, workers, committer, job, orderedCh>>

----------------------------------------------------------------------------
(* The workers *)

StoreBatch(w) ==
  /\ worker[w] = "store"
  /\ stored' = stored \cup inHand[w].posts
  /\ result' = [result EXCEPT ![inHand[w].cursor] = "ok"]
  /\ worker' = [worker EXCEPT ![w] = "receive"]
  /\ inHand' = [inHand EXCEPT ![w] = NoBatch]
  /\ attempt' = [attempt EXCEPT ![w] = 1]
  /\ UNCHANGED <<kv, fetcher, committer, job, orderedCh>>

\* One attempt too many.
LastAttempt_OffByOne(w) == canceled \/ attempt[w] > MaxAttempts

LastAttempt(w) == canceled \/ attempt[w] = MaxAttempts

\* A failed attempt may have been stored all the same.  The last one, or a panic,
\* ends the worker, so that it stores nothing after a batch that failed.
StoreFails(w) ==
  /\ worker[w] = "store"
  /\ canceled \/ "store" \in Faults
  /\ stored' \in {stored, stored \cup inHand[w].posts}
  /\ \/ /\ ~LastAttempt(w)
        /\ attempt' = [attempt EXCEPT ![w] = @ + 1]
        /\ UNCHANGED <<worker, inHand, result>>
     \/ /\ LastAttempt(w) \/ "panic" \in Faults
        /\ result' = [result EXCEPT ![inHand[w].cursor] = "error"]
        /\ worker' = [worker EXCEPT ![w] = "gone"]
        /\ inHand' = [inHand EXCEPT ![w] = NoBatch]
        /\ attempt' = [attempt EXCEPT ![w] = 1]
  /\ UNCHANGED <<kv, fetcher, committer, job, orderedCh>>

\* workCh is closed.
WorkerLeaves(w) ==
  /\ worker[w] = "receive"
  /\ fetching = "off"
  /\ worker' = [worker EXCEPT ![w] = "gone"]
  /\ UNCHANGED <<inHand, attempt, result, stored, kv, fetcher, committer, job, orderedCh>>

----------------------------------------------------------------------------
(* The committer *)

TakeBatch ==
  /\ committing = "next"
  /\ orderedCh # <<>>
  /\ oldest' = Head(orderedCh)
  /\ orderedCh' = Tail(orderedCh)
  /\ committing' = "wait"
  /\ UNCHANGED <<watermark, processed, firstErr, canceled, kv, fetcher, workers, job>>

\* The committer stops when the fetcher does, and forgets what is queued.
Drained_FetcherOnly == fetching = "off"

\* The fetcher has closed orderedCh and nothing is left in it.
Drained == orderedCh = <<>> /\ fetching = "off"

ChannelClosed ==
  /\ committing = "next"
  /\ Drained
  /\ canceled' = TRUE
  /\ committing' = "join"
  /\ UNCHANGED <<oldest, watermark, processed, firstErr, kv, fetcher, workers, job, orderedCh>>

\* A failed batch is counted like a stored one.
OldestStored_Resolved == result[oldest.cursor] # "pending"

OldestStored == result[oldest.cursor] = "ok"

\* The checkpoint is due every 500 posts or two minutes.
CommitBatch ==
  /\ committing = "wait"
  /\ OldestStored
  /\ watermark' = oldest.cursor
  /\ processed' = processed + Cardinality(oldest.posts)
  /\ oldest' = NoBatch
  /\ committing' \in {"next", "savecursor"}
  /\ UNCHANGED <<firstErr, canceled, kv, fetcher, workers, job, orderedCh>>

BatchFailed ==
  /\ committing = "wait"
  /\ result[oldest.cursor] = "error"
  /\ firstErr' = "error"
  /\ canceled' = TRUE
  /\ committing' = "join"
  /\ UNCHANGED <<oldest, watermark, processed, kv, fetcher, workers, job, orderedCh>>

\* The progress is written to the row.  The first write to meet a cancel is
\* dropped and takes the cancel over; a write that fails is logged and forgotten.
SaveJobStatus ==
  \/ /\ ~cancelRequested \/ sawCancel
     /\ processedRows' = processed
     /\ UNCHANGED sawCancel
  \/ /\ cancelRequested
     /\ ~sawCancel
     /\ sawCancel' = TRUE
     /\ UNCHANGED processedRows
  \/ /\ "kv" \in Faults
     /\ UNCHANGED <<processedRows, sawCancel>>

\* The ticker: the row is refreshed and then read.
Heartbeat ==
  /\ committing \in {"next", "wait"}
  /\ SaveJobStatus
  /\ ~cancelRequested \/ "kv" \in Faults
  /\ UNCHANGED <<cursor, cancelRequested, skipExisting, runs, fetcher, workers, committer, orderedCh>>

\* No poll while the oldest batch is slow.
HeartbeatCancels_NotInWait ==
  /\ committing = "next"
  /\ SaveJobStatus
  /\ cancelRequested
  /\ firstErr' = "cancel"
  /\ canceled' = TRUE
  /\ committing' = "join"
  /\ UNCHANGED <<oldest, watermark, processed, cursor, cancelRequested, skipExisting, runs, fetcher,
                 workers, orderedCh>>

HeartbeatCancels ==
  /\ committing \in {"next", "wait"}
  /\ SaveJobStatus
  /\ cancelRequested
  /\ firstErr' = "cancel"
  /\ canceled' = TRUE
  /\ committing' = "join"
  /\ UNCHANGED <<oldest, watermark, processed, cursor, cancelRequested, skipExisting, runs, fetcher,
                 workers, orderedCh>>

\* A write to the KV store that fails is logged and forgotten.
Written(old, new) == {new} \cup (IF "kv" \in Faults THEN {old} ELSE {})

\* The checkpoint is two writes.
SaveCursor ==
  /\ committing = "savecursor"
  /\ cursor' \in Written(cursor, watermark)
  /\ committing' = "saverow"
  /\ UNCHANGED <<processedRows, cancelRequested, oldest, watermark, processed, firstErr, canceled,
                 fetcher, workers, job, orderedCh>>

SaveRow ==
  /\ committing = "saverow"
  /\ SaveJobStatus
  /\ committing' = "next"
  /\ UNCHANGED <<cursor, cancelRequested, skipExisting, runs, oldest, watermark, processed, firstErr,
                 canceled, fetcher, workers, orderedCh>>

\* The pass returns without waiting for its workers.
WorkersGone_NotAwaited == TRUE

\* wg.Wait() returns.
WorkersGone == \A w \in Worker : worker[w] = "gone"

JoinWorkers ==
  /\ committing = "join"
  /\ WorkersGone
  /\ firstErr' = IF firstErr = "none" THEN fetchErr ELSE firstErr
  /\ committing' = "report"
  /\ UNCHANGED <<oldest, watermark, processed, canceled, kv, fetcher, workers, job, orderedCh>>

----------------------------------------------------------------------------
(* What the job does with the outcome *)

\* The job is completed and its cursor deleted, unless a cancel came in time or
\* the row cannot be written: then it stays as it is until it is found stale.
FinishJob ==
  /\ committing = "report"
  /\ firstErr = "none"
  /\ \/ /\ cancelRequested
        /\ processedRows' = processed
        /\ committing' = "off"
        /\ UNCHANGED cursor
     \/ /\ ~cancelRequested
        /\ processedRows' = processed
        /\ committing' = "completed"
        /\ cursor' \in Written(cursor, 0)
     \/ /\ "kv" \in Faults
        /\ committing' = "off"
        /\ UNCHANGED <<cursor, processedRows>>
  /\ Forget

AcknowledgeCancel ==
  /\ committing = "report"
  /\ firstErr = "cancel"
  /\ processedRows' \in Written(processedRows, processed)
  /\ committing' = "off"
  /\ Forget
  /\ UNCHANGED cursor

\* A failed job checkpoints what it committed: the cursor, then the row.
SaveCursorOnError ==
  /\ committing = "report"
  /\ firstErr = "error"
  /\ cursor' \in Written(cursor, watermark)
  /\ committing' = "failed"
  /\ UNCHANGED <<processedRows, cancelRequested, oldest, watermark, processed, firstErr, canceled,
                 fetcher, workers, job, orderedCh>>

SaveRowOnError ==
  /\ committing = "failed"
  /\ processedRows' \in Written(processedRows, processed)
  /\ committing' = "off"
  /\ Forget
  /\ UNCHANGED cursor

----------------------------------------------------------------------------

Fetcher == PollCancel \/ FetchBatch \/ FetchEnds \/ FetchFails
           \/ (\E w \in Worker : Dispatch(w)) \/ Queue \/ StopFetching

StoreEnds(w) == StoreBatch(w) \/ StoreFails(w)

WorkerStep(w) == StoreEnds(w) \/ WorkerLeaves(w)

Committer == TakeBatch \/ ChannelClosed \/ CommitBatch \/ BatchFailed
             \/ Heartbeat \/ HeartbeatCancels \/ SaveCursor \/ SaveRow \/ JoinWorkers

Outcome == FinishJob \/ AcknowledgeCancel \/ SaveCursorOnError \/ SaveRowOnError

\* The job was completed, or it is not started again.
Finished == /\ JobOver
            /\ committing = "completed" \/ runs = MaxRuns
            /\ UNCHANGED vars

Next == StartPass \/ CancelJob \/ Crash \/ Fetcher
        \/ (\E w \in Worker : WorkerStep(w)) \/ Committer \/ Outcome \/ Finished

Spec == Init /\ [][Next]_vars

\* What goes on even when the database and the embedding provider do not answer:
\* the committer, its ticker, and whatever the context of the pass interrupts.
FairSpec ==
  /\ Spec
  /\ WF_vars(TakeBatch \/ ChannelClosed \/ CommitBatch \/ BatchFailed \/ SaveCursor \/ SaveRow)
  /\ WF_vars(HeartbeatCancels)
  /\ WF_vars(JoinWorkers)
  /\ WF_vars(Outcome)
  /\ WF_vars(PollCancel)
  /\ WF_vars(StopFetching)
  /\ WF_vars(canceled /\ FetchFails)
  /\ \A w \in Worker : /\ WF_vars(canceled /\ StoreFails(w))
                       /\ WF_vars(WorkerLeaves(w))

----------------------------------------------------------------------------
(* Properties *)

RowTypes ==
  /\ cursor \in 0..NumPosts
  /\ processedRows \in Nat
  /\ cancelRequested \in BOOLEAN
  /\ sawCancel \in BOOLEAN
  /\ skipExisting \in BOOLEAN
  /\ runs \in 0..MaxRuns

FetcherTypes ==
  /\ fetching \in {"off", "poll", "fetch", "dispatch", "queue"}
  /\ fetchCursor \in 0..NumPosts
  /\ fetched \in Batch \cup {NoBatch}
  /\ fetchErr \in {"none", "cancel", "error"}
  /\ orderedCh \in Seq(Batch)
  /\ Len(orderedCh) <= Cardinality(Worker)

WorkerTypes ==
  /\ stored \subseteq Post
  /\ worker \in [Worker -> {"gone", "receive", "store"}]
  /\ inHand \in [Worker -> Batch \cup {NoBatch}]
  /\ attempt \in [Worker -> 1..MaxAttempts]
  /\ result \in [Post -> {"pending", "ok", "error"}]

CommitterTypes ==
  /\ committing \in {"off", "next", "wait", "savecursor", "saverow", "join", "report", "failed",
                     "completed"}
  /\ oldest \in Batch \cup {NoBatch}
  /\ watermark \in 0..NumPosts
  /\ processed \in Nat
  /\ firstErr \in {"none", "cancel", "error"}
  /\ canceled \in BOOLEAN

TypeOK == RowTypes /\ FetcherTypes /\ WorkerTypes /\ CommitterTypes

\* Every post up to the checkpoint has been stored, in whatever order the workers
\* stored the batches and wherever the last run ended: a resume skips nothing
\* (index_pass.go:60-66).
ResumeSkipsNothing == \A p \in 1..cursor : p \in stored

\* A committer that leaves its loop without an error has counted every batch the
\* fetcher dispatched; a cancel that the fetcher saw costs none of them
\* (index_pass.go:89-92).
DispatchedCount == committing = "join" /\ firstErr = "none" => watermark = fetchCursor

\* Once the pass has returned none of its workers stores anything: what comes
\* next, a resumed run or a cleared index, does not meet a straggler
\* (index_pass.go:206-207).
QuietAfterReturn == [][stored' # stored => PassRuns]_vars

\* The pass is a scan that may be resumed from its checkpoint.
Abs == INSTANCE ResumableScan
         WITH mark <- watermark, saved <- cursor, complete <- (committing = "completed")

ImplementsResumableScan == Abs!Spec

\* A requested cancel ends the job, even if the database and the embedding
\* provider never answer (index_pass.go:161-165).
CancelIsHeard == cancelRequested ~> JobOver

\* If stores and fetches do return, with success or not, the pass ends by itself:
\* its goroutines never wait for one another for ever.
PassEnds ==
  WF_vars(FetchBatch \/ FetchEnds \/ FetchFails) /\ WF_vars(\E w \in Worker : Dispatch(w))
    /\ WF_vars(Queue) /\ (\A w \in Worker : WF_vars(StoreEnds(w)))
  => (PassRuns ~> ~PassRuns)

=============================================================================
