-------------------------- MODULE IndexPassProofs --------------------------
(***************************************************************************)
(* Machine-checked theorems about IndexPass, for any workers, posts, batch *)
(* size, attempts, runs and failures.                                      *)
(***************************************************************************)
EXTENDS IndexPass, FiniteSetTheorems, TLAPS

-----------------------------------------------------------------------------
(* The inductive invariant *)

\* The committer is in its loop.
Loops == committing \in {"next", "wait", "savecursor", "saverow"}

\* The fetcher has a batch that the committer cannot see yet.
Fetched == fetching \in {"dispatch", "queue"}

\* A batch that may still be stored or counted.
Live(b) == \/ Fetched /\ b = fetched
           \/ committing = "wait" /\ b = oldest
           \/ \E i \in 1..Len(orderedCh) : b = orderedCh[i]
           \/ \E w \in Worker : worker[w] = "store" /\ b = inHand[w]

\* A cursor names one batch, and none is ahead of the fetcher.
LiveBatches ==
  /\ \A b \in Batch \cup {NoBatch} : Live(b) => b \in Batch /\ b.cursor <= fetchCursor
  /\ \A a \in Batch, b \in Batch : Live(a) /\ Live(b) /\ a.cursor = b.cursor => a = b
  /\ \A p \in Post : result[p] # "pending" => p <= fetchCursor

\* A result "ok" is true.
ResultsAreTrue == \A b \in Batch : Live(b) /\ result[b.cursor] = "ok" => b.posts \subseteq stored

\* The committer's mark and the checkpoint are behind what is stored.
MarksCovered == /\ \A p \in 1..cursor : p \in stored
                /\ \A p \in 1..watermark : p \in stored

\* Post p is stored, or among the batches up to the i-th of the queue.
Covered(p, i) == \/ p \in stored
                 \/ committing = "wait" /\ p \in oldest.posts
                 \/ \E j \in 1..i : p \in orderedCh[j].posts

\* What the committer has yet to see covers every post up to the fetcher's cursor.
LoopCovered ==
  Loops =>
    /\ ~canceled
    /\ firstErr = "none"
    /\ committing = "wait" => \A p \in 1..oldest.cursor : Covered(p, 0)
    /\ \A i \in 1..Len(orderedCh) : \A p \in 1..orderedCh[i].cursor : Covered(p, i)
    /\ \A p \in 1..fetchCursor : Covered(p, Len(orderedCh)) \/ (Fetched /\ p \in fetched.posts)

\* The last batch the committer has yet to see ends at the fetcher's cursor.
LastCursor ==
  Loops =>
    IF Fetched THEN fetched.cursor = fetchCursor
    ELSE IF orderedCh # <<>> THEN orderedCh[Len(orderedCh)].cursor = fetchCursor
    ELSE IF committing = "wait" THEN oldest.cursor = fetchCursor
    ELSE watermark = fetchCursor

\* A fetcher that came to the end has left nothing behind its cursor.
FetchedAll ==
  Loops /\ fetching = "off" /\ fetchErr = "none" => \A p \in Post : p > fetchCursor => p \in stored

\* A pass that ends without an error has stored everything it was to store.
Outcomes ==
  /\ committing = "join" /\ firstErr = "none" =>
       /\ fetching = "off"
       /\ watermark = fetchCursor
       /\ fetchErr = "none" => Post \subseteq stored
  /\ committing = "report" /\ firstErr = "none" => Post \subseteq stored

\* The cursors rise from the watermark over the batches to the fetcher.
InOrder ==
  Loops =>
    /\ watermark <= fetchCursor
    /\ committing = "wait" => watermark <= oldest.cursor
    /\ \A i \in 1..Len(orderedCh) :
         /\ watermark <= orderedCh[i].cursor
         /\ committing = "wait" => oldest.cursor <= orderedCh[i].cursor
    /\ \A i, j \in 1..Len(orderedCh) : i < j => orderedCh[i].cursor <= orderedCh[j].cursor

\* Only a pass that runs has workers.
WorkersInPass == ~PassRuns => WorkersGone

\* Between two runs nothing is in memory.
Idle ==
  committing = "off" =>
    /\ fetching = "off"
    /\ fetchErr = "none"
    /\ orderedCh = <<>>
    /\ \A p \in Post : result[p] = "pending"
    /\ ~canceled
    /\ firstErr = "none"

PassInv == /\ LiveBatches
           /\ ResultsAreTrue
           /\ MarksCovered
           /\ LoopCovered
           /\ LastCursor
           /\ FetchedAll
           /\ Outcomes
           /\ WorkersInPass
           /\ Idle

Inv == TypeOK /\ PassInv /\ InOrder

-----------------------------------------------------------------------------
(* Types *)

LEMMA WorkerCount == Cardinality(Worker) \in Nat
  BY IndexPassAssumption, FS_CardinalityType

LEMMA PostCount == ASSUME NEW ps \in SUBSET Post PROVE Cardinality(ps) \in Nat
<1>1. NumPosts \in Int
  BY IndexPassAssumption
<1>2. IsFiniteSet(Post)
  BY <1>1, FS_Interval DEF Post
<1> QED BY <1>2, FS_Subset, FS_CardinalityType

\* The fetched page is a batch.
LEMMA PageIsBatch ==
  ASSUME NEW m \in Remaining
  PROVE  [posts |-> Page(m), cursor |-> m] \in Batch
  BY DEF Remaining, Page, Batch

LEMMA InitTyped == Init => TypeOK
<1> SUFFICES ASSUME Init PROVE TypeOK
  OBVIOUS
<1>1. RowTypes
  <2>1. cancelRequested \in BOOLEAN /\ skipExisting \in BOOLEAN /\ sawCancel \in BOOLEAN
    BY DEF Init
  <2>2. cursor \in 0..NumPosts /\ processedRows \in Nat /\ runs \in 0..MaxRuns
    BY IndexPassAssumption DEF Init
  <2> QED BY <2>1, <2>2 DEF RowTypes
<1>2. FetcherTypes
  BY IndexPassAssumption, WorkerCount DEF Init, FetcherTypes
<1>3. WorkerTypes
  BY IndexPassAssumption DEF Init, WorkerTypes, Post
<1>4. CommitterTypes
  <2>1. canceled \in BOOLEAN
    BY DEF Init
  <2>2. watermark \in 0..NumPosts /\ processed \in Nat
    BY IndexPassAssumption DEF Init
  <2> QED BY <2>1, <2>2 DEF Init, CommitterTypes
<1> QED BY <1>1, <1>2, <1>3, <1>4 DEF TypeOK

LEMMA ForgetTyped ==
  ASSUME TypeOK, Forget
  PROVE  FetcherTypes' /\ WorkerTypes' /\ (committing' \in {"off", "completed"} => CommitterTypes')
<1>1. FetcherTypes'
  BY IndexPassAssumption, WorkerCount DEF Forget, FetcherTypes
<1>2. WorkerTypes'
  BY IndexPassAssumption DEF Forget, TypeOK, WorkerTypes
<1>3. committing' \in {"off", "completed"} => CommitterTypes'
  BY DEF Forget, TypeOK, CommitterTypes
<1> QED BY <1>1, <1>2, <1>3

\* Which parts of the state an action leaves alone.
LEMMA UnchangedTyped ==
  ASSUME TypeOK
  PROVE  /\ UNCHANGED <<kv, job>> => RowTypes'
         /\ UNCHANGED <<fetcher, orderedCh>> => FetcherTypes'
         /\ UNCHANGED workers => WorkerTypes'
         /\ UNCHANGED committer => CommitterTypes'
<1>1. UNCHANGED <<kv, job>> => RowTypes'
  BY DEF TypeOK, RowTypes, kv, job
<1>2. UNCHANGED <<fetcher, orderedCh>> => FetcherTypes'
  BY DEF TypeOK, FetcherTypes, fetcher
<1>3. UNCHANGED workers => WorkerTypes'
  BY DEF TypeOK, WorkerTypes, workers
<1>4. UNCHANGED committer => CommitterTypes'
  BY DEF TypeOK, CommitterTypes, committer
<1> QED BY <1>1, <1>2, <1>3, <1>4

LEMMA RunTyped ==
  ASSUME TypeOK, StartPass \/ CancelJob \/ Crash
  PROVE  TypeOK'
<1> USE IndexPassAssumption
<1>1. CASE StartPass
  <2>1. RowTypes'
    <3>1. cancelRequested' \in BOOLEAN /\ skipExisting' \in BOOLEAN /\ sawCancel' \in BOOLEAN
      BY <1>1 DEF TypeOK, RowTypes, StartPass
    <3>2. cursor' \in 0..NumPosts /\ processedRows' \in Nat /\ runs' \in 0..MaxRuns
      BY <1>1 DEF TypeOK, RowTypes, StartPass
    <3> QED BY <3>1, <3>2 DEF RowTypes
  <2>2. FetcherTypes'
    BY <1>1 DEF TypeOK, RowTypes, FetcherTypes, StartPass
  <2>3. WorkerTypes'
    BY <1>1 DEF TypeOK, WorkerTypes, StartPass
  <2>4. CommitterTypes'
    BY <1>1 DEF TypeOK, RowTypes, CommitterTypes, StartPass
  <2> QED BY <2>1, <2>2, <2>3, <2>4 DEF TypeOK
<1>2. CASE CancelJob
  <2>1. RowTypes'
    BY <1>2 DEF TypeOK, RowTypes, CancelJob, job
  <2> QED BY <1>2, <2>1, UnchangedTyped DEF TypeOK, CancelJob
<1>3. CASE Crash
  <2>1. RowTypes'
    BY <1>3 DEF TypeOK, RowTypes, Crash, Forget
  <2> QED BY <1>3, <2>1, ForgetTyped DEF TypeOK, Crash
<1> QED BY <1>1, <1>2, <1>3

LEMMA FetcherTyped ==
  ASSUME TypeOK, LiveBatches, Fetcher
  PROVE  TypeOK'
<1>1. CASE PollCancel \/ FetchEnds \/ FetchFails \/ StopFetching
  <2>1. FetcherTypes'
    BY <1>1 DEF TypeOK, FetcherTypes, PollCancel, FetchEnds, FetchFails, StopFetching
  <2> QED BY <1>1, <2>1, UnchangedTyped
      DEF TypeOK, PollCancel, FetchEnds, FetchFails, StopFetching
<1>2. CASE FetchBatch
  <2>1. FetcherTypes'
    BY <1>2, PageIsBatch DEF TypeOK, FetcherTypes, FetchBatch, Remaining, Post
  <2> QED BY <1>2, <2>1, UnchangedTyped DEF TypeOK, FetchBatch
<1>3. ASSUME NEW w \in Worker, Dispatch(w) PROVE TypeOK'
  <2>1. FetcherTypes'
    BY <1>3 DEF TypeOK, FetcherTypes, Dispatch
  <2>2. WorkerTypes'
    BY <1>3 DEF TypeOK, FetcherTypes, WorkerTypes, Dispatch
  <2> QED BY <1>3, <2>1, <2>2, UnchangedTyped DEF TypeOK, Dispatch
<1>4. CASE Queue
  <2>1. fetched \in Batch
    BY <1>4 DEF Queue, TypeOK, FetcherTypes, LiveBatches, Live, Fetched
  <2>2. FetcherTypes'
    BY <1>4, <2>1, WorkerCount DEF TypeOK, FetcherTypes, Queue
  <2> QED BY <1>4, <2>2, UnchangedTyped DEF TypeOK, Queue
<1> QED BY <1>1, <1>2, <1>3, <1>4 DEF Fetcher

LEMMA WorkerTyped ==
  ASSUME TypeOK, NEW w \in Worker, WorkerStep(w)
  PROVE  TypeOK'
<1> USE IndexPassAssumption
<1>1. inHand[w].posts \subseteq Post
  BY DEF TypeOK, WorkerTypes, Batch, NoBatch
<1>2. WorkerTypes'
  <2>1. CASE StoreBatch(w)
    <3>1. stored' \subseteq Post
      BY <1>1, <2>1 DEF TypeOK, WorkerTypes, StoreBatch
    <3>2. worker' \in [Worker -> {"gone", "receive", "store"}]
          /\ inHand' \in [Worker -> Batch \cup {NoBatch}]
      BY <2>1 DEF TypeOK, WorkerTypes, StoreBatch
    <3>3. attempt' \in [Worker -> 1..MaxAttempts]
      BY <2>1 DEF TypeOK, WorkerTypes, StoreBatch
    <3>4. result' \in [Post -> {"pending", "ok", "error"}]
      BY <2>1 DEF TypeOK, WorkerTypes, StoreBatch
    <3> QED BY <3>1, <3>2, <3>3, <3>4 DEF WorkerTypes
  <2>2. CASE StoreFails(w)
    BY <1>1, <2>2 DEF TypeOK, WorkerTypes, StoreFails, LastAttempt
  <2>3. CASE WorkerLeaves(w)
    BY <2>3 DEF TypeOK, WorkerTypes, WorkerLeaves
  <2> QED BY <2>1, <2>2, <2>3 DEF WorkerStep, StoreEnds
<1> QED BY <1>2, UnchangedTyped DEF TypeOK, WorkerStep, StoreEnds, StoreBatch, StoreFails, WorkerLeaves

LEMMA CommitterTyped ==
  ASSUME TypeOK, Committer
  PROVE  TypeOK'
<1>1. CASE TakeBatch
  <2>1. FetcherTypes' /\ CommitterTypes'
    BY <1>1, WorkerCount DEF TypeOK, FetcherTypes, CommitterTypes, TakeBatch, fetcher
  <2> QED BY <1>1, <2>1, UnchangedTyped DEF TypeOK, TakeBatch
<1>2. CASE ChannelClosed \/ BatchFailed \/ JoinWorkers
  <2>1. CommitterTypes'
    BY <1>2 DEF TypeOK, FetcherTypes, CommitterTypes, ChannelClosed, BatchFailed, JoinWorkers
  <2> QED BY <1>2, <2>1, UnchangedTyped DEF TypeOK, ChannelClosed, BatchFailed, JoinWorkers
<1>3. CASE CommitBatch
  <2>1. oldest.posts \in SUBSET Post /\ oldest.cursor \in 0..NumPosts
    BY IndexPassAssumption DEF TypeOK, CommitterTypes, Batch, NoBatch, Post
  <2>2. processed + Cardinality(oldest.posts) \in Nat
    BY <2>1, PostCount DEF TypeOK, CommitterTypes
  <2>3. CommitterTypes'
    BY <1>3, <2>1, <2>2 DEF TypeOK, CommitterTypes, CommitBatch
  <2> QED BY <1>3, <2>3, UnchangedTyped DEF TypeOK, CommitBatch
<1>4. CASE Heartbeat \/ HeartbeatCancels \/ SaveRow
  <2>1. RowTypes'
    <3>1. sawCancel' \in BOOLEAN
      BY <1>4 DEF TypeOK, RowTypes, Heartbeat, HeartbeatCancels, SaveRow, SaveJobStatus
    <3>2. processedRows' \in Nat
      BY <1>4 DEF TypeOK, RowTypes, CommitterTypes, Heartbeat, HeartbeatCancels, SaveRow,
         SaveJobStatus
    <3> QED BY <1>4, <3>1, <3>2 DEF TypeOK, RowTypes, Heartbeat, HeartbeatCancels, SaveRow
  <2>2. CommitterTypes'
    BY <1>4 DEF TypeOK, CommitterTypes, Heartbeat, HeartbeatCancels, SaveRow, committer
  <2> QED BY <1>4, <2>1, <2>2, UnchangedTyped DEF TypeOK, Heartbeat, HeartbeatCancels, SaveRow
<1>5. CASE SaveCursor
  <2>1. RowTypes' /\ CommitterTypes'
    BY <1>5 DEF TypeOK, RowTypes, CommitterTypes, SaveCursor, Written, job
  <2> QED BY <1>5, <2>1, UnchangedTyped DEF TypeOK, SaveCursor
<1> QED BY <1>1, <1>2, <1>3, <1>4, <1>5 DEF Committer

LEMMA OutcomeTyped ==
  ASSUME TypeOK, Outcome
  PROVE  TypeOK'
<1>1. CASE FinishJob \/ AcknowledgeCancel \/ SaveRowOnError
  <2>1. RowTypes'
    <3>1. sawCancel' \in BOOLEAN /\ cancelRequested' \in BOOLEAN /\ skipExisting' \in BOOLEAN
      BY <1>1 DEF TypeOK, RowTypes, FinishJob, AcknowledgeCancel, SaveRowOnError, Forget
    <3>2. cursor' \in 0..NumPosts /\ runs' \in 0..MaxRuns
      BY <1>1, IndexPassAssumption DEF TypeOK, RowTypes, FinishJob, AcknowledgeCancel,
         SaveRowOnError, Forget, Written
    <3>3. processedRows' \in Nat
      BY <1>1 DEF TypeOK, RowTypes, CommitterTypes, FinishJob, AcknowledgeCancel, SaveRowOnError,
         Written
    <3> QED BY <3>1, <3>2, <3>3 DEF RowTypes
  <2> QED BY <1>1, <2>1, ForgetTyped DEF TypeOK, FinishJob, AcknowledgeCancel, SaveRowOnError
<1>2. CASE SaveCursorOnError
  <2>1. RowTypes' /\ CommitterTypes'
    BY <1>2 DEF TypeOK, RowTypes, CommitterTypes, SaveCursorOnError, Written, job
  <2> QED BY <1>2, <2>1, UnchangedTyped DEF TypeOK, SaveCursorOnError
<1> QED BY <1>1, <1>2 DEF Outcome

LEMMA NextTyped ==
  ASSUME TypeOK, LiveBatches, [Next]_vars
  PROVE  TypeOK'
<1>1. CASE UNCHANGED vars
  BY <1>1, UnchangedTyped DEF TypeOK, vars
<1>2. CASE Next
  BY <1>1, <1>2, RunTyped, FetcherTyped, WorkerTyped, CommitterTyped, OutcomeTyped
     DEF Next, Finished
<1> QED BY <1>1, <1>2

-----------------------------------------------------------------------------
(* Preservation of the invariant *)

LEMMA InitInv == Init => PassInv
<1> SUFFICES ASSUME Init PROVE PassInv
  OBVIOUS
<1> USE DEF Init, Fetched, Loops
<1>1. Len(orderedCh) = 0
  OBVIOUS
<1>2. \A b : ~Live(b)
  BY <1>1 DEF Live
<1>3. LiveBatches /\ ResultsAreTrue
  BY <1>2 DEF LiveBatches, ResultsAreTrue
<1>4. MarksCovered
  BY DEF MarksCovered
<1>5. LoopCovered /\ LastCursor /\ FetchedAll /\ Outcomes /\ Idle
  BY DEF LoopCovered, LastCursor, FetchedAll, Outcomes, Idle
<1>6. WorkersInPass
  BY DEF WorkersInPass, WorkersGone
<1> QED BY <1>3, <1>4, <1>5, <1>6 DEF PassInv

\* As long as no batch becomes live and no result arrives, what is known of the
\* batches remains true.
LEMMA NoNewBatch ==
  ASSUME TypeOK, PassInv, stored \subseteq stored', fetchCursor' = fetchCursor, result' = result,
         \A b \in Batch \cup {NoBatch} : Live(b)' => Live(b)
  PROVE  LiveBatches' /\ ResultsAreTrue'
<1>1. LiveBatches'
  BY DEF PassInv, LiveBatches
<1>2. ResultsAreTrue'
  BY DEF PassInv, ResultsAreTrue
<1> QED BY <1>1, <1>2

\* What an action preserves that changes neither the batches nor what is stored.
LEMMA CoverageKept ==
  ASSUME PassInv, UNCHANGED <<fetcher, workers, orderedCh, oldest, watermark>>,
         committing' # committing => committing # "wait" /\ committing' # "wait",
         Loops' => Loops,
         canceled' = canceled, firstErr' = firstErr
  PROVE  LoopCovered' /\ LastCursor' /\ FetchedAll'
<1> USE DEF PassInv, fetcher, workers, Fetched
<1>1. LoopCovered'
  BY DEF LoopCovered, Covered
<1>2. LastCursor' /\ FetchedAll'
  BY DEF LastCursor, FetchedAll
<1> QED BY <1>1, <1>2

\* Only the job row changes.
LEMMA RowStep ==
  ASSUME PassInv, UNCHANGED <<fetcher, workers, committer, orderedCh, cursor>>
  PROVE  PassInv'
<1> USE DEF fetcher, workers, committer, PassInv, Loops, Fetched, Live, Covered
<1>1. LiveBatches' /\ ResultsAreTrue' /\ MarksCovered'
  BY DEF LiveBatches, ResultsAreTrue, MarksCovered
<1>2. LoopCovered' /\ LastCursor' /\ FetchedAll'
  BY DEF LoopCovered, LastCursor, FetchedAll
<1>3. Outcomes' /\ WorkersInPass' /\ Idle'
  BY DEF Outcomes, WorkersInPass, PassRuns, WorkersGone, Idle
<1> QED BY <1>1, <1>2, <1>3

\* A run is over.
LEMMA ForgetStep ==
  ASSUME TypeOK, PassInv, Forget, committing' \in {"off", "completed"}, cursor' \in {cursor, 0}
  PROVE  PassInv'
<1> USE DEF Forget, Fetched, Loops
<1>1. Len(orderedCh') = 0
  OBVIOUS
<1>2. \A b : ~Live(b)'
  BY <1>1 DEF Live
<1>3. LiveBatches' /\ ResultsAreTrue'
  BY <1>2 DEF LiveBatches, ResultsAreTrue
<1>4. MarksCovered'
  BY DEF PassInv, MarksCovered
<1>5. LoopCovered' /\ LastCursor' /\ FetchedAll' /\ Outcomes' /\ Idle'
  BY DEF LoopCovered, LastCursor, FetchedAll, Outcomes, Idle
<1>6. WorkersInPass'
  BY DEF WorkersInPass, WorkersGone
<1> QED BY <1>3, <1>4, <1>5, <1>6 DEF PassInv

LEMMA StartStep ==
  ASSUME TypeOK, PassInv, StartPass
  PROVE  PassInv'
<1> USE DEF StartPass, Fetched, Loops
<1>1. Idle /\ Len(orderedCh') = 0
  BY DEF PassInv, Idle
<1>2. \A b : ~Live(b)'
  BY <1>1 DEF Live
<1>3. LiveBatches' /\ ResultsAreTrue'
  BY <1>1, <1>2 DEF LiveBatches, ResultsAreTrue, Idle
<1>4. MarksCovered'
  BY DEF PassInv, MarksCovered
<1>5. LoopCovered'
  BY <1>1 DEF PassInv, MarksCovered, Idle, LoopCovered, Covered
<1>6. LastCursor' /\ FetchedAll' /\ Outcomes' /\ Idle' /\ WorkersInPass'
  BY <1>1 DEF LastCursor, FetchedAll, Outcomes, Idle, WorkersInPass, PassRuns
<1> QED BY <1>3, <1>4, <1>5, <1>6 DEF PassInv

\* The fetcher decides, without a new batch, what it does next.
LEMMA DecideStep ==
  ASSUME TypeOK, PassInv, PollCancel \/ FetchEnds \/ FetchFails \/ StopFetching
  PROVE  PassInv'
<1> USE DEF PollCancel, FetchEnds, FetchFails, StopFetching
<1>1. UNCHANGED <<cursor, fetchCursor, fetched, workers, committer, orderedCh>>
  BY DEF kv
<1>2. \A b \in Batch \cup {NoBatch} : Live(b)' => Live(b)
  BY <1>1 DEF Live, Fetched, workers, committer
<1>3. LiveBatches' /\ ResultsAreTrue'
  BY <1>1, <1>2, NoNewBatch DEF workers
<1>4. MarksCovered'
  BY <1>1 DEF PassInv, MarksCovered, workers, committer
<1>5. Loops => ~Fetched'
  BY DEF PassInv, LoopCovered, Loops, Fetched
<1>6. LoopCovered' /\ LastCursor'
  BY <1>1, <1>5 DEF PassInv, LoopCovered, LastCursor, Covered, Loops, Fetched, workers, committer
<1>7. FetchedAll'
  BY <1>1 DEF PassInv, LoopCovered, FetchedAll, Loops, Remaining, workers, committer
<1>8. Outcomes' /\ Idle' /\ WorkersInPass'
  BY <1>1 DEF PassInv, Outcomes, Idle, WorkersInPass, PassRuns, WorkersGone, workers, committer
<1> QED BY <1>3, <1>4, <1>6, <1>7, <1>8 DEF PassInv

LEMMA FetchStep ==
  ASSUME TypeOK, PassInv, FetchBatch
  PROVE  PassInv'
<1> USE DEF workers, committer, kv
<1>1. PICK m \in Remaining : fetched' = [posts |-> Page(m), cursor |-> m] /\ fetchCursor' = m
  BY DEF FetchBatch
<1>2. UNCHANGED <<cursor, workers, committer, orderedCh>> /\ fetching = "fetch" /\ fetching' = "dispatch"
  BY DEF FetchBatch
<1>3. fetched' \in Batch /\ m \in Post /\ m > fetchCursor /\ fetchCursor \in Nat
  BY <1>1, PageIsBatch, IndexPassAssumption DEF Remaining, TypeOK, FetcherTypes
<1>4. \A b \in Batch \cup {NoBatch} : Live(b)' => b = fetched' \/ Live(b)
  BY <1>2 DEF Live, Fetched
<1>5. \A b \in Batch \cup {NoBatch} : Live(b) => b \in Batch /\ b.cursor \in Nat /\ b.cursor < m
  BY <1>3, IndexPassAssumption DEF PassInv, LiveBatches, Batch, Post
<1>6. LiveBatches'
  <2>1. \A b \in Batch \cup {NoBatch} : Live(b)' => b \in Batch /\ b.cursor <= m
    BY <1>1, <1>3, <1>4, <1>5 DEF Post
  <2>2. \A a \in Batch, b \in Batch : Live(a)' /\ Live(b)' /\ a.cursor = b.cursor => a = b
    BY <1>1, <1>3, <1>4, <1>5 DEF PassInv, LiveBatches
  <2>3. \A p \in Post : result[p] # "pending" => p <= m
    BY <1>3, IndexPassAssumption DEF PassInv, LiveBatches, Post
  <2> QED BY <1>1, <1>2, <2>1, <2>2, <2>3 DEF LiveBatches
<1>7. ResultsAreTrue'
  <2>1. result[m] = "pending"
    BY <1>3, IndexPassAssumption DEF PassInv, LiveBatches, Post
  <2> QED BY <1>1, <1>2, <1>4, <2>1 DEF PassInv, ResultsAreTrue
<1>8. MarksCovered'
  BY <1>2 DEF PassInv, MarksCovered
<1>9. LoopCovered'
  <2> SUFFICES ASSUME Loops PROVE LoopCovered'
    BY <1>2 DEF LoopCovered, Loops
  <2>1. \A p \in 1..m : Covered(p, Len(orderedCh)) \/ p \in Page(m)
    <3> SUFFICES ASSUME NEW p \in 1..m PROVE Covered(p, Len(orderedCh)) \/ p \in Page(m)
      OBVIOUS
    <3>1. CASE p <= fetchCursor
      BY <1>2, <1>3, <3>1, IndexPassAssumption DEF PassInv, LoopCovered, Fetched, Post
    <3>2. CASE p > fetchCursor
      BY <1>3, <3>2, IndexPassAssumption DEF Page, Remaining, Covered, Post
    <3> QED BY <1>3, <3>1, <3>2 DEF Post
  <2>2. \A p, i : Covered(p, i)' <=> Covered(p, i)
    BY <1>2 DEF Covered
  <2> QED BY <1>1, <1>2, <2>1, <2>2 DEF PassInv, LoopCovered, Loops, Fetched
<1>10. LastCursor' /\ FetchedAll' /\ Idle' /\ Outcomes' /\ WorkersInPass'
  BY <1>1, <1>2 DEF PassInv, LastCursor, FetchedAll, Fetched, Idle, Outcomes, WorkersInPass,
     PassRuns, WorkersGone
<1> QED BY <1>6, <1>7, <1>8, <1>9, <1>10 DEF PassInv

LEMMA DispatchStep ==
  ASSUME TypeOK, PassInv, NEW w \in Worker, Dispatch(w)
  PROVE  PassInv'
<1> USE DEF kv, committer
<1>1. /\ UNCHANGED <<cursor, fetchCursor, fetched, fetchErr, result, stored, committer, orderedCh>>
      /\ fetching = "dispatch"
      /\ fetching' = "queue"
      /\ worker[w] = "receive"
      /\ worker' = [worker EXCEPT ![w] = "store"]
      /\ inHand' = [inHand EXCEPT ![w] = fetched]
  BY DEF Dispatch
<1>2. \A b \in Batch \cup {NoBatch} : Live(b)' => Live(b)
  BY <1>1 DEF Live, Fetched, TypeOK, WorkerTypes
<1>3. LiveBatches' /\ ResultsAreTrue'
  BY <1>1, <1>2, NoNewBatch
<1>4. MarksCovered'
  BY <1>1 DEF PassInv, MarksCovered
<1>5. LoopCovered' /\ LastCursor' /\ FetchedAll'
  BY <1>1 DEF PassInv, LoopCovered, LastCursor, FetchedAll, Covered, Loops, Fetched
<1>6. Outcomes' /\ Idle'
  BY <1>1 DEF PassInv, Outcomes, Idle
<1>7. WorkersInPass'
  BY <1>1 DEF PassInv, WorkersInPass, WorkersGone, PassRuns
<1> QED BY <1>3, <1>4, <1>5, <1>6, <1>7 DEF PassInv

LEMMA QueueStep ==
  ASSUME TypeOK, PassInv, Queue
  PROVE  PassInv'
<1> USE DEF kv, committer, workers
<1>1. /\ UNCHANGED <<cursor, fetchCursor, fetchErr, workers, committer>>
      /\ fetching = "queue"
      /\ fetching' = "poll"
      /\ orderedCh' = Append(orderedCh, fetched)
  BY DEF Queue
<1>2. PICK n \in Nat : /\ n = Len(orderedCh)
                      /\ Len(orderedCh') = n + 1
                      /\ orderedCh'[n + 1] = fetched
                      /\ \A i \in 1..n : orderedCh'[i] = orderedCh[i]
  <2>1. orderedCh \in Seq(Batch \cup {NoBatch}) /\ fetched \in Batch \cup {NoBatch}
    BY DEF TypeOK, FetcherTypes
  <2> QED BY <1>1, <2>1
<1>3. \A b \in Batch \cup {NoBatch} : Live(b)' => Live(b)
  BY <1>1, <1>2 DEF Live, Fetched
<1>4. LiveBatches' /\ ResultsAreTrue'
  BY <1>1, <1>3, NoNewBatch
<1>5. MarksCovered'
  BY <1>1 DEF PassInv, MarksCovered
<1>6. LoopCovered'
  <2> SUFFICES ASSUME Loops PROVE LoopCovered'
    BY <1>1 DEF LoopCovered, Loops
  <2>1. \A p : \A i \in 0..n : Covered(p, i) => Covered(p, i)'
    BY <1>1, <1>2 DEF Covered
  <2>2. \A p : Covered(p, n) \/ p \in fetched.posts => Covered(p, n + 1)'
    BY <1>1, <1>2 DEF Covered
  <2>3. \A p \in 1..fetchCursor : Covered(p, n + 1)'
    BY <1>2, <2>2 DEF PassInv, LoopCovered
  <2>4. fetched.cursor = fetchCursor
    BY <1>1 DEF PassInv, LastCursor, Fetched
  <2>5. \A i \in 1..n : \A p \in 1..orderedCh[i].cursor : Covered(p, i)'
    BY <1>2, <2>1 DEF PassInv, LoopCovered
  <2>6. \A i \in 1..n+1 : \A p \in 1..orderedCh'[i].cursor : Covered(p, i)'
    <3> SUFFICES ASSUME NEW i \in 1..n+1, NEW p \in 1..orderedCh'[i].cursor PROVE Covered(p, i)'
      OBVIOUS
    <3>1. CASE i \in 1..n
      BY <1>2, <2>5, <3>1
    <3>2. CASE i = n + 1
      BY <1>2, <2>3, <2>4, <3>2 DEF Covered
    <3> QED BY <1>2, <3>1, <3>2
  <2>7. committing = "wait" => \A p \in 1..oldest.cursor : Covered(p, 0)'
    BY <1>2, <2>1 DEF PassInv, LoopCovered
  <2>8. \A p \in 1..fetchCursor : Covered(p, Len(orderedCh))'
    BY <1>2, <2>3 DEF Covered
  <2> QED BY <1>1, <1>2, <2>6, <2>7, <2>8 DEF PassInv, LoopCovered
<1>7. LastCursor'
  BY <1>1, <1>2 DEF PassInv, LastCursor, Loops, Fetched
<1>8. FetchedAll' /\ Outcomes' /\ Idle' /\ WorkersInPass'
  BY <1>1 DEF PassInv, FetchedAll, Outcomes, Idle, WorkersInPass, WorkersGone, PassRuns
<1> QED BY <1>4, <1>5, <1>6, <1>7, <1>8 DEF PassInv

\* A batch leaves its worker with a result.
LEMMA ResultStep ==
  ASSUME TypeOK, PassInv, NEW w \in Worker, StoreBatch(w) \/ StoreFails(w)
  PROVE  PassInv'
<1> USE DEF kv, committer, fetcher, job
<1> DEFINE b0 == inHand[w]
<1>1. /\ UNCHANGED <<cursor, fetcher, committer, orderedCh>>
      /\ worker[w] = "store"
      /\ stored \subseteq stored'
  BY DEF StoreBatch, StoreFails
<1>2. \/ worker' = worker /\ inHand' = inHand
      \/ /\ worker' \in {[worker EXCEPT ![w] = "receive"], [worker EXCEPT ![w] = "gone"]}
         /\ inHand' = [inHand EXCEPT ![w] = NoBatch]
  BY DEF StoreBatch, StoreFails
<1>3. \/ result' = result
      \/ result' = [result EXCEPT ![b0.cursor] = "error"]
      \/ result' = [result EXCEPT ![b0.cursor] = "ok"] /\ b0.posts \subseteq stored'
  BY DEF StoreBatch, StoreFails
<1>4. \A b \in Batch \cup {NoBatch} : Live(b)' => Live(b)
  BY <1>1, <1>2 DEF Live, Fetched, TypeOK, WorkerTypes
<1>5. Live(b0) /\ b0 \in Batch /\ b0.cursor <= fetchCursor /\ b0.cursor \in Post
  BY <1>1 DEF PassInv, LiveBatches, Live, TypeOK, WorkerTypes, Batch
<1>6. LiveBatches'
  BY <1>1, <1>3, <1>4, <1>5 DEF PassInv, LiveBatches, TypeOK, WorkerTypes
<1>7. ResultsAreTrue'
  <2> SUFFICES ASSUME NEW a \in Batch, Live(a)', result'[a.cursor] = "ok" PROVE a.posts \subseteq stored'
    BY DEF ResultsAreTrue
  <2>1. Live(a) /\ a.cursor \in Post
    BY <1>4 DEF Batch
  <2>2. CASE a.cursor = b0.cursor
    <3>1. a = b0
      BY <1>5, <2>1, <2>2 DEF PassInv, LiveBatches
    <3> QED BY <1>1, <1>3, <1>5, <2>1, <3>1 DEF PassInv, ResultsAreTrue, TypeOK, WorkerTypes
  <2>3. CASE a.cursor # b0.cursor
    BY <1>1, <1>3, <1>5, <2>1, <2>3 DEF PassInv, ResultsAreTrue, TypeOK, WorkerTypes
  <2> QED BY <2>2, <2>3
<1>8. MarksCovered'
  BY <1>1 DEF PassInv, MarksCovered
<1>9. LoopCovered' /\ LastCursor' /\ FetchedAll' /\ Outcomes'
  BY <1>1 DEF PassInv, LoopCovered, LastCursor, FetchedAll, Outcomes, Covered, Loops, Fetched
<1>10. PassRuns
  BY <1>1 DEF PassInv, WorkersInPass, WorkersGone
<1>11. WorkersInPass' /\ Idle'
  BY <1>1, <1>10 DEF WorkersInPass, PassRuns, Idle
<1> QED BY <1>6, <1>7, <1>8, <1>9, <1>11 DEF PassInv

LEMMA LeaveStep ==
  ASSUME TypeOK, PassInv, NEW w \in Worker, WorkerLeaves(w)
  PROVE  PassInv'
<1> USE DEF kv, committer, fetcher, job
<1>1. /\ UNCHANGED <<cursor, fetcher, committer, orderedCh, inHand, result, stored>>
      /\ worker' = [worker EXCEPT ![w] = "gone"]
  BY DEF WorkerLeaves
<1>2. \A b \in Batch \cup {NoBatch} : Live(b)' => Live(b)
  BY <1>1 DEF Live, Fetched, TypeOK, WorkerTypes
<1>3. LiveBatches' /\ ResultsAreTrue'
  BY <1>1, <1>2, NoNewBatch
<1>4. MarksCovered' /\ LoopCovered' /\ LastCursor' /\ FetchedAll' /\ Outcomes' /\ Idle'
  BY <1>1 DEF PassInv, MarksCovered, LoopCovered, LastCursor, FetchedAll, Outcomes, Idle, Covered,
     Loops, Fetched
<1>5. WorkersInPass'
  BY <1>1 DEF PassInv, WorkersInPass, WorkersGone, PassRuns, TypeOK, WorkerTypes
<1> QED BY <1>3, <1>4, <1>5 DEF PassInv

LEMMA TakeStep ==
  ASSUME TypeOK, PassInv, TakeBatch
  PROVE  PassInv'
<1> USE DEF kv, fetcher, workers, job
<1>1. /\ UNCHANGED <<cursor, fetcher, workers, watermark, firstErr, canceled>>
      /\ committing = "next"
      /\ committing' = "wait"
  BY DEF TakeBatch
<1>2. PICK n \in Nat : /\ Len(orderedCh) = n + 1
                      /\ Len(orderedCh') = n
                      /\ oldest' = orderedCh[1]
                      /\ \A i \in 1..n : orderedCh'[i] = orderedCh[i + 1]
  <2>1. orderedCh \in Seq(Batch) /\ orderedCh # <<>>
    BY DEF TakeBatch, TypeOK, FetcherTypes
  <2>2. Len(orderedCh) \in Nat \ {0}
    BY <2>1
  <2>3. oldest' = orderedCh[1] /\ Len(orderedCh') = Len(orderedCh) - 1
        /\ \A i \in 1..Len(orderedCh) - 1 : orderedCh'[i] = orderedCh[i + 1]
    BY <2>1 DEF TakeBatch
  <2> WITNESS Len(orderedCh) - 1 \in Nat
  <2> QED BY <2>2, <2>3
<1>3. \A b \in Batch \cup {NoBatch} : Live(b)' => Live(b)
  BY <1>1, <1>2 DEF Live, Fetched
<1>4. LiveBatches' /\ ResultsAreTrue'
  BY <1>1, <1>3, NoNewBatch
<1>5. MarksCovered'
  BY <1>1 DEF PassInv, MarksCovered
<1>6. LoopCovered'
  <2>1. \A p : \A i \in 0..n : Covered(p, i + 1) => Covered(p, i)'
    <3> SUFFICES ASSUME NEW p, NEW i \in 0..n, Covered(p, i + 1) PROVE Covered(p, i)'
      OBVIOUS
    <3>1. CASE \E j \in 1..i+1 : p \in orderedCh[j].posts
      <4>1. PICK j \in 1..i+1 : p \in orderedCh[j].posts
        BY <3>1
      <4>2. CASE j = 1
        BY <1>1, <1>2, <4>1, <4>2 DEF Covered
      <4>3. CASE j # 1
        <5>1. j - 1 \in 1..i /\ j - 1 \in 1..n /\ orderedCh'[j - 1] = orderedCh[j]
          BY <1>2, <4>3
        <5> QED BY <4>1, <5>1 DEF Covered
      <4> QED BY <4>2, <4>3
    <3> QED BY <1>1, <3>1 DEF Covered
  <2>2. Loops
    BY <1>1 DEF Loops
  <2>3. \A p \in 1..oldest'.cursor : Covered(p, 0)'
    <3>1. \A p \in 1..orderedCh[1].cursor : Covered(p, 0 + 1)
      BY <1>2, <2>2 DEF PassInv, LoopCovered
    <3> QED BY <1>2, <2>1, <3>1
  <2>4. \A i \in 1..n : \A p \in 1..orderedCh'[i].cursor : Covered(p, i)'
    <3>1. \A i \in 1..n : \A p \in 1..orderedCh[i + 1].cursor : Covered(p, i + 1)
      BY <1>2, <2>2 DEF PassInv, LoopCovered
    <3> QED BY <1>2, <2>1, <3>1
  <2>5. \A p \in 1..fetchCursor : Covered(p, n + 1) \/ (Fetched /\ p \in fetched.posts)
    BY <1>2, <2>2 DEF PassInv, LoopCovered
  <2>6. \A p \in 1..fetchCursor : Covered(p, n)' \/ (Fetched /\ p \in fetched.posts)
    BY <2>1, <2>5
  <2> QED BY <1>1, <1>2, <2>2, <2>3, <2>4, <2>6 DEF PassInv, LoopCovered, Fetched
<1>7. LastCursor'
  BY <1>1, <1>2 DEF PassInv, LastCursor, Loops, Fetched
<1>8. FetchedAll' /\ Outcomes' /\ Idle' /\ WorkersInPass'
  BY <1>1 DEF PassInv, FetchedAll, Outcomes, Idle, WorkersInPass, WorkersGone, PassRuns, Loops
<1> QED BY <1>4, <1>5, <1>6, <1>7, <1>8 DEF PassInv

\* The loop ends: nothing is known of the queue any more.
LEMMA LoopEndsStep ==
  ASSUME TypeOK, PassInv, ChannelClosed \/ BatchFailed \/ HeartbeatCancels
  PROVE  PassInv'
<1> USE DEF kv, fetcher, workers, job, ChannelClosed, BatchFailed, HeartbeatCancels
<1>1. /\ UNCHANGED <<cursor, fetcher, workers, oldest, watermark, orderedCh>>
      /\ Loops
      /\ committing' = "join"
  BY DEF Loops
<1>2. \A b \in Batch \cup {NoBatch} : Live(b)' => Live(b)
  BY <1>1 DEF Live, Fetched
<1>3. LiveBatches' /\ ResultsAreTrue'
  BY <1>1, <1>2, NoNewBatch
<1>4. MarksCovered'
  BY <1>1 DEF PassInv, MarksCovered
<1>5. LoopCovered' /\ LastCursor' /\ FetchedAll' /\ Idle' /\ WorkersInPass'
  BY <1>1 DEF LoopCovered, LastCursor, FetchedAll, Idle, WorkersInPass, PassRuns, Loops
<1>6. Outcomes'
  <2> SUFFICES ASSUME firstErr' = "none"
               PROVE  /\ fetching = "off"
                      /\ watermark = fetchCursor
                      /\ fetchErr = "none" => Post \subseteq stored
    BY <1>1 DEF Outcomes
  <2>1. Drained /\ committing = "next"
    OBVIOUS
  <2>2. fetching = "off" /\ watermark = fetchCursor
    BY <1>1, <2>1 DEF PassInv, LastCursor, Drained, Fetched
  <2>3. ASSUME fetchErr = "none", NEW p \in Post PROVE p \in stored
    <3>1. watermark \in Nat /\ p \in Nat \ {0}
      BY IndexPassAssumption DEF TypeOK, CommitterTypes, Post
    <3>2. CASE p <= watermark
      BY <3>1, <3>2 DEF PassInv, MarksCovered
    <3>3. CASE p > watermark
      BY <1>1, <2>2, <2>3, <3>3 DEF PassInv, FetchedAll
    <3> QED BY <3>1, <3>2, <3>3
  <2> QED BY <2>2, <2>3
<1> QED BY <1>3, <1>4, <1>5, <1>6 DEF PassInv

LEMMA CommitStep ==
  ASSUME TypeOK, PassInv, CommitBatch
  PROVE  PassInv'
<1> USE DEF kv, fetcher, workers, job, CommitBatch
<1>1. /\ UNCHANGED <<cursor, fetcher, workers, orderedCh, canceled, firstErr>>
      /\ committing = "wait"
      /\ committing' \in {"next", "savecursor"}
      /\ watermark' = oldest.cursor
  OBVIOUS
<1>2. \A b \in Batch \cup {NoBatch} : Live(b)' => Live(b)
  BY <1>1 DEF Live, Fetched
<1>3. LiveBatches' /\ ResultsAreTrue'
  BY <1>1, <1>2, NoNewBatch
<1>4. oldest.posts \subseteq stored
  <2>1. oldest \in Batch /\ Live(oldest)
    BY <1>1 DEF PassInv, LiveBatches, Live, TypeOK, CommitterTypes
  <2> QED BY <2>1 DEF PassInv, ResultsAreTrue, OldestStored
<1>5. \A p, i : Covered(p, i) => Covered(p, i)'
  BY <1>1, <1>4 DEF Covered
<1>6. MarksCovered'
  BY <1>1, <1>4 DEF PassInv, MarksCovered, LoopCovered, Loops, Covered
<1>7. LoopCovered'
  BY <1>1, <1>5 DEF PassInv, LoopCovered, Loops, Fetched
<1>8. LastCursor' /\ FetchedAll' /\ Outcomes' /\ Idle' /\ WorkersInPass'
  BY <1>1 DEF PassInv, LastCursor, FetchedAll, Outcomes, Idle, WorkersInPass, PassRuns, Loops, Fetched
<1> QED BY <1>3, <1>6, <1>7, <1>8 DEF PassInv

\* The checkpoint and the reports of the outcome.
LEMMA CheckpointStep ==
  ASSUME TypeOK, PassInv, SaveCursor \/ SaveRow \/ SaveCursorOnError \/ JoinWorkers
  PROVE  PassInv'
<1> USE DEF kv, fetcher, workers, job
<1>1. /\ UNCHANGED <<fetcher, workers, oldest, watermark, orderedCh, canceled>>
      /\ cursor' \in {cursor, watermark}
      /\ committing # "wait" /\ committing' # "wait"
  BY DEF SaveCursor, SaveRow, SaveCursorOnError, JoinWorkers, Written
<1>2. \A b \in Batch \cup {NoBatch} : Live(b)' => Live(b)
  BY <1>1 DEF Live, Fetched
<1>3. LiveBatches' /\ ResultsAreTrue'
  BY <1>1, <1>2, NoNewBatch
<1>4. MarksCovered'
  BY <1>1 DEF PassInv, MarksCovered
<1>5. Loops' => Loops /\ firstErr' = firstErr
  BY DEF SaveCursor, SaveRow, SaveCursorOnError, JoinWorkers, Loops
<1>6. LoopCovered' /\ LastCursor' /\ FetchedAll'
  BY <1>1, <1>5 DEF PassInv, LoopCovered, LastCursor, FetchedAll, Covered, Fetched
<1>7. Outcomes' /\ Idle' /\ WorkersInPass'
  BY <1>1 DEF SaveCursor, SaveRow, SaveCursorOnError, JoinWorkers, PassInv, Outcomes, Idle,
     WorkersInPass, WorkersGone, PassRuns
<1> QED BY <1>3, <1>4, <1>6, <1>7 DEF PassInv

LEMMA NextInv ==
  ASSUME TypeOK, PassInv, [Next]_vars
  PROVE  PassInv'
<1>1. CASE UNCHANGED vars
  BY <1>1, RowStep DEF vars, kv
<1>2. CASE CancelJob
  BY <1>2, RowStep DEF CancelJob
<1>3. CASE Heartbeat
  BY <1>3, RowStep DEF Heartbeat
<1>4. CASE Crash
  BY <1>4, ForgetStep DEF Crash
<1>5. CASE FinishJob \/ AcknowledgeCancel \/ SaveRowOnError
  BY <1>5, ForgetStep DEF FinishJob, AcknowledgeCancel, SaveRowOnError, Written
<1>6. CASE Fetcher
  BY <1>6, DecideStep, FetchStep, DispatchStep, QueueStep DEF Fetcher
<1>7. ASSUME NEW w \in Worker, WorkerStep(w) PROVE PassInv'
  BY <1>7, ResultStep, LeaveStep DEF WorkerStep, StoreEnds
<1>8. CASE Committer
  BY <1>3, <1>8, TakeStep, LoopEndsStep, CommitStep, CheckpointStep DEF Committer
<1>9. CASE Outcome
  BY <1>5, <1>9, CheckpointStep DEF Outcome
<1> QED BY <1>1, <1>2, <1>4, <1>6, <1>7, <1>8, <1>9, StartStep DEF Next, Finished

LEMMA NextInOrder ==
  ASSUME Inv, [Next]_vars
  PROVE  InOrder'
<1> USE DEF Inv, kv, fetcher, workers, committer, job, vars
<1> SUFFICES ASSUME Loops' PROVE InOrder'
  BY DEF InOrder
<1>1. CASE StartPass
  BY <1>1, IndexPassAssumption DEF StartPass, PassInv, Idle, InOrder, TypeOK, RowTypes
<1>2. CASE FetchBatch
  <2>1. fetchCursor' > fetchCursor /\ fetchCursor' \in Nat
    BY <1>2, IndexPassAssumption DEF FetchBatch, Remaining, Post
  <2>2. watermark \in Nat /\ fetchCursor \in Nat
    BY IndexPassAssumption DEF TypeOK, FetcherTypes, CommitterTypes
  <2>3. UNCHANGED <<watermark, oldest, committing, orderedCh>>
    BY <1>2 DEF FetchBatch
  <2> QED BY <2>1, <2>2, <2>3 DEF InOrder, Loops
<1>3. CASE Queue
  <2>1. \A i \in 1..Len(orderedCh) : orderedCh[i] \in Batch /\ orderedCh[i].cursor <= fetchCursor
    BY DEF PassInv, LiveBatches, Live, TypeOK, FetcherTypes
  <2>2. Loops /\ fetched.cursor = fetchCursor
    BY <1>3 DEF Queue, PassInv, LastCursor, Loops, Fetched
  <2>3. committing = "wait" => oldest.cursor <= fetchCursor
    BY DEF PassInv, LiveBatches, Live, TypeOK, CommitterTypes
  <2>4. /\ Len(orderedCh') = Len(orderedCh) + 1 /\ Len(orderedCh) \in Nat
        /\ orderedCh'[Len(orderedCh) + 1] = fetched
        /\ \A i \in 1..Len(orderedCh) : orderedCh'[i] = orderedCh[i]
    BY <1>3 DEF Queue, TypeOK, FetcherTypes
  <2> QED BY <1>3, <2>1, <2>2, <2>3, <2>4 DEF Queue, InOrder
<1>4. CASE TakeBatch
  <2>1. /\ Len(orderedCh) \in Nat \ {0}
        /\ Len(orderedCh') = Len(orderedCh) - 1
        /\ oldest' = orderedCh[1]
        /\ \A i \in 1..Len(orderedCh) - 1 : orderedCh'[i] = orderedCh[i + 1]
    BY <1>4 DEF TakeBatch, TypeOK, FetcherTypes
  <2> QED BY <1>4, <2>1 DEF TakeBatch, InOrder, Loops
<1>5. CASE CommitBatch
  <2>1. oldest.cursor <= fetchCursor
    BY <1>5 DEF CommitBatch, PassInv, LiveBatches, Live, TypeOK, CommitterTypes
  <2> QED BY <1>5, <2>1 DEF CommitBatch, InOrder, Loops
<1>6. CASE SaveCursor \/ SaveRow
  BY <1>6 DEF SaveCursor, SaveRow, InOrder, Loops
<1>7. CASE UNCHANGED <<fetchCursor, orderedCh, oldest, watermark, committing>>
  BY <1>7 DEF InOrder, Loops
<1>8. Next \/ UNCHANGED vars
  OBVIOUS
<1>9. CASE CancelJob \/ PollCancel \/ FetchEnds \/ FetchFails \/ StopFetching \/ Heartbeat
  BY <1>7, <1>9 DEF CancelJob, PollCancel, FetchEnds, FetchFails, StopFetching, Heartbeat
<1>10. ASSUME NEW w \in Worker, Dispatch(w) \/ WorkerStep(w) PROVE InOrder'
  BY <1>7, <1>10 DEF Dispatch, WorkerStep, StoreEnds, StoreBatch, StoreFails, WorkerLeaves
<1>11. CASE Crash \/ ChannelClosed \/ BatchFailed \/ HeartbeatCancels \/ JoinWorkers \/ Outcome
  BY <1>11 DEF Loops, Crash, ChannelClosed, BatchFailed, HeartbeatCancels, JoinWorkers, Outcome,
     FinishJob, AcknowledgeCancel, SaveCursorOnError, SaveRowOnError
<1> QED BY <1>1, <1>2, <1>3, <1>4, <1>5, <1>6, <1>7, <1>8, <1>9, <1>10, <1>11
        DEF Next, Fetcher, Committer, Finished

LEMMA Invariance == Spec => []Inv
<1>1. Init => Inv
  BY InitTyped, InitInv, IndexPassAssumption DEF Inv, InOrder, Loops, Init
<1>2. Inv /\ [Next]_vars => Inv'
  <2> SUFFICES ASSUME Inv, [Next]_vars PROVE Inv'
    OBVIOUS
  <2>1. TypeOK'
    BY NextTyped DEF Inv, PassInv
  <2>2. PassInv'
    BY NextInv DEF Inv
  <2> QED BY <2>1, <2>2, NextInOrder DEF Inv
<1> QED BY <1>1, <1>2, PTL DEF Spec

-----------------------------------------------------------------------------
(* Theorems *)

\* The state of a pass, its goroutines and its checkpoint have their types; in
\* particular no batch is tried more often than storeRetryAttempts says
\* (storeBatchWithRetry), and orderedCh never holds more than its buffer.
THEOREM TypeCorrect == Spec => []TypeOK
BY Invariance, PTL DEF Inv

\* Whatever the interleaving of fetcher, workers and committer, and however the
\* runs before ended, the checkpoint is never ahead of a post that is not stored.
THEOREM SkipsNothing == Spec => []ResumeSkipsNothing
<1>1. Inv => ResumeSkipsNothing
  BY DEF Inv, PassInv, MarksCovered, ResumeSkipsNothing
<1> QED BY <1>1, Invariance, PTL

\* A committer that leaves its loop without an error has counted all the fetcher
\* dispatched.
THEOREM CountsDispatched == Spec => []DispatchedCount
<1>1. Inv => DispatchedCount
  BY DEF Inv, PassInv, Outcomes, DispatchedCount
<1> QED BY <1>1, Invariance, PTL

\* No worker stores anything after its pass has returned.
THEOREM Quiet == Spec => QuietAfterReturn
<1>1. Inv /\ [Next]_vars => [stored' # stored => PassRuns]_vars
  <2> SUFFICES ASSUME Inv, [Next]_vars, stored' # stored PROVE PassRuns
    OBVIOUS
  <2>1. \E w \in Worker : StoreBatch(w) \/ StoreFails(w)
    BY DEF Next, vars, workers, StartPass, CancelJob, Crash, Forget, Fetcher, PollCancel, FetchBatch,
       FetchEnds, FetchFails, Dispatch, Queue, StopFetching, WorkerStep, StoreEnds, WorkerLeaves,
       Committer, TakeBatch, ChannelClosed, CommitBatch, BatchFailed, Heartbeat, HeartbeatCancels,
       SaveCursor, SaveRow, JoinWorkers, Outcome, FinishJob, AcknowledgeCancel, SaveCursorOnError,
       SaveRowOnError, Finished
  <2>2. ~WorkersGone
    BY <2>1 DEF StoreBatch, StoreFails, WorkersGone
  <2> QED BY <2>2 DEF Inv, PassInv, WorkersInPass
<1> QED BY <1>1, Invariance, PTL DEF Spec, QuietAfterReturn

\* Storing may happen as long as the job is not completed.
LEMMA StoreImplements ==
  ASSUME Inv, NEW w \in Worker, StoreBatch(w) \/ StoreFails(w)
  PROVE  Abs!Store
<1>1. inHand[w].posts \subseteq Post
  BY DEF Inv, TypeOK, WorkerTypes, Batch, NoBatch
<1>2. stored' \subseteq Post /\ stored \subseteq stored'
  BY <1>1 DEF StoreBatch, StoreFails, Inv, TypeOK, WorkerTypes
<1>3. committing # "completed"
  BY DEF StoreBatch, StoreFails, Inv, PassInv, WorkersInPass, WorkersGone, PassRuns
<1> QED BY <1>2, <1>3 DEF Abs!Store, StoreBatch, StoreFails, kv, committer, Post

LEMMA AdvanceImplements ==
  ASSUME Inv, CommitBatch
  PROVE  Abs!Advance
<1>1. oldest \in Batch /\ watermark <= oldest.cursor
  BY DEF CommitBatch, Inv, TypeOK, CommitterTypes, PassInv, LiveBatches, Live, InOrder, Loops
<1>2. \A p \in 1..oldest.cursor : p \in stored
  BY CommitStep DEF CommitBatch, Inv, PassInv, MarksCovered, workers
<1>3. oldest.cursor \in watermark..NumPosts
  BY <1>1, IndexPassAssumption DEF Batch, Post, Inv, TypeOK, CommitterTypes
<1> QED BY <1>2, <1>3 DEF Abs!Advance, CommitBatch, kv, workers

LEMMA CompleteImplements ==
  ASSUME Inv, FinishJob
  PROVE  Abs!Complete \/ UNCHANGED Abs!vars
<1>1. CASE committing' = "completed"
  <2>1. Post \subseteq stored
    BY DEF FinishJob, Inv, PassInv, Outcomes
  <2> QED BY <1>1, <2>1 DEF FinishJob, Forget, Written, Abs!Complete, Post
<1>2. CASE committing' # "completed"
  BY <1>2 DEF FinishJob, Forget, Abs!vars
<1> QED BY <1>1, <1>2

\* The pass, with its retries, its crashes and its lost writes, is a scan that
\* never moves its mark over, and never resumes behind, what is not handled, and
\* that completes only when everything is.
THEOREM ImplementsAbstract == Spec => ImplementsResumableScan
<1>1. Init => Abs!Init
  BY IndexPassAssumption DEF Init, Abs!Init
<1>2. Inv /\ [Next]_vars => [Abs!Next]_(Abs!vars)
  <2> SUFFICES ASSUME Inv, [Next]_vars PROVE Abs!Next \/ UNCHANGED Abs!vars
    OBVIOUS
  <2> USE DEF Abs!Next
  <2>1. CASE StartPass
    BY <2>1 DEF StartPass, Abs!Restart
  <2>2. ASSUME NEW w \in Worker, StoreEnds(w) PROVE Abs!Next
    BY <2>2, StoreImplements DEF StoreEnds
  <2>3. CASE CommitBatch
    BY <2>3, AdvanceImplements
  <2>4. CASE SaveCursor \/ SaveCursorOnError
    BY <2>4 DEF SaveCursor, SaveCursorOnError, Written, workers, Abs!Save, Abs!vars
  <2>5. CASE FinishJob
    BY <2>5, CompleteImplements
  <2>6. CASE CancelJob \/ Crash \/ AcknowledgeCancel \/ SaveRowOnError
    BY <2>6 DEF CancelJob, Crash, AcknowledgeCancel, SaveRowOnError, Forget, JobOver, workers,
       committer, Abs!vars
  <2>7. CASE PollCancel \/ FetchBatch \/ FetchEnds \/ FetchFails \/ Queue \/ StopFetching
    BY <2>7 DEF PollCancel, FetchBatch, FetchEnds, FetchFails, Queue, StopFetching, kv, workers,
       committer, Abs!vars
  <2>8. ASSUME NEW w \in Worker, Dispatch(w) \/ WorkerLeaves(w) PROVE UNCHANGED Abs!vars
    BY <2>8 DEF Dispatch, WorkerLeaves, kv, committer, Abs!vars
  <2>9. CASE TakeBatch \/ ChannelClosed \/ BatchFailed \/ Heartbeat \/ HeartbeatCancels \/ SaveRow
             \/ JoinWorkers
    BY <2>9 DEF TakeBatch, ChannelClosed, BatchFailed, Heartbeat, HeartbeatCancels, SaveRow,
       JoinWorkers, kv, workers, committer, Abs!vars
  <2>10. CASE UNCHANGED vars
    BY <2>10 DEF vars, kv, workers, committer, Abs!vars
  <2> QED BY <2>1, <2>2, <2>3, <2>4, <2>5, <2>6, <2>7, <2>8, <2>9, <2>10
          DEF Next, Fetcher, WorkerStep, Committer, Outcome, Finished
<1> QED BY <1>1, <1>2, Invariance, PTL DEF Spec, ImplementsResumableScan, Abs!Spec
=============================================================================
