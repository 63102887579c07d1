-------------------------- MODULE IndexerJobProofs --------------------------
(***************************************************************************)
(* Machine-checked theorems about IndexerJob, for any posts, jobs,         *)
(* activations and faults.                                                 *)
(***************************************************************************)
EXTENDS IndexerJob, TLAPS

-----------------------------------------------------------------------------
(* Type correctness                                                        *)

Place == {"off", "begin", "prepare", "drop", "clear", "load", "pass", "finalize", "build", "built",
          "repair", "release", "catchup", "error", "fail", "failing", "ack", "acking",
          "finish", "finishing", "after", "gone"}

Claim == [state : Marker \cup {NoMarker}, adopted : BOOLEAN, converted : BOOLEAN]

TypeRow ==
    /\ row \in Row
    /\ stale \in BOOLEAN
    /\ seen \subseteq Reader

TypeIndex ==
    /\ marker \in Marker \cup {NoMarker}
    /\ observed \in Marker \cup {NoMarker}
    /\ indexExists \in BOOLEAN
    /\ vectors \subseteq Post
    /\ cursor \in 0..NumPosts
    /\ strays \subseteq Job \cup {CursorKey}
    /\ lastIndexed \in BOOLEAN

TypeStart ==
    /\ admin \in {"idle", "commit", "cursor", "resolve", "spawn"}
    /\ request \in Operation \cup {"none"}
    /\ activation \in {"off", "construct", "orphan", "orphaned", "reconcile", "correct"}
    /\ activations \in 0..MaxActivations
    /\ stalls \subseteq Job

TypeWorkers ==
    /\ worker \in [Job -> Place]
    /\ mine \in [Job -> Row]
    /\ claim \in [Job -> Claim]
    /\ pos \in [Job -> 0..NumPosts]

LEMMA TypeParts == TypeOK <=> TypeRow /\ TypeIndex /\ TypeStart /\ TypeWorkers
BY DEF TypeOK, TypeRow, TypeIndex, TypeStart, TypeWorkers, Place, Claim

-----------------------------------------------------------------------------
(* The inductive invariant, whoever outlives a heartbeat                   *)

\* A start between its commit and its end owns the new row: nobody else reads
\* or writes it, and its job has no worker yet.
StartOwnsRow ==
    /\ isActiveJob(row) => row.job \in Job
    /\ admin = "commit" /\ Admin \in seen =>
         row.job < MaxJobs /\ (isActiveJob(row) => stale)
    /\ admin = "commit" => request # "none"
    /\ admin \in {"cursor", "resolve", "spawn"} =>
         /\ row.job \in Job /\ row.status = "running" /\ ~stale /\ seen = {}
         /\ worker[row.job] = "off"
         /\ row.op = "rebuild_vector_index" <=> request = "rebuild"
         /\ row.clear <=> request = "full"
    /\ admin = "cursor" => request \in {"full", "catchup"}
    /\ admin = "resolve" => request \in {"full", "resume", "rebuild"}
    /\ admin = "spawn" => request # "rebuild" /\ request # "full"
    /\ \A j \in Job : j > row.job => worker[j] = "off"

\* The claim with which a worker is where it is.
ClaimFits(j) ==
    LET c == claim[j]
        at == worker[j]
    IN  /\ c # NoClaim => c.state \in Marker /\ c.state.job = j
        /\ mine[j].op = "rebuild_vector_index" =>
             c # NoClaim /\ at \notin {"clear", "load", "pass"}
        /\ at = "clear" => mine[j].clear
        /\ at \in {"prepare", "drop", "finalize"} => c.state.phase = "dropped"
        /\ at \in {"build", "built"} => c.state.phase = "building"
        /\ at \in {"repair", "release"} => c.state.phase = "repairing"
        /\ at \in {"begin", "clear", "load", "pass"} /\ c # NoClaim =>
             c.state.phase \in {"dropped", "repairing"}
        /\ at = "begin" /\ mine[j].op = "rebuild_vector_index" => c.state.phase = "dropped"

WorkerFits(j) ==
    /\ worker[j] = "off" => claim[j] = NoClaim
    /\ worker[j] \notin {"off", "gone"} =>
         /\ mine[j].job = j /\ isActiveJob(mine[j])
         /\ ClaimFits(j)

WorkersFit == \A j \in Job : WorkerFits(j)

\* Whoever may still compare-and-set the row read it as it is.
ReadersAreCurrent ==
    /\ \A j \in Job : j \in seen =>
         row.job = j /\ worker[j] \in {"failing", "acking", "finishing"}
    /\ activation = "orphaned" /\ Activator \in seen => isJobStale

JobInv == StartOwnsRow /\ WorkersFit /\ ReadersAreCurrent

-----------------------------------------------------------------------------
(* ... and while no worker outlives its heartbeat                          *)

Live(j) == worker[j] \notin {"off", "gone", "after"}

OneLive == \A j \in Job : Live(j) => row.job = j /\ isActiveJob(row) /\ ~stale

\* The marker is no later run's than the row, and an activation corrects only
\* what no worker owns or will own.
MarkersAreOld ==
    /\ marker.job <= row.job /\ observed.job <= row.job
    /\ admin \in {"cursor", "resolve", "spawn"} =>
         marker.job < row.job /\ observed.job < row.job
    /\ activation = "correct" =>
         /\ observed.job \in Job /\ ~Live(observed.job)
         /\ marker = observed => indexExists

\* Until its release, a claim is what the marker says.
Owns(j) ==
    /\ worker[j] \in {"begin", "prepare", "drop", "clear", "load", "pass", "finalize", "build",
                      "built", "repair", "release"}
    /\ claim[j] # NoClaim

ClaimHolds(j) ==
    Owns(j) =>
        /\ marker = claim[j].state
        /\ worker[j] = "built" => indexExists
        /\ worker[j] = "begin" /\ (claim[j].converted \/ ~claim[j].adopted) => indexExists

ClaimsHold == \A j \in Job : ClaimHolds(j)

GateInv ==
    stalls = {} => /\ OneLive /\ MarkersAreOld /\ ClaimsHold
                   /\ indexExists \/ deferredIndexGated

-----------------------------------------------------------------------------
(* What is stored                                                          *)

Upto(n) == {p \in Post : p <= n}

\* What the worker of a job that embeds posts has stored by now.
HasStored(j) ==
    /\ worker[j] \in {"pass", "finalize", "build", "built", "repair", "release", "catchup", "error"} =>
         Upto(pos[j]) \subseteq vectors
    /\ worker[j] \in {"finalize", "build", "built", "repair", "release", "catchup", "finish",
                      "finishing"} =>
         vectors = Post

\* The cursor is deleted.
NoCursor == cursor = 0 /\ CursorKey \notin strays

\* A worker that clears the index finds no cursor, and one that began at no
\* cursor of a rebuild has stored what it passed.
Stored(j) ==
    /\ worker[j] \in {"begin", "prepare", "drop", "clear"} /\ mine[j].clear => NoCursor
    /\ j \notin strays => HasStored(j)

\* What is stored up to a cursor, by which each worker begins: unless a rebuild
\* left it, all posts up to it.
CoverInv ==
    stalls = {} =>
        /\ CursorKey \notin strays => Upto(cursor) \subseteq vectors
        /\ admin = "resolve" /\ request = "full" => NoCursor
        /\ \A j \in Job : mine[j].op # "rebuild_vector_index" => Stored(j)
        /\ row.status = "completed" /\ row.op # "rebuild_vector_index" /\ row.job \notin strays =>
             vectors = Post

-----------------------------------------------------------------------------
(* What the records and the helpers are                                    *)

\* The values that say there is nothing are outside the ones that say what
\* there is.
LEMMA NoValues ==
    /\ NoMarker \notin Marker /\ NoMarker.job = 0 /\ NoMarker.phase = "none"
    /\ NoClaim \in Claim /\ NoClaim.state = NoMarker
    /\ ~NoClaim.adopted /\ ~NoClaim.converted
<1>1. NoMarker.job = 0 /\ NoMarker.phase = "none"
  BY DEF NoMarker
<1>2. \A m \in Marker : m.phase \in {"dropped", "building", "repairing"}
  BY DEF Marker
<1>3. NoMarker \notin Marker
  BY <1>1, <1>2
<1>4. NoClaim.state = NoMarker /\ ~NoClaim.adopted /\ ~NoClaim.converted
  BY DEF NoClaim
<1>5. NoClaim \in Claim
  BY DEF NoClaim, Claim
<1> QED BY <1>1, <1>3, <1>4, <1>5

LEMMA MarkerFields ==
    ASSUME NEW m \in Marker
    PROVE  /\ m.job \in Job /\ m.job \in Nat /\ m.job # 0
           /\ m.phase \in {"dropped", "building", "repairing"}
BY IndexerJobAssumption DEF Marker, Job

LEMMA RowFields ==
    ASSUME NEW r \in Row
    PROVE  /\ r.job \in 0..MaxJobs /\ r.job \in Nat /\ r.status \in Status
           /\ r.op \in {"reindex", "catch_up", "rebuild_vector_index"}
           /\ r.resumable \in BOOLEAN /\ r.clear \in BOOLEAN
BY IndexerJobAssumption DEF Row

\* A change of the status changes nothing else.
LEMMA StatusFields ==
    ASSUME NEW r \in Row, NEW s \in Status
    PROVE  /\ [r EXCEPT !.status = s] \in Row
           /\ [r EXCEPT !.status = s].job = r.job /\ [r EXCEPT !.status = s].op = r.op
           /\ [r EXCEPT !.status = s].clear = r.clear
           /\ [r EXCEPT !.status = s].status = s
BY DEF Row

\* The row a start commits: the next job, running.
LEMMA NewRowFields ==
    ASSUME TypeOK, row.job < MaxJobs, NEW op
    PROVE  /\ NewRow(op) \in Row
           /\ NewRow(op).job = row.job + 1 /\ NewRow(op).job \in Job
           /\ NewRow(op).status = "running"
           /\ NewRow(op).op = "rebuild_vector_index" <=> op = "rebuild"
           /\ NewRow(op).op = "catch_up" => op \in {"catchup", "resume"}
           /\ NewRow(op).clear <=> op = "full"
<1>1. row.job \in 0..MaxJobs /\ row.job \in Nat
  BY RowFields DEF TypeOK
<1>2. NewRow(op).job = row.job + 1 /\ NewRow(op).status = "running"
      /\ NewRow(op).resumable = (op \in {"resume", "catchup"})
  BY DEF NewRow
<1>3. NewRow(op).clear = (op = "full")
  BY DEF NewRow
<1>4. /\ NewRow(op).op \in {"reindex", "catch_up", "rebuild_vector_index"}
      /\ NewRow(op).op = "rebuild_vector_index" <=> op = "rebuild"
      /\ NewRow(op).op = "catch_up" => op \in {"catchup", "resume"}
  BY DEF NewRow
<1>5. NewRow(op).job \in 0..MaxJobs /\ NewRow(op).job \in Job
  BY <1>1, <1>2, IndexerJobAssumption DEF Job
<1>6. NewRow(op) \in Row
  BY <1>1, <1>5, <1>4, IndexerJobAssumption DEF NewRow, Row, Status
<1> QED BY <1>2, <1>3, <1>4, <1>5, <1>6

\* The claim of a start: none, or one of its own job that is not building,
\* and dropped for a rebuild; an index it must vouch for is there.
LEMMA ClaimForFields ==
    ASSUME TypeOK, NEW j \in Job, NEW op
    PROVE  LET c == ClaimFor(op, j)
           IN  /\ c \in Claim
               /\ c # NoClaim => c.state \in Marker /\ c.state.job = j
               /\ c # NoClaim => c.state.phase \in {"dropped", "repairing"}
               /\ op = "rebuild" => c # NoClaim /\ c.state.phase = "dropped"
               /\ c.state.phase # "dropped" => ~deferredIndexGated
               /\ c.converted \/ (c # NoClaim /\ ~c.adopted) => ~deferredIndexGated
<1> DEFINE Of(c, phase) == /\ c \in Claim /\ c # NoClaim
                           /\ c.state \in Marker /\ c.state.job = j /\ c.state.phase = phase
<1> DEFINE adopt == [state |-> [job |-> j, phase |-> "dropped"], adopted |-> TRUE,
                     converted |-> FALSE]
           resume == [state |-> [job |-> j, phase |-> "repairing"], adopted |-> TRUE,
                      converted |-> FALSE]
           convert == [state |-> [job |-> j, phase |-> "dropped"], adopted |-> TRUE,
                       converted |-> TRUE]
           fresh == [adopt EXCEPT !.adopted = FALSE]
<1>1. \A phase \in {"dropped", "repairing"} : [job |-> j, phase |-> phase] \in Marker
  BY DEF Marker
<1>2. \A c \in Claim : c.state \in Marker => c # NoClaim
  BY NoValues
<1>3. Of(adopt, "dropped") /\ adopt.adopted /\ ~adopt.converted
  <2>1. adopt.state = [job |-> j, phase |-> "dropped"] /\ adopt \in Claim
        /\ adopt.adopted /\ ~adopt.converted
    BY <1>1 DEF Claim
  <2> QED BY <1>1, <1>2, <2>1
<1>4. Of(resume, "repairing") /\ ~resume.converted /\ resume.adopted
  <2>1. resume.state = [job |-> j, phase |-> "repairing"] /\ resume \in Claim
        /\ resume.adopted /\ ~resume.converted
    BY <1>1 DEF Claim
  <2> QED BY <1>1, <1>2, <2>1
<1>5. Of(convert, "dropped")
  <2>1. convert.state = [job |-> j, phase |-> "dropped"] /\ convert \in Claim
    BY <1>1 DEF Claim
  <2> QED BY <1>1, <1>2, <2>1
<1>6. Of(fresh, "dropped")
  <2>1. fresh.state = [job |-> j, phase |-> "dropped"] /\ fresh \in Claim
    BY <1>1 DEF Claim
  <2> QED BY <1>1, <1>2, <2>1
<1>7. \/ marker = NoMarker /\ ClaimFor(op, j) = fresh
      \/ marker = NoMarker /\ op # "rebuild" /\ ClaimFor(op, j) = NoClaim
      \/ ClaimFor(op, j) = adopt
      \/ marker.phase = "repairing" /\ op = "resume" /\ ClaimFor(op, j) = resume
      \/ marker.phase = "repairing" /\ op = "full" /\ ClaimFor(op, j) = NoClaim
      \/ marker.phase = "repairing" /\ ClaimFor(op, j) = convert
  <2>1. \/ marker = NoMarker
        \/ marker # NoMarker /\ marker.phase # "repairing"
        \/ marker # NoMarker /\ marker.phase = "repairing"
    OBVIOUS
  <2>2. CASE marker = NoMarker
    BY <2>2, NoValues DEF ClaimFor
  <2>3. CASE marker # NoMarker /\ marker.phase # "repairing"
    BY <2>3 DEF ClaimFor
  <2>4. CASE marker # NoMarker /\ marker.phase = "repairing"
    BY <2>4 DEF ClaimFor
  <2> QED BY <2>1, <2>2, <2>3, <2>4
<1>8. marker = NoMarker \/ marker.phase = "repairing" => ~deferredIndexGated
  BY NoValues DEF deferredIndexGated
<1>9. NoClaim \in Claim /\ ~NoClaim.converted
  BY NoValues
<1>10. "resume" # "rebuild" /\ "full" # "rebuild"
  OBVIOUS
<1> HIDE DEF adopt, resume, convert, fresh
<1> QED BY <1>3, <1>4, <1>5, <1>6, <1>7, <1>8, <1>9, <1>10

-----------------------------------------------------------------------------
(* Every step keeps the types                                              *)

\* What a worker step writes to the marker, and to its copy of it.
LEMMA MarkerMoves ==
    ASSUME NEW m \in Marker
    PROVE  /\ \A phase \in {"dropped", "building", "repairing"} :
                /\ [m EXCEPT !.phase = phase] \in Marker
                /\ [m EXCEPT !.phase = phase].job = m.job
                /\ [m EXCEPT !.phase = phase].phase = phase
BY DEF Marker

LEMMA ClaimMoves ==
    ASSUME NEW c \in Claim, NEW m \in Marker
    PROVE  /\ [c EXCEPT !.state = m] \in Claim /\ [c EXCEPT !.state = m].state = m
           /\ [c EXCEPT !.state = m] # NoClaim
<1>1. [c EXCEPT !.state = m] \in Claim /\ [c EXCEPT !.state = m].state = m
  BY DEF Claim
<1> QED BY <1>1, NoValues

LEMMA TypeInit == Init => TypeOK
<1>1. FirstRow \in Row
  BY IndexerJobAssumption DEF FirstRow, Row, Status
<1>2. \A n \in Nat : 0 \in 0..n
  OBVIOUS
<1>3. Init => TypeRow
  BY <1>1 DEF Init, TypeRow
<1>4. Init => TypeIndex
  BY <1>2, IndexerJobAssumption DEF Init, TypeIndex
<1>5. Init => TypeStart
  BY <1>2, IndexerJobAssumption DEF Init, TypeStart
<1>6. Init => TypeWorkers
  BY <1>1, <1>2, NoValues, IndexerJobAssumption DEF Init, TypeWorkers, Place
<1> QED BY <1>3, <1>4, <1>5, <1>6, TypeParts

LEMMA TypeStep ==
    ASSUME TypeOK, JobInv, [Next]_vars
    PROVE  TypeOK'
<1> USE IndexerJobAssumption
<1>r. TypeRow /\ row \in Row /\ row.job \in Nat /\ row.job \in 0..MaxJobs
  BY TypeParts, RowFields DEF TypeRow
<1>t. TypeRow' /\ TypeIndex' /\ TypeStart' /\ TypeWorkers' => TypeOK'
  BY DEF TypeOK, TypeRow, TypeIndex, TypeStart, TypeWorkers, Place, Claim
<1>i. TypeIndex
  BY TypeParts
<1>s. TypeStart
  BY TypeParts
<1>w. TypeWorkers
  BY TypeParts
<1>p. \A j \in Job : pos[j] \in 0..NumPosts /\ mine[j] \in Row /\ claim[j] \in Claim
  BY <1>w DEF TypeWorkers
<1>q. \A r \in Reader : seen \cup {r} \subseteq Reader
  BY <1>r DEF TypeRow
<1>k. Admin \in Reader /\ Activator \in Reader /\ Job \subseteq Reader
  BY DEF Admin, Activator, Reader, Job
<1>l. \A r \in Row, b \in BOOLEAN : WriteRow(r, b) => TypeRow'
  BY DEF WriteRow, TypeRow
<1>m. \A r \in Reader : ReadRow(r) => TypeRow'
  BY <1>q, <1>r DEF ReadRow, TypeRow
<1>n. \A who : \A r \in Row : CasRow(who, r) => TypeRow'
  <2> SUFFICES ASSUME NEW who, NEW r \in Row, CasRow(who, r) PROVE TypeRow'
    OBVIOUS
  <2>1. CASE WriteRow(r, FALSE)
    BY <2>1, <1>l
  <2>2. CASE UNCHANGED rowVars
    BY <2>2, <1>r DEF rowVars, TypeRow
  <2> QED BY <2>1, <2>2 DEF CasRow
<1>u. UNCHANGED rowVars => TypeRow'
  BY <1>r DEF rowVars, TypeRow
<1>v. \A j \in Job, there \in Place : Goto(j, there) => worker' \in [Job -> Place]
  BY <1>w DEF Goto, TypeWorkers
<1>a. \A r \in Row : \A s \in Status : [r EXCEPT !.status = s] \in Row
  BY StatusFields
<1>1. ASSUME NEW op \in Operation, beginExclusiveJob(op) PROVE TypeOK'
  <2>1. TypeRow'
    BY <1>1, <1>m, <1>k DEF beginExclusiveJob
  <2>2. TypeIndex' /\ TypeStart' /\ TypeWorkers'
    BY <1>1, <1>i, <1>s, <1>w
    DEF beginExclusiveJob, TypeIndex, TypeStart, TypeWorkers, indexVars, workerVars, activationVars
  <2> QED BY <2>1, <2>2, <1>t
<1>2. ASSUME commit PROVE TypeOK'
  <2>1. TypeRow'
    <3>1. CASE Admin \in seen
      <4>1. NewRow(request) \in Row
        BY <1>2, <3>1, NewRowFields DEF commit, JobInv, StartOwnsRow
      <4> QED BY <1>2, <3>1, <4>1, <1>l DEF commit
    <3>2. CASE Admin \notin seen
      BY <1>2, <3>2, <1>u DEF commit
    <3> QED BY <3>1, <3>2
  <2>2. admin' \in {"idle", "cursor", "spawn", "resolve"} /\ request' \in {request, "none"}
    BY <1>2 DEF commit
  <2>3. TypeIndex' /\ TypeStart' /\ TypeWorkers'
    BY <1>2, <2>2, <1>i, <1>s, <1>w
    DEF commit, TypeIndex, TypeStart, TypeWorkers, indexVars, workerVars, activationVars
  <2> QED BY <2>1, <2>3, <1>t
<1>3. ASSUME ResetCursor \/ CursorDeleteFails PROVE TypeOK'
  <2>1. TypeRow' /\ TypeWorkers'
    BY <1>3, <1>r, <1>w DEF ResetCursor, CursorDeleteFails, TypeRow, TypeWorkers, rowVars, workerVars
  <2>2. TypeIndex' /\ TypeStart'
    BY <1>3, <1>i, <1>s
    DEF ResetCursor, CursorDeleteFails, TypeIndex, TypeStart, indexVars, activationVars
  <2> QED BY <2>1, <2>2, <1>t
<1>4. ASSUME resolveDeferredRebuild PROVE TypeOK'
  <2>1. row.job \in Job
    BY <1>4 DEF resolveDeferredRebuild, JobInv, StartOwnsRow
  <2>2. ClaimFor(request, row.job) \in Claim
    BY <2>1, ClaimForFields
  <2>3. ClaimFor(request, row.job).state \in Marker \cup {NoMarker}
    BY <2>2 DEF Claim
  <2>4. /\ claim' = [claim EXCEPT ![row.job] = ClaimFor(request, row.job)]
        /\ marker' = ClaimFor(request, row.job).state
        /\ worker' = [worker EXCEPT ![row.job] = "begin"]
        /\ mine' = [mine EXCEPT ![row.job] = row]
        /\ pos' = pos
    BY <1>4 DEF resolveDeferredRebuild
  <2>5. TypeWorkers'
    BY <2>1, <2>2, <2>4, <1>r, <1>w DEF TypeWorkers, Place
  <2>6. TypeIndex' /\ TypeStart' /\ TypeRow'
    BY <1>4, <2>3, <2>4, <1>i, <1>s, <1>r
    DEF resolveDeferredRebuild, TypeIndex, TypeStart, TypeRow, rowVars, activationVars
  <2> QED BY <2>5, <2>6, <1>t
<1>5. ASSUME ResolveFails PROVE TypeOK'
  <2>1. TypeRow'
    BY <1>5, <1>l, <1>a, <1>r DEF ResolveFails, Status
  <2>2. TypeIndex' /\ TypeStart' /\ TypeWorkers'
    BY <1>5, <1>i, <1>s, <1>w
    DEF ResolveFails, TypeIndex, TypeStart, TypeWorkers, indexVars, workerVars, activationVars
  <2> QED BY <2>1, <2>2, <1>t
<1>6. ASSUME SpawnCatchUp PROVE TypeOK'
  <2>1. row.job \in Job
    BY <1>6 DEF SpawnCatchUp, JobInv, StartOwnsRow
  <2>2. TypeWorkers'
    BY <1>6, <2>1, <1>r, <1>w DEF SpawnCatchUp, TypeWorkers, Place
  <2>3. TypeIndex' /\ TypeStart' /\ TypeRow'
    BY <1>6, <1>i, <1>s, <1>r
    DEF SpawnCatchUp, TypeIndex, TypeStart, TypeRow, rowVars, indexVars, activationVars
  <2> QED BY <2>2, <2>3, <1>t
<1>7. ASSUME CancelJob PROVE TypeOK'
  <2>1. TypeRow'
    BY <1>7, <1>l, <1>a, <1>r DEF CancelJob, Status, TypeRow
  <2>2. TypeIndex' /\ TypeStart' /\ TypeWorkers'
    BY <1>7, <1>i, <1>s, <1>w DEF CancelJob, TypeIndex, TypeStart, TypeWorkers, indexVars,
                                  adminVars, workerVars, activationVars
  <2> QED BY <2>1, <2>2, <1>t
<1>8. ASSUME NEW j \in Job, Work(j) PROVE TypeOK'
  <2>b. TypeStart'
    BY <1>8, <1>s DEF Work, TypeStart, Begin, ConfirmClaim, PrepareBulkIndex, PrepareFails,
         abandonUndroppedClaim, Clear, ClearFails, loadCursor, StorePost, saveCursor, EndPass,
         StartBuild, BuildIndex, BuildFails, EndBuild, reindexEditedPosts, clearVectorIndexState,
         runCatchUpPass, StepFails, HearCancel, SaveErrorCursor, heartbeatTick, ReadToFail, FailJob,
         ReadToAcknowledge, acknowledgeCancel, ReadToFinish, finishJob, AfterCompletion,
         adminVars, activationVars
  <2>c. /\ pos[j] \in 0..NumPosts /\ mine[j] \in Row /\ claim[j] \in Claim
        /\ worker[j] \in Place /\ marker \in Marker \cup {NoMarker}
    BY <1>p, <1>w, <1>i DEF TypeWorkers, TypeIndex
  <2>d. MainOf(j) \in {"finalize", "clear", "load"}
        /\ AfterPass(j) \in {"catchup", "repair", "finalize"}
    BY DEF MainOf, AfterPass
  <2>1. CASE \/ Begin(j) \/ ConfirmClaim(j) \/ PrepareBulkIndex(j) \/ PrepareFails(j)
             \/ Clear(j) \/ ClearFails(j) \/ EndPass(j) \/ BuildIndex(j)
             \/ reindexEditedPosts(j) \/ HearCancel(j) \/ SaveErrorCursor(j) \/ AfterCompletion(j)
    <3>1. \E there \in Place : Goto(j, there)
      BY <2>1, <2>d DEF Begin, ConfirmClaim, PrepareBulkIndex, PrepareFails, Clear, ClearFails,
           EndPass, BuildIndex, reindexEditedPosts, HearCancel, SaveErrorCursor, AfterCompletion, Place
    <3>2. TypeWorkers'
      BY <2>1, <3>1, <1>v, <1>w
      DEF TypeWorkers, Begin, ConfirmClaim, PrepareBulkIndex, PrepareFails, Clear, ClearFails,
          EndPass, BuildIndex, reindexEditedPosts, HearCancel, SaveErrorCursor, AfterCompletion
    <3>3. TypeIndex'
      <4>1. UNCHANGED <<marker, observed>>
        BY <2>1
        DEF Begin, ConfirmClaim, PrepareBulkIndex, PrepareFails, Clear, ClearFails,
            EndPass, BuildIndex, reindexEditedPosts, HearCancel, SaveErrorCursor, AfterCompletion,
            indexVars, activationVars
      <4>2. indexExists' \in {indexExists, TRUE, FALSE} /\ vectors' \in {vectors, {}}
        BY <2>1
        DEF Begin, ConfirmClaim, PrepareBulkIndex, PrepareFails, Clear, ClearFails,
            EndPass, BuildIndex, reindexEditedPosts, HearCancel, SaveErrorCursor, AfterCompletion,
            indexVars, activationVars
      <4>3. cursor' \in {cursor, 0, pos[j]} /\ lastIndexed' \in {lastIndexed, TRUE}
        BY <2>1
        DEF Begin, ConfirmClaim, PrepareBulkIndex, PrepareFails, Clear, ClearFails,
            EndPass, BuildIndex, reindexEditedPosts, HearCancel, SaveErrorCursor, AfterCompletion,
            WriteCursor
      <4>4. indexExists' \in BOOLEAN
        BY <4>2, <1>i, Zenon DEF TypeIndex
      <4>5. lastIndexed' \in BOOLEAN
        BY <4>3, <1>i, Zenon DEF TypeIndex
      <4>6. cursor' \in 0..NumPosts
        BY <4>3, <2>c, <1>i DEF TypeIndex
      <4>7. vectors' \subseteq Post
        BY <4>2, <1>i DEF TypeIndex
      <4>8. strays' \in {strays, strays \cup {CursorKey}, strays \ {CursorKey}}
        BY <2>1
        DEF Begin, ConfirmClaim, PrepareBulkIndex, PrepareFails, Clear, ClearFails,
            EndPass, BuildIndex, reindexEditedPosts, HearCancel, SaveErrorCursor, AfterCompletion,
            WriteCursor
      <4>9. strays' \subseteq Job \cup {CursorKey}
        BY <4>8, <1>i DEF TypeIndex
      <4> QED BY <4>1, <4>4, <4>5, <4>6, <4>7, <4>9, <1>i DEF TypeIndex
    <3>4. TypeRow'
      BY <2>1, <1>u
      DEF Begin, ConfirmClaim, PrepareBulkIndex, PrepareFails, Clear, ClearFails,
          EndPass, BuildIndex, reindexEditedPosts, HearCancel, SaveErrorCursor, AfterCompletion
    <3> QED BY <2>b, <3>2, <3>3, <3>4, <1>t
  <2>2. CASE abandonUndroppedClaim(j) \/ BuildFails(j) \/ clearVectorIndexState(j)
    <3>1. \E there \in Place : Goto(j, there)
      BY <2>2 DEF abandonUndroppedClaim, BuildFails, clearVectorIndexState, Place
    <3>2. TypeWorkers'
      BY <2>2, <3>1, <1>v, <1>w
      DEF TypeWorkers, abandonUndroppedClaim, BuildFails, clearVectorIndexState
    <3>3. TypeRow'
      BY <2>2, <1>u DEF abandonUndroppedClaim, BuildFails, clearVectorIndexState
    <3>4. ASSUME marker' \in {marker, NoMarker} PROVE TypeIndex'
      BY <2>2, <3>4, <2>c, <1>i
      DEF TypeIndex, abandonUndroppedClaim, BuildFails, clearVectorIndexState, activationVars
    <3>5. ASSUME NEW phase \in {"dropped", "repairing"},
                 marker = claim[j].state, marker' = [marker EXCEPT !.phase = phase]
          PROVE  TypeIndex'
      <4>1. WorkerFits(j)
        BY DEF JobInv, WorkersFit
      <4>2. ClaimFits(j)
        BY <4>1, <2>2 DEF WorkerFits, abandonUndroppedClaim, BuildFails, clearVectorIndexState
      <4>3. claim[j] # NoClaim
        BY <2>2, <4>2, NoValues
        DEF ClaimFits, abandonUndroppedClaim, BuildFails, clearVectorIndexState
      <4>4. marker \in Marker
        BY <4>2, <4>3, <3>5 DEF ClaimFits
      <4>5. marker' \in Marker
        BY <3>5, <4>4, MarkerMoves
      <4> QED BY <2>2, <4>5, <1>i
        DEF TypeIndex, abandonUndroppedClaim, BuildFails, clearVectorIndexState, activationVars
    <3>6. TypeIndex'
      BY <2>2, <3>4, <3>5 DEF abandonUndroppedClaim, BuildFails, clearVectorIndexState
    <3> QED BY <2>b, <3>2, <3>3, <3>6, <1>t
  <2>3. CASE loadCursor(j) \/ StorePost(j) \/ saveCursor(j) \/ runCatchUpPass(j) \/ StepFails(j)
    <3>1. worker' = worker \/ \E there \in Place : Goto(j, there)
      BY <2>3 DEF loadCursor, StorePost, saveCursor, runCatchUpPass, StepFails, Place, workerVars
    <3>2. \E p \in 0..NumPosts : pos' = [pos EXCEPT ![j] = p]
      <4>1. CASE loadCursor(j) \/ runCatchUpPass(j)
        BY <4>1, <1>i DEF TypeIndex, loadCursor, runCatchUpPass
      <4>2. CASE StorePost(j)
        <5>1. PICK p \in Ahead(j) : pos' = [pos EXCEPT ![j] = p]
          BY <4>2 DEF StorePost
        <5>2. p \in 0..NumPosts
          BY DEF Ahead, Post
        <5> QED BY <5>1, <5>2
      <4>3. CASE saveCursor(j)
        BY <4>3, <2>c, <1>w DEF saveCursor, workerVars, TypeWorkers
      <4>4. CASE StepFails(j)
        <5>1. pos' = [pos EXCEPT ![j] = NumPosts] \/ pos' = [pos EXCEPT ![j] = pos[j]]
          BY <4>4 DEF StepFails
        <5>2. NumPosts \in 0..NumPosts
          OBVIOUS
        <5> QED BY <5>1, <5>2, <2>c
      <4> QED BY <2>3, <4>1, <4>2, <4>3, <4>4
    <3>3. TypeWorkers'
      BY <2>3, <3>1, <3>2, <1>v, <1>w
      DEF TypeWorkers, loadCursor, StorePost, saveCursor, runCatchUpPass, StepFails, workerVars
    <3>4. TypeIndex'
      <4>1. strays' \subseteq strays \cup {j, CursorKey} /\ cursor' \in {cursor, pos[j], NumPosts}
        BY <2>3 DEF loadCursor, StorePost, saveCursor, runCatchUpPass, StepFails, WriteCursor
      <4>2. strays' \subseteq Job \cup {CursorKey} /\ cursor' \in 0..NumPosts
        BY <4>1, <2>c, <1>i DEF TypeIndex
      <4>3. vectors' \subseteq Post /\ UNCHANGED <<marker, observed, indexExists, lastIndexed>>
        BY <2>3, <1>i
        DEF TypeIndex, loadCursor, StorePost, saveCursor, runCatchUpPass, StepFails, Ahead,
            indexVars, activationVars
      <4> QED BY <4>2, <4>3, <1>i DEF TypeIndex
    <3>5. TypeRow'
      BY <2>3, <1>u DEF loadCursor, StorePost, saveCursor, runCatchUpPass, StepFails
    <3> QED BY <2>b, <3>3, <3>4, <3>5, <1>t
  <2>4. CASE StartBuild(j) \/ EndBuild(j)
    <3>1. worker[j] \in {"finalize", "built"}
      BY <2>4 DEF StartBuild, EndBuild
    <3>2. claim[j] # NoClaim /\ claim[j].state \in Marker
      <4>1. ClaimFits(j)
        BY <3>1 DEF JobInv, WorkersFit, WorkerFits
      <4>2. claim[j] # NoClaim
        BY <3>1, <4>1, NoValues DEF ClaimFits
      <4> QED BY <4>1, <4>2 DEF ClaimFits
    <3>3. \E m \in Marker, there \in Place :
             /\ Goto(j, there)
             /\ \/ marker' = m /\ claim' = [claim EXCEPT ![j].state = m]
                \/ UNCHANGED <<marker, claim>>
      BY <2>4, <3>2, MarkerMoves DEF StartBuild, EndBuild, Place
    <3>4. PICK m \in Marker, there \in Place :
             /\ Goto(j, there)
             /\ \/ marker' = m /\ claim' = [claim EXCEPT ![j].state = m]
                \/ UNCHANGED <<marker, claim>>
      BY <3>3
    <3>5. claim' \in [Job -> Claim]
      <4>1. [claim[j] EXCEPT !.state = m] \in Claim
        BY <2>c, ClaimMoves
      <4> QED BY <3>4, <4>1, <1>w DEF TypeWorkers
    <3>6. TypeWorkers'
      BY <2>4, <3>4, <3>5, <1>v, <1>w DEF TypeWorkers, StartBuild, EndBuild
    <3>7. TypeIndex'
      BY <2>4, <3>4, <1>i DEF TypeIndex, StartBuild, EndBuild, activationVars
    <3>8. TypeRow'
      BY <2>4, <1>u DEF StartBuild, EndBuild
    <3> QED BY <2>b, <3>6, <3>7, <3>8, <1>t
  <2>5. CASE heartbeatTick(j)
    <3>1. TypeRow'
      BY <2>5, <1>l, <1>u, <2>c DEF heartbeatTick
    <3>2. [mine[j] EXCEPT !.status = "cancel_requested"] \in Row
      BY <2>c, <1>a DEF Status
    <3>3. TypeWorkers'
      BY <2>5, <3>2, <1>w DEF heartbeatTick, TypeWorkers
    <3>4. TypeIndex'
      BY <2>5, <1>i DEF heartbeatTick, TypeIndex, indexVars, activationVars
    <3> QED BY <2>b, <3>1, <3>3, <3>4, <1>t
  <2>6. CASE \/ ReadToFail(j) \/ FailJob(j) \/ ReadToAcknowledge(j) \/ acknowledgeCancel(j)
             \/ ReadToFinish(j) \/ finishJob(j)
    <3>1. \E there \in Place : Goto(j, there)
      BY <2>6 DEF ReadToFail, FailJob, ReadToAcknowledge, acknowledgeCancel, ReadToFinish, finishJob,
                  Place
    <3>2. TypeWorkers'
      BY <2>6, <3>1, <1>v, <1>w
      DEF TypeWorkers, ReadToFail, FailJob, ReadToAcknowledge, acknowledgeCancel, ReadToFinish,
          finishJob
    <3>3. TypeIndex'
      BY <2>6, <1>i
      DEF TypeIndex, ReadToFail, FailJob, ReadToAcknowledge, acknowledgeCancel, ReadToFinish,
          finishJob, indexVars, activationVars
    <3>4. CASE ReadToFail(j) \/ ReadToAcknowledge(j) \/ ReadToFinish(j)
      <4>1. ReadRow(j) \/ UNCHANGED rowVars
        BY <3>4 DEF ReadToFail, ReadToAcknowledge, ReadToFinish
      <4>2. TypeRow'
        BY <4>1, <1>m, <1>u, <1>k
      <4> QED BY <2>b, <3>2, <3>3, <4>2, <1>t
    <3>5. CASE FailJob(j) \/ acknowledgeCancel(j) \/ finishJob(j)
      <4>1. \A s \in Status : [mine[j] EXCEPT !.status = s] \in Row
                             /\ [row EXCEPT !.status = s] \in Row
        BY <2>c, <1>r, <1>a
      <4>2. Finished(j) \in Row
        BY <4>1 DEF Finished, Status
      <4>3. \E r \in Row : CasRow(j, r)
        BY <3>5, <4>1, <4>2 DEF FailJob, acknowledgeCancel, finishJob, Status
      <4>4. TypeRow'
        BY <4>3, <1>n
      <4> QED BY <2>b, <3>2, <3>3, <4>4, <1>t
    <3> QED BY <2>6, <3>4, <3>5
  <2> QED BY <1>8, <2>1, <2>2, <2>3, <2>4, <2>5, <2>6 DEF Work
<1>9. ASSUME Activate PROVE TypeOK'
  <2>1. TypeWorkers'
    BY <1>9, <1>w
    DEF TypeWorkers, Activate, ActivateGated, ConstructIndex, ReadOrphan, MarkOrphanedJobAsFailed,
        ReadMarker, ReconcileVectorIndexState, workerVars
  <2>2. TypeStart'
    <3>1. activations' \in 0..MaxActivations
      BY <1>9, <1>s
      DEF TypeStart, Activate, ActivateGated, ConstructIndex, ReadOrphan, MarkOrphanedJobAsFailed,
          ReadMarker, ReconcileVectorIndexState
    <3>2. activation' \in {"off", "construct", "orphan", "orphaned", "reconcile", "correct"}
      BY <1>9
      DEF Activate, ActivateGated, ConstructIndex, ReadOrphan, MarkOrphanedJobAsFailed,
          ReadMarker, ReconcileVectorIndexState
    <3>3. UNCHANGED <<admin, request, stalls>>
      BY <1>9
      DEF Activate, ActivateGated, ConstructIndex, ReadOrphan, MarkOrphanedJobAsFailed,
          ReadMarker, ReconcileVectorIndexState, adminVars
    <3> QED BY <3>1, <3>2, <3>3, <1>s DEF TypeStart
  <2>3. TypeIndex'
    <3>1. observed' \in Marker \cup {NoMarker}
      BY <1>9, <1>i
      DEF TypeIndex, Activate, ActivateGated, ConstructIndex, ReadOrphan, MarkOrphanedJobAsFailed,
          ReadMarker, ReconcileVectorIndexState
    <3>2. marker' \in {marker, NoMarker} \/ ( /\ marker.phase = "building"
                                             /\ marker' = [marker EXCEPT !.phase = "repairing"])
      BY <1>9
      DEF Activate, ActivateGated, ConstructIndex, ReadOrphan, MarkOrphanedJobAsFailed,
          ReadMarker, ReconcileVectorIndexState, indexVars
    <3>3. marker' \in Marker \cup {NoMarker}
      <4>1. marker.phase = "building" => marker \in Marker
        BY <1>i, NoValues DEF TypeIndex
      <4> QED BY <3>2, <4>1, MarkerMoves, <1>i DEF TypeIndex
    <3>4. UNCHANGED <<vectors, cursor, strays, lastIndexed>> /\ indexExists' \in BOOLEAN
      BY <1>9, <1>i
      DEF TypeIndex, Activate, ActivateGated, ConstructIndex, ReadOrphan, MarkOrphanedJobAsFailed,
          ReadMarker, ReconcileVectorIndexState, indexVars
    <3> QED BY <3>1, <3>3, <3>4, <1>i DEF TypeIndex
  <2>4. TypeRow'
    <3>1. [row EXCEPT !.status = "failed", !.resumable = row.op # "rebuild_vector_index"] \in Row
      BY <1>r DEF Row, Status
    <3> QED BY <1>9, <3>1, <1>k, <1>m, <1>n, <1>u
      DEF Activate, ActivateGated, ConstructIndex, ReadOrphan, MarkOrphanedJobAsFailed,
          ReadMarker, ReconcileVectorIndexState
  <2> QED BY <2>1, <2>2, <2>3, <2>4, <1>t
<1>10. ASSUME GrowStale PROVE TypeOK'
  <2>1. row.job \in Job
    BY <1>10 DEF GrowStale, JobInv, StartOwnsRow
  <2>2. stalls' \subseteq Job
    BY <1>10, <2>1, <1>s DEF GrowStale, TypeStart
  <2>3. TypeRow' /\ TypeIndex' /\ TypeStart' /\ TypeWorkers'
    BY <1>10, <2>2, <1>r, <1>i, <1>s, <1>w
    DEF GrowStale, TypeRow, TypeIndex, TypeStart, TypeWorkers, indexVars, adminVars, workerVars,
        activationVars
  <2> QED BY <2>3, <1>t
<1>11. ASSUME NEW j \in Job, WorkerDies(j) PROVE TypeOK'
  <2>1. TypeRow' /\ TypeIndex' /\ TypeStart'
    BY <1>11, <1>r, <1>i, <1>s
    DEF WorkerDies, TypeRow, TypeIndex, TypeStart, indexVars, adminVars, activationVars
  <2>2. TypeWorkers'
    BY <1>11, <1>w, <1>v DEF WorkerDies, TypeWorkers, Place
  <2> QED BY <2>1, <2>2, <1>t
<1>12. ASSUME StartDies PROVE TypeOK'
  <2>1. TypeRow' /\ TypeIndex' /\ TypeStart' /\ TypeWorkers'
    BY <1>12, <1>r, <1>i, <1>s, <1>w
    DEF StartDies, TypeRow, TypeIndex, TypeStart, TypeWorkers, indexVars, workerVars, activationVars
  <2> QED BY <2>1, <1>t
<1>13. ASSUME UNCHANGED vars PROVE TypeOK'
  BY <1>13 DEF TypeOK, vars, rowVars, indexVars, adminVars, workerVars, activationVars
<1> QED BY <1>1, <1>2, <1>3, <1>4, <1>5, <1>6, <1>7, <1>8, <1>9, <1>10, <1>11, <1>12, <1>13
        DEF Next, Start

-----------------------------------------------------------------------------
(* Every step keeps the invariant of the jobs                              *)

LEMMA ReaderFields == Admin \notin Job /\ Activator \notin Job /\ Admin # Activator
BY IndexerJobAssumption DEF Admin, Activator, Job

\* A worker takes a step: of what others see it changes the row, which it
\* writes only where it is the current one, or who has read it.
WorkerMoves(j, there) ==
    /\ worker[j] \notin {"off", "gone"}
    /\ Goto(j, there)
    /\ \A k \in Job : k # j => claim'[k] = claim[k] /\ mine'[k] = mine[k]
    /\ UNCHANGED <<adminVars, activationVars>>
    /\ \/ /\ UNCHANGED <<row, stale>>
          /\ seen' \subseteq seen \cup {j}
          /\ j \in seen' => row.job = j /\ there \in {"failing", "acking", "finishing"}
       \/ /\ row.job = j /\ row'.job = j
          /\ seen' = {}

LEMMA WorkerMove ==
    ASSUME TypeOK, JobInv, NEW j \in Job, NEW there \in Place \ {"off"},
           WorkerMoves(j, there),
           there # "gone" => mine'[j].job = j /\ isActiveJob(mine'[j]) /\ ClaimFits(j)'
    PROVE  JobInv'
<1>w. worker \in [Job -> Place]
  BY TypeParts DEF TypeWorkers
<1>m. /\ worker[j] \notin {"off", "gone"}
      /\ worker'[j] = there
      /\ \A k \in Job : k # j => worker'[k] = worker[k] /\ claim'[k] = claim[k] /\ mine'[k] = mine[k]
      /\ admin' = admin /\ request' = request /\ activation' = activation
  BY <1>w DEF WorkerMoves, Goto, adminVars, activationVars
<1>1. StartOwnsRow'
  <2>1. \A k \in Job : worker'[k] = "off" <=> worker[k] = "off"
    BY <1>m
  <2>2. \A k \in Job : k > row'.job => worker'[k] = "off"
    BY <2>1 DEF WorkerMoves, JobInv, StartOwnsRow
  <2>3. isActiveJob(row') => row'.job \in Job
    BY DEF WorkerMoves, JobInv, StartOwnsRow
  <2>4. ASSUME admin \in {"cursor", "resolve", "spawn"}
        PROVE  UNCHANGED <<row, stale>> /\ seen' = {}
    <3>1. row.job # j /\ seen = {}
      BY <2>4, <1>m DEF JobInv, StartOwnsRow
    <3> QED BY <3>1 DEF WorkerMoves
  <2>5. ASSUME admin = "commit", Admin \in seen'
        PROVE  row'.job < MaxJobs /\ (isActiveJob(row') => stale')
    <3>1. Admin \in seen /\ UNCHANGED <<row, stale>>
      BY <2>5, ReaderFields DEF WorkerMoves
    <3> QED BY <2>5, <3>1 DEF JobInv, StartOwnsRow
  <2> QED BY <2>1, <2>2, <2>3, <2>4, <2>5, <1>m DEF JobInv, StartOwnsRow
<1>2. WorkersFit'
  <2> SUFFICES ASSUME NEW k \in Job PROVE WorkerFits(k)'
    BY DEF WorkersFit
  <2>1. CASE k = j
    BY <2>1, <1>m DEF WorkerFits
  <2>2. CASE k # j
    <3>1. WorkerFits(k)
      BY DEF JobInv, WorkersFit
    <3>2. worker'[k] = worker[k] /\ claim'[k] = claim[k] /\ mine'[k] = mine[k]
      BY <2>2, <1>m
    <3> QED BY <3>1, <3>2 DEF WorkerFits, ClaimFits
  <2> QED BY <2>1, <2>2
<1>3. ReadersAreCurrent'
  <2>1. ASSUME NEW k \in Job, k \in seen'
        PROVE  row'.job = k /\ worker'[k] \in {"failing", "acking", "finishing"}
    <3>1. CASE k = j
      BY <2>1, <3>1, <1>m DEF WorkerMoves
    <3>2. CASE k # j
      BY <2>1, <3>2, <1>m DEF WorkerMoves, JobInv, ReadersAreCurrent
    <3> QED BY <3>1, <3>2
  <2>2. ASSUME activation' = "orphaned", Activator \in seen'
        PROVE  isJobStale'
    <3>1. Activator \in seen /\ UNCHANGED <<row, stale>>
      BY <2>2, ReaderFields DEF WorkerMoves
    <3> QED BY <2>2, <3>1, <1>m DEF JobInv, ReadersAreCurrent, isJobStale
  <2> QED BY <2>1, <2>2 DEF ReadersAreCurrent
<1> QED BY <1>1, <1>2, <1>3 DEF JobInv

LEMMA JobInit == Init => JobInv
<1> SUFFICES ASSUME Init PROVE JobInv
  OBVIOUS
<1>1. ~isActiveJob(row)
  BY DEF Init, FirstRow, isActiveJob
<1>2. StartOwnsRow
  BY <1>1 DEF Init, StartOwnsRow
<1>3. WorkersFit
  BY DEF Init, WorkersFit, WorkerFits
<1>4. ReadersAreCurrent
  BY DEF Init, ReadersAreCurrent
<1> QED BY <1>2, <1>3, <1>4 DEF JobInv

\* Where a worker needs nothing of its claim.
Unclaimed == {"catchup", "error", "fail", "failing", "ack", "acking", "finish", "finishing", "after"}

LEMMA WorkStep ==
    ASSUME TypeOK, JobInv, NEW j \in Job, Work(j)
    PROVE  JobInv'
<1>w. worker \in [Job -> Place] /\ claim \in [Job -> Claim] /\ mine \in [Job -> Row]
  BY TypeParts DEF TypeWorkers
<1>r. mine[j] \in Row /\ claim[j] \in Claim /\ row \in Row
  BY <1>w, TypeParts DEF TypeRow
<1>m. worker[j] \notin {"off", "gone"}
  BY DEF Work, Begin, ConfirmClaim, PrepareBulkIndex, PrepareFails, abandonUndroppedClaim,
     Clear, ClearFails, loadCursor, StorePost, saveCursor, EndPass, StartBuild, BuildIndex,
     BuildFails, EndBuild, reindexEditedPosts, clearVectorIndexState, runCatchUpPass, StepFails,
     HearCancel, SaveErrorCursor, heartbeatTick, ReadToFail, FailJob, ReadToAcknowledge,
     acknowledgeCancel, ReadToFinish, finishJob, AfterCompletion
<1>f. mine[j].job = j /\ isActiveJob(mine[j]) /\ ClaimFits(j)
  BY <1>m DEF JobInv, WorkersFit, WorkerFits
<1>s. j \in seen => row.job = j /\ worker[j] \in {"failing", "acking", "finishing"}
  BY DEF JobInv, ReadersAreCurrent
<1>g. \A there \in Place : Goto(j, there) => worker'[j] = there
  BY <1>w DEF Goto
<1>u. \A there \in Unclaimed \cup {"gone"} :
        Goto(j, there) /\ UNCHANGED <<mine, claim>> => ClaimFits(j)'
  BY <1>f, <1>g DEF ClaimFits, Unclaimed, Place
\* A step that does not touch the row.
<1>l. ASSUME NEW there \in Place \ {"off", "failing", "acking", "finishing"},
             Goto(j, there),
             worker[j] \notin {"failing", "acking", "finishing"},
             UNCHANGED <<rowVars, adminVars, activationVars, mine>>,
             \A k \in Job : k # j => claim'[k] = claim[k],
             there # "gone" => ClaimFits(j)'
      PROVE  JobInv'
  <2>1. WorkerMoves(j, there)
    BY <1>l, <1>m, <1>s DEF WorkerMoves, rowVars
  <2> QED BY <1>l, <2>1, <1>f, WorkerMove
<1>1. CASE Begin(j)
  <2>1. PICK there \in {"prepare", "finalize", "clear", "load"} :
          /\ Goto(j, there)
          /\ there = IF claim[j] = NoClaim \/ Repairs(j) THEN MainOf(j) ELSE "prepare"
    BY <1>1 DEF Begin, MainOf
  <2>2. ClaimFits(j)'
    <3>1. worker[j] = "begin" /\ UNCHANGED <<mine, claim>> /\ worker'[j] = there
      BY <1>1, <2>1, <1>g DEF Begin, Place
    <3>2. there = "prepare" => claim[j].state.phase = "dropped"
      BY <2>1, <3>1, <1>f DEF ClaimFits, Repairs, MainOf
    <3>3. there = "finalize" => FALSE
      BY <2>1, <3>1, <1>f DEF ClaimFits, Repairs, MainOf
    <3>4. there \in {"clear", "load"} => mine[j].op # "rebuild_vector_index"
      BY <2>1 DEF MainOf
    <3>5. there = "clear" => mine[j].clear
      BY <2>1 DEF MainOf
    <3> QED BY <3>1, <3>2, <3>3, <3>4, <3>5, <1>f DEF ClaimFits
  <2> QED BY <1>1, <2>1, <2>2, <1>l DEF Begin, Place
<1>2. CASE ConfirmClaim(j) \/ PrepareFails(j)
  <2>1. PICK there \in {"drop", "fail"} : Goto(j, there) /\ (there = "drop" => worker[j] = "prepare")
    BY <1>2 DEF ConfirmClaim, PrepareFails
  <2>2. UNCHANGED <<mine, claim, rowVars, adminVars, activationVars>>
        /\ worker[j] \in {"prepare", "drop"} /\ worker'[j] = there
    BY <1>2, <2>1, <1>g DEF ConfirmClaim, PrepareFails, Place
  <2>3. ClaimFits(j)'
    BY <2>1, <2>2, <1>f DEF ClaimFits
  <2> QED BY <2>1, <2>2, <2>3, <1>l DEF Place
<1>3. CASE PrepareBulkIndex(j)
  <2>1. PICK there \in {"finalize", "clear", "load"} : Goto(j, there) /\ there = MainOf(j)
    BY <1>3 DEF PrepareBulkIndex, MainOf
  <2>2. UNCHANGED <<mine, claim, rowVars, adminVars, activationVars>>
        /\ worker[j] = "drop" /\ worker'[j] = there
    BY <1>3, <2>1, <1>g DEF PrepareBulkIndex, Place
  <2>3. ClaimFits(j)'
    <3>1. there \in {"clear", "load"} => mine[j].op # "rebuild_vector_index"
      BY <2>1 DEF MainOf
    <3>2. there = "clear" => mine[j].clear
      BY <2>1 DEF MainOf
    <3> QED BY <2>1, <2>2, <3>1, <3>2, <1>f DEF ClaimFits
  <2> QED BY <2>1, <2>2, <2>3, <1>l DEF Place
<1>4. CASE \/ abandonUndroppedClaim(j) \/ ClearFails(j) \/ runCatchUpPass(j) \/ StepFails(j)
           \/ HearCancel(j) \/ SaveErrorCursor(j) \/ BuildFails(j) \/ clearVectorIndexState(j)
  <2>1. PICK there \in {"catchup", "error", "fail", "ack", "finish"} : Goto(j, there)
    BY <1>4 DEF abandonUndroppedClaim, ClearFails, runCatchUpPass, StepFails, HearCancel,
                SaveErrorCursor, BuildFails, clearVectorIndexState
  <2>2. UNCHANGED <<mine, claim, rowVars, adminVars, activationVars>>
        /\ worker[j] \notin {"failing", "acking", "finishing"}
    BY <1>4 DEF abandonUndroppedClaim, ClearFails, runCatchUpPass, StepFails, HearCancel,
                SaveErrorCursor, BuildFails, clearVectorIndexState
  <2>3. ClaimFits(j)'
    BY <2>1, <2>2, <1>u DEF Unclaimed
  <2> QED BY <2>1, <2>2, <2>3, <1>l DEF Place
<1>5. CASE Clear(j) \/ loadCursor(j)
  <2>1. PICK there \in {"load", "pass"} : Goto(j, there)
    BY <1>5 DEF Clear, loadCursor
  <2>2. UNCHANGED <<mine, claim, rowVars, adminVars, activationVars>>
        /\ worker[j] \in {"clear", "load"} /\ worker'[j] = there
    BY <1>5, <2>1, <1>g DEF Clear, loadCursor, Place
  <2>3. ClaimFits(j)'
    BY <2>1, <2>2, <1>f DEF ClaimFits
  <2> QED BY <2>1, <2>2, <2>3, <1>l DEF Place
<1>6. CASE StorePost(j) \/ saveCursor(j)
  <2>1. UNCHANGED <<rowVars, adminVars, activationVars, worker, mine, claim>>
        /\ worker[j] \in {"pass", "catchup"}
    BY <1>6 DEF StorePost, saveCursor, workerVars
  <2>2. Goto(j, worker[j])
    BY <2>1, <1>w DEF Goto
  <2>3. ClaimFits(j)'
    BY <2>1, <1>f DEF ClaimFits
  <2> QED BY <2>1, <2>2, <2>3, <1>l DEF Place
<1>7. CASE EndPass(j)
  <2>1. PICK there \in {"catchup", "repair", "finalize"} : Goto(j, there) /\ there = AfterPass(j)
    BY <1>7 DEF EndPass, AfterPass
  <2>2. UNCHANGED <<mine, claim, rowVars, adminVars, activationVars>>
        /\ worker[j] = "pass" /\ worker'[j] = there
    BY <1>7, <2>1, <1>g DEF EndPass, Place
  <2>3. ClaimFits(j)'
    <3>1. there = "repair" => claim[j].state.phase = "repairing"
      BY <2>1 DEF AfterPass, Repairs
    <3>2. there = "finalize" => claim[j].state.phase = "dropped"
      BY <2>1, <2>2, <1>f DEF AfterPass, Repairs, ClaimFits
    <3> QED BY <2>1, <2>2, <3>1, <3>2, <1>f DEF ClaimFits
  <2> QED BY <2>1, <2>2, <2>3, <1>l DEF Place
<1>8. CASE StartBuild(j) \/ EndBuild(j)
  <2>1. worker[j] \in {"finalize", "built"}
        /\ UNCHANGED <<mine, rowVars, adminVars, activationVars>>
    BY <1>8 DEF StartBuild, EndBuild
  <2>2. claim[j] # NoClaim /\ claim[j].state \in Marker
    BY <2>1, <1>f, NoValues DEF ClaimFits
  <2>3. CASE Goto(j, "error") /\ UNCHANGED claim
    <3>1. ClaimFits(j)'
      BY <2>1, <2>3, <1>u DEF Unclaimed
    <3> QED BY <2>1, <2>3, <3>1, <1>l DEF Place
  <2>4. ASSUME NEW phase \in {"building", "repairing"}, NEW there \in {"build", "ack", "repair"},
               Goto(j, there),
               claim' = [claim EXCEPT ![j].state = [claim[j].state EXCEPT !.phase = phase]],
               there = "build" => phase = "building",
               there = "repair" => phase = "repairing"
        PROVE  JobInv'
    <3>1. PICK m \in Marker : /\ m = [claim[j].state EXCEPT !.phase = phase]
                              /\ m.job = claim[j].state.job /\ m.phase = phase
      <4> DEFINE written == [claim[j].state EXCEPT !.phase = phase]
      <4>1. written \in Marker /\ written.job = claim[j].state.job /\ written.phase = phase
        <5>1. phase \in {"dropped", "building", "repairing"}
          OBVIOUS
        <5> QED BY ONLY <2>2, <5>1, MarkerMoves
      <4> HIDE DEF written
      <4>2. \E m \in Marker : m = written /\ m.job = claim[j].state.job /\ m.phase = phase
        BY <4>1
      <4> QED BY <4>2 DEF written
    <3>2. PICK c \in Claim : c = [claim[j] EXCEPT !.state = m] /\ c.state = m /\ c # NoClaim
      BY <1>r, ClaimMoves
    <3>3. claim' = [claim EXCEPT ![j] = c]
      BY <2>4, <3>1, <3>2
    <3>4. claim'[j] = c /\ \A k \in Job : k # j => claim'[k] = claim[k]
      BY <3>3, <1>w
    <3>5. worker'[j] = there /\ mine'[j] = mine[j]
      BY <2>4, <2>1, <1>g DEF Place
    <3>6. c.state.job = j
      BY <3>1, <3>2, <2>2, <1>f DEF ClaimFits
    <3>7. ClaimFits(j)'
      BY <2>4, <3>1, <3>2, <3>4, <3>5, <3>6 DEF ClaimFits
    <3> QED BY <2>1, <2>4, <3>4, <3>7, <1>l DEF Place
  <2>5. CASE StartBuild(j)
    BY <2>3, <2>4, <2>5 DEF StartBuild
  <2>6. CASE EndBuild(j)
    BY <2>3, <2>4, <2>6 DEF EndBuild
  <2> QED BY <1>8, <2>5, <2>6
<1>9. CASE BuildIndex(j) \/ reindexEditedPosts(j)
  <2>1. PICK there \in {"built", "release"} :
          Goto(j, there) /\ (there = "built" => worker[j] = "build")
          /\ (there = "release" => worker[j] = "repair")
    BY <1>9 DEF BuildIndex, reindexEditedPosts
  <2>2. UNCHANGED <<mine, claim, rowVars, adminVars, activationVars>>
        /\ worker[j] \in {"build", "repair"} /\ worker'[j] = there
    BY <1>9, <2>1, <1>g DEF BuildIndex, reindexEditedPosts, Place
  <2>3. ClaimFits(j)'
    BY <2>1, <2>2, <1>f DEF ClaimFits
  <2> QED BY <2>1, <2>2, <2>3, <1>l DEF Place
<1>10. CASE heartbeatTick(j)
  <2>1. /\ UNCHANGED <<adminVars, activationVars, worker, claim>> /\ row.job = j
        /\ \/ mine' = [mine EXCEPT ![j].status = "cancel_requested"] /\ UNCHANGED rowVars
           \/ WriteRow(mine[j], FALSE) /\ UNCHANGED mine
    BY <1>10 DEF heartbeatTick, Current
  <2>2. Goto(j, worker[j]) /\ worker[j] \in Place \ {"off", "gone"}
    BY <2>1, <1>w, <1>m DEF Goto
  <2>3. PICK m \in Row : /\ mine' = [mine EXCEPT ![j] = m]
                         /\ m.job = j /\ m.op = mine[j].op /\ m.clear = mine[j].clear
                         /\ isActiveJob(m)
    <3>1. CASE mine' = [mine EXCEPT ![j].status = "cancel_requested"]
      <4>1. PICK m \in Row : /\ m = [mine[j] EXCEPT !.status = "cancel_requested"]
                             /\ m.job = j /\ m.op = mine[j].op /\ m.clear = mine[j].clear
                             /\ m.status = "cancel_requested"
        <5> DEFINE heard == [mine[j] EXCEPT !.status = "cancel_requested"]
        <5>1. /\ heard \in Row /\ heard.job = j /\ heard.op = mine[j].op
              /\ heard.clear = mine[j].clear /\ heard.status = "cancel_requested"
          BY <1>r, <1>f, StatusFields DEF Status
        <5> HIDE DEF heard
        <5>2. \E m \in Row : /\ m = heard /\ m.job = j /\ m.op = mine[j].op
                             /\ m.clear = mine[j].clear /\ m.status = "cancel_requested"
          BY <5>1
        <5> QED BY <5>2 DEF heard
      <4>2. mine' = [mine EXCEPT ![j] = m]
        BY <3>1, <4>1
      <4> QED BY <4>1, <4>2 DEF isActiveJob
    <3>2. CASE UNCHANGED mine
      BY <3>2, <1>r, <1>f, <1>w
    <3> QED BY <2>1, <3>1, <3>2
  <2>4. mine'[j] = m /\ \A k \in Job : k # j => mine'[k] = mine[k]
    BY <2>3, <1>w
  <2>5. ClaimFits(j)'
    BY <2>1, <2>3, <2>4, <1>f DEF ClaimFits
  <2>6. worker[j] \notin {"failing", "acking", "finishing"}
    BY <1>10 DEF heartbeatTick
  <2>7. WorkerMoves(j, worker[j])
    <3>1. CASE UNCHANGED rowVars
      BY <3>1, <2>1, <2>2, <2>4, <2>6, <1>m, <1>s DEF WorkerMoves, rowVars
    <3>2. CASE WriteRow(mine[j], FALSE)
      BY <3>2, <2>1, <2>2, <2>4, <1>f, <1>m DEF WorkerMoves, WriteRow
    <3> QED BY <2>1, <3>1, <3>2
  <2> QED BY <2>2, <2>3, <2>4, <2>5, <2>7, WorkerMove
<1>11. CASE ReadToFail(j) \/ ReadToAcknowledge(j) \/ ReadToFinish(j)
  <2>1. UNCHANGED <<adminVars, activationVars, mine, claim>>
        /\ worker[j] \notin {"failing", "acking", "finishing"}
    BY <1>11 DEF ReadToFail, ReadToAcknowledge, ReadToFinish
  <2>2. CASE Goto(j, "gone") /\ UNCHANGED rowVars
    BY <2>1, <2>2, <1>l DEF Place
  <2>3. ASSUME NEW there \in {"failing", "acking", "finishing"},
               Goto(j, there), ReadRow(j), row.job = j
        PROVE  JobInv'
    <3>1. ClaimFits(j)'
      BY <2>1, <2>3, <1>u DEF Unclaimed
    <3>2. WorkerMoves(j, there)
      BY <2>1, <2>3, <1>m DEF WorkerMoves, ReadRow
    <3> QED BY <2>1, <2>3, <3>1, <3>2, <1>f, WorkerMove DEF Place
  <2> QED BY <1>11, <2>2, <2>3 DEF ReadToFail, ReadToAcknowledge, ReadToFinish, Current, CancelSeen
<1>12. CASE FailJob(j) \/ acknowledgeCancel(j) \/ finishJob(j)
  <2>1. UNCHANGED <<adminVars, activationVars, mine, claim>>
    BY <1>12 DEF FailJob, acknowledgeCancel, finishJob
  <2>2. PICK there \in {"gone", "finish", "after"} : Goto(j, there)
    BY <1>12 DEF FailJob, acknowledgeCancel, finishJob
  <2>3. PICK r \in Row : CasRow(j, r) /\ (j \in seen => r.job = j)
    <3>1. \A s \in Status : /\ [mine[j] EXCEPT !.status = s] \in Row
                            /\ [mine[j] EXCEPT !.status = s].job = j
                            /\ [row EXCEPT !.status = s] \in Row
                            /\ [row EXCEPT !.status = s].job = row.job
      BY <1>r, <1>f, StatusFields
    <3>2. Finished(j) \in Row /\ Finished(j).job = j
      BY <3>1 DEF Finished, Status
    <3>3. CASE FailJob(j)
      BY <3>1, <3>3 DEF FailJob, Status
    <3>4. CASE acknowledgeCancel(j)
      BY <3>1, <3>4, <1>s DEF acknowledgeCancel, Status
    <3>5. CASE finishJob(j)
      BY <3>2, <3>5 DEF finishJob
    <3> QED BY <1>12, <3>3, <3>4, <3>5
  <2>4. ClaimFits(j)'
    BY <2>1, <2>2, <1>u DEF Unclaimed
  <2>5. WorkerMoves(j, there)
    BY <2>1, <2>2, <2>3, <1>m, <1>s DEF WorkerMoves, CasRow, WriteRow, rowVars
  <2> QED BY <2>1, <2>2, <2>4, <2>5, <1>f, WorkerMove DEF Place
<1>13. CASE AfterCompletion(j)
  <2>1. UNCHANGED <<mine, claim, rowVars, adminVars, activationVars>> /\ Goto(j, "gone")
        /\ worker[j] \notin {"failing", "acking", "finishing"}
    BY <1>13 DEF AfterCompletion
  <2> QED BY <2>1, <1>l DEF Place
<1> QED BY <1>1, <1>2, <1>3, <1>4, <1>5, <1>6, <1>7, <1>8, <1>9, <1>10, <1>11, <1>12, <1>13 DEF Work

\* A start hands its row to the worker of its job.
LEMMA SpawnStep ==
    ASSUME TypeOK, JobInv, resolveDeferredRebuild \/ SpawnCatchUp
    PROVE  /\ row.job \in Job /\ row.status = "running" /\ ~stale
           /\ worker[row.job] = "off"
           /\ worker' = [worker EXCEPT ![row.job] = "begin"]
           /\ mine' = [mine EXCEPT ![row.job] = row]
           /\ \A k \in Job : k # row.job =>
                worker'[k] = worker[k] /\ mine'[k] = mine[k] /\ claim'[k] = claim[k]
           /\ worker'[row.job] = "begin" /\ mine'[row.job] = row
           /\ claim'[row.job] = IF resolveDeferredRebuild THEN ClaimFor(request, row.job)
                                ELSE NoClaim
           /\ JobInv'
<1>w. worker \in [Job -> Place] /\ claim \in [Job -> Claim] /\ mine \in [Job -> Row]
  BY TypeParts DEF TypeWorkers
<1>1. /\ row.job \in Job /\ row.status = "running" /\ ~stale /\ seen = {}
      /\ worker[row.job] = "off"
      /\ row.op = "rebuild_vector_index" <=> request = "rebuild"
  BY DEF resolveDeferredRebuild, SpawnCatchUp, JobInv, StartOwnsRow
<1>2. worker' = [worker EXCEPT ![row.job] = "begin"] /\ mine' = [mine EXCEPT ![row.job] = row]
  BY DEF resolveDeferredRebuild, SpawnCatchUp
<1>3. UNCHANGED <<rowVars, activationVars>> /\ admin' = "idle"
  BY DEF resolveDeferredRebuild, SpawnCatchUp
<1>4. \A k \in Job : k # row.job =>
        worker'[k] = worker[k] /\ mine'[k] = mine[k] /\ claim'[k] = claim[k]
  BY <1>w, <1>2 DEF resolveDeferredRebuild, SpawnCatchUp
<1>5. worker'[row.job] = "begin" /\ mine'[row.job] = row
  BY <1>w, <1>1, <1>2
<1>6. claim[row.job] = NoClaim
  BY <1>1 DEF JobInv, WorkersFit, WorkerFits
<1>7. claim'[row.job] = IF resolveDeferredRebuild THEN ClaimFor(request, row.job) ELSE NoClaim
  <2>1. CASE resolveDeferredRebuild
    BY <2>1, <1>w, <1>1 DEF resolveDeferredRebuild
  <2>2. CASE SpawnCatchUp /\ ~resolveDeferredRebuild
    BY <2>2, <1>6 DEF SpawnCatchUp
  <2> QED BY <2>1, <2>2
<1>8. ClaimFits(row.job)'
  <2>1. CASE resolveDeferredRebuild
    <3> DEFINE c == ClaimFor(request, row.job)
    <3>1. /\ c # NoClaim => c.state \in Marker /\ c.state.job = row.job
          /\ c # NoClaim => c.state.phase \in {"dropped", "repairing"}
          /\ request = "rebuild" => c # NoClaim /\ c.state.phase = "dropped"
      BY <1>1, ClaimForFields
    <3>2. claim'[row.job] = c
      BY <2>1, <1>7
    <3> HIDE DEF c
    <3> QED BY <3>1, <3>2, <1>1, <1>3, <1>5 DEF ClaimFits, rowVars
  <2>2. CASE ~resolveDeferredRebuild
    <3>1. row.op # "rebuild_vector_index"
      BY <2>2, <1>1 DEF SpawnCatchUp, JobInv, StartOwnsRow
    <3>2. claim'[row.job] = NoClaim
      BY <2>2, <1>7
    <3> QED BY <3>1, <3>2, <1>3, <1>5, NoValues DEF ClaimFits, rowVars
  <2> QED BY <2>1, <2>2
<1>9. WorkersFit'
  <2> SUFFICES ASSUME NEW k \in Job PROVE WorkerFits(k)'
    BY DEF WorkersFit
  <2>1. CASE k = row.job
    <3>1. row'.job = row.job
      BY <1>3 DEF rowVars
    <3> QED BY <2>1, <3>1, <1>1, <1>5, <1>8 DEF WorkerFits, ClaimFits, isActiveJob
  <2>2. CASE k # row.job
    <3>1. WorkerFits(k)
      BY DEF JobInv, WorkersFit
    <3> QED BY <2>2, <3>1, <1>4 DEF WorkerFits, ClaimFits
  <2> QED BY <2>1, <2>2
<1>10. StartOwnsRow'
  <2>1. \A k \in Job : k > row.job => worker'[k] = "off"
    BY <1>1, <1>4, IndexerJobAssumption DEF Job, JobInv, StartOwnsRow
  <2> QED BY <1>1, <1>3, <2>1 DEF JobInv, StartOwnsRow, rowVars
<1>11. ReadersAreCurrent'
  BY <1>1, <1>3 DEF ReadersAreCurrent, rowVars
<1> QED BY <1>1, <1>2, <1>4, <1>5, <1>7, <1>9, <1>10, <1>11 DEF JobInv

LEMMA JobStep ==
    ASSUME TypeOK, JobInv, [Next]_vars
    PROVE  JobInv'
<1>r. row \in Row /\ row.job \in Nat
  BY TypeParts, RowFields DEF TypeRow
<1>w. UNCHANGED <<worker, mine, claim>> => WorkersFit'
  BY DEF JobInv, WorkersFit, WorkerFits, ClaimFits
<1>o. StartOwnsRow /\ ReadersAreCurrent
  BY DEF JobInv
<1>1. ASSUME NEW op \in Operation, beginExclusiveJob(op) PROVE JobInv'
  <2>1. UNCHANGED <<row, stale, activation, worker, mine, claim>> /\ seen' = seen \cup {Admin}
    BY <1>1 DEF beginExclusiveJob, ReadRow, workerVars, activationVars
  <2>2. StartOwnsRow'
    BY <1>1, <2>1, <1>o, IndexerJobAssumption DEF beginExclusiveJob, StartOwnsRow
  <2>3. ReadersAreCurrent'
    BY <2>1, <1>o, ReaderFields DEF ReadersAreCurrent, isJobStale
  <2> QED BY <2>1, <2>2, <2>3, <1>w DEF JobInv
<1>2. ASSUME commit PROVE JobInv'
  <2>1. UNCHANGED <<activation, worker, mine, claim>>
    BY <1>2 DEF commit, workerVars, activationVars
  <2>2. CASE Admin \in seen
    <3>1. row.job < MaxJobs /\ admin = "commit"
      BY <1>2, <2>2, <1>o DEF commit, StartOwnsRow
    <3>2. PICK r \in Row : /\ row' = r /\ stale' = FALSE /\ seen' = {} /\ r = NewRow(request)
      BY <1>2, <2>2, <3>1, NewRowFields DEF commit, WriteRow
    <3>3. /\ r.job = row.job + 1 /\ r.job \in Job /\ r.status = "running"
          /\ r.op = "rebuild_vector_index" <=> request = "rebuild"
          /\ r.op = "catch_up" => request \in {"catchup", "resume"}
          /\ r.clear <=> request = "full"
      BY <3>1, <3>2, NewRowFields
    <3>4. /\ admin' = IF request \in {"full", "catchup"} THEN "cursor"
                      ELSE IF r.op = "catch_up" THEN "spawn" ELSE "resolve"
          /\ request' = request
      BY <1>2, <2>2, <3>2 DEF commit
    <3>5. \A k \in Job : k > row.job => worker[k] = "off"
      BY <1>o DEF StartOwnsRow
    <3>6. \A k \in Job : k \in Nat
      BY DEF Job
    <3>7. worker[r.job] = "off" /\ \A k \in Job : k > r.job => worker[k] = "off"
      BY <3>3, <3>5, <3>6, <1>r
    <3>8. request # "none" => request \in {"full", "resume", "catchup", "rebuild"}
      BY TypeParts, IndexerJobAssumption DEF TypeStart
    <3>9. request # "none"
      BY <3>1, <1>o DEF StartOwnsRow
    <3>10. StartOwnsRow'
      <4>1. isActiveJob(row') => row'.job \in Job
        BY <3>2, <3>3
      <4>2. admin' # "commit"
        BY <3>4
      <4>3. /\ row'.job \in Job /\ row'.status = "running" /\ ~stale' /\ seen' = {}
            /\ worker'[row'.job] = "off"
            /\ row'.op = "rebuild_vector_index" <=> request' = "rebuild"
            /\ row'.clear <=> request' = "full"
        BY <2>1, <3>2, <3>3, <3>4, <3>7
      <4>4. /\ admin' = "cursor" => request' \in {"full", "catchup"}
            /\ admin' = "resolve" => request' \in {"full", "resume", "rebuild"}
            /\ admin' = "spawn" => request' # "rebuild" /\ request' # "full"
        BY <3>3, <3>4, <3>8, <3>9
      <4>5. \A k \in Job : k > row'.job => worker'[k] = "off"
        BY <2>1, <3>2, <3>7
      <4> QED BY <4>1, <4>2, <4>3, <4>4, <4>5 DEF StartOwnsRow
    <3>11. ReadersAreCurrent'
      BY <3>2 DEF ReadersAreCurrent
    <3> QED BY <2>1, <3>10, <3>11, <1>w DEF JobInv
  <2>3. CASE Admin \notin seen
    <3>1. UNCHANGED <<row, stale, seen>> /\ admin' = "idle"
      BY <1>2, <2>3 DEF commit, rowVars
    <3>2. StartOwnsRow'
      BY <2>1, <3>1, <1>o DEF StartOwnsRow
    <3>3. ReadersAreCurrent'
      BY <2>1, <3>1, <1>o DEF ReadersAreCurrent, isJobStale
    <3> QED BY <2>1, <3>2, <3>3, <1>w DEF JobInv
  <2> QED BY <2>2, <2>3
<1>3. ASSUME ResetCursor \/ CursorDeleteFails PROVE JobInv'
  <2>1. UNCHANGED <<row, stale, seen, activation, worker, mine, claim>> /\ admin = "cursor"
    BY <1>3 DEF ResetCursor, CursorDeleteFails, rowVars, workerVars, activationVars
  <2>2. admin' = "idle" \/ ( /\ request' = request
                            /\ admin' = IF request = "full" THEN "resolve" ELSE "spawn")
    BY <1>3 DEF ResetCursor, CursorDeleteFails
  <2>3. StartOwnsRow'
    BY <2>1, <2>2, <1>o DEF StartOwnsRow
  <2>4. ReadersAreCurrent'
    BY <2>1, <1>o DEF ReadersAreCurrent, isJobStale
  <2> QED BY <2>1, <2>3, <2>4, <1>w DEF JobInv
<1>4. ASSUME resolveDeferredRebuild \/ SpawnCatchUp PROVE JobInv'
  BY <1>4, SpawnStep
<1>5. ASSUME ResolveFails \/ CancelJob PROVE JobInv'
  <2>1. PICK s \in {"failed", "cancel_requested"} : row' = [row EXCEPT !.status = s]
    BY <1>5 DEF ResolveFails, CancelJob, WriteRow
  <2>2. row'.job = row.job
    BY <2>1, <1>r, StatusFields DEF Status
  <2>3. UNCHANGED <<activation, worker, mine, claim>> /\ seen' = {} /\ admin' = "idle"
    BY <1>5 DEF ResolveFails, CancelJob, WriteRow, adminVars, workerVars, activationVars
  <2>4. isActiveJob(row') => row'.job \in Job
    BY <1>5, <2>2, <1>o DEF ResolveFails, CancelJob, StartOwnsRow, isActiveJob
  <2>5. StartOwnsRow'
    BY <2>2, <2>3, <2>4, <1>o DEF StartOwnsRow
  <2>6. ReadersAreCurrent'
    BY <2>3 DEF ReadersAreCurrent
  <2> QED BY <2>3, <2>5, <2>6, <1>w DEF JobInv
<1>6. ASSUME NEW j \in Job, Work(j) PROVE JobInv'
  BY <1>6, WorkStep
<1>7. ASSUME ActivateGated \/ ConstructIndex \/ ReadMarker \/ ReconcileVectorIndexState PROVE JobInv'
  <2>1. UNCHANGED <<row, stale, seen, admin, request, worker, mine, claim>>
        /\ activation' # "orphaned"
    BY <1>7 DEF ActivateGated, ConstructIndex, ReadMarker, ReconcileVectorIndexState,
                rowVars, adminVars, workerVars
  <2>2. StartOwnsRow'
    BY <2>1, <1>o DEF StartOwnsRow
  <2>3. ReadersAreCurrent'
    BY <2>1, <1>o DEF ReadersAreCurrent
  <2> QED BY <2>1, <2>2, <2>3, <1>w DEF JobInv
<1>8. ASSUME ReadOrphan PROVE JobInv'
  <2>1. UNCHANGED <<row, stale, admin, request, worker, mine, claim>>
    BY <1>8 DEF ReadOrphan, ReadRow, rowVars, adminVars, workerVars
  <2>2. \/ isJobStale /\ seen' = seen \cup {Activator}
        \/ seen' = seen /\ activation' = "reconcile"
    BY <1>8 DEF ReadOrphan, ReadRow, rowVars
  <2>3. isJobStale => admin \notin {"cursor", "resolve", "spawn"}
    BY <1>o DEF isJobStale, StartOwnsRow
  <2>4. Admin \in seen' => Admin \in seen
    BY <2>2, ReaderFields
  <2>5. StartOwnsRow'
    BY <2>1, <2>2, <2>3, <2>4, <1>o DEF StartOwnsRow
  <2>6. ReadersAreCurrent'
    BY <2>1, <2>2, <1>o, ReaderFields DEF ReadersAreCurrent, isJobStale
  <2> QED BY <2>1, <2>5, <2>6, <1>w DEF JobInv
<1>9. ASSUME MarkOrphanedJobAsFailed PROVE JobInv'
  <2>1. UNCHANGED <<admin, request, worker, mine, claim>> /\ activation' # "orphaned"
        /\ activation = "orphaned"
    BY <1>9 DEF MarkOrphanedJobAsFailed, adminVars, workerVars
  <2>2. CASE Activator \in seen
    <3>1. seen' = {} /\ row'.job = row.job /\ row'.status = "failed"
      BY <1>9, <2>2, <1>r DEF MarkOrphanedJobAsFailed, CasRow, WriteRow, Row
    <3>2. isJobStale
      BY <2>1, <2>2, <1>o DEF ReadersAreCurrent
    <3>3. StartOwnsRow'
      BY <2>1, <3>1, <3>2, <1>o DEF StartOwnsRow, isJobStale, isActiveJob
    <3>4. ReadersAreCurrent'
      BY <2>1, <3>1 DEF ReadersAreCurrent
    <3> QED BY <2>1, <3>3, <3>4, <1>w DEF JobInv
  <2>3. CASE Activator \notin seen
    <3>1. UNCHANGED <<row, stale, seen>>
      BY <1>9, <2>3 DEF MarkOrphanedJobAsFailed, CasRow, rowVars
    <3>2. StartOwnsRow'
      BY <2>1, <3>1, <1>o DEF StartOwnsRow
    <3>3. ReadersAreCurrent'
      BY <2>1, <3>1, <1>o DEF ReadersAreCurrent
    <3> QED BY <2>1, <3>2, <3>3, <1>w DEF JobInv
  <2> QED BY <2>2, <2>3
<1>10. ASSUME GrowStale PROVE JobInv'
  <2>1. UNCHANGED <<row, seen, admin, request, activation, worker, mine, claim>>
        /\ admin \notin {"cursor", "resolve", "spawn"} /\ stale' = TRUE
    BY <1>10 DEF GrowStale, adminVars, workerVars, activationVars
  <2>2. StartOwnsRow'
    BY <2>1, <1>o DEF StartOwnsRow
  <2>3. ReadersAreCurrent'
    BY <2>1, <1>o DEF ReadersAreCurrent, isJobStale
  <2> QED BY <2>1, <2>2, <2>3, <1>w DEF JobInv
<1>11. ASSUME NEW j \in Job, WorkerDies(j) PROVE JobInv'
  <2>1. WorkerMoves(j, "gone")
    BY <1>11 DEF WorkerDies, WorkerMoves
  <2> QED BY <2>1, WorkerMove DEF Place
<1>12. ASSUME StartDies PROVE JobInv'
  <2>1. UNCHANGED <<row, stale, activation, worker, mine, claim>> /\ admin' = "idle"
        /\ seen' \subseteq seen
    BY <1>12 DEF StartDies, workerVars, activationVars
  <2>2. StartOwnsRow'
    BY <2>1, <1>o DEF StartOwnsRow
  <2>3. ReadersAreCurrent'
    BY <2>1, <1>o DEF ReadersAreCurrent, isJobStale
  <2> QED BY <2>1, <2>2, <2>3, <1>w DEF JobInv
<1>13. ASSUME UNCHANGED vars PROVE JobInv'
  BY <1>13, <1>w, <1>o DEF vars, rowVars, adminVars, workerVars, activationVars, JobInv,
     StartOwnsRow, ReadersAreCurrent, isJobStale
<1> QED BY <1>1, <1>2, <1>3, <1>4, <1>5, <1>6, <1>7, <1>8, <1>9, <1>10, <1>11, <1>12, <1>13
        DEF Next, Start, Activate

\* Every value has its type, whoever outlives its heartbeat, and starts, workers
\* and activations own and read the row as StartOwnsRow, WorkersFit and
\* ReadersAreCurrent say.
THEOREM TypeCorrect == Spec => [](TypeOK /\ JobInv)
<1>1. Init => TypeOK /\ JobInv
  BY TypeInit, JobInit
<1>2. TypeOK /\ JobInv /\ [Next]_vars => (TypeOK /\ JobInv)'
  BY TypeStep, JobStep
<1> QED BY <1>1, <1>2, PTL DEF Spec

-----------------------------------------------------------------------------
(* The search is gated while the index is missing                          *)

LEMMA GateInit == Init => GateInv
<1> SUFFICES ASSUME Init PROVE GateInv
  OBVIOUS
<1>1. OneLive
  BY DEF Init, OneLive, Live
<1>2. MarkersAreOld
  BY NoValues DEF Init, MarkersAreOld, FirstRow
<1>3. ClaimsHold
  BY DEF Init, ClaimsHold, ClaimHolds, Owns
<1>4. indexExists
  BY DEF Init
<1> QED BY <1>1, <1>2, <1>3, <1>4 DEF GateInv

\* The step of a worker that is live keeps the invariant when it writes no
\* other job's marker, drops the index only where it owns the marker, and
\* keeps or ends its claim.
LEMMA GateMove ==
    ASSUME TypeOK, JobInv, GateInv, stalls = {}, NEW j \in Job, Live(j),
           \A k \in Job : k # j => worker'[k] = worker[k] /\ claim'[k] = claim[k],
           UNCHANGED <<adminVars, activationVars>>,
           row'.job = j,
           Live(j)' => isActiveJob(row') /\ ~stale',
           marker' = marker \/ marker' = NoMarker \/ (marker'.job = j /\ Live(j)'),
           indexExists' \/ indexExists' = indexExists \/ marker.job = j,
           ClaimHolds(j)',
           indexExists' \/ deferredIndexGated'
    PROVE  GateInv'
<1>o. OneLive /\ MarkersAreOld
  BY DEF GateInv
<1>1. row.job = j /\ \A k \in Job : k # j => ~Live(k)
  BY <1>o DEF OneLive
<1>u. \A k \in Job : k # j => ~Live(k)' /\ ~Owns(k)'
  BY <1>1 DEF Live, Owns
<1>2. OneLive'
  BY <1>u DEF OneLive
<1>3. admin' \notin {"cursor", "resolve", "spawn"}
  BY <1>1 DEF JobInv, StartOwnsRow, Live, adminVars
<1>4. marker'.job <= row'.job /\ observed'.job <= row'.job
  <2>1. marker.job <= row.job /\ observed.job <= row.job
    BY <1>o DEF MarkersAreOld
  <2>2. observed' = observed
    BY DEF activationVars
  <2>3. j \in Nat /\ 0 <= j /\ j <= j
    BY DEF Job
  <2> QED BY <1>1, <2>1, <2>2, <2>3, NoValues
<1>5. ASSUME activation' = "correct"
      PROVE  /\ observed'.job \in Job /\ ~Live(observed.job)'
             /\ marker' = observed' => indexExists'
  <2>1. /\ observed' = observed /\ observed.job \in Job /\ ~Live(observed.job)
        /\ marker = observed => indexExists
    BY <1>5, <1>o DEF MarkersAreOld, activationVars
  <2>2. observed.job # j /\ observed.job # 0
    BY <2>1 DEF Job
  <2>3. ~Live(observed.job)'
    BY <2>1, <2>2, <1>u
  <2>4. ASSUME marker' = observed PROVE indexExists'
    <3>1. marker' = marker
      BY <2>2, <2>4, NoValues
    <3>2. marker.job # j /\ indexExists
      BY <2>1, <2>2, <2>4, <3>1
    <3> QED BY <3>2
  <2> QED BY <2>1, <2>3, <2>4
<1>6. MarkersAreOld'
  BY <1>3, <1>4, <1>5 DEF MarkersAreOld
<1>7. ClaimsHold'
  BY <1>u DEF ClaimsHold, ClaimHolds
<1> QED BY <1>2, <1>6, <1>7 DEF GateInv

LEMMA WorkGateStep ==
    ASSUME TypeOK, JobInv, GateInv, stalls = {}, NEW j \in Job, Work(j)
    PROVE  GateInv'
<1>w. worker \in [Job -> Place] /\ claim \in [Job -> Claim] /\ mine \in [Job -> Row]
  BY TypeParts DEF TypeWorkers
<1>r. mine[j] \in Row /\ claim[j] \in Claim /\ row \in Row
      /\ marker \in Marker \cup {NoMarker}
  BY <1>w, TypeParts DEF TypeRow, TypeIndex
<1>m. worker[j] \notin {"off", "gone"}
  BY DEF Work, Begin, ConfirmClaim, PrepareBulkIndex, PrepareFails, abandonUndroppedClaim,
     Clear, ClearFails, loadCursor, StorePost, saveCursor, EndPass, StartBuild, BuildIndex,
     BuildFails, EndBuild, reindexEditedPosts, clearVectorIndexState, runCatchUpPass, StepFails,
     HearCancel, SaveErrorCursor, heartbeatTick, ReadToFail, FailJob, ReadToAcknowledge,
     acknowledgeCancel, ReadToFinish, finishJob, AfterCompletion
<1>f. mine[j].job = j /\ isActiveJob(mine[j]) /\ ClaimFits(j)
  BY <1>m DEF JobInv, WorkersFit, WorkerFits
<1>o. OneLive /\ MarkersAreOld /\ ClaimsHold /\ (indexExists \/ deferredIndexGated)
  BY DEF GateInv
<1>c. ClaimHolds(j)
  BY <1>o DEF ClaimsHold
<1>g. \A there \in Place : Goto(j, there) =>
        worker'[j] = there /\ \A k \in Job : k # j => worker'[k] = worker[k]
  BY <1>w DEF Goto
<1>l. worker[j] # "after" => Live(j) /\ row.job = j /\ isActiveJob(row) /\ ~stale
  BY <1>m, <1>o DEF Live, OneLive
\* A step that touches neither the row nor the marker.
<1>s. ASSUME NEW there \in Place, Goto(j, there), worker[j] # "after",
             UNCHANGED <<row, stale, adminVars, activationVars, marker, claim>>,
             indexExists' = indexExists,
             Owns(j)' => Owns(j) /\ there \notin {"begin", "built"}
      PROVE  GateInv'
  <2>1. worker'[j] = there /\ \A k \in Job : k # j => worker'[k] = worker[k]
    BY <1>s, <1>g
  <2>2. ClaimHolds(j)'
    BY <1>s, <2>1, <1>c DEF ClaimHolds
  <2>3. indexExists' \/ deferredIndexGated'
    BY <1>s, <1>o DEF deferredIndexGated
  <2> QED BY <1>s, <2>1, <2>2, <2>3, <1>l, GateMove
<1>1. CASE \/ Begin(j) \/ ConfirmClaim(j) \/ PrepareFails(j) \/ Clear(j) \/ ClearFails(j)
           \/ loadCursor(j) \/ EndPass(j) \/ reindexEditedPosts(j) \/ runCatchUpPass(j)
           \/ StepFails(j) \/ HearCancel(j) \/ SaveErrorCursor(j) \/ ReadToFail(j)
           \/ ReadToAcknowledge(j) \/ ReadToFinish(j)
  <2>1. PICK there \in Place \ {"begin", "built"} :
          /\ Goto(j, there)
          /\ there \in {"prepare", "drop", "clear", "load", "pass", "finalize", "build", "repair",
                        "release"} =>
               worker[j] \in {"begin", "prepare", "drop", "clear", "load", "pass", "repair"}
    BY <1>1 DEF Begin, ConfirmClaim, PrepareFails, Clear, ClearFails, loadCursor, EndPass,
         reindexEditedPosts, runCatchUpPass, StepFails, HearCancel, SaveErrorCursor, ReadToFail,
         ReadToAcknowledge, ReadToFinish, MainOf, AfterPass, Place
  <2>2. UNCHANGED <<row, stale, adminVars, activationVars, marker, claim, indexExists>>
        /\ worker[j] # "after"
    BY <1>1 DEF Begin, ConfirmClaim, PrepareFails, Clear, ClearFails, loadCursor, EndPass,
         reindexEditedPosts, runCatchUpPass, StepFails, HearCancel, SaveErrorCursor, ReadToFail,
         ReadToAcknowledge, ReadToFinish, ReadRow, rowVars, indexVars
  <2>3. Owns(j)' => Owns(j)
    BY <2>1, <2>2, <1>g DEF Owns
  <2> QED BY <2>1, <2>2, <2>3, <1>s
<1>2. CASE StorePost(j) \/ saveCursor(j)
  <2>1. UNCHANGED <<row, stale, adminVars, activationVars, marker, claim, indexExists, worker>>
        /\ worker[j] \in {"pass", "catchup"}
    BY <1>2 DEF StorePost, saveCursor, workerVars, rowVars, indexVars
  <2>2. Goto(j, worker[j])
    BY <2>1, <1>w DEF Goto
  <2> QED BY <2>1, <2>2, <1>s DEF Owns, Place
<1>3. CASE PrepareBulkIndex(j)
  <2>1. /\ UNCHANGED <<row, stale, adminVars, activationVars, marker, claim>>
        /\ worker[j] = "drop" /\ indexExists' = FALSE
    BY <1>3 DEF PrepareBulkIndex, rowVars
  <2>2. PICK there \in {"finalize", "clear", "load"} : Goto(j, there)
    BY <1>3 DEF PrepareBulkIndex, MainOf
  <2>3. worker'[j] = there /\ \A k \in Job : k # j => worker'[k] = worker[k]
    BY <2>2, <1>g DEF Place
  <2>4. claim[j].state.phase = "dropped" /\ claim[j] # NoClaim
    BY <2>1, <1>f, NoValues DEF ClaimFits
  <2>5. marker = claim[j].state /\ marker.job = j /\ marker.phase = "dropped"
    BY <2>1, <2>4, <1>c, <1>f DEF ClaimHolds, Owns, ClaimFits
  <2>6. deferredIndexGated'
    BY <2>1, <2>5 DEF deferredIndexGated
  <2>7. ClaimHolds(j)'
    BY <2>1, <2>3, <2>5 DEF ClaimHolds
  <2>8. Live(j)' => isActiveJob(row') /\ ~stale'
    BY <2>1, <1>l
  <2> QED BY <2>1, <2>3, <2>5, <2>6, <2>7, <2>8, <1>l, GateMove
<1>4. CASE abandonUndroppedClaim(j)
  <2>1. /\ UNCHANGED <<row, stale, adminVars, activationVars, claim, indexExists>>
        /\ worker[j] = "begin" /\ claim[j] # NoClaim /\ Goto(j, "fail")
    BY <1>4 DEF abandonUndroppedClaim, rowVars
  <2>2. worker'[j] = "fail" /\ \A k \in Job : k # j => worker'[k] = worker[k]
    BY <2>1, <1>g DEF Place
  <2>3. /\ marker = claim[j].state /\ marker.job = j /\ marker \in Marker
        /\ claim[j].converted \/ ~claim[j].adopted => indexExists
    BY <2>1, <1>c, <1>f DEF ClaimHolds, Owns, ClaimFits
  <2>4. \/ marker' = [marker EXCEPT !.phase = "repairing"] /\ indexExists
        \/ marker' = marker
        \/ marker' = NoMarker /\ indexExists
    BY <1>4, <2>3 DEF abandonUndroppedClaim
  <2>5. marker' = marker \/ marker' = NoMarker \/ (marker'.job = j /\ Live(j)')
    BY <2>2, <2>3, <2>4, MarkerMoves DEF Live
  <2>6. indexExists' \/ deferredIndexGated'
    BY <2>1, <2>4, <1>o DEF deferredIndexGated
  <2>7. ClaimHolds(j)'
    BY <2>2 DEF ClaimHolds, Owns
  <2> QED BY <2>1, <2>2, <2>5, <2>6, <2>7, <1>l, GateMove
<1>5. CASE StartBuild(j) \/ EndBuild(j)
  <2>1. /\ UNCHANGED <<row, stale, adminVars, activationVars, indexExists>>
        /\ worker[j] \in {"finalize", "built"}
    BY <1>5 DEF StartBuild, EndBuild, rowVars
  <2>2. claim[j] # NoClaim /\ claim[j].state \in Marker /\ claim[j].state.job = j
    BY <2>1, <1>f, NoValues DEF ClaimFits
  <2>3. marker = claim[j].state
    BY <2>1, <2>2, <1>c DEF ClaimHolds, Owns
  <2>4. \E phase \in {"building", "repairing"}, there \in {"build", "ack", "repair"} :
          /\ Goto(j, there)
          /\ marker' = [claim[j].state EXCEPT !.phase = phase]
          /\ claim' = [claim EXCEPT ![j].state = [claim[j].state EXCEPT !.phase = phase]]
          /\ phase = "repairing" => worker[j] = "built"
    BY <1>5, <2>3 DEF StartBuild, EndBuild
  <2>5. PICK phase \in {"building", "repairing"}, there \in {"build", "ack", "repair"} :
          /\ Goto(j, there)
          /\ marker' = [claim[j].state EXCEPT !.phase = phase]
          /\ claim' = [claim EXCEPT ![j].state = [claim[j].state EXCEPT !.phase = phase]]
          /\ phase = "repairing" => worker[j] = "built"
    BY <2>4
  <2>6. marker' \in Marker /\ marker'.job = j /\ marker'.phase = phase
    <3>1. phase \in {"dropped", "building", "repairing"}
      OBVIOUS
    <3>2. /\ [claim[j].state EXCEPT !.phase = phase] \in Marker
          /\ [claim[j].state EXCEPT !.phase = phase].job = claim[j].state.job
          /\ [claim[j].state EXCEPT !.phase = phase].phase = phase
      BY ONLY <2>2, <3>1, MarkerMoves
    <3> QED BY <2>2, <2>5, <3>2
  <2>7. claim' = [claim EXCEPT ![j] = [claim[j] EXCEPT !.state = marker']]
    BY <2>5
  <2>8. claim'[j].state = marker' /\ \A k \in Job : k # j => claim'[k] = claim[k]
    BY <2>6, <2>7, <1>r, <1>w, ClaimMoves
  <2>9. worker'[j] = there /\ \A k \in Job : k # j => worker'[k] = worker[k]
    BY <2>5, <1>g DEF Place
  <2>10. worker[j] = "built" => indexExists
    BY <2>1, <2>2, <1>c DEF ClaimHolds, Owns
  <2>11. indexExists' \/ deferredIndexGated'
    BY <2>1, <2>5, <2>6, <2>10 DEF deferredIndexGated
  <2>12. ClaimHolds(j)'
    BY <2>5, <2>8, <2>9 DEF ClaimHolds
  <2>13. Live(j)'
    BY <2>9 DEF Live
  <2> QED BY <2>1, <2>6, <2>8, <2>9, <2>11, <2>12, <2>13, <1>l, GateMove
<1>6. CASE BuildIndex(j)
  <2>1. /\ UNCHANGED <<row, stale, adminVars, activationVars, marker, claim>>
        /\ worker[j] = "build" /\ indexExists' = TRUE /\ Goto(j, "built")
    BY <1>6 DEF BuildIndex, rowVars
  <2>2. worker'[j] = "built" /\ \A k \in Job : k # j => worker'[k] = worker[k]
    BY <2>1, <1>g DEF Place
  <2>3. ClaimHolds(j)'
    BY <2>1, <2>2, <1>c DEF ClaimHolds, Owns
  <2> QED BY <2>1, <2>2, <2>3, <1>l, GateMove
<1>7. CASE BuildFails(j)
  <2>1. /\ UNCHANGED <<row, stale, adminVars, activationVars, claim, indexExists>>
        /\ worker[j] \in {"build", "built"} /\ Goto(j, "error")
    BY <1>7 DEF BuildFails, rowVars
  <2>2. worker'[j] = "error" /\ \A k \in Job : k # j => worker'[k] = worker[k]
    BY <2>1, <1>g DEF Place
  <2>3. claim[j] # NoClaim /\ claim[j].state \in Marker /\ claim[j].state.job = j
    BY <2>1, <1>f, NoValues DEF ClaimFits
  <2>4. marker = claim[j].state
    BY <2>1, <2>3, <1>c DEF ClaimHolds, Owns
  <2>5. marker' = [marker EXCEPT !.phase = "dropped"]
    BY <1>7, <2>4 DEF BuildFails
  <2>6. marker'.job = j /\ marker'.phase = "dropped"
    BY <2>3, <2>4, <2>5, MarkerMoves
  <2>7. deferredIndexGated'
    BY <2>6 DEF deferredIndexGated
  <2>8. ClaimHolds(j)' /\ Live(j)'
    BY <2>2 DEF ClaimHolds, Owns, Live
  <2> QED BY <2>1, <2>2, <2>6, <2>7, <2>8, <1>l, GateMove
<1>8. CASE clearVectorIndexState(j)
  <2>1. /\ UNCHANGED <<row, stale, adminVars, activationVars, claim, indexExists>>
        /\ worker[j] = "release"
    BY <1>8 DEF clearVectorIndexState, rowVars
  <2>2. PICK there \in {"catchup", "error"} : Goto(j, there)
    BY <1>8 DEF clearVectorIndexState
  <2>3. worker'[j] = there /\ \A k \in Job : k # j => worker'[k] = worker[k]
    BY <2>2, <1>g DEF Place
  <2>4. claim[j] # NoClaim /\ claim[j].state.phase = "repairing"
    BY <2>1, <1>f, NoValues DEF ClaimFits
  <2>5. marker = claim[j].state
    BY <2>1, <2>4, <1>c DEF ClaimHolds, Owns
  <2>6. indexExists /\ marker' = NoMarker
    BY <1>8, <2>4, <2>5, <1>o DEF clearVectorIndexState, deferredIndexGated
  <2>7. ClaimHolds(j)'
    BY <2>3 DEF ClaimHolds, Owns
  <2> QED BY <2>1, <2>3, <2>6, <2>7, <1>l, GateMove
<1>9. CASE heartbeatTick(j)
  <2>1. /\ UNCHANGED <<adminVars, activationVars, worker, claim, marker, indexExists>>
        /\ worker[j] # "after"
        /\ (UNCHANGED rowVars \/ WriteRow(mine[j], FALSE))
    BY <1>9 DEF heartbeatTick, indexVars
  <2>2. row'.job = j /\ isActiveJob(row') /\ ~stale'
    BY <2>1, <1>f, <1>l DEF rowVars, WriteRow
  <2>3. ClaimHolds(j)'
    BY <2>1, <1>c DEF ClaimHolds, Owns
  <2>4. indexExists' \/ deferredIndexGated'
    BY <2>1, <1>o DEF deferredIndexGated
  <2> QED BY <2>1, <2>2, <2>3, <2>4, <1>l, GateMove
<1>10. CASE FailJob(j) \/ acknowledgeCancel(j) \/ finishJob(j)
  <2>1. /\ UNCHANGED <<adminVars, activationVars, claim, marker, indexExists>>
        /\ worker[j] # "after"
    BY <1>10 DEF FailJob, acknowledgeCancel, finishJob, indexVars
  <2>2. PICK there \in {"gone", "finish", "after"} :
          Goto(j, there) /\ (there = "finish" => UNCHANGED rowVars)
    BY <1>10 DEF FailJob, acknowledgeCancel, finishJob, CasRow
  <2>3. worker'[j] = there /\ \A k \in Job : k # j => worker'[k] = worker[k]
    BY <2>2, <1>g DEF Place
  <2>4. row'.job = j
    <3>1. \A s \in Status : /\ [mine[j] EXCEPT !.status = s].job = j
                            /\ [row EXCEPT !.status = s].job = row.job
      BY <1>r, <1>f, StatusFields
    <3>2. UNCHANGED rowVars \/ \E s \in Status : \/ row' = [mine[j] EXCEPT !.status = s]
                                               \/ row' = [row EXCEPT !.status = s]
      BY <1>10 DEF FailJob, acknowledgeCancel, finishJob, CasRow, WriteRow, Finished, Status
    <3> QED BY <2>1, <3>1, <3>2, <1>l DEF rowVars
  <2>5. Live(j)' => isActiveJob(row') /\ ~stale'
    BY <2>1, <2>2, <2>3, <1>l DEF Live, rowVars
  <2>6. ClaimHolds(j)'
    BY <2>3 DEF ClaimHolds, Owns
  <2>7. indexExists' \/ deferredIndexGated'
    BY <2>1, <1>o DEF deferredIndexGated
  <2> QED BY <2>1, <2>3, <2>4, <2>5, <2>6, <2>7, <1>l, GateMove
<1>11. CASE AfterCompletion(j)
  <2>1. /\ UNCHANGED <<row, stale, adminVars, activationVars, marker, claim, indexExists>>
        /\ Goto(j, "gone") /\ worker[j] = "after"
    BY <1>11 DEF AfterCompletion, rowVars, indexVars
  <2>2. \A k \in Job : Live(k)' = Live(k) /\ Owns(k)' = Owns(k)
                       /\ (Owns(k) => worker'[k] = worker[k])
    BY <2>1, <1>g DEF Live, Owns, Place
  <2>3. OneLive'
    BY <2>1, <2>2, <1>o DEF OneLive
  <2>4. MarkersAreOld'
    BY <2>1, <2>2, <1>o DEF MarkersAreOld, adminVars, activationVars
  <2>5. ClaimsHold'
    BY <2>1, <2>2, <1>o DEF ClaimsHold, ClaimHolds
  <2>6. indexExists' \/ deferredIndexGated'
    BY <2>1, <1>o DEF deferredIndexGated
  <2> QED BY <2>3, <2>4, <2>5, <2>6 DEF GateInv
<1> QED BY <1>1, <1>2, <1>3, <1>4, <1>5, <1>6, <1>7, <1>8, <1>9, <1>10, <1>11 DEF Work

LEMMA GateStep ==
    ASSUME TypeOK, JobInv, GateInv, [Next]_vars
    PROVE  GateInv'
<1> SUFFICES ASSUME stalls' = {} PROVE GateInv'
  BY DEF GateInv
<1>r. row \in Row /\ row.job \in Nat /\ marker \in Marker \cup {NoMarker}
  BY TypeParts, RowFields DEF TypeRow, TypeIndex
<1>w. worker \in [Job -> Place] /\ claim \in [Job -> Claim]
  BY TypeParts DEF TypeWorkers
<1>j. StartOwnsRow
  BY DEF JobInv
<1>n. \A k \in Job : k \in Nat /\ k # 0
  BY DEF Job
\* The steps that leave workers and claims alone.
<1>u. ASSUME stalls = {}, UNCHANGED <<worker, claim, marker, indexExists>>
      PROVE  /\ \A k \in Job : Live(k)' = Live(k)
             /\ ClaimsHold'
             /\ indexExists' \/ deferredIndexGated'
  BY <1>u DEF GateInv, ClaimsHold, ClaimHolds, Owns, Live, deferredIndexGated
<1>o. stalls = {} => OneLive /\ MarkersAreOld /\ ClaimsHold /\ (indexExists \/ deferredIndexGated)
  BY DEF GateInv
<1>1. ASSUME NEW op \in Operation, beginExclusiveJob(op) PROVE GateInv'
  <2>1. UNCHANGED <<row, stale, worker, claim, marker, indexExists, activation, observed, stalls>>
        /\ admin' = "commit"
    BY <1>1 DEF beginExclusiveJob, ReadRow, indexVars, workerVars, activationVars
  <2>2. OneLive'
    BY <2>1, <1>u, <1>o DEF OneLive
  <2>3. MarkersAreOld'
    BY <2>1, <1>u, <1>o DEF MarkersAreOld
  <2> QED BY <2>1, <2>2, <2>3, <1>u DEF GateInv
<1>2. ASSUME commit PROVE GateInv'
  <2>1. UNCHANGED <<worker, claim, marker, indexExists, activation, observed, stalls>>
    BY <1>2 DEF commit, indexVars, workerVars, activationVars
  <2>2. CASE Admin \in seen
    <3>1. row.job < MaxJobs /\ (isActiveJob(row) => stale)
      BY <1>2, <2>2, <1>j DEF commit, StartOwnsRow
    <3>2. row' = NewRow(request)
      BY <1>2, <2>2 DEF commit, WriteRow
    <3>3. row'.job = row.job + 1
      BY <3>1, <3>2, NewRowFields
    <3>4. \A k \in Job : ~Live(k)
      BY <2>1, <3>1, <1>o DEF OneLive
    <3>5. OneLive'
      BY <2>1, <3>4, <1>u DEF OneLive
    <3>6. marker'.job < row'.job /\ observed'.job < row'.job
      <4>1. marker.job \in Nat /\ observed.job \in Nat
        BY NoValues, MarkerFields, TypeParts DEF TypeIndex
      <4> QED BY <2>1, <3>3, <4>1, <1>r, <1>o DEF MarkersAreOld
    <3>7. MarkersAreOld'
      <4>1. marker'.job <= row'.job /\ observed'.job <= row'.job
        <5>1. marker'.job \in Nat /\ observed'.job \in Nat /\ row'.job \in Nat
          BY <2>1, <3>3, <1>r, NoValues, MarkerFields, TypeParts DEF TypeIndex
        <5> QED BY <3>6, <5>1
      <4>2. activation' = "correct" => /\ observed'.job \in Job /\ ~Live(observed.job)'
                                       /\ marker' = observed' => indexExists'
        BY <2>1, <1>u, <1>o DEF MarkersAreOld
      <4> QED BY <2>1, <3>6, <4>1, <4>2 DEF MarkersAreOld, Live
    <3> QED BY <2>1, <3>5, <3>7, <1>u DEF GateInv
  <2>3. CASE Admin \notin seen
    <3>1. UNCHANGED <<row, stale>> /\ admin' = "idle"
      BY <1>2, <2>3 DEF commit, rowVars
    <3>2. OneLive'
      BY <2>1, <3>1, <1>u, <1>o DEF OneLive
    <3>3. MarkersAreOld'
      BY <2>1, <3>1, <1>u, <1>o DEF MarkersAreOld
    <3> QED BY <2>1, <3>2, <3>3, <1>u DEF GateInv
  <2> QED BY <2>2, <2>3
<1>3. ASSUME ResetCursor \/ CursorDeleteFails PROVE GateInv'
  <2>1. UNCHANGED <<row, stale, worker, claim, marker, indexExists, activation, observed, stalls>>
        /\ admin = "cursor"
    BY <1>3 DEF ResetCursor, CursorDeleteFails, rowVars, indexVars, workerVars, activationVars
  <2>2. OneLive'
    BY <2>1, <1>u, <1>o DEF OneLive
  <2>3. MarkersAreOld'
    BY <2>1, <1>u, <1>o DEF MarkersAreOld
  <2> QED BY <2>1, <2>2, <2>3, <1>u DEF GateInv
<1>4. ASSUME resolveDeferredRebuild \/ SpawnCatchUp PROVE GateInv'
  <2>1. /\ UNCHANGED <<row, stale, indexExists, activation, observed, stalls>>
        /\ admin \in {"resolve", "spawn"} /\ admin' = "idle"
    BY <1>4 DEF resolveDeferredRebuild, SpawnCatchUp, rowVars, indexVars, activationVars
  <2>2. /\ row.job \in Job /\ row.status = "running" /\ ~stale /\ worker[row.job] = "off"
        /\ \A k \in Job : k # row.job => worker'[k] = worker[k] /\ claim'[k] = claim[k]
        /\ worker'[row.job] = "begin"
        /\ claim'[row.job] = IF resolveDeferredRebuild THEN ClaimFor(request, row.job)
                             ELSE NoClaim
    BY <1>4, SpawnStep
  <2>3. \A k \in Job : k # row.job => ~Live(k) /\ ~Live(k)' /\ ~Owns(k)'
    BY <2>1, <2>2, <1>o DEF OneLive, Live, Owns
  <2>4. OneLive'
    BY <2>1, <2>2, <2>3 DEF OneLive, isActiveJob
  <2>5. marker.job < row.job /\ observed.job < row.job
    BY <2>1, <1>o DEF MarkersAreOld
  <2>6. activation = "correct" => observed.job \in Job /\ observed.job # row.job
    BY <2>1, <2>5, <1>o, <1>n DEF MarkersAreOld
  <2>7. CASE resolveDeferredRebuild
    <3> DEFINE c == ClaimFor(request, row.job)
    <3>1. /\ c # NoClaim => c.state \in Marker /\ c.state.job = row.job
          /\ c # NoClaim => c.state.phase \in {"dropped", "repairing"}
          /\ c.state.phase # "dropped" => ~deferredIndexGated
          /\ c.converted \/ (c # NoClaim /\ ~c.adopted) => ~deferredIndexGated
      BY <2>2, ClaimForFields
    <3>2. marker' = c.state /\ claim'[row.job] = c
      BY <2>2, <2>7 DEF resolveDeferredRebuild
    <3> HIDE DEF c
    <3>3. marker'.job = row.job \/ marker' = NoMarker
      BY <3>1, <3>2, NoValues
    <3>4. marker'.job <= row'.job /\ observed'.job <= row'.job
      <4>1. marker'.job \in {0, row.job}
        BY <3>3, NoValues
      <4>2. observed.job \in Nat
        BY NoValues, MarkerFields, TypeParts DEF TypeIndex
      <4> QED BY <2>1, <2>5, <4>1, <4>2, <1>r
    <3>5. ASSUME activation' = "correct"
          PROVE  /\ observed'.job \in Job /\ ~Live(observed.job)'
                 /\ marker' = observed' => indexExists'
      <4>1. observed.job \in Job /\ observed.job # row.job /\ observed.job # 0
        BY <3>5, <2>1, <2>6, <1>n
      <4>2. marker' # observed
        BY <3>3, <4>1, NoValues
      <4>3. ~Live(observed.job)'
        BY <2>1, <4>1, <2>3 DEF Live
      <4> QED BY <2>1, <4>1, <4>2, <4>3
    <3>6. MarkersAreOld'
      BY <2>1, <3>4, <3>5 DEF MarkersAreOld
    <3>7. ClaimHolds(row.job)'
      <4>1. (c.converted \/ (c # NoClaim /\ ~c.adopted)) => indexExists
        BY <2>1, <3>1, <1>o
      <4>2. row'.job = row.job
        BY <2>1
      <4> QED BY <2>1, <2>2, <3>2, <4>1, <4>2 DEF ClaimHolds, Owns
    <3>8. ClaimsHold'
      <4> SUFFICES ASSUME NEW k \in Job PROVE ClaimHolds(k)'
        BY DEF ClaimsHold
      <4>1. CASE k = row.job
        BY <4>1, <2>1, <3>7 DEF ClaimHolds, Owns
      <4>2. CASE k # row.job
        BY <4>2, <2>3 DEF ClaimHolds
      <4> QED BY <4>1, <4>2
    <3>9. indexExists' \/ deferredIndexGated'
      BY <2>1, <3>1, <3>2, <1>o DEF deferredIndexGated
    <3> QED BY <2>4, <3>6, <3>8, <3>9 DEF GateInv
  <2>8. CASE ~resolveDeferredRebuild
    <3>1. marker' = marker /\ claim'[row.job] = NoClaim
      BY <1>4, <2>2, <2>8 DEF SpawnCatchUp, indexVars
    <3>2. marker'.job <= row'.job /\ observed'.job <= row'.job
      BY <2>1, <3>1, <1>o DEF MarkersAreOld
    <3>3. ASSUME activation' = "correct"
          PROVE  /\ observed'.job \in Job /\ ~Live(observed.job)'
                 /\ marker' = observed' => indexExists'
      BY <3>3, <2>1, <2>3, <2>6, <3>1, <1>o DEF MarkersAreOld
    <3>4. MarkersAreOld'
      BY <2>1, <3>2, <3>3 DEF MarkersAreOld
    <3>5. ClaimsHold'
      <4> SUFFICES ASSUME NEW k \in Job PROVE ~Owns(k)'
        BY DEF ClaimsHold, ClaimHolds
      <4>1. CASE k = row.job
        BY <4>1, <3>1 DEF Owns
      <4>2. CASE k # row.job
        BY <4>2, <2>3
      <4> QED BY <4>1, <4>2
    <3>6. indexExists' \/ deferredIndexGated'
      BY <2>1, <3>1, <1>o DEF deferredIndexGated
    <3> QED BY <2>4, <3>4, <3>5, <3>6 DEF GateInv
  <2> QED BY <2>7, <2>8
<1>5. ASSUME ResolveFails \/ CancelJob PROVE GateInv'
  <2>1. UNCHANGED <<worker, claim, marker, indexExists, activation, observed, stalls>>
        /\ admin' = "idle"
    BY <1>5 DEF ResolveFails, CancelJob, adminVars, indexVars, workerVars, activationVars
  <2>2. PICK s \in {"failed", "cancel_requested"} : row' = [row EXCEPT !.status = s]
    BY <1>5 DEF ResolveFails, CancelJob, WriteRow
  <2>3. row'.job = row.job
    BY <2>2, <1>r, StatusFields DEF Status
  <2>4. OneLive'
    <3>1. CASE ResolveFails
      <4>1. \A k \in Job : ~Live(k)
        <5>1. row.job \in Job /\ worker[row.job] = "off"
          BY <3>1, <1>j DEF ResolveFails, StartOwnsRow
        <5> QED BY <5>1, <2>1, <1>o DEF OneLive, Live
      <4> QED BY <2>1, <4>1, <1>u DEF OneLive
    <3>2. CASE CancelJob
      <4>1. row'.status = "cancel_requested" /\ stale' = stale
        BY <3>2, <1>r, StatusFields DEF CancelJob, WriteRow, Status
      <4> QED BY <2>1, <2>3, <4>1, <1>u, <1>o DEF OneLive, isActiveJob
    <3> QED BY <1>5, <3>1, <3>2
  <2>5. MarkersAreOld'
    BY <2>1, <2>3, <1>u, <1>o DEF MarkersAreOld
  <2> QED BY <2>1, <2>4, <2>5, <1>u DEF GateInv
<1>6. ASSUME NEW j \in Job, Work(j) PROVE GateInv'
  <2>1. stalls = {}
    BY <1>6 DEF Work, Begin, ConfirmClaim, PrepareBulkIndex, PrepareFails, abandonUndroppedClaim,
       Clear, ClearFails, loadCursor, StorePost, saveCursor, EndPass, StartBuild, BuildIndex,
       BuildFails, EndBuild, reindexEditedPosts, clearVectorIndexState, runCatchUpPass, StepFails,
       HearCancel, SaveErrorCursor, heartbeatTick, ReadToFail, FailJob, ReadToAcknowledge,
       acknowledgeCancel, ReadToFinish, finishJob, AfterCompletion
  <2> QED BY <1>6, <2>1, WorkGateStep
<1>7. ASSUME ActivateGated \/ ReadOrphan PROVE GateInv'
  <2>1. UNCHANGED <<row, stale, admin, worker, claim, marker, indexExists, observed, stalls>>
        /\ activation' # "correct"
    BY <1>7 DEF ActivateGated, ReadOrphan, ReadRow, rowVars, adminVars, indexVars, workerVars
  <2>2. OneLive'
    BY <2>1, <1>u, <1>o DEF OneLive
  <2>3. MarkersAreOld'
    BY <2>1, <1>u, <1>o DEF MarkersAreOld
  <2> QED BY <2>1, <2>2, <2>3, <1>u DEF GateInv
<1>8. ASSUME ConstructIndex PROVE GateInv'
  <2>1. UNCHANGED <<row, stale, admin, worker, claim, marker, observed, stalls>>
        /\ activation' # "correct" /\ indexExists' = TRUE
    BY <1>8 DEF ConstructIndex, rowVars, adminVars, workerVars
  <2>2. OneLive'
    BY <2>1, <1>o DEF OneLive, Live
  <2>3. MarkersAreOld'
    BY <2>1, <1>o DEF MarkersAreOld
  <2>4. ClaimsHold'
    BY <2>1, <1>o DEF ClaimsHold, ClaimHolds, Owns
  <2> QED BY <2>1, <2>2, <2>3, <2>4 DEF GateInv
<1>9. ASSUME MarkOrphanedJobAsFailed PROVE GateInv'
  <2>1. UNCHANGED <<admin, worker, claim, marker, indexExists, observed, stalls>>
        /\ activation = "orphaned" /\ activation' # "correct"
    BY <1>9 DEF MarkOrphanedJobAsFailed, adminVars, indexVars, workerVars
  <2>2. row'.job = row.job /\ OneLive'
    <3>1. CASE Activator \in seen
      <4>1. isJobStale
        BY <2>1, <3>1 DEF JobInv, ReadersAreCurrent
      <4>2. \A k \in Job : ~Live(k)
        BY <2>1, <4>1, <1>o DEF OneLive, isJobStale
      <4>3. row'.job = row.job
        BY <1>9, <3>1, <1>r DEF MarkOrphanedJobAsFailed, CasRow, WriteRow, Row
      <4> QED BY <2>1, <4>2, <4>3, <1>u DEF OneLive
    <3>2. CASE Activator \notin seen
      <4>1. UNCHANGED <<row, stale>>
        BY <1>9, <3>2 DEF MarkOrphanedJobAsFailed, CasRow, rowVars
      <4> QED BY <2>1, <4>1, <1>u, <1>o DEF OneLive
    <3> QED BY <3>1, <3>2
  <2>3. MarkersAreOld'
    BY <2>1, <2>2, <1>u, <1>o DEF MarkersAreOld
  <2> QED BY <2>1, <2>2, <2>3, <1>u DEF GateInv
<1>10. ASSUME ReadMarker PROVE GateInv'
  <2>1. UNCHANGED <<row, stale, admin, worker, claim, marker, indexExists, stalls>>
    BY <1>10 DEF ReadMarker, rowVars, adminVars, indexVars, workerVars
  <2>2. \/ /\ activation' = "correct" /\ observed' = marker /\ marker # NoMarker /\ indexExists
           /\ ~(row.job = marker.job /\ isActiveJob(row) /\ ~stale)
        \/ activation' = "off" /\ observed' = NoMarker
    BY <1>10 DEF ReadMarker
  <2>3. OneLive'
    BY <2>1, <1>u, <1>o DEF OneLive
  <2>4. MarkersAreOld'
    <3>1. CASE activation' = "off" /\ observed' = NoMarker
      <4>1. \A n \in Nat : 0 <= n
        OBVIOUS
      <4>2. ASSUME admin' \in {"cursor", "resolve", "spawn"}
            PROVE  marker'.job < row'.job /\ observed'.job < row'.job
        <5>1. row.job \in Job
          BY <4>2, <2>1, <1>j DEF StartOwnsRow
        <5>2. observed'.job = 0 /\ 0 < row.job
          BY <5>1, <3>1, NoValues DEF Job
        <5> QED BY <4>2, <2>1, <5>2, <1>o DEF MarkersAreOld
      <4> QED BY <3>1, <2>1, <4>1, <4>2, <1>r, <1>o, NoValues DEF MarkersAreOld
    <3>2. CASE /\ activation' = "correct" /\ observed' = marker /\ marker # NoMarker /\ indexExists
               /\ ~(row.job = marker.job /\ isActiveJob(row) /\ ~stale)
      <4>1. marker.job \in Job
        BY <3>2, <1>r, MarkerFields
      <4>2. ~Live(marker.job)
        BY <2>1, <3>2, <4>1, <1>o DEF OneLive
      <4>3. ~Live(marker.job)'
        BY <2>1, <4>2 DEF Live
      <4> QED BY <3>2, <2>1, <4>1, <4>3, <1>o DEF MarkersAreOld, Live
    <3> QED BY <2>2, <3>1, <3>2
  <2> QED BY <2>1, <2>3, <2>4, <1>u DEF GateInv
<1>11. ASSUME ReconcileVectorIndexState PROVE GateInv'
  <2>1. UNCHANGED <<row, stale, admin, worker, claim, indexExists, stalls>>
        /\ activation = "correct" /\ activation' = "off" /\ observed' = NoMarker
    BY <1>11 DEF ReconcileVectorIndexState, rowVars, adminVars, workerVars
  <2>2. \/ marker' = marker
        \/ /\ marker = observed /\ marker # NoMarker
           /\ marker' = NoMarker \/ marker' = [marker EXCEPT !.phase = "repairing"]
    <3>1. marker = observed => marker # NoMarker
      BY <2>1, <1>o, <1>n, NoValues DEF MarkersAreOld
    <3> QED BY <1>11, <3>1 DEF ReconcileVectorIndexState
  <2>3. marker' = marker \/ marker' = NoMarker \/ marker'.job = marker.job
    BY <2>2, <1>r, MarkerMoves
  <2>4. OneLive'
    BY <2>1, <1>o DEF OneLive, Live
  <2>5. MarkersAreOld'
    <3>1. marker'.job <= row'.job
      BY <2>1, <2>3, <1>r, <1>o, NoValues DEF MarkersAreOld
    <3>2. observed'.job <= row'.job
      BY <2>1, <1>r, NoValues
    <3>3. ASSUME admin' \in {"cursor", "resolve", "spawn"}
          PROVE  marker'.job < row'.job /\ observed'.job < row'.job
      <4>1. row.job \in Job /\ marker.job < row.job
        BY <3>3, <2>1, <1>j, <1>o DEF StartOwnsRow, MarkersAreOld
      <4>2. 0 < row.job
        BY <4>1 DEF Job
      <4> QED BY <2>1, <2>3, <4>1, <4>2, NoValues
    <3> QED BY <2>1, <3>1, <3>2, <3>3 DEF MarkersAreOld
  <2>6. ClaimsHold'
    <3> SUFFICES ASSUME NEW k \in Job PROVE ClaimHolds(k)'
      BY DEF ClaimsHold
    <3>1. ClaimHolds(k)
      BY <2>1, <1>o DEF ClaimsHold
    <3>2. CASE marker' = marker
      BY <2>1, <3>1, <3>2 DEF ClaimHolds, Owns
    <3>3. CASE marker = observed /\ marker # NoMarker
      <4>1. ~Live(marker.job)
        BY <2>1, <3>3, <1>o DEF MarkersAreOld
      <4>2. Owns(k) => Live(k) /\ marker.job = k
        <5>1. Owns(k) => worker[k] \notin {"off", "gone"} /\ claim[k] # NoClaim
          BY DEF Owns
        <5>2. Owns(k) => claim[k].state.job = k
          BY <5>1 DEF JobInv, WorkersFit, WorkerFits, ClaimFits
        <5> QED BY <3>1, <5>2 DEF ClaimHolds, Owns, Live
      <4>3. ~Owns(k)
        BY <4>1, <4>2
      <4> QED BY <2>1, <4>3 DEF ClaimHolds, Owns
    <3> QED BY <2>2, <3>2, <3>3
  <2>7. indexExists' \/ deferredIndexGated'
    BY <2>1, <2>2, <1>o DEF MarkersAreOld, deferredIndexGated
  <2> QED BY <2>4, <2>5, <2>6, <2>7 DEF GateInv
<1>12. ASSUME GrowStale PROVE GateInv'
  <2>1. UNCHANGED <<row, admin, worker, claim, marker, indexExists, activation, observed, stalls>>
        /\ worker[row.job] \in {"off", "gone"}
    BY <1>12 DEF GrowStale, adminVars, indexVars, workerVars, activationVars
  <2>2. \A k \in Job : ~Live(k)
    BY <2>1, <1>o DEF OneLive, Live
  <2>3. OneLive'
    BY <2>1, <2>2, <1>u DEF OneLive
  <2>4. MarkersAreOld'
    BY <2>1, <1>u, <1>o DEF MarkersAreOld
  <2> QED BY <2>1, <2>3, <2>4, <1>u DEF GateInv
<1>13. ASSUME NEW j \in Job, WorkerDies(j) PROVE GateInv'
  <2>1. /\ UNCHANGED <<row, stale, admin, claim, marker, indexExists, activation, observed, stalls>>
        /\ worker' = [worker EXCEPT ![j] = "gone"]
    BY <1>13 DEF WorkerDies, Goto, adminVars, indexVars, activationVars
  <2>2. \A k \in Job : worker'[k] \in {worker[k], "gone"}
    BY <2>1, <1>w
  <2>3. \A k \in Job : (Live(k)' => Live(k)) /\ (Owns(k)' => Owns(k) /\ worker'[k] = worker[k])
    BY <2>1, <2>2 DEF Live, Owns
  <2>4. OneLive'
    BY <2>1, <2>3, <1>o DEF OneLive
  <2>5. MarkersAreOld'
    BY <2>1, <2>3, <1>o DEF MarkersAreOld
  <2>6. ClaimsHold'
    BY <2>1, <2>3, <1>o DEF ClaimsHold, ClaimHolds
  <2>7. indexExists' \/ deferredIndexGated'
    BY <2>1, <1>o DEF deferredIndexGated
  <2> QED BY <2>4, <2>5, <2>6, <2>7 DEF GateInv
<1>14. ASSUME StartDies PROVE GateInv'
  <2>1. UNCHANGED <<row, stale, worker, claim, marker, indexExists, activation, observed, stalls>>
        /\ admin' = "idle"
    BY <1>14 DEF StartDies, indexVars, workerVars, activationVars
  <2>2. OneLive'
    BY <2>1, <1>u, <1>o DEF OneLive
  <2>3. MarkersAreOld'
    BY <2>1, <1>u, <1>o DEF MarkersAreOld
  <2> QED BY <2>1, <2>2, <2>3, <1>u DEF GateInv
<1>15. ASSUME UNCHANGED vars PROVE GateInv'
  <2>1. UNCHANGED <<row, stale, admin, worker, claim, marker, indexExists, activation, observed, stalls>>
    BY <1>15 DEF vars, rowVars, adminVars, indexVars, workerVars, activationVars
  <2>2. OneLive'
    BY <2>1, <1>u, <1>o DEF OneLive
  <2>3. MarkersAreOld'
    BY <2>1, <1>u, <1>o DEF MarkersAreOld
  <2> QED BY <2>1, <2>2, <2>3, <1>u DEF GateInv
<1> QED BY <1>1, <1>2, <1>3, <1>4, <1>5, <1>6, <1>7, <1>8, <1>9, <1>10, <1>11, <1>12, <1>13, <1>14,
           <1>15
        DEF Next, Start, Activate

\* While no worker outlives its heartbeat, a missing index is covered by a
\* marker that gates the search (SearchGate).
THEOREM SearchIsGated == Spec => []SearchGate
<1>1. Init => TypeOK /\ JobInv /\ GateInv
  BY TypeInit, JobInit, GateInit
<1>2. TypeOK /\ JobInv /\ GateInv /\ [Next]_vars => (TypeOK /\ JobInv /\ GateInv)'
  BY TypeStep, JobStep, GateStep
<1>3. GateInv => SearchGate
  BY DEF GateInv, SearchGate
<1> QED BY <1>1, <1>2, <1>3, PTL DEF Spec

-----------------------------------------------------------------------------
(* The row never goes back                                                 *)

LEMMA RowForwardStep ==
    ASSUME TypeOK, JobInv, GateInv, [Next]_vars
    PROVE  \/ UNCHANGED row
           \/ /\ row'.job >= row.job
              /\ row'.job = row.job =>
                   /\ row.status = "cancel_requested" => row'.status \notin {"running", "completed"}
                   /\ ~isActiveJob(row) /\ stalls = {} => row' = row
<1> DEFINE Forward == /\ row'.job >= row.job
                      /\ row'.job = row.job =>
                           /\ row.status = "cancel_requested" => row'.status \notin {"running", "completed"}
                           /\ ~isActiveJob(row) /\ stalls = {} => row' = row
<1>r. row \in Row /\ row.job \in Nat /\ row.job >= row.job
  BY TypeParts, RowFields DEF TypeRow
<1>j. StartOwnsRow
  BY DEF JobInv
<1>s. \A s \in Status : /\ [row EXCEPT !.status = s].job = row.job
                        /\ [row EXCEPT !.status = s].status = s
  BY <1>r, StatusFields
<1>l. \A j \in Job : Live(j) /\ stalls = {} => isActiveJob(row)
  BY DEF GateInv, OneLive
<1>1. ASSUME commit PROVE UNCHANGED row \/ Forward
  <2>1. CASE Admin \in seen
    <3>1. row' = NewRow(request) /\ row.job < MaxJobs
      BY <1>1, <2>1, <1>j DEF commit, WriteRow, StartOwnsRow
    <3>2. row'.job = row.job + 1
      BY <3>1, NewRowFields
    <3> QED BY <3>2, <1>r
  <2>2. CASE Admin \notin seen
    BY <1>1, <2>2 DEF commit, rowVars
  <2> QED BY <2>1, <2>2
<1>2. ASSUME ResolveFails \/ CancelJob PROVE Forward
  <2>1. PICK s \in {"failed", "cancel_requested"} : row' = [row EXCEPT !.status = s]
    BY <1>2 DEF ResolveFails, CancelJob, WriteRow
  <2>2. row'.job = row.job /\ row'.status = s
    BY <2>1, <1>s DEF Status
  <2>3. isActiveJob(row)
    BY <1>2, <1>j DEF ResolveFails, CancelJob, StartOwnsRow, isActiveJob
  <2> QED BY <2>2, <2>3, <1>r
<1>3. ASSUME NEW j \in Job, heartbeatTick(j) PROVE UNCHANGED row \/ Forward
  <2>1. /\ row.job = j /\ Live(j) /\ mine[j].job = j
        /\ mine[j].status \in {"running", "cancel_requested"}
    BY <1>3 DEF heartbeatTick, Current, Live, JobInv, WorkersFit, WorkerFits, isActiveJob
  <2>2. UNCHANGED row \/ (row' = mine[j] /\ ~(row.status = "cancel_requested" /\ mine[j].status = "running"))
    BY <1>3 DEF heartbeatTick, WriteRow, rowVars
  <2> QED BY <2>1, <2>2, <1>l, <1>r
<1>4. ASSUME NEW j \in Job, FailJob(j) \/ acknowledgeCancel(j) \/ finishJob(j)
      PROVE  UNCHANGED row \/ Forward
  <2>1. Live(j) /\ mine[j] \in Row /\ mine[j].job = j
    BY <1>4, TypeParts
    DEF FailJob, acknowledgeCancel, finishJob, Live, JobInv, WorkersFit, WorkerFits, TypeWorkers
  <2>2. CASE j \notin seen
    BY <1>4, <2>2 DEF FailJob, acknowledgeCancel, finishJob, CasRow, rowVars
  <2>3. CASE j \in seen
    <3>1. row.job = j
      BY <2>3 DEF JobInv, ReadersAreCurrent
    <3>2. \A s \in Status : /\ [mine[j] EXCEPT !.status = s].job = row.job
                            /\ [mine[j] EXCEPT !.status = s].status = s
      BY <2>1, <3>1, StatusFields
    <3>3. \E s \in {"failed", "canceled", "completed"} :
            /\ row' = [mine[j] EXCEPT !.status = s] \/ row' = [row EXCEPT !.status = s]
            /\ row.status = "cancel_requested" => s # "completed"
      BY <1>4, <2>3 DEF FailJob, acknowledgeCancel, finishJob, CasRow, WriteRow, Finished
    <3>4. PICK s \in {"failed", "canceled", "completed"} :
            /\ row' = [mine[j] EXCEPT !.status = s] \/ row' = [row EXCEPT !.status = s]
            /\ row.status = "cancel_requested" => s # "completed"
      BY <3>3
    <3>5. row'.job = row.job /\ row'.status = s
      <4>1. s \in Status
        BY DEF Status
      <4>2. CASE row' = [mine[j] EXCEPT !.status = s]
        BY <3>2, <4>1, <4>2
      <4>3. CASE row' = [row EXCEPT !.status = s]
        BY <4>1, <4>3, <1>s
      <4> QED BY <3>4, <4>2, <4>3
    <3> QED BY <2>1, <3>4, <3>5, <1>l, <1>r
  <2> QED BY <2>2, <2>3
<1>5. ASSUME MarkOrphanedJobAsFailed PROVE UNCHANGED row \/ Forward
  <2>1. CASE Activator \in seen
    <3>1. isJobStale
      BY <1>5, <2>1 DEF MarkOrphanedJobAsFailed, JobInv, ReadersAreCurrent
    <3>2. row'.job = row.job /\ row'.status = "failed"
      BY <1>5, <2>1, <1>r DEF MarkOrphanedJobAsFailed, CasRow, WriteRow, Row
    <3> QED BY <3>1, <3>2, <1>r DEF isJobStale
  <2>2. CASE Activator \notin seen
    BY <1>5, <2>2 DEF MarkOrphanedJobAsFailed, CasRow, rowVars
  <2> QED BY <2>1, <2>2
<1>6. ASSUME NEW j \in Job, Work(j), ~heartbeatTick(j), ~FailJob(j), ~acknowledgeCancel(j), ~finishJob(j)
      PROVE  UNCHANGED row
  BY <1>6 DEF Work, Begin, ConfirmClaim, PrepareBulkIndex, PrepareFails, abandonUndroppedClaim,
     Clear, ClearFails, loadCursor, StorePost, saveCursor, EndPass, StartBuild, BuildIndex,
     BuildFails, EndBuild, reindexEditedPosts, clearVectorIndexState, runCatchUpPass, StepFails,
     HearCancel, SaveErrorCursor, ReadToFail, ReadToAcknowledge, ReadToFinish, AfterCompletion,
     rowVars, ReadRow
<1>7. ASSUME \/ \E op \in Operation : beginExclusiveJob(op)
             \/ ResetCursor \/ CursorDeleteFails \/ resolveDeferredRebuild \/ SpawnCatchUp
             \/ ActivateGated \/ ConstructIndex \/ ReadOrphan \/ ReadMarker
             \/ ReconcileVectorIndexState \/ GrowStale \/ StartDies \/ UNCHANGED vars
             \/ \E j \in Job : WorkerDies(j)
      PROVE  UNCHANGED row
  BY <1>7 DEF beginExclusiveJob, ResetCursor, CursorDeleteFails, resolveDeferredRebuild,
     SpawnCatchUp, ActivateGated, ConstructIndex, ReadOrphan, ReadMarker, ReconcileVectorIndexState,
     GrowStale, StartDies, WorkerDies, vars, rowVars, ReadRow
<1> HIDE DEF Forward
<1>8. UNCHANGED row \/ Forward
  BY <1>1, <1>2, <1>3, <1>4, <1>5, <1>6, <1>7 DEF Next, Start, Activate
<1> QED BY <1>8 DEF Forward

\* The row is the last run's, a cancel request stays one until it is answered,
\* and a terminal row stays as it is until the next run (RowForward).
THEOREM RowMovesForward == Spec => RowForward
<1>1. Init => TypeOK /\ JobInv /\ GateInv
  BY TypeInit, JobInit, GateInit
<1>2. TypeOK /\ JobInv /\ GateInv /\ [Next]_vars => (TypeOK /\ JobInv /\ GateInv)'
  BY TypeStep, JobStep, GateStep
<1>3. TypeOK /\ JobInv /\ GateInv /\ [Next]_vars =>
        [/\ row'.job >= row.job
         /\ row'.job = row.job =>
              /\ row.status = "cancel_requested" => row'.status \notin {"running", "completed"}
              /\ ~isActiveJob(row) /\ stalls = {} => row' = row]_row
  BY RowForwardStep
<1> QED BY <1>1, <1>2, <1>3, PTL DEF Spec, RowForward

-----------------------------------------------------------------------------
(* A completed job has stored every post                                   *)

\* The cursor's place in strays is no job's.
LEMMA KeyIsNoJob == \A k \in Job : k # CursorKey
BY IndexerJobAssumption DEF CursorKey, Job

LEMMA CoverInit == Init => CoverInv
<1> SUFFICES ASSUME Init PROVE CoverInv
  OBVIOUS
<1>1. vectors = Post /\ Upto(cursor) \subseteq Post
  BY DEF Init, Upto
<1>2. \A j \in Job : Stored(j)
  BY DEF Init, Stored, HasStored
<1> QED BY <1>1, <1>2 DEF Init, CoverInv

\* The step of a worker that is live keeps the invariant when it empties the
\* index only at the start, and goes on from what it has stored.
LEMMA CoverMove ==
    ASSUME TypeOK, JobInv, GateInv, CoverInv, stalls = {}, NEW j \in Job, Live(j),
           \A k \in Job : k # j => worker'[k] = worker[k] /\ mine'[k] = mine[k],
           UNCHANGED adminVars,
           mine[j].op # "rebuild_vector_index" => Stored(j)',
           mine'[j].op = mine[j].op,
           CursorKey \notin strays' => Upto(cursor') \subseteq vectors',
           row'.status = "completed" /\ row'.op # "rebuild_vector_index" /\ row'.job \notin strays' =>
             vectors' = Post
    PROVE  CoverInv'
<1>o. OneLive
  BY DEF GateInv
<1>1. row.job = j /\ \A k \in Job : k # j => ~Live(k)
  BY <1>o DEF OneLive
<1>2. admin' \notin {"cursor", "resolve", "spawn"}
  BY <1>1 DEF JobInv, StartOwnsRow, Live, adminVars
<1>3. \A k \in Job : k # j => Stored(k)'
  BY <1>1 DEF Live, Stored, HasStored
<1>4. \A k \in Job : mine'[k].op # "rebuild_vector_index" => Stored(k)'
  BY <1>3
<1>5. (CursorKey \notin strays)' => Upto(cursor)' \subseteq vectors'
  BY DEF Upto, CursorKey
<1> QED BY <1>2, <1>4, <1>5 DEF CoverInv

LEMMA WorkCoverStep ==
    ASSUME TypeOK, JobInv, GateInv, CoverInv, stalls = {}, NEW j \in Job, Work(j)
    PROVE  CoverInv'
<1>w. /\ worker \in [Job -> Place] /\ mine \in [Job -> Row] /\ pos \in [Job -> 0..NumPosts]
      /\ vectors \subseteq Post /\ cursor \in 0..NumPosts
  BY TypeParts DEF TypeWorkers, TypeIndex
<1>r. mine[j] \in Row /\ row \in Row /\ pos[j] \in Nat
  BY <1>w, TypeParts DEF TypeRow
<1>m. worker[j] \notin {"off", "gone"}
  BY DEF Work, Begin, ConfirmClaim, PrepareBulkIndex, PrepareFails, abandonUndroppedClaim,
     Clear, ClearFails, loadCursor, StorePost, saveCursor, EndPass, StartBuild, BuildIndex,
     BuildFails, EndBuild, reindexEditedPosts, clearVectorIndexState, runCatchUpPass, StepFails,
     HearCancel, SaveErrorCursor, heartbeatTick, ReadToFail, FailJob, ReadToAcknowledge,
     acknowledgeCancel, ReadToFinish, finishJob, AfterCompletion
<1>f. mine[j].job = j /\ isActiveJob(mine[j]) /\ ClaimFits(j)
  BY <1>m DEF JobInv, WorkersFit, WorkerFits
<1>l. worker[j] # "after" => Live(j) /\ row.job = j /\ isActiveJob(row)
  BY <1>m DEF Live, GateInv, OneLive
<1>c. /\ CursorKey \notin strays => Upto(cursor) \subseteq vectors
      /\ mine[j].op # "rebuild_vector_index" => Stored(j)
      /\ row.status = "completed" /\ row.op # "rebuild_vector_index" /\ row.job \notin strays =>
           vectors = Post
  BY DEF CoverInv
<1>k. \A k \in Job : k # CursorKey
  BY KeyIsNoJob
<1>g. \A there \in Place : Goto(j, there) =>
        worker'[j] = there /\ \A k \in Job : k # j => worker'[k] = worker[k]
  BY <1>w DEF Goto
<1>p. \A n \in Nat : Upto(n) \subseteq Post
  BY DEF Upto
<1>q. Upto(NumPosts) = Post /\ Upto(0) = {}
  BY IndexerJobAssumption DEF Upto, Post
\* A step that leaves the row, the cursor and what is stored alone.
<1>s. ASSUME NEW there \in Place, Goto(j, there), worker[j] # "after",
             UNCHANGED <<row, adminVars, mine, cursor, strays, vectors>>,
             mine[j].op # "rebuild_vector_index" => Stored(j)'
      PROVE  CoverInv'
  <2>1. \A k \in Job : k # j => worker'[k] = worker[k]
    BY <1>s, <1>g
  <2> QED BY <1>s, <2>1, <1>l, <1>c, CoverMove
<1>1. CASE \/ Begin(j) \/ ConfirmClaim(j) \/ PrepareBulkIndex(j) \/ PrepareFails(j)
           \/ abandonUndroppedClaim(j) \/ ClearFails(j) \/ StartBuild(j) \/ BuildIndex(j)
           \/ BuildFails(j) \/ EndBuild(j) \/ reindexEditedPosts(j) \/ clearVectorIndexState(j)
           \/ HearCancel(j) \/ ReadToFail(j) \/ ReadToAcknowledge(j) \/ ReadToFinish(j)
  <2>1. UNCHANGED <<row, adminVars, mine, cursor, strays, vectors, pos>> /\ worker[j] # "after"
    BY <1>1 DEF Begin, ConfirmClaim, PrepareBulkIndex, PrepareFails, abandonUndroppedClaim,
         ClearFails, StartBuild, BuildIndex, BuildFails, EndBuild, reindexEditedPosts,
         clearVectorIndexState, HearCancel, ReadToFail, ReadToAcknowledge, ReadToFinish, ReadRow,
         rowVars, indexVars
  <2>2. PICK there \in Place :
          /\ Goto(j, there)
          /\ there \in {"begin", "prepare", "drop", "clear"} =>
               worker[j] \in {"begin", "prepare", "drop"}
          /\ there = "finalize" => mine[j].op = "rebuild_vector_index"
          /\ there \in {"build", "built", "repair", "release", "catchup", "error", "finishing"} =>
               worker[j] \in {"finalize", "build", "built", "repair", "release", "finish"}
          /\ there \notin {"pass", "finish"}
    BY <1>1 DEF Begin, ConfirmClaim, PrepareBulkIndex, PrepareFails, abandonUndroppedClaim,
         ClearFails, StartBuild, BuildIndex, BuildFails, EndBuild, reindexEditedPosts,
         clearVectorIndexState, HearCancel, ReadToFail, ReadToAcknowledge, ReadToFinish, MainOf, Place
  <2>3. worker'[j] = there
    BY <2>2, <1>g
  <2>4. Upto(pos[j])' = Upto(pos[j])
    BY <2>1 DEF Upto
  <2>5. mine[j].op # "rebuild_vector_index" => Stored(j)'
    BY <2>1, <2>2, <2>3, <2>4, <1>c, <1>p, <1>r DEF Stored, HasStored, NoCursor
  <2> QED BY <2>1, <2>2, <2>5, <1>s
<1>2. CASE Clear(j)
  <2>1. UNCHANGED <<row, adminVars, mine, cursor, strays, pos>> /\ worker[j] = "clear" /\ Goto(j, "load")
        /\ vectors' = {}
    BY <1>2 DEF Clear, rowVars
  <2>2. cursor = 0
    BY <2>1, <1>c, <1>f DEF ClaimFits, Stored, NoCursor
  <2>3. worker'[j] = "load" /\ \A k \in Job : k # j => worker'[k] = worker[k]
    BY <2>1, <1>g DEF Place
  <2>4. Stored(j)'
    BY <2>3 DEF Stored, HasStored
  <2>5. Upto(cursor') \subseteq vectors'
    BY <2>1, <2>2, <1>q
  <2>6. row.status # "completed"
    BY <2>1, <1>l DEF isActiveJob
  <2> QED BY <2>1, <2>3, <2>4, <2>5, <2>6, <1>l, CoverMove
<1>3. CASE loadCursor(j)
  <2>1. /\ UNCHANGED <<row, adminVars, mine, cursor, vectors>>
        /\ worker[j] = "load" /\ Goto(j, "pass") /\ pos' = [pos EXCEPT ![j] = cursor]
        /\ CursorKey \in strays => j \in strays' /\ CursorKey \in strays'
        /\ strays \subseteq strays'
    BY <1>3, <1>k DEF loadCursor, rowVars, indexVars
  <2>2. worker'[j] = "pass" /\ pos'[j] = cursor /\ \A k \in Job : k # j => worker'[k] = worker[k]
    BY <2>1, <1>g, <1>w DEF Place
  <2>3. Upto(pos[j])' = Upto(cursor)
    BY <2>2 DEF Upto
  <2>4. (j \notin strays => HasStored(j))'
    BY <2>1, <2>2, <2>3, <1>c DEF HasStored
  <2>5. Stored(j)'
    BY <2>2, <2>4 DEF Stored
  <2>6. row.status # "completed"
    BY <2>1, <1>l DEF isActiveJob
  <2> QED BY <2>1, <2>2, <2>5, <2>6, <1>l, <1>c, CoverMove
<1>4. CASE StorePost(j)
  <2>1. UNCHANGED <<row, adminVars, mine, cursor, strays, worker>> /\ worker[j] = "pass"
    BY <1>4 DEF StorePost, rowVars
  <2>2. PICK p \in Ahead(j) : /\ \A q \in Ahead(j) : p <= q
                             /\ vectors' = vectors \cup {p}
                             /\ pos' = [pos EXCEPT ![j] = p]
    BY <1>4 DEF StorePost
  <2>3. pos'[j] = p /\ p \in Post
    BY <2>2, <1>w DEF Ahead
  <2>4. mine[j].op # "rebuild_vector_index"
    BY <2>1, <1>f DEF ClaimFits
  <2>5. j \notin strays => Upto(p) \subseteq vectors'
    <3> SUFFICES ASSUME j \notin strays, NEW q \in Upto(p) PROVE q \in vectors'
      OBVIOUS
    <3>0. q \in Post /\ q <= p /\ q \in Nat /\ p \in Nat
      BY <2>3 DEF Upto, Post
    <3>1. CASE q <= pos[j]
      <4>1. q \in Upto(pos[j])
        BY <3>0, <3>1 DEF Upto
      <4> QED BY <4>1, <2>1, <2>2, <2>4, <1>c DEF Stored, HasStored
    <3>2. CASE q > pos[j] /\ q \in vectors
      BY <3>2, <2>2
    <3>3. CASE q > pos[j] /\ q \notin vectors
      <4>1. q \in Ahead(j)
        BY <3>0, <3>3 DEF Ahead
      <4>2. q = p
        BY <4>1, <2>2, <3>0
      <4> QED BY <4>2, <2>2
    <3> QED BY <3>0, <3>1, <3>2, <3>3, <1>r
  <2>6. Upto(pos[j])' = Upto(p)
    BY <2>3 DEF Upto
  <2>7. Stored(j)'
    BY <2>1, <2>5, <2>6 DEF Stored, HasStored
  <2>8. CursorKey \notin strays' => Upto(cursor') \subseteq vectors'
    BY <2>1, <2>2, <1>c
  <2>9. row.status # "completed"
    BY <2>1, <1>l DEF isActiveJob
  <2> QED BY <2>1, <2>7, <2>8, <2>9, <1>l, CoverMove
<1>5. CASE saveCursor(j) \/ SaveErrorCursor(j)
  <2>1. /\ UNCHANGED <<row, adminVars, mine, vectors, pos>>
        /\ worker[j] \in {"pass", "catchup", "error"}
        /\ \A k \in Job : k # j => worker'[k] = worker[k]
        /\ worker'[j] \in {worker[j], "fail"}
    BY <1>5, <1>g DEF saveCursor, SaveErrorCursor, rowVars, indexVars, workerVars, Place
  <2>2. \/ UNCHANGED <<cursor, strays>>
        \/ WriteCursor(j, pos[j])
        \/ worker[j] = "catchup" /\ WriteCursor(j, NumPosts)
    BY <1>5 DEF saveCursor, SaveErrorCursor
  <2>3. (j \in strays) <=> (j \in strays')
    BY <2>2, <1>k DEF WriteCursor
  <2>4. CursorKey \notin strays' => Upto(cursor') \subseteq vectors'
    <3>1. CASE UNCHANGED <<cursor, strays>>
      BY <3>1, <2>1, <1>c
    <3>2. CASE WriteCursor(j, pos[j])
      <4> SUFFICES ASSUME CursorKey \notin strays' PROVE Upto(cursor') \subseteq vectors'
        OBVIOUS
      <4>1. j \notin strays /\ mine[j].op # "rebuild_vector_index" /\ cursor' = pos[j]
        BY <3>2 DEF WriteCursor
      <4> QED BY <4>1, <2>1, <1>c DEF Stored, HasStored
    <3>3. CASE worker[j] = "catchup" /\ WriteCursor(j, NumPosts)
      <4> SUFFICES ASSUME CursorKey \notin strays' PROVE Upto(cursor') \subseteq vectors'
        OBVIOUS
      <4>1. j \notin strays /\ mine[j].op # "rebuild_vector_index" /\ cursor' = NumPosts
        BY <3>3 DEF WriteCursor
      <4> QED BY <4>1, <3>3, <2>1, <1>c, <1>q DEF Stored, HasStored
    <3> QED BY <2>2, <3>1, <3>2, <3>3
  <2>5. Upto(pos[j])' = Upto(pos[j])
    BY <2>1 DEF Upto
  <2>6. mine[j].op # "rebuild_vector_index" => Stored(j)'
    <3> SUFFICES ASSUME mine[j].op # "rebuild_vector_index" PROVE Stored(j)'
      OBVIOUS
    <3>1. (j \notin strays => HasStored(j))'
      BY <2>1, <2>3, <2>5, <1>c DEF Stored, HasStored
    <3> QED BY <3>1, <2>1 DEF Stored
  <2>7. row.status # "completed"
    BY <2>1, <1>l DEF isActiveJob
  <2> QED BY <2>1, <2>4, <2>6, <2>7, <1>l, CoverMove
<1>6. CASE EndPass(j)
  <2>1. UNCHANGED <<row, adminVars, mine, cursor, strays, vectors, pos>> /\ worker[j] = "pass"
        /\ Ahead(j) = {}
    BY <1>6 DEF EndPass, rowVars, indexVars
  <2>2. PICK there \in {"catchup", "repair", "finalize"} : Goto(j, there)
    BY <1>6 DEF EndPass, AfterPass
  <2>3. mine[j].op # "rebuild_vector_index"
    BY <2>1, <1>f DEF ClaimFits
  <2>4. j \notin strays => Post \subseteq vectors
    <3> SUFFICES ASSUME j \notin strays, NEW q \in Post PROVE q \in vectors
      OBVIOUS
    <3>1. q \in Nat
      BY DEF Post
    <3>2. CASE q <= pos[j]
      <4>1. q \in Upto(pos[j])
        BY <3>2 DEF Upto
      <4> QED BY <4>1, <2>1, <2>3, <1>c DEF Stored, HasStored
    <3>3. CASE q > pos[j]
      BY <2>1, <3>3 DEF Ahead
    <3> QED BY <3>1, <3>2, <3>3, <1>r
  <2>5. (j \notin strays' => vectors' = Post) /\ worker'[j] = there
    BY <2>1, <2>2, <2>4, <1>w, <1>g DEF Place
  <2>6. Stored(j)'
    BY <2>2, <2>5 DEF Stored, HasStored, Upto
  <2> QED BY <2>1, <2>2, <2>6, <1>s DEF Place
<1>7. CASE runCatchUpPass(j) \/ StepFails(j)
  <2>1. /\ UNCHANGED <<row, adminVars, mine, cursor, strays, vectors>>
        /\ worker[j] \in {"pass", "repair", "release", "catchup"}
    BY <1>7 DEF runCatchUpPass, StepFails, rowVars, indexVars
  <2>2. PICK there \in {"finish", "error", "fail"} :
          Goto(j, there) /\ (there = "finish" => worker[j] = "catchup")
    BY <1>7 DEF runCatchUpPass, StepFails
  <2>3. worker'[j] = there
    BY <2>2, <1>g DEF Place
  <2>4. worker[j] = "pass" => pos'[j] = pos[j]
    BY <1>7, <1>w DEF runCatchUpPass, StepFails
  <2>5. (Upto(pos[j]))' = Upto(pos'[j])
    BY DEF Upto
  <2>6. ASSUME mine[j].op # "rebuild_vector_index" PROVE Stored(j)'
    <3>1. ASSUME j \notin strays PROVE HasStored(j)'
      <4>1. CASE worker[j] = "pass"
        BY <4>1, <3>1, <2>1, <2>2, <2>3, <2>4, <2>5, <2>6, <1>c DEF Stored, HasStored
      <4>2. CASE worker[j] # "pass"
        <5>1. vectors = Post
          BY <4>2, <3>1, <2>1, <2>6, <1>c DEF Stored, HasStored
        <5> QED BY <5>1, <2>1 DEF HasStored, Upto
      <4> QED BY <4>1, <4>2
    <3> QED BY <3>1, <2>1, <2>2, <2>3 DEF Stored
  <2> QED BY <2>1, <2>2, <2>6, <1>s DEF Place
<1>8. CASE heartbeatTick(j)
  <2>1. /\ UNCHANGED <<adminVars, worker, cursor, strays, vectors, pos>> /\ worker[j] # "after"
        /\ \/ mine' = [mine EXCEPT ![j].status = "cancel_requested"] /\ UNCHANGED rowVars
           \/ WriteRow(mine[j], FALSE) /\ UNCHANGED mine
    BY <1>8 DEF heartbeatTick, indexVars
  <2>2. /\ mine'[j].op = mine[j].op /\ mine'[j].clear = mine[j].clear
        /\ \A k \in Job : k # j => mine'[k] = mine[k]
    <3>1. CASE mine' = [mine EXCEPT ![j].status = "cancel_requested"]
      <4>1. mine'[j] = [mine[j] EXCEPT !.status = "cancel_requested"]
            /\ \A k \in Job : k # j => mine'[k] = mine[k]
        BY <3>1, <1>w
      <4> QED BY <4>1, <1>r, StatusFields DEF Status
    <3>2. CASE UNCHANGED mine
      BY <3>2
    <3> QED BY <2>1, <3>1, <3>2
  <2>3. row'.status # "completed"
    BY <2>1, <1>l, <1>f DEF WriteRow, rowVars, isActiveJob
  <2>4. Upto(pos[j])' = Upto(pos[j])
    BY <2>1 DEF Upto
  <2>5. mine[j].op # "rebuild_vector_index" => Stored(j)'
    BY <2>1, <2>2, <2>4, <1>c DEF Stored, HasStored, NoCursor
  <2> QED BY <2>1, <2>2, <2>3, <2>5, <1>l, <1>c, CoverMove
<1>9. CASE FailJob(j) \/ acknowledgeCancel(j) \/ finishJob(j)
  <2>1. UNCHANGED <<adminVars, mine, cursor, strays, vectors, pos>> /\ worker[j] # "after"
    BY <1>9 DEF FailJob, acknowledgeCancel, finishJob, indexVars
  <2>2. PICK there \in {"gone", "finish", "after"} :
          Goto(j, there) /\ (there = "finish" => worker[j] = "finishing")
    BY <1>9 DEF FailJob, acknowledgeCancel, finishJob
  <2>3. worker'[j] = there /\ \A k \in Job : k # j => worker'[k] = worker[k]
    BY <2>2, <1>g DEF Place
  <2>4. mine[j].op # "rebuild_vector_index" => Stored(j)'
    BY <2>1, <2>2, <2>3, <1>c DEF Stored, HasStored
  <2>5. row'.status = "completed" /\ row'.op # "rebuild_vector_index" /\ row'.job \notin strays' =>
          vectors' = Post
    <3>1. CASE UNCHANGED row
      BY <2>1, <3>1, <1>c
    <3>2. CASE FailJob(j) /\ row' = [mine[j] EXCEPT !.status = "failed"]
      BY <3>2, <1>r, StatusFields DEF Status
    <3>3. CASE acknowledgeCancel(j) /\ row' = [row EXCEPT !.status = "canceled"]
      BY <3>3, <1>r, StatusFields DEF Status
    <3>4. CASE finishJob(j) /\ row' = Finished(j)
      <4>1. row'.op = mine[j].op /\ row'.job = j
        BY <3>4, <1>f, <1>r, StatusFields DEF Finished, Status
      <4>2. worker[j] = "finishing"
        BY <3>4 DEF finishJob
      <4> QED BY <2>1, <4>1, <4>2, <1>c DEF Stored, HasStored
    <3> QED BY <1>9, <3>1, <3>2, <3>3, <3>4
            DEF FailJob, acknowledgeCancel, finishJob, CasRow, WriteRow, rowVars
  <2> QED BY <2>1, <2>3, <2>4, <2>5, <1>l, <1>c, CoverMove
<1>10. CASE AfterCompletion(j)
  <2>1. /\ UNCHANGED <<row, adminVars, mine, vectors, pos>> /\ Goto(j, "gone") /\ worker[j] = "after"
        /\ \/ UNCHANGED <<cursor, strays>>
           \/ cursor' = 0 /\ strays' = strays \ {CursorKey}
    BY <1>10 DEF AfterCompletion, rowVars, indexVars
  <2>2. worker'[j] = "gone" /\ \A k \in Job : k # j => worker'[k] = worker[k]
    BY <2>1, <1>g DEF Place
  <2>3. \A k \in Job : Upto(pos[k])' = Upto(pos[k])
    BY <2>1 DEF Upto
  <2>4. ASSUME NEW k \in Job, mine'[k].op # "rebuild_vector_index" PROVE Stored(k)'
    <3>1. CASE k = j
      BY <3>1, <2>2 DEF Stored, HasStored
    <3>2. CASE k # j
      <4>1. Stored(k)
        BY <2>1, <2>4 DEF CoverInv
      <4>2. NoCursor => NoCursor'
        BY <2>1 DEF NoCursor, CursorKey
      <4>3. k \notin strays' => k \notin strays
        BY <2>1, <1>k
      <4>4. HasStored(k) => HasStored(k)'
        BY <3>2, <2>1, <2>2, <2>3 DEF HasStored
      <4> QED BY <3>2, <4>1, <4>2, <4>3, <4>4, <2>1, <2>2 DEF Stored
    <3> QED BY <3>1, <3>2
  <2>5. (CursorKey \notin strays => Upto(cursor) \subseteq vectors)'
    <3>1. Upto(cursor)' = Upto(cursor')
      BY DEF Upto
    <3>2. CASE UNCHANGED <<cursor, strays>>
      BY <2>1, <3>1, <3>2, <1>c DEF CursorKey
    <3>3. CASE cursor' = 0
      BY <3>1, <3>3, <1>q
    <3> QED BY <2>1, <3>2, <3>3
  <2>6. admin' = "resolve" /\ request' = "full" => NoCursor'
    BY <2>1 DEF CoverInv, NoCursor, CursorKey, adminVars
  <2>7. row.job # CursorKey
    BY <1>r, RowFields, IndexerJobAssumption DEF CursorKey
  <2> QED BY <2>1, <2>4, <2>5, <2>6, <2>7, <1>c DEF CoverInv
<1> QED BY <1>1, <1>2, <1>3, <1>4, <1>5, <1>6, <1>7, <1>8, <1>9, <1>10 DEF Work

LEMMA CoverStep ==
    ASSUME TypeOK, JobInv, GateInv, CoverInv, [Next]_vars
    PROVE  CoverInv'
<1> SUFFICES ASSUME stalls' = {} PROVE CoverInv'
  BY DEF CoverInv
<1>r. row \in Row
  BY TypeParts DEF TypeRow
<1>w. worker \in [Job -> Place]
  BY TypeParts DEF TypeWorkers
<1>j. StartOwnsRow
  BY DEF JobInv
<1>c. stalls = {} =>
        /\ CursorKey \notin strays => Upto(cursor) \subseteq vectors
        /\ admin = "resolve" /\ request = "full" => NoCursor
        /\ \A j \in Job : mine[j].op # "rebuild_vector_index" => Stored(j)
        /\ row.status = "completed" /\ row.op # "rebuild_vector_index" /\ row.job \notin strays =>
             vectors = Post
  BY DEF CoverInv
<1>k. \A k \in Job : k # CursorKey
  BY KeyIsNoJob
\* The jobs a step leaves alone.
<1>s. ASSUME NEW k \in Job, Stored(k), UNCHANGED vectors, mine'[k] = mine[k], pos'[k] = pos[k],
             worker'[k] \in {worker[k], "gone"}, NoCursor => NoCursor',
             k \notin strays' => k \notin strays
      PROVE  Stored(k)'
  <2>1. Upto(pos[k])' = Upto(pos[k])
    BY <1>s DEF Upto
  <2>2. HasStored(k) => HasStored(k)'
    BY <1>s, <2>1 DEF HasStored
  <2> QED BY <1>s, <2>2 DEF Stored
\* A step that leaves the cursor, what is stored and the workers alone.
<1>u. ASSUME stalls = {}, UNCHANGED <<cursor, strays, vectors, mine, pos>>,
             \A k \in Job : worker'[k] \in {worker[k], "gone"},
             admin' = "resolve" => UNCHANGED <<admin, request>>,
             row'.status = "completed" => UNCHANGED row
      PROVE  CoverInv'
  <2>1. Upto(cursor)' = Upto(cursor) /\ (NoCursor <=> NoCursor')
    BY <1>u DEF Upto, NoCursor, CursorKey
  <2>2. (CursorKey \notin strays)' <=> CursorKey \notin strays
    BY <1>u DEF CursorKey
  <2>3. ASSUME NEW k \in Job, mine'[k].op # "rebuild_vector_index" PROVE Stored(k)'
    <3>1. Stored(k)
      BY <1>u, <2>3, <1>c
    <3> QED BY <3>1, <1>u, <2>1, <1>s
  <2> QED BY <1>u, <2>1, <2>2, <2>3, <1>c DEF CoverInv
<1>1. ASSUME NEW op \in Operation, beginExclusiveJob(op) PROVE CoverInv'
  BY <1>1, <1>u DEF beginExclusiveJob, ReadRow, indexVars, workerVars
<1>2. ASSUME commit PROVE CoverInv'
  <2>1. UNCHANGED <<cursor, strays, vectors, worker, mine, pos, stalls>> /\ admin # "resolve"
    BY <1>2 DEF commit, indexVars, workerVars
  <2>2. admin' = "resolve" => request' # "full"
    BY <1>2 DEF commit
  <2>3. row'.status = "completed" => UNCHANGED row
    <3>1. CASE Admin \in seen
      <4>1. row' = NewRow(request) /\ row.job < MaxJobs
        BY <1>2, <3>1, <1>j DEF commit, WriteRow, StartOwnsRow
      <4> QED BY <4>1, NewRowFields
    <3>2. CASE Admin \notin seen
      BY <1>2, <3>2 DEF commit, rowVars
    <3> QED BY <3>1, <3>2
  <2>4. /\ Upto(cursor)' = Upto(cursor) /\ (NoCursor <=> NoCursor')
        /\ (CursorKey \notin strays)' <=> CursorKey \notin strays
    BY <2>1 DEF Upto, NoCursor, CursorKey
  <2>5. ASSUME NEW k \in Job, mine'[k].op # "rebuild_vector_index" PROVE Stored(k)'
    <3>1. Stored(k)
      BY <2>1, <2>5, <1>c
    <3> QED BY <3>1, <2>1, <2>4, <1>s
  <2> QED BY <2>1, <2>2, <2>3, <2>4, <2>5, <1>c DEF CoverInv
<1>3. ASSUME ResetCursor PROVE CoverInv'
  <2>1. UNCHANGED <<row, vectors, worker, mine, pos, stalls>> /\ cursor' = 0
        /\ strays' = strays \ {CursorKey}
    BY <1>3 DEF ResetCursor, rowVars, indexVars, workerVars
  <2>2. Upto(cursor)' = {} /\ NoCursor'
    BY <2>1 DEF Upto, Post, NoCursor, CursorKey
  <2>3. ASSUME NEW k \in Job, mine'[k].op # "rebuild_vector_index" PROVE Stored(k)'
    <3>1. Stored(k)
      BY <2>1, <2>3, <1>c
    <3> QED BY <3>1, <2>1, <2>2, <1>k, <1>s
  <2>4. row.job # CursorKey
    BY <1>r, RowFields, IndexerJobAssumption DEF CursorKey
  <2> QED BY <2>1, <2>2, <2>3, <2>4, <1>c DEF CoverInv
<1>4. ASSUME CursorDeleteFails PROVE CoverInv'
  BY <1>4, <1>u DEF CursorDeleteFails, rowVars, indexVars, workerVars
<1>5. ASSUME resolveDeferredRebuild \/ SpawnCatchUp PROVE CoverInv'
  <2>1. UNCHANGED <<row, vectors, cursor, strays, pos, stalls>> /\ admin' = "idle"
        /\ admin \in {"resolve", "spawn"}
    BY <1>5 DEF resolveDeferredRebuild, SpawnCatchUp, rowVars, indexVars
  <2>2. /\ row.job \in Job
        /\ \A k \in Job : k # row.job => worker'[k] = worker[k] /\ mine'[k] = mine[k]
        /\ worker'[row.job] = "begin" /\ mine'[row.job] = row
    BY <1>5, SpawnStep
  <2>3. /\ Upto(cursor)' = Upto(cursor) /\ (NoCursor <=> NoCursor')
        /\ (CursorKey \notin strays)' <=> CursorKey \notin strays
    BY <2>1 DEF Upto, NoCursor, CursorKey
  <2>4. row.clear => NoCursor
    <3>1. row.clear => request = "full"
      BY <2>1, <1>j DEF StartOwnsRow
    <3>2. admin = "spawn" => request # "full"
      BY <1>j DEF StartOwnsRow
    <3> QED BY <2>1, <3>1, <3>2, <1>c
  <2>5. ASSUME NEW k \in Job, mine'[k].op # "rebuild_vector_index" PROVE Stored(k)'
    <3>1. CASE k = row.job
      BY <3>1, <2>1, <2>2, <2>3, <2>4 DEF Stored, HasStored
    <3>2. CASE k # row.job
      <4>1. Stored(k)
        BY <3>2, <2>1, <2>2, <2>5, <1>c
      <4> QED BY <3>2, <4>1, <2>1, <2>2, <2>3, <1>s
    <3> QED BY <3>1, <3>2
  <2> QED BY <2>1, <2>3, <2>5, <1>c DEF CoverInv
<1>6. ASSUME ResolveFails \/ CancelJob PROVE CoverInv'
  <2>1. UNCHANGED <<vectors, cursor, strays, worker, mine, pos, stalls>> /\ admin' = "idle"
    BY <1>6 DEF ResolveFails, CancelJob, indexVars, adminVars, workerVars
  <2>2. row'.status # "completed"
    <3>1. PICK s \in {"failed", "cancel_requested"} : row' = [row EXCEPT !.status = s]
      BY <1>6 DEF ResolveFails, CancelJob, WriteRow
    <3> QED BY <3>1, <1>r, StatusFields DEF Status
  <2> QED BY <2>1, <2>2, <1>u
<1>7. ASSUME NEW j \in Job, Work(j) PROVE CoverInv'
  <2>1. stalls = {}
    BY <1>7 DEF Work, Begin, ConfirmClaim, PrepareBulkIndex, PrepareFails, abandonUndroppedClaim,
       Clear, ClearFails, loadCursor, StorePost, saveCursor, EndPass, StartBuild, BuildIndex,
       BuildFails, EndBuild, reindexEditedPosts, clearVectorIndexState, runCatchUpPass, StepFails,
       HearCancel, SaveErrorCursor, heartbeatTick, ReadToFail, FailJob, ReadToAcknowledge,
       acknowledgeCancel, ReadToFinish, finishJob, AfterCompletion
  <2> QED BY <1>7, <2>1, WorkCoverStep
<1>8. ASSUME ActivateGated \/ ConstructIndex \/ ReadOrphan \/ ReadMarker \/ ReconcileVectorIndexState
      PROVE  CoverInv'
  <2>1. UNCHANGED <<row, vectors, cursor, strays, worker, mine, pos, stalls, admin, request>>
    BY <1>8 DEF ActivateGated, ConstructIndex, ReadOrphan, ReadMarker, ReconcileVectorIndexState,
       ReadRow, rowVars, indexVars, adminVars, workerVars
  <2> QED BY <2>1, <1>u
<1>9. ASSUME MarkOrphanedJobAsFailed PROVE CoverInv'
  <2>1. UNCHANGED <<vectors, cursor, strays, worker, mine, pos, stalls, admin, request>>
    BY <1>9 DEF MarkOrphanedJobAsFailed, indexVars, adminVars, workerVars
  <2>2. UNCHANGED row \/ row'.status = "failed"
    BY <1>9, <1>r DEF MarkOrphanedJobAsFailed, CasRow, WriteRow, rowVars, Row
  <2> QED BY <2>1, <2>2, <1>u
<1>10. ASSUME GrowStale PROVE CoverInv'
  <2>1. UNCHANGED <<row, vectors, cursor, strays, worker, mine, pos, admin, request>> /\ stalls = {}
    BY <1>10 DEF GrowStale, indexVars, adminVars, workerVars
  <2> QED BY <2>1, <1>u
<1>11. ASSUME NEW j \in Job, WorkerDies(j) PROVE CoverInv'
  <2>1. UNCHANGED <<row, vectors, cursor, strays, mine, pos, stalls, admin, request>>
        /\ worker' = [worker EXCEPT ![j] = "gone"]
    BY <1>11 DEF WorkerDies, Goto, indexVars, adminVars
  <2>2. \A k \in Job : worker'[k] \in {worker[k], "gone"}
    BY <2>1, <1>w
  <2> QED BY <2>1, <2>2, <1>u
<1>12. ASSUME StartDies \/ UNCHANGED vars PROVE CoverInv'
  <2>1. UNCHANGED <<row, vectors, cursor, strays, worker, mine, pos, stalls>>
        /\ (admin' = "idle" \/ UNCHANGED <<admin, request>>)
    BY <1>12 DEF StartDies, vars, rowVars, indexVars, adminVars, workerVars
  <2> QED BY <2>1, <1>u
<1> QED BY <1>1, <1>2, <1>3, <1>4, <1>5, <1>6, <1>7, <1>8, <1>9, <1>10, <1>11, <1>12
        DEF Next, Start, Activate

\* A job that embeds posts and completed has stored every post of the cutoff,
\* whatever was canceled, failed, died and resumed before, unless it began at a
\* cursor that the second pass of a rebuild left (CompletedCoversAll).
THEOREM CompletionCovers == Spec => []CompletedCoversAll
<1>1. Init => TypeOK /\ JobInv /\ GateInv /\ CoverInv
  BY TypeInit, JobInit, GateInit, CoverInit
<1>2. TypeOK /\ JobInv /\ GateInv /\ CoverInv /\ [Next]_vars
      => (TypeOK /\ JobInv /\ GateInv /\ CoverInv)'
  BY TypeStep, JobStep, GateStep, CoverStep
<1>3. CoverInv => CompletedCoversAll
  BY DEF CoverInv, CompletedCoversAll
<1> QED BY <1>1, <1>2, <1>3, PTL DEF Spec

=============================================================================
