# A formal model of the Mattermost agents plugin

TLA+ specifications of the concurrent protocols of `mattermost-plugin-agents`,
TLC configurations that check them on small instances, and TLAPS proofs of
their central theorems. Line numbers refer to the sources this directory was
written from.

The plugin runs as one process per node of a Mattermost cluster. The nodes share
a PostgreSQL database (`store/`), the server's KV store with compare-and-set, a
cluster mutex and a cluster job scheduler; everything else (streaming contexts,
caches, MCP clients, bots) is memory of one process, at best refreshed by
cluster events. Almost every hard question about this code is of one shape:
something was read, other nodes and other goroutines moved on, and then it is
used.

## 1. Inventory

For each component: what it keeps, what it does, whom it talks to, what is hard
about it, and what makes it correct. `PROJECT.json` lists every component with
its sources, also those that are only I/O or formatting.

**Tool approval** (`conversations/tool_approval.go`, `conversation/approval_state.go`).
State: the rows of `LLM_Turns` of one conversation, whose content is a list of
blocks (tool calls with a status, results with share flags). Operations:
`HandleToolCall` (accept or reject a batch, run it, record it),
`HandleToolResult` (share or withhold the results in a channel),
`ComputePostApprovalState` (which stage the webapp offers),
`streamToolFollowUp` (go on with the completion). Talks to: the store
(conditional writes of a turn's content), streaming (one context per post),
the tool store, the LLM. Hard: double clicks, two nodes, crashes between the
claim and the record, several rows written one at a time and undone best effort,
rows read long before they are used. Correct when: no call runs twice, none runs
unapproved, no unshared result reaches a channel, statuses never go back, a
decided batch is continued once.

**Response streaming** (`streaming/`). State: `contexts`, the posts being
streamed by this process; the turns written when a stream ends. Operations:
`GetStreamingContext`, `FinishStreaming`, `StopStreaming`, `streamToPostImpl`
with `finalizeTurn` (demote the previous anchor, create the new one). Hard: the
map is per process, finalization is two writes whose failures are only logged.
Correct when: a post has one anchor turn, and a stream releases what it held.

**Conversation turns and requests** (`conversation/`, `store/turns.go`,
`store/conversations.go`). State: conversations and their numbered turns.
Operations: append with an automatic sequence number, compare-and-swap of a
turn's content, deletion of a response (`DeleteResponseTurns`), conversion of
turns to a completion request. Correct when: sequence numbers are unique and
increasing, a request built from turns pairs every call with a truthful result.

**Message handling** (`conversations/handle_messages.go`, `regeneration.go`,
`turn_policy.go`). Routes a post to a bot, builds the request under a policy
(DM or channel), streams the answer, regenerates it. Hard: it races with the
decisions of the same post.

**Waits and wakes** (`conversations/wakeup.go`, `mmtools/wait_for_async_work.go`).
State: one KV marker per thread and bot, one cluster job per conversation, a
cluster mutex per conversation, the number of consecutive wake turns.
Operations: schedule a wait, cancel it, check now, be steered by a message, fire.
Hard: consume-then-cancel is two steps, jobs fire on any node, a marker expires.
Correct when: a wait resumes at most once and never after it was canceled, a
pending wait is eventually woken or cleared, the wake chain is bounded.

**Auto reply and ambient classification** (`autoreply/`, `conversations/auto_reply.go`,
`ambient_limiter.go`). State: a per-node cache of channel rules filled from the
database and invalidated by cluster events; at most eight classifier slots per
node. Hard: a read that fills the cache after the invalidation it should have
seen; slots that must be returned on every path.

**Tool runner** (`toolrunner/toolrunner.go`). State of one run: the round, the
consecutive failures, the turns to deliver. Operations: stream a completion,
decide a batch by policy (run it, hand it over for approval, reject it), run
tools, deliver the turns, stop. Hard: cancellation in the middle of a round,
limits, delivery of turns exactly once. Correct when: rounds are bounded, a
batch with an unapproved call runs nothing, every executed call has a result.

**Index pass** (`indexer/index_pass.go`). A fetcher, workers and a committer
connected by channels; a watermark that only moves over finished posts. Correct
when: the watermark never passes a post whose batch was not stored; everyone
terminates.

**Reindex and catch-up jobs** (`indexer/indexer_job.go`, `exclusive_job.go`,
`indexer.go`). State: the job row in the KV store, an in-process cancel function, a
cluster mutex. Hard: supersession, cancellation, takeover of a job whose node
died, a late writer of the old job. Correct when: one job writes at a time, a
terminal status is final, a canceled job ends.

**Vector index** (`indexer/vector_index.go`, `postgres/pgvector.go`). Phases of
the index, moved by compare-and-set; building takes long and may die.

**Agents and versions** (`store/agents.go`, `agent_versions.go`). Rows under
`FOR UPDATE`, a version counter, a bounded history. Correct when: versions are
dense and increasing and the last snapshot equals the row.

**Bot registry** (`bots/`). Bots of this node, refreshed from configuration
under a cluster mutex; LLMs of services are cached in a registry.

**MCP clients** (`mcp/client_manager.go`, `user_clients.go`, `client.go`,
`connection_admission.go`, `reconnect.go`). Per-user connections with idle
cleanup; a manager that is replaced on reconfiguration; admission limits. Hard:
a client handed out while it is being closed, waiters that must be released.

**MCP OAuth** (`mcp/oauth_*.go`). Token rows and a refresh lease in the KV store,
so that one node spends the refresh token. Hard: a lease that expires while its
holder still refreshes.

**Configuration, migrations** (`config/`, `store/config.go`, `store/migrate.go`).
**Cluster events and lifecycle** (`server/`). **HTTP API** (`api/`).
**LLM abstractions and providers** (`llm/`, `bifrost/`). **Search, embeddings,
chunking**; **access control**; **meetings, threads, channels**; **built-in
tools**; **MCP server**; **prompts, skills, files**; **telemetry**; **webapp**;
tooling and tests. These have no protocol of their own between concurrent
actors, or only one that the components above already contain.

### How they interact

    webapp --click--> api --> conversations --claim/record--> store (LLM_Turns)
                                   |  ^                          ^
                          tool runner |                          | finalizeTurn
                                   v  | wait tool                |
                              streaming (contexts of this node) -+
                                   |
     cluster scheduler --wake--> conversations --marker--> KV store
     indexer --job row--> KV store, --posts--> embeddings --> pgvector
     mcp clients --lease--> KV store; bots, auto reply <--events-- cluster

## 2. Plan

| # | module | component | abstract specification | theorems |
|---|--------|-----------|------------------------|----------|
| 1 | `ToolApproval` (done) | tool approval, anchors, regenerate | `DecideOnce` | types, at most once, only approved, statuses move forward, private stays private, one anchor (one node), one follow-up and agreeing flags (one round), refinement |
| 2 | `WakeScheduling` (done) | waits and wakes | `WaitLifecycle`: each wait ends once | types, bounded wake chain, messages steer, waits are triggered, refinement |
| 3 | `IndexPass` (done) | fetcher, workers, committer | `ResumableScan`: a mark over a handled prefix | types, nothing skipped, everything counted, no straggler, refinement |
| 4 | `ToolLoop` (done) | tool runner, post stream, stop and regenerate | none: what a reader replays is stated on the turns themselves | types and caps, rounds recorded once and in order, anchors hold nothing recorded, cancels hit their own run |
| 5 | `IndexerJob` (done) | job row, cursor, marker and catalog of the vector index, activation | none yet: "one job at a time" is not what the code promises, see section 7 | types, the row moves forward, search is gated, completion covers all |
| 6 | `OAuthGrant` (done) | one user's grant for one MCP server name: refresh, sign-in, disconnect, reconfiguration | none yet | types, one server per grant, nothing resurrected, no replay |
| 7 | `TurnStore` | turn sequence numbers and deletion | an append-only log with holes | numbers unique and increasing |
| 8 | `AutoReplyCache`, `AmbientLimiter` | caches and slots | a register with stale reads | slots never exceeded |
| 9 | `AgentVersions` | version history | a counter with a bounded log | last snapshot equals the row |
| 10 | `McpClients` | connections, admission, closing | none | a closed client is not handed out |

The runs of each module: two nodes and two or three requests, because the races above
need a reader, a writer in between and, at most, a third that profits from the
confusion; one run with failures and crashes for safety, one without for the
properties the code only has then, and one with fairness for liveness. Where the code
does something else than its comments say, the sections below list it under
"Disagreements"; the one that leaves a process waiting for ever has a run of its own
(`stop_misses_mention`).

What is left of the plan: rows 7 to 10, and abstract specifications for the last three modules.

## 3. ToolApproval

One response post of one conversation, from the moment its first batch of tool
calls awaits a decision.

### State

| variable | code |
|----------|------|
| `turn`, `nextTurn` | rows of `LLM_Turns` with their sequence number (`store/turns.go:15-26`); a deleted row is `NoTurn`. `anchor` is `post_id` being set; `owner` of a result row is the assistant row whose calls it answers |
| `blocks` of a turn | per call: the status of its `tool_use` (`pending`, `accepted`, `rejected`, `error`, `success`, `auto_approved`) or its `tool_result`, with the share flag and whether the share decision was made |
| `holder` | `MMPostStreamService.contexts`, one map per node, restricted to this post |
| `pc`, `req` | where each click is in its handler, and what it carries: the operation, the node, the accepted call ids (named by the round `on` they belong to) |
| `seen`, `tgt`, `out`, `autoRan`, `wrote` | locals of the handlers: the turns as read, the turn worked on, `pendingBlocks`, `autoExecutedNow`, `updates` already written |
| `claimedBy`, `runs`, `followed`, `disclosed` | history variables, for the properties only |

Two things are abstracted. The time of a share decision (`DecidedAt`) is the
Boolean `decided`: the protocol only asks whether it is set, and two clicks
that write the same decision write the same content. The rounds the tool runner
executes by itself inside a stream are not steps: a stream ends with a text
answer or with a batch that awaits a decision (`CreateAnchor`), and a batch
awaits a decision only if some call did not pass the policy (`Batches`).

### Actions

| action | code |
|--------|------|
| `Click`, `ClickRegenerate` | the webapp offers a decision for the stage it computed; the request can reach its handler arbitrarily later |
| `Refuse` | `beginToolDecision` and later gates return an error before anything is written |
| `ReadCall`, `ReadResult` | the handler reads the turns and checks them, before the streaming context is held |
| `AcquireStream` | `GetStreamingContext`: one holder per node and post, or `ErrAlreadyStreamingToPost` |
| `Claim`, `LoseClaim` | `claimToolDecision`: one conditional write marks the pending calls accepted |
| `AnswerQuestion`, `RunAccepted`, `SkipQuestion`, `RunAuto`, `RejectCall` | the five cases of the execution loop, one call each, in any order |
| `Record` | the resolved statuses replace exactly the claimed content |
| `InsertResults` | the result row; then return (a private result remains) or go on |
| `WriteDecision`, `UndoDecision`, `DecisionWritten` | the conditional writes of a share decision, decision rows first, and `undoTurnUpdates` newest first |
| `FollowUp`, `FailFollowUp`, `LookupAnchor`, `DemoteAnchor`, `CreateAnchor`, `FinishStream` | `streamToolFollowUp` and the stream: the anchor to demote is looked up at the start and written at the end |
| `Scrub` | `BuildRegenerateRequest` deletes the response (`DeleteResponseTurns`) |
| `Crash` | a node dies; its handlers and streaming contexts are gone, the rows remain |

Every access to the database is a step of its own, so the model contains every
interleaving of them; what a handler does between two accesses is local.
A failed write (`"db"` in `Faults`) leaves the row as it was.

### Runs

| run | instance | shows |
|-----|----------|-------|
| `approval_channel` | 3 clicks, 2 nodes, channel, a question and a plain call, crashes and failed writes | types, `AtMostOnce`, `OnlyApprovedRun`, `PrivateStaysPrivate`, `StatusForward`, and that the protocol implements `DecideOnce` |
| `approval_dm` | 3 clicks, one node, DM, an auto-run and a plain call, Regenerate, crashes and failed completions | `OneAnchor`: on one node the streaming context is enough, also while rows are deleted under the clicks |
| `approval_progress` | 3 clicks, 2 nodes, channel, one round, no failure, fairness | `OneFollowUp`, `ShareFlagsAgree`, `CallStageIsDecidable`; `ClaimIsResolved`, `DecidedIsContinued` |

`OneFollowUp`, `ShareFlagsAgree` and `CallStageIsDecidable` are checked for one round:
over several, a late click of an earlier round breaks the first of them (see below).
The other two also need that nothing fails: a crash between the writes of a share
decision, or an undo that fails, leaves the two rows different.
`OneAnchor` is checked on one node only: the streaming context that guards it is a map
of the process, so on two nodes a Regenerate and a click can each look up the anchor
before the other has written its own.

### Disagreements

- A late share click of an earlier round can stream a second follow-up. Two share clicks
  are made in one round; one is handled and its follow-up brings a batch of which the
  accepted calls run, and while their results are not inserted yet, the other click
  reads the turns on another node. It finds an executed call and no matching
  result, so the early return that makes repeat clicks safe (`tool_approval.go:569-594`)
  is not taken; there is nothing to write, so the conditional write does not stop it
  either, against the comment that the loser of a race fails before streaming a second
  follow-up. TLC finds this with 2 nodes and 4 clicks, in 32 states of which
  none is a failure; three clicks are not enough. The instance takes a quarter of an hour, so it is
  not among the runs: to see it, check `OneFollowUp` under `Spec` with the
  symmetry and view of `ApprovalChannel.cfg`, four clicks, a plain and an auto-run
  call, `MaxTurns = 9` and `BatchBound = 7`.
- A click of an earlier round is not recognized as stale: the batch is chosen from the
  turns as they are when the click is handled (`tool_approval.go:919`), so a late click decides the
  next batch, and rejects its calls, against the comment at lines 29-30.
- After a crash between the claim and the record, accepted calls keep the stage "call"
  (`approval_state.go:68-79`), but a click needs pending ones (`tool_approval.go:933-938`):
  the user is offered a decision that every click is refused.

### Bounds

`MaxTurns` is one row more than the requests can create (each creates at most a
result row and an anchor; `MCToolApproval` asserts it), so it never stops an
insert. `BatchBound` limits in which rows a batch may appear: 1 is a single
round, 3 a follow-up with a batch of its own, `MaxTurns` no limit. Two nodes
and three requests suffice for the hazards: one request that has read, one that
changes what it read, and one that acts on the result. `Faults` names the
failures an instance contains. Requests and nodes are interchangeable, hence the
symmetry of the safety runs; their `VIEW` forgets the locals of requests that have
returned.

### Fairness

`FairSpec` asks weak fairness of the handler of each request: a goroutine that
was started keeps running, its database accesses return and the LLM answers
or fails. Nothing is assumed about clicks (a user may never decide) or crashes, and the run
has none of the latter: the code has no recovery that would make progress after one.

### Proofs (`ToolApprovalProofs`, `ToolApprovalShareProofs`, `ToolApprovalPostProofs`)

For any sets of nodes, requests and calls, any bounds and any failures:

- `TypeCorrect`: `Spec => []TypeOK`, one lemma per group of actions.
- `CallsRunAtMostOnce`: `Spec => []AtMostOnce`.
- `CallsRunApproved`: `Spec => []OnlyApprovedRun`.
- `ImplementsAbstract`: `Spec => Abs!Spec`, that is, `DecideOnce` with `decider`
  mapped to `claimedBy` and `ran` to `runs`. `Claim` maps to `Decide`, `RunAccepted` and
  `RunAuto` map to `Run`, every other action to a stutter.

`AtMostOnce` is not inductive: it does not say why a second click cannot execute
the same batch. The argument is the inductive invariant `ApprovalInv`.
A claim needs a pending call in the row *as read* (`ClaimsPending`) and in the row
*now* (the conditional write compares them), and a row that was claimed never
has a pending call again (`ClaimIsFinal`): later writes put back only contents that
were themselves read after the claim or equal to what is there, and rows are created
with fresh ids (`TurnsAreOld`). So a batch is claimed once, only its claimer
executes it (`ExecutorOwnsBatch`), nothing of it ran before (`OnlyClaimedRun`), and
the executor's list of open calls shrinks with each call it runs.
`OnlyApprovedRun` follows as the click that executes a batch accepts a call only if
the click was made on that batch (`ExecutorsDecideCalls`).

The assumptions are those of `ToolApprovalAssumption`. That `AcceptedOn` names
calls by the row they belong to is the code's use of call ids that are unique
across rounds.

**What is shared** (`ToolApprovalShareProofs`), under the same assumptions:

- `StatusesMoveForward`: `Spec => StatusForward`.
- `ChannelStaysPrivate`: `Spec => []PrivateStaysPrivate`.

Both rest on `ShareInvariance`. A handler decides on rows it read earlier, and
what it discloses is what it read, so `PrivateStaysPrivate` must be known of the copies
too. `ShareInv` says that a row that was read was not replaced by a row of
another kind (`ReadsAreOld`), that a click on results writes only rows it read
(`RequestsWriteOwnRows`), that the executor's outcomes continue the statuses it
read (`OutFollowsSeen`) and what it calls open or rejected has not run
(`ResolverKnowsRuns`), and that a batch with results is not executed any more
(`AnsweredIsOver`). So the outputs that are shared, in the database or in
a copy, are those of auto-run calls, of questions, and of calls a click shared
(`SharesAreAllowed`).

**What the post shows** (`ToolApprovalPostProofs`), under the conditions of the runs:

- `OneAnchorOnOneNode`: `[]OneAnchor` if there is one node and no write fails. Crashes,
  failed completions and any number of rounds are included. `AnchorInv`: who works on the post holds the
  streaming context (`StreamsAreHeld`), and from demoting the anchor to creating
  the next one there is none (`AnchorsDemoted`).
- `OneFollowUpPerRound`: `[]OneFollowUp` for one round in a channel (`~IsDM`,
  `BatchBound <= 1`), with any nodes, clicks and failures. `RoundInv`: the batch
  is the first row's and never deleted (`BatchIsFirst`), it gets one result row
  (`OneResultRow`), a click that writes a decision read that row undecided
  (`DecidersSawOpen`) and writes the decision rows first (`WritesInOrder`). Of several such
  clicks only one conditional write to the result row succeeds; from there on, the
  right to follow up is that click's until it streams, undoes its write or dies
  (`FollowedOnce`).
- `FlagsAgreePerRound` and `CallsDecidablePerRound`: `[]ShareFlagsAgree` and
  `[]CallStageIsDecidable` for one round in a channel if only completions fail
  (`Faults \subseteq {"llm"}`). `SettledInv`: while a click is between its two
  writes, each row is what the click read or what it decided, and the rows agree whenever
  nobody is (`FlagsFollow`); an open call is not shared yet (`OpenIsUnshared`) and a
  result row holds results only (`ResultsAreDecided`).

The conditions are needed: over several rounds the late click above violates
`OneFollowUp`. Only liveness (`ClaimIsResolved`, `DecidedIsContinued`) is left
to TLC alone.

### Left out

Posts without a conversation, licence and permission checks and audit records (all
of them are refusals, `Refuse`), the event loop that edits the post text, the
contents of calls and results, and interrupted runs whose calls had all passed
the policy ("Run tools" after a stop).

## 4. WakeScheduling

The waits of one thread and bot. The participants of the thread have a
conversation each; the marker is one for all of them.

### State

| variable | code |
|----------|------|
| `marker` | the KV value under `threadWakeMarkerKey`, or none. A wait is a number, given when it is claimed: the code compares conversation, post and a time in milliseconds, and two waits of one post in the same millisecond are not modelled |
| `job` | the scheduler's row under `wait_wake_<conversation>`: the wait it carries and whether it has been fired but not deleted yet |
| `lock` | the holder of the cluster mutex `wait_resume_<conversation>` |
| `chain` | what `countConsecutiveWakes` returns for the conversation's turns: a message resets it, a wake turn adds one, the turn that records a canceled wait is skipped |
| `pc`, `loc` | where each request or wake goroutine is, and its locals: the conversation, the post it responds to, the marker value it read, the count of wakes |
| `owner`, `shownOn` | `ConversationID` and `ResponsePostID` of each wait |
| `fate`, `resumes` | history: how each wait ended and how many wake turns it produced; `loc.found` is history too |

### Actions

| action | code |
|--------|------|
| `Message`, `Revisit`, `ClickControl` | a message is stored, a response is regenerated or continued after an approval, the requester clicks cancel or check-now |
| `ReadMarker`, `CancelMarker`, `Unschedule` | `cancelThreadWake`: the read, the compare-and-delete, and the scheduler's `Cancel` by key |
| `ClaimMarker`, `ScheduleJob`, `ReleaseMarker`, `EndStream` | `ScheduleWake`, called by the model while a response streams, any number of times; a call that finds a wait pending changes nothing |
| `ReadControl` | `pendingWaitForPost`, then `HandleWaitCancel` or the start of an early resume |
| `LockResume`, `GiveUpLock` | `lockResume`, and its hour |
| `ConsumeToResume`, `DropWake`, `ReadTurns`, `AppendWakeTurn`, `AbandonWake`, `StartStream` | `ResumeConversation` in its order: consume, cancel the trigger if early, read the turns, the gates and the chain limit, append the wake turn, start the stream |
| `Unlock` | `runWake` returns, which is when the stream has *started*; after a crash, the mutex expires |
| `Fire`, `Retire`, `Redeliver` | external, from their use in `server/main.go:563-578` and the comments at `wakeup.go:143-149` and `395-398`: the callback returns at once and the row is deleted afterwards; if the node dies in between, another node fires the job again |
| `Expire` | external: the marker's TTL |
| `Crash` | the node of one task dies |

`Expire` needs that nothing is left that could end the wait. The code arranges this by
a TTL of two hours against 30 minutes of waiting and one hour of queueing
(`wakeup.go:67-71`); the model has the order, not the clock.

### Runs

| run | instance | shows |
|-----|----------|-------|
| `wait_races` | 2 conversations, 2 requests, 2 waits, each job fired up to twice, lost access, failed locks, crashes | types, `WakeChainBounded`, `SteeredAway` (after a message the wait it found is over, whoever owns it), and that the protocol implements `WaitLifecycle` |
| `wait_undisturbed` | one message, up to 4 chained waits, limit 2, fairness | `PendingHasTrigger`, `WaitResumes` |
| `wait_ends` | 2 requests, 2 waits, KV failures, lost access, crashes, fairness | `WaitEnds`: no wait stays pending |

`PendingHasTrigger` and `WaitResumes` hold only in a thread that nobody disturbs and
where no call fails.

### Disagreements

- A cancel consumes the marker by compare-and-set and then deletes the job by the
  conversation's key (`wakeup.go:220`). If the next wait was scheduled in between, its job is
  what is deleted, against lines 210-211; the new wait then ends only by its marker's TTL.
- The mutex is released when a resume's stream has started (`wakeup.go:409`), so a wake
  that resume schedules does not wait for it, against lines 38-40.

### Bounds

`MaxWakes` is 1 to 3 instead of 20, so that the limit is reached; `MaxWaits` 2 lets a
wait be replaced, 4 lets a chain exceed its limit by two. `MaxDeliveries` 2 is one
redelivery. Two requests suffice for steering: one response that schedules a wait, one
that steers, while the wakes run beside them. `wait_races` has no KV failures, because the code
steers best effort: if the marker cannot be read or deleted, the message goes on without
(`wakeup.go:193-208`). `wait_ends` has them.

### Fairness

`FairSpec` asks weak fairness of each started task (`Run`), of the release of its
mutex (the `defer` in `runWake`, or the mutex's expiry), of the scheduler (due jobs
fire, fired jobs are deleted) and of the marker's TTL. Requests and crashes are not fair.
`WF(Run)` is enough for the mutex, although others may take it in turn: in these
instances every wake holds it once.

### Proofs (`WakeSchedulingProofs`)

For any participants, requests, failures, limits and numbers of waits and deliveries:

- `TypeCorrect`: `Spec => []TypeOK`; `resumes \in [Wait -> 0..1]` makes it say that a
  wait wakes its conversation at most once.
- `ChainBounded`: `Spec => []WakeChainBounded`.
- `ImplementsAbstract`: `Spec => Abs!Spec`, with `status` mapped to `fate` and `woken` to
  `resumes`. A claim is `Start`, every consume and the expiry are `End`, the wake turn is
  `Wake`, the rest stutters.
- `MessagesSteer`: if the KV store answers (`"kv" \notin Faults`), `Spec => []SteeredAway`.
- `WaitsAreTriggered`: if one request reaches the thread (`OneRequest`) and nothing fails
  (`Faults = {}`), `Spec => []PendingHasTrigger`, however many wakes follow. The proof shows
  that the request can then only be a message.

`WakeChainBounded` is not inductive, because the count was read steps before the turn is
appended. `WakeInv` adds why that is sound: between its consume and its append a resume
holds the conversation's mutex (`ResumesHoldLock`), so only one of the
conversation can be there and the chain can only have been reset since it counted
(`CountIsCurrent`). That a wait wakes once needs that the marker names the one pending
wait (`MarkerIsPending`), that whoever consumed it is the only one with it
(`WinnersAreUnique`) and that a wait that did not resume has no wake turn
(`OnlyResumedWoke`). `WakeInv` was first checked by TLC on the instance of `wait_races`.
There is one lemma per action. The assumptions are those of `WakeAssumption`.

The proof of the limit does not need the mutex to cover the stream: it is held until
after the append. That two resumes may stream at once does not contradict `ChainBounded`.

The hypotheses of the last two theorems are the ones under which the code makes its
promise: see the bounds above. `SteerInv` says what a steering task knows at each step of the wait it
found: after its read, either that wait is over or it is the one the task will
consume, and a consume that fails shows that it is over. It stays over as waits are numbered
as they are scheduled, so the marker never names an ended one again. `UndisturbedInv`
says that before the one request nothing has happened (`Untouched`), so it finds no wait and
every other task is a wake; and that a job that has fired the pending wait has a wake
which holds it and has not yet reached the marker (`FiredIsOnItsWay`), so the job may be deleted. Both
were first checked by TLC, `SteerInv` on the instance of `wait_races`, `UndisturbedInv` with one request
that may be of any kind, two conversations and four waits.

Only model-checked: liveness.

### Left out

The waiting indicator (`ActiveWaitForConversation`) and its websocket event, which read
only; the check that the clicking user is the requester; the clamping of the requested
duration; the text of the wake turn.

## 5. IndexPass

One job over the posts of a server, started and resumed any number of times, a run at a
time: `runIndexPass` with its goroutines, and what `runIndexJob` does with its outcome.

### State

| variable | code |
|----------|------|
| `stored` | posts in the vector store. A post is its position in the keyset (`CreateAt`, `Id`); the cutoff of the job fixes them. A post the filter drops counts as stored |
| `cursor`, `processedRows`, `cancelRequested` | the KV cursor, and what the job row says of progress and cancellation |
| `sawCancel` | the worker's own copy of the row says cancel_requested (`saveJobStatus`) |
| `skipExisting` | the query has the NOT EXISTS of a catch-up job |
| `fetching`, `fetchCursor`, `fetched`, `fetchErr` | the fetcher: about to poll, fetch, dispatch or queue, or returned |
| `orderedCh` | the channel in fetch order, as long as there are workers. `workCh` has no buffer: a hand-over is one step of both sides |
| `worker`, `inHand`, `attempt`, `result` | each worker, the batch it stores, the attempt, and the result channel of each batch, named by the batch's cursor |
| `committing`, `oldest`, `watermark`, `processed`, `firstErr` | the committer, and then the job: waiting for a batch or a result, checkpointing, joining, reporting |
| `canceled` | the context of the pass |
| `runs` | bounds the number of runs |

The locals of a run are set to fixed values when it ends (`Forget`), `watermark` excepted, which
the refinement reads. The parent context of a pass is never canceled
(`context.Background()`, `indexer_job.go:274,285`), so the branches for it are left out.

### Actions

| action | code |
|--------|------|
| `StartPass` | `StartReindexJob(false)` and `loadCursor`: a run begins at the cursor and with the row's count |
| `CancelJob` | the compare-and-set of the admin's cancel |
| `PollCancel`, `FetchBatch`, `FetchEnds`, `FetchFails`, `Dispatch`, `Queue`, `StopFetching` | the fetcher's loop, one step per call or channel operation |
| `StoreBatch`, `StoreFails`, `WorkerLeaves` | a worker: one attempt to store, which may have taken effect although it failed; the last attempt, a canceled context or a panic ends the worker |
| `TakeBatch`, `ChannelClosed`, `CommitBatch`, `BatchFailed` | `waitForBatch`, `waitForBatchResult` and the committer's loop |
| `Heartbeat`, `HeartbeatCancels` | `heartbeatTick` in either wait: the row is written and then read |
| `SaveCursor`, `SaveRow` | the periodic checkpoint, two writes; when it is due is left open |
| `JoinWorkers` | `wg.Wait`, and the error of the fetcher |
| `FinishJob`, `AcknowledgeCancel`, `SaveCursorOnError`, `SaveRowOnError` | the three outcomes: completed (or canceled after all), canceled, failed |
| `Crash` | the node dies, to be found by the staleness of its heartbeat |

A write of the row is one step: the read and the compare-and-set of `saveJobStatus` are
not separated, as the only other writer of a run's row is the cancel. A write
that loses to it has the effect of one that fails, which `"kv"` in `Faults` allows. The
phases of a job around its main pass (clearing, building the index, repair, the second
pass) and the retries of `finishJob` are in `IndexerJob`.

### Runs

| run | instance | shows |
|-----|----------|-------|
| `pass_resumes` | 2 workers, 5 posts in batches of 2, 2 attempts, a run and a resume, every failure, fairness | types; `ResumeSkipsNothing`; `DispatchedCount`; `QuietAfterReturn`; the pass implements `ResumableScan`; `CancelIsHeard`; `PassEnds` |

### Disagreement

A heartbeat, and the acknowledgement of a cancel (`index_pass.go:354`), write the row's count
without the cursor, so after a cancel the count may be ahead of the cursor the run is resumed with,
against lines 61-62, and a resume counts posts twice.

### Bounds

Two workers finish batches in either order; three batches fill `orderedCh` and block the
fetcher with a batch in hand; a partial page ends the scan. The store begins with two posts in
it (`MCStoredBefore`), so that the catch-up query meets gaps. Two runs are one resume; a third would begin, like the second,
at whatever checkpoint is there. Two attempts are one retry. The theorems are for any of these.

### Fairness

`FairSpec` asks weak fairness of the committer, its ticker, the report of the
outcome, and of what the context interrupts: once it is canceled, a fetch, a store, a dispatch
and a queueing return. It does not ask that a store or a fetch ever returns by itself: `CancelIsHeard` holds even
if the embedding provider hangs, because of the ticker. `PassEnds` adds, as its premise, that fetches
and stores return, with whatever result. For a cancel to be heard, reads of the row must not
fail for ever (`WF(HeartbeatCancels)`).

### Proofs (`IndexPassProofs`)

For any workers, posts, batch size, attempts, runs, failures and previous content of the store:

- `TypeCorrect`: `Spec => []TypeOK`, with the bounds on attempts and on `orderedCh`.
- `SkipsNothing`: `Spec => []ResumeSkipsNothing`.
- `CountsDispatched`: `Spec => []DispatchedCount`.
- `Quiet`: `Spec => QuietAfterReturn`.
- `ImplementsAbstract`: `Spec => Abs!Spec`, with `mark` mapped to `watermark` and `saved` to
  `cursor`. `StoreBatch` and `StoreFails` map to `Store`, `CommitBatch` to `Advance`, the
  writes of the cursor to `Save`, `StartPass` to `Restart`, a completing `FinishJob` to `Complete`.

That the checkpoint is behind what is stored is not inductive: one has to know why a watermark may
move over a batch. `PassInv` says that (a) a cursor names one live batch and none is ahead of the
fetcher (`LiveBatches`), so that a result "ok" means that *this* batch is stored
(`ResultsAreTrue`); (b) while the committer loops, every post up to the fetcher's cursor is stored or
in a batch it has yet to see, and every post up to the cursor of the i-th queued batch is stored or in
one of the first i (`LoopCovered`), with nothing between the last batch and the fetcher (`LastCursor`); (c) a fetcher
that came to the end left nothing behind (`FetchedAll`), which makes a clean outcome complete
(`Outcomes`); (d) a pass that returned has no worker (`WorkersInPass`), and between runs nothing is in memory
(`Idle`). `InOrder`, that cursors rise along the queue, is what the refinement adds, since
`Advance` never moves the mark back. The posts that the catch-up query leaves out between two batches are covered
because they are stored. `PassInv` was first checked by TLC. There is a lemma per group of actions.

Only model-checked: liveness.

### Left out

Two runs at a time (see `IndexerJob`), posts that appear or
change during the job, and the numbers themselves (500 posts, two minutes, backoff).

## 6. ToolLoop

The replies and regenerations of one conversation: for each run the goroutine of the tool
loop (`toolrunner/toolrunner.go`), the goroutine of the post stream
(`streaming/streaming.go`), the events between them, and the turns both write.

### State

| variable | code |
|----------|------|
| `turns` | the conversation's turns in sequence order: a user's message, the `tool_use` and the result row of a round, the anchor of a response with what its accumulator held |
| `contexts`, `canceled` | `MMPostStreamService.contexts` of the node, and which streaming contexts have been canceled |
| `loop` | per run its post, the flow that started it, its place in `runLoop`, the round, how many rounds are to deliver (`made`) and how many of their rows are `written`, the streak of failures, whether tools are disabled, the event to end with |
| `out` | the events between loop and stream. `runLoop` sends on an unbuffered channel; each decorating stage holds one |
| `stream` | per run where `streamToPostImpl` is, and the accumulator (text and calls, named by their round) |
| `stops` | history: the runs a stop was meant for |

Three flows differ in the context the loop runs on (`LoopCanceled`). A reply to a direct
message gives the loop a context of its own, released when its consumer is gone
(`handle_messages.go:461-522`, `conversations.go:222-330`); a mention gives it the context of the post hook; a
regeneration the streaming context itself. Of a batch of calls the model keeps how it
ends: run, rejected as a whole, or awaiting a decision; and how many failures it counts.

### Actions

| action | code |
|--------|------|
| `Reply`, `Regenerate`, `FirstCall`, `FirstCallFails` | a message is stored and the model called; or the post is registered, the response scrubbed (`DeleteResponseTurns`) and the model called |
| `StopStreaming` | cancels the context registered on the post and leaves it registered |
| `ForwardText`, `AnswerEnds`, `StreamFails` | `drainStream` and what it returns |
| `CallsTools`, `RejectsBatch`, `AsksUser`, `SendExecuting`, `ExecuteTools`, `SendResolved`, `CallModel` | a round in the order of `runLoop`; each send either hands the event over or sees its context canceled |
| `WriteToolTurn`, `SendLast` | `deliverToolTurns`, one insert at a time, then the last event and the close of the channel |
| `ReadEvent`, `StopReading`, `finalizeTurn`, `FinishStreaming` | the stream: accumulate, stop at an end, an error, a closed channel or a canceled context, write the anchor, let the post go |

### Runs

| run | instance | shows |
|-----|----------|-------|
| `tool_loop` | a direct message's reply and its regeneration, two rounds and one, failing model calls, stops at any time, fairness | `RoundsRecorded`: every completed round is in the conversation once, whichever of the exits the loop took; `NothingRecordedTwice`; `RoundsPrecedeAnchor`; `CanceledByItsOwn`; `ToolsStayDisabled`; `RunEnds` |
| `stop_misses_mention` | one reply to a mention | **violated** (`RunEnds`): nothing cancels the context of a mention's loop (`handle_messages.go:369` against 378), so after a stop it can wait for ever in a send nobody reads, and its rounds are never recorded |

`CHECK_DEADLOCK` is off in both: when every run is over, nobody has to start another.

### Bounds and fairness

Two runs are a response and its replacement; a third would meet the same post in one of the states
the second meets. The caps 2 and 1 let a round follow a round and let the cap be reached by the first
round; `FailureLimit` 2 lets one batch reach it and two batches. `Depth` 1 is the channel
and one stage: every send can block. `FairSpec` asks weak fairness of the two goroutines of
every run: the scheduler runs them, the provider closes its streams and tools
return. Nobody has to stop, regenerate or write.

### Disagreements

- `NothingRecordedTwice` and `RoundsPrecedeAnchor` are about responses nobody stopped. A stop can fall between a round's
  completion and the event that announces it: the stream then writes the round's
  calls into the anchor as pending, and the loop delivers the same round. It can also
  let the anchor be written before the rounds.
- The rounds are said to be delivered "before the final text response starts streaming"
  (`toolrunner.go:153-155`). They are delivered when that response has ended (line 280); on
  an error after it was forwarded.
- A regeneration scrubs what lies between the anchor and the latest user turn before it
  (`store/turns.go:184-210`). After a stop that wrote the anchor early, the rounds behind it stay; and if
  another message of the conversation arrived before the anchor was written, the turns
  of other responses can be scrubbed with it.

### Proofs (`ToolLoopProofs`)

For any posts, runs, caps and faults, any depth of the stages, and either flow of a reply:

- `TypeCorrect`: `Spec => []TypeOK`; rounds stay within the run's cap, and what is written never
  exceeds what was made.
- `ToolsStayOff`: `Spec => ToolsStayDisabled`.
- `CanceledByOwnStop`: `Spec => []CanceledByItsOwn`.
- `AnchorHoldsLastRound`: `Spec => []NothingRecordedTwice`, and `RoundsComeFirst`:
  `Spec => []RoundsPrecedeAnchor`.
- `RoundsAreRecorded`: `Spec => []RoundsRecorded`.

The invariants build on each other; TLC checked each on the instance of `tool_loop` (and the one of the rounds
with two posts, as far as it got) before it was proved.

1. `BaseInv`: the types; for each place of the loop what its counters are (`LoopFits`: a round
   that is open has `made = round`, one that is resolved `made = round + 1`; tools that are still enabled
   mean that no cap is reached); a stream exists from the first call on. `ToolsStayOff` follows.
2. `ContextInv`: from its registration until its stream lets go, a run is what its post is registered to
   (`OwnsPost`). This is why `FinishStreaming`, which cancels whatever is registered, hits its own run.
3. `PipeInv` relates the loop to a stream that lags behind it. Among the events on their way there is a last
   one that takes back what the accumulator holds, and after it only rounds that are not recorded
   are spoken of (`Settled`); without one this holds of the accumulator itself. The end is the last event
   (`EndsLast`). So a stream nobody stopped has read everything (`ReadsToEnd`), and what it then holds is new.
   Neither of the two properties of anchors is inductive without this: they speak of the turns, and the reason
   lies in the queue.
4. `TurnInv`: anchors hold only what is of their own run, and the two properties themselves. The one
   write after an anchor that could break them, a round's turn, is excluded because the loop
   of an anchored run nobody stopped is over.
5. `RecordInv`: the turns of a run's rounds are exactly the first `written` of them, each once and in
   order (`RecordFits`), for the runs after which no regeneration began. A loop that is over has
   written all it made.

`RoundsRecorded` was first stated for the runs no later run of *their post* has scrubbed. That cannot be proved, because with two
posts it is false, for the reason under "Disagreements": a regeneration of one post can scrub
the rounds of another. It now excludes every run a regeneration came after; for a single post
both say the same.

Only model-checked: `RunEnds`.

### Left out

A store that fails, crashes (a crash loses the rounds not yet delivered), continuation after a decision
(`ToolApproval`), a Regenerate of a placeholder, the context of the HTTP request of a
regeneration, the throttled edits of the post, and the stage that attaches created
files, which stays behind when its reader stops.

## 7. IndexerJob

The exclusive jobs of the indexer, on any nodes: a full reindex, its resume, a catch-up and
a rebuild of the vector index. What a pass does inside is `IndexPass`; here it stores the posts of
the cutoff one by one, and everything around it is modelled.

### State

| variable | code |
|----------|------|
| `row`, `stale` | KV `ReindexJobKey`: job id, status, operation, resumable, clear; and whether its heartbeat is older than `StaleJobThreshold` |
| `seen` | who has read the row's current value. A compare-and-set succeeds if nobody wrote since; every write changes the value, by its heartbeat |
| `cursor`, `lastIndexed` | KV `IndexerCursorKey` and `IndexerLastIndexedKey` |
| `marker` | KV `VectorIndexStateKey`: the job that claimed it and its phase (dropped, building, repairing) |
| `indexExists`, `vectors` | the catalog of PostgreSQL, and the posts with an embedding |
| `admin`, `request` | the start that holds the cluster mutex |
| `worker`, `mine`, `claim`, `pos` | per job where `runIndexJob` is, its copy of the row, its claim of the marker (`deferredRun`), and how far its pass is |
| `activation`, `observed`, `activations` | the activation of a plugin node |
| `stalls` | history: the jobs whose worker was alive when its row became stale |
| `strays` | history: who holds a cursor that comes from a rebuild: the KV key itself (`CursorKey`), and the jobs that began their pass at it |

### Actions

| action | code |
|--------|------|
| `beginExclusiveJob`, `commit`, `ResetCursor`, `CursorDeleteFails`, `resolveDeferredRebuild`, `ResolveFails`, `SpawnCatchUp` | a start: refuse or read, compare-and-set the row, reset the cursor, claim the marker, spawn |
| `CancelJob` | the admin's cancel, excluded from starts by the mutex |
| `Begin`, `ConfirmClaim`, `PrepareBulkIndex`, `PrepareFails`, `abandonUndroppedClaim`, `Clear`, `ClearFails`, `loadCursor` | a worker up to its pass: confirm the claim and drop the index, or resume a pending repair, truncate, find where to begin |
| `StorePost`, `saveCursor`, `EndPass`, `StepFails`, `HearCancel`, `heartbeatTick` | the pass, its checkpoints and its heartbeats; `saveCursor` is also the checkpoint of the second pass, which saves a cursor past the cutoff, for a rebuild as well (`indexer_job.go:777`, `index_pass.go:197-198`) |
| `StartBuild`, `BuildIndex`, `BuildFails`, `EndBuild`, `reindexEditedPosts`, `clearVectorIndexState`, `runCatchUpPass` | the end of a deferred job |
| `SaveErrorCursor`, `ReadToFail`, `FailJob`, `ReadToAcknowledge`, `acknowledgeCancel`, `ReadToFinish`, `finishJob`, `AfterCompletion` | the three outcomes, each a read and a compare-and-set; `finishJob` tries again |
| `ActivateGated`, `ConstructIndex`, `ReadOrphan`, `MarkOrphanedJobAsFailed`, `ReadMarker`, `ReconcileVectorIndexState` | a node comes up while anything else goes on: the store's constructor builds the index, an orphaned job is marked, a marker that disagrees with the catalog is corrected |
| `GrowStale`, `WorkerDies`, `StartDies` | time and crashes |

A worker may be taken for dead while it lives only in the statements that run without a
heartbeat (`GrowStale`): the DROP, the TRUNCATE and the delete of stale rows.

`strays` decides nothing in the model. `WriteCursor` puts the key in it when a rebuild, or a job
that itself began at a rebuild's cursor, saves the cursor, and takes it out when any other job
does; deleting or setting the cursor at a start or after a completion takes it out too. So the
set heals where the code heals: a later full reindex that deletes the cursor is no longer excepted from anything.

### Run

`indexer_jobs`: two posts, four jobs of any operation, an activation, the strategy "defer", crashes, failing
steps and DDL, a search that is not configured when the job begins, and among the first two jobs stalls.

- `SearchGate`: while no worker outlived its heartbeat, a vector index that is missing is covered by a marker that
  keeps searches away, whoever died where.
- `CompletedCoversAll`: a job that embeds and completed has every post stored, after any sequence of
  failures, cancels, resumes and other jobs, again without stalled workers, unless it began at a
  cursor a rebuild left (`strays`).
- `RowForward`: the row never returns to an earlier run, a cancel request is not overwritten by a
  heartbeat or a completion, a terminal row stays. The first two also with stalled workers.

Two posts are a prefix that is stored and a rest. Four jobs, after job 0 which completed, are what the longest
hazard known takes: a full reindex that dies in its pass, a rebuild that saves the cursor in its
second pass, a full reindex whose start dies before it deletes the cursor, and a resume. A worker that
outlives its heartbeat and its successor are two jobs (`MaxStallJobs`: such a worker is of one of the first two
jobs, and then no third is started); with a third one the state space is beyond TLC. `View` forgets what no step reads
again: the memory of workers that ended, the claim and the position of those past the build, where earlier runs
began, and which workers stalled. Jobs and activations are finite, so the deadlock check is off.

### Disagreements

- `saveCursor` is not scoped to a job (`indexer_job.go:602-606`), nor is what a worker does to the vector
  store: a worker that outlived its heartbeat truncates, or moves the cursor, under its successor, which then
  completes without every post. This is why the two invariants exclude `stalls`.
- A rebuild leaves a cursor behind. `handleJobError` saves none for it ("Rebuild jobs are not
  cursor-resumable", `indexer_job.go:529-530`), but the checkpoints of its second pass
  save one past the cutoff (`indexer_job.go:441`, `777`; `index_pass.go:197-198`), and its completion
  does not delete it (`rebuild_vector_index.go:87`). A start of a full reindex that then dies between its
  commit and its delete (`indexer.go:191-198`), or whose delete fails, leaves a row that can be resumed, and the resume, which
  should "resume from where it left off (if applicable)" (`indexer.go:137`), begins at the rebuild's cursor. If a full
  reindex before the rebuild died in its pass, its posts are never embedded and the row says completed.
  `CompletedCoversAll` excepts exactly the jobs that began at such a cursor. The violation is not among the runs, but
  without the conjunct `row.job \notin strays` TLC finds it on the instance of `indexer_jobs`.
- A stalled worker whose row was marked failed by an activation brings it back to running with its next heartbeat, since
  the job id is still its own.
- A rebuild "must not paper over" an unfinished full reindex (`rebuild_vector_index.go:30-32`), but one whose
  node died is marked resumable by an activation (`indexer.go:652`) and no longer counts as one: the
  rebuild starts, completes, and the row says completed over an incomplete store.

### Proofs (`IndexerJobProofs`)

For any numbers of posts, jobs, stalls and activations, both strategies and any faults:

- `TypeCorrect`: `Spec => [](TypeOK /\ JobInv)`.
- `SearchIsGated`: `Spec => []SearchGate`.
- `RowMovesForward`: `Spec => RowForward`.
- `CompletionCovers`: `Spec => []CompletedCoversAll`.

`JobInv` holds whoever outlives a heartbeat: the start under the mutex owns the row it wrote
(`StartOwnsRow`), each worker's copy of the row and its claim fit the place it is at
(`WorkersFit`), and whoever may still compare-and-set the row has read it as it is
(`ReadersAreCurrent`). With it the row moves forward. The other two invariants have the form `stalls = {} => ...`, like
the properties: `GateInv` says that one worker at most is alive and has the row
(`OneLive`), that no marker is newer than the row and an activation corrects only what no worker owns
(`MarkersAreOld`), that a claim not yet released is what the marker says (`ClaimsHold`), and that
the index exists or the search is gated. `CoverInv` says what is stored at each place of a worker, and that
everything up to the cursor is, unless the cursor is a rebuild's (`CursorKey \in strays`) or the worker
began at such a one (`j \in strays`); that a start which is to empty the store has deleted the cursor
(`NoCursor`), whoever left it, makes it inductive. No assumption is added to the ones of the module.

The proof found a flaw of the model: two guards of the `CASE` that computes a worker's claim
overlapped, and TLC had always taken the first. The guards are now disjoint, as the early returns of
`resolveDeferredRebuild` are.

### Left out

Edits by post hooks (the window between the gate and the start time of the build), posts newer than the cutoff (the
second pass stores them; its checkpoints are modelled, since the cursor is shared), the identity of the embedding model, retention, failing writes of the
cursor, and liveness: an admin has to resume, and no step of the code does.

## 8. OAuthGrant

One user's OAuth grant for the MCP servers that are configured, one after another, under one
name. Three parties write it without a lock: the token sources of the user's connections, one per node;
sign-in and disconnect; the sweep after a configuration save.

### State

| variable | code |
|----------|------|
| `stored` | the KV entry: the sign-in it stems from, access and refresh token by number, the origin and the configured id it is bound to. An entry of id 0 was stored before ids were minted |
| `lease` | the KV entry of the refresh lease |
| `source` | per node the connection's `persistingTokenSource`: where its `Token()` is, the envelope it holds, the token endpoint's answer, whether it is being closed |
| `issuer` | external, the authorization server: per sign-in whether it is live, its current refresh token, how many access tokens it issued and how many have expired. A used refresh token revokes the sign-in (`replayed`); `lost` is history: an answer did not reach the store |
| `signIn`, `disconnect` | the requests of the user |
| `saved`, `config`, `sweep` | the server of the name in the database, as each node last loaded it, and the sweep of stored grants |
| `budget` | counts what is bounded |

### Actions

| action | code |
|--------|------|
| `TokenSource` | a tool call opens the node's connection with the grant that fits its configuration; the load binds a grant without an id |
| `clearGrantOrAdopt`, `refreshUnderLease`, `waitForConcurrentRefresh`, `ReloadUnderLease`, `refreshGrant`, `persistRefreshedGrant`, `ClearDeadGrant`, `releaseRefreshLease` | `Token()` with an expired token, one step per access to the KV store or the token endpoint |
| `RequestFails`, `AnswerLost`, `Crash`, `InvalidateUserClients` | failures, and connections closed under a call |
| `LeaseExpires`, `TokenExpires` | time |
| `initiateOAuthFlow`, `ProcessCallback`, `ProcessOAuthCallback` | a sign-in: started for a server, checked against the configuration when the code arrives, stored afterwards |
| `revokeGrantBeforeDelete`, `DisconnectUserOAuth` | the user's disconnect |
| `SaveConfig`, `ConfigUpdate`, `ListKeys`, `ClearServerOAuthState` | a save on one node, its event on the others, the sweep in its two steps |

### Runs

| run | instance | shows |
|-----|----------|-------|
| `oauth_races` | 2 nodes, 2 sign-ins, a refresh, a disconnect, one failure, fairness | `NoReplay`, `NeverResurrected`, `DeadGrantIsCleared` |
| `oauth_moves` | 2 nodes, 2 origins, one sign-in, 2 saves, one failure | `OnlyItsServer`: no connection holds a grant issued for another server |

`NoReplay` assumes that a lease outlives the refresh it protects (`MaxStalls` 0: 35 s against a timeout of 30 s) and
that the reload under it succeeds (`ReadsFail` FALSE). With either, TLC finds a replay: after a failed reload the code sends the refresh token
it has held since the connection was opened (`oauth_handler.go:333-339`).

### Bounds and fairness

Two nodes are a holder and a rival; two sign-ins a grant and what replaces it; of the first a token can be refreshed once, so
the old and the new token are both around. Two saves move a server and move it back, or replace it and remove it. One failure is a lost
answer, a crash or a closed connection, after which the rest runs undisturbed. Nodes and origins are interchangeable in
`oauth_moves`, which has no fairness. At its bound the server stops issuing
tokens, which to a client is a failing endpoint. Saves wait for the sweep of the one before.

`FairSpec` asks that the user keeps calling tools (a call opens a connection and asks it for a token), that
handlers, sweeps and nodes with a save to hear of go on, that time passes and the lease's TTL ends it. `DeadGrantIsCleared` needs all of
these: nobody but a token source discovers that a grant is dead.

### Disagreements

- "There is no competing writer" of a refresh under the lease (`oauth_handler.go:376-382`). Binding a grant
  without an id writes the entry without the lease, as sign-in and disconnect do; the refreshed grant then
  loses its compare-and-set and the rotated token is gone.
- The identity of a connection does not contain the configured id (`connection_identity.go`): a server that one save
  replaces by another of the same name and URL keeps its open connections and their grant, against `oauth_store.go:90-95`. The
  sweep still deletes the stored one.
- A disconnect revokes the grant it loaded; a token rotated between that and the delete stays live at the authorization server.

### Proofs (`OAuthGrantProofs`)

For any nodes, origins and sign-ins and any bounds:

- `TypeCorrect`: `Spec => []TypeOK`.
- `ServerBound`: `Spec => []OnlyItsServer`.
- `StoreMovesForward`: `Spec => NeverResurrected`.
- `NeverReplayed`: `Spec => []NoReplay`, assuming `MaxStalls = 0` and `ReadsFail = FALSE`.

`GrantInv` follows a grant: it stems from a sign-in that is over, is bound to the server that sign-in
was for and is not newer than what the authorization server issued (`Known`); a connection's grant fits its server
(`FitsServer`); an answer continues the grant its request was sent with (`Answered`); a sign-in has its grant issued
once (`SignInChecked`). `ServerBound` and `StoreMovesForward` follow from it.

`ReplayInv` is about the refresh tokens: who is under the lease holds it (`LeaseHeld`), and what
is sent is what is stored (`SentIsStored`), which is what the server expects unless the
answer with the next token is on its way (`StoredIsCurrent`, `AnswerIsCurrent`). The two hypotheses of
`NeverReplayed` are what the code relies on, and the run assumes the same; without
either the property is false, as said above.

Only model-checked: `DeadGrantIsCleared`.

### Left out

Static credentials, and with them the second request of a refresh: only where no known
authentication method is pinned, as with static credentials, the code tries the same token again with another
method after an error other than `invalid_grant` (`oauth_refresh.go:143-161`, `166-182`); a failing
`refreshCredentials` counts as one of the bounded faults (`RequestFails`). Entries of version 0, discovery and registration of clients, the
auth-needed flag, the TTL of sign-in sessions, and more than one connection per node.

## 9. Not modelled, and why

Rows 7 to 10 of the plan are not modelled yet; `PROJECT.json` has a line for each component. LLM
providers, prompts, formatting, search ranking, chunking, the MCP server and the webapp's
rendering convert data or perform I/O; the HTTP API, access control and licences decide
whether an operation starts and have no state of their own. These are most of the code by
lines: what the modules cover is the part where processes, goroutines, retries and crashes meet over shared state.
Liveness is model-checked only: the prover reasons neither about fairness nor about `ENABLED`. Every
invariant and every safety action property of the runs is stated by a theorem, some of them under
the conditions that their sections name.
