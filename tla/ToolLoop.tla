------------------------------ MODULE ToolLoop ------------------------------
(***************************************************************************)
(* One response of an agent: the tool loop of toolrunner/toolrunner.go     *)
(* that calls the model and runs its tools, the post stream of             *)
(* streaming/streaming.go that consumes its events, and what the two write *)
(* to the conversation's turns (store/turns.go), for the replies to        *)
(* messages and the regenerations of conversations/.                       *)
(*                                                                         *)
(* Runs are numbered in the order they start.  The loop and the stream of  *)
(* a run are two goroutines joined by the stages that decorate the stream; *)
(* out[r] is what is on its way between them, at most Depth events.        *)
(*                                                                         *)
(* A round is one call of the model.  Of a round's tool calls the model    *)
(* keeps how the batch ends: run successfully, failing calls that count    *)
(* against the retry limit, or awaiting a decision of the user.            *)
(***************************************************************************)
EXTENDS Integers, Sequences, SequencesExt

CONSTANTS
  Post,         \* the response posts of one conversation
  NoRun,        \* no run
  ReplyFlow,    \* how a reply starts its loop: "dm" or "mention"
  MaxRuns,      \* bound on the runs
  maxRounds,    \* the agent's cap of tool rounds when each run starts
  FailureLimit, \* llm.MaxConsecutiveToolCallFailures
  Depth,        \* events the stages between loop and stream hold
  Faults        \* what can go wrong: "llm" a call of the model fails

ASSUME LoopAssumption ==
  /\ NoRun \notin Nat
  /\ ReplyFlow \in {"dm", "mention"}
  /\ MaxRuns \in Nat /\ maxRounds \in [1..MaxRuns -> Nat \ {0}]
  /\ FailureLimit \in Nat \ {0} /\ Depth \in Nat \ {0}
  /\ Faults \subseteq {"llm"}

Run == 1..MaxRuns

VARIABLES
  turns,     \* the turns of the conversation in sequence order
  contexts,  \* the run registered on each post (MMPostStreamService.contexts)
  loop,      \* the tool loop of each run
  out,       \* the events between a run's loop and its stream
  stream,    \* the post stream of each run
  canceled,  \* the runs whose streaming context is canceled
  stops      \* the runs registered on a post when a stop named it

vars == <<turns, contexts, loop, out, stream, canceled, stops>>

-----------------------------------------------------------------------------
(* The turns of the conversation.                                          *)

Turn(kind, post, r, round) ==
  [kind |-> kind, post |-> post, run |-> r, round |-> round,
   calls |-> {}, text |-> {}]

\* The tool_use and the tool_result turn of a round.
Use(r, round) == Turn("use", loop[r].post, r, round)
Result(r, round) == Turn("result", loop[r].post, r, round)

AnchorsOf(p) ==
  {i \in DOMAIN turns : turns[i].kind = "anchor" /\ turns[i].post = p}

\* The latest user turn before position a, 0 without one.
UserTurnBefore(a) ==
  LET before == {i \in 1..(a - 1) : turns[i].kind = "user"}
  IN IF before = {} THEN 0 ELSE Max(before)

\* DeleteResponseTurns: everything after the latest user turn before the
\* anchor, up to the anchor.
DeleteResponseTurns(p) ==
  turns' =
    IF AnchorsOf(p) = {} THEN turns
    ELSE LET a == CHOOSE i \in AnchorsOf(p) : TRUE
         IN SubSeq(turns, 1, UserTurnBefore(a))
              \o SubSeq(turns, a + 1, Len(turns))

-----------------------------------------------------------------------------
NoLoop ==
  [post |-> NoRun, flow |-> "none", pc |-> "unborn", round |-> 0, made |-> 0,
   written |-> 0, streak |-> 0, toolsDisabled |-> FALSE,
   last |-> "none", said |-> FALSE]

\* pc of the stream: "none", "reading", "finalizing", "leaving", "gone".
NoStream == [pc |-> "none", text |-> {}, calls |-> {}]

Init ==
  /\ turns = <<>>
  /\ contexts = [p \in Post |-> NoRun]
  /\ loop = [r \in Run |-> NoLoop]
  /\ out = [r \in Run |-> <<>>]
  /\ stream = [r \in Run |-> NoStream]
  /\ canceled = {} /\ stops = {}

NextRun == CHOOSE r \in Run : loop[r].pc = "unborn"
                              /\ \A s \in 1..(r - 1) : loop[s].pc # "unborn"
CanStart == \E r \in Run : loop[r].pc = "unborn"

\* The context the loop runs on: the streaming context itself, the loop's own
\* (released when the stream is gone), or one nobody cancels.
LoopCanceled(r) ==
  CASE loop[r].flow = "shared"  -> r \in canceled
    [] loop[r].flow = "dm"      -> stream[r].pc = "gone"
    [] loop[r].flow = "mention" -> FALSE

Goto(r, pc) == loop' = [loop EXCEPT ![r].pc = pc]

-----------------------------------------------------------------------------
(* Starting a run: a reply to a message, or a regeneration.                *)

\* A user's message: its turn is stored, the request built and the model
\* called for the first time.  The placeholder post is not registered yet.
Reply(p) ==
  /\ CanStart
  /\ \A r \in Run : loop[r].post # p
  /\ turns' = Append(turns, Turn("user", p, NoRun, 0))
  /\ loop' = [loop EXCEPT ![NextRun].post = p, ![NextRun].pc = "first",
                          ![NextRun].flow = ReplyFlow]
  /\ UNCHANGED <<contexts, out, stream, canceled, stops>>

\* GetStreamingContext fails while a run is registered on the post.
GetStreamingContext(p, r) ==
  /\ contexts[p] = NoRun
  /\ contexts' = [contexts EXCEPT ![p] = r]

\* A regeneration, offered once the answer has ended: it registers, then
\* scrubs the response and calls the model.  Of the runs before it that are
\* over nothing matters any more but that they are.
Regenerate(p) ==
  /\ CanStart
  /\ \E r \in Run : loop[r].post = p /\ stream[r].pc \in {"leaving", "gone"}
  /\ GetStreamingContext(p, NextRun)
  /\ DeleteResponseTurns(p)
  /\ loop' = [r \in Run |->
       IF r = NextRun THEN [NoLoop EXCEPT !.post = p, !.pc = "first",
                                          !.flow = "shared"]
       ELSE IF loop[r].pc = "done" /\ loop[r].post = p
            THEN [NoLoop EXCEPT !.post = p, !.pc = "done", !.flow = loop[r].flow]
            ELSE loop[r]]
  /\ UNCHANGED <<out, stream, canceled, stops>>

\* The first call of the model: the loop starts and the post is streamed to.
\* A reply registers its post only now.
FirstCall(r) ==
  /\ loop[r].pc = "first"
  /\ Goto(r, "open")
  /\ stream' = [stream EXCEPT ![r].pc = "reading"]
  /\ IF loop[r].flow = "shared" THEN UNCHANGED contexts
     ELSE GetStreamingContext(loop[r].post, r)
  /\ UNCHANGED <<turns, out, canceled, stops>>

\* The first call fails, or is canceled by a stop: no loop, no stream.
FirstCallFails(r) ==
  /\ loop[r].pc = "first"
  /\ "llm" \in Faults \/ LoopCanceled(r)
  /\ Goto(r, "done")
  /\ stream' = [stream EXCEPT ![r].pc =
                  IF loop[r].flow = "shared" THEN "leaving" ELSE "gone"]
  /\ UNCHANGED <<turns, contexts, out, canceled, stops>>

\* As if a stop also removed the run's registration.
StopStreamingFrees(p) ==
  /\ contexts[p] # NoRun
  /\ contexts[p] \notin canceled
  /\ canceled' = canceled \cup {contexts[p]}
  /\ stops' = stops \cup {contexts[p]}
  /\ contexts' = [contexts EXCEPT ![p] = NoRun]
  /\ UNCHANGED <<turns, loop, out, stream>>

\* The requester stops the response.  The run stays registered.
StopStreaming(p) ==
  /\ contexts[p] # NoRun
  /\ contexts[p] \notin canceled
  /\ canceled' = canceled \cup {contexts[p]}
  /\ stops' = stops \cup {contexts[p]}
  /\ UNCHANGED <<turns, contexts, loop, out, stream>>

-----------------------------------------------------------------------------
(* The tool loop (runLoop).                                                *)

Event(kind, r, phase) == [kind |-> kind, round |-> loop[r].round, phase |-> phase]

\* send: blocks until the event is taken, gives up once the loop's context is
\* canceled.  Once a reply's consumer is gone the stages of its stream drop
\* what the loop sends (endSpanOnStreamClose).
Sent(r, event) ==
  IF loop[r].flow = "dm" /\ stream[r].pc = "gone" THEN UNCHANGED out
  ELSE Len(out[r]) < Depth /\ out' = [out EXCEPT ![r] = Append(@, event)]
\* As if the loop sent with a plain send.
PlainSendOnly(r) == FALSE /\ UNCHANGED out

SendFails(r) == LoopCanceled(r) /\ UNCHANGED out

UnchangedByLoop == UNCHANGED <<contexts, stream, canceled, stops>>

\* The loop is left: deliverToolTurns, then what last says.  What only the
\* rounds needed is forgotten.
ThenDeliver(r, last) ==
  loop' = [loop EXCEPT ![r].pc = "deliver", ![r].last = last,
                       ![r].streak = 0, ![r].said = FALSE,
                       ![r].toolsDisabled = FALSE]

\* drainStream forwards text as it arrives.
ForwardText(r) ==
  /\ loop[r].pc = "open" /\ ~loop[r].said
  /\ loop' = [loop EXCEPT ![r].said = TRUE]
  /\ Sent(r, Event("text", r, "none")) \/ SendFails(r)
  /\ UnchangedByLoop /\ UNCHANGED turns

\* As if the end were sent before the rounds are delivered.
AnswerEndsFirst(r) ==
  /\ loop[r].pc = "open"
  /\ ThenDeliver(r, IF LoopCanceled(r) THEN "stop" ELSE "end")
  /\ Sent(r, Event("end", r, "none"))
  /\ UnchangedByLoop /\ UNCHANGED turns

\* The provider's stream closes after a final answer.  A provider that calls
\* tools although they are disabled is treated alike.
AnswerEnds(r) ==
  /\ loop[r].pc = "open"
  /\ ThenDeliver(r, IF LoopCanceled(r) THEN "stop" ELSE "end")
  /\ UnchangedByLoop /\ UNCHANGED <<turns, out>>

\* As if an error left the loop without delivering its rounds.
StreamFailsUndelivered(r) ==
  /\ loop[r].pc = "open" /\ "llm" \in Faults
  /\ Sent(r, Event("error", r, "none")) \/ SendFails(r)
  /\ Goto(r, "done")
  /\ UnchangedByLoop /\ UNCHANGED turns

\* The provider's stream fails: drainStream forwards the error at once, the
\* rounds are delivered after it.
StreamFails(r) ==
  /\ loop[r].pc = "open" /\ "llm" \in Faults
  /\ Sent(r, Event("error", r, "none")) \/ SendFails(r)
  /\ ThenDeliver(r, "stop")
  /\ UnchangedByLoop /\ UNCHANGED turns

\* CountTrailingFailedToolCalls after a batch: a success ends the streak, the
\* failures of a meta-tool or of a skipped call leave it as it is.  Nothing
\* above the limit matters.
FailureStreak(r, ok, fails) ==
  IF ok THEN 0
  ELSE IF loop[r].streak + fails > FailureLimit THEN FailureLimit
  ELSE loop[r].streak + fails

\* The round joins the rounds to deliver.
appendToolTurnAndPost(r, ok, fails) ==
  loop' = [loop EXCEPT ![r].pc = "resolved", ![r].made = @ + 1,
                       ![r].streak = FailureStreak(r, ok, fails)]

\* The provider's stream closes with tool calls the policy all approves.
CallsTools(r) ==
  /\ loop[r].pc = "open" /\ ~loop[r].toolsDisabled
  /\ IF LoopCanceled(r) THEN ThenDeliver(r, "stop") ELSE Goto(r, "executing")
  /\ UnchangedByLoop /\ UNCHANGED <<turns, out>>

\* A call of the batch is unavailable or malformed: the batch fails without
\* running (rejectedToolBatchResults).
RejectsBatch(r) ==
  /\ loop[r].pc = "open" /\ ~loop[r].toolsDisabled /\ ~LoopCanceled(r)
  /\ \E fails \in 0..FailureLimit : appendToolTurnAndPost(r, FALSE, fails)
  /\ UnchangedByLoop /\ UNCHANGED <<turns, out>>

\* The policy does not approve some call: the rounds so far are delivered and
\* the batch is put to the user.
AsksUser(r) ==
  /\ loop[r].pc = "open" /\ ~loop[r].toolsDisabled
  /\ ThenDeliver(r, IF LoopCanceled(r) THEN "stop" ELSE "ask")
  /\ UnchangedByLoop /\ UNCHANGED <<turns, out>>

\* The batch is announced as executing, then its tools run.
SendExecuting(r) ==
  /\ loop[r].pc = "executing"
  /\ \/ Sent(r, Event("batch", r, "executing")) /\ Goto(r, "tools")
     \/ SendFails(r) /\ ThenDeliver(r, "stop")
  /\ UnchangedByLoop /\ UNCHANGED turns

\* executeTools.  A loop canceled while the tools ran drops the round.
ExecuteTools(r) ==
  /\ loop[r].pc = "tools"
  /\ \/ LoopCanceled(r) /\ ThenDeliver(r, "stop")
     \/ ~LoopCanceled(r) /\ appendToolTurnAndPost(r, TRUE, 0)
     \/ /\ ~LoopCanceled(r)
        /\ \E fails \in 0..FailureLimit : appendToolTurnAndPost(r, FALSE, fails)
  /\ UnchangedByLoop /\ UNCHANGED <<turns, out>>

\* As if only a round past the cap took the tools away.
finishToolRoundLate(r) ==
  loop' = [loop EXCEPT ![r].pc = "call",
                       ![r].toolsDisabled =
                          \/ @
                          \/ loop[r].streak >= FailureLimit
                          \/ loop[r].round + 1 > maxRounds[r]]

\* finishToolRound: the cap of rounds or of consecutive failures takes the
\* tools away; then the model is called again.
finishToolRound(r) ==
  loop' = [loop EXCEPT ![r].pc = "call",
                       ![r].toolsDisabled =
                          \/ @
                          \/ loop[r].streak >= FailureLimit
                          \/ loop[r].round + 1 >= maxRounds[r]]

SendResolved(r) ==
  /\ loop[r].pc = "resolved"
  /\ \/ Sent(r, Event("batch", r, "resolved")) /\ finishToolRound(r)
     \/ SendFails(r) /\ ThenDeliver(r, "stop")
  /\ UnchangedByLoop /\ UNCHANGED turns

\* The next round's call of the model; an error follows the rounds.
CallModel(r) ==
  /\ loop[r].pc = "call"
  /\ \/ loop' = [loop EXCEPT ![r].pc = "open", ![r].round = @ + 1,
                             ![r].said = FALSE]
     \/ ("llm" \in Faults \/ LoopCanceled(r)) /\ ThenDeliver(r, "error")
  /\ UnchangedByLoop /\ UNCHANGED <<turns, out>>

\* WriteToolTurns: the tool_use and the tool_result turn of each round, one
\* insert each.
WriteToolTurn(r) ==
  LET n == loop[r].written IN
  /\ loop[r].pc = "deliver" /\ n < 2 * loop[r].made
  /\ turns' = Append(turns, IF n % 2 = 0 THEN Use(r, n \div 2)
                                         ELSE Result(r, n \div 2))
  /\ loop' = [loop EXCEPT ![r].written = n + 1]
  /\ UnchangedByLoop /\ UNCHANGED out

Delivered(r) == loop[r].pc = "deliver" /\ loop[r].written = 2 * loop[r].made

\* The loop's last event: the batch to decide and the end, the end, an error,
\* or none.  Then the loop closes its channel.
SendLast(r) ==
  /\ Delivered(r)
  /\ CASE loop[r].last = "ask" ->
            \/ /\ Sent(r, Event("batch", r, "awaiting"))
               /\ loop' = [loop EXCEPT ![r].last = "end"]
            \/ SendFails(r) /\ Goto(r, "done")
       [] loop[r].last \in {"end", "error"} ->
            /\ Sent(r, Event(loop[r].last, r, "none")) \/ SendFails(r)
            /\ Goto(r, "done")
       [] loop[r].last = "stop" -> Goto(r, "done") /\ UNCHANGED out
  /\ UnchangedByLoop /\ UNCHANGED turns

LoopStep(r) ==
  \/ FirstCall(r) \/ FirstCallFails(r) \/ ForwardText(r) \/ AnswerEnds(r)
  \/ StreamFails(r) \/ CallsTools(r) \/ RejectsBatch(r) \/ AsksUser(r)
  \/ SendExecuting(r)
  \/ ExecuteTools(r) \/ SendResolved(r) \/ CallModel(r)
  \/ WriteToolTurn(r) \/ SendLast(r)

-----------------------------------------------------------------------------
(* The post stream (streamToPostImpl).                                     *)

UnchangedByStream == UNCHANGED <<loop, stops>>

\* As if a resolved batch left the accumulator as it is.
AccumulateAll(acc, r, event) ==
  LET round == <<r, event.round>> IN
  CASE event.kind = "text" -> [acc EXCEPT !.text = @ \cup {round}]
    [] event.phase = "resolved" -> acc
    [] event.phase \in {"executing", "awaiting"} ->
         [acc EXCEPT !.calls = {round}]

\* What the accumulator keeps of an event.
Accumulate(acc, r, event) ==
  LET round == <<r, event.round>> IN
  CASE event.kind = "text" -> [acc EXCEPT !.text = @ \cup {round}]
    [] event.phase = "resolved" -> [acc EXCEPT !.text = {}, !.calls = {}]
    [] event.phase \in {"executing", "awaiting"} ->
         [acc EXCEPT !.calls = {round}]

ReadEvent(r) ==
  /\ stream[r].pc = "reading" /\ out[r] # <<>>
  /\ Head(out[r]).kind \in {"text", "batch"}
  /\ out' = [out EXCEPT ![r] = Tail(@)]
  /\ stream' = [stream EXCEPT ![r] = Accumulate(@, r, Head(out[r]))]
  /\ UnchangedByStream /\ UNCHANGED <<turns, contexts, canceled>>

\* The end, an error, the closed channel or the canceled context ends the
\* reading.
StopReading(r) ==
  /\ stream[r].pc = "reading"
  /\ \/ r \in canceled
     \/ out[r] # <<>> /\ Head(out[r]).kind \in {"end", "error"}
     \/ out[r] = <<>> /\ loop[r].pc = "done"
  /\ stream' = [stream EXCEPT ![r].pc = "finalizing"]
  /\ UnchangedByStream
  /\ UNCHANGED <<turns, contexts, out, canceled>>

\* finalizeTurn: what was accumulated becomes the post's anchor; only then is
\* a batch awaiting a decision shown.
finalizeTurn(r) ==
  /\ stream[r].pc = "finalizing"
  /\ turns' = Append(turns,
                [Turn("anchor", loop[r].post, r, loop[r].round)
                   EXCEPT !.calls = stream[r].calls, !.text = stream[r].text])
  /\ stream' = [stream EXCEPT ![r] = [NoStream EXCEPT !.pc = "leaving"]]
  /\ UnchangedByStream /\ UNCHANGED <<contexts, out, canceled>>

\* FinishStreaming cancels and removes whatever is registered on the post;
\* then the reply's consumer releases the loop.  Nobody reads what is left.
FinishStreaming(r) ==
  LET p == loop[r].post IN
  /\ stream[r].pc = "leaving"
  /\ stream' = [stream EXCEPT ![r].pc = "gone"]
  /\ canceled' = canceled \cup ({contexts[p]} \ {NoRun})
  /\ contexts' = [contexts EXCEPT ![p] = NoRun]
  /\ out' = IF loop[r].flow = "dm" THEN [out EXCEPT ![r] = <<>>] ELSE out
  /\ UnchangedByStream /\ UNCHANGED turns

StreamStep(r) ==
  ReadEvent(r) \/ StopReading(r) \/ finalizeTurn(r) \/ FinishStreaming(r)

Next ==
  \/ \E p \in Post : Reply(p) \/ Regenerate(p) \/ StopStreaming(p)
  \/ \E r \in Run : LoopStep(r) \/ StreamStep(r)

Spec == Init /\ [][Next]_vars

\* The scheduler runs both goroutines, the provider closes its streams and the
\* tools return; no one has to stop or start anything.
FairSpec ==
  Spec /\ \A r \in Run : WF_vars(LoopStep(r)) /\ WF_vars(StreamStep(r))
-----------------------------------------------------------------------------
(* Properties.                                                             *)

Rounds == UNION {0..maxRounds[r] : r \in Run}
RunRounds == Run \X Rounds

\* The types of the variables.
TypeOK ==
  /\ turns \in Seq([kind : {"user", "use", "result", "anchor"}, post : Post,
                   run : Run \cup {NoRun}, round : Rounds,
                   calls : SUBSET RunRounds, text : SUBSET RunRounds])
  /\ contexts \in [Post -> Run \cup {NoRun}]
  /\ loop \in [Run ->
       [post : Post \cup {NoRun}, flow : {"none", "dm", "mention", "shared"},
        pc : {"unborn", "first", "open", "executing", "tools", "resolved",
              "call", "deliver", "done"},
        round : Rounds, made : Nat, written : Nat, streak : 0..FailureLimit,
        toolsDisabled : BOOLEAN, said : BOOLEAN,
        last : {"none", "end", "ask", "error", "stop"}]]
  /\ out \in [Run -> Seq([kind : {"text", "batch", "end", "error"},
                          round : Rounds,
                          phase : {"none", "executing", "resolved", "awaiting"}])]
  /\ stream \in [Run ->
       [pc : {"none", "reading", "finalizing", "leaving", "gone"},
        text : SUBSET RunRounds, calls : SUBSET RunRounds]]
  /\ canceled \subseteq Run /\ stops \subseteq Run

\* The runs after which no regeneration began: one of another post scrubs
\* whatever lies between that post's user turn and its anchor.
Current(r) == \A s \in Run : loop[s].flow = "shared" => s <= r

Positions(turn) == {i \in DOMAIN turns : turns[i] = turn}

\* Every tool round a loop completed is in the conversation when the loop is
\* over, once, its results after its calls, also when the reply was stopped or
\* failed on the way (deliverToolTurns at every exit of runLoop).
RoundsRecorded ==
  \A r \in Run : loop[r].pc = "done" /\ Current(r) =>
    \A n \in 0..(loop[r].made - 1) :
      \E i, j \in DOMAIN turns :
        /\ Positions(Use(r, n)) = {i} /\ Positions(Result(r, n)) = {j}
        /\ i < j

\* The anchor of a reply nobody stopped holds its last round only: no text and
\* no call of it is also a recorded tool round, whose calls would replay twice.
NothingRecordedTwice ==
  \A i \in DOMAIN turns :
    LET t == turns[i] IN
    t.kind = "anchor" /\ t.run \notin stops =>
      \A x \in t.text \cup t.calls : x[2] >= loop[x[1]].made

\* The tool rounds of a reply that ran to its end, or to a question for the
\* user, come before its anchor, so that a replay reads them in order and the
\* card the user decides on follows what led to it.
RoundsPrecedeAnchor ==
  \A i, j \in DOMAIN turns :
    LET t == turns[i] r == turns[i].run IN
    /\ t.kind = "anchor" /\ r \notin stops
    /\ loop[r].last \in {"end", "ask"}
    /\ turns[j].run = r /\ turns[j].kind \in {"use", "result"}
    => j < i

\* A response's context is canceled by its own stop or its own end, never by
\* the cleanup of an earlier run of the post (StopStreaming's comment).
CanceledByItsOwn ==
  \A r \in canceled : r \in stops \/ stream[r].pc = "gone"

\* Once the cap of rounds or of failures is reached no tool runs any more,
\* whatever the provider answers.
ToolsStayDisabled ==
  [][\A r \in Run : ExecuteTools(r) =>
       loop[r].round < maxRounds[r] /\ loop[r].streak < FailureLimit]_vars

\* Every run ends: the loop closes its channel and the stream lets the post
\* go, also when the reader stopped reading while the loop was sending.
RunEnds ==
  \A r \in Run : loop[r].pc # "unborn" ~>
    loop[r].pc = "done" /\ stream[r].pc = "gone"

=============================================================================
