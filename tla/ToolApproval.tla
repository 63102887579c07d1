---------------------------- MODULE ToolApproval ----------------------------
(***************************************************************************)
(* The two-stage approval of one response post's tool calls:               *)
(* conversations/tool_approval.go with the rows of LLM_Turns it reads and  *)
(* conditionally writes (store/turns.go), the per-node streaming contexts  *)
(* and turn finalization (streaming/streaming.go), the stage the webapp    *)
(* offers (conversation/approval_state.go) and Regenerate.                 *)
(*                                                                         *)
(* A turn is a row of the database, shared by every node; ids grow with    *)
(* Sequence.  A tool_use block of turn i is the pair <<i, t>>, so a call   *)
(* of one round is never confused with a call of another.  A request is    *)
(* one HTTP click of the requester, handled on one node; every read and    *)
(* every write of the database is a step of its own.                       *)
(***************************************************************************)
EXTENDS Naturals, FiniteSets, FiniteSetsExt

CONSTANTS
  Node,       \* plugin processes sharing the database
  Req,        \* clicks (HTTP requests), each handled once
  NoReq,      \* no click
  Tool,       \* positions of the calls in a batch
  AskTool,    \* calls the user answers (UserInteraction # "")
  AutoTool,   \* calls that passed the auto-run policy (WouldAutoExecute)
  IsDM,       \* policy.isDM
  MaxTurns,   \* bound: turns ever created
  BatchBound, \* bound: only turns up to this id carry a batch of calls
  Faults      \* which of "db" (a write fails), "crash", "llm" happen

ASSUME ToolApprovalAssumption ==
  /\ NoReq \notin Req
  /\ AskTool \subseteq Tool /\ AutoTool \subseteq Tool
  /\ AskTool \cap AutoTool = {}
  /\ IsDM \in BOOLEAN
  /\ MaxTurns \in Nat \ {0}
  /\ BatchBound \in Nat
  /\ Faults \subseteq {"db", "crash", "llm"}

VARIABLES
  turn,      \* the rows, by id
  nextTurn,  \* the next id
  holder,    \* the request that holds the post's streaming context, per node
  pc,        \* where each request is
  req,       \* what each click asked
  seen,      \* the turns a request read
  tgt,       \* the assistant turn a request works on
  out,       \* the blocks a HandleToolCall is resolving
  autoRan,   \* autoExecutedNow
  wrote,     \* the turns a HandleToolResult has written
  claimedBy, \* history: the click that claimed each turn's batch
  runs,      \* history: how often each call was executed
  followed,  \* history: follow-up completions requested for each turn
  disclosed  \* history: results a follow-up sent to the model unredacted

dbVars  == <<turn, nextTurn>>
reqVars == <<req, seen, tgt, out, autoRan, wrote>>
history == <<claimedBy, runs, followed, disclosed>>
vars    == <<dbVars, holder, pc, reqVars, history>>

-----------------------------------------------------------------------------
(* Turns and blocks *)

TurnId   == 1..MaxTurns
Resolved == {"success", "error", "auto_approved"}
Open     == {"pending", "accepted"}
Status   == {"none", "rejected", "result"} \cup Open \cup Resolved
Block    == [st : Status, shared : BOOLEAN, decided : BOOLEAN]
Turn     == [role : {"none", "assistant", "tool_result"}, anchor : BOOLEAN,
             owner : 0..MaxTurns, blocks : [Tool -> Block]]

NoBlock == [st |-> "none", shared |-> FALSE, decided |-> FALSE]
NoTurn  == [role |-> "none", anchor |-> FALSE, owner |-> 0,
            blocks |-> [t \in Tool |-> NoBlock]]

\* The anchor of a stream that ended awaiting a decision on batch b (a final
\* answer has b = {}).
AnchorTurn(b) ==
  [role |-> "assistant", anchor |-> TRUE, owner |-> 0,
   blocks |-> [t \in Tool |->
      IF t \in b THEN [st |-> "pending", shared |-> IsDM, decided |-> FALSE]
                 ELSE NoBlock]]

\* A batch awaits a decision only when some call did not pass the policy.
Batches(i) == {{}} \cup {b \in SUBSET Tool : i <= BatchBound /\ ~ b \subseteq AutoTool}

Anchors(ts) == {i \in TurnId : ts[i].role = "assistant" /\ ts[i].anchor}
ResultTurns(ts) == {i \in TurnId : ts[i].role = "tool_result"}
Has(ts, i, sts) == \E t \in Tool : ts[i].blocks[t].st \in sts

\* The approval stage of the post: the last anchor with the demoted rounds
\* before it, matched against results anywhere in the conversation.
StageOf(ts) ==
  LET response == {i \in TurnId : /\ ts[i].role = "assistant"
                                  /\ \E a \in Anchors(ts) : i <= a}
      undecided(j, t) == /\ ts[j].blocks[t].st = "result" /\ ~ ts[j].blocks[t].decided
                         /\ ts[j].owner \in response
                         /\ ts[ts[j].owner].blocks[t].st \in Resolved
  IN IF \E i \in response : Has(ts, i, Open) THEN "call"
     ELSE IF \E j \in ResultTurns(ts), t \in Tool : undecided(j, t) THEN "result"
     ELSE "done"

\* CompareAndSwapTurnContent: the content still equals what was read.
CasSucceeds_Unconditional(i, expected) == turn[i].role # "none"

CasSucceeds(i, expected) == turn[i].role # "none" /\ turn[i].blocks = expected

DbFails == "db" \in Faults

-----------------------------------------------------------------------------
(* Requests *)

Pcs == {"idle", "read", "acquire", "claim", "execute", "record", "insert",
        "write", "undo", "scrub", "followup", "lookup", "demote", "anchor",
        "finish", "done"}
Live(r)  == pc[r] \notin {"idle", "done"}
Goto(r, p) == pc' = [pc EXCEPT ![r] = p]

\* The ids of the click that name calls of turn i; ids of an older round match
\* nothing.
AcceptedOn_AnyRound(r, i) == req[r].accepted

AcceptedOn(r, i) == IF req[r].on = i THEN req[r].accepted ELSE {}

\* Only HandleToolResult may run without a streaming context: in a DM, or when
\* no call of the clicked post was executed.
HasExecuted_SuccessOnly(ts) == \E i \in Anchors(ts) : Has(ts, i, {"success", "auto_approved"})

HasExecuted(ts) == \E i \in Anchors(ts) : Has(ts, i, Resolved)

NeedsStream(r) == req[r].op = "result" => ~IsDM /\ HasExecuted(seen[r])

\* FinishStreaming: the node's entry for the post is deleted.
Finish(r) ==
  holder' = IF NeedsStream(r) THEN [holder EXCEPT ![req[r].node] = NoReq] ELSE holder

\* The handler returns and its deferred release runs.
Return(r) == Goto(r, "done") /\ Finish(r)

NoClick == [op |-> "none", node |-> NoReq, on |-> 0, accepted |-> {}]

Init ==
  /\ \E b \in Batches(1) \ {{}} : turn = [i \in TurnId |-> IF i = 1 THEN AnchorTurn(b) ELSE NoTurn]
  /\ nextTurn = 2
  /\ holder = [n \in Node |-> NoReq]
  /\ pc = [r \in Req |-> "idle"]
  /\ req = [r \in Req |-> NoClick]
  /\ seen = [r \in Req |-> [i \in TurnId |-> NoTurn]]
  /\ tgt = [r \in Req |-> 0]
  /\ out = [r \in Req |-> NoTurn.blocks]
  /\ autoRan = [r \in Req |-> {}]
  /\ wrote = [r \in Req |-> {}]
  /\ claimedBy = [i \in TurnId |-> NoReq]
  /\ runs = [i \in TurnId |-> [t \in Tool |-> 0]]
  /\ followed = [i \in TurnId |-> 0]
  /\ disclosed = {}

-----------------------------------------------------------------------------
(* The clicks *)

\* The calls of turn i the webapp shows a decision for.
Decidable(i, op) ==
  IF op = "call" THEN {t \in Tool \ AutoTool : turn[i].blocks[t].st = "pending"}
  ELSE {t \in Tool : \E j \in ResultTurns(turn) :
          /\ turn[j].owner = i
          /\ turn[j].blocks[t].st = "result" /\ ~ turn[j].blocks[t].decided}

\* The requester decides what the webapp shows; the request may reach its
\* handler much later.
Click(r, n, op) ==
  /\ pc[r] = "idle"
  /\ StageOf(turn) = op
  /\ LET i == Max(Anchors(turn)) IN
       /\ Decidable(i, op) # {}
       /\ \E acc \in SUBSET Decidable(i, op) :
            req' = [req EXCEPT ![r] = [op |-> op, node |-> n, on |-> i, accepted |-> acc]]
  /\ Goto(r, "read")
  /\ UNCHANGED <<dbVars, holder, seen, tgt, out, autoRan, wrote, history>>

\* Regenerate is offered in DMs, on any response of the requester.
ClickRegenerate(r, n) ==
  /\ pc[r] = "idle"
  /\ IsDM
  /\ req' = [req EXCEPT ![r] = [op |-> "regenerate", node |-> n, on |-> 0, accepted |-> {}]]
  /\ Goto(r, "acquire")
  /\ UNCHANGED <<dbVars, holder, seen, tgt, out, autoRan, wrote, history>>

\* beginToolDecision or a gate refuses (license, policy, answers, a failed
\* read), or the clicked post has nothing to decide: nothing is written.
Refuse(r) ==
  /\ pc[r] = "read"
  /\ Goto(r, "done")
  /\ UNCHANGED <<dbVars, holder, reqVars, history>>

\* HandleToolCall up to acquireFollowUpStream: the turns are read before the
\* streaming context is held.
ReadCall(r) ==
  /\ pc[r] = "read" /\ req[r].op = "call"
  /\ Anchors(turn) # {}
  /\ LET i == Min(Anchors(turn)) IN
       /\ Has(turn, i, {"pending"})
       /\ seen' = [seen EXCEPT ![r] = turn]
       /\ tgt' = [tgt EXCEPT ![r] = i]
  /\ Goto(r, "acquire")
  /\ UNCHANGED <<dbVars, holder, req, out, autoRan, wrote, history>>

\* HandleToolResult up to acquireFollowUpStream.  Repeat clicks return early.
IsClickedResult(ts, j, t) ==
  ts[j].owner \in Anchors(ts) /\ ts[j].blocks[t].st = "result"

ReadResult(r) ==
  /\ pc[r] = "read" /\ req[r].op = "result"
  /\ (\E j \in ResultTurns(turn), t \in Tool : IsClickedResult(turn, j, t)) =>
        \E j \in ResultTurns(turn), t \in Tool :
          IsClickedResult(turn, j, t) /\ ~ turn[j].blocks[t].decided
  /\ seen' = [seen EXCEPT ![r] = turn]
  /\ tgt' = [tgt EXCEPT ![r] = IF Anchors(turn) = {} THEN 0 ELSE Min(Anchors(turn))]
  /\ Goto(r, IF ~IsDM /\ HasExecuted(turn) THEN "acquire" ELSE "write")
  /\ UNCHANGED <<dbVars, holder, req, out, autoRan, wrote, history>>

\* GetStreamingContext: one holder per node and post.
AcquireStream(r) ==
  /\ pc[r] = "acquire"
  /\ LET n == req[r].node IN
       \/ /\ holder[n] = NoReq
          /\ holder' = [holder EXCEPT ![n] = r]
          /\ Goto(r, CASE req[r].op = "call" -> "claim"
                       [] req[r].op = "result" -> "write"
                       [] OTHER -> "scrub")
       \/ /\ holder[n] # NoReq     \* ErrAlreadyStreamingToPost
          /\ Goto(r, "done")
          /\ UNCHANGED holder
  /\ UNCHANGED <<dbVars, reqVars, history>>

-----------------------------------------------------------------------------
(* HandleToolCall *)

\* The blocks with every pending call marked accepted.
Claimed_Unstored(bs) ==
  [t \in Tool |-> IF bs[t].st = "pending" THEN [bs[t] EXCEPT !.st = "claimed"] ELSE bs[t]]

Claimed(bs) ==
  [t \in Tool |-> IF bs[t].st = "pending" THEN [bs[t] EXCEPT !.st = "accepted"] ELSE bs[t]]

\* claimToolDecision wins.
Claim(r) ==
  LET i == tgt[r] IN
  /\ pc[r] = "claim"
  /\ CasSucceeds(i, seen[r][i].blocks)
  /\ turn' = [turn EXCEPT ![i].blocks = Claimed(seen[r][i].blocks)]
  /\ out' = [out EXCEPT ![r] = seen[r][i].blocks]
  /\ claimedBy' = [claimedBy EXCEPT ![i] = r]
  /\ Goto(r, "execute")
  /\ UNCHANGED <<nextTurn, holder, req, seen, tgt, autoRan, wrote, runs, followed, disclosed>>

\* claimToolDecision loses, or its write fails.
LoseClaim(r) ==
  /\ pc[r] = "claim"
  /\ ~ CasSucceeds(tgt[r], seen[r][tgt[r]].blocks) \/ DbFails
  /\ Return(r)
  /\ UNCHANGED <<dbVars, reqVars, history>>

\* One case of the execution loop: call t of the claimed batch becomes st.
Resolve(r, t, st, shared) ==
  /\ pc[r] = "execute"
  /\ out[r][t].st \in Open
  /\ out' = [out EXCEPT ![r][t] = [st |-> st, shared |-> shared, decided |-> FALSE]]
  /\ UNCHANGED <<dbVars, holder, pc, req, seen, tgt, wrote, claimedBy, followed, disclosed>>

Ran(r, t) == runs' = [runs EXCEPT ![tgt[r]][t] = @ + 1]

\* An answered question: the answer is the result, nothing runs.
AnswerQuestion(r, t) ==
  /\ t \in AcceptedOn(r, tgt[r]) \cap AskTool
  /\ Resolve(r, t, "success", TRUE)
  /\ UNCHANGED <<autoRan, runs>>

\* A call the user accepted runs, and may fail.
RunAccepted(r, t) ==
  /\ t \in AcceptedOn(r, tgt[r]) \ AskTool
  /\ \E st \in {"success", "error"} : Resolve(r, t, st, out[r][t].shared)
  /\ Ran(r, t)
  /\ UNCHANGED autoRan

\* A question the user skipped.
SkipQuestion(r, t) ==
  /\ t \in AskTool \ AcceptedOn(r, tgt[r])
  /\ Resolve(r, t, "rejected", TRUE)
  /\ UNCHANGED <<autoRan, runs>>

\* A deferred auto-run whose policy still allows it.
RunAuto(r, t) ==
  /\ t \in AutoTool \ AcceptedOn(r, tgt[r])
  /\ \E st \in {"auto_approved", "error"} : Resolve(r, t, st, TRUE)
  /\ Ran(r, t)
  /\ autoRan' = [autoRan EXCEPT ![r] = @ \cup {t}]

\* Rejected by the user, or an auto-run the policy no longer allows.
RejectCall(r, t) ==
  /\ t \notin AcceptedOn(r, tgt[r]) \cup AskTool
  /\ Resolve(r, t, "rejected", out[r][t].shared)
  /\ UNCHANGED <<autoRan, runs>>

\* claimedContent, which the resolved statuses replace exactly.
ClaimedContent_AsRead(r) == seen[r][tgt[r]].blocks

ClaimedContent(r) == Claimed(seen[r][tgt[r]].blocks)

\* The resolved statuses are written.
Record(r) ==
  LET i == tgt[r] IN
  /\ pc[r] = "execute"
  /\ \A t \in Tool : out[r][t].st \notin Open
  /\ \/ /\ CasSucceeds(i, ClaimedContent(r))
        /\ turn' = [turn EXCEPT ![i].blocks = out[r]]
        /\ Goto(r, "insert")
        /\ UNCHANGED holder
     \/ /\ ~ CasSucceeds(i, ClaimedContent(r)) \/ DbFails
        /\ Return(r)
        /\ UNCHANGED turn
  /\ UNCHANGED <<nextTurn, reqVars, history>>

\* terminal: no share decision is left for the result of call t.
Terminal_FailedCalls(r, t) ==
  IsDM \/ t \in AskTool \/ t \in autoRan[r] \/ out[r][t].st \in {"rejected", "error"}

Terminal(r, t) ==
  IsDM \/ t \in AskTool \/ t \in autoRan[r] \/ out[r][t].st = "rejected"

\* The tool_result turn: one result per call resolved by this click.
ResultTurn(r) ==
  [role |-> "tool_result", anchor |-> FALSE, owner |-> tgt[r],
   blocks |-> [t \in Tool |->
      IF seen[r][tgt[r]].blocks[t].st \in Open
        THEN [st |-> "result", shared |-> Terminal(r, t), decided |-> Terminal(r, t)]
        ELSE NoBlock]]

\* In a channel the follow-up waits for the share decision when one is left.
InsertResults(r) ==
  /\ pc[r] = "insert"
  /\ \/ /\ nextTurn <= MaxTurns
        /\ turn' = [turn EXCEPT ![nextTurn] = ResultTurn(r)]
        /\ nextTurn' = nextTurn + 1
        /\ IF \E t \in Tool : ResultTurn(r).blocks[t].st = "result"
                              /\ ~ ResultTurn(r).blocks[t].decided
             THEN Return(r)
             ELSE Goto(r, "followup") /\ UNCHANGED holder
     \/ /\ DbFails \/ nextTurn > MaxTurns
        /\ Return(r)
        /\ UNCHANGED dbVars
  /\ UNCHANGED <<reqVars, history>>

-----------------------------------------------------------------------------
(* HandleToolResult *)

\* Turn j as the share decision rewrites it: accepted calls and their results
\* become shared, undecided results of the clicked post decided.
Decision(r, j) ==
  LET ts == seen[r]
      owner == IF ts[j].role = "assistant" THEN j ELSE ts[j].owner
      mine(t) == owner \in Anchors(ts) /\ ts[j].blocks[t].st # "none"
  IN [t \in Tool |->
        [st |-> ts[j].blocks[t].st,
         shared |-> ts[j].blocks[t].shared \/ (mine(t) /\ t \in AcceptedOn(r, owner)),
         decided |-> ts[j].blocks[t].decided \/ (mine(t) /\ ts[j].role = "tool_result")]]

\* decisionUpdates: the turns whose results the click decides.
Decisions(r) ==
  {j \in ResultTurns(seen[r]) : \E t \in Tool :
     Decision(r, j)[t].decided /\ ~ seen[r][j].blocks[t].decided}

\* otherUpdates: the clicked post's other turns with an accepted call.
Others(r) ==
  {j \in TurnId \ Decisions(r) :
     \/ /\ j \in Anchors(seen[r])
        /\ \E t \in AcceptedOn(r, j) : seen[r][j].blocks[t].st # "none"
     \/ /\ j \in ResultTurns(seen[r]) /\ seen[r][j].owner \in Anchors(seen[r])
        /\ \E t \in AcceptedOn(r, seen[r][j].owner) : seen[r][j].blocks[t].st # "none"}

\* Turns recording the decision first, each group in turn order.
NextWrite(r) ==
  LET first == Decisions(r) \ wrote[r]
  IN Min(IF first # {} THEN first ELSE Others(r) \ wrote[r])

LastWrite(r) ==
  LET late == wrote[r] \cap Others(r)
  IN Max(IF late # {} THEN late ELSE wrote[r])

\* One conditional write of the decision.  A failure undoes the earlier ones.
WriteDecision(r) ==
  /\ pc[r] = "write"
  /\ (Decisions(r) \cup Others(r)) \ wrote[r] # {}
  /\ LET j == NextWrite(r) IN
       \/ /\ CasSucceeds(j, seen[r][j].blocks)
          /\ turn' = [turn EXCEPT ![j].blocks = Decision(r, j)]
          /\ wrote' = [wrote EXCEPT ![r] = @ \cup {j}]
          /\ UNCHANGED <<pc, holder>>
       \/ /\ ~ CasSucceeds(j, seen[r][j].blocks) \/ DbFails
          /\ IF wrote[r] = {} THEN Return(r) ELSE Goto(r, "undo") /\ UNCHANGED holder
          /\ UNCHANGED <<turn, wrote>>
  /\ UNCHANGED <<nextTurn, req, seen, tgt, out, autoRan, history>>

\* undoTurnUpdates, newest first; a restore that fails is skipped.
UndoDecision(r) ==
  /\ pc[r] = "undo"
  /\ \/ /\ wrote[r] # {}
        /\ LET j == LastWrite(r) IN
             /\ \/ /\ CasSucceeds(j, Decision(r, j))
                   /\ turn' = [turn EXCEPT ![j].blocks = seen[r][j].blocks]
                \/ /\ ~ CasSucceeds(j, Decision(r, j)) \/ DbFails
                   /\ UNCHANGED turn
             /\ wrote' = [wrote EXCEPT ![r] = @ \ {j}]
        /\ UNCHANGED <<pc, holder>>
     \/ /\ wrote[r] = {}
        /\ Return(r)
        /\ UNCHANGED <<turn, wrote>>
  /\ UNCHANGED <<nextTurn, req, seen, tgt, out, autoRan, history>>

\* The decision is recorded; a channel post with an executed call goes on.
DecisionWritten(r) ==
  /\ pc[r] = "write"
  /\ (Decisions(r) \cup Others(r)) \subseteq wrote[r]
  /\ IF NeedsStream(r) THEN Goto(r, "followup") /\ UNCHANGED holder ELSE Return(r)
  /\ UNCHANGED <<dbVars, reqVars, history>>

-----------------------------------------------------------------------------
(* Regenerate, the follow-up and its stream *)

\* DeleteResponseTurns: everything up to the anchor, and the anchor.
ResponseTurns_BeforeAnchor(a) == {i \in TurnId : i < a}

ResponseTurns(a) == {i \in TurnId : i <= a}

\* BuildRegenerateRequest scrubs the response it will replace.
Scrub(r) ==
  /\ pc[r] = "scrub"
  /\ \/ \E a \in Anchors(turn) :
          turn' = [i \in TurnId |-> IF i \in ResponseTurns(a) THEN NoTurn ELSE turn[i]]
     \/ Anchors(turn) = {} /\ UNCHANGED turn
  /\ Goto(r, "lookup")
  /\ UNCHANGED <<nextTurn, holder, reqVars, history>>

\* streamToolFollowUp builds the completion request; unshared results are
\* redacted in a channel.
FollowUp(r) ==
  /\ pc[r] = "followup"
  /\ Goto(r, "lookup")
  /\ followed' = [followed EXCEPT ![tgt[r]] = @ + 1]
  /\ disclosed' = disclosed \cup
       {<<turn[x[1]].owner, x[2]>> : x \in
          {y \in ResultTurns(turn) \X Tool : turn[y[1]].blocks[y[2]].shared}}
  /\ UNCHANGED <<dbVars, holder, reqVars, claimedBy, runs>>

\* The follow-up or the regeneration cannot be started (context, request, LLM).
FailFollowUp(r) ==
  /\ pc[r] = "followup" \/ (pc[r] \in {"scrub", "lookup"} /\ req[r].op = "regenerate")
  /\ "llm" \in Faults
  /\ Return(r)
  /\ UNCHANGED <<dbVars, reqVars, history>>

\* The stream starts: the anchor to demote is looked up now, used at the end.
LookupAnchor(r) ==
  /\ pc[r] = "lookup"
  /\ \/ \E a \in Anchors(turn) :
          /\ tgt' = [tgt EXCEPT ![r] = a]
          /\ Goto(r, IF req[r].op = "regenerate" THEN "anchor" ELSE "demote")
     \/ Anchors(turn) = {} /\ Goto(r, "anchor") /\ UNCHANGED tgt
  /\ UNCHANGED <<dbVars, holder, req, seen, out, autoRan, wrote, history>>

\* finalizeTurn, first write; a failure is only logged.
DemoteAnchor(r) ==
  /\ pc[r] = "demote"
  /\ turn' = [turn EXCEPT ![tgt[r]].anchor = FALSE] \/ (DbFails /\ UNCHANGED turn)
  /\ Goto(r, "anchor")
  /\ UNCHANGED <<nextTurn, holder, reqVars, history>>

\* finalizeTurn, second write: the response ends with a text answer or with a
\* batch that awaits a decision.
CreateAnchor(r) ==
  /\ pc[r] = "anchor"
  /\ \/ /\ nextTurn <= MaxTurns
        /\ \E b \in Batches(nextTurn) : turn' = [turn EXCEPT ![nextTurn] = AnchorTurn(b)]
        /\ nextTurn' = nextTurn + 1
     \/ (DbFails \/ nextTurn > MaxTurns) /\ UNCHANGED dbVars
  /\ Goto(r, "finish")
  /\ UNCHANGED <<holder, reqVars, history>>

FinishStream(r) ==
  /\ pc[r] = "finish"
  /\ Return(r)
  /\ UNCHANGED <<dbVars, reqVars, history>>

\* A node dies: its handlers, streams and streaming contexts are gone.
Crash(n) ==
  /\ "crash" \in Faults
  /\ \E r \in Req : Live(r) /\ req[r].node = n
  /\ pc' = [r \in Req |-> IF Live(r) /\ req[r].node = n THEN "done" ELSE pc[r]]
  /\ holder' = [holder EXCEPT ![n] = NoReq]
  /\ UNCHANGED <<dbVars, reqVars, history>>

-----------------------------------------------------------------------------
CallHandler(r) ==
  \/ ReadCall(r) \/ Claim(r) \/ LoseClaim(r)
  \/ \E t \in Tool : \/ AnswerQuestion(r, t) \/ RunAccepted(r, t) \/ SkipQuestion(r, t)
                     \/ RunAuto(r, t) \/ RejectCall(r, t)
  \/ Record(r) \/ InsertResults(r)

ResultHandler(r) ==
  ReadResult(r) \/ WriteDecision(r) \/ UndoDecision(r) \/ DecisionWritten(r)

Stream(r) ==
  \/ FollowUp(r) \/ FailFollowUp(r) \/ LookupAnchor(r)
  \/ DemoteAnchor(r) \/ CreateAnchor(r) \/ FinishStream(r)

Handler(r) ==
  Refuse(r) \/ AcquireStream(r) \/ CallHandler(r) \/ ResultHandler(r) \/ Scrub(r) \/ Stream(r)

Quiet == (\A r \in Req : ~ Live(r)) /\ UNCHANGED vars

Next ==
  \/ \E r \in Req, n \in Node : (\E op \in {"call", "result"} : Click(r, n, op)) \/ ClickRegenerate(r, n)
  \/ \E r \in Req : Handler(r)
  \/ \E n \in Node : Crash(n)
  \/ Quiet

Spec == Init /\ [][Next]_vars

\* A handler that has started keeps running.
FairSpec == Spec /\ \A r \in Req : WF_vars(Handler(r))

-----------------------------------------------------------------------------
(* Properties *)

TypeOK ==
  /\ turn \in [TurnId -> Turn]
  /\ nextTurn \in Nat \ {0}
  /\ holder \in [Node -> Req \cup {NoReq}]
  /\ pc \in [Req -> Pcs]
  /\ req \in [Req -> [op : {"none", "call", "result", "regenerate"},
                      node : Node \cup {NoReq}, on : 0..MaxTurns, accepted : SUBSET Tool]]
  /\ seen \in [Req -> [TurnId -> Turn]]
  /\ tgt \in [Req -> 0..MaxTurns]
  /\ out \in [Req -> [Tool -> Block]]
  /\ autoRan \in [Req -> SUBSET Tool]
  /\ wrote \in [Req -> SUBSET TurnId]
  /\ claimedBy \in [TurnId -> Req \cup {NoReq}]
  /\ runs \in [TurnId -> [Tool -> Nat]]
  /\ followed \in [TurnId -> Nat]
  /\ disclosed \subseteq (0..MaxTurns) \X Tool

\* No call runs twice, whatever the nodes, clicks, crashes and failed writes:
\* claimToolDecision's promise.
AtMostOnce == \A i \in TurnId, t \in Tool : runs[i][t] <= 1

\* A call that ran was accepted by a click on its own batch, or carried the
\* auto-run marker: a late click of an older round accepts nothing.
OnlyApprovedRun ==
  \A i \in TurnId, t \in Tool : runs[i][t] > 0 =>
    \/ t \in AutoTool
    \/ \E r \in Req : req[r].op = "call" /\ req[r].on = i /\ t \in req[r].accepted

\* A result reaches a channel's follow-up only when the requester shared it,
\* or when it is no tool output: an answer, an auto-run, a canned rejection.
PrivateStaysPrivate ==
  \A x \in disclosed :
    \/ IsDM \/ x[2] \in AskTool \cup AutoTool \/ runs[x[1]][x[2]] = 0
    \/ \E r \in Req : req[r].op = "result" /\ req[r].on = x[1] /\ x[2] \in req[r].accepted

\* Once no share decision is being written, a decided tool output is shared in
\* both of its rows (the call's and the result's) or in neither, although
\* HandleToolResult writes the rows one at a time and clicks race.
ShareFlagsAgree ==
  (\A r \in Req : pc[r] \notin {"write", "undo"}) =>
    \A j \in ResultTurns(turn), t \in Tool :
      LET i == turn[j].owner IN
      (turn[j].blocks[t].decided /\ turn[i].blocks[t].st \in {"success", "error"})
        => turn[i].blocks[t].shared = turn[j].blocks[t].shared

\* A decided batch is continued by one follow-up, never by two: racing clicks
\* on several nodes do not both stream.
OneFollowUp == \A i \in TurnId : followed[i] <= 1

\* The post has at most one anchor turn (UpdateTurnPostID's expectation).
OneAnchor == Cardinality(Anchors(turn)) <= 1

\* When every handler has returned, a post in stage "call" can be decided:
\* its anchor holds a pending call for findPendingToolTurn.
CallStageIsDecidable ==
  ((\A r \in Req : ~ Live(r)) /\ StageOf(turn) = "call")
    => Has(turn, Min(Anchors(turn)), {"pending"})

\* The status of a call only moves forward: pending, accepted, resolved.  No
\* share decision, undo or stale write of another click takes it back.
Rank(st) == CASE st = "pending" -> 1 [] st = "accepted" -> 2 [] OTHER -> 3
StatusForward ==
  [][\A i \in TurnId, t \in Tool :
       (turn[i].role # "none" /\ turn'[i].role # "none") =>
         \/ turn'[i].blocks[t].st = turn[i].blocks[t].st
         \/ Rank(turn[i].blocks[t].st) < Rank(turn'[i].blocks[t].st)]_turn

\* The click that claimed a batch resolves it.
ClaimIsResolved ==
  \A i \in TurnId : Has(turn, i, {"accepted"}) ~> ~ Has(turn, i, {"accepted"})

\* In a channel, results whose share decision is complete are followed up.
DecidedIsContinued ==
  \A i \in TurnId :
    (\E j \in ResultTurns(turn) : /\ turn[j].owner = i
                                  /\ \A t \in Tool : turn[j].blocks[t].st = "result"
                                                       => turn[j].blocks[t].decided)
      ~> followed[i] > 0

\* The protocol implements DecideOnce: a claim decides its batch, an execution
\* runs a call, every other step is invisible.
Abs == INSTANCE DecideOnce WITH Batch <- TurnId, decider <- claimedBy, ran <- runs
ImplementsDecideOnce == Abs!Spec

-----------------------------------------------------------------------------
(* Why AtMostOnce and OnlyApprovedRun hold: an inductive invariant *)

\* A click that will decide a batch knows its turn, and read pending calls in it.
BeforeClaim(r) == pc[r] = "claim" \/ (pc[r] = "acquire" /\ req[r].op = "call")
ClaimsPending ==
  \A r \in Req : BeforeClaim(r) => tgt[r] \in TurnId /\ Has(seen[r], tgt[r], {"pending"})

\* Only a click on calls runs calls; a request not yet made asked for nothing.
ExecutorsDecideCalls ==
  \A r \in Req : /\ pc[r] \in {"claim", "execute", "insert"} => req[r].op = "call"
                 /\ pc[r] = "idle" => req[r].op = "none"

\* Turns are created in id order.
TurnsAreOld == \A i \in TurnId : turn[i].role # "none" => i < nextTurn

\* A claimed batch never has a pending call again: no claim finds one.
ClaimIsFinal ==
  \A i \in TurnId : claimedBy[i] # NoReq => i < nextTurn /\ ~ Has(turn, i, {"pending"})

\* Nothing of an unclaimed batch has run.
OnlyClaimedRun ==
  \A i \in TurnId, t \in Tool : claimedBy[i] = NoReq => runs[i][t] = 0

\* The click that executes a batch is the one that claimed it, and an open call
\* of its list has not run.
ExecutorOwnsBatch ==
  \A r \in Req : pc[r] = "execute" =>
    /\ tgt[r] \in TurnId
    /\ claimedBy[tgt[r]] = r
    /\ \A t \in Tool : out[r][t].st \in Open => runs[tgt[r]][t] = 0

ApprovalInv ==
  /\ ClaimsPending /\ ExecutorsDecideCalls /\ TurnsAreOld /\ ClaimIsFinal
  /\ OnlyClaimedRun /\ ExecutorOwnsBatch /\ AtMostOnce /\ OnlyApprovedRun

-----------------------------------------------------------------------------
(* Why StatusForward and PrivateStaysPrivate hold *)

\* The list a click resolves is the batch it read, with open calls resolved.
OutFollowsSeen ==
  \A r \in Req, t \in Tool : pc[r] = "execute" =>
    \/ out[r][t].st = seen[r][tgt[r]].blocks[t].st
    \/ seen[r][tgt[r]].blocks[t].st \in Open /\ out[r][t].st \in Resolved \cup {"rejected"}

\* A row that was read is an old one, and is still of the same kind and about
\* the same batch, if it is still there.
ReadsAreOld ==
  \A r \in Req, j \in TurnId : seen[r][j].role # "none" =>
    /\ j < nextTurn
    /\ turn[j].role # "none" =>
         turn[j].role = seen[r][j].role /\ turn[j].owner = seen[r][j].owner

\* A click on calls works on an assistant turn; one on results has written only
\* rows it read, and decides for the post it was made on.
RequestsWriteOwnRows ==
  \A r \in Req :
    /\ BeforeClaim(r) \/ pc[r] = "execute" => seen[r][tgt[r]].role = "assistant"
    /\ pc[r] \in {"idle", "read", "acquire"} => wrote[r] = {}
    /\ \A j \in wrote[r] : seen[r][j].role # "none"
    /\ pc[r] \in {"write", "undo"} => req[r].op = "result"

\* The click that resolves a batch, or writes its results, claimed it; what it
\* still calls open or rejected has not run.
ResolverKnowsRuns ==
  \A r \in Req :
    /\ autoRan[r] \subseteq AutoTool
    /\ pc[r] \in {"execute", "insert"} =>
         /\ tgt[r] \in TurnId
         /\ claimedBy[tgt[r]] = r
         /\ \A t \in Tool : out[r][t].st \in Open \cup {"rejected"} => runs[tgt[r]][t] = 0

\* A batch with results, stored, read or disclosed, is no longer executed and
\* gets no others.
Answered(i) ==
  \/ \E j \in ResultTurns(turn) : turn[j].owner = i
  \/ \E r \in Req : \E j \in ResultTurns(seen[r]) : seen[r][j].owner = i
  \/ \E x \in disclosed : x[1] = i
AnsweredIsOver ==
  \A i \in 0..MaxTurns : Answered(i) =>
    /\ i \in TurnId
    /\ claimedBy[i] # NoReq
    /\ \A r \in Req : pc[r] \in {"execute", "insert"} => tgt[r] # i

\* Every shared result, stored or read, may be shared.
Shareable(i, t) ==
  \/ IsDM \/ t \in AskTool \cup AutoTool \/ runs[i][t] = 0
  \/ \E r \in Req : req[r].op = "result" /\ req[r].on = i /\ t \in req[r].accepted
SharedIsShareable(ts) ==
  \A j \in ResultTurns(ts), t \in Tool : ts[j].blocks[t].shared => Shareable(ts[j].owner, t)
SharesAreAllowed ==
  SharedIsShareable(turn) /\ \A r \in Req : SharedIsShareable(seen[r])

ShareInv ==
  /\ OutFollowsSeen /\ ReadsAreOld /\ RequestsWriteOwnRows /\ ResolverKnowsRuns
  /\ AnsweredIsOver /\ SharesAreAllowed /\ PrivateStaysPrivate

-----------------------------------------------------------------------------
(* Why OneAnchor holds on one node *)

\* A request that works on the post holds the streaming context of its node,
\* unless it only records a share decision that no follow-up can follow.
StreamsAreHeld ==
  \A r \in Req :
    /\ Live(r) => req[r].node \in Node
    /\ pc[r] \in Pcs \ {"idle", "read", "write", "undo", "done"} => NeedsStream(r)
    /\ pc[r] \notin {"idle", "read", "acquire", "done"} /\ NeedsStream(r)
         => holder[req[r].node] = r
    /\ pc[r] \in {"write", "undo"} => req[r].op = "result"
    /\ pc[r] = "followup" => req[r].op # "regenerate"

\* The anchor a stream replaces is gone before it creates its own.
AnchorsDemoted ==
  \A r \in Req :
    /\ pc[r] = "demote" => Anchors(turn) \subseteq {tgt[r]}
    /\ pc[r] = "anchor" \/ (pc[r] = "lookup" /\ req[r].op = "regenerate")
         => Anchors(turn) = {}
AnchorsAgree == \A a, b \in Anchors(turn) : a = b

AnchorInv == StreamsAreHeld /\ AnchorsDemoted /\ AnchorsAgree

-----------------------------------------------------------------------------
(* Why OneFollowUp, ShareFlagsAgree and CallStageIsDecidable hold for one round *)
(* of calls in a channel                                                        *)

\* The batch is that of the first turn, which nothing deletes.
HasCalls(ts, i) == ts[i].role = "assistant" /\ \E t \in Tool : ts[i].blocks[t].st # "none"
BatchIsFirst ==
  /\ turn[1].role = "assistant"
  /\ \A i \in TurnId : HasCalls(turn, i) \/ claimedBy[i] # NoReq => i = 1
  /\ \A r \in Req :
       /\ \A i \in TurnId : /\ HasCalls(seen[r], i) => i = 1
                            /\ seen[r][i].role # "none" => turn[i].role # "none"
       /\ pc[r] # "scrub"
       /\ pc[r] # "idle" => req[r].op \in {"call", "result"}

\* Its results are one row, which is there before anyone decides on results or
\* follows up.
Deciding(r) == req[r].op = "result" /\ pc[r] \in {"acquire", "write", "undo"}
OneResultRow ==
  /\ \A j, k \in ResultTurns(turn) : j = k
  /\ \A j \in ResultTurns(turn) : Has(turn, j, {"result"})
  /\ \A r \in Req :
       /\ \A j \in ResultTurns(seen[r]) : Has(seen[r], j, {"result"})
       /\ pc[r] \in {"claim", "execute", "insert"} => Has(seen[r], tgt[r], {"pending"})
       /\ req[r].op = "result" \/ pc[r] \in {"followup", "lookup", "demote", "anchor", "finish"}
            => ResultTurns(turn) # {}
       /\ Deciding(r) => ResultTurns(seen[r]) # {}

\* A click that decides on the batch found a result undecided.
DecidersSawOpen ==
  \A r \in Req : (Deciding(r) /\ 1 \in Anchors(seen[r])) =>
    /\ tgt[r] = 1
    /\ \E j \in ResultTurns(seen[r]), t \in Tool :
         seen[r][j].blocks[t].st = "result" /\ ~ seen[r][j].blocks[t].decided

\* The rows that record a decision are written first and undone last.
WritesInOrder ==
  \A r \in Req : /\ wrote[r] \subseteq Decisions(r) \cup Others(r)
                 /\ wrote[r] \cap Others(r) # {} => Decisions(r) \subseteq wrote[r]

\* The right to follow up passes from the first to decide to its completion.
Deciders == {r \in Req : pc[r] \in {"write", "undo"} /\ Decisions(r) \cap wrote[r] # {}}
Followers == Deciders \cup {r \in Req : pc[r] = "followup"}
AllDecided ==
  \A j \in ResultTurns(turn), t \in Tool :
    turn[j].blocks[t].st = "result" => turn[j].blocks[t].decided
FollowedOnce ==
  /\ \A i \in TurnId : followed[i] <= 1 /\ (followed[i] > 0 => i = 1)
  /\ \A r \in Req : pc[r] = "followup" => tgt[r] = 1
  /\ \A q, r \in Followers : q = r
  /\ Followers # {} => followed[1] = 0 /\ AllDecided
  /\ followed[1] > 0 => AllDecided /\ ResultTurns(turn) # {}

RoundInv ==
  BatchIsFirst /\ OneResultRow /\ DecidersSawOpen /\ WritesInOrder /\ FollowedOnce

\* Until it has results the batch is its claimer's; an open call of it is
\* decidable or being executed.
FirstRowFollows ==
  /\ \A r \in Req :
       /\ pc[r] = "execute" => turn[1].blocks = ClaimedContent(r)
       /\ pc[r] = "insert" => turn[1].blocks = out[r] /\ \A t \in Tool : out[r][t].st \notin Open
  /\ ResultTurns(turn) # {} => ~ Has(turn, 1, Open)
  /\ Has(turn, 1, {"pending"}) => turn[1].anchor
  /\ Has(turn, 1, {"accepted"}) => \E r \in Req : pc[r] = "execute"

\* A call is shared as it resolves exactly if its result will be.
OpenIsUnshared ==
  /\ \A t \in Tool : turn[1].blocks[t].st \in Open => ~ turn[1].blocks[t].shared
  /\ \A r \in Req : pc[r] \in {"idle", "read", "acquire", "claim"} => autoRan[r] = {}
  /\ \A r \in Req, t \in Tool :
       /\ seen[r][1].blocks[t].st \in Open => ~ seen[r][1].blocks[t].shared
       /\ pc[r] \in {"execute", "insert"} =>
            /\ out[r][t].st \in Open => t \notin autoRan[r] /\ ~ out[r][t].shared
            /\ (out[r][t].st \in {"success", "error"} /\ seen[r][1].blocks[t].st \in Open)
                 => (out[r][t].shared <=> t \in AskTool \cup autoRan[r])

\* Only results are decided in a result row.
OnlyResults(ts) ==
  \A j \in ResultTurns(ts), t \in Tool :
    ts[j].blocks[t].st = "result" \/ (ts[j].blocks[t].st = "none" /\ ~ ts[j].blocks[t].decided)
ResultsAreDecided == OnlyResults(turn) /\ \A r \in Req : OnlyResults(seen[r])

\* The flags of the calls and of their results differ only while a decision is
\* being written, and then as its writer knows.
Agree(calls, results) ==
  \A t \in Tool : (calls[t].st \in {"success", "error"} /\ results[t].st = "result")
    => calls[t].shared = results[t].shared
FlagsFollow ==
  /\ \A r \in Req : (Deciding(r) /\ 1 \in Anchors(seen[r])) =>
       /\ \A j \in ResultTurns(seen[r]) : Agree(seen[r][1].blocks, seen[r][j].blocks)
       /\ \A t \in Tool : seen[r][1].blocks[t].st = "none" => turn[1].blocks[t].st = "none"
  /\ \A r \in Deciders, j \in ResultTurns(turn) :
       /\ turn[j].blocks = Decision(r, j)
       /\ 1 \in wrote[r] => turn[1].blocks = Decision(r, 1) /\ pc[r] = "write"
       /\ 1 \notin wrote[r] => Agree(turn[1].blocks, seen[r][j].blocks)
  /\ Deciders = {} => \A j \in ResultTurns(turn) : Agree(turn[1].blocks, turn[j].blocks)

SettledInv == FirstRowFollows /\ OpenIsUnshared /\ ResultsAreDecided /\ FlagsFollow
=============================================================================
