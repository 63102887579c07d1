----------------------- MODULE ToolApprovalPostProofs -----------------------
(***************************************************************************)
(* Machine-checked theorems about ToolApproval under the conditions the    *)
(* code promises them: on one node the streaming context of the post keeps *)
(* its response to one anchor turn, and one round of calls in a channel is *)
(* followed up once, with share flags that agree.                          *)
(***************************************************************************)
EXTENDS ToolApprovalShareProofs, FiniteSetTheorems

-----------------------------------------------------------------------------
(* Who holds the streaming context *)

\* StreamsAreHeld for one request.
Held(r) ==
  /\ Live(r) => req[r].node \in Node
  /\ pc[r] \in Pcs \ {"idle", "read", "write", "undo", "done"} => NeedsStream(r)
  /\ pc[r] \notin {"idle", "read", "acquire", "done"} /\ NeedsStream(r)
       => holder[req[r].node] = r
  /\ pc[r] \in {"write", "undo"} => req[r].op = "result"
  /\ pc[r] = "followup" => req[r].op # "regenerate"

\* A request that keeps its place and the context it holds.
LEMMA HeldStays ==
  ASSUME TypeOK, NEW q \in Req, Held(q),
         pc'[q] = pc[q], req'[q] = req[q], seen'[q] = seen[q],
         holder[req[q].node] = q => holder'[req[q].node] = q
  PROVE  Held(q)'
  BY DEF Held, Live, NeedsStream

LEMMA DoneIsHeld ==
  ASSUME NEW q \in Req, pc'[q] = "done"
  PROVE  Held(q)'
  BY DEF Held, Live

\* A working request that goes on working, and lets go of nothing.
LEMMA WorksOn ==
  ASSUME TypeOK, NEW q \in Req, Held(q), NeedsStream(q),
         pc[q] \notin {"idle", "read", "acquire", "done"},
         pc'[q] \notin {"idle", "read", "acquire", "write", "undo"},
         pc'[q] = "followup" => req[q].op # "regenerate",
         UNCHANGED <<holder, req, seen>>
  PROVE  Held(q)'
  BY DEF Held, Live, NeedsStream

\* A handler takes a free context, or lets go of its own.
LEMMA HolderMoves ==
  ASSUME TypeOK, NEW r \in Req, Held(r), Handler(r)
  PROVE  \/ holder' = holder
         \/ /\ holder[req[r].node] \in {NoReq, r}
            /\ \A n \in Node : n # req[r].node => holder'[n] = holder[n]
<1>1. ASSUME Return(r), pc[r] \notin {"idle", "read", "acquire", "done"}
      PROVE  \/ holder' = holder
             \/ /\ holder[req[r].node] \in {NoReq, r}
                /\ \A n \in Node : n # req[r].node => holder'[n] = holder[n]
  BY <1>1 DEF Held, Return, Finish, TypeOK
<1>2. CASE AcquireStream(r)
  BY <1>2 DEF AcquireStream, TypeOK
<1>3. CASE LoseClaim(r) \/ Record(r) \/ InsertResults(r)
  BY <1>1, <1>3 DEF LoseClaim, Record, InsertResults
<1>4. CASE WriteDecision(r) \/ UndoDecision(r) \/ DecisionWritten(r)
  BY <1>1, <1>4 DEF WriteDecision, UndoDecision, DecisionWritten
<1>5. CASE FailFollowUp(r) \/ FinishStream(r)
  BY <1>1, <1>5 DEF FailFollowUp, FinishStream
<1>6. CASE \/ Refuse(r) \/ ReadCall(r) \/ Claim(r) \/ ReadResult(r) \/ Scrub(r) \/ FollowUp(r)
           \/ LookupAnchor(r) \/ DemoteAnchor(r) \/ CreateAnchor(r)
  BY <1>6 DEF Refuse, ReadCall, Claim, ReadResult, Scrub, FollowUp, LookupAnchor,
              DemoteAnchor, CreateAnchor
<1>7. ASSUME NEW t \in Tool,
             \/ AnswerQuestion(r, t) \/ RunAccepted(r, t) \/ SkipQuestion(r, t)
             \/ RunAuto(r, t) \/ RejectCall(r, t)
      PROVE  holder' = holder
  BY <1>7 DEF AnswerQuestion, RunAccepted, SkipQuestion, RunAuto, RejectCall, Resolve
<1> QED
  BY <1>2, <1>3, <1>4, <1>5, <1>6, <1>7 DEF Handler, CallHandler, ResultHandler, Stream

\* The handler's own request, action by action.
LEMMA ReadsHeld ==
  ASSUME TypeOK, NEW r \in Req, Held(r),
         Refuse(r) \/ AcquireStream(r) \/ ReadCall(r) \/ ReadResult(r)
  PROVE  Held(r)'
<1> USE DEF TypeOK, Goto, reqVars
<1>1. CASE Refuse(r)
  BY <1>1, DoneIsHeld DEF Refuse
<1>2. CASE AcquireStream(r)
  <2>1. /\ pc[r] = "acquire" /\ UNCHANGED <<req, seen>>
        /\ req[r].node \in Node /\ NeedsStream(r)
    BY <1>2 DEF AcquireStream, Held, Live, Pcs
  <2>2. CASE pc'[r] = "done"
    BY <2>2, DoneIsHeld
  <2>3. CASE /\ holder' = [holder EXCEPT ![req[r].node] = r]
             /\ pc'[r] \in {"claim", "write", "scrub"}
             /\ pc'[r] = "write" => req[r].op = "result"
    <3>1. holder'[req[r].node] = r
      BY <2>1, <2>3
    <3> QED BY <2>1, <2>3, <3>1 DEF Held, Live, NeedsStream
  <2>4. \/ pc'[r] = "done"
        \/ /\ holder' = [holder EXCEPT ![req[r].node] = r]
           /\ pc'[r] \in {"claim", "write", "scrub"}
           /\ pc'[r] = "write" => req[r].op = "result"
    BY <1>2 DEF AcquireStream
  <2> QED BY <2>2, <2>3, <2>4
<1>3. CASE ReadCall(r)
  <2>1. /\ pc[r] = "read" /\ req[r].op = "call" /\ req' = req
        /\ pc'[r] = "acquire"
    BY <1>3 DEF ReadCall
  <2>2. req[r].node \in Node
    BY <2>1 DEF Held, Live
  <2> QED BY <2>1, <2>2 DEF Held, Live, NeedsStream
<1>4. CASE ReadResult(r)
  <2>1. /\ pc[r] = "read" /\ req[r].op = "result" /\ req' = req
        /\ seen'[r] = turn
        /\ pc'[r] = IF ~IsDM /\ HasExecuted(turn) THEN "acquire" ELSE "write"
    BY <1>4 DEF ReadResult
  <2>2. req[r].node \in Node
    BY <2>1 DEF Held, Live
  <2>3. NeedsStream(r)' <=> ~IsDM /\ HasExecuted(turn)
    BY <2>1 DEF NeedsStream, HasExecuted, Anchors, Has
  <2> QED BY <2>1, <2>2, <2>3 DEF Held, Live
<1> QED BY <1>1, <1>2, <1>3, <1>4

LEMMA CallsHeld ==
  ASSUME TypeOK, ApprovalInv, NEW r \in Req, Held(r), CallHandler(r)
  PROVE  Held(r)'
<1> USE DEF TypeOK, Goto, Return, reqVars
<1>1. CASE ReadCall(r)
  BY <1>1, ReadsHeld
<1>2. ASSUME pc[r] \in {"claim", "execute", "insert"}
      PROVE  NeedsStream(r) /\ req[r].op = "call"
  BY <1>2 DEF NeedsStream, ApprovalInv, ExecutorsDecideCalls
<1>3. CASE Claim(r)
  BY <1>2, <1>3, WorksOn DEF Claim
<1>4. CASE LoseClaim(r)
  BY <1>4, DoneIsHeld DEF LoseClaim
<1>5. CASE Resolving(r)
  <2>1. UNCHANGED <<pc, req, seen, holder>>
    BY <1>5 DEF Resolving, AnswerQuestion, RunAccepted, SkipQuestion, RunAuto, RejectCall,
                Resolve
  <2> QED BY <2>1, HeldStays
<1>6. CASE Record(r)
  BY <1>2, <1>6, DoneIsHeld, WorksOn DEF Record
<1>7. CASE InsertResults(r)
  BY <1>2, <1>7, DoneIsHeld, WorksOn DEF InsertResults
<1> QED BY <1>1, <1>3, <1>4, <1>5, <1>6, <1>7 DEF CallHandler, Resolving

LEMMA ResultsHeld ==
  ASSUME TypeOK, NEW r \in Req, Held(r), ResultHandler(r)
  PROVE  Held(r)'
<1> USE DEF TypeOK, Goto, Return, reqVars
<1>1. CASE ReadResult(r)
  BY <1>1, ReadsHeld
<1>2. CASE WriteDecision(r) \/ UndoDecision(r)
  <2>1. CASE pc'[r] = "done"
    BY <2>1, DoneIsHeld
  <2>2. CASE /\ pc[r] \in {"write", "undo"} /\ pc'[r] \in {"write", "undo"}
             /\ UNCHANGED <<holder, req, seen>>
    BY <2>2 DEF Held, Live, NeedsStream
  <2>3. \/ pc'[r] = "done"
        \/ /\ pc[r] \in {"write", "undo"} /\ pc'[r] \in {"write", "undo"}
           /\ UNCHANGED <<holder, req, seen>>
    BY <1>2 DEF WriteDecision, UndoDecision
  <2> QED BY <2>1, <2>2, <2>3
<1>3. CASE DecisionWritten(r)
  <2>1. pc[r] = "write" /\ req[r].op = "result"
    BY <1>3 DEF DecisionWritten, Held
  <2> QED BY <1>3, <2>1, DoneIsHeld, WorksOn DEF DecisionWritten
<1> QED BY <1>1, <1>2, <1>3 DEF ResultHandler

LEMMA StreamHeld ==
  ASSUME TypeOK, NEW r \in Req, Held(r), Scrub(r) \/ Stream(r)
  PROVE  Held(r)'
<1> USE DEF TypeOK, Goto, Return, reqVars
<1>1. CASE FailFollowUp(r) \/ FinishStream(r)
  BY <1>1, DoneIsHeld DEF FailFollowUp, FinishStream
<1>2. CASE \/ Scrub(r) \/ FollowUp(r) \/ LookupAnchor(r) \/ DemoteAnchor(r)
           \/ CreateAnchor(r)
  <2>1. /\ pc[r] \in {"scrub", "followup", "lookup", "demote", "anchor"}
        /\ pc'[r] \in {"lookup", "demote", "anchor", "finish"}
        /\ UNCHANGED <<holder, req, seen>>
    BY <1>2 DEF Scrub, FollowUp, LookupAnchor, DemoteAnchor, CreateAnchor
  <2>2. NeedsStream(r)
    BY <2>1 DEF Held, Pcs
  <2> QED BY <2>1, <2>2, WorksOn
<1> QED BY <1>1, <1>2 DEF Stream

LEMMA HeldStep ==
  ASSUME TypeOK, ApprovalInv, StreamsAreHeld, [Next]_vars
  PROVE  StreamsAreHeld'
<1> SUFFICES ASSUME NEW q \in Req PROVE Held(q)'
  BY DEF StreamsAreHeld, Held
<1>0. \A r \in Req : Held(r)
  BY DEF StreamsAreHeld, Held
<1>1. ASSUME NEW r \in Req, NEW n \in Node,
             (\E op \in {"call", "result"} : Click(r, n, op)) \/ ClickRegenerate(r, n)
      PROVE  Held(q)'
  <2>1. UNCHANGED <<holder, seen>>
    BY <1>1 DEF Click, ClickRegenerate
  <2>2. \/ pc'[q] = pc[q] /\ req'[q] = req[q]
        \/ pc'[q] = "read" /\ req'[q].node \in Node
        \/ pc'[q] = "acquire" /\ req'[q].node \in Node /\ req'[q].op = "regenerate"
    BY <1>1 DEF Click, ClickRegenerate, Goto, TypeOK
  <2>3. CASE pc'[q] = pc[q] /\ req'[q] = req[q]
    BY <1>0, <2>1, <2>3, HeldStays
  <2>4. CASE pc'[q] = "read" /\ req'[q].node \in Node
    BY <2>4 DEF Held, Live
  <2>5. CASE pc'[q] = "acquire" /\ req'[q].node \in Node /\ req'[q].op = "regenerate"
    BY <2>5 DEF Held, Live, NeedsStream
  <2> QED BY <2>2, <2>3, <2>4, <2>5
<1>2. ASSUME NEW r \in Req, Handler(r) PROVE Held(q)'
  <2>1. CASE r = q
    BY <1>0, <1>2, <2>1, ReadsHeld, CallsHeld, ResultsHeld, StreamHeld DEF Handler
  <2>2. CASE r # q
    <3>1. pc'[q] = pc[q] /\ req'[q] = req[q] /\ seen'[q] = seen[q]
      BY <1>2, <2>2, OthersStay DEF LocalsStay
    <3>2. CASE ~ Live(q)
      BY <3>1, <3>2 DEF Held, Live
    <3>3. CASE Live(q)
      <4>1. req[q].node \in Node /\ q # NoReq
        BY <1>0, <3>3, ToolApprovalAssumption DEF Held
      <4>2. holder[req[q].node] = q => holder'[req[q].node] = q
        BY <1>0, <1>2, <2>2, <4>1, HolderMoves
      <4> QED BY <1>0, <3>1, <4>2, HeldStays
    <3> QED BY <3>2, <3>3
  <2> QED BY <2>1, <2>2
<1>3. ASSUME NEW n \in Node, Crash(n) PROVE Held(q)'
  <2>1. /\ UNCHANGED <<req, seen>>
        /\ pc'[q] = IF Live(q) /\ req[q].node = n THEN "done" ELSE pc[q]
        /\ \A m \in Node \ {n} : holder'[m] = holder[m]
    BY <1>3 DEF Crash, reqVars, TypeOK
  <2>2. CASE Live(q) /\ req[q].node = n
    BY <2>1, <2>2, DoneIsHeld
  <2>3. CASE Live(q) /\ req[q].node # n
    <3>1. holder'[req[q].node] = holder[req[q].node]
      BY <1>0, <2>1, <2>3 DEF Held
    <3> QED BY <1>0, <2>1, <2>3, <3>1, HeldStays
  <2>4. CASE ~ Live(q)
    BY <2>1, <2>4 DEF Held, Live
  <2> QED BY <2>2, <2>3, <2>4
<1>4. CASE UNCHANGED vars
  BY <1>0, <1>4, HeldStays DEF vars, reqVars
<1> QED BY <1>1, <1>2, <1>3, <1>4 DEF Next, Quiet

-----------------------------------------------------------------------------
(* Anchors *)

\* Only the end of a stream creates an anchor.
LEMMA AnchorsMove ==
  ASSUME TypeOK, ApprovalInv, ShareInv, [Next]_vars
  PROVE  \/ Anchors(turn') \subseteq Anchors(turn)
         \/ \E r \in Req : CreateAnchor(r) /\ Anchors(turn') \subseteq Anchors(turn) \cup {nextTurn}
<1>0. turn \in [TurnId -> Turn]
  BY DEF TypeOK
<1>1. CASE UNCHANGED dbVars
  BY <1>1 DEF dbVars
<1>2. ASSUME NEW r \in Req, Rewrites(r) PROVE Anchors(turn') \subseteq Anchors(turn)
  <2>1. \A i \in TurnId : turn'[i].role = turn[i].role /\ turn'[i].anchor = turn[i].anchor
    BY <1>0, <1>2 DEF Rewrites, Turn
  <2> QED BY <2>1 DEF Anchors
<1>3. ASSUME NEW row, Inserts(row)
      PROVE  \A i \in TurnId : i # nextTurn => turn'[i] = turn[i]
  BY <1>0, <1>3 DEF Inserts
<1>4. ASSUME NEW r \in Req, NEW b, CreateAnchor(r), Inserts(AnchorTurn(b))
      PROVE  Anchors(turn') \subseteq Anchors(turn) \cup {nextTurn}
  BY <1>3, <1>4 DEF Anchors
<1>5. ASSUME NEW r \in Req, Inserts(ResultTurn(r))
      PROVE  Anchors(turn') \subseteq Anchors(turn)
  <2>1. turn'[nextTurn].role = "tool_result"
    BY <1>0, <1>5 DEF Inserts, ResultTurn
  <2> QED BY <1>3, <1>5, <2>1 DEF Anchors
<1>6. CASE Removes
  BY <1>6 DEF Removes, NoTurn, Anchors
<1> QED BY <1>1, <1>2, <1>4, <1>5, <1>6, StepWrites DEF ShareInv

Streams(r) == pc[r] \in {"scrub", "lookup", "demote", "anchor"}

\* On one node one request at a time streams to the post.
LEMMA OneStreams ==
  ASSUME TypeOK, StreamsAreHeld, \A m, n \in Node : m = n,
         NEW q \in Req, NEW r \in Req, Streams(q), Streams(r)
  PROVE  q = r
<1>1. /\ holder[req[q].node] = q /\ req[q].node \in Node
      /\ holder[req[r].node] = r /\ req[r].node \in Node
  BY DEF StreamsAreHeld, Streams, Live, Pcs
<1> QED BY <1>1

\* What AnchorsDemoted says of one request.
Demoted(r) ==
  /\ pc[r] = "demote" => Anchors(turn) \subseteq {tgt[r]}
  /\ pc[r] = "anchor" \/ (pc[r] = "lookup" /\ req[r].op = "regenerate")
       => Anchors(turn) = {}

\* A request that does not move sees no new anchor.
LEMMA DemotedStays ==
  ASSUME TypeOK, ApprovalInv, ShareInv, StreamsAreHeld, \A m, n \in Node : m = n,
         [Next]_vars, NEW q \in Req, Demoted(q), ~ CreateAnchor(q),
         pc'[q] \in {pc[q], "done"}, pc'[q] = pc[q] => tgt'[q] = tgt[q] /\ req'[q] = req[q]
  PROVE  Demoted(q)'
<1>1. CASE Anchors(turn') \subseteq Anchors(turn)
  <2>1. Anchors(turn)' = Anchors(turn')
    BY DEF Anchors
  <2> QED BY <1>1, <2>1 DEF Demoted
<1>2. ASSUME NEW r \in Req, CreateAnchor(r) PROVE Demoted(q)'
  <2>1. Streams(r) /\ q # r
    BY <1>2 DEF CreateAnchor, Streams
  <2>2. ~ Streams(q)
    BY <2>1, OneStreams
  <2> QED BY <2>2 DEF Demoted, Streams
<1> QED BY <1>1, <1>2, AnchorsMove

\* The streaming request, action by action.
LEMMA StreamDemotes ==
  ASSUME TypeOK, AnchorInv, "db" \notin Faults, NEW r \in Req, Scrub(r) \/ Stream(r)
  PROVE  Demoted(r)'
<1> USE DEF TypeOK, Goto
<1>1. CASE Scrub(r)
  <2>1. Anchors(turn') = {}
    <3>1. CASE Anchors(turn) = {} /\ turn' = turn
      BY <3>1
    <3>2. ASSUME NEW a \in Anchors(turn),
                 turn' = [i \in TurnId |-> IF i \in ResponseTurns(a) THEN NoTurn ELSE turn[i]]
          PROVE  Anchors(turn') = {}
      <4>1. \A b \in Anchors(turn) : b = a
        BY DEF AnchorInv, AnchorsAgree
      <4>2. a \in TurnId /\ a \in ResponseTurns(a)
        BY DEF Anchors, ResponseTurns, TurnId
      <4>3. \A i \in TurnId : turn'[i] = turn[i] \/ turn'[i] = NoTurn
        BY <3>2
      <4>4. turn'[a] = NoTurn
        BY <3>2, <4>2
      <4>5. ASSUME NEW b \in TurnId, turn'[b].role = "assistant", turn'[b].anchor PROVE FALSE
        <5>1. turn'[b] # NoTurn
          BY <4>5 DEF NoTurn
        <5>2. b \in Anchors(turn)
          BY <4>3, <4>5, <5>1 DEF Anchors
        <5> QED BY <4>1, <4>4, <5>1, <5>2
      <4> QED BY <4>5 DEF Anchors
    <3> QED BY <1>1, <3>1, <3>2 DEF Scrub
  <2>2. Anchors(turn)' = {}
    BY <2>1 DEF Anchors
  <2>3. pc'[r] = "lookup"
    BY <1>1 DEF Scrub
  <2> QED BY <2>2, <2>3 DEF Demoted
<1>2. CASE FollowUp(r)
  <2>1. pc'[r] = "lookup" /\ req'[r].op # "regenerate"
    BY <1>2 DEF FollowUp, reqVars, AnchorInv, StreamsAreHeld
  <2> QED BY <2>1 DEF Demoted
<1>3. CASE FailFollowUp(r) \/ FinishStream(r)
  <2>1. pc'[r] = "done"
    BY <1>3 DEF FailFollowUp, FinishStream, Return
  <2> QED BY <2>1 DEF Demoted
<1>4. CASE LookupAnchor(r)
  <2>1. turn' = turn /\ req' = req /\ pc[r] = "lookup" /\ Anchors(turn)' = Anchors(turn)
    BY <1>4 DEF LookupAnchor, dbVars, Anchors
  <2>2. req[r].op = "regenerate" => Anchors(turn) = {}
    BY <2>1 DEF AnchorInv, AnchorsDemoted
  <2>3. CASE Anchors(turn) = {} /\ pc'[r] = "anchor"
    BY <2>1, <2>3 DEF Demoted
  <2>4. ASSUME NEW a \in Anchors(turn), tgt'[r] = a,
               pc'[r] = IF req[r].op = "regenerate" THEN "anchor" ELSE "demote"
        PROVE  Demoted(r)'
    <3>1. pc'[r] = "demote"
      BY <2>2, <2>4
    <3>2. Anchors(turn) \subseteq {a}
      BY DEF AnchorInv, AnchorsAgree
    <3> QED BY <2>1, <2>4, <3>1, <3>2 DEF Demoted
  <2> QED BY <1>4, <2>3, <2>4 DEF LookupAnchor
<1>5. CASE DemoteAnchor(r)
  <2>1. /\ turn' = [turn EXCEPT ![tgt[r]].anchor = FALSE] /\ pc'[r] = "anchor"
        /\ Anchors(turn) \subseteq {tgt[r]}
    BY <1>5 DEF DemoteAnchor, DbFails, AnchorInv, AnchorsDemoted
  <2>2. \A i \in TurnId : i \notin Anchors(turn')
    <3> SUFFICES ASSUME NEW i \in TurnId, turn'[i].role = "assistant", turn'[i].anchor
                 PROVE  FALSE
      BY DEF Anchors
    <3>1. i # tgt[r]
      BY <2>1 DEF Turn
    <3>2. turn'[i] = turn[i]
      BY <2>1, <3>1
    <3> QED BY <2>1, <3>1, <3>2 DEF Anchors
  <2>3. Anchors(turn)' = {}
    BY <2>2 DEF Anchors
  <2> QED BY <2>1, <2>3 DEF Demoted
<1>6. CASE CreateAnchor(r)
  BY <1>6 DEF CreateAnchor, Demoted
<1> QED BY <1>1, <1>2, <1>3, <1>4, <1>5, <1>6 DEF Stream

\* The other handlers do not stream.
LEMMA OthersDemote ==
  ASSUME TypeOK, NEW r \in Req,
         Refuse(r) \/ AcquireStream(r) \/ CallHandler(r) \/ ResultHandler(r)
  PROVE  Demoted(r)'
<1>1. pc'[r] \notin {"lookup", "demote", "anchor"}
  <2> USE DEF TypeOK, Goto, Return
  <2>1. CASE Refuse(r) \/ AcquireStream(r) \/ ReadCall(r) \/ Claim(r) \/ LoseClaim(r)
    BY <2>1 DEF Refuse, AcquireStream, ReadCall, Claim, LoseClaim
  <2>2. CASE Resolving(r)
    BY <2>2, ResolvedCall DEF ResolvesCall
  <2>3. CASE Record(r) \/ InsertResults(r)
    BY <2>3 DEF Record, InsertResults
  <2>4. CASE ResultHandler(r)
    BY <2>4 DEF ResultHandler, ReadResult, WriteDecision, UndoDecision, DecisionWritten
  <2> QED BY <2>1, <2>2, <2>3, <2>4 DEF CallHandler, Resolving
<1> QED BY <1>1 DEF Demoted

LEMMA DemotedStep ==
  ASSUME TypeOK, ApprovalInv, ShareInv, AnchorInv, [Next]_vars,
         "db" \notin Faults, \A m, n \in Node : m = n
  PROVE  AnchorsDemoted'
<1> SUFFICES ASSUME NEW q \in Req PROVE Demoted(q)'
  BY DEF AnchorsDemoted, Demoted
<1>0. Demoted(q) /\ StreamsAreHeld
  BY DEF AnchorInv, AnchorsDemoted, Demoted
<1>1. ASSUME NEW r \in Req, NEW n \in Node,
             (\E op \in {"call", "result"} : Click(r, n, op)) \/ ClickRegenerate(r, n)
      PROVE  Demoted(q)'
  <2>1. UNCHANGED <<turn, tgt>> /\ Anchors(turn)' = Anchors(turn)
    BY <1>1 DEF Click, ClickRegenerate, dbVars, Anchors
  <2>2. pc'[q] \in {"read", "acquire"} \/ (pc'[q] = pc[q] /\ req'[q] = req[q])
    BY <1>1 DEF Click, ClickRegenerate, Goto, TypeOK
  <2> QED BY <1>0, <2>1, <2>2 DEF Demoted
<1>2. ASSUME NEW r \in Req, Handler(r) PROVE Demoted(q)'
  <2>1. CASE r = q
    BY <1>2, <2>1, StreamDemotes, OthersDemote DEF Handler
  <2>2. CASE r # q
    <3>1. pc'[q] = pc[q] /\ req'[q] = req[q] /\ tgt'[q] = tgt[q]
      BY <1>2, <2>2, OthersStay DEF LocalsStay
    <3>2. CASE CreateAnchor(q)
      <4>1. ~ CreateAnchor(r)
        <5>1. CreateAnchor(r) => Streams(r) /\ Streams(q)
          BY <3>2 DEF CreateAnchor, Streams
        <5> QED BY <1>0, <2>2, <5>1, OneStreams
      <4>2. pc[q] = "anchor" /\ pc'[q] = "finish"
        BY <3>2 DEF CreateAnchor, Goto, TypeOK
      <4> QED BY <3>1, <4>2
    <3>3. CASE ~ CreateAnchor(q)
      BY <1>0, <3>1, <3>3, DemotedStays
    <3> QED BY <3>2, <3>3
  <2> QED BY <2>1, <2>2
<1>3. ASSUME NEW n \in Node, Crash(n) PROVE Demoted(q)'
  <2>1. UNCHANGED <<turn, tgt, req>> /\ Anchors(turn)' = Anchors(turn)
    BY <1>3 DEF Crash, dbVars, reqVars, Anchors
  <2>2. pc'[q] \in {pc[q], "done"}
    BY <1>3 DEF Crash, TypeOK
  <2> QED BY <1>0, <2>1, <2>2 DEF Demoted
<1>4. CASE UNCHANGED vars
  BY <1>0, <1>4 DEF vars, dbVars, reqVars, Demoted, Anchors
<1> QED BY <1>1, <1>2, <1>3, <1>4 DEF Next, Quiet

LEMMA AgreeStep ==
  ASSUME TypeOK, ApprovalInv, ShareInv, AnchorInv, [Next]_vars
  PROVE  AnchorsAgree'
<1>1. ASSUME NEW r \in Req, CreateAnchor(r) PROVE Anchors(turn) = {}
  BY <1>1 DEF CreateAnchor, AnchorInv, AnchorsDemoted
<1>2. \A a, b \in Anchors(turn') : a = b
  BY <1>1, AnchorsMove DEF AnchorInv, AnchorsAgree
<1> QED BY <1>2 DEF AnchorsAgree, Anchors

-----------------------------------------------------------------------------
(* The theorem *)

LEMMA AnchorInit == Init => AnchorInv
<1> SUFFICES ASSUME Init PROVE AnchorInv
  OBVIOUS
<1>1. \A r \in Req : pc[r] = "idle"
  BY DEF Init
<1>2. \A i \in TurnId : turn[i].role = "assistant" => i = 1
  BY DEF Init, NoTurn, AnchorTurn
<1>3. AnchorsAgree
  BY <1>2 DEF AnchorsAgree, Anchors
<1> QED BY <1>1, <1>3 DEF AnchorInv, StreamsAreHeld, AnchorsDemoted, Live

\* On one node, and while the database's writes succeed, a post never has two
\* anchor turns, whatever clicks, completions and crashes there are: the
\* streaming context admits one stream, which demotes or deletes the anchor it
\* found before it creates its own.
THEOREM OneAnchorOnOneNode ==
  ASSUME "db" \notin Faults, \A m, n \in Node : m = n
  PROVE  Spec => []OneAnchor
<1>1. TypeOK /\ ApprovalInv /\ ShareInv /\ AnchorInv /\ [Next]_vars => AnchorInv'
  <2> SUFFICES ASSUME TypeOK, ApprovalInv, ShareInv, AnchorInv, [Next]_vars
               PROVE  AnchorInv'
    OBVIOUS
  <2>1. StreamsAreHeld'
    BY HeldStep DEF AnchorInv
  <2> QED BY <2>1, DemotedStep, AgreeStep DEF AnchorInv
<1>2. AnchorInv => OneAnchor
  <2> SUFFICES ASSUME AnchorInv PROVE OneAnchor
    OBVIOUS
  <2>1. CASE Anchors(turn) = {}
    BY <2>1, FS_EmptySet DEF OneAnchor
  <2>2. ASSUME NEW a \in Anchors(turn) PROVE OneAnchor
    <3>1. Anchors(turn) = {a}
      BY DEF AnchorInv, AnchorsAgree
    <3>2. Cardinality({a}) = 1
      BY FS_Singleton
    <3> QED BY <3>1, <3>2 DEF OneAnchor
  <2> QED BY <2>1, <2>2
<1> QED BY <1>1, <1>2, AnchorInit, ShareInvariance, PTL DEF Spec

-----------------------------------------------------------------------------
(* One round of calls in a channel: its rows *)

OneRound == ~ IsDM /\ BatchBound <= 1

\* The invariants proved before, and those of a single round.
Before == TypeOK /\ ApprovalInv /\ ShareInv
Inv1 == Before /\ RoundInv

\* Who writes the blocks of row i, and how.
Decides(r, i) ==
  /\ WriteDecision(r) /\ i = NextWrite(r) /\ CasSucceeds(i, seen[r][i].blocks)
  /\ turn' = [turn EXCEPT ![i].blocks = Decision(r, i)]
  /\ wrote' = [wrote EXCEPT ![r] = @ \cup {i}]
  /\ UNCHANGED <<pc, holder>>
Undoes(r, i) ==
  /\ UndoDecision(r) /\ wrote[r] # {} /\ i = LastWrite(r) /\ CasSucceeds(i, Decision(r, i))
  /\ turn' = [turn EXCEPT ![i].blocks = seen[r][i].blocks]
  /\ wrote' = [wrote EXCEPT ![r] = @ \ {i}]
  /\ UNCHANGED <<pc, holder>>
Records(r, i) ==
  /\ Record(r) /\ i = tgt[r] /\ CasSucceeds(i, ClaimedContent(r))
  /\ turn' = [turn EXCEPT ![i].blocks = out[r]] /\ pc' = [pc EXCEPT ![r] = "insert"]
Fills(r, i) ==
  /\ InsertResults(r) /\ i = nextTurn /\ i \in TurnId
  /\ turn' = [turn EXCEPT ![i] = ResultTurn(r)] /\ nextTurn' = nextTurn + 1
Ends(r, i) ==
  /\ CreateAnchor(r) /\ i = nextTurn /\ i \in TurnId
  /\ \E b \in Batches(i) : turn' = [turn EXCEPT ![i] = AnchorTurn(b)]

RowStep(i) ==
  \E r \in Req : \/ Claim(r) /\ i = tgt[r]
                 \/ Records(r, i) \/ Decides(r, i) \/ Undoes(r, i) \/ Fills(r, i) \/ Ends(r, i)
                 \/ DemoteAnchor(r) /\ i = tgt[r]
                 \/ Scrub(r)

LEMMA RowWriters ==
  ASSUME TypeOK, [Next]_vars, NEW i \in TurnId, turn'[i] # turn[i]
  PROVE  RowStep(i)
<1>0. turn \in [TurnId -> Turn] /\ nextTurn \in Nat
  BY DEF TypeOK
<1>1. ASSUME NEW r \in Req, Claim(r) \/ DemoteAnchor(r) PROVE RowStep(i)
  BY <1>0, <1>1 DEF Claim, DemoteAnchor, RowStep
<1>2. ASSUME NEW r \in Req, Record(r) PROVE RowStep(i)
  <2>1. Records(r, tgt[r])
    BY <1>2 DEF Record, Records, Goto
  <2>2. i = tgt[r]
    BY <1>0, <2>1 DEF Records
  <2> QED BY <2>1, <2>2 DEF RowStep
<1>3. ASSUME NEW r \in Req, WriteDecision(r) PROVE RowStep(i)
  <2>1. Decides(r, NextWrite(r))
    BY <1>3 DEF WriteDecision, Decides
  <2>2. i = NextWrite(r)
    BY <1>0, <2>1 DEF Decides
  <2> QED BY <2>1, <2>2 DEF RowStep
<1>4. ASSUME NEW r \in Req, UndoDecision(r) PROVE RowStep(i)
  <2>1. Undoes(r, LastWrite(r))
    BY <1>4 DEF UndoDecision, Undoes
  <2>2. i = LastWrite(r)
    BY <1>0, <2>1 DEF Undoes
  <2> QED BY <2>1, <2>2 DEF RowStep
<1>5. ASSUME NEW r \in Req, InsertResults(r) PROVE RowStep(i)
  <2>1. turn' = [turn EXCEPT ![nextTurn] = ResultTurn(r)] /\ nextTurn' = nextTurn + 1
    BY <1>5 DEF InsertResults, dbVars
  <2>2. i = nextTurn
    BY <1>0, <2>1
  <2> QED BY <1>5, <2>1, <2>2 DEF RowStep, Fills
<1>6. ASSUME NEW r \in Req, CreateAnchor(r) PROVE RowStep(i)
  <2>1. \E b \in Batches(nextTurn) : turn' = [turn EXCEPT ![nextTurn] = AnchorTurn(b)]
    BY <1>6 DEF CreateAnchor, dbVars
  <2>2. i = nextTurn
    BY <1>0, <2>1
  <2> QED BY <1>6, <2>1, <2>2 DEF RowStep, Ends
<1>7. ASSUME NEW r \in Req, Scrub(r) PROVE RowStep(i)
  BY <1>7 DEF RowStep
<1>8. ASSUME NEW r \in Req,
             \/ Refuse(r) \/ AcquireStream(r) \/ ReadCall(r) \/ LoseClaim(r) \/ ReadResult(r)
             \/ DecisionWritten(r) \/ FollowUp(r) \/ FailFollowUp(r) \/ LookupAnchor(r)
             \/ FinishStream(r)
      PROVE  turn' = turn
  BY <1>8 DEF Refuse, AcquireStream, ReadCall, LoseClaim, ReadResult, DecisionWritten,
              FollowUp, FailFollowUp, LookupAnchor, FinishStream, dbVars
<1>9. ASSUME NEW r \in Req, Resolving(r) PROVE turn' = turn
  BY <1>9 DEF Resolving, AnswerQuestion, RunAccepted, SkipQuestion, RunAuto, RejectCall,
              Resolve, dbVars
<1>10. (\A r \in Req : ~ Handler(r)) => turn' = turn
  BY DEF Next, Click, ClickRegenerate, Crash, Quiet, vars, dbVars
<1>11. ASSUME NEW r \in Req, Handler(r) PROVE RowStep(i)
  BY <1>1, <1>2, <1>3, <1>4, <1>5, <1>6, <1>7, <1>8, <1>9, <1>11
  DEF Handler, CallHandler, ResultHandler, Stream, Resolving
<1> QED BY <1>10, <1>11

\* In a channel no row is deleted.
LEMMA RowsStay ==
  ASSUME Before, BatchIsFirst, [Next]_vars, NEW i \in TurnId, turn[i].role # "none"
  PROVE  turn'[i].role = turn[i].role /\ turn'[i].owner = turn[i].owner
<1> USE DEF Before
<1>1. CASE turn'[i].role # "none"
  BY <1>1, RowMoves DEF ShareInv
<1>2. CASE turn'[i].role = "none"
  <2>0. turn \in [TurnId -> Turn]
    BY DEF TypeOK
  <2>1. RowStep(i)
    BY <1>2, RowWriters
  <2>2. i # nextTurn
    BY DEF ApprovalInv, TurnsAreOld, TypeOK, TurnId
  <2>3. \A r \in Req : ~ Scrub(r)
    BY DEF BatchIsFirst, Scrub
  <2>4. PICK r \in Req : \/ Claim(r) /\ i = tgt[r]
                         \/ Records(r, i) \/ Decides(r, i) \/ Undoes(r, i)
                         \/ DemoteAnchor(r) /\ i = tgt[r]
    BY <2>1, <2>2, <2>3 DEF RowStep, Fills, Ends
  <2>5. turn'[i].role = turn[i].role
    BY <2>0, <2>4 DEF Claim, Records, Decides, Undoes, DemoteAnchor, Turn
  <2> QED BY <1>2, <2>5
<1> QED BY <1>1, <1>2

\* The batch stays the first turn's.
LEMMA BatchStep ==
  ASSUME OneRound, Before, BatchIsFirst, [Next]_vars
  PROVE  BatchIsFirst'
<1> USE DEF Before
<1>0. turn \in [TurnId -> Turn] /\ 1 \in TurnId /\ nextTurn \in Nat
  BY ToolApprovalAssumption DEF TypeOK, TurnId
<1>1. turn'[1].role = "assistant"
  BY <1>0, RowsStay DEF BatchIsFirst
<1>2. ASSUME NEW i \in TurnId, turn'[i].role = "assistant", i # 1, NEW t \in Tool
      PROVE  turn'[i].blocks[t].st = "none"
  <2>1. CASE turn[i].role # "none"
    <3>1. turn[i].blocks[t].st = "none"
      BY <1>2, <2>1, RowsStay DEF BatchIsFirst, HasCalls
    <3>2. Forward("none", turn'[i].blocks[t].st)
      BY <1>2, <2>1, <3>1, StatusesMove DEF ShareInv
    <3> QED BY <3>2 DEF Forward, Rank
  <2>2. CASE turn[i].role = "none"
    <3>1. RowStep(i)
      BY <1>2, <2>2, RowWriters
    <3>2. \A r \in Req : ~ Scrub(r)
      BY DEF BatchIsFirst, Scrub
    <3>3. PICK r \in Req : \/ Claim(r) /\ i = tgt[r]
                           \/ Records(r, i) \/ Decides(r, i) \/ Undoes(r, i) \/ Fills(r, i)
                           \/ Ends(r, i) \/ (DemoteAnchor(r) /\ i = tgt[r])
      BY <3>1, <3>2 DEF RowStep
    <3>4. Ends(r, i)
      <4>1. ~ (Claim(r) /\ i = tgt[r]) /\ ~ Records(r, i) /\ ~ Decides(r, i) /\ ~ Undoes(r, i)
        BY <2>2 DEF Claim, Records, Decides, Undoes, CasSucceeds
      <4>2. ~ Fills(r, i)
        BY <1>0, <1>2 DEF Fills, ResultTurn
      <4>3. ~ (DemoteAnchor(r) /\ i = tgt[r])
        BY <1>0, <1>2, <2>2 DEF DemoteAnchor, Turn
      <4> QED BY <3>3, <4>1, <4>2, <4>3
    <3>5. PICK b \in Batches(i) : turn'[i] = AnchorTurn(b)
      BY <1>0, <3>4 DEF Ends
    <3>6. i > 1
      BY <1>2 DEF TurnId
    <3>7. b = {}
      BY <3>6, ToolApprovalAssumption DEF Batches, OneRound, TurnId
    <3> QED BY <3>5, <3>7 DEF AnchorTurn, NoBlock
  <2> QED BY <2>1, <2>2
<1>3. ASSUME NEW i \in TurnId, claimedBy'[i] # NoReq PROVE i = 1
  <2>1. ASSUME NEW r \in Req, Claim(r) PROVE i = 1
    <3>1. BeforeClaim(r)
      BY <2>1 DEF Claim, BeforeClaim
    <3>2. HasCalls(seen[r], tgt[r]) /\ tgt[r] \in TurnId
      BY <3>1 DEF ApprovalInv, ClaimsPending, ShareInv, RequestsWriteOwnRows, HasCalls, Has
    <3>3. tgt[r] = 1 /\ claimedBy' = [claimedBy EXCEPT ![tgt[r]] = r]
      BY <2>1, <3>2, ClaimTakes DEF BatchIsFirst
    <3> QED BY <1>3, <3>3 DEF BatchIsFirst, TypeOK
  <2>2. ASSUME NEW r \in Req, Resolving(r) PROVE i = 1
    <3>1. claimedBy' = claimedBy
      BY <2>2, ResolvedCall DEF ResolvesCall
    <3> QED BY <1>3, <3>1 DEF BatchIsFirst
  <2> QED BY <1>3, <2>1, <2>2, BatchMoves DEF BatchIsFirst
<1>4. ASSUME NEW r \in Req, NEW i \in TurnId
      PROVE  /\ HasCalls(seen'[r], i) => i = 1
             /\ seen'[r][i].role # "none" => turn'[i].role # "none"
  <2>1. seen'[r] = seen[r] \/ seen'[r] = turn
    BY StepLocals DEF LocalMoves, ShareInv
  <2> QED BY <2>1, RowsStay DEF BatchIsFirst, HasCalls
<1>5. ASSUME NEW r \in Req
      PROVE  pc'[r] # "scrub" /\ (pc'[r] # "idle" => req'[r].op \in {"call", "result"})
  <2>1. CASE pc[r] # "idle"
    <3>1. req'[r] = req[r] /\ req[r].op \in {"call", "result"} /\ pc[r] # "scrub"
      BY <2>1, ClicksStay DEF BatchIsFirst
    <3>2. AcquireStream(r) => pc'[r] # "scrub"
      BY <3>1 DEF AcquireStream, Goto, TypeOK
    <3>3. ASSUME Handler(r), ~ AcquireStream(r) PROVE pc'[r] # "scrub"
      <4> USE DEF TypeOK, Goto, Return
      <4>1. CASE \/ Refuse(r) \/ ReadCall(r) \/ ReadResult(r) \/ Claim(r) \/ LoseClaim(r)
                 \/ Record(r) \/ InsertResults(r)
        BY <4>1 DEF Refuse, ReadCall, ReadResult, Claim, LoseClaim, Record, InsertResults
      <4>2. CASE Resolving(r)
        BY <3>1, <4>2, ResolvedCall DEF ResolvesCall
      <4>3. CASE WriteDecision(r) \/ UndoDecision(r) \/ DecisionWritten(r)
        BY <4>3 DEF WriteDecision, UndoDecision, DecisionWritten
      <4>4. CASE Scrub(r) \/ Stream(r)
        BY <4>4 DEF Scrub, Stream, FollowUp, FailFollowUp, LookupAnchor, DemoteAnchor,
                    CreateAnchor, FinishStream
      <4> QED BY <3>3, <4>1, <4>2, <4>3, <4>4
              DEF Handler, CallHandler, ResultHandler, Resolving
    <3>4. ASSUME ~ Handler(r) PROVE pc'[r] \in {pc[r], "done"}
      <4>1. ASSUME NEW q \in Req, Handler(q) PROVE pc'[r] \in {pc[r], "done"}
        BY <3>4, <4>1, OthersStay
      <4>2. ASSUME NEW n \in Node, Crash(n) PROVE pc'[r] \in {pc[r], "done"}
        BY <4>2 DEF Crash, TypeOK
      <4>3. ASSUME NEW q \in Req, NEW n \in Node,
                   (\E op \in {"call", "result"} : Click(q, n, op)) \/ ClickRegenerate(q, n)
            PROVE  pc'[r] \in {pc[r], "done"}
        BY <2>1, <4>3 DEF Click, ClickRegenerate, Goto, TypeOK
      <4>4. UNCHANGED vars => pc'[r] \in {pc[r], "done"}
        BY DEF vars
      <4> QED BY <4>1, <4>2, <4>3, <4>4 DEF Next, Quiet
    <3> QED BY <3>1, <3>2, <3>3, <3>4
  <2>2. CASE pc[r] = "idle"
    <3>1. \A q \in Req, n \in Node : ~ ClickRegenerate(q, n)
      BY DEF ClickRegenerate, OneRound
    <3>2. ASSUME NEW n \in Node, NEW op \in {"call", "result"}, Click(r, n, op)
          PROVE  pc'[r] = "read" /\ req'[r].op \in {"call", "result"}
      BY <3>2 DEF Click, Goto, TypeOK
    <3>3. ASSUME NEW q \in Req, q # r, NEW n \in Node, NEW op \in {"call", "result"},
                 Click(q, n, op)
          PROVE  pc'[r] = pc[r]
      BY <3>3 DEF Click, Goto, TypeOK
    <3>4. ASSUME NEW q \in Req, Handler(q) PROVE pc'[r] = "idle"
      <4>1. q # r
        <5>1. ~ Handler(r)
          BY <2>2 DEF Handler, CallHandler, ResultHandler, Stream, Refuse, AcquireStream,
             ReadCall, Claim, LoseClaim, AnswerQuestion, RunAccepted, SkipQuestion, RunAuto,
             RejectCall, Resolve, Record, InsertResults, ReadResult, WriteDecision,
             UndoDecision, DecisionWritten, Scrub, FollowUp, FailFollowUp, LookupAnchor,
             DemoteAnchor, CreateAnchor, FinishStream
        <5> QED BY <3>4, <5>1
      <4> QED BY <2>2, <3>4, <4>1, OthersStay
    <3>5. ASSUME NEW n \in Node, Crash(n) PROVE pc'[r] = "idle"
      BY <2>2, <3>5 DEF Crash, Live, TypeOK
    <3>6. UNCHANGED vars => pc'[r] = "idle"
      BY <2>2 DEF vars
    <3> QED BY <2>2, <3>1, <3>2, <3>3, <3>4, <3>5, <3>6 DEF Next, Quiet
  <2> QED BY <2>1, <2>2
<1> QED BY <1>1, <1>2, <1>3, <1>4, <1>5 DEF BatchIsFirst, HasCalls

-----------------------------------------------------------------------------
(* One round of calls in a channel: its result row *)

\* The results that are stored, or were read, are those of the first turn.
LEMMA ResultsOfFirst ==
  ASSUME Before, BatchIsFirst
  PROVE  /\ \A j \in ResultTurns(turn) : turn[j].owner = 1 /\ j # 1
         /\ \A r \in Req : \A j \in ResultTurns(seen[r]) : seen[r][j].owner = 1 /\ j # 1
         /\ ResultTurns(turn) # {} =>
              \A r \in Req : ~ (pc[r] \in {"execute", "insert"} /\ tgt[r] = 1)
         /\ \A r \in Req : pc[r] \in {"execute", "insert"} => tgt[r] = 1
<1> USE DEF Before, ShareInv
<1>1. \A i \in 0..MaxTurns : Answered(i) => i = 1
  BY DEF AnsweredIsOver, BatchIsFirst
<1>2. ASSUME NEW j \in ResultTurns(turn) PROVE turn[j].owner = 1 /\ j # 1
  <2>1. turn[j].owner \in 0..MaxTurns /\ Answered(turn[j].owner)
    BY DEF TypeOK, Turn, ResultTurns, Answered
  <2> QED BY <1>1, <2>1 DEF BatchIsFirst, ResultTurns
<1>3. ASSUME NEW r \in Req, NEW j \in ResultTurns(seen[r])
      PROVE  seen[r][j].owner = 1 /\ j # 1
  <2>1. seen[r][j].owner \in 0..MaxTurns /\ Answered(seen[r][j].owner)
    BY DEF TypeOK, Turn, ResultTurns, Answered
  <2>2. turn[j].role = "tool_result"
    BY DEF ResultTurns, BatchIsFirst, ReadsAreOld
  <2> QED BY <1>1, <2>1, <2>2 DEF BatchIsFirst
<1>4. ResultTurns(turn) # {} => Answered(1)
  BY <1>2 DEF Answered
<1>5. ASSUME NEW r \in Req, pc[r] \in {"execute", "insert"} PROVE tgt[r] = 1
  <2>1. tgt[r] \in TurnId /\ claimedBy[tgt[r]] # NoReq
    BY <1>5, ToolApprovalAssumption DEF ResolverKnowsRuns
  <2> QED BY <2>1 DEF BatchIsFirst
<1>6. 1 \in 0..MaxTurns
  BY ToolApprovalAssumption
<1> QED BY <1>2, <1>3, <1>4, <1>5, <1>6 DEF AnsweredIsOver

LEMMA FillsFirst ==
  ASSUME Before, BatchIsFirst, NEW r \in Req, Fills(r, nextTurn)
  PROVE  ResultTurns(turn) = {} /\ ResultTurns(turn') = {nextTurn}
<1>1. pc[r] = "insert"
  BY DEF Fills, InsertResults
<1>2. ResultTurns(turn) = {}
  BY <1>1, ResultsOfFirst
<1>3. \A i \in TurnId : turn'[i] = IF i = nextTurn THEN ResultTurn(r) ELSE turn[i]
  BY DEF Fills, Before, TypeOK
<1>4. nextTurn \in TurnId
  BY DEF Fills
<1>5. \A i \in TurnId : turn[i].role # "tool_result"
  BY <1>2 DEF ResultTurns
<1>6. ResultTurn(r).role = "tool_result"
  BY DEF ResultTurn
<1>7. \A i \in TurnId : turn'[i].role = "tool_result" <=> i = nextTurn
  BY <1>3, <1>5, <1>6
<1> QED BY <1>2, <1>4, <1>7 DEF ResultTurns

\* The result rows stay, or the first of them is inserted.
LEMMA ResultTurnsMove ==
  ASSUME Before, BatchIsFirst, [Next]_vars
  PROVE  \/ ResultTurns(turn') = ResultTurns(turn)
         \/ \E r \in Req : /\ Fills(r, nextTurn) /\ ResultTurns(turn) = {}
                           /\ ResultTurns(turn') = {nextTurn}
<1> USE DEF Before, ShareInv
<1>0. turn \in [TurnId -> Turn]
  BY DEF TypeOK
<1>1. ResultTurns(turn) \subseteq ResultTurns(turn')
  BY RowsStay DEF ResultTurns
<1>2. \A r \in Req : Fills(r, nextTurn) => ResultTurns(turn) = {} /\ ResultTurns(turn') = {nextTurn}
  BY FillsFirst
<1>3. ASSUME NEW j \in TurnId, turn'[j].role = "tool_result", j \notin ResultTurns(turn)
      PROVE  \E r \in Req : Fills(r, nextTurn)
  <2>1. turn[j].role = "none"
    BY <1>3, RowsStay DEF ResultTurns
  <2>2. RowStep(j)
    BY <1>3, <2>1, RowWriters
  <2>3. \A r \in Req : ~ Scrub(r)
    BY DEF BatchIsFirst, Scrub
  <2>4. PICK r \in Req : \/ Claim(r) /\ j = tgt[r]
                         \/ Records(r, j) \/ Decides(r, j) \/ Undoes(r, j)
                         \/ Fills(r, j) \/ Ends(r, j)
                         \/ DemoteAnchor(r) /\ j = tgt[r]
    BY <2>2, <2>3 DEF RowStep
  <2>5. ~ (Claim(r) /\ j = tgt[r]) /\ ~ Records(r, j) /\ ~ Decides(r, j) /\ ~ Undoes(r, j)
    BY <2>1 DEF Claim, Records, Decides, Undoes, CasSucceeds
  <2>6. ~ Ends(r, j)
    BY <1>0, <1>3 DEF Ends, AnchorTurn
  <2>7. ~ (DemoteAnchor(r) /\ j = tgt[r])
    BY <1>0, <1>3, <2>1 DEF DemoteAnchor, Turn
  <2>8. Fills(r, j)
    BY <2>4, <2>5, <2>6, <2>7
  <2> QED BY <2>8 DEF Fills
<1> QED BY <1>1, <1>2, <1>3 DEF ResultTurns

Streaming == {"followup", "lookup", "demote", "anchor", "finish"}

\* Who comes to follow up, and to decide.
LEMMA FollowMoves ==
  ASSUME Before, BatchIsFirst, [Next]_vars, NEW q \in Req, pc'[q] \in Streaming
  PROVE  \/ pc[q] \in Streaming
         \/ Fills(q, nextTurn)
         \/ DecisionWritten(q)
<1> USE DEF Before, Streaming
<1>1. ASSUME Handler(q), pc[q] \notin Streaming
      PROVE  Fills(q, nextTurn) \/ DecisionWritten(q)
  <2> USE DEF TypeOK, Goto, Return
  <2>1. CASE \/ Refuse(q) \/ AcquireStream(q) \/ ReadCall(q) \/ ReadResult(q) \/ Claim(q)
             \/ LoseClaim(q) \/ Record(q)
    BY <2>1 DEF Refuse, AcquireStream, ReadCall, ReadResult, Claim, LoseClaim, Record
  <2>2. CASE Resolving(q)
    BY <1>1, <2>2, ResolvedCall DEF ResolvesCall
  <2>3. CASE InsertResults(q)
    <3>1. turn' = [turn EXCEPT ![nextTurn] = ResultTurn(q)] /\ nextTurn' = nextTurn + 1
          /\ nextTurn <= MaxTurns
      BY <2>3 DEF InsertResults
    <3> QED BY <2>3, <3>1, ToolApprovalAssumption DEF Fills, TurnId
  <2>4. CASE WriteDecision(q) \/ UndoDecision(q)
    BY <2>4 DEF WriteDecision, UndoDecision
  <2>5. CASE Scrub(q)
    BY <2>5 DEF Scrub, BatchIsFirst
  <2>6. CASE Stream(q)
    <3>1. pc[q] \in Streaming \cup {"scrub"}
      BY <2>6 DEF Stream, FollowUp, FailFollowUp, LookupAnchor, DemoteAnchor, CreateAnchor,
                  FinishStream
    <3> QED BY <1>1, <3>1 DEF BatchIsFirst
  <2> QED BY <1>1, <2>1, <2>2, <2>3, <2>4, <2>5, <2>6
          DEF Handler, CallHandler, ResultHandler, Resolving
<1>2. ASSUME NEW r \in Req, r # q, Handler(r) PROVE pc[q] \in Streaming
  BY <1>2, OthersStay
<1>3. ASSUME NEW r \in Req, NEW n \in Node,
             (\E op \in {"call", "result"} : Click(r, n, op)) \/ ClickRegenerate(r, n)
      PROVE  pc[q] \in Streaming
  BY <1>3 DEF Click, ClickRegenerate, Goto, TypeOK
<1>4. ASSUME NEW n \in Node, Crash(n) PROVE pc[q] \in Streaming
  BY <1>4 DEF Crash, TypeOK
<1>5. UNCHANGED vars => pc[q] \in Streaming
  BY DEF vars
<1> QED BY <1>1, <1>2, <1>3, <1>4, <1>5 DEF Next, Quiet

LEMMA DecidingMoves ==
  ASSUME Before, BatchIsFirst, [Next]_vars, NEW q \in Req, Deciding(q)'
  PROVE  /\ req'[q] = req[q]
         /\ \/ Deciding(q) /\ seen'[q] = seen[q] /\ tgt'[q] = tgt[q]
            \/ ReadResult(q)
<1> USE DEF Before, Deciding, ShareInv
<1>1. ASSUME Handler(q)
      PROVE  /\ req'[q] = req[q]
             /\ \/ Deciding(q) /\ seen'[q] = seen[q] /\ tgt'[q] = tgt[q]
                \/ ReadResult(q)
  <2> USE DEF TypeOK, Goto, Return, reqVars
  <2>1. CASE \/ Refuse(q) \/ AcquireStream(q) \/ ReadResult(q) \/ Claim(q)
             \/ LoseClaim(q) \/ Record(q)
    BY <2>1 DEF Refuse, AcquireStream, ReadResult, Claim, LoseClaim, Record
  <2>2. CASE Resolving(q)
    BY <2>2, ResolvedCall DEF ResolvesCall
  <2>3. CASE InsertResults(q) \/ ReadCall(q)
    BY <2>3 DEF InsertResults, ReadCall
  <2>4. CASE WriteDecision(q) \/ UndoDecision(q) \/ DecisionWritten(q)
    BY <2>4 DEF WriteDecision, UndoDecision, DecisionWritten
  <2>5. CASE Scrub(q) \/ Stream(q)
    <3>1. pc'[q] \notin {"acquire", "write", "undo"}
      BY <2>5 DEF Scrub, Stream, FollowUp, FailFollowUp, LookupAnchor, DemoteAnchor,
                  CreateAnchor, FinishStream
    <3> QED BY <3>1
  <2> QED BY <1>1, <2>1, <2>2, <2>3, <2>4, <2>5
          DEF Handler, CallHandler, ResultHandler, Resolving
<1>2. ASSUME NEW r \in Req, r # q, Handler(r)
      PROVE  req'[q] = req[q] /\ Deciding(q) /\ seen'[q] = seen[q] /\ tgt'[q] = tgt[q]
  BY <1>2, OthersStay DEF LocalsStay
<1>3. ASSUME NEW r \in Req, NEW n \in Node,
             (\E op \in {"call", "result"} : Click(r, n, op)) \/ ClickRegenerate(r, n)
      PROVE  req'[q] = req[q] /\ Deciding(q) /\ seen'[q] = seen[q] /\ tgt'[q] = tgt[q]
  BY <1>3 DEF Click, ClickRegenerate, Goto, TypeOK
<1>4. ASSUME NEW n \in Node, Crash(n)
      PROVE  req'[q] = req[q] /\ Deciding(q) /\ seen'[q] = seen[q] /\ tgt'[q] = tgt[q]
  BY <1>4 DEF Crash, TypeOK, reqVars
<1>5. UNCHANGED vars =>
        req'[q] = req[q] /\ Deciding(q) /\ seen'[q] = seen[q] /\ tgt'[q] = tgt[q]
  BY DEF vars, reqVars
<1> QED BY <1>1, <1>2, <1>3, <1>4, <1>5 DEF Next, Quiet

\* The batch gets one result row, before anyone decides on it or follows up.
LEMMA ResultRowStep ==
  ASSUME OneRound, Before, ApprovalInv', BatchIsFirst, OneResultRow, [Next]_vars
  PROVE  OneResultRow'
<1> USE DEF Before, ShareInv
<1>0. turn \in [TurnId -> Turn]
  BY DEF TypeOK
<1>1. \A j, k \in ResultTurns(turn') : j = k
  BY ResultTurnsMove DEF OneResultRow
<1>2. ASSUME NEW j \in ResultTurns(turn') PROVE \E t \in Tool : turn'[j].blocks[t].st = "result"
  <2>1. CASE j \in ResultTurns(turn)
    <3>1. PICK t \in Tool : turn[j].blocks[t].st = "result"
      BY <2>1 DEF OneResultRow, Has
    <3>2. j \in TurnId /\ turn[j].role # "none" /\ turn'[j].role # "none"
      BY <2>1 DEF ResultTurns
    <3>3. Forward("result", turn'[j].blocks[t].st)
      BY <3>1, <3>2, StatusesMove
    <3> QED BY <3>3 DEF Forward, Rank
  <2>2. CASE j \notin ResultTurns(turn)
    <3>1. PICK r \in Req : Fills(r, nextTurn) /\ j = nextTurn
      BY <2>2, ResultTurnsMove
    <3>2. pc[r] = "insert" /\ turn'[j] = ResultTurn(r)
      BY <1>0, <3>1 DEF Fills, InsertResults
    <3>3. PICK t \in Tool : seen[r][tgt[r]].blocks[t].st = "pending"
      BY <3>2 DEF OneResultRow, Has
    <3> QED BY <3>2, <3>3 DEF ResultTurn, Open
  <2> QED BY <2>1, <2>2
<1>3. ASSUME NEW r \in Req, NEW j \in ResultTurns(seen'[r])
      PROVE  \E t \in Tool : seen'[r][j].blocks[t].st = "result"
  <2>1. seen'[r] = seen[r] \/ seen'[r] = turn
    BY StepLocals DEF LocalMoves
  <2> QED BY <2>1 DEF OneResultRow, Has
<1>4. ASSUME NEW q \in Req, pc'[q] \in {"claim", "execute", "insert"}
      PROVE  \E t \in Tool : seen'[q][tgt'[q]].blocks[t].st = "pending"
  <2>1. CASE pc'[q] = "claim"
    BY <2>1 DEF ApprovalInv, ClaimsPending, BeforeClaim, Has
  <2>2. CASE pc'[q] # "claim"
    <3>1. CASE Claim(q)
      BY <3>1 DEF Claim, OneResultRow, Has
    <3>2. CASE Resolving(q)
      <4>1. pc[q] = "execute" /\ seen' = seen /\ tgt' = tgt
        BY <3>2, ResolvedCall DEF ResolvesCall
      <4> QED BY <4>1 DEF OneResultRow, Has
    <3>3. CASE pc[q] \in {"execute", "insert"} /\ tgt'[q] = tgt[q]
      <4>1. seen'[q] = seen[q]
        BY <3>3, StepLocals DEF LocalMoves
      <4> QED BY <3>3, <4>1 DEF OneResultRow, Has
    <3> QED BY <1>4, <2>2, <3>1, <3>2, <3>3, StepLocals DEF LocalMoves, LocalsStay
  <2> QED BY <2>1, <2>2
<1>5. ResultTurns(turn) # {} => ResultTurns(turn') # {}
  BY ResultTurnsMove
<1>6. ASSUME NEW q \in Req, req'[q].op = "result" \/ pc'[q] \in Streaming
      PROVE  ResultTurns(turn') # {}
  <2>1. CASE req[q].op = "result" \/ pc[q] \in Streaming
    BY <1>5, <2>1 DEF OneResultRow, Streaming
  <2>2. CASE req[q].op # "result" /\ req'[q].op = "result"
    <3>1. PICK n \in Node, op \in {"call", "result"} : Click(q, n, op)
      <4>1. pc[q] = "idle"
        BY <2>2, ClicksStay
      <4>2. ASSUME NEW r \in Req, Handler(r) PROVE req' = req
        BY <4>2 DEF Handler, CallHandler, ResultHandler, Stream, Refuse, AcquireStream,
           ReadCall, Claim, LoseClaim, AnswerQuestion, RunAccepted, SkipQuestion, RunAuto,
           RejectCall, Resolve, Record, InsertResults, ReadResult, WriteDecision,
           UndoDecision, DecisionWritten, Scrub, FollowUp, FailFollowUp, LookupAnchor,
           DemoteAnchor, CreateAnchor, FinishStream, reqVars
      <4>3. \A n \in Node : Crash(n) => req' = req
        BY DEF Crash, reqVars
      <4>4. UNCHANGED vars => req' = req
        BY DEF vars, reqVars
      <4>5. \E r \in Req, n \in Node : (\E op \in {"call", "result"} : Click(r, n, op))
        BY <2>2, <4>2, <4>3, <4>4 DEF Next, Quiet, ClickRegenerate, OneRound
      <4>6. ASSUME NEW r \in Req, NEW n \in Node, NEW op \in {"call", "result"},
                   Click(r, n, op)
            PROVE  r = q
        BY <2>2, <4>6 DEF Click, TypeOK
      <4> QED BY <4>5, <4>6
    <3>2. op = "result" /\ StageOf(turn) = "result"
      BY <2>2, <3>1 DEF Click, TypeOK
    <3>3. ResultTurns(turn) # {}
      BY <3>2 DEF StageOf
    <3> QED BY <1>5, <3>3
  <2>3. CASE pc'[q] \in Streaming /\ pc[q] \notin Streaming
    <3>1. CASE Fills(q, nextTurn)
      <4>1. \E r \in Req : turn' = [turn EXCEPT ![nextTurn] = ResultTurn(r)]
        BY <3>1 DEF Fills
      <4>2. nextTurn \in TurnId
        BY <3>1 DEF Fills
      <4>3. turn'[nextTurn].role = "tool_result"
        BY <1>0, <4>1, <4>2 DEF ResultTurn
      <4> QED BY <4>2, <4>3 DEF ResultTurns
    <3>2. CASE DecisionWritten(q)
      <4>1. req[q].op = "result"
        BY <3>2 DEF DecisionWritten, RequestsWriteOwnRows
      <4> QED BY <1>5, <4>1 DEF OneResultRow
    <3> QED BY <2>3, <3>1, <3>2, FollowMoves
  <2> QED BY <1>6, <2>1, <2>2, <2>3
<1>7. ASSUME NEW q \in Req, Deciding(q)' PROVE ResultTurns(seen'[q]) # {}
  <2>1. CASE ReadResult(q)
    <3>1. req[q].op = "result" /\ seen'[q] = turn
      BY <2>1 DEF ReadResult, TypeOK
    <3> QED BY <3>1 DEF OneResultRow
  <2>2. CASE Deciding(q) /\ seen'[q] = seen[q]
    BY <2>2 DEF OneResultRow
  <2> QED BY <1>7, <2>1, <2>2, DecidingMoves
<1> QED
  <2>1. ResultTurns(turn)' = ResultTurns(turn')
    BY DEF ResultTurns
  <2>2. \A r \in Req : ResultTurns(seen[r])' = ResultTurns(seen'[r])
    BY DEF ResultTurns
  <2> QED BY <1>1, <1>2, <1>3, <1>4, <1>6, <1>7, <2>1, <2>2 DEF OneResultRow, Has, Streaming

-----------------------------------------------------------------------------
(* One round of calls in a channel: who decides *)

LEMMA MinFirst ==
  ASSUME NEW S \in SUBSET TurnId, 1 \in S
  PROVE  Min(S) = 1
<1>1. \A x \in S : x \in Nat /\ 1 <= x
  BY DEF TurnId
<1>2. Min(S) \in S /\ \A y \in S : Min(S) <= y
  BY <1>1 DEF Min
<1> QED BY <1>1, <1>2

\* What a click decides, and where, depends on what it read.
LEMMA ViewStays ==
  ASSUME NEW q \in Req, seen'[q] = seen[q], req'[q] = req[q]
  PROVE  /\ Decisions(q)' = Decisions(q)
         /\ Others(q)' = Others(q)
         /\ \A j : Decision(q, j)' = Decision(q, j)
<1>1. \A j : Decision(q, j)' = Decision(q, j)
  BY DEF Decision, AcceptedOn, Anchors
<1>2. Decisions(q)' = Decisions(q)
  BY <1>1 DEF Decisions, ResultTurns
<1>3. Others(q)' = Others(q)
  BY <1>2 DEF Others, AcceptedOn, ResultTurns, Anchors
<1> QED BY <1>1, <1>2, <1>3

LEMMA DecidersStep ==
  ASSUME Before, BatchIsFirst, OneResultRow, DecidersSawOpen, [Next]_vars
  PROVE  DecidersSawOpen'
<1> SUFFICES ASSUME NEW q \in Req, Deciding(q)', 1 \in Anchors(seen'[q])
             PROVE  /\ tgt'[q] = 1
                    /\ \E j \in ResultTurns(seen'[q]), t \in Tool :
                         seen'[q][j].blocks[t].st = "result" /\ ~ seen'[q][j].blocks[t].decided
  BY DEF DecidersSawOpen, Anchors, ResultTurns
<1>1. CASE ReadResult(q)
  <2>1. /\ req[q].op = "result" /\ seen'[q] = turn /\ 1 \in Anchors(turn)
        /\ tgt'[q] = Min(Anchors(turn))
        /\ (\E j \in ResultTurns(turn), t \in Tool : IsClickedResult(turn, j, t)) =>
              \E j \in ResultTurns(turn), t \in Tool :
                IsClickedResult(turn, j, t) /\ ~ turn[j].blocks[t].decided
    BY <1>1 DEF ReadResult, Before, TypeOK
  <2>2. tgt'[q] = 1
    BY <2>1, MinFirst, AnchorsAreTurns
  <2>3. PICK j \in ResultTurns(turn), t \in Tool : turn[j].blocks[t].st = "result"
    BY <2>1 DEF OneResultRow, Has
  <2>4. IsClickedResult(turn, j, t)
    BY <2>1, <2>3, ResultsOfFirst DEF IsClickedResult
  <2> QED BY <2>1, <2>2, <2>4 DEF IsClickedResult
<1>2. CASE Deciding(q) /\ seen'[q] = seen[q] /\ tgt'[q] = tgt[q]
  BY <1>2 DEF DecidersSawOpen
<1> QED BY <1>1, <1>2, DecidingMoves

\* A click either found nothing to decide in the batch, or decides its one
\* result row, and then perhaps shares calls of the first turn.
LEMMA DecidingView ==
  ASSUME Before, BatchIsFirst, OneResultRow, DecidersSawOpen, NEW r \in Req, Deciding(r)
  PROVE  \/ /\ 1 \in Anchors(seen[r]) /\ tgt[r] = 1
            /\ \E j \in ResultTurns(turn) :
                 /\ ResultTurns(seen[r]) = {j} /\ ResultTurns(turn) = {j} /\ Decisions(r) = {j}
                 /\ Others(r) \subseteq {1} /\ j # 1
                 /\ \E t \in Tool : /\ seen[r][j].blocks[t].st = "result"
                                    /\ ~ seen[r][j].blocks[t].decided
                 /\ \A t \in Tool : Decision(r, j)[t].st = "result" => Decision(r, j)[t].decided
         \/ /\ 1 \notin Anchors(seen[r])
            /\ Decisions(r) = {} /\ Others(r) = {} /\ ~ HasExecuted(seen[r])
<1> USE DEF Before, ShareInv
<1>1. ResultTurns(seen[r]) \subseteq ResultTurns(turn)
  BY DEF ResultTurns, BatchIsFirst, ReadsAreOld
<1>2. PICK j \in ResultTurns(seen[r]) : TRUE
  BY DEF OneResultRow
<1>3. ResultTurns(seen[r]) = {j} /\ ResultTurns(turn) = {j} /\ j \in TurnId
  BY <1>1, <1>2 DEF OneResultRow, ResultTurns
<1>4. seen[r][j].owner = 1 /\ j # 1 /\ seen[r][j].role = "tool_result"
  BY <1>2, ResultsOfFirst DEF ResultTurns
<1>5. \A i \in Anchors(seen[r]), t \in Tool : seen[r][i].blocks[t].st # "none" => i = 1
  BY DEF Anchors, BatchIsFirst, HasCalls
<1>6. Decisions(r) \subseteq {j}
  BY <1>3 DEF Decisions
<1>7. \A t \in Tool :
        /\ Decision(r, j)[t].st = seen[r][j].blocks[t].st
        /\ Decision(r, j)[t].decided <=>
             \/ seen[r][j].blocks[t].decided
             \/ 1 \in Anchors(seen[r]) /\ seen[r][j].blocks[t].st # "none"
  BY <1>4, Zenon DEF Decision
<1>8. CASE 1 \in Anchors(seen[r])
  <2>1. PICK t \in Tool : /\ seen[r][j].blocks[t].st = "result"
                          /\ ~ seen[r][j].blocks[t].decided
    BY <1>3, <1>8 DEF DecidersSawOpen
  <2>2. Decision(r, j)[t].decided
    BY <1>7, <1>8, <2>1
  <2>3. Decisions(r) = {j}
    BY <1>3, <1>6, <2>1, <2>2 DEF Decisions
  <2>4. Others(r) \subseteq {1}
    <3>1. \A i : AcceptedOn(r, i) \subseteq Tool
      BY DEF AcceptedOn, TypeOK
    <3> QED BY <1>3, <1>5, <2>3, <3>1 DEF Others
  <2>5. \A u \in Tool : Decision(r, j)[u].st = "result" => Decision(r, j)[u].decided
    BY <1>7, <1>8
  <2>6. tgt[r] = 1
    BY <1>8 DEF DecidersSawOpen
  <2> QED BY <1>3, <1>4, <1>8, <2>1, <2>3, <2>4, <2>5, <2>6
<1>9. CASE 1 \notin Anchors(seen[r])
  <2>1. \A t \in Tool : Decision(r, j)[t].decided => seen[r][j].blocks[t].decided
    BY <1>7, <1>9
  <2>2. Decisions(r) = {}
    BY <1>6, <2>1 DEF Decisions
  <2>3. \A i \in Anchors(seen[r]), t \in Tool : seen[r][i].blocks[t].st = "none"
    BY <1>5, <1>9
  <2>4. Others(r) = {}
    <3>1. \A i \in TurnId : ~ (/\ i \in Anchors(seen[r])
                               /\ \E t \in AcceptedOn(r, i) : seen[r][i].blocks[t].st # "none")
      <4>1. \A i : AcceptedOn(r, i) \subseteq Tool
        BY DEF AcceptedOn, TypeOK
      <4> QED BY <2>3, <4>1
    <3>2. \A i \in TurnId : ~ (i \in ResultTurns(seen[r]) /\ seen[r][i].owner \in Anchors(seen[r]))
      BY <1>3, <1>4, <1>9
    <3> QED BY <3>1, <3>2 DEF Others
  <2>5. ~ HasExecuted(seen[r])
    BY <2>3 DEF HasExecuted, Has, Resolved
  <2> QED BY <1>9, <2>2, <2>4, <2>5
<1> QED BY <1>8, <1>9

\* Only an undo forgets a write.
LEMMA UndoMoves ==
  ASSUME TypeOK, [Next]_vars, NEW q \in Req, ~ (wrote[q] \subseteq wrote'[q])
  PROVE  UndoDecision(q) /\ wrote[q] # {} /\ wrote'[q] = wrote[q] \ {LastWrite(q)}
<1>1. ASSUME NEW r \in Req, Handler(r), ~ UndoDecision(r) PROVE wrote[q] \subseteq wrote'[q]
  <2> USE DEF TypeOK, reqVars
  <2>1. CASE \/ Refuse(r) \/ AcquireStream(r) \/ ReadCall(r) \/ ReadResult(r) \/ Claim(r)
             \/ LoseClaim(r) \/ Record(r) \/ InsertResults(r)
    BY <2>1 DEF Refuse, AcquireStream, ReadCall, ReadResult, Claim, LoseClaim, Record,
                InsertResults
  <2>2. CASE Resolving(r)
    BY <2>2 DEF Resolving, AnswerQuestion, RunAccepted, SkipQuestion, RunAuto, RejectCall,
                Resolve
  <2>3. CASE WriteDecision(r) \/ DecisionWritten(r)
    <3>1. wrote' = wrote \/ wrote' = [wrote EXCEPT ![r] = @ \cup {NextWrite(r)}]
      BY <2>3 DEF WriteDecision, DecisionWritten
    <3> HIDE DEF NextWrite
    <3>2. wrote \in [Req -> SUBSET TurnId]
      OBVIOUS
    <3> QED BY <3>1, <3>2
  <2>4. CASE Scrub(r) \/ Stream(r)
    BY <2>4 DEF Scrub, Stream, FollowUp, FailFollowUp, LookupAnchor, DemoteAnchor,
                CreateAnchor, FinishStream
  <2> QED BY <1>1, <2>1, <2>2, <2>3, <2>4
          DEF Handler, CallHandler, ResultHandler, Resolving
<1>2. (\A r \in Req : ~ Handler(r)) => wrote' = wrote
  BY DEF Next, Click, ClickRegenerate, Crash, Quiet, vars, reqVars
<1>3. PICK r \in Req : UndoDecision(r)
  BY <1>1, <1>2
<1>4. /\ wrote[r] # {} /\ wrote' = [wrote EXCEPT ![r] = @ \ {LastWrite(r)}]
  BY <1>3 DEF UndoDecision
<1>5. q = r
  BY <1>4 DEF TypeOK
<1> QED BY <1>3, <1>4, <1>5 DEF TypeOK

\* The rows that record the decision are written before the others, and undone
\* after them.
LEMMA OrderStep ==
  ASSUME Before, WritesInOrder, [Next]_vars
  PROVE  WritesInOrder'
<1> USE DEF Before, ShareInv
<1> SUFFICES ASSUME NEW q \in Req
             PROVE  /\ wrote'[q] \subseteq Decisions(q)' \cup Others(q)'
                    /\ wrote'[q] \cap Others(q)' # {} => Decisions(q)' \subseteq wrote'[q]
  BY DEF WritesInOrder
<1>1. Others(q) \cap Decisions(q) = {}
  BY DEF Others
<1>2. CASE wrote'[q] = {}
  BY <1>2
<1>3. ASSUME wrote'[q] # {}
      PROVE  Decisions(q)' = Decisions(q) /\ Others(q)' = Others(q)
  <2>1. pc[q] \notin {"idle", "read"}
    <3>1. ASSUME pc[q] \in {"idle", "read"} PROVE wrote'[q] = {}
      <4>1. wrote[q] = {}
        BY <3>1 DEF RequestsWriteOwnRows
      <4>2. ~ WriteDecision(q)
        BY <3>1 DEF WriteDecision
      <4> QED BY <4>1, <4>2, StepLocals DEF LocalMoves
    <3> QED BY <1>3, <3>1
  <2>2. seen'[q] = seen[q] /\ req'[q] = req[q]
    BY <2>1, StepLocals, ClicksStay DEF LocalMoves
  <2> QED BY <2>2, ViewStays
<1>4. /\ wrote[q] \subseteq Decisions(q) \cup Others(q)
      /\ wrote[q] \cap Others(q) # {} => Decisions(q) \subseteq wrote[q]
      /\ wrote[q] \in SUBSET TurnId
      /\ Decisions(q) \in SUBSET TurnId /\ Others(q) \in SUBSET TurnId
  BY DEF WritesInOrder, TypeOK, Decisions, Others, ResultTurns
<1>5. ASSUME wrote'[q] # {}, wrote'[q] = wrote[q] \cup {NextWrite(q)}, WriteDecision(q)
      PROVE  /\ wrote'[q] \subseteq Decisions(q) \cup Others(q)
             /\ wrote'[q] \cap Others(q) # {} => Decisions(q) \subseteq wrote'[q]
  <2>1. CASE Decisions(q) \ wrote[q] # {}
    <3>1. NextWrite(q) = Min(Decisions(q) \ wrote[q])
      BY <2>1 DEF NextWrite
    <3>2. NextWrite(q) \in Decisions(q)
      BY <1>4, <2>1, <3>1, MinIsTurn
    <3> QED BY <1>1, <1>4, <1>5, <2>1, <3>2
  <2>2. CASE Decisions(q) \subseteq wrote[q]
    <3>1. NextWrite(q) = Min(Others(q) \ wrote[q]) /\ Others(q) \ wrote[q] # {}
      BY <1>5, <2>2 DEF NextWrite, WriteDecision
    <3>2. NextWrite(q) \in Others(q)
      BY <1>4, <3>1, MinIsTurn
    <3> QED BY <1>4, <1>5, <2>2, <3>2
  <2> QED BY <2>1, <2>2
<1>6. ASSUME wrote'[q] # {}, wrote'[q] # wrote[q], wrote'[q] \subseteq wrote[q]
      PROVE  /\ wrote'[q] \subseteq Decisions(q) \cup Others(q)
             /\ wrote'[q] \cap Others(q) # {} => Decisions(q) \subseteq wrote'[q]
  <2>1. UndoDecision(q) /\ wrote[q] # {} /\ wrote'[q] = wrote[q] \ {LastWrite(q)}
    BY <1>6, UndoMoves
  <2>2. CASE wrote[q] \cap Others(q) # {}
    <3>1. LastWrite(q) \in Others(q)
      BY <1>4, <2>2, MaxIsTurn DEF LastWrite
    <3> QED BY <1>1, <1>4, <2>1, <2>2, <3>1
  <2>3. CASE wrote[q] \cap Others(q) = {}
    BY <1>4, <2>1, <2>3
  <2> QED BY <2>2, <2>3
<1>7. CASE wrote'[q] = wrote[q]
  BY <1>2, <1>3, <1>4, <1>7
<1> QED BY <1>2, <1>3, <1>5, <1>6, <1>7, StepLocals DEF LocalMoves

-----------------------------------------------------------------------------
(* One round of calls in a channel: one follow-up *)

\* Who comes to follow up.
LEMMA FollowupComes ==
  ASSUME Before, BatchIsFirst, [Next]_vars, NEW q \in Req, pc'[q] = "followup"
  PROVE  /\ tgt'[q] = tgt[q]
         /\ \/ pc[q] = "followup"
            \/ /\ Fills(q, nextTurn) /\ pc[q] = "insert"
               /\ \A t \in Tool : ResultTurn(q).blocks[t].st = "result"
                                    => ResultTurn(q).blocks[t].decided
            \/ DecisionWritten(q) /\ NeedsStream(q)
<1> USE DEF Before
<1>1. CASE Fills(q, nextTurn)
  <2>1. pc[q] = "insert" /\ tgt' = tgt
    BY <1>1 DEF Fills, InsertResults, reqVars
  <2>2. \A t \in Tool : ResultTurn(q).blocks[t].st = "result" => ResultTurn(q).blocks[t].decided
    <3>1. CASE \E t \in Tool : ResultTurn(q).blocks[t].st = "result"
                                 /\ ~ ResultTurn(q).blocks[t].decided
      <4>1. pc' = [pc EXCEPT ![q] = "done"]
        BY <1>1, <3>1 DEF Fills, InsertResults, Return, Goto, dbVars, TypeOK
      <4> QED BY <4>1 DEF TypeOK
    <3> QED BY <3>1
  <2> QED BY <1>1, <2>1, <2>2
<1>2. CASE DecisionWritten(q)
  <2>1. tgt' = tgt
    BY <1>2 DEF DecisionWritten, reqVars
  <2>2. NeedsStream(q)
    BY <1>2 DEF DecisionWritten, Return, Goto, TypeOK
  <2> QED BY <1>2, <2>1, <2>2
<1>3. CASE pc[q] \in Streaming
  <2>1. ~ Handler(q)
    <3>1. ASSUME Stream(q) PROVE FALSE
      BY <3>1 DEF Stream, FollowUp, FailFollowUp, LookupAnchor, DemoteAnchor, CreateAnchor,
                  FinishStream, Goto, Return, TypeOK
    <3>2. ASSUME Handler(q), ~ Stream(q) PROVE FALSE
      BY <1>3, <3>2 DEF Streaming, Handler, CallHandler, ResultHandler, Refuse, AcquireStream,
         ReadCall, Claim, LoseClaim, AnswerQuestion, RunAccepted, SkipQuestion, RunAuto,
         RejectCall, Resolve, Record, InsertResults, ReadResult, WriteDecision, UndoDecision,
         DecisionWritten, Scrub
    <3> QED BY <3>1, <3>2
  <2>2. ASSUME NEW r \in Req, Handler(r) PROVE pc[q] = "followup" /\ tgt'[q] = tgt[q]
    BY <2>1, <2>2, OthersStay DEF LocalsStay
  <2>3. ASSUME NEW r \in Req, NEW n \in Node,
               (\E op \in {"call", "result"} : Click(r, n, op)) \/ ClickRegenerate(r, n)
        PROVE  pc[q] = "followup" /\ tgt'[q] = tgt[q]
    BY <2>3 DEF Click, ClickRegenerate, Goto, TypeOK
  <2>4. ASSUME NEW n \in Node, Crash(n) PROVE pc[q] = "followup" /\ tgt'[q] = tgt[q]
    BY <2>4 DEF Crash, TypeOK, reqVars
  <2>5. UNCHANGED vars => pc[q] = "followup" /\ tgt'[q] = tgt[q]
    BY DEF vars, reqVars
  <2> QED BY <2>2, <2>3, <2>4, <2>5 DEF Next, Quiet
<1> QED BY <1>1, <1>2, <1>3, FollowMoves DEF Streaming

\* Who comes to have decided.
LEMMA DecidersCome ==
  ASSUME Before, BatchIsFirst, [Next]_vars, NEW q \in Req, q \in Deciders'
  PROVE  q \in Deciders \/ \E i \in Decisions(q) : Decides(q, i)
<1> USE DEF Before, ShareInv
<1>1. /\ pc'[q] \in {"write", "undo"} /\ Decisions(q)' \cap wrote'[q] # {}
      /\ Deciding(q)'
  BY OwnRowsStep DEF Deciders, Deciding, RequestsWriteOwnRows
<1>2. CASE ReadResult(q)
  <2>1. wrote'[q] = {}
    BY <1>2 DEF ReadResult, RequestsWriteOwnRows
  <2> QED BY <1>1, <2>1
<1>3. CASE Deciding(q) /\ seen'[q] = seen[q] /\ req'[q] = req[q]
  <2>1. Decisions(q)' = Decisions(q)
    BY <1>3, ViewStays
  <2>2. CASE Decisions(q) \cap wrote[q] # {}
    <3>1. pc[q] \in {"write", "undo"}
      BY <1>3, <2>2 DEF Deciding, RequestsWriteOwnRows
    <3> QED BY <2>2, <3>1 DEF Deciders
  <2>3. CASE Decisions(q) \cap wrote[q] = {}
    <3>1. WriteDecision(q) /\ wrote'[q] = wrote[q] \cup {NextWrite(q)}
      BY <1>1, <2>1, <2>3, StepLocals DEF LocalMoves
    <3>2. NextWrite(q) \in Decisions(q) /\ wrote' # wrote
      BY <1>1, <2>1, <2>3, <3>1
    <3>3. Decides(q, NextWrite(q))
      BY <3>1, <3>2 DEF WriteDecision, Decides
    <3> QED BY <3>2, <3>3
  <2> QED BY <2>2, <2>3
<1> QED BY <1>1, <1>2, <1>3, DecidingMoves

\* What happens to the result row.
LEMMA ResultRowWrites ==
  ASSUME Before, BatchIsFirst, OneResultRow, DecidersSawOpen, WritesInOrder, [Next]_vars,
         NEW j \in ResultTurns(turn), turn'[j].blocks # turn[j].blocks
  PROVE  \E r \in Req : j \in Decisions(r) /\ (Decides(r, j) \/ Undoes(r, j))
<1> USE DEF Before, ShareInv
<1>0. turn \in [TurnId -> Turn] /\ j \in TurnId /\ turn[j].role = "tool_result" /\ j # 1
  BY ResultsOfFirst DEF TypeOK, ResultTurns
<1>1. RowStep(j)
  BY <1>0, RowWriters
<1>2. \A r \in Req : ~ Scrub(r)
  BY DEF BatchIsFirst, Scrub
<1>3. j # nextTurn
  BY <1>0 DEF ApprovalInv, TurnsAreOld, TypeOK, TurnId
<1>4. \A r \in Req : ~ (DemoteAnchor(r) /\ j = tgt[r])
  BY <1>0 DEF DemoteAnchor, Turn
<1>5. \A r \in Req : ~ (Claim(r) /\ j = tgt[r])
  BY <1>0 DEF Claim, CasSucceeds, ApprovalInv, ClaimsPending, BeforeClaim, RequestsWriteOwnRows,
              ReadsAreOld
<1>6. \A r \in Req : ~ Records(r, j)
  BY <1>0, ResultsOfFirst DEF Records, Record
<1>7. PICK r \in Req : Decides(r, j) \/ Undoes(r, j)
  BY <1>1, <1>2, <1>3, <1>4, <1>5, <1>6 DEF RowStep, Fills, Ends
<1>8. j \in Decisions(r) \cup Others(r)
  <2>1. CASE Decides(r, j)
    <3>1. Decisions(r) \in SUBSET TurnId /\ Others(r) \in SUBSET TurnId
      BY DEF Decisions, Others, ResultTurns
    <3>2. (Decisions(r) \cup Others(r)) \ wrote[r] # {} /\ j = NextWrite(r)
      BY <2>1 DEF Decides, WriteDecision
    <3> QED BY <3>1, <3>2, MinIsTurn DEF NextWrite
  <2>2. CASE Undoes(r, j)
    BY <2>2, LastWriteIsRow DEF Undoes, WritesInOrder
  <2> QED BY <1>7, <2>1, <2>2
<1>9. Deciding(r)
  BY <1>7 DEF Decides, Undoes, WriteDecision, UndoDecision, Deciding, RequestsWriteOwnRows
<1> QED BY <1>0, <1>7, <1>8, <1>9, DecidingView

LEMMA FollowedStays ==
  ASSUME [Next]_vars, \A r \in Req : ~ FollowUp(r)
  PROVE  followed' = followed
<1>1. ASSUME NEW r \in Req, Handler(r) PROVE followed' = followed
  <2>1. CASE \/ Refuse(r) \/ AcquireStream(r) \/ ReadCall(r) \/ ReadResult(r) \/ Claim(r)
             \/ LoseClaim(r) \/ Record(r) \/ InsertResults(r)
    BY <2>1 DEF Refuse, AcquireStream, ReadCall, ReadResult, Claim, LoseClaim, Record,
                InsertResults, history
  <2>2. CASE Resolving(r)
    BY <2>2 DEF Resolving, AnswerQuestion, RunAccepted, SkipQuestion, RunAuto, RejectCall,
                Resolve
  <2>3. CASE WriteDecision(r) \/ UndoDecision(r) \/ DecisionWritten(r) \/ Scrub(r)
    BY <2>3 DEF WriteDecision, UndoDecision, DecisionWritten, Scrub, history
  <2>4. CASE Stream(r)
    BY <2>4 DEF Stream, FailFollowUp, LookupAnchor, DemoteAnchor, CreateAnchor, FinishStream,
                history
  <2> QED BY <1>1, <2>1, <2>2, <2>3, <2>4
          DEF Handler, CallHandler, ResultHandler, Resolving
<1>2. (\A r \in Req : ~ Handler(r)) => followed' = followed
  BY DEF Next, Click, ClickRegenerate, Crash, Quiet, vars, history
<1> QED BY <1>1, <1>2

LEMMA DecidesWrites ==
  ASSUME TypeOK, WritesInOrder, NEW q \in Req, NEW i, Decides(q, i)
  PROVE  WriteDecision(q) /\ wrote'[q] # wrote[q]
<1>1. WriteDecision(q) /\ i = NextWrite(q) /\ wrote'[q] = wrote[q] \cup {i}
  BY DEF Decides, TypeOK
<1>2. Decisions(q) \in SUBSET TurnId /\ Others(q) \in SUBSET TurnId
  BY DEF Decisions, Others, ResultTurns
<1>3. (Decisions(q) \cup Others(q)) \ wrote[q] # {}
  BY <1>1 DEF WriteDecision
<1>4. i \notin wrote[q]
  BY <1>1, <1>2, <1>3, MinIsTurn DEF NextWrite
<1> QED BY <1>1, <1>4

LEMMA FollowedStep ==
  ASSUME Inv1, [Next]_vars
  PROVE  FollowedOnce'
<1> USE DEF Inv1, Before, ShareInv, RoundInv
<1>0. /\ followed \in [TurnId -> Nat] /\ 1 \in TurnId
      /\ \A i \in TurnId : followed[i] <= 1 /\ (followed[i] > 0 => i = 1)
      /\ \A q, r \in Followers : q = r
      /\ Followers # {} => followed[1] = 0 /\ AllDecided
      /\ followed[1] > 0 => AllDecided /\ ResultTurns(turn) # {}
      /\ Followers \subseteq Req
  BY ToolApprovalAssumption DEF FollowedOnce, TypeOK, TurnId, Followers, Deciders
<1>1. ASSUME NEW q \in Req, pc'[q] = "followup" PROVE tgt'[q] = 1
  <2>1. CASE pc[q] = "followup"
    BY <1>1, <2>1, FollowupComes DEF FollowedOnce
  <2>2. CASE pc[q] = "insert"
    BY <1>1, <2>2, FollowupComes, ResultsOfFirst
  <2>3. CASE DecisionWritten(q) /\ NeedsStream(q)
    <3>1. Deciding(q) /\ HasExecuted(seen[q])
      BY <2>3 DEF DecisionWritten, Deciding, NeedsStream, RequestsWriteOwnRows
    <3>2. tgt[q] = 1
      BY <3>1, DecidingView
    <3> QED BY <1>1, <3>2, FollowupComes
  <2> QED BY <1>1, <2>1, <2>2, <2>3, FollowupComes
<1>2. ASSUME NEW q \in Followers', q \notin Followers
      PROVE  \/ Fills(q, nextTurn) /\ pc'[q] = "followup"
             \/ \E i \in Decisions(q) : Decides(q, i)
  <2>1. q \in Req
    BY <1>2 DEF Followers, Deciders
  <2>2. CASE q \in Deciders'
    BY <1>2, <2>1, <2>2, DecidersCome DEF Followers
  <2>3. CASE pc'[q] = "followup"
    <3>1. ASSUME DecisionWritten(q), NeedsStream(q) PROVE FALSE
      <4>0. (Decisions(q) \cup Others(q)) \subseteq wrote[q] /\ pc[q] = "write"
        BY <3>1 DEF DecisionWritten
      <4>1. /\ Deciding(q) /\ HasExecuted(seen[q]) /\ pc[q] = "write"
            /\ Decisions(q) \subseteq wrote[q]
        BY <2>1, <3>1, <4>0 DEF Deciding, NeedsStream, RequestsWriteOwnRows
      <4>2. Decisions(q) # {}
        BY <2>1, <4>1, DecidingView
      <4> QED BY <1>2, <2>1, <4>1, <4>2 DEF Followers, Deciders
    <3>2. pc[q] # "followup"
      BY <1>2, <2>1 DEF Followers
    <3> QED BY <2>1, <2>3, <3>1, <3>2, FollowupComes
  <2> QED BY <1>2, <2>1, <2>2, <2>3 DEF Followers
<1>3. CASE \E r \in Req : FollowUp(r)
  <2>1. PICK r \in Req : FollowUp(r)
    BY <1>3
  <2>2. /\ pc[r] = "followup" /\ pc' = [pc EXCEPT ![r] = "lookup"] /\ tgt[r] = 1
        /\ followed' = [followed EXCEPT ![1] = @ + 1]
        /\ UNCHANGED <<turn, nextTurn, wrote, seen, req>>
    BY <2>1 DEF FollowUp, Goto, FollowedOnce, dbVars, reqVars
  <2>3. Followers = {r} /\ followed[1] = 0 /\ AllDecided
    BY <1>0, <2>2 DEF Followers
  <2>4. Followers' = {}
    <3>1. ASSUME NEW q \in Followers' PROVE FALSE
      <4>1. ~ Fills(q, nextTurn) /\ \A i \in Decisions(q) : ~ Decides(q, i)
        <5>1. ~ Fills(q, nextTurn)
          BY <1>0, <2>2 DEF Fills, TypeOK
        <5>2. ASSUME NEW i \in Decisions(q), Decides(q, i) PROVE FALSE
          <6>1. pc' = pc
            BY <5>2 DEF Decides
          <6> QED BY <2>2, <6>1 DEF TypeOK
        <5> QED BY <5>1, <5>2
      <4>2. q = r
        BY <1>2, <2>3, <4>1
      <4>3. pc'[r] = "lookup"
        BY <2>2 DEF TypeOK
      <4> QED BY <4>2, <4>3 DEF Followers, Deciders
    <3> QED BY <3>1
  <2>5. AllDecided' /\ ResultTurns(turn)' # {}
    <3>1. ResultTurns(turn) # {}
      BY <2>2 DEF OneResultRow
    <3> QED BY <2>2, <2>3, <3>1 DEF AllDecided, ResultTurns
  <2>6. \A i \in TurnId : followed'[i] <= 1 /\ (followed'[i] > 0 => i = 1)
    BY <1>0, <2>2, <2>3
  <2> QED BY <1>1, <2>4, <2>5, <2>6 DEF FollowedOnce
<1>4. CASE \A r \in Req : ~ FollowUp(r)
  <2>0. followed' = followed
    BY <1>4, FollowedStays
  <2>1. CASE \E r \in Req : Fills(r, nextTurn)
    <3>1. PICK r \in Req : Fills(r, nextTurn)
      BY <2>1
    <3>2. pc[r] = "insert" /\ Handler(r) /\ InsertResults(r)
      BY <3>1 DEF Fills, InsertResults, Handler, CallHandler
    <3>3. ResultTurns(turn) = {} /\ ResultTurns(turn') = {nextTurn}
      BY <3>2, <3>1, FillsFirst
    <3>4. Followers = {}
      BY <3>3 DEF Followers, Deciders, OneResultRow, RequestsWriteOwnRows
    <3>5. followed[1] = 0
      BY <1>0, <3>3
    <3>6. ASSUME NEW q \in Followers' PROVE q = r /\ pc'[r] = "followup"
      <4>1. \/ Fills(q, nextTurn) /\ pc'[q] = "followup"
            \/ \E i \in Decisions(q) : Decides(q, i)
        BY <1>2, <3>4
      <4>2. ASSUME NEW i \in Decisions(q), Decides(q, i) PROVE FALSE
        <5>1. pc[q] = "write" /\ q \in Req /\ q # r
          BY <3>2, <4>2 DEF Decides, WriteDecision, Followers, Deciders
        <5>2. wrote'[q] = wrote[q]
          BY <3>2, <5>1, OthersStay DEF LocalsStay
        <5>3. CasSucceeds(i, seen[q][i].blocks) /\ i \in ResultTurns(seen[q])
          BY <4>2 DEF Decides, Decisions
        <5>4. i \in ResultTurns(turn)
          BY <5>1, <5>3 DEF CasSucceeds, ReadsAreOld, ResultTurns
        <5> QED BY <3>3, <5>4
      <4>3. q = r
        <5>1. q \in Req
          BY DEF Followers, Deciders
        <5>2. pc[q] = "insert" /\ pc'[q] = "followup"
          BY <4>1, <4>2 DEF Fills, InsertResults
        <5> QED BY <3>2, <5>1, <5>2, OthersStay
      <4> QED BY <4>1, <4>2, <4>3
    <3>7. Followers' # {} => AllDecided'
      <4> SUFFICES ASSUME pc'[r] = "followup" PROVE AllDecided'
        BY <3>6
      <4>1. \A t \in Tool : ResultTurn(r).blocks[t].st = "result" => ResultTurn(r).blocks[t].decided
        BY <3>2, FollowupComes DEF DecisionWritten
      <4>2. turn'[nextTurn] = ResultTurn(r)
        BY <3>1 DEF Fills, TypeOK
      <4>3. ResultTurns(turn)' = {nextTurn}
        BY <3>3 DEF ResultTurns
      <4> QED BY <4>1, <4>2, <4>3 DEF AllDecided
    <3> QED BY <1>0, <1>1, <2>0, <3>5, <3>6, <3>7 DEF FollowedOnce
  <2>2. CASE ~ \E r \in Req : Fills(r, nextTurn)
    <3>1. ResultTurns(turn)' = ResultTurns(turn)
      BY <2>2, ResultTurnsMove DEF ResultTurns
    <3>2. CASE \E r \in Req, i \in ResultTurns(turn) : i \in Decisions(r) /\ Decides(r, i)
      <4>1. PICK r \in Req, j \in ResultTurns(turn) : j \in Decisions(r) /\ Decides(r, j)
        BY <3>2
      <4>2. Deciding(r) /\ Handler(r) /\ pc' = pc /\ pc[r] = "write"
        BY <4>1 DEF Decides, WriteDecision, Deciding, RequestsWriteOwnRows, Handler, ResultHandler
      <4>3. /\ ResultTurns(turn) = {j}
            /\ \E t \in Tool : seen[r][j].blocks[t].st = "result" /\ ~ seen[r][j].blocks[t].decided
            /\ \A t \in Tool : Decision(r, j)[t].st = "result" => Decision(r, j)[t].decided
        BY <4>1, <4>2, DecidingView
      <4>4. turn[j].blocks = seen[r][j].blocks /\ turn'[j].blocks = Decision(r, j)
        BY <4>1 DEF Decides, CasSucceeds, TypeOK, ResultTurns, Turn
      <4>5. ~ AllDecided
        BY <4>3, <4>4 DEF AllDecided
      <4>6. Followers = {} /\ followed[1] = 0
        BY <1>0, <4>5
      <4>7. AllDecided'
        BY <3>1, <4>3, <4>4 DEF AllDecided
      <4>8. ASSUME NEW q \in Followers' PROVE q = r
        <5>1. q \in Req
          BY DEF Followers, Deciders
        <5>2. WriteDecision(q) /\ wrote'[q] # wrote[q]
          BY <1>2, <2>2, <4>6, <4>8, <5>1, DecidesWrites
        <5> QED BY <4>2, <5>1, <5>2, OthersStay DEF LocalsStay
      <4> QED BY <1>0, <1>1, <2>0, <4>6, <4>7, <4>8 DEF FollowedOnce
    <3>3. CASE ~ \E r \in Req, i \in ResultTurns(turn) : i \in Decisions(r) /\ Decides(r, i)
      <4>1. Followers' \subseteq Followers
        <5>1. ASSUME NEW q \in Followers', q \notin Followers PROVE FALSE
          <6>1. q \in Req
            BY DEF Followers, Deciders
          <6>2. PICK i \in Decisions(q) : Decides(q, i)
            BY <1>2, <2>2, <5>1, <6>1
          <6>3. CasSucceeds(i, seen[q][i].blocks) /\ i \in ResultTurns(seen[q])
            BY <6>2 DEF Decides, Decisions
          <6>4. i \in ResultTurns(turn)
            BY <6>1, <6>3 DEF CasSucceeds, ReadsAreOld, ResultTurns
          <6> QED BY <3>3, <6>1, <6>2, <6>4
        <5> QED BY <5>1
      <4>2. CASE \A j \in ResultTurns(turn) : turn'[j].blocks = turn[j].blocks
        <5>1. AllDecided => AllDecided'
          BY <3>1, <4>2 DEF AllDecided
        <5> QED BY <1>0, <1>1, <2>0, <3>1, <4>1, <5>1 DEF FollowedOnce
      <4>3. CASE \E j \in ResultTurns(turn) : turn'[j].blocks # turn[j].blocks
        <5>1. PICK j \in ResultTurns(turn), r \in Req : j \in Decisions(r) /\ Undoes(r, j)
          BY <3>3, <4>3, ResultRowWrites
        <5>2. /\ Deciding(r) /\ pc' = pc /\ pc[r] = "undo" /\ j \in wrote[r]
              /\ wrote' = [wrote EXCEPT ![r] = @ \ {j}] /\ UNCHANGED <<seen, req>>
          BY <5>1, LastWriteIsRow
             DEF Undoes, UndoDecision, Deciding, RequestsWriteOwnRows
        <5>3. Followers = {r}
          BY <1>0, <5>1, <5>2 DEF Followers, Deciders
        <5>4. Decisions(r) = {j}
          BY <5>1, <5>2, DecidingView
        <5>5. Decisions(r)' = Decisions(r) /\ wrote'[r] = wrote[r] \ {j} /\ pc'[r] = "undo"
          BY <5>2, ViewStays DEF TypeOK
        <5>6. r \notin Followers'
          BY <5>4, <5>5 DEF Followers, Deciders
        <5>7. Followers' = {}
          BY <4>1, <5>3, <5>6
        <5> QED BY <1>0, <1>1, <2>0, <5>3, <5>7 DEF FollowedOnce
      <4> QED BY <4>2, <4>3
    <3> QED BY <3>2, <3>3
  <2> QED BY <2>1, <2>2
<1> QED BY <1>3, <1>4

LEMMA RoundInit ==
  ASSUME Init
  PROVE  RoundInv
<1>1. PICK b \in Batches(1) \ {{}} :
        turn = [i \in TurnId |-> IF i = 1 THEN AnchorTurn(b) ELSE NoTurn]
  BY DEF Init
<1>2. 1 \in TurnId /\ NoReq \notin Req
  BY ToolApprovalAssumption DEF TurnId
<1>3. /\ turn[1].role = "assistant"
      /\ \A i \in TurnId : turn[i].role # "none" => i = 1
      /\ ResultTurns(turn) = {}
  BY <1>1, <1>2 DEF AnchorTurn, NoTurn, ResultTurns
<1>4. \A r \in Req : /\ pc[r] = "idle" /\ req[r].op = "none" /\ wrote[r] = {}
                     /\ ResultTurns(seen[r]) = {}
                     /\ \A i \in TurnId : seen[r][i].role = "none"
  BY DEF Init, NoClick, NoTurn, ResultTurns
<1>5. \A i \in TurnId : claimedBy[i] = NoReq /\ followed[i] = 0
  BY DEF Init
<1>6. BatchIsFirst
  BY <1>3, <1>4, <1>5 DEF BatchIsFirst, HasCalls
<1>7. OneResultRow
  BY <1>3, <1>4 DEF OneResultRow, Deciding
<1>8. DecidersSawOpen /\ WritesInOrder
  BY <1>4 DEF DecidersSawOpen, Deciding, WritesInOrder
<1>9. FollowedOnce
  BY <1>2, <1>4, <1>5 DEF FollowedOnce, Followers, Deciders
<1> QED BY <1>6, <1>7, <1>8, <1>9 DEF RoundInv

LEMMA RoundStep ==
  ASSUME OneRound, Inv1, Before', [Next]_vars
  PROVE  RoundInv'
<1> USE DEF Inv1, RoundInv
<1>1. BatchIsFirst'
  BY BatchStep
<1>2. OneResultRow'
  BY ResultRowStep DEF Before
<1>3. DecidersSawOpen'
  BY DecidersStep
<1>4. WritesInOrder'
  BY OrderStep
<1>5. FollowedOnce'
  BY FollowedStep
<1> QED BY <1>1, <1>2, <1>3, <1>4, <1>5

\* One round of calls in a channel, whatever the nodes, clicks, crashes and
\* failed writes: the two decisions of the requester are recorded, undone and
\* completed such that the reasons above hold.
LEMMA RoundInvariance ==
  ASSUME OneRound
  PROVE  Spec => [](Before /\ RoundInv)
<1>1. Before /\ RoundInv /\ Before' /\ [Next]_vars => RoundInv'
  BY RoundStep DEF Inv1
<1> QED BY <1>1, RoundInit, ShareInvariance, PTL DEF Spec, Before

\* A decided batch of a channel is continued by at most one follow-up: of the
\* clicks that race to share its results on several nodes one writes the
\* decision into the result row, and the right to stream passes with it, also
\* when a write fails, is undone, or a node dies.  For one round of calls.
THEOREM OneFollowUpPerRound ==
  ASSUME ~ IsDM, BatchBound <= 1
  PROVE  Spec => []OneFollowUp
<1>1. OneRound
  BY DEF OneRound
<1>2. RoundInv => OneFollowUp
  BY DEF RoundInv, FollowedOnce, OneFollowUp
<1> QED BY <1>1, <1>2, RoundInvariance, PTL

-----------------------------------------------------------------------------
(* One round of calls in a channel, without failing writes and crashes: the row *)
(* of the calls                                                                 *)

Undisturbed == OneRound /\ Faults \subseteq {"llm"}
Inv2 == Inv1 /\ SettledInv

\* Who writes the first row, and when.
FirstRowStep ==
  \E r \in Req :
    \/ /\ Claim(r) /\ tgt[r] = 1 /\ claimedBy[1] = NoReq
       /\ turn[1].blocks = seen[r][1].blocks
       /\ turn' = [turn EXCEPT ![1].blocks = Claimed(seen[r][1].blocks)]
       /\ pc'[r] = "execute"
    \/ Records(r, 1) /\ tgt[r] = 1 /\ claimedBy[1] = r
    \/ Deciding(r) /\ 1 \in Others(r) /\ (Decides(r, 1) \/ Undoes(r, 1))
    \/ /\ DemoteAnchor(r) /\ ResultTurns(turn) # {}
       /\ turn' = [turn EXCEPT ![1].anchor = FALSE]

LEMMA FirstRowWrites ==
  ASSUME Inv1, [Next]_vars, turn'[1] # turn[1]
  PROVE  FirstRowStep
<1> USE DEF Inv1, Before, ShareInv, RoundInv
<1>0. /\ turn \in [TurnId -> Turn] /\ 1 \in TurnId /\ turn[1].role = "assistant"
      /\ 1 # nextTurn
  BY ToolApprovalAssumption DEF TypeOK, TurnId, BatchIsFirst, ApprovalInv, TurnsAreOld
<1>1. RowStep(1)
  BY <1>0, RowWriters
<1>2. \A r \in Req : ~ Scrub(r)
  BY DEF BatchIsFirst, Scrub
<1>3. PICK r \in Req : \/ Claim(r) /\ 1 = tgt[r]
                       \/ Records(r, 1) \/ Decides(r, 1) \/ Undoes(r, 1)
                       \/ DemoteAnchor(r) /\ 1 = tgt[r]
  BY <1>0, <1>1, <1>2 DEF RowStep, Fills, Ends
<1>4. CASE Claim(r) /\ 1 = tgt[r]
  <2>1. claimedBy[1] = NoReq /\ pc'[r] = "execute"
    BY <1>4, ClaimTakes
  <2> QED BY <1>4, <2>1 DEF FirstRowStep, Claim, CasSucceeds
<1>5. CASE Records(r, 1)
  <2>1. tgt[r] = 1 /\ claimedBy[1] = r
    BY <1>5 DEF Records, Record, ResolverKnowsRuns
  <2> QED BY <1>5, <2>1 DEF FirstRowStep
<1>6. CASE Decides(r, 1) \/ Undoes(r, 1)
  <2>1. Deciding(r)
    BY <1>6 DEF Decides, Undoes, WriteDecision, UndoDecision, Deciding, RequestsWriteOwnRows
  <2>2. 1 \in Decisions(r) \cup Others(r)
    <3>1. CASE Decides(r, 1)
      <4>1. Decisions(r) \in SUBSET TurnId /\ Others(r) \in SUBSET TurnId
        BY DEF Decisions, Others, ResultTurns
      <4>2. (Decisions(r) \cup Others(r)) \ wrote[r] # {} /\ 1 = NextWrite(r)
        BY <3>1 DEF Decides, WriteDecision
      <4> QED BY <4>1, <4>2, MinIsTurn DEF NextWrite
    <3>2. CASE Undoes(r, 1)
      BY <3>2, LastWriteIsRow DEF Undoes, WritesInOrder
    <3> QED BY <1>6, <3>1, <3>2
  <2>3. 1 \notin Decisions(r)
    BY ResultsOfFirst DEF Decisions
  <2> QED BY <1>6, <2>1, <2>2, <2>3 DEF FirstRowStep
<1>7. CASE DemoteAnchor(r) /\ 1 = tgt[r]
  <2>1. ResultTurns(turn) # {}
    BY <1>7 DEF DemoteAnchor, OneResultRow
  <2>2. turn' = [turn EXCEPT ![1].anchor = FALSE]
    BY <1>0, <1>7 DEF DemoteAnchor
  <2> QED BY <1>7, <2>1, <2>2 DEF FirstRowStep
<1> QED BY <1>3, <1>4, <1>5, <1>6, <1>7

\* An executor stops executing by recording what became of the calls.
LEMMA ExecutorLeaves ==
  ASSUME Undisturbed, Inv1, FirstRowFollows, [Next]_vars,
         NEW r \in Req, pc[r] = "execute", pc'[r] # "execute"
  PROVE  Records(r, 1) /\ tgt[r] = 1 /\ \A t \in Tool : out[r][t].st \notin Open
<1> USE DEF Inv1, Before, ShareInv, RoundInv
<1>1. tgt[r] = 1
  BY ResultsOfFirst
<1>2. Handler(r)
  <2>1. ASSUME NEW q \in Req, Handler(q) PROVE q = r
    BY <2>1, OthersStay
  <2>2. \A n \in Node : ~ Crash(n)
    BY DEF Crash, Undisturbed
  <2>3. ASSUME NEW q \in Req, NEW n \in Node,
               (\E op \in {"call", "result"} : Click(q, n, op)) \/ ClickRegenerate(q, n)
        PROVE  FALSE
    BY <2>3 DEF Click, ClickRegenerate, Goto, TypeOK
  <2> QED BY <2>1, <2>2, <2>3 DEF Next, Quiet, vars
<1>3. ~ Resolving(r)
  BY ResolvedCall DEF ResolvesCall
<1>4. Record(r)
  BY <1>2, <1>3 DEF Handler, CallHandler, ResultHandler, Stream, Resolving, Refuse,
     AcquireStream, ReadCall, Claim, LoseClaim, InsertResults, ReadResult, WriteDecision,
     UndoDecision, DecisionWritten, Scrub, FollowUp, FailFollowUp, LookupAnchor, DemoteAnchor,
     CreateAnchor, FinishStream, BatchIsFirst
<1>5. CasSucceeds(1, ClaimedContent(r)) /\ ~ DbFails
  BY DEF CasSucceeds, FirstRowFollows, BatchIsFirst, Undisturbed, DbFails
<1> QED BY <1>1, <1>4, <1>5 DEF Record, Records, Goto

LEMMA FirstRowFollowsStep ==
  ASSUME Undisturbed, Inv2, [Next]_vars
  PROVE  FirstRowFollows'
<1> USE DEF Inv2, Inv1, Before, ShareInv, RoundInv, SettledInv
<1>0. /\ turn \in [TurnId -> Turn] /\ 1 \in TurnId
      /\ turn[1].role = "assistant" /\ turn'[1].role = "assistant"
  BY ToolApprovalAssumption, BatchStep DEF TypeOK, TurnId, BatchIsFirst, Undisturbed
<1>1. \A t \in Tool : Forward(turn[1].blocks[t].st, turn'[1].blocks[t].st)
  BY <1>0, StatusesMove
<1>2. ASSUME NEW q \in Req, pc[q] \in {"execute", "insert"}, pc'[q] = pc[q]
      PROVE  turn'[1].blocks = turn[1].blocks
  <2>1. ResultTurns(turn) = {} /\ claimedBy[1] = q /\ q # NoReq
    BY <1>2, ResultsOfFirst, ToolApprovalAssumption DEF ResolverKnowsRuns
  <2>2. ~ FirstRowStep
    <3>1. ASSUME NEW r \in Req, Records(r, 1), claimedBy[1] = r PROVE FALSE
      BY <1>2, <2>1, <3>1 DEF Records, Record, TypeOK
    <3> QED BY <2>1, <3>1 DEF FirstRowStep, OneResultRow, Deciding
  <2> QED BY <2>2, FirstRowWrites
<1>3. ASSUME NEW q \in Req, pc'[q] = "execute"
      PROVE  turn'[1].blocks = ClaimedContent(q)'
  <2>1. CASE Claim(q)
    <3>1. tgt[q] = 1
      <4>1. claimedBy'[tgt[q]] = q /\ tgt[q] \in TurnId
        BY <2>1, ClaimTakes DEF TypeOK
      <4> QED BY <4>1, BatchStep, ToolApprovalAssumption DEF BatchIsFirst, Undisturbed
    <3>2. seen' = seen /\ tgt' = tgt /\ turn'[1].blocks = Claimed(seen[q][1].blocks)
      BY <1>0, <2>1, <3>1 DEF Claim, Turn
    <3> QED BY <3>1, <3>2 DEF ClaimedContent, Claimed
  <2>2. CASE pc[q] = "execute" /\ seen'[q] = seen[q] /\ tgt'[q] = tgt[q]
    <3>1. turn'[1].blocks = turn[1].blocks
      BY <1>2, <1>3, <2>2
    <3>2. turn[1].blocks = ClaimedContent(q)
      BY <2>2 DEF FirstRowFollows
    <3> QED BY <2>2, <3>1, <3>2 DEF ClaimedContent, Claimed
  <2>3. CASE Resolving(q)
    BY <2>2, <2>3, ResolvedCall DEF ResolvesCall
  <2> QED BY <1>3, <2>1, <2>2, <2>3, StepLocals DEF LocalMoves, LocalsStay
<1>4. ASSUME NEW q \in Req, pc'[q] = "insert"
      PROVE  turn'[1].blocks = out'[q] /\ \A t \in Tool : out'[q][t].st \notin Open
  <2>1. pc[q] \in {"execute", "insert"} /\ out'[q] = out[q]
    BY <1>4, StepLocals DEF LocalMoves
  <2>2. CASE pc[q] = "insert"
    BY <1>2, <1>4, <2>1, <2>2 DEF FirstRowFollows
  <2>3. CASE pc[q] = "execute"
    <3>1. Records(q, 1) /\ \A t \in Tool : out[q][t].st \notin Open
      BY <1>4, <2>3, ExecutorLeaves
    <3> QED BY <1>0, <2>1, <3>1 DEF Records, Turn
  <2> QED BY <2>1, <2>2, <2>3
<1>5. ASSUME ResultTurns(turn') # {} PROVE \A t \in Tool : turn'[1].blocks[t].st \notin Open
  <2>1. ASSUME \A t \in Tool : turn[1].blocks[t].st \notin Open
        PROVE  \A t \in Tool : turn'[1].blocks[t].st \notin Open
    BY <1>1, <2>1 DEF Forward, Rank, Open
  <2>2. CASE ResultTurns(turn) # {}
    BY <2>1, <2>2 DEF FirstRowFollows, Has
  <2>3. CASE ResultTurns(turn) = {}
    <3>1. PICK r \in Req : Fills(r, nextTurn)
      BY <1>5, <2>3, ResultTurnsMove
    <3>2. pc[r] = "insert"
      BY <3>1 DEF Fills, InsertResults
    <3> QED BY <2>1, <3>2 DEF FirstRowFollows
  <2> QED BY <2>2, <2>3
<1>6. ASSUME NEW t \in Tool, turn'[1].blocks[t].st = "pending" PROVE turn'[1].anchor
  <2>1. turn[1].blocks[t].st = "pending"
    BY <1>1, <1>6 DEF Forward, Rank
  <2>2. turn[1].anchor /\ ResultTurns(turn) = {}
    BY <2>1 DEF FirstRowFollows, Has, Open
  <2>3. ASSUME NEW bs, turn' = [turn EXCEPT ![1].blocks = bs]
        PROVE  turn'[1].anchor = turn[1].anchor
    BY <1>0, <2>3 DEF Turn
  <2>4. FirstRowStep => \E bs : turn' = [turn EXCEPT ![1].blocks = bs]
    BY <2>2 DEF FirstRowStep, Records, OneResultRow, Deciding
  <2> QED BY <2>2, <2>3, <2>4, FirstRowWrites
<1>7. ASSUME NEW t \in Tool, turn'[1].blocks[t].st = "accepted"
      PROVE  \E r \in Req : pc'[r] = "execute"
  <2>1. CASE turn[1].blocks[t].st = "accepted"
    <3>1. PICK r \in Req : pc[r] = "execute"
      BY <2>1 DEF FirstRowFollows, Has
    <3>2. ASSUME pc'[r] # "execute" PROVE FALSE
      <4>1. Records(r, 1) /\ \A u \in Tool : out[r][u].st \notin Open
        BY <3>1, <3>2, ExecutorLeaves
      <4>2. turn'[1].blocks = out[r]
        BY <1>0, <4>1 DEF Records, Turn
      <4> QED BY <1>7, <4>1, <4>2 DEF Open
    <3> QED BY <3>2
  <2>2. CASE turn[1].blocks[t].st = "pending"
    <3>1. FirstRowStep
      BY <1>7, <2>2, FirstRowWrites
    <3>2. ResultTurns(turn) = {}
      BY <2>2 DEF FirstRowFollows, Has, Open
    <3>3. ASSUME NEW r \in Req, Records(r, 1), tgt[r] = 1 PROVE FALSE
      <4>1. turn'[1].blocks = out[r] /\ \A u \in Tool : out[r][u].st \notin Open
        BY <1>0, <3>3 DEF Records, Record, Turn
      <4> QED BY <1>7, <4>1 DEF Open
    <3> QED BY <3>1, <3>2, <3>3 DEF FirstRowStep, OneResultRow, Deciding
  <2> QED BY <1>1, <1>7, <2>1, <2>2 DEF Forward, Rank
<1>8. ResultTurns(turn)' = ResultTurns(turn')
  BY DEF ResultTurns
<1> QED BY <1>3, <1>4, <1>5, <1>6, <1>7, <1>8 DEF FirstRowFollows, Has

\* What is early stays as it was.
LEMMA EarlyMoves ==
  ASSUME TypeOK, ApprovalInv, RequestsWriteOwnRows, [Next]_vars, NEW q \in Req,
         pc'[q] \in {"idle", "read", "acquire", "claim"}
  PROVE  pc[q] \in {"idle", "read", "acquire", "claim"} /\ autoRan'[q] = autoRan[q]
<1>1. CASE pc'[q] = "claim"
  <2>1. ASSUME Handler(q) PROVE pc[q] \in {"idle", "read", "acquire", "claim"}
    <3> USE DEF TypeOK, Goto, Return
    <3>1. CASE AcquireStream(q)
      BY <3>1 DEF AcquireStream
    <3>2. CASE Resolving(q)
      BY <1>1, <3>2, ResolvedCall DEF ResolvesCall
    <3>3. CASE \/ Refuse(q) \/ ReadCall(q) \/ ReadResult(q) \/ Claim(q) \/ LoseClaim(q)
               \/ Record(q) \/ InsertResults(q)
      BY <1>1, <3>3 DEF Refuse, ReadCall, ReadResult, Claim, LoseClaim, Record, InsertResults
    <3>4. CASE WriteDecision(q) \/ UndoDecision(q) \/ DecisionWritten(q)
      BY <1>1, <3>4 DEF WriteDecision, UndoDecision, DecisionWritten
    <3>5. CASE Scrub(q) \/ Stream(q)
      BY <1>1, <3>5 DEF Scrub, Stream, FollowUp, FailFollowUp, LookupAnchor, DemoteAnchor,
                        CreateAnchor, FinishStream
    <3> QED BY <2>1, <3>1, <3>2, <3>3, <3>4, <3>5
            DEF Handler, CallHandler, ResultHandler, Resolving
  <2>2. ASSUME NEW r \in Req, r # q, Handler(r) PROVE pc[q] = "claim"
    BY <1>1, <2>2, OthersStay
  <2>3. ASSUME NEW r \in Req, NEW n \in Node,
               (\E op \in {"call", "result"} : Click(r, n, op)) \/ ClickRegenerate(r, n)
        PROVE  pc[q] = "claim"
    BY <1>1, <2>3 DEF Click, ClickRegenerate, Goto, TypeOK
  <2>4. ASSUME NEW n \in Node, Crash(n) PROVE pc[q] = "claim"
    BY <1>1, <2>4 DEF Crash, TypeOK
  <2>5. UNCHANGED vars => pc[q] = "claim"
    BY <1>1 DEF vars
  <2>6. ~ Resolving(q)
    BY <1>1, ResolvedCall DEF ResolvesCall
  <2> QED BY <2>1, <2>2, <2>3, <2>4, <2>5, <2>6, StepLocals DEF Next, Quiet, LocalMoves
<1>2. CASE pc'[q] \in {"idle", "read", "acquire"}
  <2>1. ~ Resolving(q)
    BY <1>2, ResolvedCall DEF ResolvesCall
  <2> QED BY <1>2, <2>1, StepLocals DEF LocalMoves
<1> QED BY <1>1, <1>2

LEMMA OpenIsUnsharedStep ==
  ASSUME Undisturbed, Inv2, [Next]_vars
  PROVE  OpenIsUnshared'
<1> USE DEF Inv2, Inv1, Before, ShareInv, RoundInv, SettledInv
<1> DEFINE Opens(q, t) ==
      /\ out[q][t].st \in Open => t \notin autoRan[q] /\ ~ out[q][t].shared
      /\ (out[q][t].st \in {"success", "error"} /\ seen[q][1].blocks[t].st \in Open)
           => (out[q][t].shared <=> t \in AskTool \cup autoRan[q])
<1>0. turn \in [TurnId -> Turn] /\ 1 \in TurnId
  BY ToolApprovalAssumption DEF TypeOK, TurnId
<1>1. FirstRowFollows' /\ BatchIsFirst'
  BY FirstRowFollowsStep, BatchStep DEF Undisturbed
<1>2. ASSUME NEW t \in Tool, turn'[1].blocks[t].st \in Open PROVE ~ turn'[1].blocks[t].shared
  <2>1. CASE turn'[1].blocks = turn[1].blocks
    BY <1>2, <2>1 DEF OpenIsUnshared
  <2>2. CASE turn'[1].blocks # turn[1].blocks
    <3>1. ResultTurns(turn') = {}
      BY <1>1, <1>2 DEF FirstRowFollows, Has, ResultTurns
    <3>2. ResultTurns(turn) = {}
      BY <3>1, ResultTurnsMove
    <3>3. PICK r \in Req :
            \/ /\ turn[1].blocks = seen[r][1].blocks
               /\ turn' = [turn EXCEPT ![1].blocks = Claimed(seen[r][1].blocks)]
            \/ Records(r, 1) /\ tgt[r] = 1
      BY <2>2, <3>2, FirstRowWrites DEF FirstRowStep, OneResultRow, Deciding
    <3>4. CASE Records(r, 1) /\ tgt[r] = 1
      <4>1. turn'[1].blocks = out[r] /\ \A u \in Tool : out[r][u].st \notin Open
        BY <1>0, <3>4 DEF Records, Record, Turn
      <4> QED BY <1>2, <4>1
    <3>5. CASE turn' = [turn EXCEPT ![1].blocks = Claimed(turn[1].blocks)]
      <4>1. turn'[1].blocks = Claimed(turn[1].blocks)
        BY <1>0, <3>5 DEF Turn
      <4>2. turn[1].blocks \in [Tool -> Block]
        BY <1>0 DEF Turn
      <4>3. turn[1].blocks[t].st \in Open
        BY <1>2, <4>1, <4>2, ClaimedForward
      <4>4. turn'[1].blocks[t].shared = turn[1].blocks[t].shared
        BY <4>1, <4>2 DEF Claimed, Block
      <4> QED BY <4>3, <4>4 DEF OpenIsUnshared
    <3> QED BY <3>3, <3>4, <3>5
  <2> QED BY <2>1, <2>2
<1>3. ASSUME NEW q \in Req, NEW t \in Tool, seen'[q][1].blocks[t].st \in Open
      PROVE  ~ seen'[q][1].blocks[t].shared
  <2>1. seen'[q] = seen[q] \/ seen'[q] = turn
    BY StepLocals DEF LocalMoves
  <2> QED BY <1>3, <2>1 DEF OpenIsUnshared
<1>4. ASSUME NEW q \in Req, pc'[q] \in {"idle", "read", "acquire", "claim"}
      PROVE  autoRan'[q] = {}
  <2>1. pc[q] \in {"idle", "read", "acquire", "claim"} /\ autoRan'[q] = autoRan[q]
    BY <1>4, EarlyMoves
  <2> QED BY <2>1 DEF OpenIsUnshared
<1>5. ASSUME NEW q \in Req, NEW t \in Tool, pc'[q] \in {"execute", "insert"}
      PROVE  Opens(q, t)'
  <2>1. CASE Claim(q)
    <3>1. /\ pc[q] = "claim" /\ tgt'[q] = tgt[q] /\ seen'[q] = seen[q] /\ autoRan'[q] = autoRan[q]
          /\ out'[q] = seen[q][tgt[q]].blocks /\ pc'[q] = "execute"
      BY <2>1, ClaimTakes DEF Claim
    <3>2. tgt[q] = 1
      <4>1. claimedBy'[tgt[q]] = q /\ tgt[q] \in TurnId
        BY <2>1, ClaimTakes DEF TypeOK
      <4> QED BY <1>1, <4>1, ToolApprovalAssumption DEF BatchIsFirst
    <3>3. autoRan[q] = {} /\ (seen[q][1].blocks[t].st \in Open => ~ seen[q][1].blocks[t].shared)
      BY <3>1 DEF OpenIsUnshared
    <3> QED BY <3>1, <3>2, <3>3 DEF Open
  <2>2. CASE pc[q] \in {"execute", "insert"} /\ UNCHANGED <<out[q], seen[q], autoRan[q]>>
    BY <2>2 DEF OpenIsUnshared
  <2>3. CASE Resolving(q)
    <3>1. PICK u \in Tool : \/ AnswerQuestion(q, u) \/ RunAccepted(q, u) \/ SkipQuestion(q, u)
                            \/ RunAuto(q, u) \/ RejectCall(q, u)
      BY <2>3 DEF Resolving
    <3>2. /\ pc[q] = "execute" /\ seen' = seen /\ out[q][u].st \in Open
          /\ out \in [Req -> [Tool -> Block]] /\ autoRan \in [Req -> SUBSET Tool]
      BY <3>1 DEF AnswerQuestion, RunAccepted, SkipQuestion, RunAuto, RejectCall, Resolve, TypeOK
    <3>3. /\ Opens(q, t) /\ u \notin autoRan[q] /\ ~ out[q][u].shared
      BY <3>2 DEF OpenIsUnshared
    <3>4. CASE AnswerQuestion(q, u)
      <4>1. u \in AskTool /\ autoRan' = autoRan
            /\ out' = [out EXCEPT ![q][u] = [st |-> "success", shared |-> TRUE, decided |-> FALSE]]
        BY <3>4 DEF AnswerQuestion, Resolve
      <4> QED BY <3>2, <3>3, <4>1 DEF Open
    <3>5. CASE RunAccepted(q, u)
      <4>1. PICK st \in {"success", "error"} :
              /\ u \notin AskTool /\ autoRan' = autoRan
              /\ out' = [out EXCEPT ![q][u] =
                           [st |-> st, shared |-> out[q][u].shared, decided |-> FALSE]]
        BY <3>5 DEF RunAccepted, Resolve
      <4> QED BY <3>2, <3>3, <4>1 DEF Open
    <3>6. CASE SkipQuestion(q, u) \/ RejectCall(q, u)
      <4>1. PICK sh : /\ autoRan' = autoRan
                      /\ out' = [out EXCEPT ![q][u] =
                                   [st |-> "rejected", shared |-> sh, decided |-> FALSE]]
        BY <3>6 DEF SkipQuestion, RejectCall, Resolve
      <4> QED BY <3>2, <3>3, <4>1 DEF Open
    <3>7. CASE RunAuto(q, u)
      <4>1. PICK st \in {"auto_approved", "error"} :
              /\ autoRan' = [autoRan EXCEPT ![q] = @ \cup {u}]
              /\ out' = [out EXCEPT ![q][u] = [st |-> st, shared |-> TRUE, decided |-> FALSE]]
        BY <3>7 DEF RunAuto, Resolve
      <4> QED BY <3>2, <3>3, <4>1 DEF Open
    <3> QED BY <3>1, <3>4, <3>5, <3>6, <3>7
  <2>4. CASE ~ Claim(q) /\ ~ Resolving(q)
    <3>1. pc[q] \in {"execute", "insert"} /\ out'[q] = out[q] /\ autoRan'[q] = autoRan[q]
      BY <1>5, <2>4, StepLocals DEF LocalMoves, LocalsStay
    <3>2. seen'[q] = seen[q]
      BY <3>1, StepLocals DEF LocalMoves
    <3> QED BY <2>2, <3>1, <3>2
  <2> QED BY <2>1, <2>3, <2>4
<1> QED BY <1>2, <1>3, <1>4, <1>5 DEF OpenIsUnshared

-----------------------------------------------------------------------------
(* One round of calls in a channel, without failing writes and crashes: the    *)
(* flags                                                                        *)

LEMMA DecisionFlags ==
  ASSUME TypeOK, NEW r \in Req, NEW k \in TurnId, OwnerSeen(r, k) = 1, NEW t \in Tool,
         1 \in Anchors(seen[r]) 
  PROVE  /\ Decision(r, k)[t].st = seen[r][k].blocks[t].st
         /\ Decision(r, k)[t].shared \in BOOLEAN
         /\ Decision(r, k)[t].shared <=>
              \/ seen[r][k].blocks[t].shared
              \/ seen[r][k].blocks[t].st # "none" /\ t \in AcceptedOn(r, 1)
<1>1. Decision(r, k)[t].st = seen[r][k].blocks[t].st
  BY DEF Decision
<1>2. Decision(r, k)[t].shared <=>
        \/ seen[r][k].blocks[t].shared
        \/ seen[r][k].blocks[t].st # "none" /\ t \in AcceptedOn(r, 1)
  BY Zenon DEF Decision, OwnerSeen
<1>3. Decision(r, k)[t].shared \in BOOLEAN
  BY DEF Decision
<1> QED BY <1>1, <1>2, <1>3

\* A decision shares a call with its result: flags that agreed agree again.
LEMMA DecisionsAgree ==
  ASSUME Inv2, NEW r \in Req, Deciding(r), 1 \in Anchors(seen[r]),
         NEW j \in ResultTurns(seen[r])
  PROVE  /\ Agree(Decision(r, 1), Decision(r, j))
         /\ (Agree(turn[1].blocks, seen[r][j].blocks) /\ 1 \notin Others(r))
              => Agree(turn[1].blocks, Decision(r, j))
<1> USE DEF Inv2, Inv1, Before, RoundInv, SettledInv
<1>1. 1 \in TurnId /\ j \in TurnId /\ OwnerSeen(r, 1) = 1 /\ OwnerSeen(r, j) = 1 /\ j # 1
  BY ResultsOfFirst, ToolApprovalAssumption DEF OwnerSeen, Anchors, ResultTurns, TurnId
<1>2. seen[r][1].blocks \in [Tool -> Block] /\ seen[r][j].blocks \in [Tool -> Block]
      /\ turn[1].blocks \in [Tool -> Block]
  BY <1>1 DEF TypeOK, Turn
<1>3. Agree(seen[r][1].blocks, seen[r][j].blocks)
      /\ \A t \in Tool : seen[r][1].blocks[t].st = "none" => turn[1].blocks[t].st = "none"
  BY DEF FlagsFollow
<1>4. ASSUME NEW t \in Tool, Decision(r, 1)[t].st \in {"success", "error"},
             Decision(r, j)[t].st = "result"
      PROVE  Decision(r, 1)[t].shared = Decision(r, j)[t].shared
  <2>1. /\ seen[r][1].blocks[t].st \in {"success", "error"} /\ seen[r][j].blocks[t].st = "result"
        /\ Decision(r, 1)[t].shared \in BOOLEAN /\ Decision(r, j)[t].shared \in BOOLEAN
        /\ Decision(r, 1)[t].shared <=> \/ seen[r][1].blocks[t].shared
                                        \/ t \in AcceptedOn(r, 1)
        /\ Decision(r, j)[t].shared <=> \/ seen[r][j].blocks[t].shared
                                        \/ t \in AcceptedOn(r, 1)
    BY <1>1, <1>4, DecisionFlags
  <2>2. seen[r][1].blocks[t].shared = seen[r][j].blocks[t].shared
    BY <1>3, <2>1 DEF Agree
  <2> QED BY <2>1, <2>2
<1>5. ASSUME Agree(turn[1].blocks, seen[r][j].blocks), 1 \notin Others(r),
             NEW t \in Tool, turn[1].blocks[t].st \in {"success", "error"},
             Decision(r, j)[t].st = "result"
      PROVE  turn[1].blocks[t].shared = Decision(r, j)[t].shared
  <2>1. 1 \notin Decisions(r)
    BY ResultsOfFirst DEF Decisions
  <2>2. seen[r][1].blocks[t].st # "none"
    BY <1>3, <1>5
  <2>3. t \notin AcceptedOn(r, 1)
    BY <1>1, <1>5, <2>1, <2>2 DEF Others
  <2>4. /\ seen[r][j].blocks[t].st = "result" /\ Decision(r, j)[t].shared \in BOOLEAN
        /\ Decision(r, j)[t].shared <=> seen[r][j].blocks[t].shared
    BY <1>1, <1>5, <2>3, DecisionFlags
  <2>5. turn[1].blocks[t].shared = seen[r][j].blocks[t].shared
    BY <1>5, <2>4 DEF Agree
  <2>6. seen[r][j].blocks[t].shared \in BOOLEAN
    BY <1>2 DEF Block
  <2> QED BY <2>4, <2>5, <2>6
<1> QED BY <1>4, <1>5 DEF Agree

\* While no request decides, the flags of the rows agree; the decider knows how
\* they differ.
Recorded(q, k) ==
  /\ turn[k].blocks = Decision(q, k)
  /\ 1 \in wrote[q] => turn[1].blocks = Decision(q, 1) /\ pc[q] = "write"
  /\ 1 \notin wrote[q] => Agree(turn[1].blocks, seen[q][k].blocks)
RowsAgree == \A j \in ResultTurns(turn) : Agree(turn[1].blocks, turn[j].blocks)
Settles ==
  /\ \A r \in Deciders, j \in ResultTurns(turn) : Recorded(r, j)
  /\ Deciders = {} => RowsAgree

\* A click that decides reads flags that agree.
LEMMA ReadsAgree ==
  ASSUME Undisturbed, Inv2, [Next]_vars, NEW q \in Req, Deciding(q)', 1 \in Anchors(seen'[q])
  PROVE  /\ \A j \in ResultTurns(seen'[q]) : Agree(seen'[q][1].blocks, seen'[q][j].blocks)
         /\ \A t \in Tool : seen'[q][1].blocks[t].st = "none" => turn'[1].blocks[t].st = "none"
<1> USE DEF Inv2, Inv1, Before, ShareInv, RoundInv, SettledInv
<1>0. 1 \in TurnId /\ turn[1].role # "none" /\ turn'[1].role # "none"
  BY ToolApprovalAssumption, BatchStep DEF TurnId, BatchIsFirst, Undisturbed
<1>1. CASE ReadResult(q)
  <2>1. /\ seen'[q] = turn /\ turn' = turn
        /\ (\E j \in ResultTurns(turn), t \in Tool : IsClickedResult(turn, j, t)) =>
              \E j \in ResultTurns(turn), t \in Tool :
                IsClickedResult(turn, j, t) /\ ~ turn[j].blocks[t].decided
    BY <1>1 DEF ReadResult, TypeOK, dbVars
  <2>2. ASSUME NEW j \in ResultTurns(turn) PROVE Agree(turn[1].blocks, turn[j].blocks)
    <3>1. PICK t \in Tool : turn[j].blocks[t].st = "result"
      BY DEF OneResultRow, Has
    <3>2. IsClickedResult(turn, j, t)
      BY <2>1, <3>1, ResultsOfFirst DEF IsClickedResult
    <3>3. ~ AllDecided
      BY <2>1, <3>2 DEF AllDecided, IsClickedResult
    <3>4. Deciders = {}
      BY <3>3 DEF FollowedOnce, Followers
    <3> QED BY <3>4 DEF FlagsFollow
  <2> QED BY <2>1, <2>2
<1>2. CASE Deciding(q) /\ seen'[q] = seen[q]
  <2>1. \A t \in Tool : Forward(turn[1].blocks[t].st, turn'[1].blocks[t].st)
    BY <1>0, StatusesMove
  <2>2. \A t \in Tool : turn[1].blocks[t].st = "none" => turn'[1].blocks[t].st = "none"
    BY <2>1 DEF Forward, Rank
  <2> QED BY <1>2, <2>2 DEF FlagsFollow
<1> QED BY <1>1, <1>2, DecidingMoves

\* The requests that do not write a decision go on as they were.
LEMMA WritersStay ==
  ASSUME Undisturbed, Before, [Next]_vars, NEW q \in Req, pc[q] \in {"write", "undo"},
         ~ WriteDecision(q), ~ UndoDecision(q), ~ DecisionWritten(q)
  PROVE  pc'[q] = pc[q] /\ wrote'[q] = wrote[q] /\ seen'[q] = seen[q] /\ req'[q] = req[q]
<1> USE DEF Before
<1>1. ~ Handler(q)
  <2>1. req[q].op = "result"
    BY DEF ShareInv, RequestsWriteOwnRows
  <2> QED BY <2>1 DEF Handler, CallHandler, ResultHandler, Stream, Refuse, AcquireStream,
     ReadCall, Claim, LoseClaim, AnswerQuestion, RunAccepted, SkipQuestion, RunAuto, RejectCall,
     Resolve, Record, InsertResults, ReadResult, Scrub, FollowUp, FailFollowUp, LookupAnchor,
     DemoteAnchor, CreateAnchor, FinishStream
<1>2. ASSUME NEW r \in Req, Handler(r)
      PROVE  pc'[q] = pc[q] /\ wrote'[q] = wrote[q] /\ seen'[q] = seen[q] /\ req'[q] = req[q]
  BY <1>1, <1>2, OthersStay DEF LocalsStay
<1>3. ASSUME NEW r \in Req, NEW n \in Node,
             (\E op \in {"call", "result"} : Click(r, n, op)) \/ ClickRegenerate(r, n)
      PROVE  pc'[q] = pc[q] /\ wrote'[q] = wrote[q] /\ seen'[q] = seen[q] /\ req'[q] = req[q]
  BY <1>3 DEF Click, ClickRegenerate, Goto, TypeOK
<1>4. \A n \in Node : ~ Crash(n)
  BY DEF Crash, Undisturbed
<1>5. UNCHANGED vars =>
        pc'[q] = pc[q] /\ wrote'[q] = wrote[q] /\ seen'[q] = seen[q] /\ req'[q] = req[q]
  BY DEF vars, reqVars
<1> QED BY <1>2, <1>3, <1>4, <1>5 DEF Next, Quiet

\* A request that has a decision to write, or to undo, and its one result row.
DecidesOn(r, j) ==
  /\ Deciding(r) /\ 1 \in Anchors(seen[r])
  /\ ResultTurns(seen[r]) = {j} /\ ResultTurns(turn) = {j} /\ Decisions(r) = {j}
  /\ Others(r) \subseteq {1} /\ j # 1
  /\ \E t \in Tool : seen[r][j].blocks[t].st = "result" /\ ~ seen[r][j].blocks[t].decided

LEMMA DeciderView ==
  ASSUME Inv1, NEW r \in Req, pc[r] \in {"write", "undo"}, Decisions(r) \cup Others(r) # {}
  PROVE  \E j \in ResultTurns(turn) : DecidesOn(r, j)
<1> USE DEF Inv1, Before, ShareInv, RoundInv
<1>1. Deciding(r)
  BY DEF Deciding, RequestsWriteOwnRows
<1> QED BY <1>1, DecidingView DEF DecidesOn

\* The step of a request that writes or undoes a decision moves nothing else.
LEMMA WriterMoves ==
  ASSUME Inv1, [Next]_vars, NEW r \in Req,
         WriteDecision(r) \/ UndoDecision(r) \/ DecisionWritten(r)
  PROVE  /\ \A q \in Req : /\ Decisions(q)' = Decisions(q)
                           /\ \A k : Decision(q, k)' = Decision(q, k)
         /\ \A q \in Req : q # r => pc'[q] = pc[q] /\ wrote'[q] = wrote[q]
         /\ seen' = seen
         /\ \A q \in Deciders' : q # r => q \in Deciders
         /\ \A q \in Deciders : q # r => q \in Deciders'
<1> USE DEF Inv1, Before
<1>1. seen' = seen /\ req' = req
  BY DEF WriteDecision, UndoDecision, DecisionWritten, reqVars
<1>2. \A q \in Req : /\ Decisions(q)' = Decisions(q)
                     /\ \A k : Decision(q, k)' = Decision(q, k)
  BY <1>1, ViewStays
<1>3. \A q \in Req : q # r => pc'[q] = pc[q] /\ wrote'[q] = wrote[q]
  <2>1. Handler(r)
    BY DEF Handler, ResultHandler
  <2> QED BY <2>1, OthersStay DEF LocalsStay
<1>4. ASSUME NEW q \in Req, q # r PROVE q \in Deciders' <=> q \in Deciders
  <2>1. /\ pc'[q] = pc[q]
        /\ (Decisions(q)' \cap wrote'[q]) = (Decisions(q) \cap wrote[q])
    BY <1>2, <1>3, <1>4
  <2> QED BY <2>1 DEF Deciders
<1>5. Deciders \subseteq Req /\ Deciders' \subseteq Req
  BY DEF Deciders
<1> QED BY <1>1, <1>2, <1>3, <1>4, <1>5

LEMMA SettlesWrite ==
  ASSUME Undisturbed, Inv2, [Next]_vars, NEW r \in Req, WriteDecision(r)
  PROVE  Settles'
<1> USE DEF Inv2, Inv1, Before, ShareInv, RoundInv, SettledInv
<1>0. /\ turn \in [TurnId -> Turn] /\ wrote \in [Req -> SUBSET TurnId] /\ pc \in [Req -> Pcs]
      /\ 1 \in TurnId /\ pc[r] = "write" /\ (Decisions(r) \cup Others(r)) \ wrote[r] # {}
      /\ Decisions(r) \in SUBSET TurnId /\ Others(r) \in SUBSET TurnId
      /\ \A q, p \in Deciders : q = p
  <2>1. turn \in [TurnId -> Turn] /\ wrote \in [Req -> SUBSET TurnId] /\ pc \in [Req -> Pcs]
        /\ 1 \in TurnId
    BY ToolApprovalAssumption DEF TypeOK, TurnId
  <2>2. pc[r] = "write" /\ (Decisions(r) \cup Others(r)) \ wrote[r] # {}
    BY DEF WriteDecision
  <2>3. Decisions(r) \in SUBSET TurnId /\ Others(r) \in SUBSET TurnId
    BY DEF Decisions, Others, ResultTurns
  <2>4. \A q, p \in Deciders : q = p
    BY DEF FollowedOnce, Followers
  <2> QED BY <2>1, <2>2, <2>3, <2>4
<1>1. PICK j \in ResultTurns(turn) : DecidesOn(r, j)
  BY <1>0, DeciderView
<1>2. /\ j \in TurnId /\ j # 1 /\ Decisions(r) = {j} /\ Others(r) \subseteq {1}
      /\ ResultTurns(turn) = {j} /\ Deciding(r) /\ 1 \in Anchors(seen[r])
  BY <1>1 DEF DecidesOn, ResultTurns
<1>3. ResultTurns(turn') = {j}
  BY <1>2, ResultTurnsMove
<1>4. /\ \A q \in Req : /\ Decisions(q)' = Decisions(q)
                        /\ \A k : Decision(q, k)' = Decision(q, k)
      /\ \A q \in Req : q # r => pc'[q] = pc[q] /\ wrote'[q] = wrote[q]
      /\ seen' = seen
      /\ \A q \in Deciders' : q # r => q \in Deciders
      /\ \A q \in Deciders : q # r => q \in Deciders'
  BY WriterMoves
<1>5. ResultTurns(turn)' = {j}
  BY <1>3 DEF ResultTurns
<1>6. ASSUME NEW i, i = NextWrite(r), CasSucceeds(i, seen[r][i].blocks),
             turn' = [turn EXCEPT ![i].blocks = Decision(r, i)],
             wrote' = [wrote EXCEPT ![r] = @ \cup {i}], pc' = pc
      PROVE  Settles'
  <2>0. wrote'[r] = wrote[r] \cup {i} /\ pc'[r] = "write"
    BY <1>0, <1>6
  <2>1. CASE j \notin wrote[r]
    <3>1. i = j
      BY <1>0, <1>2, <1>6, <2>1, MinIsTurn DEF NextWrite
    <3>2. 1 \notin wrote'[r]
      BY <1>2, <2>0, <2>1, <3>1 DEF WritesInOrder
    <3>3. turn'[j].blocks = Decision(r, j) /\ turn'[1] = turn[1]
          /\ turn[j].blocks = seen[r][j].blocks
      BY <1>0, <1>2, <1>6, <3>1 DEF CasSucceeds, Turn
    <3>4. Deciders = {}
      <4>1. ~ AllDecided
        BY <1>1, <1>2, <3>3 DEF AllDecided, DecidesOn
      <4> QED BY <4>1 DEF FollowedOnce, Followers
    <3>5. Agree(turn[1].blocks, seen[r][j].blocks)
      BY <1>2, <3>3, <3>4 DEF FlagsFollow
    <3>6. r \in Deciders'
      BY <1>2, <1>4, <2>0, <3>1 DEF Deciders
    <3>7. Recorded(r, j)'
      BY <1>4, <3>2, <3>3, <3>5 DEF Recorded, Agree
    <3>8. Deciders' = {r}
      BY <1>4, <3>4, <3>6
    <3> QED BY <1>5, <3>7, <3>8 DEF Settles
  <2>2. CASE j \in wrote[r]
    <3>1. i = 1
      <4>1. Decisions(r) \ wrote[r] = {} /\ Others(r) \ wrote[r] # {}
        BY <1>0, <1>2, <2>2
      <4>2. NextWrite(r) = Min(Others(r) \ wrote[r])
        BY <4>1 DEF NextWrite
      <4> QED BY <1>0, <1>2, <1>6, <4>1, <4>2, MinIsTurn
    <3>2. r \in Deciders /\ r \in Deciders'
      BY <1>0, <1>2, <1>4, <2>0, <2>2 DEF Deciders
    <3>3. turn'[1].blocks = Decision(r, 1) /\ turn'[j] = turn[j] /\ 1 \in wrote'[r]
      BY <1>0, <1>2, <1>6, <2>0, <3>1 DEF Turn
    <3>4. turn[j].blocks = Decision(r, j)
      BY <3>2 DEF FlagsFollow
    <3>5. Recorded(r, j)'
      BY <1>4, <2>0, <3>3, <3>4 DEF Recorded
    <3>6. Deciders' = {r}
      BY <1>0, <1>4, <3>2
    <3> QED BY <1>5, <3>5, <3>6 DEF Settles
  <2> QED BY <2>1, <2>2
<1>7. ASSUME turn' = turn, wrote' = wrote,
             IF wrote[r] = {} THEN pc'[r] = "done" ELSE pc'[r] = "undo"
      PROVE  Settles'
  <2>1. r \in Deciders <=> r \in Deciders'
    BY <1>0, <1>4, <1>7 DEF Deciders
  <2>2. Deciders' = Deciders
    BY <1>4, <2>1
  <2>3. ASSUME NEW q \in Deciders PROVE Recorded(q, j)'
    <3>1. turn[j].blocks = Decision(q, j) /\ (1 \in wrote[q] => turn[1].blocks = Decision(q, 1) /\ pc[q] = "write")
          /\ (1 \notin wrote[q] => Agree(turn[1].blocks, seen[q][j].blocks)) /\ q \in Req
      BY DEF FlagsFollow, Deciders
    <3>2. q = r => 1 \notin wrote[q]
      BY <1>0, <1>2 DEF Deciders
    <3> QED BY <1>4, <1>7, <3>1, <3>2 DEF Recorded, Agree
  <2>4. RowsAgree => RowsAgree'
    BY <1>2, <1>5, <1>7 DEF RowsAgree, Agree
  <2>5. Deciders = {} => RowsAgree
    BY DEF FlagsFollow, RowsAgree
  <2> QED BY <1>5, <2>2, <2>3, <2>4, <2>5 DEF Settles
<1>8. CASE CasSucceeds(NextWrite(r), seen[r][NextWrite(r)].blocks) /\ pc' = pc
  <2>1. \/ /\ turn' = [turn EXCEPT ![NextWrite(r)].blocks = Decision(r, NextWrite(r))]
           /\ wrote' = [wrote EXCEPT ![r] = @ \cup {NextWrite(r)}]
        \/ pc'[r] = "done" \/ pc'[r] = "undo"
    BY <1>0, <1>8 DEF WriteDecision, Return, Goto
  <2>2. pc'[r] = "write"
    BY <1>0, <1>8
  <2> QED BY <1>6, <1>8, <2>1, <2>2
<1> QED
  <2>1. \/ CasSucceeds(NextWrite(r), seen[r][NextWrite(r)].blocks) /\ pc' = pc
        \/ /\ turn' = turn /\ wrote' = wrote
           /\ IF wrote[r] = {} THEN pc'[r] = "done" ELSE pc'[r] = "undo"
    BY <1>0 DEF WriteDecision, Return, Goto
  <2> QED BY <1>7, <1>8, <2>1

LEMMA SettlesUndo ==
  ASSUME Undisturbed, Inv2, [Next]_vars, NEW r \in Req, UndoDecision(r)
  PROVE  Settles'
<1> USE DEF Inv2, Inv1, Before, ShareInv, RoundInv, SettledInv
<1>0. /\ turn \in [TurnId -> Turn] /\ wrote \in [Req -> SUBSET TurnId] /\ pc \in [Req -> Pcs]
      /\ 1 \in TurnId /\ pc[r] = "undo"
      /\ \A q, p \in Deciders : q = p
  BY ToolApprovalAssumption DEF TypeOK, TurnId, UndoDecision, FollowedOnce, Followers
<1>4. /\ \A q \in Req : /\ Decisions(q)' = Decisions(q)
                        /\ \A k : Decision(q, k)' = Decision(q, k)
      /\ \A q \in Req : q # r => pc'[q] = pc[q] /\ wrote'[q] = wrote[q]
      /\ seen' = seen
      /\ \A q \in Deciders' : q # r => q \in Deciders
      /\ \A q \in Deciders : q # r => q \in Deciders'
  BY WriterMoves
<1>5. ResultTurns(turn)' = ResultTurns(turn)
  <2>1. ASSUME NEW q \in Req, Fills(q, nextTurn) PROVE FALSE
    BY <2>1, FillsFirst DEF UndoDecision, OneResultRow, RequestsWriteOwnRows
  <2> QED BY <2>1, ResultTurnsMove DEF ResultTurns
<1>6. CASE wrote[r] = {}
  <2>1. turn' = turn /\ wrote' = wrote /\ r \notin Deciders
    BY <1>6 DEF UndoDecision, Deciders
  <2>2. r \notin Deciders'
    BY <1>4, <1>6, <2>1 DEF Deciders
  <2>3. Deciders' = Deciders
    BY <1>4, <2>1, <2>2
  <2>4. ASSUME NEW q \in Deciders, NEW j \in ResultTurns(turn) PROVE Recorded(q, j)'
    <3>1. /\ turn[j].blocks = Decision(q, j)
          /\ 1 \in wrote[q] => turn[1].blocks = Decision(q, 1) /\ pc[q] = "write"
          /\ 1 \notin wrote[q] => Agree(turn[1].blocks, seen[q][j].blocks)
          /\ q \in Req /\ q # r
      BY <2>1 DEF FlagsFollow, Deciders
    <3> QED BY <1>4, <2>1, <3>1 DEF Recorded, Agree
  <2>5. Deciders = {} => RowsAgree'
    BY <1>5, <2>1 DEF RowsAgree, Agree, FlagsFollow
  <2> QED BY <1>5, <2>3, <2>4, <2>5 DEF Settles
<1>7. CASE wrote[r] # {}
  <2>1. wrote[r] \subseteq Decisions(r) \cup Others(r)
    BY DEF WritesInOrder
  <2>2. PICK j \in ResultTurns(turn) : DecidesOn(r, j)
    BY <1>0, <1>7, <2>1, DeciderView
  <2>3. /\ j \in TurnId /\ j # 1 /\ Decisions(r) = {j} /\ Others(r) \subseteq {1}
        /\ ResultTurns(turn) = {j} /\ Deciding(r) /\ 1 \in Anchors(seen[r])
    BY <2>2 DEF DecidesOn, ResultTurns
  <2>4. 1 \notin wrote[r] /\ r \in Deciders
    <3>1. r \in Deciders
      <4>1. j \in wrote[r]
        BY <1>7, <2>1, <2>3 DEF WritesInOrder
      <4> QED BY <1>0, <2>3, <4>1 DEF Deciders
    <3> QED BY <1>0, <2>3, <3>1 DEF FlagsFollow
  <2>5. wrote[r] = {j}
    BY <1>7, <2>1, <2>3, <2>4
  <2>6. LastWrite(r) = j
    BY <1>0, <1>7, <2>5, LastWriteIsRow
  <2>7. turn[j].blocks = Decision(r, j) /\ Agree(turn[1].blocks, seen[r][j].blocks)
    BY <2>3, <2>4 DEF FlagsFollow
  <2>8. CasSucceeds(j, Decision(r, j)) /\ ~ DbFails
    BY <2>3, <2>7 DEF CasSucceeds, ResultTurns, DbFails, Undisturbed
  <2>9. turn' = [turn EXCEPT ![j].blocks = seen[r][j].blocks]
        /\ wrote' = [wrote EXCEPT ![r] = @ \ {j}]
    BY <1>7, <2>6, <2>8 DEF UndoDecision
  <2>10. turn'[j].blocks = seen[r][j].blocks /\ turn'[1] = turn[1] /\ wrote'[r] = {}
    BY <1>0, <2>3, <2>5, <2>9 DEF Turn
  <2>11. Deciders' = {}
    <3>1. r \notin Deciders'
      BY <2>10 DEF Deciders
    <3> QED BY <1>0, <1>4, <2>4, <3>1
  <2>12. RowsAgree'
    BY <1>5, <2>3, <2>7, <2>10 DEF RowsAgree, Agree
  <2> QED BY <2>11, <2>12 DEF Settles
<1> QED BY <1>6, <1>7

LEMMA SettlesWritten ==
  ASSUME Undisturbed, Inv2, [Next]_vars, NEW r \in Req, DecisionWritten(r)
  PROVE  Settles'
<1> USE DEF Inv2, Inv1, Before, ShareInv, RoundInv, SettledInv
<1>0. /\ pc \in [Req -> Pcs] /\ pc[r] = "write" /\ (Decisions(r) \cup Others(r)) \subseteq wrote[r]
      /\ turn' = turn /\ wrote' = wrote /\ pc'[r] \in {"followup", "done"}
      /\ \A q, p \in Deciders : q = p
  BY DEF TypeOK, DecisionWritten, FollowedOnce, Followers, Return, Goto, dbVars, reqVars
<1>4. /\ \A q \in Req : /\ Decisions(q)' = Decisions(q)
                        /\ \A k : Decision(q, k)' = Decision(q, k)
      /\ \A q \in Req : q # r => pc'[q] = pc[q] /\ wrote'[q] = wrote[q]
      /\ seen' = seen
      /\ \A q \in Deciders' : q # r => q \in Deciders
      /\ \A q \in Deciders : q # r => q \in Deciders'
  BY WriterMoves
<1>5. ResultTurns(turn)' = ResultTurns(turn) /\ r \notin Deciders'
  BY <1>0 DEF ResultTurns, Deciders
<1>6. CASE r \in Deciders
  <2>1. Deciders' = {}
    BY <1>0, <1>4, <1>5, <1>6
  <2>2. PICK j \in ResultTurns(turn) : DecidesOn(r, j)
    BY <1>0, <1>6, DeciderView DEF Deciders
  <2>3. /\ ResultTurns(turn) = {j} /\ ResultTurns(seen[r]) = {j} /\ Deciding(r)
        /\ 1 \in Anchors(seen[r]) /\ j \in ResultTurns(seen[r])
    BY <2>2 DEF DecidesOn
  <2>4. /\ Agree(Decision(r, 1), Decision(r, j))
        /\ (Agree(turn[1].blocks, seen[r][j].blocks) /\ 1 \notin Others(r))
              => Agree(turn[1].blocks, Decision(r, j))
    BY <2>3, DecisionsAgree
  <2>5. /\ turn[j].blocks = Decision(r, j)
        /\ 1 \in wrote[r] => turn[1].blocks = Decision(r, 1)
        /\ 1 \notin wrote[r] => Agree(turn[1].blocks, seen[r][j].blocks)
    BY <1>6, <2>3 DEF FlagsFollow
  <2>6. Agree(turn[1].blocks, turn[j].blocks)
    BY <1>0, <2>4, <2>5
  <2>7. RowsAgree'
    BY <1>0, <1>5, <2>3, <2>6 DEF RowsAgree, Agree
  <2> QED BY <2>1, <2>7 DEF Settles
<1>7. CASE r \notin Deciders
  <2>1. Deciders' = Deciders
    BY <1>4, <1>5, <1>7
  <2>2. ASSUME NEW q \in Deciders, NEW j \in ResultTurns(turn) PROVE Recorded(q, j)'
    <3>1. /\ turn[j].blocks = Decision(q, j)
          /\ 1 \in wrote[q] => turn[1].blocks = Decision(q, 1) /\ pc[q] = "write"
          /\ 1 \notin wrote[q] => Agree(turn[1].blocks, seen[q][j].blocks)
          /\ q \in Req /\ q # r
      BY <1>7 DEF FlagsFollow, Deciders
    <3> QED BY <1>0, <1>4, <3>1 DEF Recorded, Agree
  <2>3. Deciders = {} => RowsAgree'
    BY <1>0, <1>5 DEF RowsAgree, Agree, FlagsFollow
  <2> QED BY <1>5, <2>1, <2>2, <2>3 DEF Settles
<1> QED BY <1>6, <1>7

\* The results of a batch are inserted with the flags its calls got.
LEMMA SettlesFill ==
  ASSUME Undisturbed, Inv2, [Next]_vars, NEW r \in Req, Fills(r, nextTurn)
  PROVE  Settles'
<1> USE DEF Inv2, Inv1, Before, ShareInv, RoundInv, SettledInv
<1>0. /\ turn \in [TurnId -> Turn] /\ 1 \in TurnId /\ 1 # nextTurn /\ nextTurn \in TurnId
      /\ pc[r] = "insert" /\ turn' = [turn EXCEPT ![nextTurn] = ResultTurn(r)]
  BY ToolApprovalAssumption
     DEF TypeOK, TurnId, BatchIsFirst, ApprovalInv, TurnsAreOld, Fills, InsertResults
<1>1. ResultTurns(turn) = {} /\ ResultTurns(turn)' = {nextTurn}
  BY FillsFirst DEF ResultTurns
<1>2. \A q \in Req : pc[q] \notin {"write", "undo"}
  BY <1>1 DEF OneResultRow, RequestsWriteOwnRows
<1>3. Deciders' = {}
  <2>1. ASSUME NEW q \in Deciders' PROVE FALSE
    <3>1. q \in Req
      BY DEF Deciders
    <3> QED BY <1>2, <2>1, <3>1, DecidersCome DEF Deciders, Decides, WriteDecision
  <2> QED BY <2>1
<1>4. turn'[1].blocks = out[r] /\ turn'[nextTurn] = ResultTurn(r) /\ tgt[r] = 1
  BY <1>0, ResultsOfFirst DEF FirstRowFollows
<1>5. ASSUME NEW t \in Tool, out[r][t].st \in {"success", "error"},
             ResultTurn(r).blocks[t].st = "result"
      PROVE  out[r][t].shared = ResultTurn(r).blocks[t].shared
  <2>1. seen[r][1].blocks[t].st \in Open
    BY <1>4, <1>5 DEF ResultTurn, NoBlock
  <2>2. out[r][t].shared <=> t \in AskTool \cup autoRan[r]
    BY <1>0, <1>5, <2>1 DEF OpenIsUnshared
  <2>3. ResultTurn(r).blocks[t].shared = Terminal(r, t)
    BY <1>4, <2>1 DEF ResultTurn
  <2>4. Terminal(r, t) <=> t \in AskTool \cup autoRan[r]
    BY <1>5 DEF Terminal, Undisturbed, OneRound
  <2>5. out[r][t].shared \in BOOLEAN /\ Terminal(r, t) \in BOOLEAN
    BY DEF TypeOK, Block, Terminal
  <2> QED BY <2>2, <2>3, <2>4, <2>5
<1>6. RowsAgree'
  BY <1>1, <1>4, <1>5 DEF RowsAgree, Agree
<1> QED BY <1>3, <1>6 DEF Settles

LEMMA SettlesOther ==
  ASSUME Undisturbed, Inv2, [Next]_vars,
         \A r \in Req : /\ ~ WriteDecision(r) /\ ~ UndoDecision(r) /\ ~ DecisionWritten(r)
                        /\ ~ Fills(r, nextTurn)
  PROVE  Settles'
<1> USE DEF Inv2, Inv1, Before, ShareInv, RoundInv, SettledInv
<1>1. ResultTurns(turn)' = ResultTurns(turn)
  BY ResultTurnsMove DEF ResultTurns
<1>2. ASSUME NEW j \in ResultTurns(turn) PROVE turn'[j].blocks = turn[j].blocks
  BY ResultRowWrites DEF Decides, Undoes
<1>3. ASSUME ResultTurns(turn) # {} PROVE turn'[1].blocks = turn[1].blocks
  <2>1. CASE turn'[1] = turn[1]
    BY <2>1
  <2>2. CASE turn'[1] # turn[1]
    <3>1. PICK r \in Req :
            \/ Claim(r) /\ tgt[r] = 1 /\ turn[1].blocks = seen[r][1].blocks
            \/ Records(r, 1) /\ tgt[r] = 1
            \/ turn' = [turn EXCEPT ![1].anchor = FALSE]
      BY <2>2, FirstRowWrites DEF FirstRowStep, Decides, Undoes
    <3>2. ~ (Claim(r) /\ tgt[r] = 1 /\ turn[1].blocks = seen[r][1].blocks)
      <4>1. ~ Has(turn, 1, {"pending"})
        BY <1>3 DEF FirstRowFollows, Has, Open
      <4>2. Claim(r) => Has(seen[r], tgt[r], {"pending"})
        BY DEF Claim, OneResultRow
      <4> QED BY <4>1, <4>2 DEF Has
    <3>3. ~ (Records(r, 1) /\ tgt[r] = 1)
      BY <1>3, ResultsOfFirst DEF Records, Record
    <3>4. 1 \in TurnId /\ turn \in [TurnId -> Turn]
      BY ToolApprovalAssumption DEF TypeOK, TurnId
    <3> QED BY <3>1, <3>2, <3>3, <3>4 DEF Turn
  <2> QED BY <2>1, <2>2
<1>4. ASSUME NEW q \in Req, pc[q] \in {"write", "undo"}
      PROVE  /\ pc'[q] = pc[q] /\ wrote'[q] = wrote[q] /\ seen'[q] = seen[q]
             /\ Decisions(q)' = Decisions(q)
             /\ \A k : Decision(q, k)' = Decision(q, k)
  <2>1. pc'[q] = pc[q] /\ wrote'[q] = wrote[q] /\ seen'[q] = seen[q] /\ req'[q] = req[q]
    BY <1>4, WritersStay
  <2> QED BY <2>1, ViewStays
<1>5. ASSUME NEW q \in Deciders' PROVE q \in Deciders
  <2>1. q \in Req
    BY DEF Deciders
  <2> QED BY <1>5, <2>1, DecidersCome DEF Decides
<1>6. ASSUME NEW q \in Deciders PROVE q \in Deciders'
  <2>1. q \in Req /\ pc[q] \in {"write", "undo"} /\ Decisions(q) \cap wrote[q] # {}
    BY DEF Deciders
  <2> QED BY <1>4, <2>1 DEF Deciders
<1>7. ASSUME NEW q \in Deciders, NEW j \in ResultTurns(turn) PROVE Recorded(q, j)'
  <2>1. /\ turn[j].blocks = Decision(q, j)
        /\ 1 \in wrote[q] => turn[1].blocks = Decision(q, 1) /\ pc[q] = "write"
        /\ 1 \notin wrote[q] => Agree(turn[1].blocks, seen[q][j].blocks)
        /\ q \in Req /\ pc[q] \in {"write", "undo"}
    BY DEF FlagsFollow, Deciders
  <2>2. turn'[1].blocks = turn[1].blocks /\ turn'[j].blocks = turn[j].blocks
    BY <1>2, <1>3
  <2> QED BY <1>4, <2>1, <2>2 DEF Recorded, Agree
<1>8. Deciders = {} => RowsAgree'
  <2>1. Deciders = {} => RowsAgree
    BY DEF FlagsFollow, RowsAgree
  <2>2. RowsAgree => RowsAgree'
    BY <1>1, <1>2, <1>3 DEF RowsAgree, Agree
  <2> QED BY <2>1, <2>2
<1> QED BY <1>1, <1>5, <1>6, <1>7, <1>8 DEF Settles

LEMMA FlagsFollowStep ==
  ASSUME Undisturbed, Inv2, [Next]_vars
  PROVE  FlagsFollow'
<1>1. Settles'
  BY SettlesWrite, SettlesUndo, SettlesWritten, SettlesFill, SettlesOther
<1>2. \A r \in Deciders', j \in ResultTurns(turn)' :
        /\ turn'[j].blocks = Decision(r, j)'
        /\ 1 \in wrote'[r] => turn'[1].blocks = Decision(r, 1)' /\ pc'[r] = "write"
        /\ 1 \notin wrote'[r] => Agree(turn'[1].blocks, seen'[r][j].blocks)
  BY <1>1 DEF Settles, Recorded, Agree
<1>3. Deciders' = {} => \A j \in ResultTurns(turn)' : Agree(turn'[1].blocks, turn'[j].blocks)
  BY <1>1 DEF Settles, RowsAgree, Agree
<1>4. \A r \in Req : Deciding(r)' /\ 1 \in Anchors(seen'[r]) =>
        /\ \A j \in ResultTurns(seen'[r]) : Agree(seen'[r][1].blocks, seen'[r][j].blocks)
        /\ \A t \in Tool : seen'[r][1].blocks[t].st = "none" => turn'[1].blocks[t].st = "none"
  BY ReadsAgree
<1>5. \A r \in Req : Anchors(seen[r])' = Anchors(seen'[r])
                     /\ ResultTurns(seen[r])' = ResultTurns(seen'[r])
  BY DEF Anchors, ResultTurns
<1> QED BY <1>2, <1>3, <1>4, <1>5 DEF FlagsFollow, Agree

LEMMA ResultsAreDecidedStep ==
  ASSUME Inv2, [Next]_vars
  PROVE  ResultsAreDecided'
<1> USE DEF Inv2, Inv1, Before, ShareInv, RoundInv, SettledInv
<1> DEFINE Fits(b) == b.st = "result" \/ (b.st = "none" /\ ~ b.decided)
<1>1. ASSUME NEW j \in ResultTurns(turn'), NEW t \in Tool PROVE Fits(turn'[j].blocks[t])
  <2>1. CASE j \in ResultTurns(turn) /\ turn'[j].blocks = turn[j].blocks
    BY <2>1 DEF ResultsAreDecided, OnlyResults
  <2>2. CASE j \in ResultTurns(turn) /\ turn'[j].blocks # turn[j].blocks
    <3>1. PICK r \in Req : j \in Decisions(r) /\ (Decides(r, j) \/ Undoes(r, j))
      BY <2>2, ResultRowWrites
    <3>2. j \in ResultTurns(seen[r]) /\ j \in TurnId /\ Fits(seen[r][j].blocks[t])
      BY <3>1 DEF Decisions, ResultTurns, ResultsAreDecided, OnlyResults
    <3>3. Fits(Decision(r, j)[t])
      <4>1. Decision(r, j)[t].st = seen[r][j].blocks[t].st
        BY DEF Decision
      <4>2. Decision(r, j)[t].decided =>
              seen[r][j].blocks[t].decided \/ seen[r][j].blocks[t].st # "none"
        BY Zenon DEF Decision
      <4> QED BY <3>2, <4>1, <4>2
    <3>4. turn'[j].blocks = Decision(r, j) \/ turn'[j].blocks = seen[r][j].blocks
      BY <3>1, <3>2 DEF Decides, Undoes, TypeOK, Turn
    <3> QED BY <3>2, <3>3, <3>4
  <2>3. CASE j \notin ResultTurns(turn)
    <3>1. PICK r \in Req : Fills(r, nextTurn) /\ j = nextTurn
      BY <2>3, ResultTurnsMove
    <3>2. turn'[j] = ResultTurn(r)
      BY <3>1 DEF Fills, TypeOK
    <3> QED BY <3>2 DEF ResultTurn, NoBlock
  <2> QED BY <2>1, <2>2, <2>3
<1>2. OnlyResults(turn)'
  BY <1>1 DEF OnlyResults, ResultTurns
<1>3. ASSUME NEW q \in Req PROVE OnlyResults(seen'[q])
  <2>1. seen'[q] = seen[q] \/ seen'[q] = turn
    BY StepLocals DEF LocalMoves
  <2> QED BY <2>1 DEF ResultsAreDecided
<1>4. \A q \in Req : OnlyResults(seen[q])' = OnlyResults(seen'[q])
  BY DEF OnlyResults, ResultTurns
<1> QED BY <1>2, <1>3, <1>4 DEF ResultsAreDecided

LEMMA SettledInit ==
  ASSUME OneRound, Init
  PROVE  SettledInv
<1>1. PICK b \in Batches(1) \ {{}} :
        turn = [i \in TurnId |-> IF i = 1 THEN AnchorTurn(b) ELSE NoTurn]
  BY DEF Init
<1>2. 1 \in TurnId
  BY ToolApprovalAssumption DEF TurnId
<1>3. turn[1] = AnchorTurn(b) /\ ResultTurns(turn) = {}
  BY <1>1, <1>2 DEF AnchorTurn, NoTurn, ResultTurns
<1>4. \A r \in Req : /\ pc[r] = "idle" /\ req[r].op = "none" /\ autoRan[r] = {}
                     /\ ResultTurns(seen[r]) = {}
                     /\ \A t \in Tool : seen[r][1].blocks[t].st = "none"
  BY <1>2 DEF Init, NoClick, NoTurn, NoBlock, ResultTurns
<1>5. \A t \in Tool : /\ turn[1].blocks[t].st \in {"none", "pending"}
                      /\ turn[1].blocks[t].st = "pending" => turn[1].blocks[t].shared = IsDM
  BY <1>3 DEF AnchorTurn, NoBlock
<1>6. turn[1].anchor
  BY <1>3 DEF AnchorTurn
<1>7. FirstRowFollows
  BY <1>3, <1>4, <1>5, <1>6 DEF FirstRowFollows, Has
<1>8. OpenIsUnshared
  BY <1>4, <1>5 DEF OpenIsUnshared, OneRound, Open
<1>9. FlagsFollow
  BY <1>3, <1>4 DEF FlagsFollow, Deciding, Deciders
<1>10. ResultsAreDecided
  BY <1>3, <1>4 DEF ResultsAreDecided, OnlyResults
<1> QED BY <1>7, <1>8, <1>9, <1>10 DEF SettledInv

LEMMA SettledInvariance ==
  ASSUME Undisturbed
  PROVE  Spec => [](Inv1 /\ SettledInv)
<1>1. OneRound
  BY DEF Undisturbed
<1>2. Inv1 /\ SettledInv /\ [Next]_vars => SettledInv'
  BY FirstRowFollowsStep, OpenIsUnsharedStep, ResultsAreDecidedStep, FlagsFollowStep
  DEF Inv2, SettledInv
<1> QED BY <1>1, <1>2, SettledInit, RoundInvariance, PTL DEF Spec, Inv1

\* While writes succeed and no node dies, the two rows of a decided call agree
\* on whether it is shared, although each click writes and undoes them one at a
\* time, against clicks on other nodes that read before or in between.  For one
\* round of calls of a channel.
THEOREM FlagsAgreePerRound ==
  ASSUME ~ IsDM, BatchBound <= 1, Faults \subseteq {"llm"}
  PROVE  Spec => []ShareFlagsAgree
<1>1. Undisturbed
  BY DEF Undisturbed, OneRound
<1>2. Inv1 /\ SettledInv => ShareFlagsAgree
  <2> SUFFICES ASSUME Inv1, SettledInv, \A r \in Req : pc[r] \notin {"write", "undo"},
                      NEW j \in ResultTurns(turn), NEW t \in Tool,
                      turn[j].blocks[t].decided,
                      turn[turn[j].owner].blocks[t].st \in {"success", "error"}
               PROVE  turn[turn[j].owner].blocks[t].shared = turn[j].blocks[t].shared
    BY DEF ShareFlagsAgree
  <2>1. turn[j].owner = 1
    BY ResultsOfFirst DEF Inv1, RoundInv
  <2>2. Agree(turn[1].blocks, turn[j].blocks)
    BY DEF SettledInv, FlagsFollow, Deciders
  <2>3. turn[j].blocks[t].st = "result"
    BY DEF SettledInv, ResultsAreDecided, OnlyResults
  <2> QED BY <2>1, <2>2, <2>3 DEF Agree
<1> QED BY <1>1, <1>2, SettledInvariance, PTL

\* While writes succeed and no node dies, a channel post whose handlers have all
\* returned is never left with open calls that nobody can decide: what is open
\* is pending, at the anchor.  For one round of calls.
THEOREM CallsDecidablePerRound ==
  ASSUME ~ IsDM, BatchBound <= 1, Faults \subseteq {"llm"}
  PROVE  Spec => []CallStageIsDecidable
<1>1. Undisturbed
  BY DEF Undisturbed, OneRound
<1>2. Inv1 /\ SettledInv => CallStageIsDecidable
  <2> SUFFICES ASSUME Inv1, SettledInv, \A r \in Req : ~ Live(r), StageOf(turn) = "call"
               PROVE  Has(turn, Min(Anchors(turn)), {"pending"})
    BY DEF CallStageIsDecidable
  <2>1. PICK i \in TurnId, t \in Tool : /\ turn[i].role = "assistant"
                                         /\ turn[i].blocks[t].st \in Open
    BY DEF StageOf, Has
  <2>2. i = 1
    BY <2>1 DEF Inv1, RoundInv, BatchIsFirst, HasCalls, Open
  <2>3. ~ Has(turn, 1, {"accepted"})
    BY DEF SettledInv, FirstRowFollows, Live
  <2>4. Has(turn, 1, {"pending"}) /\ turn[1].anchor
    BY <2>1, <2>2, <2>3 DEF Has, Open, SettledInv, FirstRowFollows
  <2>5. 1 \in Anchors(turn)
    BY <2>1, <2>2, <2>4 DEF Anchors
  <2> QED BY <2>4, <2>5, MinFirst, AnchorsAreTurns
<1> QED BY <1>1, <1>2, SettledInvariance, PTL

=============================================================================
