----------------------- MODULE ToolApprovalShareProofs -----------------------
(***************************************************************************)
(* More machine-checked theorems about ToolApproval, on the invariant of   *)
(* ToolApprovalProofs: statuses of calls only move forward, and what a     *)
(* follow-up discloses was shared.                                         *)
(***************************************************************************)
EXTENDS ToolApprovalProofs

-----------------------------------------------------------------------------
(* What a handler does to the rows *)

Forward(a, b) == a = b \/ Rank(a) < Rank(b)

\* The batch that turn j of a request's view is about.
OwnerSeen(r, j) == IF seen[r][j].role = "assistant" THEN j ELSE seen[r][j].owner

\* One row that request r read gets other blocks; only a share decision shares.
Rewrites(r) ==
  /\ nextTurn' = nextTurn
  /\ \E i \in TurnId, bs \in [Tool -> Block] :
       /\ turn[i].role # "none" /\ seen[r][i].role # "none"
       /\ turn' = [turn EXCEPT ![i].blocks = bs]
       /\ \A t \in Tool : Forward(turn[i].blocks[t].st, bs[t].st)
       /\ \/ seen[r][i].role = "assistant"
          \/ \A t \in Tool : bs[t].shared =>
               \/ seen[r][i].blocks[t].shared
               \/ req[r].op = "result" /\ t \in AcceptedOn(r, OwnerSeen(r, i))

Inserts(row) ==
  /\ nextTurn \in TurnId /\ nextTurn' = nextTurn + 1
  /\ turn' = [turn EXCEPT ![nextTurn] = row]

\* Rows go, or lose their anchor.
Removes ==
  /\ nextTurn' = nextTurn
  /\ \A i \in TurnId : \/ turn'[i] = NoTurn
                       \/ /\ turn'[i].role = turn[i].role /\ turn'[i].owner = turn[i].owner
                          /\ turn'[i].blocks = turn[i].blocks
                          /\ turn'[i].anchor => turn[i].anchor

\* Marking the pending calls accepted moves them forward.
LEMMA ClaimedForward ==
  ASSUME NEW bs \in [Tool -> Block], NEW t \in Tool
  PROVE  /\ Forward(bs[t].st, Claimed(bs)[t].st)
         /\ bs[t].st \in Open => Claimed(bs)[t].st = "accepted"
         /\ bs[t].st \notin Open => Claimed(bs)[t].st = bs[t].st
<1>1. CASE bs[t].st = "pending"
  <2>1. Claimed(bs)[t].st = "accepted"
    BY <1>1 DEF Claimed, Block
  <2> QED BY <1>1, <2>1 DEF Forward, Rank, Open
<1>2. CASE bs[t].st # "pending"
  BY <1>2 DEF Claimed, Forward, Open
<1> QED BY <1>1, <1>2

LEMMA ClaimWrites ==
  ASSUME TypeOK, ApprovalInv, RequestsWriteOwnRows, NEW r \in Req, Claim(r)
  PROVE  Rewrites(r)
<1> DEFINE i == tgt[r]
           bs == Claimed(seen[r][i].blocks)
<1>1. i \in TurnId /\ seen[r][i].role = "assistant"
  BY DEF Claim, ApprovalInv, ClaimsPending, BeforeClaim, RequestsWriteOwnRows
<1>2. seen[r][i].blocks \in [Tool -> Block]
  BY <1>1 DEF TypeOK, Turn
<1>3. /\ nextTurn' = nextTurn /\ turn[i].role # "none" /\ turn[i].blocks = seen[r][i].blocks
      /\ turn' = [turn EXCEPT ![i].blocks = bs]
  BY DEF Claim, CasSucceeds
<1>4. bs \in [Tool -> Block] /\ \A t \in Tool : Forward(turn[i].blocks[t].st, bs[t].st)
  BY <1>2, <1>3, ClaimedType, ClaimedForward
<1> QED BY <1>1, <1>3, <1>4 DEF Rewrites

\* The claimed row is replaced by one whose open calls are resolved.
LEMMA RecordWrites ==
  ASSUME TypeOK, ApprovalInv, RequestsWriteOwnRows, OutFollowsSeen, NEW r \in Req, Record(r)
  PROVE  Rewrites(r) \/ UNCHANGED dbVars
<1> DEFINE i == tgt[r]
<1>1. /\ pc[r] = "execute" /\ i \in TurnId /\ seen[r][i].role = "assistant"
      /\ out[r] \in [Tool -> Block] /\ nextTurn' = nextTurn
      /\ \A t \in Tool : out[r][t].st \notin Open
  BY DEF Record, ApprovalInv, ExecutorOwnsBatch, RequestsWriteOwnRows, TypeOK
<1>2. CASE CasSucceeds(i, ClaimedContent(r)) /\ turn' = [turn EXCEPT ![i].blocks = out[r]]
  <2>1. turn[i].role # "none" /\ turn[i].blocks = Claimed(seen[r][i].blocks)
    BY <1>2 DEF CasSucceeds, ClaimedContent
  <2>2. seen[r][i].blocks \in [Tool -> Block]
    BY <1>1 DEF TypeOK, Turn
  <2>3. ASSUME NEW t \in Tool PROVE Forward(turn[i].blocks[t].st, out[r][t].st)
    <3>1. CASE seen[r][i].blocks[t].st \in Open
      <4>1. turn[i].blocks[t].st = "accepted"
        BY <2>1, <2>2, <3>1, ClaimedForward
      <4>2. out[r][t].st \notin {"pending", "accepted"}
        BY <1>1 DEF Open
      <4> QED BY <4>1, <4>2 DEF Forward, Rank
    <3>2. CASE seen[r][i].blocks[t].st \notin Open
      <4>1. turn[i].blocks[t].st = seen[r][i].blocks[t].st
        BY <2>1, <2>2, <3>2, ClaimedForward
      <4>2. out[r][t].st = seen[r][i].blocks[t].st
        BY <1>1, <3>2 DEF OutFollowsSeen
      <4> QED BY <4>1, <4>2 DEF Forward
    <3> QED BY <3>1, <3>2
  <2> QED BY <1>1, <1>2, <2>1, <2>3 DEF Rewrites
<1> QED BY <1>1, <1>2 DEF Record, dbVars

\* A share decision, and its undo, keep the statuses.
LEMMA DecisionKeeps ==
  ASSUME TypeOK, NEW r \in Req, NEW j \in TurnId, NEW t \in Tool
  PROVE  /\ Decision(r, j)[t].st = seen[r][j].blocks[t].st
         /\ Decision(r, j)[t].shared =>
              seen[r][j].blocks[t].shared \/ t \in AcceptedOn(r, OwnerSeen(r, j))
  BY DEF Decision, OwnerSeen

\* The next row to write is one that was read.
LEMMA NextWriteIsRow ==
  ASSUME TypeOK, NEW r \in Req, WriteDecision(r)
  PROVE  NextWrite(r) \in TurnId /\ seen[r][NextWrite(r)].role # "none"
<1>1. /\ Decisions(r) \in SUBSET TurnId /\ Others(r) \in SUBSET TurnId
      /\ \A j \in Decisions(r) \cup Others(r) : seen[r][j].role # "none"
  BY DEF Decisions, Others, ResultTurns, Anchors
<1>2. (Decisions(r) \cup Others(r)) \ wrote[r] # {}
  BY DEF WriteDecision
<1>3. NextWrite(r) \in Decisions(r) \cup Others(r)
  <2>1. CASE Decisions(r) \ wrote[r] # {}
    <3>1. NextWrite(r) = Min(Decisions(r) \ wrote[r])
      BY <2>1 DEF NextWrite
    <3> QED BY <1>1, <2>1, <3>1, MinIsTurn
  <2>2. CASE Decisions(r) \ wrote[r] = {}
    <3>1. NextWrite(r) = Min(Others(r) \ wrote[r]) /\ Others(r) \ wrote[r] # {}
      BY <1>2, <2>2 DEF NextWrite
    <3> QED BY <1>1, <3>1, MinIsTurn
  <2> QED BY <2>1, <2>2
<1> QED BY <1>1, <1>3

LEMMA LastWriteIsRow ==
  ASSUME TypeOK, NEW r \in Req, wrote[r] # {}
  PROVE  LastWrite(r) \in wrote[r] /\ LastWrite(r) \in TurnId
<1>1. wrote[r] \in SUBSET TurnId /\ wrote[r] \cap Others(r) \in SUBSET TurnId
  BY DEF TypeOK
<1> QED BY <1>1, MaxIsTurn DEF LastWrite

LEMMA DecisionWrites ==
  ASSUME TypeOK, ApprovalInv, RequestsWriteOwnRows, NEW r \in Req,
         WriteDecision(r) \/ UndoDecision(r)
  PROVE  Rewrites(r) \/ UNCHANGED dbVars
<1>1. req[r].op = "result" /\ nextTurn' = nextTurn
  BY DEF WriteDecision, UndoDecision, RequestsWriteOwnRows
<1>2. CASE WriteDecision(r)
  <2> DEFINE j == NextWrite(r)
  <2>1. j \in TurnId /\ seen[r][j].role # "none"
    BY <1>2, NextWriteIsRow
  <2>2. CASE CasSucceeds(j, seen[r][j].blocks) /\ turn' = [turn EXCEPT ![j].blocks = Decision(r, j)]
    <3> HIDE DEF j
    <3>1. turn[j].role # "none" /\ turn[j].blocks = seen[r][j].blocks
      BY <2>2 DEF CasSucceeds
    <3>2. Decision(r, j) \in [Tool -> Block]
      BY <2>1, DecisionType
    <3>3. /\ \A t \in Tool : Forward(turn[j].blocks[t].st, Decision(r, j)[t].st)
          /\ \A t \in Tool : Decision(r, j)[t].shared =>
               seen[r][j].blocks[t].shared \/ t \in AcceptedOn(r, OwnerSeen(r, j))
      BY <2>1, <3>1, DecisionKeeps DEF Forward
    <3> QED BY <1>1, <2>1, <2>2, <3>1, <3>2, <3>3 DEF Rewrites
  <2> QED BY <1>1, <1>2, <2>2 DEF WriteDecision, dbVars
<1>3. CASE UndoDecision(r)
  <2> DEFINE j == LastWrite(r)
  <2>1. CASE /\ wrote[r] # {}
             /\ CasSucceeds(j, Decision(r, j))
             /\ turn' = [turn EXCEPT ![j].blocks = seen[r][j].blocks]
    <3>1. j \in TurnId /\ seen[r][j].role # "none"
      BY <2>1, LastWriteIsRow DEF RequestsWriteOwnRows
    <3> HIDE DEF j
    <3>2. turn[j].role # "none" /\ turn[j].blocks = Decision(r, j)
      BY <2>1 DEF CasSucceeds
    <3>3. seen[r][j].blocks \in [Tool -> Block]
      BY <3>1 DEF TypeOK, Turn
    <3>4. \A t \in Tool : Forward(turn[j].blocks[t].st, seen[r][j].blocks[t].st)
      BY <3>1, <3>2, DecisionKeeps DEF Forward
    <3> QED BY <1>1, <2>1, <3>1, <3>2, <3>3, <3>4 DEF Rewrites
  <2> QED BY <1>1, <1>3, <2>1 DEF UndoDecision, dbVars
<1> QED BY <1>2, <1>3

\* Every step, by what it does to the rows.
LEMMA StepWrites ==
  ASSUME TypeOK, ApprovalInv, RequestsWriteOwnRows, OutFollowsSeen, [Next]_vars
  PROVE  \/ UNCHANGED dbVars
         \/ \E r \in Req : Rewrites(r)
         \/ \E r \in Req, b \in Batches(nextTurn) : CreateAnchor(r) /\ Inserts(AnchorTurn(b))
         \/ \E r \in Req : InsertResults(r) /\ Inserts(ResultTurn(r))
         \/ Removes
<1> USE DEF dbVars
<1>1. ASSUME NEW r \in Req, Scrub(r) \/ DemoteAnchor(r) PROVE Removes
  <2>1. CASE Scrub(r)
    <3>1. nextTurn' = nextTurn /\ \A i \in TurnId : turn'[i] = turn[i] \/ turn'[i] = NoTurn
      BY <2>1 DEF Scrub, TypeOK
    <3> QED BY <3>1 DEF Removes
  <2>2. CASE DemoteAnchor(r)
    <3>1. nextTurn' = nextTurn /\ turn \in [TurnId -> Turn]
      BY <2>2 DEF DemoteAnchor, TypeOK
    <3>2. turn' = turn \/ turn' = [turn EXCEPT ![tgt[r]].anchor = FALSE]
      BY <2>2 DEF DemoteAnchor
    <3> QED BY <3>1, <3>2 DEF Removes, Turn
  <2> QED BY <1>1, <2>1, <2>2
<1>2. ASSUME NEW r \in Req, InsertResults(r)
      PROVE  UNCHANGED dbVars \/ Inserts(ResultTurn(r))
  BY <1>2 DEF InsertResults, Inserts, TurnId, TypeOK
<1>3. ASSUME NEW r \in Req, CreateAnchor(r)
      PROVE  UNCHANGED dbVars \/ \E b \in Batches(nextTurn) : Inserts(AnchorTurn(b))
  BY <1>3 DEF CreateAnchor, Inserts, TurnId, TypeOK
<1>4. ASSUME NEW r \in Req,
             \/ Refuse(r) \/ AcquireStream(r) \/ ReadCall(r) \/ LoseClaim(r) \/ ReadResult(r)
             \/ DecisionWritten(r) \/ FollowUp(r) \/ FailFollowUp(r) \/ LookupAnchor(r)
             \/ FinishStream(r)
      PROVE  UNCHANGED dbVars
  BY <1>4 DEF Refuse, AcquireStream, ReadCall, LoseClaim, ReadResult, DecisionWritten,
              FollowUp, FailFollowUp, LookupAnchor, FinishStream
<1>5. ASSUME NEW r \in Req, NEW t \in Tool,
             \/ AnswerQuestion(r, t) \/ RunAccepted(r, t) \/ SkipQuestion(r, t)
             \/ RunAuto(r, t) \/ RejectCall(r, t)
      PROVE  UNCHANGED dbVars
  BY <1>5 DEF AnswerQuestion, RunAccepted, SkipQuestion, RunAuto, RejectCall, Resolve
<1>6. ASSUME NEW r \in Req, NEW n \in Node,
             (\E op \in {"call", "result"} : Click(r, n, op)) \/ ClickRegenerate(r, n)
      PROVE  UNCHANGED dbVars
  BY <1>6 DEF Click, ClickRegenerate
<1>7. ASSUME NEW n \in Node, Crash(n) PROVE UNCHANGED dbVars
  BY <1>7 DEF Crash
<1>8. UNCHANGED vars => UNCHANGED dbVars
  BY DEF vars
<1>9. ASSUME NEW r \in Req, Handler(r)
      PROVE  \/ UNCHANGED dbVars \/ Rewrites(r) \/ Removes
             \/ \E b \in Batches(nextTurn) : CreateAnchor(r) /\ Inserts(AnchorTurn(b))
             \/ InsertResults(r) /\ Inserts(ResultTurn(r))
  BY <1>1, <1>2, <1>3, <1>4, <1>5, <1>9, ClaimWrites, RecordWrites, DecisionWrites
  DEF Handler, CallHandler, ResultHandler, Stream
<1> QED BY <1>6, <1>7, <1>8, <1>9 DEF Next, Quiet

\* No step takes the status of a call back.
LEMMA StatusesMove ==
  ASSUME TypeOK, ApprovalInv, RequestsWriteOwnRows, OutFollowsSeen, [Next]_vars,
         NEW i \in TurnId, NEW t \in Tool, turn[i].role # "none", turn'[i].role # "none"
  PROVE  Forward(turn[i].blocks[t].st, turn'[i].blocks[t].st)
<1>1. CASE UNCHANGED dbVars
  BY <1>1 DEF dbVars, Forward
<1>2. ASSUME NEW r \in Req, Rewrites(r)
      PROVE  Forward(turn[i].blocks[t].st, turn'[i].blocks[t].st)
  <2>1. PICK k \in TurnId, bs \in [Tool -> Block] :
          /\ turn' = [turn EXCEPT ![k].blocks = bs]
          /\ \A u \in Tool : Forward(turn[k].blocks[u].st, bs[u].st)
    BY <1>2 DEF Rewrites
  <2>2. CASE i = k
    <3>1. turn'[i].blocks = bs
      BY <2>1, <2>2 DEF TypeOK, Turn
    <3> QED BY <2>1, <2>2, <3>1
  <2>3. CASE i # k
    BY <2>1, <2>3 DEF TypeOK, Forward
  <2> QED BY <2>2, <2>3
<1>3. ASSUME NEW row, Inserts(row)
      PROVE  Forward(turn[i].blocks[t].st, turn'[i].blocks[t].st)
  <2>1. i # nextTurn
    BY DEF ApprovalInv, TurnsAreOld, TypeOK, TurnId
  <2> QED BY <1>3, <2>1 DEF Inserts, Forward, TypeOK
<1>4. CASE Removes
  BY <1>4 DEF Removes, NoTurn, Forward
<1> QED BY <1>1, <1>2, <1>3, <1>4, StepWrites

-----------------------------------------------------------------------------
(* The requests' locals *)

\* A click that decides on results is not made twice, or taken back.
LEMMA ClicksStay ==
  ASSUME TypeOK, ApprovalInv, [Next]_vars, NEW r \in Req, pc[r] # "idle"
  PROVE  req'[r] = req[r] /\ pc'[r] # "idle"
<1> USE DEF TypeOK, Goto, Return, Finish, reqVars
<1>1. ASSUME NEW q \in Req, NEW n \in Node,
             (\E op \in {"call", "result"} : Click(q, n, op)) \/ ClickRegenerate(q, n)
      PROVE  req'[r] = req[r] /\ pc'[r] # "idle"
  BY <1>1 DEF Click, ClickRegenerate
<1>2. ASSUME NEW q \in Req,
             \/ Refuse(q) \/ AcquireStream(q) \/ ReadCall(q) \/ ReadResult(q) \/ Claim(q)
             \/ LoseClaim(q)
      PROVE  req'[r] = req[r] /\ pc'[r] # "idle"
  BY <1>2 DEF Refuse, AcquireStream, ReadCall, ReadResult, Claim, LoseClaim
<1>3. ASSUME NEW q \in Req, NEW t \in Tool,
             \/ AnswerQuestion(q, t) \/ RunAccepted(q, t) \/ SkipQuestion(q, t)
             \/ RunAuto(q, t) \/ RejectCall(q, t)
      PROVE  req'[r] = req[r] /\ pc'[r] # "idle"
  BY <1>3 DEF AnswerQuestion, RunAccepted, SkipQuestion, RunAuto, RejectCall, Resolve
<1>4. ASSUME NEW q \in Req,
             \/ Record(q) \/ InsertResults(q) \/ WriteDecision(q) \/ UndoDecision(q)
             \/ DecisionWritten(q)
      PROVE  req'[r] = req[r] /\ pc'[r] # "idle"
  BY <1>4 DEF Record, InsertResults, WriteDecision, UndoDecision, DecisionWritten
<1>5. ASSUME NEW q \in Req,
             \/ Scrub(q) \/ FollowUp(q) \/ FailFollowUp(q) \/ LookupAnchor(q)
             \/ DemoteAnchor(q) \/ CreateAnchor(q) \/ FinishStream(q)
      PROVE  req'[r] = req[r] /\ pc'[r] # "idle"
  BY <1>5 DEF Scrub, FollowUp, FailFollowUp, LookupAnchor, DemoteAnchor, CreateAnchor,
              FinishStream
<1>6. ASSUME NEW n \in Node, Crash(n) PROVE req'[r] = req[r] /\ pc'[r] # "idle"
  BY <1>6 DEF Crash
<1>7. UNCHANGED vars => req'[r] = req[r] /\ pc'[r] # "idle"
  BY DEF vars
<1> QED
  BY <1>1, <1>2, <1>3, <1>4, <1>5, <1>6, <1>7
  DEF Next, Quiet, Handler, CallHandler, ResultHandler, Stream

Resolving(r) ==
  \E t \in Tool : \/ AnswerQuestion(r, t) \/ RunAccepted(r, t) \/ SkipQuestion(r, t)
                  \/ RunAuto(r, t) \/ RejectCall(r, t)

LocalsStay(q) ==
  /\ seen'[q] = seen[q] /\ tgt'[q] = tgt[q] /\ out'[q] = out[q]
  /\ autoRan'[q] = autoRan[q] /\ wrote'[q] = wrote[q]

\* Where a request can be after a step, and how it came there.
LocalMoves(q) ==
  /\ BeforeClaim(q)' =>
       \/ BeforeClaim(q) /\ tgt'[q] = tgt[q] /\ seen'[q] = seen[q]
       \/ seen'[q] = turn /\ turn[tgt'[q]].role = "assistant"
  /\ pc'[q] = "execute" => \/ Claim(q) \/ Resolving(q)
                           \/ pc[q] = "execute" /\ LocalsStay(q)
  /\ pc'[q] = "insert" => /\ pc[q] \in {"execute", "insert"}
                          /\ tgt'[q] = tgt[q] /\ out'[q] = out[q]
  /\ pc'[q] \in {"idle", "read", "acquire"} =>
       pc[q] \in {"idle", "read", "acquire"} /\ wrote'[q] = wrote[q]
  /\ pc'[q] \in {"write", "undo"} =>
       pc[q] # "idle" /\ (pc[q] \in {"write", "undo"} \/ req[q].op = "result")
  /\ \/ wrote'[q] \subseteq wrote[q]
     \/ WriteDecision(q) /\ wrote'[q] = wrote[q] \cup {NextWrite(q)}
  /\ \/ seen'[q] = seen[q]
     \/ seen'[q] = turn /\ pc[q] = "read" /\ wrote'[q] = wrote[q] /\ UNCHANGED dbVars
  /\ autoRan'[q] = autoRan[q] \/ Resolving(q)

\* A handler moves its own request only.
LEMMA OthersStay ==
  ASSUME TypeOK, NEW r \in Req, NEW q \in Req, q # r, Handler(r)
  PROVE  pc'[q] = pc[q] /\ req'[q] = req[q] /\ LocalsStay(q)
<1> USE DEF TypeOK, Goto, Return, Finish, reqVars, LocalsStay
<1>2. CASE \/ Refuse(r) \/ AcquireStream(r) \/ ReadCall(r) \/ ReadResult(r) \/ Claim(r)
           \/ LoseClaim(r)
  BY <1>2 DEF Refuse, AcquireStream, ReadCall, ReadResult, Claim, LoseClaim
<1>3. ASSUME NEW t \in Tool,
             \/ AnswerQuestion(r, t) \/ RunAccepted(r, t) \/ SkipQuestion(r, t)
             \/ RunAuto(r, t) \/ RejectCall(r, t)
      PROVE  pc'[q] = pc[q] /\ req'[q] = req[q] /\ LocalsStay(q)
  BY <1>3 DEF AnswerQuestion, RunAccepted, SkipQuestion, RunAuto, RejectCall, Resolve
<1>4. CASE \/ Record(r) \/ InsertResults(r) \/ WriteDecision(r) \/ UndoDecision(r)
           \/ DecisionWritten(r)
  BY <1>4 DEF Record, InsertResults, WriteDecision, UndoDecision, DecisionWritten
<1>5. CASE \/ Scrub(r) \/ FollowUp(r) \/ FailFollowUp(r) \/ LookupAnchor(r)
           \/ DemoteAnchor(r) \/ CreateAnchor(r) \/ FinishStream(r)
  BY <1>5 DEF Scrub, FollowUp, FailFollowUp, LookupAnchor, DemoteAnchor, CreateAnchor,
              FinishStream
<1> QED
  BY <1>2, <1>3, <1>4, <1>5 DEF Handler, CallHandler, ResultHandler, Stream

\* A request that goes nowhere knows what it knew.
LEMMA StayMoves ==
  ASSUME NEW q \in Req, pc'[q] \in {pc[q], "done"}, req'[q] = req[q] \/ pc'[q] = "done",
         LocalsStay(q), pc[q] = "idle" => req[q].op = "none",
         pc[q] \in {"write", "undo"} => req[q].op = "result"
  PROVE  LocalMoves(q)
  BY DEF LocalMoves, LocalsStay, BeforeClaim

\* A handler's own request, action by action.
LEMMA ReadMoves ==
  ASSUME TypeOK, ApprovalInv, NEW r \in Req,
         Refuse(r) \/ AcquireStream(r) \/ ReadCall(r) \/ ReadResult(r)
  PROVE  LocalMoves(r)
<1> USE DEF TypeOK, Goto, reqVars, dbVars, LocalMoves, BeforeClaim
<1>1. CASE Refuse(r)
  BY <1>1 DEF Refuse
<1>2. CASE AcquireStream(r)
  <2>1. /\ pc[r] = "acquire" /\ UNCHANGED <<dbVars, reqVars>>
        /\ pc'[r] \in {"claim", "write", "scrub", "done"}
        /\ pc'[r] = "claim" => req[r].op = "call"
        /\ pc'[r] = "write" => req[r].op = "result"
    BY <1>2 DEF AcquireStream
  <2> QED BY <2>1
<1>3. CASE ReadCall(r)
  <2>1. Min(Anchors(turn)) \in Anchors(turn)
    BY <1>3, MinIsTurn, AnchorsAreTurns DEF ReadCall
  <2>2. /\ pc[r] = "read" /\ UNCHANGED <<dbVars, req, out, autoRan, wrote>>
        /\ seen'[r] = turn /\ tgt'[r] = Min(Anchors(turn)) /\ pc'[r] = "acquire"
    BY <1>3 DEF ReadCall
  <2>3. turn[tgt'[r]].role = "assistant"
    BY <2>1, <2>2 DEF Anchors
  <2> QED BY <2>2, <2>3
<1>4. CASE ReadResult(r)
  <2>1. /\ pc[r] = "read" /\ req[r].op = "result"
        /\ UNCHANGED <<dbVars, req, out, autoRan, wrote>>
        /\ seen'[r] = turn /\ pc'[r] \in {"acquire", "write"}
    BY <1>4 DEF ReadResult
  <2> QED BY <2>1
<1> QED BY <1>1, <1>2, <1>3, <1>4

LEMMA CallMoves ==
  ASSUME TypeOK, ApprovalInv, NEW r \in Req, CallHandler(r)
  PROVE  LocalMoves(r)
<1> USE DEF TypeOK, Goto, Return, Finish, reqVars, dbVars, LocalMoves, BeforeClaim
<1>1. CASE ReadCall(r)
  BY <1>1, ReadMoves
<1>2. CASE Claim(r)
  BY <1>2 DEF Claim
<1>3. CASE LoseClaim(r)
  BY <1>3 DEF LoseClaim
<1>4. CASE Resolving(r)
  <2>1. /\ pc[r] = "execute" /\ pc' = pc /\ UNCHANGED <<req, seen, tgt, wrote>>
    BY <1>4 DEF Resolving, AnswerQuestion, RunAccepted, SkipQuestion, RunAuto, RejectCall,
                Resolve
  <2> QED BY <1>4, <2>1
<1>5. CASE Record(r)
  BY <1>5 DEF Record
<1>6. CASE InsertResults(r)
  BY <1>6 DEF InsertResults
<1> QED BY <1>1, <1>2, <1>3, <1>4, <1>5, <1>6 DEF CallHandler, Resolving

LEMMA ResultMoves ==
  ASSUME TypeOK, ApprovalInv, RequestsWriteOwnRows, NEW r \in Req, ResultHandler(r)
  PROVE  LocalMoves(r)
<1> USE DEF TypeOK, Goto, Return, Finish, reqVars, dbVars, LocalMoves, BeforeClaim
<1>1. CASE ReadResult(r)
  BY <1>1, ReadMoves
<1>2. CASE WriteDecision(r)
  <2>1. /\ pc[r] = "write" /\ pc'[r] \in {"write", "undo", "done"}
        /\ UNCHANGED <<req, seen, tgt, out, autoRan>>
        /\ wrote'[r] = wrote[r] \/ wrote'[r] = wrote[r] \cup {NextWrite(r)}
    BY <1>2 DEF WriteDecision
  <2> QED BY <1>2, <2>1
<1>3. CASE UndoDecision(r)
  BY <1>3 DEF UndoDecision
<1>4. CASE DecisionWritten(r)
  BY <1>4 DEF DecisionWritten
<1> QED BY <1>1, <1>2, <1>3, <1>4 DEF ResultHandler

LEMMA StreamMoves ==
  ASSUME TypeOK, ApprovalInv, NEW r \in Req, Scrub(r) \/ Stream(r)
  PROVE  LocalMoves(r)
<1>1. /\ pc'[r] \in {"lookup", "demote", "anchor", "finish", "done"}
      /\ UNCHANGED <<req, seen, out, autoRan, wrote>>
  <2> USE DEF TypeOK, Goto, Return, Finish, reqVars
  <2>1. CASE Scrub(r) \/ FollowUp(r) \/ FailFollowUp(r)
    BY <2>1 DEF Scrub, FollowUp, FailFollowUp
  <2>2. CASE LookupAnchor(r)
    BY <2>2 DEF LookupAnchor
  <2>3. CASE DemoteAnchor(r) \/ CreateAnchor(r) \/ FinishStream(r)
    BY <2>3 DEF DemoteAnchor, CreateAnchor, FinishStream
  <2> QED BY <2>1, <2>2, <2>3 DEF Stream
<1> QED BY <1>1 DEF LocalMoves, BeforeClaim

LEMMA StepLocals ==
  ASSUME TypeOK, ApprovalInv, RequestsWriteOwnRows, [Next]_vars, NEW q \in Req
  PROVE  LocalMoves(q)
<1>0. /\ pc[q] = "idle" => req[q].op = "none"
      /\ pc[q] \in {"write", "undo"} => req[q].op = "result"
  BY DEF ApprovalInv, ExecutorsDecideCalls, RequestsWriteOwnRows
<1>1. ASSUME NEW r \in Req, NEW n \in Node,
             (\E op \in {"call", "result"} : Click(r, n, op)) \/ ClickRegenerate(r, n)
      PROVE  LocalMoves(q)
  <2>1. LocalsStay(q)
    BY <1>1 DEF Click, ClickRegenerate, LocalsStay
  <2>2. \/ pc'[q] = pc[q] /\ req'[q] = req[q]
        \/ pc[q] = "idle" /\ pc'[q] = "read"
        \/ pc[q] = "idle" /\ pc'[q] = "acquire" /\ req'[q].op = "regenerate"
    BY <1>1 DEF Click, ClickRegenerate, Goto, TypeOK
  <2>3. CASE pc'[q] = pc[q] /\ req'[q] = req[q]
    BY <2>1, <2>3, <1>0, StayMoves
  <2>4. CASE pc[q] = "idle" /\ pc'[q] = "read"
    BY <2>1, <2>4 DEF LocalMoves, LocalsStay, BeforeClaim
  <2>5. CASE pc[q] = "idle" /\ pc'[q] = "acquire" /\ req'[q].op = "regenerate"
    BY <2>1, <2>5 DEF LocalMoves, LocalsStay, BeforeClaim
  <2> QED BY <2>2, <2>3, <2>4, <2>5
<1>2. ASSUME NEW r \in Req, Handler(r) PROVE LocalMoves(q)
  <2>1. CASE r = q
    BY <1>2, <2>1, ReadMoves, CallMoves, ResultMoves, StreamMoves DEF Handler
  <2>2. CASE r # q
    BY <1>0, <1>2, <2>2, OthersStay, StayMoves
  <2> QED BY <2>1, <2>2
<1>3. ASSUME NEW n \in Node, Crash(n) PROVE LocalMoves(q)
  <2>1. LocalsStay(q) /\ pc'[q] \in {pc[q], "done"} /\ req'[q] = req[q]
    BY <1>3 DEF Crash, reqVars, LocalsStay, TypeOK
  <2> QED BY <2>1, <1>0, StayMoves
<1>4. CASE UNCHANGED vars
  <2>1. LocalsStay(q) /\ pc'[q] = pc[q] /\ req'[q] = req[q]
    BY <1>4 DEF vars, reqVars, LocalsStay
  <2> QED BY <2>1, <1>0, StayMoves
<1> QED BY <1>1, <1>2, <1>3, <1>4 DEF Next, Quiet

\* The executor resolves call t to status st.
ResolvesCall(r, t, st, sh) ==
  /\ pc[r] = "execute" /\ out[r][t].st \in Open
  /\ out'[r] = [out[r] EXCEPT ![t] = [st |-> st, shared |-> sh, decided |-> FALSE]]
  /\ UNCHANGED <<pc, seen, tgt, req, claimedBy, disclosed>>
  /\ \A q \in Req : q # r => out'[q] = out[q] /\ autoRan'[q] = autoRan[q]
  /\ runs' = runs \/ (Ran(r, t) /\ st # "rejected")
  /\ autoRan'[r] \subseteq autoRan[r] \cup AutoTool

LEMMA ResolvedCall ==
  ASSUME TypeOK, NEW r \in Req, Resolving(r)
  PROVE  \E t \in Tool, st \in Resolved \cup {"rejected"}, sh \in BOOLEAN :
           ResolvesCall(r, t, st, sh)
<1>1. PICK t \in Tool : \/ AnswerQuestion(r, t) \/ RunAccepted(r, t) \/ SkipQuestion(r, t)
                        \/ RunAuto(r, t) \/ RejectCall(r, t)
  BY DEF Resolving
<1>2. out[r][t].shared \in BOOLEAN
  BY DEF TypeOK, Block
<1>3. ASSUME NEW st, NEW sh, Resolve(r, t, st, sh),
             runs' = runs \/ (Ran(r, t) /\ st # "rejected"),
             UNCHANGED autoRan \/
               (t \in AutoTool /\ autoRan' = [autoRan EXCEPT ![r] = @ \cup {t}])
      PROVE  ResolvesCall(r, t, st, sh)
  BY <1>3 DEF Resolve, ResolvesCall, TypeOK
<1>4. CASE AnswerQuestion(r, t)
  <2>1. Resolve(r, t, "success", TRUE) /\ UNCHANGED <<autoRan, runs>>
    BY <1>4 DEF AnswerQuestion
  <2>2. ResolvesCall(r, t, "success", TRUE)
    BY <1>3, <2>1
  <2> QED BY <2>2 DEF Resolved
<1>5. CASE RunAccepted(r, t)
  <2>1. PICK st \in {"success", "error"} : Resolve(r, t, st, out[r][t].shared)
    BY <1>5 DEF RunAccepted
  <2>2. Ran(r, t) /\ UNCHANGED autoRan /\ st # "rejected" /\ st \in Resolved
    BY <1>5 DEF RunAccepted, Resolved
  <2>3. ResolvesCall(r, t, st, out[r][t].shared)
    BY <1>3, <2>1, <2>2
  <2> QED BY <1>2, <2>2, <2>3
<1>6. CASE SkipQuestion(r, t)
  <2>1. Resolve(r, t, "rejected", TRUE) /\ UNCHANGED <<autoRan, runs>>
    BY <1>6 DEF SkipQuestion
  <2>2. ResolvesCall(r, t, "rejected", TRUE)
    BY <1>3, <2>1
  <2> QED BY <2>2
<1>7. CASE RunAuto(r, t)
  <2>1. PICK st \in {"auto_approved", "error"} : Resolve(r, t, st, TRUE)
    BY <1>7 DEF RunAuto
  <2>2. /\ Ran(r, t) /\ st # "rejected" /\ st \in Resolved /\ t \in AutoTool
        /\ autoRan' = [autoRan EXCEPT ![r] = @ \cup {t}]
    BY <1>7 DEF RunAuto, Resolved
  <2>3. ResolvesCall(r, t, st, TRUE)
    BY <1>3, <2>1, <2>2
  <2> QED BY <2>2, <2>3
<1>8. CASE RejectCall(r, t)
  <2>1. Resolve(r, t, "rejected", out[r][t].shared) /\ UNCHANGED <<autoRan, runs>>
    BY <1>8 DEF RejectCall
  <2>2. ResolvesCall(r, t, "rejected", out[r][t].shared)
    BY <1>3, <2>1
  <2> QED BY <1>2, <2>2
<1> QED BY <1>1, <1>4, <1>5, <1>6, <1>7, <1>8

LEMMA OutFollowsStep ==
  ASSUME TypeOK, ApprovalInv, RequestsWriteOwnRows, OutFollowsSeen, [Next]_vars
  PROVE  OutFollowsSeen'
<1> SUFFICES ASSUME NEW q \in Req, NEW t \in Tool, pc'[q] = "execute"
             PROVE  \/ out'[q][t].st = seen'[q][tgt'[q]].blocks[t].st
                    \/ /\ seen'[q][tgt'[q]].blocks[t].st \in Open
                       /\ out'[q][t].st \in Resolved \cup {"rejected"}
  BY DEF OutFollowsSeen
<1>1. CASE Claim(q)
  BY <1>1 DEF Claim, TypeOK
<1>2. CASE Resolving(q)
  <2>0. PICK u \in Tool, st \in Resolved \cup {"rejected"}, sh \in BOOLEAN :
          ResolvesCall(q, u, st, sh)
    BY <1>2, ResolvedCall
  <2>1. /\ pc[q] = "execute" /\ out[q][u].st \in Open
        /\ out'[q] = [out[q] EXCEPT ![u] = [st |-> st, shared |-> sh, decided |-> FALSE]]
        /\ UNCHANGED <<pc, seen, tgt>>
    BY <2>0 DEF ResolvesCall
  <2>2. u # t => out'[q][t] = out[q][t]
    BY <2>1 DEF TypeOK
  <2>3. u = t => out'[q][t].st = st
    BY <2>1 DEF TypeOK
  <2>4. Open \cap (Resolved \cup {"rejected"}) = {}
    BY DEF Open, Resolved
  <2> QED BY <2>1, <2>2, <2>3, <2>4 DEF OutFollowsSeen
<1>3. CASE pc[q] = "execute" /\ LocalsStay(q)
  BY <1>3 DEF OutFollowsSeen, LocalsStay
<1> QED BY <1>1, <1>2, <1>3, StepLocals DEF LocalMoves

LEMMA OwnRowsStep ==
  ASSUME TypeOK, ApprovalInv, RequestsWriteOwnRows, [Next]_vars
  PROVE  RequestsWriteOwnRows'
<1> SUFFICES ASSUME NEW q \in Req
             PROVE  /\ BeforeClaim(q)' \/ pc'[q] = "execute" =>
                         seen'[q][tgt'[q]].role = "assistant"
                    /\ pc'[q] \in {"idle", "read", "acquire"} => wrote'[q] = {}
                    /\ \A j \in wrote'[q] : seen'[q][j].role # "none"
                    /\ pc'[q] \in {"write", "undo"} => req'[q].op = "result"
  BY DEF RequestsWriteOwnRows
<1>0. LocalMoves(q)
  BY StepLocals
<1>1. BeforeClaim(q)' \/ pc'[q] = "execute" => seen'[q][tgt'[q]].role = "assistant"
  <2>1. Claim(q) => seen'[q] = seen[q] /\ tgt'[q] = tgt[q] /\ BeforeClaim(q)
    BY DEF Claim, BeforeClaim
  <2>2. Resolving(q) => seen'[q] = seen[q] /\ tgt'[q] = tgt[q] /\ pc[q] = "execute"
    BY ResolvedCall DEF ResolvesCall
  <2> QED BY <1>0, <2>1, <2>2 DEF LocalMoves, LocalsStay, RequestsWriteOwnRows
<1>2. pc'[q] \in {"idle", "read", "acquire"} => wrote'[q] = {}
  BY <1>0 DEF LocalMoves, RequestsWriteOwnRows
<1>3. \A j \in wrote'[q] : seen'[q][j].role # "none"
  <2>1. CASE pc[q] = "read" /\ wrote'[q] = wrote[q]
    BY <2>1 DEF RequestsWriteOwnRows
  <2>2. CASE seen'[q] = seen[q]
    <3>1. WriteDecision(q) => seen[q][NextWrite(q)].role # "none"
      BY NextWriteIsRow
    <3> QED BY <1>0, <2>2, <3>1 DEF LocalMoves, RequestsWriteOwnRows
  <2> QED BY <1>0, <2>1, <2>2 DEF LocalMoves
<1>4. pc'[q] \in {"write", "undo"} => req'[q].op = "result"
  BY <1>0, ClicksStay DEF LocalMoves, RequestsWriteOwnRows
<1> QED BY <1>1, <1>2, <1>3, <1>4

-----------------------------------------------------------------------------
(* The rows and the executions *)

\* A row keeps its role and its batch; a new one has a new id.
LEMMA RowMoves ==
  ASSUME TypeOK, ApprovalInv, RequestsWriteOwnRows, OutFollowsSeen, [Next]_vars,
         NEW j \in TurnId, turn'[j].role # "none"
  PROVE  /\ nextTurn <= nextTurn'
         /\ \/ /\ turn[j].role # "none"
               /\ turn'[j].role = turn[j].role /\ turn'[j].owner = turn[j].owner
            \/ turn[j].role = "none" /\ j = nextTurn /\ j < nextTurn'
<1>0. nextTurn \in Nat /\ turn \in [TurnId -> Turn]
  BY DEF TypeOK
<1>1. CASE UNCHANGED dbVars
  BY <1>0, <1>1 DEF dbVars
<1>2. ASSUME NEW r \in Req, Rewrites(r)
      PROVE  /\ nextTurn' = nextTurn
             /\ turn'[j].role = turn[j].role /\ turn'[j].owner = turn[j].owner
  BY <1>0, <1>2 DEF Rewrites, Turn
<1>3. ASSUME NEW row, Inserts(row)
      PROVE  /\ nextTurn' = nextTurn + 1
             /\ turn'[j] = turn[j] \/ (j = nextTurn /\ turn[j].role = "none")
  <2>1. turn[nextTurn].role = "none"
    BY <1>0, <1>3 DEF Inserts, ApprovalInv, TurnsAreOld
  <2> QED BY <1>0, <1>3, <2>1 DEF Inserts
<1>4. CASE Removes
  BY <1>0, <1>4 DEF Removes, NoTurn
<1> QED BY <1>0, <1>1, <1>2, <1>3, <1>4, StepWrites

LEMMA ReadsAreOldStep ==
  ASSUME TypeOK, ApprovalInv, RequestsWriteOwnRows, OutFollowsSeen, ReadsAreOld, [Next]_vars
  PROVE  ReadsAreOld'
<1> SUFFICES ASSUME NEW q \in Req, NEW j \in TurnId, seen'[q][j].role # "none"
             PROVE  /\ j < nextTurn'
                    /\ turn'[j].role # "none" => /\ turn'[j].role = seen'[q][j].role
                                                 /\ turn'[j].owner = seen'[q][j].owner
  BY DEF ReadsAreOld
<1>0. nextTurn <= nextTurn' /\ nextTurn \in Nat /\ nextTurn' \in Nat /\ j \in Nat
  <2>1. nextTurn' = nextTurn \/ nextTurn' = nextTurn + 1
    BY StepWrites DEF dbVars, Rewrites, Inserts, Removes
  <2> QED BY <2>1 DEF TypeOK, TurnId
<1>1. CASE seen'[q] = turn /\ UNCHANGED dbVars
  BY <1>1 DEF ApprovalInv, TurnsAreOld, dbVars
<1>2. CASE seen'[q] = seen[q]
  <2>1. j < nextTurn
    BY <1>2 DEF ReadsAreOld
  <2> QED BY <1>0, <1>2, <2>1, RowMoves DEF ReadsAreOld
<1> QED BY <1>1, <1>2, StepLocals DEF LocalMoves

\* A claim takes a batch that nobody had claimed.
LEMMA ClaimTakes ==
  ASSUME TypeOK, ApprovalInv, NEW r \in Req, Claim(r)
  PROVE  /\ tgt[r] \in TurnId /\ claimedBy[tgt[r]] = NoReq
         /\ claimedBy' = [claimedBy EXCEPT ![tgt[r]] = r]
         /\ out'[r] = seen[r][tgt[r]].blocks
         /\ UNCHANGED <<tgt, seen, runs, autoRan, disclosed>>
         /\ pc'[r] = "execute"
<1>1. tgt[r] \in TurnId /\ Has(seen[r], tgt[r], {"pending"})
  BY DEF Claim, ApprovalInv, ClaimsPending, BeforeClaim
<1>2. claimedBy[tgt[r]] = NoReq
  BY <1>1 DEF Claim, CasSucceeds, ApprovalInv, ClaimIsFinal, Has
<1> QED BY <1>1, <1>2 DEF Claim, Goto, TypeOK

\* Claims and executions are made by claims and resolutions only.
LEMMA BatchMoves ==
  ASSUME [Next]_vars
  PROVE  \/ \E r \in Req : Claim(r)
         \/ \E r \in Req : Resolving(r)
         \/ UNCHANGED <<claimedBy, runs>>
  BY OthersAreInvisible DEF Resolving, Abs!vars

LEMMA ResolverStep ==
  ASSUME TypeOK, ApprovalInv, RequestsWriteOwnRows, ResolverKnowsRuns, [Next]_vars
  PROVE  ResolverKnowsRuns'
<1> DEFINE Knows(q) ==
      /\ tgt[q] \in TurnId
      /\ claimedBy[tgt[q]] = q
      /\ \A t \in Tool : out[q][t].st \in Open \cup {"rejected"} => runs[tgt[q]][t] = 0
<1>0. \A q \in Req : pc[q] \in {"execute", "insert"} => Knows(q)
  BY DEF ResolverKnowsRuns
<1> SUFFICES ASSUME NEW q \in Req
             PROVE  /\ autoRan'[q] \subseteq AutoTool
                    /\ pc'[q] \in {"execute", "insert"} => Knows(q)'
  BY DEF ResolverKnowsRuns
<1>1. LocalMoves(q)
  BY StepLocals
<1>2. autoRan'[q] \subseteq AutoTool
  <2>1. autoRan[q] \subseteq AutoTool
    BY DEF ResolverKnowsRuns
  <2>2. ASSUME Resolving(q) PROVE autoRan'[q] \subseteq autoRan[q] \cup AutoTool
    BY <2>2, ResolvedCall DEF ResolvesCall
  <2> QED BY <1>1, <2>1, <2>2 DEF LocalMoves
<1>3. \A r \in Req : r # NoReq
  BY ToolApprovalAssumption
<1>4. ASSUME NEW r \in Req, Claim(r), pc'[q] \in {"execute", "insert"} PROVE Knows(q)'
  <2>1. /\ tgt[r] \in TurnId /\ claimedBy[tgt[r]] = NoReq
        /\ claimedBy' = [claimedBy EXCEPT ![tgt[r]] = r]
        /\ UNCHANGED <<tgt, runs>>
    BY <1>4, ClaimTakes
  <2>2. CASE q = r
    <3>1. claimedBy'[tgt[q]] = q
      BY <2>1, <2>2 DEF TypeOK
    <3>2. \A t \in Tool : runs[tgt[q]][t] = 0
      BY <2>1, <2>2 DEF ApprovalInv, OnlyClaimedRun
    <3> QED BY <2>1, <2>2, <3>1, <3>2
  <2>3. CASE q # r
    <3>1. pc'[q] = pc[q] /\ LocalsStay(q)
      BY <1>4, <2>3, OthersStay DEF Handler, CallHandler
    <3>2. Knows(q)
      BY <1>0, <1>4, <3>1
    <3>3. tgt[q] # tgt[r]
      BY <2>1, <3>2, ToolApprovalAssumption
    <3> QED BY <2>1, <3>1, <3>2, <3>3 DEF LocalsStay, TypeOK
  <2> QED BY <2>2, <2>3
<1>5. ASSUME NEW r \in Req, Resolving(r), pc'[q] \in {"execute", "insert"} PROVE Knows(q)'
  <2>0. PICK t \in Tool, st \in Resolved \cup {"rejected"}, sh \in BOOLEAN :
          ResolvesCall(r, t, st, sh)
    BY <1>5, ResolvedCall
  <2>1. /\ pc[r] = "execute" /\ out[r][t].st \in Open
        /\ out'[r] = [out[r] EXCEPT ![t] = [st |-> st, shared |-> sh, decided |-> FALSE]]
        /\ UNCHANGED <<pc, tgt, claimedBy>>
        /\ \A p \in Req : p # r => out'[p] = out[p]
        /\ runs' = runs \/ (Ran(r, t) /\ st # "rejected")
    BY <2>0 DEF ResolvesCall
  <2>2. Knows(r) /\ Knows(q)
    BY <1>0, <1>5, <2>1
  <2>3. \A i \in TurnId, u \in Tool : (i # tgt[r] \/ u # t) => runs'[i][u] = runs[i][u]
    BY <2>1, <2>2 DEF Ran, TypeOK
  <2>4. CASE q # r
    <3>1. tgt[q] # tgt[r]
      BY <2>2, <2>4
    <3> QED BY <2>1, <2>2, <2>3, <2>4, <3>1
  <2>5. CASE q = r
    <3>1. ASSUME NEW u \in Tool, out'[q][u].st \in Open \cup {"rejected"}
          PROVE  runs'[tgt[q]][u] = 0
      <4>1. CASE u # t
        <5>1. out'[q][u] = out[q][u]
          BY <2>1, <2>5, <4>1 DEF TypeOK
        <5> QED BY <2>2, <2>3, <3>1, <4>1, <5>1
      <4>2. CASE u = t
        <5>1. out'[q][u].st = st
          BY <2>1, <2>5, <4>2 DEF TypeOK
        <5>2. st = "rejected"
          BY <3>1, <5>1 DEF Open, Resolved
        <5>3. runs' = runs
          BY <2>1, <5>2
        <5> QED BY <2>1, <2>2, <2>5, <4>2, <5>3
      <4> QED BY <4>1, <4>2
    <3> QED BY <2>1, <2>2, <3>1
  <2> QED BY <2>4, <2>5
<1>6. ASSUME \A r \in Req : ~ Claim(r) /\ ~ Resolving(r), UNCHANGED <<claimedBy, runs>>,
             pc'[q] \in {"execute", "insert"}
      PROVE  Knows(q)'
  <2>1. pc[q] \in {"execute", "insert"} /\ tgt'[q] = tgt[q] /\ out'[q] = out[q]
    BY <1>1, <1>6 DEF LocalMoves, LocalsStay
  <2> QED BY <1>0, <1>6, <2>1
<1> QED BY <1>2, <1>4, <1>5, <1>6, BatchMoves

-----------------------------------------------------------------------------
(* What may be shared stays so *)

\* The executions of an answered batch are over.
LEMMA AnsweredRuns ==
  ASSUME TypeOK, ApprovalInv, AnsweredIsOver, [Next]_vars,
         NEW i \in 0..MaxTurns, Answered(i), NEW t \in Tool
  PROVE  runs'[i][t] = runs[i][t]
<1>1. i \in TurnId /\ \A r \in Req : pc[r] = "execute" => tgt[r] # i
  BY DEF AnsweredIsOver
<1>2. ASSUME NEW r \in Req, Resolving(r) PROVE runs'[i][t] = runs[i][t]
  <2>1. PICK u \in Tool, st \in Resolved \cup {"rejected"}, sh \in BOOLEAN :
          ResolvesCall(r, u, st, sh)
    BY <1>2, ResolvedCall
  <2> QED BY <1>1, <2>1 DEF ResolvesCall, Ran, TypeOK
<1> QED BY <1>2, BatchMoves, ClaimTakes

\* What may be shared of an answered batch may be shared for ever.
LEMMA ShareableStays ==
  ASSUME TypeOK, ApprovalInv, AnsweredIsOver, [Next]_vars,
         NEW i \in 0..MaxTurns, Answered(i), NEW t \in Tool, Shareable(i, t)
  PROVE  Shareable(i, t)'
<1>1. runs[i][t] = 0 => runs'[i][t] = 0
  BY AnsweredRuns
<1>2. \A r \in Req : req[r].op = "result" => req'[r] = req[r]
  BY ClicksStay DEF ApprovalInv, ExecutorsDecideCalls
<1> QED BY <1>1, <1>2 DEF Shareable

\* A result row is an old one, and shares what it or a reader's copy shared or
\* what its requester accepts; or it has just been inserted.
LEMMA ResultRowMoves ==
  ASSUME TypeOK, ApprovalInv, RequestsWriteOwnRows, OutFollowsSeen, ReadsAreOld, [Next]_vars,
         NEW j \in TurnId, turn'[j].role = "tool_result"
  PROVE  \/ /\ j \in ResultTurns(turn) /\ turn'[j].owner = turn[j].owner
            /\ \A t \in Tool : turn'[j].blocks[t].shared =>
                 \/ turn[j].blocks[t].shared
                 \/ \E r \in Req : /\ j \in ResultTurns(seen[r])
                                   /\ seen[r][j].owner = turn[j].owner
                                   /\ seen[r][j].blocks[t].shared
                 \/ \E r \in Req : /\ req[r].op = "result" /\ req[r].on = turn[j].owner
                                   /\ t \in req[r].accepted
         \/ \E r \in Req : InsertResults(r) /\ turn'[j] = ResultTurn(r)
<1>0. turn \in [TurnId -> Turn]
  BY DEF TypeOK
<1>1. CASE turn'[j] = turn[j]
  BY <1>1 DEF ResultTurns
<1>2. ASSUME NEW r \in Req, Rewrites(r), turn'[j] # turn[j]
      PROVE  /\ j \in ResultTurns(turn) /\ turn'[j].owner = turn[j].owner
             /\ j \in ResultTurns(seen[r]) /\ seen[r][j].owner = turn[j].owner
             /\ \A t \in Tool : turn'[j].blocks[t].shared =>
                  \/ seen[r][j].blocks[t].shared
                  \/ /\ req[r].op = "result" /\ req[r].on = turn[j].owner
                     /\ t \in req[r].accepted
  <2>1. PICK i \in TurnId, bs \in [Tool -> Block] :
          /\ turn[i].role # "none" /\ seen[r][i].role # "none"
          /\ turn' = [turn EXCEPT ![i].blocks = bs]
          /\ \/ seen[r][i].role = "assistant"
             \/ \A t \in Tool : bs[t].shared =>
                  \/ seen[r][i].blocks[t].shared
                  \/ req[r].op = "result" /\ t \in AcceptedOn(r, OwnerSeen(r, i))
    BY <1>2 DEF Rewrites
  <2>2. i = j
    BY <1>0, <1>2, <2>1
  <2>3. /\ turn'[j].role = turn[j].role /\ turn'[j].owner = turn[j].owner
        /\ turn'[j].blocks = bs
    BY <1>0, <2>1, <2>2 DEF Turn
  <2>4. seen[r][j].role = "tool_result" /\ seen[r][j].owner = turn[j].owner
    BY <2>1, <2>2, <2>3 DEF ReadsAreOld
  <2>5. OwnerSeen(r, j) = turn[j].owner
    BY <2>4 DEF OwnerSeen
  <2>6. \A t \in Tool : t \in AcceptedOn(r, turn[j].owner) =>
          req[r].on = turn[j].owner /\ t \in req[r].accepted
    BY DEF AcceptedOn
  <2> QED BY <2>1, <2>2, <2>3, <2>4, <2>5, <2>6 DEF ResultTurns
<1>3. ASSUME NEW row, Inserts(row), turn'[j] # turn[j]
      PROVE  turn'[j] = row
  BY <1>0, <1>3 DEF Inserts
<1>4. ASSUME NEW b, Inserts(AnchorTurn(b)), turn'[j] # turn[j]
      PROVE  FALSE
  BY <1>3, <1>4 DEF AnchorTurn
<1>5. CASE Removes
  BY <1>5 DEF Removes, NoTurn, ResultTurns
<1>6. CASE UNCHANGED dbVars
  BY <1>1, <1>6 DEF dbVars
<1> QED BY <1>1, <1>2, <1>3, <1>4, <1>5, <1>6, StepWrites

-----------------------------------------------------------------------------
(* Results, and what a follow-up discloses of them *)

\* A follow-up discloses results that are shared now.
LEMMA DiscloseMoves ==
  ASSUME TypeOK, [Next]_vars, NEW x \in disclosed'
  PROVE  \/ x \in disclosed
         \/ \E j \in ResultTurns(turn), t \in Tool :
              turn[j].blocks[t].shared /\ x = <<turn[j].owner, t>>
<1>1. ASSUME NEW r \in Req, FollowUp(r)
      PROVE  \/ x \in disclosed
             \/ \E j \in ResultTurns(turn), t \in Tool :
                  turn[j].blocks[t].shared /\ x = <<turn[j].owner, t>>
  <2>1. CASE x \notin disclosed
    <3>1. PICK y \in ResultTurns(turn) \X Tool :
            turn[y[1]].blocks[y[2]].shared /\ x = <<turn[y[1]].owner, y[2]>>
      BY <1>1, <2>1 DEF FollowUp
    <3>2. y[1] \in ResultTurns(turn) /\ y[2] \in Tool
      BY <3>1
    <3> QED BY <3>1, <3>2
  <2> QED BY <2>1
<1>2. ASSUME NEW r \in Req, Handler(r), ~ FollowUp(r) PROVE disclosed' = disclosed
  BY <1>2 DEF Handler, CallHandler, ResultHandler, Stream, Refuse, AcquireStream, ReadCall,
     Claim, LoseClaim, AnswerQuestion, RunAccepted, SkipQuestion, RunAuto, RejectCall, Resolve,
     Record, InsertResults, ReadResult, WriteDecision, UndoDecision, DecisionWritten,
     Scrub, FailFollowUp, LookupAnchor, DemoteAnchor, CreateAnchor, FinishStream, history
<1>3. (\A r \in Req : ~ Handler(r)) => disclosed' = disclosed
  BY DEF Next, Click, ClickRegenerate, Crash, Quiet, vars, history
<1> QED BY <1>1, <1>2, <1>3

\* Only the click that resolved a batch gives it results.
LEMMA AnsweredMoves ==
  ASSUME TypeOK, ApprovalInv, RequestsWriteOwnRows, OutFollowsSeen, ReadsAreOld, [Next]_vars,
         NEW i \in 0..MaxTurns, Answered(i)'
  PROVE  Answered(i) \/ \E r \in Req : InsertResults(r) /\ tgt[r] = i
<1>1. ASSUME NEW j \in ResultTurns(turn'), turn'[j].owner = i
      PROVE  Answered(i) \/ \E r \in Req : InsertResults(r) /\ tgt[r] = i
  <2>1. j \in TurnId /\ turn'[j].role = "tool_result"
    BY DEF ResultTurns
  <2>2. CASE j \in ResultTurns(turn) /\ turn'[j].owner = turn[j].owner
    BY <1>1, <2>2 DEF Answered
  <2>3. ASSUME NEW r \in Req, InsertResults(r), turn'[j] = ResultTurn(r)
        PROVE  tgt[r] = i
    BY <1>1, <2>3 DEF ResultTurn
  <2> QED BY <2>1, <2>2, <2>3, ResultRowMoves
<1>2. ASSUME NEW r \in Req, NEW j \in ResultTurns(seen'[r]), seen'[r][j].owner = i
      PROVE  Answered(i)
  <2>1. seen'[r] = seen[r] \/ seen'[r] = turn
    BY StepLocals DEF LocalMoves
  <2> QED BY <1>2, <2>1 DEF Answered
<1>3. ASSUME NEW x \in disclosed', x[1] = i PROVE Answered(i)
  <2>1. CASE x \in disclosed
    BY <1>3, <2>1 DEF Answered
  <2>2. CASE \E j \in ResultTurns(turn), t \in Tool : x = <<turn[j].owner, t>>
    BY <1>3, <2>2 DEF Answered
  <2> QED BY <2>1, <2>2, DiscloseMoves
<1> QED BY <1>1, <1>2, <1>3 DEF Answered, ResultTurns

\* Once a batch has results nobody executes it, or gives it more.
LEMMA AnsweredStep ==
  ASSUME TypeOK, ApprovalInv, RequestsWriteOwnRows, OutFollowsSeen, ReadsAreOld,
         ResolverKnowsRuns, AnsweredIsOver, [Next]_vars
  PROVE  AnsweredIsOver'
<1> SUFFICES ASSUME NEW i \in 0..MaxTurns, Answered(i)'
             PROVE  /\ i \in TurnId /\ claimedBy'[i] # NoReq
                    /\ \A q \in Req : pc'[q] \in {"execute", "insert"} => tgt'[q] # i
  BY DEF AnsweredIsOver
<1>0. \A q \in Req : q # NoReq
  BY ToolApprovalAssumption
<1>1. CASE Answered(i)
  <2>1. /\ i \in TurnId /\ claimedBy[i] # NoReq
        /\ \A q \in Req : pc[q] \in {"execute", "insert"} => tgt[q] # i
    BY <1>1 DEF AnsweredIsOver
  <2>2. claimedBy'[i] # NoReq
    <3>1. ASSUME NEW r \in Req, Claim(r) PROVE claimedBy'[i] # NoReq
      <4>1. claimedBy' = [claimedBy EXCEPT ![tgt[r]] = r] /\ tgt[r] # i
        BY <2>1, <3>1, ClaimTakes
      <4> QED BY <2>1, <4>1 DEF TypeOK
    <3>2. ASSUME NEW r \in Req, Resolving(r) PROVE claimedBy'[i] # NoReq
      BY <2>1, <3>2, ResolvedCall DEF ResolvesCall
    <3> QED BY <2>1, <3>1, <3>2, BatchMoves
  <2>3. ASSUME NEW q \in Req, pc'[q] \in {"execute", "insert"} PROVE tgt'[q] # i
    <3>1. CASE Claim(q)
      BY <2>1, <3>1, ClaimTakes
    <3>2. CASE Resolving(q)
      BY <2>1, <3>2, ResolvedCall DEF ResolvesCall
    <3>3. CASE pc[q] = "execute" /\ LocalsStay(q)
      BY <2>1, <3>3 DEF LocalsStay
    <3>4. CASE pc[q] \in {"execute", "insert"} /\ tgt'[q] = tgt[q]
      BY <2>1, <3>4
    <3> QED BY <2>3, <3>1, <3>2, <3>3, <3>4, StepLocals DEF LocalMoves
  <2> QED BY <2>1, <2>2, <2>3
<1>2. ASSUME NEW r \in Req, InsertResults(r), tgt[r] = i
      PROVE  /\ i \in TurnId /\ claimedBy'[i] # NoReq
             /\ \A q \in Req : pc'[q] \in {"execute", "insert"} => tgt'[q] # i
  <2>1. pc[r] = "insert" /\ claimedBy' = claimedBy /\ pc'[r] \notin {"execute", "insert"}
    BY <1>2 DEF InsertResults, Return, Goto, TypeOK, history
  <2>2. i \in TurnId /\ claimedBy[i] = r
    BY <1>2, <2>1 DEF ResolverKnowsRuns
  <2>3. ASSUME NEW q \in Req, pc'[q] \in {"execute", "insert"} PROVE tgt'[q] # i
    <3>1. q # r
      BY <2>1, <2>3
    <3>2. pc[q] \in {"execute", "insert"} /\ tgt'[q] = tgt[q]
      BY <1>2, <2>3, <3>1, OthersStay DEF Handler, CallHandler, LocalsStay
    <3>3. claimedBy[tgt[q]] = q
      BY <3>2 DEF ResolverKnowsRuns
    <3> QED BY <2>2, <3>1, <3>2, <3>3
  <2> QED BY <1>0, <2>1, <2>2, <2>3
<1> QED BY <1>1, <1>2, AnsweredMoves

\* Call t of batch i may be shared after the step.
SharedNext(i, t) ==
  \/ IsDM \/ t \in AskTool \cup AutoTool \/ runs'[i][t] = 0
  \/ \E r \in Req : req'[r].op = "result" /\ req'[r].on = i /\ t \in req'[r].accepted

LEMMA SharedStays ==
  ASSUME TypeOK, ApprovalInv, AnsweredIsOver, [Next]_vars,
         NEW i, i \in 0..MaxTurns, Answered(i), NEW t \in Tool, Shareable(i, t)
  PROVE  SharedNext(i, t)
<1>1. \A k \in 0..MaxTurns : Answered(k) /\ Shareable(k, t) => SharedNext(k, t)
  BY ShareableStays DEF Shareable, SharedNext
<1> QED BY <1>1

\* Results are inserted shared only when no share decision is left for them.
LEMMA InsertedIsShareable ==
  ASSUME TypeOK, ResolverKnowsRuns, NEW r \in Req, InsertResults(r),
         NEW t \in Tool, ResultTurn(r).blocks[t].shared
  PROVE  SharedNext(tgt[r], t)
<1>1. pc[r] = "insert" /\ runs' = runs
  BY DEF InsertResults, history
<1>2. Terminal(r, t)
  BY DEF ResultTurn, NoBlock
<1>3. autoRan[r] \subseteq AutoTool /\ (out[r][t].st = "rejected" => runs[tgt[r]][t] = 0)
  BY <1>1 DEF ResolverKnowsRuns
<1> QED BY <1>1, <1>2, <1>3 DEF SharedNext, Terminal

\* Every row shares only what may be shared.
LEMMA RowsShare ==
  ASSUME TypeOK, ApprovalInv, RequestsWriteOwnRows, OutFollowsSeen, ReadsAreOld,
         ResolverKnowsRuns, AnsweredIsOver, SharesAreAllowed, [Next]_vars,
         NEW j \in ResultTurns(turn'), NEW t \in Tool, turn'[j].blocks[t].shared
  PROVE  SharedNext(turn'[j].owner, t)
<1>1. j \in TurnId /\ turn'[j].role = "tool_result"
  BY DEF ResultTurns
<1>2. ASSUME j \in ResultTurns(turn), turn'[j].owner = turn[j].owner,
             \/ turn[j].blocks[t].shared
             \/ \E r \in Req : /\ j \in ResultTurns(seen[r])
                               /\ seen[r][j].owner = turn[j].owner
                               /\ seen[r][j].blocks[t].shared
             \/ \E r \in Req : /\ req[r].op = "result" /\ req[r].on = turn[j].owner
                               /\ t \in req[r].accepted
      PROVE  SharedNext(turn'[j].owner, t)
  <2> DEFINE i == turn[j].owner
  <2>1. i \in 0..MaxTurns
    BY <1>1 DEF TypeOK, Turn
  <2>2. Answered(i)
    BY <1>2 DEF Answered
  <2>3. Shareable(i, t)
    <3>1. CASE turn[j].blocks[t].shared
      BY <1>2, <3>1 DEF SharesAreAllowed, SharedIsShareable
    <3>2. ASSUME NEW r \in Req, j \in ResultTurns(seen[r]), seen[r][j].owner = i,
                 seen[r][j].blocks[t].shared
          PROVE  Shareable(i, t)
      BY <3>2 DEF SharesAreAllowed, SharedIsShareable
    <3>3. CASE \E r \in Req : /\ req[r].op = "result" /\ req[r].on = i
                              /\ t \in req[r].accepted
      BY <3>3 DEF Shareable
    <3> QED BY <1>2, <3>1, <3>2, <3>3
  <2> QED BY <1>2, <2>1, <2>2, <2>3, SharedStays
<1>3. ASSUME NEW r \in Req, InsertResults(r), turn'[j] = ResultTurn(r)
      PROVE  SharedNext(turn'[j].owner, t)
  BY <1>3, InsertedIsShareable DEF ResultTurn
<1> QED BY <1>1, <1>2, <1>3, ResultRowMoves

\* Every copy of a row that a request read does too.
LEMMA ViewsShare ==
  ASSUME TypeOK, ApprovalInv, RequestsWriteOwnRows, AnsweredIsOver, SharesAreAllowed,
         [Next]_vars, NEW q \in Req, NEW j \in ResultTurns(seen'[q]), NEW t \in Tool,
         seen'[q][j].blocks[t].shared
  PROVE  SharedNext(seen'[q][j].owner, t)
<1>1. j \in TurnId
  BY DEF ResultTurns
<1>2. CASE seen'[q] = seen[q]
  <2>1. Answered(seen[q][j].owner) /\ Shareable(seen[q][j].owner, t)
    BY <1>2 DEF Answered, SharesAreAllowed, SharedIsShareable
  <2>2. seen[q][j].owner \in 0..MaxTurns
    BY <1>1 DEF TypeOK, Turn
  <2> QED BY <1>2, <2>1, <2>2, SharedStays
<1>3. CASE seen'[q] = turn
  <2>1. Answered(turn[j].owner) /\ Shareable(turn[j].owner, t)
    BY <1>3 DEF Answered, SharesAreAllowed, SharedIsShareable
  <2>2. turn[j].owner \in 0..MaxTurns
    BY <1>1 DEF TypeOK, Turn
  <2> QED BY <1>3, <2>1, <2>2, SharedStays
<1> QED BY <1>2, <1>3, StepLocals DEF LocalMoves

LEMMA SharesStep ==
  ASSUME TypeOK, ApprovalInv, RequestsWriteOwnRows, OutFollowsSeen, ReadsAreOld,
         ResolverKnowsRuns, AnsweredIsOver, SharesAreAllowed, [Next]_vars
  PROVE  SharesAreAllowed'
<1>1. SharedIsShareable(turn)'
  <2>1. \A j \in ResultTurns(turn'), t \in Tool :
          turn'[j].blocks[t].shared => SharedNext(turn'[j].owner, t)
    BY RowsShare
  <2> QED BY <2>1 DEF SharedIsShareable, Shareable, SharedNext, ResultTurns
<1>2. ASSUME NEW q \in Req PROVE SharedIsShareable(seen[q])'
  <2>1. \A j \in ResultTurns(seen'[q]), t \in Tool :
          seen'[q][j].blocks[t].shared => SharedNext(seen'[q][j].owner, t)
    BY ViewsShare
  <2> QED BY <2>1 DEF SharedIsShareable, Shareable, SharedNext, ResultTurns
<1> QED BY <1>1, <1>2 DEF SharesAreAllowed

\* What has been disclosed, or is being disclosed now, may be shared.
LEMMA PrivateStep ==
  ASSUME TypeOK, ApprovalInv, AnsweredIsOver, SharesAreAllowed, PrivateStaysPrivate,
         [Next]_vars
  PROVE  PrivateStaysPrivate'
<1> SUFFICES ASSUME NEW x \in disclosed' PROVE SharedNext(x[1], x[2])
  BY DEF PrivateStaysPrivate, SharedNext
<1>1. CASE x \in disclosed
  <2>1. x[1] \in 0..MaxTurns /\ x[2] \in Tool
    BY <1>1 DEF TypeOK
  <2>2. Answered(x[1]) /\ Shareable(x[1], x[2])
    BY <1>1 DEF Answered, PrivateStaysPrivate, Shareable
  <2> QED BY <2>1, <2>2, SharedStays
<1>2. ASSUME NEW j \in ResultTurns(turn), NEW t \in Tool,
             turn[j].blocks[t].shared, x = <<turn[j].owner, t>>
      PROVE  SharedNext(x[1], x[2])
  <2>1. turn[j].owner \in 0..MaxTurns
    BY DEF TypeOK, Turn, ResultTurns
  <2>2. Answered(turn[j].owner) /\ Shareable(turn[j].owner, t)
    BY <1>2 DEF Answered, SharesAreAllowed, SharedIsShareable
  <2>3. SharedNext(turn[j].owner, t)
    BY <2>1, <2>2, SharedStays
  <2> QED BY <1>2, <2>3
<1> QED BY <1>1, <1>2, DiscloseMoves

-----------------------------------------------------------------------------
(* The theorems *)

LEMMA ShareInit == Init => ShareInv
<1> SUFFICES ASSUME Init PROVE ShareInv
  OBVIOUS
<1>1. /\ \A r \in Req : pc[r] = "idle" /\ wrote[r] = {} /\ autoRan[r] = {}
      /\ \A r \in Req : seen[r] = [i \in TurnId |-> NoTurn]
      /\ disclosed = {}
  BY DEF Init
<1>2. \A r \in Req, j \in TurnId : seen[r][j].role = "none"
  BY <1>1 DEF NoTurn
<1>3. ResultTurns(turn) = {} /\ \A r \in Req : ResultTurns(seen[r]) = {}
  <2>1. \A j \in TurnId : turn[j].role # "tool_result"
    BY DEF Init, AnchorTurn, NoTurn
  <2> QED BY <1>2, <2>1 DEF ResultTurns
<1>4. \A i : ~ Answered(i)
  BY <1>1, <1>3 DEF Answered
<1>5. OutFollowsSeen /\ ReadsAreOld /\ RequestsWriteOwnRows /\ ResolverKnowsRuns
  BY <1>1, <1>2 DEF OutFollowsSeen, ReadsAreOld, RequestsWriteOwnRows, ResolverKnowsRuns,
                    BeforeClaim
<1>6. AnsweredIsOver /\ SharesAreAllowed /\ PrivateStaysPrivate
  BY <1>1, <1>3, <1>4 DEF AnsweredIsOver, SharesAreAllowed, SharedIsShareable,
                          PrivateStaysPrivate
<1> QED BY <1>5, <1>6 DEF ShareInv

\* ShareInv is inductive on the invariant of ToolApprovalProofs.
THEOREM ShareInvariance == Spec => [](TypeOK /\ ApprovalInv /\ ShareInv)
<1>1. TypeOK /\ ApprovalInv /\ ShareInv /\ [Next]_vars => ShareInv'
  BY OutFollowsStep, ReadsAreOldStep, OwnRowsStep, ResolverStep, AnsweredStep, SharesStep,
     PrivateStep DEF ShareInv
<1> QED BY <1>1, ShareInit, Invariance, PTL DEF Spec

\* The status of a call only moves forward from pending to accepted to resolved,
\* whatever share decisions, undone or stale, other clicks write into its row.
THEOREM StatusesMoveForward == Spec => StatusForward
<1> DEFINE Moves == \A i \in TurnId, t \in Tool :
       (turn[i].role # "none" /\ turn'[i].role # "none") =>
         \/ turn'[i].blocks[t].st = turn[i].blocks[t].st
         \/ Rank(turn[i].blocks[t].st) < Rank(turn'[i].blocks[t].st)
<1>1. TypeOK /\ ApprovalInv /\ ShareInv /\ [Next]_vars => [Moves]_turn
  BY StatusesMove DEF ShareInv, Forward
<1>2. StatusForward <=> [][Moves]_turn
  BY DEF StatusForward
<1> QED BY <1>1, <1>2, ShareInvariance, PTL DEF Spec

\* In a channel a tool output reaches a follow-up's model only if a requester
\* shared it, on any node, in any order of clicks, crashes and failed writes.
THEOREM ChannelStaysPrivate == Spec => []PrivateStaysPrivate
<1>1. ShareInv => PrivateStaysPrivate
  BY DEF ShareInv
<1> QED BY <1>1, ShareInvariance, PTL

=============================================================================
