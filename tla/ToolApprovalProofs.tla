------------------------- MODULE ToolApprovalProofs -------------------------
(***************************************************************************)
(* Machine-checked theorems about ToolApproval, for every set of nodes,    *)
(* clicks and calls and every choice of failures: type correctness, at     *)
(* most one execution per call, and the refinement of DecideOnce.          *)
(***************************************************************************)
EXTENDS ToolApproval, WellFoundedInduction, TLAPS

-----------------------------------------------------------------------------
(* The operators the protocol is built from *)

\* A set of natural numbers has a least element.
LEMMA LeastNat ==
  ASSUME NEW S \in SUBSET Nat, S # {}
  PROVE  \E x \in S : \A y \in S : x <= y
<1> DEFINE R == OpToRel(<, Nat)
<1>1. IsWellFoundedOn(R, Nat)
  BY NatLessThanWellFounded
<1>2. \A y, x \in Nat : y < x => <<y, x>> \in R
  BY DEF OpToRel
<1> HIDE DEF R
<1>3. PICK x \in S : \A y \in S : ~ (<<y, x>> \in R)
  BY <1>1, WFMin, Zenon
<1>4. ASSUME NEW y \in S PROVE x <= y
  <2>1. x \in Nat /\ y \in Nat
    OBVIOUS
  <2>2. ~ (y < x)
    BY <1>2, <1>3, <2>1
  <2> QED BY <2>1, <2>2
<1> QED BY <1>4

\* The oldest and the newest of some turns are among them.
LEMMA MinIsTurn ==
  ASSUME NEW S \in SUBSET TurnId, S # {}
  PROVE  Min(S) \in S
<1>1. S \in SUBSET Nat
  BY ToolApprovalAssumption DEF TurnId
<1>2. \E x \in S : \A y \in S : x <= y
  BY <1>1, LeastNat
<1> QED BY <1>2 DEF Min

LEMMA MaxIsTurn ==
  ASSUME NEW S \in SUBSET TurnId, S # {}
  PROVE  Max(S) \in S
<1> DEFINE gap == {MaxTurns - x : x \in S}
<1>1. PICK d \in gap : \A y \in gap : d <= y
  <2>1. \A x \in S : MaxTurns - x \in Nat
    BY ToolApprovalAssumption DEF TurnId
  <2>2. gap \in SUBSET Nat /\ gap # {}
    BY <2>1
  <2> QED BY <2>2, LeastNat
<1>2. PICK x \in S : d = MaxTurns - x
  BY <1>1
<1>3. \A y \in S : x >= y
  BY <1>1, <1>2, ToolApprovalAssumption DEF TurnId
<1> QED BY <1>3 DEF Max

LEMMA AnchorsAreTurns ==
  ASSUME NEW ts
  PROVE  /\ Anchors(ts) \in SUBSET TurnId
         /\ Anchors(ts) # {} => Min(Anchors(ts)) \in TurnId /\ Max(Anchors(ts)) \in TurnId
<1>1. Anchors(ts) \in SUBSET TurnId
  BY DEF Anchors
<1> QED BY <1>1, MinIsTurn, MaxIsTurn

\* The row an insert writes and the blocks a click computes are turns.
LEMMA AnchorTurnType ==
  ASSUME NEW b \in SUBSET Tool PROVE AnchorTurn(b) \in Turn
  BY ToolApprovalAssumption DEF AnchorTurn, Turn, Block, Status, NoBlock, Open

LEMMA NoTurnType == NoTurn \in Turn
  BY ToolApprovalAssumption DEF NoTurn, Turn, Block, Status, NoBlock

THEOREM TypeInit == Init => TypeOK
  BY ToolApprovalAssumption, AnchorTurnType, NoTurnType
  DEF Init, TypeOK, Batches, NoClick, Pcs, TurnId, Turn, NoTurn

\* Rewriting the blocks of a row leaves a row.
LEMMA RewriteType ==
  ASSUME turn \in [TurnId -> Turn], NEW i \in TurnId, NEW bs \in [Tool -> Block]
  PROVE  [turn EXCEPT ![i].blocks = bs] \in [TurnId -> Turn]
  BY DEF Turn

LEMMA DemoteType ==
  ASSUME turn \in [TurnId -> Turn], NEW i
  PROVE  [turn EXCEPT ![i].anchor = FALSE] \in [TurnId -> Turn]
<1>1. CASE i \in TurnId
  BY <1>1 DEF Turn
<1>2. CASE i \notin TurnId
  <2>1. [turn EXCEPT ![i].anchor = FALSE] = turn
    BY <1>2
  <2> QED BY <2>1
<1> QED BY <1>1, <1>2

LEMMA ClaimedType ==
  ASSUME NEW bs \in [Tool -> Block] PROVE Claimed(bs) \in [Tool -> Block]
  BY DEF Claimed, Block, Status, Open

LEMMA DecisionType ==
  ASSUME TypeOK, NEW r \in Req, NEW j \in TurnId
  PROVE  Decision(r, j) \in [Tool -> Block]
  BY DEF Decision, TypeOK, Turn, Block

LEMMA ResultTurnType ==
  ASSUME TypeOK, NEW r \in Req PROVE ResultTurn(r) \in Turn
  BY ToolApprovalAssumption
  DEF ResultTurn, Terminal, TypeOK, Turn, Block, Status, NoBlock

-----------------------------------------------------------------------------
(* Type correctness *)

LEMMA ClickType ==
  ASSUME TypeOK, NEW r \in Req, NEW n \in Node, NEW op \in {"call", "result"}, Click(r, n, op)
  PROVE  TypeOK'
<1>1. Anchors(turn) # {}
  BY DEF Click, StageOf
<1>2. Max(Anchors(turn)) \in TurnId
  BY <1>1, AnchorsAreTurns
<1>3. Decidable(Max(Anchors(turn)), op) \subseteq Tool
  BY DEF Decidable
<1>4. req' \in [Req -> [op : {"none", "call", "result", "regenerate"},
                        node : Node \cup {NoReq}, on : 0..MaxTurns, accepted : SUBSET Tool]]
  BY <1>2, <1>3 DEF Click, TypeOK, TurnId
<1> QED BY <1>4 DEF Click, TypeOK, dbVars, history, Goto, Pcs

LEMMA RegenerateType ==
  ASSUME TypeOK, NEW r \in Req, NEW n \in Node, ClickRegenerate(r, n)
  PROVE  TypeOK'
  BY ToolApprovalAssumption DEF ClickRegenerate, TypeOK, dbVars, history, Goto, Pcs

LEMMA ReadType ==
  ASSUME TypeOK, NEW r \in Req, Refuse(r) \/ ReadCall(r) \/ ReadResult(r) \/ AcquireStream(r)
  PROVE  TypeOK'
<1> USE DEF TypeOK, dbVars, reqVars, history, Goto, Pcs
<1>1. CASE Refuse(r)
  BY <1>1 DEF Refuse
<1>2. CASE ReadCall(r)
  <2>1. Min(Anchors(turn)) \in 0..MaxTurns
    BY <1>2, AnchorsAreTurns, ToolApprovalAssumption DEF ReadCall, TurnId
  <2> QED BY <1>2, <2>1 DEF ReadCall
<1>3. CASE ReadResult(r)
  <2>1. Anchors(turn) # {} => Min(Anchors(turn)) \in 0..MaxTurns
    BY AnchorsAreTurns, ToolApprovalAssumption DEF TurnId
  <2>2. tgt' \in [Req -> 0..MaxTurns]
    BY <1>3, <2>1, ToolApprovalAssumption DEF ReadResult
  <2> QED BY <1>3, <2>2 DEF ReadResult
<1>4. CASE AcquireStream(r)
  <2>1. holder' \in [Node -> Req \cup {NoReq}]
    BY <1>4 DEF AcquireStream
  <2>2. \E p \in Pcs : pc' = [pc EXCEPT ![r] = p]
    BY <1>4 DEF AcquireStream
  <2> QED BY <1>4, <2>1, <2>2 DEF AcquireStream
<1> QED BY <1>1, <1>2, <1>3, <1>4

LEMMA CallHandlerType ==
  ASSUME TypeOK, ApprovalInv, NEW r \in Req,
         \/ Claim(r) \/ LoseClaim(r) \/ Record(r) \/ InsertResults(r)
         \/ \E t \in Tool : \/ AnswerQuestion(r, t) \/ RunAccepted(r, t) \/ SkipQuestion(r, t)
                            \/ RunAuto(r, t) \/ RejectCall(r, t)
  PROVE  TypeOK'
<1> USE DEF dbVars, reqVars, history, Goto, Pcs, Return, Finish
<1>1. CASE Claim(r)
  <2>1. tgt[r] \in TurnId
    BY <1>1 DEF Claim, ApprovalInv, ClaimsPending, BeforeClaim
  <2>2. seen[r][tgt[r]].blocks \in [Tool -> Block]
    BY <2>1 DEF TypeOK, Turn
  <2>3. turn' \in [TurnId -> Turn]
    BY <1>1, <2>1, <2>2, ClaimedType, RewriteType DEF Claim, TypeOK
  <2> QED BY <1>1, <2>1, <2>2, <2>3 DEF Claim, TypeOK
<1>2. CASE LoseClaim(r)
  BY <1>2 DEF LoseClaim, TypeOK
<1>3. CASE Record(r)
  <2>1. tgt[r] \in TurnId
    BY <1>3 DEF Record, ApprovalInv, ExecutorOwnsBatch
  <2>2. out[r] \in [Tool -> Block]
    BY DEF TypeOK
  <2>3. [turn EXCEPT ![tgt[r]].blocks = out[r]] \in [TurnId -> Turn]
    BY <2>1, <2>2, RewriteType DEF TypeOK
  <2>4. turn' \in [TurnId -> Turn]
    BY <1>3, <2>3 DEF Record, TypeOK
  <2> QED BY <1>3, <2>4 DEF Record, TypeOK
<1>4. CASE InsertResults(r)
  <2>1. turn' \in [TurnId -> Turn] /\ nextTurn' \in Nat \ {0}
    <3>1. CASE turn' = [turn EXCEPT ![nextTurn] = ResultTurn(r)] /\ nextTurn' = nextTurn + 1
      <4>1. ResultTurn(r) \in Turn
        BY ResultTurnType
      <4>2. turn' \in [TurnId -> Turn]
        BY <3>1, <4>1 DEF TypeOK
      <4> QED BY <3>1, <4>2 DEF TypeOK
    <3>2. CASE UNCHANGED <<turn, nextTurn>>
      BY <3>2 DEF TypeOK
    <3> QED BY <1>4, <3>1, <3>2 DEF InsertResults
  <2>2. (Return(r) \/ (Goto(r, "followup") /\ UNCHANGED holder))
    BY <1>4 DEF InsertResults
  <2>3. pc' \in [Req -> Pcs] /\ holder' \in [Node -> Req \cup {NoReq}]
    BY <2>2 DEF TypeOK
  <2> QED BY <1>4, <2>1, <2>3 DEF InsertResults, TypeOK
<1>5. CASE \E t \in Tool : \/ AnswerQuestion(r, t) \/ RunAccepted(r, t) \/ SkipQuestion(r, t)
                           \/ RunAuto(r, t) \/ RejectCall(r, t)
  <2>1. PICK t \in Tool : \/ AnswerQuestion(r, t) \/ RunAccepted(r, t) \/ SkipQuestion(r, t)
                          \/ RunAuto(r, t) \/ RejectCall(r, t)
    BY <1>5
  <2>2. out[r][t].shared \in BOOLEAN
    BY DEF TypeOK, Block
  <2>3. PICK st \in {"success", "error", "auto_approved", "rejected"}, shared \in BOOLEAN :
          Resolve(r, t, st, shared)
    BY <2>1, <2>2 DEF AnswerQuestion, RunAccepted, SkipQuestion, RunAuto, RejectCall
  <2>4. out' \in [Req -> [Tool -> Block]]
    BY <2>3 DEF Resolve, TypeOK, Block, Status, Open, Resolved
  <2>5. autoRan' = autoRan \/ autoRan' = [autoRan EXCEPT ![r] = @ \cup {t}]
    BY <2>1 DEF AnswerQuestion, RunAccepted, SkipQuestion, RunAuto, RejectCall
  <2>6. autoRan' \in [Req -> SUBSET Tool]
    <3>1. autoRan[r] \cup {t} \in SUBSET Tool
      BY DEF TypeOK
    <3> QED BY <2>5, <3>1 DEF TypeOK
  <2>7. runs' = runs \/ Ran(r, t)
    BY <2>1 DEF AnswerQuestion, RunAccepted, SkipQuestion, RunAuto, RejectCall
  <2>8. runs' \in [TurnId -> [Tool -> Nat]]
    <3>1. tgt[r] \in TurnId
      BY <2>3 DEF Resolve, ApprovalInv, ExecutorOwnsBatch
    <3>2. [runs[tgt[r]] EXCEPT ![t] = @ + 1] \in [Tool -> Nat]
      BY <3>1 DEF TypeOK
    <3> QED BY <2>7, <3>1, <3>2 DEF Ran, TypeOK
  <2> QED BY <2>3, <2>4, <2>6, <2>8 DEF Resolve, TypeOK
<1> QED BY <1>1, <1>2, <1>3, <1>4, <1>5

LEMMA ResultHandlerType ==
  ASSUME TypeOK, NEW r \in Req,
         WriteDecision(r) \/ UndoDecision(r) \/ DecisionWritten(r)
  PROVE  TypeOK'
<1> USE DEF dbVars, reqVars, history, Goto, Pcs, Return, Finish
<1>1. Decisions(r) \in SUBSET TurnId /\ Others(r) \in SUBSET TurnId /\ wrote[r] \in SUBSET TurnId
  BY DEF Decisions, Others, ResultTurns, TypeOK
<1>2. CASE WriteDecision(r)
  <2>1. NextWrite(r) \in TurnId
    BY <1>1, <1>2, MinIsTurn DEF NextWrite, WriteDecision
  <2>2. [turn EXCEPT ![NextWrite(r)].blocks = Decision(r, NextWrite(r))] \in [TurnId -> Turn]
    BY <2>1, DecisionType, RewriteType DEF TypeOK
  <2>3. turn' \in [TurnId -> Turn]
    BY <1>2, <2>2 DEF WriteDecision, TypeOK
  <2>4. wrote[r] \cup {NextWrite(r)} \in SUBSET TurnId
    BY <1>1, <2>1
  <2>5. wrote' \in [Req -> SUBSET TurnId]
    BY <1>2, <2>4 DEF WriteDecision, TypeOK
  <2>6. pc' \in [Req -> Pcs] /\ holder' \in [Node -> Req \cup {NoReq}]
    BY <1>2 DEF WriteDecision, TypeOK
  <2> QED BY <1>2, <2>3, <2>5, <2>6 DEF WriteDecision, TypeOK
<1>3. CASE UndoDecision(r)
  <2>1. wrote[r] # {} => LastWrite(r) \in TurnId
    <3>1. wrote[r] \cap Others(r) \in SUBSET TurnId
      BY <1>1
    <3> QED BY <1>1, <3>1, MaxIsTurn DEF LastWrite
  <2>2. turn' \in [TurnId -> Turn]
    <3>1. CASE wrote[r] # {}
      <4>1. seen[r][LastWrite(r)].blocks \in [Tool -> Block]
        BY <2>1, <3>1 DEF TypeOK, Turn
      <4>2. [turn EXCEPT ![LastWrite(r)].blocks = seen[r][LastWrite(r)].blocks] \in [TurnId -> Turn]
        BY <2>1, <3>1, <4>1, RewriteType DEF TypeOK
      <4> QED BY <1>3, <3>1, <4>2 DEF UndoDecision, TypeOK
    <3> QED BY <1>3, <3>1 DEF UndoDecision, TypeOK
  <2>3. wrote[r] \ {LastWrite(r)} \in SUBSET TurnId
    BY <1>1
  <2>4. wrote' \in [Req -> SUBSET TurnId]
    BY <1>3, <2>3 DEF UndoDecision, TypeOK
  <2>5. pc' \in [Req -> Pcs] /\ holder' \in [Node -> Req \cup {NoReq}]
    BY <1>3 DEF UndoDecision, TypeOK
  <2> QED BY <1>3, <2>2, <2>4, <2>5 DEF UndoDecision, TypeOK
<1>4. CASE DecisionWritten(r)
  BY <1>4 DEF DecisionWritten, TypeOK
<1> QED BY <1>2, <1>3, <1>4

LEMMA StreamType ==
  ASSUME TypeOK, NEW r \in Req,
         \/ Scrub(r) \/ FollowUp(r) \/ FailFollowUp(r) \/ LookupAnchor(r)
         \/ DemoteAnchor(r) \/ CreateAnchor(r) \/ FinishStream(r)
  PROVE  TypeOK'
<1> USE DEF dbVars, reqVars, history, Goto, Pcs, Return, Finish
<1>1. CASE Scrub(r)
  <2>1. turn' \in [TurnId -> Turn]
    BY <1>1, NoTurnType DEF Scrub, TypeOK
  <2> QED BY <1>1, <2>1 DEF Scrub, TypeOK
<1>2. CASE FollowUp(r)
  <2>1. followed' \in [TurnId -> Nat]
    <3>1. followed' = [followed EXCEPT ![tgt[r]] = followed[tgt[r]] + 1]
      BY <1>2 DEF FollowUp
    <3>2. \A i \in TurnId : followed[i] + 1 \in Nat
      BY DEF TypeOK
    <3> QED BY <3>1, <3>2 DEF TypeOK
  <2>2. disclosed' \subseteq (0..MaxTurns) \X Tool
    <3>1. \A y \in ResultTurns(turn) \X Tool :
            y[1] \in TurnId /\ turn[y[1]].owner \in 0..MaxTurns /\ y[2] \in Tool
      BY DEF ResultTurns, TypeOK, Turn
    <3> QED BY <1>2, <3>1 DEF FollowUp, TypeOK
  <2> QED BY <1>2, <2>1, <2>2 DEF FollowUp, TypeOK
<1>3. CASE FailFollowUp(r)
  BY <1>3 DEF FailFollowUp, TypeOK
<1>4. CASE LookupAnchor(r)
  <2>1. tgt' \in [Req -> 0..MaxTurns]
    BY <1>4, ToolApprovalAssumption DEF LookupAnchor, Anchors, TurnId, TypeOK
  <2>2. pc' \in [Req -> Pcs]
    BY <1>4 DEF LookupAnchor, TypeOK
  <2> QED BY <1>4, <2>1, <2>2 DEF LookupAnchor, TypeOK
<1>5. CASE DemoteAnchor(r)
  <2>1. turn' \in [TurnId -> Turn]
    <3>1. turn \in [TurnId -> Turn]
      BY DEF TypeOK
    <3>2. [turn EXCEPT ![tgt[r]].anchor = FALSE] \in [TurnId -> Turn]
      BY <3>1, DemoteType
    <3> QED BY <1>5, <3>1, <3>2 DEF DemoteAnchor
  <2> QED BY <1>5, <2>1 DEF DemoteAnchor, TypeOK
<1>6. CASE CreateAnchor(r)
  <2>1. turn' \in [TurnId -> Turn] /\ nextTurn' \in Nat \ {0}
    <3>1. CASE UNCHANGED <<turn, nextTurn>>
      BY <3>1 DEF TypeOK
    <3>2. CASE \E b \in Batches(nextTurn) :
                 turn' = [turn EXCEPT ![nextTurn] = AnchorTurn(b)] /\ nextTurn' = nextTurn + 1
      <4>1. PICK b \in SUBSET Tool :
              turn' = [turn EXCEPT ![nextTurn] = AnchorTurn(b)] /\ nextTurn' = nextTurn + 1
        BY <3>2 DEF Batches
      <4>2. AnchorTurn(b) \in Turn
        BY AnchorTurnType
      <4>3. turn' \in [TurnId -> Turn]
        BY <4>1, <4>2 DEF TypeOK
      <4> QED BY <4>1, <4>3 DEF TypeOK
    <3> QED BY <1>6, <3>1, <3>2 DEF CreateAnchor
  <2> QED BY <1>6, <2>1 DEF CreateAnchor, TypeOK
<1>7. CASE FinishStream(r)
  BY <1>7 DEF FinishStream, TypeOK
<1> QED BY <1>1, <1>2, <1>3, <1>4, <1>5, <1>6, <1>7

\* Every step keeps every variable in its type.
THEOREM TypeStep ==
  ASSUME TypeOK, ApprovalInv, [Next]_vars PROVE TypeOK'
<1>1. CASE UNCHANGED vars
  BY <1>1 DEF TypeOK, vars, dbVars, reqVars, history
<1>2. ASSUME NEW r \in Req, Handler(r) PROVE TypeOK'
  BY <1>2, ReadType, CallHandlerType, ResultHandlerType, StreamType
  DEF Handler, CallHandler, ResultHandler, Stream
<1>3. ASSUME NEW n \in Node, Crash(n) PROVE TypeOK'
  BY <1>3 DEF Crash, TypeOK, dbVars, reqVars, history, Pcs
<1> QED BY <1>1, <1>2, <1>3, ClickType, RegenerateType DEF Next, Quiet

-----------------------------------------------------------------------------
(* At most one execution *)

THEOREM ApprovalInit == Init => ApprovalInv
<1> SUFFICES ASSUME Init PROVE ApprovalInv
  OBVIOUS
<1>1. ClaimsPending /\ ExecutorsDecideCalls /\ ExecutorOwnsBatch
  BY DEF Init, NoClick, ClaimsPending, BeforeClaim, ExecutorsDecideCalls, ExecutorOwnsBatch
<1>2. TurnsAreOld
  BY DEF Init, NoTurn, TurnsAreOld, TurnId
<1>3. ClaimIsFinal
  BY DEF Init, ClaimIsFinal
<1>4. OnlyClaimedRun /\ AtMostOnce /\ OnlyApprovedRun
  BY DEF Init, OnlyClaimedRun, AtMostOnce, OnlyApprovedRun
<1> QED BY <1>1, <1>2, <1>3, <1>4 DEF ApprovalInv

\* A step that neither claims nor executes nor brings a pending call back keeps
\* what is known of claims and executions.
LEMMA BatchFrame ==
  ASSUME TypeOK, ApprovalInv, UNCHANGED <<claimedBy, runs>>,
         nextTurn' \in Nat, nextTurn <= nextTurn',
         \A i \in TurnId : turn'[i].role # "none" => i < nextTurn',
         \A i \in TurnId : i < nextTurn /\ Has(turn, i, {"pending"})' => Has(turn, i, {"pending"})
  PROVE  TurnsAreOld' /\ ClaimIsFinal' /\ OnlyClaimedRun' /\ AtMostOnce'
<1>1. TurnsAreOld'
  BY DEF TurnsAreOld
<1>2. ClaimIsFinal'
  BY DEF ApprovalInv, ClaimIsFinal, TurnId, TypeOK
<1>3. OnlyClaimedRun' /\ AtMostOnce'
  BY DEF ApprovalInv, OnlyClaimedRun, AtMostOnce
<1> QED BY <1>1, <1>2, <1>3

\* A step that starts no claim and no execution, and changes no click already
\* made, keeps what is known of the requests.
LEMMA RequestFrame ==
  ASSUME TypeOK, ApprovalInv, UNCHANGED <<claimedBy, runs, out>>,
         \A r \in Req :
           /\ pc[r] # "idle" => req'[r] = req[r]
           /\ BeforeClaim(r)' => BeforeClaim(r) /\ tgt'[r] = tgt[r] /\ seen'[r] = seen[r]
           /\ pc'[r] = "execute" => pc[r] = "execute" /\ tgt'[r] = tgt[r]
           /\ pc'[r] \in {"claim", "execute", "insert"} => req'[r].op = "call"
           /\ pc'[r] = "idle" => req'[r].op = "none"
  PROVE  ClaimsPending' /\ ExecutorsDecideCalls' /\ ExecutorOwnsBatch' /\ OnlyApprovedRun'
<1>1. ClaimsPending'
  BY DEF ApprovalInv, ClaimsPending, Has
<1>2. ExecutorsDecideCalls'
  BY DEF ExecutorsDecideCalls
<1>3. ExecutorOwnsBatch'
  BY DEF ApprovalInv, ExecutorOwnsBatch
<1>4. OnlyApprovedRun'
  BY DEF ApprovalInv, OnlyApprovedRun, ExecutorsDecideCalls
<1> QED BY <1>1, <1>2, <1>3, <1>4

\* The frame conditions, action by action.
LEMMA ClickInv ==
  ASSUME TypeOK, ApprovalInv, NEW r \in Req, NEW n \in Node,
         (\E op \in {"call", "result"} : Click(r, n, op)) \/ ClickRegenerate(r, n)
  PROVE  ApprovalInv'
<1> USE DEF dbVars, history, Goto, BeforeClaim
<1>1. TurnsAreOld' /\ ClaimIsFinal' /\ OnlyClaimedRun' /\ AtMostOnce'
  <2>1. UNCHANGED <<turn, nextTurn, claimedBy, runs>>
    BY DEF Click, ClickRegenerate
  <2> QED BY <2>1 DEF ApprovalInv, TurnsAreOld, ClaimIsFinal, OnlyClaimedRun, AtMostOnce, Has
<1>2. ClaimsPending' /\ ExecutorsDecideCalls' /\ ExecutorOwnsBatch' /\ OnlyApprovedRun'
  BY RequestFrame DEF Click, ClickRegenerate, TypeOK, ApprovalInv, ExecutorsDecideCalls
<1> QED BY <1>1, <1>2 DEF ApprovalInv

\* Steps that write no turn.
LEMMA QuietInv ==
  ASSUME TypeOK, ApprovalInv,
         \/ UNCHANGED vars
         \/ \E n \in Node : Crash(n)
         \/ \E r \in Req : \/ Refuse(r) \/ ReadResult(r) \/ AcquireStream(r) \/ LoseClaim(r)
                           \/ DecisionWritten(r) \/ FollowUp(r) \/ FailFollowUp(r)
                           \/ LookupAnchor(r) \/ FinishStream(r)
  PROVE  ApprovalInv'
<1> USE DEF vars, dbVars, reqVars, history, Goto, Return, Finish
<1>1. TurnsAreOld' /\ ClaimIsFinal' /\ OnlyClaimedRun' /\ AtMostOnce'
  <2>1. UNCHANGED <<turn, nextTurn, claimedBy, runs>>
    BY DEF Crash, Refuse, ReadResult, AcquireStream, LoseClaim, DecisionWritten, FollowUp,
           FailFollowUp, LookupAnchor, FinishStream
  <2> QED BY <2>1 DEF ApprovalInv, TurnsAreOld, ClaimIsFinal, OnlyClaimedRun, AtMostOnce, Has
<1>2. ClaimsPending' /\ ExecutorsDecideCalls' /\ ExecutorOwnsBatch' /\ OnlyApprovedRun'
  <2> USE DEF BeforeClaim, TypeOK, ApprovalInv, ExecutorsDecideCalls
  <2>1. CASE UNCHANGED vars
    BY <2>1, RequestFrame
  <2>2. CASE \E n \in Node : Crash(n)
    BY <2>2, RequestFrame DEF Crash, Live
  <2>3. ASSUME NEW r \in Req, Refuse(r) \/ ReadResult(r)
        PROVE  ClaimsPending' /\ ExecutorsDecideCalls' /\ ExecutorOwnsBatch' /\ OnlyApprovedRun'
    BY <2>3, RequestFrame DEF Refuse, ReadResult
  <2>4. ASSUME NEW r \in Req, AcquireStream(r)
        PROVE  ClaimsPending' /\ ExecutorsDecideCalls' /\ ExecutorOwnsBatch' /\ OnlyApprovedRun'
    BY <2>4, RequestFrame DEF AcquireStream
  <2>5. ASSUME NEW r \in Req, LoseClaim(r) \/ DecisionWritten(r) \/ FollowUp(r) \/ FailFollowUp(r)
                              \/ FinishStream(r)
        PROVE  ClaimsPending' /\ ExecutorsDecideCalls' /\ ExecutorOwnsBatch' /\ OnlyApprovedRun'
    <3>1. CASE LoseClaim(r)
      BY <3>1, RequestFrame DEF LoseClaim
    <3>2. CASE DecisionWritten(r)
      BY <3>2, RequestFrame DEF DecisionWritten
    <3>3. CASE FollowUp(r)
      BY <3>3, RequestFrame DEF FollowUp
    <3>4. CASE FailFollowUp(r)
      BY <3>4, RequestFrame DEF FailFollowUp
    <3>5. CASE FinishStream(r)
      BY <3>5, RequestFrame DEF FinishStream
    <3> QED BY <2>5, <3>1, <3>2, <3>3, <3>4, <3>5
  <2>6. ASSUME NEW r \in Req, LookupAnchor(r)
        PROVE  ClaimsPending' /\ ExecutorsDecideCalls' /\ ExecutorOwnsBatch' /\ OnlyApprovedRun'
    BY <2>6, RequestFrame DEF LookupAnchor
  <2> QED BY <2>1, <2>2, <2>3, <2>4, <2>5, <2>6
<1> QED BY <1>1, <1>2 DEF ApprovalInv

\* A conditional write that keeps every status keeps the pending calls.
LEMMA KeepsStatuses ==
  ASSUME TypeOK, NEW i \in TurnId, NEW bs \in [Tool -> Block], turn[i].role # "none",
         turn' = [turn EXCEPT ![i].blocks = bs],
         \A t \in Tool : bs[t].st = "pending" => turn[i].blocks[t].st = "pending"
  PROVE  /\ \A k \in TurnId : turn'[k].role = turn[k].role
         /\ \A k \in TurnId : Has(turn, k, {"pending"})' => Has(turn, k, {"pending"})
<1>1. \A k \in TurnId : turn'[k].role = turn[k].role
  BY DEF TypeOK, Turn
<1>2. \A k \in TurnId, t \in Tool :
        turn'[k].blocks[t].st = "pending" => turn[k].blocks[t].st = "pending"
  BY DEF TypeOK, Turn
<1> QED BY <1>1, <1>2 DEF Has

\* Steps that write a turn, claims aside.
LEMMA WriteInv ==
  ASSUME TypeOK, ApprovalInv, NEW r \in Req,
         \/ Record(r) \/ InsertResults(r) \/ WriteDecision(r) \/ UndoDecision(r)
         \/ Scrub(r) \/ DemoteAnchor(r) \/ CreateAnchor(r)
  PROVE  ApprovalInv'
<1> USE DEF dbVars, reqVars, history, Goto, Return, Finish
<1>1. ClaimsPending' /\ ExecutorsDecideCalls' /\ ExecutorOwnsBatch' /\ OnlyApprovedRun'
  <2> USE DEF BeforeClaim, TypeOK, ApprovalInv, ExecutorsDecideCalls
  <2>1. CASE Record(r) \/ InsertResults(r)
    BY <2>1, RequestFrame DEF Record, InsertResults
  <2>2. CASE WriteDecision(r) \/ UndoDecision(r)
    BY <2>2, RequestFrame DEF WriteDecision, UndoDecision
  <2>3. CASE Scrub(r) \/ DemoteAnchor(r) \/ CreateAnchor(r)
    BY <2>3, RequestFrame DEF Scrub, DemoteAnchor, CreateAnchor
  <2> QED BY <2>1, <2>2, <2>3
<1>2. UNCHANGED <<claimedBy, runs>>
  BY DEF Record, InsertResults, WriteDecision, UndoDecision, Scrub, DemoteAnchor, CreateAnchor
<1>3. \A i \in TurnId : turn[i].role # "none" => i < nextTurn
  BY DEF ApprovalInv, TurnsAreOld
<1>5. nextTurn \in Nat /\ nextTurn <= nextTurn
  BY DEF TypeOK
<1> DEFINE Framed ==
      /\ nextTurn' \in Nat /\ nextTurn <= nextTurn'
      /\ \A i \in TurnId : turn'[i].role # "none" => i < nextTurn'
      /\ \A i \in TurnId : i < nextTurn /\ Has(turn, i, {"pending"})' => Has(turn, i, {"pending"})
<1>4. Framed
  <2>0. CASE UNCHANGED dbVars
    BY <2>0, <1>3 DEF Has, TypeOK
  <2>1. CASE Record(r)
    <3>1. tgt[r] \in TurnId /\ out[r] \in [Tool -> Block] /\ nextTurn' = nextTurn
      BY <2>1 DEF Record, ApprovalInv, ExecutorOwnsBatch, TypeOK
    <3>2. CASE UNCHANGED turn
      BY <2>0, <3>1, <3>2
    <3>3. CASE CasSucceeds(tgt[r], ClaimedContent(r)) /\ turn' = [turn EXCEPT ![tgt[r]].blocks = out[r]]
      <4>1. \A t \in Tool : out[r][t].st # "pending"
        BY <2>1 DEF Record, Open
      <4>2. turn[tgt[r]].role # "none"
        BY <3>3 DEF CasSucceeds
      <4>3. /\ \A k \in TurnId : turn'[k].role = turn[k].role
            /\ \A k \in TurnId : Has(turn, k, {"pending"})' => Has(turn, k, {"pending"})
        BY <3>1, <3>3, <4>1, <4>2, KeepsStatuses
      <4> QED BY <1>3, <1>5, <3>1, <4>3
    <3> QED BY <2>1, <3>2, <3>3 DEF Record
  <2>2. CASE InsertResults(r)
    <3>1. CASE turn' = [turn EXCEPT ![nextTurn] = ResultTurn(r)] /\ nextTurn' = nextTurn + 1
      BY <1>3, <3>1 DEF Has, TypeOK, TurnId
    <3> QED BY <2>0, <2>2, <3>1 DEF InsertResults
  <2>3. CASE WriteDecision(r)
    <3> DEFINE j == NextWrite(r)
    <3>1. CASE UNCHANGED turn
      BY <2>0, <2>3, <3>1 DEF WriteDecision
    <3>2. CASE CasSucceeds(j, seen[r][j].blocks) /\ turn' = [turn EXCEPT ![j].blocks = Decision(r, j)]
      <4>1. j \in TurnId
        <5>1. Decisions(r) \in SUBSET TurnId /\ Others(r) \in SUBSET TurnId
          BY DEF Decisions, Others, ResultTurns
        <5>2. (Decisions(r) \cup Others(r)) \ wrote[r] # {}
          BY <2>3 DEF WriteDecision
        <5> QED BY ONLY <5>1, <5>2, MinIsTurn DEF NextWrite, j
      <4>2. Decision(r, j) \in [Tool -> Block]
        BY <4>1, DecisionType
      <4> HIDE DEF j
      <4>3. \A t \in Tool : Decision(r, j)[t].st = turn[j].blocks[t].st
        <5>1. turn[j].blocks = seen[r][j].blocks
          BY <3>2 DEF CasSucceeds
        <5>2. \A t \in Tool : Decision(r, j)[t].st = seen[r][j].blocks[t].st
          BY DEF Decision
        <5> QED BY <5>1, <5>2
      <4>4. nextTurn' = nextTurn
        BY <2>3 DEF WriteDecision
      <4>5. turn[j].role # "none"
        BY <3>2 DEF CasSucceeds
      <4>6. /\ \A k \in TurnId : turn'[k].role = turn[k].role
            /\ \A k \in TurnId : Has(turn, k, {"pending"})' => Has(turn, k, {"pending"})
        BY <3>2, <4>1, <4>2, <4>3, <4>5, KeepsStatuses
      <4> QED BY <1>3, <1>5, <4>4, <4>6
    <3> QED BY <2>3, <3>1, <3>2 DEF WriteDecision
  <2>4. CASE UndoDecision(r)
    <3> DEFINE j == LastWrite(r)
    <3>1. CASE UNCHANGED turn
      BY <2>0, <2>4, <3>1 DEF UndoDecision
    <3>2. CASE /\ wrote[r] # {}
               /\ CasSucceeds(j, Decision(r, j))
               /\ turn' = [turn EXCEPT ![j].blocks = seen[r][j].blocks]
      <4>1. j \in TurnId
        <5>1. wrote[r] \in SUBSET TurnId /\ wrote[r] \cap Others(r) \in SUBSET TurnId
          BY DEF TypeOK
        <5> QED BY <3>2, <5>1, MaxIsTurn DEF LastWrite
      <4>2. seen[r][j].blocks \in [Tool -> Block]
        BY <4>1 DEF TypeOK, Turn
      <4> HIDE DEF j
      <4>3. \A t \in Tool : seen[r][j].blocks[t].st = turn[j].blocks[t].st
        <5>1. turn[j].blocks = Decision(r, j)
          BY <3>2 DEF CasSucceeds
        <5>2. \A t \in Tool : Decision(r, j)[t].st = seen[r][j].blocks[t].st
          BY DEF Decision
        <5> QED BY <5>1, <5>2
      <4>4. nextTurn' = nextTurn
        BY <2>4 DEF UndoDecision
      <4>5. turn[j].role # "none"
        BY <3>2 DEF CasSucceeds
      <4>6. /\ \A k \in TurnId : turn'[k].role = turn[k].role
            /\ \A k \in TurnId : Has(turn, k, {"pending"})' => Has(turn, k, {"pending"})
        BY <3>2, <4>1, <4>2, <4>3, <4>5, KeepsStatuses
      <4> QED BY <1>3, <1>5, <4>4, <4>6
    <3> QED BY <2>4, <3>1, <3>2 DEF UndoDecision
  <2>5. CASE Scrub(r)
    <3>1. \A i \in TurnId : turn'[i] = turn[i] \/ turn'[i] = NoTurn
      BY <2>5 DEF Scrub, TypeOK
    <3>2. nextTurn' = nextTurn
      BY <2>5 DEF Scrub
    <3>3. NoTurn.role = "none" /\ \A t \in Tool : NoTurn.blocks[t].st = "none"
      BY DEF NoTurn, NoBlock
    <3>4. \A i \in TurnId : turn'[i].role # "none" => turn[i].role # "none"
      BY <3>1, <3>3
    <3>5. \A i \in TurnId : Has(turn, i, {"pending"})' => Has(turn, i, {"pending"})
      BY <3>1, <3>3 DEF Has
    <3> QED BY <1>3, <1>5, <3>2, <3>4, <3>5
  <2>6. CASE DemoteAnchor(r)
    <3>1. \A i \in TurnId : turn'[i].role = turn[i].role /\ turn'[i].blocks = turn[i].blocks
      <4>1. turn' = turn \/ turn' = [turn EXCEPT ![tgt[r]].anchor = FALSE]
        BY <2>6 DEF DemoteAnchor
      <4>2. turn \in [TurnId -> Turn]
        BY DEF TypeOK
      <4> QED BY <4>1, <4>2 DEF Turn
    <3>2. nextTurn' = nextTurn
      BY <2>6 DEF DemoteAnchor
    <3>3. \A i \in TurnId : Has(turn, i, {"pending"})' => Has(turn, i, {"pending"})
      BY <3>1 DEF Has
    <3> QED BY <1>3, <1>5, <3>1, <3>2, <3>3
  <2>7. CASE CreateAnchor(r)
    <3>1. ASSUME NEW b \in Batches(nextTurn),
                 turn' = [turn EXCEPT ![nextTurn] = AnchorTurn(b)], nextTurn' = nextTurn + 1
          PROVE  Framed
      BY <1>3, <3>1 DEF Has, TypeOK, TurnId
    <3> QED BY <2>0, <2>7, <3>1 DEF CreateAnchor
  <2> QED BY <2>1, <2>2, <2>3, <2>4, <2>5, <2>6, <2>7
<1> QED BY <1>1, <1>2, <1>4, BatchFrame DEF ApprovalInv

\* A click reads a batch with a pending call.
LEMMA ReadCallInv ==
  ASSUME TypeOK, ApprovalInv, NEW r \in Req, ReadCall(r) PROVE ApprovalInv'
<1> USE DEF dbVars, history, Goto, BeforeClaim
<1>1. TurnsAreOld' /\ ClaimIsFinal' /\ OnlyClaimedRun' /\ AtMostOnce'
  BY DEF ReadCall, ApprovalInv, TurnsAreOld, ClaimIsFinal, OnlyClaimedRun, AtMostOnce, Has
<1>2. ClaimsPending'
  <2>1. /\ Min(Anchors(turn)) \in TurnId
        /\ Has(turn, Min(Anchors(turn)), {"pending"})
    BY AnchorsAreTurns DEF ReadCall
  <2>2. tgt'[r] = Min(Anchors(turn)) /\ seen'[r] = turn
    BY DEF ReadCall, TypeOK
  <2>3. tgt'[r] \in TurnId /\ Has(seen'[r], tgt'[r], {"pending"})
    BY <2>1, <2>2
  <2>4. \A q \in Req \ {r} : BeforeClaim(q)' =>
          BeforeClaim(q) /\ tgt'[q] = tgt[q] /\ seen'[q] = seen[q]
    BY DEF ReadCall, TypeOK
  <2> QED BY <2>3, <2>4 DEF ApprovalInv, ClaimsPending, Has
<1>3. ExecutorsDecideCalls' /\ ExecutorOwnsBatch' /\ OnlyApprovedRun'
  BY DEF ReadCall, TypeOK, ApprovalInv, ExecutorsDecideCalls, ExecutorOwnsBatch, OnlyApprovedRun
<1> QED BY <1>1, <1>2, <1>3 DEF ApprovalInv

\* The claim: the row still held the pending call, so nobody had claimed it.
LEMMA ClaimInv ==
  ASSUME TypeOK, ApprovalInv, NEW r \in Req, Claim(r) PROVE ApprovalInv'
<1> DEFINE i == tgt[r]
<1> USE DEF Goto
<1>1. i \in TurnId /\ Has(seen[r], i, {"pending"})
  BY DEF Claim, ApprovalInv, ClaimsPending, BeforeClaim
<1>2. turn[i].role # "none" /\ turn[i].blocks = seen[r][i].blocks
  BY DEF Claim, CasSucceeds
<1>3. claimedBy[i] = NoReq
  BY <1>1, <1>2 DEF ApprovalInv, ClaimIsFinal, Has
<1>4. \A t \in Tool : runs[i][t] = 0
  BY <1>1, <1>3 DEF ApprovalInv, OnlyClaimedRun
<1>5. i < nextTurn
  BY <1>1, <1>2 DEF ApprovalInv, TurnsAreOld
<1>6. /\ claimedBy' = [claimedBy EXCEPT ![i] = r]
      /\ turn' = [turn EXCEPT ![i].blocks = Claimed(seen[r][i].blocks)]
      /\ out' = [out EXCEPT ![r] = seen[r][i].blocks]
      /\ pc[r] = "claim" /\ pc' = [pc EXCEPT ![r] = "execute"]
      /\ UNCHANGED <<nextTurn, req, seen, tgt, runs>>
  BY DEF Claim
<1> HIDE DEF i
<1>7. \A k \in TurnId : turn'[k].role = turn[k].role /\ (k # i => turn'[k] = turn[k])
  BY <1>6 DEF TypeOK, Turn
<1>8. \A t \in Tool : turn'[i].blocks[t].st # "pending"
  BY <1>1, <1>6 DEF Claimed, TypeOK, Turn, Block
<1>9. TurnsAreOld' /\ AtMostOnce' /\ OnlyApprovedRun' /\ OnlyClaimedRun'
  BY <1>1, <1>4, <1>6, <1>7
  DEF ApprovalInv, TurnsAreOld, AtMostOnce, OnlyApprovedRun, OnlyClaimedRun, TypeOK
<1>10. ClaimIsFinal'
  BY <1>1, <1>5, <1>6, <1>7, <1>8 DEF ApprovalInv, ClaimIsFinal, Has, TypeOK
<1>11. ClaimsPending' /\ ExecutorsDecideCalls'
  BY <1>6 DEF ApprovalInv, ClaimsPending, BeforeClaim, ExecutorsDecideCalls, TypeOK, Has
<1>12. ExecutorOwnsBatch'
  <2>1. tgt'[r] \in TurnId /\ claimedBy'[tgt'[r]] = r /\ \A t \in Tool : runs'[tgt'[r]][t] = 0
    BY <1>1, <1>4, <1>6 DEF i, TypeOK
  <2>2. ASSUME NEW q \in Req \ {r}, pc'[q] = "execute"
        PROVE  /\ tgt'[q] \in TurnId /\ claimedBy'[tgt'[q]] = q
               /\ \A t \in Tool : out'[q][t].st \in Open => runs'[tgt'[q]][t] = 0
    <3>1. pc[q] = "execute" /\ tgt'[q] = tgt[q] /\ out'[q] = out[q]
      BY <1>6, <2>2 DEF TypeOK
    <3>2. tgt[q] \in TurnId /\ claimedBy[tgt[q]] = q
      BY <3>1 DEF ApprovalInv, ExecutorOwnsBatch
    <3>3. tgt[q] # i
      BY <1>3, <3>2, ToolApprovalAssumption
    <3> QED BY <1>6, <3>1, <3>2, <3>3 DEF ApprovalInv, ExecutorOwnsBatch, TypeOK
  <2> QED BY <2>1, <2>2 DEF ExecutorOwnsBatch
<1> QED BY <1>9, <1>10, <1>11, <1>12 DEF ApprovalInv

\* An execution: the call was open, so it had not run, and it is not open again.
LEMMA ResolveInv ==
  ASSUME TypeOK, ApprovalInv, NEW r \in Req, NEW t \in Tool,
         \/ AnswerQuestion(r, t) \/ RunAccepted(r, t) \/ SkipQuestion(r, t)
         \/ RunAuto(r, t) \/ RejectCall(r, t)
  PROVE  ApprovalInv'
<1> DEFINE i == tgt[r]
<1>1. PICK st \in {"success", "error", "auto_approved", "rejected"}, shared \in BOOLEAN :
        Resolve(r, t, st, shared)
  <2>1. out[r][t].shared \in BOOLEAN
    BY DEF TypeOK, Block
  <2> QED BY <2>1 DEF AnswerQuestion, RunAccepted, SkipQuestion, RunAuto, RejectCall
<1>2. /\ pc[r] = "execute" /\ out[r][t].st \in Open
      /\ out' = [out EXCEPT ![r][t] = [st |-> st, shared |-> shared, decided |-> FALSE]]
      /\ UNCHANGED <<turn, nextTurn, pc, req, seen, tgt, claimedBy>>
  BY <1>1 DEF Resolve, dbVars
<1>3. runs' = runs \/ (Ran(r, t) /\ (t \in AutoTool \/ t \in AcceptedOn(r, i)))
  BY DEF AnswerQuestion, RunAccepted, SkipQuestion, RunAuto, RejectCall
<1>4. i \in TurnId /\ claimedBy[i] = r /\ runs[i][t] = 0 /\ req[r].op = "call"
  BY <1>2 DEF ApprovalInv, ExecutorOwnsBatch, ExecutorsDecideCalls
<1>5. runs' = runs \/ runs' = [runs EXCEPT ![i][t] = 1]
  BY <1>3, <1>4 DEF Ran
<1>6. \A k \in TurnId, u \in Tool : (k # i \/ u # t) => runs'[k][u] = runs[k][u]
  BY <1>4, <1>5 DEF TypeOK
<1>7. runs'[i][t] = 0 \/ (runs'[i][t] = 1 /\ (t \in AutoTool \/ t \in AcceptedOn(r, i)))
  BY <1>3, <1>4, <1>5 DEF TypeOK
<1> HIDE DEF i
<1>8. ClaimsPending' /\ ExecutorsDecideCalls' /\ TurnsAreOld' /\ ClaimIsFinal'
  BY <1>2 DEF ApprovalInv, ClaimsPending, BeforeClaim, ExecutorsDecideCalls, TurnsAreOld,
              ClaimIsFinal, Has
<1>9. AtMostOnce' /\ OnlyClaimedRun'
  <2>1. r # NoReq
    BY ToolApprovalAssumption
  <2> QED BY <1>2, <1>4, <1>6, <1>7, <2>1 DEF ApprovalInv, AtMostOnce, OnlyClaimedRun
<1>10. OnlyApprovedRun'
  <2>1. t \in AcceptedOn(r, i) => req[r].on = i /\ t \in req[r].accepted
    BY DEF AcceptedOn
  <2> QED BY <1>2, <1>4, <1>6, <1>7, <2>1 DEF ApprovalInv, OnlyApprovedRun
<1>11. ExecutorOwnsBatch'
  <2>1. ASSUME NEW q \in Req, pc'[q] = "execute", NEW u \in Tool, out'[q][u].st \in Open
        PROVE  runs'[tgt'[q]][u] = 0
    <3>1. tgt[q] \in TurnId /\ claimedBy[tgt[q]] = q /\ tgt'[q] = tgt[q]
      BY <1>2, <2>1 DEF ApprovalInv, ExecutorOwnsBatch
    <3>2. out'[r][t].st \notin Open
      BY <1>1, <1>2 DEF TypeOK, Open
    <3>3. q # r \/ u # t
      BY <2>1, <3>2
    <3>4. out'[q][u] = out[q][u]
      BY <1>2, <3>3 DEF TypeOK
    <3>5. runs[tgt[q]][u] = 0
      BY <1>2, <2>1, <3>4 DEF ApprovalInv, ExecutorOwnsBatch
    <3>6. tgt[q] # i \/ u # t
      BY <1>4, <3>1, <3>3
    <3> QED BY <1>6, <3>1, <3>5, <3>6
  <2> QED BY <1>2, <2>1 DEF ApprovalInv, ExecutorOwnsBatch
<1> QED BY <1>8, <1>9, <1>10, <1>11 DEF ApprovalInv

THEOREM ApprovalStep ==
  ASSUME TypeOK, ApprovalInv, [Next]_vars PROVE ApprovalInv'
<1>1. ASSUME NEW r \in Req, Handler(r) PROVE ApprovalInv'
  BY <1>1, QuietInv, WriteInv, ReadCallInv, ClaimInv, ResolveInv
  DEF Handler, CallHandler, ResultHandler, Stream
<1> QED BY <1>1, ClickInv, QuietInv DEF Next, Quiet

\* The protocol's states are typed and satisfy the inductive invariant.
THEOREM Invariance == Spec => [](TypeOK /\ ApprovalInv)
<1>1. Init => TypeOK /\ ApprovalInv
  BY TypeInit, ApprovalInit
<1>2. TypeOK /\ ApprovalInv /\ [Next]_vars => TypeOK' /\ ApprovalInv'
  BY TypeStep, ApprovalStep
<1> QED BY <1>1, <1>2, PTL DEF Spec

\* Type correctness: every variable keeps its type, whatever clicks, nodes,
\* crashes and failed writes the system meets.
THEOREM TypeCorrect == Spec => []TypeOK
<1> QED BY Invariance, PTL

\* claimToolDecision's promise: no tool call is executed twice.
THEOREM CallsRunAtMostOnce == Spec => []AtMostOnce
<1>1. TypeOK /\ ApprovalInv => AtMostOnce
  BY DEF ApprovalInv
<1> QED BY <1>1, Invariance, PTL

\* A call that ran was accepted by a click on its own batch or carried the
\* auto-run marker.
THEOREM CallsRunApproved == Spec => []OnlyApprovedRun
<1>1. TypeOK /\ ApprovalInv => OnlyApprovedRun
  BY DEF ApprovalInv
<1> QED BY <1>1, Invariance, PTL

-----------------------------------------------------------------------------
(* The protocol implements DecideOnce *)

\* A claim is the abstract decision of the batch it claims.
LEMMA ClaimDecides ==
  ASSUME TypeOK, ApprovalInv, NEW r \in Req, Claim(r)
  PROVE  Abs!Decide(tgt[r], r) /\ tgt[r] \in TurnId
<1>1. tgt[r] \in TurnId /\ Has(seen[r], tgt[r], {"pending"})
  BY DEF Claim, ApprovalInv, ClaimsPending, BeforeClaim
<1>2. claimedBy[tgt[r]] = NoReq
  BY <1>1 DEF Claim, CasSucceeds, ApprovalInv, ClaimIsFinal, Has
<1> QED BY <1>1, <1>2 DEF Claim, Abs!Decide

\* Resolving a call runs it in the abstract batch, or changes nothing there.
LEMMA ResolveRuns ==
  ASSUME TypeOK, ApprovalInv, NEW r \in Req, NEW t \in Tool,
         \/ AnswerQuestion(r, t) \/ RunAccepted(r, t) \/ SkipQuestion(r, t)
         \/ RunAuto(r, t) \/ RejectCall(r, t)
  PROVE  tgt[r] \in TurnId /\ (Abs!Run(tgt[r], t) \/ UNCHANGED Abs!vars)
<1>1. pc[r] = "execute" /\ out[r][t].st \in Open /\ UNCHANGED claimedBy
  BY DEF AnswerQuestion, RunAccepted, SkipQuestion, RunAuto, RejectCall, Resolve
<1>2. tgt[r] \in TurnId /\ claimedBy[tgt[r]] = r /\ runs[tgt[r]][t] = 0
  BY <1>1 DEF ApprovalInv, ExecutorOwnsBatch
<1>3. runs' = runs \/ Ran(r, t)
  BY DEF AnswerQuestion, RunAccepted, SkipQuestion, RunAuto, RejectCall
<1>4. runs' = runs \/ runs' = [runs EXCEPT ![tgt[r]][t] = 1]
  BY <1>2, <1>3 DEF Ran
<1>5. claimedBy[tgt[r]] # NoReq
  BY <1>2, ToolApprovalAssumption
<1> QED BY <1>1, <1>2, <1>4, <1>5 DEF Abs!Run, Abs!vars

LEMMA OthersAreInvisible ==
  ASSUME [Next]_vars,
         \A r \in Req : ~ Claim(r),
         \A r \in Req, t \in Tool :
            ~ (\/ AnswerQuestion(r, t) \/ RunAccepted(r, t) \/ SkipQuestion(r, t)
               \/ RunAuto(r, t) \/ RejectCall(r, t))
  PROVE  UNCHANGED Abs!vars
<1> USE DEF vars, history, Abs!vars
<1>1. ASSUME NEW r \in Req, Handler(r) PROVE UNCHANGED <<claimedBy, runs>>
  BY <1>1 DEF Handler, CallHandler, ResultHandler, Stream, Refuse, AcquireStream, ReadCall,
     LoseClaim, Record, InsertResults, ReadResult, WriteDecision, UndoDecision, DecisionWritten,
     Scrub, FollowUp, FailFollowUp, LookupAnchor, DemoteAnchor, CreateAnchor, FinishStream
<1> QED BY <1>1 DEF Next, Click, ClickRegenerate, Crash, Quiet

\* The approval protocol implements its abstract specification: one click
\* decides a batch, and only then do its calls run, once each.
THEOREM ImplementsAbstract == Spec => ImplementsDecideOnce
<1>1. Init => Abs!Init
  BY DEF Init, Abs!Init
<1>2. TypeOK /\ ApprovalInv /\ [Next]_vars => [Abs!Next]_(Abs!vars)
  BY ClaimDecides, ResolveRuns, OthersAreInvisible DEF Abs!Next
<1> QED BY <1>1, <1>2, Invariance, PTL DEF Spec, ImplementsDecideOnce, Abs!Spec
=============================================================================
