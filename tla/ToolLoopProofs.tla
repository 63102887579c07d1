---------------------------- MODULE ToolLoopProofs ----------------------------
(***************************************************************************)
(* Machine-checked theorems about ToolLoop, for any posts, runs, caps of   *)
(* rounds and of failures, and any depth of the stages in between.         *)
(***************************************************************************)
EXTENDS ToolLoop, SequenceTheorems, WellFoundedInduction, TLAPS

-----------------------------------------------------------------------------
(* Least and greatest numbers                                              *)

\* A set of natural numbers has a least element.
LEMMA LeastNat ==
  ASSUME NEW S \in SUBSET Nat, S # {}
  PROVE  \E x \in S : \A y \in S : x <= y
<1> DEFINE R == OpToRel(<, Nat)
<1>1. IsWellFoundedOn(R, Nat)
  BY NatLessThanWellFounded
<1>2. \A y, x \in Nat : y < x => <<y, x>> \in R
  BY DEF OpToRel
<1> HIDE DEF R
<1>3. PICK x \in S : \A y \in S : ~ (<<y, x>> \in R)
  BY <1>1, WFMin, Zenon
<1>4. ASSUME NEW y \in S PROVE x <= y
  <2>1. x \in Nat /\ y \in Nat
    OBVIOUS
  <2>2. ~ (y < x)
    BY <1>2, <1>3, <2>1
  <2> QED BY <2>1, <2>2
<1> QED BY <1>4

\* The greatest of some numbers up to a bound is one of them.
LEMMA MaxIsIn ==
  ASSUME NEW n \in Nat, NEW S \in SUBSET (1..n), S # {}
  PROVE  Max(S) \in S
<1> DEFINE T == {n - x : x \in S}
<1>1. T \in SUBSET Nat /\ T # {}
  <2>1. \A x \in S : n - x \in Nat
    OBVIOUS
  <2>2. T # {}
    OBVIOUS
  <2> QED BY <2>1, <2>2
<1>2. PICK t \in T : \A y \in T : t <= y
  BY <1>1, LeastNat
<1>3. PICK x \in S : t = n - x
  BY <1>2
<1>4. ASSUME NEW y \in S PROVE x >= y
  <2>1. n - y \in T
    OBVIOUS
  <2>2. n - x <= n - y
    BY <1>2, <1>3, <2>1
  <2> QED BY <2>2
<1> QED BY <1>4 DEF Max

\* The next run has not started, and every run before it has.
LEMMA NextRunFields ==
  ASSUME CanStart
  PROVE  /\ NextRun \in Run /\ loop[NextRun].pc = "unborn"
         /\ \A s \in 1..(NextRun - 1) : loop[s].pc # "unborn"
<1> DEFINE S == {r \in Run : loop[r].pc = "unborn"}
<1>1. S \in SUBSET Nat /\ S # {}
  BY LoopAssumption DEF CanStart, Run
<1>2. PICK r \in S : \A s \in S : r <= s
  BY <1>1, LeastNat
<1>3. ASSUME NEW s \in 1..(r - 1) PROVE loop[s].pc # "unborn"
  <2>1. s \in Run /\ ~ (r <= s)
    BY LoopAssumption DEF Run
  <2> QED BY <1>2, <2>1
<1>4. r \in Run /\ loop[r].pc = "unborn"
  OBVIOUS
<1> QED BY <1>3, <1>4 DEF NextRun

-----------------------------------------------------------------------------
(* Types, part by part                                                     *)

TurnRecord == [kind : {"user", "use", "result", "anchor"}, post : Post,
               run : Run \cup {NoRun}, round : Rounds,
               calls : SUBSET RunRounds, text : SUBSET RunRounds]

LoopPlace == {"unborn", "first", "open", "executing", "tools", "resolved",
              "call", "deliver", "done"}

LoopRecord ==
  [post : Post \cup {NoRun}, flow : {"none", "dm", "mention", "shared"},
   pc : LoopPlace,
   round : Rounds, made : Nat, written : Nat, streak : 0..FailureLimit,
   toolsDisabled : BOOLEAN, said : BOOLEAN,
   last : {"none", "end", "ask", "error", "stop"}]

EventRecord == [kind : {"text", "batch", "end", "error"}, round : Rounds,
                phase : {"none", "executing", "resolved", "awaiting"}]

StreamRecord == [pc : {"none", "reading", "finalizing", "leaving", "gone"},
                 text : SUBSET RunRounds, calls : SUBSET RunRounds]

TypeTurns == turns \in Seq(TurnRecord)
TypeContexts == /\ contexts \in [Post -> Run \cup {NoRun}]
                /\ canceled \subseteq Run /\ stops \subseteq Run
TypeLoop == loop \in [Run -> LoopRecord]
TypeOut == out \in [Run -> Seq(EventRecord)]
TypeStream == stream \in [Run -> StreamRecord]

LEMMA TypeParts ==
  TypeOK <=> TypeTurns /\ TypeContexts /\ TypeLoop /\ TypeOut /\ TypeStream
BY DEF TypeOK, TypeTurns, TypeContexts, TypeLoop, TypeOut, TypeStream,
       TurnRecord, LoopRecord, LoopPlace, EventRecord, StreamRecord

\* A run's rounds are rounds.
LEMMA RoundsFields ==
  /\ Run \subseteq Nat /\ NoRun \notin Run
  /\ Rounds \subseteq Nat
  /\ \A r \in Run : /\ maxRounds[r] \in Nat \ {0}
                    /\ 0..maxRounds[r] \subseteq Rounds
<1>1. Run \subseteq Nat /\ NoRun \notin Run
  BY LoopAssumption DEF Run
<1>2. \A r \in Run : maxRounds[r] \in Nat \ {0}
  BY LoopAssumption DEF Run
<1>3. \A r \in Run : 0..maxRounds[r] \subseteq Rounds
  BY DEF Rounds
<1>4. Rounds \subseteq Nat
  BY <1>2 DEF Rounds
<1> QED BY <1>1, <1>2, <1>3, <1>4

-----------------------------------------------------------------------------
(* Where a loop is, what it counts and what it may still do                *)

\* The tools are there until a cap takes them away.
ToolsAllowed(l, cap) == ~l.toolsDisabled => l.round < cap /\ l.streak < FailureLimit

\* l is a loop's record, cap its cap of rounds.
Counts(l, cap) ==
  /\ l.round <= cap /\ l.made <= cap
  /\ l.pc \in {"unborn", "first", "open", "executing", "tools"} => l.made = l.round
  /\ l.pc \in {"resolved", "call"} => l.made = l.round + 1 /\ l.round < cap
  /\ l.pc = "deliver" /\ l.last = "ask" => l.made = l.round
  /\ l.made <= l.round + 1
  /\ l.written <= 2 * l.made
  /\ l.pc \notin {"deliver", "done"} => l.written = 0 /\ l.last = "none"
  /\ l.pc = "deliver" => l.last # "none"
  /\ l.pc = "done" => l.written = 2 * l.made

Caps(l, cap) ==
  /\ l.pc = "first" => l.round = 0 /\ l.streak = 0
  /\ l.pc = "open" => ToolsAllowed(l, cap)
  /\ l.pc \in {"executing", "tools"} => l.round < cap /\ l.streak < FailureLimit
  /\ l.pc = "call" =>
       (~l.toolsDisabled => l.round + 1 < cap /\ l.streak < FailureLimit)

Placed(l) ==
  /\ l.pc = "unborn" => l = NoLoop
  /\ l.pc # "unborn" => l.post \in Post /\ l.flow # "none"

LoopFits(r) ==
  Counts(loop[r], maxRounds[r]) /\ Caps(loop[r], maxRounds[r]) /\ Placed(loop[r])

LoopInv == TypeLoop /\ \A r \in Run : LoopFits(r)

\* A stream begins with the first call and is over when the run is.
StreamFits(r) == stream[r].pc = "none" <=> loop[r].pc \in {"unborn", "first"}

\* A step of run r's loop, as far as the loop itself goes.
OnlyLoop(r) ==
  /\ TypeLoop'
  /\ \A s \in Run \ {r} : loop'[s] = loop[s]
  /\ LoopFits(r)'
  /\ loop'[r].post = loop[r].post /\ loop'[r].flow = loop[r].flow
  /\ loop[r].pc # "unborn" /\ loop'[r].pc \notin {"unborn", "first"}

\* The empty records are records.
LEMMA NoLoopFields ==
  ASSUME NEW r \in Run
  PROVE  NoLoop \in LoopRecord /\ Counts(NoLoop, maxRounds[r])
         /\ Caps(NoLoop, maxRounds[r]) /\ Placed(NoLoop)
<1>1. 0 \in Rounds /\ maxRounds[r] \in Nat \ {0}
  BY RoundsFields
<1>2. NoLoop \in LoopRecord
  BY <1>1, LoopAssumption DEF NoLoop, LoopRecord, LoopPlace
<1>3. Counts(NoLoop, maxRounds[r])
  BY <1>1 DEF NoLoop, Counts
<1>4. Caps(NoLoop, maxRounds[r])
  BY <1>1 DEF NoLoop, Caps
<1>5. Placed(NoLoop)
  BY DEF NoLoop, Placed
<1> QED BY <1>2, <1>3, <1>4, <1>5

\* A loop that goes on to another place.
LEMMA GotoFields ==
  ASSUME TypeLoop, NEW r \in Run, NEW pc \in LoopPlace, Goto(r, pc)
  PROVE  /\ TypeLoop'
         /\ \A s \in Run \ {r} : loop'[s] = loop[s]
         /\ loop'[r] = [loop[r] EXCEPT !.pc = pc]
BY DEF TypeLoop, Goto, LoopRecord

LEMMA DeliverFields ==
  ASSUME TypeLoop, NEW r \in Run, NEW last \in {"end", "ask", "error", "stop"},
         ThenDeliver(r, last)
  PROVE  /\ TypeLoop'
         /\ \A s \in Run \ {r} : loop'[s] = loop[s]
         /\ loop'[r] = [loop[r] EXCEPT !.pc = "deliver", !.last = last, !.streak = 0,
                                       !.said = FALSE, !.toolsDisabled = FALSE]
<1> DEFINE m == [loop[r] EXCEPT !.pc = "deliver", !.last = last, !.streak = 0,
                                !.said = FALSE, !.toolsDisabled = FALSE]
<1>1. loop[r] \in LoopRecord
  BY DEF TypeLoop
<1>2. m \in LoopRecord
  <2>1. 0 \in 0..FailureLimit
    BY LoopAssumption
  <2> QED BY <1>1, <2>1, Zenon DEF LoopRecord, LoopPlace
<1>3. loop' = [loop EXCEPT ![r] = m]
  BY DEF ThenDeliver
<1> HIDE DEF m
<1>4. loop' \in [Run -> LoopRecord]
  BY <1>2, <1>3 DEF TypeLoop
<1>5. loop'[r] = m /\ \A s \in Run \ {r} : loop'[s] = loop[s]
  BY <1>3 DEF TypeLoop
<1> QED BY <1>4, <1>5 DEF TypeLoop, m

\* A loop is left from any place a round goes through.
LEMMA DeliverFits ==
  ASSUME LoopInv, NEW r \in Run, NEW last \in {"end", "ask", "error", "stop"},
         ThenDeliver(r, last),
         loop[r].pc \in {"open", "executing", "tools", "resolved", "call"},
         last = "ask" => loop[r].pc = "open"
  PROVE  OnlyLoop(r) /\ loop'[r].pc = "deliver" /\ loop'[r].last = last
         /\ loop'[r].made = loop[r].made /\ loop'[r].round = loop[r].round
         /\ loop'[r].written = loop[r].written
<1> DEFINE m == [loop[r] EXCEPT !.pc = "deliver", !.last = last, !.streak = 0,
                                !.said = FALSE, !.toolsDisabled = FALSE]
<1>1. /\ TypeLoop'
      /\ \A s \in Run \ {r} : loop'[s] = loop[s]
      /\ loop'[r] = m
  BY DeliverFields DEF LoopInv
<1>2. loop[r] \in LoopRecord /\ LoopFits(r) /\ maxRounds[r] \in Nat /\ Rounds \subseteq Nat
  BY RoundsFields DEF LoopInv, TypeLoop
<1>3. /\ m.pc = "deliver" /\ m.last = last /\ m.post = loop[r].post /\ m.flow = loop[r].flow
      /\ m.made = loop[r].made /\ m.round = loop[r].round /\ m.written = loop[r].written
  BY <1>2 DEF LoopRecord
<1> HIDE DEF m
<1>4. Counts(m, maxRounds[r])
  BY <1>2, <1>3 DEF LoopFits, Counts, LoopRecord
<1>5. Caps(m, maxRounds[r])
  BY <1>3 DEF Caps
<1>6. Placed(m)
  BY <1>2, <1>3 DEF LoopFits, Placed
<1> QED BY <1>1, <1>3, <1>4, <1>5, <1>6 DEF OnlyLoop, LoopFits

\* A loop that only goes on keeps what it has counted.
LEMMA GotoFits ==
  ASSUME LoopInv, NEW r \in Run, NEW pc \in LoopPlace, Goto(r, pc),
         \/ loop[r].pc = "first" /\ pc \in {"open", "done"}
         \/ loop[r].pc = "open" /\ ~loop[r].toolsDisabled /\ pc = "executing"
         \/ loop[r].pc = "executing" /\ pc = "tools"
         \/ Delivered(r) /\ pc = "done"
  PROVE  /\ OnlyLoop(r)
         /\ loop'[r] = [loop[r] EXCEPT !.pc = pc]
         /\ loop'[r].pc = pc /\ loop'[r].last = loop[r].last
         /\ loop'[r].made = loop[r].made /\ loop'[r].round = loop[r].round
         /\ loop'[r].written = loop[r].written
<1> DEFINE m == [loop[r] EXCEPT !.pc = pc]
<1>1. /\ TypeLoop'
      /\ \A s \in Run \ {r} : loop'[s] = loop[s]
      /\ loop'[r] = m
  BY GotoFields DEF LoopInv
<1>2. loop[r] \in LoopRecord /\ LoopFits(r) /\ maxRounds[r] \in Nat \ {0} /\ Rounds \subseteq Nat
  BY RoundsFields DEF LoopInv, TypeLoop
<1>3. /\ m.pc = pc /\ m.last = loop[r].last /\ m.post = loop[r].post
      /\ m.flow = loop[r].flow /\ m.streak = loop[r].streak
      /\ m.made = loop[r].made /\ m.round = loop[r].round /\ m.written = loop[r].written
  BY <1>2 DEF LoopRecord
<1>4. m.toolsDisabled = loop[r].toolsDisabled
  BY <1>2 DEF LoopRecord
<1> HIDE DEF m
<1>5. Counts(m, maxRounds[r])
  <2>1. loop[r].pc = "first" => loop[r].made = 0
    BY <1>2 DEF LoopFits, Counts, Caps
  <2> QED BY <1>2, <1>3, <2>1 DEF LoopFits, Counts, LoopRecord, Delivered
<1>6. Caps(m, maxRounds[r])
  <2>1. m.toolsDisabled <=> loop[r].toolsDisabled
    BY <1>4
  <2> QED BY <1>2, <1>3, <2>1, LoopAssumption
          DEF LoopFits, Caps, ToolsAllowed, LoopRecord, Delivered
<1>7. Placed(m)
  BY <1>2, <1>3 DEF LoopFits, Placed, Delivered
<1>8. loop[r].pc # "unborn" /\ pc \notin {"unborn", "first"}
  BY DEF Delivered
<1>9. OnlyLoop(r)
  BY <1>1, <1>3, <1>5, <1>6, <1>7, <1>8 DEF OnlyLoop, LoopFits
<1> QED BY <1>1, <1>3, <1>9 DEF m

\* A round joins the rounds to deliver.
LEMMA RoundJoins ==
  ASSUME LoopInv, NEW r \in Run, NEW ok \in BOOLEAN, NEW fails \in 0..FailureLimit,
         appendToolTurnAndPost(r, ok, fails),
         \/ loop[r].pc = "open" /\ ~loop[r].toolsDisabled
         \/ loop[r].pc = "tools"
  PROVE  /\ OnlyLoop(r)
         /\ loop'[r].pc = "resolved" /\ loop'[r].last = "none"
         /\ loop'[r].made = loop[r].made + 1 /\ loop'[r].round = loop[r].round
         /\ loop'[r].written = loop[r].written
<1> DEFINE streak == FailureStreak(r, ok, fails)
           m == [loop[r] EXCEPT !.pc = "resolved", !.made = @ + 1, !.streak = streak]
<1>1. loop[r] \in LoopRecord /\ LoopFits(r) /\ maxRounds[r] \in Nat \ {0} /\ Rounds \subseteq Nat
  BY RoundsFields DEF LoopInv, TypeLoop
<1>2. streak \in 0..FailureLimit
  BY <1>1, LoopAssumption DEF FailureStreak, LoopRecord
<1>3. loop[r].made + 1 \in Nat
  BY <1>1 DEF LoopRecord
<1>4. m \in LoopRecord
  BY <1>1, <1>2, <1>3, Zenon DEF LoopRecord, LoopPlace
<1>5. /\ m.pc = "resolved" /\ m.last = loop[r].last /\ m.post = loop[r].post
      /\ m.flow = loop[r].flow /\ m.made = loop[r].made + 1
      /\ m.round = loop[r].round /\ m.written = loop[r].written
  BY <1>1 DEF LoopRecord
<1>6. loop' = [loop EXCEPT ![r] = m]
  BY DEF appendToolTurnAndPost
<1> HIDE DEF m, streak
<1>7. TypeLoop' /\ loop'[r] = m /\ \A s \in Run \ {r} : loop'[s] = loop[s]
  BY <1>4, <1>6 DEF LoopInv, TypeLoop
<1>8. loop[r].round < maxRounds[r] /\ loop[r].made = loop[r].round
      /\ loop[r].last = "none" /\ loop[r].written = 0
  BY <1>1 DEF LoopFits, Counts, Caps, ToolsAllowed
<1>9. Counts(m, maxRounds[r])
  BY <1>1, <1>5, <1>8 DEF Counts, LoopRecord
<1>10. Caps(m, maxRounds[r])
  BY <1>5 DEF Caps
<1>11. Placed(m)
  BY <1>1, <1>5 DEF LoopFits, Placed
<1> QED BY <1>5, <1>7, <1>8, <1>9, <1>10, <1>11 DEF OnlyLoop, LoopFits

\* The model is called again, without tools once a cap is reached.
LEMMA RoundFinishes ==
  ASSUME LoopInv, NEW r \in Run, finishToolRound(r), loop[r].pc = "resolved"
  PROVE  /\ OnlyLoop(r)
         /\ loop'[r].pc = "call" /\ loop'[r].last = "none"
         /\ loop'[r].made = loop[r].made /\ loop'[r].round = loop[r].round
         /\ loop'[r].written = loop[r].written
<1> DEFINE off == \/ loop[r].toolsDisabled
                  \/ loop[r].streak >= FailureLimit
                  \/ loop[r].round + 1 >= maxRounds[r]
           m == [loop[r] EXCEPT !.pc = "call", !.toolsDisabled = off]
<1>1. loop[r] \in LoopRecord /\ LoopFits(r) /\ maxRounds[r] \in Nat \ {0} /\ Rounds \subseteq Nat
  BY RoundsFields DEF LoopInv, TypeLoop
<1>2. off \in BOOLEAN
  OBVIOUS
<1>3. loop' = [loop EXCEPT ![r] = m]
  BY DEF finishToolRound
<1>4. ~off => loop[r].round + 1 < maxRounds[r] /\ loop[r].streak < FailureLimit
  <2>1. /\ loop[r].streak \in Nat /\ loop[r].round \in Nat
        /\ FailureLimit \in Nat /\ maxRounds[r] \in Nat
    <3>1. loop[r].streak \in 0..FailureLimit /\ loop[r].round \in Rounds
      BY <1>1, Zenon DEF LoopRecord
    <3> HIDE DEF off, m
    <3>2. FailureLimit \in Nat
      BY LoopAssumption
    <3>3. maxRounds[r] \in Nat /\ Rounds \subseteq Nat
      BY <1>1
    <3>4. loop[r].streak \in Nat
      BY <3>1, <3>2
    <3>5. loop[r].round \in Nat
      BY <3>1, <3>3
    <3> QED BY <3>2, <3>3, <3>4, <3>5
  <2>2. ~off => ~(loop[r].streak >= FailureLimit) /\ ~(loop[r].round + 1 >= maxRounds[r])
    BY Zenon
  <2> HIDE DEF off
  <2> QED BY <2>1, <2>2
<1> HIDE DEF off
<1>5. m \in LoopRecord
  BY <1>1, <1>2, Zenon DEF LoopRecord, LoopPlace
<1>6. /\ m.pc = "call" /\ m.last = loop[r].last /\ m.post = loop[r].post
      /\ m.flow = loop[r].flow /\ m.made = loop[r].made /\ m.streak = loop[r].streak
      /\ m.round = loop[r].round /\ m.written = loop[r].written
  BY <1>1 DEF LoopRecord
<1>7. m.toolsDisabled = off
  BY <1>1, Zenon DEF LoopRecord
<1> HIDE DEF m
<1>8. TypeLoop' /\ loop'[r] = m /\ \A s \in Run \ {r} : loop'[s] = loop[s]
  BY <1>3, <1>5 DEF LoopInv, TypeLoop
<1>9. Counts(m, maxRounds[r])
  BY <1>1, <1>6 DEF LoopFits, Counts, LoopRecord
<1>10. Caps(m, maxRounds[r])
  <2>1. ~m.toolsDisabled => m.round + 1 < maxRounds[r] /\ m.streak < FailureLimit
    BY <1>4, <1>6, <1>7
  <2> QED BY <1>6, <2>1 DEF Caps
<1>11. Placed(m)
  BY <1>1, <1>6 DEF LoopFits, Placed
<1>12. loop[r].last = "none"
  BY <1>1 DEF LoopFits, Counts
<1> QED BY <1>6, <1>8, <1>9, <1>10, <1>11, <1>12 DEF OnlyLoop, LoopFits

\* Any other record in the place of a loop's.
LEMMA ReplaceFits ==
  ASSUME LoopInv, NEW r \in Run, NEW m \in LoopRecord, loop' = [loop EXCEPT ![r] = m],
         Counts(m, maxRounds[r]), Caps(m, maxRounds[r]),
         loop[r].pc # "unborn", m.pc \notin {"unborn", "first"},
         m.post = loop[r].post, m.flow = loop[r].flow
  PROVE  OnlyLoop(r) /\ loop'[r] = m
<1>1. TypeLoop' /\ loop'[r] = m /\ \A s \in Run \ {r} : loop'[s] = loop[s]
  BY DEF LoopInv, TypeLoop
<1>2. Placed(m)
  BY DEF LoopInv, LoopFits, Placed
<1> QED BY <1>1, <1>2 DEF OnlyLoop, LoopFits

\* The text of an answer is forwarded.
LEMMA TextFields ==
  ASSUME LoopInv, NEW r \in Run, loop[r].pc = "open",
         loop' = [loop EXCEPT ![r].said = TRUE]
  PROVE  /\ OnlyLoop(r)
         /\ loop'[r].pc = "open" /\ loop'[r].last = "none"
         /\ loop'[r].made = loop[r].made /\ loop'[r].round = loop[r].round
         /\ loop'[r].written = loop[r].written
<1> DEFINE m == [loop[r] EXCEPT !.said = TRUE]
<1>1. loop[r] \in LoopRecord /\ LoopFits(r)
  BY DEF LoopInv, TypeLoop
<1>2. m \in LoopRecord
  BY <1>1, Zenon DEF LoopRecord
<1>3. /\ m.pc = loop[r].pc /\ m.last = loop[r].last /\ m.post = loop[r].post
      /\ m.flow = loop[r].flow /\ m.made = loop[r].made /\ m.streak = loop[r].streak
      /\ m.round = loop[r].round /\ m.written = loop[r].written
  BY <1>1 DEF LoopRecord
<1>4. m.toolsDisabled = loop[r].toolsDisabled
  BY <1>1, Zenon DEF LoopRecord
<1> HIDE DEF m
<1>5. Counts(m, maxRounds[r])
  BY <1>1, <1>3 DEF LoopFits, Counts
<1>6. Caps(m, maxRounds[r])
  <2>1. m.toolsDisabled <=> loop[r].toolsDisabled
    BY <1>4
  <2> QED BY <1>1, <1>3, <2>1 DEF LoopFits, Caps, ToolsAllowed
<1>7. loop[r].last = "none"
  BY <1>1 DEF LoopFits, Counts
<1>8. OnlyLoop(r) /\ loop'[r] = m
  BY <1>2, <1>3, <1>5, <1>6, ReplaceFits DEF m
<1> QED BY <1>3, <1>7, <1>8

\* The model is called for another round.
LEMMA NextRoundFields ==
  ASSUME LoopInv, NEW r \in Run, loop[r].pc = "call",
         loop' = [loop EXCEPT ![r].pc = "open", ![r].round = @ + 1, ![r].said = FALSE]
  PROVE  /\ OnlyLoop(r)
         /\ loop'[r].pc = "open" /\ loop'[r].last = "none"
         /\ loop'[r].made = loop[r].made /\ loop'[r].round = loop[r].round + 1
         /\ loop'[r].written = loop[r].written
<1> DEFINE m == [loop[r] EXCEPT !.pc = "open", !.round = @ + 1, !.said = FALSE]
<1>1. loop[r] \in LoopRecord /\ LoopFits(r) /\ maxRounds[r] \in Nat \ {0} /\ Rounds \subseteq Nat
      /\ 0..maxRounds[r] \subseteq Rounds
  BY RoundsFields DEF LoopInv, TypeLoop
<1>2. /\ loop[r].made = loop[r].round + 1 /\ loop[r].round < maxRounds[r]
      /\ loop[r].last = "none" /\ loop[r].written = 0
  BY <1>1 DEF LoopFits, Counts
<1>3. loop[r].round + 1 \in Rounds
  <2>1. loop[r].round \in Nat
    BY <1>1 DEF LoopRecord
  <2>2. loop[r].round + 1 \in 0..maxRounds[r]
    BY <1>1, <1>2, <2>1
  <2> QED BY <1>1, <2>2
<1>4. m \in LoopRecord
  BY <1>1, <1>3, Zenon DEF LoopRecord, LoopPlace
<1>5. /\ m.pc = "open" /\ m.last = loop[r].last /\ m.post = loop[r].post
      /\ m.flow = loop[r].flow /\ m.made = loop[r].made /\ m.streak = loop[r].streak
      /\ m.round = loop[r].round + 1 /\ m.written = loop[r].written
  BY <1>1 DEF LoopRecord
<1>6. m.toolsDisabled = loop[r].toolsDisabled
  BY <1>1, Zenon DEF LoopRecord
<1>7. loop' = [loop EXCEPT ![r] = m]
  OBVIOUS
<1> HIDE DEF m
<1>8. Counts(m, maxRounds[r])
  BY <1>1, <1>2, <1>5 DEF Counts, LoopRecord
<1>9. Caps(m, maxRounds[r])
  <2>1. m.toolsDisabled <=> loop[r].toolsDisabled
    BY <1>6
  <2> QED BY <1>1, <1>5, <2>1 DEF LoopFits, Caps, ToolsAllowed
<1>10. OnlyLoop(r) /\ loop'[r] = m
  BY <1>4, <1>5, <1>7, <1>8, <1>9, ReplaceFits
<1> QED BY <1>2, <1>5, <1>10

\* A turn of a round is written.
LEMMA WrittenFields ==
  ASSUME LoopInv, NEW r \in Run, loop[r].pc = "deliver",
         loop[r].written < 2 * loop[r].made,
         loop' = [loop EXCEPT ![r].written = loop[r].written + 1]
  PROVE  /\ OnlyLoop(r)
         /\ loop'[r].pc = "deliver" /\ loop'[r].last = loop[r].last
         /\ loop'[r].made = loop[r].made /\ loop'[r].round = loop[r].round
         /\ loop'[r].written = loop[r].written + 1
<1> DEFINE m == [loop[r] EXCEPT !.written = loop[r].written + 1]
<1>1. loop[r] \in LoopRecord /\ LoopFits(r)
  BY DEF LoopInv, TypeLoop
<1>2. loop[r].written \in Nat /\ loop[r].made \in Nat
  BY <1>1 DEF LoopRecord
<1>3. loop[r].written + 1 \in Nat
  BY <1>2
<1>4. m \in LoopRecord
  BY <1>1, <1>3, Zenon DEF LoopRecord
<1>5. /\ m.pc = loop[r].pc /\ m.last = loop[r].last /\ m.post = loop[r].post
      /\ m.flow = loop[r].flow /\ m.made = loop[r].made
      /\ m.round = loop[r].round /\ m.written = loop[r].written + 1
  BY <1>1 DEF LoopRecord
<1> HIDE DEF m
<1>6. Counts(m, maxRounds[r])
  BY <1>1, <1>2, <1>5 DEF LoopFits, Counts
<1>7. Caps(m, maxRounds[r])
  BY <1>5 DEF Caps
<1>8. OnlyLoop(r) /\ loop'[r] = m
  BY <1>4, <1>5, <1>6, <1>7, ReplaceFits DEF m
<1> QED BY <1>5, <1>8

\* After the batch that awaits a decision only the end is left.
LEMMA AskedFields ==
  ASSUME LoopInv, NEW r \in Run, loop[r].pc = "deliver",
         loop' = [loop EXCEPT ![r].last = "end"]
  PROVE  /\ OnlyLoop(r)
         /\ loop'[r].pc = "deliver" /\ loop'[r].last = "end"
         /\ loop'[r].made = loop[r].made /\ loop'[r].round = loop[r].round
         /\ loop'[r].written = loop[r].written
<1> DEFINE m == [loop[r] EXCEPT !.last = "end"]
<1>1. loop[r] \in LoopRecord /\ LoopFits(r)
  BY DEF LoopInv, TypeLoop
<1>2. m \in LoopRecord
  BY <1>1, Zenon DEF LoopRecord
<1>3. /\ m.pc = loop[r].pc /\ m.last = "end" /\ m.post = loop[r].post
      /\ m.flow = loop[r].flow /\ m.made = loop[r].made
      /\ m.round = loop[r].round /\ m.written = loop[r].written
  BY <1>1 DEF LoopRecord
<1> HIDE DEF m
<1>4. Counts(m, maxRounds[r])
  BY <1>1, <1>3 DEF LoopFits, Counts
<1>5. Caps(m, maxRounds[r])
  BY <1>3 DEF Caps
<1>6. OnlyLoop(r) /\ loop'[r] = m
  BY <1>2, <1>3, <1>4, <1>5, ReplaceFits DEF m
<1> QED BY <1>3, <1>6

\* Every step of a run's loop keeps to that run, and to its caps.
LEMMA LoopStepFits ==
  ASSUME LoopInv, NEW r \in Run, LoopStep(r)
  PROVE  OnlyLoop(r)
<1>0. {"open", "executing", "tools", "resolved", "call", "deliver", "done"} \subseteq LoopPlace
  BY DEF LoopPlace
<1>1. CASE FirstCall(r)
  BY <1>0, <1>1, GotoFits DEF FirstCall
<1>2. CASE FirstCallFails(r)
  BY <1>0, <1>2, GotoFits DEF FirstCallFails
<1>3. CASE ForwardText(r)
  BY <1>3, TextFields DEF ForwardText
<1>4. CASE AnswerEnds(r)
  <2>1. PICK last \in {"end", "ask", "error", "stop"} :
          last # "ask" /\ ThenDeliver(r, last)
    BY <1>4 DEF AnswerEnds
  <2> QED BY <1>4, <2>1, DeliverFits DEF AnswerEnds
<1>5. CASE StreamFails(r)
  BY <1>5, DeliverFits DEF StreamFails
<1>6. CASE CallsTools(r)
  <2>1. CASE ThenDeliver(r, "stop")
    BY <1>6, <2>1, DeliverFits DEF CallsTools
  <2>2. CASE Goto(r, "executing")
    BY <1>0, <1>6, <2>2, GotoFits DEF CallsTools
  <2> QED BY <1>6, <2>1, <2>2 DEF CallsTools
<1>7. CASE RejectsBatch(r)
  BY <1>7, RoundJoins DEF RejectsBatch
<1>8. CASE AsksUser(r)
  <2>1. PICK last \in {"end", "ask", "error", "stop"} : ThenDeliver(r, last)
    BY <1>8 DEF AsksUser
  <2> QED BY <1>8, <2>1, DeliverFits DEF AsksUser
<1>9. CASE SendExecuting(r)
  <2>1. CASE Goto(r, "tools")
    BY <1>0, <1>9, <2>1, GotoFits DEF SendExecuting
  <2>2. CASE ThenDeliver(r, "stop")
    BY <1>9, <2>2, DeliverFits DEF SendExecuting
  <2> QED BY <1>9, <2>1, <2>2 DEF SendExecuting
<1>10. CASE ExecuteTools(r)
  <2>1. CASE ThenDeliver(r, "stop")
    BY <1>10, <2>1, DeliverFits DEF ExecuteTools
  <2>2. ASSUME NEW ok \in BOOLEAN, NEW fails \in 0..FailureLimit,
               appendToolTurnAndPost(r, ok, fails)
        PROVE  OnlyLoop(r)
    BY <1>10, <2>2, RoundJoins DEF ExecuteTools
  <2>3. 0 \in 0..FailureLimit
    BY LoopAssumption
  <2> QED BY <1>10, <2>1, <2>2, <2>3 DEF ExecuteTools
<1>11. CASE SendResolved(r)
  <2>1. CASE finishToolRound(r)
    BY <1>11, <2>1, RoundFinishes DEF SendResolved
  <2>2. CASE ThenDeliver(r, "stop")
    BY <1>11, <2>2, DeliverFits DEF SendResolved
  <2> QED BY <1>11, <2>1, <2>2 DEF SendResolved
<1>12. CASE CallModel(r)
  <2>1. CASE ThenDeliver(r, "error")
    BY <1>12, <2>1, DeliverFits DEF CallModel
  <2>2. CASE loop' = [loop EXCEPT ![r].pc = "open", ![r].round = @ + 1, ![r].said = FALSE]
    BY <1>12, <2>2, NextRoundFields DEF CallModel
  <2> QED BY <1>12, <2>1, <2>2 DEF CallModel
<1>13. CASE WriteToolTurn(r)
  BY <1>13, WrittenFields DEF WriteToolTurn
<1>14. CASE SendLast(r)
  <2>1. loop[r].pc = "deliver" /\ loop[r].last \in {"ask", "end", "error", "stop"}
    BY <1>14 DEF SendLast, Delivered, LoopInv, TypeLoop, LoopRecord, LoopFits, Counts
  <2>2. Goto(r, "done") \/ loop' = [loop EXCEPT ![r].last = "end"]
    BY <1>14, <2>1 DEF SendLast
  <2>3. CASE Goto(r, "done")
    BY <1>0, <1>14, <2>3, GotoFits DEF SendLast
  <2>4. CASE loop' = [loop EXCEPT ![r].last = "end"]
    BY <2>1, <2>4, AskedFields
  <2> QED BY <2>2, <2>3, <2>4
<1> QED BY <1>1, <1>2, <1>3, <1>4, <1>5, <1>6, <1>7, <1>8, <1>9, <1>10, <1>11, <1>12,
           <1>13, <1>14 DEF LoopStep

\* A run starts, and what earlier runs of its post counted is forgotten.
Started(n, p) ==
  /\ n \in Run /\ loop[n].pc = "unborn"
  /\ loop'[n].pc = "first" /\ loop'[n].post = p
  /\ loop'[n].made = 0 /\ loop'[n].written = 0 /\ loop'[n].last = "none"
  /\ \A s \in Run \ {n} :
       \/ loop'[s] = loop[s]
       \/ /\ loop[s].pc = "done" /\ loop'[s].pc = "done"
          /\ loop[s].post = p /\ loop'[s].post = p /\ loop'[s].flow = loop[s].flow
          /\ loop'[s].made = 0 /\ loop'[s].written = 0 /\ loop'[s].last = "none"

\* The record a run starts with, and the one that is left of it in the end.
Fresh(p, flow, pc) == [NoLoop EXCEPT !.post = p, !.pc = pc, !.flow = flow]

LEMMA FirstFields ==
  ASSUME NEW r \in Run, NEW p \in Post, NEW flow \in {"dm", "mention", "shared"},
         NEW pc \in {"first", "done"}
  PROVE  LET m == Fresh(p, flow, pc)
         IN  /\ m \in LoopRecord
             /\ Counts(m, maxRounds[r]) /\ Caps(m, maxRounds[r]) /\ Placed(m)
             /\ m.pc = pc /\ m.post = p /\ m.flow = flow
             /\ m.made = 0 /\ m.written = 0 /\ m.last = "none"
<1> DEFINE m == Fresh(p, flow, pc)
<1>1. NoLoop \in LoopRecord
  BY NoLoopFields
<1>2. m \in LoopRecord
  BY <1>1, Zenon DEF Fresh, LoopRecord, LoopPlace
<1>3. /\ m.pc = pc /\ m.post = p /\ m.flow = flow /\ m.round = 0 /\ m.streak = 0
      /\ m.made = 0 /\ m.written = 0 /\ m.last = "none"
  BY DEF Fresh, NoLoop
<1>4. maxRounds[r] \in Nat \ {0}
  BY RoundsFields
<1> HIDE DEF m
<1>5. Counts(m, maxRounds[r])
  BY <1>3, <1>4 DEF Counts
<1>6. Caps(m, maxRounds[r])
  BY <1>3 DEF Caps
<1>7. Placed(m)
  BY <1>3 DEF Placed
<1> QED BY <1>2, <1>3, <1>5, <1>6, <1>7 DEF m

LEMMA ReplyFields ==
  ASSUME LoopInv, NEW p \in Post, Reply(p)
  PROVE  LoopInv' /\ Started(NextRun, p)
<1> DEFINE m == Fresh(p, ReplyFlow, "first")
<1>1. PICK n \in Run : n = NextRun /\ loop[n].pc = "unborn"
  BY NextRunFields DEF Reply
<1>2. loop[n] = NoLoop
  BY <1>1 DEF LoopInv, LoopFits, Placed
<1>3. ReplyFlow \in {"dm", "mention"}
  BY LoopAssumption
<1>4. loop' = [loop EXCEPT ![n] = m]
  <2>1. loop' = [loop EXCEPT ![n].post = p, ![n].pc = "first", ![n].flow = ReplyFlow]
    BY <1>1 DEF Reply
  <2>2. loop' = [loop EXCEPT ![n] = [loop[n] EXCEPT !.post = p, !.pc = "first",
                                                    !.flow = ReplyFlow]]
    BY <2>1 DEF LoopInv, TypeLoop
  <2>3. m = [NoLoop EXCEPT !.post = p, !.pc = "first", !.flow = ReplyFlow]
    BY DEF Fresh
  <2> QED BY <1>2, <2>2, <2>3
<1>5. /\ m \in LoopRecord
      /\ Counts(m, maxRounds[n]) /\ Caps(m, maxRounds[n]) /\ Placed(m)
      /\ m.pc = "first" /\ m.post = p /\ m.made = 0 /\ m.written = 0 /\ m.last = "none"
  BY <1>3, FirstFields
<1> HIDE DEF m
<1>6. TypeLoop' /\ loop'[n] = m /\ \A s \in Run \ {n} : loop'[s] = loop[s]
  BY <1>4, <1>5 DEF LoopInv, TypeLoop
<1>7. LoopInv'
  BY <1>5, <1>6 DEF LoopInv, LoopFits
<1> QED BY <1>1, <1>5, <1>6, <1>7 DEF Started

LEMMA RegenerateFields ==
  ASSUME LoopInv, NEW p \in Post, Regenerate(p)
  PROVE  LoopInv' /\ Started(NextRun, p)
<1>1. PICK n \in Run : n = NextRun /\ loop[n].pc = "unborn"
  BY NextRunFields DEF Regenerate
<1> DEFINE first == Fresh(p, "shared", "first")
           over(s) == Fresh(p, loop[s].flow, "done")
           new(s) == IF s = n THEN first
                     ELSE IF loop[s].pc = "done" /\ loop[s].post = p THEN over(s)
                     ELSE loop[s]
<1>2. loop' = [s \in Run |-> new(s)]
  BY <1>1 DEF Regenerate, Fresh
<1>3. /\ first \in LoopRecord
      /\ Counts(first, maxRounds[n]) /\ Caps(first, maxRounds[n]) /\ Placed(first)
      /\ first.pc = "first" /\ first.post = p
      /\ first.made = 0 /\ first.written = 0 /\ first.last = "none"
  BY FirstFields
<1>4. ASSUME NEW s \in Run, loop[s].pc = "done" /\ loop[s].post = p
      PROVE  /\ over(s) \in LoopRecord
             /\ Counts(over(s), maxRounds[s]) /\ Caps(over(s), maxRounds[s])
             /\ Placed(over(s))
             /\ over(s).pc = "done" /\ over(s).post = p /\ over(s).flow = loop[s].flow
             /\ over(s).made = 0 /\ over(s).written = 0 /\ over(s).last = "none"
  <2>1. loop[s].flow \in {"dm", "mention", "shared"}
    BY <1>4 DEF LoopInv, TypeLoop, LoopRecord, LoopFits, Placed
  <2> QED BY <2>1, FirstFields
<1> HIDE DEF first, over
<1>5. \A s \in Run : loop'[s] = new(s)
  BY <1>2
<1>6. \A s \in Run : new(s) \in LoopRecord
  BY <1>3, <1>4 DEF LoopInv, TypeLoop
<1>7. \A s \in Run : LoopFits(s)'
  BY <1>3, <1>4, <1>5 DEF LoopInv, LoopFits
<1>8. LoopInv'
  BY <1>2, <1>6, <1>7 DEF LoopInv, TypeLoop
<1>9. Started(n, p)
  BY <1>1, <1>3, <1>4, <1>5 DEF Started
<1> QED BY <1>1, <1>8, <1>9

-----------------------------------------------------------------------------
(* The events, the streams and the turns                                   *)

\* Only a batch has a phase.
OutFits(r) == \A i \in 1..Len(out[r]) : out[r][i].kind = "batch" <=> out[r][i].phase # "none"

BaseInv ==
  /\ TypeTurns /\ TypeContexts /\ TypeOut /\ TypeStream
  /\ LoopInv
  /\ \A r \in Run : StreamFits(r) /\ OutFits(r)

LEMMA EventFields ==
  ASSUME TypeLoop, NEW r \in Run, NEW kind \in {"text", "batch", "end", "error"},
         NEW phase \in {"none", "executing", "resolved", "awaiting"}
  PROVE  /\ Event(kind, r, phase) \in EventRecord
         /\ Event(kind, r, phase).kind = kind /\ Event(kind, r, phase).phase = phase
         /\ Event(kind, r, phase).round = loop[r].round
BY DEF Event, EventRecord, TypeLoop, LoopRecord

\* What a loop puts on its way.
OnlyOut(r, e) ==
  /\ TypeOut'
  /\ \A s \in Run \ {r} : out'[s] = out[s]
  /\ \/ out'[r] = Append(out[r], e)
     \/ out'[r] = out[r] /\ loop[r].flow = "dm" /\ stream[r].pc = "gone"

LEMMA SentFields ==
  ASSUME TypeOut, NEW r \in Run, NEW e \in EventRecord, Sent(r, e)
  PROVE  OnlyOut(r, e)
<1>1. CASE loop[r].flow = "dm" /\ stream[r].pc = "gone"
  BY <1>1 DEF Sent, OnlyOut, TypeOut
<1>2. CASE ~ (loop[r].flow = "dm" /\ stream[r].pc = "gone")
  <2>1. out' = [out EXCEPT ![r] = Append(out[r], e)]
    BY <1>2 DEF Sent
  <2>2. Append(out[r], e) \in Seq(EventRecord)
    BY AppendProperties DEF TypeOut
  <2> QED BY <2>1, <2>2 DEF OnlyOut, TypeOut
<1> QED BY <1>1, <1>2

\* A loop's step leaves the events alone or sends one of its round.
LoopSends(r) ==
  \/ UNCHANGED out
  \/ \E kind \in {"text", "batch", "end", "error"},
        phase \in {"none", "executing", "resolved", "awaiting"} :
       /\ kind = "batch" <=> phase # "none"
       /\ OnlyOut(r, Event(kind, r, phase))

LEMMA LoopStepSends ==
  ASSUME LoopInv, TypeOut, NEW r \in Run, LoopStep(r)
  PROVE  LoopSends(r)
<1>1. ASSUME NEW kind \in {"text", "batch", "end", "error"},
             NEW phase \in {"none", "executing", "resolved", "awaiting"},
             kind = "batch" <=> phase # "none",
             Sent(r, Event(kind, r, phase))
      PROVE  LoopSends(r)
  BY <1>1, EventFields, SentFields DEF LoopSends, LoopInv
<1>2. CASE UNCHANGED out
  BY <1>2 DEF LoopSends
<1>3. CASE SendLast(r)
  <2>1. UNCHANGED out \/ Sent(r, Event("batch", r, "awaiting"))
        \/ \E last \in {"end", "error"} : Sent(r, Event(last, r, "none"))
    <3>1. loop[r].last \in {"ask", "end", "error", "stop"}
      BY <1>3 DEF SendLast, Delivered, LoopInv, TypeLoop, LoopRecord, LoopFits, Counts
    <3> QED BY <1>3, <3>1 DEF SendLast, SendFails
  <2> QED BY <1>1, <1>2, <2>1
<1>4. CASE ForwardText(r)
  BY <1>1, <1>2, <1>4 DEF ForwardText, SendFails
<1>5. CASE StreamFails(r)
  BY <1>1, <1>2, <1>5 DEF StreamFails, SendFails
<1>6. CASE SendExecuting(r) \/ SendResolved(r)
  BY <1>1, <1>2, <1>6 DEF SendExecuting, SendResolved, SendFails
<1>7. CASE \/ FirstCall(r) \/ FirstCallFails(r) \/ AnswerEnds(r) \/ CallsTools(r)
           \/ RejectsBatch(r) \/ AsksUser(r) \/ ExecuteTools(r) \/ CallModel(r)
           \/ WriteToolTurn(r)
  BY <1>2, <1>7 DEF FirstCall, FirstCallFails, AnswerEnds, CallsTools, RejectsBatch,
                    AsksUser, ExecuteTools, CallModel, WriteToolTurn
<1> QED BY <1>3, <1>4, <1>5, <1>6, <1>7 DEF LoopStep

\* The turns of a conversation after one was added.
Added(t) ==
  /\ turns' \in Seq(TurnRecord) /\ Len(turns') = Len(turns) + 1
  /\ \A i \in 1..Len(turns) : turns'[i] = turns[i]
  /\ turns'[Len(turns) + 1] = t

LEMMA AppendFields ==
  ASSUME TypeTurns, NEW t \in TurnRecord, turns' = Append(turns, t)
  PROVE  Added(t)
BY AppendProperties DEF TypeTurns, Added

\* ... and after some were removed: those that are left, in their order.
Kept(f) ==
  /\ turns' \in Seq(TurnRecord)
  /\ f \in [1..Len(turns') -> 1..Len(turns)]
  /\ \A i \in 1..Len(turns') : turns'[i] = turns[f[i]]
  /\ \A i, j \in 1..Len(turns') : i < j <=> f[i] < f[j]

\* A regeneration removes turns and leaves the others in their order.
LEMMA ScrubFields ==
  ASSUME TypeTurns, NEW p \in Post, DeleteResponseTurns(p)
  PROVE  \E f : Kept(f)
<1>1. Len(turns) \in Nat /\ DOMAIN turns = 1..Len(turns)
  BY LenProperties DEF TypeTurns
<1>2. CASE AnchorsOf(p) = {}
  <2>1. turns' = turns
    BY <1>2 DEF DeleteResponseTurns
  <2>2. Kept([i \in 1..Len(turns) |-> i])
    BY <1>1, <2>1 DEF Kept, TypeTurns
  <2> QED BY <2>2
<1>3. CASE AnchorsOf(p) # {}
  <2>1. PICK a \in AnchorsOf(p) :
          turns' = SubSeq(turns, 1, UserTurnBefore(a)) \o SubSeq(turns, a + 1, Len(turns))
    BY <1>3 DEF DeleteResponseTurns
  <2>2. a \in 1..Len(turns)
    BY <1>1 DEF AnchorsOf
  <2> DEFINE u == UserTurnBefore(a)
             s1 == SubSeq(turns, 1, u)
             s2 == SubSeq(turns, a + 1, Len(turns))
  <2>3. u \in 0..(a - 1)
    <3> DEFINE before == {i \in 1..(a - 1) : turns[i].kind = "user"}
    <3>1. a - 1 \in Nat
      BY <1>1, <2>2
    <3>2. before # {} => Max(before) \in before
      BY <3>1, MaxIsIn
    <3> QED BY <1>1, <2>2, <3>2 DEF UserTurnBefore
  <2> HIDE DEF u
  <2>4. \A i \in 1..Len(turns) : turns[i] \in TurnRecord
    BY ElementOfSeq DEF TypeTurns
  <2>5. /\ s1 \in Seq(TurnRecord) /\ Len(s1) = u
        /\ \A i \in 1..u : s1[i] = turns[i]
    <3>1. u \in Int /\ 1 \in Int /\ \A i \in 1..u : turns[i] \in TurnRecord
      BY <1>1, <2>2, <2>3, <2>4
    <3>2. /\ s1 \in Seq(TurnRecord)
          /\ Len(s1) = IF 1 <= u THEN u - 1 + 1 ELSE 0
          /\ \A i \in 1..(u - 1 + 1) : s1[i] = turns[1 + i - 1]
      BY <3>1, SubSeqProperties
    <3> QED BY <2>3, <3>2
  <2>6. /\ s2 \in Seq(TurnRecord) /\ Len(s2) = Len(turns) - a
        /\ \A i \in 1..(Len(turns) - a) : s2[i] = turns[a + i]
    <3>1. /\ Len(turns) \in Int /\ a + 1 \in Int
          /\ \A i \in (a + 1)..Len(turns) : turns[i] \in TurnRecord
      BY <1>1, <2>2, <2>4
    <3>2. /\ s2 \in Seq(TurnRecord)
          /\ Len(s2) = IF a + 1 <= Len(turns) THEN Len(turns) - (a + 1) + 1 ELSE 0
          /\ \A i \in 1..(Len(turns) - (a + 1) + 1) : s2[i] = turns[(a + 1) + i - 1]
      BY <3>1, SubSeqProperties
    <3> HIDE DEF s2
    <3>3. Len(s2) = Len(turns) - a
      <4>1. Len(turns) \in Nat /\ a \in Nat /\ a <= Len(turns)
        BY <1>1, <2>2
      <4>2. Len(s2) = IF a + 1 <= Len(turns) THEN Len(turns) - (a + 1) + 1 ELSE 0
        BY <3>2
      <4>3. CASE a + 1 <= Len(turns)
        BY <4>1, <4>2, <4>3
      <4>4. CASE ~ (a + 1 <= Len(turns))
        BY <4>1, <4>2, <4>4
      <4> QED BY <4>3, <4>4
    <3>4. ASSUME NEW i \in 1..(Len(turns) - a) PROVE s2[i] = turns[a + i]
      <4>1. i \in 1..(Len(turns) - (a + 1) + 1) /\ (a + 1) + i - 1 = a + i
        BY <1>1, <2>2
      <4> QED BY <3>2, <4>1
    <3> QED BY <3>2, <3>3, <3>4
  <2>7. turns' = s1 \o s2
    BY <2>1 DEF u
  <2> HIDE DEF s1, s2
  <2>8. /\ turns' \in Seq(TurnRecord) /\ Len(turns') = u + (Len(turns) - a)
        /\ \A i \in 1..Len(turns') :
             turns'[i] = IF i <= u THEN s1[i] ELSE s2[i - u]
    <3>1. /\ s1 \o s2 \in Seq(TurnRecord)
          /\ Len(s1 \o s2) = Len(s1) + Len(s2)
          /\ \A i \in 1..(Len(s1) + Len(s2)) :
               (s1 \o s2)[i] = IF i <= Len(s1) THEN s1[i] ELSE s2[i - Len(s1)]
      BY <2>5, <2>6, ConcatProperties
    <3> QED BY <2>5, <2>6, <2>7, <3>1
  <2> DEFINE f == [i \in 1..Len(turns') |-> IF i <= u THEN i ELSE a + (i - u)]
  <2>9. \A i \in 1..Len(turns') : f[i] \in 1..Len(turns) /\ turns'[i] = turns[f[i]]
    <3> SUFFICES ASSUME NEW i \in 1..Len(turns')
                 PROVE  f[i] \in 1..Len(turns) /\ turns'[i] = turns[f[i]]
      OBVIOUS
    <3>1. CASE i <= u
      BY <1>1, <2>2, <2>3, <2>5, <2>8, <3>1
    <3>2. CASE ~ (i <= u)
      <4>1. i - u \in 1..(Len(turns) - a)
        BY <1>1, <2>2, <2>3, <2>8, <3>2
      <4>2. s2[i - u] = turns[a + (i - u)]
        BY <2>6, <4>1
      <4> QED BY <1>1, <2>2, <2>3, <2>8, <3>2, <4>1, <4>2
    <3> QED BY <3>1, <3>2
  <2>10. \A i, j \in 1..Len(turns') : i < j <=> f[i] < f[j]
    BY <1>1, <2>2, <2>3, <2>8
  <2>11. f \in [1..Len(turns') -> 1..Len(turns)]
    BY <2>9
  <2> HIDE DEF f
  <2>12. Kept(f)
    BY <2>8, <2>9, <2>10, <2>11 DEF Kept
  <2> QED BY <2>12
<1> QED BY <1>2, <1>3

\* A conversation's turns as they are written.
LEMMA UserTurn ==
  ASSUME NEW p \in Post, Run # {}
  PROVE  Turn("user", p, NoRun, 0) \in TurnRecord
<1>1. PICK r \in Run : TRUE
  OBVIOUS
<1>2. 0 \in Rounds
  <2>1. 0 \in 0..maxRounds[r]
    BY RoundsFields
  <2> QED BY <2>1, RoundsFields
<1> QED BY <1>2, Zenon DEF Turn, TurnRecord

LEMMA RoundTurn ==
  ASSUME LoopInv, NEW r \in Run, loop[r].pc # "unborn", NEW n \in Nat, n < loop[r].made
  PROVE  Use(r, n) \in TurnRecord /\ Result(r, n) \in TurnRecord
<1>1. loop[r].post \in Post
  BY DEF LoopInv, LoopFits, Placed
<1>2. n \in Rounds
  <2>1. loop[r].made <= maxRounds[r] /\ loop[r].made \in Nat
    BY DEF LoopInv, TypeLoop, LoopRecord, LoopFits, Counts
  <2>2. n \in 0..maxRounds[r]
    BY <2>1, RoundsFields
  <2> QED BY <2>2, RoundsFields
<1> QED BY <1>1, <1>2, Zenon DEF Use, Result, Turn, TurnRecord

\* The anchor a stream leaves.
AnchorOf(r) == [Turn("anchor", loop[r].post, r, loop[r].round)
                  EXCEPT !.calls = stream[r].calls, !.text = stream[r].text]

LEMMA AnchorTurn ==
  ASSUME LoopInv, TypeStream, NEW r \in Run, loop[r].pc # "unborn"
  PROVE  /\ AnchorOf(r) \in TurnRecord
         /\ AnchorOf(r).kind = "anchor" /\ AnchorOf(r).run = r
         /\ AnchorOf(r).calls = stream[r].calls /\ AnchorOf(r).text = stream[r].text
<1>1. loop[r].post \in Post
  BY DEF LoopInv, LoopFits, Placed
<1>2. loop[r].round \in Rounds
  BY DEF LoopInv, TypeLoop, LoopRecord
<1>3. stream[r].calls \in SUBSET RunRounds /\ stream[r].text \in SUBSET RunRounds
  BY DEF TypeStream, StreamRecord
<1> DEFINE t == Turn("anchor", loop[r].post, r, loop[r].round)
<1>4. t \in TurnRecord
  BY <1>1, <1>2, Zenon DEF Turn, TurnRecord
<1>5. t.kind = "anchor" /\ t.run = r
  BY DEF Turn
<1> HIDE DEF t
<1>6. AnchorOf(r) = [t EXCEPT !.calls = stream[r].calls, !.text = stream[r].text]
  BY DEF AnchorOf, t
<1>7. AnchorOf(r) \in TurnRecord
  BY <1>3, <1>4, <1>6, Zenon DEF TurnRecord
<1>8. /\ AnchorOf(r).kind = "anchor" /\ AnchorOf(r).run = r
      /\ AnchorOf(r).calls = stream[r].calls /\ AnchorOf(r).text = stream[r].text
  BY <1>4, <1>5, <1>6 DEF TurnRecord
<1> QED BY <1>7, <1>8

\* What a stream accumulates of an event.
LEMMA AccumulateFields ==
  ASSUME NEW r \in Run, NEW acc \in StreamRecord, NEW e \in EventRecord,
         e.kind \in {"text", "batch"}, e.kind = "batch" <=> e.phase # "none"
  PROVE  LET m == Accumulate(acc, r, e)
         IN  /\ m \in StreamRecord /\ m.pc = acc.pc
             /\ \/ m.text = acc.text \cup {<<r, e.round>>} /\ m.calls = acc.calls
                \/ m.text = acc.text /\ m.calls = {<<r, e.round>>}
                \/ m.text = {} /\ m.calls = {}
             /\ e.phase = "resolved" => m.text = {} /\ m.calls = {}
<1> DEFINE x == <<r, e.round>>
           m == Accumulate(acc, r, e)
<1>1. x \in RunRounds
  BY DEF RunRounds, EventRecord
<1>2. /\ acc.text \in SUBSET RunRounds /\ acc.calls \in SUBSET RunRounds
  BY DEF StreamRecord
<1>3. CASE e.kind = "text"
  <2>1. e.phase = "none"
    BY <1>3
  <2>2. m = [acc EXCEPT !.text = @ \cup {x}]
    BY <1>3, <2>1 DEF Accumulate
  <2> QED BY <1>1, <1>2, <2>1, <2>2 DEF StreamRecord
<1>4. CASE e.phase = "resolved"
  <2>1. m = [acc EXCEPT !.text = {}, !.calls = {}]
    BY <1>4 DEF Accumulate
  <2> QED BY <1>2, <1>4, <2>1 DEF StreamRecord
<1>5. CASE e.phase \in {"executing", "awaiting"}
  <2>1. m = [acc EXCEPT !.calls = {x}]
    BY <1>5 DEF Accumulate
  <2> QED BY <1>1, <1>2, <1>5, <2>1 DEF StreamRecord
<1> QED BY <1>3, <1>4, <1>5 DEF EventRecord

\* The first call comes before everything else, and begins the stream.
LEMMA LoopStepFrame ==
  ASSUME NEW r \in Run, LoopStep(r)
  PROVE  /\ UNCHANGED <<canceled, stops>>
         /\ loop[r].pc # "first" => UNCHANGED <<contexts, stream>>
         /\ loop[r].pc = "first" => FirstCall(r) \/ FirstCallFails(r)
         /\ ~ WriteToolTurn(r) => UNCHANGED turns
BY DEF LoopStep, FirstCall, FirstCallFails, ForwardText, AnswerEnds, StreamFails, CallsTools,
       RejectsBatch, AsksUser, SendExecuting, ExecuteTools, SendResolved, CallModel,
       WriteToolTurn, SendLast, Delivered, UnchangedByLoop

LEMMA BaseByLoop ==
  ASSUME BaseInv, NEW r \in Run, LoopStep(r)
  PROVE  BaseInv'
<1>1. OnlyLoop(r) /\ LoopSends(r)
  BY LoopStepFits, LoopStepSends DEF BaseInv
<1>2. LoopInv'
  BY <1>1 DEF BaseInv, LoopInv, OnlyLoop, LoopFits
<1>3. TypeOut' /\ \A s \in Run : OutFits(s)'
  <2>1. CASE UNCHANGED out
    BY <2>1 DEF BaseInv, TypeOut, OutFits
  <2>2. ASSUME NEW kind \in {"text", "batch", "end", "error"},
               NEW phase \in {"none", "executing", "resolved", "awaiting"},
               kind = "batch" <=> phase # "none",
               OnlyOut(r, Event(kind, r, phase))
        PROVE  TypeOut' /\ \A s \in Run : OutFits(s)'
    <3> DEFINE e == Event(kind, r, phase)
    <3>1. e \in EventRecord /\ (e.kind = "batch" <=> e.phase # "none")
      BY <2>2, EventFields DEF BaseInv, LoopInv
    <3> HIDE DEF e
    <3>2. \A s \in Run \ {r} : OutFits(s)'
      BY <2>2 DEF BaseInv, OutFits, OnlyOut
    <3>3. out[r] \in Seq(EventRecord)
      BY DEF BaseInv, TypeOut
    <3>4. CASE out'[r] = Append(out[r], e)
      <4>1. /\ Len(out'[r]) = Len(out[r]) + 1 /\ Len(out[r]) \in Nat
            /\ \A i \in 1..Len(out[r]) : out'[r][i] = out[r][i]
            /\ out'[r][Len(out[r]) + 1] = e
        BY <3>1, <3>3, <3>4, AppendProperties, LenProperties
      <4>2. ASSUME NEW i \in 1..Len(out'[r])
            PROVE  out'[r][i].kind = "batch" <=> out'[r][i].phase # "none"
        <5>1. CASE i \in 1..Len(out[r])
          BY <4>1, <5>1 DEF BaseInv, OutFits
        <5>2. CASE i = Len(out[r]) + 1
          BY <3>1, <4>1, <5>2
        <5> QED BY <4>1, <5>1, <5>2
      <4> QED BY <2>2, <3>2, <4>2 DEF OutFits, OnlyOut
    <3>5. CASE out'[r] = out[r]
      BY <2>2, <3>2, <3>5 DEF BaseInv, OutFits, OnlyOut
    <3> QED BY <2>2, <3>4, <3>5 DEF OnlyOut, e
  <2> QED BY <1>1, <2>1, <2>2 DEF LoopSends
<1>4. TypeContexts' /\ TypeStream' /\ StreamFits(r)' /\ \A s \in Run \ {r} : stream'[s] = stream[s]
  <2>1. UNCHANGED <<canceled, stops>>
    BY LoopStepFrame
  <2>2. loop[r].pc # "unborn" /\ loop'[r].pc \notin {"unborn", "first"}
    BY <1>1 DEF OnlyLoop
  <2>3. CASE loop[r].pc # "first"
    <3>1. UNCHANGED <<contexts, stream>>
      BY <2>3, LoopStepFrame
    <3> QED BY <2>1, <2>2, <2>3, <3>1 DEF BaseInv, TypeContexts, TypeStream, StreamFits
  <2>4. ASSUME NEW pc \in {"reading", "leaving", "gone"},
               stream' = [stream EXCEPT ![r].pc = pc]
        PROVE  /\ TypeStream' /\ StreamFits(r)'
               /\ \A s \in Run \ {r} : stream'[s] = stream[s]
    BY <2>2, <2>4 DEF BaseInv, TypeStream, StreamRecord, StreamFits
  <2>5. CASE FirstCall(r)
    <3>1. stream' = [stream EXCEPT ![r].pc = "reading"]
      BY <2>5 DEF FirstCall
    <3>2. TypeContexts'
      BY <2>1, <2>5 DEF FirstCall, GetStreamingContext, BaseInv, TypeContexts
    <3> QED BY <2>4, <3>1, <3>2
  <2>6. CASE FirstCallFails(r)
    <3>1. PICK pc \in {"reading", "leaving", "gone"} : stream' = [stream EXCEPT ![r].pc = pc]
      BY <2>6 DEF FirstCallFails
    <3>2. TypeContexts'
      BY <2>1, <2>6 DEF FirstCallFails, BaseInv, TypeContexts
    <3> QED BY <2>4, <3>1, <3>2
  <2> QED BY <2>3, <2>5, <2>6, LoopStepFrame
<1>5. \A s \in Run : StreamFits(s)'
  BY <1>1, <1>4 DEF BaseInv, StreamFits, OnlyLoop
<1>6. TypeTurns'
  <2>1. CASE WriteToolTurn(r)
    <3> DEFINE n == loop[r].written
    <3>1. n \in Nat /\ loop[r].made \in Nat /\ n < 2 * loop[r].made
      BY <2>1 DEF WriteToolTurn, BaseInv, LoopInv, TypeLoop, LoopRecord
    <3>2. n \div 2 \in Nat /\ n \div 2 < loop[r].made
      BY <3>1
    <3>3. loop[r].pc # "unborn"
      BY <1>1 DEF OnlyLoop
    <3>4. Use(r, n \div 2) \in TurnRecord /\ Result(r, n \div 2) \in TurnRecord
      BY <3>2, <3>3, RoundTurn DEF BaseInv
    <3>5. PICK t \in TurnRecord : turns' = Append(turns, t)
      BY <2>1, <3>4 DEF WriteToolTurn
    <3> QED BY <3>5, AppendFields DEF BaseInv, TypeTurns, Added
  <2>2. CASE UNCHANGED turns
    BY <2>2 DEF BaseInv, TypeTurns
  <2> QED BY <2>1, <2>2, LoopStepFrame
<1> QED BY <1>2, <1>3, <1>4, <1>5, <1>6 DEF BaseInv

LEMMA BaseByStart ==
  ASSUME BaseInv, NEW p \in Post, Reply(p) \/ Regenerate(p)
  PROVE  BaseInv'
<1>1. LoopInv' /\ Started(NextRun, p)
  BY ReplyFields, RegenerateFields DEF BaseInv
<1>2. UNCHANGED <<out, stream, canceled, stops>>
  BY DEF Reply, Regenerate
<1>3. TypeOut' /\ TypeStream' /\ \A r \in Run : OutFits(r)'
  BY <1>2 DEF BaseInv, TypeOut, TypeStream, OutFits
<1>4. \A r \in Run : StreamFits(r)'
  BY <1>1, <1>2 DEF BaseInv, StreamFits, Started
<1>5. TypeTurns' /\ TypeContexts'
  <2>1. CASE Reply(p)
    <3>1. Turn("user", p, NoRun, 0) \in TurnRecord
      BY <1>1, UserTurn DEF Started
    <3>2. TypeTurns'
      BY <2>1, <3>1, AppendFields DEF Reply, BaseInv, TypeTurns, Added
    <3> QED BY <2>1, <3>2 DEF Reply, BaseInv, TypeContexts
  <2>2. CASE Regenerate(p)
    <3>1. TypeTurns'
      BY <2>2, ScrubFields DEF Regenerate, BaseInv, TypeTurns, Kept
    <3>2. NextRun \in Run
      BY <1>1 DEF Started
    <3> QED BY <1>2, <2>2, <3>1, <3>2
            DEF Regenerate, GetStreamingContext, BaseInv, TypeContexts
  <2> QED BY <2>1, <2>2
<1> QED BY <1>1, <1>3, <1>4, <1>5 DEF BaseInv

LEMMA BaseByStop ==
  ASSUME BaseInv, NEW p \in Post, StopStreaming(p)
  PROVE  BaseInv'
<1>1. UNCHANGED <<turns, contexts, loop, out, stream>>
  BY DEF StopStreaming
<1>2. TypeContexts'
  BY <1>1 DEF StopStreaming, BaseInv, TypeContexts
<1>3. LoopInv'
  BY <1>1 DEF BaseInv, LoopInv, TypeLoop, LoopFits
<1>4. TypeTurns' /\ TypeOut' /\ TypeStream' /\ \A r \in Run : StreamFits(r)' /\ OutFits(r)'
  BY <1>1 DEF BaseInv, TypeTurns, TypeOut, TypeStream, StreamFits, OutFits
<1> QED BY <1>2, <1>3, <1>4 DEF BaseInv

\* A stream takes its next event.
LEMMA ReadFields ==
  ASSUME BaseInv, NEW r \in Run, ReadEvent(r)
  PROVE  /\ TypeOut' /\ TypeStream'
         /\ \A s \in Run \ {r} : out'[s] = out[s] /\ stream'[s] = stream[s]
         /\ Len(out[r]) \in Nat \ {0} /\ Len(out'[r]) = Len(out[r]) - 1
         /\ \A i \in 1..(Len(out[r]) - 1) : out'[r][i] = out[r][i + 1]
         /\ stream[r].pc = "reading" /\ stream'[r].pc = "reading"
         /\ LET e == out[r][1] m == stream'[r]
            IN  /\ e.kind \in {"text", "batch"}
                /\ \/ m.text = stream[r].text \cup {<<r, e.round>>} /\ m.calls = stream[r].calls
                   \/ m.text = stream[r].text /\ m.calls = {<<r, e.round>>}
                   \/ m.text = {} /\ m.calls = {}
                /\ e.phase = "resolved" => m.text = {} /\ m.calls = {}
<1>1. out[r] \in Seq(EventRecord) /\ out[r] # <<>>
  BY DEF ReadEvent, BaseInv, TypeOut
<1> DEFINE e == Head(out[r])
<1>2. /\ e \in EventRecord /\ Tail(out[r]) \in Seq(EventRecord)
      /\ Len(out[r]) \in Nat \ {0} /\ Len(Tail(out[r])) = Len(out[r]) - 1
      /\ \A i \in 1..(Len(out[r]) - 1) : Tail(out[r])[i] = out[r][i + 1]
  BY <1>1, HeadTailProperties, EmptySeq
<1>3. e = out[r][1]
  BY <1>1
<1>4. e.kind \in {"text", "batch"} /\ (e.kind = "batch" <=> e.phase # "none")
  <2>1. 1 \in 1..Len(out[r])
    BY <1>2
  <2> QED BY <1>3, <2>1 DEF ReadEvent, BaseInv, OutFits
<1>5. out' = [out EXCEPT ![r] = Tail(out[r])]
  BY DEF ReadEvent
<1>6. TypeOut' /\ out'[r] = Tail(out[r]) /\ \A s \in Run \ {r} : out'[s] = out[s]
  BY <1>2, <1>5 DEF BaseInv, TypeOut
<1> DEFINE m == Accumulate(stream[r], r, e)
<1>7. stream[r] \in StreamRecord
  BY DEF BaseInv, TypeStream
<1>8. /\ m \in StreamRecord /\ m.pc = stream[r].pc
      /\ \/ m.text = stream[r].text \cup {<<r, e.round>>} /\ m.calls = stream[r].calls
         \/ m.text = stream[r].text /\ m.calls = {<<r, e.round>>}
         \/ m.text = {} /\ m.calls = {}
      /\ e.phase = "resolved" => m.text = {} /\ m.calls = {}
  BY <1>2, <1>4, <1>7, AccumulateFields
<1>9. stream' = [stream EXCEPT ![r] = m]
  BY DEF ReadEvent
<1>10. stream[r].pc = "reading"
  BY DEF ReadEvent
<1> HIDE DEF m, e
<1>11. TypeStream' /\ stream'[r] = m /\ \A s \in Run \ {r} : stream'[s] = stream[s]
  BY <1>8, <1>9 DEF BaseInv, TypeStream
<1>12. /\ Len(out'[r]) = Len(out[r]) - 1
       /\ \A i \in 1..(Len(out[r]) - 1) : out'[r][i] = out[r][i + 1]
  BY <1>2, <1>6
<1>13. stream'[r].pc = "reading"
  BY <1>8, <1>10, <1>11
<1> QED BY <1>2, <1>3, <1>4, <1>6, <1>8, <1>10, <1>11, <1>12, <1>13

\* A stream moves on without reading.
StreamGoes(r, pc) ==
  /\ TypeStream' /\ \A s \in Run \ {r} : stream'[s] = stream[s]
  /\ stream'[r].pc = pc

LEMMA StreamGoesFields ==
  ASSUME TypeStream, NEW r \in Run,
         NEW pc \in {"none", "reading", "finalizing", "leaving", "gone"},
         stream' = [stream EXCEPT ![r].pc = pc]
  PROVE  /\ StreamGoes(r, pc)
         /\ stream'[r].text = stream[r].text /\ stream'[r].calls = stream[r].calls
BY DEF TypeStream, StreamRecord, StreamGoes

LEMMA FinalizeFields ==
  ASSUME BaseInv, NEW r \in Run, finalizeTurn(r)
  PROVE  /\ StreamGoes(r, "leaving") /\ stream'[r].text = {} /\ stream'[r].calls = {}
         /\ Added(AnchorOf(r))
         /\ loop[r].pc \notin {"unborn", "first"}
<1>1. loop[r].pc \notin {"unborn", "first"}
  BY DEF finalizeTurn, BaseInv, StreamFits
<1>2. AnchorOf(r) \in TurnRecord
  BY <1>1, AnchorTurn DEF BaseInv
<1>3. turns' = Append(turns, AnchorOf(r))
  BY DEF finalizeTurn, AnchorOf
<1>4. Added(AnchorOf(r))
  BY <1>2, <1>3, AppendFields DEF BaseInv
<1> DEFINE m == [NoStream EXCEPT !.pc = "leaving"]
<1>5. m \in StreamRecord /\ m.pc = "leaving" /\ m.text = {} /\ m.calls = {}
  BY DEF NoStream, StreamRecord
<1>6. stream' = [stream EXCEPT ![r] = m]
  BY DEF finalizeTurn
<1> HIDE DEF m
<1>7. /\ StreamGoes(r, "leaving") /\ stream'[r].text = {} /\ stream'[r].calls = {}
  BY <1>5, <1>6 DEF BaseInv, TypeStream, StreamGoes
<1> QED BY <1>1, <1>4, <1>7

\* The end of a stream: the post is let go, and a reply's loop with it.
LEMMA FinishFields ==
  ASSUME BaseInv, NEW r \in Run, FinishStreaming(r)
  PROVE  /\ StreamGoes(r, "gone") /\ stream[r].pc = "leaving"
         /\ stream'[r].text = stream[r].text /\ stream'[r].calls = stream[r].calls
         /\ TypeContexts' /\ TypeOut'
         /\ loop[r].post \in Post
         /\ canceled' = canceled \cup ({contexts[loop[r].post]} \ {NoRun})
         /\ \A p \in Post : contexts'[p] = IF p = loop[r].post THEN NoRun ELSE contexts[p]
         /\ \A s \in Run \ {r} : out'[s] = out[s]
         /\ out'[r] \in {<<>>, out[r]}
<1>1. loop[r].post \in Post
  BY DEF FinishStreaming, BaseInv, StreamFits, LoopInv, LoopFits, Placed
<1>2. StreamGoes(r, "gone") /\ stream'[r].text = stream[r].text
      /\ stream'[r].calls = stream[r].calls
  BY StreamGoesFields DEF FinishStreaming, BaseInv
<1>3. TypeOut' /\ out'[r] \in {<<>>, out[r]} /\ \A s \in Run \ {r} : out'[s] = out[s]
  <2>1. <<>> \in Seq(EventRecord)
    BY EmptySeq
  <2> QED BY <2>1 DEF FinishStreaming, BaseInv, TypeOut
<1>4. /\ canceled' = canceled \cup ({contexts[loop[r].post]} \ {NoRun})
      /\ contexts' = [contexts EXCEPT ![loop[r].post] = NoRun]
      /\ UNCHANGED stops /\ stream[r].pc = "leaving"
  BY DEF FinishStreaming, UnchangedByStream
<1>5. TypeContexts'
      /\ \A p \in Post : contexts'[p] = IF p = loop[r].post THEN NoRun ELSE contexts[p]
  BY <1>1, <1>4 DEF BaseInv, TypeContexts
<1> QED BY <1>1, <1>2, <1>3, <1>4, <1>5

LEMMA BaseByStream ==
  ASSUME BaseInv, NEW r \in Run, StreamStep(r)
  PROVE  BaseInv'
<1>1. UNCHANGED <<loop, stops>>
  BY DEF StreamStep, ReadEvent, StopReading, finalizeTurn, FinishStreaming, UnchangedByStream
<1>2. LoopInv'
  BY <1>1 DEF BaseInv, LoopInv, TypeLoop, LoopFits
<1>3. CASE ReadEvent(r)
  <2>1. TypeOut' /\ TypeStream' /\ \A s \in Run : StreamFits(s)'
    BY <1>1, <1>3, ReadFields DEF BaseInv, StreamFits
  <2>2. \A s \in Run : OutFits(s)'
    <3>1. \A s \in Run \ {r} : OutFits(s)'
      BY <1>3, ReadFields DEF BaseInv, OutFits
    <3>2. ASSUME NEW i \in 1..Len(out'[r])
          PROVE  out'[r][i].kind = "batch" <=> out'[r][i].phase # "none"
      <4>1. i + 1 \in 1..Len(out[r]) /\ out'[r][i] = out[r][i + 1]
        BY <1>3, ReadFields
      <4> QED BY <4>1 DEF BaseInv, OutFits
    <3> QED BY <3>1, <3>2 DEF OutFits
  <2>3. TypeTurns' /\ TypeContexts'
    BY <1>1, <1>3 DEF ReadEvent, BaseInv, TypeTurns, TypeContexts
  <2> QED BY <1>2, <2>1, <2>2, <2>3 DEF BaseInv
<1>4. CASE StopReading(r)
  <2>1. UNCHANGED <<turns, contexts, out, canceled>> /\ stream[r].pc = "reading"
    BY <1>4 DEF StopReading
  <2>2. StreamGoes(r, "finalizing")
    BY <1>4, StreamGoesFields DEF StopReading, BaseInv
  <2>3. \A s \in Run : StreamFits(s)' /\ OutFits(s)'
    BY <1>1, <2>1, <2>2 DEF BaseInv, StreamFits, OutFits, StreamGoes
  <2>4. TypeTurns' /\ TypeContexts' /\ TypeOut' /\ TypeStream'
    BY <1>1, <2>1, <2>2 DEF BaseInv, TypeTurns, TypeContexts, TypeOut, StreamGoes
  <2> QED BY <1>2, <2>3, <2>4 DEF BaseInv
<1>5. CASE finalizeTurn(r)
  <2>1. UNCHANGED <<contexts, out, canceled>> /\ stream[r].pc = "finalizing"
    BY <1>5 DEF finalizeTurn
  <2>2. StreamGoes(r, "leaving") /\ TypeTurns'
    BY <1>5, FinalizeFields DEF Added, TypeTurns
  <2>3. \A s \in Run : StreamFits(s)' /\ OutFits(s)'
    BY <1>1, <2>1, <2>2 DEF BaseInv, StreamFits, OutFits, StreamGoes
  <2>4. TypeTurns' /\ TypeContexts' /\ TypeOut' /\ TypeStream'
    BY <1>1, <2>1, <2>2 DEF BaseInv, TypeContexts, TypeOut, StreamGoes
  <2> QED BY <1>2, <2>3, <2>4 DEF BaseInv
<1>6. CASE FinishStreaming(r)
  <2>1. /\ StreamGoes(r, "gone") /\ stream[r].pc = "leaving" /\ TypeContexts' /\ TypeOut'
        /\ \A s \in Run \ {r} : out'[s] = out[s]
        /\ out'[r] \in {<<>>, out[r]}
    BY <1>6, FinishFields
  <2>2. \A s \in Run : StreamFits(s)'
    BY <1>1, <2>1 DEF BaseInv, StreamFits, StreamGoes
  <2>3. \A s \in Run : OutFits(s)'
    <3>1. Len(<<>>) = 0
      BY EmptySeq
    <3> QED BY <2>1, <3>1 DEF BaseInv, OutFits
  <2>4. TypeTurns'
    BY <1>6 DEF FinishStreaming, BaseInv, TypeTurns
  <2> QED BY <1>2, <2>1, <2>2, <2>3, <2>4 DEF BaseInv, StreamGoes
<1> QED BY <1>3, <1>4, <1>5, <1>6 DEF StreamStep

LEMMA BaseInit == Init => BaseInv
<1> SUFFICES ASSUME Init PROVE BaseInv
  OBVIOUS
<1>1. LoopInv
  <2>1. loop = [r \in Run |-> NoLoop]
    BY DEF Init
  <2>2. ASSUME NEW r \in Run PROVE loop[r] \in LoopRecord /\ LoopFits(r)
    BY <2>1, NoLoopFields DEF LoopFits
  <2> QED BY <2>1, <2>2 DEF LoopInv, TypeLoop
<1>2. TypeTurns /\ TypeOut
  BY EmptySeq DEF Init, TypeTurns, TypeOut
<1>3. TypeContexts
  BY DEF Init, TypeContexts
<1>4. TypeStream
  <2>1. NoStream \in StreamRecord
    BY DEF NoStream, StreamRecord
  <2> QED BY <2>1 DEF Init, TypeStream
<1>5. ASSUME NEW r \in Run PROVE StreamFits(r)
  BY <1>5 DEF Init, StreamFits, NoStream, NoLoop
<1>6. ASSUME NEW r \in Run PROVE OutFits(r)
  <2>1. out[r] = <<>> /\ Len(<<>>) = 0
    BY EmptySeq DEF Init
  <2> QED BY <2>1 DEF OutFits
<1> QED BY <1>1, <1>2, <1>3, <1>4, <1>5, <1>6 DEF BaseInv

LEMMA BaseStep == BaseInv /\ [Next]_vars => BaseInv'
<1> SUFFICES ASSUME BaseInv, [Next]_vars PROVE BaseInv'
  OBVIOUS
<1>1. CASE UNCHANGED vars
  <2>1. UNCHANGED <<turns, contexts, loop, out, stream, canceled, stops>>
    BY <1>1 DEF vars
  <2>2. LoopInv'
    BY <2>1 DEF BaseInv, LoopInv, TypeLoop, LoopFits
  <2>3. TypeTurns' /\ TypeContexts' /\ TypeOut' /\ TypeStream'
    BY <2>1 DEF BaseInv, TypeTurns, TypeContexts, TypeOut, TypeStream
  <2>4. \A r \in Run : StreamFits(r)' /\ OutFits(r)'
    BY <2>1 DEF BaseInv, StreamFits, OutFits
  <2> QED BY <2>2, <2>3, <2>4 DEF BaseInv
<1> QED BY <1>1, BaseByStart, BaseByStop, BaseByLoop, BaseByStream DEF Next

LEMMA BaseTypes == BaseInv => TypeOK
BY TypeParts DEF BaseInv, LoopInv

\* Types hold in every reachable state: in particular a run's rounds stay
\* within its cap, whatever the model answers, and only whole turns of rounds
\* the run made are written.
THEOREM TypeCorrect == Spec => []TypeOK
<1> QED BY BaseInit, BaseStep, BaseTypes, PTL DEF Spec

-----------------------------------------------------------------------------
(* The caps                                                                *)

\* No tool runs past the cap of rounds or of failures, whatever the model
\* answers (finishToolRound, runLoop).
THEOREM ToolsStayOff == Spec => ToolsStayDisabled
<1>1. BaseInv => \A r \in Run : ExecuteTools(r) =>
                   loop[r].round < maxRounds[r] /\ loop[r].streak < FailureLimit
  BY DEF BaseInv, LoopInv, LoopFits, Caps, ExecuteTools
<1>2. BaseInv /\ [Next]_vars =>
        [\A r \in Run : ExecuteTools(r) =>
           loop[r].round < maxRounds[r] /\ loop[r].streak < FailureLimit]_vars
  BY <1>1
<1> QED BY BaseInit, BaseStep, <1>2, PTL DEF Spec, ToolsStayDisabled

-----------------------------------------------------------------------------
(* Whose context is canceled                                               *)

\* From its registration to its end a run is what its post is registered to.
Registered(r) ==
  \/ stream[r].pc \in {"reading", "finalizing", "leaving"}
  \/ loop[r].pc = "first" /\ loop[r].flow = "shared"

OwnsPost(r) == Registered(r) => contexts[loop[r].post] = r

ContextInv == (\A r \in Run : OwnsPost(r)) /\ CanceledByItsOwn

LEMMA ContextByStart ==
  ASSUME BaseInv, ContextInv, NEW p \in Post, Reply(p) \/ Regenerate(p)
  PROVE  ContextInv'
<1> DEFINE n == NextRun
<1>1. Started(n, p)
  BY ReplyFields, RegenerateFields DEF BaseInv
<1>2. UNCHANGED <<stream, canceled, stops>>
  BY DEF Reply, Regenerate
<1>3. PICK m \in Run : m = n /\ loop[m].pc = "unborn"
  BY <1>1 DEF Started
<1>4. stream[m].pc = "none"
  BY <1>3 DEF BaseInv, StreamFits
<1>5. \A s \in Run \ {m} : /\ loop'[s].post = loop[s].post
                           /\ loop'[s].pc = loop[s].pc /\ loop'[s].flow = loop[s].flow
  BY <1>1, <1>3 DEF Started
<1>6. CASE Reply(p)
  <2>1. UNCHANGED contexts
    BY <1>6 DEF Reply
  <2>2. \A s \in Run \ {m} : OwnsPost(s)'
    BY <1>2, <1>5, <2>1 DEF ContextInv, OwnsPost, Registered
  <2>3. loop'[m].flow = ReplyFlow
    BY <1>3, <1>6 DEF Reply, BaseInv, LoopInv, TypeLoop, LoopRecord
  <2>4. OwnsPost(m)'
    BY <1>2, <1>4, <2>3, LoopAssumption DEF OwnsPost, Registered
  <2> QED BY <1>2, <2>2, <2>4 DEF ContextInv, CanceledByItsOwn
<1>7. CASE Regenerate(p)
  <2>1. contexts[p] = NoRun /\ contexts' = [contexts EXCEPT ![p] = m]
    BY <1>3, <1>7 DEF Regenerate, GetStreamingContext
  <2>2. contexts'[p] = m /\ \A q \in Post \ {p} : contexts'[q] = contexts[q]
    BY <2>1 DEF BaseInv, TypeContexts
  <2>3. ASSUME NEW s \in Run \ {m} PROVE OwnsPost(s)'
    <3> SUFFICES ASSUME Registered(s)' PROVE contexts'[loop'[s].post] = s
      BY DEF OwnsPost
    <3>1. Registered(s)
      BY <1>2, <1>5 DEF Registered
    <3>2. contexts[loop[s].post] = s
      BY <3>1 DEF ContextInv, OwnsPost
    <3>3. loop[s].post # p
      BY <2>1, <3>2, RoundsFields
    <3>4. loop[s].post \in Post
      BY <3>1 DEF Registered, BaseInv, StreamFits, LoopInv, LoopFits, Placed
    <3> QED BY <1>5, <2>2, <3>2, <3>3, <3>4
  <2>4. OwnsPost(m)'
    BY <1>1, <1>3, <2>2 DEF OwnsPost, Started
  <2> QED BY <1>2, <2>3, <2>4 DEF ContextInv, CanceledByItsOwn
<1> QED BY <1>6, <1>7

LEMMA ContextByStop ==
  ASSUME BaseInv, ContextInv, NEW p \in Post, StopStreaming(p)
  PROVE  ContextInv'
<1>1. UNCHANGED <<contexts, loop, stream>>
  BY DEF StopStreaming
<1>2. \A r \in Run : OwnsPost(r)'
  BY <1>1 DEF ContextInv, OwnsPost, Registered
<1>3. CanceledByItsOwn'
  BY <1>1 DEF StopStreaming, ContextInv, CanceledByItsOwn
<1> QED BY <1>2, <1>3 DEF ContextInv

LEMMA ContextByLoop ==
  ASSUME BaseInv, ContextInv, NEW r \in Run, LoopStep(r)
  PROVE  ContextInv'
<1>1. OnlyLoop(r)
  BY LoopStepFits DEF BaseInv
<1>2. UNCHANGED <<canceled, stops>>
  BY LoopStepFrame
<1>3. CASE loop[r].pc # "first"
  <2>1. UNCHANGED <<contexts, stream>>
    BY <1>3, LoopStepFrame
  <2>2. \A s \in Run : OwnsPost(s)'
    BY <1>1, <1>3, <2>1 DEF OnlyLoop, ContextInv, OwnsPost, Registered
  <2> QED BY <1>2, <2>1, <2>2 DEF ContextInv, CanceledByItsOwn
<1>4. CASE loop[r].pc = "first"
  <2>1. stream[r].pc = "none"
    BY <1>4 DEF BaseInv, StreamFits
  <2>2. \A s \in Run \ {r} : stream'[s] = stream[s] /\ loop'[s] = loop[s]
    <3>1. FirstCall(r) \/ FirstCallFails(r)
      BY <1>4, LoopStepFrame
    <3> QED BY <1>1, <3>1 DEF FirstCall, FirstCallFails, OnlyLoop, BaseInv, TypeStream
  <2>3. loop[r].post \in Post /\ loop'[r].post = loop[r].post /\ loop'[r].pc # "first"
    BY <1>1, <1>4 DEF OnlyLoop, BaseInv, LoopInv, LoopFits, Placed
  <2>4. CanceledByItsOwn'
    BY <1>2, <2>1, <2>2 DEF ContextInv, CanceledByItsOwn, BaseInv, TypeContexts
  <2>5. CASE UNCHANGED contexts
    <3>1. \A s \in Run \ {r} : OwnsPost(s)'
      BY <2>2, <2>5 DEF ContextInv, OwnsPost, Registered
    <3>2. OwnsPost(r)'
      <4>1. CASE loop[r].flow = "shared"
        BY <1>4, <2>3, <2>5, <4>1 DEF ContextInv, OwnsPost, Registered
      <4>2. CASE loop[r].flow # "shared"
        <5>1. contexts[loop[r].post] = NoRun => ~ FirstCall(r) \/ contexts' # contexts
          BY <2>3, <4>2, RoundsFields
             DEF FirstCall, GetStreamingContext, BaseInv, TypeContexts
        <5>2. ~ FirstCall(r)
          BY <2>5, <4>2, <5>1 DEF FirstCall, GetStreamingContext
        <5>3. stream' = [stream EXCEPT ![r].pc = "gone"]
          BY <1>4, <4>2, <5>2, LoopStepFrame DEF FirstCallFails
        <5>4. stream'[r].pc = "gone"
          BY <5>3 DEF BaseInv, TypeStream, StreamRecord
        <5> QED BY <2>3, <5>4 DEF OwnsPost, Registered
      <4> QED BY <4>1, <4>2
    <3> QED BY <2>4, <3>1, <3>2 DEF ContextInv
  <2>6. CASE GetStreamingContext(loop[r].post, r)
    <3> DEFINE p == loop[r].post
    <3>1. contexts[p] = NoRun /\ contexts'[p] = r
          /\ \A q \in Post \ {p} : contexts'[q] = contexts[q]
      BY <2>3, <2>6 DEF GetStreamingContext, BaseInv, TypeContexts
    <3>2. OwnsPost(r)'
      BY <2>3, <3>1 DEF OwnsPost
    <3>3. ASSUME NEW s \in Run \ {r} PROVE OwnsPost(s)'
      <4> SUFFICES ASSUME Registered(s)' PROVE contexts'[loop'[s].post] = s
        BY DEF OwnsPost
      <4>1. Registered(s)
        BY <2>2 DEF Registered
      <4>2. contexts[loop[s].post] = s
        BY <4>1 DEF ContextInv, OwnsPost
      <4>3. loop[s].post # p
        BY <3>1, <4>2, RoundsFields
      <4>4. loop[s].post \in Post
        BY <4>1 DEF Registered, BaseInv, StreamFits, LoopInv, LoopFits, Placed
      <4> QED BY <2>2, <3>1, <4>2, <4>3, <4>4
    <3> QED BY <2>4, <3>2, <3>3 DEF ContextInv
  <2> QED BY <1>4, <2>5, <2>6, LoopStepFrame DEF FirstCall, FirstCallFails
<1> QED BY <1>3, <1>4

LEMMA ContextByStream ==
  ASSUME BaseInv, ContextInv, NEW r \in Run, StreamStep(r)
  PROVE  ContextInv'
<1>1. UNCHANGED <<loop, stops>>
  BY DEF StreamStep, ReadEvent, StopReading, finalizeTurn, FinishStreaming, UnchangedByStream
<1>2. ASSUME UNCHANGED <<contexts, canceled>>,
             \A s \in Run \ {r} : stream'[s] = stream[s],
             stream[r].pc \in {"reading", "finalizing"}
      PROVE  ContextInv'
  <2>1. \A s \in Run : OwnsPost(s)'
    <3>1. contexts[loop[r].post] = r
      BY <1>2 DEF ContextInv, OwnsPost, Registered
    <3>2. \A s \in Run \ {r} : OwnsPost(s)'
      BY <1>1, <1>2 DEF ContextInv, OwnsPost, Registered
    <3> QED BY <1>1, <1>2, <3>1, <3>2 DEF OwnsPost
  <2>2. CanceledByItsOwn'
    BY <1>1, <1>2 DEF ContextInv, CanceledByItsOwn, BaseInv, TypeContexts
  <2> QED BY <2>1, <2>2 DEF ContextInv
<1>3. CASE ReadEvent(r)
  BY <1>2, <1>3, ReadFields DEF ReadEvent
<1>4. CASE StopReading(r)
  BY <1>2, <1>4, StreamGoesFields DEF StopReading, StreamGoes, BaseInv
<1>5. CASE finalizeTurn(r)
  BY <1>2, <1>5, FinalizeFields DEF finalizeTurn, StreamGoes
<1>6. CASE FinishStreaming(r)
  <2>1. /\ stream'[r].pc = "gone" /\ stream[r].pc = "leaving"
        /\ \A s \in Run \ {r} : stream'[s] = stream[s]
        /\ loop[r].post \in Post
        /\ canceled' = canceled \cup ({contexts[loop[r].post]} \ {NoRun})
        /\ \A p \in Post : contexts'[p] = IF p = loop[r].post THEN NoRun ELSE contexts[p]
    BY <1>6, FinishFields DEF StreamGoes
  <2>2. contexts[loop[r].post] = r
    BY <2>1 DEF ContextInv, OwnsPost, Registered
  <2>3. OwnsPost(r)'
    <3>1. loop[r].pc # "first"
      BY <2>1 DEF BaseInv, StreamFits
    <3> QED BY <1>1, <2>1, <3>1 DEF OwnsPost, Registered
  <2>4. ASSUME NEW s \in Run \ {r} PROVE OwnsPost(s)'
    <3> SUFFICES ASSUME Registered(s)' PROVE contexts'[loop'[s].post] = s
      BY DEF OwnsPost
    <3>1. Registered(s)
      BY <1>1, <2>1 DEF Registered
    <3>2. contexts[loop[s].post] = s
      BY <3>1 DEF ContextInv, OwnsPost
    <3>3. loop[s].post \in Post
      BY <3>1 DEF Registered, BaseInv, StreamFits, LoopInv, LoopFits, Placed
    <3> QED BY <1>1, <2>1, <2>2, <3>2, <3>3
  <2>5. CanceledByItsOwn'
    BY <1>1, <2>1, <2>2 DEF ContextInv, CanceledByItsOwn, BaseInv, TypeContexts
  <2> QED BY <2>3, <2>4, <2>5 DEF ContextInv
<1> QED BY <1>3, <1>4, <1>5, <1>6 DEF StreamStep

LEMMA ContextInit == Init => ContextInv
BY DEF Init, ContextInv, OwnsPost, Registered, CanceledByItsOwn, NoStream, NoLoop

LEMMA ContextStep == BaseInv /\ ContextInv /\ [Next]_vars => ContextInv'
<1> SUFFICES ASSUME BaseInv, ContextInv, [Next]_vars PROVE ContextInv'
  OBVIOUS
<1>1. CASE UNCHANGED vars
  BY <1>1 DEF vars, ContextInv, OwnsPost, Registered, CanceledByItsOwn
<1> QED BY <1>1, ContextByStart, ContextByStop, ContextByLoop, ContextByStream DEF Next

\* A response's context is canceled by its own stop or by its own end
\* (FinishStreaming, GetStreamingContext and StopStreaming).
THEOREM CanceledByOwnStop == Spec => []CanceledByItsOwn
<1>1. ContextInv => CanceledByItsOwn
  BY DEF ContextInv
<1> QED BY BaseInit, BaseStep, ContextInit, ContextStep, <1>1, PTL DEF Spec

-----------------------------------------------------------------------------
(* What a loop's step means to what is on its way                          *)

\* The loop has sent everything it will send.
Over(r) == loop[r].pc = "done" \/ (loop[r].pc = "deliver" /\ loop[r].last = "stop")

\* Nothing is sent and no round joins the recorded ones.
Quiet(r) ==
  /\ UNCHANGED out /\ loop'[r].made = loop[r].made
  /\ loop[r].pc # "resolved" /\ loop'[r].pc # "resolved"
  /\ Over(r) => Over(r)' /\ loop'[r].last = loop[r].last

Resolves(r) ==
  /\ UNCHANGED out /\ loop[r].pc \in {"open", "tools"} /\ loop'[r].pc = "resolved"

\* Text or a batch of a round that is not recorded.
Says(r) ==
  \E kind \in {"text", "batch"}, phase \in {"none", "executing", "awaiting"} :
    /\ kind = "batch" <=> phase # "none"
    /\ OnlyOut(r, Event(kind, r, phase))
    /\ loop[r].round >= loop[r].made /\ loop'[r].made = loop[r].made
    /\ loop[r].pc # "resolved" /\ loop'[r].pc # "resolved" /\ ~Over(r)

\* A round that is now recorded takes back what was said of it.
Announces(r) ==
  /\ OnlyOut(r, Event("batch", r, "resolved"))
  /\ loop[r].pc = "resolved" /\ loop'[r].pc = "call" /\ loop'[r].made = loop[r].made

Closes(r) ==
  \E kind \in {"end", "error"} :
    /\ OnlyOut(r, Event(kind, r, "none"))
    /\ loop'[r].made = loop[r].made
    /\ loop[r].pc # "resolved" /\ ~Over(r) /\ Over(r)'

\* A recorded round that is not announced any more.
Withholds(r) ==
  /\ UNCHANGED out /\ LoopCanceled(r) /\ loop[r].pc = "resolved" /\ loop'[r].pc = "deliver"

LEMMA LoopStepMoves ==
  ASSUME BaseInv, NEW r \in Run, LoopStep(r), loop[r].pc # "first"
  PROVE  Quiet(r) \/ Resolves(r) \/ Says(r) \/ Announces(r) \/ Closes(r) \/ Withholds(r)
<1>0. {"open", "executing", "tools", "resolved", "call", "deliver", "done"} \subseteq LoopPlace
  BY DEF LoopPlace
<1>1. LoopInv /\ TypeLoop /\ TypeOut /\ Rounds \subseteq Nat
  BY RoundsFields DEF BaseInv, LoopInv
<1>2. loop[r].round \in Nat /\ loop[r].made \in Nat
  BY <1>1 DEF TypeLoop, LoopRecord
<1>3. /\ loop[r].pc \in {"open", "executing", "tools"} => loop[r].made = loop[r].round
      /\ loop[r].pc = "deliver" /\ loop[r].last = "ask" => loop[r].made = loop[r].round
      /\ loop[r].pc = "deliver" => loop[r].last \in {"ask", "end", "error", "stop"}
  BY <1>1 DEF LoopInv, LoopFits, Counts, TypeLoop, LoopRecord
<1>4. ASSUME NEW kind \in {"text", "batch", "end", "error"},
             NEW phase \in {"none", "executing", "resolved", "awaiting"},
             Sent(r, Event(kind, r, phase))
      PROVE  OnlyOut(r, Event(kind, r, phase))
  BY <1>1, <1>4, EventFields, SentFields
<1>5. CASE ForwardText(r)
  <2>1. /\ loop[r].pc = "open" /\ loop'[r].pc = "open" /\ loop'[r].made = loop[r].made
    BY <1>1, <1>5, TextFields DEF ForwardText
  <2>2. CASE Sent(r, Event("text", r, "none"))
    BY <1>2, <1>3, <1>4, <2>1, <2>2 DEF Says, Over
  <2>3. CASE SendFails(r)
    BY <2>1, <2>3 DEF Quiet, Over, SendFails
  <2> QED BY <1>5, <2>2, <2>3 DEF ForwardText
<1>6. CASE AnswerEnds(r) \/ AsksUser(r)
  <2>1. PICK last \in {"end", "ask", "error", "stop"} : ThenDeliver(r, last)
    BY <1>6 DEF AnswerEnds, AsksUser
  <2>2. loop[r].pc = "open" /\ UNCHANGED out
    BY <1>6 DEF AnswerEnds, AsksUser
  <2>3. loop'[r].pc = "deliver" /\ loop'[r].made = loop[r].made
    BY <1>1, <2>1, <2>2, DeliverFits
  <2> QED BY <2>2, <2>3 DEF Quiet, Over
<1>7. CASE StreamFails(r)
  <2>1. /\ loop[r].pc = "open" /\ loop'[r].pc = "deliver" /\ loop'[r].last = "stop"
        /\ loop'[r].made = loop[r].made
    BY <1>1, <1>7, DeliverFits DEF StreamFails
  <2>2. CASE Sent(r, Event("error", r, "none"))
    BY <1>4, <2>1, <2>2 DEF Closes, Over
  <2>3. CASE SendFails(r)
    BY <2>1, <2>3 DEF Quiet, Over, SendFails
  <2> QED BY <1>7, <2>2, <2>3 DEF StreamFails
<1>8. CASE CallsTools(r)
  <2>1. loop[r].pc = "open" /\ UNCHANGED out
    BY <1>8 DEF CallsTools
  <2>2. CASE ThenDeliver(r, "stop")
    <3>1. loop'[r].pc = "deliver" /\ loop'[r].made = loop[r].made
      BY <1>1, <2>1, <2>2, DeliverFits
    <3> QED BY <2>1, <3>1 DEF Quiet, Over
  <2>3. CASE Goto(r, "executing")
    <3>1. loop'[r].pc = "executing" /\ loop'[r].made = loop[r].made
      BY <1>0, <1>1, <1>8, <2>3, GotoFits DEF CallsTools
    <3> QED BY <2>1, <3>1 DEF Quiet, Over
  <2> QED BY <1>8, <2>2, <2>3 DEF CallsTools
<1>9. CASE RejectsBatch(r)
  BY <1>1, <1>9, RoundJoins DEF RejectsBatch, Resolves
<1>10. CASE SendExecuting(r)
  <2>1. loop[r].pc = "executing"
    BY <1>10 DEF SendExecuting
  <2>2. CASE Sent(r, Event("batch", r, "executing")) /\ Goto(r, "tools")
    <3>1. loop'[r].pc = "tools" /\ loop'[r].made = loop[r].made
      BY <1>0, <1>1, <2>1, <2>2, GotoFits
    <3> QED BY <1>2, <1>3, <1>4, <2>1, <2>2, <3>1 DEF Says, Over
  <2>3. CASE SendFails(r) /\ ThenDeliver(r, "stop")
    <3>1. loop'[r].pc = "deliver" /\ loop'[r].made = loop[r].made
      BY <1>1, <2>1, <2>3, DeliverFits
    <3> QED BY <2>1, <2>3, <3>1 DEF Quiet, Over, SendFails
  <2> QED BY <1>10, <2>2, <2>3 DEF SendExecuting
<1>11. CASE ExecuteTools(r)
  <2>1. loop[r].pc = "tools" /\ UNCHANGED out
    BY <1>11 DEF ExecuteTools
  <2>2. CASE ThenDeliver(r, "stop")
    <3>1. loop'[r].pc = "deliver" /\ loop'[r].made = loop[r].made
      BY <1>1, <2>1, <2>2, DeliverFits
    <3> QED BY <2>1, <3>1 DEF Quiet, Over
  <2>3. ASSUME NEW ok \in BOOLEAN, NEW fails \in 0..FailureLimit,
               appendToolTurnAndPost(r, ok, fails)
        PROVE  Resolves(r)
    BY <1>1, <2>1, <2>3, RoundJoins DEF Resolves
  <2>4. 0 \in 0..FailureLimit
    BY LoopAssumption
  <2> QED BY <1>11, <2>2, <2>3, <2>4 DEF ExecuteTools
<1>12. CASE SendResolved(r)
  <2>1. loop[r].pc = "resolved"
    BY <1>12 DEF SendResolved
  <2>2. CASE Sent(r, Event("batch", r, "resolved")) /\ finishToolRound(r)
    <3>1. loop'[r].pc = "call" /\ loop'[r].made = loop[r].made
      BY <1>1, <2>1, <2>2, RoundFinishes
    <3> QED BY <1>4, <2>1, <2>2, <3>1 DEF Announces
  <2>3. CASE SendFails(r) /\ ThenDeliver(r, "stop")
    <3>1. loop'[r].pc = "deliver"
      BY <1>1, <2>1, <2>3, DeliverFits
    <3> QED BY <2>1, <2>3, <3>1 DEF Withholds, SendFails
  <2> QED BY <1>12, <2>2, <2>3 DEF SendResolved
<1>13. CASE CallModel(r)
  <2>1. loop[r].pc = "call" /\ UNCHANGED out
    BY <1>13 DEF CallModel
  <2>2. CASE ThenDeliver(r, "error")
    <3>1. loop'[r].pc = "deliver" /\ loop'[r].made = loop[r].made
      BY <1>1, <2>1, <2>2, DeliverFits
    <3> QED BY <2>1, <3>1 DEF Quiet, Over
  <2>3. CASE loop' = [loop EXCEPT ![r].pc = "open", ![r].round = @ + 1, ![r].said = FALSE]
    <3>1. loop'[r].pc = "open" /\ loop'[r].made = loop[r].made
      BY <1>1, <2>1, <2>3, NextRoundFields
    <3> QED BY <2>1, <3>1 DEF Quiet, Over
  <2> QED BY <1>13, <2>2, <2>3 DEF CallModel
<1>14. CASE WriteToolTurn(r)
  <2>1. /\ loop[r].pc = "deliver" /\ UNCHANGED out
        /\ loop'[r].pc = "deliver" /\ loop'[r].made = loop[r].made
        /\ loop'[r].last = loop[r].last
    BY <1>1, <1>14, WrittenFields DEF WriteToolTurn
  <2> QED BY <2>1 DEF Quiet, Over
<1>15. CASE SendLast(r)
  <2>1. loop[r].pc = "deliver" /\ Delivered(r)
    BY <1>15 DEF SendLast, Delivered
  <2>2. Goto(r, "done") => /\ loop'[r].pc = "done" /\ loop'[r].made = loop[r].made
                           /\ loop'[r].last = loop[r].last
    BY <1>0, <1>1, <2>1, GotoFits
  <2>3. CASE loop[r].last = "ask"
    <3>1. CASE Sent(r, Event("batch", r, "awaiting")) /\ loop' = [loop EXCEPT ![r].last = "end"]
      <4>1. loop'[r].pc = "deliver" /\ loop'[r].made = loop[r].made
        BY <1>1, <2>1, <3>1, AskedFields
      <4> QED BY <1>2, <1>3, <1>4, <2>1, <2>3, <3>1, <4>1 DEF Says, Over
    <3>2. CASE SendFails(r) /\ Goto(r, "done")
      BY <2>1, <2>2, <3>2 DEF Quiet, Over, SendFails
    <3> QED BY <1>15, <2>3, <3>1, <3>2 DEF SendLast
  <2>4. CASE loop[r].last \in {"end", "error"}
    <3>1. PICK last \in {"end", "error"} : last = loop[r].last
      BY <2>4
    <3>2. Goto(r, "done") /\ (Sent(r, Event(last, r, "none")) \/ SendFails(r))
      BY <1>15, <3>1 DEF SendLast
    <3>3. CASE Sent(r, Event(last, r, "none"))
      <4>1. OnlyOut(r, Event(last, r, "none"))
        BY <1>4, <3>3
      <4> QED BY <2>1, <2>2, <2>4, <3>1, <3>2, <4>1 DEF Closes, Over
    <3>4. CASE SendFails(r)
      BY <2>1, <2>2, <3>2, <3>4 DEF Quiet, Over, SendFails
    <3> QED BY <3>2, <3>3, <3>4
  <2>5. CASE loop[r].last = "stop"
    <3>1. Goto(r, "done") /\ UNCHANGED out
      BY <1>15, <2>5 DEF SendLast
    <3> QED BY <2>1, <2>2, <3>1 DEF Quiet, Over
  <2> QED BY <1>3, <2>1, <2>3, <2>4, <2>5
<1> QED BY <1>5, <1>6, <1>7, <1>8, <1>9, <1>10, <1>11, <1>12, <1>13, <1>14, <1>15
        DEF LoopStep, FirstCall, FirstCallFails

-----------------------------------------------------------------------------
(* What a stream has accumulated is not recorded                           *)

\* Of what the stream has accumulated no round is recorded.
AccNew(r) == \A x \in stream[r].text \cup stream[r].calls : x[2] >= loop[r].made

\* After the k-th event, which takes back what the stream has, only rounds
\* that are not recorded come; without such an event the stream has no other.
Settled(r, k) ==
  /\ k = 0 => AccNew(r)
  /\ k > 0 => out[r][k].phase = "resolved"
  /\ \A i \in (k + 1)..Len(out[r]) :
       out[r][i].kind \in {"text", "batch"} => out[r][i].round >= loop[r].made

Reading(r) ==
  stream[r].pc = "reading" /\ r \notin stops /\ loop[r].pc # "resolved"
  => \E k \in 0..Len(out[r]) : Settled(r, k)

\* The end is the last event.
EndsLast(r) ==
  \A i \in 1..Len(out[r]) :
    out[r][i].kind \in {"end", "error"} => i = Len(out[r]) /\ Over(r)

\* A stream nobody stopped reads to the end.
ReadsToEnd(r) ==
  r \notin stops =>
    /\ stream[r].pc \in {"finalizing", "leaving", "gone"} => Over(r)
    /\ stream[r].pc = "finalizing" => AccNew(r)

\* What is said of a run is its own, and nothing before it starts.
Own(r) ==
  /\ \A x \in stream[r].text \cup stream[r].calls : x[1] = r
  /\ stream[r].pc = "none" => stream[r].text = {} /\ stream[r].calls = {}
  /\ loop[r].pc \in {"unborn", "first"} => out[r] = <<>>

PipeFits(r) == Reading(r) /\ EndsLast(r) /\ ReadsToEnd(r) /\ Own(r)
PipeInv == \A r \in Run : PipeFits(r)

-----------------------------------------------------------------------------
(* The anchors                                                             *)

\* An anchor is what its run's stream has left.
AnchorsAreOwn ==
  \A i \in 1..Len(turns) :
    LET t == turns[i] IN
    t.kind = "anchor" =>
      /\ t.run \in Run /\ stream[t.run].pc \in {"leaving", "gone"}
      /\ \A x \in t.text \cup t.calls : x[1] = t.run

TurnInv == AnchorsAreOwn /\ NothingRecordedTwice /\ RoundsPrecedeAnchor

-----------------------------------------------------------------------------
(* Every step keeps the events in order                                    *)

\* A run nobody stopped is not canceled while its stream is there.
LEMMA NotCanceled ==
  ASSUME BaseInv, ContextInv, NEW r \in Run, r \notin stops, loop[r].pc # "unborn",
         stream[r].pc # "gone"
  PROVE  r \notin canceled /\ ~LoopCanceled(r)
<1>1. r \notin canceled
  BY DEF ContextInv, CanceledByItsOwn
<1>2. loop[r].flow \in {"dm", "mention", "shared"}
  BY DEF BaseInv, LoopInv, TypeLoop, LoopRecord, LoopFits, Placed
<1> QED BY <1>1, <1>2 DEF LoopCanceled

LEMMA PipeUntouched ==
  ASSUME BaseInv, NEW s \in Run, PipeFits(s), out'[s] = out[s], stream'[s] = stream[s],
         stops \subseteq stops',
         \/ loop'[s] = loop[s]
         \/ loop[s].pc = "done" /\ loop'[s].pc = "done" /\ loop'[s].made = 0
         \/ /\ loop[s].pc = "unborn" /\ loop'[s].pc = "first" /\ loop'[s].made = 0
  PROVE  PipeFits(s)'
<1>1. CASE loop'[s] = loop[s]
  BY <1>1 DEF PipeFits, Reading, Settled, AccNew, EndsLast, ReadsToEnd, Own, Over
<1>2. ASSUME loop'[s].made = 0
      PROVE  /\ AccNew(s)'
             /\ \A i \in 1..Len(out'[s]) : out'[s][i].round >= loop'[s].made
  <2>1. \A x \in stream[s].text \cup stream[s].calls : x[2] \in Nat
    <3>1. stream[s] \in StreamRecord
      BY DEF BaseInv, TypeStream
    <3>2. stream[s].text \cup stream[s].calls \subseteq RunRounds
      BY <3>1 DEF StreamRecord
    <3>3. \A x \in RunRounds : x[2] \in Rounds
      BY DEF RunRounds
    <3> QED BY <3>2, <3>3, RoundsFields
  <2>2. \A i \in 1..Len(out[s]) : out[s][i].round \in Nat
    <3>1. out[s] \in Seq(EventRecord)
      BY DEF BaseInv, TypeOut
    <3>2. \A i \in 1..Len(out[s]) : out[s][i] \in EventRecord
      BY <3>1, ElementOfSeq
    <3>3. \A e \in EventRecord : e.round \in Rounds
      BY DEF EventRecord
    <3> QED BY <3>2, <3>3, RoundsFields
  <2> QED BY <1>2, <2>1, <2>2 DEF AccNew
<1>3. CASE loop[s].pc = "done" /\ loop'[s].pc = "done" /\ loop'[s].made = 0
  <2>1. Reading(s)'
    <3>1. Len(out'[s]) \in Nat
      BY LenProperties DEF BaseInv, TypeOut
    <3>2. Settled(s, 0)'
      BY <1>2, <1>3 DEF Settled
    <3> QED BY <3>1, <3>2 DEF Reading
  <2>2. EndsLast(s)' /\ ReadsToEnd(s)' /\ Own(s)'
    BY <1>2, <1>3 DEF PipeFits, EndsLast, ReadsToEnd, Own, Over
  <2> QED BY <2>1, <2>2 DEF PipeFits
<1>4. CASE loop[s].pc = "unborn" /\ loop'[s].pc = "first" /\ loop'[s].made = 0
  <2>1. stream[s].pc = "none" /\ out[s] = <<>> /\ Len(<<>>) = 0
    BY <1>4, EmptySeq DEF BaseInv, StreamFits, PipeFits, Own
  <2>2. Reading(s)' /\ EndsLast(s)' /\ ReadsToEnd(s)'
    BY <2>1 DEF Reading, EndsLast, ReadsToEnd
  <2>3. Own(s)'
    BY <2>1 DEF PipeFits, Own
  <2> QED BY <2>2, <2>3 DEF PipeFits
<1> QED BY <1>1, <1>3, <1>4

\* An event that is sent comes last, or is dropped when nobody reads.
LEMMA OnlyOutFields ==
  ASSUME TypeOut, NEW r \in Run, NEW e \in EventRecord, OnlyOut(r, e)
  PROVE  /\ Len(out[r]) \in Nat
         /\ \/ out'[r] = out[r] /\ stream[r].pc = "gone"
            \/ /\ Len(out'[r]) = Len(out[r]) + 1
               /\ \A i \in 1..Len(out[r]) : out'[r][i] = out[r][i]
               /\ out'[r][Len(out[r]) + 1] = e
<1>1. out[r] \in Seq(EventRecord)
  BY DEF TypeOut
<1> QED BY <1>1, AppendProperties, LenProperties DEF OnlyOut

\* The loop of a run goes on.
LEMMA PipeBySend ==
  ASSUME BaseInv, ContextInv, NEW r \in Run, PipeFits(r), LoopStep(r), loop[r].pc # "first"
  PROVE  PipeFits(r)'
<1>1. OnlyLoop(r)
  BY LoopStepFits DEF BaseInv
<1>2. UNCHANGED <<stream, canceled, stops>>
  BY LoopStepFrame
<1>3. Quiet(r) \/ Resolves(r) \/ Says(r) \/ Announces(r) \/ Closes(r) \/ Withholds(r)
  BY LoopStepMoves
<1>4. Own(r)'
  BY <1>1, <1>2 DEF OnlyLoop, PipeFits, Own
<1>5. Len(out[r]) \in Nat
  BY LenProperties DEF BaseInv, TypeOut
<1>6. TypeOut /\ TypeLoop
  BY DEF BaseInv, LoopInv
<1>7. CASE Quiet(r)
  <2>1. Reading(r)'
    BY <1>2, <1>7 DEF Quiet, PipeFits, Reading, Settled, AccNew
  <2>2. EndsLast(r)'
    BY <1>7 DEF Quiet, PipeFits, EndsLast
  <2>3. ReadsToEnd(r)'
    BY <1>2, <1>7 DEF Quiet, PipeFits, ReadsToEnd, AccNew
  <2> QED BY <1>4, <2>1, <2>2, <2>3 DEF PipeFits
<1>8. CASE Resolves(r)
  <2>1. ~Over(r)
    BY <1>8 DEF Resolves, Over
  <2>2. Reading(r)'
    BY <1>8 DEF Resolves, Reading
  <2>3. EndsLast(r)'
    BY <1>8, <2>1 DEF Resolves, PipeFits, EndsLast
  <2>4. ReadsToEnd(r)'
    BY <1>2, <2>1 DEF PipeFits, ReadsToEnd
  <2> QED BY <1>4, <2>2, <2>3, <2>4 DEF PipeFits
<1>9. CASE Says(r)
  <2>1. PICK e \in EventRecord : /\ e.kind \in {"text", "batch"} /\ e.round = loop[r].round
                                 /\ OnlyOut(r, e)
    BY <1>6, <1>9, EventFields DEF Says
  <2>2. /\ loop[r].round >= loop[r].made /\ loop'[r].made = loop[r].made
        /\ loop[r].pc # "resolved" /\ loop'[r].pc # "resolved" /\ ~Over(r)
    BY <1>9 DEF Says
  <2>3. Reading(r)'
    <3> SUFFICES ASSUME stream[r].pc = "reading", r \notin stops
                 PROVE  \E k \in 0..Len(out'[r]) : Settled(r, k)'
      BY <1>2 DEF Reading
    <3>1. PICK k \in 0..Len(out[r]) : Settled(r, k)
      BY <2>2 DEF PipeFits, Reading
    <3>2. /\ Len(out'[r]) = Len(out[r]) + 1
          /\ \A i \in 1..Len(out[r]) : out'[r][i] = out[r][i]
          /\ out'[r][Len(out[r]) + 1] = e
      BY <1>6, <2>1, OnlyOutFields
    <3>3. ASSUME NEW i \in (k + 1)..Len(out'[r]), out'[r][i].kind \in {"text", "batch"}
          PROVE  out'[r][i].round >= loop'[r].made
      <4>1. CASE i <= Len(out[r])
        <5>1. i \in (k + 1)..Len(out[r]) /\ i \in 1..Len(out[r])
          BY <1>5, <4>1
        <5> QED BY <2>2, <3>1, <3>2, <3>3, <5>1 DEF Settled
      <4>2. CASE i = Len(out[r]) + 1
        BY <2>1, <2>2, <3>2, <4>2
      <4> QED BY <1>5, <3>2, <4>1, <4>2
    <3>4. k > 0 => out'[r][k].phase = "resolved"
      BY <1>5, <3>1, <3>2 DEF Settled
    <3>5. k = 0 => AccNew(r)'
      BY <1>2, <2>2, <3>1 DEF Settled, AccNew
    <3>6. Settled(r, k)'
      BY <3>3, <3>4, <3>5 DEF Settled
    <3> QED BY <1>5, <3>2, <3>6
  <2>4. EndsLast(r)'
    <3>1. CASE out'[r] = out[r]
      BY <2>2, <3>1 DEF PipeFits, EndsLast
    <3>2. CASE /\ Len(out'[r]) = Len(out[r]) + 1
               /\ \A i \in 1..Len(out[r]) : out'[r][i] = out[r][i]
               /\ out'[r][Len(out[r]) + 1] = e
      <4> SUFFICES ASSUME NEW i \in 1..Len(out'[r]), out'[r][i].kind \in {"end", "error"}
                   PROVE  FALSE
        BY DEF EndsLast
      <4>1. CASE i \in 1..Len(out[r])
        BY <2>2, <3>2, <4>1 DEF PipeFits, EndsLast
      <4>2. CASE i = Len(out[r]) + 1
        BY <2>1, <3>2, <4>2
      <4> QED BY <1>5, <3>2, <4>1, <4>2
    <3> QED BY <1>6, <2>1, <3>1, <3>2, OnlyOutFields
  <2>5. ReadsToEnd(r)'
    BY <1>2, <2>2 DEF PipeFits, ReadsToEnd
  <2> QED BY <1>4, <2>3, <2>4, <2>5 DEF PipeFits
<1>10. CASE Announces(r)
  <2>1. PICK e \in EventRecord : /\ e.kind = "batch" /\ e.phase = "resolved"
                                 /\ OnlyOut(r, e)
    BY <1>6, <1>10, EventFields DEF Announces
  <2>2. ~Over(r) /\ ~Over(r)'
    BY <1>10 DEF Announces, Over
  <2>3. Reading(r)'
    <3> SUFFICES ASSUME stream[r].pc = "reading"
                 PROVE  \E k \in 0..Len(out'[r]) : Settled(r, k)'
      BY <1>2 DEF Reading
    <3>1. /\ Len(out'[r]) = Len(out[r]) + 1
          /\ out'[r][Len(out[r]) + 1] = e
      BY <1>6, <2>1, OnlyOutFields
    <3>2. PICK k \in Nat : k = Len(out[r]) + 1
      BY <1>5
    <3>3. k > 0 /\ k \in 0..Len(out'[r]) /\ (k + 1)..Len(out'[r]) = {}
      BY <1>5, <3>1, <3>2
    <3>4. out'[r][k].phase = "resolved"
      BY <2>1, <3>1, <3>2
    <3>5. Settled(r, k)'
      BY <3>3, <3>4 DEF Settled
    <3> QED BY <3>3, <3>5
  <2>4. EndsLast(r)'
    <3>1. CASE out'[r] = out[r]
      BY <2>2, <3>1 DEF PipeFits, EndsLast
    <3>2. CASE /\ Len(out'[r]) = Len(out[r]) + 1
               /\ \A i \in 1..Len(out[r]) : out'[r][i] = out[r][i]
               /\ out'[r][Len(out[r]) + 1] = e
      <4> SUFFICES ASSUME NEW i \in 1..Len(out'[r]), out'[r][i].kind \in {"end", "error"}
                   PROVE  FALSE
        BY DEF EndsLast
      <4>1. CASE i \in 1..Len(out[r])
        BY <2>2, <3>2, <4>1 DEF PipeFits, EndsLast
      <4>2. CASE i = Len(out[r]) + 1
        BY <2>1, <3>2, <4>2
      <4> QED BY <1>5, <3>2, <4>1, <4>2
    <3> QED BY <1>6, <2>1, <3>1, <3>2, OnlyOutFields
  <2>5. ReadsToEnd(r)'
    BY <1>2, <2>2 DEF PipeFits, ReadsToEnd
  <2> QED BY <1>4, <2>3, <2>4, <2>5 DEF PipeFits
<1>11. CASE Closes(r)
  <2>1. PICK e \in EventRecord : /\ e.kind \in {"end", "error"}
                                 /\ OnlyOut(r, e)
    BY <1>6, <1>11, EventFields DEF Closes
  <2>2. /\ loop'[r].made = loop[r].made
        /\ loop[r].pc # "resolved" /\ ~Over(r) /\ Over(r)'
    BY <1>11 DEF Closes
  <2>3. Reading(r)'
    <3> SUFFICES ASSUME stream[r].pc = "reading", r \notin stops
                 PROVE  \E k \in 0..Len(out'[r]) : Settled(r, k)'
      BY <1>2 DEF Reading
    <3>1. PICK k \in 0..Len(out[r]) : Settled(r, k)
      BY <2>2 DEF PipeFits, Reading
    <3>2. /\ Len(out'[r]) = Len(out[r]) + 1
          /\ \A i \in 1..Len(out[r]) : out'[r][i] = out[r][i]
          /\ out'[r][Len(out[r]) + 1] = e
      BY <1>6, <2>1, OnlyOutFields
    <3>3. ASSUME NEW i \in (k + 1)..Len(out'[r]), out'[r][i].kind \in {"text", "batch"}
          PROVE  out'[r][i].round >= loop'[r].made
      <4>1. CASE i <= Len(out[r])
        <5>1. i \in (k + 1)..Len(out[r]) /\ i \in 1..Len(out[r])
          BY <1>5, <4>1
        <5> QED BY <2>2, <3>1, <3>2, <3>3, <5>1 DEF Settled
      <4>2. CASE i = Len(out[r]) + 1
        BY <2>1, <3>2, <3>3, <4>2
      <4> QED BY <1>5, <3>2, <4>1, <4>2
    <3>4. k > 0 => out'[r][k].phase = "resolved"
      BY <1>5, <3>1, <3>2 DEF Settled
    <3>5. k = 0 => AccNew(r)'
      BY <1>2, <2>2, <3>1 DEF Settled, AccNew
    <3>6. Settled(r, k)'
      BY <3>3, <3>4, <3>5 DEF Settled
    <3> QED BY <1>5, <3>2, <3>6
  <2>4. EndsLast(r)'
    <3>1. CASE out'[r] = out[r]
      BY <2>2, <3>1 DEF PipeFits, EndsLast
    <3>2. CASE /\ Len(out'[r]) = Len(out[r]) + 1
               /\ \A i \in 1..Len(out[r]) : out'[r][i] = out[r][i]
               /\ out'[r][Len(out[r]) + 1] = e
      <4> SUFFICES ASSUME NEW i \in 1..Len(out'[r]), out'[r][i].kind \in {"end", "error"}
                   PROVE  i = Len(out'[r])
        BY <2>2 DEF EndsLast
      <4>1. CASE i \in 1..Len(out[r])
        BY <2>2, <3>2, <4>1 DEF PipeFits, EndsLast
      <4> QED BY <1>5, <3>2, <4>1
    <3> QED BY <1>6, <2>1, <3>1, <3>2, OnlyOutFields
  <2>5. ReadsToEnd(r)'
    BY <1>2, <2>2 DEF PipeFits, ReadsToEnd
  <2> QED BY <1>4, <2>3, <2>4, <2>5 DEF PipeFits
<1>12. CASE Withholds(r)
  <2>1. ~Over(r) /\ loop[r].pc # "unborn"
    BY <1>12 DEF Withholds, Over
  <2>2. r \notin stops => stream[r].pc = "gone"
    BY <1>12, <2>1, NotCanceled DEF Withholds
  <2>3. r \in stops
    BY <2>1, <2>2 DEF PipeFits, ReadsToEnd
  <2>4. Reading(r)' /\ ReadsToEnd(r)'
    BY <1>2, <2>3 DEF Reading, ReadsToEnd
  <2>5. EndsLast(r)'
    BY <1>12, <2>1 DEF Withholds, PipeFits, EndsLast
  <2> QED BY <1>4, <2>4, <2>5 DEF PipeFits
<1> QED BY <1>3, <1>7, <1>8, <1>9, <1>10, <1>11, <1>12

\* The first call begins with nothing on its way.
LEMMA PipeByFirst ==
  ASSUME BaseInv, NEW r \in Run, PipeFits(r), LoopStep(r), loop[r].pc = "first"
  PROVE  PipeFits(r)'
<1>1. OnlyLoop(r)
  BY LoopStepFits DEF BaseInv
<1>2. FirstCall(r) \/ FirstCallFails(r)
  BY LoopStepFrame
<1>3. UNCHANGED out /\ out[r] = <<>> /\ Len(<<>>) = 0
  BY <1>2, EmptySeq DEF FirstCall, FirstCallFails, PipeFits, Own
<1>4. stream[r].pc = "none" /\ stream[r].text = {} /\ stream[r].calls = {}
  BY DEF BaseInv, StreamFits, PipeFits, Own
<1>5. PICK pc \in {"reading", "leaving", "gone"} :
        /\ stream' = [stream EXCEPT ![r].pc = pc]
        /\ FirstCallFails(r) \/ pc = "reading"
  BY <1>2 DEF FirstCall, FirstCallFails
<1>6. stream'[r].pc = pc /\ stream'[r].text = {} /\ stream'[r].calls = {}
  BY <1>4, <1>5, StreamGoesFields DEF BaseInv, StreamGoes
<1>7. Own(r)'
  BY <1>1, <1>6 DEF Own, OnlyLoop
<1>8. EndsLast(r)'
  BY <1>3 DEF EndsLast
<1>9. Reading(r)'
  <2>1. Settled(r, 0)'
    BY <1>3, <1>6 DEF Settled, AccNew
  <2> QED BY <1>3, <2>1 DEF Reading
<1>10. ReadsToEnd(r)'
  <2>1. CASE pc = "reading"
    BY <1>6, <2>1 DEF ReadsToEnd
  <2>2. CASE FirstCallFails(r)
    <3>1. loop'[r].pc = "done"
      BY <2>2 DEF FirstCallFails, Goto, BaseInv, LoopInv, TypeLoop, LoopRecord
    <3> QED BY <1>6, <3>1 DEF ReadsToEnd, Over, AccNew
  <2> QED BY <1>5, <2>1, <2>2
<1> QED BY <1>7, <1>8, <1>9, <1>10 DEF PipeFits

LEMMA PipeByLoop ==
  ASSUME BaseInv, ContextInv, PipeInv, NEW r \in Run, LoopStep(r)
  PROVE  PipeInv'
<1>1. OnlyLoop(r) /\ LoopSends(r)
  BY LoopStepFits, LoopStepSends DEF BaseInv
<1>2. PipeFits(r)'
  BY PipeBySend, PipeByFirst DEF PipeInv
<1>3. ASSUME NEW s \in Run \ {r} PROVE PipeFits(s)'
  <2>1. loop'[s] = loop[s] /\ out'[s] = out[s] /\ stops' = stops
    BY <1>1, LoopStepFrame DEF OnlyLoop, LoopSends, OnlyOut
  <2>2. stream'[s] = stream[s]
    <3>1. CASE loop[r].pc = "first"
      BY <3>1, LoopStepFrame DEF FirstCall, FirstCallFails, BaseInv, TypeStream
    <3>2. CASE loop[r].pc # "first"
      BY <3>2, LoopStepFrame
    <3> QED BY <3>1, <3>2
  <2> QED BY <2>1, <2>2, PipeUntouched DEF PipeInv
<1> QED BY <1>2, <1>3 DEF PipeInv

LEMMA PipeByStart ==
  ASSUME BaseInv, PipeInv, NEW p \in Post, Reply(p) \/ Regenerate(p)
  PROVE  PipeInv'
<1>1. Started(NextRun, p)
  BY ReplyFields, RegenerateFields DEF BaseInv
<1>2. UNCHANGED <<out, stream, stops>>
  BY DEF Reply, Regenerate
<1>3. ASSUME NEW s \in Run PROVE PipeFits(s)'
  <2>1. \/ loop'[s] = loop[s]
        \/ loop[s].pc = "done" /\ loop'[s].pc = "done" /\ loop'[s].made = 0
        \/ loop[s].pc = "unborn" /\ loop'[s].pc = "first" /\ loop'[s].made = 0
    BY <1>1 DEF Started
  <2> QED BY <1>2, <2>1, PipeUntouched DEF PipeInv
<1> QED BY <1>3 DEF PipeInv

LEMMA PipeByStop ==
  ASSUME BaseInv, PipeInv, NEW p \in Post, StopStreaming(p)
  PROVE  PipeInv'
<1>1. UNCHANGED <<loop, out, stream>> /\ stops \subseteq stops'
  BY DEF StopStreaming
<1> QED BY <1>1, PipeUntouched DEF PipeInv

\* A stream that reads on, stops reading, leaves or is gone.
LEMMA PipeByRead ==
  ASSUME BaseInv, NEW r \in Run, PipeFits(r), ReadEvent(r)
  PROVE  PipeFits(r)'
<1> DEFINE e == out[r][1]
<1>1. /\ Len(out[r]) \in Nat \ {0} /\ Len(out'[r]) = Len(out[r]) - 1
      /\ \A i \in 1..(Len(out[r]) - 1) : out'[r][i] = out[r][i + 1]
      /\ stream[r].pc = "reading" /\ stream'[r].pc = "reading"
  BY ReadFields
<1>2. /\ e.kind \in {"text", "batch"}
      /\ \/ stream'[r].text = stream[r].text \cup {<<r, e.round>>}
            /\ stream'[r].calls = stream[r].calls
         \/ stream'[r].text = stream[r].text /\ stream'[r].calls = {<<r, e.round>>}
         \/ stream'[r].text = {} /\ stream'[r].calls = {}
      /\ e.phase = "resolved" => stream'[r].text = {} /\ stream'[r].calls = {}
  BY ReadFields
<1>3. UNCHANGED <<loop, stops>>
  BY DEF ReadEvent, UnchangedByStream
<1> HIDE DEF e
<1>4. Own(r)'
  <2>1. \A x \in stream'[r].text \cup stream'[r].calls : x[1] = r
    BY <1>2 DEF PipeFits, Own
  <2>2. loop[r].pc \notin {"unborn", "first"}
    BY <1>1 DEF BaseInv, StreamFits
  <2> QED BY <1>1, <1>3, <2>1, <2>2 DEF Own
<1>5. EndsLast(r)'
  <2> SUFFICES ASSUME NEW i \in 1..Len(out'[r]), out'[r][i].kind \in {"end", "error"}
               PROVE  i = Len(out'[r]) /\ Over(r)'
    BY DEF EndsLast
  <2>1. i + 1 \in 1..Len(out[r]) /\ out'[r][i] = out[r][i + 1]
    BY <1>1
  <2>2. i + 1 = Len(out[r]) /\ Over(r)
    BY <2>1 DEF PipeFits, EndsLast
  <2> QED BY <1>1, <1>3, <2>2 DEF Over
<1>6. ReadsToEnd(r)'
  BY <1>1 DEF ReadsToEnd
<1>7. Reading(r)'
  <2> SUFFICES ASSUME r \notin stops, loop[r].pc # "resolved"
               PROVE  \E k \in 0..Len(out'[r]) : Settled(r, k)'
    BY <1>3 DEF Reading
  <2>1. PICK k \in 0..Len(out[r]) : Settled(r, k)
    BY <1>1 DEF PipeFits, Reading
  <2>2. ASSUME NEW i \in 1..Len(out'[r]), i >= k, out'[r][i].kind \in {"text", "batch"}
        PROVE  out'[r][i].round >= loop[r].made
    <3>1. i + 1 \in (k + 1)..Len(out[r]) /\ out'[r][i] = out[r][i + 1]
      BY <1>1, <2>2
    <3> QED BY <2>1, <2>2, <3>1 DEF Settled
  <2>3. CASE k = 0
    <3>1. e.round >= loop[r].made
      <4>1. 1 \in (k + 1)..Len(out[r])
        BY <1>1, <2>3
      <4> QED BY <1>2, <2>1, <4>1 DEF Settled, e
    <3>2. AccNew(r)'
      BY <1>2, <1>3, <2>1, <2>3, <3>1 DEF Settled, AccNew
    <3>3. Settled(r, 0)'
      <4>1. \A i \in (0 + 1)..Len(out'[r]) : i >= k /\ i \in 1..Len(out'[r])
        BY <1>1, <2>3
      <4> QED BY <1>3, <2>2, <3>2, <4>1 DEF Settled
    <3> QED BY <1>1, <3>3
  <2>4. CASE k = 1
    <3>1. e.phase = "resolved"
      BY <2>1, <2>4 DEF Settled, e
    <3>2. AccNew(r)'
      BY <1>2, <3>1 DEF AccNew
    <3>3. Settled(r, 0)'
      <4>1. \A i \in (0 + 1)..Len(out'[r]) : i >= k /\ i \in 1..Len(out'[r])
        BY <1>1, <2>4
      <4> QED BY <1>3, <2>2, <3>2, <4>1 DEF Settled
    <3> QED BY <1>1, <3>3
  <2>5. CASE k > 1
    <3>1. PICK m \in Nat : m = k - 1 /\ m > 0
      BY <1>1, <2>5
    <3>2. m \in 0..Len(out'[r]) /\ m \in 1..(Len(out[r]) - 1) /\ m + 1 = k
      BY <1>1, <3>1
    <3>3. out'[r][m].phase = "resolved"
      BY <1>1, <2>1, <2>5, <3>2 DEF Settled
    <3>4. \A i \in (m + 1)..Len(out'[r]) : i >= k /\ i \in 1..Len(out'[r])
      BY <1>1, <3>1
    <3>5. Settled(r, m)'
      BY <1>3, <2>2, <3>1, <3>3, <3>4 DEF Settled
    <3> QED BY <3>2, <3>5
  <2> QED BY <1>1, <2>3, <2>4, <2>5
<1> QED BY <1>4, <1>5, <1>6, <1>7 DEF PipeFits

LEMMA PipeByStopReading ==
  ASSUME BaseInv, ContextInv, NEW r \in Run, PipeFits(r), StopReading(r)
  PROVE  PipeFits(r)'
<1>1. UNCHANGED <<loop, stops, out>> /\ stream[r].pc = "reading"
  BY DEF StopReading, UnchangedByStream
<1>2. /\ stream'[r].pc = "finalizing"
      /\ stream'[r].text = stream[r].text /\ stream'[r].calls = stream[r].calls
  BY StreamGoesFields DEF StopReading, BaseInv, StreamGoes
<1>3. loop[r].pc \notin {"unborn", "first"}
  BY <1>1 DEF BaseInv, StreamFits
<1>4. Own(r)' /\ EndsLast(r)' /\ Reading(r)'
  BY <1>1, <1>2, <1>3 DEF PipeFits, Own, EndsLast, Reading, Over
<1>5. ASSUME r \notin stops PROVE Over(r) /\ AccNew(r)
  <2>1. r \notin canceled
    BY <1>1, <1>3, <1>5, NotCanceled
  <2>2. loop[r].pc # "resolved" => \E k \in 0..Len(out[r]) : Settled(r, k)
    BY <1>1, <1>5 DEF PipeFits, Reading
  <2>3. Len(out[r]) \in Nat /\ out[r] \in Seq(EventRecord)
    BY LenProperties DEF BaseInv, TypeOut
  <2>4. CASE out[r] # <<>> /\ Head(out[r]).kind \in {"end", "error"}
    <3>1. 1 \in 1..Len(out[r]) /\ Head(out[r]) = out[r][1]
      BY <2>3, <2>4, EmptySeq
    <3>2. Len(out[r]) = 1 /\ Over(r)
      BY <2>4, <3>1 DEF PipeFits, EndsLast
    <3>3. loop[r].pc # "resolved"
      BY <3>2 DEF Over
    <3>4. PICK k \in 0..1 : Settled(r, k)
      BY <2>2, <3>2, <3>3
    <3>5. out[r][1].phase = "none"
      <4>1. out[r][1].kind # "batch"
        BY <2>4, <3>1
      <4> QED BY <3>1, <4>1 DEF BaseInv, OutFits
    <3>6. k = 0
      BY <3>4, <3>5 DEF Settled
    <3> QED BY <3>2, <3>4, <3>6 DEF Settled
  <2>5. CASE out[r] = <<>> /\ loop[r].pc = "done"
    <3>1. Len(out[r]) = 0
      BY <2>5, EmptySeq
    <3>2. PICK k \in 0..0 : Settled(r, k)
      BY <2>2, <2>5, <3>1
    <3> QED BY <2>5, <3>2 DEF Settled, Over
  <2> QED BY <2>1, <2>4, <2>5 DEF StopReading
<1>6. ReadsToEnd(r)'
  BY <1>1, <1>2, <1>5 DEF ReadsToEnd, Over, AccNew
<1> QED BY <1>4, <1>6 DEF PipeFits

LEMMA PipeByStream ==
  ASSUME BaseInv, ContextInv, PipeInv, NEW r \in Run, StreamStep(r)
  PROVE  PipeInv'
<1>1. UNCHANGED <<loop, stops>>
  BY DEF StreamStep, ReadEvent, StopReading, finalizeTurn, FinishStreaming, UnchangedByStream
<1>2. ASSUME PipeFits(r)', \A s \in Run \ {r} : out'[s] = out[s] /\ stream'[s] = stream[s]
      PROVE  PipeInv'
  <2>1. ASSUME NEW s \in Run \ {r} PROVE PipeFits(s)'
    BY <1>1, <1>2, PipeUntouched DEF PipeInv
  <2> QED BY <1>2, <2>1 DEF PipeInv
<1>3. CASE ReadEvent(r)
  BY <1>2, <1>3, ReadFields, PipeByRead DEF PipeInv
<1>4. CASE StopReading(r)
  <2>1. \A s \in Run \ {r} : out'[s] = out[s] /\ stream'[s] = stream[s]
    BY <1>4, StreamGoesFields DEF StopReading, StreamGoes, BaseInv
  <2> QED BY <1>2, <1>4, <2>1, PipeByStopReading DEF PipeInv
<1>5. ASSUME stream[r].pc \in {"finalizing", "leaving"}, stream'[r].pc \in {"leaving", "gone"},
             stream'[r].text \cup stream'[r].calls \subseteq stream[r].text \cup stream[r].calls,
             out'[r] \in {<<>>, out[r]}
      PROVE  PipeFits(r)'
  <2>1. Reading(r)'
    BY <1>5 DEF Reading
  <2>2. EndsLast(r)'
    <3>1. Len(<<>>) = 0
      BY EmptySeq
    <3> QED BY <1>1, <1>5, <3>1 DEF PipeInv, PipeFits, EndsLast, Over
  <2>3. ReadsToEnd(r)'
    BY <1>1, <1>5 DEF PipeInv, PipeFits, ReadsToEnd, Over
  <2>4. Own(r)'
    BY <1>1, <1>5 DEF PipeInv, PipeFits, Own
  <2> QED BY <2>1, <2>2, <2>3, <2>4 DEF PipeFits
<1>6. CASE finalizeTurn(r)
  <2>1. UNCHANGED out /\ stream[r].pc = "finalizing"
    BY <1>6 DEF finalizeTurn
  <2>2. /\ stream'[r].pc = "leaving" /\ stream'[r].text = {} /\ stream'[r].calls = {}
        /\ \A s \in Run \ {r} : stream'[s] = stream[s]
    BY <1>6, FinalizeFields DEF StreamGoes
  <2> QED BY <1>2, <1>5, <2>1, <2>2
<1>7. CASE FinishStreaming(r)
  <2>1. /\ stream'[r].pc = "gone" /\ stream[r].pc = "leaving"
        /\ stream'[r].text = stream[r].text /\ stream'[r].calls = stream[r].calls
        /\ out'[r] \in {<<>>, out[r]}
        /\ \A s \in Run \ {r} : out'[s] = out[s] /\ stream'[s] = stream[s]
    BY <1>7, FinishFields DEF StreamGoes
  <2> QED BY <1>2, <1>5, <2>1
<1> QED BY <1>3, <1>4, <1>6, <1>7 DEF StreamStep

LEMMA PipeInit == Init => PipeInv
<1> SUFFICES ASSUME Init, NEW r \in Run PROVE PipeFits(r)
  BY DEF PipeInv
<1>1. /\ stream[r].pc = "none" /\ stream[r].text = {} /\ stream[r].calls = {}
      /\ out[r] = <<>> /\ Len(<<>>) = 0
  BY EmptySeq DEF Init, NoStream
<1> QED BY <1>1 DEF PipeFits, Reading, EndsLast, ReadsToEnd, Own

LEMMA PipeStep == BaseInv /\ ContextInv /\ PipeInv /\ [Next]_vars => PipeInv'
<1> SUFFICES ASSUME BaseInv, ContextInv, PipeInv, [Next]_vars PROVE PipeInv'
  OBVIOUS
<1>1. CASE UNCHANGED vars
  BY <1>1, PipeUntouched DEF vars, PipeInv
<1> QED BY <1>1, PipeByStart, PipeByStop, PipeByLoop, PipeByStream DEF Next

-----------------------------------------------------------------------------
(* Every step keeps the anchors as they were meant                         *)

\* A step takes nothing back from a run whose anchor is stored: no round joins
\* the recorded ones and the way it ended stays, or both are forgotten.
LeavesAnchored ==
  /\ stops \subseteq stops'
  /\ \A r \in Run : stream[r].pc \in {"leaving", "gone"} =>
       /\ stream'[r].pc \in {"leaving", "gone"}
       /\ r \notin stops' => /\ loop'[r].made \in {0, loop[r].made}
                             /\ loop'[r].last \in {"none", loop[r].last}

\* What a turn that is added must be.
FitsAfter(t) ==
  /\ t.kind = "anchor" =>
       /\ t.run \in Run /\ stream'[t.run].pc \in {"leaving", "gone"}
       /\ \A x \in t.text \cup t.calls :
            x[1] = t.run /\ (t.run \notin stops' => x[2] >= loop'[t.run].made)
  /\ t.kind \in {"use", "result"} =>
       \/ t.run \in stops'
       \/ stream[t.run].pc \notin {"leaving", "gone"}
       \/ loop'[t.run].last \notin {"end", "ask"}

LEMMA TurnFields ==
  ASSUME BaseInv
  PROVE  /\ Len(turns) \in Nat /\ DOMAIN turns = 1..Len(turns)
         /\ \A i \in 1..Len(turns) :
              /\ turns[i] \in TurnRecord
              /\ \A x \in turns[i].text \cup turns[i].calls : x[2] \in Nat
<1>1. Len(turns) \in Nat /\ DOMAIN turns = 1..Len(turns)
  BY LenProperties DEF BaseInv, TypeTurns
<1>2. \A i \in 1..Len(turns) : turns[i] \in TurnRecord
  BY ElementOfSeq DEF BaseInv, TypeTurns
<1>3. \A t \in TurnRecord : t.text \cup t.calls \subseteq RunRounds
  BY DEF TurnRecord
<1>4. \A x \in RunRounds : x[2] \in Nat
  BY RoundsFields DEF RunRounds
<1> QED BY <1>1, <1>2, <1>3, <1>4

\* An anchor that was there before.
LEMMA AnchorStays ==
  ASSUME BaseInv, TurnInv, LeavesAnchored, NEW i \in 1..Len(turns), turns[i].kind = "anchor"
  PROVE  LET t == turns[i] IN
         /\ t.run \in Run /\ stream[t.run].pc \in {"leaving", "gone"}
         /\ stream'[t.run].pc \in {"leaving", "gone"}
         /\ \A x \in t.text \cup t.calls :
              x[1] = t.run /\ (t.run \notin stops' => x[2] >= loop'[t.run].made)
         /\ t.run \notin stops' /\ loop'[t.run].last \in {"end", "ask"} =>
              \A j \in 1..Len(turns) :
                turns[j].run = t.run /\ turns[j].kind \in {"use", "result"} => j < i
<1> DEFINE t == turns[i]
<1>1. /\ t.run \in Run /\ stream[t.run].pc \in {"leaving", "gone"}
      /\ \A x \in t.text \cup t.calls : x[1] = t.run
  BY DEF TurnInv, AnchorsAreOwn
<1>2. stream'[t.run].pc \in {"leaving", "gone"}
  BY <1>1 DEF LeavesAnchored
<1>3. ASSUME t.run \notin stops'
      PROVE  /\ t.run \notin stops /\ loop'[t.run].made \in {0, loop[t.run].made}
             /\ loop'[t.run].last \in {"none", loop[t.run].last}
  BY <1>1, <1>3 DEF LeavesAnchored
<1>4. ASSUME t.run \notin stops', NEW x \in t.text \cup t.calls
      PROVE  x[2] >= loop'[t.run].made
  <2>1. x[2] >= loop[x[1]].made /\ x[2] \in Nat
    BY <1>3, <1>4, TurnFields DEF TurnInv, NothingRecordedTwice
  <2> QED BY <1>1, <1>3, <1>4, <2>1
<1>5. ASSUME t.run \notin stops', loop'[t.run].last \in {"end", "ask"},
             NEW j \in 1..Len(turns), turns[j].run = t.run, turns[j].kind \in {"use", "result"}
      PROVE  j < i
  <2>1. loop[t.run].last \in {"end", "ask"}
    BY <1>3, <1>5
  <2> QED BY <1>3, <1>5, <2>1, TurnFields DEF TurnInv, RoundsPrecedeAnchor
<1> QED BY <1>1, <1>2, <1>4, <1>5

\* The three parts of the invariant of a state whose turns are numbered.
LEMMA TurnParts ==
  ASSUME turns' \in Seq(TurnRecord),
         \A i \in 1..Len(turns') : turns'[i].kind = "anchor" =>
           LET t == turns'[i] IN
           /\ t.run \in Run /\ stream'[t.run].pc \in {"leaving", "gone"}
           /\ \A x \in t.text \cup t.calls :
                x[1] = t.run /\ (t.run \notin stops' => x[2] >= loop'[t.run].made)
           /\ t.run \notin stops' /\ loop'[t.run].last \in {"end", "ask"} =>
                \A j \in 1..Len(turns') :
                  turns'[j].run = t.run /\ turns'[j].kind \in {"use", "result"} => j < i
  PROVE  TurnInv'
<1>1. DOMAIN turns' = 1..Len(turns')
  BY LenProperties
<1>2. AnchorsAreOwn'
  BY DEF AnchorsAreOwn
<1>3. NothingRecordedTwice'
  BY <1>1 DEF NothingRecordedTwice
<1>4. RoundsPrecedeAnchor'
  BY <1>1 DEF RoundsPrecedeAnchor
<1> QED BY <1>2, <1>3, <1>4 DEF TurnInv

LEMMA TurnsByScrub ==
  ASSUME BaseInv, TurnInv, LeavesAnchored, NEW f, Kept(f)
  PROVE  TurnInv'
<1>1. ASSUME NEW i \in 1..Len(turns'), turns'[i].kind = "anchor"
      PROVE  LET t == turns'[i] IN
             /\ t.run \in Run /\ stream'[t.run].pc \in {"leaving", "gone"}
             /\ \A x \in t.text \cup t.calls :
                  x[1] = t.run /\ (t.run \notin stops' => x[2] >= loop'[t.run].made)
             /\ t.run \notin stops' /\ loop'[t.run].last \in {"end", "ask"} =>
                  \A j \in 1..Len(turns') :
                    turns'[j].run = t.run /\ turns'[j].kind \in {"use", "result"} => j < i
  <2>1. \A j \in 1..Len(turns') : /\ f[j] \in 1..Len(turns) /\ turns'[j] = turns[f[j]]
                                  /\ f[j] < f[i] => j < i
    BY DEF Kept
  <2>2. PICK k \in 1..Len(turns) : k = f[i] /\ turns'[i] = turns[k]
    BY <2>1
  <2> DEFINE t == turns[k]
  <2>3. /\ t.run \in Run /\ stream'[t.run].pc \in {"leaving", "gone"}
        /\ \A x \in t.text \cup t.calls :
             x[1] = t.run /\ (t.run \notin stops' => x[2] >= loop'[t.run].made)
        /\ t.run \notin stops' /\ loop'[t.run].last \in {"end", "ask"} =>
             \A j \in 1..Len(turns) :
               turns[j].run = t.run /\ turns[j].kind \in {"use", "result"} => j < k
    BY <1>1, <2>2, AnchorStays
  <2> HIDE DEF t
  <2>4. turns'[i] = t
    BY <2>2 DEF t
  <2>5. ASSUME t.run \notin stops', loop'[t.run].last \in {"end", "ask"},
               NEW j \in 1..Len(turns'), turns'[j].run = t.run,
               turns'[j].kind \in {"use", "result"}
        PROVE  j < i
    <3>1. f[j] < k
      BY <2>1, <2>3, <2>5
    <3> QED BY <2>1, <2>2, <3>1
  <2> QED BY <2>3, <2>4, <2>5
<1> QED BY <1>1, TurnParts DEF Kept

LEMMA TurnsByNone ==
  ASSUME BaseInv, TurnInv, LeavesAnchored, UNCHANGED turns
  PROVE  TurnInv'
<1>1. Kept([i \in 1..Len(turns) |-> i])
  BY TurnFields DEF Kept, BaseInv, TypeTurns
<1> QED BY <1>1, TurnsByScrub

LEMMA TurnsByAdding ==
  ASSUME BaseInv, TurnInv, LeavesAnchored, NEW t \in TurnRecord, Added(t), FitsAfter(t)
  PROVE  TurnInv'
<1>1. PICK n \in Nat : n = Len(turns)
  BY TurnFields
<1>2. /\ turns' \in Seq(TurnRecord) /\ 1..Len(turns') = 1..(n + 1)
      /\ \A i \in 1..n : turns'[i] = turns[i]
      /\ turns'[n + 1] = t
  BY <1>1 DEF Added
<1>3. ASSUME NEW i \in 1..n, turns'[i].kind = "anchor"
      PROVE  LET a == turns'[i] IN
             /\ a.run \in Run /\ stream'[a.run].pc \in {"leaving", "gone"}
             /\ \A x \in a.text \cup a.calls :
                  x[1] = a.run /\ (a.run \notin stops' => x[2] >= loop'[a.run].made)
             /\ a.run \notin stops' /\ loop'[a.run].last \in {"end", "ask"} =>
                  \A j \in 1..(n + 1) :
                    turns'[j].run = a.run /\ turns'[j].kind \in {"use", "result"} => j < i
  <2> DEFINE a == turns[i]
  <2>1. turns'[i] = a /\ i \in 1..Len(turns)
    BY <1>1, <1>2
  <2>2. /\ a.run \in Run /\ stream[a.run].pc \in {"leaving", "gone"}
        /\ stream'[a.run].pc \in {"leaving", "gone"}
        /\ \A x \in a.text \cup a.calls :
             x[1] = a.run /\ (a.run \notin stops' => x[2] >= loop'[a.run].made)
        /\ a.run \notin stops' /\ loop'[a.run].last \in {"end", "ask"} =>
             \A j \in 1..Len(turns) :
               turns[j].run = a.run /\ turns[j].kind \in {"use", "result"} => j < i
    BY <1>3, <2>1, AnchorStays
  <2> HIDE DEF a
  <2>3. ASSUME a.run \notin stops', loop'[a.run].last \in {"end", "ask"},
               NEW j \in 1..(n + 1), turns'[j].run = a.run, turns'[j].kind \in {"use", "result"}
        PROVE  j < i
    <3>1. CASE j \in 1..n
      BY <1>1, <1>2, <2>2, <2>3, <3>1
    <3>2. CASE j = n + 1
      BY <1>2, <2>2, <2>3, <3>2 DEF FitsAfter
    <3> QED BY <3>1, <3>2
  <2> QED BY <2>1, <2>2, <2>3
<1>4. ASSUME t.kind = "anchor"
      PROVE  /\ t.run \in Run /\ stream'[t.run].pc \in {"leaving", "gone"}
             /\ \A x \in t.text \cup t.calls :
                  x[1] = t.run /\ (t.run \notin stops' => x[2] >= loop'[t.run].made)
             /\ \A j \in 1..(n + 1) :
                  turns'[j].run = t.run /\ turns'[j].kind \in {"use", "result"} => j < n + 1
  <2>1. ASSUME NEW j \in 1..(n + 1), turns'[j].kind \in {"use", "result"} PROVE j < n + 1
    <3>1. j # n + 1
      BY <1>2, <1>4, <2>1
    <3> QED BY <3>1
  <2> QED BY <1>4, <2>1 DEF FitsAfter
<1>5. ASSUME NEW i \in 1..(n + 1), turns'[i].kind = "anchor"
      PROVE  LET a == turns'[i] IN
             /\ a.run \in Run /\ stream'[a.run].pc \in {"leaving", "gone"}
             /\ \A x \in a.text \cup a.calls :
                  x[1] = a.run /\ (a.run \notin stops' => x[2] >= loop'[a.run].made)
             /\ a.run \notin stops' /\ loop'[a.run].last \in {"end", "ask"} =>
                  \A j \in 1..(n + 1) :
                    turns'[j].run = a.run /\ turns'[j].kind \in {"use", "result"} => j < i
  <2>1. i \in 1..n \/ i = n + 1
    OBVIOUS
  <2> QED BY <1>2, <1>3, <1>4, <1>5, <2>1
<1> QED BY <1>2, <1>5, TurnParts

\* A loop whose run's anchor is stored, and which nobody stopped, only ends.
LEMMA LeavesByLoop ==
  ASSUME BaseInv, PipeInv, NEW r \in Run, LoopStep(r)
  PROVE  LeavesAnchored
<1>1. OnlyLoop(r)
  BY LoopStepFits DEF BaseInv
<1>2. UNCHANGED stops
  BY LoopStepFrame
<1>3. ASSUME NEW s \in Run, stream[s].pc \in {"leaving", "gone"}
      PROVE  loop[s].pc \notin {"unborn", "first"}
  BY <1>3 DEF BaseInv, StreamFits
<1>4. ASSUME NEW s \in Run, stream[s].pc \in {"leaving", "gone"}
      PROVE  stream'[s].pc \in {"leaving", "gone"}
  <2>1. CASE loop[r].pc = "first"
    <3>1. FirstCall(r) \/ FirstCallFails(r)
      BY <2>1, LoopStepFrame
    <3>2. s # r
      BY <1>3, <1>4, <2>1
    <3>3. stream'[s] = stream[s]
      BY <3>1, <3>2 DEF FirstCall, FirstCallFails, BaseInv, TypeStream
    <3> QED BY <1>4, <3>3
  <2>2. CASE loop[r].pc # "first"
    BY <1>4, <2>2, LoopStepFrame
  <2> QED BY <2>1, <2>2
<1>5. ASSUME NEW s \in Run, stream[s].pc \in {"leaving", "gone"}, s \notin stops
      PROVE  loop'[s].made = loop[s].made /\ loop'[s].last = loop[s].last
  <2>1. CASE s # r
    BY <1>1, <2>1 DEF OnlyLoop
  <2>2. CASE s = r
    <3>1. Over(r)
      BY <1>5, <2>2 DEF PipeInv, PipeFits, ReadsToEnd
    <3>2. Quiet(r)
      BY <1>3, <1>5, <2>2, <3>1, LoopStepMoves
         DEF Resolves, Says, Announces, Closes, Withholds, Over
    <3> QED BY <2>2, <3>1, <3>2 DEF Quiet
  <2> QED BY <2>1, <2>2
<1> QED BY <1>2, <1>4, <1>5 DEF LeavesAnchored

LEMMA TurnByLoop ==
  ASSUME BaseInv, PipeInv, TurnInv, NEW r \in Run, LoopStep(r)
  PROVE  TurnInv'
<1>1. LeavesAnchored
  BY LeavesByLoop
<1>2. CASE ~ WriteToolTurn(r)
  BY <1>1, <1>2, LoopStepFrame, TurnsByNone
<1>3. CASE WriteToolTurn(r)
  <2> DEFINE n == loop[r].written
             t == IF n % 2 = 0 THEN Use(r, n \div 2) ELSE Result(r, n \div 2)
  <2>1. /\ loop[r].pc = "deliver" /\ n < 2 * loop[r].made /\ turns' = Append(turns, t)
        /\ loop' = [loop EXCEPT ![r].written = n + 1] /\ UNCHANGED <<stream, stops>>
    BY <1>3 DEF WriteToolTurn, UnchangedByLoop
  <2>2. n \in Nat /\ loop[r].made \in Nat /\ LoopInv
    BY DEF BaseInv, LoopInv, TypeLoop, LoopRecord
  <2>3. n \div 2 \in Nat /\ n \div 2 < loop[r].made
    BY <2>1, <2>2
  <2>4. Use(r, n \div 2) \in TurnRecord /\ Result(r, n \div 2) \in TurnRecord
    BY <2>1, <2>2, <2>3, RoundTurn
  <2>5. t \in TurnRecord /\ t.kind \in {"use", "result"} /\ t.run = r
    BY <2>4 DEF Use, Result, Turn
  <2> HIDE DEF t, n
  <2>6. Added(t)
    BY <2>1, <2>5, AppendFields DEF BaseInv
  <2>7. FitsAfter(t)
    <3> SUFFICES ASSUME r \notin stops', stream[r].pc \in {"leaving", "gone"}
                 PROVE  loop'[r].last \notin {"end", "ask"}
      BY <2>5 DEF FitsAfter
    <3>1. loop[r].last = "stop"
      BY <2>1 DEF PipeInv, PipeFits, ReadsToEnd, Over
    <3>2. loop'[r].last = loop[r].last
      BY <2>1, <2>2, WrittenFields DEF n
    <3> QED BY <3>1, <3>2
  <2> QED BY <1>1, <2>5, <2>6, <2>7, TurnsByAdding
<1> QED BY <1>2, <1>3

LEMMA TurnByStart ==
  ASSUME BaseInv, TurnInv, NEW p \in Post, Reply(p) \/ Regenerate(p)
  PROVE  TurnInv'
<1>1. Started(NextRun, p)
  BY ReplyFields, RegenerateFields DEF BaseInv
<1>2. UNCHANGED <<stream, stops>>
  BY DEF Reply, Regenerate
<1>3. LeavesAnchored
  BY <1>1, <1>2 DEF LeavesAnchored, Started, BaseInv, StreamFits
<1>4. CASE Reply(p)
  <2> DEFINE t == Turn("user", p, NoRun, 0)
  <2>1. turns' = Append(turns, t)
    BY <1>4 DEF Reply
  <2>2. t \in TurnRecord
    BY <1>1, UserTurn DEF Started
  <2>3. t.kind = "user"
    BY DEF Turn
  <2> HIDE DEF t
  <2>4. Added(t) /\ FitsAfter(t)
    BY <2>1, <2>2, <2>3, AppendFields DEF BaseInv, FitsAfter
  <2> QED BY <1>3, <2>2, <2>4, TurnsByAdding
<1>5. CASE Regenerate(p)
  <2>1. DeleteResponseTurns(p)
    BY <1>5 DEF Regenerate
  <2>2. PICK f : Kept(f)
    BY <2>1, ScrubFields DEF BaseInv
  <2> QED BY <1>3, <2>2, TurnsByScrub
<1> QED BY <1>4, <1>5

LEMMA TurnByStop ==
  ASSUME BaseInv, TurnInv, NEW p \in Post, StopStreaming(p)
  PROVE  TurnInv'
<1>1. UNCHANGED <<turns, loop, stream>> /\ stops \subseteq stops'
  BY DEF StopStreaming
<1>2. LeavesAnchored
  BY <1>1 DEF LeavesAnchored
<1> QED BY <1>1, <1>2, TurnsByNone

LEMMA TurnByStream ==
  ASSUME BaseInv, PipeInv, TurnInv, NEW r \in Run, StreamStep(r)
  PROVE  TurnInv'
<1>1. UNCHANGED <<loop, stops>>
  BY DEF StreamStep, ReadEvent, StopReading, finalizeTurn, FinishStreaming, UnchangedByStream
<1>2. ASSUME \A s \in Run \ {r} : stream'[s] = stream[s],
             stream[r].pc \in {"leaving", "gone"} => stream'[r].pc \in {"leaving", "gone"}
      PROVE  LeavesAnchored
  BY <1>1, <1>2 DEF LeavesAnchored
<1>3. CASE ReadEvent(r)
  <2>1. LeavesAnchored /\ UNCHANGED turns
    BY <1>2, <1>3, ReadFields DEF ReadEvent
  <2> QED BY <2>1, TurnsByNone
<1>4. CASE StopReading(r)
  <2>1. UNCHANGED turns /\ stream[r].pc = "reading"
    BY <1>4 DEF StopReading
  <2>2. \A s \in Run \ {r} : stream'[s] = stream[s]
    BY <1>4, StreamGoesFields DEF StopReading, StreamGoes, BaseInv
  <2> QED BY <1>2, <2>1, <2>2, TurnsByNone
<1>5. CASE FinishStreaming(r)
  <2>1. LeavesAnchored
    BY <1>2, <1>5, FinishFields DEF StreamGoes
  <2>2. UNCHANGED turns
    BY <1>5 DEF FinishStreaming
  <2> QED BY <2>1, <2>2, TurnsByNone
<1>6. CASE finalizeTurn(r)
  <2>1. /\ StreamGoes(r, "leaving") /\ Added(AnchorOf(r))
        /\ loop[r].pc \notin {"unborn", "first"} /\ stream[r].pc = "finalizing"
    BY <1>6, FinalizeFields DEF finalizeTurn
  <2>2. LeavesAnchored
    BY <1>2, <2>1 DEF StreamGoes
  <2> DEFINE t == AnchorOf(r)
  <2>3. /\ t \in TurnRecord /\ t.kind = "anchor" /\ t.run = r
        /\ t.calls = stream[r].calls /\ t.text = stream[r].text
    BY <2>1, AnchorTurn DEF BaseInv, LoopInv
  <2> HIDE DEF t
  <2>4. \A x \in t.text \cup t.calls : x[1] = r /\ (r \notin stops => x[2] >= loop[r].made)
    BY <2>1, <2>3 DEF PipeInv, PipeFits, Own, ReadsToEnd, AccNew
  <2>5. FitsAfter(t)
    BY <1>1, <2>1, <2>3, <2>4 DEF FitsAfter, StreamGoes
  <2>6. Added(t)
    BY <2>1 DEF t
  <2> QED BY <2>2, <2>3, <2>5, <2>6, TurnsByAdding
<1> QED BY <1>3, <1>4, <1>5, <1>6 DEF StreamStep

LEMMA TurnInit == Init => TurnInv
<1> SUFFICES ASSUME Init PROVE TurnInv
  OBVIOUS
<1>1. turns = <<>> /\ Len(<<>>) = 0 /\ DOMAIN <<>> = 1..0
  BY EmptySeq, LenProperties DEF Init
<1> QED BY <1>1 DEF TurnInv, AnchorsAreOwn, NothingRecordedTwice, RoundsPrecedeAnchor

LEMMA TurnStep == BaseInv /\ PipeInv /\ TurnInv /\ [Next]_vars => TurnInv'
<1> SUFFICES ASSUME BaseInv, PipeInv, TurnInv, [Next]_vars PROVE TurnInv'
  OBVIOUS
<1>1. CASE UNCHANGED vars
  <2>1. UNCHANGED <<turns, loop, stream, stops>>
    BY <1>1 DEF vars
  <2>2. LeavesAnchored
    BY <2>1 DEF LeavesAnchored
  <2> QED BY <2>1, <2>2, TurnsByNone
<1> QED BY <1>1, TurnByStart, TurnByStop, TurnByLoop, TurnByStream DEF Next

\* The anchor of a reply nobody stopped holds nothing that is also a recorded
\* round, whatever was on its way when the rounds joined: what a round said is
\* taken back before its batch is recorded, and nothing is said of it after
\* (Accumulate, SendResolved, deliverToolTurns).
THEOREM AnchorHoldsLastRound == Spec => []NothingRecordedTwice
<1>1. TurnInv => NothingRecordedTwice
  BY DEF TurnInv
<1> QED BY BaseInit, BaseStep, ContextInit, ContextStep, PipeInit, PipeStep, TurnInit,
           TurnStep, <1>1, PTL DEF Spec

\* The rounds of a reply that ran to its end or to a question come before its
\* anchor, however far the stream lags behind: the loop delivers them before
\* it sends what ends the reading (deliverToolTurns, streamToPostImpl).
THEOREM RoundsComeFirst == Spec => []RoundsPrecedeAnchor
<1>1. TurnInv => RoundsPrecedeAnchor
  BY DEF TurnInv
<1> QED BY BaseInit, BaseStep, ContextInit, ContextStep, PipeInit, PipeStep, TurnInit,
           TurnStep, <1>1, PTL DEF Spec

-----------------------------------------------------------------------------
(* What is recorded of the rounds                                          *)

\* The k-th turn a run writes.
RoundTurnAt(r, k) == IF k % 2 = 0 THEN Use(r, k \div 2) ELSE Result(r, k \div 2)

OfRounds(t, r) == t.run = r /\ t.kind \in {"use", "result"}
Place(t) == 2 * t.round + (IF t.kind = "use" THEN 0 ELSE 1)

\* The turns of a run's rounds are those it has written, each once and in
\* their order.
RecordFits(r) ==
  /\ \A i \in 1..Len(turns) : OfRounds(turns[i], r) => Place(turns[i]) < loop[r].written
  /\ \A i, j \in 1..Len(turns) :
       OfRounds(turns[i], r) /\ OfRounds(turns[j], r) /\ i < j
       => Place(turns[i]) < Place(turns[j])
  /\ \A k \in 0..(loop[r].written - 1) :
       \E i \in 1..Len(turns) : turns[i] = RoundTurnAt(r, k)

\* The runs start in the order of their numbers.
InOrder == \A r, s \in Run : s < r /\ loop[r].pc # "unborn" => loop[s].pc # "unborn"

RecordInv == InOrder /\ \A r \in Run : Current(r) => RecordFits(r)

\* Only a turn that is written counts as written.
LEMMA WrittenStays ==
  ASSUME LoopInv, NEW r \in Run, LoopStep(r), ~ WriteToolTurn(r)
  PROVE  loop'[r].written = loop[r].written
<1>1. loop \in [Run -> LoopRecord] /\ loop[r] \in LoopRecord
  BY DEF LoopInv, TypeLoop
<1>2. ASSUME NEW pc, Goto(r, pc) PROVE loop'[r].written = loop[r].written
  BY <1>1, <1>2 DEF Goto, LoopRecord
<1>3. ASSUME NEW last, ThenDeliver(r, last) PROVE loop'[r].written = loop[r].written
  BY <1>1, <1>3 DEF ThenDeliver, LoopRecord
<1>4. ASSUME NEW ok, NEW fails, appendToolTurnAndPost(r, ok, fails)
      PROVE  loop'[r].written = loop[r].written
  <2> DEFINE streak == FailureStreak(r, ok, fails)
  <2>1. loop' = [loop EXCEPT ![r].pc = "resolved", ![r].made = @ + 1, ![r].streak = streak]
    BY <1>4 DEF appendToolTurnAndPost
  <2> HIDE DEF streak
  <2> QED BY <1>1, <2>1 DEF LoopRecord
<1>5. finishToolRound(r) => loop'[r].written = loop[r].written
  BY <1>1 DEF finishToolRound, LoopRecord
<1>6. CASE FirstCall(r) \/ FirstCallFails(r)
  BY <1>2, <1>6 DEF FirstCall, FirstCallFails
<1>7. CASE ForwardText(r)
  BY <1>1, <1>7 DEF ForwardText, LoopRecord
<1>8. CASE AnswerEnds(r) \/ StreamFails(r) \/ AsksUser(r)
  BY <1>3, <1>8 DEF AnswerEnds, StreamFails, AsksUser
<1>9. CASE CallsTools(r) \/ SendExecuting(r)
  BY <1>2, <1>3, <1>9 DEF CallsTools, SendExecuting
<1>10. CASE RejectsBatch(r) \/ ExecuteTools(r)
  BY <1>3, <1>4, <1>10 DEF RejectsBatch, ExecuteTools
<1>11. CASE SendResolved(r)
  BY <1>3, <1>5, <1>11 DEF SendResolved
<1>12. CASE CallModel(r)
  <2>1. CASE ThenDeliver(r, "error")
    BY <1>3, <2>1
  <2>2. CASE loop' = [loop EXCEPT ![r].pc = "open", ![r].round = @ + 1, ![r].said = FALSE]
    BY <1>1, <2>2 DEF LoopRecord
  <2> QED BY <1>12, <2>1, <2>2 DEF CallModel
<1>13. CASE SendLast(r)
  <2>1. Goto(r, "done") \/ loop' = [loop EXCEPT ![r].last = "end"]
    <3>1. loop[r].last \in {"ask", "end", "error", "stop"}
      BY <1>1, <1>13 DEF SendLast, Delivered, LoopInv, LoopRecord, LoopFits, Counts
    <3> QED BY <1>13, <3>1 DEF SendLast
  <2>2. CASE Goto(r, "done")
    BY <1>2, <2>2
  <2>3. CASE loop' = [loop EXCEPT ![r].last = "end"]
    BY <1>1, <2>3 DEF LoopRecord
  <2> QED BY <2>1, <2>2, <2>3
<1> QED BY <1>6, <1>7, <1>8, <1>9, <1>10, <1>11, <1>12, <1>13 DEF LoopStep

\* A run that has written nothing has no turns of its rounds, and gets none by
\* a scrub.
LEMMA RecordByScrub ==
  ASSUME BaseInv, NEW r \in Run, RecordFits(r), loop[r].written = 0, loop'[r].written = 0,
         NEW f, Kept(f)
  PROVE  RecordFits(r)'
<1>1. \A i \in 1..Len(turns) : ~ OfRounds(turns[i], r)
  <2> SUFFICES ASSUME NEW i \in 1..Len(turns), OfRounds(turns[i], r) PROVE FALSE
    OBVIOUS
  <2>1. Place(turns[i]) < 0
    BY DEF RecordFits
  <2>2. turns[i].round \in Nat
    BY TurnFields, RoundsFields DEF TurnRecord
  <2> QED BY <2>1, <2>2 DEF Place
<1>2. \A i \in 1..Len(turns') : ~ OfRounds(turns'[i], r)
  BY <1>1 DEF Kept
<1> QED BY <1>2 DEF RecordFits

\* A turn that is not of the run's rounds.
LEMMA RecordByOther ==
  ASSUME BaseInv, NEW r \in Run, RecordFits(r),
         loop'[r].written = loop[r].written,
         loop'[r].written = 0 \/ loop'[r].post = loop[r].post,
         UNCHANGED turns \/ \E t : Added(t) /\ ~ OfRounds(t, r)
  PROVE  RecordFits(r)'
<1>1. ASSUME NEW k \in 0..(loop'[r].written - 1) PROVE RoundTurnAt(r, k)' = RoundTurnAt(r, k)
  <2>1. loop'[r].post = loop[r].post
    BY <1>1
  <2> QED BY <2>1 DEF RoundTurnAt, Use, Result
<1>2. CASE UNCHANGED turns
  BY <1>1, <1>2 DEF RecordFits
<1>3. ASSUME NEW t, Added(t), ~ OfRounds(t, r) PROVE RecordFits(r)'
  <2>1. PICK n \in Nat : n = Len(turns)
    BY TurnFields
  <2>2. /\ Len(turns') = n + 1 /\ 1..n \subseteq 1..(n + 1)
        /\ \A i \in 1..n : turns'[i] = turns[i]
        /\ turns'[n + 1] = t
    BY <1>3, <2>1 DEF Added
  <2>3. \A i \in 1..(n + 1) : OfRounds(turns'[i], r) => i \in 1..n /\ turns'[i] = turns[i]
    BY <1>3, <2>2
  <2> QED BY <1>1, <2>1, <2>2, <2>3 DEF RecordFits
<1> QED BY <1>2, <1>3

\* The next turn of the run's rounds.
LEMMA RecordByWrite ==
  ASSUME BaseInv, NEW r \in Run, RecordFits(r), NEW w \in Nat, w = loop[r].written,
         loop'[r].written = w + 1, loop'[r].post = loop[r].post,
         Added(RoundTurnAt(r, w))
  PROVE  RecordFits(r)'
<1> DEFINE t == RoundTurnAt(r, w)
<1>1. PICK n \in Nat : n = Len(turns)
  BY TurnFields
<1>2. /\ Len(turns') = n + 1 /\ 1..n \subseteq 1..(n + 1)
      /\ \A i \in 1..n : turns'[i] = turns[i]
      /\ turns'[n + 1] = t
  BY <1>1 DEF Added
<1>3. Place(t) = w
  <2>1. CASE w % 2 = 0
    BY <2>1 DEF RoundTurnAt, Use, Turn, Place
  <2>2. CASE w % 2 # 0
    BY <2>2 DEF RoundTurnAt, Result, Turn, Place
  <2> QED BY <2>1, <2>2
<1>4. \A i \in 1..n : turns[i].round \in Nat
  BY <1>1, TurnFields, RoundsFields DEF TurnRecord
<1>5. \A k : RoundTurnAt(r, k)' = RoundTurnAt(r, k)
  BY DEF RoundTurnAt, Use, Result
<1> HIDE DEF t
<1>6. ASSUME NEW i \in 1..(n + 1), OfRounds(turns'[i], r)
      PROVE  /\ Place(turns'[i]) < w + 1
             /\ i \in 1..n => Place(turns'[i]) < w
  <2>1. CASE i \in 1..n
    <3>1. Place(turns[i]) < w /\ Place(turns[i]) \in Nat
      BY <1>1, <1>2, <1>4, <1>6, <2>1 DEF RecordFits, Place
    <3> QED BY <1>2, <2>1, <3>1
  <2>2. CASE i = n + 1
    BY <1>2, <1>3, <2>2
  <2> QED BY <2>1, <2>2
<1>7. ASSUME NEW i \in 1..(n + 1), NEW j \in 1..(n + 1),
             OfRounds(turns'[i], r), OfRounds(turns'[j], r), i < j
      PROVE  Place(turns'[i]) < Place(turns'[j])
  <2>1. i \in 1..n /\ (j \in 1..n \/ j = n + 1)
    BY <1>7
  <2>2. CASE j \in 1..n
    BY <1>1, <1>2, <1>7, <2>1, <2>2 DEF RecordFits
  <2>3. CASE j = n + 1
    BY <1>2, <1>3, <1>6, <1>7, <2>1, <2>3
  <2> QED BY <2>1, <2>2, <2>3
<1>8. ASSUME NEW k \in 0..w
      PROVE  \E i \in 1..(n + 1) : turns'[i] = RoundTurnAt(r, k)
  <2>1. CASE k \in 0..(w - 1)
    BY <1>1, <1>2, <2>1 DEF RecordFits
  <2>2. CASE k = w
    BY <1>2, <2>2 DEF t
  <2> QED BY <2>1, <2>2
<1>9. (w + 1) - 1 = w
  OBVIOUS
<1> QED BY <1>2, <1>5, <1>6, <1>7, <1>8, <1>9 DEF RecordFits

\* Which regenerations have begun changes only when one begins.
LEMMA RecordByLoop ==
  ASSUME BaseInv, RecordInv, NEW r \in Run, LoopStep(r)
  PROVE  RecordInv'
<1>1. OnlyLoop(r) /\ LoopInv
  BY LoopStepFits DEF BaseInv
<1>2. InOrder'
  BY <1>1 DEF OnlyLoop, RecordInv, InOrder
<1>3. \A s \in Run : loop'[s].flow = loop[s].flow /\ loop'[s].post = loop[s].post
  BY <1>1 DEF OnlyLoop
<1>4. ASSUME NEW s \in Run, Current(s)' PROVE RecordFits(s)
  BY <1>3, <1>4 DEF RecordInv, Current
<1>5. CASE ~ WriteToolTurn(r)
  <2>1. UNCHANGED turns
    BY <1>5, LoopStepFrame
  <2>2. \A s \in Run : loop'[s].written = loop[s].written
    BY <1>1, <1>5, WrittenStays DEF OnlyLoop
  <2> QED BY <1>2, <1>3, <1>4, <2>1, <2>2, RecordByOther DEF RecordInv
<1>6. CASE WriteToolTurn(r)
  <2>1. PICK w \in Nat : w = loop[r].written
    BY <1>1 DEF LoopInv, TypeLoop, LoopRecord
  <2> DEFINE t == RoundTurnAt(r, w)
  <2>2. /\ loop[r].pc = "deliver" /\ w < 2 * loop[r].made /\ turns' = Append(turns, t)
        /\ loop' = [loop EXCEPT ![r].written = w + 1]
    BY <1>6, <2>1 DEF WriteToolTurn, RoundTurnAt
  <2>3. loop[r].made \in Nat
    BY <1>1 DEF LoopInv, TypeLoop, LoopRecord
  <2>4. w \div 2 \in Nat /\ w \div 2 < loop[r].made
    BY <2>2, <2>3
  <2>5. Use(r, w \div 2) \in TurnRecord /\ Result(r, w \div 2) \in TurnRecord
    BY <1>1, <2>2, <2>4, RoundTurn
  <2>6. t \in TurnRecord /\ t.run = r
    BY <2>5 DEF RoundTurnAt, Use, Result, Turn
  <2>7. loop'[r].written = w + 1
    BY <1>1, <2>1, <2>2, WrittenFields
  <2> HIDE DEF t
  <2>8. Added(t)
    BY <2>2, <2>6, AppendFields DEF BaseInv
  <2>9. ASSUME NEW s \in Run, Current(s)' PROVE RecordFits(s)'
    <3>1. CASE s = r
      BY <1>3, <1>4, <2>1, <2>7, <2>8, <2>9, <3>1, RecordByWrite DEF t
    <3>2. CASE s # r
      <4>1. loop'[s].written = loop[s].written
        BY <1>1, <3>2 DEF OnlyLoop
      <4>2. ~ OfRounds(t, s)
        BY <2>6, <3>2 DEF OfRounds
      <4> QED BY <1>3, <1>4, <2>8, <2>9, <4>1, <4>2, RecordByOther
    <3> QED BY <3>1, <3>2
  <2> QED BY <1>2, <2>9 DEF RecordInv
<1> QED BY <1>5, <1>6

LEMMA RecordByStart ==
  ASSUME BaseInv, RecordInv, NEW p \in Post, Reply(p) \/ Regenerate(p)
  PROVE  RecordInv'
<1>1. Started(NextRun, p) /\ \A s \in 1..(NextRun - 1) : loop[s].pc # "unborn"
  BY ReplyFields, RegenerateFields, NextRunFields DEF BaseInv, Reply, Regenerate
<1>2. PICK n \in Run : n = NextRun /\ loop[n].pc = "unborn"
  BY <1>1 DEF Started
<1>3. \A s \in Run \ {n} : loop'[s].pc = loop[s].pc /\ loop'[s].flow = loop[s].flow
  BY <1>1, <1>2 DEF Started
<1>4. \A s \in Run : loop[s].pc # "unborn" <=> s < n
  <2>1. \A s \in Run : s < n => loop[s].pc # "unborn"
    BY <1>1, <1>2, LoopAssumption DEF Run
  <2>2. \A s \in Run : n < s => loop[s].pc = "unborn"
    BY <1>2 DEF RecordInv, InOrder
  <2>3. \A s \in Run : s < n \/ s = n \/ n < s
    BY LoopAssumption DEF Run
  <2> QED BY <1>2, <2>1, <2>2, <2>3
<1>5. InOrder'
  <2>1. loop'[n].pc = "first"
    BY <1>1, <1>2 DEF Started
  <2>2. \A s \in Run : loop'[s].pc # "unborn" <=> s < n \/ s = n
    BY <1>2, <1>3, <1>4, <2>1
  <2>3. \A r, s \in Run : s < r /\ (r < n \/ r = n) => s < n
    BY LoopAssumption DEF Run
  <2> QED BY <2>2, <2>3 DEF InOrder
<1>6. ASSUME NEW s \in Run, ~ (s < n)
      PROVE  loop[s].written = 0 /\ loop'[s].written = 0 /\ Current(s)
  <2>1. loop[s].pc = "unborn" /\ loop[s] = NoLoop
    BY <1>4, <1>6 DEF BaseInv, LoopInv, LoopFits, Placed
  <2>2. loop[s].written = 0
    BY <2>1 DEF NoLoop
  <2>3. loop'[s].written = 0
    BY <1>1, <1>2, <2>2 DEF Started
  <2>4. ASSUME NEW q \in Run, loop[q].flow = "shared" PROVE q <= s
    <3>1. loop[q].pc # "unborn"
      BY <2>4 DEF NoLoop, BaseInv, LoopInv, LoopFits, Placed
    <3> QED BY <1>4, <1>6, <3>1, LoopAssumption DEF Run
  <2> QED BY <2>2, <2>3, <2>4 DEF Current
<1>7. CASE Reply(p)
  <2>1. turns' = Append(turns, Turn("user", p, NoRun, 0))
    BY <1>7 DEF Reply
  <2>2. Turn("user", p, NoRun, 0) \in TurnRecord
    BY <1>1, UserTurn DEF Started
  <2>3. Turn("user", p, NoRun, 0).kind = "user"
    BY DEF Turn
  <2>4. PICK t : Added(t) /\ t.kind = "user"
    BY <2>1, <2>2, <2>3, AppendFields DEF BaseInv
  <2>5. \A s \in Run : ~ OfRounds(t, s)
    BY <2>4 DEF OfRounds
  <2>6. loop' = [loop EXCEPT ![n].post = p, ![n].pc = "first", ![n].flow = ReplyFlow]
    BY <1>2, <1>7 DEF Reply
  <2>7. \A s \in Run \ {n} : loop'[s] = loop[s]
    BY <2>6 DEF BaseInv, LoopInv, TypeLoop
  <2>8. ASSUME NEW s \in Run, Current(s)' PROVE RecordFits(s)'
    <3>1. CASE ~ (s < n)
      BY <1>6, <2>4, <2>5, <3>1, RecordByOther DEF RecordInv
    <3>2. CASE s < n
      <4>1. s # n
        BY <3>2, LoopAssumption DEF Run
      <4>2. loop[n].flow # "shared"
        BY <1>2 DEF NoLoop, BaseInv, LoopInv, LoopFits, Placed
      <4>3. Current(s)
        BY <1>3, <2>8, <4>2 DEF Current
      <4> QED BY <2>4, <2>5, <2>7, <4>1, <4>3, RecordByOther DEF RecordInv
    <3> QED BY <3>1, <3>2
  <2> QED BY <1>5, <2>8 DEF RecordInv
<1>8. CASE Regenerate(p)
  <2>1. DeleteResponseTurns(p) /\ loop'[n].flow = "shared"
    BY <1>2, <1>8 DEF Regenerate, NoLoop
  <2>2. PICK f : Kept(f)
    BY <2>1, ScrubFields DEF BaseInv
  <2>3. ASSUME NEW s \in Run, Current(s)' PROVE RecordFits(s)'
    <3>1. n <= s
      BY <2>1, <2>3 DEF Current
    <3>2. ~ (s < n)
      BY <3>1, LoopAssumption DEF Run
    <3> QED BY <1>6, <2>2, <3>2, RecordByScrub DEF RecordInv
  <2> QED BY <1>5, <2>3 DEF RecordInv
<1> QED BY <1>7, <1>8

LEMMA RecordByOthers ==
  ASSUME BaseInv, RecordInv, UNCHANGED loop,
         UNCHANGED turns \/ \E t : Added(t) /\ t.kind = "anchor"
  PROVE  RecordInv'
<1>1. InOrder'
  BY DEF RecordInv, InOrder
<1>2. ASSUME NEW s \in Run, Current(s)' PROVE RecordFits(s)'
  <2>1. RecordFits(s)
    BY <1>2 DEF RecordInv, Current
  <2>2. UNCHANGED turns \/ \E t : Added(t) /\ ~ OfRounds(t, s)
    BY DEF OfRounds
  <2> QED BY <2>1, <2>2, RecordByOther
<1> QED BY <1>1, <1>2 DEF RecordInv

LEMMA RecordInit == Init => RecordInv
<1> SUFFICES ASSUME Init PROVE RecordInv
  OBVIOUS
<1>1. turns = <<>> /\ Len(<<>>) = 0
  BY EmptySeq DEF Init
<1>2. \A r \in Run : loop[r] = NoLoop /\ NoLoop.pc = "unborn" /\ NoLoop.written = 0
  BY DEF Init, NoLoop
<1>3. InOrder
  BY <1>2 DEF InOrder
<1>4. \A r \in Run : RecordFits(r)
  BY <1>1, <1>2 DEF RecordFits
<1> QED BY <1>3, <1>4 DEF RecordInv

LEMMA RecordStep == BaseInv /\ RecordInv /\ [Next]_vars => RecordInv'
<1> SUFFICES ASSUME BaseInv, RecordInv, [Next]_vars PROVE RecordInv'
  OBVIOUS
<1>1. CASE UNCHANGED vars
  BY <1>1, RecordByOthers DEF vars
<1>2. ASSUME NEW p \in Post, StopStreaming(p) PROVE RecordInv'
  BY <1>2, RecordByOthers DEF StopStreaming
<1>3. ASSUME NEW r \in Run, StreamStep(r) PROVE RecordInv'
  <2>1. UNCHANGED loop
    BY <1>3 DEF StreamStep, ReadEvent, StopReading, finalizeTurn, FinishStreaming,
                UnchangedByStream
  <2>2. CASE finalizeTurn(r)
    <3>1. Added(AnchorOf(r)) /\ loop[r].pc # "unborn"
      BY <2>2, FinalizeFields
    <3>2. AnchorOf(r).kind = "anchor"
      BY <3>1, AnchorTurn DEF BaseInv, LoopInv
    <3> QED BY <2>1, <3>1, <3>2, RecordByOthers
  <2>3. CASE ~ finalizeTurn(r)
    <3>1. UNCHANGED turns
      BY <1>3, <2>3 DEF StreamStep, ReadEvent, StopReading, FinishStreaming
    <3> QED BY <2>1, <3>1, RecordByOthers
  <2> QED BY <2>2, <2>3
<1> QED BY <1>1, <1>2, <1>3, RecordByStart, RecordByLoop DEF Next

\* What a run has written when its loop is over is every round it completed.
LEMMA RecordIsWhole == BaseInv /\ RecordInv => RoundsRecorded
<1> SUFFICES ASSUME BaseInv, RecordInv,
                    NEW r \in Run, loop[r].pc = "done", Current(r),
                    NEW n \in 0..(loop[r].made - 1)
             PROVE  \E i, j \in DOMAIN turns :
                      /\ Positions(Use(r, n)) = {i} /\ Positions(Result(r, n)) = {j}
                      /\ i < j
  BY DEF RoundsRecorded
<1>1. RecordFits(r)
  BY DEF RecordInv
<1>2. loop[r].made \in Nat /\ loop[r].written = 2 * loop[r].made
  BY DEF BaseInv, LoopInv, TypeLoop, LoopRecord, LoopFits, Counts
<1>3. PICK k \in Nat : k = 2 * n
  BY <1>2
<1>4. /\ k \in 0..(loop[r].written - 1) /\ k + 1 \in 0..(loop[r].written - 1)
      /\ k % 2 = 0 /\ (k + 1) % 2 # 0 /\ k \div 2 = n /\ (k + 1) \div 2 = n
  BY <1>2, <1>3
<1>5. RoundTurnAt(r, k) = Use(r, n) /\ RoundTurnAt(r, k + 1) = Result(r, n)
  BY <1>4 DEF RoundTurnAt
<1>6. PICK i \in 1..Len(turns) : turns[i] = Use(r, n)
  BY <1>1, <1>4, <1>5 DEF RecordFits
<1>7. PICK j \in 1..Len(turns) : turns[j] = Result(r, n)
  BY <1>1, <1>4, <1>5 DEF RecordFits
<1>8. /\ OfRounds(Use(r, n), r) /\ Place(Use(r, n)) = k
      /\ OfRounds(Result(r, n), r) /\ Place(Result(r, n)) = k + 1
  BY <1>3 DEF OfRounds, Place, Use, Result, Turn
<1>9. \A a, b \in 1..Len(turns) :
        OfRounds(turns[a], r) /\ OfRounds(turns[b], r) /\ a < b
        => Place(turns[a]) < Place(turns[b])
  BY <1>1 DEF RecordFits
<1>10. Len(turns) \in Nat /\ DOMAIN turns = 1..Len(turns)
  BY TurnFields
<1>11. \A a \in 1..Len(turns) : turns[a] = Use(r, n) => a = i
  <2> SUFFICES ASSUME NEW a \in 1..Len(turns), turns[a] = Use(r, n) PROVE a = i
    OBVIOUS
  <2>1. ~ (a < i) /\ ~ (i < a)
    BY <1>3, <1>6, <1>8, <1>9
  <2> QED BY <1>10, <2>1
<1>12. \A a \in 1..Len(turns) : turns[a] = Result(r, n) => a = j
  <2> SUFFICES ASSUME NEW a \in 1..Len(turns), turns[a] = Result(r, n) PROVE a = j
    OBVIOUS
  <2>1. ~ (a < j) /\ ~ (j < a)
    BY <1>3, <1>7, <1>8, <1>9
  <2> QED BY <1>10, <2>1
<1>13. Positions(Use(r, n)) = {i} /\ Positions(Result(r, n)) = {j}
  BY <1>6, <1>7, <1>10, <1>11, <1>12 DEF Positions
<1>14. i < j
  <2>1. ~ (j < i)
    BY <1>3, <1>6, <1>7, <1>8, <1>9
  <2>2. i # j
    BY <1>3, <1>6, <1>7, <1>8
  <2> QED BY <1>10, <2>1, <2>2
<1> QED BY <1>10, <1>13, <1>14

\* Every round a loop completed is in the conversation when the loop is over,
\* once and in order, at whichever exit it was left, unless a regeneration has
\* begun since (runLoop's exits, WriteToolTurns, DeleteResponseTurns).
THEOREM RoundsAreRecorded == Spec => []RoundsRecorded
<1> QED BY BaseInit, BaseStep, RecordInit, RecordStep, RecordIsWhole, PTL DEF Spec

=============================================================================
