--------------------------- MODULE OAuthGrantProofs ---------------------------
(***************************************************************************)
(* Machine-checked theorems about OAuthGrant, for any nodes, origins,      *)
(* sign-ins, tokens, saves and failures.                                   *)
(***************************************************************************)
EXTENDS OAuthGrant, TLAPS

-----------------------------------------------------------------------------
(* Type correctness                                                        *)

SourceRecord == [pc : UnderLease \cup {"closed", "idle", "wait"}, closing : BOOLEAN,
                 server : ServerConfig \cup {NoServer},
                 envelope : Grant \cup {NoGrant},
                 answer : Grant \cup {NoAnswer, InvalidGrant}]

IssuerRecord == [state : {"none", "live", "revoked", "replayed"}, refresh : Nat,
                 access : Nat, expired : Nat, lost : BOOLEAN]

\* A grant names a sign-in, none of the three other values does.
LEMMA GrantFields ==
    ASSUME TypeOK
    PROVE  /\ \A g \in Grant : /\ g.signIn \in SignIn /\ g.access \in Nat \ {0}
                               /\ g.refresh \in Nat /\ g.origin \in Origin
                               /\ g.id \in 0..MaxSaves
           /\ NoGrant \notin Grant /\ NoAnswer \notin Grant /\ InvalidGrant \notin Grant
           /\ NoGrant.signIn = 0 /\ NoAnswer.signIn = -1 /\ InvalidGrant.signIn = -2
           /\ NoAnswer # InvalidGrant /\ NoGrant # NoAnswer /\ NoGrant # InvalidGrant
<1>1. NoGrant.signIn = 0 /\ NoAnswer.signIn = -1 /\ InvalidGrant.signIn = -2
  BY DEF NoGrant, NoAnswer, InvalidGrant
<1>2. \A g \in Grant : g.signIn \in SignIn
  BY DEF Grant
<1>3. \A g \in Grant : /\ g.access \in Nat \ {0}
                       /\ g.refresh \in Nat /\ g.origin \in Origin
                       /\ g.id \in 0..MaxSaves
  BY DEF Grant
<1> QED BY <1>1, <1>2, <1>3, BoundsAssumption DEF SignIn

\* The binding of a grant changes its server ID, to one that has been minted.
LEMMA BindFields ==
    ASSUME NEW g \in Grant, NEW server \in ServerConfig
    PROVE  /\ Bind(g, server) \in Grant
           /\ Bind(g, server).signIn = g.signIn /\ Bind(g, server).access = g.access
           /\ Bind(g, server).refresh = g.refresh /\ Bind(g, server).origin = g.origin
           /\ Bind(g, server).id = IF g.id = 0 THEN server.id ELSE g.id
BY DEF Bind, Grant, ServerConfig

\* A load returns a grant that fits the server or none, and stores nothing
\* but the grant it returns.
LEMMA LoadFields ==
    ASSUME TypeOK, NEW server \in ServerConfig
    PROVE  LET g == loadGrantForServer(server)
           IN  \/ /\ g = NoGrant /\ AfterLoad(server) = stored
               \/ /\ stored \in Grant /\ g \in Grant /\ AfterLoad(server) = g
                  /\ g.signIn = stored.signIn /\ g.access = stored.access
                  /\ g.refresh = stored.refresh /\ g.origin = stored.origin
                  /\ g.origin = server.origin
                  /\ stored.id \in {0, g.id} /\ server.id \in {0, g.id}
<1>1. CASE ~IssuedFor(stored, server)
  BY <1>1 DEF loadGrantForServer, AfterLoad
<1>2. CASE IssuedFor(stored, server)
  <2>1. stored \in Grant
    BY <1>2 DEF IssuedFor, TypeOK
  <2>2. loadGrantForServer(server) = Bind(stored, server)
        /\ AfterLoad(server) = Bind(stored, server)
    BY <1>2 DEF loadGrantForServer, AfterLoad
  <2>3. stored.origin = server.origin
        /\ (stored.id = 0 \/ server.id = 0 \/ stored.id = server.id)
    BY <1>2 DEF IssuedFor, originChanged
  <2>4. stored.id \in Nat /\ server.id \in Nat
    BY <2>1, BoundsAssumption DEF Grant, ServerConfig
  <2> QED BY <2>1, <2>2, <2>3, <2>4, BindFields
<1> QED BY <1>1, <1>2

\* Closing a connection removes it or marks its call as the last one.
LEMMA CloseFields ==
    ASSUME TypeOK, NEW S
    PROVE  /\ Close(S) \in [Node -> SourceRecord]
           /\ \A s \in Node :
                \/ Close(S)[s] = source[s]
                \/ Close(S)[s] = Closed
                \/ /\ source[s].pc # "closed"
                   /\ Close(S)[s] = [source[s] EXCEPT !.closing = TRUE]
<1>1. Closed \in SourceRecord
  BY DEF Closed, SourceRecord
<1>2. \A s \in Node : source[s] \in SourceRecord
  BY DEF TypeOK, SourceRecord
<1>3. \A s \in Node : [source[s] EXCEPT !.closing = TRUE] \in SourceRecord
  BY <1>2 DEF SourceRecord
<1>4. \A s \in Node :
        \/ Close(S)[s] = source[s]
        \/ Close(S)[s] = Closed
        \/ /\ source[s].pc # "closed"
           /\ Close(S)[s] = [source[s] EXCEPT !.closing = TRUE]
  BY DEF Close
<1>5. Close(S) = [s \in Node |-> Close(S)[s]]
  BY DEF Close
<1>6. \A s \in Node : Close(S)[s] \in SourceRecord
  BY <1>1, <1>2, <1>3, <1>4
<1> QED BY <1>4, <1>5, <1>6

TypeSources == stored \in Grant \cup {NoGrant} /\ source \in [Node -> SourceRecord]

TypeIssuer ==
    /\ issuer \in [SignIn -> IssuerRecord]
    /\ \A f \in SignIn :
         issuer[f].expired <= issuer[f].access /\ issuer[f].access <= maxTokens[f]

TypeRequests ==
    /\ lease \in Node \cup {NoNode}
    /\ signIn \in [SignIn -> [pc : {"none", "started", "exchanged", "done"}, node : Node \cup {NoNode},
                              server : ServerConfig \cup {NoServer}, id : 0..MaxSaves]]
    /\ disconnect \in [pc : {"none", "revoked", "done"}, node : Node \cup {NoNode}]

TypeConfig ==
    /\ saved \in ServerConfig \cup {NoServer}
    /\ config \in [Node -> ServerConfig \cup {NoServer}]
    /\ sweep \in {"none", "list", "delete"}
    /\ budget \in [saves : 0..MaxSaves, faults : 0..MaxFaults, stalls : 0..MaxStalls]

LEMMA TypeParts == TypeOK <=> TypeSources /\ TypeIssuer /\ TypeRequests /\ TypeConfig
BY DEF TypeOK, TypeSources, TypeIssuer, TypeRequests, TypeConfig, SourceRecord, IssuerRecord

LEMMA InitType == Init => TypeOK
<1> SUFFICES ASSUME Init PROVE TypeOK
  OBVIOUS
<1>1. Closed \in SourceRecord
  BY DEF Closed, SourceRecord
<1>2. TypeSources
  BY <1>1 DEF Init, TypeSources
<1>3. TypeIssuer
  BY BoundsAssumption DEF Init, TypeIssuer, IssuerRecord
<1>4. TypeRequests
  BY BoundsAssumption DEF Init, TypeRequests, NoServer
<1>5. TypeConfig
  BY BoundsAssumption DEF Init, TypeConfig, ServerConfig
<1> QED BY <1>2, <1>3, <1>4, <1>5, TypeParts

\* The event counters stay within their bounds.
LEMMA CountType ==
    ASSUME TypeOK
    PROVE  LET Counters == [saves : 0..MaxSaves, faults : 0..MaxFaults, stalls : 0..MaxStalls]
           IN  /\ budget.saves < MaxSaves /\ Count("saves") => budget' \in Counters
               /\ budget.faults < MaxFaults /\ Count("faults") => budget' \in Counters
               /\ budget.stalls < MaxStalls /\ Count("stalls") => budget' \in Counters
BY BoundsAssumption DEF TypeOK, Count

\* An exchange issues the sign-in's next access token.
LEMMA ExchangeFields ==
    ASSUME TypeOK, NEW f \in SignIn, NEW refresh, Exchange(f, refresh)
    PROVE  /\ issuer' \in [SignIn -> IssuerRecord]
           /\ \A e \in SignIn \ {f} : issuer'[e] = issuer[e]
           /\ issuer'[f].access = issuer[f].access + 1
           /\ issuer'[f].access <= maxTokens[f]
           /\ issuer'[f].expired = issuer[f].expired
           /\ issuer'[f].state = issuer[f].state /\ issuer'[f].lost = issuer[f].lost
<1>1. issuer \in [SignIn -> IssuerRecord] /\ issuer[f] \in IssuerRecord
  BY DEF TypeOK, IssuerRecord
<1>2. /\ issuer[f].access \in Nat /\ issuer[f].refresh \in Nat
      /\ issuer[f].access <= maxTokens[f] /\ maxTokens[f] \in Nat
  BY <1>1, BoundsAssumption DEF TypeOK, IssuerRecord
<1>3. PICK kept \in BOOLEAN :
        issuer' = [issuer EXCEPT ![f].access = @ + 1,
                                 ![f].refresh = IF kept THEN @ ELSE @ + 1]
  BY DEF Exchange
<1>4. PICK r \in Nat : r = IF kept THEN issuer[f].refresh ELSE issuer[f].refresh + 1
  BY <1>2
<1>5. /\ issuer' \in [SignIn -> IssuerRecord]
      /\ \A e \in SignIn \ {f} : issuer'[e] = issuer[e]
      /\ issuer'[f].access = issuer[f].access + 1
      /\ issuer'[f].expired = issuer[f].expired
      /\ issuer'[f].state = issuer[f].state /\ issuer'[f].lost = issuer[f].lost
  <2>1. PICK i : i = [issuer[f] EXCEPT !.access = issuer[f].access + 1, !.refresh = r]
    OBVIOUS
  <2>0. issuer[f].access + 1 \in Nat /\ r \in Nat
    BY <1>2
  <2>2. /\ i.access = issuer[f].access + 1 /\ i.expired = issuer[f].expired
        /\ i.state = issuer[f].state /\ i.lost = issuer[f].lost
    BY <1>1, <2>1 DEF IssuerRecord
  <2>4. i \in IssuerRecord
    BY <1>1, <2>0, <2>1 DEF IssuerRecord
  <2>3. issuer' = [issuer EXCEPT ![f] = i]
    <3>1. issuer'[f] = i
      BY <1>1, <1>3, <1>4, <2>1 DEF IssuerRecord
    <3>2. \A e \in SignIn \ {f} : issuer'[e] = issuer[e]
      BY <1>1, <1>3
    <3>3. issuer' = [e \in SignIn |-> issuer'[e]]
      BY <1>1, <1>3
    <3> QED BY <1>1, <3>1, <3>2, <3>3
  <2> QED BY <1>1, <2>2, <2>3, <2>4
<1>6. issuer[f].access # maxTokens[f]
  BY DEF Exchange, AtBound
<1> QED BY <1>2, <1>5, <1>6

\* The loss of an answer only marks the sign-in it was for.
LEMMA LosingFields ==
    ASSUME TypeOK, NEW n \in Node
    PROVE  /\ Losing(n) \in [SignIn -> IssuerRecord]
           /\ \A f \in SignIn :
                /\ Losing(n)[f].state = issuer[f].state
                /\ Losing(n)[f].refresh = issuer[f].refresh
                /\ Losing(n)[f].access = issuer[f].access
                /\ Losing(n)[f].expired = issuer[f].expired
                /\ Losing(n)[f].lost = (issuer[f].lost \/ source[n].answer.signIn = f)
<1>1. Losing(n) = [f \in SignIn |-> Losing(n)[f]]
  BY DEF Losing
<1>2. ASSUME NEW f \in SignIn
      PROVE  /\ Losing(n)[f] \in IssuerRecord
             /\ Losing(n)[f].state = issuer[f].state
             /\ Losing(n)[f].refresh = issuer[f].refresh
             /\ Losing(n)[f].access = issuer[f].access
             /\ Losing(n)[f].expired = issuer[f].expired
             /\ Losing(n)[f].lost = (issuer[f].lost \/ source[n].answer.signIn = f)
  <2>1. issuer[f] \in IssuerRecord
    BY DEF TypeOK, IssuerRecord
  <2>2. PICK b \in BOOLEAN : b = (issuer[f].lost \/ source[n].answer.signIn = f)
    OBVIOUS
  <2>3. Losing(n)[f] = [issuer[f] EXCEPT !.lost = issuer[f].lost \/ source[n].answer.signIn = f]
    BY DEF Losing
  <2>4. Losing(n)[f] = [issuer[f] EXCEPT !.lost = b]
    BY <2>2, <2>3, Zenon
  <2>5. /\ Losing(n)[f] \in IssuerRecord
        /\ Losing(n)[f].state = issuer[f].state
        /\ Losing(n)[f].refresh = issuer[f].refresh
        /\ Losing(n)[f].access = issuer[f].access
        /\ Losing(n)[f].expired = issuer[f].expired
        /\ Losing(n)[f].lost = b
    BY <2>1, <2>4 DEF IssuerRecord
  <2> QED BY <2>2, <2>5, Zenon
<1> QED BY <1>1, <1>2, Zenon

-----------------------------------------------------------------------------
(* The inductive invariant of the grants                                   *)

\* An open connection has a server and a grant, a closed one has nothing.
Opened(s) ==
    IF source[s].pc = "closed" THEN source[s] = Closed
    ELSE source[s].envelope \in Grant /\ source[s].server \in ServerConfig

\* A new grant continues the one its request was sent with.
Answered(s) ==
    LET a == source[s].answer
        e == source[s].envelope
    IN  IF source[s].pc # "answered" THEN a = NoAnswer
        ELSE a # InvalidGrant =>
               /\ a \in Grant
               /\ a.signIn = e.signIn /\ a.origin = e.origin /\ a.id = e.id
               /\ a.access > e.access
               /\ a.access <= issuer[a.signIn].access

\* A grant is bound to the server its sign-in was for.
BoundTo(g) ==
    LET for == signIn[g.signIn].server
    IN  for \in ServerConfig /\ g.origin = for.origin /\ for.id \in {0, g.id}

\* A grant stems from a sign-in that is over.
Known(g) == /\ signIn[g.signIn].pc = "done"
            /\ BoundTo(g)
            /\ g.access <= issuer[g.signIn].access

\* A grant fits the server of the connection that holds it.
FitsServer(g, server) == g.origin = server.origin /\ server.id \in {0, g.id}

Connection(s) ==
    /\ Opened(s) /\ Answered(s)
    /\ source[s].pc # "closed" =>
         Known(source[s].envelope) /\ FitsServer(source[s].envelope, source[s].server)

\* A sign-in has its grant issued once, for the server it was started for.
SignInChecked(f) ==
    LET r == signIn[f]
    IN  /\ r.pc \in {"started", "exchanged"} => r.server \in ServerConfig
        /\ r.pc \in {"none", "started"} =>
             issuer[f].state = "none" /\ issuer[f].access = 0 /\ ~issuer[f].lost
        /\ r.pc = "exchanged" =>
             /\ r.server.id \in {0, r.id}
             /\ issuer[f].access >= 1 /\ issuer[f].state = "live" /\ ~issuer[f].lost

GrantInv == /\ stored # NoGrant => Known(stored)
            /\ \A s \in Node : Connection(s)
            /\ \A f \in SignIn : SignInChecked(f)

-----------------------------------------------------------------------------
(* Steps of a connection                                                   *)

\* A connection that moves to a label keeps its server and its grant.
LEMMA GotoFields ==
    ASSUME TypeOK, NEW s \in Node, NEW label \in UnderLease \cup {"idle", "wait"}, Goto(s, label)
    PROVE  /\ source' \in [Node -> SourceRecord]
           /\ \A t \in Node \ {s} : source'[t] = source[t]
           /\ source'[s] = [source[s] EXCEPT !.pc = label, !.answer = NoAnswer]
           /\ source'[s].pc = label /\ source'[s].answer = NoAnswer
           /\ source'[s].server = source[s].server
           /\ source'[s].envelope = source[s].envelope
<1>1. source \in [Node -> SourceRecord] /\ source[s] \in SourceRecord
  BY DEF TypeOK, SourceRecord
<1>2. /\ \A t \in Node \ {s} : source'[t] = source[t]
      /\ source'[s] = [source[s] EXCEPT !.pc = label, !.answer = NoAnswer]
  BY <1>1 DEF Goto
<1>3. /\ source'[s].pc = label /\ source'[s].answer = NoAnswer
      /\ source'[s].server = source[s].server
      /\ source'[s].envelope = source[s].envelope
      /\ source'[s] \in SourceRecord
  BY <1>1, <1>2 DEF SourceRecord
<1>4. source' \in [Node -> SourceRecord]
  BY <1>1, <1>2, <1>3 DEF Goto
<1> QED BY <1>2, <1>3, <1>4

\* A call that returns leaves its connection idle, or closed.
LEMMA ReturnFields ==
    ASSUME TypeOK, NEW s \in Node, Return(s)
    PROVE  /\ source' \in [Node -> SourceRecord]
           /\ \A t \in Node \ {s} : source'[t] = source[t]
           /\ \/ source'[s] = Closed
              \/ /\ source'[s].pc = "idle" /\ source'[s].answer = NoAnswer
                 /\ source'[s].server = source[s].server
                 /\ source'[s].envelope = source[s].envelope
<1>1. source \in [Node -> SourceRecord] /\ source[s] \in SourceRecord
  BY DEF TypeOK, SourceRecord
<1>2. PICK r : /\ r = IF source[s].closing THEN Closed
                      ELSE [source[s] EXCEPT !.pc = "idle", !.answer = NoAnswer]
               /\ source' = [source EXCEPT ![s] = r]
  BY DEF Return
<1>3. Closed \in SourceRecord
  BY DEF Closed, SourceRecord
<1>4. /\ r \in SourceRecord
      /\ \/ r = Closed
         \/ /\ r.pc = "idle" /\ r.answer = NoAnswer
            /\ r.server = source[s].server
            /\ r.envelope = source[s].envelope
  BY <1>1, <1>2, <1>3 DEF SourceRecord
<1> QED BY <1>1, <1>2, <1>4

\* A connection adopts what its load returns, if anything.
LEMMA AdoptFields ==
    ASSUME TypeOK, NEW s \in Node, Opened(s), source[s].pc # "closed",
           NEW valid \in {"idle", "release"}, NEW label \in {"idle", "wait", "send"},
           Adopt(s, valid, label)
    PROVE  /\ source' \in [Node -> SourceRecord]
           /\ stored' = AfterLoad(source[s].server)
           /\ \A t \in Node \ {s} : source'[t] = source[t]
           /\ \/ source'[s] = Closed
              \/ /\ source'[s].pc \in {valid, label}
                 /\ source'[s].server = source[s].server
                 /\ source'[s].answer = source[s].answer
                 /\ LET latest == loadGrantForServer(source[s].server)
                    IN  source'[s].envelope = IF latest = NoGrant THEN source[s].envelope
                                              ELSE latest
<1>1. /\ source \in [Node -> SourceRecord] /\ source[s] \in SourceRecord
      /\ source[s].server \in ServerConfig
  BY DEF TypeOK, SourceRecord, Opened
<1> DEFINE latest == loadGrantForServer(source[s].server)
           goesOn == latest = NoGrant \/ Expired(latest)
<1>2. latest \in Grant \cup {NoGrant}
  BY <1>1, LoadFields
<1>3. PICK r : /\ r = IF ~goesOn /\ valid = "idle" /\ source[s].closing THEN Closed
                      ELSE [source[s] EXCEPT !.envelope = IF latest = NoGrant THEN @ ELSE latest,
                                             !.pc = IF goesOn THEN label ELSE valid]
               /\ source' = [source EXCEPT ![s] = r]
               /\ stored' = AfterLoad(source[s].server)
  BY DEF Adopt
<1> HIDE DEF latest, goesOn
<1>4. Closed \in SourceRecord
  BY DEF Closed, SourceRecord
<1>5. /\ r \in SourceRecord
      /\ \/ r = Closed
         \/ /\ r.pc \in {valid, label}
            /\ r.server = source[s].server /\ r.answer = source[s].answer
            /\ r.envelope = IF latest = NoGrant THEN source[s].envelope ELSE latest
  <2>1. PICK e, l : /\ e = IF latest = NoGrant THEN source[s].envelope ELSE latest
                    /\ l = IF goesOn THEN label ELSE valid
    OBVIOUS
  <2>2. r = Closed \/ r = [source[s] EXCEPT !.envelope = e, !.pc = l]
    BY <1>3, <2>1
  <2>3. source[s].envelope \in Grant \cup {NoGrant}
    BY <1>1 DEF SourceRecord
  <2>4. e \in Grant \cup {NoGrant} /\ l \in {valid, label}
    BY <1>2, <2>1, <2>3
  <2>5. l \in UnderLease \cup {"closed", "idle", "wait"}
    BY <2>4 DEF UnderLease
  <2>6. CASE r = [source[s] EXCEPT !.envelope = e, !.pc = l]
    <3>1. r \in SourceRecord
      BY <1>1, <2>4, <2>5, <2>6 DEF SourceRecord
    <3>2. /\ r.pc = l /\ r.envelope = e
          /\ r.server = source[s].server /\ r.answer = source[s].answer
      BY <1>1, <2>6 DEF SourceRecord
    <3> QED BY <2>1, <2>4, <3>1, <3>2
  <2> QED BY <1>4, <2>2, <2>6
<1> QED BY <1>1, <1>3, <1>5 DEF latest

-----------------------------------------------------------------------------
(* Every step keeps the types                                              *)

LEMMA TypePartsNext == (TypeSources /\ TypeIssuer /\ TypeRequests /\ TypeConfig)' => TypeOK'
BY TypeParts, PTL

LEMMA TypeStep ==
    ASSUME TypeOK, GrantInv, [Next]_vars
    PROVE  TypeOK'
<1> DEFINE Rest == TypeIssuer /\ TypeRequests /\ TypeConfig
<1> USE TypePartsNext
<1>p. TypeSources /\ TypeIssuer /\ TypeRequests /\ TypeConfig
  BY TypeParts
<1>q. \A s \in Node : Opened(s)
  BY DEF GrantInv, Connection
<1>u. ASSUME NEW s \in Node, NEW a \in Grant \cup {InvalidGrant}
      PROVE  [source EXCEPT ![s].pc = "answered", ![s].answer = a] \in [Node -> SourceRecord]
  <2>1. source[s] \in SourceRecord
    BY <1>p DEF TypeSources
  <2>2. [source[s] EXCEPT !.pc = "answered", !.answer = a] \in SourceRecord
    BY <2>1 DEF SourceRecord, UnderLease
  <2>3. [source EXCEPT ![s].pc = "answered", ![s].answer = a] =
        [source EXCEPT ![s] = [source[s] EXCEPT !.pc = "answered", !.answer = a]]
    BY <1>p DEF TypeSources
  <2> QED BY <1>p, <2>2, <2>3 DEF TypeSources
<1>1. ASSUME UNCHANGED vars PROVE TypeOK'
  BY <1>1 DEF vars, TypeOK
<1>2. ASSUME NEW s \in Node, TokenSource(s) PROVE TypeOK'
  <2>1. config[s] \in ServerConfig
    BY <1>2, <1>p DEF TokenSource, TypeConfig
  <2>2. loadGrantForServer(config[s]) \in Grant /\ AfterLoad(config[s]) \in Grant
    BY <1>2, <2>1, LoadFields DEF TokenSource
  <2>3. PICK r : /\ source' = [source EXCEPT ![s] = r]
                 /\ r = [Closed EXCEPT !.pc = "idle", !.server = config[s],
                                       !.envelope = loadGrantForServer(config[s])]
    BY <1>2 DEF TokenSource
  <2>4. r \in SourceRecord
    BY <2>1, <2>2, <2>3 DEF SourceRecord, Closed
  <2>5. TypeSources'
    BY <1>2, <1>p, <2>2, <2>3, <2>4 DEF TokenSource, TypeSources
  <2>6. Rest'
    BY <1>2, <1>p DEF TokenSource, TypeIssuer, TypeRequests, TypeConfig
  <2> QED BY <2>5, <2>6
<1>3. ASSUME NEW s \in Node, clearGrantOrAdopt(s) PROVE TypeOK'
  <2>1. source[s].pc = "idle"
    BY <1>3 DEF clearGrantOrAdopt, NeedsToken
  <2>2. source[s].server \in ServerConfig
    BY <2>1, <1>q DEF Opened
  <2>3. AfterLoad(source[s].server) \in Grant \cup {NoGrant}
    BY <2>2, <1>p, LoadFields DEF TypeSources
  <2>4. ASSUME stored' = NoGrant, UNCHANGED source PROVE TypeSources'
    BY <2>4, <1>p DEF TypeSources
  <2>5. ASSUME Adopt(s, "idle", "idle") PROVE TypeSources'
    BY <2>5, <1>q, <2>1, <2>3, AdoptFields DEF TypeSources
  <2>6. Rest'
    BY <1>3, <1>p DEF clearGrantOrAdopt, TypeIssuer, TypeRequests, TypeConfig
  <2>7. TypeSources'
    BY <1>3, <2>4, <2>5 DEF clearGrantOrAdopt
  <2> QED BY <2>6, <2>7
<1>4. ASSUME NEW s \in Node, refreshUnderLease(s) PROVE TypeOK'
  <2>1. TypeSources'
    BY <1>4, <1>p, GotoFields DEF refreshUnderLease, TypeSources, UnderLease
  <2>2. Rest'
    BY <1>4, <1>p DEF refreshUnderLease, TypeIssuer, TypeRequests, TypeConfig
  <2> QED BY <2>1, <2>2
<1>5. ASSUME NEW s \in Node, waitForConcurrentRefresh(s) PROVE TypeOK'
  <2>1. source[s].pc # "closed" /\ source[s].server \in ServerConfig
    BY <1>5, <1>q DEF waitForConcurrentRefresh, Opened
  <2>2. AfterLoad(source[s].server) \in Grant \cup {NoGrant}
    BY <2>1, <1>p, LoadFields DEF TypeSources
  <2>3. TypeSources'
    BY <1>5, <1>p, <1>q, <2>1, <2>2, AdoptFields, ReturnFields
       DEF waitForConcurrentRefresh, TypeSources
  <2>4. Rest'
    BY <1>5, <1>p DEF waitForConcurrentRefresh, TypeIssuer, TypeRequests, TypeConfig
  <2> QED BY <2>3, <2>4
<1>6. ASSUME NEW s \in Node, ReloadUnderLease(s) PROVE TypeOK'
  <2>1. source[s].pc # "closed" /\ source[s].server \in ServerConfig
    BY <1>6, <1>q DEF ReloadUnderLease, Opened
  <2>2. AfterLoad(source[s].server) \in Grant \cup {NoGrant}
    BY <2>1, <1>p, LoadFields DEF TypeSources
  <2>3. TypeSources'
    BY <1>6, <1>p, <1>q, <2>1, <2>2, AdoptFields, GotoFields
       DEF ReloadUnderLease, TypeSources, UnderLease
  <2>4. Rest'
    BY <1>6, <1>p DEF ReloadUnderLease, TypeIssuer, TypeRequests, TypeConfig
  <2> QED BY <2>3, <2>4
<1>7. ASSUME NEW s \in Node, releaseRefreshLease(s) PROVE TypeOK'
  <2>1. TypeSources'
    BY <1>7, <1>p, ReturnFields DEF releaseRefreshLease, TypeSources
  <2>2. Rest'
    BY <1>7, <1>p DEF releaseRefreshLease, TypeIssuer, TypeRequests, TypeConfig
  <2> QED BY <2>1, <2>2
<1>8. ASSUME NEW s \in Node, RequestFails(s) PROVE TypeOK'
  <2>1. TypeSources'
    BY <1>8, <1>p, GotoFields DEF RequestFails, TypeSources, UnderLease
  <2>2. Rest'
    BY <1>8, <1>p, CountType DEF RequestFails, TypeIssuer, TypeRequests, TypeConfig
  <2> QED BY <2>1, <2>2
<1>9. ASSUME NEW s \in Node, AnswerLost(s) PROVE TypeOK'
  <2>1. TypeSources'
    BY <1>9, <1>p, GotoFields DEF AnswerLost, TypeSources, UnderLease
  <2>2. TypeIssuer'
    BY <1>9, <1>p, LosingFields DEF AnswerLost, TypeIssuer
  <2>3. (TypeRequests /\ TypeConfig)'
    BY <1>9, <1>p, CountType DEF AnswerLost, TypeRequests, TypeConfig
  <2> QED BY <2>1, <2>2, <2>3
<1>10. ASSUME NEW s \in Node, InvalidateUserClients(s) PROVE TypeOK'
  <2>1. TypeSources'
    BY <1>10, <1>p, CloseFields DEF InvalidateUserClients, TypeSources
  <2>2. Rest'
    BY <1>10, <1>p, CountType DEF InvalidateUserClients, TypeIssuer, TypeRequests, TypeConfig
  <2> QED BY <2>1, <2>2
<1>11. ASSUME NEW s \in Node, ClearDeadGrant(s) PROVE TypeOK'
  <2>1. TypeSources'
    BY <1>11, <1>p, GotoFields DEF ClearDeadGrant, TypeSources, UnderLease
  <2>2. Rest'
    BY <1>11, <1>p DEF ClearDeadGrant, TypeIssuer, TypeRequests, TypeConfig
  <2> QED BY <2>1, <2>2
<1>12. ASSUME NEW s \in Node, refreshGrant(s) PROVE TypeOK'
  <2> DEFINE g == source[s].envelope
  <2>0. g \in Grant /\ source[s].pc = "send" /\ g.signIn \in SignIn /\ NoGrant \notin Grant
    BY <1>12, <1>q, GrantFields DEF refreshGrant, Opened
  <2>1. (TypeRequests /\ TypeConfig)' /\ stored' = stored
    BY <1>12, <1>p DEF refreshGrant, TypeRequests, TypeConfig
  <2>2. ASSUME Exchange(g.signIn, g.refresh),
               source' = [source EXCEPT ![s].pc = "answered",
                  ![s].answer = [g EXCEPT !.access = issuer'[g.signIn].access,
                                          !.refresh = issuer'[g.signIn].refresh]]
        PROVE TypeSources' /\ TypeIssuer'
    <3>3. TypeIssuer'
      <4>1. PICK f \in SignIn : f = g.signIn
        BY <2>0
      <4>2. Exchange(f, g.refresh)
        BY <2>2, <4>1
      <4>3. /\ issuer' \in [SignIn -> IssuerRecord]
            /\ \A e \in SignIn \ {f} : issuer'[e] = issuer[e]
            /\ issuer'[f].access = issuer[f].access + 1
            /\ issuer'[f].access <= maxTokens[f]
            /\ issuer'[f].expired = issuer[f].expired
        BY <4>2, ExchangeFields
      <4>4. issuer[f].expired <= issuer[f].access /\ issuer[f] \in IssuerRecord
        BY <1>p DEF TypeIssuer
      <4>5. issuer'[f].expired <= issuer'[f].access
        BY <4>3, <4>4 DEF IssuerRecord
      <4> QED BY <4>3, <4>5, <1>p DEF TypeIssuer
    <3>4. issuer'[g.signIn].access \in Nat \ {0} /\ issuer'[g.signIn].refresh \in Nat
      <4>1. /\ issuer[g.signIn].access \in Nat
            /\ issuer'[g.signIn].access = issuer[g.signIn].access + 1
            /\ issuer'[g.signIn] \in IssuerRecord
        BY <2>2, <2>0, <1>p, ExchangeFields DEF TypeIssuer, IssuerRecord
      <4> QED BY <4>1 DEF IssuerRecord
    <3>5. [g EXCEPT !.access = issuer'[g.signIn].access,
                    !.refresh = issuer'[g.signIn].refresh] \in Grant
      BY <3>4, <2>0 DEF Grant
    <3>6. TypeSources'
      <4>1. PICK a \in Grant : source' = [source EXCEPT ![s].pc = "answered", ![s].answer = a]
        BY <3>5, <2>2
      <4> QED BY <4>1, <2>1, <1>u, <1>p DEF TypeSources
    <3> QED BY <3>3, <3>6
  <2>3. ASSUME Reject(g.signIn, g.refresh),
               source' = [source EXCEPT ![s].pc = "answered", ![s].answer = InvalidGrant]
        PROVE TypeSources' /\ TypeIssuer'
    <3>1. TypeSources'
      BY <2>3, <2>1, <1>u, <1>p DEF TypeSources
    <3>2. TypeIssuer'
      BY <2>3, <2>0, <1>p DEF Reject, TypeIssuer, IssuerRecord
    <3> QED BY <3>1, <3>2
  <2>4. ASSUME Goto(s, "release"), UNCHANGED issuer
        PROVE TypeSources' /\ TypeIssuer'
    <3>1. TypeSources'
      BY <2>4, <2>1, <1>p, GotoFields DEF TypeSources, UnderLease
    <3>2. TypeIssuer'
      BY <2>4, <1>p DEF TypeIssuer
    <3> QED BY <3>1, <3>2
  <2>5. TypeSources' /\ TypeIssuer'
    BY <1>12, <2>2, <2>3, <2>4 DEF refreshGrant
  <2> QED BY <2>1, <2>5
<1>13. ASSUME NEW s \in Node, persistRefreshedGrant(s) PROVE TypeOK'
  <2>0. source[s] \in SourceRecord /\ source[s].answer \in Grant
    BY <1>13, <1>p, <1>q DEF persistRefreshedGrant, TypeSources, GrantInv, Connection, Answered
  <2>1. (TypeRequests /\ TypeConfig)'
    BY <1>13, <1>p DEF persistRefreshedGrant, TypeRequests, TypeConfig
  <2>2. ASSUME stored' = source[s].answer, UNCHANGED issuer,
               source' = [source EXCEPT ![s].pc = "release", ![s].answer = NoAnswer,
                                        ![s].envelope = source[s].answer]
        PROVE TypeSources' /\ TypeIssuer'
    <3>1. [source[s] EXCEPT !.pc = "release", !.answer = NoAnswer,
                            !.envelope = source[s].answer] \in SourceRecord
      BY <2>0 DEF SourceRecord, UnderLease
    <3>2. TypeSources'
      BY <3>1, <2>0, <2>2, <1>p DEF TypeSources
    <3>3. TypeIssuer'
      BY <2>2, <1>p DEF TypeIssuer
    <3> QED BY <3>2, <3>3
  <2>3. ASSUME issuer' = Losing(s), Goto(s, "release"), UNCHANGED stored
        PROVE TypeSources' /\ TypeIssuer'
    <3>1. TypeSources'
      BY <2>3, <1>p, GotoFields DEF TypeSources, UnderLease
    <3>2. TypeIssuer'
      BY <2>3, <1>p, LosingFields DEF TypeIssuer
    <3> QED BY <3>1, <3>2
  <2>4. TypeSources' /\ TypeIssuer'
    BY <1>13, <2>2, <2>3 DEF persistRefreshedGrant
  <2> QED BY <2>1, <2>4
<1>14. ASSUME NEW f \in SignIn, TokenExpires(f) PROVE TypeOK'
  <2>1. TypeIssuer'
    BY <1>14, <1>p, BoundsAssumption DEF TokenExpires, TypeIssuer, IssuerRecord
  <2>2. (TypeSources /\ TypeRequests /\ TypeConfig)'
    BY <1>14, <1>p DEF TokenExpires, TypeSources, TypeRequests, TypeConfig
  <2> QED BY <2>1, <2>2
<1>15. ASSUME NEW f \in SignIn, ProcessOAuthCallback(f) PROVE TypeOK'
  <2>1. signIn[f].server \in ServerConfig
    BY <1>15 DEF ProcessOAuthCallback, GrantInv, SignInChecked
  <2>2. /\ issuer[f].refresh \in Nat /\ signIn[f].id \in 0..MaxSaves
        /\ signIn[f].server.origin \in Origin
    BY <2>1, <1>p DEF TypeIssuer, IssuerRecord, TypeRequests, ServerConfig
  <2>3. stored' \in Grant
    BY <1>15, <2>2 DEF ProcessOAuthCallback, Grant
  <2>4. TypeSources'
    BY <1>15, <2>3, CloseFields DEF ProcessOAuthCallback, TypeSources
  <2>5. (TypeIssuer /\ TypeConfig)'
    BY <1>15, <1>p DEF ProcessOAuthCallback, TypeIssuer, TypeConfig
  <2>6. TypeRequests'
    <3>1. signIn' = [signIn EXCEPT ![f] =
                       [signIn[f] EXCEPT !.pc = "done", !.node = NoNode, !.id = 0]]
      BY <1>15, <1>p DEF ProcessOAuthCallback, TypeRequests
    <3>2. [signIn[f] EXCEPT !.pc = "done", !.node = NoNode, !.id = 0]
            \in [pc : {"none", "started", "exchanged", "done"}, node : Node \cup {NoNode},
                 server : ServerConfig \cup {NoServer}, id : 0..MaxSaves]
      <4>1. signIn[f] \in [pc : {"none", "started", "exchanged", "done"}, node : Node \cup {NoNode},
                            server : ServerConfig \cup {NoServer}, id : 0..MaxSaves]
        BY <1>p DEF TypeRequests
      <4>2. 0 \in 0..MaxSaves
        BY BoundsAssumption
      <4> QED BY <4>1, <4>2
    <3> QED BY <1>15, <3>1, <3>2, <1>p DEF ProcessOAuthCallback, TypeRequests
  <2> QED BY <2>4, <2>5, <2>6
<1>16. ASSUME NEW f \in SignIn, NEW n \in Node, initiateOAuthFlow(f, n) PROVE TypeOK'
  <2>1. TypeRequests'
    BY <1>16, <1>p, BoundsAssumption DEF initiateOAuthFlow, TypeRequests, TypeConfig
  <2>2. (TypeSources /\ TypeIssuer /\ TypeConfig)'
    BY <1>16, <1>p DEF initiateOAuthFlow, TypeSources, TypeIssuer, TypeConfig
  <2> QED BY <2>1, <2>2
<1>17. ASSUME NEW f \in SignIn, NEW n \in Node, ProcessCallback(f, n) PROVE TypeOK'
  <2>1. (TypeSources /\ TypeConfig)'
    BY <1>17, <1>p DEF ProcessCallback, TypeSources, TypeConfig
  <2>2. CASE SameServer(config[n], signIn[f].server)
    <3>1. config[n] \in ServerConfig /\ signIn[f].server \in ServerConfig
      BY <1>17, <2>2, <1>p DEF ProcessCallback, SameServer, TypeConfig, GrantInv, SignInChecked
    <3>2. config[n].id \in 0..MaxSaves /\ signIn[f].server.id \in 0..MaxSaves
      BY <3>1 DEF ServerConfig
    <3>3. TypeRequests'
      BY <1>17, <2>2, <3>1, <3>2, <1>p DEF ProcessCallback, TypeRequests
    <3>4. PICK refresh \in 0..1 :
            issuer' = [issuer EXCEPT ![f] = [@ EXCEPT !.state = "live", !.access = 1,
                                                      !.refresh = refresh]]
      BY <1>17, <2>2 DEF ProcessCallback
    <3>5. issuer[f].expired = 0
      BY <1>17, <1>p DEF ProcessCallback, GrantInv, SignInChecked, TypeIssuer, IssuerRecord
    <3>6. TypeIssuer'
      <4> DEFINE i == [issuer[f] EXCEPT !.state = "live", !.access = 1, !.refresh = refresh]
      <4>1. i \in IssuerRecord /\ i.access = 1 /\ i.expired = 0
        <5>1. issuer[f] \in IssuerRecord /\ refresh \in Nat /\ 1 \in Nat
          BY <1>p DEF TypeIssuer
        <5> QED BY <5>1, <3>5 DEF IssuerRecord
      <4>2. issuer' = [issuer EXCEPT ![f] = i]
        BY <3>4
      <4> HIDE DEF i
      <4>3. issuer' \in [SignIn -> IssuerRecord]
        BY <4>1, <4>2, <1>p DEF TypeIssuer
      <4>4. maxTokens[f] \in Nat \ {0}
        BY BoundsAssumption
      <4> QED BY <4>1, <4>2, <4>3, <4>4, <1>p DEF TypeIssuer
    <3> QED BY <2>1, <3>3, <3>6
  <2>3. CASE ~SameServer(config[n], signIn[f].server)
    <3>1. TypeRequests' /\ TypeIssuer'
      BY <1>17, <2>3, <1>p DEF ProcessCallback, TypeRequests, TypeIssuer
    <3> QED BY <2>1, <3>1
  <2> QED BY <2>2, <2>3
<1>18. ASSUME NEW n \in Node, revokeGrantBeforeDelete(n) PROVE TypeOK'
  <2>1. (TypeSources /\ TypeConfig)'
    BY <1>18, <1>p DEF revokeGrantBeforeDelete, TypeSources, TypeConfig
  <2>2. TypeRequests'
    BY <1>18, <1>p DEF revokeGrantBeforeDelete, TypeRequests
  <2>3. TypeIssuer'
    <3>1. CASE UNCHANGED issuer
      BY <3>1, <1>p DEF TypeIssuer
    <3>2. CASE stored # NoGrant /\ issuer' = [issuer EXCEPT
                 ![stored.signIn].state = IF @ = "live" THEN "revoked" ELSE @]
      <4>1. stored.signIn \in SignIn
        BY <3>2, <1>p, GrantFields DEF TypeSources
      <4> QED BY <3>2, <4>1, <1>p DEF TypeIssuer, IssuerRecord
    <3> QED BY <1>18, <3>1, <3>2 DEF revokeGrantBeforeDelete
  <2> QED BY <2>1, <2>2, <2>3
<1>19. ASSUME NEW n \in Node, SaveConfig(n) PROVE TypeOK'
  <2>1. PICK next \in NextConfig \ {saved} :
          /\ saved' = next /\ ReInit(n, next)
          /\ sweep' = IF OAuthStateToClear(saved, next) THEN "list" ELSE "none"
    BY <1>19 DEF SaveConfig
  <2>2. next \in ServerConfig \cup {NoServer}
    <3>1. budget.saves + 1 \in 0..MaxSaves
      BY <1>19, <1>p, BoundsAssumption DEF SaveConfig, TypeConfig
    <3>2. saved.id \in 0..MaxSaves \cup {-1}
      BY <1>p DEF TypeConfig, ServerConfig, NoServer
    <3> QED BY <2>1, <3>1, <3>2 DEF NextConfig, ServerConfig
  <2>3. TypeSources'
    BY <1>19, <1>p, <2>1, CloseFields DEF SaveConfig, ReInit, TypeSources
  <2>4. TypeConfig'
    BY <1>19, <1>p, <2>1, <2>2, CountType DEF SaveConfig, ReInit, TypeConfig
  <2>5. (TypeIssuer /\ TypeRequests)'
    BY <1>19, <1>p DEF SaveConfig, TypeIssuer, TypeRequests
  <2> QED BY <2>3, <2>4, <2>5
<1>20. ASSUME NEW n \in Node, ConfigUpdate(n) PROVE TypeOK'
  <2>1. TypeSources'
    BY <1>20, <1>p, CloseFields DEF ConfigUpdate, ReInit, TypeSources
  <2>2. TypeConfig'
    BY <1>20, <1>p DEF ConfigUpdate, ReInit, TypeConfig
  <2>3. (TypeIssuer /\ TypeRequests)'
    BY <1>20, <1>p DEF ConfigUpdate, TypeIssuer, TypeRequests
  <2> QED BY <2>1, <2>2, <2>3
<1>21. ASSUME NEW n \in Node, Crash(n) PROVE TypeOK'
  <2>1. TypeSources'
    BY <1>21, <1>p DEF Crash, TypeSources, SourceRecord, Closed
  <2>2. TypeIssuer'
    BY <1>21, <1>p, LosingFields DEF Crash, TypeIssuer
  <2>3. TypeRequests'
    <3> DEFINE SignInRecord == [pc : {"none", "started", "exchanged", "done"},
                                node : Node \cup {NoNode},
                                server : ServerConfig \cup {NoServer}, id : 0..MaxSaves]
    <3>1. \A f \in SignIn : signIn[f] \in SignInRecord
      BY <1>p DEF TypeRequests
    <3>2. 0 \in 0..MaxSaves
      BY BoundsAssumption
    <3>3. \A f \in SignIn : [signIn[f] EXCEPT !.pc = "done", !.node = NoNode, !.id = 0]
                               \in SignInRecord
      BY <3>1, <3>2
    <3>4. signIn' \in [SignIn -> SignInRecord]
      BY <1>21, <3>1, <3>3 DEF Crash
    <3>5. /\ lease' \in Node \cup {NoNode}
          /\ disconnect' \in [pc : {"none", "revoked", "done"}, node : Node \cup {NoNode}]
      BY <1>21, <1>p DEF Crash, TypeRequests
    <3> QED BY <3>4, <3>5 DEF TypeRequests
  <2>4. TypeConfig'
    BY <1>21, <1>p, CountType DEF Crash, TypeConfig
  <2> QED BY <2>1, <2>2, <2>3, <2>4
<1>22. ASSUME DisconnectUserOAuth PROVE TypeOK'
  <2>1. TypeSources'
    BY <1>22, <1>p, CloseFields DEF DisconnectUserOAuth, TypeSources
  <2>2. (TypeIssuer /\ TypeRequests /\ TypeConfig)'
    BY <1>22, <1>p DEF DisconnectUserOAuth, TypeIssuer, TypeRequests, TypeConfig
  <2> QED BY <2>1, <2>2
<1>23. ASSUME ListKeys PROVE TypeOK'
  BY <1>23, <1>p DEF ListKeys, TypeSources, TypeIssuer, TypeRequests, TypeConfig
<1>24. ASSUME ClearServerOAuthState PROVE TypeOK'
  BY <1>24, <1>p DEF ClearServerOAuthState, TypeSources, TypeIssuer, TypeRequests, TypeConfig
<1>25. ASSUME LeaseExpires PROVE TypeOK'
  <2>1. (TypeSources /\ TypeIssuer /\ TypeRequests)'
    BY <1>25, <1>p DEF LeaseExpires, TypeSources, TypeIssuer, TypeRequests
  <2>2. TypeConfig'
    BY <1>25, <1>p, CountType DEF LeaseExpires, TypeConfig
  <2> QED BY <2>1, <2>2
<1> QED
  BY <1>1, <1>2, <1>3, <1>4, <1>5, <1>6, <1>7, <1>8, <1>9, <1>10, <1>11, <1>12, <1>13, <1>14,
     <1>15, <1>16, <1>17, <1>18, <1>19, <1>20, <1>21, <1>22, <1>23, <1>24, <1>25
     DEF Next, Refresh

-----------------------------------------------------------------------------
(* Every step keeps the invariant of the grants                            *)

\* A connection keeps its server, its grant and an answer, or is closed.
Keeps(s) ==
    \/ source'[s] = Closed
    \/ source'[s] = source[s]
    \/ /\ source[s].pc # "closed" /\ source'[s].pc # "closed"
       /\ source'[s].server = source[s].server
       /\ source'[s].envelope = source[s].envelope
       /\ IF source'[s].pc = "answered"
          THEN source[s].pc = "answered" /\ source'[s].answer = source[s].answer
          ELSE source'[s].answer = NoAnswer

\* Sign-ins that are over stay so, and tokens are only added.
SignInsStay ==
    \A f \in SignIn :
        /\ signIn[f].pc = "done" => signIn'[f].pc = "done" /\ signIn'[f].server = signIn[f].server
        /\ issuer'[f].access >= issuer[f].access

LEMMA KnownStays ==
    ASSUME TypeOK, TypeOK', SignInsStay, NEW g \in Grant, Known(g)
    PROVE  Known(g)'
<1>1. g.signIn \in SignIn /\ g.access \in Nat
  BY GrantFields
<1>2. issuer[g.signIn].access \in Nat /\ issuer'[g.signIn].access \in Nat
  BY <1>1 DEF TypeOK
<1> QED BY <1>1, <1>2 DEF Known, BoundTo, SignInsStay

LEMMA ConnectionKept ==
    ASSUME TypeOK, TypeOK', SignInsStay, NEW s \in Node, Connection(s), Keeps(s)
    PROVE  Connection(s)'
<1>1. CASE source'[s] = Closed
  BY <1>1 DEF Connection, Opened, Answered, Closed
<1>2. CASE source'[s] # Closed
  <2>1. source[s].pc # "closed" /\ source'[s].pc # "closed"
    BY <1>2 DEF Keeps, Connection, Opened
  <2>2. /\ source'[s].server = source[s].server
        /\ source'[s].envelope = source[s].envelope
        /\ source[s].envelope \in Grant /\ source[s].server \in ServerConfig
    BY <1>2, <2>1 DEF Keeps, Connection, Opened
  <2>3. Opened(s)'
    BY <2>1, <2>2 DEF Opened
  <2>4. Answered(s)'
    <3>1. CASE source'[s].pc # "answered"
      BY <1>2, <3>1 DEF Keeps, Connection, Answered
    <3>2. CASE source'[s].pc = "answered" /\ source'[s].answer # InvalidGrant
      <4>1. source[s].pc = "answered" /\ source'[s].answer = source[s].answer
        BY <1>2, <3>2 DEF Keeps
      <4>2. /\ source[s].answer \in Grant
            /\ source[s].answer.access <= issuer[source[s].answer.signIn].access
            /\ source[s].answer.signIn \in SignIn /\ source[s].answer.access \in Nat
        BY <4>1, <3>2, GrantFields DEF Connection, Answered
      <4>3. source[s].answer.access <= issuer'[source[s].answer.signIn].access
        BY <4>2 DEF SignInsStay, TypeOK
      <4> QED BY <4>1, <4>2, <4>3, <3>2, <2>2 DEF Connection, Answered
    <3> QED BY <3>1, <3>2 DEF Answered
  <2>5. Known(source[s].envelope)'
    <3>1. PICK g \in Grant : g = source[s].envelope
      BY <2>2
    <3>2. Known(g)'
      BY <3>1, <2>1, KnownStays DEF Connection
    <3> QED BY <3>1, <3>2, <2>2 DEF Known, BoundTo
  <2>6. FitsServer(source[s].envelope, source[s].server)'
    BY <2>1, <2>2 DEF Connection, FitsServer
  <2> QED BY <2>3, <2>4, <2>5, <2>6 DEF Connection
<1> QED BY <1>1, <1>2

\* A step that changes no sign-in, and of the issuer's records only those of
\* sign-ins that are over or their expiry.
LEMMA SignInsChecked ==
    ASSUME TypeOK, GrantInv, UNCHANGED signIn,
           \A f \in SignIn : signIn[f].pc = "done" \/
               /\ issuer'[f].state = issuer[f].state
               /\ issuer'[f].access = issuer[f].access
               /\ issuer'[f].lost <=> issuer[f].lost
    PROVE  \A f \in SignIn : SignInChecked(f)'
BY DEF GrantInv, SignInChecked

\* The answer a connection may lose is for a sign-in that is over.
LEMMA LosingDone ==
    ASSUME TypeOK, GrantInv, NEW s \in Node, NEW f \in SignIn
    PROVE  (Losing(s)[f].lost <=> issuer[f].lost) \/ signIn[f].pc = "done"
<1>1. CASE source[s].answer.signIn # f
  BY <1>1, LosingFields
<1>2. CASE source[s].answer.signIn = f
  <2>1. source[s].answer # NoAnswer /\ source[s].answer # InvalidGrant
    BY <1>2, GrantFields, BoundsAssumption DEF SignIn
  <2>2. source[s].pc = "answered" /\ source[s].envelope.signIn = f
    BY <2>1, <1>2 DEF GrantInv, Connection, Answered
  <2> QED BY <2>2 DEF GrantInv, Connection, Known
<1> QED BY <1>1, <1>2

\* Steps that add nothing to the store and give no connection a new grant.
LEMMA QuietGrants ==
    ASSUME TypeOK, TypeOK', GrantInv, SignInsStay, \A s \in Node : Keeps(s),
           stored' \in {stored, NoGrant}, \A f \in SignIn : SignInChecked(f)'
    PROVE  GrantInv'
<1>1. \A s \in Node : Connection(s)'
  BY ConnectionKept DEF GrantInv
<1>2. stored' # NoGrant => Known(stored)'
  <2>1. SUFFICES ASSUME stored' # NoGrant PROVE Known(stored)'
    OBVIOUS
  <2>2. PICK g \in Grant : g = stored /\ stored' = g
    BY <2>1 DEF TypeOK
  <2>3. Known(g)'
    BY <2>1, <2>2, KnownStays DEF GrantInv
  <2> QED BY <2>2, <2>3 DEF Known, BoundTo
<1> QED BY <1>1, <1>2 DEF GrantInv

\* Steps in which one connection gets a new grant or answer.
LEMMA OneConnection ==
    ASSUME TypeOK, TypeOK', GrantInv, SignInsStay, NEW s \in Node, Connection(s)',
           \A t \in Node \ {s} : Keeps(t),
           stored' = stored \/ Known(stored)', \A f \in SignIn : SignInChecked(f)'
    PROVE  GrantInv'
<1>1. \A t \in Node : Connection(t)'
  BY ConnectionKept DEF GrantInv
<1>2. stored' # NoGrant => Known(stored)'
  <2>1. SUFFICES ASSUME stored # NoGrant, stored' = stored PROVE Known(stored)'
    OBVIOUS
  <2>2. PICK g \in Grant : g = stored
    BY <2>1 DEF TypeOK
  <2>3. Known(g)'
    BY <2>1, <2>2, KnownStays DEF GrantInv
  <2> QED BY <2>1, <2>2, <2>3 DEF Known, BoundTo
<1> QED BY <1>1, <1>2 DEF GrantInv

\* Steps in which one connection loads the grant for its server.
LEMMA LoadGrants ==
    ASSUME TypeOK, TypeOK', GrantInv, UNCHANGED <<issuer, signIn>>, NEW s \in Node,
           NEW server \in ServerConfig, stored' = AfterLoad(server),
           \A t \in Node \ {s} : source'[t] = source[t],
           \/ Keeps(s)
           \/ /\ source'[s].pc \notin {"closed", "answered"} /\ source'[s].answer = NoAnswer
              /\ source'[s].server = server
              /\ source'[s].envelope = loadGrantForServer(server)
              /\ loadGrantForServer(server) # NoGrant
    PROVE  GrantInv'
<1> DEFINE g == loadGrantForServer(server)
<1>1. SignInsStay
  BY DEF SignInsStay, TypeOK
<1>2. \A t \in Node \ {s} : Connection(t)'
  BY <1>1, ConnectionKept DEF GrantInv, Keeps
<1>3. g # NoGrant => /\ stored \in Grant /\ stored # NoGrant
                     /\ g \in Grant /\ stored' = g
                     /\ g.signIn = stored.signIn /\ g.access = stored.access
                     /\ g.origin = stored.origin /\ g.origin = server.origin
                     /\ stored.id \in {0, g.id} /\ server.id \in {0, g.id}
  BY LoadFields, GrantFields
<1>4. g # NoGrant => Known(g) /\ FitsServer(g, server)
  BY <1>3 DEF GrantInv, Known, BoundTo, FitsServer
<1>6. stored' # NoGrant => Known(stored)'
  <2>1. CASE g # NoGrant
    BY <2>1, <1>3, <1>4 DEF Known, BoundTo
  <2>2. CASE g = NoGrant
    <3>1. stored' = stored
      BY <2>2, LoadFields, GrantFields
    <3> QED BY <3>1 DEF GrantInv, Known, BoundTo
  <2> QED BY <2>1, <2>2
<1>7. Connection(s)'
  <2>1. CASE Keeps(s)
    BY <2>1, <1>1, ConnectionKept DEF GrantInv
  <2>2. CASE /\ source'[s].pc \notin {"closed", "answered"} /\ source'[s].answer = NoAnswer
             /\ source'[s].server = server
             /\ source'[s].envelope = g
             /\ g # NoGrant
    <3>1. Opened(s)' /\ Answered(s)'
      BY <2>2, <1>3 DEF Opened, Answered
    <3>2. Known(source[s].envelope)' /\ FitsServer(source[s].envelope, source[s].server)'
      BY <2>2, <1>4 DEF Known, BoundTo, FitsServer
    <3> QED BY <3>1, <3>2 DEF Connection
  <2> QED BY <2>1, <2>2
<1>8. \A f \in SignIn : SignInChecked(f)'
  BY DEF GrantInv, SignInChecked
<1> QED BY <1>2, <1>6, <1>7, <1>8 DEF GrantInv

LEMMA CloseKeeps ==
    ASSUME TypeOK, GrantInv, NEW S, source' = Close(S)
    PROVE  \A s \in Node : Keeps(s)
<1>1. SUFFICES ASSUME NEW s \in Node,
                      source[s].pc # "closed",
                      source'[s] = [source[s] EXCEPT !.closing = TRUE]
               PROVE  Keeps(s)
  <2>1. \A s \in Node : \/ source'[s] = source[s]
                        \/ source'[s] = Closed
                        \/ /\ source[s].pc # "closed"
                           /\ source'[s] = [source[s] EXCEPT !.closing = TRUE]
    BY CloseFields
  <2> QED BY <2>1 DEF Keeps
<1>2. /\ source'[s].server = source[s].server /\ source'[s].pc = source[s].pc
      /\ source'[s].envelope = source[s].envelope
      /\ source'[s].answer = source[s].answer
  BY <1>1 DEF TypeOK
<1>3. source[s].pc # "answered" => source[s].answer = NoAnswer
  BY DEF GrantInv, Connection, Answered
<1> QED BY <1>1, <1>2, <1>3 DEF Keeps

LEMMA GrantStep ==
    ASSUME TypeOK, TypeOK', GrantInv, [Next]_vars
    PROVE  GrantInv'
<1>c. \A s \in Node : Connection(s) /\ Opened(s) /\ Answered(s)
  BY DEF GrantInv, Connection
<1>t. source \in [Node -> SourceRecord]
  BY DEF TypeOK, SourceRecord
<1>n. \A f \in SignIn : issuer[f].access \in Nat
  BY DEF TypeOK
<1>q. UNCHANGED source => \A s \in Node : Keeps(s)
  BY DEF Keeps
<1>s. UNCHANGED <<issuer, signIn>> => SignInsStay /\ \A f \in SignIn : SignInChecked(f)'
  BY DEF SignInsStay, TypeOK, GrantInv, SignInChecked
<1>g. ASSUME NEW s \in Node, NEW label \in UnderLease \cup {"idle", "wait"}, Goto(s, label),
             source[s].pc # "closed", label # "answered"
      PROVE  \A t \in Node : Keeps(t)
  <2>1. source[s].pc # "closed" /\ label # "closed"
    BY <1>g DEF UnderLease
  <2>2. \A t \in Node \ {s} : Keeps(t)
    BY <1>g, GotoFields DEF Keeps
  <2>3. Keeps(s)
    <3>1. /\ source'[s].pc = label /\ source'[s].answer = NoAnswer
          /\ source'[s].server = source[s].server
          /\ source'[s].envelope = source[s].envelope
      BY <1>g, GotoFields
    <3> QED BY <1>g, <2>1, <3>1 DEF Keeps
  <2> QED BY <2>2, <2>3
<1>r. ASSUME NEW s \in Node, Return(s), source[s].pc # "closed"
      PROVE  \A t \in Node : Keeps(t)
  BY <1>r, ReturnFields DEF Keeps
<1>l. ASSUME NEW s \in Node, UNCHANGED signIn, issuer' = Losing(s)
      PROVE  SignInsStay /\ \A f \in SignIn : SignInChecked(f)'
  <2>1. \A f \in SignIn : issuer'[f].access = issuer[f].access
                          /\ issuer'[f].state = issuer[f].state
    BY <1>l, LosingFields
  <2>2. SignInsStay
    BY <1>l, <2>1, <1>n DEF SignInsStay
  <2> QED BY <1>l, <2>1, <2>2, LosingDone, SignInsChecked
<1>a. ASSUME NEW s \in Node, source[s].pc \in {"idle", "wait", "reload"},
             NEW valid \in {"idle", "release"}, NEW label \in {"idle", "wait", "send"},
             Adopt(s, valid, label), UNCHANGED <<issuer, signIn>>
      PROVE  GrantInv'
  <2>1. source[s].pc # "closed" /\ source[s].pc # "answered"
    BY <1>a
  <2>2. source[s].answer = NoAnswer /\ source[s].server \in ServerConfig
    BY <2>1, <1>c DEF Opened, Answered
  <2>3. /\ stored' = AfterLoad(source[s].server)
        /\ \A t \in Node \ {s} : source'[t] = source[t]
    BY <1>a, <1>c, <2>1, AdoptFields
  <2>4. \/ source'[s] = Closed
        \/ /\ source'[s].pc \notin {"closed", "answered"}
           /\ source'[s].server = source[s].server /\ source'[s].answer = source[s].answer
           /\ source'[s].envelope = IF loadGrantForServer(source[s].server) = NoGrant
                                    THEN source[s].envelope
                                    ELSE loadGrantForServer(source[s].server)
    BY <1>a, <1>c, <2>1, AdoptFields
  <2>5. CASE source'[s] = Closed
    BY <1>a, <2>2, <2>3, <2>5, LoadGrants DEF Keeps
  <2>6. CASE source'[s] # Closed /\ loadGrantForServer(source[s].server) = NoGrant
    <3>1. Keeps(s)
      BY <2>1, <2>2, <2>4, <2>6 DEF Keeps
    <3> QED BY <1>a, <2>2, <2>3, <3>1, LoadGrants
  <2>7. CASE source'[s] # Closed /\ loadGrantForServer(source[s].server) # NoGrant
    BY <1>a, <2>2, <2>3, <2>4, <2>7, LoadGrants
  <2> QED BY <2>5, <2>6, <2>7
<1>1. ASSUME UNCHANGED vars PROVE GrantInv'
  BY <1>1, <1>q, <1>s, QuietGrants DEF vars
<1>2. ASSUME NEW s \in Node, TokenSource(s) PROVE GrantInv'
  <2>1. config[s] \in ServerConfig
    BY <1>2 DEF TokenSource, TypeOK
  <2>2. source'[s] = [Closed EXCEPT !.pc = "idle", !.server = config[s],
                                    !.envelope = loadGrantForServer(config[s])]
    BY <1>2 DEF TokenSource, TypeOK
  <2>3. /\ source'[s].pc = "idle" /\ source'[s].answer = NoAnswer
        /\ source'[s].server = config[s]
        /\ source'[s].envelope = loadGrantForServer(config[s])
    BY <2>2 DEF Closed
  <2>4. \A t \in Node \ {s} : source'[t] = source[t]
    BY <1>2 DEF TokenSource, TypeOK
  <2> QED BY <1>2, <2>1, <2>3, <2>4, LoadGrants DEF TokenSource
<1>3. ASSUME NEW s \in Node, clearGrantOrAdopt(s) PROVE GrantInv'
  <2>1. source[s].pc = "idle" /\ UNCHANGED <<issuer, signIn>>
    BY <1>3 DEF clearGrantOrAdopt, NeedsToken
  <2>2. CASE stored' = NoGrant /\ UNCHANGED source
    BY <2>1, <2>2, <1>q, <1>s, QuietGrants
  <2>3. CASE Adopt(s, "idle", "idle")
    BY <2>1, <2>3, <1>a
  <2> QED BY <1>3, <2>2, <2>3 DEF clearGrantOrAdopt
<1>4. ASSUME NEW s \in Node, refreshUnderLease(s) PROVE GrantInv'
  <2>1. source[s].pc = "idle" /\ UNCHANGED <<stored, issuer, signIn>>
        /\ (Goto(s, "reload") \/ Goto(s, "wait"))
    BY <1>4 DEF refreshUnderLease, NeedsToken
  <2> QED BY <2>1, <1>g, <1>s, QuietGrants DEF UnderLease
<1>5. ASSUME NEW s \in Node, waitForConcurrentRefresh(s) PROVE GrantInv'
  <2>1. source[s].pc = "wait" /\ UNCHANGED <<issuer, signIn>>
    BY <1>5 DEF waitForConcurrentRefresh
  <2>2. CASE Adopt(s, "idle", "wait")
    BY <2>1, <2>2, <1>a
  <2>3. CASE Return(s) /\ UNCHANGED stored
    BY <2>1, <2>3, <1>r, <1>s, QuietGrants
  <2> QED BY <1>5, <2>2, <2>3 DEF waitForConcurrentRefresh
<1>6. ASSUME NEW s \in Node, ReloadUnderLease(s) PROVE GrantInv'
  <2>1. source[s].pc = "reload" /\ UNCHANGED <<issuer, signIn>>
    BY <1>6 DEF ReloadUnderLease
  <2>2. CASE Adopt(s, "release", "send")
    BY <2>1, <2>2, <1>a
  <2>3. CASE Goto(s, "send") /\ UNCHANGED stored
    BY <2>1, <2>3, <1>g, <1>s, QuietGrants DEF UnderLease
  <2> QED BY <1>6, <2>2, <2>3 DEF ReloadUnderLease
<1>7. ASSUME NEW s \in Node, releaseRefreshLease(s) PROVE GrantInv'
  BY <1>7, <1>r, <1>s, QuietGrants DEF releaseRefreshLease
<1>8. ASSUME NEW s \in Node, RequestFails(s) PROVE GrantInv'
  BY <1>8, <1>g, <1>s, QuietGrants DEF RequestFails, UnderLease
<1>9. ASSUME NEW s \in Node, AnswerLost(s) PROVE GrantInv'
  BY <1>9, <1>g, <1>l, QuietGrants DEF AnswerLost, UnderLease
<1>10. ASSUME NEW s \in Node, InvalidateUserClients(s) PROVE GrantInv'
  BY <1>10, <1>s, CloseKeeps, QuietGrants DEF InvalidateUserClients
<1>11. ASSUME NEW s \in Node, ClearDeadGrant(s) PROVE GrantInv'
  BY <1>11, <1>g, <1>s, QuietGrants DEF ClearDeadGrant, UnderLease
<1>12. ASSUME NEW s \in Node, refreshGrant(s) PROVE GrantInv'
  <2>0. PICK g : g = source[s].envelope
    OBVIOUS
  <2>1. /\ source[s].pc = "send" /\ g \in Grant /\ Known(g) /\ g.signIn \in SignIn
        /\ source[s].server \in ServerConfig /\ FitsServer(g, source[s].server)
        /\ UNCHANGED <<stored, signIn>>
    BY <1>12, <1>c, <2>0, GrantFields DEF refreshGrant, Connection, Opened
  <2>2. signIn[g.signIn].pc = "done"
    BY <2>1 DEF Known
  <2>3. ASSUME Exchange(g.signIn, g.refresh),
               source' = [source EXCEPT ![s].pc = "answered",
                  ![s].answer = [g EXCEPT !.access = issuer'[g.signIn].access,
                                          !.refresh = issuer'[g.signIn].refresh]]
        PROVE GrantInv'
    <3>1. PICK f \in SignIn : f = g.signIn /\ Exchange(f, g.refresh)
      BY <2>1, <2>3
    <3>2. /\ \A e \in SignIn \ {f} : issuer'[e] = issuer[e]
          /\ issuer'[f].access = issuer[f].access + 1
          /\ issuer[f].access \in Nat
      BY <3>1, ExchangeFields DEF TypeOK
    <3>3. SignInsStay
      BY <2>1, <3>2, <1>n DEF SignInsStay
    <3>4. \A e \in SignIn : SignInChecked(e)'
      BY <2>1, <2>2, <3>1, <3>2, SignInsChecked
    <3>5. \A t \in Node \ {s} : Keeps(t)
      BY <2>3 DEF Keeps, TypeOK
    <3>6. /\ source'[s].pc = "answered" /\ source'[s].server = source[s].server
          /\ source'[s].envelope = g
          /\ source'[s].answer = [g EXCEPT !.access = issuer'[f].access,
                                           !.refresh = issuer'[f].refresh]
      BY <2>0, <2>3, <3>1, <1>t DEF SourceRecord
    <3>7. /\ g.access \in Nat /\ g.access <= issuer[f].access
          /\ issuer'[f].access \in Nat \ {0} /\ issuer'[f].refresh \in Nat
      <4>1. g.access \in Nat /\ g.access <= issuer[f].access
        BY <2>1, <3>1, GrantFields DEF Known
      <4>2. issuer'[f].refresh \in Nat
        BY DEF TypeOK
      <4> QED BY <3>2, <4>1, <4>2
    <3>8. /\ source'[s].answer \in Grant
          /\ source'[s].answer.signIn = f /\ source'[s].answer.origin = g.origin
          /\ source'[s].answer.id = g.id /\ source'[s].answer.access = issuer'[f].access
      BY <2>1, <3>1, <3>6, <3>7 DEF Grant
    <3>9. Known(g)'
      BY <2>1, <3>3, KnownStays
    <3>10. Opened(s)' /\ Answered(s)'
      BY <2>1, <3>1, <3>2, <3>6, <3>7, <3>8 DEF Opened, Answered
    <3>11. Connection(s)'
      BY <2>1, <3>6, <3>9, <3>10 DEF Connection, Known, BoundTo, FitsServer
    <3> QED BY <2>1, <3>3, <3>4, <3>5, <3>11, OneConnection
  <2>4. ASSUME Reject(g.signIn, g.refresh),
               source' = [source EXCEPT ![s].pc = "answered", ![s].answer = InvalidGrant]
        PROVE GrantInv'
    <3>1. PICK f \in SignIn : f = g.signIn
      BY <2>1
    <3>2. /\ \A e \in SignIn \ {f} : issuer'[e] = issuer[e]
          /\ \A e \in SignIn : issuer'[e].access = issuer[e].access
      BY <2>4, <3>1 DEF Reject, TypeOK
    <3>3. SignInsStay
      BY <2>1, <3>2, <1>n DEF SignInsStay
    <3>4. \A e \in SignIn : SignInChecked(e)'
      BY <2>1, <2>2, <3>1, <3>2, SignInsChecked
    <3>5. \A t \in Node \ {s} : Keeps(t)
      BY <2>4 DEF Keeps, TypeOK
    <3>6. /\ source'[s].pc = "answered" /\ source'[s].server = source[s].server
          /\ source'[s].envelope = g /\ source'[s].answer = InvalidGrant
      BY <2>0, <2>4 DEF TypeOK
    <3>7. Known(g)'
      BY <2>1, <3>3, KnownStays
    <3>8. Connection(s)'
      BY <2>1, <3>6, <3>7 DEF Connection, Opened, Answered, Known, BoundTo, FitsServer
    <3> QED BY <2>1, <3>3, <3>4, <3>5, <3>8, OneConnection
  <2>5. ASSUME Goto(s, "release"), UNCHANGED issuer PROVE GrantInv'
    BY <2>1, <2>5, <1>g, <1>s, QuietGrants DEF UnderLease
  <2> QED BY <1>12, <2>0, <2>3, <2>4, <2>5 DEF refreshGrant
<1>13. ASSUME NEW s \in Node, persistRefreshedGrant(s) PROVE GrantInv'
  <2>0. PICK a : a = source[s].answer
    OBVIOUS
  <2>1. /\ source[s].pc = "answered" /\ a # InvalidGrant /\ UNCHANGED signIn
    BY <1>13, <2>0 DEF persistRefreshedGrant
  <2>2. ASSUME stored' = a, UNCHANGED issuer,
               source' = [source EXCEPT ![s].pc = "release", ![s].answer = NoAnswer,
                                        ![s].envelope = a]
        PROVE GrantInv'
    <3>1. /\ a \in Grant
          /\ a.signIn = source[s].envelope.signIn
          /\ a.origin = source[s].envelope.origin
          /\ a.id = source[s].envelope.id
          /\ a.access <= issuer[a.signIn].access
      BY <2>0, <2>1, <1>c DEF Answered
    <3>2. Known(source[s].envelope) /\ FitsServer(source[s].envelope, source[s].server)
      BY <2>1, <1>c DEF Connection
    <3>3. Known(a) /\ FitsServer(a, source[s].server)
      BY <3>1, <3>2 DEF Known, BoundTo, FitsServer
    <3>4. Known(a)' /\ Known(stored)'
      BY <2>1, <2>2, <3>3 DEF Known, BoundTo
    <3>5. /\ source'[s].pc = "release" /\ source'[s].answer = NoAnswer
          /\ source'[s].envelope = a /\ source'[s].server = source[s].server
      BY <2>2 DEF TypeOK
    <3>6. source[s].server \in ServerConfig
      BY <2>1, <1>c DEF Opened
    <3>7. Connection(s)'
      BY <3>1, <3>3, <3>4, <3>5, <3>6
         DEF Connection, Opened, Answered, Known, BoundTo, FitsServer
    <3>8. \A t \in Node \ {s} : Keeps(t)
      BY <2>2 DEF Keeps, TypeOK
    <3> QED BY <2>1, <2>2, <3>4, <3>7, <3>8, <1>s, OneConnection
  <2>3. ASSUME issuer' = Losing(s), Goto(s, "release"), UNCHANGED stored
        PROVE GrantInv'
    BY <2>1, <2>3, <1>g, <1>l, QuietGrants DEF UnderLease
  <2> QED BY <1>13, <2>0, <2>2, <2>3 DEF persistRefreshedGrant
<1>14. ASSUME NEW f \in SignIn, TokenExpires(f) PROVE GrantInv'
  <2>1. \A e \in SignIn : /\ issuer'[e].state = issuer[e].state
                          /\ issuer'[e].access = issuer[e].access
                          /\ issuer'[e].lost <=> issuer[e].lost
    BY <1>14 DEF TokenExpires, TypeOK
  <2>2. SignInsStay
    BY <1>14, <2>1 DEF SignInsStay, TokenExpires, TypeOK
  <2>3. \A e \in SignIn : SignInChecked(e)'
    BY <1>14, <2>1, SignInsChecked DEF TokenExpires
  <2> QED BY <1>14, <1>q, <2>2, <2>3, QuietGrants DEF TokenExpires
<1>15. ASSUME NEW f \in SignIn, ProcessOAuthCallback(f) PROVE GrantInv'
  <2>1. /\ signIn[f].pc = "exchanged" /\ UNCHANGED issuer
        /\ signIn'[f].pc = "done" /\ signIn'[f].server = signIn[f].server
        /\ \A e \in SignIn \ {f} : signIn'[e] = signIn[e]
    BY <1>15 DEF ProcessOAuthCallback, TypeOK
  <2>2. SignInsStay
    BY <2>1, <1>n DEF SignInsStay
  <2>3. \A e \in SignIn : SignInChecked(e)'
    BY <2>1 DEF GrantInv, SignInChecked
  <2>4. \A s \in Node : Keeps(s)
    BY <1>15, CloseKeeps DEF ProcessOAuthCallback
  <2>5. /\ stored'.signIn = f /\ stored'.access = 1
        /\ stored'.origin = signIn[f].server.origin /\ stored'.id = signIn[f].id
    BY <1>15 DEF ProcessOAuthCallback
  <2>6. Known(stored)'
    BY <2>1, <2>5 DEF Known, BoundTo, GrantInv, SignInChecked
  <2> QED BY <2>2, <2>3, <2>4, <2>6, ConnectionKept DEF GrantInv
<1>16. ASSUME NEW f \in SignIn, NEW n \in Node, initiateOAuthFlow(f, n) PROVE GrantInv'
  <2>1. /\ signIn[f].pc = "none" /\ UNCHANGED <<issuer, source, stored>>
        /\ signIn'[f].pc = "started" /\ signIn'[f].server \in ServerConfig
        /\ \A e \in SignIn \ {f} : signIn'[e] = signIn[e]
    BY <1>16 DEF initiateOAuthFlow, TypeOK
  <2>2. SignInsStay
    BY <2>1, <1>n DEF SignInsStay
  <2>3. \A e \in SignIn : SignInChecked(e)'
    BY <2>1 DEF GrantInv, SignInChecked
  <2> QED BY <1>q, <2>1, <2>2, <2>3, QuietGrants
<1>17. ASSUME NEW f \in SignIn, NEW n \in Node, ProcessCallback(f, n) PROVE GrantInv'
  <2>1. /\ signIn[f].pc = "started" /\ UNCHANGED <<source, stored>>
        /\ issuer[f].access = 0 /\ ~issuer[f].lost /\ signIn[f].server \in ServerConfig
    BY <1>17 DEF ProcessCallback, GrantInv, SignInChecked
  <2>2. CASE SameServer(config[n], signIn[f].server)
    <3>1. PICK refresh \in 0..1 :
            issuer' = [issuer EXCEPT ![f] = [@ EXCEPT !.state = "live", !.access = 1,
                                                      !.refresh = refresh]]
      BY <1>17, <2>2 DEF ProcessCallback
    <3>2. /\ \A e \in SignIn \ {f} : issuer'[e] = issuer[e]
          /\ issuer'[f].access = 1 /\ issuer'[f].state = "live"
          /\ issuer'[f].lost <=> issuer[f].lost
      BY <3>1 DEF TypeOK
    <3>3. /\ signIn'[f].pc = "exchanged" /\ signIn'[f].server = signIn[f].server
          /\ signIn[f].server.id \in {0, signIn'[f].id}
          /\ \A e \in SignIn \ {f} : signIn'[e] = signIn[e]
      BY <1>17, <2>2 DEF ProcessCallback, TypeOK
    <3>4. SignInsStay
      BY <2>1, <3>2, <3>3, <1>n DEF SignInsStay
    <3>5. \A e \in SignIn : SignInChecked(e)'
      BY <2>1, <3>2, <3>3 DEF GrantInv, SignInChecked
    <3> QED BY <1>q, <2>1, <3>4, <3>5, QuietGrants
  <2>3. CASE ~SameServer(config[n], signIn[f].server)
    <3>1. /\ signIn'[f].pc = "done" /\ UNCHANGED issuer
          /\ \A e \in SignIn \ {f} : signIn'[e] = signIn[e]
      BY <1>17, <2>3 DEF ProcessCallback, TypeOK
    <3>2. SignInsStay
      BY <2>1, <3>1, <1>n DEF SignInsStay
    <3>3. \A e \in SignIn : SignInChecked(e)'
      BY <2>1, <3>1 DEF GrantInv, SignInChecked
    <3> QED BY <1>q, <2>1, <3>2, <3>3, QuietGrants
  <2> QED BY <2>2, <2>3
<1>18. ASSUME NEW n \in Node, revokeGrantBeforeDelete(n) PROVE GrantInv'
  <2>1. UNCHANGED <<stored, source, signIn>>
    BY <1>18 DEF revokeGrantBeforeDelete
  <2>2. CASE UNCHANGED issuer
    BY <2>1, <2>2, <1>q, <1>s, QuietGrants
  <2>3. CASE /\ stored # NoGrant
             /\ issuer' = [issuer EXCEPT ![stored.signIn].state =
                             IF @ = "live" THEN "revoked" ELSE @]
    <3>1. PICK f \in SignIn : f = stored.signIn
      BY <2>3, GrantFields DEF TypeOK
    <3>2. signIn[f].pc = "done"
      BY <2>3, <3>1 DEF GrantInv, Known
    <3>3. /\ \A e \in SignIn \ {f} : issuer'[e] = issuer[e]
          /\ \A e \in SignIn : issuer'[e].access = issuer[e].access
      BY <2>3, <3>1 DEF TypeOK
    <3>4. SignInsStay
      BY <2>1, <3>3, <1>n DEF SignInsStay
    <3>5. \A e \in SignIn : SignInChecked(e)'
      BY <2>1, <3>2, <3>3, SignInsChecked
    <3> QED BY <1>q, <2>1, <3>4, <3>5, QuietGrants
  <2> QED BY <1>18, <2>2, <2>3 DEF revokeGrantBeforeDelete
<1>19. ASSUME NEW n \in Node, SaveConfig(n) PROVE GrantInv'
  BY <1>19, <1>s, CloseKeeps, QuietGrants DEF SaveConfig, ReInit
<1>20. ASSUME NEW n \in Node, ConfigUpdate(n) PROVE GrantInv'
  BY <1>20, <1>s, CloseKeeps, QuietGrants DEF ConfigUpdate, ReInit
<1>21. ASSUME NEW n \in Node, Crash(n) PROVE GrantInv'
  <2>1. \A s \in Node : Keeps(s)
    BY <1>21, <1>t DEF Crash, Keeps
  <2>2. /\ UNCHANGED stored
        /\ \A f \in SignIn :
             \/ signIn'[f] = signIn[f]
             \/ signIn'[f].pc = "done" /\ signIn'[f].server = signIn[f].server
    <3>1. \A f \in SignIn : signIn'[f] \in
            {signIn[f], [signIn[f] EXCEPT !.pc = "done", !.node = NoNode, !.id = 0]}
      BY <1>21 DEF Crash
    <3>2. \A f \in SignIn :
            LET r == [signIn[f] EXCEPT !.pc = "done", !.node = NoNode, !.id = 0]
            IN  r.pc = "done" /\ r.server = signIn[f].server
      BY DEF TypeOK
    <3> QED BY <1>21, <3>1, <3>2 DEF Crash
  <2>3. \A f \in SignIn : /\ issuer'[f].access = issuer[f].access
                          /\ issuer'[f].state = issuer[f].state
    BY <1>21, LosingFields DEF Crash
  <2>4. \A f \in SignIn : (issuer'[f].lost <=> issuer[f].lost) \/ signIn[f].pc = "done"
    BY <1>21, LosingDone DEF Crash
  <2>5. SignInsStay
    BY <2>2, <2>3, <1>n DEF SignInsStay
  <2>6. ASSUME NEW f \in SignIn PROVE SignInChecked(f)'
    <3>1. CASE signIn'[f].pc = "done"
      BY <3>1 DEF SignInChecked
    <3>2. CASE signIn'[f].pc # "done" /\ signIn'[f] = signIn[f]
      BY <3>2, <2>3, <2>4 DEF GrantInv, SignInChecked
    <3> QED BY <2>2, <3>1, <3>2
  <2> QED BY <2>1, <2>2, <2>5, <2>6, QuietGrants
<1>22. ASSUME DisconnectUserOAuth PROVE GrantInv'
  BY <1>22, <1>s, CloseKeeps, QuietGrants DEF DisconnectUserOAuth
<1>23. ASSUME ListKeys PROVE GrantInv'
  BY <1>23, <1>q, <1>s, QuietGrants DEF ListKeys
<1>24. ASSUME ClearServerOAuthState PROVE GrantInv'
  BY <1>24, <1>q, <1>s, QuietGrants DEF ClearServerOAuthState
<1>25. ASSUME LeaseExpires PROVE GrantInv'
  BY <1>25, <1>q, <1>s, QuietGrants DEF LeaseExpires
<1> QED
  BY <1>1, <1>2, <1>3, <1>4, <1>5, <1>6, <1>7, <1>8, <1>9, <1>10, <1>11, <1>12, <1>13, <1>14,
     <1>15, <1>16, <1>17, <1>18, <1>19, <1>20, <1>21, <1>22, <1>23, <1>24, <1>25
     DEF Next, Refresh

-----------------------------------------------------------------------------
(* The theorems about the grants                                           *)

LEMMA GrantInvariant == Spec => [](TypeOK /\ GrantInv)
<1>1. Init => GrantInv
  <2> SUFFICES ASSUME Init PROVE GrantInv
    OBVIOUS
  <2>1. \A s \in Node : Connection(s)
    BY DEF Init, Connection, Opened, Answered, Closed
  <2>2. \A f \in SignIn : SignInChecked(f)
    BY DEF Init, SignInChecked
  <2> QED BY <2>1, <2>2 DEF Init, GrantInv
<1>2. TypeOK /\ GrantInv /\ [Next]_vars => (TypeOK /\ GrantInv)'
  BY TypeStep, GrantStep
<1> QED BY InitType, <1>1, <1>2, PTL DEF Spec

\* Every reachable state is well typed; in particular a grant, once bound to
\* a server, is bound to one that was saved, and no sign-in has more access
\* tokens than the authorization server issues (src/mcp/oauth_store.go).
THEOREM TypeCorrect == Spec => []TypeOK
BY GrantInvariant, PTL

\* A connection never holds the grant of a sign-in that was for another
\* server, whatever was saved, swept and stored in between
\* (src/mcp/oauth_store.go, loadGrantForServer).
THEOREM ServerBound == Spec => []OnlyItsServer
<1>1. TypeOK /\ GrantInv => OnlyItsServer
  <2> SUFFICES ASSUME TypeOK, GrantInv, NEW s \in Node, source[s].envelope # NoGrant
               PROVE  LET for == signIn[source[s].envelope.signIn].server
                          to == source[s].server
                      IN  /\ for.origin = to.origin
                          /\ for.id = to.id \/ for.id = 0 \/ to.id = 0
    BY DEF OnlyItsServer
  <2>1. source[s].pc # "closed"
    BY DEF GrantInv, Connection, Opened, Closed
  <2> QED BY <2>1 DEF GrantInv, Connection, Known, BoundTo, FitsServer
<1> QED BY <1>1, GrantInvariant, PTL

\* A grant enters the store by its own callback only; afterwards the entry is
\* only replaced by the same or a later token of the same sign-in
\* (src/mcp/oauth_handler.go, persistingTokenSource).
THEOREM StoreMovesForward == Spec => NeverResurrected
<1> DEFINE Forward ==
      stored' \notin {stored, NoGrant} =>
         \/ stored'.signIn = stored.signIn /\ stored'.access >= stored.access
         \/ \E f \in SignIn : ProcessOAuthCallback(f)
<1>1. TypeOK /\ GrantInv /\ [Next]_vars => Forward
  <2> SUFFICES ASSUME TypeOK, GrantInv, [Next]_vars PROVE Forward
    OBVIOUS
  <2>c. \A s \in Node : Opened(s) /\ Answered(s)
    BY DEF GrantInv, Connection
  <2>l. ASSUME NEW server \in ServerConfig, stored' = AfterLoad(server) PROVE Forward
    <3>1. \/ stored' = stored
          \/ /\ stored'.signIn = stored.signIn /\ stored'.access = stored.access
             /\ stored \in Grant
      BY <2>l, LoadFields
    <3> QED BY <3>1, GrantFields
  <2>a. ASSUME NEW s \in Node, source[s].pc # "closed",
               stored' = AfterLoad(source[s].server)
        PROVE  Forward
    BY <2>a, <2>c, <2>l DEF Opened
  <2>1. ASSUME NEW s \in Node, TokenSource(s) PROVE Forward
    BY <2>1, <2>l DEF TokenSource, TypeOK
  <2>2. ASSUME NEW s \in Node,
               clearGrantOrAdopt(s) \/ waitForConcurrentRefresh(s) \/ ReloadUnderLease(s)
        PROVE Forward
    BY <2>2, <2>a DEF clearGrantOrAdopt, NeedsToken, waitForConcurrentRefresh,
                      ReloadUnderLease, Adopt
  <2>3. ASSUME NEW s \in Node, persistRefreshedGrant(s) PROVE Forward
    <3>1. CASE stored' = stored
      BY <3>1
    <3>2. CASE stored = source[s].envelope /\ stored' = source[s].answer
      <4>1. /\ source[s].answer.signIn = source[s].envelope.signIn
            /\ source[s].answer.access > source[s].envelope.access
            /\ source[s].answer \in Grant /\ source[s].envelope \in Grant
        BY <2>3, <2>c DEF persistRefreshedGrant, Answered, Opened
      <4> QED BY <3>2, <4>1, GrantFields
    <3> QED BY <2>3, <3>1, <3>2 DEF persistRefreshedGrant
  <2>4. ASSUME NEW f \in SignIn, ProcessOAuthCallback(f) PROVE Forward
    BY <2>4
  <2>5. ASSUME stored' \in {stored, NoGrant} PROVE Forward
    BY <2>5
  <2>6. ASSUME NEW s \in Node,
               \/ refreshUnderLease(s) \/ refreshGrant(s) \/ ClearDeadGrant(s)
               \/ releaseRefreshLease(s) \/ RequestFails(s) \/ AnswerLost(s)
               \/ InvalidateUserClients(s)
        PROVE stored' \in {stored, NoGrant}
    BY <2>6 DEF refreshUnderLease, refreshGrant, ClearDeadGrant, releaseRefreshLease,
                RequestFails, AnswerLost, InvalidateUserClients
  <2>7. ASSUME NEW n \in Node,
               \/ revokeGrantBeforeDelete(n) \/ SaveConfig(n) \/ ConfigUpdate(n) \/ Crash(n)
               \/ \E f \in SignIn : initiateOAuthFlow(f, n) \/ ProcessCallback(f, n)
        PROVE stored' \in {stored, NoGrant}
    BY <2>7 DEF revokeGrantBeforeDelete, SaveConfig, ConfigUpdate, Crash,
                initiateOAuthFlow, ProcessCallback
  <2>8. ASSUME \/ DisconnectUserOAuth \/ ListKeys \/ ClearServerOAuthState \/ LeaseExpires
               \/ \E f \in SignIn : TokenExpires(f)
               \/ UNCHANGED vars
        PROVE stored' \in {stored, NoGrant}
    BY <2>8 DEF DisconnectUserOAuth, ListKeys, ClearServerOAuthState, LeaseExpires,
                TokenExpires, vars
  <2> QED BY <2>1, <2>2, <2>3, <2>4, <2>5, <2>6, <2>7, <2>8 DEF Next, Refresh
<1>2. TypeOK /\ GrantInv /\ [Next]_vars => [Forward]_vars
  BY <1>1
<1> QED BY <1>2, GrantInvariant, PTL DEF Spec, NeverResurrected

-----------------------------------------------------------------------------
(* The inductive invariant of the refresh tokens: a lease never expires    *)
(* under its holder, and reads succeed.                                    *)

LeaseHeld == \A s \in Node : source[s].pc \in UnderLease => lease = s

\* Of one sign-in, a connection's grant has the stored one's server.
StoredIsBound ==
    \A s \in Node : source[s].pc # "closed" /\ stored.signIn = source[s].envelope.signIn =>
        source[s].envelope.id \in {0, stored.id}

\* What is sent is what is stored, as long as it stems from one sign-in.
SentIsStored ==
    \A s \in Node :
        source[s].pc \in {"send", "answered"} /\ stored.signIn = source[s].envelope.signIn =>
            stored.refresh = source[s].envelope.refresh

InFlight(f) == \E s \in Node : source[s].pc = "answered" /\ source[s].answer.signIn = f

\* The stored refresh token is the one the authorization server expects, or
\* the answer with that one is on its way.
StoredIsCurrent ==
    stored # NoGrant /\ ~issuer[stored.signIn].lost =>
        stored.refresh = issuer[stored.signIn].refresh \/ InFlight(stored.signIn)

AnswerIsCurrent ==
    \A s \in Node : source[s].pc = "answered" /\ source[s].answer # InvalidGrant =>
        source[s].answer.refresh = issuer[source[s].answer.signIn].refresh

ReplayInv == /\ LeaseHeld /\ StoredIsBound /\ SentIsStored /\ StoredIsCurrent
             /\ AnswerIsCurrent /\ NoReplay

-----------------------------------------------------------------------------
(* Every step keeps the invariant of the refresh tokens                    *)

\* Only one connection at a time is under the lease.
LEMMA OneUnderLease ==
    ASSUME LeaseHeld, NEW s \in Node, NEW t \in Node,
           source[s].pc \in UnderLease, source[t].pc \in UnderLease
    PROVE  s = t
BY DEF LeaseHeld

LEMMA LeaseStep ==
    ASSUME MaxStalls = 0, TypeOK, TypeOK', GrantInv, LeaseHeld, [Next]_vars
    PROVE  LeaseHeld'
<1>n. NoNode \notin Node
  BY BoundsAssumption
<1>t. source \in [Node -> SourceRecord]
  BY DEF TypeOK, SourceRecord
<1>q. ASSUME UNCHANGED lease,
             \A s \in Node : source'[s].pc \in UnderLease => source[s].pc \in UnderLease
      PROVE  LeaseHeld'
  BY <1>q DEF LeaseHeld
<1>u. UNCHANGED <<lease, source>> => LeaseHeld'
  BY DEF LeaseHeld
<1>e. Closed.pc = "closed"
  BY DEF Closed
<1>c. ASSUME NEW S, source' = Close(S), UNCHANGED lease PROVE LeaseHeld'
  <2>1. \A s \in Node : source'[s].pc \in UnderLease => source[s].pc \in UnderLease
    <3> SUFFICES ASSUME NEW s \in Node,
                        source'[s] = [source[s] EXCEPT !.closing = TRUE]
                 PROVE  source'[s].pc = source[s].pc
      BY <1>c, <1>e, CloseFields DEF UnderLease
    <3> QED BY DEF TypeOK
  <2> QED BY <1>c, <2>1, <1>q
<1>g. ASSUME NEW s \in Node, NEW label \in UnderLease \cup {"idle", "wait"}, Goto(s, label),
             UNCHANGED lease, label \in UnderLease => source[s].pc \in UnderLease
      PROVE  LeaseHeld'
  <2>1. source'[s].pc = label /\ \A t \in Node \ {s} : source'[t] = source[t]
    BY <1>g, GotoFields
  <2> QED BY <1>g, <1>q, <2>1
<1>r. ASSUME NEW s \in Node, Return(s), UNCHANGED lease PROVE LeaseHeld'
  BY <1>r, <1>q, <1>e, ReturnFields DEF UnderLease
<1>a. ASSUME NEW s \in Node, source[s].pc # "closed",
             NEW valid \in {"idle", "release"}, NEW label \in {"idle", "wait", "send"},
             Adopt(s, valid, label), UNCHANGED lease,
             {valid, label} \cap UnderLease = {} \/ source[s].pc \in UnderLease
      PROVE  LeaseHeld'
  <2>1. Opened(s)
    BY DEF GrantInv, Connection
  <2>2. /\ \A t \in Node \ {s} : source'[t] = source[t]
        /\ source'[s] = Closed \/ source'[s].pc \in {valid, label}
    BY <1>a, <2>1, AdoptFields
  <2>3. \A t \in Node : source'[t].pc \in UnderLease => source[t].pc \in UnderLease
    BY <1>a, <1>e, <2>2 DEF UnderLease
  <2> QED BY <1>a, <1>q, <2>3
<1>1. ASSUME NEW s \in Node, TokenSource(s) PROVE LeaseHeld'
  <2>1. source'[s].pc = "idle" /\ \A t \in Node \ {s} : source'[t] = source[t]
    BY <1>1 DEF TokenSource, TypeOK, Closed
  <2> QED BY <1>1, <1>q, <2>1 DEF TokenSource, UnderLease
<1>2. ASSUME NEW s \in Node, clearGrantOrAdopt(s) PROVE LeaseHeld'
  BY <1>2, <1>a, <1>u DEF clearGrantOrAdopt, NeedsToken, UnderLease
<1>3. ASSUME NEW s \in Node, refreshUnderLease(s) PROVE LeaseHeld'
  <2>1. CASE lease = NoNode /\ lease' = s /\ Goto(s, "reload")
    <3>1. \A t \in Node : source[t].pc \notin UnderLease
      BY <2>1, <1>n DEF LeaseHeld
    <3>2. \A t \in Node \ {s} : source'[t] = source[t]
      BY <2>1, GotoFields DEF UnderLease
    <3> QED BY <2>1, <3>1, <3>2 DEF LeaseHeld
  <2>2. CASE Goto(s, "wait") /\ UNCHANGED lease
    BY <2>2, <1>g DEF UnderLease
  <2> QED BY <1>3, <2>1, <2>2 DEF refreshUnderLease
<1>4. ASSUME NEW s \in Node, waitForConcurrentRefresh(s) PROVE LeaseHeld'
  BY <1>4, <1>a, <1>r DEF waitForConcurrentRefresh, UnderLease
<1>5. ASSUME NEW s \in Node, ReloadUnderLease(s) PROVE LeaseHeld'
  BY <1>5, <1>a, <1>g DEF ReloadUnderLease, UnderLease
<1>6. ASSUME NEW s \in Node, refreshGrant(s) PROVE LeaseHeld'
  <2>1. /\ source[s].pc = "send" /\ UNCHANGED lease
        /\ \A t \in Node \ {s} : source'[t].pc = source[t].pc
    BY <1>6 DEF refreshGrant, Goto, TypeOK
  <2> QED BY <1>q, <2>1 DEF UnderLease
<1>7. ASSUME NEW s \in Node, persistRefreshedGrant(s) PROVE LeaseHeld'
  <2>1. /\ source[s].pc = "answered" /\ UNCHANGED lease
        /\ \A t \in Node \ {s} : source'[t].pc = source[t].pc
    BY <1>7 DEF persistRefreshedGrant, Goto, TypeOK
  <2> QED BY <1>q, <2>1 DEF UnderLease
<1>8. ASSUME NEW s \in Node, ClearDeadGrant(s) \/ RequestFails(s) \/ AnswerLost(s)
      PROVE LeaseHeld'
  BY <1>8, <1>g DEF ClearDeadGrant, RequestFails, AnswerLost, UnderLease
<1>9. ASSUME NEW s \in Node, releaseRefreshLease(s) PROVE LeaseHeld'
  <2>1. /\ source[s].pc = "release" /\ source'[s].pc \notin UnderLease
        /\ \A t \in Node \ {s} : source'[t] = source[t]
    BY <1>9, <1>e, ReturnFields DEF releaseRefreshLease, UnderLease
  <2>2. \A t \in Node \ {s} : source[t].pc \notin UnderLease
    BY <2>1, OneUnderLease DEF UnderLease
  <2> QED BY <2>1, <2>2 DEF LeaseHeld
<1>10. ASSUME LeaseExpires PROVE LeaseHeld'
  <2>1. lease \in Node /\ source[lease].pc \notin UnderLease /\ UNCHANGED source
    BY <1>10, BoundsAssumption DEF LeaseExpires, TypeOK
  <2> QED BY <2>1 DEF LeaseHeld
<1>11. ASSUME NEW n \in Node, SaveConfig(n) \/ ConfigUpdate(n) \/ InvalidateUserClients(n)
       PROVE LeaseHeld'
  BY <1>11, <1>c DEF SaveConfig, ConfigUpdate, InvalidateUserClients, ReInit
<1>12. ASSUME NEW n \in Node, Crash(n) PROVE LeaseHeld'
  <2>1. source'[n] = Closed /\ \A t \in Node \ {n} : source'[t] = source[t]
    BY <1>12, <1>t DEF Crash
  <2> QED BY <1>12, <1>e, <1>q, <2>1 DEF Crash, UnderLease
<1>13. ASSUME \/ DisconnectUserOAuth
              \/ \E f \in SignIn : ProcessOAuthCallback(f)
       PROVE LeaseHeld'
  BY <1>13, <1>c DEF DisconnectUserOAuth, ProcessOAuthCallback
<1>14. ASSUME \/ ListKeys \/ ClearServerOAuthState \/ UNCHANGED vars
              \/ \E f \in SignIn : TokenExpires(f)
              \/ \E f \in SignIn, n \in Node : initiateOAuthFlow(f, n) \/ ProcessCallback(f, n)
              \/ \E n \in Node : revokeGrantBeforeDelete(n)
       PROVE LeaseHeld'
  BY <1>14, <1>u DEF ListKeys, ClearServerOAuthState, vars, TokenExpires,
     initiateOAuthFlow, ProcessCallback, revokeGrantBeforeDelete
<1> QED
  BY <1>1, <1>2, <1>3, <1>4, <1>5, <1>6, <1>7, <1>8, <1>9, <1>10, <1>11, <1>12, <1>13, <1>14
     DEF Next, Refresh

\* A connection keeps its grant and starts no request; an answer it had, it
\* still has, or the authorization server's record says that it was lost.
Rests(s) ==
    /\ \/ source'[s] = Closed
       \/ source'[s] = source[s]
       \/ /\ source[s].pc # "closed" /\ source'[s].envelope = source[s].envelope
          /\ source'[s].pc \in {"send", "answered"} => source[s].pc \in {"send", "answered"}
          /\ source'[s].pc = "answered" =>
               source[s].pc = "answered" /\ source'[s].answer = source[s].answer
    /\ source[s].pc = "answered" /\ source[s].answer # InvalidGrant =>
         \/ source'[s].pc = "answered" /\ source'[s].answer = source[s].answer
         \/ issuer'[source[s].answer.signIn].lost

\* The authorization server exchanges nothing and sees no used token.
IssuerRests ==
    \A f \in SignIn : /\ issuer'[f].refresh = issuer[f].refresh
                      /\ issuer'[f].state = "replayed" => issuer[f].state = "replayed"
                      /\ issuer[f].lost => issuer'[f].lost

\* What the stored grant and an open connection's grant have in common.
LEMMA SignInsOfGrants ==
    ASSUME TypeOK, GrantInv
    PROVE  /\ stored # NoGrant => stored \in Grant /\ stored.signIn \in SignIn
           /\ \A s \in Node : source[s].pc # "closed" =>
                /\ source[s].envelope \in Grant /\ source[s].envelope.signIn \in SignIn
                /\ signIn[source[s].envelope.signIn].pc = "done"
           /\ \A s \in Node : source[s].pc = "answered" /\ source[s].answer # InvalidGrant =>
                /\ source[s].answer \in Grant /\ source[s].answer.signIn \in SignIn
                /\ signIn[source[s].answer.signIn].pc = "done"
           /\ Closed.pc = "closed" /\ NoGrant.signIn \notin SignIn
<1>1. \A s \in Node : source[s].pc # "closed" =>
                /\ source[s].envelope \in Grant /\ source[s].envelope.signIn \in SignIn
                /\ signIn[source[s].envelope.signIn].pc = "done"
  BY GrantFields DEF GrantInv, Connection, Opened, Known
<1>2. \A s \in Node : source[s].pc = "answered" /\ source[s].answer # InvalidGrant =>
                /\ source[s].answer \in Grant /\ source[s].answer.signIn \in SignIn
                /\ signIn[source[s].answer.signIn].pc = "done"
  BY <1>1, GrantFields DEF GrantInv, Connection, Answered
<1>3. Closed.pc = "closed"
  BY DEF Closed
<1>4. NoGrant.signIn \notin SignIn
  BY GrantFields, BoundsAssumption DEF SignIn
<1> QED BY <1>1, <1>2, <1>3, <1>4, GrantFields DEF TypeOK

LEMMA SignInsOfNext ==
    ASSUME TypeOK', GrantInv'
    PROVE  \A s \in Node : source'[s].pc # "closed" =>
                source'[s].envelope \in Grant /\ source'[s].envelope.signIn \in SignIn
<1>1. \A s \in Node : source'[s].pc # "closed" => source'[s].envelope \in Grant
  BY DEF GrantInv, Connection, Opened
<1> QED BY <1>1 DEF Grant

LEMMA QuietReplay ==
    ASSUME TypeOK, TypeOK', GrantInv, GrantInv', ReplayInv, LeaseHeld', IssuerRests,
           \A s \in Node : Rests(s), stored' \in {stored, NoGrant}
    PROVE  ReplayInv'
<1> USE DEF ReplayInv
<1>s. /\ stored # NoGrant => stored \in Grant /\ stored.signIn \in SignIn
      /\ Closed.pc = "closed" /\ NoGrant.signIn \notin SignIn
      /\ \A s \in Node : source'[s].pc # "closed" => source'[s].envelope.signIn \in SignIn
  BY SignInsOfGrants, SignInsOfNext
<1>1. StoredIsBound'
  BY <1>s DEF StoredIsBound, Rests
<1>2. SentIsStored'
  BY <1>s DEF SentIsStored, Rests
<1>3. AnswerIsCurrent'
  <2> SUFFICES ASSUME NEW s \in Node, source'[s].pc = "answered", source'[s].answer # InvalidGrant
               PROVE  source'[s].answer.refresh = issuer'[source'[s].answer.signIn].refresh
    BY DEF AnswerIsCurrent
  <2>1. source[s].pc = "answered" /\ source'[s].answer = source[s].answer
    BY <1>s DEF Rests
  <2>2. source[s].answer.signIn \in SignIn
    BY <2>1, SignInsOfGrants
  <2> QED BY <2>1, <2>2 DEF AnswerIsCurrent, IssuerRests
<1>4. StoredIsCurrent'
  <2> SUFFICES ASSUME stored' = stored, stored # NoGrant, ~issuer'[stored.signIn].lost,
                      stored.refresh # issuer'[stored.signIn].refresh
               PROVE  InFlight(stored.signIn)'
    BY DEF StoredIsCurrent
  <2>1. ~issuer[stored.signIn].lost /\ stored.refresh # issuer[stored.signIn].refresh
    BY <1>s DEF IssuerRests
  <2>2. PICK s \in Node : source[s].pc = "answered" /\ source[s].answer.signIn = stored.signIn
    BY <2>1 DEF StoredIsCurrent, InFlight
  <2>3. source[s].answer # InvalidGrant
    BY <1>s, <2>2, GrantFields, BoundsAssumption DEF SignIn
  <2>4. source'[s].pc = "answered" /\ source'[s].answer = source[s].answer
    BY <2>2, <2>3 DEF Rests
  <2> QED BY <2>2, <2>4 DEF InFlight
<1>5. NoReplay'
  BY <1>s DEF NoReplay, IssuerRests
<1> QED BY <1>1, <1>2, <1>3, <1>4, <1>5

\* Steps in which one connection loads the grant for its server.
LEMMA LoadReplay ==
    ASSUME TypeOK, TypeOK', GrantInv, GrantInv', ReplayInv, LeaseHeld', UNCHANGED issuer,
           NEW s \in Node, NEW server \in ServerConfig, stored' = AfterLoad(server),
           source[s].pc # "answered", \A t \in Node \ {s} : source'[t] = source[t],
           \/ source'[s] = Closed
           \/ /\ source'[s].pc # "answered"
              /\ loadGrantForServer(server) # NoGrant
              /\ source'[s].envelope = loadGrantForServer(server)
           \/ /\ source[s].pc # "closed" /\ source'[s].pc # "answered"
              /\ loadGrantForServer(server) = NoGrant
              /\ source[s].server = server
              /\ source'[s].envelope = source[s].envelope
    PROVE  ReplayInv'
<1> USE DEF ReplayInv
<1> DEFINE g == loadGrantForServer(server)
<1>s. /\ stored # NoGrant => stored \in Grant /\ stored.signIn \in SignIn
      /\ Closed.pc = "closed" /\ NoGrant.signIn \notin SignIn
      /\ \A t \in Node : source'[t].pc # "closed" => source'[t].envelope.signIn \in SignIn
  BY SignInsOfGrants, SignInsOfNext
<1>1. g = NoGrant => stored' = stored
  BY LoadFields, GrantFields
<1>2. g # NoGrant => /\ stored' = g /\ stored # NoGrant
                     /\ g.signIn = stored.signIn /\ g.refresh = stored.refresh
                     /\ stored.id \in {0, g.id}
  BY LoadFields, GrantFields
<1>3. stored' # NoGrant =>
        /\ stored # NoGrant /\ stored'.signIn = stored.signIn
        /\ stored'.refresh = stored.refresh /\ stored.id \in {0, stored'.id}
  BY <1>1, <1>2
<1>4. StoredIsBound'
  <2> SUFFICES ASSUME NEW t \in Node, source'[t].pc # "closed",
                      stored'.signIn = source'[t].envelope.signIn
               PROVE  source'[t].envelope.id \in {0, stored'.id}
    BY DEF StoredIsBound
  <2>1. stored' # NoGrant
    BY <1>s
  <2>2. CASE t # s
    BY <2>1, <2>2, <1>3 DEF StoredIsBound
  <2>3. CASE t = s /\ g # NoGrant
    BY <2>3, <1>s, <1>2
  <2>4. CASE t = s /\ g = NoGrant
    BY <2>1, <2>4, <1>s, <1>3 DEF StoredIsBound
  <2> QED BY <2>2, <2>3, <2>4
<1>5. SentIsStored'
  <2> SUFFICES ASSUME NEW t \in Node, source'[t].pc \in {"send", "answered"},
                      stored'.signIn = source'[t].envelope.signIn
               PROVE  stored'.refresh = source'[t].envelope.refresh
    BY DEF SentIsStored
  <2>1. stored' # NoGrant /\ source'[t].pc # "closed"
    BY <1>s
  <2>2. CASE t # s
    BY <2>1, <2>2, <1>3 DEF SentIsStored
  <2>3. CASE t = s /\ g # NoGrant
    BY <2>3, <1>s, <1>2
  <2>4. CASE t = s /\ g = NoGrant
    <3>1. /\ source[s].pc # "closed" /\ source[s].server = server
          /\ stored.signIn = source[s].envelope.signIn
          /\ stored # NoGrant /\ stored \in Grant
      BY <2>1, <2>4, <1>s, <1>3
    <3>2. source[s].envelope.id \in {0, stored.id}
      BY <3>1 DEF StoredIsBound
    <3>3. /\ source[s].envelope.origin = server.origin
          /\ server.id \in {0, source[s].envelope.id}
      BY <3>1 DEF GrantInv, Connection, FitsServer
    <3>4. stored.origin = source[s].envelope.origin
      BY <3>1 DEF GrantInv, Connection, Known, BoundTo
    <3>5. IssuedFor(stored, server)
      BY <3>1, <3>2, <3>3, <3>4 DEF IssuedFor, originChanged
    <3>6. g = Bind(stored, server) /\ g \in Grant
      BY <3>1, <3>5, BindFields DEF loadGrantForServer
    <3> QED BY <2>4, <3>6, GrantFields
  <2> QED BY <2>2, <2>3, <2>4
<1>6. \A t \in Node : source'[t].pc = "answered" \/ source[t].pc = "answered" =>
                        source'[t] = source[t]
  BY <1>s
<1>7. AnswerIsCurrent'
  BY <1>6 DEF AnswerIsCurrent
<1>8. StoredIsCurrent'
  <2> SUFFICES ASSUME stored' # NoGrant, ~issuer[stored.signIn].lost,
                      stored.refresh # issuer[stored.signIn].refresh
               PROVE  InFlight(stored.signIn)'
    BY <1>3 DEF StoredIsCurrent, InFlight
  <2>1. InFlight(stored.signIn)
    BY <1>3 DEF StoredIsCurrent
  <2> QED BY <1>3, <1>6, <2>1 DEF InFlight
<1>9. NoReplay'
  BY <1>3 DEF NoReplay
<1> QED BY <1>4, <1>5, <1>7, <1>8, <1>9

\* Closing connections loses no answer.
LEMMA CloseRests ==
    ASSUME TypeOK, NEW S, source' = Close(S)
    PROVE  \A s \in Node : Rests(s)
<1> SUFFICES ASSUME NEW s \in Node PROVE Rests(s)
  OBVIOUS
<1>1. CASE source'[s] = source[s]
  BY <1>1 DEF Rests
<1>2. CASE source'[s] = Closed
  <2>1. source[s] = Closed \/ source[s].pc \in {"idle", "closed"}
    BY <1>2 DEF Close, Closed, TypeOK
  <2>2. source[s].pc # "answered"
    BY <2>1 DEF Closed
  <2> QED BY <1>2, <2>2 DEF Rests
<1>3. CASE source[s].pc # "closed" /\ source'[s] = [source[s] EXCEPT !.closing = TRUE]
  <2>1. /\ source'[s].pc = source[s].pc
        /\ source'[s].envelope = source[s].envelope
        /\ source'[s].answer = source[s].answer
    BY <1>3 DEF TypeOK
  <2> QED BY <1>3, <2>1 DEF Rests
<1> QED BY <1>1, <1>2, <1>3, CloseFields

LEMMA ReplayStep ==
    ASSUME MaxStalls = 0, ReadsFail = FALSE,
           TypeOK, TypeOK', GrantInv, GrantInv', ReplayInv, LeaseHeld', [Next]_vars
    PROVE  ReplayInv'
<1>c. \A s \in Node : Opened(s) /\ Answered(s)
  BY DEF GrantInv, Connection
<1>t. source \in [Node -> SourceRecord]
  BY DEF TypeOK, SourceRecord
<1>q. UNCHANGED source => \A s \in Node : Rests(s)
  BY DEF Rests
<1>s. UNCHANGED issuer => IssuerRests
  BY DEF IssuerRests
<1>g. ASSUME NEW s \in Node, NEW label \in {"reload", "wait", "release"}, Goto(s, label),
             source[s].pc # "closed",
             source[s].pc = "answered" /\ source[s].answer # InvalidGrant =>
               issuer'[source[s].answer.signIn].lost
      PROVE  \A t \in Node : Rests(t)
  <2>1. /\ source'[s].pc = label /\ source'[s].envelope = source[s].envelope
        /\ \A t \in Node \ {s} : source'[t] = source[t]
    BY <1>g, GotoFields DEF UnderLease
  <2> QED BY <1>g, <2>1 DEF Rests
<1>r. ASSUME NEW s \in Node, Return(s), source[s].pc \notin {"closed", "answered"}
      PROVE  \A t \in Node : Rests(t)
  BY <1>r, ReturnFields DEF Rests
<1>l. ASSUME NEW s \in Node, issuer' = Losing(s)
      PROVE  /\ IssuerRests
             /\ source[s].pc = "answered" /\ source[s].answer # InvalidGrant =>
                  issuer'[source[s].answer.signIn].lost
  BY <1>l, LosingFields, SignInsOfGrants DEF IssuerRests
<1>a. ASSUME NEW s \in Node, source[s].pc \in {"idle", "wait", "reload"},
             NEW valid \in {"idle", "release"}, NEW label \in {"idle", "wait", "send"},
             Adopt(s, valid, label), UNCHANGED issuer
      PROVE  ReplayInv'
  <2>1. source[s].pc # "closed" /\ source[s].pc # "answered"
        /\ source[s].server \in ServerConfig
    BY <1>a, <1>c DEF Opened
  <2>2. /\ stored' = AfterLoad(source[s].server)
        /\ \A t \in Node \ {s} : source'[t] = source[t]
    BY <1>a, <1>c, <2>1, AdoptFields
  <2>3. \/ source'[s] = Closed
        \/ /\ source'[s].pc # "answered"
           /\ source'[s].envelope = IF loadGrantForServer(source[s].server) = NoGrant
                                    THEN source[s].envelope
                                    ELSE loadGrantForServer(source[s].server)
    BY <1>a, <1>c, <2>1, AdoptFields
  <2> QED BY <1>a, <2>1, <2>2, <2>3, LoadReplay
<1>1. ASSUME UNCHANGED vars PROVE ReplayInv'
  BY <1>1, <1>q, <1>s, QuietReplay DEF vars
<1>2. ASSUME NEW s \in Node, TokenSource(s) PROVE ReplayInv'
  <2>1. config[s] \in ServerConfig /\ source[s].pc # "answered"
    BY <1>2 DEF TokenSource, TypeOK
  <2>2. source'[s] = [Closed EXCEPT !.pc = "idle", !.server = config[s],
                                    !.envelope = loadGrantForServer(config[s])]
    BY <1>2 DEF TokenSource, TypeOK
  <2>3. /\ source'[s].pc = "idle" /\ source'[s].envelope = loadGrantForServer(config[s])
    BY <2>2 DEF Closed
  <2>4. \A t \in Node \ {s} : source'[t] = source[t]
    BY <1>2 DEF TokenSource, TypeOK
  <2> QED BY <1>2, <2>1, <2>3, <2>4, LoadReplay DEF TokenSource
<1>3. ASSUME NEW s \in Node, clearGrantOrAdopt(s) PROVE ReplayInv'
  <2>1. source[s].pc = "idle" /\ UNCHANGED issuer
    BY <1>3 DEF clearGrantOrAdopt, NeedsToken
  <2>2. CASE stored' = NoGrant /\ UNCHANGED source
    BY <2>1, <2>2, <1>q, <1>s, QuietReplay
  <2>3. CASE Adopt(s, "idle", "idle")
    BY <2>1, <2>3, <1>a
  <2> QED BY <1>3, <2>2, <2>3 DEF clearGrantOrAdopt
<1>4. ASSUME NEW s \in Node, refreshUnderLease(s) PROVE ReplayInv'
  <2>1. source[s].pc = "idle" /\ UNCHANGED <<stored, issuer>>
        /\ (Goto(s, "reload") \/ Goto(s, "wait"))
    BY <1>4 DEF refreshUnderLease, NeedsToken
  <2> QED BY <2>1, <1>g, <1>s, QuietReplay
<1>5. ASSUME NEW s \in Node, waitForConcurrentRefresh(s) PROVE ReplayInv'
  <2>1. source[s].pc = "wait" /\ UNCHANGED issuer
    BY <1>5 DEF waitForConcurrentRefresh
  <2>2. CASE Adopt(s, "idle", "wait")
    BY <2>1, <2>2, <1>a
  <2>3. CASE Return(s) /\ UNCHANGED stored
    BY <2>1, <2>3, <1>r, <1>s, QuietReplay
  <2> QED BY <1>5, <2>2, <2>3 DEF waitForConcurrentRefresh
<1>6. ASSUME NEW s \in Node, ReloadUnderLease(s) PROVE ReplayInv'
  BY <1>6, <1>a DEF ReloadUnderLease
<1>7. ASSUME NEW s \in Node, releaseRefreshLease(s) PROVE ReplayInv'
  BY <1>7, <1>r, <1>s, QuietReplay DEF releaseRefreshLease
<1>8. ASSUME NEW s \in Node, RequestFails(s) PROVE ReplayInv'
  BY <1>8, <1>g, <1>s, QuietReplay DEF RequestFails
<1>9. ASSUME NEW s \in Node, AnswerLost(s) PROVE ReplayInv'
  BY <1>9, <1>g, <1>l, QuietReplay DEF AnswerLost
<1>10. ASSUME NEW s \in Node, InvalidateUserClients(s) PROVE ReplayInv'
  BY <1>10, <1>s, CloseRests, QuietReplay DEF InvalidateUserClients
<1>11. ASSUME NEW s \in Node, ClearDeadGrant(s) PROVE ReplayInv'
  BY <1>11, <1>g, <1>s, QuietReplay DEF ClearDeadGrant
<1>14. ASSUME NEW f \in SignIn, TokenExpires(f) PROVE ReplayInv'
  <2>1. IssuerRests
    BY <1>14 DEF TokenExpires, IssuerRests, TypeOK
  <2> QED BY <1>14, <1>q, <2>1, QuietReplay DEF TokenExpires
<1>16. ASSUME NEW f \in SignIn, NEW n \in Node, initiateOAuthFlow(f, n) PROVE ReplayInv'
  BY <1>16, <1>q, <1>s, QuietReplay DEF initiateOAuthFlow
<1>18. ASSUME NEW n \in Node, revokeGrantBeforeDelete(n) PROVE ReplayInv'
  <2>1. UNCHANGED <<stored, source>>
    BY <1>18 DEF revokeGrantBeforeDelete
  <2>2. CASE UNCHANGED issuer
    BY <2>1, <2>2, <1>q, <1>s, QuietReplay
  <2>3. CASE /\ stored # NoGrant
             /\ issuer' = [issuer EXCEPT ![stored.signIn].state =
                             IF @ = "live" THEN "revoked" ELSE @]
    <3>1. PICK f \in SignIn : f = stored.signIn
      BY <2>3, SignInsOfGrants
    <3>2. IssuerRests
      BY <2>3, <3>1 DEF IssuerRests, TypeOK
    <3> QED BY <1>q, <2>1, <3>2, QuietReplay
  <2> QED BY <1>18, <2>2, <2>3 DEF revokeGrantBeforeDelete
<1>19. ASSUME NEW n \in Node, SaveConfig(n) \/ ConfigUpdate(n) PROVE ReplayInv'
  BY <1>19, <1>s, CloseRests, QuietReplay DEF SaveConfig, ConfigUpdate, ReInit
<1>21. ASSUME NEW n \in Node, Crash(n) PROVE ReplayInv'
  <2>1. /\ issuer' = Losing(n) /\ UNCHANGED stored
        /\ source'[n] = Closed /\ \A s \in Node \ {n} : source'[s] = source[s]
    BY <1>21, <1>t DEF Crash
  <2>2. \A s \in Node : Rests(s)
    BY <2>1, <1>l DEF Rests
  <2> QED BY <2>1, <2>2, <1>l, QuietReplay
<1>22. ASSUME DisconnectUserOAuth PROVE ReplayInv'
  BY <1>22, <1>s, CloseRests, QuietReplay DEF DisconnectUserOAuth
<1>23. ASSUME ListKeys \/ ClearServerOAuthState \/ LeaseExpires PROVE ReplayInv'
  BY <1>23, <1>q, <1>s, QuietReplay DEF ListKeys, ClearServerOAuthState, LeaseExpires
<1>12. ASSUME NEW s \in Node, refreshGrant(s) PROVE ReplayInv'
  <2>0. PICK g : g = source[s].envelope
    OBVIOUS
  <2>1. /\ source[s].pc = "send" /\ g \in Grant /\ UNCHANGED stored
        /\ \A t \in Node \ {s} : source[t].pc # "answered"
    BY <1>12, <1>c, <2>0, OneUnderLease DEF refreshGrant, Opened, ReplayInv, UnderLease
  <2>2. PICK f \in SignIn : f = g.signIn
    BY <2>1, GrantFields
  <2>f. \A h : ~InFlight(h)
    BY <2>1 DEF InFlight
  <2>s. stored # NoGrant => stored \in Grant /\ stored.signIn \in SignIn
    BY SignInsOfGrants
  <2>i. stored.signIn = f => stored.refresh = g.refresh /\ stored # NoGrant
    BY <2>0, <2>1, <2>2, SignInsOfGrants DEF ReplayInv, SentIsStored
  <2>3. ASSUME \A t \in Node \ {s} : source'[t] = source[t],
               source'[s].pc = "answered", source'[s].envelope = g,
               \A e \in SignIn \ {f} : issuer'[e] = issuer[e],
               issuer[f].lost => issuer'[f].lost,
               \/ /\ source'[s].answer.signIn = f
                  /\ source'[s].answer.refresh = issuer'[f].refresh
                  /\ issuer'[f].state = issuer[f].state
               \/ /\ source'[s].answer = InvalidGrant
                  /\ issuer'[f].refresh = issuer[f].refresh
                  /\ issuer'[f].state = "replayed" =>
                       issuer[f].state = "replayed" \/ g.refresh # issuer[f].refresh
        PROVE ReplayInv'
    <3>1. StoredIsBound'
      BY <2>0, <2>1, <2>3 DEF ReplayInv, StoredIsBound
    <3>2. SentIsStored'
      BY <2>0, <2>1, <2>3 DEF ReplayInv, SentIsStored
    <3>3. AnswerIsCurrent'
      BY <2>1, <2>3 DEF AnswerIsCurrent
    <3>4. StoredIsCurrent'
      <4> SUFFICES ASSUME stored # NoGrant, ~issuer'[stored.signIn].lost,
                          stored.refresh # issuer'[stored.signIn].refresh
                   PROVE  InFlight(stored.signIn)'
        BY <2>1 DEF StoredIsCurrent, InFlight
      <4>1. stored.signIn = f
        BY <2>3, <2>f, <2>s DEF ReplayInv, StoredIsCurrent
      <4>2. stored.refresh = issuer[f].refresh
        BY <2>3, <2>f, <4>1 DEF ReplayInv, StoredIsCurrent
      <4>3. source'[s].answer.signIn = f
        BY <2>3, <4>1, <4>2
      <4> QED BY <2>1, <2>3, <4>1, <4>3 DEF InFlight
    <3>5. NoReplay'
      <4> SUFFICES ASSUME stored # NoGrant, issuer'[stored.signIn].state = "replayed",
                          ~issuer'[stored.signIn].lost
                   PROVE  FALSE
        BY <2>1 DEF NoReplay
      <4>1. stored.signIn = f /\ issuer[f].state # "replayed" /\ ~issuer[f].lost
        BY <2>3, <2>s DEF ReplayInv, NoReplay
      <4>2. g.refresh # issuer[f].refresh
        BY <2>3, <4>1
      <4> QED BY <2>f, <2>i, <4>1, <4>2 DEF ReplayInv, StoredIsCurrent
    <3> QED BY <3>1, <3>2, <3>3, <3>4, <3>5 DEF ReplayInv
  <2>4. ASSUME Exchange(f, g.refresh),
               source' = [source EXCEPT ![s].pc = "answered",
                  ![s].answer = [g EXCEPT !.access = issuer'[f].access,
                                          !.refresh = issuer'[f].refresh]]
        PROVE ReplayInv'
    <3>1. /\ \A e \in SignIn \ {f} : issuer'[e] = issuer[e]
          /\ issuer'[f].state = issuer[f].state
          /\ issuer[f].lost => issuer'[f].lost
      BY <2>4, ExchangeFields
    <3>2. /\ \A t \in Node \ {s} : source'[t] = source[t]
          /\ source'[s].pc = "answered" /\ source'[s].envelope = g
          /\ source'[s].answer = [g EXCEPT !.access = issuer'[f].access,
                                           !.refresh = issuer'[f].refresh]
      BY <2>0, <2>4 DEF TypeOK
    <3>3. /\ source'[s].answer.signIn = f
          /\ source'[s].answer.refresh = issuer'[f].refresh
      BY <2>1, <2>2, <3>2 DEF Grant
    <3> QED BY <2>3, <3>1, <3>2, <3>3
  <2>5. ASSUME Reject(f, g.refresh),
               source' = [source EXCEPT ![s].pc = "answered", ![s].answer = InvalidGrant]
        PROVE ReplayInv'
    <3>1. /\ \A e \in SignIn \ {f} : issuer'[e] = issuer[e]
          /\ issuer'[f].refresh = issuer[f].refresh
          /\ issuer[f].lost => issuer'[f].lost
          /\ issuer'[f].state = "replayed" =>
               issuer[f].state = "replayed" \/ g.refresh # issuer[f].refresh
      BY <2>5 DEF Reject, Honours, TypeOK
    <3>2. /\ \A t \in Node \ {s} : source'[t] = source[t]
          /\ source'[s].pc = "answered" /\ source'[s].envelope = g
          /\ source'[s].answer = InvalidGrant
      BY <2>0, <2>5 DEF TypeOK
    <3> QED BY <2>3, <3>1, <3>2
  <2>6. ASSUME Goto(s, "release"), UNCHANGED issuer PROVE ReplayInv'
    BY <2>1, <2>6, <1>g, <1>s, QuietReplay
  <2> QED BY <1>12, <2>0, <2>2, <2>4, <2>5, <2>6 DEF refreshGrant
<1>13. ASSUME NEW s \in Node, persistRefreshedGrant(s) PROVE ReplayInv'
  <2>0. PICK a, e : a = source[s].answer /\ e = source[s].envelope
    OBVIOUS
  <2>1. /\ source[s].pc = "answered" /\ a # InvalidGrant
        /\ \A t \in Node \ {s} : source[t].pc \notin {"send", "answered"}
    BY <1>13, <2>0, OneUnderLease DEF persistRefreshedGrant, ReplayInv, UnderLease
  <2>2. ASSUME stored = e, stored' = a, UNCHANGED issuer,
               source' = [source EXCEPT ![s].pc = "release", ![s].answer = NoAnswer,
                                        ![s].envelope = a]
        PROVE ReplayInv'
    <3>1. /\ a \in Grant /\ a.signIn = stored.signIn /\ a.id = stored.id
          /\ stored # NoGrant
      BY <2>0, <2>1, <2>2, <1>c, GrantFields DEF Answered, Opened
    <3>2. /\ source'[s].pc = "release" /\ source'[s].envelope = a
          /\ \A t \in Node \ {s} : source'[t] = source[t]
      BY <2>2 DEF TypeOK
    <3>3. a.refresh = issuer[a.signIn].refresh
      BY <2>0, <2>1 DEF ReplayInv, AnswerIsCurrent
    <3>4. StoredIsBound'
      BY <2>2, <3>1, <3>2 DEF ReplayInv, StoredIsBound
    <3>5. SentIsStored'
      BY <2>1, <3>2 DEF SentIsStored
    <3>6. AnswerIsCurrent'
      BY <2>1, <3>2 DEF AnswerIsCurrent
    <3>7. StoredIsCurrent'
      BY <2>2, <3>3 DEF StoredIsCurrent
    <3>8. NoReplay'
      BY <2>2, <3>1 DEF ReplayInv, NoReplay
    <3> QED BY <3>4, <3>5, <3>6, <3>7, <3>8 DEF ReplayInv
  <2>3. ASSUME issuer' = Losing(s), Goto(s, "release"), UNCHANGED stored
        PROVE ReplayInv'
    BY <2>1, <2>3, <1>g, <1>l, QuietReplay
  <2> QED BY <1>13, <2>0, <2>2, <2>3 DEF persistRefreshedGrant
<1>15. ASSUME NEW f \in SignIn, ProcessOAuthCallback(f) PROVE ReplayInv'
  <2>1. /\ signIn[f].pc = "exchanged" /\ UNCHANGED issuer
        /\ issuer[f].state = "live" /\ stored'.signIn = f
        /\ stored'.refresh = issuer[f].refresh
    BY <1>15 DEF ProcessOAuthCallback, GrantInv, SignInChecked
  <2>2. \A s \in Node : Rests(s)
    BY <1>15, CloseRests DEF ProcessOAuthCallback
  <2>3. \A s \in Node : source[s].pc # "closed" => source[s].envelope.signIn # f
    BY <2>1, SignInsOfGrants
  <2>4. \A s \in Node : source'[s].pc # "closed" => source'[s].envelope.signIn # f
    BY <2>2, <2>3 DEF Rests, Closed
  <2>5. StoredIsBound' /\ SentIsStored'
    BY <2>1, <2>4 DEF StoredIsBound, SentIsStored
  <2>6. AnswerIsCurrent'
    BY <2>1, <2>2 DEF ReplayInv, AnswerIsCurrent, Rests, Closed
  <2>7. StoredIsCurrent' /\ NoReplay'
    BY <2>1 DEF StoredIsCurrent, NoReplay
  <2> QED BY <2>5, <2>6, <2>7 DEF ReplayInv
<1>17. ASSUME NEW f \in SignIn, NEW n \in Node, ProcessCallback(f, n) PROVE ReplayInv'
  <2>1. signIn[f].pc = "started" /\ UNCHANGED <<source, stored>>
    BY <1>17 DEF ProcessCallback
  <2>2. \A e \in SignIn \ {f} : issuer'[e] = issuer[e]
    BY <1>17 DEF ProcessCallback, TypeOK
  <2>3. /\ stored # NoGrant => stored.signIn \in SignIn \ {f}
        /\ \A s \in Node : source[s].pc = "answered" /\ source[s].answer # InvalidGrant =>
             source[s].answer.signIn \in SignIn \ {f}
    BY <2>1, SignInsOfGrants DEF GrantInv, Known
  <2>4. StoredIsBound' /\ SentIsStored'
    BY <2>1 DEF ReplayInv, StoredIsBound, SentIsStored
  <2>5. AnswerIsCurrent'
    BY <2>1, <2>2, <2>3 DEF ReplayInv, AnswerIsCurrent
  <2>6. StoredIsCurrent'
    BY <2>1, <2>2, <2>3 DEF ReplayInv, StoredIsCurrent, InFlight
  <2>7. NoReplay'
    BY <2>1, <2>2, <2>3 DEF ReplayInv, NoReplay
  <2> QED BY <2>4, <2>5, <2>6, <2>7 DEF ReplayInv
<1> QED
  BY <1>1, <1>2, <1>3, <1>4, <1>5, <1>6, <1>7, <1>8, <1>9, <1>10, <1>11, <1>12, <1>13, <1>14,
     <1>15, <1>16, <1>17, <1>18, <1>19, <1>21, <1>22, <1>23
     DEF Next, Refresh

\* However the connections of the cluster race, the authorization server sees
\* a used refresh token of the stored grant only after the answer to its use
\* was lost, if no lease expires under a working holder and reads of the
\* stored grant succeed (src/mcp/oauth_handler.go, refreshUnderLease).
THEOREM NeverReplayed ==
    ASSUME MaxStalls = 0, ReadsFail = FALSE
    PROVE  Spec => []NoReplay
<1>1. Init => ReplayInv
  BY DEF Init, ReplayInv, LeaseHeld, StoredIsBound, SentIsStored, StoredIsCurrent,
         AnswerIsCurrent, NoReplay, Closed, UnderLease
<1>2. ReplayInv /\ (TypeOK /\ GrantInv) /\ (TypeOK /\ GrantInv)' /\ [Next]_vars => ReplayInv'
  <2> SUFFICES ASSUME ReplayInv, TypeOK, GrantInv, TypeOK', GrantInv', [Next]_vars
               PROVE  ReplayInv'
    OBVIOUS
  <2>1. LeaseHeld'
    BY LeaseStep DEF ReplayInv
  <2> QED BY <2>1, ReplayStep
<1>3. ReplayInv => NoReplay
  BY DEF ReplayInv
<1> QED BY <1>1, <1>2, <1>3, GrantInvariant, PTL DEF Spec

=============================================================================
