----------------------------- MODULE OAuthGrant -----------------------------
(***************************************************************************)
(* One user's OAuth grant for the MCP servers configured under one name.   *)
(*                                                                         *)
(* The grant is one KV entry, shared by the cluster.  Its writers are the  *)
(* token sources of the user's MCP connections (any node; each refreshes   *)
(* an expired token under a lease and writes by compare-and-set), the      *)
(* sign-in callback (unconditional write), the user's disconnect and the   *)
(* sweep after a configuration save (unconditional deletes).  The          *)
(* authorization server rotates refresh tokens and revokes a sign-in whose *)
(* used refresh token it sees again.                                       *)
(*                                                                         *)
(* Sources: src/mcp/oauth_handler.go, oauth_store.go, oauth_refresh.go,    *)
(* oauth_manager.go, oauth_revoke.go, oauth_cleanup.go, client_manager.go, *)
(* connection_identity.go, src/api/api_config.go, api_mcp.go.              *)
(***************************************************************************)
EXTENDS Integers, FiniteSets

CONSTANTS
    Node,          \* the nodes of the cluster
    NoNode,        \* not a node
    Origin,        \* origins a server may be configured at
    MaxSignIns,    \* sign-ins the user starts
    maxTokens,     \* access tokens the authorization server issues for each
    MaxSaves,      \* configuration saves
    MaxFaults,     \* crashes, lost answers, failed writes, closed connections
    MaxStalls,     \* leases that expire while their holder still works
    ReadsFail      \* whether a read of the stored grant may fail

SignIn == 1..MaxSignIns

ASSUME BoundsAssumption ==
    /\ MaxSignIns \in Nat \ {0} /\ maxTokens \in [SignIn -> Nat \ {0}]
    /\ MaxSaves \in Nat /\ MaxFaults \in Nat /\ MaxStalls \in Nat
    /\ ReadsFail \in BOOLEAN
    /\ NoNode \notin Node

VARIABLES
    stored,     \* the KV entry of the grant
    lease,      \* the KV entry of the refresh lease: the holder's node, or NoNode
    source,     \* the token source of each node's connection for the user
    issuer,     \* the authorization server's record of each sign-in
    signIn,     \* the authorization sessions and their callbacks
    disconnect, \* the user's disconnect request
    saved,      \* the server configured under the name, in the database
    config,     \* the same, as each node last loaded it
    sweep,      \* the sweep of stored grants that follows a save
    budget      \* how often each bounded event has happened

vars == <<stored, lease, source, issuer, signIn, disconnect, saved, config, sweep, budget>>

(***************************************************************************)
(* Data.                                                                   *)
(***************************************************************************)
\* A server configuration: id 0 is a server saved before IDs were minted.
ServerConfig == [id : 0..MaxSaves, origin : Origin]
NoServer == [id |-> -1, origin |-> "none"]

\* A stored grant: the sign-in it came from, its access and refresh tokens by
\* number (refresh 0: none was issued), and the server it is bound to.
Grant == [signIn : SignIn, access : Nat \ {0}, refresh : Nat,
          origin : Origin, id : 0..MaxSaves]
NoGrant == [signIn |-> 0, access |-> 0, refresh |-> 0, origin |-> "none", id |-> 0]

\* What the token endpoint may answer a refresh with, besides a new grant.
NoAnswer == [NoGrant EXCEPT !.signIn = -1]
InvalidGrant == [NoGrant EXCEPT !.signIn = -2]

Closed == [pc |-> "closed", closing |-> FALSE, server |-> NoServer,
           envelope |-> NoGrant, answer |-> NoAnswer]

UnderLease == {"reload", "send", "answered", "release"}

Init ==
    /\ stored = NoGrant
    /\ lease = NoNode
    /\ source = [n \in Node |-> Closed]
    /\ issuer = [f \in SignIn |-> [state |-> "none", refresh |-> 0, access |-> 0,
                                   expired |-> 0, lost |-> FALSE]]
    /\ signIn = [f \in SignIn |-> [pc |-> "none", node |-> NoNode,
                                   server |-> NoServer, id |-> 0]]
    /\ disconnect = [pc |-> "none", node |-> NoNode]
    /\ saved \in {[id |-> 0, origin |-> o] : o \in Origin}
    /\ config = [n \in Node |-> saved]
    /\ sweep = "none"
    /\ budget = [saves |-> 0, faults |-> 0, stalls |-> 0]

Count(event) == budget' = [budget EXCEPT ![event] = @ + 1]

(***************************************************************************)
(* Binding a grant to a server.                                            *)
(***************************************************************************)
originChanged(before, after) == before.origin # after.origin

\* As if only the origin tied a grant to a server.
IssuedForOrigin(g, server) == g # NoGrant /\ ~originChanged(g, server)

\* loadGrantForServer finds the grant usable for this server.
IssuedFor(g, server) ==
    /\ g # NoGrant
    /\ ~originChanged(g, server)
    /\ g.id = 0 \/ server.id = 0 \/ g.id = server.id

\* The load binds a grant that carries no server ID to the current one.
Bind(g, server) == [g EXCEPT !.id = IF @ = 0 THEN server.id ELSE @]

\* The entry after a load for this server, and what the load returns.
AfterLoad(server) == IF IssuedFor(stored, server) THEN Bind(stored, server) ELSE stored
loadGrantForServer(server) ==
    IF IssuedFor(stored, server) THEN Bind(stored, server) ELSE NoGrant

Expired(g) == g.access <= issuer[g.signIn].expired

(***************************************************************************)
(* Connections.                                                            *)
(***************************************************************************)
\* TokenSource: a connection of the node loads the grant for the server the
\* node has configured.  A node has one open connection per user and server;
\* one that is being closed finishes its call before the next is opened.
TokenSource(s) ==
    /\ source[s].pc = "closed"
    /\ config[s] # NoServer
    /\ loadGrantForServer(config[s]) # NoGrant
    /\ stored' = AfterLoad(config[s])
    /\ source' = [source EXCEPT ![s] = [Closed EXCEPT
                     !.pc = "idle", !.server = config[s],
                     !.envelope = loadGrantForServer(config[s])]]
    /\ UNCHANGED <<lease, issuer, signIn, disconnect, saved, config, sweep, budget>>

\* The sources after those in S are closed: an idle one is gone, a busy one
\* is gone when its call returns.
Close(S) ==
    [s \in Node |->
        IF s \notin S THEN source[s]
        ELSE IF source[s].pc \in {"idle", "closed"} THEN Closed
        ELSE [source[s] EXCEPT !.closing = TRUE]]

\* The identity of a connection: its endpoint, not the configured ID.
SameConnection(server, cfg) == server.origin = cfg.origin

\* The client cleanup, a cluster invalidation or one caused by another of the
\* user's servers closes a connection.
InvalidateUserClients(s) ==
    /\ source[s].pc # "closed" /\ ~source[s].closing
    /\ budget.faults < MaxFaults
    /\ source' = Close({s})
    /\ Count("faults")
    /\ UNCHANGED <<stored, lease, issuer, signIn, disconnect, saved, config, sweep>>

(***************************************************************************)
(* Token(): the refresh of an expired access token.                        *)
(***************************************************************************)
Goto(s, label) == source' = [source EXCEPT ![s].pc = label, ![s].answer = NoAnswer]

\* The call returns.
Return(s) ==
    source' = [source EXCEPT ![s] = IF @.closing THEN Closed
                                    ELSE [@ EXCEPT !.pc = "idle", !.answer = NoAnswer]]

\* adoptLatestGrant: the source takes what the load returns, if anything; it
\* goes on to label unless the access token it then holds is valid.
Adopt(s, valid, label) ==
    LET latest == loadGrantForServer(source[s].server)
        expired == latest = NoGrant \/ Expired(latest)
        kept == IF latest = NoGrant THEN source[s].envelope ELSE latest
    IN  /\ stored' = AfterLoad(source[s].server)
        /\ source' = [source EXCEPT ![s] =
               IF ~expired /\ valid = "idle" /\ @.closing THEN Closed
               ELSE [@ EXCEPT !.envelope = kept, !.pc = IF expired THEN label ELSE valid]]

NeedsToken(s) == source[s].pc = "idle" /\ Expired(source[s].envelope)

\* clearGrantOrAdopt: an expired grant without a refresh token is deleted if
\* it is still the stored one.
clearGrantOrAdopt(s) ==
    /\ NeedsToken(s)
    /\ source[s].envelope.refresh = 0
    /\ \/ /\ stored = source[s].envelope
          /\ stored' = NoGrant
          /\ UNCHANGED source
       \/ /\ stored # source[s].envelope
          /\ Adopt(s, "idle", "idle")
    /\ UNCHANGED <<lease, issuer, signIn, disconnect, saved, config, sweep, budget>>

refreshUnderLease(s) ==
    /\ NeedsToken(s)
    /\ source[s].envelope.refresh # 0
    /\ \/ /\ lease = NoNode
          /\ lease' = s
          /\ Goto(s, "reload")
       \/ /\ lease # NoNode
          /\ Goto(s, "wait")
          /\ UNCHANGED lease
    /\ UNCHANGED <<stored, issuer, signIn, disconnect, saved, config, sweep, budget>>

waitForConcurrentRefresh(s) ==
    /\ source[s].pc = "wait"
    /\ \/ ~source[s].closing /\ Adopt(s, "idle", "wait")
       \/ Return(s) /\ UNCHANGED stored
    /\ UNCHANGED <<lease, issuer, signIn, disconnect, saved, config, sweep, budget>>

\* As if the source refreshed the envelope it already has, without a reload.
ReloadUnderLeaseSkipped(s) ==
    /\ source[s].pc = "reload"
    /\ Goto(s, "send")
    /\ UNCHANGED <<stored, lease, issuer, signIn, disconnect, saved, config, sweep, budget>>

\* The reload under the lease; without a stored grant, or when the read
\* fails, the source goes on with the envelope it has.
ReloadUnderLease(s) ==
    /\ source[s].pc = "reload"
    /\ \/ Adopt(s, "release", "send")
       \/ ReadsFail /\ Goto(s, "send") /\ UNCHANGED stored
    /\ UNCHANGED <<lease, issuer, signIn, disconnect, saved, config, sweep, budget>>

\* What the authorization server does with a refresh token: one it honours is
\* exchanged, and the refresh token replaced or kept; a used one revokes the
\* sign-in.
Honours(f, refresh) == issuer[f].state = "live" /\ refresh = issuer[f].refresh
AtBound(f) == issuer[f].access = maxTokens[f]

Exchange(f, refresh) ==
    /\ Honours(f, refresh)
    /\ ~AtBound(f)
    /\ \E kept \in BOOLEAN :
         issuer' = [issuer EXCEPT ![f].access = @ + 1,
                                  ![f].refresh = IF kept THEN @ ELSE @ + 1]

Reject(f, refresh) ==
    /\ ~Honours(f, refresh)
    /\ issuer' = [issuer EXCEPT ![f].state = IF @ = "live" THEN "replayed" ELSE @]

\* doRefresh: the token endpoint answers the request.  A reloaded envelope may
\* carry no refresh token: then none is made.  At its bound the server fails.
\* One request per refresh: the method of a registered client is pinned, and only
\* static credentials, which are left out, try the token with another one.
refreshGrant(s) ==
    /\ source[s].pc = "send"
    /\ LET g == source[s].envelope
       IN  \/ /\ g.refresh # 0
              /\ Exchange(g.signIn, g.refresh)
              /\ source' = [source EXCEPT ![s].pc = "answered",
                     ![s].answer = [g EXCEPT !.access = issuer'[g.signIn].access,
                                             !.refresh = issuer'[g.signIn].refresh]]
           \/ /\ g.refresh # 0
              /\ Reject(g.signIn, g.refresh)
              /\ source' = [source EXCEPT ![s].pc = "answered", ![s].answer = InvalidGrant]
           \/ /\ g.refresh = 0 \/ (Honours(g.signIn, g.refresh) /\ AtBound(g.signIn))
              /\ Goto(s, "release")
              /\ UNCHANGED issuer
    /\ UNCHANGED <<stored, lease, signIn, disconnect, saved, config, sweep, budget>>

\* The credentials cannot be loaded, or the request fails before the token
\* endpoint handles it.
RequestFails(s) ==
    /\ source[s].pc = "send"
    /\ budget.faults < MaxFaults
    /\ Goto(s, "release")
    /\ Count("faults")
    /\ UNCHANGED <<stored, lease, issuer, signIn, disconnect, saved, config, sweep>>

\* The issuer's record after s loses the answer it was sent.
Losing(s) ==
    [f \in SignIn |-> [issuer[f] EXCEPT !.lost = @ \/ source[s].answer.signIn = f]]

\* The answer does not arrive (a timeout, a closed connection), or the new
\* grant cannot be written in four attempts.
AnswerLost(s) ==
    /\ source[s].pc = "answered"
    /\ budget.faults < MaxFaults
    /\ issuer' = Losing(s)
    /\ Goto(s, "release")
    /\ Count("faults")
    /\ UNCHANGED <<stored, lease, signIn, disconnect, saved, config, sweep>>

\* As if the new grant were written whatever is stored.
persistUnconditionally(s) ==
    /\ source[s].pc = "answered"
    /\ source[s].answer # InvalidGrant
    /\ stored' = source[s].answer
    /\ source' = [source EXCEPT ![s].pc = "release", ![s].answer = NoAnswer,
                                ![s].envelope = source[s].answer]
    /\ UNCHANGED <<lease, issuer, signIn, disconnect, saved, config, sweep, budget>>

\* The new grant replaces the one the source read, if that is still stored.
persistRefreshedGrant(s) ==
    /\ source[s].pc = "answered"
    /\ source[s].answer # InvalidGrant
    /\ \/ /\ stored = source[s].envelope
          /\ stored' = source[s].answer
          /\ source' = [source EXCEPT ![s].pc = "release", ![s].answer = NoAnswer,
                                      ![s].envelope = source[s].answer]
          /\ UNCHANGED issuer
       \/ /\ stored # source[s].envelope
          /\ issuer' = Losing(s)
          /\ Goto(s, "release")
          /\ UNCHANGED stored
    /\ UNCHANGED <<lease, signIn, disconnect, saved, config, sweep, budget>>

\* As if a dead grant were left where it is.
ClearDeadGrantNever(s) ==
    /\ source[s].pc = "answered"
    /\ source[s].answer = InvalidGrant
    /\ Goto(s, "release")
    /\ UNCHANGED <<stored, lease, issuer, signIn, disconnect, saved, config, sweep, budget>>

\* After invalid_grant the grant the source read is deleted, if still stored.
ClearDeadGrant(s) ==
    /\ source[s].pc = "answered"
    /\ source[s].answer = InvalidGrant
    /\ stored' = IF stored = source[s].envelope THEN NoGrant ELSE stored
    /\ Goto(s, "release")
    /\ UNCHANGED <<lease, issuer, signIn, disconnect, saved, config, sweep, budget>>

releaseRefreshLease(s) ==
    /\ source[s].pc = "release"
    /\ lease' = IF lease = s THEN NoNode ELSE lease
    /\ Return(s)
    /\ UNCHANGED <<stored, issuer, signIn, disconnect, saved, config, sweep, budget>>

\* The lease's time to live exceeds the refresh's timeout: it ends a lease
\* whose holder died, and a stalled holder's at most MaxStalls times.
LeaseExpires ==
    /\ lease # NoNode
    /\ \/ source[lease].pc \notin UnderLease /\ UNCHANGED budget
       \/ /\ source[lease].pc \in UnderLease
          /\ budget.stalls < MaxStalls
          /\ Count("stalls")
    /\ lease' = NoNode
    /\ UNCHANGED <<stored, source, issuer, signIn, disconnect, saved, config, sweep>>

TokenExpires(f) ==
    /\ issuer[f].expired < issuer[f].access
    /\ issuer' = [issuer EXCEPT ![f].expired = @ + 1]
    /\ UNCHANGED <<stored, lease, source, signIn, disconnect, saved, config, sweep, budget>>

(***************************************************************************)
(* Sign-in and disconnect.                                                 *)
(***************************************************************************)
\* initiateOAuthFlow: the session names the server it was started for.
initiateOAuthFlow(f, n) ==
    /\ signIn[f].pc = "none"
    /\ \A e \in 1..(f - 1) : signIn[e].pc # "none"
    /\ config[n] # NoServer
    /\ signIn' = [signIn EXCEPT ![f] = [pc |-> "started", node |-> NoNode, server |-> config[n], id |-> 0]]
    /\ UNCHANGED <<stored, lease, source, issuer, disconnect, saved, config, sweep, budget>>

\* The callback's check, and what ID the grant will be bound to.
SameServer(cfg, server) ==
    /\ cfg # NoServer
    /\ ~originChanged(cfg, server)
    /\ server.id = 0 \/ cfg.id = 0 \/ cfg.id = server.id

ProcessCallback(f, n) ==
    /\ signIn[f].pc = "started"
    /\ LET server == signIn[f].server
       IN  \/ /\ SameServer(config[n], server)
              /\ \E refresh \in 0..1 :
                   issuer' = [issuer EXCEPT ![f] = [@ EXCEPT !.state = "live", !.access = 1,
                                                             !.refresh = refresh]]
              /\ signIn' = [signIn EXCEPT ![f] = [pc |-> "exchanged", node |-> n, server |-> server,
                               id |-> IF server.id = 0 THEN config[n].id ELSE server.id]]
           \/ /\ ~SameServer(config[n], server)
              /\ signIn' = [signIn EXCEPT ![f].pc = "done"]
              /\ UNCHANGED issuer
    /\ UNCHANGED <<stored, lease, source, disconnect, saved, config, sweep, budget>>

\* The callback stores the grant it exchanged the code for and drops the
\* node's connections of the user.
ProcessOAuthCallback(f) ==
    /\ signIn[f].pc = "exchanged"
    /\ stored' = [signIn |-> f, access |-> 1, refresh |-> issuer[f].refresh,
                  origin |-> signIn[f].server.origin, id |-> signIn[f].id]
    /\ source' = Close({signIn[f].node})
    /\ signIn' = [signIn EXCEPT ![f].pc = "done", ![f].node = NoNode, ![f].id = 0]
    /\ UNCHANGED <<lease, issuer, disconnect, saved, config, sweep, budget>>

\* DisconnectUserOAuth revokes what is stored, best effort, ...
revokeGrantBeforeDelete(n) ==
    /\ disconnect.pc = "none"
    /\ disconnect' = [pc |-> "revoked", node |-> n]
    /\ \/ UNCHANGED issuer
       \/ /\ stored # NoGrant
          /\ issuer' = [issuer EXCEPT ![stored.signIn].state = IF @ = "live" THEN "revoked" ELSE @]
    /\ UNCHANGED <<stored, lease, source, signIn, saved, config, sweep, budget>>

\* ... deletes whatever is stored by then, and drops the node's connections.
DisconnectUserOAuth ==
    /\ disconnect.pc = "revoked"
    /\ stored' = NoGrant
    /\ source' = Close({disconnect.node})
    /\ disconnect' = [pc |-> "done", node |-> NoNode]
    /\ UNCHANGED <<lease, issuer, signIn, saved, config, sweep, budget>>

(***************************************************************************)
(* Configuration.                                                          *)
(***************************************************************************)
\* A save keeps, mints or replaces the ID of the server that has the name.
NextConfig ==
    {[id |-> i, origin |-> o] : i \in {saved.id, budget.saves + 1} \ {-1, 0}, o \in Origin}
        \cup {NoServer}

\* OAuthStateToClear: the new server does not continue the old one.
OAuthStateToClear(prev, next) ==
    \/ prev = NoServer
    \/ next = NoServer
    \/ prev.id # 0 /\ next.id # prev.id
    \/ originChanged(prev, next)

\* ReInit: the node has the new configuration and closes the connections
\* whose identity it no longer contains.
ReInit(n, cfg) ==
    /\ config' = [config EXCEPT ![n] = cfg]
    /\ source' = Close({s \in {n} : ~SameConnection(source[s].server, cfg)})

SaveConfig(n) ==
    /\ budget.saves < MaxSaves
    /\ sweep = "none"
    /\ \E next \in NextConfig \ {saved} :
         /\ saved' = next
         /\ ReInit(n, next)
         /\ sweep' = IF OAuthStateToClear(saved, next) THEN "list" ELSE "none"
    /\ Count("saves")
    /\ UNCHANGED <<stored, lease, issuer, signIn, disconnect>>

\* A peer handles the cluster event of a save.
ConfigUpdate(n) ==
    /\ config[n] # saved
    /\ ReInit(n, saved)
    /\ UNCHANGED <<stored, lease, issuer, signIn, disconnect, saved, sweep, budget>>

\* ClearServerOAuthState collects the keys of the name, then deletes them;
\* a delete that fails is only logged.
ListKeys ==
    /\ sweep = "list"
    /\ sweep' = IF stored = NoGrant THEN "none" ELSE "delete"
    /\ UNCHANGED <<stored, lease, source, issuer, signIn, disconnect, saved, config, budget>>

ClearServerOAuthState ==
    /\ sweep = "delete"
    /\ sweep' = "none"
    /\ stored' \in {NoGrant, stored}
    /\ UNCHANGED <<lease, source, issuer, signIn, disconnect, saved, config, budget>>

\* A node dies with its connections and requests; the lease stays.
Crash(n) ==
    /\ budget.faults < MaxFaults
    /\ Count("faults")
    /\ issuer' = Losing(n)
    /\ source' = [source EXCEPT ![n] = Closed]
    /\ signIn' = [f \in SignIn |->
           IF signIn[f].node # n THEN signIn[f]
           ELSE [signIn[f] EXCEPT !.pc = "done", !.node = NoNode, !.id = 0]]
    /\ disconnect' = IF disconnect.node = n THEN [pc |-> "done", node |-> NoNode] ELSE disconnect
    /\ sweep' \in {sweep, "none"}
    /\ config' = [config EXCEPT ![n] = saved]
    /\ UNCHANGED <<stored, lease, saved>>

Refresh(s) ==
    \/ clearGrantOrAdopt(s) \/ refreshUnderLease(s) \/ waitForConcurrentRefresh(s)
    \/ ReloadUnderLease(s) \/ refreshGrant(s) \/ persistRefreshedGrant(s)
    \/ ClearDeadGrant(s) \/ releaseRefreshLease(s)

Next ==
    \/ \E s \in Node :
         \/ TokenSource(s) \/ Refresh(s) \/ RequestFails(s) \/ AnswerLost(s)
         \/ InvalidateUserClients(s)
    \/ \E f \in SignIn :
         \/ TokenExpires(f) \/ ProcessOAuthCallback(f)
         \/ \E n \in Node : initiateOAuthFlow(f, n) \/ ProcessCallback(f, n)
    \/ \E n \in Node :
         revokeGrantBeforeDelete(n) \/ SaveConfig(n) \/ ConfigUpdate(n) \/ Crash(n)
    \/ DisconnectUserOAuth
    \/ ListKeys \/ ClearServerOAuthState
    \/ LeaseExpires

Spec == Init /\ [][Next]_vars

\* The user keeps calling the server's tools: a call opens a connection and
\* asks it for a token.  Time passes, and nodes hear of configuration saves.
FairSpec ==
    /\ Spec
    /\ \A s \in Node : WF_vars(Refresh(s)) /\ WF_vars(TokenSource(s))
    /\ \A f \in SignIn : WF_vars(TokenExpires(f)) /\ WF_vars(ProcessOAuthCallback(f))
    /\ \A n \in Node : WF_vars(ConfigUpdate(n))
    /\ WF_vars(DisconnectUserOAuth)
    /\ WF_vars(ListKeys) /\ WF_vars(ClearServerOAuthState)
    /\ WF_vars(LeaseExpires)

(***************************************************************************)
(* Properties.                                                             *)
(***************************************************************************)
TypeOK ==
    /\ stored \in Grant \cup {NoGrant}
    /\ lease \in Node \cup {NoNode}
    /\ source \in [Node -> [pc : UnderLease \cup {"closed", "idle", "wait"}, closing : BOOLEAN,
                              server : ServerConfig \cup {NoServer},
                              envelope : Grant \cup {NoGrant},
                              answer : Grant \cup {NoAnswer, InvalidGrant}]]
    /\ issuer \in [SignIn -> [state : {"none", "live", "revoked", "replayed"}, refresh : Nat,
                              access : Nat, expired : Nat, lost : BOOLEAN]]
    /\ \A f \in SignIn :
         issuer[f].expired <= issuer[f].access /\ issuer[f].access <= maxTokens[f]
    /\ signIn \in [SignIn -> [pc : {"none", "started", "exchanged", "done"}, node : Node \cup {NoNode},
                              server : ServerConfig \cup {NoServer}, id : 0..MaxSaves]]
    /\ disconnect \in [pc : {"none", "revoked", "done"}, node : Node \cup {NoNode}]
    /\ saved \in ServerConfig \cup {NoServer}
    /\ config \in [Node -> ServerConfig \cup {NoServer}]
    /\ sweep \in {"none", "list", "delete"}
    /\ budget \in [saves : 0..MaxSaves, faults : 0..MaxFaults, stalls : 0..MaxStalls]

\* However the connections of the cluster race, the authorization server sees
\* a used refresh token of the stored grant only after the answer to its use
\* was lost: neither the lease nor the reload under it lets one be sent twice
\* (src/mcp/oauth_handler.go, refreshUnderLease).
NoReplay ==
    stored # NoGrant /\ issuer[stored.signIn].state = "replayed" => issuer[stored.signIn].lost

\* A connection never holds the grant of a sign-in that was for another
\* server, whatever was saved, swept and stored in between: not one at another
\* origin, and not one with another ID (src/mcp/oauth_store.go,
\* loadGrantForServer).
OnlyItsServer ==
    \A s \in Node : source[s].envelope # NoGrant =>
        LET for == signIn[source[s].envelope.signIn].server
            to == source[s].server
        IN  for.origin = to.origin /\ (for.id = to.id \/ for.id = 0 \/ to.id = 0)

\* A grant enters the store once, by its own callback; after that it is only
\* replaced by a later token of the same sign-in, so neither a slow refresh
\* nor a load brings back what a disconnect, a sweep, a newer sign-in or an
\* invalid_grant removed (src/mcp/oauth_handler.go, persistingTokenSource).
NeverResurrected ==
    [][stored' \notin {stored, NoGrant} =>
         \/ stored'.signIn = stored.signIn /\ stored'.access >= stored.access
         \/ \E f \in SignIn : ProcessOAuthCallback(f)]_vars

\* A stored grant the authorization server no longer honours does not stay:
\* it is deleted, or replaced, or the server's configuration moves on, so the
\* user is asked to sign in (src/mcp/oauth_handler.go, refreshUnderLease).
DeadGrantIsCleared ==
    \A f \in SignIn :
        stored.signIn = f /\ issuer[f].state \in {"revoked", "replayed"}
            ~> stored.signIn # f \/ ~IssuedFor(stored, saved)
=============================================================================
