----------------------------- MODULE NodeAccess -----------------------------
(***************************************************************************)
(* Client admission on a node: Controller.Authorize, Revoke, SweepOnce and *)
(* NewController (internal/nodes/controller.go) over the session manager   *)
(* (internal/session/session.go), the address pool (ipam.go), the          *)
(* WireGuard peers (wireguard.go) and the client table (store.go).         *)
(*                                                                         *)
(* The management API serves each request on its own goroutine, a handler, *)
(* next to the sweeper goroutine.  Each of the five parts has its own      *)
(* lock, so a request is a sequence of steps, one per call.  Requests that *)
(* the checks before Allocate refuse (disabled, blocklisted, rate limited, *)
(* draining, bad key) change none of this state.                           *)
(***************************************************************************)
EXTENDS Integers, FiniteSets

CONSTANTS
    Handlers,     \* goroutines of the management API
    Requests,     \* pairs <<token, key>> that clients present
    Size,         \* size of the CGNAT range
    MaxClients,   \* cfg.MaxClients
    Capped,       \* MaxSessionDuration may end a session before its token
    Rollbacks,    \* AddPeer may fail, or the node is a RELAY given exit tokens
    Persist,      \* the controller has a database (db # nil)
    Faults,       \* RemovePeer and database calls may fail; their errors are dropped
    Restarts,     \* bound on the crashes of a run
    None          \* an absent session, row, peer or argument

ASSUME NodeAssumption ==
    /\ Size \in Nat /\ Size >= 8
    /\ MaxClients \in Nat \ {0}
    /\ IsFiniteSet(Handlers) /\ IsFiniteSet(Requests)
    /\ Capped \in BOOLEAN /\ Rollbacks \in BOOLEAN
    /\ Persist \in BOOLEAN /\ Faults \in BOOLEAN
    /\ Restarts \in Nat

(* Offsets handed out: not the network (0), the server (1) or the          *)
(* broadcast address (Size - 1).                                           *)
Pool == 2..(Size - 2)

Tokens == {r[1] : r \in Requests}
Keys == {r[2] : r \in Requests}

VARIABLES
    tokenOver, \* tokens past their own expiry
    byToken,   \* Manager.byToken: the session of each token, or None
    revoked,   \* Manager.revoked
    used,      \* IPAM.used
    next,      \* IPAM.next
    peers,     \* the address of the WireGuard peer of each key, or None
    rows,      \* the authorized_clients row of each token, or None
    pc,        \* where each handler is
    tok, key,  \* the request's token and key
    addr,      \* the address the handler keeps in a local variable
    swept,     \* sessions SweepOnce removed and has not called OnExpire for
    cur, spc,  \* the session OnExpire runs for, and the step it is at
    restarts,  \* crashes so far
    restored,  \* history: the addresses the last NewController reserved
    dropped    \* history: the addresses in use that nobody is to release

sessions == <<byToken, revoked>>
ipam == <<used, next>>
request == <<pc, tok, key, addr>>
sweeper == <<swept, cur, spc>>
life == <<restarts, restored, dropped>>
vars == <<tokenOver, sessions, ipam, peers, rows, request, sweeper, life>>

Session == [key : Keys, ip : Pool, over : BOOLEAN]
Row == [ip : Pool, revoked : BOOLEAN]
Expired == [token : Tokens, key : Keys, ip : Pool]

ASSUME NoneAssumption ==
    /\ None \notin Pool /\ None \notin Tokens /\ None \notin Keys
    /\ None \notin Session /\ None \notin Row /\ None \notin Expired

Init ==
    /\ tokenOver = {}
    /\ byToken = [t \in Tokens |-> None] /\ revoked = {}
    /\ used = {} /\ next = 2
    /\ peers = [k \in Keys |-> None]
    /\ rows = [t \in Tokens |-> None]
    /\ pc = [h \in Handlers |-> "idle"]
    /\ tok = [h \in Handlers |-> None]
    /\ key = [h \in Handlers |-> None]
    /\ addr = [h \in Handlers |-> None]
    /\ swept = {} /\ cur = None /\ spc = "peer"
    /\ restarts = 0 /\ restored = {} /\ dropped = {}

(***************************************************************************)
(* Helpers.                                                                *)
(***************************************************************************)
Live(t) == byToken[t] # None /\ ~byToken[t].over
ActiveCount == Cardinality({t \in Tokens : Live(t)})

Goto(h, from, to) == pc[h] = from /\ pc' = [pc EXCEPT ![h] = to]

Finish(h) ==
    /\ pc' = [pc EXCEPT ![h] = "idle"]
    /\ tok' = [tok EXCEPT ![h] = None]
    /\ key' = [key EXCEPT ![h] = None]
    /\ addr' = [addr EXCEPT ![h] = None]

(* The cursor of the pool wraps before the broadcast address.              *)
After(o) == IF o + 1 >= Size - 1 THEN 2 ELSE o + 1

(* How many addresses the loop of Allocate looks at before o.              *)
Steps(o) == (o - next) % (Size - 3)

AddPeer(k, ip) == peers' = [peers EXCEPT ![k] = ip]
RemovePeer(k) ==
    \/ peers' = [peers EXCEPT ![k] = None]
    \/ Faults /\ UNCHANGED peers
Release(ip) ==
    /\ used' = used \ {ip} /\ UNCHANGED next
    /\ dropped' = dropped \ {ip}

(* UPDATE ... SET revoked=1 WHERE token_id=?                               *)
RevokeClient(t) ==
    \/ rows' = IF rows[t] = None THEN rows
               ELSE [rows EXCEPT ![t] = [ip |-> rows[t].ip, revoked |-> TRUE]]
    \/ Faults /\ UNCHANGED rows

(* Manager.Revoke: out of the table, into the revocation map; unknown      *)
(* tokens change nothing.                                                  *)
ManagerRevoke(t) ==
    /\ byToken' = [byToken EXCEPT ![t] = None]
    /\ revoked' = IF byToken[t] = None THEN revoked ELSE revoked \cup {t}

(* The session in the table goes, and the request releases the address it  *)
(* has in its own variable: when they differ nobody releases the           *)
(* session's.                                                              *)
Forget(h) ==
    dropped' = IF byToken[tok[h]] = None \/ byToken[tok[h]].ip = addr[h] THEN dropped
               ELSE dropped \cup {byToken[tok[h]].ip}

(***************************************************************************)
(* POST /session/authorize.                                                *)
(***************************************************************************)
(* Mutant: a full node admits one more.                                    *)
AuthorizeCheckOneMore(h, r) ==
    /\ ActiveCount <= MaxClients
    /\ Goto(h, "idle", "allocate")
    /\ tok' = [tok EXCEPT ![h] = r[1]]
    /\ key' = [key EXCEPT ![h] = r[2]]
    /\ UNCHANGED <<tokenOver, sessions, ipam, peers, rows, addr, sweeper, life>>

AuthorizeCheck(h, r) ==
    /\ ActiveCount < MaxClients
    /\ Goto(h, "idle", "allocate")
    /\ tok' = [tok EXCEPT ![h] = r[1]]
    /\ key' = [key EXCEPT ![h] = r[2]]
    /\ UNCHANGED <<tokenOver, sessions, ipam, peers, rows, addr, sweeper, life>>

(* Mutant: the address at the cursor is taken without a look at used.      *)
AllocateBlindly(h) ==
    /\ Goto(h, "allocate", "authorize")
    /\ used' = used \cup {next}
    /\ next' = After(next)
    /\ addr' = [addr EXCEPT ![h] = next]
    /\ UNCHANGED <<tokenOver, sessions, peers, rows, tok, key, sweeper, life>>

Allocate(h) ==
    /\ Goto(h, "allocate", "authorize")
    /\ \E o \in Pool \ used :
          /\ \A p \in Pool \ used : Steps(o) <= Steps(p)
          /\ used' = used \cup {o}
          /\ next' = After(o)
          /\ addr' = [addr EXCEPT ![h] = o]
    /\ UNCHANGED <<tokenOver, sessions, peers, rows, tok, key, sweeper, life>>

(* The loop looks at Size - 2 addresses of a pool of Size - 3.             *)
PoolExhausted(h) ==
    /\ pc[h] = "allocate"
    /\ Pool \subseteq used
    /\ next' = After(next)
    /\ Finish(h)
    /\ UNCHANGED <<tokenOver, sessions, used, peers, rows, sweeper, life>>

(* Mutant: a refused request keeps its address.                            *)
AuthorizeRefusedLeaks(h) ==
    /\ pc[h] = "authorize"
    /\ tok[h] \in tokenOver \/ tok[h] \in revoked \/ Live(tok[h])
    /\ Finish(h)
    /\ UNCHANGED <<tokenOver, sessions, ipam, peers, rows, sweeper, life>>

(* Manager.Authorize refuses expired and revoked tokens and a token with a *)
(* session that is not expired; a session that is, but has not been swept  *)
(* yet, is overwritten.                                                    *)
AuthorizeRefused(h) ==
    /\ Goto(h, "authorize", "refused")
    /\ tok[h] \in tokenOver \/ tok[h] \in revoked \/ Live(tok[h])
    /\ UNCHANGED <<tokenOver, sessions, ipam, peers, rows, tok, key, addr, sweeper,
                   life>>

AuthorizeOpens(h) ==
    /\ Goto(h, "authorize", "install")
    /\ tok[h] \notin tokenOver \cup revoked
    /\ ~Live(tok[h])
    /\ byToken' = [byToken EXCEPT ![tok[h]] =
                      [key |-> key[h], ip |-> addr[h], over |-> FALSE]]
    /\ Forget(h)
    /\ UNCHANGED <<tokenOver, revoked, ipam, peers, rows, tok, key, addr, sweeper,
                   restarts, restored>>

(* Relay scope or a failed AddPeer: ses.Revoke, its error ignored.         *)
RollbackRevoke(h) ==
    /\ Rollbacks
    /\ Goto(h, "install", "refused")
    /\ ManagerRevoke(tok[h]) /\ Forget(h)
    /\ UNCHANGED <<tokenOver, ipam, peers, rows, tok, key, addr, sweeper, restarts,
                   restored>>

ReleaseRefused(h) ==
    /\ pc[h] = "refused"
    /\ Release(addr[h])
    /\ Finish(h)
    /\ UNCHANGED <<tokenOver, sessions, peers, rows, sweeper, restarts, restored>>

InstallPeer(h) ==
    /\ Goto(h, "install", "persist")
    /\ AddPeer(key[h], addr[h])
    /\ UNCHANGED <<tokenOver, sessions, ipam, rows, tok, key, addr, sweeper, life>>

(* The row is written unrevoked whatever happened to the session           *)
(* meanwhile.                                                              *)
UpsertClient(h) ==
    /\ pc[h] = "persist"
    /\ \/ Persist /\ rows' = [rows EXCEPT ![tok[h]] = [ip |-> addr[h], revoked |-> FALSE]]
       \/ (~Persist \/ Faults) /\ UNCHANGED rows
    /\ Finish(h)
    /\ UNCHANGED <<tokenOver, sessions, ipam, peers, sweeper, life>>

Authorize(h) ==
    \/ \E r \in Requests : AuthorizeCheck(h, r)
    \/ Allocate(h)
    \/ PoolExhausted(h)
    \/ AuthorizeRefused(h)
    \/ AuthorizeOpens(h)
    \/ RollbackRevoke(h)
    \/ ReleaseRefused(h)
    \/ InstallPeer(h)
    \/ UpsertClient(h)

(***************************************************************************)
(* POST /session/revoke.  The key and address come from the session Get    *)
(* returned, before the manager's lock is taken again for Revoke.          *)
(***************************************************************************)
RevokeGet(h, t) ==
    /\ byToken[t] # None
    /\ Goto(h, "idle", "revoke")
    /\ tok' = [tok EXCEPT ![h] = t]
    /\ key' = [key EXCEPT ![h] = byToken[t].key]
    /\ addr' = [addr EXCEPT ![h] = byToken[t].ip]
    /\ UNCHANGED <<tokenOver, sessions, ipam, peers, rows, sweeper, life>>

(* Mutant: a session that is gone by now is revoked again.                 *)
RevokeSessionAgain(h) ==
    /\ Goto(h, "revoke", "unpeer")
    /\ ManagerRevoke(tok[h]) /\ Forget(h)
    /\ UNCHANGED <<tokenOver, ipam, peers, rows, tok, key, addr, sweeper, restarts,
                   restored>>

RevokeSession(h) ==
    /\ Goto(h, "revoke", "unpeer")
    /\ byToken[tok[h]] # None
    /\ ManagerRevoke(tok[h]) /\ Forget(h)
    /\ UNCHANGED <<tokenOver, ipam, peers, rows, tok, key, addr, sweeper, restarts,
                   restored>>

RevokeUnknown(h) ==
    /\ pc[h] = "revoke" /\ byToken[tok[h]] = None
    /\ Finish(h)
    /\ UNCHANGED <<tokenOver, sessions, ipam, peers, rows, sweeper, life>>

RevokePeer(h) ==
    /\ Goto(h, "unpeer", "release")
    /\ RemovePeer(key[h])
    /\ UNCHANGED <<tokenOver, sessions, ipam, rows, tok, key, addr, sweeper, life>>

RevokeRelease(h) ==
    /\ Goto(h, "release", "unrow")
    /\ Release(addr[h])
    /\ UNCHANGED <<tokenOver, sessions, peers, rows, tok, key, addr, sweeper, restarts,
                   restored>>

RevokeRow(h) ==
    /\ pc[h] = "unrow"
    /\ RevokeClient(tok[h])
    /\ Finish(h)
    /\ UNCHANGED <<tokenOver, sessions, ipam, peers, sweeper, life>>

Revoke(h) ==
    \/ \E t \in Tokens : RevokeGet(h, t)
    \/ RevokeSession(h)
    \/ RevokeUnknown(h)
    \/ RevokePeer(h)
    \/ RevokeRelease(h)
    \/ RevokeRow(h)

(***************************************************************************)
(* The sweeper: one locked pass over the table, then OnExpire for each     *)
(* session that was in it.                                                 *)
(***************************************************************************)
(* Mutant: only sessions that reached the table are swept.                 *)
SweepOnceWithRow ==
    /\ swept = {} /\ cur = None
    /\ LET done == {t \in Tokens : byToken[t] # None /\ byToken[t].over /\ rows[t] # None}
       IN  /\ done # {}
           /\ swept' = {[token |-> t, key |-> byToken[t].key, ip |-> byToken[t].ip] :
                           t \in done}
           /\ byToken' = [t \in Tokens |-> IF t \in done THEN None ELSE byToken[t]]
           /\ revoked' = revoked \cup done
    /\ UNCHANGED <<tokenOver, ipam, peers, rows, request, cur, spc, life>>

SweepOnce ==
    /\ swept = {} /\ cur = None
    /\ LET done == {t \in Tokens : byToken[t] # None /\ byToken[t].over}
       IN  /\ done # {}
           /\ swept' = {[token |-> t, key |-> byToken[t].key, ip |-> byToken[t].ip] :
                           t \in done}
           /\ byToken' = [t \in Tokens |-> IF t \in done THEN None ELSE byToken[t]]
           /\ revoked' = revoked \cup done
    /\ UNCHANGED <<tokenOver, ipam, peers, rows, request, cur, spc, life>>

(* onSessionExpired for one session: the peer, the address, the row.       *)
ExpirePeer(s) ==
    /\ cur = None
    /\ cur' = s /\ swept' = swept \ {s} /\ spc' = "release"
    /\ RemovePeer(s.key)
    /\ UNCHANGED <<tokenOver, sessions, ipam, rows, request, life>>

ExpireRelease ==
    /\ spc = "release" /\ spc' = "row"
    /\ Release(cur.ip)
    /\ UNCHANGED <<tokenOver, sessions, peers, rows, request, swept, cur, restarts,
                   restored>>

ExpireRow ==
    /\ spc = "row" /\ spc' = "peer"
    /\ RevokeClient(cur.token)
    /\ cur' = None
    /\ UNCHANGED <<tokenOver, sessions, ipam, peers, request, swept, life>>

Sweeper ==
    \/ SweepOnce
    \/ \E s \in swept : ExpirePeer(s)
    \/ ExpireRelease
    \/ ExpireRow

(***************************************************************************)
(* Time.  A session ends with its token, or earlier when                   *)
(* MaxSessionDuration caps it.                                             *)
(***************************************************************************)
SessionsEnd(T) ==
    byToken' = [t \in Tokens |-> IF t \in T /\ byToken[t] # None
                                 THEN [key |-> byToken[t].key, ip |-> byToken[t].ip,
                                       over |-> TRUE]
                                 ELSE byToken[t]]

TokenExpires(t) ==
    /\ t \notin tokenOver
    /\ tokenOver' = tokenOver \cup {t}
    /\ SessionsEnd({t})
    /\ UNCHANGED <<revoked, ipam, peers, rows, request, sweeper, life>>

CapReached(t) ==
    /\ Capped /\ Live(t)
    /\ SessionsEnd({t})
    /\ UNCHANGED <<tokenOver, revoked, ipam, peers, rows, request, sweeper, life>>

(* Mutant: the rows are read and their addresses not reserved.             *)
RestartUnreserved(past) ==
    /\ restarts < Restarts /\ restarts' = restarts + 1
    /\ tokenOver \subseteq past
    /\ byToken' = [t \in Tokens |-> None] /\ revoked' = {} /\ dropped' = {}
    /\ used' = {} /\ next' = 2
    /\ restored' = {rows[t].ip : t \in {u \in Tokens \ past : rows[u] # None /\ ~rows[u].revoked}}
    /\ pc' = [h \in Handlers |-> "idle"]
    /\ tok' = [h \in Handlers |-> None]
    /\ key' = [h \in Handlers |-> None]
    /\ addr' = [h \in Handlers |-> None]
    /\ swept' = {} /\ cur' = None /\ spc' = "peer"
    /\ UNCHANGED <<tokenOver, peers, rows>>

(***************************************************************************)
(* The process dies and runs again.  The table and the kernel's peers      *)
(* survive; NewController reserves the address of every unrevoked row that *)
(* has not expired.  past are the expired rows: those of expired tokens,   *)
(* and any other whose session was capped, or that is in its last second   *)
(* (expires_at is stored in whole seconds).                                *)
(***************************************************************************)
Restart(past) ==
    /\ restarts < Restarts /\ restarts' = restarts + 1
    /\ tokenOver \subseteq past
    /\ byToken' = [t \in Tokens |-> None] /\ revoked' = {} /\ dropped' = {}
    /\ used' = {rows[t].ip : t \in {u \in Tokens \ past : rows[u] # None /\ ~rows[u].revoked}}
    /\ restored' = used'
    /\ next' = 2
    /\ pc' = [h \in Handlers |-> "idle"]
    /\ tok' = [h \in Handlers |-> None]
    /\ key' = [h \in Handlers |-> None]
    /\ addr' = [h \in Handlers |-> None]
    /\ swept' = {} /\ cur' = None /\ spc' = "peer"
    /\ UNCHANGED <<tokenOver, peers, rows>>

Next ==
    \/ \E h \in Handlers : Authorize(h) \/ Revoke(h)
    \/ Sweeper
    \/ \E t \in Tokens : TokenExpires(t) \/ CapReached(t)
    \/ \E past \in SUBSET Tokens : Restart(past)

Spec == Init /\ [][Next]_vars

(* A handler that was given a request runs to its end, and the sweeper     *)
(* ticks for as long as the process lives.                                 *)
Continue(h) == pc[h] # "idle" /\ (Authorize(h) \/ Revoke(h))
Fairness == (\A h \in Handlers : WF_vars(Continue(h))) /\ WF_vars(Sweeper)
FairSpec == Spec /\ Fairness

(***************************************************************************)
(* Properties.                                                             *)
(***************************************************************************)

(* Type invariant of the node's admission state.                           *)
TypeOK ==
    /\ tokenOver \subseteq Tokens
    /\ byToken \in [Tokens -> Session \cup {None}]
    /\ revoked \subseteq Tokens
    /\ used \subseteq Pool /\ next \in Pool
    /\ peers \in [Keys -> Pool \cup {None}]
    /\ rows \in [Tokens -> Row \cup {None}]
    /\ pc \in [Handlers -> {"idle", "allocate", "authorize", "install", "persist",
                            "refused", "revoke", "unpeer", "release", "unrow"}]
    /\ tok \in [Handlers -> Tokens \cup {None}]
    /\ key \in [Handlers -> Keys \cup {None}]
    /\ addr \in [Handlers -> Pool \cup {None}]
    /\ swept \subseteq Expired
    /\ cur \in Expired \cup {None}
    /\ spc \in {"peer", "release", "row"}
    /\ restarts \in 0..Restarts /\ restored \subseteq Pool /\ dropped \subseteq Pool

(* Who will give an address back: an Authorize that has not opened its     *)
(* session or was refused, a Revoke between the manager and the pool, or   *)
(* the sweeper; and an open session, through its own address or the one    *)
(* that a Revoke has read and not yet acted on.                            *)
Owning(h) == pc[h] \in {"authorize", "refused", "unpeer", "release"}
Sweeping == swept \cup (IF spc = "release" THEN {cur} ELSE {})
Holds(t, o) ==
    /\ byToken[t] # None
    /\ \/ byToken[t].ip = o
       \/ \E h \in Handlers : pc[h] = "revoke" /\ tok[h] = t /\ addr[h] = o

(* The pool never takes the address of an open session for a free one, so  *)
(* that each client is alone on its /32 (IPAM.Allocate and Release).       *)
LeaseHeld == \A t \in Tokens : byToken[t] # None => byToken[t].ip \in used

(* No two sessions share an address, whatever requests, revocations,       *)
(* sweeps and restarts interleave, and no other request holds an address   *)
(* of an open session: Controller never releases a lease twice while       *)
(* AddPeer does not fail (controller.go, Authorize and Revoke).            *)
LeaseUnique ==
    /\ LeaseHeld
    /\ \A t, u \in Tokens :
          t # u /\ byToken[t] # None /\ byToken[u] # None => byToken[t].ip # byToken[u].ip
    /\ \A t \in Tokens, h \in Handlers :
          byToken[t] # None /\ Owning(h) => addr[h] # byToken[t].ip

(* The addresses in use that somebody is to release.  Two kinds are lost:  *)
(* what NewController reserved; and the address of a session that had run  *)
(* to its end when Manager.Authorize put another in its place, or of the   *)
(* other one, when a request that read the first ends it.                  *)
Recoverable == used \ (restored \cup dropped)

(* Authorize, Revoke and the sweeper lose no lease between them.           *)
NoLeaseLost ==
    \A o \in Recoverable :
       \/ \E t \in Tokens : byToken[t] # None /\ byToken[t].ip = o
       \/ \E h \in Handlers : Owning(h) /\ addr[h] = o
       \/ \E s \in Sweeping : s.ip = o

(* The addresses of the rows NewController finds, unrevoked and not        *)
(* expired, are not given to others afterwards: it reserves them, and no   *)
(* request, refusal, revocation or sweep of the new process frees one.     *)
(* A client whose row was not written, or was written too late, is not     *)
(* among them.                                                             *)
RestoredKept ==
    /\ restored \subseteq used
    /\ \A t \in Tokens : byToken[t] # None => byToken[t].ip \notin restored

(* The abstract table: the address of the session of each token, and the   *)
(* addresses the process found in the database when it started.            *)
Table == INSTANCE LeaseTable WITH
             Clients <- Tokens, Addresses <- Pool, None <- None,
             lease <- [t \in Tokens |-> IF byToken[t] = None THEN None ELSE byToken[t].ip],
             kept <- restored

(* Authorize, Revoke, the sweeper and NewController (controller.go), each  *)
(* a sequence of calls under five locks, together implement a table that   *)
(* is changed in one step, while AddPeer does not fail: no address goes to *)
(* a client while another has it.                                          *)
ImplementsTable == Table!Spec

(* The inductive invariant behind LeaseUnique and RestoredKept.  A revoked *)
(* token is out for good and the locals of a request are set while they    *)
(* are needed; every address in use has at most one owner.                 *)
Locals ==
    /\ \A t \in revoked : byToken[t] = None
    /\ (spc = "peer") <=> (cur = None)
    /\ cur \notin swept
    /\ \A h \in Handlers :
          /\ pc[h] # "idle" => tok[h] \in Tokens /\ key[h] \in Keys
          /\ pc[h] \notin {"idle", "allocate"} => addr[h] \in Pool
          /\ pc[h] = "revoke" => byToken[tok[h]] # None \/ tok[h] \in revoked

SessionsOwn ==
    \A t \in Tokens : \A o \in Pool : Holds(t, o) =>
       /\ o \in used /\ o \notin restored
       /\ \A u \in Tokens : Holds(u, o) => t = u
       /\ \A h \in Handlers : Owning(h) => addr[h] # o
       /\ \A s \in Sweeping : s.ip # o

HandlersOwn ==
    \A h \in Handlers : Owning(h) =>
       /\ addr[h] \in used /\ addr[h] \notin restored
       /\ \A g \in Handlers : Owning(g) /\ addr[g] = addr[h] => g = h
       /\ \A s \in Sweeping : s.ip # addr[h]

SweeperOwns ==
    \A s \in Sweeping :
       /\ s.ip \in used /\ s.ip \notin restored
       /\ \A r \in Sweeping : r.ip = s.ip => r = s

LeaseInv ==
    /\ TypeOK /\ Locals
    /\ SessionsOwn /\ HandlersOwn /\ SweeperOwns
    /\ restored \subseteq used

(* Every address in use has exactly one owner, among the open sessions,    *)
(* the requests, the sweeper and what a restart reserved: Authorize,       *)
(* Revoke and the sweeper neither share a lease nor lose one               *)
(* (controller.go 164-245, 297-304).                                       *)
LeasesOwned == LeaseInv /\ NoLeaseLost

(* The capacity check is made before the session is opened and without a   *)
(* lock across the two: at most the other handlers slip past it.           *)
InFlight == {h \in Handlers : pc[h] \in {"allocate", "authorize"}}
CapacityBound == ActiveCount + Cardinality(InFlight) <= MaxClients - 1 + Cardinality(Handlers)

Quiet == (\A h \in Handlers : pc[h] = "idle") /\ swept = {} /\ cur = None

(* Sessions, leases, peers and rows stay in step, whatever fails: every    *)
(* address in use has somebody who will release it (Authorize, Revoke and  *)
(* the sweeper lose none between them); when nothing is in progress every  *)
(* session has its WireGuard peer at its own address; and a token whose    *)
(* row is revoked gets no session before the process ends (the single-use  *)
(* revocation map of session.Manager, which NewController starts empty).   *)
SessionsAccounted ==
    /\ NoLeaseLost
    /\ Quiet => \A t \in Tokens : byToken[t] # None => peers[byToken[t].key] = byToken[t].ip
    /\ \A t \in Tokens : restarts = 0 /\ rows[t] # None /\ rows[t].revoked => byToken[t] = None

(* Once every token has expired each address still in use is given back:   *)
(* the sweeper and the error paths of Authorize between them reach it.     *)
LeasesDrain ==
    \A o \in Pool : (tokenOver = Tokens /\ o \in Recoverable) ~> (o \notin Recoverable)
=============================================================================
