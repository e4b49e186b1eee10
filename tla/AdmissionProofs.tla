-------------------------- MODULE AdmissionProofs ---------------------------
(***************************************************************************)
(* Admission and revocation at a node, for every number of handlers,       *)
(* clients and restarts: tokens that were revoked, and the session, peer   *)
(* and database row of a client.                                           *)
(***************************************************************************)
EXTENDS NodeAccessProofs

(***************************************************************************)
(* Sessions, peers and rows.                                               *)
(***************************************************************************)

(* What a Revoke or the sweeper works on is in the revocation map, and so  *)
(* is the token of every revoked row while the process lives.              *)
RevokedInv ==
    /\ \A h \in Handlers : pc[h] \in {"unpeer", "release", "unrow"} => tok[h] \in revoked
    /\ \A s \in swept : s.token \in revoked
    /\ cur # None => cur.token \in revoked
    /\ restarts = 0 => \A t \in Tokens : rows[t] # None /\ rows[t].revoked => t \in revoked

(* Marking the row of a token in the revocation map revoked keeps this.    *)
LEMMA RowsFollow ==
    ASSUME TypeOK, RevokedInv, NEW t \in revoked, RevokeClient(t)
    PROVE  \A u \in Tokens : restarts = 0 /\ rows'[u] # None /\ rows'[u].revoked => u \in revoked
  <1>1. \A u \in Tokens : u # t => rows'[u] = rows[u]
    BY ZenonT(30) DEF RevokeClient, TypeOK
  <1> QED
    BY ZenonT(30), <1>1 DEF RevokedInv

(* A step of a handler that takes nothing out of the revocation map and    *)
(* marks no other row, and puts the token there before it ends a session.  *)
LEMMA RevokedCarried ==
    ASSUME TypeOK, RevokedInv, NEW h \in Handlers, Authorize(h) \/ Revoke(h),
           revoked \subseteq revoked', UNCHANGED <<sweeper, restarts>>,
           pc'[h] \in {"unpeer", "release", "unrow"} => tok'[h] \in revoked',
           \A t \in Tokens : restarts = 0 /\ rows'[t] # None /\ rows'[t].revoked => t \in revoked
    PROVE  RevokedInv'
  BY ZenonT(30), OthersStand DEF RevokedInv, sweeper

(* RevokedInv is inductive relative to the types.                          *)
LEMMA RevokedStep ==
    ASSUME TypeOK, Locals, RevokedInv, [Next]_vars
    PROVE  RevokedInv'
  <1> USE DEF Goto, Finish, sessions, ipam, life
  <1>0. /\ DOMAIN pc = Handlers /\ DOMAIN rows = Tokens
        /\ \A t \in Tokens : restarts = 0 /\ rows[t] # None /\ rows[t].revoked => t \in revoked
        /\ \A h \in Handlers : pc[h] \in {"unpeer", "release", "unrow"} => tok[h] \in revoked
    BY ZenonT(30) DEF TypeOK, RevokedInv
  <1>1. ASSUME NEW h \in Handlers, Authorize(h) PROVE RevokedInv'
    <2> DEFINE Still == /\ rows' = rows /\ revoked \subseteq revoked'
                        /\ UNCHANGED <<sweeper, restarts>>
                        /\ pc'[h] \notin {"unpeer", "release", "unrow"}
    <2>0. ASSUME Still PROVE RevokedInv'
      BY ZenonT(30), <1>0, <1>1, <2>0, RevokedCarried
    <2>1. ASSUME NEW r \in Requests, AuthorizeCheck(h, r) PROVE Still
      BY ZenonT(30), <1>0, <2>1 DEF AuthorizeCheck
    <2>2. ASSUME Allocate(h) PROVE Still
      BY ZenonT(30), <1>0, <2>2 DEF Allocate
    <2>3. ASSUME PoolExhausted(h) PROVE Still
      BY ZenonT(30), <1>0, <2>3 DEF PoolExhausted
    <2>4. ASSUME AuthorizeRefused(h) PROVE Still
      BY ZenonT(30), <1>0, <2>4 DEF AuthorizeRefused
    <2>5. ASSUME AuthorizeOpens(h) PROVE Still
      BY ZenonT(30), <1>0, <2>5 DEF AuthorizeOpens
    <2>6. ASSUME RollbackRevoke(h) PROVE Still
      BY ZenonT(30), <1>0, <2>6 DEF RollbackRevoke, ManagerRevoke
    <2>7. ASSUME ReleaseRefused(h) PROVE Still
      BY ZenonT(30), <1>0, <2>7 DEF ReleaseRefused
    <2>8. ASSUME InstallPeer(h) PROVE Still
      BY ZenonT(30), <1>0, <2>8 DEF InstallPeer
    <2>9. CASE UpsertClient(h)
      <3>1. /\ \A t \in Tokens : rows'[t] = rows[t] \/ rows'[t].revoked = FALSE
            /\ revoked' = revoked /\ UNCHANGED <<sweeper, restarts>> /\ pc'[h] = "idle"
        BY <1>0, <2>9 DEF UpsertClient
      <3> QED
        BY ZenonT(30), <1>0, <1>1, <3>1, RevokedCarried
    <2> HIDE DEF Still
    <2> QED
      BY ZenonT(30), <1>1, <2>0, <2>1, <2>2, <2>3, <2>4, <2>5, <2>6, <2>7, <2>8, <2>9
         DEF Authorize
  <1>2. ASSUME NEW h \in Handlers, Revoke(h) PROVE RevokedInv'
    <2> DEFINE Passes == /\ rows' = rows /\ revoked' = revoked /\ UNCHANGED <<sweeper, restarts>>
                         /\ pc'[h] \in {"unpeer", "release", "unrow"} =>
                               pc[h] \in {"unpeer", "release"} /\ tok'[h] = tok[h]
    <2>0. ASSUME Passes PROVE RevokedInv'
      BY ZenonT(30), <1>0, <1>2, <2>0, RevokedCarried
    <2>1. CASE RevokeSession(h)
      <3>1. /\ pc'[h] = "unpeer" /\ tok'[h] \in revoked' /\ rows' = rows
            /\ revoked \subseteq revoked' /\ UNCHANGED <<sweeper, restarts>>
        BY ZenonT(30), <1>0, <2>1 DEF RevokeSession, ManagerRevoke
      <3> QED
        BY ZenonT(30), <1>0, <1>2, <3>1, RevokedCarried
    <2>2. CASE RevokeRow(h)
      <3>1. /\ tok[h] \in revoked /\ RevokeClient(tok[h]) /\ pc'[h] = "idle"
            /\ revoked' = revoked /\ UNCHANGED <<sweeper, restarts>>
        BY ZenonT(30), <1>0, <2>2 DEF RevokeRow
      <3>2. \A t \in Tokens : restarts = 0 /\ rows'[t] # None /\ rows'[t].revoked => t \in revoked
        BY ZenonT(30), <3>1, RowsFollow
      <3> QED
        BY ZenonT(30), <1>2, <3>1, <3>2, RevokedCarried
    <2>3. ASSUME NEW t \in Tokens, RevokeGet(h, t) PROVE Passes
      BY ZenonT(30), <1>0, <2>3 DEF RevokeGet
    <2>4. ASSUME RevokeUnknown(h) PROVE Passes
      BY ZenonT(30), <1>0, <2>4 DEF RevokeUnknown
    <2>5. ASSUME RevokePeer(h) PROVE Passes
      BY ZenonT(30), <1>0, <2>5 DEF RevokePeer
    <2>6. ASSUME RevokeRelease(h) PROVE Passes
      BY ZenonT(30), <1>0, <2>6 DEF RevokeRelease
    <2> HIDE DEF Passes
    <2> QED
      BY ZenonT(30), <1>2, <2>0, <2>1, <2>2, <2>3, <2>4, <2>5, <2>6 DEF Revoke
  <1> USE DEF request, sweeper
  <1>3. CASE Sweeper
    <2>1. CASE SweepOnce
      <3>1. \A s \in swept' : s.token \in revoked'
        BY <2>1 DEF SweepOnce
      <3> QED
        BY ZenonT(30), <2>1, <3>1 DEF SweepOnce, RevokedInv
    <2>2. CASE ExpireRow
      <3>1. cur.token \in revoked /\ RevokeClient(cur.token)
        BY ZenonT(30), <2>2 DEF ExpireRow, Locals, RevokedInv
      <3>2. \A t \in Tokens : restarts = 0 /\ rows'[t] # None /\ rows'[t].revoked => t \in revoked
        BY ZenonT(30), <3>1, RowsFollow
      <3> QED
        BY ZenonT(30), <2>2, <3>2 DEF ExpireRow, RevokedInv
    <2>3. CASE ExpireRelease
      BY ZenonT(30), <2>3 DEF ExpireRelease, RevokedInv
    <2>4. ASSUME NEW s \in swept, ExpirePeer(s) PROVE RevokedInv'
      BY ZenonT(30), <2>4 DEF ExpirePeer, RevokedInv
    <2> QED
      BY ZenonT(30), <1>3, <2>1, <2>2, <2>3, <2>4 DEF Sweeper
  <1>4. ASSUME NEW t \in Tokens, TokenExpires(t) \/ CapReached(t) PROVE RevokedInv'
    BY ZenonT(30), <1>4 DEF TokenExpires, CapReached, RevokedInv
  <1>5. ASSUME NEW past \in SUBSET Tokens, Restart(past) PROVE RevokedInv'
    BY <1>5 DEF Restart, RevokedInv, TypeOK
  <1>6. CASE UNCHANGED vars
    BY ZenonT(30), <1>6 DEF vars, RevokedInv
  <1> QED
    BY ZenonT(30), <1>1, <1>2, <1>3, <1>4, <1>5, <1>6 DEF Next

(* A token whose row is revoked has no session before the process ends.    *)
RevokedStayOut ==
    \A t \in Tokens : restarts = 0 /\ rows[t] # None /\ rows[t].revoked => byToken[t] = None

(* RevokedInv holds throughout.                                            *)
LEMMA RevokedInvariant == Spec => []RevokedInv
  <1>1. Init => RevokedInv
    BY DEF Init, RevokedInv
  <1>2. Typed /\ RevokedInv /\ [Next]_vars => RevokedInv'
    BY ZenonT(30), RevokedStep DEF Typed
  <1> QED
    BY <1>1, <1>2, TypesInvariant, PTL DEF Spec

(* Single use: once a client's row is marked revoked its token opens no    *)
(* session until the process restarts, whatever fails (session.go, the     *)
(* map of revoked tokens; controller.go, Revoke and onSessionExpired).     *)
THEOREM RevokedTokensStayOut == Spec => []RevokedStayOut
  <1>1. Typed /\ RevokedInv => RevokedStayOut
    BY ZenonT(30) DEF Typed, RevokedInv, RevokedStayOut, Locals
  <1> QED
    BY <1>1, TypesInvariant, RevokedInvariant, PTL

(* The token and the key are those of one request.                         *)
Pair(t, k) == \E r \in Requests : r[1] = t /\ r[2] = k

(* A session has its peer, or the request that opened it is about to       *)
(* install it; a session is over before its token only when it is capped.  *)
(* Every key the controller works on came with the token.                  *)
Installing(h, t) ==
    /\ pc[h] = "install" /\ tok[h] = t
    /\ key[h] = byToken[t].key /\ addr[h] = byToken[t].ip

PeerOf(t) ==
    /\ Pair(t, byToken[t].key)
    /\ ~Capped /\ byToken[t].over => t \in tokenOver
    /\ peers[byToken[t].key] = byToken[t].ip \/ \E h \in Handlers : Installing(h, t)

PeersInv ==
    /\ \A t \in Tokens : byToken[t] # None => PeerOf(t)
    /\ \A h \in Handlers :
          /\ pc[h] # "idle" => Pair(tok[h], key[h])
          /\ pc[h] = "install" => tok[h] \in revoked \/
                (byToken[tok[h]] # None /\ Installing(h, tok[h]))
    /\ \A s \in swept : Pair(s.token, s.key)

(* No two clients have the same key.                                       *)
OneTokenPerKey == \A q, r \in Requests : q[2] = r[2] => q[1] = r[1]

(* A session that is over makes way for another only when sessions are     *)
(* capped; then requests are taken to come one at a time.                  *)
OneAtATime == Capped => \A g, h \in Handlers : g = h

(* A step that leaves the table, the peers and the requests alone keeps    *)
(* PeersInv.                                                               *)
LEMMA PeersUntouched ==
    ASSUME PeersInv, UNCHANGED <<tokenOver, byToken, revoked, peers, swept, pc, tok, key, addr>>
    PROVE  PeersInv'
  BY ZenonT(30) DEF PeersInv, PeerOf, Installing

(* A step of a handler outside of the table and the peers.                 *)
LEMMA PeersCarried ==
    ASSUME TypeOK, PeersInv, NEW h \in Handlers, Authorize(h) \/ Revoke(h),
           UNCHANGED <<tokenOver, byToken, revoked, peers, swept>>,
           pc[h] # "install", pc'[h] # "install",
           pc'[h] # "idle" => Pair(tok'[h], key'[h])
    PROVE  PeersInv'
  <1>1. \A g \in Handlers : g # h => /\ pc'[g] = pc[g] /\ tok'[g] = tok[g]
                                     /\ key'[g] = key[g] /\ addr'[g] = addr[g]
    BY ZenonT(30), OthersStand
  <1>2. \A g \in Handlers, t \in Tokens : Installing(g, t) => Installing(g, t)'
    BY ZenonT(30), <1>1 DEF Installing
  <1>3. \A t \in Tokens : byToken'[t] # None => PeerOf(t)'
    BY ZenonT(30), <1>2 DEF PeersInv, PeerOf
  <1>4. ASSUME NEW g \in Handlers, pc'[g] = "install"
        PROVE  tok'[g] \in revoked' \/ (byToken'[tok'[g]] # None /\ Installing(g, tok[g])')
    BY <1>1, <1>4 DEF PeersInv, Installing
  <1> QED
    BY ZenonT(30), <1>1, <1>3, <1>4 DEF PeersInv

(* A handler that takes a session out of the table.                        *)
LEMMA PeersRevoked ==
    ASSUME TypeOK, PeersInv, NEW h \in Handlers, Authorize(h) \/ Revoke(h),
           ManagerRevoke(tok[h]), UNCHANGED <<tokenOver, peers, swept, tok, key, addr>>,
           pc[h] # "idle", pc'[h] # "install"
    PROVE  PeersInv'
  <1>1. \A g \in Handlers : g # h => pc'[g] = pc[g]
    BY ZenonT(30), OthersStand
  <1>2. \A t \in Tokens : t # tok[h] => byToken'[t] = byToken[t]
    BY ZenonT(30), RequestDomains DEF ManagerRevoke
  <1>3. tok[h] \in Tokens => byToken'[tok[h]] = None
    BY ZenonT(30), RequestDomains DEF ManagerRevoke
  <1>4. revoked \subseteq revoked' /\ (byToken[tok[h]] # None => tok[h] \in revoked')
    BY ZenonT(30) DEF ManagerRevoke
  <1>5. \A g \in Handlers, t \in Tokens : t # tok[h] /\ Installing(g, t) => Installing(g, t)'
    BY ZenonT(30), <1>1, <1>2 DEF Installing
  <1>6. \A t \in Tokens : byToken'[t] # None => PeerOf(t)'
    BY <1>2, <1>3, <1>5 DEF PeersInv, PeerOf
  <1>7. ASSUME NEW g \in Handlers, pc'[g] = "install"
        PROVE  tok'[g] \in revoked' \/ (byToken'[tok'[g]] # None /\ Installing(g, tok[g])')
    <2>1. g # h /\ pc[g] = "install"
      BY ZenonT(30), <1>1, <1>7
    <2>2. CASE tok[g] = tok[h]
      BY ZenonT(30), <1>4, <2>1, <2>2 DEF PeersInv
    <2>3. CASE tok[g] # tok[h]
      <3>1. byToken'[tok[g]] = byToken[tok[g]]
        BY <2>3, RequestDomains DEF ManagerRevoke
      <3> QED
        BY ZenonT(30), <1>4, <1>7, <2>1, <3>1 DEF PeersInv, Installing
    <2> QED
      BY ZenonT(30), <2>2, <2>3
  <1> QED
    BY ZenonT(30), <1>1, <1>6, <1>7 DEF PeersInv

(* A peer is removed when its token is in the revocation map, so that no   *)
(* session has its key.                                                    *)
LEMMA PeerUnused ==
    ASSUME TypeOK, Locals, PeersInv, OneTokenPerKey, NEW u \in revoked, NEW k \in Keys,
           Pair(u, k), RemovePeer(k)
    PROVE  \A t \in Tokens : byToken[t] # None => peers'[byToken[t].key] = peers[byToken[t].key]
  <1>1. \A t \in Tokens : byToken[t] # None => byToken[t].key # k
    BY DEF Locals, PeersInv, PeerOf, Pair, OneTokenPerKey
  <1>2. \A j \in Keys : j # k => peers'[j] = peers[j]
    BY ZenonT(30) DEF RemovePeer, TypeOK
  <1> QED
    BY ZenonT(30), <1>1, <1>2, RecordFacts DEF TypeOK

(* The steps of Authorize.                                                 *)
LEMMA AuthorizePeers ==
    ASSUME TypeOK, Locals, PeersInv, OneTokenPerKey, OneAtATime,
           NEW h \in Handlers, Authorize(h)
    PROVE  PeersInv'
  <1> USE DEF Goto, Finish, sessions, ipam, sweeper, life
  <1>0. /\ DOMAIN pc = Handlers /\ DOMAIN tok = Handlers /\ DOMAIN key = Handlers
        /\ pc[h] # "idle" => Pair(tok[h], key[h])
    BY ZenonT(30) DEF TypeOK, PeersInv
  <1>1. ASSUME NEW r \in Requests, AuthorizeCheck(h, r) PROVE PeersInv'
    <2>1. /\ pc[h] = "idle" /\ pc'[h] = "allocate" /\ tok'[h] = r[1] /\ key'[h] = r[2]
          /\ UNCHANGED <<tokenOver, byToken, revoked, peers, swept>>
      BY ZenonT(30), <1>0, <1>1 DEF AuthorizeCheck
    <2>2. Pair(tok'[h], key'[h])
      BY ZenonT(30), <2>1 DEF Pair
    <2> QED
      BY ZenonT(30), <2>1, <2>2, PeersCarried
  <1>2. CASE Allocate(h)
    BY ZenonT(30), <1>0, <1>2, PeersCarried DEF Allocate
  <1>3. CASE PoolExhausted(h)
    BY ZenonT(30), <1>0, <1>3, PeersCarried DEF PoolExhausted
  <1>4. CASE AuthorizeRefused(h)
    BY ZenonT(30), <1>0, <1>4, PeersCarried DEF AuthorizeRefused
  <1>5. CASE AuthorizeOpens(h)
    <2> DEFINE s == [key |-> key[h], ip |-> addr[h], over |-> FALSE]
    <2>0. tok[h] \in Tokens /\ key[h] \in Keys /\ addr[h] \in Pool
      BY ZenonT(30), <1>5 DEF AuthorizeOpens, Locals
    <2>1. /\ tok[h] \in Tokens /\ s # None
          /\ s.ip = addr[h] /\ s.key = key[h] /\ s.over = FALSE
      BY ZenonT(30), <2>0, OpenedFacts
    <2>2. byToken' = [byToken EXCEPT ![tok[h]] = s]
      BY ZenonT(30), <1>5 DEF AuthorizeOpens
    <2> HIDE DEF s
    <2>3. \A t \in Tokens : byToken'[t] = IF t = tok[h] THEN s ELSE byToken[t]
      BY ZenonT(30), <2>1, <2>2 DEF TypeOK
    <2>4. UNCHANGED <<tokenOver, revoked, peers, tok, key, addr, swept>>
      BY ZenonT(30), <1>5 DEF AuthorizeOpens
    <2>5. /\ pc[h] = "authorize" /\ pc'[h] = "install"
          /\ \A g \in Handlers : g # h => pc'[g] = pc[g]
      BY ZenonT(30), <1>5 DEF AuthorizeOpens, TypeOK
    <2>6. Installing(h, tok[h])'
      BY ZenonT(30), <2>1, <2>3, <2>4, <2>5 DEF Installing
    <2>7. \A g \in Handlers : pc[g] = "install" /\ tok[g] = tok[h] => g = h
      <3> SUFFICES ASSUME NEW g \in Handlers, pc[g] = "install", tok[g] = tok[h], g # h
                   PROVE  FALSE
        BY ZenonT(30)
      <3>1. ~Capped
        BY ZenonT(30) DEF OneAtATime
      <3>2. tok[h] \notin revoked /\ tok[h] \notin tokenOver /\ ~Live(tok[h])
        BY ZenonT(30), <1>5 DEF AuthorizeOpens
      <3>3. byToken[tok[h]] # None /\ byToken[tok[h]].over
        BY ZenonT(30), <3>2 DEF PeersInv, Live
      <3> QED
        BY ZenonT(30), <2>1, <3>1, <3>2, <3>3 DEF PeersInv, PeerOf
    <2>8. ASSUME NEW t \in Tokens, byToken'[t] # None PROVE PeerOf(t)'
      <3>1. CASE t = tok[h]
        <4>1. Pair(tok[h], key[h])
          BY ZenonT(30), <2>5 DEF PeersInv
        <4> QED
          BY ZenonT(30), <2>1, <2>3, <2>4, <2>6, <3>1, <4>1 DEF PeerOf, Pair
      <3>2. CASE t # tok[h]
        <4>1. byToken'[t] = byToken[t] /\ PeerOf(t)
          BY ZenonT(30), <2>3, <2>8, <3>2 DEF PeersInv
        <4>2. \A g \in Handlers : Installing(g, t) => Installing(g, t)'
          BY ZenonT(30), <2>4, <2>5, <3>2, <4>1 DEF Installing
        <4> QED
          BY ZenonT(30), <2>4, <4>1, <4>2 DEF PeerOf, Pair
      <3> QED
        BY ZenonT(30), <3>1, <3>2
    <2>9. ASSUME NEW g \in Handlers, pc'[g] = "install"
          PROVE  tok'[g] \in revoked' \/ (byToken'[tok'[g]] # None /\ Installing(g, tok[g])')
      <3>1. CASE g = h
        BY ZenonT(30), <2>1, <2>3, <2>4, <2>6, <3>1
      <3>2. CASE g # h
        <4>1. pc[g] = "install" /\ tok[g] # tok[h] /\ tok[g] \in Tokens
          BY ZenonT(30), <2>5, <2>7, <2>9, <3>2 DEF Locals
        <4> QED
          BY ZenonT(30), <2>3, <2>4, <2>5, <3>2, <4>1 DEF PeersInv, Installing
      <3> QED
        BY ZenonT(30), <3>1, <3>2
    <2> QED
      BY ZenonT(30), <2>4, <2>5, <2>8, <2>9 DEF PeersInv, Pair
  <1>6. CASE RollbackRevoke(h)
    BY ZenonT(30), <1>0, <1>6, PeersRevoked DEF RollbackRevoke
  <1>7. CASE ReleaseRefused(h)
    BY ZenonT(30), <1>0, <1>7, PeersCarried DEF ReleaseRefused
  <1>8. CASE InstallPeer(h)
    <2>1. /\ pc[h] = "install" /\ pc'[h] = "persist" /\ Pair(tok[h], key[h]) /\ key[h] \in Keys
          /\ peers' = [peers EXCEPT ![key[h]] = addr[h]]
          /\ UNCHANGED <<tokenOver, byToken, revoked, swept, tok, key, addr>>
      BY ZenonT(30), <1>0, <1>8 DEF InstallPeer, AddPeer, Locals
    <2>2. \A g \in Handlers : g # h => pc'[g] = pc[g]
      BY ZenonT(30), OthersStand
    <2>3. /\ peers'[key[h]] = addr[h]
          /\ \A k \in Keys : k # key[h] => peers'[k] = peers[k]
      BY ZenonT(30), <2>1 DEF TypeOK
    <2>4. ASSUME NEW t \in Tokens, byToken[t] # None PROVE PeerOf(t)'
      <3>1. PeerOf(t)
        BY ZenonT(30), <2>4 DEF PeersInv
      <3>2. CASE t = tok[h]
        <4>1. Installing(h, tok[h])
          BY ZenonT(30), <2>1, <2>4, <3>2 DEF PeersInv, Locals
        <4> QED
          BY ZenonT(30), <2>1, <2>3, <3>1, <3>2, <4>1 DEF PeerOf, Installing
      <3>3. CASE t # tok[h]
        <4>1. byToken[t].key \in Keys /\ byToken[t].key # key[h]
          BY <2>1, <2>4, <3>1, <3>3, RecordFacts DEF PeerOf, Pair, OneTokenPerKey, TypeOK
        <4>2. \A g \in Handlers : Installing(g, t) => Installing(g, t)'
          BY ZenonT(30), <2>1, <2>2, <3>3 DEF Installing
        <4> QED
          BY ZenonT(30), <2>1, <2>3, <3>1, <4>1, <4>2 DEF PeerOf
      <3> QED
        BY ZenonT(30), <3>2, <3>3
    <2>5. ASSUME NEW g \in Handlers, pc'[g] = "install"
          PROVE  tok'[g] \in revoked' \/ (byToken'[tok'[g]] # None /\ Installing(g, tok[g])')
      BY ZenonT(30), <2>1, <2>2, <2>5 DEF PeersInv, Installing
    <2> QED
      BY ZenonT(30), <2>1, <2>2, <2>4, <2>5 DEF PeersInv
  <1>9. CASE UpsertClient(h)
    BY ZenonT(30), <1>0, <1>9, PeersCarried DEF UpsertClient
  <1> QED
    BY ZenonT(30), <1>1, <1>2, <1>3, <1>4, <1>5, <1>6, <1>7, <1>8, <1>9 DEF Authorize

(* The steps of Revoke, and of the sweeper.                                *)
LEMMA RevokePeers ==
    ASSUME TypeOK, Locals, RevokedInv, PeersInv, OneTokenPerKey, NEW h \in Handlers, Revoke(h)
    PROVE  PeersInv'
  <1> USE DEF Goto, Finish, sessions, ipam, sweeper, life
  <1>0. /\ DOMAIN pc = Handlers /\ DOMAIN tok = Handlers /\ DOMAIN key = Handlers
        /\ pc[h] # "idle" => Pair(tok[h], key[h])
    BY ZenonT(30) DEF TypeOK, PeersInv
  <1>1. ASSUME NEW t \in Tokens, RevokeGet(h, t) PROVE PeersInv'
    <2>1. /\ pc[h] = "idle" /\ pc'[h] = "revoke" /\ tok'[h] = t /\ key'[h] = byToken[t].key
          /\ byToken[t] # None /\ UNCHANGED <<tokenOver, byToken, revoked, peers, swept>>
      BY ZenonT(30), <1>0, <1>1 DEF RevokeGet
    <2>2. Pair(tok'[h], key'[h])
      BY ZenonT(30), <2>1 DEF PeersInv, PeerOf
    <2> QED
      BY ZenonT(30), <2>1, <2>2, PeersCarried
  <1>2. CASE RevokeSession(h)
    BY ZenonT(30), <1>0, <1>2, PeersRevoked DEF RevokeSession
  <1>3. CASE RevokeUnknown(h)
    BY ZenonT(30), <1>0, <1>3, PeersCarried DEF RevokeUnknown
  <1>4. CASE RevokePeer(h)
    <2>1. tok[h] \in revoked /\ Pair(tok[h], key[h]) /\ key[h] \in Keys /\ RemovePeer(key[h])
      BY ZenonT(30), <1>4 DEF RevokePeer, RevokedInv, PeersInv, Locals
    <2>2. \A t \in Tokens : byToken[t] # None => peers'[byToken[t].key] = peers[byToken[t].key]
      BY ZenonT(30), <2>1, PeerUnused
    <2>3. /\ UNCHANGED <<tokenOver, byToken, revoked, tok, key, addr, swept>>
          /\ pc[h] = "unpeer" /\ pc'[h] = "release"
          /\ \A g \in Handlers : g # h => pc'[g] = pc[g]
      BY ZenonT(30), <1>0, <1>4, OthersStand DEF RevokePeer
    <2>4. \A g \in Handlers, t \in Tokens : Installing(g, t) => Installing(g, t)'
      BY ZenonT(30), <2>3 DEF Installing
    <2>5. \A t \in Tokens : byToken'[t] # None => PeerOf(t)'
      BY ZenonT(30), <2>2, <2>3, <2>4 DEF PeersInv, PeerOf
    <2>6. ASSUME NEW g \in Handlers, pc'[g] = "install"
          PROVE  tok'[g] \in revoked' \/ (byToken'[tok'[g]] # None /\ Installing(g, tok[g])')
      BY ZenonT(30), <2>3, <2>6 DEF PeersInv, Installing
    <2> QED
      BY ZenonT(30), <1>0, <2>3, <2>5, <2>6 DEF PeersInv
  <1>5. CASE RevokeRelease(h)
    BY ZenonT(30), <1>0, <1>5, PeersCarried DEF RevokeRelease
  <1>6. CASE RevokeRow(h)
    BY ZenonT(30), <1>0, <1>6, PeersCarried DEF RevokeRow
  <1> QED
    BY ZenonT(30), <1>1, <1>2, <1>3, <1>4, <1>5, <1>6 DEF Revoke

(* The sweeper removes the peers of the rows it removes.                   *)
LEMMA SweeperPeers ==
    ASSUME TypeOK, Locals, RevokedInv, PeersInv, OneTokenPerKey, Sweeper
    PROVE  PeersInv'
  <1> USE DEF sessions, ipam, request, life
  <1>1. CASE SweepOnce
    <2> DEFINE done == {t \in Tokens : byToken[t] # None /\ byToken[t].over}
    <2>1. /\ \A t \in Tokens : byToken'[t] = IF t \in done THEN None ELSE byToken[t]
          /\ revoked' = revoked \cup done
          /\ UNCHANGED <<tokenOver, peers, pc, tok, key, addr>>
      BY ZenonT(30), <1>1 DEF SweepOnce
    <2>2. \A s \in swept' : Pair(s.token, s.key)
      <3>1. \A t \in done : Pair(t, byToken[t].key)
        BY ZenonT(30) DEF PeersInv, PeerOf
      <3>2. swept' = {[token |-> t, key |-> byToken[t].key, ip |-> byToken[t].ip] : t \in done}
        BY ZenonT(30), <1>1 DEF SweepOnce
      <3> HIDE DEF done
      <3> QED
        BY <3>1, <3>2
    <2>3. \A h \in Handlers : pc[h] = "install" => tok[h] \in Tokens
      BY ZenonT(30) DEF Locals
    <2> HIDE DEF done
    <2>4. \A g \in Handlers, t \in Tokens : t \notin done /\ Installing(g, t) => Installing(g, t)'
      BY ZenonT(30), <2>1 DEF Installing
    <2>5. \A t \in Tokens : byToken'[t] # None => PeerOf(t)'
      BY ZenonT(30), <2>1, <2>4 DEF PeersInv, PeerOf
    <2>6. ASSUME NEW g \in Handlers, pc'[g] = "install"
          PROVE  tok'[g] \in revoked' \/ (byToken'[tok'[g]] # None /\ Installing(g, tok[g])')
      BY ZenonT(30), <2>1, <2>3, <2>6 DEF PeersInv, Installing
    <2>7. \A g \in Handlers : pc'[g] # "idle" => Pair(tok'[g], key'[g])
      BY ZenonT(30), <2>1 DEF PeersInv
    <2> QED
      BY ZenonT(30), <2>1, <2>2, <2>5, <2>6, <2>7 DEF PeersInv
  <1>2. ASSUME NEW s \in swept, ExpirePeer(s) PROVE PeersInv'
    <2>1. s.token \in revoked /\ Pair(s.token, s.key) /\ s.key \in Keys /\ RemovePeer(s.key)
      BY ZenonT(30), <1>2, RecordFacts DEF ExpirePeer, RevokedInv, PeersInv, TypeOK
    <2>2. \A t \in Tokens : byToken[t] # None => peers'[byToken[t].key] = peers[byToken[t].key]
      BY ZenonT(30), <2>1, PeerUnused
    <2>3. UNCHANGED <<tokenOver, byToken, revoked, pc, tok, key, addr>> /\ swept' \subseteq swept
      BY ZenonT(30), <1>2 DEF ExpirePeer
    <2>4. \A g \in Handlers, t \in Tokens : Installing(g, t)' <=> Installing(g, t)
      BY ZenonT(30), <2>3 DEF Installing
    <2>5. \A t \in Tokens : byToken'[t] # None => PeerOf(t)'
      BY ZenonT(30), <2>2, <2>3, <2>4 DEF PeersInv, PeerOf
    <2>6. ASSUME NEW g \in Handlers, pc'[g] = "install"
          PROVE  tok'[g] \in revoked' \/ (byToken'[tok'[g]] # None /\ Installing(g, tok[g])')
      BY ZenonT(30), <2>3, <2>6 DEF PeersInv, Installing
    <2>7. \A g \in Handlers : pc'[g] # "idle" => Pair(tok'[g], key'[g])
      BY ZenonT(30), <2>3 DEF PeersInv
    <2>8. \A q \in swept' : Pair(q.token, q.key)
      BY ZenonT(30), <2>3 DEF PeersInv
    <2> QED
      BY ZenonT(30), <2>3, <2>5, <2>6, <2>7, <2>8 DEF PeersInv
  <1>3. CASE ExpireRelease
    BY ZenonT(30), <1>3, PeersUntouched DEF ExpireRelease
  <1>4. CASE ExpireRow
    BY ZenonT(30), <1>4, PeersUntouched DEF ExpireRow
  <1> QED
    BY ZenonT(30), <1>1, <1>2, <1>3, <1>4 DEF Sweeper

(* PeersInv is inductive relative to the types and RevokedInv.             *)
LEMMA PeersStep ==
    ASSUME TypeOK, Locals, RevokedInv, PeersInv, OneTokenPerKey, OneAtATime, [Next]_vars
    PROVE  PeersInv'
  <1>1. ASSUME NEW h \in Handlers, Authorize(h) \/ Revoke(h) PROVE PeersInv'
    BY ZenonT(30), <1>1, AuthorizePeers, RevokePeers
  <1>2. CASE Sweeper
    BY ZenonT(30), <1>2, SweeperPeers
  <1>3. ASSUME NEW t \in Tokens, TokenExpires(t) \/ CapReached(t) PROVE PeersInv'
    <2> USE DEF request, sweeper
    <2>1. /\ SessionsEnd({t}) /\ UNCHANGED <<revoked, peers, pc, tok, key, addr, swept>>
          /\ tokenOver \subseteq tokenOver' /\ (~Capped => t \in tokenOver')
      BY ZenonT(30), <1>3 DEF TokenExpires, CapReached
    <2>2. \A u \in Tokens : byToken[u] # None =>
             /\ byToken'[u] # None /\ byToken'[u].key = byToken[u].key
             /\ byToken'[u].ip = byToken[u].ip
             /\ byToken'[u].over = byToken[u].over \/ u = t
      BY ZenonT(30), <2>1, SessionsEndFacts DEF SessionsEnd
    <2>3. \A u \in Tokens : byToken[u] = None => byToken'[u] = None
      BY ZenonT(30), <2>1 DEF SessionsEnd
    <2>4. \A u \in Tokens, g \in Handlers :
             byToken[u] # None /\ Installing(g, u) => Installing(g, u)'
      BY ZenonT(30), <2>1, <2>2 DEF Installing
    <2>5. ASSUME NEW u \in Tokens, byToken'[u] # None PROVE PeerOf(u)'
      <3>1. byToken[u] # None /\ PeerOf(u)
        BY ZenonT(30), <2>3, <2>5 DEF PeersInv
      <3>2. /\ byToken'[u].key = byToken[u].key /\ byToken'[u].ip = byToken[u].ip
            /\ byToken'[u].over = byToken[u].over \/ u = t
        BY ZenonT(30), <2>2, <3>1
      <3> QED
        BY ZenonT(30), <2>1, <2>4, <3>1, <3>2 DEF PeerOf
    <2>6. \A g \in Handlers : pc[g] = "install" => tok[g] \in Tokens
      BY ZenonT(30) DEF Locals
    <2>7. ASSUME NEW g \in Handlers, pc'[g] = "install"
          PROVE  tok'[g] \in revoked' \/ (byToken'[tok'[g]] # None /\ Installing(g, tok[g])')
      BY ZenonT(30), <2>1, <2>2, <2>4, <2>6, <2>7 DEF PeersInv
    <2>8. \A g \in Handlers : pc'[g] # "idle" => Pair(tok'[g], key'[g])
      BY ZenonT(30), <2>1 DEF PeersInv
    <2>9. \A q \in swept' : Pair(q.token, q.key)
      BY ZenonT(30), <2>1 DEF PeersInv
    <2> QED
      BY ZenonT(30), <2>1, <2>5, <2>7, <2>8, <2>9 DEF PeersInv
  <1>4. ASSUME NEW past \in SUBSET Tokens, Restart(past) PROVE PeersInv'
    BY ZenonT(30), <1>4 DEF Restart, PeersInv
  <1>5. CASE UNCHANGED vars
    BY ZenonT(30), <1>5, PeersUntouched DEF vars, sessions, ipam, request, sweeper, life
  <1> QED
    BY ZenonT(30), <1>1, <1>2, <1>3, <1>4, <1>5 DEF Next

(* Sessions, leases, peers and rows stay in step, whatever fails and       *)
(* however often the process restarts, when no two clients share a key     *)
(* and, where sessions are capped, requests come one at a time             *)
(* (controller.go; session.go).                                            *)
THEOREM SessionsInStep ==
    ASSUME OneTokenPerKey, OneAtATime
    PROVE  Spec => []SessionsAccounted
  <1>1. Init => PeersInv
    BY DEF Init, PeersInv
  <1>2. Typed /\ RevokedInv /\ PeersInv /\ [Next]_vars => PeersInv'
    BY ZenonT(30), PeersStep DEF Typed
  <1>3. NoLeaseLost /\ RevokedStayOut /\ PeersInv => SessionsAccounted
    BY ZenonT(30) DEF RevokedStayOut, PeersInv, PeerOf, Installing, SessionsAccounted, Quiet
  <1> QED
    BY <1>1, <1>2, <1>3, TypesInvariant, LeasesNeverLost, RevokedInvariant, RevokedTokensStayOut,
       PTL DEF Spec

=============================================================================
