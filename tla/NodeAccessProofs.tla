-------------------------- MODULE NodeAccessProofs --------------------------
(***************************************************************************)
(* Admission on a node, for every number of handlers, clients and restarts *)
(* and whatever fails: the types, and that no lease is lost but with its   *)
(* session.                                                                *)
(* LeaseProofs and AdmissionProofs build on this module.                   *)
(***************************************************************************)
EXTENDS NodeAccess, TLAPS

(* The pool has the addresses the cursor moves over, and the absent value  *)
(* is none of the present ones.                                            *)
LEMMA PoolFacts ==
    /\ 2 \in Pool
    /\ \A o \in Pool : After(o) \in Pool
    /\ None \notin Pool /\ None \notin Tokens /\ None \notin Keys
    /\ None \notin Session /\ None \notin Expired /\ None \notin Row
    /\ \A r \in Requests : r[1] \in Tokens /\ r[2] \in Keys
  BY NodeAssumption, NoneAssumption DEF Pool, After, Tokens, Keys

(* The fields of sessions and of the sweeper's snapshots.                  *)
LEMMA RecordFacts ==
    /\ \A s \in Session : s.key \in Keys /\ s.ip \in Pool /\ s.over \in BOOLEAN
    /\ \A k \in Keys, o \in Pool, b \in BOOLEAN :
          [key |-> k, ip |-> o, over |-> b] \in Session
    /\ \A s \in Expired : s.token \in Tokens /\ s.key \in Keys /\ s.ip \in Pool
    /\ \A t \in Tokens, k \in Keys, o \in Pool :
          [token |-> t, key |-> k, ip |-> o] \in Expired
    /\ \A o \in Pool, b \in BOOLEAN : [ip |-> o, revoked |-> b] \in Row
    /\ \A r \in Row : r.ip \in Pool
  BY ZenonT(30) DEF Session, Expired, Row

(* The session that Authorize opens.                                       *)
LEMMA OpenedFacts ==
    ASSUME NEW k \in Keys, NEW o \in Pool
    PROVE  LET s == [key |-> k, ip |-> o, over |-> FALSE]
           IN  s # None /\ s.key = k /\ s.ip = o /\ s.over = FALSE
  <1> DEFINE s == [key |-> k, ip |-> o, over |-> FALSE]
  <1>1. s \in Session
    BY ZenonT(30) DEF Session
  <1>2. s # None
    BY ZenonT(30), <1>1, PoolFacts
  <1>3. s.key = k /\ s.ip = o /\ s.over = FALSE
    BY ZenonT(30)
  <1> QED
    BY ZenonT(30), <1>2, <1>3

(* The initial state satisfies the invariant: nobody owns anything.        *)
LEMMA LeaseInit == Init => LeaseInv
  <1> SUFFICES ASSUME Init PROVE LeaseInv
    BY ZenonT(30)
  <1>1. TypeOK
    BY PoolFacts, NodeAssumption DEF Init, TypeOK
  <1>2. Locals
    BY ZenonT(30) DEF Init, Locals
  <1>3. SessionsOwn /\ HandlersOwn /\ SweeperOwns /\ restored \subseteq used
    BY ZenonT(30) DEF Init, SessionsOwn, HandlersOwn, SweeperOwns, Holds, Owning, Sweeping
  <1> QED
    BY ZenonT(30), <1>1, <1>2, <1>3 DEF LeaseInv

(* Marking a row revoked leaves a row.                                     *)
LEMMA RevokeClientType ==
    ASSUME TypeOK, NEW t \in Tokens, RevokeClient(t)
    PROVE  rows' \in [Tokens -> Row \cup {None}]
  <1>1. CASE rows[t] = None
    BY ZenonT(30), <1>1 DEF RevokeClient, TypeOK
  <1>2. CASE rows[t] # None
    <2>1. rows[t] \in Row
      BY ZenonT(30), <1>2 DEF TypeOK
    <2>2. [ip |-> rows[t].ip, revoked |-> TRUE] \in Row
      BY ZenonT(30), <2>1, RecordFacts
    <2> QED
      BY ZenonT(30), <1>2, <2>2 DEF RevokeClient, TypeOK
  <1> QED
    BY ZenonT(30), <1>1, <1>2

(* The end of a session changes neither whose it is nor its address.       *)
LEMMA SessionsEndFacts ==
    ASSUME TypeOK, NEW T, SessionsEnd(T)
    PROVE  /\ byToken' \in [Tokens -> Session \cup {None}]
           /\ \A t \in Tokens : byToken'[t] = None <=> byToken[t] = None
           /\ \A t \in Tokens : byToken[t] # None => byToken'[t].ip = byToken[t].ip
  <1> DEFINE ended(t) == [key |-> byToken[t].key, ip |-> byToken[t].ip, over |-> TRUE]
  <1>1. \A t \in Tokens : byToken[t] # None => ended(t) \in Session
    BY ZenonT(30), RecordFacts DEF TypeOK
  <1>2. \A t \in Tokens : ended(t).ip = byToken[t].ip
    BY ZenonT(30)
  <1>3. byToken' = [t \in Tokens |-> IF t \in T /\ byToken[t] # None
                                     THEN ended(t) ELSE byToken[t]]
    BY ZenonT(30) DEF SessionsEnd
  <1> HIDE DEF ended
  <1> QED
    BY <1>1, <1>2, <1>3, PoolFacts DEF TypeOK

(* A written row is a row.                                                 *)
LEMMA UpsertType ==
    ASSUME TypeOK, NEW h, tok[h] \in Tokens, addr[h] \in Pool, UpsertClient(h)
    PROVE  rows' \in [Tokens -> Row \cup {None}]
  <1>1. [ip |-> addr[h], revoked |-> FALSE] \in Row
    BY ZenonT(30) DEF Row
  <1>2. \/ rows' = [rows EXCEPT ![tok[h]] = [ip |-> addr[h], revoked |-> FALSE]]
        \/ rows' = rows
    BY ZenonT(30) DEF UpsertClient
  <1> QED
    BY <1>1, <1>2 DEF TypeOK

(* Types and locals survive every step of Authorize.                       *)
LEMMA AuthorizeLocals ==
    ASSUME TypeOK, Locals, NEW h \in Handlers, Authorize(h)
    PROVE  TypeOK' /\ Locals'
  <1> USE PoolFacts, RecordFacts DEF TypeOK, Locals, Goto, Finish, vars, sessions, ipam, request,
                                     sweeper, life
  <1>1. ASSUME NEW r \in Requests, AuthorizeCheck(h, r) PROVE TypeOK' /\ Locals'
    BY ZenonT(30), <1>1 DEF AuthorizeCheck
  <1>2. CASE Allocate(h)
    BY <1>2 DEF Allocate
  <1>3. CASE PoolExhausted(h)
    <2>1. TypeOK'
      BY ZenonT(30), <1>3 DEF PoolExhausted
    <2>2. Locals'
      BY ZenonT(30), <1>3 DEF PoolExhausted
    <2> QED
      BY ZenonT(30), <2>1, <2>2
  <1>4. CASE AuthorizeRefused(h)
    BY <1>4 DEF AuthorizeRefused
  <1>5. CASE AuthorizeOpens(h)
    <2>1. [key |-> key[h], ip |-> addr[h], over |-> FALSE] \in Session
      BY ZenonT(30), <1>5 DEF AuthorizeOpens
    <2>2. TypeOK'
      BY <1>5, <2>1 DEF AuthorizeOpens, Forget
    <2>3. Locals'
      BY ZenonT(30), <1>5, <2>1 DEF AuthorizeOpens
    <2> QED
      BY ZenonT(30), <2>2, <2>3
  <1>6. CASE RollbackRevoke(h)
    BY <1>6 DEF RollbackRevoke, ManagerRevoke, Forget
  <1>7. CASE ReleaseRefused(h)
    BY <1>7 DEF ReleaseRefused, Release
  <1>8. CASE InstallPeer(h)
    BY ZenonT(30), <1>8 DEF InstallPeer, AddPeer
  <1>9. CASE UpsertClient(h)
    <2>1. tok[h] \in Tokens /\ addr[h] \in Pool
      BY ZenonT(30), <1>9 DEF UpsertClient
    <2>2. rows' \in [Tokens -> Row \cup {None}]
      BY ZenonT(30), <1>9, <2>1, UpsertType
    <2>3. TypeOK'
      BY ZenonT(30), <1>9, <2>2 DEF UpsertClient
    <2>4. Locals'
      BY <1>9 DEF UpsertClient
    <2> QED
      BY ZenonT(30), <2>3, <2>4
  <1> QED
    BY ZenonT(30), <1>1, <1>2, <1>3, <1>4, <1>5, <1>6, <1>7, <1>8, <1>9 DEF Authorize

(* Types and locals survive every step of Revoke.                          *)
LEMMA RevokeLocals ==
    ASSUME TypeOK, Locals, NEW h \in Handlers, Revoke(h)
    PROVE  TypeOK' /\ Locals'
  <1> USE PoolFacts, RecordFacts
      DEF TypeOK, Locals, Goto, Finish, sessions, ipam, sweeper, life
  <1>1. ASSUME NEW t \in Tokens, RevokeGet(h, t) PROVE TypeOK' /\ Locals'
    BY <1>1 DEF RevokeGet
  <1>2. CASE RevokeSession(h)
    <2>1. TypeOK'
      BY <1>2 DEF RevokeSession, ManagerRevoke, Forget
    <2>2. Locals'
      BY <1>2 DEF RevokeSession, ManagerRevoke
    <2> QED
      BY ZenonT(30), <2>1, <2>2
  <1>3. CASE RevokeUnknown(h)
    BY <1>3 DEF RevokeUnknown
  <1>4. CASE RevokePeer(h)
    BY ZenonT(30), <1>4 DEF RevokePeer, RemovePeer
  <1>5. CASE RevokeRelease(h)
    BY ZenonT(30), <1>5 DEF RevokeRelease, Release
  <1>6. CASE RevokeRow(h)
    <2>1. rows' \in [Tokens -> Row \cup {None}]
      BY ZenonT(30), <1>6, RevokeClientType DEF RevokeRow
    <2>2. TypeOK'
      BY ZenonT(30), <1>6, <2>1 DEF RevokeRow
    <2>3. Locals'
      BY <1>6 DEF RevokeRow
    <2> QED
      BY ZenonT(30), <2>2, <2>3
  <1> QED
    BY ZenonT(30), <1>1, <1>2, <1>3, <1>4, <1>5, <1>6 DEF Revoke

(* Types and locals survive the sweeper.                                   *)
LEMMA SweeperLocals ==
    ASSUME TypeOK, Locals, Sweeper
    PROVE  TypeOK' /\ Locals'
  <1> USE PoolFacts, RecordFacts DEF TypeOK, Locals, sessions, ipam, request, life
  <1>1. CASE SweepOnce
    <2>3. byToken' \in [Tokens -> Session \cup {None}] /\ revoked' \subseteq Tokens
      BY ZenonT(30), <1>1 DEF SweepOnce
    <2>4. swept' \subseteq Expired
      BY <1>1 DEF SweepOnce
    <2>1. TypeOK'
      BY ZenonT(30), <1>1, <2>3, <2>4 DEF SweepOnce
    <2>2. Locals'
      BY ZenonT(30), <1>1, <2>1 DEF SweepOnce
    <2> QED
      BY ZenonT(30), <2>1, <2>2
  <1>2. ASSUME NEW s \in swept, ExpirePeer(s) PROVE TypeOK' /\ Locals'
    BY ZenonT(30), <1>2 DEF ExpirePeer, RemovePeer
  <1>3. CASE ExpireRelease
    BY ZenonT(30), <1>3 DEF ExpireRelease, Release
  <1>4. CASE ExpireRow
    <2>1. rows' \in [Tokens -> Row \cup {None}]
      BY ZenonT(30), <1>4, RevokeClientType DEF ExpireRow
    <2>2. TypeOK' /\ Locals'
      BY ZenonT(30), <1>4, <2>1 DEF ExpireRow
    <2> QED
      BY ZenonT(30), <2>2
  <1> QED
    BY ZenonT(30), <1>1, <1>2, <1>3, <1>4 DEF Sweeper

(* Types and locals survive the passing of time and a restart.             *)
LEMMA TimeLocals ==
    ASSUME TypeOK, Locals, NEW t \in Tokens, TokenExpires(t) \/ CapReached(t)
    PROVE  TypeOK' /\ Locals'
  <1> USE PoolFacts, RecordFacts
      DEF TypeOK, Locals, ipam, request, sweeper, life
  <1>1. CASE TokenExpires(t)
    <2>1. byToken' \in [Tokens -> Session \cup {None}]
      BY ZenonT(30), <1>1, SessionsEndFacts DEF TokenExpires
    <2>2. \A u \in Tokens : byToken'[u] = None <=> byToken[u] = None
      BY ZenonT(30), <1>1, SessionsEndFacts DEF TokenExpires
    <2>3. TypeOK' /\ Locals'
      BY ZenonT(30), <1>1, <2>1, <2>2 DEF TokenExpires
    <2> QED
      BY ZenonT(30), <2>3
  <1>2. CASE CapReached(t)
    <2>1. byToken' \in [Tokens -> Session \cup {None}]
      BY ZenonT(30), <1>2, SessionsEndFacts DEF CapReached
    <2>2. \A u \in Tokens : byToken'[u] = None <=> byToken[u] = None
      BY ZenonT(30), <1>2, SessionsEndFacts DEF CapReached
    <2>3. TypeOK' /\ Locals'
      BY ZenonT(30), <1>2, <2>1, <2>2 DEF CapReached
    <2> QED
      BY ZenonT(30), <2>3
  <1> QED
    BY ZenonT(30), <1>1, <1>2

(* Types and locals survive a restart, which owns only what it reserved.   *)
LEMMA RestartInv ==
    ASSUME TypeOK, NEW past \in SUBSET Tokens, Restart(past)
    PROVE  LeaseInv'
  <1> DEFINE kept == {u \in Tokens \ past : rows[u] # None /\ ~rows[u].revoked}
  <1>1. \A t \in kept : rows[t].ip \in Pool
    BY ZenonT(30), RecordFacts DEF TypeOK
  <1>2. used' \subseteq Pool /\ restored' = used'
    BY ZenonT(30), <1>1 DEF Restart
  <1>3. restarts' \in 0..Restarts
    BY NodeAssumption DEF Restart, TypeOK
  <1>4. TypeOK'
    BY ZenonT(30), <1>2, <1>3, PoolFacts DEF Restart, TypeOK
  <1>5. Locals'
    BY ZenonT(30) DEF Restart, Locals
  <1>6. SessionsOwn' /\ HandlersOwn' /\ SweeperOwns'
    BY ZenonT(30) DEF Restart, SessionsOwn, HandlersOwn, SweeperOwns, Holds, Owning, Sweeping
  <1> QED
    BY ZenonT(30), <1>2, <1>4, <1>5, <1>6 DEF LeaseInv

(* Types and locals survive every step.                                    *)
LEMMA LocalsStep ==
    ASSUME TypeOK, Locals, [Next]_vars
    PROVE  TypeOK' /\ Locals'
  <1>1. ASSUME NEW h \in Handlers, Authorize(h) \/ Revoke(h) PROVE TypeOK' /\ Locals'
    BY ZenonT(30), <1>1, AuthorizeLocals, RevokeLocals
  <1>2. CASE Sweeper
    BY ZenonT(30), <1>2, SweeperLocals
  <1>3. ASSUME NEW t \in Tokens, TokenExpires(t) \/ CapReached(t) PROVE TypeOK' /\ Locals'
    BY ZenonT(30), <1>3, TimeLocals
  <1>4. ASSUME NEW past \in SUBSET Tokens, Restart(past) PROVE TypeOK' /\ Locals'
    BY ZenonT(30), <1>4, RestartInv DEF LeaseInv
  <1>5. CASE UNCHANGED vars
    BY ZenonT(30), <1>5 DEF vars, sessions, ipam, request, sweeper, life, TypeOK, Locals
  <1> QED
    BY ZenonT(30), <1>1, <1>2, <1>3, <1>4, <1>5 DEF Next

(* The handlers' variables are functions of the handlers.                  *)
LEMMA RequestDomains ==
    ASSUME TypeOK
    PROVE  /\ DOMAIN pc = Handlers /\ DOMAIN addr = Handlers
           /\ DOMAIN byToken = Tokens
  <1>1. /\ byToken \in [Tokens -> Session \cup {None}]
        /\ DOMAIN pc = Handlers /\ DOMAIN addr = Handlers
    BY ZenonT(30) DEF TypeOK
  <1> QED
    BY ZenonT(30), <1>1

(* Types and locals hold in every reachable state, whatever fails.         *)
Typed == TypeOK /\ Locals

(* Typed holds throughout.                                                 *)
LEMMA TypesInvariant == Spec => []Typed
  <1>1. Init => Typed
    BY ZenonT(30), LeaseInit DEF Typed, LeaseInv
  <1>2. Typed /\ [Next]_vars => Typed'
    BY ZenonT(30), LocalsStep DEF Typed
  <1> QED
    BY <1>1, <1>2, PTL DEF Spec

(* A step of a handler leaves the variables of the others alone.           *)
LEMMA OthersStand ==
    ASSUME TypeOK, NEW h \in Handlers, Authorize(h) \/ Revoke(h)
    PROVE  \A g \in Handlers : g # h => /\ pc'[g] = pc[g] /\ tok'[g] = tok[g]
                                        /\ key'[g] = key[g] /\ addr'[g] = addr[g]
  <1>1. DOMAIN pc = Handlers /\ DOMAIN tok = Handlers /\ DOMAIN key = Handlers
        /\ DOMAIN addr = Handlers
    BY ZenonT(30) DEF TypeOK
  <1> DEFINE Stand(g) == /\ pc'[g] = pc[g] /\ tok'[g] = tok[g]
                         /\ key'[g] = key[g] /\ addr'[g] = addr[g]
  <1> SUFFICES ASSUME NEW g \in Handlers, g # h PROVE Stand(g)
    BY ZenonT(30)
  <1> USE <1>1 DEF Goto, Finish, request
  <1>2. ASSUME NEW r \in Requests, AuthorizeCheck(h, r) PROVE Stand(g)
    BY ZenonT(30), <1>2 DEF AuthorizeCheck
  <1>3. CASE Allocate(h)
    BY ZenonT(30), <1>3 DEF Allocate
  <1>4. CASE PoolExhausted(h)
    BY ZenonT(30), <1>4 DEF PoolExhausted
  <1>5. CASE AuthorizeRefused(h)
    BY ZenonT(30), <1>5 DEF AuthorizeRefused
  <1>6. CASE AuthorizeOpens(h)
    BY ZenonT(30), <1>6 DEF AuthorizeOpens
  <1>7. CASE RollbackRevoke(h)
    BY ZenonT(30), <1>7 DEF RollbackRevoke
  <1>8. CASE ReleaseRefused(h)
    BY ZenonT(30), <1>8 DEF ReleaseRefused
  <1>9. CASE InstallPeer(h)
    BY ZenonT(30), <1>9 DEF InstallPeer
  <1>10. CASE UpsertClient(h)
    BY ZenonT(30), <1>10 DEF UpsertClient
  <1>11. ASSUME NEW t \in Tokens, RevokeGet(h, t) PROVE Stand(g)
    BY ZenonT(30), <1>11 DEF RevokeGet
  <1>12. CASE RevokeSession(h)
    BY ZenonT(30), <1>12 DEF RevokeSession
  <1>13. CASE RevokeUnknown(h)
    BY ZenonT(30), <1>13 DEF RevokeUnknown
  <1>14. CASE RevokePeer(h)
    BY ZenonT(30), <1>14 DEF RevokePeer
  <1>15. CASE RevokeRelease(h)
    BY ZenonT(30), <1>15 DEF RevokeRelease
  <1>16. CASE RevokeRow(h)
    BY ZenonT(30), <1>16 DEF RevokeRow
  <1> HIDE DEF Stand
  <1> QED
    BY ZenonT(30), <1>2, <1>3, <1>4, <1>5, <1>6, <1>7, <1>8, <1>9,
       <1>10, <1>11, <1>12, <1>13, <1>14, <1>15, <1>16 DEF Authorize, Revoke

(* Somebody will release the address.                                      *)
Owned(o) ==
    \/ \E t \in Tokens : byToken[t] # None /\ byToken[t].ip = o
    \/ \E h \in Handlers : Owning(h) /\ addr[h] = o
    \/ \E s \in Sweeping : s.ip = o

(* A step keeps every lease when it takes no address, and each owner that  *)
(* goes leaves its address to another, to the free ones or to dropped.     *)
LEMMA LeasesPassOn ==
    ASSUME NoLeaseLost, restored' = restored, used' \subseteq used,
           dropped \cap used' \subseteq dropped',
           \A o \in used' : Owned(o) => Owned(o)' \/ o \in dropped'
    PROVE  NoLeaseLost'
  <1> SUFFICES ASSUME NEW o \in Recoverable' PROVE Owned(o)'
    BY ZenonT(30) DEF NoLeaseLost, Owned
  <1>1. o \in used' /\ o \notin restored' /\ o \notin dropped'
    BY ZenonT(30) DEF Recoverable
  <1>2. o \in Recoverable
    BY ZenonT(30), <1>1 DEF Recoverable
  <1>3. Owned(o)
    BY ZenonT(30), <1>2 DEF NoLeaseLost, Owned
  <1> QED
    BY ZenonT(30), <1>1, <1>3

(* What another handler owns, or the sweeper, it owns after a step of h.   *)
LEMMA OthersOwn ==
    ASSUME NEW h \in Handlers, NEW o, UNCHANGED sweeper,
           \A g \in Handlers : g # h => pc'[g] = pc[g] /\ addr'[g] = addr[g],
           \/ \E g \in Handlers : g # h /\ Owning(g) /\ addr[g] = o
           \/ \E s \in Sweeping : s.ip = o
    PROVE  Owned(o)'
  <1>1. CASE \E s \in Sweeping : s.ip = o
    <2>1. Sweeping' = Sweeping
      BY ZenonT(30) DEF sweeper, Sweeping
    <2> QED
      BY ZenonT(30), <1>1, <2>1 DEF Owned
  <1>2. ASSUME NEW g \in Handlers, g # h, Owning(g), addr[g] = o PROVE Owned(o)'
    BY ZenonT(30), <1>2 DEF Owned, Owning
  <1> QED
    BY ZenonT(30), <1>1, <1>2

(* A step of a handler that leaves the table alone, and the handler with   *)
(* its address unless the address is free afterwards.                      *)
LEMMA HandlerPasses ==
    ASSUME NoLeaseLost, NEW h \in Handlers, UNCHANGED <<byToken, restored, sweeper>>,
           used' \subseteq used, dropped \cap used' \subseteq dropped',
           \A g \in Handlers : g # h => pc'[g] = pc[g] /\ addr'[g] = addr[g],
           Owning(h) /\ addr[h] \in used' => Owning(h)' /\ addr'[h] = addr[h]
    PROVE  NoLeaseLost'
  <1>1. ASSUME NEW o \in used', Owned(o) PROVE Owned(o)'
    <2>1. CASE \E t \in Tokens : byToken[t] # None /\ byToken[t].ip = o
      BY ZenonT(30), <2>1 DEF Owned
    <2>2. CASE Owning(h) /\ addr[h] = o
      BY ZenonT(30), <1>1, <2>2 DEF Owned
    <2>3. CASE \/ \E g \in Handlers : g # h /\ Owning(g) /\ addr[g] = o
               \/ \E s \in Sweeping : s.ip = o
      BY ZenonT(30), <2>3, OthersOwn
    <2> QED
      BY ZenonT(30), <1>1, <2>1, <2>2, <2>3 DEF Owned
  <1> QED
    BY ZenonT(30), <1>1, LeasesPassOn

(* A handler that takes the session out of the table owns its address, or  *)
(* the address goes with it.                                               *)
LEMMA SessionPasses ==
    ASSUME TypeOK, NoLeaseLost, NEW h \in Handlers, ManagerRevoke(tok[h]), Forget(h),
           UNCHANGED <<used, addr, restored, sweeper>>,
           \A g \in Handlers : g # h => pc'[g] = pc[g], Owning(h)'
    PROVE  NoLeaseLost'
  <1>1. ASSUME NEW o, Owned(o) PROVE Owned(o)' \/ o \in dropped'
    <2>1. ASSUME NEW t \in Tokens, byToken[t] # None, byToken[t].ip = o
          PROVE  Owned(o)' \/ o \in dropped'
      <3>1. CASE t = tok[h] /\ o = addr[h]
        BY ZenonT(30), <3>1 DEF Owned
      <3>2. CASE t = tok[h] /\ o # addr[h]
        BY ZenonT(30), <2>1, <3>2 DEF Forget
      <3>3. CASE t # tok[h]
        <4>1. byToken'[t] = byToken[t]
          BY ZenonT(30), <3>3, RequestDomains DEF ManagerRevoke
        <4> QED
          BY ZenonT(30), <2>1, <4>1 DEF Owned
      <3> QED
        BY ZenonT(30), <3>1, <3>2, <3>3
    <2>2. CASE Owning(h) /\ addr[h] = o
      BY ZenonT(30), <2>2 DEF Owned
    <2>3. CASE \/ \E g \in Handlers : g # h /\ Owning(g) /\ addr[g] = o
               \/ \E s \in Sweeping : s.ip = o
      BY ZenonT(30), <2>3, OthersOwn
    <2> QED
      BY ZenonT(30), <1>1, <2>1, <2>2, <2>3 DEF Owned
  <1>2. dropped \cap used' \subseteq dropped'
    BY ZenonT(30) DEF Forget
  <1> QED
    BY ZenonT(30), <1>1, <1>2, LeasesPassOn

(* No step of Authorize loses a lease: Allocate gives it to the request,   *)
(* the opened session takes it, a refusal releases it.                     *)
LEMMA AuthorizeKeeps ==
    ASSUME TypeOK, Locals, NoLeaseLost, NEW h \in Handlers, Authorize(h)
    PROVE  NoLeaseLost'
  <1> USE DEF Goto, Finish, sessions, ipam, life
  <1>0. DOMAIN pc = Handlers /\ DOMAIN addr = Handlers
    BY ZenonT(30), RequestDomains
  <1>1. ASSUME NEW r \in Requests, AuthorizeCheck(h, r) PROVE NoLeaseLost'
    BY ZenonT(30), <1>0, <1>1, HandlerPasses DEF AuthorizeCheck, Owning
  <1>2. CASE Allocate(h)
    <2>1. PICK a \in Pool \ used : used' = used \cup {a} /\ addr' = [addr EXCEPT ![h] = a]
      BY ZenonT(30), <1>2 DEF Allocate
    <2>2. /\ pc[h] = "allocate" /\ pc' = [pc EXCEPT ![h] = "authorize"]
          /\ UNCHANGED <<byToken, restored, dropped, sweeper>>
      BY ZenonT(30), <1>2 DEF Allocate
    <2>3. Owned(a)'
      BY ZenonT(30), <1>0, <2>1, <2>2 DEF Owned, Owning
    <2>4. \A g \in Handlers : g # h => pc'[g] = pc[g] /\ addr'[g] = addr[g]
      BY ZenonT(30), <1>0, <2>1, <2>2
    <2>5. ASSUME NEW o, Owned(o) PROVE Owned(o)'
      <3>1. CASE \E t \in Tokens : byToken[t] # None /\ byToken[t].ip = o
        BY ZenonT(30), <2>2, <3>1 DEF Owned
      <3>2. ~Owning(h)
        BY ZenonT(30), <2>2 DEF Owning
      <3>3. CASE \/ \E g \in Handlers : g # h /\ Owning(g) /\ addr[g] = o
                 \/ \E s \in Sweeping : s.ip = o
        BY ZenonT(30), <2>2, <2>4, <3>3, OthersOwn
      <3> QED
        BY ZenonT(30), <2>5, <3>1, <3>2, <3>3 DEF Owned
    <2>6. \A o \in Recoverable : Owned(o)
      BY ZenonT(30) DEF NoLeaseLost, Owned
    <2>7. \A o \in Recoverable' : Owned(o)'
      BY ZenonT(30), <2>1, <2>2, <2>3, <2>5, <2>6 DEF Recoverable
    <2> QED
      BY ZenonT(30), <2>7 DEF NoLeaseLost, Owned
  <1>3. CASE PoolExhausted(h)
    BY ZenonT(30), <1>0, <1>3, HandlerPasses DEF PoolExhausted, Owning
  <1>4. CASE AuthorizeRefused(h)
    BY ZenonT(30), <1>0, <1>4, HandlerPasses DEF AuthorizeRefused, Owning
  <1>5. CASE AuthorizeOpens(h)
    <2> DEFINE s == [key |-> key[h], ip |-> addr[h], over |-> FALSE]
    <2>0. tok[h] \in Tokens /\ key[h] \in Keys /\ addr[h] \in Pool
      BY ZenonT(30), <1>5 DEF AuthorizeOpens, Locals
    <2>1. tok[h] \in Tokens /\ s # None /\ s.ip = addr[h]
      BY <2>0, OpenedFacts
    <2>2. byToken' = [byToken EXCEPT ![tok[h]] = s]
      BY ZenonT(30), <1>5 DEF AuthorizeOpens
    <2> HIDE DEF s
    <2>3. /\ pc' = [pc EXCEPT ![h] = "install"] /\ Forget(h)
          /\ UNCHANGED <<addr, used, restored, sweeper>>
      BY ZenonT(30), <1>5 DEF AuthorizeOpens
    <2>4. byToken'[tok[h]] = s /\ \A t \in Tokens : t # tok[h] => byToken'[t] = byToken[t]
      BY ZenonT(30), <2>1, <2>2, RequestDomains
    <2>5. \A g \in Handlers : g # h => pc'[g] = pc[g] /\ addr'[g] = addr[g]
      BY ZenonT(30), <1>0, <2>3
    <2>6. ASSUME NEW o, Owned(o) PROVE Owned(o)' \/ o \in dropped'
      <3>1. o = addr[h] => Owned(o)'
        BY ZenonT(30), <2>1, <2>4 DEF Owned
      <3>2. ASSUME NEW t \in Tokens, byToken[t] # None, byToken[t].ip = o
            PROVE  Owned(o)' \/ o \in dropped'
        <4>1. CASE t = tok[h]
          BY ZenonT(30), <2>3, <3>1, <3>2, <4>1 DEF Forget
        <4>2. CASE t # tok[h]
          BY ZenonT(30), <2>4, <3>2, <4>2 DEF Owned
        <4> QED
          BY ZenonT(30), <4>1, <4>2
      <3>3. CASE \/ \E g \in Handlers : g # h /\ Owning(g) /\ addr[g] = o
                 \/ \E r \in Sweeping : r.ip = o
        BY ZenonT(30), <2>3, <2>5, <3>3, OthersOwn
      <3> QED
        BY ZenonT(30), <2>6, <3>1, <3>2, <3>3 DEF Owned
    <2>7. dropped \cap used' \subseteq dropped'
      BY ZenonT(30), <2>3 DEF Forget
    <2> QED
      BY ZenonT(30), <2>3, <2>6, <2>7, LeasesPassOn
  <1>6. CASE RollbackRevoke(h)
    BY ZenonT(30), <1>0, <1>6, SessionPasses DEF RollbackRevoke, Owning
  <1>7. CASE ReleaseRefused(h)
    BY ZenonT(30), <1>0, <1>7, HandlerPasses DEF ReleaseRefused, Release, Owning
  <1>8. CASE InstallPeer(h)
    BY ZenonT(30), <1>0, <1>8, HandlerPasses DEF InstallPeer, Owning
  <1>9. CASE UpsertClient(h)
    BY ZenonT(30), <1>0, <1>9, HandlerPasses DEF UpsertClient, Owning
  <1> QED
    BY ZenonT(30), <1>1, <1>2, <1>3, <1>4, <1>5, <1>6, <1>7, <1>8, <1>9 DEF Authorize

(* Nor does a step of Revoke, the sweeper or time.                         *)
LEMMA RevokeKeeps ==
    ASSUME TypeOK, Locals, NoLeaseLost, NEW h \in Handlers, Revoke(h)
    PROVE  NoLeaseLost'
  <1> USE DEF Goto, Finish, sessions, ipam, life
  <1>0. DOMAIN pc = Handlers /\ DOMAIN addr = Handlers
    BY ZenonT(30), RequestDomains
  <1>1. ASSUME NEW t \in Tokens, RevokeGet(h, t) PROVE NoLeaseLost'
    BY ZenonT(30), <1>0, <1>1, HandlerPasses DEF RevokeGet, Owning
  <1>2. CASE RevokeSession(h)
    BY ZenonT(30), <1>0, <1>2, SessionPasses DEF RevokeSession, Owning
  <1>3. CASE RevokeUnknown(h)
    BY ZenonT(30), <1>0, <1>3, HandlerPasses DEF RevokeUnknown, Owning
  <1>4. CASE RevokePeer(h)
    BY ZenonT(30), <1>0, <1>4, HandlerPasses DEF RevokePeer, Owning
  <1>5. CASE RevokeRelease(h)
    BY ZenonT(30), <1>0, <1>5, HandlerPasses DEF RevokeRelease, Release, Owning
  <1>6. CASE RevokeRow(h)
    BY ZenonT(30), <1>0, <1>6, HandlerPasses DEF RevokeRow, Owning
  <1> QED
    BY ZenonT(30), <1>1, <1>2, <1>3, <1>4, <1>5, <1>6 DEF Revoke

(* The sweeper takes over the leases of the sessions it removes.           *)
LEMMA SweeperKeeps ==
    ASSUME TypeOK, Locals, NoLeaseLost, Sweeper
    PROVE  NoLeaseLost'
  <1> USE DEF sessions, ipam, request, life
  <1>1. CASE SweepOnce
    <2>1. \A o \in used' : Owned(o) => Owned(o)'
      <3> SUFFICES ASSUME NEW o, Owned(o) PROVE Owned(o)'
        BY ZenonT(30)
      <3>1. ASSUME NEW t \in Tokens, byToken[t] # None, byToken[t].ip = o PROVE Owned(o)'
        <4>1. CASE byToken[t].over
          <5> DEFINE s == [token |-> t, key |-> byToken[t].key, ip |-> byToken[t].ip]
          <5>1. s \in swept' /\ s.ip = o
            BY ZenonT(30), <1>1, <3>1, <4>1 DEF SweepOnce
          <5> HIDE DEF s
          <5> QED
            BY ZenonT(30), <5>1 DEF Owned, Sweeping
        <4>2. CASE ~byToken[t].over
          BY ZenonT(30), <1>1, <3>1, <4>2 DEF SweepOnce, Owned
        <4> QED
          BY ZenonT(30), <4>1, <4>2
      <3>2. ASSUME NEW g \in Handlers, Owning(g), addr[g] = o PROVE Owned(o)'
        BY ZenonT(30), <1>1, <3>2 DEF SweepOnce, Owned, Owning
      <3>3. Sweeping = {}
        BY ZenonT(30), <1>1 DEF SweepOnce, Sweeping, Locals
      <3> QED
        BY ZenonT(30), <3>1, <3>2, <3>3 DEF Owned
    <2> QED
      BY ZenonT(30), <1>1, <2>1, LeasesPassOn DEF SweepOnce
  <1>2. ASSUME NEW s \in swept, ExpirePeer(s) PROVE NoLeaseLost'
    <2>1. \A o \in used' : Owned(o) => Owned(o)'
      BY ZenonT(30), <1>2 DEF ExpirePeer, Owned, Owning, Sweeping, Locals
    <2> QED
      BY ZenonT(30), <1>2, <2>1, LeasesPassOn DEF ExpirePeer
  <1>3. CASE ExpireRelease
    <2>1. \A o \in used' : Owned(o) => Owned(o)'
      BY ZenonT(30), <1>3 DEF ExpireRelease, Release, Owned, Owning, Sweeping
    <2> QED
      BY ZenonT(30), <1>3, <2>1, LeasesPassOn DEF ExpireRelease, Release
  <1>4. CASE ExpireRow
    <2>1. \A o \in used' : Owned(o) => Owned(o)'
      BY ZenonT(30), <1>4 DEF ExpireRow, Owned, Owning, Sweeping
    <2> QED
      BY ZenonT(30), <1>4, <2>1, LeasesPassOn DEF ExpireRow
  <1> QED
    BY ZenonT(30), <1>1, <1>2, <1>3, <1>4 DEF Sweeper

(* No step loses a lease.                                                  *)
LEMMA LeaseKept ==
    ASSUME TypeOK, Locals, NoLeaseLost, [Next]_vars
    PROVE  NoLeaseLost'
  <1>1. ASSUME NEW h \in Handlers, Authorize(h) \/ Revoke(h) PROVE NoLeaseLost'
    BY ZenonT(30), <1>1, AuthorizeKeeps, RevokeKeeps
  <1>2. CASE Sweeper
    BY ZenonT(30), <1>2, SweeperKeeps
  <1>3. ASSUME NEW t \in Tokens, TokenExpires(t) \/ CapReached(t) PROVE NoLeaseLost'
    <2> USE DEF ipam, request, sweeper, life
    <2>1. SessionsEnd({t}) /\ UNCHANGED <<ipam, request, sweeper, life>>
      BY ZenonT(30), <1>3 DEF TokenExpires, CapReached
    <2>2. \A o \in used' : Owned(o) => Owned(o)'
      BY ZenonT(30), <2>1, SessionsEndFacts DEF Owned, Owning, Sweeping
    <2> QED
      BY ZenonT(30), <2>1, <2>2, LeasesPassOn
  <1>4. ASSUME NEW past \in SUBSET Tokens, Restart(past) PROVE NoLeaseLost'
    BY ZenonT(30), <1>4 DEF Restart, NoLeaseLost, Recoverable
  <1>5. CASE UNCHANGED vars
    BY ZenonT(30), <1>5
       DEF vars, sessions, ipam, request, sweeper, life, NoLeaseLost, Recoverable,
       Owning, Sweeping
  <1> QED
    BY ZenonT(30), <1>1, <1>2, <1>3, <1>4, <1>5 DEF Next

(* Whatever fails, every address in use is one that a session, a request   *)
(* or the sweeper is to release, or a restart reserved, or that was lost   *)
(* with a session another took the place of (controller.go 164-245).       *)
THEOREM LeasesNeverLost == Spec => []NoLeaseLost
  <1>1. Init => NoLeaseLost
    BY ZenonT(30) DEF Init, NoLeaseLost, Recoverable
  <1>2. Typed /\ NoLeaseLost /\ [Next]_vars => NoLeaseLost'
    BY ZenonT(30), LeaseKept DEF Typed
  <1> QED
    BY <1>1, <1>2, TypesInvariant, PTL DEF Spec
=============================================================================
