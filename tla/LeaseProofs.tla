----------------------------- MODULE LeaseProofs ----------------------------
(***************************************************************************)
(* Leases, for every number of handlers, clients and restarts and every    *)
(* size of the address range.  While Authorize is never rolled back, no    *)
(* two sessions share an address, each address in use has exactly one      *)
(* owner, and the controller implements the table of LeaseTable.  Whatever *)
(* fails, the node admits no more clients than its capacity and the other  *)
(* handlers on their way.                                                  *)
(***************************************************************************)
EXTENDS NodeAccessProofs

(* Nobody owns an address that another owns or that was restored.          *)
Owners == SessionsOwn /\ HandlersOwn /\ SweeperOwns /\ restored \subseteq used

(* A step after which nobody owns what it did not own before keeps the     *)
(* owners apart, when it gives back at most an address that has no owner   *)
(* any more.                                                               *)
LEMMA OwnersRelease ==
    ASSUME Owners, NEW a,
           restored' = restored, used' = used \ {a}, a \notin restored,
           \A t \in Tokens : \A o \in Pool : Holds(t, o)' => Holds(t, o) /\ o # a,
           \A h \in Handlers : Owning(h)' =>
              Owning(h) /\ addr'[h] = addr[h] /\ addr[h] # a,
           \A s \in Sweeping' : s \in Sweeping /\ s.ip # a
    PROVE  Owners'
  <1>1. SessionsOwn'
    BY ZenonT(30) DEF Owners, SessionsOwn
  <1>2. HandlersOwn'
    BY ZenonT(30) DEF Owners, HandlersOwn
  <1>3. SweeperOwns'
    BY ZenonT(30) DEF Owners, SweeperOwns
  <1>4. (restored \subseteq used)'
    BY ZenonT(30) DEF Owners
  <1> QED
    BY ZenonT(30), <1>1, <1>2, <1>3, <1>4 DEF Owners

(* The same for a step that gives nothing back.                            *)
LEMMA OwnersKept ==
    ASSUME Owners, restored' = restored, used' = used,
           \A t \in Tokens : \A o \in Pool : Holds(t, o)' => Holds(t, o),
           \A h \in Handlers : Owning(h)' => Owning(h) /\ addr'[h] = addr[h],
           Sweeping' \subseteq Sweeping
    PROVE  Owners'
  <1>1. SessionsOwn'
    BY ZenonT(30) DEF Owners, SessionsOwn
  <1>2. HandlersOwn'
    BY ZenonT(30) DEF Owners, HandlersOwn
  <1>3. SweeperOwns'
    BY ZenonT(30) DEF Owners, SweeperOwns
  <1>4. (restored \subseteq used)'
    BY ZenonT(30) DEF Owners
  <1> QED
    BY ZenonT(30), <1>1, <1>2, <1>3, <1>4 DEF Owners

(* The steps of Authorize but opening the session: Allocate takes an       *)
(* address nobody owns, the others keep or release their own.              *)
LEMMA AuthorizeOwners ==
    ASSUME TypeOK, Locals, Owners, Rollbacks = FALSE, NEW h \in Handlers, Authorize(h),
           ~AuthorizeOpens(h)
    PROVE  Owners'
  <1> USE DEF Goto, Finish, sessions, ipam, sweeper, life
  <1>1. ASSUME NEW r \in Requests, AuthorizeCheck(h, r) PROVE Owners'
    <2>1. \A t \in Tokens : \A o \in Pool : Holds(t, o)' => Holds(t, o)
      BY ZenonT(30), <1>1 DEF AuthorizeCheck, Holds, TypeOK
    <2>2. \A g \in Handlers : Owning(g)' => Owning(g) /\ addr'[g] = addr[g]
      BY ZenonT(30), <1>1 DEF AuthorizeCheck, Owning, TypeOK
    <2>3. Sweeping' = Sweeping /\ restored' = restored /\ used' = used
      BY ZenonT(30), <1>1 DEF AuthorizeCheck, Sweeping
    <2> QED
      BY ZenonT(30), <2>1, <2>2, <2>3, OwnersKept
  <1>2. CASE Allocate(h)
    <2>1. PICK a \in Pool \ used : used' = used \cup {a} /\ addr' = [addr EXCEPT ![h] = a]
      BY ZenonT(30), <1>2 DEF Allocate
    <2>2. \A t \in Tokens : \A o \in Pool : Holds(t, o)' => Holds(t, o)
      BY ZenonT(30), <1>2, <2>1 DEF Allocate, Holds, TypeOK
    <2>3. \A g \in Handlers : Owning(g)' => g = h \/ (Owning(g) /\ addr'[g] = addr[g])
      BY ZenonT(30), <1>2, <2>1 DEF Allocate, Owning, TypeOK
    <2>4. addr'[h] = a
      BY ZenonT(30), <2>1 DEF TypeOK
    <2>5. Sweeping' = Sweeping /\ restored' = restored
      BY ZenonT(30), <1>2 DEF Allocate, Sweeping
    <2>6. SessionsOwn'
      BY <2>1, <2>2, <2>3, <2>4, <2>5 DEF Owners, SessionsOwn
    <2>7. HandlersOwn'
      BY <2>1, <2>3, <2>4, <2>5 DEF Owners, HandlersOwn, SweeperOwns
    <2>8. SweeperOwns' /\ (restored \subseteq used)'
      BY ZenonT(30), <2>1, <2>5 DEF Owners, SweeperOwns
    <2> QED
      BY ZenonT(30), <2>6, <2>7, <2>8 DEF Owners
  <1>3. CASE PoolExhausted(h)
    <2>1. \A t \in Tokens : \A o \in Pool : Holds(t, o)' => Holds(t, o)
      BY ZenonT(30), <1>3 DEF PoolExhausted, Holds, TypeOK
    <2>2. \A g \in Handlers : Owning(g)' => Owning(g) /\ addr'[g] = addr[g]
      BY ZenonT(30), <1>3 DEF PoolExhausted, Owning, TypeOK
    <2>3. Sweeping' = Sweeping /\ restored' = restored /\ used' = used
      BY ZenonT(30), <1>3 DEF PoolExhausted, Sweeping
    <2> QED
      BY ZenonT(30), <2>1, <2>2, <2>3, OwnersKept
  <1>4. CASE AuthorizeRefused(h)
    <2>1. \A t \in Tokens : \A o \in Pool : Holds(t, o)' => Holds(t, o)
      BY ZenonT(30), <1>4 DEF AuthorizeRefused, Holds, TypeOK
    <2>2. \A g \in Handlers : Owning(g)' => Owning(g) /\ addr'[g] = addr[g]
      BY ZenonT(30), <1>4 DEF AuthorizeRefused, Owning, TypeOK
    <2>3. Sweeping' = Sweeping /\ restored' = restored /\ used' = used
      BY ZenonT(30), <1>4 DEF AuthorizeRefused, Sweeping
    <2> QED
      BY ZenonT(30), <2>1, <2>2, <2>3, OwnersKept
  <1>5. CASE ReleaseRefused(h)
    <2>1. Owning(h) /\ addr[h] \in Pool
      BY ZenonT(30), <1>5 DEF ReleaseRefused, Owning, Locals
    <2>7. \A t \in Tokens : \A o \in Pool : Holds(t, o)' => Holds(t, o)
      BY ZenonT(30), <1>5, <2>1 DEF ReleaseRefused, Release, Holds, TypeOK
    <2>2. \A t \in Tokens : \A o \in Pool : Holds(t, o)' => Holds(t, o) /\ o # addr[h]
      BY ZenonT(30), <2>1, <2>7 DEF Owners, SessionsOwn
    <2>3. \A g \in Handlers : Owning(g)' => g # h /\ Owning(g) /\ addr'[g] = addr[g]
      BY ZenonT(30), <1>5 DEF ReleaseRefused, Release, Owning, TypeOK
    <2>4. \A g \in Handlers : Owning(g)' => addr[g] # addr[h]
      BY ZenonT(30), <2>1, <2>3 DEF Owners, HandlersOwn
    <2>5. Sweeping' = Sweeping /\ restored' = restored /\ used' = used \ {addr[h]}
      BY ZenonT(30), <1>5 DEF ReleaseRefused, Release, Sweeping
    <2>6. addr[h] \notin restored /\ \A s \in Sweeping : s.ip # addr[h]
      BY ZenonT(30), <2>1 DEF Owners, HandlersOwn
    <2> QED
      BY ZenonT(30), <2>2, <2>3, <2>4, <2>5, <2>6, OwnersRelease
  <1>6. CASE InstallPeer(h)
    <2>1. \A t \in Tokens : \A o \in Pool : Holds(t, o)' => Holds(t, o)
      BY ZenonT(30), <1>6 DEF InstallPeer, Holds, TypeOK
    <2>2. \A g \in Handlers : Owning(g)' => Owning(g) /\ addr'[g] = addr[g]
      BY ZenonT(30), <1>6 DEF InstallPeer, Owning, TypeOK
    <2>3. Sweeping' = Sweeping /\ restored' = restored /\ used' = used
      BY ZenonT(30), <1>6 DEF InstallPeer, Sweeping
    <2> QED
      BY ZenonT(30), <2>1, <2>2, <2>3, OwnersKept
  <1>7. CASE UpsertClient(h)
    <2>1. \A t \in Tokens : \A o \in Pool : Holds(t, o)' => Holds(t, o)
      BY ZenonT(30), <1>7 DEF UpsertClient, Holds, TypeOK
    <2>2. \A g \in Handlers : Owning(g)' => Owning(g) /\ addr'[g] = addr[g]
      BY ZenonT(30), <1>7 DEF UpsertClient, Owning, TypeOK
    <2>3. Sweeping' = Sweeping /\ restored' = restored /\ used' = used
      BY ZenonT(30), <1>7 DEF UpsertClient, Sweeping
    <2> QED
      BY ZenonT(30), <2>1, <2>2, <2>3, OwnersKept
  <1>8. ~RollbackRevoke(h)
    BY ZenonT(30) DEF RollbackRevoke
  <1> QED
    BY ZenonT(30), <1>1, <1>2, <1>3, <1>4, <1>5, <1>6, <1>7, <1>8 DEF Authorize

(* Opening a session hands the address over from the request to the        *)
(* session.  A Revoke that read an earlier session of the token still      *)
(* holds that session's address through the new one.                       *)
LEMMA OpenOwners ==
    ASSUME TypeOK, Locals, Owners, NEW h \in Handlers, AuthorizeOpens(h)
    PROVE  Owners'
  <1> USE DEF Goto, ipam, sweeper, life
  <1>1. Owning(h) /\ addr[h] \in Pool /\ tok[h] \in Tokens /\ tok[h] \notin revoked
    BY ZenonT(30) DEF AuthorizeOpens, Owning, Locals
  <1>2. /\ byToken'[tok[h]].ip = addr[h]
        /\ \A u \in Tokens : u # tok[h] => byToken'[u] = byToken[u]
    BY ZenonT(30), <1>1 DEF AuthorizeOpens, TypeOK
  <1>3. \A g \in Handlers : pc'[g] = "revoke" => pc[g] = "revoke"
    BY ZenonT(30) DEF AuthorizeOpens, TypeOK
  <1>4. \A u \in Tokens : \A o \in Pool :
           Holds(u, o)' => Holds(u, o) \/ (u = tok[h] /\ o = addr[h])
    <2> TAKE u \in Tokens
    <2> TAKE o \in Pool
    <2>1. CASE u # tok[h]
      BY ZenonT(30), <2>1, <1>2, <1>3 DEF AuthorizeOpens, Holds
    <2>2. CASE u = tok[h]
      BY <2>2, <1>1, <1>2, <1>3 DEF AuthorizeOpens, Holds, Locals
    <2> QED
      BY ZenonT(30), <2>1, <2>2
  <1>5. \A g \in Handlers : Owning(g)' => g # h /\ Owning(g) /\ addr'[g] = addr[g]
    BY ZenonT(30) DEF AuthorizeOpens, Owning, TypeOK
  <1>6. Sweeping' = Sweeping /\ restored' = restored /\ used' = used
    BY ZenonT(30) DEF AuthorizeOpens, Sweeping
  <1>7. SessionsOwn'
    <2> SUFFICES ASSUME NEW t \in Tokens, NEW o \in Pool, Holds(t, o)'
                 PROVE  /\ o \in used' /\ o \notin restored'
                        /\ \A u \in Tokens : Holds(u, o)' => t = u
                        /\ \A g \in Handlers : Owning(g)' => addr'[g] # o
                        /\ \A s \in Sweeping' : s.ip # o
      BY ZenonT(30) DEF SessionsOwn
    <2>1. CASE o = addr[h]
      <3>1. \A u \in Tokens : ~Holds(u, o)
        BY ZenonT(30), <1>1, <2>1 DEF Owners, SessionsOwn
      <3>2. \A u \in Tokens : Holds(u, o)' => u = tok[h]
        BY ZenonT(30), <1>4, <3>1
      <3>3. /\ o \in used /\ o \notin restored
            /\ \A g \in Handlers : Owning(g) /\ addr[g] = o => g = h
            /\ \A s \in Sweeping : s.ip # o
        BY ZenonT(30), <1>1, <2>1 DEF Owners, HandlersOwn
      <3> QED
        BY ZenonT(30), <3>2, <3>3, <1>5, <1>6
    <2>2. CASE o # addr[h]
      <3>1. \A u \in Tokens : Holds(u, o)' => Holds(u, o)
        BY ZenonT(30), <1>4, <2>2
      <3>2. /\ o \in used /\ o \notin restored
            /\ \A u \in Tokens : Holds(u, o) => t = u
            /\ \A g \in Handlers : Owning(g) => addr[g] # o
            /\ \A s \in Sweeping : s.ip # o
        BY ZenonT(30), <3>1 DEF Owners, SessionsOwn
      <3> QED
        BY ZenonT(30), <3>1, <3>2, <1>5, <1>6
    <2> QED
      BY ZenonT(30), <2>1, <2>2
  <1>8. HandlersOwn' /\ SweeperOwns' /\ (restored \subseteq used)'
    BY ZenonT(30), <1>5, <1>6 DEF Owners, HandlersOwn, SweeperOwns
  <1> QED
    BY ZenonT(30), <1>7, <1>8 DEF Owners

(* The steps of Revoke: taking the session out makes the request the owner *)
(* of the address it read, Release gives it back.                          *)
LEMMA RevokeOwners ==
    ASSUME TypeOK, Locals, Owners, NEW h \in Handlers, Revoke(h)
    PROVE  Owners'
  <1> USE DEF Goto, Finish, sessions, ipam, sweeper, life
  <1>1. ASSUME NEW r \in Tokens, RevokeGet(h, r) PROVE Owners'
    <2>1. \A t \in Tokens : \A o \in Pool : Holds(t, o)' => Holds(t, o)
      BY ZenonT(30), <1>1 DEF RevokeGet, Holds, TypeOK
    <2>2. \A g \in Handlers : Owning(g)' => Owning(g) /\ addr'[g] = addr[g]
      BY ZenonT(30), <1>1 DEF RevokeGet, Owning, TypeOK
    <2>3. Sweeping' = Sweeping /\ restored' = restored /\ used' = used
      BY ZenonT(30), <1>1 DEF RevokeGet, Sweeping
    <2> QED
      BY ZenonT(30), <2>1, <2>2, <2>3, OwnersKept
  <1>2. CASE RevokeSession(h)
    <2>1. addr[h] \in Pool /\ tok[h] \in Tokens /\ Holds(tok[h], addr[h])
      BY ZenonT(30), <1>2 DEF RevokeSession, Locals, Holds
    <2>2. \A t \in Tokens : \A o \in Pool : Holds(t, o)' => t # tok[h] /\ Holds(t, o)
      BY ZenonT(30), <1>2, <2>1 DEF RevokeSession, ManagerRevoke, Holds, TypeOK
    <2>3. \A g \in Handlers : Owning(g)' => g = h \/ Owning(g)
      BY ZenonT(30), <1>2 DEF RevokeSession, Owning, TypeOK
    <2>4. addr' = addr /\ Sweeping' = Sweeping /\ restored' = restored /\ used' = used
      BY ZenonT(30), <1>2 DEF RevokeSession, Sweeping
    <2>5. SessionsOwn'
      <3> SUFFICES ASSUME NEW t \in Tokens, NEW o \in Pool, Holds(t, o)'
                   PROVE  /\ o \in used' /\ o \notin restored'
                          /\ \A u \in Tokens : Holds(u, o)' => t = u
                          /\ \A g \in Handlers : Owning(g)' => addr'[g] # o
                          /\ \A s \in Sweeping' : s.ip # o
        BY ZenonT(30) DEF SessionsOwn
      <3>1. /\ o \in used /\ o \notin restored
            /\ \A u \in Tokens : Holds(u, o) => t = u
            /\ \A g \in Handlers : Owning(g) => addr[g] # o
            /\ \A s \in Sweeping : s.ip # o
        BY ZenonT(30), <2>2 DEF Owners, SessionsOwn
      <3>2. addr[h] # o
        BY <2>1, <2>2 DEF Owners, SessionsOwn
      <3> QED
        BY ZenonT(30), <2>2, <2>3, <2>4, <3>1, <3>2
    <2>6. HandlersOwn'
      BY ZenonT(30), <2>1, <2>3, <2>4 DEF Owners, SessionsOwn, HandlersOwn
    <2>7. SweeperOwns' /\ (restored \subseteq used)'
      BY ZenonT(30), <2>4 DEF Owners, SweeperOwns
    <2> QED
      BY ZenonT(30), <2>5, <2>6, <2>7 DEF Owners
  <1>3. CASE RevokeUnknown(h)
    <2>1. \A t \in Tokens : \A o \in Pool : Holds(t, o)' => Holds(t, o)
      BY ZenonT(30), <1>3 DEF RevokeUnknown, Holds, TypeOK
    <2>2. \A g \in Handlers : Owning(g)' => Owning(g) /\ addr'[g] = addr[g]
      BY ZenonT(30), <1>3 DEF RevokeUnknown, Owning, TypeOK
    <2>3. Sweeping' = Sweeping /\ restored' = restored /\ used' = used
      BY ZenonT(30), <1>3 DEF RevokeUnknown, Sweeping
    <2> QED
      BY ZenonT(30), <2>1, <2>2, <2>3, OwnersKept
  <1>4. CASE RevokePeer(h)
    <2>1. \A t \in Tokens : \A o \in Pool : Holds(t, o)' => Holds(t, o)
      BY ZenonT(30), <1>4 DEF RevokePeer, Holds, TypeOK
    <2>2. \A g \in Handlers : Owning(g)' => Owning(g) /\ addr'[g] = addr[g]
      BY ZenonT(30), <1>4 DEF RevokePeer, Owning, TypeOK
    <2>3. Sweeping' = Sweeping /\ restored' = restored /\ used' = used
      BY ZenonT(30), <1>4 DEF RevokePeer, Sweeping
    <2> QED
      BY ZenonT(30), <2>1, <2>2, <2>3, OwnersKept
  <1>5. CASE RevokeRelease(h)
    <2>1. Owning(h) /\ addr[h] \in Pool
      BY ZenonT(30), <1>5 DEF RevokeRelease, Owning, Locals
    <2>7. \A t \in Tokens : \A o \in Pool : Holds(t, o)' => Holds(t, o)
      BY ZenonT(30), <1>5, <2>1 DEF RevokeRelease, Release, Holds, TypeOK
    <2>2. \A t \in Tokens : \A o \in Pool : Holds(t, o)' => Holds(t, o) /\ o # addr[h]
      BY ZenonT(30), <2>1, <2>7 DEF Owners, SessionsOwn
    <2>3. \A g \in Handlers : Owning(g)' => g # h /\ Owning(g) /\ addr'[g] = addr[g]
      BY ZenonT(30), <1>5 DEF RevokeRelease, Release, Owning, TypeOK
    <2>4. \A g \in Handlers : Owning(g)' => addr[g] # addr[h]
      BY ZenonT(30), <2>1, <2>3 DEF Owners, HandlersOwn
    <2>5. Sweeping' = Sweeping /\ restored' = restored /\ used' = used \ {addr[h]}
      BY ZenonT(30), <1>5 DEF RevokeRelease, Release, Sweeping
    <2>6. addr[h] \notin restored /\ \A s \in Sweeping : s.ip # addr[h]
      BY ZenonT(30), <2>1 DEF Owners, HandlersOwn
    <2> QED
      BY ZenonT(30), <2>2, <2>3, <2>4, <2>5, <2>6, OwnersRelease
  <1>6. CASE RevokeRow(h)
    <2>1. \A t \in Tokens : \A o \in Pool : Holds(t, o)' => Holds(t, o)
      BY ZenonT(30), <1>6 DEF RevokeRow, Holds, TypeOK
    <2>2. \A g \in Handlers : Owning(g)' => Owning(g) /\ addr'[g] = addr[g]
      BY ZenonT(30), <1>6 DEF RevokeRow, Owning, TypeOK
    <2>3. Sweeping' = Sweeping /\ restored' = restored /\ used' = used
      BY ZenonT(30), <1>6 DEF RevokeRow, Sweeping
    <2> QED
      BY ZenonT(30), <2>1, <2>2, <2>3, OwnersKept
  <1> QED
    BY ZenonT(30), <1>1, <1>2, <1>3, <1>4, <1>5, <1>6 DEF Revoke

(* The sweeper: SweepOnce takes the addresses over from the sessions it    *)
(* removes, OnExpire gives them back one by one.                           *)
LEMMA SweeperOwners ==
    ASSUME TypeOK, Locals, Owners, Sweeper
    PROVE  Owners'
  <1> USE DEF sessions, ipam, request, life
  <1>1. CASE SweepOnce
    <2> DEFINE done == {t \in Tokens : byToken[t] # None /\ byToken[t].over}
               snap(t) == [token |-> t, key |-> byToken[t].key, ip |-> byToken[t].ip]
    <2>1. \A t \in done : byToken[t].ip \in Pool /\ Holds(t, byToken[t].ip)
      BY ZenonT(30), RecordFacts DEF TypeOK, Holds
    <2>2. \A t \in Tokens : snap(t).ip = byToken[t].ip
      BY ZenonT(30)
    <2>3. Sweeping' = {snap(t) : t \in done}
      BY ZenonT(30), <1>1 DEF SweepOnce, Sweeping, Locals
    <2>4. \A t \in Tokens : byToken'[t] = IF t \in done THEN None ELSE byToken[t]
      BY ZenonT(30), <1>1 DEF SweepOnce
    <2> HIDE DEF done, snap
    <2>5. \A s \in Sweeping' : \E t \in done : s = snap(t) /\ s.ip = byToken[t].ip
      BY ZenonT(30), <2>2, <2>3 DEF done
    <2>6. \A t \in Tokens : \A o \in Pool : Holds(t, o)' => t \notin done /\ Holds(t, o)
      BY ZenonT(30), <1>1, <2>4 DEF SweepOnce, Holds
    <2>7. \A g \in Handlers : Owning(g)' => Owning(g)
      BY ZenonT(30), <1>1 DEF SweepOnce, Owning
    <2>8. addr' = addr /\ restored' = restored /\ used' = used
      BY ZenonT(30), <1>1 DEF SweepOnce
    <2>9. done \subseteq Tokens
      BY ZenonT(30) DEF done
    <2>13. \A t \in done :
              /\ byToken[t].ip \in used /\ byToken[t].ip \notin restored
              /\ \A u \in Tokens : Holds(u, byToken[t].ip) => t = u
              /\ \A g \in Handlers : Owning(g) => addr[g] # byToken[t].ip
      BY ZenonT(30), <2>1, <2>9 DEF Owners, SessionsOwn
    <2>10. SessionsOwn'
      <3> SUFFICES ASSUME NEW t \in Tokens, NEW o \in Pool, Holds(t, o)'
                   PROVE  /\ o \in used' /\ o \notin restored'
                          /\ \A u \in Tokens : Holds(u, o)' => t = u
                          /\ \A g \in Handlers : Owning(g)' => addr'[g] # o
                          /\ \A s \in Sweeping' : s.ip # o
        BY ZenonT(30) DEF SessionsOwn
      <3>1. /\ o \in used /\ o \notin restored
            /\ \A u \in Tokens : Holds(u, o) => t = u
            /\ \A g \in Handlers : Owning(g) => addr[g] # o
            /\ \A s \in Sweeping : s.ip # o
        BY ZenonT(30), <2>6 DEF Owners, SessionsOwn
      <3>2. \A s \in Sweeping' : s.ip # o
        BY <2>5, <2>6, <2>13, SMTT(30)
      <3> QED
        BY ZenonT(30), <2>6, <2>7, <2>8, <3>1, <3>2
    <2>11. HandlersOwn'
      <3>1. \A g \in Handlers : Owning(g)' => \A s \in Sweeping' : s.ip # addr'[g]
        BY <2>5, <2>7, <2>8, <2>13
      <3> QED
        BY ZenonT(30), <2>7, <2>8, <3>1 DEF Owners, HandlersOwn
    <2>12. SweeperOwns'
      <3>1. \A t, u \in done : byToken[t].ip = byToken[u].ip => t = u
        BY ZenonT(30), <2>1, <2>9, <2>13
      <3> QED
        BY <2>5, <2>8, <2>13, <3>1 DEF SweeperOwns
    <2> QED
      BY ZenonT(30), <2>8, <2>10, <2>11, <2>12 DEF Owners
  <1>2. ASSUME NEW s \in swept, ExpirePeer(s) PROVE Owners'
    <2>1. \A t \in Tokens : \A o \in Pool : Holds(t, o)' => Holds(t, o)
      BY ZenonT(30), <1>2 DEF ExpirePeer, Holds
    <2>2. \A g \in Handlers : Owning(g)' => Owning(g) /\ addr'[g] = addr[g]
      BY ZenonT(30), <1>2 DEF ExpirePeer, Owning
    <2>3. Sweeping' \subseteq Sweeping /\ restored' = restored /\ used' = used
      BY ZenonT(30), <1>2 DEF ExpirePeer, Sweeping
    <2> QED
      BY ZenonT(30), <2>1, <2>2, <2>3, OwnersKept
  <1>3. CASE ExpireRelease
    <2>1. cur \in Sweeping /\ cur \notin swept /\ cur.ip \in Pool
      BY ZenonT(30), <1>3, RecordFacts DEF ExpireRelease, Sweeping, Locals, TypeOK
    <2>2. Sweeping' = swept /\ swept \subseteq Sweeping
      BY ZenonT(30), <1>3 DEF ExpireRelease, Sweeping
    <2>3. \A s \in Sweeping' : s \in Sweeping /\ s.ip # cur.ip
      BY ZenonT(30), <2>1, <2>2 DEF Owners, SweeperOwns
    <2>4. \A t \in Tokens : \A o \in Pool : Holds(t, o)' => Holds(t, o)
      BY ZenonT(30), <1>3 DEF ExpireRelease, Holds
    <2>5. \A t \in Tokens : \A o \in Pool : Holds(t, o)' => Holds(t, o) /\ o # cur.ip
      BY ZenonT(30), <2>1, <2>4 DEF Owners, SessionsOwn
    <2>6. \A g \in Handlers : Owning(g)' => Owning(g) /\ addr'[g] = addr[g]
      BY ZenonT(30), <1>3 DEF ExpireRelease, Owning
    <2>7. \A g \in Handlers : Owning(g) => addr[g] # cur.ip
      BY ZenonT(30), <2>1 DEF Owners, HandlersOwn
    <2>8. restored' = restored /\ used' = used \ {cur.ip} /\ cur.ip \notin restored
      BY ZenonT(30), <1>3, <2>1 DEF ExpireRelease, Release, Owners, SweeperOwns
    <2> QED
      BY ZenonT(30), <2>3, <2>5, <2>6, <2>7, <2>8, OwnersRelease
  <1>4. CASE ExpireRow
    <2>1. \A t \in Tokens : \A o \in Pool : Holds(t, o)' => Holds(t, o)
      BY ZenonT(30), <1>4 DEF ExpireRow, Holds
    <2>2. \A g \in Handlers : Owning(g)' => Owning(g) /\ addr'[g] = addr[g]
      BY ZenonT(30), <1>4 DEF ExpireRow, Owning
    <2>3. Sweeping' \subseteq Sweeping /\ restored' = restored /\ used' = used
      BY ZenonT(30), <1>4 DEF ExpireRow, Sweeping
    <2> QED
      BY ZenonT(30), <2>1, <2>2, <2>3, OwnersKept
  <1> QED
    BY ZenonT(30), <1>1, <1>2, <1>3, <1>4 DEF Sweeper

(* The end of sessions changes no owner.                                   *)
LEMMA TimeOwners ==
    ASSUME TypeOK, Owners, NEW t \in Tokens, TokenExpires(t) \/ CapReached(t)
    PROVE  Owners'
  <1> USE DEF ipam, request, sweeper, life
  <1>1. SessionsEnd({t}) /\ UNCHANGED <<ipam, request, sweeper, life>>
    BY ZenonT(30) DEF TokenExpires, CapReached
  <1>2. \A u \in Tokens : \A o \in Pool : Holds(u, o)' => Holds(u, o)
    BY ZenonT(30), <1>1, SessionsEndFacts DEF Holds
  <1>3. \A g \in Handlers : Owning(g)' => Owning(g) /\ addr'[g] = addr[g]
    BY ZenonT(30), <1>1 DEF Owning
  <1>4. Sweeping' = Sweeping /\ restored' = restored /\ used' = used
    BY ZenonT(30), <1>1 DEF Sweeping
  <1> QED
    BY ZenonT(30), <1>2, <1>3, <1>4, OwnersKept

(* LeaseInv is inductive.                                                  *)
LEMMA LeaseStep ==
    ASSUME Rollbacks = FALSE, LeaseInv, [Next]_vars
    PROVE  LeaseInv'
  <1>1. TypeOK /\ Locals /\ Owners
    BY ZenonT(30) DEF LeaseInv, Owners
  <1>2. ASSUME TypeOK', Locals', Owners' PROVE LeaseInv'
    BY ZenonT(30), <1>2 DEF LeaseInv, Owners
  <1>3. ASSUME NEW h \in Handlers, Authorize(h) PROVE LeaseInv'
    <2>1. TypeOK' /\ Locals'
      BY ZenonT(30), <1>1, <1>3, AuthorizeLocals
    <2>2. Owners'
      BY ZenonT(30), <1>1, <1>3, AuthorizeOwners, OpenOwners
    <2> QED
      BY ZenonT(30), <2>1, <2>2, <1>2
  <1>4. ASSUME NEW h \in Handlers, Revoke(h) PROVE LeaseInv'
    BY ZenonT(30), <1>1, <1>2, <1>4, RevokeLocals, RevokeOwners
  <1>5. CASE Sweeper
    BY ZenonT(30), <1>1, <1>2, <1>5, SweeperLocals, SweeperOwners
  <1>6. ASSUME NEW t \in Tokens, TokenExpires(t) \/ CapReached(t) PROVE LeaseInv'
    BY ZenonT(30), <1>1, <1>2, <1>6, TimeLocals, TimeOwners
  <1>7. ASSUME NEW past \in SUBSET Tokens, Restart(past) PROVE LeaseInv'
    BY ZenonT(30), <1>1, <1>7, RestartInv
  <1>8. CASE UNCHANGED vars
    <2> USE <1>8 DEF vars, sessions, ipam, request, sweeper, life
    <2>1. TypeOK' /\ Locals'
      BY ZenonT(30), <1>1 DEF TypeOK, Locals
    <2>2. \A t \in Tokens : \A o \in Pool : Holds(t, o)' => Holds(t, o)
      BY ZenonT(30) DEF Holds
    <2>3. \A g \in Handlers : Owning(g)' => Owning(g) /\ addr'[g] = addr[g]
      BY ZenonT(30) DEF Owning
    <2>4. Sweeping' = Sweeping /\ restored' = restored /\ used' = used
      BY ZenonT(30) DEF Sweeping
    <2>5. Owners'
      BY ZenonT(30), <1>1, <2>2, <2>3, <2>4, OwnersKept
    <2> QED
      BY ZenonT(30), <1>2, <2>1, <2>5
  <1> QED
    BY ZenonT(30), <1>3, <1>4, <1>5, <1>6, <1>7, <1>8 DEF Next

(* The inductive invariant of admission, for a node whose AddPeer does not *)
(* fail and that is not a RELAY given exit tokens.                         *)
THEOREM LeaseInvariant ==
    ASSUME Rollbacks = FALSE
    PROVE  Spec => []LeaseInv
  <1>1. LeaseInv /\ [Next]_vars => LeaseInv'
    BY ZenonT(30), LeaseStep
  <1> QED
    BY <1>1, LeaseInit, PTL DEF Spec

(* No two sessions of a node ever share an address, and no request about   *)
(* to release one holds an open session's (controller.go).                 *)
THEOREM LeasesUnique ==
    ASSUME Rollbacks = FALSE
    PROVE  Spec => []LeaseUnique
  <1>1. LeaseInv => LeaseUnique
    <2> SUFFICES ASSUME LeaseInv PROVE LeaseUnique
      BY ZenonT(30)
    <2>1. \A t \in Tokens : byToken[t] # None =>
             byToken[t].ip \in Pool /\ Holds(t, byToken[t].ip)
      BY ZenonT(30), RecordFacts DEF LeaseInv, TypeOK, Holds
    <2> QED
      BY ZenonT(30), <2>1 DEF LeaseInv, SessionsOwn, LeaseUnique, LeaseHeld
  <1> QED
    BY <1>1, LeaseInvariant, PTL

(* The addresses NewController reserves from the table stay reserved, and  *)
(* no session of the new process gets one.                                 *)
THEOREM RestoredLeasesKept ==
    ASSUME Rollbacks = FALSE
    PROVE  Spec => []RestoredKept
  <1>1. LeaseInv => RestoredKept
    <2> SUFFICES ASSUME LeaseInv PROVE RestoredKept
      BY ZenonT(30)
    <2>1. \A t \in Tokens : byToken[t] # None =>
             byToken[t].ip \in Pool /\ Holds(t, byToken[t].ip)
      BY ZenonT(30), RecordFacts DEF LeaseInv, TypeOK, Holds
    <2> QED
      BY ZenonT(30), <2>1 DEF LeaseInv, SessionsOwn, RestoredKept
  <1> QED
    BY <1>1, LeaseInvariant, PTL

(* Each step of the controller is a step of the abstract table, or leaves  *)
(* the table alone.  The one step that needs the invariant is the opening  *)
(* of a session: its address has no other owner and was not restored.      *)
LEMMA TableStep ==
    ASSUME LeaseInv, Rollbacks = FALSE, [Next]_vars
    PROVE  [Table!Next]_(Table!tableVars)
  <1> DEFINE L == [t \in Tokens |-> IF byToken[t] = None THEN None ELSE byToken[t].ip]
             Same == L' = L /\ restored' = restored
  <1> USE DEF vars, sessions, ipam, request, sweeper, life
  <1>1. ASSUME Same PROVE UNCHANGED Table!tableVars
    BY ZenonT(30), <1>1 DEF Table!tableVars
  <1>2. ASSUME byToken' = byToken, restored' = restored PROVE Same
    BY ZenonT(30), <1>2
  <1>3. ASSUME NEW C \in SUBSET Tokens, restored' = restored,
               byToken' = [t \in Tokens |-> IF t \in C THEN None ELSE byToken[t]]
        PROVE  Table!Next
    <2>1. L' = [t \in Tokens |-> IF t \in C THEN None ELSE L[t]]
      BY ZenonT(30), <1>3
    <2>2. Table!End(C)
      BY ZenonT(30), <1>3, <2>1 DEF Table!End
    <2> QED
      BY ZenonT(30), <2>2 DEF Table!Next
  <1>4. ASSUME NEW t \in Tokens, restored' = restored, byToken' = [byToken EXCEPT ![t] = None]
        PROVE  Table!Next
    <2>1. byToken' = [u \in Tokens |-> IF u \in {t} THEN None ELSE byToken[u]]
      BY ZenonT(30), <1>4 DEF LeaseInv, TypeOK
    <2> QED
      BY ZenonT(30), <1>3, <1>4, <2>1
  <1>5. ASSUME NEW h \in Handlers, AuthorizeOpens(h) PROVE Table!Next
    <2>1. tok[h] \in Tokens /\ addr[h] \in Pool /\ Owning(h)
      BY ZenonT(30), <1>5 DEF LeaseInv, Locals, AuthorizeOpens, Goto, Owning
    <2>2. addr[h] \notin restored
      BY ZenonT(30), <2>1 DEF LeaseInv, HandlersOwn
    <2>3. \A t \in Tokens : L[t] # addr[h]
      <3>1. \A t \in Tokens : byToken[t] # None => byToken[t].ip # addr[h]
        BY ZenonT(30), <2>1 DEF LeaseInv, SessionsOwn, Holds
      <3> QED
        BY ZenonT(30), <2>1, <3>1, PoolFacts
    <2>4. L' = [L EXCEPT ![tok[h]] = addr[h]]
      <3> DEFINE s == [key |-> key[h], ip |-> addr[h], over |-> FALSE]
      <3>1. s \in Session
        BY ZenonT(30), <1>5, <2>1, RecordFacts DEF LeaseInv, Locals, AuthorizeOpens, Goto
      <3>2. s # None /\ s.ip = addr[h]
        BY ZenonT(30), <3>1, PoolFacts
      <3>3. byToken' = [byToken EXCEPT ![tok[h]] = s]
        BY ZenonT(30), <1>5 DEF AuthorizeOpens
      <3> HIDE DEF s
      <3> QED
        BY ZenonT(30), <2>1, <3>2, <3>3 DEF LeaseInv, TypeOK
    <2>5. PICK c \in Tokens, a \in Pool : c = tok[h] /\ a = addr[h]
      BY ZenonT(30), <2>1
    <2>6. Table!Grant(c, a)
      BY ZenonT(30), <1>5, <2>2, <2>3, <2>4, <2>5 DEF AuthorizeOpens, Table!Grant
    <2> QED
      BY ZenonT(30), <2>6 DEF Table!Next
  <1>6. ASSUME NEW h \in Handlers, Authorize(h) PROVE Table!Next \/ Same
    BY ZenonT(30), <1>2, <1>5, <1>6 DEF Authorize, AuthorizeCheck, Allocate, PoolExhausted,
       AuthorizeRefused, RollbackRevoke, ReleaseRefused, InstallPeer, UpsertClient
  <1>7. ASSUME NEW h \in Handlers, Revoke(h) PROVE Table!Next \/ Same
    <2>1. CASE RevokeSession(h)
      <3>1. tok[h] \in Tokens
        BY ZenonT(30), <2>1 DEF LeaseInv, Locals, RevokeSession, Goto
      <3> QED
        BY ZenonT(30), <1>4, <2>1, <3>1 DEF RevokeSession, ManagerRevoke
    <2>2. CASE ~RevokeSession(h)
      BY ZenonT(30), <1>2, <1>7, <2>2 DEF Revoke, RevokeGet, RevokeUnknown, RevokePeer,
                                          RevokeRelease, RevokeRow
    <2> QED
      BY ZenonT(30), <2>1, <2>2
  <1>8. ASSUME Sweeper PROVE Table!Next \/ Same
    <2>1. CASE SweepOnce
      <3> DEFINE done == {t \in Tokens : byToken[t] # None /\ byToken[t].over}
      <3>1. /\ byToken' = [t \in Tokens |-> IF t \in done THEN None ELSE byToken[t]]
            /\ restored' = restored
        BY ZenonT(30), <2>1 DEF SweepOnce
      <3> HIDE DEF done
      <3>2. done \in SUBSET Tokens
        BY ZenonT(30) DEF done
      <3> QED
        BY ZenonT(30), <1>3, <3>1, <3>2
    <2>2. CASE ~SweepOnce
      BY ZenonT(30), <1>2, <1>8, <2>2 DEF Sweeper, ExpirePeer, ExpireRelease, ExpireRow
    <2> QED
      BY ZenonT(30), <2>1, <2>2
  <1>9. ASSUME NEW t \in Tokens, TokenExpires(t) \/ CapReached(t) PROVE Same
    <2>1. SessionsEnd({t}) /\ restored' = restored
      BY ZenonT(30), <1>9 DEF TokenExpires, CapReached
    <2>2. /\ \A u \in Tokens : byToken'[u] = None <=> byToken[u] = None
          /\ \A u \in Tokens : byToken[u] # None => byToken'[u].ip = byToken[u].ip
      BY ZenonT(30), <2>1, SessionsEndFacts DEF LeaseInv
    <2> QED
      BY ZenonT(30), <2>1, <2>2
  <1>10. ASSUME NEW past \in SUBSET Tokens, Restart(past) PROVE Table!Next
    <2>1. L' = [t \in Tokens |-> None]
      BY ZenonT(30), <1>10 DEF Restart
    <2>2. restored' \in SUBSET Pool
      BY ZenonT(30), <1>10, LeaseStep DEF Next, LeaseInv, TypeOK
    <2>3. PICK K \in SUBSET Pool : K = restored'
      BY ZenonT(30), <2>2
    <2>4. Table!Reboot(K)
      BY ZenonT(30), <2>1, <2>3 DEF Table!Reboot
    <2> QED
      BY ZenonT(30), <2>4 DEF Table!Next
  <1>11. ASSUME UNCHANGED vars PROVE Same
    BY ZenonT(30), <1>2, <1>11
  <1> HIDE DEF Same
  <1> QED
    BY ZenonT(30), <1>1, <1>6, <1>7, <1>8, <1>9, <1>10, <1>11 DEF Next

(* The controller, with a lock for each of its parts and none across them, *)
(* implements the table of leases that is changed in one step, for every   *)
(* number of handlers, clients and restarts (controller.go).               *)
THEOREM TableImplemented ==
    ASSUME Rollbacks = FALSE
    PROVE  Spec => ImplementsTable
  <1>1. Init => Table!Init
    BY ZenonT(30) DEF Init, Table!Init
  <1>2. LeaseInv /\ [Next]_vars => [Table!Next]_(Table!tableVars)
    BY ZenonT(30), TableStep
  <1> QED
    BY <1>1, <1>2, LeaseInvariant, PTL DEF Spec, ImplementsTable, Table!Spec

(* Every address in use has exactly one owner, for every number of         *)
(* handlers, clients and restarts, while AddPeer does not fail             *)
(* (controller.go, Authorize, Revoke and the sweeper).                     *)
THEOREM LeasesExactlyOwned ==
    ASSUME Rollbacks = FALSE
    PROVE  Spec => []LeasesOwned
  <1>1. LeaseInv /\ NoLeaseLost => LeasesOwned
    BY ZenonT(30) DEF LeasesOwned
  <1> QED
    BY <1>1, LeaseInvariant, LeasesNeverLost, PTL

(***************************************************************************)
(* Capacity.                                                               *)
(***************************************************************************)
LiveTokens == {t \in Tokens : Live(t)}

INSTANCE FiniteSetTheorems

(* There are finitely many clients and handlers.                           *)
LEMMA Finiteness ==
    /\ IsFiniteSet(Tokens) /\ IsFiniteSet(Handlers)
    /\ IsFiniteSet(LiveTokens) /\ IsFiniteSet(InFlight)
    /\ InFlight \subseteq Handlers
  <1> DEFINE f == [r \in Requests |-> r[1]]
  <1>1. f \in Surjection(Requests, Tokens)
    BY ZenonT(30) DEF Surjection, Tokens
  <1>2. IsFiniteSet(Tokens)
    BY ZenonT(30), <1>1, NodeAssumption, FS_Surjection
  <1> QED
    BY ZenonT(30), <1>2, NodeAssumption, FS_Subset DEF LiveTokens, InFlight

(* Fewer live sessions and fewer requests on their way keep the bound.     *)
LEMMA FewerFit ==
    ASSUME CapacityBound, LiveTokens' \subseteq LiveTokens, InFlight' \subseteq InFlight
    PROVE  CapacityBound'
  <1>1. /\ Cardinality(LiveTokens') <= Cardinality(LiveTokens)
        /\ Cardinality(InFlight') <= Cardinality(InFlight)
    BY ZenonT(30), Finiteness, FS_Subset
  <1>2. /\ Cardinality(LiveTokens') \in Nat /\ Cardinality(LiveTokens) \in Nat
        /\ Cardinality(InFlight') \in Nat /\ Cardinality(InFlight) \in Nat
        /\ Cardinality(Handlers) \in Nat
    BY ZenonT(30), <1>1, Finiteness, FS_Subset, FS_CardinalityType
  <1> QED
    BY <1>1, <1>2, NodeAssumption DEF CapacityBound, ActiveCount, LiveTokens

(* A request that passed the check, which is when fewer than MaxClients    *)
(* sessions live, and one that becomes a session.                          *)
LEMMA AdmissionFits ==
    ASSUME TypeOK, Locals, CapacityBound, NEW h \in Handlers,
           AuthorizeOpens(h) \/ \E r \in Requests : AuthorizeCheck(h, r)
    PROVE  CapacityBound'
  <1>0. /\ Cardinality(LiveTokens) \in Nat /\ Cardinality(InFlight) \in Nat
        /\ Cardinality(Handlers) \in Nat
    BY ZenonT(30), Finiteness, FS_CardinalityType
  <1>1. CASE \E r \in Requests : AuthorizeCheck(h, r)
    <2>1. LiveTokens' = LiveTokens /\ Cardinality(LiveTokens) < MaxClients
      BY ZenonT(30), <1>1 DEF AuthorizeCheck, LiveTokens, ActiveCount, Live, sessions
    <2>2. InFlight' \subseteq Handlers
      BY ZenonT(30) DEF InFlight
    <2>3. Cardinality(InFlight') \in Nat /\ Cardinality(InFlight') <= Cardinality(Handlers)
      BY ZenonT(30), <2>2, Finiteness, FS_Subset, FS_CardinalityType
    <2> SUFFICES Cardinality(LiveTokens') + Cardinality(InFlight')
                    <= MaxClients - 1 + Cardinality(Handlers)
      BY ZenonT(30) DEF CapacityBound, ActiveCount, LiveTokens
    <2>4. Cardinality(LiveTokens') <= MaxClients - 1
      BY <1>0, <2>1, NodeAssumption
    <2> QED
      BY <1>0, <2>1, <2>3, <2>4, NodeAssumption
  <1>2. CASE AuthorizeOpens(h)
    <2>1. tok[h] \in Tokens /\ h \in InFlight
      BY ZenonT(30), <1>2 DEF AuthorizeOpens, Goto, Locals, InFlight
    <2>2. InFlight' = InFlight \ {h}
      BY ZenonT(30), <1>2 DEF AuthorizeOpens, Goto, InFlight, TypeOK
    <2>3. LiveTokens' \subseteq LiveTokens \cup {tok[h]}
      BY ZenonT(30), <1>2 DEF AuthorizeOpens, LiveTokens, Live, TypeOK
    <2>4. Cardinality(InFlight') = Cardinality(InFlight) - 1
      BY ZenonT(30), <2>1, <2>2, Finiteness, FS_RemoveElement
    <2>5. /\ Cardinality(LiveTokens') \in Nat
          /\ Cardinality(LiveTokens') <= Cardinality(LiveTokens) + 1
      <3> DEFINE more == LiveTokens \cup {tok[h]}
      <3>0. /\ IsFiniteSet(more)
            /\ Cardinality(more) = IF tok[h] \in LiveTokens THEN Cardinality(LiveTokens)
                                   ELSE Cardinality(LiveTokens) + 1
        BY ZenonT(30), Finiteness, FS_AddElement
      <3>1. /\ Cardinality(more) <= Cardinality(LiveTokens) + 1
            /\ Cardinality(more) \in Nat
        BY <1>0, <3>0
      <3>2. /\ IsFiniteSet(LiveTokens')
            /\ Cardinality(LiveTokens') <= Cardinality(more)
        BY ZenonT(30), <2>3, <3>0, FS_Subset
      <3>3. Cardinality(LiveTokens') \in Nat
        BY ZenonT(30), <3>2, FS_CardinalityType
      <3> HIDE DEF more
      <3> QED
        BY <1>0, <3>1, <3>2, <3>3
    <2> QED
      BY <1>0, <2>4, <2>5, NodeAssumption DEF CapacityBound, ActiveCount, LiveTokens
  <1> QED
    BY ZenonT(30), <1>1, <1>2

(* Every other step ends sessions or requests, or none.                    *)
LEMMA OthersFit ==
    ASSUME TypeOK, Locals, [Next]_vars,
           \A h \in Handlers : ~AuthorizeOpens(h) /\ \A r \in Requests : ~AuthorizeCheck(h, r)
    PROVE  LiveTokens' \subseteq LiveTokens /\ InFlight' \subseteq InFlight
  <1> USE DEF Goto, Finish, sessions, ipam, request, sweeper, life
  <1>0. DOMAIN byToken = Tokens
    BY ZenonT(30), RequestDomains
  <1>1. ASSUME NEW h \in Handlers, Authorize(h)
        PROVE  LiveTokens' \subseteq LiveTokens /\ InFlight' \subseteq InFlight
    <2>1. h \in InFlight' => h \in InFlight
      BY ZenonT(30), <1>1, RequestDomains
         DEF Authorize, Allocate, PoolExhausted, AuthorizeRefused,
         RollbackRevoke, ReleaseRefused, InstallPeer, UpsertClient, InFlight
    <2>2. byToken' = byToken \/ byToken' = [byToken EXCEPT ![tok[h]] = None]
      BY ZenonT(30), <1>1
         DEF Authorize, Allocate, PoolExhausted, AuthorizeRefused, RollbackRevoke,
         ManagerRevoke, ReleaseRefused, InstallPeer, UpsertClient
    <2>3. InFlight' \subseteq InFlight
      BY ZenonT(30), <1>1, <2>1, OthersStand DEF InFlight
    <2> QED
      BY ZenonT(30), <1>0, <2>2, <2>3 DEF LiveTokens, Live
  <1>2. ASSUME NEW h \in Handlers, Revoke(h)
        PROVE  LiveTokens' \subseteq LiveTokens /\ InFlight' \subseteq InFlight
    <2>1. h \in InFlight' => h \in InFlight
      BY ZenonT(30), <1>2, RequestDomains DEF Revoke, RevokeGet, RevokeSession, RevokeUnknown,
                                              RevokePeer,
         RevokeRelease, RevokeRow, InFlight
    <2>2. byToken' = byToken \/ byToken' = [byToken EXCEPT ![tok[h]] = None]
      BY ZenonT(30), <1>2 DEF Revoke, RevokeGet, RevokeSession, ManagerRevoke, RevokeUnknown,
                              RevokePeer,
         RevokeRelease, RevokeRow
    <2>3. InFlight' \subseteq InFlight
      BY ZenonT(30), <1>2, <2>1, OthersStand DEF InFlight
    <2> QED
      BY ZenonT(30), <1>0, <2>2, <2>3 DEF LiveTokens, Live
  <1>3. CASE Sweeper
    <2>1. \A t \in Tokens : byToken'[t] = byToken[t] \/ byToken'[t] = None
      BY ZenonT(30), <1>3 DEF Sweeper, SweepOnce, ExpirePeer, ExpireRelease, ExpireRow
    <2>2. pc' = pc
      BY ZenonT(30), <1>3 DEF Sweeper, SweepOnce, ExpirePeer, ExpireRelease, ExpireRow
    <2> QED
      BY ZenonT(30), <2>1, <2>2 DEF LiveTokens, Live, InFlight
  <1>4. ASSUME NEW t \in Tokens, TokenExpires(t) \/ CapReached(t)
        PROVE  LiveTokens' \subseteq LiveTokens /\ InFlight' \subseteq InFlight
    <2>1. SessionsEnd({t}) /\ pc' = pc
      BY ZenonT(30), <1>4 DEF TokenExpires, CapReached
    <2>2. LiveTokens' \subseteq LiveTokens
      BY ZenonT(30), <2>1 DEF SessionsEnd, LiveTokens, Live
    <2> QED
      BY ZenonT(30), <2>1, <2>2 DEF InFlight
  <1>5. ASSUME NEW past \in SUBSET Tokens, Restart(past)
        PROVE  LiveTokens' \subseteq LiveTokens /\ InFlight' \subseteq InFlight
    BY ZenonT(30), <1>5 DEF Restart, LiveTokens, Live, InFlight
  <1>6. CASE UNCHANGED vars
    BY ZenonT(30), <1>6 DEF vars, LiveTokens, Live, InFlight
  <1> QED
    BY ZenonT(30), <1>1, <1>2, <1>3, <1>4, <1>5, <1>6 DEF Next

(* The check before Allocate bounds the sessions by MaxClients and the     *)
(* requests that slip past it together, for every number of handlers and   *)
(* clients (controller.go 164-245).                                        *)
THEOREM CapacityHeld == Spec => []CapacityBound
  <1>1. Init => CapacityBound
    <2> SUFFICES ASSUME Init PROVE CapacityBound
      BY ZenonT(30)
    <2>1. LiveTokens = {} /\ InFlight = {}
      BY ZenonT(30) DEF Init, LiveTokens, Live, InFlight
    <2>2. Cardinality(Handlers) \in Nat
      BY ZenonT(30), Finiteness, FS_CardinalityType
    <2> QED
      BY <2>1, <2>2, FS_EmptySet, NodeAssumption DEF CapacityBound, ActiveCount, LiveTokens
  <1>2. Typed /\ CapacityBound /\ [Next]_vars => CapacityBound'
    BY ZenonT(30), AdmissionFits, OthersFit, FewerFit DEF Typed
  <1> QED
    BY <1>1, <1>2, TypesInvariant, PTL DEF Spec
=============================================================================
