---------------------------- MODULE GuardProofs -----------------------------
(***************************************************************************)
(* What a node does against abuse (AbuseGuard), and a client against leaks *)
(* (LeakProtection).                                                       *)
(***************************************************************************)
EXTENDS AbuseGuard, LeakProtection, TLAPS

-----------------------------------------------------------------------------
(***************************************************************************)
(* For any machines and plans, any number of crashes and any failures: a   *)
(* connected session has its leak protection in force, provided that       *)
(* pfctl -e does not fail unseen.                                          *)
(***************************************************************************)

(* The four firewalls are the only ones; pf is reliable or absent.         *)
LEMMA MachineFacts ==
    ASSUME <<fw, rv>> \in Platforms, PfReliable
    PROVE  fw \in Firewalls /\ (fw = "pf" => ~MayFail)
<1>1. <<fw, rv>> \in Firewalls \X Resolvers /\ <<fw, rv>>[1] = fw
  BY ZenonT(30), LeakAssumption
<1> QED
  BY ZenonT(30), <1>1 DEF PfReliable, MayFail

(* The machine before VeilNet starts satisfies the invariant.              *)
LEMMA InitShield == Init => ShieldInv
<1> SUFFICES ASSUME Init PROVE ShieldInv
  BY ZenonT(30)
<1>1. PICK m \in Platforms : fw = m[1] /\ rv = m[2]
  BY ZenonT(30) DEF Init
<1>2. m \in Firewalls \X Resolvers
  BY ZenonT(30), LeakAssumption
<1>3. <<fw, rv>> = m
  BY <1>1, <1>2
<1> QED
  BY ZenonT(30), <1>3 DEF Init, ShieldInv, ProtectedWhileUp

(* Every step of Apply keeps what the steps before it put in force.        *)
LEMMA ApplyShield ==
    ASSUME ShieldInv, PfReliable, Apply
    PROVE  ShieldInv'
<1>0. fw \in Firewalls /\ (fw = "pf" => ~MayFail)
  BY ZenonT(30), MachineFacts DEF ShieldInv
<1> USE <1>0 DEF ShieldInv, ProtectedWhileUp, Blocked, Goto, StartClear, Rollback,
            machine, files, enforcer, history, past, host, Firewalls
<1>1. CASE RemoveStale
  BY ZenonT(30), <1>1 DEF RemoveStale
<1>2. CASE SnapshotPolicy
  BY ZenonT(30), <1>2 DEF SnapshotPolicy
<1>3. CASE SnapshotPolicyFails
  BY ZenonT(30), <1>3 DEF SnapshotPolicyFails
<1>4. CASE EnableRules
  BY ZenonT(30), <1>4 DEF EnableRules
<1>5. CASE EnableFails
  BY ZenonT(30), <1>5 DEF EnableFails
<1>6. CASE SetBlock
  BY ZenonT(30), <1>6 DEF SetBlock, AssertBlock
<1>7. CASE SetBlockFails
  BY ZenonT(30), <1>7 DEF SetBlockFails
<1>8. CASE WriteSentinel
  BY ZenonT(30), <1>8 DEF WriteSentinel
<1>9. CASE NewDnsManager
  BY ZenonT(30), <1>9 DEF NewDnsManager
<1>10. CASE EnsureSnapshot
  BY ZenonT(30), <1>10 DEF EnsureSnapshot
<1>11. CASE ResolversRefused
  BY ZenonT(30), <1>11 DEF ResolversRefused
<1>12. CASE SetResolvers
  BY ZenonT(30), <1>12 DEF SetResolvers
<1>13. CASE SetResolversFails
  BY ZenonT(30), <1>13 DEF SetResolversFails
<1>14. CASE CommitApply
  BY ZenonT(30), <1>14 DEF CommitApply
<1>15. CASE BlockIPv6Fails
  BY ZenonT(30), <1>15 DEF BlockIPv6Fails
<1> QED
  BY ZenonT(30), <1>1, <1>2, <1>3, <1>4, <1>5, <1>6, <1>7, <1>8, <1>9, <1>10, <1>11, <1>12, <1>13,
     <1>14, <1>15 DEF Apply

(* Clear and the rollback run while no session is up, and end without one. *)
LEMMA ClearShield ==
    ASSUME ShieldInv, PfReliable, Clear
    PROVE  ShieldInv'
<1>0. fw \in Firewalls /\ (fw = "pf" => ~MayFail)
  BY ZenonT(30), MachineFacts DEF ShieldInv
<1> USE <1>0 DEF ShieldInv, ProtectedWhileUp, Blocked, Goto, StartClear, Rollback,
            machine, files, enforcer, history, past, host, Firewalls
<1>1. CASE RestoreIPv6
  BY ZenonT(30), <1>1 DEF RestoreIPv6
<1>2. CASE RestoreResolvers
  BY ZenonT(30), <1>2 DEF RestoreResolvers
<1>3. CASE DisableRemove
  BY ZenonT(30), <1>3 DEF DisableRemove
<1>4. CASE DisableRestore
  BY ZenonT(30), <1>4 DEF DisableRestore
<1>5. CASE DisableUndone
  BY ZenonT(30), <1>5 DEF DisableUndone
<1>6. CASE Cleared
  BY ZenonT(30), <1>6 DEF Cleared
<1> QED
  BY ZenonT(30), <1>1, <1>2, <1>3, <1>4, <1>5, <1>6 DEF Clear

(* So do the calls themselves, FailClosed, the start and the end of the    *)
(* process.                                                                *)
LEMMA CallShield ==
    ASSUME ShieldInv, PfReliable,
           (\E p \in Plans : Connect(p)) \/ PlanFails \/ Disconnect \/ FailClosed \/ Boot \/ Crash
    PROVE  ShieldInv'
<1>0. fw \in Firewalls /\ (fw = "pf" => ~MayFail)
  BY ZenonT(30), MachineFacts DEF ShieldInv
<1> USE <1>0 DEF ShieldInv, ProtectedWhileUp, Blocked, Goto, StartClear,
            machine, files, enforcer, history, past, host, Firewalls
<1>1. ASSUME NEW p \in Plans, Connect(p) PROVE ShieldInv'
  BY ZenonT(30), <1>1 DEF Connect
<1>2. CASE PlanFails
  BY ZenonT(30), <1>2 DEF PlanFails
<1>3. CASE Disconnect
  BY ZenonT(30), <1>3 DEF Disconnect
<1>4. CASE FailClosed
  <2>1. block => block'
    <3>1. CASE AssertBlock
      BY ZenonT(30), <3>1 DEF AssertBlock
    <3>2. CASE block' = block \/ block' = TRUE
      BY ZenonT(30), <3>2
    <3> QED
      BY ZenonT(30), <1>4, <3>1, <3>2 DEF FailClosed
  <2>2. Blocked => Blocked'
    BY ZenonT(30), <1>4, <2>1 DEF FailClosed
  <2> QED
    BY ZenonT(30), <1>4, <2>2 DEF FailClosed
<1>5. CASE Boot
  BY ZenonT(30), <1>5 DEF Boot
<1>6. CASE Crash
  BY ZenonT(30), <1>6 DEF Crash
<1> QED
  BY ZenonT(30), <1>1, <1>2, <1>3, <1>4, <1>5, <1>6

(* The inductive invariant holds in every reachable state.                 *)
THEOREM ShieldInvariant == ASSUME PfReliable PROVE Spec => []ShieldInv
<1>1. ShieldInv /\ [Next]_vars => ShieldInv'
  <2> SUFFICES ASSUME ShieldInv, [Next]_vars PROVE ShieldInv'
    BY ZenonT(30)
  <2>1. CASE UNCHANGED vars
    BY ZenonT(30), <2>1 DEF vars, machine, files, enforcer, history, past, host, ShieldInv,
                            ProtectedWhileUp,
                Blocked
  <2>2. CASE Next
    BY ZenonT(30), <2>2, ApplyShield, ClearShield, CallShield DEF Next
  <2> QED
    BY ZenonT(30), <2>1, <2>2
<1> QED
  BY <1>1, InitShield, PTL DEF Spec

(* A session that App reports as connected has the kill switch, the        *)
(* resolvers and the IPv6 block of its plan in force, whatever failed or   *)
(* crashed before: enforcement is fail-closed.                             *)
THEOREM Protected == ASSUME PfReliable PROVE Spec => []ProtectedWhileUp
<1>1. ShieldInv => ProtectedWhileUp
  BY ZenonT(30) DEF ShieldInv
<1> QED
  BY <1>1, ShieldInvariant, PTL

-----------------------------------------------------------------------------
(***************************************************************************)
(* The abuse guard for every burst, window, threshold, and set of          *)
(* addresses, keys, goroutines and commands: RateBound of the limiter and  *)
(* of the guard that uses it, OperatorEditsHold and TriggerFires.          *)
(***************************************************************************)

(* One bucket: what it holds, and what each admission since the i-th cost, *)
(* never exceeds a full bucket and what was refilled since.                *)
Ledger(c, k) ==
    \A i \in 1..Len(admitted[c][k]) :
        bucket[c][k].tokens + Window[c] * (Len(admitted[c][k]) - i + 1)
            <= Full(c) + (bucket[c][k].last - admitted[c][k][i])

BucketOK(c, k) ==
    /\ bucket[c][k].tokens \in 0..Full(c) /\ bucket[c][k].last \in 0..time
    /\ admitted[c][k] \in Seq(Nat)

Bound(c, k) ==
    \A j \in 1..Len(admitted[c][k]) : \A i \in 1..j :
        Window[c] * (j - i + 1) <= Full(c) + (admitted[c][k][j] - admitted[c][k][i])

LimiterInv ==
    /\ time \in Nat
    /\ bucket \in [Classes -> [Keys -> [tokens : Nat, last : Nat]]]
    /\ admitted \in [Classes -> [Keys -> Seq(Nat)]]
    /\ \A c \in Classes, k \in Keys : BucketOK(c, k) /\ Ledger(c, k) /\ Bound(c, k)

-----------------------------------------------------------------------------
(***************************************************************************)
(* Arithmetic.                                                             *)
(***************************************************************************)

(* The cost of one admission more.                                         *)
LEMMA OneMore ==
    ASSUME NEW w \in Nat, NEW n \in Nat
    PROVE  w * (n + 1) = w * n + w /\ w * n \in Nat
BY SMT

(* The number of admissions from the i-th to the n-th.                     *)
LEMMA Stretch ==
    ASSUME NEW n \in Nat, NEW i \in 1..n
    PROVE  n - i + 1 \in Nat /\ n + 1 - i + 1 = (n - i + 1) + 1
BY SMT

(* What a bucket lost in tokens the elapsed time made up for.              *)
LEMMA RefillPays ==
    ASSUME NEW r \in Nat, NEW t \in Nat, NEW cost \in Nat, NEW f \in Nat,
           NEW l \in Nat, NEW a \in Nat, NEW now \in Nat,
           t + cost <= f + (l - a), r <= t + (now - l)
    PROVE  r + cost <= f + (now - a)
BY SMT

(* The elements of a sequence of numbers are numbers.                      *)
LEMMA Element ==
    ASSUME NEW s \in Seq(Nat), NEW i \in 1..Len(s)
    PROVE  s[i] \in Nat
BY SMT

(* A full bucket holds at least one request.                               *)
LEMMA FullIsNat ==
    ASSUME NEW c \in Classes
    PROVE  Full(c) \in Nat /\ Window[c] \in Nat \ {0} /\ Window[c] <= Full(c)
<1>1. Burst[c] \in Nat \ {0} /\ Window[c] \in Nat \ {0}
  BY ZenonT(30), LimiterAssumption
<1>2. \A b, w \in Nat \ {0} : b * w \in Nat /\ w <= b * w
  <2> SUFFICES ASSUME NEW b \in Nat \ {0}, NEW w \in Nat \ {0}
               PROVE  b * w \in Nat /\ w <= b * w
    BY ZenonT(30)
  <2>1. b - 1 \in Nat /\ b * w = (b - 1) * w + w /\ (b - 1) * w \in Nat
    BY SMT
  <2> QED BY <2>1, SMT
<1> QED BY ZenonT(30), <1>1, <1>2 DEF Full

(***************************************************************************)
(* The steps.                                                              *)
(***************************************************************************)

(* What allow finds after the refill: no more than a full bucket, and no   *)
(* more than what was there and the time that passed (ratelimit.go         *)
(* 111-118).                                                               *)
LEMMA RefillBounds ==
    ASSUME LimiterInv, NEW c \in Classes, NEW k \in Keys
    PROVE  /\ Refilled(c, k) \in 0..Full(c)
           /\ Refilled(c, k) <= bucket[c][k].tokens + (time - bucket[c][k].last)
<1>1. /\ Full(c) \in Nat /\ time \in Nat
      /\ bucket[c][k].tokens \in 0..Full(c) /\ bucket[c][k].last \in 0..time
  BY ZenonT(30), FullIsNat DEF LimiterInv, BucketOK
<1> QED BY <1>1 DEF Refilled

(* A refill keeps the ledger: the elapsed time pays for it.                *)
LEMMA RefillKeepsLedger ==
    ASSUME LimiterInv, NEW c \in Classes, NEW k \in Keys,
           NEW i \in 1..Len(admitted[c][k])
    PROVE  Refilled(c, k) + Window[c] * (Len(admitted[c][k]) - i + 1)
               <= Full(c) + (time - admitted[c][k][i])
<1> DEFINE n == Len(admitted[c][k])
           cost == Window[c] * (n - i + 1)
<1>1. /\ Full(c) \in Nat /\ time \in Nat /\ Window[c] \in Nat
      /\ bucket[c][k].tokens \in Nat /\ bucket[c][k].last \in 0..time
      /\ admitted[c][k] \in Seq(Nat)
  BY ZenonT(30), FullIsNat DEF LimiterInv, BucketOK
<1>2. n \in Nat /\ n - i + 1 \in Nat /\ admitted[c][k][i] \in Nat
  <2>1. n \in Nat
    BY <1>1
  <2>2. n - i + 1 \in Nat
    BY ZenonT(30), <2>1, Stretch
  <2>3. admitted[c][k][i] \in Nat
    BY ZenonT(30), <1>1, Element
  <2> QED BY ZenonT(30), <2>1, <2>2, <2>3
<1>3. cost \in Nat
  <2>1. \A w, m \in Nat : w * m \in Nat
    BY SMT
  <2> QED BY ZenonT(30), <1>1, <1>2, <2>1
<1>4. bucket[c][k].tokens + cost <= Full(c) + (bucket[c][k].last - admitted[c][k][i])
  BY ZenonT(30) DEF LimiterInv, Ledger
<1>5. Refilled(c, k) \in Nat
      /\ Refilled(c, k) <= bucket[c][k].tokens + (time - bucket[c][k].last)
  BY RefillBounds, <1>1
<1>6. bucket[c][k].last \in Nat
  BY <1>1
<1> HIDE DEF cost
<1>7. Refilled(c, k) + cost <= Full(c) + (time - admitted[c][k][i])
  BY ZenonT(30), <1>1, <1>2, <1>3, <1>4, <1>5, <1>6, RefillPays
<1> QED BY ZenonT(30), <1>7 DEF cost

(* The per-bucket part of the invariant only looks at its own bucket.      *)
LEMMA OtherBuckets ==
    ASSUME LimiterInv, NEW c \in Classes, NEW k \in Keys,
           bucket'[c][k] = bucket[c][k], admitted'[c][k] = admitted[c][k],
           time' \in Nat, time <= time'
    PROVE  (BucketOK(c, k) /\ Ledger(c, k) /\ Bound(c, k))'
<1>1. BucketOK(c, k) /\ Ledger(c, k) /\ Bound(c, k) /\ time \in Nat
  BY ZenonT(30) DEF LimiterInv
<1>2. BucketOK(c, k)'
  BY <1>1, FullIsNat DEF BucketOK, Full
<1>3. Ledger(c, k)'
  BY ZenonT(30), <1>1 DEF Ledger, Full
<1>4. Bound(c, k)'
  BY ZenonT(30), <1>1 DEF Bound, Full
<1> QED BY ZenonT(30), <1>2, <1>3, <1>4

(* An admission: a full refill less one token, and one more entry.         *)
LEMMA AllowKeeps ==
    ASSUME LimiterInv, NEW c \in Classes, NEW k \in Keys, Allow(c, k)
    PROVE  (BucketOK(c, k) /\ Ledger(c, k) /\ Bound(c, k))'
<1> DEFINE h == admitted[c][k]
           n == Len(h)
           r == Refilled(c, k)
<1>1. /\ Full(c) \in Nat /\ Window[c] \in Nat \ {0} /\ time \in Nat
      /\ h \in Seq(Nat) /\ n \in Nat
  BY FullIsNat DEF LimiterInv, BucketOK
<1>2. r \in 0..Full(c) /\ r >= Window[c]
  BY ZenonT(30), RefillBounds DEF Allow
<1>3. /\ bucket'[c][k] = [tokens |-> r - Window[c], last |-> time]
      /\ admitted'[c][k] = Append(h, time) /\ time' = time
  BY ZenonT(30) DEF Allow, LimiterInv
<1>4. /\ Len(admitted'[c][k]) = n + 1 /\ admitted'[c][k] \in Seq(Nat)
      /\ admitted'[c][k][n + 1] = time
      /\ \A i \in 1..n : admitted'[c][k][i] = h[i] /\ h[i] \in Nat
  <2>1. \A s \in Seq(Nat), t \in Nat :
          /\ Len(Append(s, t)) = Len(s) + 1 /\ Append(s, t) \in Seq(Nat)
          /\ Append(s, t)[Len(s) + 1] = t
          /\ \A i \in 1..Len(s) : Append(s, t)[i] = s[i]
    BY SMT
  <2>2. /\ Len(Append(h, time)) = n + 1 /\ Append(h, time) \in Seq(Nat)
        /\ Append(h, time)[n + 1] = time
        /\ \A i \in 1..n : Append(h, time)[i] = h[i]
    BY ZenonT(30), <1>1, <2>1
  <2>3. \A i \in 1..n : h[i] \in Nat
    BY ZenonT(30), <1>1, Element
  <2> QED BY ZenonT(30), <1>3, <2>2, <2>3
<1>5. BucketOK(c, k)'
  BY <1>1, <1>2, <1>3, <1>4 DEF BucketOK, Full
<1>6. ASSUME NEW i \in 1..(n + 1)
      PROVE  /\ r - Window[c] + Window[c] * (n + 1 - i + 1)
                    <= Full(c) + (time - admitted'[c][k][i])
             /\ Window[c] * (n + 1 - i + 1) <= Full(c) + (time - admitted'[c][k][i])
  <2>1. CASE i = n + 1
    <3>1. Window[c] * (n + 1 - i + 1) = Window[c]
      BY <1>1, <2>1
    <3>2. admitted'[c][k][i] = time
      BY ZenonT(30), <1>4, <2>1
    <3>3. r \in Nat /\ r <= Full(c) /\ r >= Window[c]
      BY <1>1, <1>2
    <3>4. \A x, w, f, t \in Nat :
             x <= f /\ x >= w => x - w + w <= f + (t - t) /\ w <= f + (t - t)
      BY SMT
    <3>5. /\ r - Window[c] + Window[c] <= Full(c) + (time - time)
          /\ Window[c] <= Full(c) + (time - time)
      BY ZenonT(30), <1>1, <3>3, <3>4
    <3> QED BY ZenonT(30), <3>1, <3>2, <3>5
  <2>2. CASE i \in 1..n
    <3> DEFINE cost == Window[c] * (n - i + 1)
    <3>1. r + cost <= Full(c) + (time - h[i])
      BY ZenonT(30), <2>2, RefillKeepsLedger
    <3>2. n - i + 1 \in Nat /\ n + 1 - i + 1 = (n - i + 1) + 1
      BY ZenonT(30), <1>1, <2>2, Stretch
    <3>3. cost \in Nat /\ Window[c] * (n + 1 - i + 1) = cost + Window[c]
      BY ZenonT(30), <1>1, <3>2, OneMore
    <3>4. admitted'[c][k][i] = h[i] /\ h[i] \in Nat
      BY ZenonT(30), <1>4, <2>2
    <3>5. r \in Nat /\ time - h[i] \in Int
      BY <1>1, <1>2, <3>4
    <3>6. \A x, w, y, f \in Nat, e \in Int :
             x >= w /\ x + y <= f + e => x - w + (y + w) <= f + e /\ y + w <= f + e
      BY SMT
    <3>7. /\ r - Window[c] + (cost + Window[c]) <= Full(c) + (time - h[i])
          /\ cost + Window[c] <= Full(c) + (time - h[i])
      BY ZenonT(30), <1>1, <1>2, <3>1, <3>3, <3>5, <3>6
    <3> QED BY ZenonT(30), <3>3, <3>4, <3>7
  <2>3. i = n + 1 \/ i \in 1..n
    <3> HIDE DEF n
    <3> QED BY <1>1
  <2> QED BY ZenonT(30), <2>1, <2>2, <2>3
<1>7. Ledger(c, k)'
  <2>1. bucket'[c][k].tokens = r - Window[c] /\ bucket'[c][k].last = time
    <3> HIDE DEF r
    <3> QED BY <1>3
  <2> SUFFICES ASSUME NEW i \in 1..Len(admitted'[c][k])
               PROVE  bucket'[c][k].tokens + Window[c] * (Len(admitted'[c][k]) - i + 1)
                         <= Full(c) + (bucket'[c][k].last - admitted'[c][k][i])
    BY ZenonT(30) DEF Ledger, Full
  <2>2. i \in 1..(n + 1)
    BY ZenonT(30), <1>4
  <2>3. r - Window[c] + Window[c] * (n + 1 - i + 1) <= Full(c) + (time - admitted'[c][k][i])
    BY ZenonT(30), <1>6, <2>2
  <2>4. Len(admitted'[c][k]) = n + 1
    BY ZenonT(30), <1>4
  <2> HIDE DEF h, r, n
  <2>5. Len(admitted'[c][k]) - i + 1 = n + 1 - i + 1
    BY <1>1, <2>2, <2>4
  <2>6. bucket'[c][k].tokens = r - Window[c]
    BY ZenonT(30), <2>1
  <2>7. bucket'[c][k].last = time
    BY ZenonT(30), <2>1
  <2> QED BY ZenonT(30), <2>3, <2>5, <2>6, <2>7
<1>8. Bound(c, k)'
  <2>0. Len(admitted'[c][k]) = n + 1
    BY ZenonT(30), <1>4
  <2> SUFFICES ASSUME NEW j \in 1..(n + 1), NEW i \in 1..j
               PROVE  Window[c] * (j - i + 1)
                        <= Full(c) + (admitted'[c][k][j] - admitted'[c][k][i])
    BY ZenonT(30), <2>0 DEF Bound, Full
  <2>1. CASE j = n + 1
    <3>1. i \in 1..(n + 1)
      BY ZenonT(30), <2>1
    <3>2. Window[c] * (n + 1 - i + 1) <= Full(c) + (time - admitted'[c][k][i])
      BY ZenonT(30), <1>6, <3>1
    <3>3. admitted'[c][k][j] = time
      BY ZenonT(30), <1>4, <2>1
    <3> QED BY <2>1, <3>2, <3>3
  <2>2. CASE j \in 1..n
    <3>1. Window[c] * (j - i + 1) <= Full(c) + (h[j] - h[i])
      BY ZenonT(30), <2>2 DEF LimiterInv, Bound
    <3>2. admitted'[c][k][j] = h[j] /\ admitted'[c][k][i] = h[i]
      BY <1>1, <1>4, <2>2
    <3> QED BY ZenonT(30), <3>1, <3>2
  <2>3. j = n + 1 \/ j \in 1..n
    <3> HIDE DEF n
    <3> QED BY <1>1
  <2> QED BY ZenonT(30), <2>1, <2>2, <2>3
<1> QED BY ZenonT(30), <1>5, <1>7, <1>8

(* A refusal keeps the refill.                                             *)
LEMMA RefuseKeeps ==
    ASSUME LimiterInv, NEW c \in Classes, NEW k \in Keys, Refuse(c, k)
    PROVE  (BucketOK(c, k) /\ Ledger(c, k) /\ Bound(c, k))'
<1>1. /\ Full(c) \in Nat /\ time \in Nat /\ admitted[c][k] \in Seq(Nat)
      /\ Refilled(c, k) \in 0..Full(c)
  BY ZenonT(30), FullIsNat, RefillBounds DEF LimiterInv, BucketOK
<1>2. /\ bucket'[c][k] = [tokens |-> Refilled(c, k), last |-> time]
      /\ admitted' = admitted /\ time' = time
  BY ZenonT(30) DEF Refuse, LimiterInv
<1>3. BucketOK(c, k)'
  BY <1>1, <1>2 DEF BucketOK, Full
<1>4. Ledger(c, k)'
  BY <1>2, RefillKeepsLedger DEF Ledger, Full
<1>5. Bound(c, k)'
  BY ZenonT(30), <1>2 DEF LimiterInv, Bound, Full
<1> QED BY ZenonT(30), <1>3, <1>4, <1>5

(* A step of one bucket leaves the others as they were.                    *)
LEMMA OneBucketStep ==
    ASSUME LimiterInv, NEW c \in Classes, NEW k \in Keys, Allow(c, k) \/ Refuse(c, k)
    PROVE  LimiterInv'
<1>1. time \in Nat /\ time' = time /\ Full(c) \in Nat /\ Window[c] \in Nat
  BY ZenonT(30), FullIsNat DEF LimiterInv, Allow, Refuse
<1>2. Refilled(c, k) \in Nat
  BY <1>1, RefillBounds
<1>3. bucket' \in [Classes -> [Keys -> [tokens : Nat, last : Nat]]]
  <2>1. CASE Allow(c, k)
    <3>1. Refilled(c, k) - Window[c] \in Nat
      BY <1>1, <1>2, <2>1 DEF Allow
    <3> QED BY ZenonT(30), <1>1, <2>1, <3>1 DEF Allow, LimiterInv
  <2>2. CASE Refuse(c, k)
    BY ZenonT(30), <1>1, <1>2, <2>2 DEF Refuse, LimiterInv
  <2> QED BY ZenonT(30), <2>1, <2>2
<1>4. admitted' \in [Classes -> [Keys -> Seq(Nat)]]
  <2>1. CASE Allow(c, k)
    <3>1. Append(admitted[c][k], time) \in Seq(Nat)
      BY <1>1 DEF LimiterInv
    <3> QED BY ZenonT(30), <2>1, <3>1 DEF Allow, LimiterInv
  <2>2. CASE Refuse(c, k)
    BY ZenonT(30), <2>2 DEF Refuse, LimiterInv
  <2> QED BY ZenonT(30), <2>1, <2>2
<1>5. ASSUME NEW d \in Classes, NEW l \in Keys
      PROVE  (BucketOK(d, l) /\ Ledger(d, l) /\ Bound(d, l))'
  <2>1. CASE d = c /\ l = k
    BY ZenonT(30), <2>1, AllowKeeps, RefuseKeeps
  <2>2. CASE ~(d = c /\ l = k)
    <3>1. bucket'[d][l] = bucket[d][l] /\ admitted'[d][l] = admitted[d][l]
      BY <2>2 DEF Allow, Refuse, LimiterInv
    <3> QED BY <1>1, <3>1, OtherBuckets
  <2> QED BY ZenonT(30), <2>1, <2>2
<1> QED BY ZenonT(30), <1>1, <1>3, <1>4, <1>5 DEF LimiterInv

(* A new limiter owes nobody anything.                                     *)
LEMMA NewLimiterIsSound ==
    ASSUME time \in Nat, bucket = NewRateLimiter, admitted = Nobody
    PROVE  LimiterInv
<1>1. \A c \in Classes : Full(c) \in Nat
  BY ZenonT(30), FullIsNat
<1>2. \A c \in Classes, k \in Keys :
        bucket[c][k] = [tokens |-> Full(c), last |-> time] /\ admitted[c][k] = <<>>
  BY ZenonT(30) DEF NewRateLimiter, Nobody
<1>3. /\ bucket \in [Classes -> [Keys -> [tokens : Nat, last : Nat]]]
      /\ admitted \in [Classes -> [Keys -> Seq(Nat)]]
  BY <1>1 DEF NewRateLimiter, Nobody
<1>4. ASSUME NEW c \in Classes, NEW k \in Keys
      PROVE  BucketOK(c, k) /\ Ledger(c, k) /\ Bound(c, k)
  <2>1. bucket[c][k].tokens = Full(c) /\ bucket[c][k].last = time
    <3>1. bucket[c][k] = [tokens |-> Full(c), last |-> time]
      BY ZenonT(30) DEF NewRateLimiter
    <3> QED BY <3>1
  <2>3. admitted[c][k] = <<>>
    BY ZenonT(30), <1>2
  <2>4. admitted[c][k] \in Seq(Nat)
    BY ZenonT(30), <1>3
  <2>2. 1..Len(admitted[c][k]) = {}
    <3>1. Len(admitted[c][k]) = 0
      BY ZenonT(30), <2>3
    <3> QED BY <3>1
  <2>5. BucketOK(c, k)
    <3>1. Full(c) \in Nat
      BY ZenonT(30), FullIsNat
    <3> QED BY <1>1, <2>1, <2>4, <3>1 DEF BucketOK
  <2> QED BY ZenonT(30), <2>2, <2>5 DEF Ledger, Bound
<1> QED BY ZenonT(30), <1>3, <1>4 DEF LimiterInv

(* A restart builds a new limiter.                                         *)
LEMMA RebuildKeeps ==
    ASSUME LimiterInv, Rebuild
    PROVE  LimiterInv'
<1>1. time' \in Nat /\ time' = time /\ \A c \in Classes : Full(c) \in Nat
  BY ZenonT(30), FullIsNat DEF LimiterInv, Rebuild
<1>2. \A c \in Classes, k \in Keys :
        bucket'[c][k] = [tokens |-> Full(c), last |-> time] /\ admitted'[c][k] = <<>>
  BY ZenonT(30) DEF LimiterInv, Rebuild, NewRateLimiter, Nobody
<1>3. /\ bucket' \in [Classes -> [Keys -> [tokens : Nat, last : Nat]]]
      /\ admitted' \in [Classes -> [Keys -> Seq(Nat)]]
  BY <1>1 DEF LimiterInv, Rebuild, NewRateLimiter, Nobody
<1>4. ASSUME NEW c \in Classes, NEW k \in Keys
      PROVE  (BucketOK(c, k) /\ Ledger(c, k) /\ Bound(c, k))'
  <2>1. bucket'[c][k].tokens = Full(c) /\ bucket'[c][k].last = time
    <3>1. bucket'[c][k] = [tokens |-> Full(c), last |-> time]
      BY ZenonT(30) DEF Rebuild, NewRateLimiter
    <3> QED BY <3>1
  <2>3. admitted'[c][k] = <<>>
    BY ZenonT(30), <1>2
  <2>4. admitted'[c][k] \in Seq(Nat)
    BY ZenonT(30), <1>3
  <2>2. 1..Len(admitted'[c][k]) = {}
    <3>1. Len(admitted'[c][k]) = 0
      BY <2>3
    <3> QED BY <3>1
  <2>5. BucketOK(c, k)'
    <3>1. Full(c) \in Nat
      BY ZenonT(30), FullIsNat
    <3> QED BY <1>1, <2>1, <2>4, <3>1 DEF BucketOK, Full
  <2> QED BY ZenonT(30), <2>2, <2>5 DEF Ledger, Bound, Full
<1> QED BY ZenonT(30), <1>1, <1>3, <1>4 DEF LimiterInv

(* The ledger of every bucket is kept by every step of the limiter         *)
(* (ratelimit.go 76-124), for any bursts, windows and addresses.           *)
THEOREM LimiterInvariant == LimiterSpec => []LimiterInv
<1>1. LimiterInit => LimiterInv
  BY NewLimiterIsSound DEF LimiterInit
<1>2. LimiterInv /\ [LimiterNext]_limiterVars => LimiterInv'
  <2> SUFFICES ASSUME LimiterInv, [LimiterNext]_limiterVars PROVE LimiterInv'
    BY ZenonT(30)
  <2>1. CASE Pass
    <3>1. time' \in Nat /\ time <= time' /\ bucket' = bucket /\ admitted' = admitted
      BY <2>1 DEF Pass, LimiterInv
    <3>2. ASSUME NEW c \in Classes, NEW k \in Keys
          PROVE  (BucketOK(c, k) /\ Ledger(c, k) /\ Bound(c, k))'
      BY ZenonT(30), <3>1, OtherBuckets
    <3> QED BY ZenonT(30), <3>1, <3>2 DEF LimiterInv
  <2>2. CASE Rebuild
    BY ZenonT(30), <2>2, RebuildKeeps
  <2>3. ASSUME NEW c \in Classes, NEW a \in Addrs,
               Allow(c, normalizeIP[a]) \/ Refuse(c, normalizeIP[a])
        PROVE  LimiterInv'
    <3>1. normalizeIP[a] \in Keys
      BY ZenonT(30) DEF Keys
    <3> QED BY ZenonT(30), <2>3, <3>1, OneBucketStep
  <2>4. CASE UNCHANGED limiterVars
    BY ZenonT(30), <2>4 DEF limiterVars, LimiterInv, BucketOK, Ledger, Bound, Full
  <2> QED BY ZenonT(30), <2>1, <2>2, <2>3, <2>4 DEF LimiterNext
<1> QED BY <1>1, <1>2, PTL DEF LimiterSpec

(* allow (ratelimit.go 103-124): over any stretch of time no key gets more *)
(* through than a burst and one request per window.                        *)
THEOREM RateIsBounded == LimiterSpec => []RateBound
<1>1. LimiterInv => RateBound
  BY ZenonT(30) DEF LimiterInv, Bound, RateBound
<1> QED BY <1>1, LimiterInvariant, PTL

(***************************************************************************)
(* The guard uses the limiter as it is meant: every step of a request, a   *)
(* complaint or a command is a step of the limiter or leaves it alone.     *)
(***************************************************************************)

(* Every step of the guard is a step of the limiter or leaves it alone.    *)
LEMMA GuardLimits ==
    ASSUME [AccessNext \/ ComplaintNext]_guardVars
    PROVE  [LimiterNext]_limiterVars
<1>1. CASE UNCHANGED limiterVars
  BY ZenonT(30), <1>1
<1>2. CASE UNCHANGED guardVars
  BY ZenonT(30), <1>2 DEF guardVars
<1>3. CASE StartNode
  BY ZenonT(30), <1>3 DEF StartNode, LimiterNext
<1>4. CASE Elapse
  BY ZenonT(30), <1>4 DEF Elapse, LimiterNext
<1>5. ASSUME NEW a \in Addrs, NEW p \in Pubkeys, PreAuthorize(a, p)
      PROVE  LimiterNext
  BY ZenonT(30), <1>5, GuardAssumption DEF PreAuthorize, LimiterNext
<1>6. ASSUME NEW a \in Addrs, AllowMgmtRequest(a)
      PROVE  LimiterNext
  BY ZenonT(30), <1>6, GuardAssumption DEF AllowMgmtRequest, LimiterNext
<1>7. StopNode \/ Operate => UNCHANGED limiterVars
  BY ZenonT(30) DEF StopNode, Operate, Daemon
<1>8. \A r \in Reporters : ReportComplaint(r) \/ ReadPolicy(r) \/ Count(r) \/ Trigger(r) =>
         UNCHANGED limiterVars
  BY ZenonT(30) DEF ReportComplaint, ReadPolicy, Count, Trigger, Daemon
<1>9. ASSUME NEW t \in Tools, \/ cmdBlocklist(t) \/ saveLocked(t) \/ cmdReportAbuse(t)
                              \/ cmdRotateKeys(t) \/ Load(t) \/ Save(t)
      PROVE  UNCHANGED limiterVars
  BY ZenonT(30), <1>9
     DEF cmdBlocklist, saveLocked, cmdReportAbuse, cmdRotateKeys, Load, Save, Process
<1> QED
  BY ZenonT(30), <1>1, <1>2, <1>3, <1>4, <1>5, <1>6, <1>7, <1>8, <1>9
     DEF AccessNext, ComplaintNext

(* PreAuthorize and AllowMgmtRequest charge the buckets as allow does; all *)
(* else the daemon and its operator do leaves them alone.                  *)
THEOREM GuardImplementsLimiter == GuardSpec => LimiterSpec
<1>1. GuardInit => LimiterInit
  BY ZenonT(30) DEF GuardInit
<1> QED
  BY <1>1, GuardLimits, PTL DEF GuardSpec, LimiterSpec

(* The bound on admissions (ratelimit.go 103-124) holds of the whole       *)
(* daemon, restarts, complaints and commands included.                     *)
THEOREM GuardBoundsRates == GuardSpec => []RateBound
BY GuardImplementsLimiter, RateIsBounded, PTL

-----------------------------------------------------------------------------
(***************************************************************************)
(* Complaints.                                                             *)
(***************************************************************************)

Pending(x) == x.fresh /\ x.pc \in {"policy", "count", "trigger"}

(* When the log has reached the threshold and nothing excuses the daemon,  *)
(* it is disabled or a report is under way that will still find that out.  *)
TriggerInv ==
    /\ complaints \in Nat
    /\ report \in [Reporters -> [pc : {"idle", "policy", "count", "trigger"}, fresh : BOOLEAN]]
    /\ up /\ auto /\ ~excused /\ complaints >= Threshold =>
          disabled \/ \E r \in Reporters : Pending(report[r])

(* The step of one report: the others are untouched.                       *)
LEMMA ReportMoves ==
    ASSUME TriggerInv, NEW r \in Reporters, NEW x, report' = [report EXCEPT ![r] = x]
    PROVE  report'[r] = x /\ \A q \in Reporters : q # r => report'[q] = report[q]
BY ZenonT(30) DEF TriggerInv

(* Every step of the guard keeps the types of the complaints.              *)
LEMMA TriggerTypes ==
    ASSUME TriggerInv, [AccessNext \/ ComplaintNext]_guardVars
    PROVE  /\ complaints' \in Nat
           /\ report' \in [Reporters -> [pc : {"idle", "policy", "count", "trigger"},
                                         fresh : BOOLEAN]]
<1> DEFINE R == [pc : {"idle", "policy", "count", "trigger"}, fresh : BOOLEAN]
<1>0. complaints \in Nat /\ report \in [Reporters -> R]
  BY ZenonT(30) DEF TriggerInv
<1>1. NoReport \in R /\ [pc |-> "policy", fresh |-> TRUE] \in R
  BY ZenonT(30) DEF NoReport
<1>2. \A x \in R : /\ [x EXCEPT !.fresh = FALSE] \in R /\ [x EXCEPT !.pc = "count"] \in R
                   /\ [x EXCEPT !.pc = "trigger"] \in R
  BY ZenonT(30)
<1> HIDE DEF R
<1>3. CASE UNCHANGED <<complaints, report>>
  BY ZenonT(30), <1>0, <1>3 DEF R
<1>4. CASE StopNode
  BY ZenonT(30), <1>0, <1>1, <1>4 DEF StopNode, R
<1>5. ASSUME NEW r \in Reporters, ReportComplaint(r)
      PROVE  complaints' \in Nat /\ report' \in [Reporters -> R]
  BY <1>0, <1>1, <1>5 DEF ReportComplaint
<1>6. ASSUME NEW r \in Reporters, ReadPolicy(r) \/ Count(r) \/ Trigger(r)
      PROVE  complaints' \in Nat /\ report' \in [Reporters -> R]
  <2>1. /\ UNCHANGED complaints
        /\ \/ report' = [report EXCEPT ![r] = NoReport]
           \/ report' = [report EXCEPT ![r] = [report[r] EXCEPT !.pc = "count"]]
           \/ report' = [report EXCEPT ![r] = [report[r] EXCEPT !.pc = "trigger"]]
    BY ZenonT(30), <1>6 DEF ReadPolicy, Count, Trigger, Reported
  <2>2. \E x \in R : report' = [report EXCEPT ![r] = x]
    BY ZenonT(30), <1>0, <1>1, <1>2, <2>1
  <2> QED
    BY ZenonT(30), <1>0, <2>1, <2>2
<1>7. CASE Operate
  BY ZenonT(30), <1>0, <1>2, <1>7 DEF Operate, R
<1>8. ASSUME NEW t \in Tools, cmdReportAbuse(t)
      PROVE  complaints' \in Nat /\ UNCHANGED report
  BY <1>0, <1>8 DEF cmdReportAbuse
<1>9. CASE UNCHANGED guardVars
  BY ZenonT(30), <1>9, <1>3 DEF guardVars, complaintVars
<1>10. StartNode \/ Elapse => UNCHANGED <<complaints, report>>
  BY ZenonT(30) DEF StartNode, Elapse, complaintVars
<1>11. ASSUME NEW a \in Addrs, AllowMgmtRequest(a) \/ \E p \in Pubkeys : PreAuthorize(a, p)
       PROVE  UNCHANGED <<complaints, report>>
  BY ZenonT(30), <1>11 DEF AllowMgmtRequest, PreAuthorize, complaintVars
<1>12. ASSUME NEW t \in Tools,
              \/ cmdBlocklist(t) \/ saveLocked(t) \/ cmdRotateKeys(t) \/ Load(t) \/ Save(t)
       PROVE  UNCHANGED <<complaints, report>>
  BY ZenonT(30), <1>12 DEF cmdBlocklist, saveLocked, cmdRotateKeys, Load, Save, complaintVars
<1> QED
  BY ZenonT(30), <1>0, <1>3, <1>4, <1>5, <1>6, <1>7, <1>8, <1>9, <1>10, <1>11, <1>12
     DEF AccessNext, ComplaintNext, R

(* The promise of TriggerInv, step by step.                                *)
LEMMA TriggerStep ==
    ASSUME TriggerInv, [AccessNext \/ ComplaintNext]_guardVars
    PROVE  TriggerInv'
<1> DEFINE Due == up /\ auto /\ ~excused /\ complaints >= Threshold
           Handled == disabled \/ \E r \in Reporters : Pending(report[r])
<1>0. Due => Handled
  BY ZenonT(30) DEF TriggerInv
<1> SUFFICES Due' => Handled'
  BY ZenonT(30), TriggerTypes DEF TriggerInv
<1>1. CASE UNCHANGED <<up, auto, excused, complaints, disabled, report>>
  BY ZenonT(30), <1>0, <1>1
<1>2. ASSUME excused' = TRUE
      PROVE  ~Due'
  BY ZenonT(30), <1>2
<1>3. CASE StartNode \/ Operate \/ \E t \in Tools : cmdReportAbuse(t)
  BY ZenonT(30), <1>2, <1>3 DEF StartNode, Operate, cmdReportAbuse
<1>4. CASE StopNode
  BY ZenonT(30), <1>4 DEF StopNode
<1>5. ASSUME NEW r \in Reporters, ReportComplaint(r)
      PROVE  Due' => Handled'
  <2>1. report'[r] = [pc |-> "policy", fresh |-> TRUE]
    BY ZenonT(30), <1>5, ReportMoves DEF ReportComplaint
  <2>2. Pending(report'[r])
    BY <2>1 DEF Pending
  <2> QED
    BY ZenonT(30), <2>2
<1>6. ASSUME NEW r \in Reporters, NEW q \in {"count", "trigger"},
             report' = [report EXCEPT ![r].pc = q], report[r].pc \in {"policy", "count"},
             UNCHANGED <<up, auto, excused, complaints, disabled>>
      PROVE  Due' => Handled'
  <2>1. report' = [report EXCEPT ![r] = [report[r] EXCEPT !.pc = q]]
    BY ZenonT(30), <1>6
  <2>2. /\ report'[r] = [report[r] EXCEPT !.pc = q]
        /\ \A p \in Reporters : p # r => report'[p] = report[p]
    BY ZenonT(30), <2>1, ReportMoves
  <2>3. Pending(report[r]) => Pending(report'[r])
    BY <2>2 DEF Pending, TriggerInv
  <2>4. \A p \in Reporters : Pending(report[p]) => Pending(report'[p])
    BY ZenonT(30), <2>2, <2>3
  <2> QED
    BY ZenonT(30), <1>0, <1>6, <2>4
<1>7. ASSUME NEW r \in Reporters, Reported(r), ~auto \/ ~(complaints >= Threshold),
             UNCHANGED <<up, auto, complaints, disabled>>
      PROVE  Due' => Handled'
  BY ZenonT(30), <1>7
<1>8. ASSUME NEW r \in Reporters, ReadPolicy(r)
      PROVE  Due' => Handled'
  BY ZenonT(30), <1>6, <1>7, <1>8 DEF ReadPolicy, daemonVars
<1>9. ASSUME NEW r \in Reporters, Count(r)
      PROVE  Due' => Handled'
  BY ZenonT(30), <1>2, <1>6, <1>7, <1>9 DEF Count, daemonVars
<1>10. ASSUME NEW r \in Reporters, Trigger(r)
       PROVE  Due' => Handled'
  BY ZenonT(30), <1>10 DEF Trigger
<1>11. CASE UNCHANGED guardVars
  BY ZenonT(30), <1>1, <1>11 DEF guardVars, complaintVars, daemonVars
<1>12. CASE Elapse
  BY ZenonT(30), <1>1, <1>12 DEF Elapse, complaintVars, daemonVars
<1>13. ASSUME NEW a \in Addrs, AllowMgmtRequest(a) \/ \E p \in Pubkeys : PreAuthorize(a, p)
       PROVE  UNCHANGED <<up, auto, excused, complaints, disabled, report>>
  BY ZenonT(30), <1>13 DEF AllowMgmtRequest, PreAuthorize, complaintVars, daemonVars
<1>14. ASSUME NEW t \in Tools,
              \/ cmdBlocklist(t) \/ saveLocked(t) \/ cmdRotateKeys(t) \/ Load(t) \/ Save(t)
       PROVE  UNCHANGED <<up, auto, excused, complaints, disabled, report>>
  BY ZenonT(30), <1>14
     DEF cmdBlocklist, saveLocked, cmdRotateKeys, Load, Save, Process, complaintVars,
               daemonVars
<1> QED
  BY ZenonT(30), <1>1, <1>3, <1>4, <1>5, <1>8, <1>9, <1>10, <1>11, <1>12, <1>13, <1>14
     DEF AccessNext, ComplaintNext

(* ReportComplaint (abuse.go 389-412): however reports, the operator and   *)
(* the commands interleave, once the log has reached the threshold and all *)
(* reports are over, the node is disabled, unless the operator intervened  *)
(* or complaints came in elsewhere after the last report.                  *)
THEOREM ComplaintsDisableTheNode == GuardSpec => []TriggerFires
<1>1. GuardInit => TriggerInv
  BY DEF GuardInit, TriggerInv, NoReport
<1>2. TriggerInv /\ [AccessNext \/ ComplaintNext]_guardVars => TriggerInv'
  BY ZenonT(30), TriggerStep
<1>3. TriggerInv => TriggerFires
  <2>1. ~Pending(NoReport)
    BY ZenonT(30) DEF Pending, NoReport
  <2> QED
    BY ZenonT(30), <2>1 DEF TriggerInv, TriggerFires
<1> QED
  BY <1>1, <1>2, <1>3, PTL DEF GuardSpec

-----------------------------------------------------------------------------
(***************************************************************************)
(* The operator's edits.                                                   *)
(***************************************************************************)

Listed == SUBSET (Keys \cup Pubkeys)
Configs == [key : Nat, disabled : BOOLEAN]
BlockTools == [cmd : BlockCmds, pc : {"open", "write"}, entry : Keys \cup Pubkeys,
               copy : Listed]
LoadTools == [cmd : ConfigCmds, pc : {"load"}]
ConfigTools == [cmd : ConfigCmds, pc : {"open", "write"}, copy : Configs]
AllTools == {NoTool} \cup BlockTools \cup LoadTools \cup ConfigTools

EditsTypeOK ==
    /\ tool \in [Tools -> AllTools] /\ rotated \in Nat
    /\ blockfile \in Listed \cup {Torn} /\ config \in Configs \cup {Torn}

(* A configuration with every finished edit in it.                         *)
Current(x, on, key) == (on => x.disabled) /\ x.key = key

(* Unless commands crossed, one command at a time is between reading the   *)
(* blocklist and writing it back: its copy is what the operator wants, and *)
(* so is the file until the command cuts it short.                         *)
BlockInv ==
    ~crossed =>
        /\ \A s, t \in Tools : tool[s] \in BlockTools /\ tool[t] \in BlockTools => s = t
        /\ \A t \in Tools : tool[t] \in BlockTools =>
              tool[t].copy = wanted /\ (tool[t].pc = "write" => blockfile = Torn)
        /\ blockfile = wanted \/ blockfile = Torn

(* The same of the configuration.                                          *)
ConfigInv ==
    ~cfgCrossed =>
        /\ \A s, t \in Tools : tool[s] \in ConfigTools /\ tool[t] \in ConfigTools => s = t
        /\ \A t \in Tools : tool[t] \in ConfigTools =>
              Current(tool[t].copy, tripped, rotated) /\ (tool[t].pc = "write" => config = Torn)
        /\ config = Torn \/ Current(config, tripped, rotated)

(* The daemon keeps out what was wanted when it started.                   *)
AdmitInv ==
    up => /\ wantedUp \subseteq blocked
          /\ lastIn # Nothing => {lastIn.ip, lastIn.pubkey} \cap wantedUp = {}

(* The kinds of commands and what their fields tell.                       *)
LEMMA ToolKinds ==
    ASSUME NEW x \in AllTools
    PROVE  /\ x.cmd \in BlockCmds => x \in BlockTools
           /\ x \in BlockTools => /\ x.cmd \in BlockCmds /\ x \notin ConfigTools /\ x # NoTool
                                  /\ x.copy \in Listed /\ x.entry \in Keys \cup Pubkeys
           /\ x.cmd \in ConfigCmds => x \in LoadTools \cup ConfigTools
           /\ x.cmd \in ConfigCmds /\ x.pc \in {"open", "write"} => x \in ConfigTools
           /\ x \in ConfigTools => /\ x.cmd \in ConfigCmds /\ x \notin BlockTools /\ x # NoTool
                                   /\ x.copy \in Configs /\ x.pc \in {"open", "write"}
           /\ x \in LoadTools => x \notin BlockTools /\ x \notin ConfigTools
           /\ NoTool \notin BlockTools /\ NoTool \notin ConfigTools
<1>1. NoTool.cmd = "none"
  BY ZenonT(30) DEF NoTool
<1>2. \A y \in BlockTools : /\ y.cmd \in {"block", "unblock"} /\ y.pc # "load"
                            /\ y.copy \in Listed /\ y.entry \in Keys \cup Pubkeys
  BY ZenonT(30) DEF BlockTools, BlockCmds
<1>3. \A y \in ConfigTools : /\ y.cmd \in {"report", "rotate"} /\ y.pc \in {"open", "write"}
                             /\ y.copy \in Configs
  BY ZenonT(30) DEF ConfigTools, ConfigCmds
<1>4. \A y \in LoadTools : y.cmd \in {"report", "rotate"} /\ y.pc = "load"
  BY ZenonT(30) DEF LoadTools, ConfigCmds
<1> QED
  BY ZenonT(30), <1>1, <1>2, <1>3, <1>4 DEF AllTools, BlockCmds, ConfigCmds

(* A step of one command leaves the others where they are.                 *)
LEMMA OneTool ==
    ASSUME EditsTypeOK, NEW t \in Tools, NEW x \in AllTools, tool' = [tool EXCEPT ![t] = x]
    PROVE  /\ tool' \in [Tools -> AllTools] /\ tool'[t] = x
           /\ \A s \in Tools : s # t => tool'[s] = tool[s]
BY ZenonT(30) DEF EditsTypeOK

(* What each command does to its own entry.                                *)
LEMMA ToolSteps ==
    ASSUME EditsTypeOK, NEW t \in Tools
    PROVE  /\ cmdBlocklist(t) => \E x \in BlockTools : /\ tool' = [tool EXCEPT ![t] = x]
                                                       /\ x.copy = blockfile /\ x.pc = "open"
           /\ cmdReportAbuse(t) \/ cmdRotateKeys(t) =>
                 UNCHANGED tool \/ \E x \in LoadTools : tool' = [tool EXCEPT ![t] = x]
           /\ Load(t) => \E x \in ConfigTools :
                 /\ tool' = [tool EXCEPT ![t] = x] /\ x.pc = "open"
                 /\ config # Torn => x.copy = config
<1>1. ASSUME cmdBlocklist(t)
      PROVE  \E x \in BlockTools : /\ tool' = [tool EXCEPT ![t] = x]
                                   /\ x.copy = blockfile /\ x.pc = "open"
  <2>1. PICK c \in BlockCmds, e \in Keys \cup Pubkeys :
           tool' = [tool EXCEPT ![t] = [cmd |-> c, pc |-> "open", entry |-> e, copy |-> blockfile]]
    BY ONLY <1>1, Zenon DEF cmdBlocklist
  <2> DEFINE x == [cmd |-> c, pc |-> "open", entry |-> e, copy |-> blockfile]
  <2>2. blockfile \in Listed
    BY ZenonT(30), <1>1 DEF cmdBlocklist, EditsTypeOK
  <2>3. x \in BlockTools /\ x.copy = blockfile /\ x.pc = "open"
    BY ZenonT(30), <2>2 DEF BlockTools
  <2> QED
    BY ZenonT(30), <2>1, <2>3
<1>2. /\ [cmd |-> "report", pc |-> "load"] \in LoadTools
      /\ [cmd |-> "rotate", pc |-> "load"] \in LoadTools
  BY ZenonT(30) DEF LoadTools, ConfigCmds
<1>3. cmdReportAbuse(t) \/ cmdRotateKeys(t) =>
         UNCHANGED tool \/ \E x \in LoadTools : tool' = [tool EXCEPT ![t] = x]
  BY ZenonT(30), <1>2 DEF cmdReportAbuse, cmdRotateKeys
<1>4. ASSUME Load(t)
      PROVE  \E x \in ConfigTools : /\ tool' = [tool EXCEPT ![t] = x] /\ x.pc = "open"
                                    /\ config # Torn => x.copy = config
  <2> DEFINE c == IF config = Torn THEN Fresh ELSE config
             x == [cmd |-> tool[t].cmd, pc |-> "open", copy |-> c]
  <2>1. tool' = [tool EXCEPT ![t] = x] /\ tool[t].cmd \in ConfigCmds
    BY ZenonT(30), <1>4 DEF Load, At
  <2>2. c \in Configs /\ (config # Torn => c = config)
    BY ZenonT(30) DEF EditsTypeOK, Configs, Fresh
  <2> HIDE DEF c
  <2>3. x \in ConfigTools /\ x.copy = c /\ x.pc = "open"
    BY ZenonT(30), <2>1, <2>2 DEF ConfigTools
  <2> QED
    BY ZenonT(30), <2>1, <2>2, <2>3
<1> QED
  BY ZenonT(30), <1>1, <1>3, <1>4

(* The two saves: a command opens its file, or writes it and is gone.      *)
LEMMA SaveSteps ==
    ASSUME EditsTypeOK, NEW t \in Tools
    PROVE  /\ saveLocked(t) =>
                 /\ tool[t] \in BlockTools
                 /\ \/ /\ blockfile' = Torn /\ UNCHANGED <<wanted, crossed>>
                       /\ \E x \in BlockTools : /\ tool' = [tool EXCEPT ![t] = x]
                                                 /\ x.copy = tool[t].copy
                    \/ /\ tool' = [tool EXCEPT ![t] = NoTool]
                       /\ \/ /\ blockfile' = Changed(tool[t].copy, tool[t])
                             /\ wanted' = Changed(wanted, tool[t]) /\ UNCHANGED crossed
                          \/ crossed' = TRUE /\ UNCHANGED <<blockfile, wanted>>
           /\ Save(t) =>
                 /\ tool[t] \in ConfigTools
                 /\ \/ /\ config' = Torn /\ UNCHANGED <<tripped, rotated, cfgCrossed>>
                       /\ \E x \in ConfigTools : /\ tool' = [tool EXCEPT ![t] = x]
                                                  /\ x.copy = tool[t].copy
                    \/ /\ tool' = [tool EXCEPT ![t] = NoTool]
                       /\ \/ /\ config' = Edited(t) /\ UNCHANGED cfgCrossed
                             /\ tripped' = (tripped \/ tool[t].cmd = "report")
                             /\ rotated' = rotated + (IF tool[t].cmd = "rotate" THEN 1 ELSE 0)
                          \/ cfgCrossed' = TRUE /\ UNCHANGED <<config, tripped, rotated>>
<1>0. tool[t] \in AllTools
  BY ZenonT(30) DEF EditsTypeOK
<1> DEFINE w == [tool[t] EXCEPT !.pc = "write"]
<1>1. tool[t] \in BlockTools => w \in BlockTools /\ w.copy = tool[t].copy
  BY ZenonT(30) DEF BlockTools
<1>2. tool[t] \in ConfigTools => w \in ConfigTools /\ w.copy = tool[t].copy
  BY ZenonT(30) DEF ConfigTools
<1>3. saveLocked(t) => tool[t] \in BlockTools
  BY ZenonT(30), <1>0, ToolKinds DEF saveLocked, At
<1>4. Save(t) => tool[t] \in ConfigTools
  BY ZenonT(30), <1>0, ToolKinds DEF Save, At
<1>5. tool' = [tool EXCEPT ![t].pc = "write"] => tool' = [tool EXCEPT ![t] = w]
  BY ZenonT(30)
<1> HIDE DEF w
<1> QED
  BY ZenonT(60), <1>1, <1>2, <1>3, <1>4, <1>5 DEF saveLocked, Save

(* The steps that are not of a command leave the files and the commands    *)
(* alone; those of a command leave the daemon alone.                       *)
LEMMA EditsApart ==
    ASSUME [AccessNext \/ ComplaintNext]_guardVars
    PROVE  \/ UNCHANGED <<tool, blockVars, configVars>>
           \/ /\ UNCHANGED <<daemonVars, lastIn>>
              /\ \E t \in Tools :
                    \/ (cmdBlocklist(t) \/ saveLocked(t)) /\ UNCHANGED configVars
                    \/ /\ cmdReportAbuse(t) \/ cmdRotateKeys(t)
                       /\ UNCHANGED <<blockVars, configVars>>
                    \/ /\ Load(t) /\ UNCHANGED <<blockVars, config, tripped, rotated>>
                       /\ cfgCrossed' = (cfgCrossed \/ config = Torn
                                         \/ \E o \in Tools : At(o, "open", ConfigCmds))
                    \/ Save(t) /\ UNCHANGED blockVars
<1>1. CASE \E t \in Tools : \/ cmdBlocklist(t) \/ saveLocked(t) \/ cmdReportAbuse(t)
                             \/ cmdRotateKeys(t) \/ Load(t) \/ Save(t)
  <2>1. PICK t \in Tools : \/ cmdBlocklist(t) \/ saveLocked(t) \/ cmdReportAbuse(t)
                           \/ cmdRotateKeys(t) \/ Load(t) \/ Save(t)
    BY ZenonT(30), <1>1
  <2>2. UNCHANGED <<daemonVars, lastIn>>
    BY ZenonT(30), <2>1
       DEF cmdBlocklist, saveLocked, cmdReportAbuse, cmdRotateKeys, Load, Save, Process,
                requestVars
  <2>3. /\ cmdBlocklist(t) \/ saveLocked(t) => UNCHANGED configVars
        /\ cmdReportAbuse(t) \/ cmdRotateKeys(t) => UNCHANGED <<blockVars, configVars>>
        /\ Load(t) => UNCHANGED <<blockVars, config, tripped, rotated>>
        /\ Save(t) => UNCHANGED blockVars
    BY ZenonT(30) DEF cmdBlocklist, saveLocked, cmdReportAbuse, cmdRotateKeys, Load, Save
  <2>4. Load(t) => cfgCrossed' = (cfgCrossed \/ config = Torn
                                  \/ \E o \in Tools : At(o, "open", ConfigCmds))
    BY ZenonT(30) DEF Load
  <2> QED
    BY ZenonT(30), <2>1, <2>2, <2>3, <2>4
<1>2. CASE UNCHANGED guardVars
  BY ZenonT(30), <1>2 DEF guardVars
<1>3. CASE StartNode \/ StopNode \/ Elapse \/ Operate
  BY ZenonT(30), <1>3 DEF StartNode, StopNode, Elapse, Operate, Daemon
<1>4. ASSUME NEW a \in Addrs, AllowMgmtRequest(a) \/ \E p \in Pubkeys : PreAuthorize(a, p)
      PROVE  UNCHANGED <<tool, blockVars, configVars>>
  BY ZenonT(30), <1>4 DEF AllowMgmtRequest, PreAuthorize
<1>5. ASSUME NEW r \in Reporters, ReportComplaint(r) \/ ReadPolicy(r) \/ Count(r) \/ Trigger(r)
      PROVE  UNCHANGED <<tool, blockVars, configVars>>
  BY ZenonT(30), <1>5 DEF ReportComplaint, ReadPolicy, Count, Trigger, Daemon
<1> QED
  BY ZenonT(30), <1>1, <1>2, <1>3, <1>4, <1>5 DEF AccessNext, ComplaintNext

(* Every step of the guard keeps the types of the files and the tools.     *)
LEMMA EditsTypeStep ==
    ASSUME EditsTypeOK, [AccessNext \/ ComplaintNext]_guardVars
    PROVE  EditsTypeOK'
<1>0. BlockTools \cup LoadTools \cup ConfigTools \cup {NoTool} \subseteq AllTools
  BY ZenonT(30) DEF AllTools
<1>1. CASE UNCHANGED <<tool, blockVars, configVars>>
  BY ZenonT(30), <1>1 DEF EditsTypeOK, blockVars, configVars
<1>2. ASSUME NEW t \in Tools, cmdBlocklist(t) \/ saveLocked(t), UNCHANGED configVars
      PROVE  EditsTypeOK'
  <2>1. \E x \in AllTools : tool' = [tool EXCEPT ![t] = x]
    BY ZenonT(30), <1>0, <1>2, ToolSteps, SaveSteps
  <2>2. blockfile' \in Listed \cup {Torn}
    <3>1. CASE cmdBlocklist(t)
      BY ZenonT(30), <3>1 DEF cmdBlocklist, EditsTypeOK
    <3>2. CASE saveLocked(t)
      <4>1. tool[t].copy \in Listed /\ tool[t].entry \in Keys \cup Pubkeys
        BY ZenonT(30), <3>2, SaveSteps, ToolKinds DEF EditsTypeOK
      <4>2. Changed(tool[t].copy, tool[t]) \in Listed
        BY ZenonT(30), <4>1 DEF Changed, Listed
      <4>3. blockfile' \in {Torn, blockfile, Changed(tool[t].copy, tool[t])}
        BY ZenonT(30), <3>2, SaveSteps
      <4> QED
        BY ZenonT(30), <4>2, <4>3 DEF EditsTypeOK
    <3> QED
      BY ZenonT(30), <1>2, <3>1, <3>2
  <2> QED
    BY ZenonT(30), <1>2, <2>1, <2>2, OneTool DEF EditsTypeOK, configVars
<1>3. ASSUME NEW t \in Tools, cmdReportAbuse(t) \/ cmdRotateKeys(t),
             UNCHANGED <<blockVars, configVars>>
      PROVE  EditsTypeOK'
  <2>1. tool' \in [Tools -> AllTools]
    BY ZenonT(30), <1>0, <1>3, ToolSteps, OneTool DEF EditsTypeOK
  <2> QED
    BY ZenonT(30), <1>3, <2>1 DEF EditsTypeOK, blockVars, configVars
<1>4. ASSUME NEW t \in Tools, Load(t), UNCHANGED <<blockVars, config, tripped, rotated>>
      PROVE  EditsTypeOK'
  <2>1. tool' \in [Tools -> AllTools]
    BY ZenonT(30), <1>0, <1>4, ToolSteps, OneTool
  <2> QED
    BY ZenonT(30), <1>4, <2>1 DEF EditsTypeOK, blockVars
<1>5. ASSUME NEW t \in Tools, Save(t), UNCHANGED blockVars
      PROVE  EditsTypeOK'
  <2>1. tool' \in [Tools -> AllTools]
    BY ZenonT(30), <1>0, <1>5, SaveSteps, OneTool
  <2>2. tool[t] \in ConfigTools /\ tool[t].copy \in Configs
    BY ZenonT(30), <1>5, SaveSteps, ToolKinds DEF EditsTypeOK
  <2>3. rotated' \in Nat
    <3>1. rotated' \in {rotated, rotated + 0, rotated + 1}
      BY ZenonT(30), <1>5, SaveSteps
    <3> QED
      BY <3>1 DEF EditsTypeOK
  <2>4. Edited(t) \in Configs
    <3>1. [tool[t].copy EXCEPT !.disabled = TRUE] \in Configs
      BY ZenonT(30), <2>2 DEF Configs
    <3>2. [tool[t].copy EXCEPT !.key = rotated + 1] \in Configs
      BY <2>2 DEF Configs, EditsTypeOK
    <3> QED
      BY ZenonT(30), <3>1, <3>2 DEF Edited
  <2>5. config' \in {Torn, config, Edited(t)}
    BY ZenonT(30), <1>5, SaveSteps
  <2> QED
    BY ZenonT(30), <1>5, <2>1, <2>3, <2>4, <2>5 DEF EditsTypeOK, blockVars
<1> QED
  BY ZenonT(30), <1>1, <1>2, <1>3, <1>4, <1>5, EditsApart

(* A step of one command, told by the kind of command it leaves behind.    *)
LEMMA BlockKept ==
    ASSUME EditsTypeOK, BlockInv, NEW t \in Tools, NEW x \in AllTools,
           tool' = [tool EXCEPT ![t] = x], x \notin BlockTools,
           UNCHANGED <<blockfile, wanted, crossed>>
    PROVE  BlockInv'
<1>1. tool'[t] = x /\ \A s \in Tools : s # t => tool'[s] = tool[s]
  BY ZenonT(30), OneTool
<1>2. \A s \in Tools : tool'[s] \in BlockTools => tool'[s] = tool[s]
  BY ZenonT(30), <1>1
<1> QED
  BY ZenonT(30), <1>2 DEF BlockInv

(* BlockInv is inductive relative to the types.                            *)
LEMMA BlockStep ==
    ASSUME EditsTypeOK, BlockInv, [AccessNext \/ ComplaintNext]_guardVars
    PROVE  BlockInv'
<1>0. /\ LoadTools \cup ConfigTools \cup {NoTool} \subseteq AllTools
      /\ BlockTools \subseteq AllTools
      /\ \A x \in LoadTools \cup ConfigTools \cup {NoTool} : x \notin BlockTools
  BY ZenonT(30), ToolKinds DEF AllTools
<1>1. CASE UNCHANGED <<tool, blockVars>>
  BY ZenonT(30), <1>1 DEF BlockInv, blockVars
<1>2. ASSUME NEW t \in Tools, \/ cmdReportAbuse(t) \/ cmdRotateKeys(t) \/ Load(t) \/ Save(t),
             UNCHANGED blockVars
      PROVE  BlockInv'
  <2>1. UNCHANGED tool \/ \E x \in LoadTools \cup ConfigTools \cup {NoTool} :
                              tool' = [tool EXCEPT ![t] = x]
    BY ZenonT(30), <1>2, ToolSteps, SaveSteps
  <2>2. CASE UNCHANGED tool
    BY ZenonT(30), <1>1, <1>2, <2>2
  <2>3. ASSUME NEW x \in LoadTools \cup ConfigTools \cup {NoTool}, tool' = [tool EXCEPT ![t] = x]
        PROVE  BlockInv'
    <3>1. x \in AllTools /\ x \notin BlockTools /\ UNCHANGED <<blockfile, wanted, crossed>>
      BY ZenonT(30), <1>0, <1>2, <2>3 DEF blockVars
    <3> QED
      BY ZenonT(30), <2>3, <3>1, BlockKept
  <2> QED
    BY ZenonT(30), <2>1, <2>2, <2>3
<1>3. ASSUME NEW t \in Tools, cmdBlocklist(t)
      PROVE  BlockInv'
  <2>1. PICK x \in BlockTools : /\ tool' = [tool EXCEPT ![t] = x]
                                /\ x.copy = blockfile /\ x.pc = "open"
    BY ZenonT(30), <1>3, ToolSteps
  <2>2. tool'[t] = x /\ \A s \in Tools : s # t => tool'[s] = tool[s]
    BY ZenonT(30), <1>0, <2>1, OneTool
  <2>3. blockfile # Torn /\ UNCHANGED <<blockfile, wanted>>
    BY ZenonT(30), <1>3 DEF cmdBlocklist
  <2>4. ~crossed' => ~crossed /\ \A s \in Tools : tool[s].cmd \notin BlockCmds
    BY ZenonT(30), <1>3 DEF cmdBlocklist, Busy
  <2>5. ~crossed' => ~crossed /\ \A s \in Tools : tool[s] \notin BlockTools
    <3>1. \A s \in Tools : tool[s] \in AllTools
      BY ZenonT(30) DEF EditsTypeOK
    <3> QED
      BY ZenonT(30), <2>4, <3>1, ToolKinds
  <2>6. ~crossed' => \A s \in Tools : tool'[s] \in BlockTools => s = t
    BY ZenonT(30), <2>2, <2>5
  <2>7. ~crossed' => blockfile = wanted
    BY ZenonT(30), <2>3, <2>5 DEF BlockInv
  <2>8. tool'[t].pc # "write" /\ tool'[t].copy = blockfile
    BY ZenonT(30), <2>1, <2>2
  <2> QED
    BY ZenonT(30), <2>3, <2>6, <2>7, <2>8 DEF BlockInv
<1>4. ASSUME NEW t \in Tools, saveLocked(t)
      PROVE  BlockInv'
  <2>0. tool[t] \in BlockTools
    BY ZenonT(30), <1>4, SaveSteps
  <2>1. CASE crossed' = TRUE
    BY ZenonT(30), <2>1 DEF BlockInv
  <2>2. ASSUME NEW x \in BlockTools, tool' = [tool EXCEPT ![t] = x], x.copy = tool[t].copy,
               blockfile' = Torn, UNCHANGED <<wanted, crossed>>
        PROVE  BlockInv'
    <3>1. tool'[t] = x /\ \A s \in Tools : s # t => tool'[s] = tool[s]
      BY ZenonT(30), <1>0, <2>2, OneTool
    <3>2. ~crossed => \A s \in Tools : tool'[s] \in BlockTools => s = t
      BY ZenonT(30), <2>0, <3>1 DEF BlockInv
    <3>3. ~crossed => tool'[t].copy = wanted
      BY ZenonT(30), <2>0, <2>2, <3>1 DEF BlockInv
    <3> QED
      BY ZenonT(30), <2>2, <3>2, <3>3 DEF BlockInv
  <2>3. ASSUME tool' = [tool EXCEPT ![t] = NoTool], blockfile' = Changed(tool[t].copy, tool[t]),
               wanted' = Changed(wanted, tool[t]), UNCHANGED crossed
        PROVE  BlockInv'
    <3>1. tool'[t] = NoTool /\ \A s \in Tools : s # t => tool'[s] = tool[s]
      BY ZenonT(30), <1>0, <2>3, OneTool
    <3>2. ~crossed => \A s \in Tools : tool'[s] \notin BlockTools
      BY ZenonT(30), <1>0, <2>0, <3>1 DEF BlockInv
    <3>3. ~crossed => blockfile' = wanted'
      BY ZenonT(30), <2>0, <2>3 DEF BlockInv
    <3> QED
      BY ZenonT(30), <2>3, <3>2, <3>3 DEF BlockInv
  <2> QED
    BY ZenonT(30), <1>4, <2>1, <2>2, <2>3, SaveSteps
<1> QED
  BY ZenonT(30), <1>1, <1>2, <1>3, <1>4, EditsApart

(* The edit of a configuration that has every finished edit in it has this *)
(* one in it too.                                                          *)
LEMMA EditedIsCurrent ==
    ASSUME EditsTypeOK, NEW t \in Tools, tool[t] \in ConfigTools,
           Current(tool[t].copy, tripped, rotated),
           config' = Edited(t), tripped' = (tripped \/ tool[t].cmd = "report"),
           rotated' = rotated + (IF tool[t].cmd = "rotate" THEN 1 ELSE 0)
    PROVE  Current(config', tripped', rotated')
<1>1. tool[t].copy \in Configs /\ tool[t].cmd \in {"report", "rotate"} /\ rotated \in Nat
  BY ZenonT(30), ToolKinds DEF EditsTypeOK, ConfigCmds
<1> DEFINE c == tool[t].copy
<1>2. CASE tool[t].cmd = "report"
  <2>1. config' = [c EXCEPT !.disabled = TRUE] /\ rotated' = rotated
    BY <1>1, <1>2 DEF Edited
  <2>2. config'.disabled = TRUE /\ config'.key = c.key
    BY ZenonT(30), <1>1, <2>1 DEF Configs
  <2> QED
    BY ZenonT(30), <2>1, <2>2 DEF Current
<1>3. CASE tool[t].cmd = "rotate"
  <2>1. config' = [c EXCEPT !.key = rotated + 1] /\ rotated' = rotated + 1
    BY ZenonT(30), <1>1, <1>3 DEF Edited
  <2>2. config'.disabled = c.disabled /\ config'.key = rotated + 1
    BY ZenonT(30), <1>1, <2>1 DEF Configs
  <2>3. tripped' => tripped
    BY ZenonT(30), <1>3
  <2> QED
    BY ZenonT(30), <2>1, <2>2, <2>3 DEF Current
<1> QED
  BY ZenonT(30), <1>1, <1>2, <1>3

(* A tool that does not write the configuration keeps ConfigInv.           *)
LEMMA ConfigKept ==
    ASSUME EditsTypeOK, ConfigInv, NEW t \in Tools, NEW x \in AllTools,
           tool' = [tool EXCEPT ![t] = x], x \notin ConfigTools,
           UNCHANGED <<config, tripped, rotated, cfgCrossed>>
    PROVE  ConfigInv'
<1>1. tool'[t] = x /\ \A s \in Tools : s # t => tool'[s] = tool[s]
  BY ZenonT(30), OneTool
<1>2. \A s \in Tools : tool'[s] \in ConfigTools => tool'[s] = tool[s]
  BY ZenonT(30), <1>1
<1> QED
  BY ZenonT(30), <1>2 DEF ConfigInv

(* ConfigInv is inductive relative to the types.                           *)
LEMMA ConfigStep ==
    ASSUME EditsTypeOK, ConfigInv, [AccessNext \/ ComplaintNext]_guardVars
    PROVE  ConfigInv'
<1>0. /\ LoadTools \cup BlockTools \cup {NoTool} \subseteq AllTools
      /\ ConfigTools \subseteq AllTools
      /\ \A x \in LoadTools \cup BlockTools \cup {NoTool} : x \notin ConfigTools
  BY ZenonT(30), ToolKinds DEF AllTools
<1>1. CASE UNCHANGED <<tool, configVars>>
  BY ZenonT(30), <1>1 DEF ConfigInv, configVars
<1>2. ASSUME NEW t \in Tools,
             \/ cmdBlocklist(t) \/ saveLocked(t) \/ cmdReportAbuse(t) \/ cmdRotateKeys(t),
             UNCHANGED configVars
      PROVE  ConfigInv'
  <2>1. UNCHANGED tool \/ \E x \in LoadTools \cup BlockTools \cup {NoTool} :
                              tool' = [tool EXCEPT ![t] = x]
    BY ZenonT(30), <1>2, ToolSteps, SaveSteps
  <2>2. CASE UNCHANGED tool
    BY ZenonT(30), <1>1, <1>2, <2>2
  <2>3. ASSUME NEW x \in LoadTools \cup BlockTools \cup {NoTool}, tool' = [tool EXCEPT ![t] = x]
        PROVE  ConfigInv'
    <3>1. /\ x \in AllTools /\ x \notin ConfigTools
          /\ UNCHANGED <<config, tripped, rotated, cfgCrossed>>
      BY ZenonT(30), <1>0, <1>2, <2>3 DEF configVars
    <3> QED
      BY ZenonT(30), <2>3, <3>1, ConfigKept
  <2> QED
    BY ZenonT(30), <2>1, <2>2, <2>3
<1>3. ASSUME NEW t \in Tools, Load(t), UNCHANGED <<config, tripped, rotated>>,
             cfgCrossed' = (cfgCrossed \/ config = Torn
                            \/ \E o \in Tools : At(o, "open", ConfigCmds))
      PROVE  ConfigInv'
  <2>1. PICK x \in ConfigTools : /\ tool' = [tool EXCEPT ![t] = x] /\ x.pc = "open"
                                 /\ config # Torn => x.copy = config
    BY ZenonT(30), <1>3, ToolSteps
  <2>2. tool'[t] = x /\ \A s \in Tools : s # t => tool'[s] = tool[s]
    BY ZenonT(30), <1>0, <2>1, OneTool
  <2>3. ~cfgCrossed' => /\ ~cfgCrossed /\ config # Torn
                        /\ \A o \in Tools : ~At(o, "open", ConfigCmds)
    BY ZenonT(30), <1>3
  <2>4. \A o \in Tools : tool[o] \in ConfigTools =>
           At(o, "open", ConfigCmds) \/ tool[o].pc = "write"
    BY ZenonT(30), ToolKinds DEF EditsTypeOK, At
  <2>5. ~cfgCrossed' => \A o \in Tools : tool[o] \notin ConfigTools
    BY ZenonT(30), <2>3, <2>4 DEF ConfigInv
  <2>6. ~cfgCrossed' => \A s \in Tools : tool'[s] \in ConfigTools => s = t
    BY ZenonT(30), <2>2, <2>5
  <2>7. ~cfgCrossed' => Current(config, tripped, rotated) /\ x.copy = config
    BY ZenonT(30), <2>1, <2>3 DEF ConfigInv
  <2>8. tool'[t].pc # "write"
    BY ZenonT(30), <2>1, <2>2
  <2> QED
    BY ZenonT(30), <1>3, <2>2, <2>6, <2>7, <2>8 DEF ConfigInv
<1>4. ASSUME NEW t \in Tools, Save(t)
      PROVE  ConfigInv'
  <2>0. tool[t] \in ConfigTools
    BY ZenonT(30), <1>4, SaveSteps
  <2>1. CASE cfgCrossed' = TRUE
    BY ZenonT(30), <2>1 DEF ConfigInv
  <2>2. ASSUME NEW x \in ConfigTools, tool' = [tool EXCEPT ![t] = x], x.copy = tool[t].copy,
               config' = Torn, UNCHANGED <<tripped, rotated, cfgCrossed>>
        PROVE  ConfigInv'
    <3>1. tool'[t] = x /\ \A s \in Tools : s # t => tool'[s] = tool[s]
      BY ZenonT(30), <1>0, <2>2, OneTool
    <3>2. ~cfgCrossed => \A s \in Tools : tool'[s] \in ConfigTools => s = t
      BY ZenonT(30), <2>0, <3>1 DEF ConfigInv
    <3>3. ~cfgCrossed => Current(tool'[t].copy, tripped, rotated)
      BY ZenonT(30), <2>0, <2>2, <3>1 DEF ConfigInv
    <3> QED
      BY ZenonT(30), <2>2, <3>2, <3>3 DEF ConfigInv
  <2>3. ASSUME tool' = [tool EXCEPT ![t] = NoTool], config' = Edited(t), UNCHANGED cfgCrossed,
               tripped' = (tripped \/ tool[t].cmd = "report"),
               rotated' = rotated + (IF tool[t].cmd = "rotate" THEN 1 ELSE 0)
        PROVE  ConfigInv'
    <3>1. tool'[t] = NoTool /\ \A s \in Tools : s # t => tool'[s] = tool[s]
      BY ZenonT(30), <1>0, <2>3, OneTool
    <3>2. ~cfgCrossed => \A s \in Tools : tool'[s] \notin ConfigTools
      BY ZenonT(30), <1>0, <2>0, <3>1 DEF ConfigInv
    <3>3. ~cfgCrossed => Current(config', tripped', rotated')
      BY ZenonT(30), <2>0, <2>3, EditedIsCurrent DEF ConfigInv
    <3> QED
      BY ZenonT(30), <2>3, <3>2, <3>3 DEF ConfigInv
  <2> QED
    BY ZenonT(30), <1>4, <2>1, <2>2, <2>3, SaveSteps
<1> QED
  BY ZenonT(30), <1>1, <1>2, <1>3, <1>4, EditsApart

(* AdmitInv is inductive relative to the types and BlockInv.               *)
LEMMA AdmitStep ==
    ASSUME EditsTypeOK, BlockInv, AdmitInv, [AccessNext \/ ComplaintNext]_guardVars
    PROVE  AdmitInv'
<1>1. CASE UNCHANGED <<up, blocked, wantedUp, lastIn>>
  BY ZenonT(30), <1>1 DEF AdmitInv
<1>2. CASE StartNode
  <2>1. blocked' = blockfile /\ blockfile # Torn /\ lastIn' = Nothing
    BY ZenonT(30), <1>2 DEF StartNode
  <2>2. crossed => wantedUp' = {}
    BY ZenonT(30), <1>2 DEF StartNode
  <2>3. ~crossed => wantedUp' = wanted
    BY ZenonT(30), <1>2 DEF StartNode
  <2>4. ~crossed => blockfile = wanted
    BY ZenonT(30), <2>1 DEF BlockInv
  <2>5. wantedUp' \subseteq blocked'
    BY ZenonT(30), <2>1, <2>2, <2>3, <2>4
  <2> QED
    BY ZenonT(30), <2>1, <2>5 DEF AdmitInv
<1>3. CASE StopNode
  BY ZenonT(30), <1>3 DEF StopNode, AdmitInv
<1>4. ASSUME NEW a \in Addrs, NEW p \in Pubkeys, PreAuthorize(a, p)
      PROVE  AdmitInv'
  <2>1. /\ up /\ UNCHANGED <<up, blocked, wantedUp>> /\ {normalizeIP[a], p} \cap blocked = {}
        /\ lastIn' = [ip |-> normalizeIP[a], pubkey |-> p] \/ UNCHANGED lastIn
    BY ZenonT(30), <1>4 DEF PreAuthorize, Requests, daemonVars
  <2>2. CASE UNCHANGED lastIn
    BY ZenonT(30), <1>1, <2>1, <2>2
  <2>3. CASE lastIn' = [ip |-> normalizeIP[a], pubkey |-> p]
    <3>1. lastIn'.ip = normalizeIP[a] /\ lastIn'.pubkey = p
      BY ZenonT(30), <2>3
    <3>2. wantedUp \subseteq blocked
      BY ZenonT(30), <2>1 DEF AdmitInv
    <3>3. {lastIn'.ip, lastIn'.pubkey} \cap wantedUp' = {}
      BY ZenonT(30), <2>1, <3>1, <3>2
    <3> QED
      BY ZenonT(30), <2>1, <3>2, <3>3 DEF AdmitInv
  <2> QED
    BY ZenonT(30), <2>1, <2>2, <2>3
<1>5. ASSUME NEW a \in Addrs, AllowMgmtRequest(a)
      PROVE  UNCHANGED <<up, blocked, wantedUp, lastIn>>
  BY ZenonT(30), <1>5 DEF AllowMgmtRequest, daemonVars
<1>6. CASE UNCHANGED guardVars \/ Elapse \/ Operate
  BY ZenonT(30), <1>1, <1>6 DEF guardVars, Elapse, Operate, Daemon, daemonVars, requestVars
<1>7. ASSUME NEW r \in Reporters, ReportComplaint(r) \/ ReadPolicy(r) \/ Count(r) \/ Trigger(r)
      PROVE  UNCHANGED <<up, blocked, wantedUp, lastIn>>
  BY ZenonT(30), <1>7 DEF ReportComplaint, ReadPolicy, Count, Trigger, Daemon, daemonVars,
                          requestVars
<1>8. ASSUME NEW t \in Tools, \/ cmdBlocklist(t) \/ saveLocked(t) \/ cmdReportAbuse(t)
                              \/ cmdRotateKeys(t) \/ Load(t) \/ Save(t)
      PROVE  UNCHANGED <<up, blocked, wantedUp, lastIn>>
  BY ZenonT(30), <1>8 DEF cmdBlocklist, saveLocked, cmdReportAbuse, cmdRotateKeys, Load, Save,
                          Process,
              daemonVars, requestVars
<1> QED
  BY ZenonT(30), <1>1, <1>2, <1>3, <1>4, <1>5, <1>6, <1>7, <1>8 DEF AccessNext, ComplaintNext

(* cmdBlocklist, NewBlocklist and PreAuthorize: whom the operator listed   *)
(* before the daemon started is not admitted under any form of address;    *)
(* cmdReportAbuse and cmdRotateKeys: the configuration keeps both edits;   *)
(* unless two commands on the file crossed or one was cut short.           *)
THEOREM OperatorEditsAreKept == GuardSpec => []OperatorEditsHold
<1> DEFINE EditsInv == EditsTypeOK /\ BlockInv /\ ConfigInv /\ AdmitInv
<1>1. GuardInit => EditsInv
  <2> SUFFICES ASSUME GuardInit PROVE EditsInv
    BY ZenonT(30)
  <2>1. /\ tool = [t \in Tools |-> NoTool] /\ blockfile = {} /\ wanted = {} /\ config = Fresh
        /\ rotated = 0 /\ tripped = FALSE /\ up = FALSE
    BY ZenonT(30) DEF GuardInit
  <2>2. EditsTypeOK
    BY ZenonT(30), <2>1 DEF EditsTypeOK, AllTools, Listed, Configs, Fresh
  <2>3. \A t \in Tools : tool[t] \notin BlockTools /\ tool[t] \notin ConfigTools
    BY ZenonT(30), <2>1, <2>2, ToolKinds DEF EditsTypeOK
  <2>4. BlockInv
    BY ZenonT(30), <2>1, <2>3 DEF BlockInv
  <2>5. Current(config, tripped, rotated)
    BY ZenonT(30), <2>1 DEF Current, Fresh
  <2>6. ConfigInv
    BY ZenonT(30), <2>3, <2>5 DEF ConfigInv
  <2>7. AdmitInv
    BY ZenonT(30), <2>1 DEF AdmitInv
  <2> QED
    BY ZenonT(30), <2>2, <2>4, <2>6, <2>7
<1>2. EditsInv /\ [AccessNext \/ ComplaintNext]_guardVars => EditsInv'
  BY ZenonT(30), EditsTypeStep, BlockStep, ConfigStep, AdmitStep
<1>3. EditsInv => OperatorEditsHold
  BY ZenonT(30) DEF OperatorEditsHold, ConfigInv, AdmitInv, Current
<1> QED
  BY <1>1, <1>2, <1>3, PTL DEF GuardSpec
=============================================================================
