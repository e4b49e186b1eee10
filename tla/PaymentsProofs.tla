--------------------------- MODULE PaymentsProofs ---------------------------
(***************************************************************************)
(* What the payment path guarantees for every set of nodes, signers,       *)
(* callers, sessions, amounts and routes: the contract's books (Contract), *)
(* the prepaid flow and its tokens (Prepaid), and the settlement of a      *)
(* circuit hop by hop (RouteSettlement).                                   *)
(***************************************************************************)
EXTENDS Contract, Prepaid, RouteSettlement, TLAPS

-----------------------------------------------------------------------------
(***************************************************************************)
(* The contract.                                                           *)
(***************************************************************************)

(* An entry node_<id>_* with its Uint64 fields in range.                   *)
Entries ==
    [owner : Signers \cup {Nobody}, price : 0..(Limit - 1), bond : 0..(Limit - 1),
     active : BOOLEAN, settled : 0..(Limit - 1), lastbatch : Batches \cup {NoBatch}]

ContractInv ==
    /\ nodes \in [Nodes -> Entries]
    /\ \A n \in Nodes : nodes[n].owner = Nobody => nodes[n] = Absent

(* What BooksExact and EntriesPermanent ask of one entry.                  *)
Booked(old, new, call) ==
    /\ new.bond # old.bond =>
          new.bond - old.bond = IF call.op = "DepositBond" THEN call.amount ELSE -call.amount
    /\ new.settled # old.settled => new.settled - old.settled = call.amount

Lasting(old, new) ==
    /\ new.owner = Nobody => new = Absent
    /\ old.owner # Nobody =>
          /\ new.owner = old.owner
          /\ new.active => old.active
          /\ new.settled >= old.settled

(* Plus is addition that wraps once: a sum that is not below its first     *)
(* argument is the exact sum (the overflow test of veilnet.bas).           *)
LEMMA PlusExact ==
    ASSUME NEW a \in 0..(Limit - 1), NEW b \in 0..(Limit - 1)
    PROVE  /\ Plus(a, b) \in 0..(Limit - 1)
           /\ Plus(a, b) >= a => Plus(a, b) = a + b
<1>1. CASE a + b < Limit
  BY <1>1, ContractAssumption DEF Plus
<1>2. CASE a + b >= Limit
  <2>1. (a + b) % Limit = a + b - Limit
    BY <1>2, ContractAssumption
  <2> QED
    BY <1>2, <2>1, ContractAssumption DEF Plus
<1> QED
  BY <1>1, <1>2, ContractAssumption

(* A transaction that stores a lawful entry, or none, keeps the invariant  *)
(* and both promises about every entry.                                    *)
LEMMA TransactLawful ==
    ASSUME ContractInv, NEW op, NEW n \in Nodes, NEW amount, NEW ok, NEW entry,
           Transact(op, n, amount, ok, entry),
           ok => /\ entry \in Entries
                 /\ Booked(nodes[n], entry, ret')
                 /\ Lasting(nodes[n], entry)
    PROVE  /\ ContractInv'
           /\ \A m \in Nodes : Booked(nodes[m], nodes'[m], ret') /\ Lasting(nodes[m], nodes'[m])
<1>1. CASE ~ok
  BY <1>1 DEF Transact, ContractInv, Booked, Lasting, Entries
<1>2. CASE ok
  <2>1. nodes' = [nodes EXCEPT ![n] = entry]
    BY ZenonT(30), <1>2 DEF Transact
  <2>2. entry.owner = Nobody => entry = Absent
    BY ZenonT(30), <1>2 DEF Lasting
  <2>3. \A m \in Nodes : nodes'[m] = IF m = n THEN entry ELSE nodes[m]
    BY ZenonT(30), <2>1 DEF ContractInv
  <2>4. ContractInv'
    BY ZenonT(30), <1>2, <2>1, <2>2, <2>3 DEF ContractInv
  <2>5. \A m \in Nodes : Booked(nodes[m], nodes[m], ret') /\ Lasting(nodes[m], nodes[m])
    BY DEF ContractInv, Booked, Lasting, Entries
  <2> QED
    BY ZenonT(30), <1>2, <2>3, <2>4, <2>5
<1> QED
  BY ZenonT(30), <1>1, <1>2

(* Every function of the contract is lawful.                               *)
LEMMA ContractStep ==
    ASSUME ContractInv, [Next]_vars
    PROVE  /\ ContractInv'
           /\ \A m \in Nodes : Booked(nodes[m], nodes'[m], ret') /\ Lasting(nodes[m], nodes'[m])
<1> USE DEF ContractInv, Operator, Trusted
<1>0. \A m \in Nodes : Booked(nodes[m], nodes[m], ret') /\ Lasting(nodes[m], nodes[m])
  BY DEF Booked, Lasting, Entries
<1>1. CASE UNCHANGED vars
  BY ZenonT(30), <1>0, <1>1 DEF vars
<1>2. ASSUME NEW s \in Signers, Initialize(s)
      PROVE  UNCHANGED nodes
  BY ZenonT(30), <1>2 DEF Initialize
<1>3. ASSUME NEW s \in Signers, NEW n \in Nodes, DisableNode(s, n)
      PROVE  /\ ContractInv'
             /\ \A m \in Nodes : Booked(nodes[m], nodes'[m], ret') /\ Lasting(nodes[m], nodes'[m])
  <2> DEFINE e == [nodes[n] EXCEPT !.active = FALSE]
  <2>a. e \in Entries
    BY ZenonT(30) DEF Entries
  <2>b. e.active = FALSE
    BY ZenonT(30) DEF Entries
  <2>0. /\ e.owner = nodes[n].owner /\ e.bond = nodes[n].bond /\ e.settled = nodes[n].settled
        /\ nodes[n].settled \in Int
    BY DEF Entries
  <2> HIDE DEF e
  <2>1. Trusted(s, n) => /\ e \in Entries /\ Booked(nodes[n], e, ret')
                         /\ Lasting(nodes[n], e)
    BY <2>a, <2>b, <2>0 DEF Booked, Lasting
  <2> QED
    BY ZenonT(30), <1>3, <2>1, TransactLawful DEF DisableNode, e
<1>4. ASSUME NEW s \in Signers, NEW n \in Nodes, NEW a \in Amounts, RegisterNode(s, n, a)
      PROVE  /\ ContractInv'
             /\ \A m \in Nodes : Booked(nodes[m], nodes'[m], ret') /\ Lasting(nodes[m], nodes'[m])
  <2> DEFINE e == [nodes[n] EXCEPT !.owner = s, !.price = a, !.active = TRUE]
  <2>a. e \in Entries
    BY ZenonT(30), ContractAssumption DEF Entries
  <2>0. /\ e.owner # Nobody
        /\ e.bond = nodes[n].bond /\ e.settled = nodes[n].settled
    BY ContractAssumption DEF Entries
  <2> HIDE DEF e
  <2>1. nodes[n].owner = Nobody => /\ e \in Entries /\ Booked(nodes[n], e, ret')
                                   /\ Lasting(nodes[n], e)
    BY ZenonT(30), <2>a, <2>0 DEF Booked, Lasting
  <2> QED
    BY ZenonT(30), <1>4, <2>1, TransactLawful DEF RegisterNode, e
<1>5. ASSUME NEW s \in Signers, NEW n \in Nodes, NEW a \in Amounts,
             UpdateNode(s, n, a) \/ SetPrice(s, n, a)
      PROVE  /\ ContractInv'
             /\ \A m \in Nodes : Booked(nodes[m], nodes'[m], ret') /\ Lasting(nodes[m], nodes'[m])
  <2> DEFINE e == [nodes[n] EXCEPT !.price = a]
  <2>1. Operator(s, n) => /\ e \in Entries /\ Booked(nodes[n], e, ret')
                          /\ Lasting(nodes[n], e)
    BY ContractAssumption DEF Entries, Booked, Lasting
  <2>2. CASE UpdateNode(s, n, a)
    BY ZenonT(30), <2>1, <2>2, TransactLawful DEF UpdateNode
  <2>3. CASE SetPrice(s, n, a)
    BY ZenonT(30), <2>1, <2>3, TransactLawful DEF SetPrice
  <2> QED
    BY ZenonT(30), <1>5, <2>2, <2>3
<1>6. ASSUME NEW s \in Signers, NEW n \in Nodes, NEW a \in Amounts, DepositBond(s, n, a)
      PROVE  /\ ContractInv'
             /\ \A m \in Nodes : Booked(nodes[m], nodes'[m], ret') /\ Lasting(nodes[m], nodes'[m])
  <2> DEFINE b == Plus(nodes[n].bond, a)
             e == [nodes[n] EXCEPT !.bond = b]
  <2>1. b \in 0..(Limit - 1) /\ (b >= nodes[n].bond => b = nodes[n].bond + a)
    BY ZenonT(30), PlusExact, ContractAssumption DEF Entries
  <2>2. ret'.op = "DepositBond" /\ ret'.amount = a
    BY ZenonT(30), <1>6 DEF DepositBond, Transact
  <2> HIDE DEF b
  <2>3. Operator(s, n) /\ b >= nodes[n].bond =>
           /\ e \in Entries /\ Booked(nodes[n], e, ret') /\ Lasting(nodes[n], e)
    BY <2>1, <2>2, ContractAssumption DEF Entries, Booked, Lasting
  <2> QED
    BY ZenonT(30), <1>6, <2>3, TransactLawful DEF DepositBond, b
<1>7. ASSUME NEW s \in Signers, NEW n \in Nodes, NEW a \in Amounts, WithdrawBond(s, n, a)
      PROVE  /\ ContractInv'
             /\ \A m \in Nodes : Booked(nodes[m], nodes'[m], ret') /\ Lasting(nodes[m], nodes'[m])
  <2> DEFINE e == [nodes[n] EXCEPT !.bond = @ - a]
  <2>2. ret'.op = "WithdrawBond" /\ ret'.amount = a
    BY ZenonT(30), <1>7 DEF WithdrawBond, Transact
  <2>3. Operator(s, n) /\ nodes[n].bond >= a =>
           /\ e \in Entries /\ Booked(nodes[n], e, ret') /\ Lasting(nodes[n], e)
    BY <2>2, ContractAssumption DEF Entries, Booked, Lasting
  <2> QED
    BY ZenonT(30), <1>7, <2>3, TransactLawful DEF WithdrawBond
<1>8. ASSUME NEW s \in Signers, NEW n \in Nodes, NEW a \in Amounts, NEW c \in 0..1,
             RecordSettlement(s, n, a, c)
      PROVE  /\ ContractInv'
             /\ \A m \in Nodes : Booked(nodes[m], nodes'[m], ret') /\ Lasting(nodes[m], nodes'[m])
  <2> DEFINE t == Plus(nodes[n].settled, a)
             e == [nodes[n] EXCEPT !.settled = t]
  <2>1. t \in 0..(Limit - 1) /\ (t >= nodes[n].settled => t = nodes[n].settled + a)
    BY ZenonT(30), PlusExact, ContractAssumption DEF Entries
  <2>2. ret'.amount = a
    BY ZenonT(30), <1>8 DEF RecordSettlement, Transact
  <2> HIDE DEF t
  <2>3. Trusted(s, n) /\ t >= nodes[n].settled =>
           /\ e \in Entries /\ Booked(nodes[n], e, ret') /\ Lasting(nodes[n], e)
    BY <2>1, <2>2, ContractAssumption DEF Entries, Booked, Lasting
  <2> QED
    BY ZenonT(30), <1>8, <2>3, TransactLawful DEF RecordSettlement, t
<1>9. ASSUME NEW s \in Signers, NEW n \in Nodes, NEW a \in Amounts, NEW c \in 0..1,
             NEW b \in Batches \cup {NoBatch}, RecordSettlementIdem(s, n, a, c, b)
      PROVE  /\ ContractInv'
             /\ \A m \in Nodes : Booked(nodes[m], nodes'[m], ret') /\ Lasting(nodes[m], nodes'[m])
  <2> DEFINE t == Plus(nodes[n].settled, a)
             e == IdemEntry(nodes[n], a, b)
             ok == Trusted(s, n) /\ IdemAccepts(nodes[n], a, c, b)
  <2>1. t \in 0..(Limit - 1) /\ (t >= nodes[n].settled => t = nodes[n].settled + a)
    BY ZenonT(30), PlusExact, ContractAssumption DEF Entries
  <2>2. ret'.amount = a
    BY ZenonT(30), <1>9 DEF RecordSettlementIdem, Transact
  <2>3. ok => /\ nodes[n].owner # Nobody
              /\ nodes[n].lastbatch = b \/ t >= nodes[n].settled
              /\ e = IF nodes[n].lastbatch = b THEN nodes[n]
                     ELSE [nodes[n] EXCEPT !.settled = t, !.lastbatch = b]
    BY ZenonT(30) DEF IdemAccepts, IdemEntry, IdemRepeat
  <2> HIDE DEF t, e, ok
  <2>b. ok => e.active = nodes[n].active
    BY ZenonT(30), <2>3 DEF Entries
  <2>c. ok => e \in Entries
    BY ZenonT(30), <2>1, <2>3 DEF Entries
  <2>5. ok => /\ e.owner = nodes[n].owner
              /\ e.bond = nodes[n].bond
              /\ e.settled = nodes[n].settled \/ e.settled = nodes[n].settled + a
    <3>1. CASE nodes[n].lastbatch = b
      BY ZenonT(30), <2>3, <3>1
    <3>2. CASE nodes[n].lastbatch # b
      <4> DEFINE f == [nodes[n] EXCEPT !.settled = t, !.lastbatch = b]
      <4>1. f.owner = nodes[n].owner /\ f.bond = nodes[n].bond /\ f.settled = t
        BY ZenonT(30) DEF Entries
      <4> QED
        BY ZenonT(30), <2>1, <2>3, <3>2, <4>1
    <3> QED
      BY ZenonT(30), <3>1, <3>2
  <2>6. nodes[n].settled \in Int /\ a \in Nat
    BY ContractAssumption DEF Entries
  <2>7. ok => Booked(nodes[n], e, ret')
    BY <2>2, <2>5, <2>6 DEF Booked
  <2>8. ok => e.settled >= nodes[n].settled
    BY <2>5, <2>6
  <2>4. ok => e \in Entries /\ Booked(nodes[n], e, ret') /\ Lasting(nodes[n], e)
    BY ZenonT(30), <2>3, <2>b, <2>c, <2>5, <2>7, <2>8 DEF Lasting
  <2> QED
    BY ZenonT(30), <1>9, <2>4, TransactLawful DEF RecordSettlementIdem, e, ok
<1> QED
  BY ZenonT(30), <1>0, <1>1, <1>2, <1>3, <1>4, <1>5, <1>6, <1>7, <1>8, <1>9 DEF Next

(* The entries of the contract stay well formed, and an id nobody          *)
(* registered has nothing stored under it.                                 *)
LEMMA ContractInvariant == Spec => []ContractInv
<1>1. Init => ContractInv
  BY ContractAssumption DEF Init, ContractInv, Absent, Entries
<1>2. ContractInv /\ [Next]_vars => ContractInv'
  BY ZenonT(30), ContractStep
<1> QED
  BY <1>1, <1>2, PTL DEF Spec

(* DepositBond, WithdrawBond, RecordSettlement and RecordSettlementIdem    *)
(* move a bond or a total by exactly the amount of the call, as integers,  *)
(* for every width of the arithmetic and every set of amounts.             *)
THEOREM BooksNeverWrap == Spec => BooksExact
<1>1. ContractInv /\ [Next]_vars =>
        [\A n \in Nodes :
           /\ nodes'[n].bond # nodes[n].bond =>
                 nodes'[n].bond - nodes[n].bond =
                    IF ret'.op = "DepositBond" THEN ret'.amount ELSE -ret'.amount
           /\ nodes'[n].settled # nodes[n].settled =>
                 nodes'[n].settled - nodes[n].settled = ret'.amount]_vars
  BY ZenonT(30), ContractStep DEF Booked
<1> QED
  BY <1>1, ContractInvariant, PTL DEF Spec, BooksExact

(* RegisterNode, DisableNode and the settlement calls: an entry belongs to *)
(* whoever registered it for ever, a disabled node stays disabled and a    *)
(* settled total never shrinks, whoever calls what.                        *)
THEOREM EntriesNeverTakenBack == Spec => EntriesPermanent
<1>1. ContractInv /\ [Next]_vars =>
        [\A n \in Nodes :
           /\ nodes'[n].owner = Nobody => nodes'[n] = Absent
           /\ nodes[n].owner # Nobody =>
                 /\ nodes'[n].owner = nodes[n].owner
                 /\ nodes'[n].active => nodes[n].active
                 /\ nodes'[n].settled >= nodes[n].settled]_vars
  BY ZenonT(30), ContractStep DEF Lasting
<1> QED
  BY <1>1, ContractInvariant, PTL DEF Spec, EntriesPermanent

-----------------------------------------------------------------------------
(***************************************************************************)
(* The prepaid flow.                                                       *)
(***************************************************************************)

Tokens == [session : Sessions, expiresAt : Nat, cost : Nat, default : BOOLEAN]
Calls == [pc : {"asked", "pay", "mint", "record"}, session : Sessions,
          deposit : Deposits, price : Prices]

PrepaidTypeOK ==
    /\ now \in Nat /\ funds \in Nat
    /\ minted \in Seq(Tokens) /\ kept \subseteq DOMAIN minted
    /\ auth \in [Callers -> {Unasked} \cup Calls]
    /\ paid \in [Sessions -> Nat] /\ credit \in [Sessions -> Nat]

(* The record of a revoked token stays, and a record that is gone is past  *)
(* its grace period.                                                       *)
RecordsInv ==
    /\ revoked \subseteq kept
    /\ \A id \in DOMAIN minted \ kept : now > minted[id].expiresAt + Grace

(* The time a deposit buys is a number of units of time.                   *)
LEMMA TTLType ==
    ASSUME NEW a \in Calls
    PROVE  TTL(a) \in Nat /\ a.price \in Nat
<1>1. a.price \in Nat /\ a.deposit \in Nat
  BY ZenonT(30), PrepaidAssumption DEF Calls
<1>2. a.price # 0 => a.deposit \div a.price \in Nat
  BY <1>1
<1>3. TTL(a) \in Nat
  BY ZenonT(30), <1>1, <1>2, PrepaidAssumption DEF TTL
<1> QED
  BY ZenonT(30), <1>1, <1>3

Amount(a) == ToAtomic(a.deposit)

(* What a call pays is a number of atomic units.                           *)
LEMMA AmountType ==
    ASSUME NEW a \in Calls
    PROVE  Amount(a) \in Nat
<1>1. a.deposit \in Nat /\ Unit \in Nat \ {0}
  BY ZenonT(30), PrepaidAssumption DEF Calls
<1>2. \A d, u \in Nat : u # 0 => (2 * d + u) \div (2 * u) \in Nat
  <2>1. \A x, y \in Nat : y # 0 => x \div y \in Nat
    BY SMT
  <2>2. \A d, u \in Nat : u # 0 => 2 * d + u \in Nat /\ 2 * u \in Nat /\ 2 * u # 0
    BY SMT
  <2> QED
    BY ZenonT(30), <2>1, <2>2
<1> QED
  BY ZenonT(30), <1>1, <1>2 DEF Amount, ToAtomic

(* A call that moves on is still a call.                                   *)
LEMMA CallMoves ==
    ASSUME auth \in [Callers -> {Unasked} \cup Calls], NEW c \in Callers, auth[c] \in Calls,
           NEW q \in {"asked", "pay", "mint", "record"},
           \/ auth' = [auth EXCEPT ![c].pc = q]
           \/ auth' = [auth EXCEPT ![c] = Unasked]
    PROVE  auth' \in [Callers -> {Unasked} \cup Calls]
<1> DEFINE r == [auth[c] EXCEPT !.pc = q]
<1>1. r \in Calls
  BY ZenonT(30) DEF Calls
<1>2. auth' = [auth EXCEPT ![c] = r] \/ auth' = [auth EXCEPT ![c] = Unasked]
  BY ZenonT(30)
<1> HIDE DEF r
<1> QED
  BY ZenonT(30), <1>1, <1>2

(* Every step of the prepaid service keeps the types.                      *)
LEMMA PrepaidTypeStep ==
    ASSUME PrepaidTypeOK, [PrepaidNext]_prepaidVars
    PROVE  PrepaidTypeOK'
<1> USE PrepaidAssumption DEF PrepaidTypeOK
<1>1. CASE UNCHANGED prepaidVars
  BY ZenonT(30), <1>1 DEF prepaidVars, issuerVars
<1>2. CASE Tick
  BY <1>2 DEF Tick, issuerVars
<1>3. CASE Sweep
  BY ZenonT(30), <1>3 DEF Sweep
<1>4. ASSUME NEW id \in DOMAIN minted, Revoke(id)
      PROVE  PrepaidTypeOK'
  BY ZenonT(30), <1>4 DEF Revoke
<1>5. ASSUME NEW c \in Callers, Authorize(c)
      PROVE  PrepaidTypeOK'
  BY <1>5 DEF Authorize, issuerVars, Call, Calls
<1>6. ASSUME NEW c \in Callers, auth[c].pc \in {"asked", "pay", "mint", "record"}
      PROVE  auth[c] \in Calls /\ auth[c] # Unasked
  BY <1>6 DEF Unasked
<1>7. ASSUME NEW c \in Callers, RequestApproval(c)
      PROVE  PrepaidTypeOK'
  <2>1. auth[c] \in Calls
    BY ZenonT(30), <1>6, <1>7 DEF RequestApproval
  <2>2. auth' = [auth EXCEPT ![c].pc = "pay"] \/ auth' = [auth EXCEPT ![c] = Unasked]
    BY ZenonT(30), <1>7 DEF RequestApproval
  <2>3. auth' \in [Callers -> {Unasked} \cup Calls]
    BY ZenonT(30), <2>1, <2>2, CallMoves
  <2> QED
    BY ZenonT(30), <1>7, <2>3 DEF RequestApproval, issuerVars
<1>8. ASSUME NEW c \in Callers, SubmitTransfer(c)
      PROVE  PrepaidTypeOK'
  <2>1. auth[c] \in Calls
    BY ZenonT(30), <1>6, <1>8 DEF SubmitTransfer
  <2>2. \/ /\ funds' = funds - Amount(auth[c]) /\ funds >= Amount(auth[c])
           /\ paid' = [paid EXCEPT ![auth[c].session] = @ + Amount(auth[c])]
        \/ UNCHANGED <<funds, paid>>
    BY ZenonT(30), <1>8 DEF SubmitTransfer, Amount
  <2>3. auth' = [auth EXCEPT ![c].pc = "mint"] \/ auth' = [auth EXCEPT ![c] = Unasked]
    BY ZenonT(30), <1>8 DEF SubmitTransfer, Returned
  <2>4. auth' \in [Callers -> {Unasked} \cup Calls]
    BY ZenonT(30), <2>1, <2>3, CallMoves
  <2>5. funds' \in Nat /\ paid' \in [Sessions -> Nat]
    <3>1. Amount(auth[c]) \in Nat /\ auth[c].session \in Sessions
      BY ZenonT(30), <2>1, AmountType DEF Calls
    <3>2. funds \in Nat /\ paid \in [Sessions -> Nat]
      BY ZenonT(30)
    <3> QED
      BY ONLY <2>2, <3>1, <3>2
  <2> QED
    BY ZenonT(30), <1>8, <2>4, <2>5 DEF SubmitTransfer, issuerVars
<1>9. ASSUME NEW c \in Callers, MintToken(c)
      PROVE  PrepaidTypeOK'
  <2>1. auth[c] \in Calls
    BY ZenonT(30), <1>6, <1>9 DEF MintToken
  <2> DEFINE valid == IF TTL(auth[c]) = 0 THEN DefaultTTL ELSE TTL(auth[c])
             t == [session |-> auth[c].session, expiresAt |-> now + valid,
                   cost |-> valid * auth[c].price, default |-> TTL(auth[c]) = 0]
  <2>2. \/ minted' = Append(minted, t) /\ kept' = kept \cup {Len(minted) + 1}
        \/ UNCHANGED <<minted, kept>>
    BY ZenonT(30), <1>9 DEF MintToken, Mint, issuerVars
  <2>3. t \in Tokens
    <3>1. valid \in Nat /\ auth[c].price \in Nat /\ auth[c].session \in Sessions
      BY ZenonT(30), <2>1, TTLType, PrepaidAssumption DEF Calls
    <3> HIDE DEF valid
    <3>2. now + valid \in Nat /\ valid * auth[c].price \in Nat
      BY <3>1
    <3> QED
      BY ZenonT(30), <3>1, <3>2 DEF Tokens
  <2> HIDE DEF t
  <2>4. minted' \in Seq(Tokens) /\ kept' \subseteq DOMAIN minted'
    <3>1. CASE UNCHANGED <<minted, kept>>
      BY ZenonT(30), <3>1
    <3>2. CASE minted' = Append(minted, t) /\ kept' = kept \cup {Len(minted) + 1}
      <4>1. minted' \in Seq(Tokens) /\ Len(minted') = Len(minted) + 1 /\ Len(minted) \in Nat
        BY <2>3, <3>2
      <4>2. DOMAIN minted' = 1..(Len(minted) + 1) /\ DOMAIN minted = 1..Len(minted)
        BY <4>1
      <4> QED
        BY <3>2, <4>1, <4>2
    <3> QED
      BY ZenonT(30), <2>2, <3>1, <3>2
  <2>5. auth' = [auth EXCEPT ![c].pc = "record"] \/ auth' = [auth EXCEPT ![c] = Unasked]
    BY ZenonT(30), <1>9 DEF MintToken, Returned
  <2>6. auth' \in [Callers -> {Unasked} \cup Calls]
    BY ZenonT(30), <2>1, <2>5, CallMoves
  <2> QED
    BY ZenonT(30), <1>9, <2>4, <2>6 DEF MintToken
<1>10. ASSUME NEW c \in Callers, RecordCredit(c)
       PROVE  PrepaidTypeOK'
  <2>1. auth[c] \in Calls
    BY ZenonT(30), <1>6, <1>10 DEF RecordCredit
  <2>2. auth[c].session \in Sessions /\ Amount(auth[c]) \in Nat
    BY ZenonT(30), <2>1, AmountType DEF Calls
  <2>3. credit' \in [Sessions -> Nat]
    BY ZenonT(30), <1>10, <2>2 DEF RecordCredit, Amount
  <2> QED
    BY ZenonT(30), <1>10, <2>3 DEF RecordCredit, Returned, issuerVars
<1> QED
  BY ZenonT(30), <1>1, <1>2, <1>3, <1>4, <1>5, <1>7, <1>8, <1>9, <1>10 DEF PrepaidNext

(* What a step does to the issuer's clock and records.                     *)
LEMMA IssuerStep ==
    ASSUME PrepaidTypeOK, RecordsInv, [PrepaidNext]_prepaidVars
    PROVE  /\ RecordsInv'
           /\ now' >= now /\ now' \in Nat
           /\ DOMAIN minted \subseteq DOMAIN minted'
           /\ \A id \in DOMAIN minted : /\ minted'[id] = minted[id]
                                        /\ id \in kept' => id \in kept
                                        /\ id \in revoked => id \in revoked'
<1> USE PrepaidAssumption DEF PrepaidTypeOK, RecordsInv
<1>1. ASSUME UNCHANGED <<now, minted, kept, revoked>>
      PROVE  /\ RecordsInv'
             /\ now' >= now /\ now' \in Nat
             /\ DOMAIN minted \subseteq DOMAIN minted'
             /\ \A id \in DOMAIN minted : /\ minted'[id] = minted[id]
                                          /\ id \in kept' => id \in kept
                                          /\ id \in revoked => id \in revoked'
  BY <1>1
<1>0. \A id \in DOMAIN minted : minted[id].expiresAt \in Nat
  <2>1. \A id \in DOMAIN minted : minted[id] \in Tokens
    OBVIOUS
  <2> QED
    BY ZenonT(30), <2>1 DEF Tokens
<1>2. CASE Tick
  BY <1>0, <1>2 DEF Tick, issuerVars
<1>3. CASE Sweep
  BY <1>0, <1>3 DEF Sweep
<1>4. ASSUME NEW id \in DOMAIN minted, Revoke(id)
      PROVE  /\ RecordsInv' /\ revoked \subseteq revoked'
             /\ UNCHANGED <<now, minted, kept>>
  BY ZenonT(30), <1>4 DEF Revoke
<1>5. ASSUME NEW c \in Callers, Authorize(c) \/ RequestApproval(c) \/ SubmitTransfer(c)
                                \/ RecordCredit(c)
      PROVE  UNCHANGED <<now, minted, kept, revoked>>
  BY ZenonT(30), <1>5 DEF Authorize, RequestApproval, SubmitTransfer, RecordCredit, issuerVars
<1>6. ASSUME NEW c \in Callers, MintToken(c)
      PROVE  \/ UNCHANGED <<now, minted, kept, revoked>>
             \/ /\ UNCHANGED <<now, revoked>> /\ kept' = kept \cup {Len(minted) + 1}
                /\ \E t : minted' = Append(minted, t)
  BY ZenonT(30), <1>6 DEF MintToken, Mint, issuerVars
<1>7. ASSUME NEW t, minted' = Append(minted, t), kept' = kept \cup {Len(minted) + 1},
             UNCHANGED <<now, revoked>>
      PROVE  /\ RecordsInv'
             /\ now' >= now /\ now' \in Nat
             /\ DOMAIN minted \subseteq DOMAIN minted'
             /\ \A id \in DOMAIN minted : /\ minted'[id] = minted[id]
                                          /\ id \in kept' => id \in kept
                                          /\ id \in revoked => id \in revoked'
  <2>1. /\ DOMAIN minted = 1..Len(minted) /\ Len(minted) \in Nat
        /\ DOMAIN minted' = 1..(Len(minted) + 1)
        /\ \A id \in DOMAIN minted : minted'[id] = minted[id]
    BY <1>7
  <2> QED
    BY <1>7, <2>1
<1>8. CASE UNCHANGED prepaidVars
  BY ZenonT(30), <1>1, <1>8 DEF prepaidVars, issuerVars
<1> QED
  BY <1>1, <1>2, <1>3, <1>4, <1>5, <1>6, <1>7, <1>8 DEF PrepaidNext

(* The types and RecordsInv hold throughout.                               *)
LEMMA IssuerInvariant == PrepaidSpec => [](PrepaidTypeOK /\ RecordsInv)
<1>1. PrepaidInit => PrepaidTypeOK /\ RecordsInv
  BY PrepaidAssumption DEF PrepaidInit, PrepaidTypeOK, RecordsInv, Tokens
<1>2. PrepaidTypeOK /\ RecordsInv /\ [PrepaidNext]_prepaidVars => (PrepaidTypeOK /\ RecordsInv)'
  BY ZenonT(30), PrepaidTypeStep, IssuerStep
<1> QED
  BY <1>1, <1>2, PTL DEF PrepaidSpec

(* The verdict of Validate, told by the records, the revocations and the   *)
(* clock.                                                                  *)
LEMMA VerdictIs ==
    ASSUME NEW id
    PROVE  /\ Validate(id) = "ok" <=>
                  id \in kept /\ id \notin revoked /\ ~(now >= minted[id].expiresAt)
           /\ Validate(id) = "revoked" <=> id \in kept /\ id \in revoked
           /\ Validate(id) = "invalid" <=> id \notin kept
BY ZenonT(30) DEF Validate

(* Validate, Revoke, Sweep: whatever the clock, the sweeps and the calls   *)
(* do, a token that is not usable never becomes usable, a revoked one      *)
(* answers "revoked" for ever, and none looks forged before its grace      *)
(* period is over.                                                         *)
THEOREM VerdictsAreFinal == PrepaidSpec => VerdictsFinal
<1>1. ASSUME PrepaidTypeOK, RecordsInv, [PrepaidNext]_prepaidVars, NEW id \in DOMAIN minted
      PROVE  /\ Validate(id) # "ok" => Validate(id)' # "ok"
             /\ Validate(id) = "revoked" => Validate(id)' = "revoked"
             /\ now' <= minted[id].expiresAt + Grace => Validate(id)' # "invalid"
  <2>1. /\ minted'[id] = minted[id] /\ id \in DOMAIN minted'
        /\ id \in kept' => id \in kept
        /\ id \in revoked => id \in revoked'
        /\ now' >= now /\ now' \in Nat
    BY ZenonT(30), <1>1, IssuerStep
  <2>2. RecordsInv'
    BY ZenonT(30), <1>1, IssuerStep
  <2>3. now \in Nat /\ minted[id].expiresAt \in Nat /\ Grace \in Nat
    <3>1. minted[id] \in Tokens
      BY <1>1 DEF PrepaidTypeOK
    <3> QED
      BY ZenonT(30), <1>1, <3>1, PrepaidAssumption DEF PrepaidTypeOK, Tokens
  <2>4. /\ Validate(id)' = "ok" <=>
               id \in kept' /\ id \notin revoked' /\ ~(now' >= minted'[id].expiresAt)
        /\ Validate(id)' = "revoked" <=> id \in kept' /\ id \in revoked'
        /\ Validate(id)' = "invalid" <=> id \notin kept'
    BY ZenonT(30) DEF Validate
  <2>5. id \in revoked => id \in kept'
    BY ZenonT(30), <2>1, <2>2 DEF RecordsInv
  <2>6. id \notin kept' => now' > minted[id].expiresAt + Grace
    BY ZenonT(30), <2>1, <2>2 DEF RecordsInv
  <2>7. Validate(id) # "ok" => Validate(id)' # "ok"
    BY <2>1, <2>3, <2>4, VerdictIs
  <2>8. Validate(id) = "revoked" => Validate(id)' = "revoked"
    BY ZenonT(30), <2>1, <2>4, <2>5, VerdictIs
  <2>9. now' <= minted[id].expiresAt + Grace => Validate(id)' # "invalid"
    BY <2>1, <2>3, <2>4, <2>6
  <2> QED
    BY ZenonT(30), <2>7, <2>8, <2>9
<1>2. PrepaidTypeOK /\ RecordsInv /\ [PrepaidNext]_prepaidVars =>
        [\A id \in DOMAIN minted :
           /\ Validate(id) # "ok" => Validate(id)' # "ok"
           /\ Validate(id) = "revoked" => Validate(id)' = "revoked"
           /\ now' <= minted[id].expiresAt + Grace => Validate(id)' # "invalid"]_prepaidVars
  BY ZenonT(30), <1>1
<1> QED
  BY <1>2, IssuerInvariant, PTL DEF PrepaidSpec, VerdictsFinal

(* A call that has paid is covered by what its session paid; and a session *)
(* that saw one call and no late failure has at most that call under way,  *)
(* which has paid everything once it has paid.                             *)
On(a, s) == a # Unasked /\ a.session = s
HasPaid(a) == a.pc \in {"mint", "record"}

CreditInv ==
    /\ \A s \in Sessions : credit[s] <= paid[s]
    /\ \A c \in Callers, s \in Sessions : On(auth[c], s) /\ HasPaid(auth[c]) =>
          Amount(auth[c]) <= paid[s]
    /\ \A s \in Sessions \ slipped :
          /\ (\A c \in Callers : ~On(auth[c], s)) => credit[s] = paid[s]
          /\ \A c, d \in Callers : On(auth[c], s) /\ On(auth[d], s) => c = d
          /\ \A c \in Callers : On(auth[c], s) =>
                paid[s] = IF HasPaid(auth[c]) THEN Amount(auth[c]) ELSE 0

(* CreditInv is inductive relative to the types.                           *)
LEMMA CreditStep ==
    ASSUME PrepaidTypeOK, CreditInv, [PrepaidNext]_prepaidVars
    PROVE  CreditInv'
<1> USE DEF CreditInv
<1>0. /\ \A c \in Callers : auth[c] = Unasked \/ auth[c] \in Calls
      /\ \A c \in Callers : auth[c] = Unasked => auth[c].pc = "idle"
      /\ \A c \in Callers : auth[c] # Unasked =>
            auth[c].session \in Sessions /\ Amount(auth[c]) \in Nat
      /\ \A s \in Sessions : paid[s] \in Nat /\ credit[s] \in Nat
  <2>1. \A c \in Callers : auth[c] = Unasked \/ auth[c] \in Calls
    BY ZenonT(30) DEF PrepaidTypeOK
  <2>2. \A c \in Callers : auth[c] = Unasked => auth[c].pc = "idle"
    BY DEF Unasked
  <2>3. \A c \in Callers : auth[c] # Unasked =>
            auth[c].session \in Sessions /\ Amount(auth[c]) \in Nat
    BY ZenonT(30), <2>1, AmountType DEF Calls
  <2> QED
    BY ZenonT(30), <2>1, <2>2, <2>3 DEF PrepaidTypeOK
<1>1. ASSUME UNCHANGED <<auth, paid, credit, slipped>>
      PROVE  CreditInv'
  BY <1>1 DEF On, HasPaid
<1>2. CASE \/ UNCHANGED prepaidVars \/ Tick \/ Sweep \/ \E id \in DOMAIN minted : Revoke(id)
  BY ZenonT(30), <1>1, <1>2 DEF prepaidVars, Tick, Sweep, Revoke
<1>3. ASSUME NEW c \in Callers, NEW r, auth' = [auth EXCEPT ![c] = r]
      PROVE  auth'[c] = r /\ \A b \in Callers : b # c => auth'[b] = auth[b]
  BY ZenonT(30), <1>3 DEF PrepaidTypeOK
<1>4. ASSUME NEW c \in Callers, auth' = [auth EXCEPT ![c] = Unasked]
      PROVE  /\ \A b \in Callers : b # c => auth'[b] = auth[b]
             /\ ~HasPaid(auth'[c])
             /\ \A s \in Sessions : ~On(auth'[c], s)
  <2>1. auth'[c] = Unasked /\ \A b \in Callers : b # c => auth'[b] = auth[b]
    BY ZenonT(30), <1>3, <1>4
  <2> QED
    BY <2>1 DEF Unasked, On, HasPaid
<1>5. ASSUME NEW c \in Callers, auth[c] # Unasked, NEW q \in {"pay", "mint", "record"},
             auth' = [auth EXCEPT ![c].pc = q]
      PROVE  /\ \A b \in Callers : b # c => auth'[b] = auth[b]
             /\ \A s \in Sessions : On(auth'[c], s) <=> On(auth[c], s)
             /\ Amount(auth'[c]) = Amount(auth[c])
             /\ HasPaid(auth'[c]) <=> q # "pay"
  <2> DEFINE r == [auth[c] EXCEPT !.pc = q]
  <2>1. r.pc = q /\ r.session = auth[c].session /\ r.deposit = auth[c].deposit /\ r # Unasked
    BY <1>0, <1>5 DEF Calls, Unasked
  <2>2. auth' = [auth EXCEPT ![c] = r]
    BY ZenonT(30), <1>5
  <2> HIDE DEF r
  <2>3. auth'[c] = r /\ \A b \in Callers : b # c => auth'[b] = auth[b]
    BY ZenonT(30), <1>3, <2>2
  <2> QED
    BY ZenonT(30), <1>5, <2>1, <2>3 DEF On, HasPaid, Amount
<1>6. ASSUME NEW c \in Callers, Authorize(c)
      PROVE  CreditInv'
  <2>1. PICK s \in Sessions, d \in Deposits, p \in Prices :
           /\ auth' = [auth EXCEPT ![c] = Call("asked", s, d, p)]
           /\ slipped' = IF Serving(s) # {} \/ paid[s] > 0 THEN slipped \cup {s} ELSE slipped
    BY ONLY <1>6, Zenon DEF Authorize
  <2>2. Call("asked", s, d, p).pc = "asked" /\ Call("asked", s, d, p).session = s
        /\ Call("asked", s, d, p) # Unasked
    BY ZenonT(30) DEF Call, Unasked
  <2>3. ~HasPaid(auth'[c]) /\ \A t \in Sessions : On(auth'[c], t) <=> t = s
    <3>1. auth'[c] = Call("asked", s, d, p)
      BY ZenonT(30), <1>3, <2>1
    <3> QED
      BY ZenonT(30), <2>2, <3>1 DEF On, HasPaid
  <2>4. auth[c] = Unasked /\ UNCHANGED <<paid, credit>>
    BY ZenonT(30), <1>6 DEF Authorize
  <2>5. \A t \in Sessions : ~On(auth[c], t)
    BY ZenonT(30), <2>4 DEF On
  <2>6. s \notin slipped' => paid[s] = 0 /\ \A b \in Callers : ~On(auth[b], s)
    BY <1>0, <2>1 DEF Serving, On
  <2>7. \A t : t \notin slipped' => t \notin slipped
    BY ZenonT(30), <2>1
  <2>8. \A b \in Callers : b # c => auth'[b] = auth[b]
    BY ZenonT(30), <1>3, <2>1
  <2> QED
    BY <1>0, <2>3, <2>4, <2>5, <2>6, <2>7, <2>8
<1>7. ASSUME NEW c \in Callers, RequestApproval(c)
      PROVE  CreditInv'
  <2>1. /\ auth[c].pc = "asked" /\ auth[c] # Unasked /\ UNCHANGED <<paid, credit, slipped>>
        /\ \/ auth' = [auth EXCEPT ![c].pc = "pay"]
           \/ auth' = [auth EXCEPT ![c] = Unasked]
    BY ZenonT(30), <1>0, <1>7 DEF RequestApproval
  <2>2. ~HasPaid(auth[c])
    BY ZenonT(30), <2>1 DEF HasPaid
  <2>3. CASE auth' = [auth EXCEPT ![c].pc = "pay"]
    <3>1. /\ \A b \in Callers : b # c => auth'[b] = auth[b]
          /\ \A t \in Sessions : On(auth'[c], t) <=> On(auth[c], t)
          /\ Amount(auth'[c]) = Amount(auth[c])
          /\ ~HasPaid(auth'[c])
      BY ZenonT(30), <1>5, <2>1, <2>3
    <3> QED
      BY <1>0, <2>1, <2>2, <2>3, <3>1
  <2>4. CASE auth' = [auth EXCEPT ![c] = Unasked]
    <3>1. /\ \A b \in Callers : b # c => auth'[b] = auth[b]
          /\ ~HasPaid(auth'[c]) /\ \A t \in Sessions : ~On(auth'[c], t)
      BY ZenonT(30), <1>4, <2>4
    <3> QED
      BY <1>0, <2>1, <2>2, <2>4, <3>1
  <2> QED
    BY ZenonT(30), <2>1, <2>3, <2>4
<1>8. ASSUME NEW c \in Callers, SubmitTransfer(c)
      PROVE  CreditInv'
  <2> DEFINE s == auth[c].session
             d == Amount(auth[c])
  <2>1. /\ auth[c].pc = "pay" /\ auth[c] # Unasked /\ UNCHANGED credit
        /\ s \in Sessions /\ d \in Nat
    BY ZenonT(30), <1>0, <1>8 DEF SubmitTransfer
  <2>2. ~HasPaid(auth[c]) /\ \A t \in Sessions : On(auth[c], t) <=> t = s
    BY ZenonT(30), <2>1 DEF HasPaid, On
  <2> HIDE DEF s
  <2>3. ASSUME paid' = [paid EXCEPT ![s] = @ + d]
        PROVE  /\ paid'[s] = paid[s] + d
               /\ \A t \in Sessions : t # s => paid'[t] = paid[t]
    BY <1>0, <2>1, <2>3 DEF PrepaidTypeOK
  <2>4. CASE /\ paid' = [paid EXCEPT ![s] = @ + d] /\ UNCHANGED slipped
             /\ auth' = [auth EXCEPT ![c].pc = "mint"]
    <3>1. /\ \A b \in Callers : b # c => auth'[b] = auth[b]
          /\ \A t \in Sessions : On(auth'[c], t) <=> On(auth[c], t)
          /\ Amount(auth'[c]) = Amount(auth[c])
          /\ HasPaid(auth'[c])
      BY ZenonT(30), <1>5, <2>1, <2>4
    <3> QED
      <4>1. /\ paid'[s] = paid[s] + d
            /\ \A t \in Sessions : t # s => paid'[t] = paid[t]
        BY ZenonT(30), <2>3, <2>4
      <4> HIDE DEF d
      <4>2. \A t \in Sessions : credit'[t] <= paid'[t]
        BY <1>0, <2>1, <4>1
      <4>3. ASSUME NEW b \in Callers, NEW t \in Sessions, On(auth'[b], t), HasPaid(auth'[b])
            PROVE  Amount(auth'[b]) <= paid'[t]
        <5>1. CASE b = c
          BY <1>0, <2>1, <2>2, <3>1, <4>1, <4>3, <5>1 DEF d
        <5>2. CASE b # c
          BY <1>0, <2>1, <3>1, <4>1, <4>3, <5>2 DEF On
        <5> QED
          BY ZenonT(30), <5>1, <5>2
      <4>4. ASSUME NEW t \in Sessions \ slipped
            PROVE  /\ (\A b \in Callers : ~On(auth'[b], t)) => credit'[t] = paid'[t]
                   /\ \A a, b \in Callers : On(auth'[a], t) /\ On(auth'[b], t) => a = b
                   /\ \A b \in Callers : On(auth'[b], t) =>
                        paid'[t] = IF HasPaid(auth'[b]) THEN Amount(auth'[b]) ELSE 0
        <5>1. CASE t = s
          <6>1. On(auth[c], t) /\ On(auth'[c], t)
            BY ZenonT(30), <2>2, <3>1, <5>1
          <6>2. \A b \in Callers : On(auth'[b], t) => b = c
            BY ZenonT(30), <3>1, <4>4, <6>1
          <6>3. paid[t] = 0
            BY ZenonT(30), <2>2, <4>4, <6>1
          <6>4. paid'[t] = Amount(auth'[c])
            BY <1>0, <2>1, <3>1, <4>1, <5>1, <6>3 DEF d
          <6> QED
            BY ZenonT(30), <3>1, <6>1, <6>2, <6>4
        <5>2. CASE t # s
          BY <1>0, <2>1, <2>2, <3>1, <4>1, <4>4, <5>2
        <5> QED
          BY ZenonT(30), <5>1, <5>2
      <4> QED
        BY ZenonT(30), <2>4, <4>2, <4>3, <4>4
  <2>5. CASE /\ paid' = [paid EXCEPT ![s] = @ + d] /\ slipped' = slipped \cup {s}
             /\ auth' = [auth EXCEPT ![c] = Unasked]
    <3>1. /\ \A b \in Callers : b # c => auth'[b] = auth[b]
          /\ ~HasPaid(auth'[c]) /\ \A t \in Sessions : ~On(auth'[c], t)
      BY ZenonT(30), <1>4, <2>5
    <3>2. /\ paid'[s] = paid[s] + d
          /\ \A t \in Sessions : t # s => paid'[t] = paid[t]
      BY ZenonT(30), <2>3, <2>5
    <3> HIDE DEF d
    <3>3. /\ \A t \in Sessions : credit'[t] <= paid'[t] /\ paid[t] <= paid'[t]
          /\ \A t \in Sessions \ slipped' : t # s /\ t \notin slipped
      BY <1>0, <2>1, <2>5, <3>2
    <3>4. ASSUME NEW b \in Callers, NEW t \in Sessions, On(auth'[b], t), HasPaid(auth'[b])
          PROVE  Amount(auth'[b]) <= paid'[t]
      <4>1. auth'[b] = auth[b] /\ Amount(auth[b]) <= paid[t] /\ Amount(auth[b]) \in Nat
        BY ZenonT(30), <1>0, <3>1, <3>4 DEF On
      <4>2. paid[t] \in Nat /\ paid'[t] \in Int /\ paid[t] <= paid'[t]
        BY <1>0, <2>1, <3>2, <3>3
      <4> QED
        BY <4>1, <4>2
    <3>5. ASSUME NEW t \in Sessions \ slipped'
          PROVE  /\ (\A b \in Callers : ~On(auth'[b], t)) => credit'[t] = paid'[t]
                 /\ \A a, b \in Callers : On(auth'[a], t) /\ On(auth'[b], t) => a = b
                 /\ \A b \in Callers : On(auth'[b], t) =>
                      paid'[t] = IF HasPaid(auth'[b]) THEN Amount(auth'[b]) ELSE 0
      BY ZenonT(30), <2>1, <2>2, <3>1, <3>2, <3>3, <3>5
    <3> QED
      BY ZenonT(30), <3>3, <3>4, <3>5
  <2>6. CASE /\ auth' = [auth EXCEPT ![c] = Unasked]
             /\ UNCHANGED <<paid, slipped>>
    <3>1. /\ \A b \in Callers : b # c => auth'[b] = auth[b]
          /\ ~HasPaid(auth'[c]) /\ \A t \in Sessions : ~On(auth'[c], t)
      BY ZenonT(30), <1>4, <2>6
    <3> QED
      BY <1>0, <2>1, <2>2, <2>6, <3>1
  <2> QED
    BY ZenonT(30), <1>8, <2>4, <2>5, <2>6 DEF SubmitTransfer, Returned, Amount, s
<1>9. ASSUME NEW c \in Callers, MintToken(c)
      PROVE  CreditInv'
  <2> DEFINE s == auth[c].session
  <2>1. /\ auth[c].pc = "mint" /\ auth[c] # Unasked /\ UNCHANGED <<paid, credit>>
        /\ s \in Sessions
        /\ \/ auth' = [auth EXCEPT ![c].pc = "record"] /\ UNCHANGED slipped
           \/ auth' = [auth EXCEPT ![c] = Unasked] /\ slipped' = slipped \cup {s}
    BY ZenonT(30), <1>0, <1>9 DEF MintToken, Returned
  <2>2. HasPaid(auth[c]) /\ \A t \in Sessions : On(auth[c], t) <=> t = s
    BY ZenonT(30), <2>1 DEF HasPaid, On
  <2> HIDE DEF s
  <2>3. CASE auth' = [auth EXCEPT ![c].pc = "record"] /\ UNCHANGED slipped
    <3>1. /\ \A b \in Callers : b # c => auth'[b] = auth[b]
          /\ \A t \in Sessions : On(auth'[c], t) <=> On(auth[c], t)
          /\ Amount(auth'[c]) = Amount(auth[c])
          /\ HasPaid(auth'[c])
      BY ZenonT(30), <1>5, <2>1, <2>3
    <3> QED
      BY <1>0, <2>1, <2>2, <2>3, <3>1
  <2>4. CASE auth' = [auth EXCEPT ![c] = Unasked] /\ slipped' = slipped \cup {s}
    <3>1. /\ \A b \in Callers : b # c => auth'[b] = auth[b]
          /\ ~HasPaid(auth'[c]) /\ \A t \in Sessions : ~On(auth'[c], t)
      BY ZenonT(30), <1>4, <2>4
    <3> QED
      BY <1>0, <2>1, <2>2, <2>4, <3>1
  <2> QED
    BY ZenonT(30), <2>1, <2>3, <2>4
<1>10. ASSUME NEW c \in Callers, RecordCredit(c)
       PROVE  CreditInv'
  <2> DEFINE s == auth[c].session
             d == Amount(auth[c])
  <2>1. /\ auth[c].pc = "record" /\ auth[c] # Unasked
        /\ s \in Sessions /\ d \in Nat
        /\ auth' = [auth EXCEPT ![c] = Unasked]
        /\ credit' = [credit EXCEPT ![s] = d]
        /\ UNCHANGED <<paid, slipped>>
    BY ZenonT(30), <1>0, <1>10 DEF RecordCredit, Returned, Amount
  <2>2. HasPaid(auth[c]) /\ \A t \in Sessions : On(auth[c], t) <=> t = s
    BY ZenonT(30), <2>1 DEF HasPaid, On
  <2> HIDE DEF s
  <2>3. credit'[s] = d /\ \A t \in Sessions : t # s => credit'[t] = credit[t]
    BY ZenonT(30), <2>1 DEF PrepaidTypeOK
  <2>4. /\ \A b \in Callers : b # c => auth'[b] = auth[b]
        /\ ~HasPaid(auth'[c]) /\ \A t \in Sessions : ~On(auth'[c], t)
    BY ZenonT(30), <1>4, <2>1
  <2> QED
    BY <1>0, <2>1, <2>2, <2>3, <2>4
<1> QED
  BY ZenonT(30), <1>2, <1>6, <1>7, <1>8, <1>9, <1>10 DEF PrepaidNext

(* Authorize: whatever calls overlap and wherever they fail, no credit     *)
(* exceeds what was paid for its session, and a session whose only call is *)
(* over and did not fail late has exactly its payment as credit.           *)
THEOREM CreditNeverExceedsPayment == PrepaidSpec => []CreditIsPaid
<1>1. PrepaidInit => CreditInv
  BY PrepaidAssumption DEF PrepaidInit, CreditInv, On, Unasked
<1>2. PrepaidTypeOK /\ CreditInv /\ [PrepaidNext]_prepaidVars => CreditInv'
  BY ZenonT(30), CreditStep
<1>3. CreditInv => CreditIsPaid
  BY ZenonT(30) DEF CreditInv, CreditIsPaid, Serving, On
<1> QED
  BY <1>1, <1>2, <1>3, IssuerInvariant, PTL DEF PrepaidSpec

-----------------------------------------------------------------------------
(***************************************************************************)
(* The settlement of a circuit.                                            *)
(***************************************************************************)

Settling == [pc : {"take", "submit"}, hop : Hops, upTo : Nat, owed : [Hops -> Nat]]

(* A call that has come to a hop has settled what the hops before it owed  *)
(* when it began, and never owes more than is stored; the batch it submits *)
(* holds what its hop owed.                                                *)
OnTrack(r, st, done) ==
    /\ \A i \in Hops : r.owed[i] <= st[i]
    /\ \A i \in Hops : i < r.hop => done[i] >= r.owed[i]
    /\ r.pc = "submit" => r.upTo >= r.owed[r.hop]

RouteInv ==
    /\ stored \in [Hops -> Nat] /\ settledTo \in [Hops -> Nat]
    /\ settle \in [Settlers -> {NoCall} \cup Settling]
    /\ \A c \in Settlers : settle[c] # NoCall => OnTrack(settle[c], stored, settledTo)
    /\ verdict.owed \in [Hops -> Nat]
    /\ SettledUpToVerdict

(* A route has at least one hop.                                           *)
LEMMA RouteLength == Len(Route) \in Nat /\ 1 \in Hops /\ Hops \subseteq Nat
<1>1. Len(Route) \in Int
  BY RouteAssumption
<1> QED
  BY RouteAssumption DEF Hops

(* A settlement under way has a hop, an amount and a debt per hop.         *)
LEMMA SettlingFields ==
    ASSUME NEW r \in Settling
    PROVE  /\ r.hop \in Hops /\ r.upTo \in Nat /\ r # NoCall
           /\ r.owed \in [Hops -> Nat] /\ \A i \in Hops : r.owed[i] \in Nat
<1>1. r.hop \in Hops /\ r.upTo \in Nat /\ r.owed \in [Hops -> Nat]
  BY ZenonT(30) DEF Settling
<1>2. r.pc # "idle"
  BY ZenonT(30) DEF Settling
<1> QED
  BY <1>1, <1>2 DEF NoCall

(* Receipts and settlements only help: a call stays on track, and the last *)
(* verdict stays true.                                                     *)
LEMMA StaysOnTrack ==
    ASSUME NEW r \in Settling, NEW st \in [Hops -> Nat], NEW done \in [Hops -> Nat],
           NEW st2 \in [Hops -> Nat], NEW done2 \in [Hops -> Nat], OnTrack(r, st, done),
           \A i \in Hops : st2[i] >= st[i] /\ done2[i] >= done[i]
    PROVE  OnTrack(r, st2, done2)
<1>1. \A i \in Hops : r.owed[i] \in Nat /\ st[i] \in Nat /\ done[i] \in Nat
                      /\ st2[i] \in Nat /\ done2[i] \in Nat
  BY ZenonT(30), SettlingFields
<1> QED
  BY <1>1 DEF OnTrack

(* What every step keeps: nobody's receipts or settlements go back, the    *)
(* calls not taking the step are untouched, and the caller is on track or  *)
(* done; then the invariant holds again if it does for the verdict.        *)
LEMMA RouteKept ==
    ASSUME RouteInv, NEW c \in Settlers, NEW r \in {NoCall} \cup Settling,
           settle' = [settle EXCEPT ![c] = r],
           stored' \in [Hops -> Nat], settledTo' \in [Hops -> Nat],
           \A i \in Hops : stored'[i] >= stored[i] /\ settledTo'[i] >= settledTo[i],
           r # NoCall => OnTrack(r, stored', settledTo'),
           verdict'.owed \in [Hops -> Nat], SettledUpToVerdict'
    PROVE  RouteInv'
<1>1. settle'[c] = r /\ \A b \in Settlers : b # c => settle'[b] = settle[b]
  BY ZenonT(30) DEF RouteInv
<1>2. settle' \in [Settlers -> {NoCall} \cup Settling]
  BY ZenonT(30) DEF RouteInv
<1>3. ASSUME NEW b \in Settlers, settle'[b] # NoCall
      PROVE  OnTrack(settle'[b], stored', settledTo')
  <2>1. CASE b = c
    BY ZenonT(30), <1>1, <1>3, <2>1
  <2>2. CASE b # c
    <3>1. settle[b] \in Settling /\ OnTrack(settle[b], stored, settledTo) /\ settle'[b] = settle[b]
      BY ZenonT(30), <1>1, <1>3, <2>2 DEF RouteInv
    <3> QED
      BY ZenonT(30), <3>1, StaysOnTrack DEF RouteInv
  <2> QED
    BY ZenonT(30), <2>1, <2>2
<1> QED
  BY ZenonT(30), <1>2, <1>3 DEF RouteInv

(* What is settled only grows, so it still covers the verdict.             *)
LEMMA VerdictKept ==
    ASSUME RouteInv, settledTo' \in [Hops -> Nat],
           \A i \in Hops : settledTo'[i] >= settledTo[i], UNCHANGED verdict
    PROVE  verdict'.owed \in [Hops -> Nat] /\ SettledUpToVerdict'
<1>1. ASSUME NEW i \in Hops, settledTo[i] >= verdict.owed[i]
      PROVE  settledTo'[i] >= verdict'.owed[i]
  BY <1>1 DEF RouteInv
<1> QED
  BY ZenonT(30), <1>1 DEF RouteInv, SettledUpToVerdict

(* A call that returns: with no error only if every hop is settled.        *)
LEMMA ReturnKept ==
    ASSUME RouteInv, NEW c \in Settlers, settle[c] # NoCall, NEW ok \in BOOLEAN, Return(c, ok),
           UNCHANGED stored, settledTo' \in [Hops -> Nat],
           \A i \in Hops : settledTo'[i] >= settledTo[i],
           ok => \A i \in Hops : settledTo'[i] >= settle[c].owed[i]
    PROVE  RouteInv'
<1>1. settle[c] \in Settling /\ OnTrack(settle[c], stored, settledTo)
  BY ZenonT(30) DEF RouteInv
<1>2. settle' = [settle EXCEPT ![c] = NoCall]
  BY ZenonT(30) DEF Return
<1>3. verdict'.hop = settle[c].hop /\ verdict'.owed = settle[c].owed
  BY ZenonT(30) DEF Return
<1>4. verdict'.ok => ok
  BY ZenonT(30) DEF Return
<1>5. \A i \in Hops : i < verdict'.hop => settledTo'[i] >= verdict'.owed[i]
  <2>1. ASSUME NEW i \in Hops, i < settle[c].hop
        PROVE  settledTo'[i] >= settle[c].owed[i]
    <3>1. settledTo[i] >= settle[c].owed[i]
      BY ZenonT(30), <1>1, <2>1 DEF OnTrack
    <3> QED
      BY <1>1, <3>1, SettlingFields DEF RouteInv
  <2> QED
    BY ZenonT(30), <1>3, <2>1
<1>6. verdict'.ok => \A i \in Hops : settledTo'[i] >= verdict'.owed[i]
  BY ZenonT(30), <1>3, <1>4
<1>7. SettledUpToVerdict'
  BY ZenonT(30), <1>5, <1>6 DEF SettledUpToVerdict
<1>8. stored' \in [Hops -> Nat] /\ \A i \in Hops : stored'[i] >= stored[i]
  BY DEF RouteInv
<1>9. verdict'.owed \in [Hops -> Nat]
  BY ZenonT(30), <1>1, <1>3, SettlingFields
<1> QED
  BY ZenonT(30), <1>2, <1>7, <1>8, <1>9, RouteKept

(* RouteInv is inductive.                                                  *)
LEMMA RouteStep ==
    ASSUME RouteInv, [RouteNext]_routeVars
    PROVE  RouteInv'
<1>0. \A c \in Settlers : settle[c] # NoCall =>
         settle[c] \in Settling /\ OnTrack(settle[c], stored, settledTo)
  BY ZenonT(30) DEF RouteInv
<1>a. /\ stored \in [Hops -> Nat] /\ settledTo \in [Hops -> Nat]
      /\ \A i \in Hops : stored[i] >= stored[i] /\ settledTo[i] >= settledTo[i]
  BY DEF RouteInv
<1>1. CASE UNCHANGED routeVars
  BY ZenonT(30), <1>1 DEF routeVars, RouteInv, SettledUpToVerdict
<1>2. CASE ApprovalForRoute
  BY ZenonT(30), <1>2 DEF ApprovalForRoute, RouteInv, SettledUpToVerdict
<1>3. ASSUME NEW i \in Hops, RecordReceipt(i)
      PROVE  RouteInv'
  <2>1. /\ stored' \in [Hops -> Nat]
        /\ \A j \in Hops : stored'[j] >= stored[j]
        /\ UNCHANGED <<settledTo, settle, verdict>>
    BY <1>3, <1>a DEF RecordReceipt
  <2>2. \A c \in Settlers : settle[c] # NoCall => OnTrack(settle[c], stored', settledTo)
    BY ZenonT(30), <1>0, <1>a, <2>1, StaysOnTrack
  <2> QED
    BY ZenonT(30), <2>1, <2>2 DEF RouteInv, SettledUpToVerdict
<1>4. ASSUME NEW c \in Settlers, SettleRoute(c)
      PROVE  RouteInv'
  <2> DEFINE r == [pc |-> "take", hop |-> 1, upTo |-> 0, owed |-> stored]
  <2>1. r \in Settling /\ r.hop = 1 /\ r.owed = stored /\ r.pc = "take"
    BY ZenonT(30), <1>a, RouteLength DEF Settling
  <2>2. settle' = [settle EXCEPT ![c] = r] /\ UNCHANGED <<stored, settledTo, verdict>>
    BY ZenonT(30), <1>4 DEF SettleRoute
  <2> HIDE DEF r
  <2>3. OnTrack(r, stored', settledTo')
    BY <1>a, <2>1, <2>2, RouteLength DEF OnTrack, Hops
  <2>4. verdict'.owed \in [Hops -> Nat] /\ SettledUpToVerdict'
    BY ZenonT(30), <1>a, <2>2, VerdictKept
  <2>5. r \in {NoCall} \cup Settling /\ stored' \in [Hops -> Nat] /\ settledTo' \in [Hops -> Nat]
        /\ \A i \in Hops : stored'[i] >= stored[i] /\ settledTo'[i] >= settledTo[i]
    BY ZenonT(30), <1>a, <2>1, <2>2
  <2> QED
    BY ZenonT(30), <2>2, <2>3, <2>4, <2>5, RouteKept
<1>5. ASSUME NEW c \in Settlers, Collect(c)
      PROVE  RouteInv'
  <2> DEFINE i == settle[c].hop
             r == [settle[c] EXCEPT !.pc = "submit", !.upTo = stored[i]]
  <2>1. settle[c] # NoCall
    BY <1>5 DEF Collect, NoCall
  <2>2. CASE settledTo[i] >= stored[i]
    <3>1. Return(c, FALSE) /\ UNCHANGED <<stored, settledTo>>
      BY ZenonT(30), <1>5, <2>2 DEF Collect
    <3>2. settledTo' \in [Hops -> Nat] /\ \A j \in Hops : settledTo'[j] >= settledTo[j]
      BY ZenonT(30), <1>a, <3>1
    <3> QED
      BY ZenonT(30), <2>1, <3>1, <3>2, ReturnKept
  <2>3. CASE ~(settledTo[i] >= stored[i])
    <3>1. settle' = [settle EXCEPT ![c] = r] /\ UNCHANGED <<stored, settledTo, verdict>>
      BY ZenonT(30), <1>5, <2>3 DEF Collect
    <3>2. /\ r \in Settling /\ r.hop = settle[c].hop /\ r.owed = settle[c].owed
          /\ r.upTo = stored[r.hop]
      BY ZenonT(30), <1>0, <1>a, <2>1 DEF Settling
    <3> HIDE DEF r, i
    <3>3. OnTrack(r, stored', settledTo')
      BY ZenonT(30), <1>0, <2>1, <3>1, <3>2, SettlingFields DEF OnTrack
    <3>4. verdict'.owed \in [Hops -> Nat] /\ SettledUpToVerdict'
      BY ZenonT(30), <1>a, <3>1, VerdictKept
    <3>5. r \in {NoCall} \cup Settling /\ stored' \in [Hops -> Nat] /\ settledTo' \in [Hops -> Nat]
          /\ \A j \in Hops : stored'[j] >= stored[j] /\ settledTo'[j] >= settledTo[j]
      BY ZenonT(30), <1>a, <3>1, <3>2
    <3> QED
      BY ZenonT(30), <3>1, <3>3, <3>4, <3>5, RouteKept
  <2> QED
    BY ZenonT(30), <2>2, <2>3
<1>6. ASSUME NEW c \in Settlers, Submit(c)
      PROVE  RouteInv'
  <2> DEFINE i == settle[c].hop
             r == [settle[c] EXCEPT !.pc = "take", !.hop = @ + 1]
  <2>1. settle[c] # NoCall /\ settle[c].pc = "submit" /\ UNCHANGED stored
    BY <1>6 DEF Submit, NoCall
  <2>2. CASE Return(c, FALSE) /\ UNCHANGED settledTo
    <3>1. settledTo' \in [Hops -> Nat] /\ \A j \in Hops : settledTo'[j] >= settledTo[j]
      BY ZenonT(30), <1>a, <2>2
    <3> QED
      BY ZenonT(30), <2>1, <2>2, <3>1, ReturnKept
  <2>3. CASE /\ settledTo' = [settledTo EXCEPT ![i] = IF @ < settle[c].upTo
                                                     THEN settle[c].upTo ELSE @]
             /\ Proceed(c)
    <3>0. /\ i \in Hops /\ settle[c].upTo \in Nat /\ \A j \in Hops : settle[c].owed[j] \in Nat
          /\ settle[c].upTo >= settle[c].owed[i]
          /\ \A j \in Hops : j < i => settledTo[j] >= settle[c].owed[j]
          /\ \A j \in Hops : settle[c].owed[j] <= stored[j]
      BY ZenonT(30), <1>0, <2>1, SettlingFields DEF OnTrack
    <3>1. /\ settledTo' \in [Hops -> Nat] /\ settledTo'[i] >= settle[c].upTo
          /\ \A j \in Hops : settledTo'[j] >= settledTo[j]
      BY <1>a, <2>3, <3>0
    <3>2. ASSUME NEW j \in Hops, j <= i
          PROVE  settledTo'[j] >= settle[c].owed[j]
      <4>1. CASE j = i
        BY <3>0, <3>1, <4>1
      <4>2. CASE j < i
        BY <1>a, <3>0, <3>1, <4>2
      <4>3. i \in Nat /\ j \in Nat
        BY ONLY <3>0, RouteLength, j \in Hops
      <4>4. j = i \/ j < i
        BY ONLY <3>2, <4>3
      <4> QED
        BY ONLY <4>1, <4>2, <4>4
    <3>3. CASE i = Len(Route)
      <4>1. \A j \in Hops : settledTo'[j] >= settle[c].owed[j]
        <5>1. \A j \in Hops : j <= i
          BY <3>3, RouteLength DEF Hops
        <5> QED
          BY ZenonT(30), <3>2, <5>1
      <4>2. Return(c, TRUE)
        BY ZenonT(30), <2>3, <3>3 DEF Proceed
      <4> QED
        BY ZenonT(30), <2>1, <3>1, <4>1, <4>2, ReturnKept
    <3>4. CASE i # Len(Route)
      <4>1. settle' = [settle EXCEPT ![c] = r] /\ UNCHANGED verdict
        BY ZenonT(30), <2>3, <3>4 DEF Proceed
      <4>2. i + 1 \in Hops
        BY <3>0, <3>4, RouteLength DEF Hops
      <4>3. r \in Settling /\ r.hop = i + 1 /\ r.owed = settle[c].owed /\ r.pc = "take"
        BY ZenonT(30), <1>0, <2>1, <4>2 DEF Settling
      <4> HIDE DEF r, i
      <4>4. \A j \in Hops : j < i + 1 => settledTo'[j] >= settle[c].owed[j]
        BY <3>0, <3>2, RouteLength
      <4>5. OnTrack(r, stored', settledTo')
        BY ZenonT(30), <2>1, <3>0, <4>3, <4>4 DEF OnTrack
      <4>6. verdict'.owed \in [Hops -> Nat] /\ SettledUpToVerdict'
        BY ZenonT(30), <3>1, <4>1, VerdictKept
      <4>7. r \in {NoCall} \cup Settling /\ stored' \in [Hops -> Nat]
            /\ \A j \in Hops : stored'[j] >= stored[j] /\ settledTo'[j] >= settledTo[j]
        BY ZenonT(30), <1>a, <2>1, <3>1, <4>3
      <4> QED
        BY ZenonT(30), <3>1, <4>1, <4>5, <4>6, <4>7, RouteKept
    <3> QED
      BY ZenonT(30), <3>3, <3>4
  <2> QED
    BY ZenonT(30), <1>6, <2>2, <2>3 DEF Submit
<1> QED
  BY ZenonT(30), <1>1, <1>2, <1>3, <1>4, <1>5, <1>6 DEF RouteNext

(* SettleRoute: for every route, however many calls are under way and      *)
(* receipts come in, a call that returns no error has settled all that the *)
(* circuit owed when it began, and one that stops at a hop has settled the *)
(* hops before it.                                                         *)
THEOREM RouteSettledToTheVerdict == RouteSpec => []SettledUpToVerdict
<1>1. RouteInit => RouteInv
  BY RouteLength DEF RouteInit, RouteInv, SettledUpToVerdict, NoVerdict, NoCall
<1>2. RouteInv /\ [RouteNext]_routeVars => RouteInv'
  BY ZenonT(30), RouteStep
<1>3. RouteInv => SettledUpToVerdict
  BY ZenonT(30) DEF RouteInv
<1> QED
  BY <1>1, <1>2, <1>3, PTL DEF RouteSpec
=============================================================================
