------------------------------ MODULE Contract ------------------------------
(***************************************************************************)
(* The registry and settlement contract (contracts/veilnet.bas).  A call   *)
(* is one transaction: it runs alone, and every function returns 0 or 1.   *)
(* The advertisement blob and _lastcount are stored and never read; they   *)
(* are left out.  Uint64 arithmetic wraps at Limit.                        *)
(***************************************************************************)
EXTENDS Integers, FiniteSets

CONSTANTS
    Nodes,      \* node ids
    Signers,    \* addresses that sign transactions
    Amounts,    \* the Uint64 arguments of calls
    Limit,      \* 2^64
    Batches,    \* batch ids
    NoBatch,    \* the empty string, and an absent _lastbatch
    Nobody      \* an absent owner

ASSUME ContractAssumption ==
    /\ Limit \in Nat \ {0} /\ Amounts \subseteq 0..(Limit - 1)
    /\ NoBatch \notin Batches /\ Nobody \notin Signers

VARIABLES
    owner,      \* "owner", the installer
    nodes,      \* the entries node_<id>_*
    ret         \* the call that ran last and what it returned

vars == <<owner, nodes, ret>>

Absent == [owner |-> Nobody, price |-> 0, bond |-> 0, active |-> FALSE,
           settled |-> 0, lastbatch |-> NoBatch]

Init ==
    /\ owner = Nobody
    /\ nodes = [n \in Nodes |-> Absent]
    /\ ret = [op |-> "none", node |-> Nobody, amount |-> 0, code |-> 0]

Plus(a, b) == (a + b) % Limit

Operator(s, n) == nodes[n].owner # Nobody /\ nodes[n].owner = s
(* The operator, or the installer.  Before Initialize the LOAD of "owner"  *)
(* panics, which fails the call too.                                       *)
Trusted(s, n) == Operator(s, n) \/ (nodes[n].owner # Nobody /\ owner = s)

(* A call of op about n: with the guard ok it stores the entry and returns *)
(* 0, otherwise it returns 1.                                              *)
Transact(op, n, amount, ok, entry) ==
    /\ ret' = [op |-> op, node |-> n, amount |-> amount, code |-> IF ok THEN 0 ELSE 1]
    /\ nodes' = IF ok THEN [nodes EXCEPT ![n] = entry] ELSE nodes
    /\ UNCHANGED owner

Initialize(s) ==
    /\ owner' = IF owner = Nobody THEN s ELSE owner
    /\ ret' = [op |-> "Initialize", node |-> Nobody, amount |-> 0,
               code |-> IF owner = Nobody THEN 0 ELSE 1]
    /\ UNCHANGED nodes

(* Mutant: an id that is taken may be registered again.                    *)
RegisterNodeAgain(s, n, price) ==
    Transact("RegisterNode", n, price, TRUE,
         [nodes[n] EXCEPT !.owner = s, !.price = price, !.active = TRUE])

RegisterNode(s, n, price) ==
    Transact("RegisterNode", n, price, nodes[n].owner = Nobody,
         [nodes[n] EXCEPT !.owner = s, !.price = price, !.active = TRUE])

(* UpdateNode also replaces the blob.                                      *)
UpdateNode(s, n, price) ==
    Transact("UpdateNode", n, price, Operator(s, n), [nodes[n] EXCEPT !.price = price])

SetPrice(s, n, price) ==
    Transact("SetPrice", n, price, Operator(s, n), [nodes[n] EXCEPT !.price = price])

DisableNode(s, n) ==
    Transact("DisableNode", n, 0, Trusted(s, n), [nodes[n] EXCEPT !.active = FALSE])

(* Mutant: the sum may wrap.                                               *)
DepositBondWraps(s, n, amount) ==
    Transact("DepositBond", n, amount, Operator(s, n) /\ amount # 0,
         [nodes[n] EXCEPT !.bond = Plus(nodes[n].bond, amount)])

DepositBond(s, n, amount) ==
    Transact("DepositBond", n, amount,
         /\ Operator(s, n) /\ amount # 0
         /\ Plus(nodes[n].bond, amount) >= nodes[n].bond,
         [nodes[n] EXCEPT !.bond = Plus(nodes[n].bond, amount)])

WithdrawBond(s, n, amount) ==
    Transact("WithdrawBond", n, amount,
         Operator(s, n) /\ nodes[n].bond >= amount /\ amount # 0,
         [nodes[n] EXCEPT !.bond = @ - amount])

(* The legacy settlement call: every call counts.                          *)
RecordSettlement(s, n, total, count) ==
    Transact("RecordSettlement", n, total,
         /\ Trusted(s, n) /\ count # 0
         /\ Plus(nodes[n].settled, total) >= nodes[n].settled,
         [nodes[n] EXCEPT !.settled = Plus(nodes[n].settled, total)])

(* What RecordSettlementIdem accepts, whether it is a repeat of the last   *)
(* batch, and the entry it leaves.                                         *)
IdemRepeat(e, batch) == e.lastbatch = batch
IdemAccepts(e, total, count, batch) ==
    /\ count # 0 /\ batch # NoBatch
    /\ IdemRepeat(e, batch) \/ Plus(e.settled, total) >= e.settled
(* Mutant: a repeated batch counts again.                                  *)
IdemEntryCounts(e, total, batch) ==
    [e EXCEPT !.settled = Plus(e.settled, total), !.lastbatch = batch]

IdemEntry(e, total, batch) ==
    IF IdemRepeat(e, batch) THEN e
    ELSE [e EXCEPT !.settled = Plus(e.settled, total), !.lastbatch = batch]

RecordSettlementIdem(s, n, total, count, batch) ==
    Transact("RecordSettlementIdem", n, total,
         Trusted(s, n) /\ IdemAccepts(nodes[n], total, count, batch),
         IdemEntry(nodes[n], total, batch))

Next ==
    \E s \in Signers :
       \/ Initialize(s)
       \/ \E n \in Nodes : DisableNode(s, n)
       \/ \E n \in Nodes, a \in Amounts : RegisterNode(s, n, a)
       \/ \E n \in Nodes, a \in Amounts : UpdateNode(s, n, a)
       \/ \E n \in Nodes, a \in Amounts : SetPrice(s, n, a)
       \/ \E n \in Nodes, a \in Amounts : DepositBond(s, n, a)
       \/ \E n \in Nodes, a \in Amounts : WithdrawBond(s, n, a)
       \/ \E n \in Nodes, a \in Amounts, c \in 0..1 : RecordSettlement(s, n, a, c)
       \/ \E n \in Nodes, a \in Amounts, c \in 0..1, b \in Batches \cup {NoBatch} :
             RecordSettlementIdem(s, n, a, c, b)

Spec == Init /\ [][Next]_vars

(***************************************************************************)
(* Properties.                                                             *)
(***************************************************************************)
(* A bond or a settled total moves by exactly the amount of the call that  *)
(* succeeded, as integers: no sequence of calls wraps it (DepositBond line *)
(* 35, WithdrawBond line 30, RecordSettlement line 45, Idem line 72).      *)
BooksExact ==
    [][\A n \in Nodes :
         /\ nodes'[n].bond # nodes[n].bond =>
               nodes'[n].bond - nodes[n].bond =
                  IF ret'.op = "DepositBond" THEN ret'.amount ELSE -ret'.amount
         /\ nodes'[n].settled # nodes[n].settled =>
               nodes'[n].settled - nodes[n].settled = ret'.amount]_vars

(* A node belongs to whoever registered it for ever, a disabled node is    *)
(* never active again, and what was settled is never taken back; a node    *)
(* nobody registered has no price, bond, total or batch (RegisterNode line *)
(* 10; no function resets these entries).                                  *)
EntriesPermanent ==
    [][\A n \in Nodes :
         /\ nodes'[n].owner = Nobody => nodes'[n] = Absent
         /\ nodes[n].owner # Nobody =>
               /\ nodes'[n].owner = nodes[n].owner
               /\ nodes'[n].active => nodes[n].active
               /\ nodes'[n].settled >= nodes[n].settled]_vars
=============================================================================
