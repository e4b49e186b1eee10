----------------------------- MODULE Settlement -----------------------------
(***************************************************************************)
(* Receipts and their settlement: payments.Service (internal/payments/     *)
(* payments.go) in front of the contract.  One node and one session; the   *)
(* wallet, where there is one, is taken to sign as the node's operator.    *)
(* RecordSettlement copies the unsettled receipts under the lock, submits  *)
(* without it, and marks them settled under it again.  The batch id is a   *)
(* hash of the sorted receipt ids, here the set of receipts itself.        *)
(***************************************************************************)
EXTENDS Integers, FiniteSetsExt, Bags, BagsExt

CONSTANTS
    Settlers,      \* goroutines that call RecordSettlement
    Receipts,      \* receipt ids
    Amount,        \* the amount of each receipt
    Deposits,      \* the deposits users make
    MaxInt,        \* math.MaxInt64
    MaxSent,       \* bound on the transactions under way at a time
    Declared,      \* the parameters that the deployed RecordSettlementIdem declares
    Node, Op,      \* the node and its operator
    NoBatch, Nobody, None

ASSUME SettlementAssumption ==
    /\ MaxInt \in Nat
    /\ Amount \in [Receipts -> 0..MaxInt]
    /\ Deposits \subseteq 1..MaxInt
    /\ MaxSent \in Nat

VARIABLES
    chained,       \* Service.wallet # nil and Service.scid # ""
    credit,        \* prepaid[session]: [deposit, spent], or None
    early,         \* history: the credit was there before the first receipt
    recorded,      \* the keys of Service.receipts
    marked,        \* those with Settled = TRUE
    pc, batch,     \* where each settler is, and its copy of the receipts
    tried,         \* history: the receipts of the settlements begun so far
    grown,         \* history: a receipt arrived while a settlement was open
    sent,          \* bag of the batches of transactions that may still reach the chain
    counted,       \* history: how often the contract counted each receipt
    owner, nodes, ret   \* the contract

service == <<credit, early, recorded, marked, tried, grown>>
chain == <<chained, owner, nodes, ret, counted>>
vars == <<service, pc, batch, sent, chain>>

SC == INSTANCE Contract WITH
          Nodes <- {Node}, Signers <- {Op}, Amounts <- 0..MaxInt, Limit <- 2 * (MaxInt + 1),
          Batches <- SUBSET Receipts

Total(R) == MapThenSumSet(LAMBDA r : Amount[r], R)
Unsettled == recorded \ marked

(* The chain gives a call its arguments by name; one that leaves a         *)
(* parameter without a value fails.                                        *)
Arguments == {"node_id", "total", "count", "batch_id"}
Callable == Declared \subseteq Arguments

(* A settlement is running, one of its transactions may still be mined, or *)
(* receipts it failed to settle are waiting for the next.                  *)
SettlementOpen ==
    \/ \E c \in Settlers : pc[c] # "idle"
    \/ sent # EmptyBag
    \/ Unsettled \cap tried # {}

Init ==
    /\ chained \in BOOLEAN
    /\ credit = None /\ early = FALSE
    /\ recorded = {} /\ marked = {} /\ tried = {} /\ grown = FALSE
    /\ pc = [c \in Settlers |-> "idle"]
    /\ batch = [c \in Settlers |-> {}]
    /\ sent = EmptyBag
    /\ counted = [r \in Receipts |-> 0]
    /\ owner = Op
    /\ nodes = [n \in {Node} |-> [SC!Absent EXCEPT !.owner = Op, !.active = TRUE]]
    /\ ret = [op |-> "RegisterNode", node |-> Node, amount |-> 0, code |-> 0]

(* The end of Service.Authorize: the deposit was paid; a credit the        *)
(* session already had is replaced.                                        *)
Fund(d) ==
    /\ credit' = [deposit |-> d, spent |-> 0]
    /\ early' = (recorded = {})
    /\ UNCHANGED <<recorded, marked, tried, grown, pc, batch, sent, chain>>

(* Mutant: receipts not settled yet are not held against the credit.       *)
RecordReceiptIgnoresPending(r) ==
    /\ r \notin recorded
    /\ credit # None => Amount[r] <= credit.deposit - credit.spent
    /\ recorded' = recorded \cup {r}
    /\ grown' = (grown \/ SettlementOpen)
    /\ UNCHANGED <<credit, early, marked, tried, pc, batch, sent, chain>>

(* Signed, not seen before and, when the credit is known, within it.       *)
RecordReceipt(r) ==
    /\ r \notin recorded
    /\ credit # None =>
          /\ Total(Unsettled) <= MaxInt
          /\ Amount[r] <= credit.deposit - credit.spent - Total(Unsettled)
    /\ recorded' = recorded \cup {r}
    /\ grown' = (grown \/ SettlementOpen)
    /\ UNCHANGED <<credit, early, marked, tried, pc, batch, sent, chain>>

(* RecordSettlement up to BuildInvoke; with nothing to settle, or a total  *)
(* beyond an int64, it returns an error and changes nothing.               *)
Collect(c) ==
    /\ pc[c] = "idle"
    /\ Unsettled # {} /\ Total(Unsettled) <= MaxInt
    /\ batch' = [batch EXCEPT ![c] = Unsettled]
    /\ pc' = [pc EXCEPT ![c] = "submit"]
    /\ tried' = tried \cup Unsettled
    /\ UNCHANGED <<credit, early, recorded, marked, grown, sent, chain>>

Broadcast(b) ==
    /\ BagCardinality(sent) < MaxSent
    /\ sent' = BagAdd(sent, b)

(* Without a wallet or a contract the batch is settled locally.            *)
SettleLocally(c) ==
    /\ pc[c] = "submit" /\ ~chained
    /\ pc' = [pc EXCEPT ![c] = "commit"]
    /\ UNCHANGED <<service, batch, sent, chain>>

SubmitAccepted(c) ==
    /\ pc[c] = "submit" /\ chained
    /\ Broadcast(batch[c])
    /\ pc' = [pc EXCEPT ![c] = "commit"]
    /\ UNCHANGED <<service, batch, chain>>

(* Mutant: the error of SubmitInvoke is ignored.                           *)
SubmitFailedIgnored(c) ==
    /\ pc[c] = "submit" /\ chained
    /\ Broadcast(batch[c]) \/ UNCHANGED sent
    /\ pc' = [pc EXCEPT ![c] = "commit"]
    /\ UNCHANGED <<service, batch, chain>>

(* SubmitInvoke returns an error; after a timeout the transaction may be   *)
(* on its way all the same.                                                *)
SubmitFailed(c) ==
    /\ pc[c] = "submit" /\ chained
    /\ Broadcast(batch[c]) \/ UNCHANGED sent
    /\ pc' = [pc EXCEPT ![c] = "idle"]
    /\ batch' = [batch EXCEPT ![c] = {}]
    /\ UNCHANGED <<service, chain>>

(* The spend is attributed from the copy, whoever marked its receipts      *)
(* meanwhile, and capped at the deposit.                                   *)
Commit(c) ==
    /\ pc[c] = "commit"
    /\ marked' = marked \cup batch[c]
    /\ credit' = IF credit = None THEN None
                 ELSE [credit EXCEPT !.spent = Min({@ + Total(batch[c]), credit.deposit})]
    /\ pc' = [pc EXCEPT ![c] = "idle"]
    /\ batch' = [batch EXCEPT ![c] = {}]
    /\ UNCHANGED <<early, recorded, tried, grown, sent, chain>>

(* A transaction is mined.  counted stops at 2.                            *)
Mine(b) ==
    /\ sent' = BagRemove(sent, b)
    /\ IF Callable THEN SC!RecordSettlementIdem(Op, Node, Total(b), Cardinality(b), b)
       ELSE UNCHANGED <<owner, nodes, ret>>
    /\ counted' = IF nodes' = nodes THEN counted
                  ELSE [r \in Receipts |-> IF r \in b THEN Min({counted[r] + 1, 2})
                                           ELSE counted[r]]
    /\ UNCHANGED <<service, chained, pc, batch>>

Next ==
    \/ \E d \in Deposits : Fund(d)
    \/ \E r \in Receipts : RecordReceipt(r)
    \/ \E c \in Settlers : Collect(c)
    \/ \E c \in Settlers : SettleLocally(c)
    \/ \E c \in Settlers : SubmitAccepted(c)
    \/ \E c \in Settlers : SubmitFailed(c)
    \/ \E c \in Settlers : Commit(c)
    \/ \E b \in BagToSet(sent) : Mine(b)

Spec == Init /\ [][Next]_vars
(* What the daemon accepted is mined in the end.                           *)
Mining == \E b \in BagToSet(sent) : Mine(b)
FairSpec == Spec /\ WF_vars(Mining)

(***************************************************************************)
(* Properties.                                                             *)
(***************************************************************************)

(* batchIDFor (payments.go 438-475) and the _lastbatch check of            *)
(* RecordSettlementIdem: however submissions time out, are repeated and    *)
(* are mined late, the contract counts a receipt at most once, unless      *)
(* another receipt arrived while a settlement was open: the retry then has *)
(* another batch id, or the late transaction finds another _lastbatch.     *)
CountedOnce == ~grown => \A r \in Receipts : counted[r] <= 1

(* A credit is never charged beyond its deposit; and one that was there    *)
(* before the first receipt covers every receipt the service accepted, and *)
(* is charged for every one it shows as settled, however settlements       *)
(* overlap (RecordReceipt, RecordSettlement).                              *)
CreditCovers ==
    credit # None =>
        /\ credit.spent <= credit.deposit
        /\ early => Total(marked) <= credit.spent /\ Total(recorded) <= credit.deposit

(* RecordSettlement (payments.go 434-436): with a wallet and a contract,   *)
(* every receipt the service shows as settled is counted by the contract   *)
(* in the end; where receipts arrived while a settlement was open,         *)
(* counting them again may take the contract's total to its limit first.   *)
SettledReachesChain ==
    \A r \in Receipts : (chained /\ r \in marked) ~> (counted[r] > 0 \/ grown)
=============================================================================
