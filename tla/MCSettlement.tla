---------------------------- MODULE MCSettlement ----------------------------
(* Instances of Settlement: two receipts, deposits that cover both or the  *)
(* larger one.  The parameters are those the documents give the contract   *)
(* (docs/PAYMENTS.md 93, docs/COMPATIBILITY.md 119), or those it declares  *)
(* (contracts/veilnet.bas 126).                                            *)
EXTENDS Settlement, TLC
CONSTANTS c1, c2, r1, r2
TwoSettlers == {c1, c2}
TwoReceipts == {r1, r2}
Amounts == [r \in Receipts |-> IF r = r1 THEN 2 ELSE 1]
SomeDeposits == {2, 3}
AsDocumented == {"node_id", "total", "count", "batch_id"}
AsDeclared == {"nodeID", "total", "count", "batchID"}
=============================================================================
