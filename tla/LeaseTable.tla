----------------------------- MODULE LeaseTable -----------------------------
(***************************************************************************)
(* What a node promises about addresses, as one table that is changed in   *)
(* one step: a client has at most one address, an address at most one      *)
(* client, and an address that an earlier process of the node handed out,  *)
(* and whose client may still be using it, goes to nobody.  NodeAccess     *)
(* implements it with five parts that each have a lock of their own.       *)
(***************************************************************************)
CONSTANTS Clients, Addresses, None

VARIABLES
    lease,     \* the address of each client, or None
    kept       \* addresses of clients of earlier processes

tableVars == <<lease, kept>>

Init == lease = [c \in Clients |-> None] /\ kept = {}

(* A client is given an address; one it had before is no longer its own.   *)
Grant(c, a) ==
    /\ a \notin kept /\ \A d \in Clients : lease[d] # a
    /\ lease' = [lease EXCEPT ![c] = a]
    /\ UNCHANGED kept

(* Some clients are gone.                                                  *)
End(C) ==
    /\ lease' = [c \in Clients |-> IF c \in C THEN None ELSE lease[c]]
    /\ UNCHANGED kept

(* The node starts again.                                                  *)
Reboot(K) == lease' = [c \in Clients |-> None] /\ kept' = K

Next ==
    \/ \E c \in Clients, a \in Addresses : Grant(c, a)
    \/ \E C \in SUBSET Clients : End(C)
    \/ \E K \in SUBSET Addresses : Reboot(K)

Spec == Init /\ [][Next]_tableVars
=============================================================================
