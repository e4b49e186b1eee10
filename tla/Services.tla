------------------------------ MODULE Services ------------------------------
(***************************************************************************)
(* Paying and keeping out: the prepaid flow and its tokens, the settlement *)
(* of a route, and the abuse guard of a node.  They share no state (the    *)
(* first two are two halves of payments.Service that meet in no field      *)
(* modelled here); a behaviour exercises one of them.                      *)
(***************************************************************************)
EXTENDS Prepaid, RouteSettlement, AbuseGuard

VARIABLE work

Init ==
    /\ work \in {"prepaid", "route", "access", "complaints"}
    /\ PrepaidInit /\ RouteInit /\ GuardInit

Next ==
    /\ UNCHANGED work
    /\ \/ work = "prepaid" /\ PrepaidNext /\ UNCHANGED <<routeVars, guardVars>>
       \/ work = "route" /\ RouteNext /\ UNCHANGED <<prepaidVars, guardVars>>
       \/ work = "access" /\ AccessNext /\ UNCHANGED <<prepaidVars, routeVars>>
       \/ work = "complaints" /\ ComplaintNext /\ UNCHANGED <<prepaidVars, routeVars>>

Spec == Init /\ [][Next]_<<work, prepaidVars, routeVars, guardVars>>
=============================================================================
