--------------------------- MODULE RouteSettlement --------------------------
(***************************************************************************)
(* Paying for a circuit (internal/payments/multihop.go): ApprovalForRoute  *)
(* quotes the whole path once, SettleRoute then settles hop by hop through *)
(* Service.RecordSettlement and stops at the first hop that fails, also at *)
(* one that has nothing to settle.  Receipts arrive meanwhile and several  *)
(* calls may be under way.  RecordSettlement itself is the subject of      *)
(* Settlement; here a batch either goes through or does not.               *)
(***************************************************************************)
EXTENDS Naturals, Sequences, FiniteSets

CONSTANTS
    Settlers,       \* goroutines that may call SettleRoute
    Route,          \* the hops of the circuit, entry first
    HourPrice,      \* price per hour of each hop, in order
    Deposit,        \* what the user may offer
    MaxReceipts     \* bound: receipts per hop

Hops == 1..Len(Route)

ASSUME RouteAssumption ==
    /\ Len(Route) > 0 /\ DOMAIN HourPrice = Hops
    /\ \A i, j \in Hops : Route[i] = Route[j] => i = j

VARIABLES
    approved,   \* the deposit on the approved dialog; 0 before there is one
    stored,     \* receipts stored for each hop so far
    settledTo,  \* per hop, how many of them are marked settled
    settle,     \* the SettleRoute call of each goroutine
    verdict     \* what the last call returned, with its view of the start

routeVars == <<approved, stored, settledTo, settle, verdict>>

NoCall == [pc |-> "idle"]
NoVerdict == [ok |-> FALSE, hop |-> 1, owed |-> [i \in Hops |-> 0]]

RouteInit ==
    /\ approved = 0
    /\ stored = [i \in Hops |-> 0] /\ settledTo = [i \in Hops |-> 0]
    /\ settle = [c \in Settlers |-> NoCall] /\ verdict = NoVerdict

(* TotalPricePerHour of the first i hops.                                  *)
Total[i \in 0..Len(Route)] == IF i = 0 THEN 0 ELSE Total[i - 1] + HourPrice[i]

(* One hour of the circuit is quoted; a deposit below it is refused.       *)
ApprovalForRoute ==
    /\ approved = 0
    /\ \E d \in Deposit : d >= Total[Len(Route)] /\ approved' = d
    /\ UNCHANGED <<stored, settledTo, settle, verdict>>

RecordReceipt(i) ==
    /\ approved > 0
    /\ stored[i] < MaxReceipts /\ stored' = [stored EXCEPT ![i] = @ + 1]
    /\ UNCHANGED <<approved, settledTo, settle, verdict>>

SettleRoute(c) ==
    /\ approved > 0 /\ settle[c] = NoCall
    /\ settle' = [settle EXCEPT ![c] = [pc |-> "take", hop |-> 1, upTo |-> 0,
                                        owed |-> stored]]
    /\ UNCHANGED <<approved, stored, settledTo, verdict>>

Return(c, ok) ==
    /\ verdict' = [ok |-> ok, hop |-> settle[c].hop, owed |-> settle[c].owed]
    /\ settle' = [settle EXCEPT ![c] = NoCall]

Proceed(c) ==
    IF settle[c].hop = Len(Route)
    THEN Return(c, TRUE)
    ELSE settle' = [settle EXCEPT ![c].pc = "take", ![c].hop = @ + 1] /\ UNCHANGED verdict

(* RecordSettlement collects what the hop has unsettled: nothing is an     *)
(* error.                                                                  *)
Collect(c) ==
    LET i == settle[c].hop
    IN  /\ settle[c].pc = "take"
        /\ IF settledTo[i] >= stored[i]
           THEN Return(c, FALSE)
           ELSE /\ settle' = [settle EXCEPT ![c].pc = "submit", ![c].upTo = stored[i]]
                /\ UNCHANGED verdict
        /\ UNCHANGED <<approved, stored, settledTo>>

(* Mutant: a hop that fails is skipped.                                    *)
SubmitOrSkip(c) ==
    LET i == settle[c].hop
    IN  /\ settle[c].pc = "submit"
        /\ \/ settledTo' = [settledTo EXCEPT ![i] = IF @ < settle[c].upTo
                                                    THEN settle[c].upTo ELSE @]
           \/ UNCHANGED settledTo
        /\ Proceed(c)
        /\ UNCHANGED <<approved, stored>>

(* The batch goes through and its receipts are marked, or the wallet       *)
(* fails and the call returns.                                             *)
Submit(c) ==
    LET i == settle[c].hop
    IN  /\ settle[c].pc = "submit"
        /\ \/ /\ settledTo' = [settledTo EXCEPT ![i] = IF @ < settle[c].upTo
                                                       THEN settle[c].upTo ELSE @]
              /\ Proceed(c)
           \/ Return(c, FALSE) /\ UNCHANGED settledTo
        /\ UNCHANGED <<approved, stored>>

RouteNext ==
    \/ ApprovalForRoute \/ \E i \in Hops : RecordReceipt(i)
    \/ \E c \in Settlers : SettleRoute(c) \/ Collect(c) \/ Submit(c)

RouteSpec == RouteInit /\ [][RouteNext]_routeVars

-----------------------------------------------------------------------------
(***************************************************************************)
(* Properties.                                                             *)
(***************************************************************************)

(* SettleRoute (multihop.go 83-92): a call that returns no error has       *)
(* settled every receipt the route had when it began; one that stops at a  *)
(* hop has settled those of all the hops before it, whatever other calls   *)
(* and receipts came in between.                                           *)
SettledUpToVerdict ==
    \A i \in Hops :
        i < verdict.hop \/ verdict.ok => settledTo[i] >= verdict.owed[i]
=============================================================================
