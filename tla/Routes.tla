------------------------------- MODULE Routes -------------------------------
(***************************************************************************)
(* Paths through the network as internal/multihop builds them (route.go,   *)
(* circuit.go, tokens.go).  A node is a name with constant attributes; a   *)
(* path is a sequence of nodes, entry first.  A builder either refuses a   *)
(* path or returns it unchanged, so it is modelled by what it accepts.     *)
(***************************************************************************)
EXTENDS Naturals, Sequences

CONSTANTS
    Nodes,      \* node ids
    Host,       \* the host of a node's endpoint
    Key,        \* its WireGuard public key, which stands for its operator
    Country,    \* its country
    Price,      \* its price per hour
    Latency,    \* the round trip its advertisement carries; 0: not measured
    Blank       \* the empty string

ASSUME RoutesAssumption == Price \in [Nodes -> Nat] /\ Latency \in [Nodes -> Nat]

(* NodeInfo.Validate: enough data to dial the node.                        *)
Validate(n) == Host[n] # Blank /\ Key[n] # Blank

Separated(m, n) ==
    /\ m # n
    /\ Host[m] # Host[n]
    /\ Key[m] = Key[n] => Key[m] = Blank

(* No loop, no two hops on one box or of one operator.                     *)
checkDistinct(p) == \A i, j \in DOMAIN p : i < j => Separated(p[i], p[j])

(***************************************************************************)
(* BuildRoute and its options.                                             *)
(***************************************************************************)
DefaultOptions == [maxHops |-> 0, tradeoff |-> "balanced", maxLatency |-> 0,
                   diverse |-> FALSE]

MaxHops(o) == IF o.maxHops \in 1..3 THEN o.maxHops ELSE 3

(* The budget of a trade-off, in milliseconds; 0: no cap.                  *)
Budget(tradeoff) ==
    CASE tradeoff = "fast" -> 150 [] tradeoff = "safe" -> 800 [] OTHER -> 0
BudgetMs(o) == IF o.maxLatency > 0 THEN o.maxLatency ELSE Budget(o.tradeoff)

Within(n, budget) == budget = 0 \/ Latency[n] = 0 \/ Latency[n] <= budget

BuildRoute(p, o) ==
    /\ Len(p) \in 1..MaxHops(o)
    /\ \A i \in DOMAIN p : Validate(p[i]) /\ Within(p[i], BudgetMs(o))
    /\ checkDistinct(p)
    /\ o.diverse => \A i, j \in DOMAIN p :
                       i < j /\ Country[p[i]] = Country[p[j]] => Country[p[i]] = Blank

(* Route.Verify, which the owner of the data plane calls: with a key       *)
(* missing, the keys are not compared at all.                              *)
RouteVerify(p) ==
    /\ Len(p) \in 1..3
    /\ \A i \in DOMAIN p : Host[p[i]] # Blank
    /\ IF \A i \in DOMAIN p : Key[p[i]] # Blank
       THEN checkDistinct(p)
       ELSE \A i, j \in DOMAIN p : i < j => p[i] # p[j] /\ Host[p[i]] # Host[p[j]]

(* BuildSingleHop, BuildTwoHop and BuildThreeHopCircuit, by the number of  *)
(* hops.                                                                   *)
BuildCircuit(p) ==
    /\ Len(p) \in 1..3
    /\ \A i \in DOMAIN p : Validate(p[i])
    /\ checkDistinct(p)

(* Circuit.Verify, which the Rotator asks of what was built.               *)
Verify(p) ==
    /\ Len(p) \in 1..3
    /\ \A i \in DOMAIN p : Validate(p[i])
    /\ Len(p) > 1 => checkDistinct(p)

Entry(p) == p[1]
Exit(p) == p[Len(p)]

(***************************************************************************)
(* Positions of a path.                                                    *)
(***************************************************************************)
hopRoles(n) ==
    IF n = 1 THEN <<"single">>
    ELSE [i \in 1..n |-> IF i = 1 THEN "entry" ELSE IF i = n THEN "exit" ELSE "middle"]

Descriptor(role, n) == [role |-> role, node |-> n]

(* Circuit.Chain: what the application forwards to program the chain.  A   *)
(* single hop is described twice, as "single" and as "exit".               *)
Chain(p) ==
    IF Len(p) = 1 THEN <<Descriptor("single", p[1]), Descriptor("exit", p[1])>>
    ELSE [i \in DOMAIN p |-> Descriptor(hopRoles(Len(p))[i], p[i])]

(* The prefix a rotation keeps, and the path it makes.                     *)
ReplaceExit(p, n) == [p EXCEPT ![Len(p)] = n]
ReplaceEntry(p, n) == [p EXCEPT ![1] = n]
=============================================================================
