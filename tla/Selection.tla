------------------------------ MODULE Selection -----------------------------
(***************************************************************************)
(* Choosing a node (Store.Select, internal/registry/select.go) from what   *)
(* the registry advertises, what was measured of the nodes and what the    *)
(* client remembers of them (HistoryScore, internal/reputation/score.go).  *)
(* A behaviour exercises the registry; or the reputation and with it the   *)
(* choice among the nodes of a registry that was loaded; or the choice the *)
(* application makes by itself (module AutoSelect).                        *)
(***************************************************************************)
EXTENDS Registry, Reputation, AutoSelect, Integers, FiniteSetsExt

CONSTANTS
    Wishes,         \* what a user may ask for: a region or None, a price or 0
    Stats,          \* NodeStats that may be measured of a node
    NoStats,        \* nothing was
    Region,         \* region of each node
    Before          \* place of each node id in the order of names

ASSUME SelectionAssumption == Rated = NodeIds /\ NoStats \notin Stats

VARIABLES
    criteria,       \* Criteria.Region and .MaxPricePerHour
    measured,       \* Criteria.Stats
    work            \* what the behaviour exercises

selectionVars == <<criteria, measured, work>>

(* Files to start from: where the registry changes by itself, one or no    *)
(* entry for all nodes is enough.                                          *)
Loaded ==
    {Empty} \cup IF work = "registry" THEN {[n \in NodeIds |-> e] : e \in Entries}
                 ELSE [NodeIds -> Entries]

Init ==
    /\ ReputationInit
    /\ \/ /\ work \in {"registry", "auto"}
          /\ criteria = [region |-> None, maxPrice |-> 0]
          /\ measured = [n \in NodeIds |-> NoStats]
       \/ /\ work = "selection"
          /\ criteria \in Wishes /\ measured \in [NodeIds -> Stats \cup {NoStats}]
    /\ IF work = "auto"
       THEN NewStore(Empty) /\ AutoInit
       ELSE AutoIdle /\ \E file \in Loaded : NewStore(file)

Next ==
    /\ UNCHANGED selectionVars
    /\ \/ work = "registry" /\ RegistryNext /\ UNCHANGED <<reputationVars, autoVars>>
       \/ work = "selection" /\ ReputationNext /\ UNCHANGED <<registryVars, autoVars>>
       \/ work = "auto" /\ AutoNext /\ UNCHANGED <<registryVars, reputationVars>>

Spec == Init /\ [][Next]_<<registryVars, reputationVars, autoVars, selectionVars>>

(***************************************************************************)
(* Store.Select.                                                           *)
(***************************************************************************)
Active == {n \in NodeIds : nodes[n] # None /\ nodes[n].status = "active"}

Candidates ==
    {n \in Active : /\ criteria.region \in {None, Region[n]}
                    /\ criteria.maxPrice > 0 => nodes[n].price <= criteria.maxPrice}

Price == [n \in Candidates |-> nodes[n].price]

(* An unknown latency counts as zero in the range.                         *)
latOf ==
    [n \in Candidates |-> IF measured[n] = NoStats THEN 0 ELSE measured[n].latency]

norm(f, n) ==
    LET lo == Min({f[m] : m \in Candidates})
        hi == Max({f[m] : m \in Candidates})
    IN  IF hi = lo THEN 0 ELSE ((f[n] - lo) * Unit) \div (hi - lo)

(* Neutral only when there are stats without a latency.                    *)
Lat(n) ==
    IF measured[n] # NoStats /\ measured[n].latency = 0 THEN Unit \div 2 ELSE norm(latOf, n)

Load01(n) ==
    IF measured[n] # NoStats /\ measured[n].load \in 0..Unit THEN measured[n].load ELSE Unit \div 2

Up01(n) ==
    IF measured[n] # NoStats /\ measured[n].uptime \in 0..Unit
    THEN measured[n].uptime ELSE Unit \div 2

(* HistoryLike.Score; in hundredths of a Unit, as the score is.            *)
HistoryScore(n) == ReputationScore(n)

(* Mutant: a good history counts against a node.                           *)
CostHistory(n) ==
    100 * (30 * norm(Price, n) + 30 * Lat(n) + 15 * Load01(n) + 15 * (Unit - Up01(n)))
    + 10 * HistoryScore(n)

(* The weighted sum that is sorted by, lowest first.                       *)
Cost(n) ==
    100 * (30 * norm(Price, n) + 30 * Lat(n) + 15 * Load01(n) + 15 * (Unit - Up01(n)))
    - 10 * HistoryScore(n)

Ahead(n, m) ==
    \/ Cost(n) < Cost(m)
    \/ Cost(n) = Cost(m) /\ Price[n] < Price[m]
    \/ Cost(n) = Cost(m) /\ Price[n] = Price[m] /\ Before[n] < Before[m]

Select == CHOOSE n \in Candidates : \A m \in Candidates \ {n} : Ahead(n, m)

-----------------------------------------------------------------------------
(***************************************************************************)
(* Properties.                                                             *)
(***************************************************************************)

(* What can be compared of two nodes: both were measured, or neither.      *)
Comparable(n, m) ==
    \/ measured[n] = NoStats /\ measured[m] = NoStats
    \/ /\ NoStats \notin {measured[n], measured[m]}
       /\ measured[n].latency > 0 /\ measured[m].latency > 0

NoWorse(m, n) ==
    /\ Price[m] <= Price[n] /\ ReputationScore(m) >= ReputationScore(n)
    /\ measured[n] # NoStats => /\ measured[m].latency <= measured[n].latency
                                /\ measured[m].load <= measured[n].load
                                /\ measured[m].uptime >= measured[n].uptime

(* Select (registry/select.go 76-167): the node chosen is not dominated:   *)
(* no other candidate that can be compared with it is at least as cheap,   *)
(* as fast, as little loaded, as available and as well reputed and better  *)
(* in one of these; in particular a node with a proof against it never     *)
(* wins against an equal without one.  Nor is a node that Select and score *)
(* of the application (app/select.go 23-95) may choose.                    *)
ChoiceUndominated ==
    /\ LET s == Select
       IN  \A m \in Candidates : Comparable(s, m) /\ NoWorse(m, s) => NoWorse(s, m)
    /\ AutoUndominated
=============================================================================
