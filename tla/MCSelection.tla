----------------------------- MODULE MCSelection ----------------------------
(***************************************************************************)
(* Two nodes in two regions, two operators and two goroutines; a node was  *)
(* not measured, or answered without a latency, or was found close, with   *)
(* one other measure worse, or far.  For the application's choice two      *)
(* nodes may differ in one thing alone (load, price, bond), a bond exceeds *)
(* what counts of it, and a node fails.                                    *)
(***************************************************************************)
EXTENDS Selection, TLC

CONSTANTS a, b, o1, o2, w1, w2
TwoNodes == {a, b}
TwoOperators == {o1, o2}
TwoWriters == {w1, w2}
St(l, d, u) == [latency |-> l, load |-> d, uptime |-> u]
Measurements == {St(1, 6, 12), St(1, 6, 0), St(1, 0, 12), St(2, 6, 0), St(0, 0, 12)}
TwoRegions == a :> "eu" @@ b :> "us"
SomeWishes == {[region |-> None, maxPrice |-> 0], [region |-> "us", maxPrice |-> 1]}
ByName == a :> 1 @@ b :> 2
Fact(r, p, l, d, f) ==
    [region |-> r, price |-> p, load |-> l, bond |-> d, active |-> TRUE, fails |-> f]
SixFacts == {Fact("eu", 0, 2, 0, 0), Fact("eu", 0, 0, 0, 0), Fact("eu", 2, 0, 0, 0),
             Fact("eu", 2, 0, 4, 0), Fact("us", 2, 0, 6, 0), Fact("us", 0, 0, 0, 5)}
Policies == {"FASTEST", "LOWEST_LOAD", "LOWEST_PRICE", "PRIVACY", "SPECIFIC_REGION"}
FivePolicies == {[policy |-> p, region |-> "eu"] : p \in Policies}
Interchangeable == Permutations(TwoOperators) \cup Permutations(TwoWriters)
=============================================================================
