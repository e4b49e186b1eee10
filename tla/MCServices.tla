----------------------------- MODULE MCServices -----------------------------
(***************************************************************************)
(* Two callers and two sessions; a circuit of two hops; one peer that      *)
(* presents its address with and without a port; two operator commands.    *)
(***************************************************************************)
EXTENDS Services, TLC

CONSTANTS c1, c2, s1, s2, t1, t2
TwoCallers == {c1, c2}
TwoSessions == {s1, s2}
TwoTools == {t1, t2}
TwoHops == <<"entry", "exit">>
OneEach == <<1, 1>>
Forms == {"10.0.0.9", "10.0.0.9:443"}
OneKey == [a \in Forms |-> "10.0.0.9"]
BothClasses == {"authorize", "mgmt"}
SmallBurst == "authorize" :> 1 @@ "mgmt" :> 2
SmallWindow == "authorize" :> 2 @@ "mgmt" :> 1
Interchangeable ==
    Permutations(TwoCallers) \cup Permutations(TwoSessions) \cup Permutations(TwoTools)
=============================================================================
