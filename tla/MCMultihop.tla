----------------------------- MODULE MCMultihop -----------------------------
(***************************************************************************)
(* Six nodes: n1 shares its box with n2 and its operator with n3; n5 has   *)
(* no key; n4 and n6 are apart from all.  Two countries.                   *)
(***************************************************************************)
EXTENDS Multihop

CONSTANTS n1, n2, n3, n4, n5, n6, c1, c2
SixNodes == {n1, n2, n3, n4, n5, n6}
TwoCallers == {c1, c2}
PoolOrder == <<n1, n2, n3, n4, n5, n6>>
Of(a, b, c, d, e, f) == [n \in Nodes |-> CASE n = n1 -> a [] n = n2 -> b [] n = n3 -> c
                                        [] n = n4 -> d [] n = n5 -> e [] n = n6 -> f]
Hosts == Of("h1", "h1", "h2", "h3", "h4", "h5")
Keys == Of("k1", "k2", "k1", "k3", Blank, "k5")
Countries == Of("x", "y", "y", "x", Blank, "x")
Prices == Of(1, 2, 3, 4, 5, 2)
Latencies == Of(100, 0, 300, 900, 50, 0)
Penalties == Of(0, 50, 40, 200, 0, 90)
RTTs == {50, 850}
=============================================================================
