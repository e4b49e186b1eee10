---------------------------- MODULE MCNodeAccess ----------------------------
(* Instances of NodeAccess: one client with one token, and one that keeps  *)
(* its key when it comes back with a new token.                            *)
EXTENDS NodeAccess, TLC

CONSTANTS h1, h2, t1, t2, k1

OneHandler == {h1}
TwoHandlers == {h1, h2}
OneRequest == {<<t1, k1>>}
SameKey == {<<t1, k1>>, <<t2, k1>>}

Symmetry == Permutations(TwoHandlers)
=============================================================================
