--------------------------- MODULE MCTunnelEngine ---------------------------
(* Instances of TunnelEngine for TLC.                                      *)
EXTENDS TunnelEngine, TLC

CONSTANTS c1, c2, d1, d2, ep1, ep2

OneCaller == {c1}
TwoCallers == {c1, c2}
TwoDevices == {d1, d2}
OneEndpoint == {ep1}
TwoEndpoints == {ep1, ep2}
Symmetry == Permutations(TwoCallers) \cup Permutations(TwoDevices)

=============================================================================
