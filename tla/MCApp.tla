------------------------------- MODULE MCApp -------------------------------
(***************************************************************************)
(* Four nodes, n3 and n4 on one box, n3 in the entry region; two request   *)
(* goroutines, two command line clients, two starts of the service at a    *)
(* time.  The migrations have the statements the code has.  Goroutines,    *)
(* and the nodes n1 and n2, are interchangeable.                           *)
(***************************************************************************)
EXTENDS App, TLC

CONSTANTS n1, n2, n3, n4, h1, h2, c1, c2
FourNodes == {n1, n2, n3, n4}
TwoHandlers == {h1, h2}
TwoClients == {c1, c2}
Of(a, b, c, d) == n1 :> a @@ n2 :> b @@ n3 :> c @@ n4 :> d
Hosts == Of("a", "b", "c", "c")
Keys == Of("k1", "k2", "k3", "k4")
Zero == Of(0, 0, 0, 0)
Near == {n3}
Modes == {"NONE", "RPC"}
Fresh == [wallet |-> "NONE", rest |-> 0]
Interchangeable ==
    Permutations(TwoHandlers) \cup Permutations({n1, n2})

StatementCounts == <<7, 2, 1>>

TwoExits == {"x", "y"}
Fees == "x" :> 0 @@ "y" :> 2
Pings == "x" :> -1 @@ "y" :> 5
Areas == "x" :> "us" @@ "y" :> "eu"
ByName == "x" :> 1 @@ "y" :> 2
Asking(r, m, h, p) == [region |-> r, max |-> m, hours |-> h, paid |-> p]
HostAsks == {Asking("", 0, 0, TRUE), Asking("eu", 2, 2, TRUE), Asking("", 1, 2, TRUE),
             Asking("", 0, 1, FALSE), Asking("", -1, 1, TRUE)}

Shaped(m, b, c, p) == [mode |-> m, buckets |-> b, cell |-> c, interval |-> 1, cap |-> p]
Buckets == <<2, 4>>
ShapingsAsked ==
    {Shaped("OFF", <<>>, 0, <<0, 1>>), Shaped("PAD", <<>>, 0, <<0, 1>>),
     Shaped("PAD", <<1, 3>>, 0, <<0, 1>>), Shaped("PAD", <<3, 1>>, 0, <<0, 1>>),
     Shaped("CONSTANT", <<>>, 3, <<0, 1>>), Shaped("CONSTANT", <<>>, 3, <<1, 2>>),
     Shaped("CONSTANT", <<>>, 2, <<3, 2>>), Shaped("CONSTANT", <<>>, 0, <<0, 1>>)}
=============================================================================
