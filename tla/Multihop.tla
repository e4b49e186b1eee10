------------------------------ MODULE Multihop ------------------------------
(***************************************************************************)
(* internal/multihop as its owner drives it: the latency aggregator picks  *)
(* a path (latency.go), and the owner either hands the circuit to a        *)
(* Rotator (module Rotator) or keeps it as a Route with a sticky guard and *)
(* one token per hop (route.go, guards.go, tokens.go).  The owner is not   *)
(* part of the repository; it calls as the package's tests do.             *)
(***************************************************************************)
EXTENDS Routes, SequencesExt

CONSTANTS
    Callers, MaxRotations,      \* of the Rotator
    Pool,       \* the nodes in the order in which the provider lists them
    Penalty,    \* the part of a node's score that is not latency
    Samples,    \* the round trips that are observed
    MaxSamples, \* bound on their number
    MaxRoutes,  \* bound on the routes built
    None

VARIABLES
    ewma,       \* Aggregator.ewma, None before the first sample
    samples,    \* the number of samples so far
    picked,     \* what SelectRoute was asked and answered, or None
    mode,       \* who drives the path: nobody yet, a Rotator, or a Route
    route,      \* the Route: its id, its hops, EntryPinned
    guard,      \* the GuardSet: the sticky entry, or None when not pinned
    tokens,     \* one SessionToken per hop, or none
    current, history, rotating, plane, late   \* the Rotator

aggregator == <<ewma, samples, picked>>
owned == <<route, guard, tokens>>
rotator == <<current, history, rotating, plane, late>>
vars == <<aggregator, mode, owned, rotator>>

R == INSTANCE Rotator

Hop(n) == [node |-> n, price |-> Price[n]]
(* The hops a rotation keeps are rebuilt from their dial data alone.       *)
Kept(h) == [node |-> h.node, price |-> 0]
Path(hops) == [i \in DOMAIN hops |-> hops[i].node]

NoRoute == [id |-> 0, hops |-> <<>>, pinned |-> FALSE]

Init ==
    /\ ewma = [n \in Nodes |-> None] /\ samples = 0 /\ picked = None
    /\ mode = "none"
    /\ route = NoRoute /\ guard = None /\ tokens = <<>>
    /\ current = <<>> /\ plane = <<>> /\ history = <<>> /\ late = FALSE
    /\ rotating = [c \in Callers |-> R!NoRotation]

(***************************************************************************)
(* The aggregator and the selector.                                        *)
(***************************************************************************)

(* alpha = 0.3, in whole milliseconds.                                     *)
Observe(n, rtt) ==
    /\ mode = "none" /\ picked = None /\ samples < MaxSamples
    /\ ewma' = [ewma EXCEPT ![n] = IF @ = None THEN rtt ELSE (3 * rtt + 7 * @) \div 10]
    /\ samples' = samples + 1
    /\ UNCHANGED <<picked, mode, owned, rotator>>

Score(n) == (IF ewma[n] = None THEN 500 ELSE ewma[n]) + Penalty[n]
FastKey(n) == IF ewma[n] # None THEN ewma[n]
              ELSE IF Latency[n] = 0 THEN 500 ELSE Latency[n]

(* A stable sort: equal keys keep the order of the pool.                   *)
Rank(cands, tradeoff) ==
    LET Before(i, j) ==
            LET a == IF tradeoff = "fast" THEN FastKey(cands[i]) ELSE Score(cands[i])
                b == IF tradeoff = "fast" THEN FastKey(cands[j]) ELSE Score(cands[j])
            IN  a < b \/ (a = b /\ i < j)
        order == SortSeq([i \in DOMAIN cands |-> i], Before)
    IN  [i \in DOMAIN cands |-> cands[order[i]]]

(* The nodes SelectRoute considers: the budget is dropped when it leaves   *)
(* nothing.                                                                *)
Eligible(cands, tradeoff) ==
    LET valid == SelectSeq(cands, Validate)
        cheap == SelectSeq(valid, LAMBDA n : Within(n, Budget(tradeoff)))
    IN  IF cheap = <<>> THEN valid ELSE cheap

(* One pass of the greedy loop; diverse: skip a country already on the     *)
(* path.                                                                   *)
Pass(path, ranked, max, diverse) ==
    FoldLeft(LAMBDA p, n :
                IF /\ Len(p) < max
                   /\ checkDistinct(Append(p, n))
                   /\ ~(diverse /\ \E i \in DOMAIN p :
                            Country[n] # Blank /\ Country[p[i]] = Country[n])
                THEN Append(p, n) ELSE p,
             path, ranked)

(* Mutant: the second pass of the safe mode is left out.                   *)
SelectRouteOnce(cands, max, tradeoff) ==
    LET ranked == Rank(Eligible(cands, tradeoff), tradeoff)
    IN  Pass(<<>>, ranked, max, tradeoff = "safe")

SelectRoute(cands, max, tradeoff) ==
    LET ranked == Rank(Eligible(cands, tradeoff), tradeoff)
        first == Pass(<<>>, ranked, max, tradeoff = "safe")
    IN  Pass(first, ranked, max, FALSE)

Select(S, max, tradeoff) ==
    LET cands == SelectSeq(Pool, LAMBDA n : n \in S)
    IN  /\ mode = "none" /\ picked = None
        /\ Eligible(cands, tradeoff) # <<>>
        /\ picked' = [cands |-> cands, max |-> max, tradeoff |-> tradeoff,
                      path |-> SelectRoute(cands, max, tradeoff)]
        /\ UNCHANGED <<ewma, samples, mode, owned, rotator>>

(***************************************************************************)
(* The path goes to a Rotator ...                                          *)
(***************************************************************************)
StartRotator ==
    /\ mode = "none" /\ picked # None
    /\ BuildCircuit(picked.path) /\ Verify(picked.path)
    /\ mode' = "rotator"
    /\ current' = picked.path /\ plane' = Chain(picked.path)
    /\ ewma' = [n \in Nodes |-> None] /\ samples' = 0 /\ picked' = None
    /\ UNCHANGED <<owned, history, rotating, late>>

Rotate == mode = "rotator" /\ R!Next /\ UNCHANGED <<aggregator, mode, owned>>

(***************************************************************************)
(* ... or becomes a Route: BuildRoute, PinGuard, IssueTokens.              *)
(***************************************************************************)
Token(r, i) == [route |-> r.id, node |-> r.hops[i].node, role |-> hopRoles(Len(r.hops))[i]]

Scoped(t, id, n, role) == t.route = id /\ t.node = n /\ t.role = role

IssueTokens(r) == [i \in DOMAIN r.hops |-> Token(r, i)]

(* Mutant: a re-issued token always has the scope of an exit.              *)
ReissueAsExit(r) == [Token(r, Len(r.hops)) EXCEPT !.role = "exit"]
ReissueExitToken(r) == Token(r, Len(r.hops))

(* The id of the route that BuildGuarded makes; a rotation makes a new one.*)
FirstRoute == 1
NewRoute(hops, pinned) == [id |-> route.id + 1, hops |-> hops, pinned |-> pinned]

BuildGuarded ==
    /\ mode = "none" /\ picked # None
    /\ BuildRoute(picked.path, DefaultOptions)
    /\ LET r == NewRoute([i \in DOMAIN picked.path |-> Hop(picked.path[i])], FALSE)
       IN  route' = r /\ tokens' = IssueTokens(r) /\ guard' = Entry(picked.path)
    /\ mode' = "route"
    /\ ewma' = [n \in Nodes |-> None] /\ samples' = 0 /\ picked' = None
    /\ UNCHANGED rotator

(* Route.RotateExit and Route.RotateDownstream: the hops they make.  A     *)
(* single hop is replaced, and the new one is not pinned.                  *)
RotatedExit(r, n) == [i \in DOMAIN r.hops |->
                        IF i < Len(r.hops) THEN Kept(r.hops[i]) ELSE Hop(n)]
RotatedDownstream(r, m, n) == <<Kept(r.hops[1]), Hop(m), Hop(n)>>

Rebuilt(hops, pinned) ==
    /\ route.id < MaxRoutes
    /\ BuildRoute(Path(hops), DefaultOptions)
    /\ route' = NewRoute(hops, pinned)

(* The caller swaps the exit's token into the set it stores, and no other: *)
(* the tokens of the hops that were kept stay those of the route for which *)
(* they were issued.                                                       *)
Swapped(stored, r) ==
    IF stored = <<>> THEN <<>> ELSE [stored EXCEPT ![Len(stored)] = ReissueExitToken(r)]

(* RotateExit by hand.                                                     *)
RotateExit(n) ==
    /\ mode = "route"
    /\ Rebuilt(RotatedExit(route, n), Len(route.hops) > 1)
    /\ tokens' = Swapped(tokens, route')
    /\ UNCHANGED <<aggregator, mode, guard, rotator>>

(* Mutant: the guard is looked for at the exit.                            *)
GuardsExit == guard # None /\ guard = route.hops[Len(route.hops)].node
Guards == guard # None /\ guard = route.hops[1].node

(* RotateGuarded; pick may return any node it is offered.  Where more than *)
(* the exit changes, no function of the package renews the set of tokens,  *)
(* and the model follows it no further.                                    *)
Offered(taken) == {n \in Nodes : Validate(n)} \ taken
RotateGuarded ==
    /\ mode = "route"
    /\ LET hops == route.hops
           taken == {hops[i].node : i \in DOMAIN hops}
       IN  \/ Guards /\ Len(hops) < 3
              /\ \E n \in Offered(taken) : Rebuilt(RotatedExit(route, n), Len(hops) > 1)
              /\ tokens' = Swapped(tokens, route')
           \/ Guards /\ Len(hops) = 3
              /\ \E m \in Offered(taken) : \E n \in Offered(taken \cup {m}) :
                    Rebuilt(RotatedDownstream(route, m, n), TRUE)
              /\ tokens' = <<>>
           \/ ~Guards
              /\ \E p \in [DOMAIN hops -> Offered({})] :
                    Rebuilt([i \in DOMAIN p |-> Hop(p[i])], p[1] = hops[1].node /\ route.pinned)
              /\ tokens' = <<>>
    /\ UNCHANGED <<aggregator, mode, guard, rotator>>

(* What an hour on the route costs, hop by hop.                            *)
QuoteRoute(r) == [i \in DOMAIN r.hops |-> r.hops[i].price]

ResetGuard ==
    /\ mode = "route" /\ guard' = None
    /\ UNCHANGED <<aggregator, mode, route, tokens, rotator>>

PinGuard ==
    /\ mode = "route" /\ guard' = route.hops[1].node
    /\ UNCHANGED <<aggregator, mode, route, tokens, rotator>>

Next ==
    \/ \E n \in Nodes, rtt \in Samples : Observe(n, rtt)
    \/ \E S \in SUBSET Nodes, max \in 1..3, t \in {"fast", "balanced", "safe"} :
          Select(S, max, t)
    \/ StartRotator
    \/ Rotate
    \/ BuildGuarded
    \/ \E n \in Nodes : Validate(n) /\ RotateExit(n)
    \/ RotateGuarded
    \/ ResetGuard
    \/ PinGuard

Spec == Init /\ [][Next]_vars

(***************************************************************************)
(* Properties.                                                             *)
(***************************************************************************)

(* The Rotator's circuit and the Route stay separated, however rotations   *)
(* are ordered (checkDistinct behind every builder), so that Verify does   *)
(* not refuse what is about to be programmed.  The Rotator's log ends at   *)
(* the entry in use, and the data plane carries the current circuit once   *)
(* the callbacks ran, unless one was overtaken.                            *)
CircuitSound ==
    /\ mode = "rotator" => R!CurrentSeparated /\ R!HistoryEndsAtCurrent /\ R!PlaneFollows
    /\ mode = "route" => checkDistinct(Path(route.hops)) /\ RouteVerify(Path(route.hops))

(* A selected path passes BuildRoute, keeps to the number of hops asked    *)
(* for, and no node that was considered could be added to it: the second   *)
(* pass of SelectRoute takes what diversity made the first one skip.       *)
SelectionMaximal ==
    picked # None =>
        /\ BuildRoute(picked.path, DefaultOptions)
        /\ Len(picked.path) <= picked.max
        /\ Len(picked.path) = picked.max \/
              \A n \in ToSet(Eligible(picked.cands, picked.tradeoff)) :
                  ~checkDistinct(Append(picked.path, n))

(* Through any number of exit rotations the stored tokens name the hops of *)
(* the route in order, each with the role of its position; the exit's      *)
(* token is scoped to the route in use (ReissueExitToken), and those of    *)
(* the hops before it still to the route that was built first              *)
(* (IssueTokens): every rotation makes a route with an id of its own, so   *)
(* that Scoped refuses them on it.  A quote never bills more than the      *)
(* prices on the path, and bills the exit in full, whatever was rotated    *)
(* (QuoteRoute, RotateExit).                                               *)
RouteAccounted ==
    mode = "route" =>
        LET quote == QuoteRoute(route)
            last == Len(route.hops)
        IN  /\ tokens # <<>> =>
                  /\ DOMAIN tokens = DOMAIN route.hops
                  /\ \A i \in DOMAIN tokens :
                        Scoped(tokens[i], IF i = last THEN route.id ELSE FirstRoute,
                               route.hops[i].node, hopRoles(last)[i])
            /\ \A i \in 1..last : quote[i] \in {0, Price[route.hops[i].node]}
            /\ quote[last] = Price[route.hops[last].node]

(* While a guard is pinned to a route of two or three hops no rotation     *)
(* moves the entry (RotateGuarded, Route.RotateExit).                      *)
PinnedEntryKept ==
    [][mode = "route" /\ guard = route.hops[1].node /\ Len(route.hops) > 1 =>
          route'.hops[1].node = route.hops[1].node]_vars
=============================================================================
