----------------------------- MODULE AutoSelect -----------------------------
(***************************************************************************)
(* The client's own choice of a node (internal/app/select.go), made of     *)
(* what the provider lists and of the latencies the client measured itself *)
(* and keeps in its database (internal/storage/client.go).  Fractions of   *)
(* one are in parts of Whole, and the score is multiplied out, so that     *)
(* comparing it is exact.                                                  *)
(***************************************************************************)
EXTENDS Integers, SequencesExt

CONSTANTS
    Listed,         \* node ids
    Facts,          \* what the provider may say of a node; bonds in parts of 100 DERO
    Wanted,         \* policy and region the user may configure
    Whole,          \* parts of one; even
    Trusts,         \* trust scores that may be stored
    Limit,          \* how many samples are averaged
    Times,          \* round trips in milliseconds, rounded down
    MaxProbes       \* bound: probes

VARIABLES
    facts,      \* the provider's record of each node
    wanted,     \* cfg.Network.SelectPolicy and cfg.Region
    trust,      \* local_trust
    samples,    \* latency_history of each node, newest first
    probes

autoVars == <<facts, wanted, trust, samples, probes>>

AutoInit ==
    /\ facts \in [Listed -> Facts] /\ wanted \in Wanted
    /\ trust \in [Listed -> Trusts]
    /\ samples = [n \in Listed |-> <<>>] /\ probes = 0

(* A client that does not choose: no node is offered.                      *)
AutoIdle ==
    /\ facts = [n \in Listed |-> [region |-> "", price |-> 0, load |-> 0, bond |-> 0,
                                  active |-> FALSE, fails |-> 0]]
    /\ wanted = [policy |-> "", region |-> ""] /\ trust = [n \in Listed |-> 0]
    /\ samples = [n \in Listed |-> <<>>] /\ probes = 0

(* A new sample, and samples of any node that are too old to keep.         *)
RecordLatency(n, t) ==
    \E kept \in [Listed -> 0..MaxProbes] :
       /\ \A m \in Listed : kept[m] <= Len(samples[m])
       /\ samples' = [m \in Listed |->
             (IF m = n THEN <<t>> ELSE <<>>) \o SubSeq(samples[m], 1, kept[m])]

(* A probe that is answered is recorded.                                   *)
ProbeLatency(n) ==
    /\ probes < MaxProbes /\ probes' = probes + 1
    /\ \E t \in Times : RecordLatency(n, t)
    /\ UNCHANGED <<facts, wanted, trust>>

(* The mean of the latest samples; -1 when there is none.                  *)
AvgLatency(n) ==
    LET last == SubSeq(samples[n], 1, IF Len(samples[n]) < Limit THEN Len(samples[n]) ELSE Limit)
    IN  IF last = <<>> THEN -1 ELSE FoldLeft(+, 0, last) \div Len(last)

(* What ListNodes puts in the provider's records.                          *)
LatencyMs(n) == AvgLatency(n)

AutoNext == \E n \in Listed : ProbeLatency(n)

(***************************************************************************)
(* Select and score.                                                       *)
(***************************************************************************)
AutoCandidates ==
    {n \in Listed : /\ facts[n].active /\ facts[n].fails < 5
                    /\ wanted.policy = "SPECIFIC_REGION" /\ wanted.region # "" =>
                          facts[n].region = wanted.region}

(* Weights in hundredths.                                                  *)
Weights ==
    LET W(l, d, p, t) == [lat |-> l, load |-> d, price |-> p, trust |-> t]
    IN  CASE wanted.policy = "LOWEST_LOAD"     -> W(25, 50, 10, 15)
          [] wanted.policy = "LOWEST_PRICE"    -> W(25, 15, 50, 10)
          [] wanted.policy = "PRIVACY"         -> W(15, 15, 5, 65)
          [] wanted.policy = "SPECIFIC_REGION" -> W(40, 20, 15, 25)
          [] OTHER                             -> W(55, 15, 10, 20)

maxLat == Max({1} \cup {LatencyMs(n) : n \in Listed})
maxPrice == Max({1} \cup {facts[n].price : n \in Listed})

(* In parts of Whole * maxLat.  Unknown is as slow as the slowest, and so  *)
(* is a latency below a millisecond; without a range everyone is halfway.  *)
latScore(n) ==
    IF maxLat <= 1 THEN (Whole \div 2) * maxLat
    ELSE Whole * (maxLat - (IF LatencyMs(n) > 0 THEN LatencyMs(n) ELSE maxLat))

clamp01(f) == IF f < 0 THEN 0 ELSE IF f > Whole THEN Whole ELSE f

(* score times 1000 * Whole * maxLat * maxPrice.                           *)
score(n) ==
    10 * Weights.lat * maxPrice * latScore(n)
    + 10 * Weights.load * maxLat * maxPrice * (Whole - clamp01(facts[n].load))
    + 10 * Weights.price * maxLat * Whole * (maxPrice - facts[n].price)
    + Weights.trust * maxLat * maxPrice * (7 * clamp01(trust[n]) + 3 * clamp01(facts[n].bond))

(* Select: any of the best, since the sort is not stable.                  *)
AutoBest == {n \in AutoCandidates : \A m \in AutoCandidates : score(n) >= score(m)}

-----------------------------------------------------------------------------
(***************************************************************************)
(* Properties.                                                             *)
(***************************************************************************)

(* What a latency is worth; an unknown one as much as the longest known.   *)
Lag(n) == IF LatencyMs(n) < 0 THEN maxLat ELSE LatencyMs(n)

(* m is at least as good as n in everything the policies weigh.  Bonds     *)
(* count up to 100 DERO.                                                   *)
AsGood(m, n) ==
    /\ Lag(m) <= Lag(n) /\ clamp01(facts[m].load) <= clamp01(facts[n].load)
    /\ facts[m].price <= facts[n].price
    /\ clamp01(trust[m]) >= clamp01(trust[n])
    /\ clamp01(facts[m].bond) >= clamp01(facts[n].bond)

(* Under every policy and after any probes a node that may be chosen is    *)
(* not dominated: no candidate is at least as near, as idle, as cheap, as  *)
(* trusted and as bonded (up to 100 DERO, select.go 93) and better in one  *)
(* of these.  Not so for latencies below a millisecond, which count as the *)
(* longest, and when none exceeds a millisecond.                           *)
AutoUndominated ==
    \A n \in AutoBest : \A m \in AutoCandidates :
        /\ AsGood(m, n)
        /\ Lag(m) = Lag(n) \/ (maxLat > 1 /\ 0 \notin {Lag(m), Lag(n)})
        => AsGood(n, m)
=============================================================================
