------------------------------- MODULE Limiter ------------------------------
(***************************************************************************)
(* The token buckets of internal/nodes/ratelimit.go: one per class of      *)
(* request and per normalised peer address.  A bucket is kept in parts of  *)
(* 1/Window of a token, so that one unit of time refills one part: what    *)
(* the code keeps as a floating point number is exact here.                *)
(***************************************************************************)
EXTENDS Integers, Sequences

CONSTANTS
    Addrs,          \* addresses as the peers present them
    normalizeIP,    \* the key of each address
    Classes,        \* "authorize" and "mgmt"
    Burst,          \* tokens a full bucket of each class holds
    Window          \* time that refills one token of each class

Keys == {normalizeIP[a] : a \in Addrs}

ASSUME LimiterAssumption ==
    /\ normalizeIP \in [Addrs -> Keys]
    /\ Burst \in [Classes -> Nat \ {0}] /\ Window \in [Classes -> Nat \ {0}]

VARIABLES
    time,
    bucket,     \* RateLimiter.auth and .mgmt
    admitted    \* when each key was let through, since the limiter was built

limiterVars == <<time, bucket, admitted>>

Full(c) == Burst[c] * Window[c]

(* A key without a bucket gets a full one when it is first seen.  Until    *)
(* then it is a full one here: refilling that changes nothing.             *)
NewRateLimiter ==
    [c \in Classes |-> [k \in Keys |-> [tokens |-> Full(c), last |-> time]]]

Nobody == [c \in Classes |-> [k \in Keys |-> <<>>]]

LimiterInit == time = 0 /\ bucket = NewRateLimiter /\ admitted = Nobody

(* Mutant: the bucket is not capped at its burst.                          *)
RefilledUncapped(c, k) ==
    bucket[c][k].tokens + (time - bucket[c][k].last)

Refilled(c, k) ==
    LET t == bucket[c][k].tokens + (time - bucket[c][k].last)
    IN  IF t > Full(c) THEN Full(c) ELSE t

(* allow: the refill is kept also when the request is turned away.         *)
Allow(c, k) ==
    /\ Refilled(c, k) >= Window[c]
    /\ bucket' = [bucket EXCEPT ![c][k] = [tokens |-> Refilled(c, k) - Window[c],
                                           last |-> time]]
    /\ admitted' = [admitted EXCEPT ![c][k] = Append(@, time)]
    /\ UNCHANGED time

Refuse(c, k) ==
    /\ Refilled(c, k) < Window[c]
    /\ bucket' = [bucket EXCEPT ![c][k] = [tokens |-> Refilled(c, k), last |-> time]]
    /\ UNCHANGED <<time, admitted>>

Pass == time' = time + 1 /\ UNCHANGED <<bucket, admitted>>

(* The daemon builds a new limiter when it starts.                         *)
Rebuild == bucket' = NewRateLimiter /\ admitted' = Nobody /\ UNCHANGED time

LimiterNext ==
    Pass \/ Rebuild \/ \E c \in Classes, a \in Addrs :
                Allow(c, normalizeIP[a]) \/ Refuse(c, normalizeIP[a])

LimiterSpec == LimiterInit /\ [][LimiterNext]_limiterVars

-----------------------------------------------------------------------------
(***************************************************************************)
(* Properties.                                                             *)
(***************************************************************************)

(* allow (ratelimit.go 103-124): over any stretch of time a key gets at    *)
(* most a burst of requests through and one more for every window that     *)
(* passed, however the requests are spread and whatever address forms they *)
(* come under.                                                             *)
RateBound ==
    \A c \in Classes, k \in Keys :
        \A j \in 1..Len(admitted[c][k]) : \A i \in 1..j :
            Window[c] * (j - i + 1) <= Full(c) + (admitted[c][k][j] - admitted[c][k][i])
=============================================================================
