------------------------------ MODULE Rotator -------------------------------
(***************************************************************************)
(* multihop.Rotator (internal/multihop/rotator.go): goroutines rotate the  *)
(* hops of one circuit.  RotateEntry and RotateExit rebuild and commit     *)
(* under the lock; RotateDownstream reads the circuit under the lock,      *)
(* builds without it and commits under it again, over whatever is current. *)
(* The callback that reprograms the data plane runs after the unlock.      *)
(***************************************************************************)
EXTENDS Routes

CONSTANTS
    Callers,        \* goroutines that rotate
    MaxRotations    \* bound on the length of the history

VARIABLES
    current,        \* Rotator.current, as its path
    history,        \* Rotator.history: [old, new] entries
    rotating,       \* what each goroutine has still to do
    plane,          \* the chain the last callback programmed
    late            \* history: a callback ran after the circuit had moved on

vars == <<current, history, rotating, plane, late>>

NoRotation == [step |-> "idle", old |-> <<>>, next |-> <<>>]
Circuits == {p \in UNION {[1..k -> Nodes] : k \in 1..3} : BuildCircuit(p)}

(* NewRotator wraps a circuit that is built, verified and programmed.      *)
NewRotator(p) ==
    /\ Verify(p)
    /\ current = p /\ plane = Chain(p)
    /\ history = <<>> /\ late = FALSE
    /\ rotating = [c \in Callers |-> NoRotation]

Init == \E p \in Circuits : NewRotator(p)

(* The commit and the log entry are one critical section.                  *)
Commit(c, old, next) ==
    /\ current' = next
    /\ history' = Append(history, [old |-> Entry(old), new |-> Entry(next)])
    /\ rotating' = [rotating EXCEPT ![c] =
                        [step |-> "callback", old |-> old, next |-> next]]
    /\ UNCHANGED <<plane, late>>

MayRotate(c) == rotating[c].step = "idle" /\ Len(history) < MaxRotations

RotateEntry(c, n) ==
    /\ MayRotate(c)
    /\ BuildCircuit(ReplaceEntry(current, n)) /\ Verify(ReplaceEntry(current, n))
    /\ Commit(c, current, ReplaceEntry(current, n))

RotateExit(c, n) ==
    /\ MayRotate(c)
    /\ BuildCircuit(ReplaceExit(current, n)) /\ Verify(ReplaceExit(current, n))
    /\ Commit(c, current, ReplaceExit(current, n))

(* Mutant: the new middle and exit are not built against the entry.        *)
RotateDownstreamUnbuilt(c, m, n) ==
    /\ MayRotate(c) /\ Len(current) = 3
    /\ LET next == <<Entry(current), m, n>>
       IN  rotating' = [rotating EXCEPT ![c] =
                            [step |-> "commit", old |-> current, next |-> next]]
    /\ UNCHANGED <<current, history, plane, late>>

RotateDownstream(c, m, n) ==
    /\ MayRotate(c) /\ Len(current) = 3
    /\ LET next == <<Entry(current), m, n>>
       IN  /\ BuildCircuit(next) /\ Verify(next)
           /\ rotating' = [rotating EXCEPT ![c] =
                                [step |-> "commit", old |-> current, next |-> next]]
    /\ UNCHANGED <<current, history, plane, late>>

CommitDownstream(c) ==
    /\ rotating[c].step = "commit" /\ Len(history) < MaxRotations
    /\ Commit(c, rotating[c].old, rotating[c].next)

OnRotated(c) ==
    /\ rotating[c].step = "callback"
    /\ plane' = Chain(rotating[c].next)
    /\ late' = (late \/ rotating[c].next # current)
    /\ rotating' = [rotating EXCEPT ![c] = NoRotation]
    /\ UNCHANGED <<current, history>>

Next ==
    \E c \in Callers :
       \/ \E n \in Nodes : RotateEntry(c, n)
       \/ \E n \in Nodes : RotateExit(c, n)
       \/ \E m, n \in Nodes : RotateDownstream(c, m, n)
       \/ CommitDownstream(c)
       \/ OnRotated(c)

Spec == Init /\ [][Next]_vars

(***************************************************************************)
(* Properties.                                                             *)
(***************************************************************************)

(* However rotations overlap, the current circuit has 1-3 dialable hops on *)
(* distinct boxes of distinct operators, and a rotation that is still to   *)
(* commit cannot change that (RotateDownstream does not verify again).     *)
CurrentSeparated ==
    /\ BuildCircuit(current)
    /\ \A c \in Callers : rotating[c].step # "idle" => BuildCircuit(rotating[c].next)

(* The log ends at the entry in use, whichever rotation committed last.    *)
HistoryEndsAtCurrent ==
    history # <<>> => history[Len(history)].new = Entry(current)

(* With no rotation under way the data plane carries the current circuit,  *)
(* unless a callback was overtaken by a later commit.                      *)
PlaneFollows == (\A c \in Callers : rotating[c].step = "idle") /\ ~late => plane = Chain(current)

(* The inductive invariant behind all three: a circuit that is not         *)
(* programmed yet has its callback on the way.                             *)
Steps == [step : {"idle", "commit", "callback"}, old : Seq(Nodes), next : Seq(Nodes)]
RotatorInv ==
    /\ current \in Seq(Nodes)
    /\ history \in Seq([old : Nodes, new : Nodes])
    /\ rotating \in [Callers -> Steps] /\ late \in BOOLEAN
    /\ CurrentSeparated
    /\ \A c \in Callers : rotating[c].step # "idle" => BuildCircuit(rotating[c].old)
    /\ HistoryEndsAtCurrent
    /\ ~late => \/ plane = Chain(current)
                \/ \E c \in Callers : rotating[c].step = "callback" /\ rotating[c].next = current
=============================================================================
