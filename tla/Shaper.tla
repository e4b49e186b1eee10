------------------------------- MODULE Shaper -------------------------------
(***************************************************************************)
(* The traffic shaper (internal/cover/cover.go).  It is given the lengths  *)
(* of packets and returns what to put on the wire: as it is (OFF), padded  *)
(* to a bucket (PAD), or one cell per tick with cover in the idle ticks    *)
(* (CONSTANT).  Every call runs under the shaper's lock.                   *)
(***************************************************************************)
EXTENDS Integers, Sequences, FiniteSetsExt

CONSTANTS
    Shapings,       \* configurations that may be asked for
    NoShaper,       \* none was built yet
    DefaultBuckets,
    Lengths,        \* lengths of packets
    MaxSends,       \* bound: packets
    MaxTicks        \* bound: ticks that emit cover or drop it

VARIABLES
    shaping,    \* Shaper.cfg
    stats,      \* Shaper.stats
    queue,      \* Shaper.pending
    given,      \* packets handed to Send, in order
    carried,    \* payloads put on the wire, in order
    wire        \* bytes put on the wire

shaperVars == <<shaping, stats, queue, given, carried, wire>>

(* Validate.  MaxOverhead is the fraction cap[1]/cap[2]; cap[1] = 0: none. *)
ValidShaping(c) ==
    \/ c.mode = "OFF"
    \/ /\ c.mode = "PAD"
       /\ \A i \in DOMAIN c.buckets :
             c.buckets[i] > 0 /\ (i > 1 => c.buckets[i] > c.buckets[i - 1])
    \/ c.mode = "CONSTANT" /\ c.cell > 0 /\ c.interval > 0 /\ c.cap[1] >= 0

ZeroStats == [packets |-> 0, real |-> 0, pad |-> 0, cover |-> 0, cells |-> 0, dropped |-> 0]

ShaperInit ==
    /\ shaping = NoShaper /\ stats = ZeroStats /\ queue = <<>>
    /\ given = <<>> /\ carried = <<>> /\ wire = 0

(* New: a configuration that is not valid gives no shaper.                 *)
New(c) ==
    /\ shaping = NoShaper /\ ValidShaping(c)
    /\ shaping' = IF c.mode = "PAD" /\ c.buckets = <<>> THEN [c EXCEPT !.buckets = DefaultBuckets]
                                                        ELSE c
    /\ UNCHANGED <<stats, queue, given, carried, wire>>

(* The next bucket up; a packet above the largest is left alone.           *)
padTo(n) ==
    LET fits == {b \in {shaping.buckets[i] : i \in DOMAIN shaping.buckets} : n <= b}
    IN  IF fits = {} THEN n ELSE Min(fits)

(* A packet of n bytes leaves as w bytes.                                  *)
Emit(n, w) ==
    /\ stats' = [stats EXCEPT !.packets = @ + 1, !.real = @ + n, !.pad = @ + (w - n)]
    /\ carried' = Append(carried, n) /\ wire' = wire + w

SendPacket(n) ==
    /\ shaping # NoShaper /\ Len(given) < MaxSends /\ given' = Append(given, n)
    /\ \/ /\ shaping.mode = "CONSTANT" /\ queue' = Append(queue, n)
          /\ UNCHANGED <<stats, carried, wire>>
       \/ shaping.mode = "PAD" /\ Emit(n, padTo(n)) /\ UNCHANGED queue
       \/ shaping.mode = "OFF" /\ Emit(n, n) /\ UNCHANGED queue
    /\ UNCHANGED shaping

(* Mutant: what does not fit in a cell is cut off.                         *)
TickRealCut ==
    /\ shaping # NoShaper /\ shaping.mode = "CONSTANT" /\ queue # <<>>
    /\ queue' = Tail(queue)
    /\ LET n == Head(queue)
       IN  IF n > shaping.cell THEN Emit(shaping.cell, shaping.cell) ELSE Emit(n, shaping.cell)
    /\ UNCHANGED <<shaping, given>>

(* Tick with something to send; an oversized packet has a cell of its own. *)
TickReal ==
    /\ shaping # NoShaper /\ shaping.mode = "CONSTANT" /\ queue # <<>>
    /\ queue' = Tail(queue)
    /\ LET n == Head(queue)
       IN  IF n > shaping.cell THEN Emit(n, n) ELSE Emit(n, shaping.cell)
    /\ UNCHANGED <<shaping, given>>

(* One more cell would break the cap.                                      *)
CapHit ==
    /\ shaping.cap[1] > 0
    /\ \/ stats.real = 0
       \/ (stats.pad + stats.cover + shaping.cell) * shaping.cap[2] > shaping.cap[1] * stats.real

(* Tick with nothing to send.                                              *)
TickIdle ==
    /\ shaping # NoShaper /\ shaping.mode = "CONSTANT" /\ queue = <<>>
    /\ stats.cells + stats.dropped < MaxTicks
    /\ \/ CapHit /\ stats' = [stats EXCEPT !.dropped = @ + 1] /\ UNCHANGED wire
       \/ /\ ~CapHit
          /\ stats' = [stats EXCEPT !.cells = @ + 1, !.cover = @ + shaping.cell]
          /\ wire' = wire + shaping.cell
    /\ UNCHANGED <<shaping, queue, given, carried>>

ShaperNext ==
    (\E c \in Shapings : New(c)) \/ (\E n \in Lengths : SendPacket(n)) \/ TickReal \/ TickIdle

ShaperSpec == ShaperInit /\ [][ShaperNext]_shaperVars

-----------------------------------------------------------------------------
(***************************************************************************)
(* Properties.                                                             *)
(***************************************************************************)

(* Send, Tick (cover.go 196-260): every packet leaves whole, once and in   *)
(* the order it came, or is still queued; the statistics account for every *)
(* byte on the wire ("measured, never oversold", cover.go 21-22); and      *)
(* however packets and idle ticks alternate, cover stays within            *)
(* MaxOverhead of the real traffic.  Padding counts towards the cap and is *)
(* not limited by it.                                                      *)
MeasuredExactly ==
    /\ carried \o queue = given
    /\ wire = stats.real + stats.pad + stats.cover
    /\ stats.packets = Len(carried)
    /\ shaping # NoShaper /\ shaping.mode = "CONSTANT" /\ shaping.cap[1] > 0 =>
          stats.cover * shaping.cap[2] <= shaping.cap[1] * stats.real
=============================================================================
