------------------------------ MODULE Session ------------------------------
(***************************************************************************)
(* The client's session and its circuit (internal/app: app.go, circuit.go, *)
(* select.go, enforce.go).  Every IPC request runs in a goroutine of its   *)
(* own, so the handlers interleave at each release of App.mu: Connect and  *)
(* Disconnect read the session under the lock, work on the tunnel engine   *)
(* and on the leak protection without it, and write the session under it   *)
(* again.  A call of the engine or of the enforcer is one step; how calls  *)
(* of the engine overlap is TunnelEngine, the enforcer's insides are       *)
(* LeakProtection.                                                         *)
(***************************************************************************)
EXTENDS Routes

CONSTANTS
    Handlers,       \* request goroutines
    Usable,         \* nodes listed as active, with fewer than five failures
    EntryRegion,    \* nodes of the configured entry region; {}: none is set
    MaxRequests,    \* bound: requests in a behaviour
    None

ASSUME SessionAssumption == Usable \subseteq Nodes /\ EntryRegion \subseteq Nodes
                            /\ None \notin Nodes /\ MaxRequests \in Nat

VARIABLES
    node,       \* App.node, None when nil
    conn,       \* App.connID
    circuit,    \* App.circuit.Hops; <<>>: no circuit
    engine,     \* the endpoint the started tunnel uses; None: no tunnel
    rules,      \* the endpoint the leak protection lets through; None: none on
    rows,       \* rows of the connection history that are still open
    asked,      \* requests so far; numbers the history's rows
    op,         \* what each goroutine is doing
    clash,      \* a tear-down overlapped another handler's set-up or tear-down
    swapped,    \* a node was recorded after the tunnel had moved on to another
    mixed,      \* a rotation was recorded on another circuit than it checked
    moved,      \* a rotation moved the tunnel since it was started
    adrift,     \* the last rotation to move the tunnel failed after it had
    unclosed    \* rows whose closing failed

ghosts == <<clash, swapped, mixed, moved, adrift, unclosed>>
sessionVars == <<node, conn, circuit, engine, rules, rows, asked, op, ghosts>>

At(pc, n, p, i) == [pc |-> pc, node |-> n, path |-> p, id |-> i]
Idle == At("idle", None, <<>>, 0)
Goto(h, pc) == op' = [op EXCEPT ![h].pc = pc]
Done(h) == op' = [op EXCEPT ![h] = Idle]
Request(h) == op[h] = Idle /\ asked < MaxRequests /\ asked' = asked + 1

SessionInit ==
    /\ node = None /\ conn = 0 /\ circuit = <<>>
    /\ engine = None /\ rules = None /\ rows = {} /\ asked = 0
    /\ op = [h \in Handlers |-> Idle]
    /\ clash = FALSE /\ swapped = FALSE /\ mixed = FALSE /\ moved = FALSE
    /\ adrift = FALSE /\ unclosed = {}

Others(h, pcs) == \E g \in Handlers \ {h} : op[g].pc \in pcs
SettingUp == {"start", "apply", "install"}
TearingDown == {"undo", "lift", "stop", "clear", "finish"}

(***************************************************************************)
(* Connect.                                                                *)
(***************************************************************************)

(* The check under the lock, and the node: the one asked for, or the one   *)
(* AutoSelect scores best.  Observed latencies change from call to call,   *)
(* so any node may be the best.                                            *)
Connect(h) ==
    /\ Request(h) /\ node = None
    /\ \E n \in Nodes : op' = [op EXCEPT ![h] = At("start", n, <<>>, asked')]
    /\ clash' = (clash \/ Others(h, {"lift", "clear", "finish"}))
    /\ UNCHANGED <<node, conn, circuit, engine, rules, rows, swapped, mixed, moved,
                   adrift, unclosed>>

(* engine.Start refuses a second start, and may fail.                      *)
Start(h) ==
    /\ op[h].pc = "start"
    /\ \/ /\ engine = None /\ engine' = op[h].node /\ Goto(h, "apply")
          /\ moved' = FALSE /\ adrift' = FALSE
       \/ UNCHANGED <<engine, moved, adrift>> /\ Done(h)
    /\ UNCHANGED <<node, conn, circuit, rules, rows, asked, clash, swapped, mixed,
                   unclosed>>

(* Mutant: a tunnel whose leak protection failed is kept.                  *)
applyEnforcementIgnored(h) ==
    /\ op[h].pc = "apply"
    /\ rules' \in {op[h].node, rules, None} /\ Goto(h, "install")
    /\ UNCHANGED <<node, conn, circuit, engine, rows, asked, ghosts>>

(* applyEnforcement.  The plan may not resolve, which changes nothing;     *)
(* Enforcer.Apply first clears rules still on, and undoes what it did when *)
(* a step fails.                                                           *)
applyEnforcement(h) ==
    /\ op[h].pc = "apply"
    /\ \/ rules' = op[h].node /\ Goto(h, "install")
       \/ rules' \in {rules, None} /\ Goto(h, "undo")
    /\ UNCHANGED <<node, conn, circuit, engine, rows, asked, ghosts>>

(* Fail closed: the engine is stopped, then what is on is cleared.         *)
Abort(h) ==
    /\ op[h].pc = "undo"
    /\ engine' = None /\ Goto(h, "lift")
    /\ clash' = (clash \/ Others(h, SettingUp \cup TearingDown))
    /\ UNCHANGED <<node, conn, circuit, rules, rows, asked, swapped, mixed, moved,
                   adrift, unclosed>>

Lift(h) ==
    /\ op[h].pc = "lift"
    /\ rules' \in {rules, None} /\ Done(h)
    /\ UNCHANGED <<node, conn, circuit, engine, rows, asked, ghosts>>

(* The history row (whose insert may fail) and the session.                *)
Install(h) ==
    /\ op[h].pc = "install"
    /\ \/ rows' = rows \cup {op[h].id} /\ conn' = op[h].id
       \/ rows' = rows /\ conn' = 0
    /\ node' = op[h].node /\ Done(h)
    /\ swapped' = (swapped \/ engine \notin {node', None})
    /\ UNCHANGED <<circuit, engine, rules, asked, clash, mixed, moved, adrift, unclosed>>

(***************************************************************************)
(* Disconnect.                                                             *)
(***************************************************************************)
Disconnect(h) ==
    /\ Request(h) /\ node # None
    /\ op' = [op EXCEPT ![h] = At("stop", None, <<>>, conn)]
    /\ clash' = (clash \/ Others(h, {"lift", "clear", "finish"}))
    /\ UNCHANGED <<node, conn, circuit, engine, rules, rows, swapped, mixed, moved,
                   adrift, unclosed>>

(* Stop gives the tunnel up even when closing the device fails; then the   *)
(* session and the rules stay for a second Disconnect.                     *)
Stop(h) ==
    /\ op[h].pc = "stop"
    /\ engine' = None /\ (Goto(h, "clear") \/ Done(h))
    /\ clash' = (clash \/ Others(h, SettingUp \cup TearingDown))
    /\ UNCHANGED <<node, conn, circuit, rules, rows, asked, swapped, mixed, moved,
                   adrift, unclosed>>

Clear(h) ==
    /\ op[h].pc = "clear"
    /\ rules' \in {rules, None} /\ Goto(h, "finish")
    /\ UNCHANGED <<node, conn, circuit, engine, rows, asked, ghosts>>

(* Mutant: the row is closed under the id that was reset before.           *)
FinishLate(h) ==
    /\ op[h].pc = "finish"
    /\ node' = None /\ conn' = 0 /\ circuit' = <<>> /\ Done(h)
    /\ rows' = rows \ {conn'}
    /\ UNCHANGED <<engine, rules, asked, ghosts>>

(* The row is closed, an error is ignored, and the session is over.        *)
Finish(h) ==
    /\ op[h].pc = "finish"
    /\ \/ rows' = rows \ {op[h].id} /\ UNCHANGED unclosed
       \/ op[h].id # 0 /\ unclosed' = unclosed \cup {op[h].id} /\ UNCHANGED rows
    /\ node' = None /\ conn' = 0 /\ circuit' = <<>> /\ Done(h)
    /\ UNCHANGED <<engine, rules, asked, clash, swapped, mixed, moved, adrift>>

(***************************************************************************)
(* Circuits.                                                               *)
(***************************************************************************)
PathNodes(p) == {p[i] : i \in DOMAIN p}
Buildable == {p \in UNION {[1..k -> Nodes] : k \in 1..3} : BuildRoute(p, DefaultOptions)}

(* bestExcept: the candidates of its two passes.                           *)
bestExcept(out, region) ==
    LET any == Usable \ out
        near == any \cap region
    IN  IF region # {} /\ near # {} THEN near ELSE any

(* The paths AutoCircuitHops(k) gathers: each pick goes to the front.      *)
Gathered(x, k) ==
    LET two == {<<e, x>> : e \in bestExcept({x}, EntryRegion)}
        full == UNION {{<<m, p[1], x>> : m \in Usable \ PathNodes(p)} : p \in two}
    IN  CASE k = 1 -> {<<x>>}
          [] k = 2 -> two
          [] OTHER -> full \cup {p \in two : Usable \subseteq PathNodes(p)}

(* What is left of a path that is not separated: hop two is dropped, once  *)
(* or twice.                                                               *)
Thinned(p) ==
    LET drop(q) == <<q[1]>> \o SubSeq(q, 3, Len(q))
    IN  IF p \in Buildable THEN p
        ELSE IF Len(p) = 2 \/ drop(p) \in Buildable THEN drop(p) ELSE <<p[1]>>

(* BuildCircuitHops and AutoCircuitHops, up to setCircuit.                 *)
BuildCircuitHops(h) ==
    /\ Request(h) /\ node # None
    /\ \E p \in Buildable :
          op' = [op EXCEPT ![h] = At("set", None, p, 0)]
    /\ UNCHANGED <<node, conn, circuit, engine, rules, rows, ghosts>>

AutoCircuitHops(h) ==
    /\ Request(h) /\ node # None
    /\ \E k \in 1..3 : \E p \in Gathered(node, k) :
          /\ Validate(Thinned(p)[1])
          /\ op' = [op EXCEPT ![h] = At("set", None, Thinned(p), 0)]
    /\ UNCHANGED <<node, conn, circuit, engine, rules, rows, ghosts>>

setCircuit(h) ==
    /\ op[h].pc = "set"
    /\ circuit' = op[h].path
    /\ Done(h)
    /\ UNCHANGED <<node, conn, engine, rules, rows, asked, ghosts>>

(* RotateCircuit reads the circuit under the lock ...                      *)
RotateCircuit(h) ==
    /\ Request(h)
    /\ op' = [op EXCEPT ![h] = At("rotate", None, circuit, 0)]
    /\ UNCHANGED <<node, conn, circuit, engine, rules, rows, ghosts>>

Kept(p) == IF Len(p) > 1 THEN SubSeq(p, 1, Len(p) - 1) ELSE <<>>

(* ... picks a node outside it and checks the path it would make; without  *)
(* a session, a node or a separated path the request is over ...           *)
PickExit(h) ==
    /\ op[h].pc = "rotate"
    /\ \/ /\ node # None \/ op[h].path # <<>>
          /\ \E n \in bestExcept(PathNodes(op[h].path), {}) :
                /\ Append(Kept(op[h].path), n) \in Buildable
                /\ op' = [op EXCEPT ![h].pc = "move", ![h].node = n]
       \/ Done(h)
    /\ UNCHANGED <<node, conn, circuit, engine, rules, rows, asked, ghosts>>

(* ... and moves the engine.  The rules, and the key of the peer, are left *)
(* as they are.  The engine may fail with the endpoint moved or not: it    *)
(* configures the device before it rebinds.                                *)
RotateEndpoint(h) ==
    /\ op[h].pc = "move"
    /\ \/ engine # None /\ engine' = op[h].node /\ adrift' = FALSE /\ Goto(h, "commit")
       \/ /\ engine' \in (IF engine = None THEN {None} ELSE {engine, op[h].node})
          /\ adrift' = (adrift \/ engine' # engine) /\ Done(h)
    /\ moved' = (moved \/ engine' # engine)
    /\ UNCHANGED <<node, conn, circuit, rules, rows, asked, clash, swapped, mixed,
                   unclosed>>

(* Mutant: the current node is not replaced.                               *)
CommitRotationPathOnly(h) ==
    /\ op[h].pc = "commit"
    /\ LET n == op[h].node IN
          /\ circuit' = IF Len(circuit) > 1 THEN ReplaceExit(circuit, n) ELSE <<n>>
          /\ swapped' = (swapped \/ engine \notin {n, None})
    /\ mixed' = (mixed \/ Kept(circuit) # Kept(op[h].path))
    /\ Done(h)
    /\ UNCHANGED <<node, conn, engine, rules, rows, asked, clash, moved, adrift, unclosed>>

(* The circuit and the node, under the lock.  A circuit of one hop is      *)
(* replaced, guard included.                                               *)
CommitRotation(h) ==
    /\ op[h].pc = "commit"
    /\ LET n == op[h].node IN
          /\ circuit' = IF Len(circuit) > 1 THEN ReplaceExit(circuit, n) ELSE <<n>>
          /\ node' = IF node = None THEN None ELSE n
          /\ swapped' = (swapped \/ engine \notin {n, None})
    /\ mixed' = (mixed \/ Kept(circuit) # Kept(op[h].path))
    /\ Done(h)
    /\ UNCHANGED <<conn, engine, rules, rows, asked, clash, moved, adrift, unclosed>>

SessionNext ==
    \E h \in Handlers :
          \/ Connect(h) \/ Start(h) \/ applyEnforcement(h) \/ Abort(h) \/ Lift(h)
          \/ Install(h) \/ Disconnect(h) \/ Stop(h) \/ Clear(h) \/ Finish(h)
          \/ BuildCircuitHops(h) \/ AutoCircuitHops(h) \/ setCircuit(h)
          \/ RotateCircuit(h) \/ PickExit(h) \/ RotateEndpoint(h) \/ CommitRotation(h)

SessionSpec == SessionInit /\ [][SessionNext]_sessionVars

-----------------------------------------------------------------------------
(***************************************************************************)
(* Properties.                                                             *)
(***************************************************************************)
Quiet == \A h \in Handlers : op[h].pc \in {"idle", "set", "rotate", "move"}

(* Connect, Disconnect (app.go 346-354, 398-402): a tunnel carries traffic *)
(* without leak protection only between Start and Apply of the Connect     *)
(* that started it (or its Stop), unless handlers clashed.                 *)
NeverBare ==
    ~clash /\ engine # None /\ rules = None =>
        \E h \in Handlers : op[h].pc \in {"apply", "undo"}

(* Between requests: a running tunnel belongs to a session, a session has  *)
(* its leak protection, and the open rows of the history are the session's *)
(* own and those Disconnect failed to close (app.go 356, 404).             *)
SessionIntact ==
    Quiet /\ ~clash =>
        /\ engine # None => node # None
        /\ node # None => rules # None
        /\ {conn} \ {0} \subseteq rows
        /\ rows \subseteq ({conn} \ {0}) \cup unclosed

(* The node the client shows is the one its tunnel uses (RotateCircuit     *)
(* 317-341), unless two rotations, or a rotation and a reconnect, crossed, *)
(* or a rotation moved the tunnel and then failed (engine.go 340-346); its *)
(* leak protection lets that node through until a rotation moves the       *)
(* tunnel; and the circuit never has two hops on one box or of one         *)
(* operator, unless a rotation checked one circuit and changed another     *)
(* (BuildCircuitHops, AutoCircuitHops, RotateCircuit: circuit.go 119-149,  *)
(* 209-220, 298-316).                                                      *)
CircuitShown ==
    /\ Quiet /\ ~clash /\ engine # None => /\ ~swapped /\ ~adrift => engine = node
                                           /\ ~moved => rules = engine
    /\ ~mixed => checkDistinct(circuit)
=============================================================================
