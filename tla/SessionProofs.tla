--------------------------- MODULE SessionProofs ----------------------------
(***************************************************************************)
(* The session of a client and its circuit (Session), and the tables of    *)
(* its database (Schema), for every number of goroutines, requests and     *)
(* processes.                                                              *)
(***************************************************************************)
EXTENDS Session, Schema, TLAPS

(***************************************************************************)
(* NeverBare and SessionIntact for any number of request goroutines, any   *)
(* nodes and any number of requests.  Neither is inductive: both speak of  *)
(* the shared session, and which handler may change it next is known only  *)
(* from the places of all handlers.  Exclusive adds that: while nothing    *)
(* clashed, at most one Connect is past Start, and it finds no session; a  *)
(* handler that clears up is alone; a Disconnect closes the row in use.    *)
(***************************************************************************)

Holding == {"apply", "install", "undo"}
Ending == {"lift", "clear", "finish"}

Formed == op = [h \in Handlers |-> At(op[h].pc, op[h].node, op[h].path, op[h].id)]

(* The shape of op, and what a handler carries along.                      *)
Shape ==
    /\ Formed
    /\ asked \in Nat
    /\ \A h \in Handlers :
          /\ op[h].pc \in {"start", "apply", "install", "move", "commit"} => op[h].node # None
          /\ op[h].pc \in {"start", "apply", "install"} => op[h].id # 0

Bare == engine # None /\ rules = None
Alone(h, pcs) == \A g \in Handlers : g # h => op[g].pc \notin pcs

Exclusive ==
    /\ Bare => \E h \in Handlers : op[h].pc \in {"apply", "undo"}
    /\ engine # None /\ node = None => \E h \in Handlers : op[h].pc \in Holding
    /\ node # None /\ rules = None => \E h \in Handlers : op[h].pc = "finish"
    /\ node = None => conn = 0
    /\ {conn} \ {0} \subseteq rows /\ rows \subseteq ({conn} \ {0}) \cup unclosed
    /\ \A h \in Handlers :
          /\ op[h].pc \in Ending => engine = None /\ Alone(h, SettingUp \cup TearingDown)
          /\ op[h].pc \in Holding => engine # None /\ node = None /\ Alone(h, Holding)
          /\ op[h].pc = "install" => rules # None
          /\ op[h].pc = "start" /\ node # None => engine # None
          /\ op[h].pc = "lift" => node = None
          /\ op[h].pc = "stop" => node # None
          /\ op[h].pc \in {"stop", "clear", "finish"} => op[h].id = conn

SessionInv == Shape /\ (~clash => Exclusive)

(* What a step of handler h leaves alone, and how it moves h.              *)
Moved(h, pc, n, i) ==
    /\ op'[h].pc = pc /\ op'[h].node = n /\ op'[h].id = i
    /\ \A g \in Handlers : g # h => op'[g] = op[g]

(* The beginning of a request keeps the shape of op, and moves one handler.*)
LEMMA BeginMoves ==
    ASSUME Formed, NEW h \in Handlers, NEW pc, NEW n, NEW p, NEW i,
           op' = [op EXCEPT ![h] = At(pc, n, p, i)]
    PROVE  Formed' /\ Moved(h, pc, n, i)
<1>1. \A g \in Handlers : g # h => op'[g] = op[g]
  BY ZenonT(30) DEF Formed
<1>2. op'[h] = At(pc, n, p, i)
  BY ZenonT(30) DEF Formed
<1>3. \A g \in Handlers : op'[g] = At(op'[g].pc, op'[g].node, op'[g].path, op'[g].id)
  <2>1. op'[h] = At(op'[h].pc, op'[h].node, op'[h].path, op'[h].id)
    BY ZenonT(30), <1>2 DEF At
  <2>2. \A g \in Handlers : op[g] = At(op[g].pc, op[g].node, op[g].path, op[g].id)
    BY ZenonT(30) DEF Formed
  <2> QED
    BY ZenonT(30), <1>1, <2>1, <2>2
<1>4. Formed'
  BY ZenonT(30), <1>3 DEF Formed
<1> QED
  BY <1>1, <1>2, <1>4 DEF Moved, At

(* A request is taken by a handler that has none.                          *)
LEMMA RequestIdle ==
    ASSUME NEW h \in Handlers, Request(h)
    PROVE  op[h].pc = "idle"
BY DEF Request, Idle, At

(* A handler that goes on keeps all but its place.                         *)
LEMMA GotoAt ==
    ASSUME Formed, NEW h \in Handlers, NEW pc, Goto(h, pc)
    PROVE  op' = [op EXCEPT ![h] = At(pc, op[h].node, op[h].path, op[h].id)]
<1> DEFINE a == op[h].pc  b == op[h].node  c == op[h].path  d == op[h].id
           r == [op[h] EXCEPT !.pc = pc]
<1>1. op[h] = At(a, b, c, d)
  BY ZenonT(30) DEF Formed
<1>2. r = [At(a, b, c, d) EXCEPT !.pc = pc]
  BY ZenonT(30), <1>1
<1>3. op' = [op EXCEPT ![h] = r]
  BY ZenonT(30) DEF Goto
<1> HIDE DEF a, b, c, d, r
<1>4. r = At(pc, b, c, d)
  BY ZenonT(30), <1>2 DEF At
<1>5. op' = [op EXCEPT ![h] = At(pc, b, c, d)]
  BY ZenonT(30), <1>3, <1>4
<1> QED
  BY ZenonT(30), <1>5 DEF b, c, d

(* So it moves one handler and no other.                                   *)
LEMMA GotoMoves ==
    ASSUME Formed, NEW h \in Handlers, NEW pc, Goto(h, pc)
    PROVE  Formed' /\ Moved(h, pc, op[h].node, op[h].id)
BY ZenonT(30), GotoAt, BeginMoves

(* A rotation that has picked an exit keeps all but its place and node.    *)
LEMMA RotateAt ==
    ASSUME Formed, NEW h \in Handlers, NEW n,
           op' = [op EXCEPT ![h].pc = "move", ![h].node = n]
    PROVE  op' = [op EXCEPT ![h] = At("move", n, op[h].path, op[h].id)]
<1> DEFINE a == op[h].pc  b == op[h].node  c == op[h].path  d == op[h].id
           r == [op[h] EXCEPT !.pc = "move", !.node = n]
<1>1. op = [g \in Handlers |-> op[g]] /\ op[h] = At(a, b, c, d)
  BY ZenonT(30) DEF Formed
<1>2. r = [At(a, b, c, d) EXCEPT !.pc = "move", !.node = n]
  BY ZenonT(30), <1>1
<1>3. op' = [op EXCEPT ![h] = r]
  BY ZenonT(30), <1>1
<1> HIDE DEF a, b, c, d, r
<1>4. r = At("move", n, c, d)
  BY ZenonT(30), <1>2 DEF At
<1>5. op' = [op EXCEPT ![h] = At("move", n, c, d)]
  BY ZenonT(30), <1>3, <1>4
<1> QED
  BY ZenonT(30), <1>5 DEF c, d

(* A handler that ends is idle again.                                      *)
LEMMA DoneMoves ==
    ASSUME Formed, NEW h \in Handlers, Done(h)
    PROVE  Formed' /\ Moved(h, "idle", None, 0)
BY ZenonT(30), BeginMoves DEF Done, Idle

(* At the start nobody holds anything.                                     *)
LEMMA SessionInitInv == SessionInit => SessionInv
<1> SUFFICES ASSUME SessionInit PROVE SessionInv
  BY ZenonT(30)
<1>1. \A h \in Handlers : op[h] = At("idle", None, <<>>, 0) /\ op[h].pc = "idle"
  BY ZenonT(30) DEF SessionInit, Idle, At
<1>2. Shape
  BY ZenonT(30), <1>1 DEF SessionInit, Shape, Formed, Idle, At
<1>3. Exclusive
  BY ZenonT(30), <1>1 DEF SessionInit, Exclusive, Bare, Holding, Ending
<1> QED
  BY ZenonT(30), <1>2, <1>3 DEF SessionInv

(* The shape is kept when the handler that moves has a node and a number.  *)
LEMMA ShapeAfter ==
    ASSUME Shape, NEW h \in Handlers, NEW pc, NEW n, NEW i, Moved(h, pc, n, i),
           Formed',
           asked' \in Nat,
           pc \in {"start", "apply", "install", "move", "commit"} => n # None,
           pc \in {"start", "apply", "install"} => i # 0
    PROVE  Shape'
BY ZenonT(30) DEF Shape, Moved

(* A handler that goes on, but not in a Connect, takes nothing new along.  *)
LEMMA GotoShape ==
    ASSUME Shape, NEW h \in Handlers, NEW pc, Goto(h, pc), asked' = asked,
           pc \notin {"start", "apply", "install", "move", "commit"}
    PROVE  Moved(h, pc, op[h].node, op[h].id) /\ Shape'
<1>1. Formed' /\ Moved(h, pc, op[h].node, op[h].id)
  BY ZenonT(30), GotoMoves DEF Shape
<1>2. asked' \in Nat
  BY ZenonT(30) DEF Shape
<1> QED
  BY ZenonT(30), <1>1, <1>2, ShapeAfter

(* A step outside of Connect and Disconnect that neither begins nor ends a *)
(* session and leaves the tunnel up or down.                               *)
LEMMA AsideExclusive ==
    ASSUME Exclusive, NEW h \in Handlers, NEW pc, NEW n, NEW i, Moved(h, pc, n, i),
           op[h].pc \notin SettingUp \cup TearingDown, pc \notin SettingUp \cup TearingDown,
           node' = None <=> node = None, engine' = None <=> engine = None,
           rules' = rules, conn' = conn, rows' = rows, unclosed' = unclosed
    PROVE  Exclusive'
<1>1. \A g \in Handlers : op[g].pc \in SettingUp \cup TearingDown => g # h /\ op'[g] = op[g]
  BY ZenonT(30) DEF Moved
<1>2. \A g \in Handlers : op'[g].pc \in SettingUp \cup TearingDown => g # h /\ op'[g] = op[g]
  BY ZenonT(30) DEF Moved
<1> QED
  BY <1>1, <1>2 DEF Exclusive, Bare, Alone, Holding, Ending, SettingUp, TearingDown

(* Connect: Start, Apply and Install are reached by one handler at a time. *)
LEMMA ConnectInv ==
    ASSUME SessionInv, NEW h \in Handlers,
           Connect(h) \/ Start(h) \/ applyEnforcement(h) \/ Abort(h) \/ Lift(h) \/ Install(h)
    PROVE  SessionInv'
<1> USE SessionAssumption
<1>1. Shape /\ Formed /\ asked \in Nat
  BY ZenonT(30) DEF SessionInv, Shape
<1>2. CASE Connect(h)
  <2>1. PICK n \in Nodes : op' = [op EXCEPT ![h] = At("start", n, <<>>, asked')]
    BY ZenonT(30), <1>2 DEF Connect
  <2>2. Moved(h, "start", n, asked') /\ op[h].pc = "idle" /\ Shape'
    <3>1. op[h].pc = "idle" /\ asked' \in Nat /\ asked' # 0 /\ n # None
      BY <1>1, <1>2 DEF Connect, Request, Idle, At
    <3>2. Formed' /\ Moved(h, "start", n, asked')
      BY ZenonT(30), <1>1, <2>1, BeginMoves
    <3>3. Shape'
      BY ZenonT(30), <1>1, <3>1, <3>2, ShapeAfter
    <3> QED
      BY ZenonT(30), <3>1, <3>2, <3>3
  <2>3. ASSUME ~clash' PROVE Exclusive'
    <3>1. Exclusive /\ node = None /\ Alone(h, Ending)
          /\ UNCHANGED <<node, conn, engine, rules, rows, unclosed>>
      BY ZenonT(30), <1>2, <2>3 DEF SessionInv, Connect, Others, Alone, Ending
    <3> QED
      BY <2>2, <3>1
         DEF Exclusive, Bare, Alone, Moved, Holding, Ending, SettingUp, TearingDown
  <2> QED
    BY ZenonT(30), <2>2, <2>3 DEF SessionInv
<1>3. CASE Start(h)
  <2>1. CASE engine = None /\ engine' = op[h].node /\ Goto(h, "apply")
    <3>1. /\ Moved(h, "apply", op[h].node, op[h].id) /\ op[h].pc = "start"
          /\ op[h].node # None /\ Shape'
      BY ZenonT(30), <1>1, <1>3, <2>1, GotoMoves, ShapeAfter DEF Start, Shape
    <3>2. ASSUME ~clash' PROVE Exclusive'
      <4>1. Exclusive /\ UNCHANGED <<node, conn, rules, rows, unclosed>>
        BY ZenonT(30), <1>3, <3>2 DEF SessionInv, Start, ghosts
      <4> QED
        BY <2>1, <3>1, <4>1
           DEF Exclusive, Bare, Alone, Moved, Holding, Ending, SettingUp, TearingDown
    <3> QED
      BY ZenonT(30), <3>1, <3>2 DEF SessionInv
  <2>2. CASE UNCHANGED engine /\ Done(h)
    <3>1. Moved(h, "idle", None, 0) /\ op[h].pc = "start" /\ Shape'
      BY ZenonT(30), <1>1, <1>3, <2>2, DoneMoves, ShapeAfter DEF Start
    <3>2. ASSUME ~clash' PROVE Exclusive'
      <4>1. Exclusive /\ UNCHANGED <<node, conn, engine, rules, rows, unclosed>>
        BY ZenonT(30), <1>3, <2>2, <3>2 DEF SessionInv, Start, ghosts
      <4> QED
        BY <3>1, <4>1
           DEF Exclusive, Bare, Alone, Moved, Holding, Ending, SettingUp, TearingDown
    <3> QED
      BY ZenonT(30), <3>1, <3>2 DEF SessionInv
  <2> QED
    BY ZenonT(30), <1>3, <2>1, <2>2 DEF Start
<1>4. CASE applyEnforcement(h)
  <2>1. CASE rules' = op[h].node /\ Goto(h, "install")
    <3>1. /\ Moved(h, "install", op[h].node, op[h].id) /\ op[h].pc = "apply"
          /\ op[h].node # None /\ Shape'
      BY ZenonT(30), <1>1, <1>4, <2>1, GotoMoves, ShapeAfter DEF applyEnforcement, Shape
    <3>2. ASSUME ~clash' PROVE Exclusive'
      <4>1. Exclusive /\ UNCHANGED <<node, conn, engine, rows, unclosed>>
        BY ZenonT(30), <1>4, <3>2 DEF SessionInv, applyEnforcement, ghosts
      <4> QED
        BY <2>1, <3>1, <4>1
           DEF Exclusive, Bare, Alone, Moved, Holding, Ending, SettingUp, TearingDown
    <3> QED
      BY ZenonT(30), <3>1, <3>2 DEF SessionInv
  <2>2. CASE rules' \in {rules, None} /\ Goto(h, "undo")
    <3>1. Moved(h, "undo", op[h].node, op[h].id) /\ op[h].pc = "apply" /\ Shape'
      BY ZenonT(30), <1>1, <1>4, <2>2, GotoShape DEF applyEnforcement
    <3>2. ASSUME ~clash' PROVE Exclusive'
      <4>1. Exclusive /\ UNCHANGED <<node, conn, engine, rows, unclosed>>
        BY ZenonT(30), <1>4, <3>2 DEF SessionInv, applyEnforcement, ghosts
      <4> QED
        BY <2>2, <3>1, <4>1
           DEF Exclusive, Bare, Alone, Moved, Holding, Ending, SettingUp, TearingDown
    <3> QED
      BY ZenonT(30), <3>1, <3>2 DEF SessionInv
  <2> QED
    BY ZenonT(30), <1>4, <2>1, <2>2 DEF applyEnforcement
<1>5. CASE Abort(h)
  <2>1. Moved(h, "lift", op[h].node, op[h].id) /\ op[h].pc = "undo" /\ Shape'
    BY ZenonT(30), <1>1, <1>5, GotoShape DEF Abort
  <2>2. ASSUME ~clash' PROVE Exclusive'
    <3>1. Exclusive /\ Alone(h, SettingUp \cup TearingDown) /\ engine' = None
          /\ UNCHANGED <<node, conn, rules, rows, unclosed>>
      BY ZenonT(30), <1>5, <2>2 DEF SessionInv, Abort, Others, Alone
    <3> QED
      BY <2>1, <3>1
         DEF Exclusive, Bare, Alone, Moved, Holding, Ending, SettingUp, TearingDown
  <2> QED
    BY ZenonT(30), <2>1, <2>2 DEF SessionInv
<1>6. CASE Lift(h)
  <2>1. Moved(h, "idle", None, 0) /\ op[h].pc = "lift" /\ Shape'
    BY ZenonT(30), <1>1, <1>6, DoneMoves, ShapeAfter DEF Lift
  <2>2. ASSUME ~clash' PROVE Exclusive'
    <3>1. Exclusive /\ UNCHANGED <<node, conn, engine, rows, unclosed>>
      BY ZenonT(30), <1>6, <2>2 DEF SessionInv, Lift, ghosts
    <3> QED
      BY <2>1, <3>1
         DEF Exclusive, Bare, Alone, Moved, Holding, Ending, SettingUp, TearingDown
  <2> QED
    BY ZenonT(30), <2>1, <2>2 DEF SessionInv
<1>7. CASE Install(h)
  <2>1. /\ Moved(h, "idle", None, 0) /\ op[h].pc = "install" /\ Shape'
        /\ op[h].node # None /\ op[h].id # 0
    BY ZenonT(30), <1>1, <1>7, DoneMoves, ShapeAfter DEF Install, Shape
  <2>2. ASSUME ~clash' PROVE Exclusive'
    <3>1. Exclusive /\ node' = op[h].node /\ UNCHANGED <<engine, rules>>
      BY ZenonT(30), <1>7, <2>2 DEF SessionInv, Install
    <3>2. conn = 0 /\ rows \subseteq unclosed
      BY ZenonT(30), <2>1, <3>1 DEF Exclusive, Holding
    <3>3. {conn'} \ {0} \subseteq rows' /\ rows' \subseteq ({conn'} \ {0}) \cup unclosed'
      BY ZenonT(30), <1>7, <2>1, <3>2 DEF Install
    <3>4. engine # None /\ Alone(h, Holding) /\ rules # None
      BY ZenonT(30), <2>1, <3>1 DEF Exclusive, Holding
    <3>5. \A g \in Handlers : op[g].pc \notin {"stop", "lift", "clear", "finish"}
      BY ZenonT(30), <2>1, <3>1 DEF Exclusive, Alone, Holding, Ending, SettingUp, TearingDown
    <3> QED
      BY <2>1, <3>1, <3>3, <3>4, <3>5
         DEF Exclusive, Bare, Alone, Moved, Holding, Ending, SettingUp, TearingDown
  <2> QED
    BY ZenonT(30), <2>1, <2>2 DEF SessionInv
<1> QED
  BY ZenonT(30), <1>2, <1>3, <1>4, <1>5, <1>6, <1>7

(* Disconnect: a handler that clears up is alone, and closes its own row.  *)
LEMMA DisconnectInv ==
    ASSUME SessionInv, NEW h \in Handlers,
           Disconnect(h) \/ Stop(h) \/ Clear(h) \/ Finish(h)
    PROVE  SessionInv'
<1>1. Shape /\ Formed /\ asked \in Nat
  BY ZenonT(30) DEF SessionInv, Shape
<1>2. CASE Disconnect(h)
  <2>1. Moved(h, "stop", None, conn) /\ op[h].pc = "idle" /\ Shape'
    <3>1. op[h].pc = "idle" /\ asked' \in Nat
      BY <1>1, <1>2 DEF Disconnect, Request, Idle, At
    <3>2. op' = [op EXCEPT ![h] = At("stop", None, <<>>, conn)]
      BY ZenonT(30), <1>2 DEF Disconnect
    <3>3. Formed' /\ Moved(h, "stop", None, conn)
      BY ZenonT(30), <1>1, <3>2, BeginMoves
    <3>4. Shape'
      BY ZenonT(30), <1>1, <3>1, <3>3, ShapeAfter
    <3> QED
      BY ZenonT(30), <3>1, <3>3, <3>4
  <2>2. ASSUME ~clash' PROVE Exclusive'
    <3>1. Exclusive /\ node # None /\ Alone(h, Ending)
          /\ UNCHANGED <<node, conn, engine, rules, rows, unclosed>>
      BY ZenonT(30), <1>2, <2>2 DEF SessionInv, Disconnect, Others, Alone, Ending
    <3> QED
      BY <2>1, <3>1
         DEF Exclusive, Bare, Alone, Moved, Holding, Ending, SettingUp, TearingDown
  <2> QED
    BY ZenonT(30), <2>1, <2>2 DEF SessionInv
<1>3. CASE Stop(h)
  <2>1. /\ op[h].pc = "stop" /\ Shape'
        /\ Moved(h, "clear", op[h].node, op[h].id) \/ Moved(h, "idle", None, 0)
    <3>1. op[h].pc = "stop" /\ asked' = asked /\ (Goto(h, "clear") \/ Done(h))
      BY ZenonT(30), <1>3 DEF Stop
    <3>2. CASE Goto(h, "clear")
      BY ZenonT(30), <1>1, <3>1, <3>2, GotoShape
    <3>3. CASE Done(h)
      BY ZenonT(30), <1>1, <3>1, <3>3, DoneMoves, ShapeAfter
    <3> QED
      BY ZenonT(30), <3>1, <3>2, <3>3
  <2>2. ASSUME ~clash' PROVE Exclusive'
    <3>1. Exclusive /\ Alone(h, SettingUp \cup TearingDown) /\ engine' = None
          /\ UNCHANGED <<node, conn, rules, rows, unclosed>>
      BY ZenonT(30), <1>3, <2>2 DEF SessionInv, Stop, Others, Alone
    <3>2. CASE Moved(h, "clear", op[h].node, op[h].id)
      BY <2>1, <3>1, <3>2
         DEF Exclusive, Bare, Alone, Moved, Holding, Ending, SettingUp, TearingDown
    <3>3. CASE Moved(h, "idle", None, 0)
      BY ZenonT(30), <2>1, <3>1, <3>3
         DEF Exclusive, Bare, Alone, Moved, Holding, Ending, SettingUp, TearingDown
    <3> QED
      BY ZenonT(30), <2>1, <3>2, <3>3
  <2> QED
    BY ZenonT(30), <2>1, <2>2 DEF SessionInv
<1>4. CASE Clear(h)
  <2>1. Moved(h, "finish", op[h].node, op[h].id) /\ op[h].pc = "clear" /\ Shape'
    BY ZenonT(30), <1>1, <1>4, GotoShape DEF Clear
  <2>2. ASSUME ~clash' PROVE Exclusive'
    <3>1. Exclusive /\ UNCHANGED <<node, conn, engine, rows, unclosed>>
      BY ZenonT(30), <1>4, <2>2 DEF SessionInv, Clear, ghosts
    <3> QED
      BY <2>1, <3>1
         DEF Exclusive, Bare, Alone, Moved, Holding, Ending, SettingUp, TearingDown
  <2> QED
    BY ZenonT(30), <2>1, <2>2 DEF SessionInv
<1>5. CASE Finish(h)
  <2>1. Moved(h, "idle", None, 0) /\ op[h].pc = "finish" /\ Shape'
    BY ZenonT(30), <1>1, <1>5, DoneMoves, ShapeAfter DEF Finish
  <2>2. ASSUME ~clash' PROVE Exclusive'
    <3>1. /\ Exclusive /\ node' = None /\ conn' = 0 /\ UNCHANGED <<engine, rules>>
          /\ \/ rows' = rows \ {op[h].id} /\ unclosed' = unclosed
             \/ rows' = rows /\ unclosed' = unclosed \cup {op[h].id}
      BY ZenonT(30), <1>5, <2>2 DEF SessionInv, Finish
    <3>2. op[h].id = conn /\ engine = None /\ Alone(h, SettingUp \cup TearingDown)
      BY ZenonT(30), <2>1, <3>1 DEF Exclusive, Ending
    <3>3. rows' \subseteq unclosed'
      BY ZenonT(30), <3>1, <3>2 DEF Exclusive
    <3> QED
      BY <2>1, <3>1, <3>2, <3>3
         DEF Exclusive, Bare, Alone, Moved, Holding, Ending, SettingUp, TearingDown
  <2> QED
    BY ZenonT(30), <2>1, <2>2 DEF SessionInv
<1> QED
  BY ZenonT(30), <1>2, <1>3, <1>4, <1>5

(* Circuits: a rotation moves the tunnel, and neither starts nor stops it. *)
LEMMA CircuitInv ==
    ASSUME SessionInv, NEW h \in Handlers,
           \/ BuildCircuitHops(h) \/ AutoCircuitHops(h) \/ setCircuit(h)
           \/ RotateCircuit(h) \/ PickExit(h) \/ RotateEndpoint(h) \/ CommitRotation(h)
    PROVE  SessionInv'
<1> USE SessionAssumption
<1>1. Shape /\ Formed /\ asked \in Nat
  BY ZenonT(30) DEF SessionInv, Shape
<1>2. ASSUME NEW pc \in {"idle", "set", "rotate", "move", "commit"}, NEW n, NEW i,
             Moved(h, pc, n, i), Formed', asked' \in Nat,
             pc \in {"move", "commit"} => n # None,
             op[h].pc \in {"idle", "set", "rotate", "move", "commit"},
             node' = None <=> node = None, engine' = None <=> engine = None,
             UNCHANGED <<rules, conn, rows, unclosed, clash>>
      PROVE  SessionInv'
  <2>1. Shape'
    BY ZenonT(30), <1>1, <1>2, ShapeAfter
  <2>2. pc \notin SettingUp \cup TearingDown /\ op[h].pc \notin SettingUp \cup TearingDown
    BY ZenonT(30), <1>2 DEF SettingUp, TearingDown
  <2>3. ASSUME ~clash' PROVE Exclusive'
    BY ZenonT(30), <1>2, <2>2, <2>3, AsideExclusive DEF SessionInv
  <2> QED
    BY ZenonT(30), <2>1, <2>3 DEF SessionInv
<1>3. CASE BuildCircuitHops(h) \/ AutoCircuitHops(h)
  <2>1. PICK p : op' = [op EXCEPT ![h] = At("set", None, p, 0)]
    BY ZenonT(30), <1>3 DEF BuildCircuitHops, AutoCircuitHops
  <2>2. op[h].pc = "idle" /\ asked' \in Nat /\ UNCHANGED <<node, engine, rules, conn, rows, unclosed, clash>>
    <3>1. Request(h) /\ UNCHANGED <<node, engine, rules, conn, rows, ghosts>>
      BY ZenonT(30), <1>3 DEF BuildCircuitHops, AutoCircuitHops
    <3> QED
      BY <1>1, <3>1 DEF Request, Idle, At, ghosts
  <2> QED
    BY ZenonT(30), <1>1, <1>2, <2>1, <2>2, BeginMoves
<1>4. CASE RotateCircuit(h)
  <2>1. op' = [op EXCEPT ![h] = At("rotate", None, circuit, 0)]
    BY ZenonT(30), <1>4 DEF RotateCircuit
  <2>2. op[h].pc = "idle" /\ asked' \in Nat /\ UNCHANGED <<node, engine, rules, conn, rows, unclosed, clash>>
    <3>1. Request(h) /\ UNCHANGED <<node, engine, rules, conn, rows, ghosts>>
      BY ZenonT(30), <1>4 DEF RotateCircuit
    <3> QED
      BY <1>1, <3>1 DEF Request, Idle, At, ghosts
  <2> QED
    BY ZenonT(30), <1>1, <1>2, <2>1, <2>2, BeginMoves
<1>5. CASE setCircuit(h)
  <2>1. Done(h) /\ op[h].pc = "set" /\ UNCHANGED <<asked, node, engine, rules, conn, rows, unclosed, clash>>
    BY ZenonT(30), <1>5 DEF setCircuit, ghosts
  <2> QED
    BY ZenonT(30), <1>1, <1>2, <2>1, DoneMoves
<1>6. CASE PickExit(h)
  <2>1. op[h].pc = "rotate" /\ UNCHANGED <<asked, node, engine, rules, conn, rows, unclosed, clash>>
    BY ZenonT(30), <1>6 DEF PickExit, ghosts
  <2>2. CASE Done(h)
    BY ZenonT(30), <1>1, <1>2, <2>1, <2>2, DoneMoves
  <2>3. ASSUME NEW n \in bestExcept(PathNodes(op[h].path), {}),
               op' = [op EXCEPT ![h].pc = "move", ![h].node = n]
        PROVE  SessionInv'
    <3>1. n # None
      BY ZenonT(30), <2>3 DEF bestExcept
    <3>2. Formed' /\ Moved(h, "move", n, op[h].id)
      <4>1. op' = [op EXCEPT ![h] = At("move", n, op[h].path, op[h].id)]
        BY ZenonT(30), <1>1, <2>3, RotateAt
      <4> QED
        BY ZenonT(30), <1>1, <4>1, BeginMoves
    <3> QED
      BY ZenonT(30), <1>1, <1>2, <2>1, <2>3, <3>1, <3>2
  <2> QED
    BY ZenonT(30), <1>6, <2>2, <2>3 DEF PickExit
<1>7. CASE RotateEndpoint(h)
  <2>1. op[h].pc = "move" /\ UNCHANGED <<asked, node, rules, conn, rows, unclosed, clash>>
    BY ZenonT(30), <1>7 DEF RotateEndpoint
  <2>2. op[h].node # None
    BY ZenonT(30), <1>1, <2>1 DEF Shape
  <2>3. engine' = None <=> engine = None
    BY ZenonT(30), <1>7, <2>2 DEF RotateEndpoint
  <2>4. CASE Goto(h, "commit")
    BY ZenonT(30), <1>1, <1>2, <2>1, <2>2, <2>3, <2>4, GotoMoves
  <2>5. CASE Done(h)
    BY ZenonT(30), <1>1, <1>2, <2>1, <2>3, <2>5, DoneMoves
  <2> QED
    BY ZenonT(30), <1>7, <2>4, <2>5 DEF RotateEndpoint
<1>8. CASE CommitRotation(h)
  <2>1. /\ Done(h) /\ op[h].pc = "commit" /\ UNCHANGED <<asked, engine, rules, conn, rows, unclosed, clash>>
        /\ node' = IF node = None THEN None ELSE op[h].node
    BY ZenonT(30), <1>8 DEF CommitRotation
  <2>2. op[h].node # None
    BY ZenonT(30), <1>1, <2>1 DEF Shape
  <2> QED
    BY ZenonT(30), <1>1, <1>2, <2>1, <2>2, DoneMoves
<1> QED
  BY ZenonT(30), <1>3, <1>4, <1>5, <1>6, <1>7, <1>8

(* The handlers of Connect, Disconnect and the circuit (app.go 293-416,    *)
(* circuit.go 65-356) keep the invariant, for any number of requests at a  *)
(* time.                                                                   *)
THEOREM SessionInvariant == SessionSpec => []SessionInv
<1>1. SessionInv /\ [SessionNext]_sessionVars => SessionInv'
  <2> SUFFICES ASSUME SessionInv, [SessionNext]_sessionVars PROVE SessionInv'
    BY ZenonT(30)
  <2>1. CASE SessionNext
    BY ZenonT(30), <2>1, ConnectInv, DisconnectInv, CircuitInv DEF SessionNext
  <2>2. CASE UNCHANGED sessionVars
    <3>1. UNCHANGED <<asked, op, engine, rules, conn, node, rows, unclosed, clash>>
      BY ZenonT(30), <2>2 DEF sessionVars, ghosts
    <3>2. Formed' <=> Formed
      BY ZenonT(30), <3>1 DEF Formed
    <3>3. Shape' <=> Shape
      BY ZenonT(30), <3>1, <3>2 DEF Shape
    <3>4. Exclusive' <=> Exclusive
      BY <3>1 DEF Exclusive, Bare, Alone
    <3> QED
      BY ZenonT(30), <3>1, <3>3, <3>4 DEF SessionInv
  <2> QED
    BY ZenonT(30), <2>1, <2>2
<1> QED
  BY <1>1, SessionInitInv, PTL DEF SessionSpec

(* A tunnel carries traffic without leak protection only between Start and *)
(* Apply of the Connect that started it (app.go 346-354, 398-402), unless  *)
(* handlers clashed.                                                       *)
THEOREM TunnelNeverBare == SessionSpec => []NeverBare
<1>1. SessionInv => NeverBare
  BY ZenonT(30) DEF SessionInv, Exclusive, Bare, NeverBare
<1> QED
  BY <1>1, SessionInvariant, PTL

(* Between requests a running tunnel belongs to a session, and a session   *)
(* has its leak protection and its open history row; every other open row  *)
(* is one that Disconnect failed to close (app.go 356, 404).               *)
THEOREM SessionsIntact == SessionSpec => []SessionIntact
<1>1. SessionInv => SessionIntact
  BY ZenonT(30) DEF SessionInv, Exclusive, SessionIntact, Quiet, Holding
<1> QED
  BY <1>1, SessionInvariant, PTL

-----------------------------------------------------------------------------
(***************************************************************************)
(* CircuitShown for any nodes, goroutines and requests.  It says what the  *)
(* status shows; what a goroutine is about to show has to be known before. *)
(* Distinct adds that a path chosen outside of the lock is separated when  *)
(* it is chosen, and stays so; Shown, that the endpoint of the tunnel is   *)
(* the node shown or the one a rotation is about to commit.                *)
(***************************************************************************)

(* A handler about to replace the circuit has a path that is separated, or *)
(* a node that goes with the hops it keeps.                                *)
Sound(r) ==
    /\ r.path \in Seq(Nodes)
    /\ r.pc \in {"start", "apply", "install", "move", "commit"} => r.node \in Nodes
    /\ r.pc = "set" => checkDistinct(r.path)
    /\ r.pc \in {"move", "commit"} => checkDistinct(Append(Kept(r.path), r.node))

Distinct ==
    /\ node \in Nodes \cup {None} /\ circuit \in Seq(Nodes)
    /\ \A h \in Handlers : Sound(op[h])
    /\ ~mixed => checkDistinct(circuit)

(* The tunnel's endpoint is the node that is shown, or about to be; and    *)
(* that of its Connect and of the rules, when no rotation moved it.        *)
Shown ==
    engine # None =>
        /\ ~swapped /\ ~adrift /\ node # None =>
              engine = node \/ \E h \in Handlers : op[h].pc = "commit" /\ op[h].node = engine
        /\ ~moved =>
              /\ \A h \in Handlers : op[h].pc \in Holding => op[h].node = engine
              /\ (\A h \in Handlers : op[h].pc \notin {"apply", "undo"}) => rules = engine

(* A circuit of one hop is separated.                                      *)
LEMMA OneHop == ASSUME NEW n \in Nodes PROVE <<n>> \in Seq(Nodes) /\ checkDistinct(<<n>>)
<1>1. <<n>> \in Seq(Nodes) /\ DOMAIN <<n>> = {1}
  OBVIOUS
<1> QED
  BY <1>1 DEF checkDistinct

(* A path that can be built is a separated sequence of nodes.              *)
LEMMA BuildablePath ==
    ASSUME NEW p \in Buildable
    PROVE  p \in Seq(Nodes) /\ checkDistinct(p)
<1>1. PICK k \in 1..3 : p \in [1..k -> Nodes]
  BY ZenonT(30) DEF Buildable
<1>2. checkDistinct(p)
  BY ZenonT(30) DEF Buildable, BuildRoute
<1> QED
  BY <1>1, <1>2

(* The last hop is replaced: the hops before it and the new one.           *)
LEMMA LastReplaced ==
    ASSUME NEW p \in Seq(Nodes), NEW n \in Nodes, Len(p) > 1
    PROVE  ReplaceExit(p, n) = Append(Kept(p), n) /\ ReplaceExit(p, n) \in Seq(Nodes)
<1>1. Kept(p) = [i \in 1..(Len(p) - 1) |-> p[i]] /\ Kept(p) \in Seq(Nodes)
      /\ Len(Kept(p)) = Len(p) - 1
  BY DEF Kept
<1>2. ReplaceExit(p, n) \in Seq(Nodes) /\ Len(ReplaceExit(p, n)) = Len(p)
  BY DEF ReplaceExit
<1>3. Append(Kept(p), n) \in Seq(Nodes) /\ Len(Append(Kept(p), n)) = Len(p)
  BY <1>1
<1>4. \A i \in 1..Len(p) : ReplaceExit(p, n)[i] = Append(Kept(p), n)[i]
  BY <1>1 DEF ReplaceExit
<1> QED
  BY <1>2, <1>3, <1>4

(* A hop with nothing after it is a path of one hop.                       *)
LEMMA HopAlone ==
    ASSUME NEW m \in Nodes
    PROVE  <<m>> \o <<>> = <<m>>
<1> DEFINE one == <<m>>
<1>1. one \in Seq(Nodes)
  OBVIOUS
<1>2. <<>> \in Seq(Nodes) /\ Len(<<>>) = 0
  OBVIOUS
<1> HIDE DEF one
<1>3. one \o <<>> = one
  BY <1>1, <1>2
<1> QED
  BY ZenonT(30), <1>3 DEF one

(* bestExcept picks among the nodes.                                       *)
LEMMA BestUsable ==
    ASSUME NEW out, NEW region
    PROVE  bestExcept(out, region) \subseteq Nodes
BY ZenonT(30), SessionAssumption DEF bestExcept

(* What AutoCircuitHops gathers are paths of one to three nodes.           *)
LEMMA GatheredPath ==
    ASSUME NEW x \in Nodes, NEW k \in 1..3, NEW p \in Gathered(x, k)
    PROVE  p \in Seq(Nodes) /\ Len(p) \in {1, 2, 3}
<1> DEFINE two == {<<e, x>> : e \in bestExcept({x}, EntryRegion)}
           three(q) == {<<m, q[1], x>> : m \in Usable \ PathNodes(q)}
<1>1. ASSUME NEW q \in two PROVE q \in Seq(Nodes) /\ Len(q) = 2 /\ q[1] \in Nodes
  <2>1. PICK e \in Nodes : q = <<e, x>>
    BY ZenonT(30), <1>1, BestUsable
  <2> QED
    BY <2>1
<1>2. ASSUME NEW q \in two, NEW r \in three(q) PROVE r \in Seq(Nodes) /\ Len(r) = 3
  <2>1. PICK m \in Nodes : r = <<m, q[1], x>>
    BY ZenonT(30), <1>2, SessionAssumption
  <2>2. q[1] \in Nodes
    BY ZenonT(30), <1>1, <1>2
  <2> QED
    BY <2>1, <2>2
<1>3. p = <<x>> \/ p \in two \/ \E q \in two : p \in three(q)
  <2>1. k = 1 \/ k = 2 \/ (k # 1 /\ k # 2)
    BY ZenonT(30)
  <2> QED
    BY ZenonT(30), <2>1 DEF Gathered
<1> HIDE DEF two, three
<1>4. <<x>> \in Seq(Nodes) /\ Len(<<x>>) = 1
  OBVIOUS
<1> QED
  BY ZenonT(30), <1>1, <1>2, <1>3, <1>4

(* What is left of them is separated.                                      *)
LEMMA ThinnedPath ==
    ASSUME NEW p \in Seq(Nodes), Len(p) \in {1, 2, 3}
    PROVE  Thinned(p) \in Seq(Nodes) /\ checkDistinct(Thinned(p))
<1> DEFINE rest == <<p[1]>> \o SubSeq(p, 3, Len(p))
<1>0. p[1] \in Nodes
  OBVIOUS
<1>1. ASSUME Len(p) = 2 PROVE rest = <<p[1]>>
  <2>1. SubSeq(p, 3, Len(p)) = <<>>
    BY <1>1
  <2> QED
    BY ZenonT(30), <1>0, <2>1, HopAlone
<1>2. Thinned(p) \in Buildable \/ Thinned(p) = <<p[1]>>
  BY ZenonT(30), <1>1 DEF Thinned
<1> QED
  BY ZenonT(30), <1>0, <1>2, OneHop, BuildablePath

(* What a handler carries at each place.                                   *)
LEMMA SoundAt ==
    ASSUME NEW pc, NEW n, NEW p \in Seq(Nodes), NEW i,
           pc \in {"start", "apply", "install", "move", "commit"} => n \in Nodes,
           pc = "set" => checkDistinct(p),
           pc \in {"move", "commit"} => checkDistinct(Append(Kept(p), n))
    PROVE  Sound(At(pc, n, p, i))
BY ZenonT(30) DEF Sound, At

(* A step of one handler, which may replace the node and the circuit.      *)
LEMMA DistinctAfter ==
    ASSUME Formed, Distinct, NEW h \in Handlers, NEW r, Sound(r), op' = [op EXCEPT ![h] = r],
           node' \in Nodes \cup {None}, circuit' \in Seq(Nodes),
           ~mixed' => checkDistinct(circuit')
    PROVE  Distinct'
<1>1. op'[h] = r /\ \A g \in Handlers : g # h => op'[g] = op[g]
  BY ZenonT(30) DEF Formed
<1>2. \A g \in Handlers : Sound(op'[g])
  BY ZenonT(30), <1>1 DEF Distinct
<1> QED
  BY ZenonT(30), <1>2 DEF Distinct

(* Steps that leave the circuit and the node alone, and ends of requests.  *)
LEMMA DistinctOn ==
    ASSUME Formed, Distinct, NEW h \in Handlers, NEW pc, Goto(h, pc),
           pc \notin {"set", "move", "commit", "start"},
           pc \in {"apply", "install"} => op[h].pc \in {"start", "apply"},
           UNCHANGED <<node, circuit, mixed>>
    PROVE  Distinct'
<1>1. op' = [op EXCEPT ![h] = At(pc, op[h].node, op[h].path, op[h].id)]
  BY ZenonT(30), GotoAt
<1>2. Sound(op[h])
  BY ZenonT(30) DEF Distinct
<1>3. op[h].path \in Seq(Nodes) /\ (pc \in {"apply", "install"} => op[h].node \in Nodes)
  BY ZenonT(30), <1>2 DEF Sound
<1>4. Sound(At(pc, op[h].node, op[h].path, op[h].id))
  BY ZenonT(30), <1>3, SoundAt
<1> QED
  BY ZenonT(30), <1>1, <1>4, DistinctAfter DEF Distinct

(* A handler that ends keeps Distinct if the session it leaves does.       *)
LEMMA DistinctDone ==
    ASSUME Formed, Distinct, NEW h \in Handlers, Done(h),
           node' \in Nodes \cup {None}, circuit' \in Seq(Nodes),
           ~mixed' => checkDistinct(circuit')
    PROVE  Distinct'
<1>1. <<>> \in Seq(Nodes)
  OBVIOUS
<1>2. Sound(Idle)
  BY ZenonT(30), <1>1, SoundAt DEF Idle
<1> QED
  BY ZenonT(30), <1>2, DistinctAfter DEF Done

(* Connect and Disconnect.                                                 *)
LEMMA SessionDistinct ==
    ASSUME Formed, Distinct, NEW h \in Handlers,
           \/ Connect(h) \/ Start(h) \/ applyEnforcement(h) \/ Abort(h) \/ Lift(h)
           \/ Install(h) \/ Disconnect(h) \/ Stop(h) \/ Clear(h) \/ Finish(h)
    PROVE  Distinct'
<1>0. /\ node \in Nodes \cup {None} /\ circuit \in Seq(Nodes)
      /\ ~mixed => checkDistinct(circuit)
      /\ <<>> \in Seq(Nodes)
  BY DEF Distinct
<1>1. CASE Connect(h)
  <2>1. PICK n \in Nodes : op' = [op EXCEPT ![h] = At("start", n, <<>>, asked')]
    BY ZenonT(30), <1>1 DEF Connect
  <2>2. UNCHANGED <<node, circuit, mixed>>
    BY ZenonT(30), <1>1 DEF Connect
  <2>3. Sound(At("start", n, <<>>, asked'))
    BY ZenonT(30), <1>0, SoundAt
  <2> QED
    BY ZenonT(30), <1>0, <2>1, <2>2, <2>3, DistinctAfter
<1>2. CASE Start(h)
  BY ZenonT(30), <1>0, <1>2, DistinctOn, DistinctDone DEF Start
<1>3. CASE applyEnforcement(h)
  BY ZenonT(30), <1>3, DistinctOn DEF applyEnforcement, ghosts
<1>4. CASE Abort(h)
  BY ZenonT(30), <1>4, DistinctOn DEF Abort
<1>5. CASE Lift(h)
  BY ZenonT(30), <1>0, <1>5, DistinctDone DEF Lift, ghosts
<1>6. CASE Install(h)
  <2>1. op[h].node \in Nodes
    BY ZenonT(30), <1>6 DEF Install, Distinct, Sound
  <2> QED
    BY ZenonT(30), <1>0, <1>6, <2>1, DistinctDone DEF Install
<1>7. CASE Disconnect(h)
  <2>1. op' = [op EXCEPT ![h] = At("stop", None, <<>>, conn)] /\ UNCHANGED <<node, circuit, mixed>>
    BY ZenonT(30), <1>7 DEF Disconnect
  <2>2. Sound(At("stop", None, <<>>, conn))
    BY ZenonT(30), <1>0, SoundAt
  <2> QED
    BY ZenonT(30), <1>0, <2>1, <2>2, DistinctAfter
<1>8. CASE Stop(h)
  BY ZenonT(30), <1>0, <1>8, DistinctOn, DistinctDone DEF Stop
<1>9. CASE Clear(h)
  BY ZenonT(30), <1>9, DistinctOn DEF Clear, ghosts
<1>10. CASE Finish(h)
  <2>1. <<>> \in Seq(Nodes) /\ checkDistinct(<<>>)
    BY DEF checkDistinct
  <2> QED
    BY ZenonT(30), <1>10, <2>1, DistinctDone DEF Finish
<1> QED
  BY ZenonT(30), <1>1, <1>2, <1>3, <1>4, <1>5, <1>6, <1>7, <1>8, <1>9, <1>10

(* The builders refuse what is not separated; a rotation checks the path   *)
(* it makes of the circuit it read.                                        *)
LEMMA CircuitDistinct ==
    ASSUME Formed, Distinct, NEW h \in Handlers,
           \/ BuildCircuitHops(h) \/ AutoCircuitHops(h) \/ setCircuit(h)
           \/ RotateCircuit(h) \/ PickExit(h) \/ RotateEndpoint(h) \/ CommitRotation(h)
    PROVE  Distinct'
<1>0. /\ node \in Nodes \cup {None} /\ circuit \in Seq(Nodes)
      /\ ~mixed => checkDistinct(circuit)
      /\ Sound(op[h])
  BY ZenonT(30) DEF Distinct
<1>1. ASSUME NEW p \in Seq(Nodes), checkDistinct(p), UNCHANGED <<node, circuit, mixed>>,
             op' = [op EXCEPT ![h] = At("set", None, p, 0)]
      PROVE  Distinct'
  <2>1. Sound(At("set", None, p, 0))
    BY ZenonT(30), <1>1, SoundAt
  <2> QED
    BY ZenonT(30), <1>0, <1>1, <2>1, DistinctAfter
<1>2. CASE BuildCircuitHops(h)
  <2>1. PICK p \in Buildable : op' = [op EXCEPT ![h] = At("set", None, p, 0)]
    BY ZenonT(30), <1>2 DEF BuildCircuitHops
  <2> QED
    BY ZenonT(30), <1>1, <1>2, <2>1, BuildablePath DEF BuildCircuitHops, ghosts
<1>3. CASE AutoCircuitHops(h)
  <2>0. PICK k \in 1..3 : \E p \in Gathered(node, k) :
           op' = [op EXCEPT ![h] = At("set", None, Thinned(p), 0)]
    BY ZenonT(30), <1>3 DEF AutoCircuitHops
  <2>1. PICK p \in Gathered(node, k) : op' = [op EXCEPT ![h] = At("set", None, Thinned(p), 0)]
    BY ZenonT(30), <2>0
  <2>2. node \in Nodes
    BY ZenonT(30), <1>0, <1>3 DEF AutoCircuitHops
  <2>3. Thinned(p) \in Seq(Nodes) /\ checkDistinct(Thinned(p))
    BY ZenonT(30), <2>1, <2>2, GatheredPath, ThinnedPath
  <2> QED
    BY ZenonT(30), <1>1, <1>3, <2>1, <2>3 DEF AutoCircuitHops, ghosts
<1>4. CASE setCircuit(h)
  <2>1. op[h].path \in Seq(Nodes) /\ checkDistinct(op[h].path)
    BY ZenonT(30), <1>0, <1>4 DEF setCircuit, Sound
  <2> QED
    BY ZenonT(30), <1>0, <1>4, <2>1, DistinctDone DEF setCircuit, ghosts
<1>5. CASE RotateCircuit(h)
  <2>1. Sound(At("rotate", None, circuit, 0))
    BY ZenonT(30), <1>0, SoundAt
  <2> QED
    BY ZenonT(30), <1>0, <1>5, <2>1, DistinctAfter DEF RotateCircuit, ghosts
<1>6. CASE PickExit(h)
  <2>1. UNCHANGED <<node, circuit, mixed>>
    BY ZenonT(30), <1>6 DEF PickExit, ghosts
  <2>2. ASSUME NEW n \in bestExcept(PathNodes(op[h].path), {}),
               Append(Kept(op[h].path), n) \in Buildable,
               op' = [op EXCEPT ![h].pc = "move", ![h].node = n]
        PROVE  Distinct'
    <3>1. op' = [op EXCEPT ![h] = At("move", n, op[h].path, op[h].id)]
      BY ZenonT(30), <2>2, RotateAt
    <3>2. n \in Nodes /\ op[h].path \in Seq(Nodes)
      BY ZenonT(30), <1>0, BestUsable DEF Sound
    <3>3. checkDistinct(Append(Kept(op[h].path), n))
      BY ZenonT(30), <2>2, BuildablePath
    <3>4. Sound(At("move", n, op[h].path, op[h].id))
      BY ZenonT(30), <3>2, <3>3, SoundAt
    <3> QED
      BY ZenonT(30), <1>0, <2>1, <3>1, <3>4, DistinctAfter
  <2>3. CASE Done(h)
    BY ZenonT(30), <1>0, <2>1, <2>3, DistinctDone
  <2> QED
    BY ZenonT(30), <1>6, <2>2, <2>3 DEF PickExit
<1>7. CASE RotateEndpoint(h)
  <2>1. op[h].pc = "move" /\ UNCHANGED <<node, circuit, mixed>>
    BY ZenonT(30), <1>7 DEF RotateEndpoint
  <2>2. CASE Goto(h, "commit")
    <3>1. op' = [op EXCEPT ![h] = At("commit", op[h].node, op[h].path, op[h].id)]
      BY ZenonT(30), <2>2, GotoAt
    <3>2. /\ op[h].node \in Nodes /\ op[h].path \in Seq(Nodes)
          /\ checkDistinct(Append(Kept(op[h].path), op[h].node))
      BY ZenonT(30), <1>0, <2>1 DEF Sound
    <3>3. Sound(At("commit", op[h].node, op[h].path, op[h].id))
      BY ZenonT(30), <3>2, SoundAt
    <3> QED
      BY ZenonT(30), <1>0, <2>1, <3>1, <3>3, DistinctAfter
  <2>3. CASE Done(h)
    BY ZenonT(30), <1>0, <2>1, <2>3, DistinctDone
  <2> QED
    BY ZenonT(30), <1>7, <2>2, <2>3 DEF RotateEndpoint
<1>8. CASE CommitRotation(h)
  <2> DEFINE n == op[h].node
  <2>1. n \in Nodes /\ checkDistinct(Append(Kept(op[h].path), n))
    BY ZenonT(30), <1>0, <1>8 DEF CommitRotation, Sound
  <2>2. node' \in Nodes \cup {None}
    BY ZenonT(30), <1>8, <2>1 DEF CommitRotation
  <2>3. /\ circuit' = IF Len(circuit) > 1 THEN ReplaceExit(circuit, n) ELSE <<n>>
        /\ ~mixed' => Kept(circuit) = Kept(op[h].path)
        /\ Done(h)
    BY ZenonT(30), <1>8 DEF CommitRotation
  <2> HIDE DEF n
  <2>4. circuit' \in Seq(Nodes) /\ (~mixed' => checkDistinct(circuit'))
    BY ZenonT(30), <1>0, <2>1, <2>3, OneHop, LastReplaced
  <2> QED
    BY ZenonT(30), <2>2, <2>3, <2>4, DistinctDone
<1> QED
  BY ZenonT(30), <1>2, <1>3, <1>4, <1>5, <1>6, <1>7, <1>8

(* A step that is neither of Connect between Start and the session, nor of *)
(* a rotation that moved the tunnel, and leaves both where they are.       *)
LEMMA ShownAside ==
    ASSUME Shown, NEW h \in Handlers, NEW pc, NEW n, NEW i, Moved(h, pc, n, i),
           op[h].pc \notin Holding \cup {"commit"}, pc \notin Holding \cup {"commit"},
           UNCHANGED <<engine, node, rules, swapped, moved, adrift>>
    PROVE  Shown'
<1>1. \A g \in Handlers : op[g].pc \in Holding \cup {"commit"} => op'[g] = op[g]
  BY ZenonT(30) DEF Moved
<1>2. \A g \in Handlers : op'[g].pc \in Holding \cup {"commit"} => op'[g] = op[g]
  BY ZenonT(30) DEF Moved
<1> QED
  BY ZenonT(30), <1>1, <1>2 DEF Shown, Holding

(* Connect.                                                                *)
LEMMA ConnectShown ==
    ASSUME SessionInv, Exclusive, Shown, ~clash', NEW h \in Handlers,
           Connect(h) \/ Start(h) \/ applyEnforcement(h) \/ Abort(h) \/ Lift(h) \/ Install(h)
    PROVE  Shown'
<1>0. Formed
  BY ZenonT(30) DEF SessionInv, Shape
<1>1. CASE Connect(h)
  <2>1. PICK n \in Nodes : op' = [op EXCEPT ![h] = At("start", n, <<>>, asked')]
    BY ZenonT(30), <1>1 DEF Connect
  <2>2. Moved(h, "start", n, asked')
    BY ZenonT(30), <1>0, <2>1, BeginMoves
  <2>3. op[h].pc = "idle" /\ UNCHANGED <<engine, node, rules, swapped, moved, adrift>>
    BY ZenonT(30), <1>1, RequestIdle DEF Connect
  <2> QED
    BY ZenonT(30), <2>2, <2>3, ShownAside DEF Holding
<1>2. CASE Start(h)
  <2>1. CASE engine = None /\ engine' = op[h].node /\ Goto(h, "apply") /\ moved' = FALSE
    <3>1. Moved(h, "apply", op[h].node, op[h].id)
      BY ZenonT(30), <1>0, <2>1, GotoMoves
    <3>2. node' = None /\ \A g \in Handlers : op[g].pc \notin Holding
      BY ZenonT(30), <1>2, <2>1 DEF Start, Exclusive
    <3> QED
      BY ZenonT(30), <2>1, <3>1, <3>2 DEF Shown, Moved, Holding
  <2>2. CASE UNCHANGED <<engine, moved, adrift>> /\ Done(h)
    <3>1. Moved(h, "idle", None, 0)
      BY ZenonT(30), <1>0, <2>2, DoneMoves
    <3>2. op[h].pc = "start" /\ UNCHANGED <<engine, node, rules, swapped, moved, adrift>>
      BY ZenonT(30), <1>2, <2>2 DEF Start
    <3> QED
      BY ZenonT(30), <3>1, <3>2, ShownAside DEF Holding
  <2> QED
    BY ZenonT(30), <1>2, <2>1, <2>2 DEF Start
<1>3. CASE applyEnforcement(h)
  <2>1. op[h].pc = "apply" /\ UNCHANGED <<engine, node, swapped, moved, adrift>>
    BY ZenonT(30), <1>3 DEF applyEnforcement, ghosts
  <2>2. \A g \in Handlers : g # h => op[g].pc \notin Holding
    BY ZenonT(30), <2>1 DEF Exclusive, Alone, Holding
  <2>3. CASE rules' = op[h].node /\ Goto(h, "install")
    <3>1. Moved(h, "install", op[h].node, op[h].id)
      BY ZenonT(30), <1>0, <2>3, GotoMoves
    <3> QED
      BY ZenonT(30), <2>1, <2>2, <2>3, <3>1 DEF Shown, Moved, Holding
  <2>4. CASE Goto(h, "undo")
    <3>1. Moved(h, "undo", op[h].node, op[h].id)
      BY ZenonT(30), <1>0, <2>4, GotoMoves
    <3> QED
      BY ZenonT(30), <2>1, <2>2, <3>1 DEF Shown, Moved, Holding
  <2> QED
    BY ZenonT(30), <1>3, <2>3, <2>4 DEF applyEnforcement
<1>4. CASE Abort(h)
  BY ZenonT(30), <1>4 DEF Abort, Shown
<1>5. CASE Lift(h)
  BY ZenonT(30), <1>5 DEF Lift, Exclusive, Ending, Shown
<1>6. CASE Install(h)
  <2>1. /\ op[h].pc = "install" /\ UNCHANGED <<engine, rules, moved, adrift>> /\ node' = op[h].node
        /\ ~swapped' => ~swapped /\ engine \in {node', None}
    BY ZenonT(30), <1>6 DEF Install
  <2>2. Moved(h, "idle", None, 0)
    BY ZenonT(30), <1>0, <1>6, DoneMoves DEF Install
  <2>3. \A g \in Handlers : g # h => op[g].pc \notin Holding
    BY ZenonT(30), <2>1 DEF Exclusive, Alone, Holding
  <2> QED
    BY ZenonT(30), <2>1, <2>2, <2>3 DEF Shown, Moved, Holding
<1> QED
  BY ZenonT(30), <1>1, <1>2, <1>3, <1>4, <1>5, <1>6

(* Disconnect, and the circuits.                                           *)
LEMMA RestShown ==
    ASSUME SessionInv, Exclusive, Shown, ~clash', NEW h \in Handlers,
           \/ Disconnect(h) \/ Stop(h) \/ Clear(h) \/ Finish(h)
           \/ BuildCircuitHops(h) \/ AutoCircuitHops(h) \/ setCircuit(h)
           \/ RotateCircuit(h) \/ PickExit(h) \/ RotateEndpoint(h) \/ CommitRotation(h)
    PROVE  Shown'
<1>0. Formed
  BY ZenonT(30) DEF SessionInv, Shape
<1>1. CASE Stop(h)
  BY ZenonT(30), <1>1 DEF Stop, Shown
<1>2. CASE Clear(h) \/ Finish(h)
  BY ZenonT(30), <1>2 DEF Clear, Finish, Exclusive, Ending, Shown
<1>3. ASSUME NEW pc \in {"stop", "set", "rotate"}, NEW p, NEW i,
             op' = [op EXCEPT ![h] = At(pc, None, p, i)], Request(h),
             UNCHANGED <<engine, node, rules, swapped, moved, adrift>>
      PROVE  Shown'
  <2>1. Moved(h, pc, None, i)
    BY ZenonT(30), <1>0, <1>3, BeginMoves
  <2>2. op[h].pc = "idle"
    BY ZenonT(30), <1>3, RequestIdle
  <2>3. op[h].pc \notin Holding \cup {"commit"} /\ pc \notin Holding \cup {"commit"}
    BY ZenonT(30), <1>3, <2>2 DEF Holding
  <2> QED
    BY ZenonT(30), <1>3, <2>1, <2>3, ShownAside
<1>4. CASE Disconnect(h)
  BY ZenonT(30), <1>3, <1>4 DEF Disconnect
<1>5. CASE BuildCircuitHops(h)
  BY ZenonT(30), <1>3, <1>5 DEF BuildCircuitHops, ghosts
<1>6. CASE AutoCircuitHops(h)
  BY ZenonT(30), <1>3, <1>6 DEF AutoCircuitHops, ghosts
<1>7. CASE RotateCircuit(h)
  BY ZenonT(30), <1>3, <1>7 DEF RotateCircuit, ghosts
<1>8. ASSUME Done(h), op[h].pc \in {"set", "rotate", "move"},
             UNCHANGED <<engine, node, rules, swapped, moved, adrift>>
      PROVE  Shown'
  <2>1. Moved(h, "idle", None, 0)
    BY ZenonT(30), <1>0, <1>8, DoneMoves
  <2> QED
    BY ZenonT(30), <1>8, <2>1, ShownAside DEF Holding
<1>9. CASE setCircuit(h)
  BY ZenonT(30), <1>8, <1>9 DEF setCircuit, ghosts
<1>10. CASE PickExit(h)
  <2>1. op[h].pc = "rotate" /\ UNCHANGED <<engine, node, rules, swapped, moved, adrift>>
    BY ZenonT(30), <1>10 DEF PickExit, ghosts
  <2>2. ASSUME NEW n, op' = [op EXCEPT ![h].pc = "move", ![h].node = n]
        PROVE  Shown'
    <3>1. op' = [op EXCEPT ![h] = At("move", n, op[h].path, op[h].id)]
      BY ZenonT(30), <1>0, <2>2, RotateAt
    <3>2. Moved(h, "move", n, op[h].id)
      BY ZenonT(30), <1>0, <3>1, BeginMoves
    <3> QED
      BY ZenonT(30), <2>1, <3>2, ShownAside DEF Holding
  <2> QED
    BY ZenonT(30), <1>8, <1>10, <2>1, <2>2 DEF PickExit
<1>11. CASE RotateEndpoint(h)
  <2>1. /\ op[h].pc = "move" /\ UNCHANGED <<node, rules, swapped>>
        /\ ~moved' => ~moved /\ engine' = engine
    BY ZenonT(30), <1>11 DEF RotateEndpoint
  <2>2. CASE engine' = op[h].node /\ Goto(h, "commit")
    <3>1. Moved(h, "commit", op[h].node, op[h].id)
      BY ZenonT(30), <1>0, <2>2, GotoMoves
    <3> QED
      BY ZenonT(30), <2>1, <2>2, <3>1 DEF Shown, Moved, Holding
  <2>3. CASE Done(h) /\ adrift' = (adrift \/ engine' # engine)
    <3>1. Moved(h, "idle", None, 0)
      BY ZenonT(30), <1>0, <2>3, DoneMoves
    <3>2. CASE engine' = engine
      BY ZenonT(30), <2>1, <2>3, <3>1, <3>2 DEF Shown, Moved, Holding
    <3>3. CASE engine' # engine
      BY ZenonT(30), <2>1, <2>3, <3>3 DEF Shown
    <3> QED
      BY ZenonT(30), <3>2, <3>3
  <2> QED
    BY ZenonT(30), <1>11, <2>2, <2>3 DEF RotateEndpoint
<1>12. CASE CommitRotation(h)
  <2>1. /\ op[h].pc = "commit" /\ UNCHANGED <<engine, rules, moved, adrift>>
        /\ node' # None => node' = op[h].node
        /\ ~swapped' => engine \in {op[h].node, None}
    BY ZenonT(30), <1>12 DEF CommitRotation
  <2>2. Moved(h, "idle", None, 0)
    BY ZenonT(30), <1>0, <1>12, DoneMoves DEF CommitRotation
  <2> QED
    BY ZenonT(30), <2>1, <2>2 DEF Shown, Moved, Holding
<1> QED
  BY ZenonT(30), <1>1, <1>2, <1>4, <1>5, <1>6, <1>7, <1>9, <1>10, <1>11, <1>12

(* The node the client shows is the one its tunnel uses, its leak          *)
(* protection lets that node through until a rotation, and the circuit is  *)
(* separated, whatever requests overlap, but for those that CircuitShown   *)
(* names (app.go 293-416, circuit.go 65-356).                              *)
THEOREM CircuitAlwaysShown == SessionSpec => []CircuitShown
<1> DEFINE Inv == Distinct /\ (~clash => Shown)
<1>1. SessionInit => Inv
  <2> SUFFICES ASSUME SessionInit PROVE Inv
    BY ZenonT(30)
  <2>1. <<>> \in Seq(Nodes) /\ checkDistinct(<<>>)
    BY DEF checkDistinct
  <2>2. Sound(At("idle", None, <<>>, 0))
    BY ZenonT(30), <2>1, SoundAt
  <2>3. \A h \in Handlers : Sound(op[h])
    BY ZenonT(30), <2>2 DEF SessionInit, Idle
  <2> QED
    BY ZenonT(30), <2>1, <2>3 DEF SessionInit, Distinct, Shown
<1>2. SessionInv /\ Inv /\ [SessionNext]_sessionVars => Inv'
  <2> SUFFICES ASSUME SessionInv, Inv, [SessionNext]_sessionVars PROVE Inv'
    BY ZenonT(30)
  <2>1. CASE UNCHANGED sessionVars
    BY ZenonT(30), <2>1 DEF sessionVars, ghosts, Distinct, Shown
  <2>2. ASSUME NEW h \in Handlers,
               \/ Connect(h) \/ Start(h) \/ applyEnforcement(h) \/ Abort(h) \/ Lift(h)
               \/ Install(h) \/ Disconnect(h) \/ Stop(h) \/ Clear(h) \/ Finish(h)
               \/ BuildCircuitHops(h) \/ AutoCircuitHops(h) \/ setCircuit(h)
               \/ RotateCircuit(h) \/ PickExit(h) \/ RotateEndpoint(h) \/ CommitRotation(h)
        PROVE  Inv'
    <3>1. Formed /\ (~clash => Exclusive)
      BY ZenonT(30) DEF SessionInv, Shape
    <3>2. Distinct'
      BY ZenonT(30), <2>2, <3>1, SessionDistinct, CircuitDistinct
    <3>3. clash => clash'
      BY ZenonT(30), <2>2 DEF Connect, Start, applyEnforcement, Abort, Lift, Install,
         Disconnect, Stop, Clear, Finish, BuildCircuitHops, AutoCircuitHops, setCircuit,
         RotateCircuit, PickExit, RotateEndpoint, CommitRotation, ghosts
    <3>4. ASSUME ~clash' PROVE Shown'
      BY ZenonT(30), <2>2, <3>1, <3>3, <3>4, ConnectShown, RestShown
    <3> QED
      BY ZenonT(30), <3>2, <3>4
  <2> QED
    BY ZenonT(30), <2>1, <2>2 DEF SessionNext
<1>3. SessionInv /\ Inv => CircuitShown
  BY ZenonT(30) DEF SessionInv, Exclusive, Distinct, Shown, CircuitShown, Quiet, Holding
<1> QED
  BY <1>1, <1>2, <1>3, SessionInvariant, PTL DEF SessionSpec

-----------------------------------------------------------------------------
(***************************************************************************)
(* SchemaBeforeUse for any number of processes, migrations and statements. *)
(* By itself it is not inductive: it says nothing of a process that has    *)
(* run some statements and not yet written the version.  ProgressOf adds   *)
(* that: what a process counts as done was executed, by it or by another.  *)
(***************************************************************************)

(* Every statement of the first n migrations was executed.                 *)
Complete(n) ==
    \A m \in 1..Len(migrations) : m <= n => \A i \in 1..migrations[m] : <<m, i>> \in created

SchemaTypeOK ==
    /\ version \in Seq(Versions)
    /\ at \in [Openers -> [pc : {"closed", "read", "insert", "step", "mark", "ready"},
                           v : Versions, i : Nat \ {0}]]

(* What process p counts as done was executed.                             *)
ProgressOf(p) ==
    /\ at[p].pc \in {"step", "mark", "ready"} => Complete(at[p].v)
    /\ at[p].pc = "ready" => at[p].v = Len(migrations)
    /\ at[p].pc = "step" /\ at[p].v < Len(migrations) =>
          \A i \in 1..migrations[at[p].v + 1] : i < at[p].i => <<at[p].v + 1, i>> \in created
    /\ at[p].pc = "mark" =>
          /\ at[p].v < Len(migrations)
          /\ \A i \in 1..migrations[at[p].v + 1] : <<at[p].v + 1, i>> \in created

Honest == \A j \in DOMAIN version : Complete(version[j])

SchemaInv == SchemaTypeOK /\ Honest /\ \A p \in Openers : ProgressOf(p)

(* Nothing that was executed is undone, so what was complete stays so.     *)
LEMMA CompleteKept ==
    ASSUME created \subseteq created', NEW n \in Versions, Complete(n)
    PROVE  /\ Complete(n)'
           /\ \A m \in 1..Len(migrations) :
                 m <= n => \A i \in 1..migrations[m] : <<m, i>> \in created'
BY ZenonT(30) DEF Complete, Versions

(* Nothing is complete before the first migration, trivially.              *)
LEMMA CompleteNone == Complete(0) /\ 0 \in Versions
BY SchemaAssumption DEF Complete, Versions

(* Initially no row and no process claims anything.                        *)
LEMMA SchemaInitInv == SchemaInit => SchemaInv
BY SchemaAssumption
   DEF SchemaInit, SchemaInv, SchemaTypeOK, Honest, ProgressOf, Closed, Place, Versions

(* A row of version, or the place of a process, is a version.              *)
LEMMA Bounded ==
    ASSUME SchemaTypeOK
    PROVE  /\ \A j \in DOMAIN version : version[j] \in Versions
           /\ \A p \in Openers : at[p].v \in Versions /\ at[p].i \in Nat \ {0}
BY DEF SchemaTypeOK

(* A process that does not move keeps what it counts as done.              *)
LEMMA OthersKept ==
    ASSUME SchemaTypeOK, created \subseteq created', NEW q \in Openers,
           at'[q] = at[q], ProgressOf(q)
    PROVE  ProgressOf(q)'
<1>1. at[q].v \in Versions
  BY ZenonT(30), Bounded
<1>2. at[q].pc \in {"step", "mark", "ready"} => Complete(at[q].v)'
  BY ZenonT(30), <1>1, CompleteKept DEF ProgressOf
<1> QED
  BY ZenonT(30), <1>2 DEF ProgressOf, Complete

(* A version row that is not written stays honest.                         *)
LEMMA RowsKept ==
    ASSUME SchemaTypeOK, Honest, created \subseteq created', version' = version
    PROVE  Honest'
<1> SUFFICES ASSUME NEW j \in DOMAIN version PROVE Complete(version[j])'
  BY ZenonT(30) DEF Honest
<1> QED
  BY ZenonT(30), Bounded, CompleteKept DEF Honest

(* Every step of every process keeps the invariant.                        *)
LEMMA SchemaStep == SchemaInv /\ [SchemaNext]_schemaVars => SchemaInv'
<1> SUFFICES ASSUME SchemaInv, [SchemaNext]_schemaVars PROVE SchemaInv'
  BY ZenonT(30)
<1>1. SchemaTypeOK /\ Honest /\ \A p \in Openers : ProgressOf(p)
  BY ZenonT(30) DEF SchemaInv
<1>2. Len(migrations) \in Nat /\ \A m \in 1..Len(migrations) : migrations[m] \in Nat \ {0}
  BY SchemaAssumption
<1>3. ASSUME NEW p \in Openers, OpenDatabase(p) PROVE SchemaInv'
  <2>1. SchemaTypeOK'
    BY <1>1, <1>2, <1>3 DEF OpenDatabase, SchemaTypeOK, Place, Versions
  <2>2. at'[p].pc = "read" /\ \A q \in Openers : q # p => at'[q] = at[q]
    BY ZenonT(30), <1>1, <1>3 DEF OpenDatabase, SchemaTypeOK, Place
  <2>3. Honest'
    BY ZenonT(30), <1>1, <1>3, RowsKept DEF OpenDatabase
  <2>4. ProgressOf(p)'
    BY ZenonT(30), <2>2 DEF ProgressOf
  <2> QED
    BY ZenonT(30), <1>1, <1>3, <2>1, <2>2, <2>3, <2>4, OthersKept DEF OpenDatabase, SchemaInv
<1>4. ASSUME NEW p \in Openers, ReadVersion(p) PROVE SchemaInv'
  <2>1. version # <<>> => 1 \in DOMAIN version /\ version[1] \in Versions
    BY <1>1 DEF SchemaTypeOK
  <2>2. SchemaTypeOK'
    BY <1>1, <1>4, <2>1 DEF ReadVersion, SchemaTypeOK, Place, Versions
  <2>3. \A q \in Openers : q # p => at'[q] = at[q]
    BY ZenonT(30), <1>1, <1>4 DEF ReadVersion, SchemaTypeOK
  <2>4. Honest' /\ created' = created
    BY ZenonT(30), <1>1, <1>4, RowsKept DEF ReadVersion
  <2>5. ProgressOf(p)'
    <3>1. CASE version = <<>>
      <4>1. at'[p].pc = "insert"
        BY ZenonT(30), <1>1, <1>4, <3>1 DEF ReadVersion, SchemaTypeOK, Place
      <4> QED
        BY ZenonT(30), <4>1 DEF ProgressOf
    <3>2. CASE version # <<>>
      <4>1. at'[p] = Place("step", version[1], 1) /\ Complete(version[1])
        BY ZenonT(30), <1>1, <1>4, <2>1, <3>2 DEF ReadVersion, SchemaTypeOK, Honest
      <4>2. Complete(at[p].v)'
        BY <2>4, <4>1 DEF Complete, Place
      <4> QED
        BY <1>2, <4>1, <4>2 DEF ProgressOf, Place
    <3> QED
      BY ZenonT(30), <3>1, <3>2
  <2> QED
    BY ZenonT(30), <1>1, <2>2, <2>3, <2>4, <2>5, OthersKept DEF SchemaInv
<1>5. ASSUME NEW p \in Openers, InsertVersion(p) PROVE SchemaInv'
  <2>1. version' = Append(version, 0) /\ 0 \in Versions /\ created' = created
    BY ZenonT(30), <1>5, CompleteNone DEF InsertVersion
  <2>2. SchemaTypeOK'
    BY <1>1, <1>5, <2>1 DEF InsertVersion, SchemaTypeOK, Place
  <2>3. \A j \in DOMAIN version' :
           version'[j] = 0 \/ (j \in DOMAIN version /\ version'[j] = version[j])
    BY <1>1, <2>1 DEF SchemaTypeOK
  <2>4. Honest'
    BY ZenonT(30), <1>1, <2>1, <2>3, CompleteNone DEF Honest, Complete
  <2>5. /\ at'[p] = Place("step", 0, 1)
        /\ \A q \in Openers : q # p => at'[q] = at[q]
    BY ZenonT(30), <1>1, <1>5 DEF InsertVersion, SchemaTypeOK
  <2>6. Complete(at[p].v)'
    BY <2>1, <2>5, CompleteNone DEF Complete, Place
  <2>7. ProgressOf(p)'
    BY <1>2, <2>5, <2>6 DEF ProgressOf, Place
  <2> QED
    BY ZenonT(30), <1>1, <2>1, <2>2, <2>4, <2>5, <2>7, OthersKept DEF SchemaInv
<1>6. ASSUME NEW p \in Openers, Statement(p) PROVE SchemaInv'
  <2>1. /\ created \subseteq created' /\ version' = version
        /\ <<at[p].v + 1, at[p].i>> \in created'
        /\ at[p].pc = "step" /\ at[p].v < Len(migrations)
    BY ZenonT(30), <1>6 DEF Statement
  <2>2. at[p].v + 1 \in 1..Len(migrations) /\ at[p].i \in Nat \ {0}
    BY <1>1, <1>2, <2>1 DEF SchemaTypeOK, Versions
  <2>3. SchemaTypeOK'
    BY <1>1, <1>2, <1>6, <2>2 DEF Statement, SchemaTypeOK, Place, Versions
  <2>4. Honest'
    BY ZenonT(30), <1>1, <2>1, RowsKept
  <2>5. \A q \in Openers : q # p => at'[q] = at[q]
    BY ZenonT(30), <1>1, <1>6 DEF Statement, SchemaTypeOK
  <2>6. /\ Complete(at[p].v)
        /\ \A i \in 1..migrations[at[p].v + 1] : i < at[p].i => <<at[p].v + 1, i>> \in created
    BY ZenonT(30), <1>1, <2>1 DEF ProgressOf
  <2>7. at'[p].v = at[p].v
    BY ZenonT(30), <1>1, <1>6 DEF Statement, SchemaTypeOK, Place
  <2>8. Complete(at[p].v)'
    BY ZenonT(30), <1>1, <2>1, <2>6, <2>7, CompleteKept, Bounded DEF Complete
  <2>9. ProgressOf(p)'
    <3>1. CASE at[p].i < migrations[at[p].v + 1]
      <4>1. at'[p] = Place("step", at[p].v, at[p].i + 1)
        BY ZenonT(30), <1>1, <1>6, <3>1 DEF Statement, SchemaTypeOK
      <4>2. \A i \in 1..migrations[at[p].v + 1] : i < at[p].i + 1 => <<at[p].v + 1, i>> \in created'
        <5> SUFFICES ASSUME NEW i \in 1..migrations[at[p].v + 1], i < at[p].i + 1
                     PROVE  <<at[p].v + 1, i>> \in created'
          BY ZenonT(30)
        <5>1. CASE i = at[p].i
          BY ZenonT(30), <2>1, <5>1
        <5>2. CASE i < at[p].i
          BY ZenonT(30), <2>1, <2>6, <5>2
        <5>3. i \in Int
          OBVIOUS
        <5> QED
          BY <2>2, <5>1, <5>2, <5>3
      <4> QED
        BY <2>8, <4>1, <4>2 DEF ProgressOf, Place
    <3>2. CASE ~(at[p].i < migrations[at[p].v + 1])
      <4>1. at'[p] = Place("mark", at[p].v, at[p].i)
        BY ZenonT(30), <1>1, <1>6, <3>2 DEF Statement, SchemaTypeOK
      <4>2. \A i \in 1..migrations[at[p].v + 1] : <<at[p].v + 1, i>> \in created'
        <5> SUFFICES ASSUME NEW i \in 1..migrations[at[p].v + 1]
                     PROVE  <<at[p].v + 1, i>> \in created'
          BY ZenonT(30)
        <5>1. CASE i = at[p].i
          BY ZenonT(30), <2>1, <5>1
        <5>2. CASE i < at[p].i
          BY ZenonT(30), <2>1, <2>6, <5>2
        <5>3. i \in Int /\ i <= migrations[at[p].v + 1]
          BY <1>2, <2>2
        <5>4. migrations[at[p].v + 1] \in Int
          BY <1>2, <2>2
        <5> QED
          BY <2>2, <3>2, <5>1, <5>2, <5>3, <5>4
      <4> QED
        BY <2>1, <2>8, <4>1, <4>2 DEF ProgressOf, Place
    <3> QED
      BY ZenonT(30), <3>1, <3>2
  <2> QED
    BY ZenonT(30), <1>1, <2>1, <2>3, <2>4, <2>5, <2>9, OthersKept DEF SchemaInv
<1>7. ASSUME NEW p \in Openers, MarkVersion(p) PROVE SchemaInv'
  <2>1. /\ at[p].v < Len(migrations) /\ Complete(at[p].v)
        /\ \A i \in 1..migrations[at[p].v + 1] : <<at[p].v + 1, i>> \in created
    BY ZenonT(30), <1>1, <1>7 DEF MarkVersion, ProgressOf
  <2>2. at[p].v \in Nat /\ at[p].v + 1 \in Versions
    BY <1>1, <1>2, <2>1 DEF SchemaTypeOK, Versions
  <2>3. Complete(at[p].v + 1)
    <3> SUFFICES ASSUME NEW m \in 1..Len(migrations), m <= at[p].v + 1,
                        NEW i \in 1..migrations[m]
                 PROVE  <<m, i>> \in created
      BY ZenonT(30) DEF Complete
    <3>1. CASE m = at[p].v + 1
      BY ZenonT(30), <2>1, <3>1
    <3>2. CASE m <= at[p].v
      BY ZenonT(30), <2>1, <3>2 DEF Complete
    <3> QED
      BY <2>2, <3>1, <3>2, <1>2
  <2>4. /\ created' = created /\ DOMAIN version' = DOMAIN version
        /\ \A j \in DOMAIN version' : version'[j] = at[p].v + 1
    BY ZenonT(30), <1>7 DEF MarkVersion
  <2>5. SchemaTypeOK'
    <3>1. version' \in Seq(Versions)
      BY <1>1, <1>7, <2>2 DEF MarkVersion, SchemaTypeOK
    <3> QED
      BY <1>1, <1>7, <2>2, <3>1 DEF MarkVersion, SchemaTypeOK, Place
  <2>6. Honest'
    BY ZenonT(30), <2>3, <2>4 DEF Honest, Complete
  <2>7. /\ at'[p] = Place("step", at[p].v + 1, 1)
        /\ \A q \in Openers : q # p => at'[q] = at[q]
    BY ZenonT(30), <1>1, <1>7 DEF MarkVersion, SchemaTypeOK
  <2>8. Complete(at[p].v)'
    BY <2>3, <2>4, <2>7 DEF Complete, Place
  <2>9. ProgressOf(p)'
    BY <1>2, <2>7, <2>8 DEF ProgressOf, Place
  <2> QED
    BY ZenonT(30), <1>1, <2>4, <2>5, <2>6, <2>7, <2>9, OthersKept DEF SchemaInv
<1>8. ASSUME NEW p \in Openers, Opened(p) PROVE SchemaInv'
  <2>1. at[p].v = Len(migrations) /\ Complete(at[p].v)
    BY <1>1, <1>2, <1>8 DEF Opened, SchemaTypeOK, Versions, ProgressOf
  <2>2. /\ at'[p].pc = "ready" /\ at'[p].v = at[p].v /\ at'[p].i = at[p].i
        /\ \A q \in Openers : q # p => at'[q] = at[q]
    BY ZenonT(30), <1>1, <1>8 DEF Opened, SchemaTypeOK
  <2>3. SchemaTypeOK'
    BY <1>1, <1>8 DEF Opened, SchemaTypeOK
  <2>4. Honest' /\ created' = created
    BY ZenonT(30), <1>1, <1>8, RowsKept DEF Opened
  <2>5. Complete(at[p].v)'
    BY ZenonT(30), <2>1, <2>2, <2>4 DEF Complete
  <2>6. ProgressOf(p)'
    BY ZenonT(30), <2>1, <2>2, <2>5 DEF ProgressOf
  <2> QED
    BY ZenonT(30), <1>1, <2>2, <2>3, <2>4, <2>6, OthersKept DEF SchemaInv
<1>9. ASSUME NEW p \in Openers, Close(p) PROVE SchemaInv'
  <2>1. SchemaTypeOK'
    BY <1>1, <1>2, <1>9 DEF Close, Closed, SchemaTypeOK, Place, Versions
  <2>2. at'[p].pc = "closed" /\ \A q \in Openers : q # p => at'[q] = at[q]
    BY ZenonT(30), <1>1, <1>9 DEF Close, Closed, SchemaTypeOK, Place
  <2>3. Honest' /\ created' = created
    BY ZenonT(30), <1>1, <1>9, RowsKept DEF Close
  <2>4. ProgressOf(p)'
    BY ZenonT(30), <2>2 DEF ProgressOf
  <2> QED
    BY ZenonT(30), <1>1, <2>1, <2>2, <2>3, <2>4, OthersKept DEF SchemaInv
<1>10. CASE UNCHANGED schemaVars
  BY ZenonT(30), <1>1, <1>10 DEF schemaVars, SchemaInv, SchemaTypeOK, Honest, ProgressOf, Complete
<1> QED
  BY ZenonT(30), <1>3, <1>4, <1>5, <1>6, <1>7, <1>8, <1>9, <1>10 DEF SchemaNext

(* Open and migrate (client.go 88-139) keep the invariant.                 *)
THEOREM SchemaInvariant == SchemaSpec => []SchemaInv
BY SchemaInitInv, SchemaStep, PTL DEF SchemaSpec

(* A process whose Open succeeded finds every table, and the version never *)
(* runs ahead of the migrations, for any number of processes, failures and *)
(* kills (client.go 88-139).                                               *)
THEOREM SchemaAlwaysComplete == SchemaSpec => []SchemaBeforeUse
<1>1. SchemaInv => SchemaBeforeUse
  <2> SUFFICES ASSUME SchemaInv PROVE SchemaBeforeUse
    BY ZenonT(30)
  <2>1. \A s \in Statements : \E m \in 1..Len(migrations) : \E i \in 1..migrations[m] : s = <<m, i>>
    BY DEF Statements
  <2>2. ASSUME NEW n \in Versions, Complete(n), NEW s \in Statements, s[1] <= n
        PROVE  s \in created
    <3>1. PICK m \in 1..Len(migrations) : \E i \in 1..migrations[m] : s = <<m, i>>
      BY ZenonT(30), <2>1
    <3> QED
      BY <2>2, <3>1 DEF Complete
  <2>3. \A p \in Openers : at[p].pc = "ready" => Statements \subseteq created
    <3> SUFFICES ASSUME NEW p \in Openers, at[p].pc = "ready", NEW s \in Statements
                 PROVE  s \in created
      BY ZenonT(30)
    <3>1. at[p].v = Len(migrations) /\ at[p].v \in Versions /\ Complete(at[p].v)
      BY ZenonT(30), Bounded DEF SchemaInv, ProgressOf, Honest
    <3>2. s[1] <= at[p].v
      BY <2>1, <3>1, SchemaAssumption
    <3> QED
      BY ZenonT(30), <2>2, <3>1, <3>2
  <2>4. \A j \in DOMAIN version : \A s \in Statements : s[1] <= version[j] => s \in created
    BY ZenonT(30), <2>2, Bounded DEF SchemaInv, ProgressOf, Honest
  <2> QED
    BY ZenonT(30), <2>3, <2>4 DEF SchemaBeforeUse
<1> QED
  BY <1>1, SchemaInvariant, PTL

=============================================================================
