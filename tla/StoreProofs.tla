---------------------------- MODULE StoreProofs -----------------------------
(***************************************************************************)
(* What a client keeps, for every number of goroutines and processes: the  *)
(* registry's file, contract mirror and key pins (Registry), the evidence  *)
(* (Reputation), the circuit in use (Rotator) and the token of the channel *)
(* to its privileged service (Channel).                                    *)
(***************************************************************************)
EXTENDS Registry, Reputation, Rotator, Channel, TLAPS

(***************************************************************************)
(* The registry.                                                           *)
(***************************************************************************)

Files == [NodeIds -> Entries \cup {None}]
Snapping == [pc : {"snapshot"}, node : NodeIds, entry : Entries]
Opening == [pc : {"open"}, node : NodeIds, entry : Entries, snap : Files]
Writing == [pc : {"write", "rename", "mirror"}, node : NodeIds, entry : Entries,
            snap : Files, at : {"tmp", "disk", "gone"}]
Busy == Snapping \cup Opening \cup Writing

RegistryTypeOK ==
    /\ nodes \in Files /\ chain \in Files
    /\ disk \in Files \cup {Torn} /\ tmp \in Files \cup {Torn, None}
    /\ call \in [Writers -> {NoCall} \cup Busy]
    /\ opKeys \in [NodeIds -> Operators \cup {None}]
    /\ signers \in [NodeIds -> SUBSET Operators]

(* A pinned node has an entry, and all that was stored for a node since    *)
(* the load was signed with its pin.                                       *)
PinInv ==
    \A n \in NodeIds :
        /\ opKeys[n] # None => nodes[n] # None
        /\ \A key \in signers[n] : key = opKeys[n]

(* The operation under way, when there is only one and none has failed:    *)
(* the map is the contract with its entry; the snapshot is the map, until  *)
(* it is in the temporary file, and then in the file.                      *)
Underway(c, map, mirrored, temp, file) ==
    /\ map = [mirrored EXCEPT ![c.node] = c.entry]
    /\ c.pc \in {"open", "write", "rename"} => c.snap = map
    /\ c.pc \in {"write", "rename"} => c.at = "tmp"
    /\ c.pc = "rename" => temp = map
    /\ c.pc = "mirror" => file = map

AgreeInv ==
    ~overlapped =>
        /\ \A v, w \in Writers : call[v] # NoCall /\ call[w] # NoCall => v = w
        /\ ~failed =>
              /\ Quiet => disk = nodes /\ chain = nodes
              /\ \A w \in Writers : call[w] # NoCall => Underway(call[w], nodes, chain, tmp, disk)

(* What a goroutine is doing, told by its pc.                              *)
LEMMA CallKinds ==
    ASSUME NEW c \in {NoCall} \cup Busy
    PROVE  /\ c.pc = "snapshot" => c \in Snapping
           /\ c.pc = "open" => c \in Opening
           /\ c.pc \in {"write", "rename", "mirror"} => c \in Writing
           /\ c \in Snapping => c.pc = "snapshot" /\ c.node \in NodeIds /\ c.entry \in Entries
           /\ c \in Opening => /\ c.pc = "open" /\ c.node \in NodeIds /\ c.entry \in Entries
                               /\ c.snap \in Files
           /\ c \in Writing => /\ c.pc \in {"write", "rename", "mirror"} /\ c.node \in NodeIds
                               /\ c.entry \in Entries /\ c.snap \in Files
                               /\ c.at \in {"tmp", "disk", "gone"}
           /\ c # NoCall => /\ c \in Busy /\ c.node \in NodeIds /\ c.entry \in Entries
                            /\ c.pc \in {"snapshot", "open", "write", "rename", "mirror"}
           /\ c \in Busy => c # NoCall
           /\ c = NoCall => c.pc = "idle"
<1>1. NoCall.pc = "idle"
  BY ZenonT(30) DEF NoCall
<1>2. \A x \in Snapping : x.pc = "snapshot" /\ x.node \in NodeIds /\ x.entry \in Entries
  BY ZenonT(30) DEF Snapping
<1>3. \A x \in Opening : /\ x.pc = "open" /\ x.node \in NodeIds /\ x.entry \in Entries
                         /\ x.snap \in Files
  BY ZenonT(30) DEF Opening
<1>4. \A x \in Writing : /\ x.pc \in {"write", "rename", "mirror"} /\ x.node \in NodeIds
                         /\ x.entry \in Entries /\ x.snap \in Files
                         /\ x.at \in {"tmp", "disk", "gone"}
  BY ZenonT(30) DEF Writing
<1> QED
  BY ZenonT(30), <1>1, <1>2, <1>3, <1>4 DEF Busy

(* A step of one call leaves the other calls where they are.               *)
LEMMA OneCall ==
    ASSUME RegistryTypeOK, NEW w \in Writers, NEW c \in {NoCall} \cup Busy,
           call' = [call EXCEPT ![w] = c]
    PROVE  /\ call' \in [Writers -> {NoCall} \cup Busy] /\ call'[w] = c
           /\ \A v \in Writers : v # w => call'[v] = call[v]
BY ZenonT(30) DEF RegistryTypeOK

(* What the operations store.                                              *)
LEMMA StoredStep ==
    ASSUME RegistryTypeOK, NEW w \in Writers,
           Register(w) \/ Update(w) \/ Disable(w) \/ SetPrice(w)
    PROVE  \E n \in NodeIds, e \in Entries :
              /\ Stored(w, n, e)
              /\ \/ UNCHANGED <<opKeys, signers>>
                 \/ \E key \in Operators :
                       /\ nodes[n] = None \/ opKeys[n] \in {None, key}
                       /\ opKeys' = [opKeys EXCEPT ![n] = IF @ = None THEN key ELSE @]
                       /\ signers' = [signers EXCEPT ![n] = @ \cup {key}]
<1>1. CASE Register(w)
  BY ZenonT(30), <1>1 DEF Register, put
<1>2. CASE Update(w)
  BY ZenonT(30), <1>2 DEF Update, put, checkKeyContinuity
<1>3. CASE Disable(w)
  <2>1. PICK n \in NodeIds : /\ nodes[n] # None /\ UNCHANGED <<opKeys, signers>>
                             /\ Stored(w, n, [nodes[n] EXCEPT !.status = "disabled"])
    BY ZenonT(30), <1>3 DEF Disable
  <2>2. [nodes[n] EXCEPT !.status = "disabled"] \in Entries
    BY ZenonT(30), <2>1 DEF RegistryTypeOK, Files, Entries
  <2> QED
    BY ZenonT(30), <2>1, <2>2
<1>4. CASE SetPrice(w)
  <2>1. PICK n \in NodeIds, p \in Fees : /\ nodes[n] # None /\ UNCHANGED <<opKeys, signers>>
                                         /\ Stored(w, n, [nodes[n] EXCEPT !.price = p])
    BY ZenonT(30), <1>4 DEF SetPrice
  <2>2. [nodes[n] EXCEPT !.price = p] \in Entries
    BY ZenonT(30), <2>1 DEF RegistryTypeOK, Files, Entries
  <2> QED
    BY ZenonT(30), <2>1, <2>2
<1> QED
  BY ZenonT(30), <1>1, <1>2, <1>3, <1>4

(* The steps of a save, each with the call it leaves behind.               *)
LEMMA SaveStep ==
    ASSUME RegistryTypeOK, NEW w \in Writers
    PROVE  /\ Snapshot(w) => \E c \in Opening :
                 /\ call' = [call EXCEPT ![w] = c] /\ call[w] \in Snapping
                 /\ c.node = call[w].node /\ c.entry = call[w].entry /\ c.snap = nodes
           /\ Open(w) => \E c \in Writing :
                 /\ call' = [call EXCEPT ![w] = c] /\ call[w] \in Opening
                 /\ c.node = call[w].node /\ c.entry = call[w].entry /\ c.snap = call[w].snap
                 /\ c.pc = "write" /\ c.at = "tmp"
           /\ WriteFile(w) => /\ call[w] \in Writing /\ call[w].pc = "write"
                              /\ [call[w] EXCEPT !.pc = "rename"] \in Writing
           /\ Rename(w) => /\ call[w] \in Writing /\ call[w].pc = "rename"
                           /\ [call[w] EXCEPT !.pc = "mirror"] \in Writing
           /\ Mirror(w) => call[w] \in Writing /\ call[w].pc = "mirror"
<1>0. call[w] \in {NoCall} \cup Busy
  BY ZenonT(30) DEF RegistryTypeOK
<1>1. ASSUME Snapshot(w)
      PROVE  \E c \in Opening :
                 /\ call' = [call EXCEPT ![w] = c] /\ call[w] \in Snapping
                 /\ c.node = call[w].node /\ c.entry = call[w].entry /\ c.snap = nodes
  <2> DEFINE c == [pc |-> "open", node |-> call[w].node, entry |-> call[w].entry, snap |-> nodes]
  <2>1. call[w] \in Snapping
    BY ZenonT(30), <1>0, <1>1, CallKinds DEF Snapshot
  <2>2. c \in Opening
    BY ZenonT(30), <1>0, <2>1, CallKinds DEF Opening, RegistryTypeOK
  <2>3. call' = [call EXCEPT ![w] = c]
    BY ZenonT(30), <1>1 DEF Snapshot, Goto
  <2> QED
    BY ZenonT(30), <2>1, <2>2, <2>3
<1>2. ASSUME Open(w)
      PROVE  \E c \in Writing :
                 /\ call' = [call EXCEPT ![w] = c] /\ call[w] \in Opening
                 /\ c.node = call[w].node /\ c.entry = call[w].entry /\ c.snap = call[w].snap
                 /\ c.pc = "write" /\ c.at = "tmp"
  <2> DEFINE c == [node |-> call[w].node, entry |-> call[w].entry, snap |-> call[w].snap,
                   pc |-> "write", at |-> "tmp"]
  <2>1. call[w] \in Opening
    BY ZenonT(30), <1>0, <1>2, CallKinds DEF Open
  <2>2. c \in Writing
    BY ZenonT(30), <1>0, <2>1, CallKinds DEF Writing
  <2>3. call' = [call EXCEPT ![w] = c]
    BY ZenonT(30), <1>2 DEF Open, Goto
  <2> QED
    BY ZenonT(30), <2>1, <2>2, <2>3
<1>3. call[w].pc \in {"write", "rename", "mirror"} => call[w] \in Writing
  BY ZenonT(30), <1>0, CallKinds
<1>4. call[w] \in Writing => /\ [call[w] EXCEPT !.pc = "rename"] \in Writing
                             /\ [call[w] EXCEPT !.pc = "mirror"] \in Writing
  BY ZenonT(30) DEF Writing
<1> QED
  BY ZenonT(30), <1>1, <1>2, <1>3, <1>4 DEF WriteFile, Rename, Mirror

(* Moved yields a call again, and no call out of none.                     *)
LEMMA MovedStays ==
    ASSUME NEW c \in {NoCall} \cup Busy
    PROVE  /\ Moved(c) \in {NoCall} \cup Busy
           /\ c = NoCall => Moved(c) = NoCall
<1>1. CASE c.pc \in {"write", "rename"}
  <2>1. c \in Writing
    BY ZenonT(30), <1>1, CallKinds
  <2>2. \A a \in {"tmp", "disk", "gone"} : [c EXCEPT !.at = a] \in Writing
    BY ZenonT(30), <2>1 DEF Writing
  <2>3. Moved(c) = [c EXCEPT !.at = IF c.at = "tmp" THEN "disk" ELSE "gone"]
    BY ZenonT(30), <1>1 DEF Moved
  <2>4. c # NoCall
    BY ZenonT(30), <2>1, CallKinds
  <2> QED
    BY ZenonT(30), <2>2, <2>3, <2>4 DEF Busy
<1>2. CASE c.pc \notin {"write", "rename"}
  BY ZenonT(30), <1>2 DEF Moved
<1> QED
  BY ZenonT(30), <1>1, <1>2

(* Every step of the registry keeps the types.                             *)
LEMMA RegistryTypeStep ==
    ASSUME RegistryTypeOK, [RegistryNext]_registryVars
    PROVE  RegistryTypeOK'
<1>0. /\ NoCall \in {NoCall} \cup Busy
      /\ \A c \in Snapping \cup Opening \cup Writing : c \in {NoCall} \cup Busy
      /\ \A w \in Writers : call[w] \in {NoCall} \cup Busy
  BY ZenonT(30) DEF Busy, RegistryTypeOK
<1>1. CASE UNCHANGED registryVars
  BY ZenonT(30), <1>1 DEF registryVars, RegistryTypeOK
<1>2. CASE Load
  BY ZenonT(30), <1>2 DEF Load, RegistryTypeOK, Empty
<1>3. ASSUME NEW w \in Writers, Register(w) \/ Update(w) \/ Disable(w) \/ SetPrice(w)
      PROVE  RegistryTypeOK'
  <2>1. PICK n \in NodeIds, e \in Entries :
              /\ Stored(w, n, e)
              /\ \/ UNCHANGED <<opKeys, signers>>
                 \/ \E key \in Operators :
                       /\ opKeys' = [opKeys EXCEPT ![n] = IF @ = None THEN key ELSE @]
                       /\ signers' = [signers EXCEPT ![n] = @ \cup {key}]
    BY ZenonT(30), <1>3, StoredStep
  <2> DEFINE c == [pc |-> "snapshot", node |-> n, entry |-> e]
  <2>2. c \in {NoCall} \cup Busy
    BY ZenonT(30) DEF Busy, Snapping
  <2>3. call' = [call EXCEPT ![w] = c] /\ nodes' = [nodes EXCEPT ![n] = e]
        /\ UNCHANGED <<disk, tmp, chain>>
    BY ZenonT(30), <2>1 DEF Stored
  <2> HIDE DEF c
  <2>4. call' \in [Writers -> {NoCall} \cup Busy]
    BY ZenonT(30), <2>2, <2>3, OneCall
  <2>5. nodes' \in Files
    BY ZenonT(30), <2>3 DEF RegistryTypeOK, Files
  <2>6. opKeys' \in [NodeIds -> Operators \cup {None}] /\ signers' \in [NodeIds -> SUBSET Operators]
    BY <2>1 DEF RegistryTypeOK
  <2> QED
    BY ZenonT(30), <2>3, <2>4, <2>5, <2>6 DEF RegistryTypeOK
<1>4. ASSUME NEW w \in Writers, Snapshot(w) \/ Open(w)
      PROVE  RegistryTypeOK'
  <2>1. \E c \in {NoCall} \cup Busy : call' = [call EXCEPT ![w] = c]
    BY ZenonT(30), <1>0, <1>4, SaveStep
  <2>2. call' \in [Writers -> {NoCall} \cup Busy]
    BY ZenonT(30), <2>1, OneCall
  <2> QED
    BY ZenonT(30), <1>4, <2>2 DEF Snapshot, Open, Rest, RegistryTypeOK
<1>5. ASSUME NEW w \in Writers, WriteFile(w)
      PROVE  RegistryTypeOK'
  <2>1. \E c \in {NoCall} \cup Busy : call' = [call EXCEPT ![w] = c]
    BY ZenonT(30), <1>0, <1>5, SaveStep DEF WriteFile, Goto
  <2>2. call' \in [Writers -> {NoCall} \cup Busy]
    BY ZenonT(30), <2>1, OneCall
  <2>3. call[w].snap \in Files
    BY ZenonT(30), <1>0, <1>5, SaveStep, CallKinds
  <2>4. tmp' \in {tmp, call[w].snap, Torn} /\ disk' \in {disk, call[w].snap, Torn}
    BY ZenonT(30), <1>5 DEF WriteFile
  <2> QED
    BY ZenonT(30), <1>5, <2>2, <2>3, <2>4 DEF WriteFile, Rest, RegistryTypeOK
<1>6. ASSUME NEW w \in Writers, Rename(w)
      PROVE  RegistryTypeOK'
  <2>1. call' \in [Writers -> {NoCall} \cup Busy]
    <3>1. CASE call' = [v \in Writers |-> IF v = w THEN [call[w] EXCEPT !.pc = "mirror"]
                                                   ELSE Moved(call[v])]
      BY ZenonT(30), <1>0, <1>6, <3>1, SaveStep, MovedStays
    <3>2. CASE Goto(w, NoCall)
      BY ZenonT(30), <1>0, <3>2, OneCall DEF Goto
    <3> QED
      BY ZenonT(30), <1>6, <3>1, <3>2 DEF Rename
  <2>2. \/ disk' = tmp /\ tmp # None /\ tmp' = None
        \/ UNCHANGED <<disk, tmp>>
    BY ZenonT(30), <1>6 DEF Rename
  <2> QED
    BY ZenonT(30), <1>6, <2>1, <2>2 DEF Rename, Rest, RegistryTypeOK
<1>7. ASSUME NEW w \in Writers, Mirror(w)
      PROVE  RegistryTypeOK'
  <2>1. call' \in [Writers -> {NoCall} \cup Busy]
    BY ZenonT(30), <1>0, <1>7, OneCall DEF Mirror, Goto
  <2>2. call[w].node \in NodeIds /\ call[w].entry \in Entries
    BY ZenonT(30), <1>0, <1>7, SaveStep, CallKinds
  <2>3. chain' = [chain EXCEPT ![call[w].node] = call[w].entry] \/ UNCHANGED chain
    BY ZenonT(30), <1>7 DEF Mirror
  <2>4. chain' \in Files
    BY ZenonT(30), <2>2, <2>3 DEF RegistryTypeOK, Files
  <2> QED
    BY ZenonT(30), <1>7, <2>1, <2>4 DEF Mirror, Rest, RegistryTypeOK
<1> QED
  BY ZenonT(30), <1>1, <1>2, <1>3, <1>4, <1>5, <1>6, <1>7 DEF RegistryNext

(* PinInv is inductive relative to the types.                              *)
LEMMA PinStep ==
    ASSUME RegistryTypeOK, PinInv, [RegistryNext]_registryVars
    PROVE  PinInv'
<1>1. CASE UNCHANGED <<nodes, opKeys, signers>>
  BY ZenonT(30), <1>1 DEF PinInv
<1>2. CASE Load
  BY ZenonT(30), <1>2 DEF Load, PinInv, Empty
<1>3. ASSUME NEW w \in Writers, Register(w) \/ Update(w) \/ Disable(w) \/ SetPrice(w)
      PROVE  PinInv'
  <2>1. PICK n \in NodeIds, e \in Entries :
              /\ Stored(w, n, e)
              /\ \/ UNCHANGED <<opKeys, signers>>
                 \/ \E key \in Operators :
                       /\ nodes[n] = None \/ opKeys[n] \in {None, key}
                       /\ opKeys' = [opKeys EXCEPT ![n] = IF @ = None THEN key ELSE @]
                       /\ signers' = [signers EXCEPT ![n] = @ \cup {key}]
    BY ZenonT(30), <1>3, StoredStep
  <2>2. nodes' = [nodes EXCEPT ![n] = e] /\ e # None
    BY ZenonT(30), <2>1, RegistryAssumption DEF Stored
  <2>3. nodes'[n] # None /\ \A m \in NodeIds : m # n => nodes'[m] = nodes[m]
    BY ZenonT(30), <2>2 DEF RegistryTypeOK, Files
  <2>4. CASE UNCHANGED <<opKeys, signers>>
    BY ZenonT(30), <2>3, <2>4 DEF PinInv
  <2>5. ASSUME NEW key \in Operators, nodes[n] = None \/ opKeys[n] \in {None, key},
               opKeys' = [opKeys EXCEPT ![n] = IF @ = None THEN key ELSE @],
               signers' = [signers EXCEPT ![n] = @ \cup {key}]
        PROVE  PinInv'
    <3>1. key # None /\ opKeys[n] \in {None, key}
      BY ZenonT(30), <2>5, RegistryAssumption DEF PinInv
    <3>2. opKeys'[n] = key /\ \A m \in NodeIds : m # n => opKeys'[m] = opKeys[m]
      BY ZenonT(30), <2>5, <3>1 DEF RegistryTypeOK
    <3>3. signers'[n] = signers[n] \cup {key}
          /\ \A m \in NodeIds : m # n => signers'[m] = signers[m]
      BY ZenonT(30), <2>5 DEF RegistryTypeOK
    <3>4. \A x \in signers[n] : x = key
      BY ZenonT(30), <3>1, RegistryAssumption DEF PinInv, RegistryTypeOK
    <3> QED
      BY <2>3, <3>2, <3>3, <3>4 DEF PinInv
  <2> QED
    BY ZenonT(30), <2>1, <2>4, <2>5
<1>4. ASSUME NEW w \in Writers,
             Snapshot(w) \/ Open(w) \/ WriteFile(w) \/ Rename(w) \/ Mirror(w)
      PROVE  UNCHANGED <<nodes, opKeys, signers>>
  BY ZenonT(30), <1>4 DEF Snapshot, Open, WriteFile, Rename, Mirror, Rest
<1> QED
  BY ZenonT(30), <1>1, <1>2, <1>3, <1>4 DEF RegistryNext, registryVars

(* The one operation under way goes on to its next step, or ends.          *)
LEMMA CallGoesOn ==
    ASSUME RegistryTypeOK, AgreeInv, ~overlapped, NEW w \in Writers, call[w] # NoCall,
           NEW c \in {NoCall} \cup Busy, call' = [call EXCEPT ![w] = c],
           ~failed' => /\ ~failed
                       /\ c = NoCall => disk' = nodes' /\ chain' = nodes'
                       /\ c # NoCall => Underway(c, nodes', chain', tmp', disk')
    PROVE  AgreeInv'
<1>1. /\ call'[w] = c
      /\ \A v \in Writers : v # w => call'[v] = call[v]
  BY ZenonT(30), OneCall
<1>2. \A v \in Writers : v # w => call[v] = NoCall
  BY ZenonT(30) DEF AgreeInv
<1>3. \A v \in Writers : v # w => call'[v] = NoCall
  BY ZenonT(30), <1>1, <1>2
<1>4. ASSUME NEW u \in Writers, NEW v \in Writers, call'[u] # NoCall, call'[v] # NoCall
      PROVE  u = v
  BY ZenonT(30), <1>3, <1>4
<1>5. ASSUME ~failed', \A v \in Writers : call'[v] = NoCall
      PROVE  disk' = nodes' /\ chain' = nodes'
  BY ZenonT(30), <1>1, <1>5
<1>6. ASSUME ~failed', NEW v \in Writers, call'[v] # NoCall
      PROVE  Underway(call'[v], nodes', chain', tmp', disk')
  BY ZenonT(30), <1>1, <1>3, <1>6
<1> HIDE DEF Underway
<1> QED
  BY ZenonT(30), <1>4, <1>5, <1>6 DEF AgreeInv, Quiet

(* AgreeInv is inductive relative to the types.                            *)
LEMMA AgreeStep ==
    ASSUME RegistryTypeOK, AgreeInv, [RegistryNext]_registryVars
    PROVE  AgreeInv'
<1>0. \A w \in Writers : call[w] \in {NoCall} \cup Busy
  BY ZenonT(30) DEF RegistryTypeOK
<1>a. overlapped => overlapped'
  <2>1. ASSUME NEW w \in Writers, NEW n \in NodeIds, NEW e \in Entries, Stored(w, n, e)
        PROVE  overlapped => overlapped'
    BY ZenonT(30), <2>1 DEF Stored
  <2>2. ASSUME NEW w \in Writers, Register(w) \/ Update(w) \/ Disable(w) \/ SetPrice(w)
        PROVE  overlapped => overlapped'
    BY ZenonT(30), <2>1, <2>2, StoredStep
  <2>3. ASSUME NEW w \in Writers,
               Snapshot(w) \/ Open(w) \/ WriteFile(w) \/ Rename(w) \/ Mirror(w)
        PROVE  overlapped' = overlapped
    BY ZenonT(30), <2>3 DEF Snapshot, Open, WriteFile, Rename, Mirror, Rest
  <2> QED
    BY ZenonT(30), <2>2, <2>3 DEF RegistryNext, registryVars, Load
<1>b. CASE overlapped
  BY ZenonT(30), <1>a, <1>b DEF AgreeInv
<1> SUFFICES ASSUME ~overlapped
             PROVE  AgreeInv'
  BY ZenonT(30), <1>b
<1>c. \A v, w \in Writers : call[v] # NoCall /\ call[w] # NoCall => v = w
  BY ZenonT(30) DEF AgreeInv
<1>d. ASSUME NEW w \in Writers, call[w] # NoCall, ~failed
      PROVE  Underway(call[w], nodes, chain, tmp, disk)
  BY ZenonT(30), <1>d DEF AgreeInv
<1>1. CASE UNCHANGED registryVars
  BY ZenonT(30), <1>1 DEF registryVars, AgreeInv, Quiet, Underway
<1>2. CASE Load
  <2>1. call' = [w \in Writers |-> NoCall] /\ nodes' = disk /\ UNCHANGED <<disk, chain>>
    BY ZenonT(30), <1>2 DEF Load
  <2>2. ~failed' => ~failed /\ Quiet
    BY ZenonT(30), <1>2 DEF Load, Quiet
  <2>3. \A w \in Writers : call'[w] = NoCall
    BY ZenonT(30), <2>1
  <2>4. ~failed' => disk' = nodes' /\ chain' = nodes'
    BY ZenonT(30), <2>1, <2>2 DEF AgreeInv
  <2> QED
    BY ZenonT(30), <2>3, <2>4 DEF AgreeInv, Quiet
<1>3. ASSUME NEW w \in Writers, Register(w) \/ Update(w) \/ Disable(w) \/ SetPrice(w)
      PROVE  AgreeInv'
  <2>1. PICK n \in NodeIds, e \in Entries : Stored(w, n, e)
    BY ZenonT(30), <1>3, StoredStep
  <2> DEFINE c == [pc |-> "snapshot", node |-> n, entry |-> e]
  <2>2. /\ c \in {NoCall} \cup Busy /\ c.pc = "snapshot" /\ c.node = n /\ c.entry = e
        /\ c # NoCall
    BY ZenonT(30), CallKinds DEF Busy, Snapping
  <2>3. /\ call' = [call EXCEPT ![w] = c] /\ call[w] = NoCall
        /\ nodes' = [nodes EXCEPT ![n] = e]
        /\ UNCHANGED <<disk, tmp, chain, failed>>
        /\ overlapped' = (overlapped \/ Others(w) # {})
    BY ZenonT(30), <2>1 DEF Stored
  <2> HIDE DEF c
  <2>4. /\ call'[w] = c
        /\ \A v \in Writers : v # w => call'[v] = call[v]
    BY ZenonT(30), <2>2, <2>3, OneCall
  <2>5. SUFFICES ASSUME ~overlapped'
                 PROVE  AgreeInv'
    BY ZenonT(30) DEF AgreeInv
  <2>6. Others(w) = {}
    BY ZenonT(30), <2>3, <2>5
  <2>7. \A v \in Writers : v # w => call[v] = NoCall
    BY ZenonT(30), <2>6 DEF Others
  <2>8. ~failed => chain = nodes
    BY ZenonT(30), <2>3, <2>7 DEF AgreeInv, Quiet
  <2>9. ~failed => Underway(c, nodes', chain', tmp', disk')
    BY ZenonT(30), <2>2, <2>3, <2>8 DEF Underway
  <2>10. \A v \in Writers : v # w => call'[v] = NoCall
    BY ZenonT(30), <2>4, <2>7
  <2>11. \A v \in Writers : call'[v] # NoCall => v = w
    BY ZenonT(30), <2>10
  <2>12. ~Quiet'
    BY ZenonT(30), <2>2, <2>4 DEF Quiet
  <2>13. ASSUME ~failed', NEW v \in Writers, call'[v] # NoCall
         PROVE  Underway(call'[v], nodes', chain', tmp', disk')
    <3>1. v = w /\ ~failed
      BY ZenonT(30), <2>3, <2>11, <2>13
    <3> QED
      BY ZenonT(30), <2>4, <2>9, <3>1
  <2> QED
    BY ZenonT(30), <2>11, <2>12, <2>13 DEF AgreeInv
<1>4. ASSUME NEW w \in Writers, Snapshot(w)
      PROVE  AgreeInv'
  <2>1. PICK c \in Opening :
                 /\ call' = [call EXCEPT ![w] = c] /\ call[w] \in Snapping
                 /\ c.node = call[w].node /\ c.entry = call[w].entry /\ c.snap = nodes
    BY ZenonT(30), <1>4, SaveStep
  <2>2. /\ c \in {NoCall} \cup Busy /\ c # NoCall /\ c.pc = "open" /\ call[w] # NoCall
    BY ZenonT(30), <1>0, <2>1, CallKinds DEF Busy
  <2>3. UNCHANGED <<nodes, chain, disk, tmp, failed>>
    BY ZenonT(30), <1>4 DEF Snapshot, Rest
  <2>4. ~failed => Underway(c, nodes', chain', tmp', disk')
    BY ZenonT(30), <1>d, <2>1, <2>2, <2>3 DEF Underway
  <2> QED
    BY ZenonT(30), <2>1, <2>2, <2>3, <2>4, CallGoesOn
<1>5. ASSUME NEW w \in Writers, Open(w)
      PROVE  AgreeInv'
  <2>1. PICK c \in Writing :
                 /\ call' = [call EXCEPT ![w] = c] /\ call[w] \in Opening
                 /\ c.node = call[w].node /\ c.entry = call[w].entry /\ c.snap = call[w].snap
                 /\ c.pc = "write" /\ c.at = "tmp"
    BY ZenonT(30), <1>5, SaveStep
  <2>2. /\ c \in {NoCall} \cup Busy /\ c # NoCall /\ call[w] # NoCall /\ call[w].pc = "open"
    BY ZenonT(30), <1>0, <2>1, CallKinds DEF Busy
  <2>3. UNCHANGED <<nodes, chain, disk, failed>>
    BY ZenonT(30), <1>5 DEF Open, Rest
  <2>4. ~failed => Underway(c, nodes', chain', tmp', disk')
    BY ZenonT(30), <1>d, <2>1, <2>2, <2>3 DEF Underway
  <2> QED
    BY ZenonT(30), <2>1, <2>2, <2>3, <2>4, CallGoesOn
<1>6. ASSUME NEW w \in Writers, WriteFile(w)
      PROVE  AgreeInv'
  <2>1. call[w] \in Writing /\ call[w].pc = "write" /\ [call[w] EXCEPT !.pc = "rename"] \in Writing
    BY ZenonT(30), <1>6, SaveStep
  <2>2. call[w] # NoCall
    BY ZenonT(30), <1>0, <2>1, CallKinds
  <2>3. ~Sharing(w)
    <3>1. \A v \in Writers \ {w} : call[v] = NoCall
      BY ZenonT(30), <1>c, <2>2
    <3> QED
      BY <3>1 DEF Sharing, NoCall
  <2>4. UNCHANGED <<nodes, chain>>
    BY ZenonT(30), <1>6 DEF WriteFile, Rest
  <2>5. CASE Goto(w, NoCall) /\ failed' = TRUE
    BY ZenonT(30), <2>2, <2>5, CallGoesOn DEF Goto
  <2>6. CASE /\ tmp' \in IF call[w].at = "tmp" THEN {call[w].snap} ELSE {tmp}
             /\ Goto(w, [call[w] EXCEPT !.pc = "rename"]) /\ UNCHANGED failed
    <3> DEFINE c == [call[w] EXCEPT !.pc = "rename"]
    <3>1. /\ c \in {NoCall} \cup Busy /\ c # NoCall /\ c.pc = "rename" /\ c.node = call[w].node
          /\ c.entry = call[w].entry /\ c.snap = call[w].snap /\ c.at = call[w].at
      BY ZenonT(30), <2>1, CallKinds DEF Busy, Writing
    <3>2. call' = [call EXCEPT ![w] = c]
      BY ZenonT(30), <2>6 DEF Goto
    <3> HIDE DEF c
    <3>3. ~failed => Underway(c, nodes', chain', tmp', disk')
      BY ZenonT(30), <1>d, <2>1, <2>2, <2>4, <2>6, <3>1 DEF Underway
    <3> QED
      BY ZenonT(30), <2>2, <2>6, <3>1, <3>2, <3>3, CallGoesOn
  <2> QED
    BY ZenonT(30), <1>6, <2>3, <2>5, <2>6 DEF WriteFile
<1>7. ASSUME NEW w \in Writers, Rename(w)
      PROVE  AgreeInv'
  <2>1. call[w] \in Writing /\ call[w].pc = "rename" /\ [call[w] EXCEPT !.pc = "mirror"] \in Writing
    BY ZenonT(30), <1>7, SaveStep
  <2>2. call[w] # NoCall
    BY ZenonT(30), <1>0, <2>1, CallKinds
  <2>4. UNCHANGED <<nodes, chain>>
    BY ZenonT(30), <1>7 DEF Rename, Rest
  <2>5. CASE Goto(w, NoCall) /\ failed' = TRUE
    BY ZenonT(30), <2>2, <2>5, CallGoesOn DEF Goto
  <2>6. CASE /\ disk' = tmp /\ UNCHANGED failed
             /\ call' = [v \in Writers |-> IF v = w THEN [call[w] EXCEPT !.pc = "mirror"]
                                                    ELSE Moved(call[v])]
    <3> DEFINE c == [call[w] EXCEPT !.pc = "mirror"]
    <3>1. /\ c \in {NoCall} \cup Busy /\ c # NoCall /\ c.pc = "mirror" /\ c.node = call[w].node
          /\ c.entry = call[w].entry
      BY ZenonT(30), <2>1, CallKinds DEF Busy, Writing
    <3>2. call' = [call EXCEPT ![w] = c]
      <4>1. \A v \in Writers : v # w => Moved(call[v]) = call[v]
        BY ZenonT(30), <1>0, <1>c, <2>2, MovedStays
      <4> QED
        BY ZenonT(30), <2>6, <4>1 DEF RegistryTypeOK
    <3> HIDE DEF c
    <3>3. ~failed => Underway(c, nodes', chain', tmp', disk')
      BY ZenonT(30), <1>d, <2>1, <2>2, <2>4, <2>6, <3>1 DEF Underway
    <3> QED
      BY ZenonT(30), <2>2, <2>6, <3>1, <3>2, <3>3, CallGoesOn
  <2> QED
    BY ZenonT(30), <1>7, <2>5, <2>6 DEF Rename
<1>8. ASSUME NEW w \in Writers, Mirror(w)
      PROVE  AgreeInv'
  <2>1. call[w] \in Writing /\ call[w].pc = "mirror"
    BY ZenonT(30), <1>8, SaveStep
  <2>2. call[w] # NoCall
    BY ZenonT(30), <1>0, <2>1, CallKinds
  <2>3. call' = [call EXCEPT ![w] = NoCall] /\ UNCHANGED <<nodes, disk>>
    BY ZenonT(30), <1>8 DEF Mirror, Goto, Rest
  <2>4. ~failed' => ~failed /\ chain' = [chain EXCEPT ![call[w].node] = call[w].entry]
    BY ZenonT(30), <1>8 DEF Mirror
  <2>5. ~failed' => disk' = nodes' /\ chain' = nodes'
    BY ZenonT(30), <1>d, <2>1, <2>2, <2>3, <2>4 DEF Underway
  <2> QED
    BY ZenonT(30), <2>2, <2>3, <2>4, <2>5, CallGoesOn
<1> QED
  BY ZenonT(30), <1>1, <1>2, <1>3, <1>4, <1>5, <1>6, <1>7, <1>8 DEF RegistryNext

-----------------------------------------------------------------------------
(***************************************************************************)
(* The evidence a client keeps.                                            *)
(***************************************************************************)
Books == [evidence : [Rated -> SUBSET Kinds], success : [Rated -> Nat], fail : [Rated -> Nat],
          info : [Rated -> [hasUp : BOOLEAN, bond : Nat, uptime : Nat]]]

(* Unless the last save failed, the file holds the evidence of the book.   *)
EvidenceInv ==
    /\ book \in Books /\ saved \in Books
    /\ unsaved = FALSE => saved.evidence = book.evidence

(* A change keeps the evidence there was, in memory and, unless its save   *)
(* fails, in the file.                                                     *)
LEMMA EvidenceStep ==
    ASSUME EvidenceInv, [ReputationNext]_reputationVars
    PROVE  /\ EvidenceInv'
           /\ unsaved = FALSE =>
                 \A n \in Rated : book.evidence[n] \subseteq book'.evidence[n]
<1>1. CASE UNCHANGED reputationVars
  BY ZenonT(30), <1>1 DEF reputationVars, EvidenceInv
<1>2. CASE OpenStore
  BY ZenonT(30), <1>2 DEF OpenStore, EvidenceInv
<1>3. ASSUME NEW b \in Books, book' = b, saveLocked,
             \A n \in Rated : book.evidence[n] \subseteq b.evidence[n]
      PROVE  /\ EvidenceInv'
             /\ unsaved = FALSE =>
                   \A n \in Rated : book.evidence[n] \subseteq book'.evidence[n]
  BY ZenonT(30), <1>3 DEF saveLocked, EvidenceInv
<1>4. /\ book.evidence \in [Rated -> SUBSET Kinds]
      /\ book.success \in [Rated -> Nat] /\ book.fail \in [Rated -> Nat]
      /\ book.info \in [Rated -> [hasUp : BOOLEAN, bond : Nat, uptime : Nat]]
  BY ZenonT(30) DEF EvidenceInv, Books
<1>5. ASSUME NEW n \in Rated, Add(n)
      PROVE  \E b \in Books : /\ book' = b /\ saveLocked
                              /\ \A m \in Rated : book.evidence[m] \subseteq b.evidence[m]
  <2>1. PICK k \in Kinds : book' = [book EXCEPT !.evidence[n] = @ \cup {k}]
    BY ZenonT(30), <1>5 DEF Add
  <2>2. [book.evidence EXCEPT ![n] = @ \cup {k}] \in [Rated -> SUBSET Kinds]
    BY ZenonT(30), <1>4
  <2>3. book' \in Books /\ book'.evidence = [book.evidence EXCEPT ![n] = @ \cup {k}]
    BY ZenonT(30), <2>1, <2>2 DEF EvidenceInv, Books
  <2>4. \A m \in Rated : book.evidence[m] \subseteq book'.evidence[m]
    BY ZenonT(30), <1>4, <2>3
  <2> QED
    BY ZenonT(30), <1>5, <2>3, <2>4 DEF Add
<1>6. ASSUME NEW n \in Rated, RecordSession(n)
      PROVE  \E b \in Books : /\ book' = b /\ saveLocked
                              /\ \A m \in Rated : book.evidence[m] \subseteq b.evidence[m]
  <2>1. /\ [book.success EXCEPT ![n] = @ + 1] \in [Rated -> Nat]
        /\ [book.fail EXCEPT ![n] = @ + 1] \in [Rated -> Nat]
    BY <1>4
  <2>2. book' \in Books /\ book'.evidence = book.evidence
    BY ZenonT(30), <1>6, <2>1 DEF RecordSession, EvidenceInv, Books
  <2> QED
    BY ZenonT(30), <1>6, <2>2 DEF RecordSession
<1>7. ASSUME NEW n \in Rated, SetNodeInfo(n)
      PROVE  \E b \in Books : /\ book' = b /\ saveLocked
                              /\ \A m \in Rated : book.evidence[m] \subseteq b.evidence[m]
  <2>1. PICK b, u \in Amounts :
             book' = [book EXCEPT !.info[n] = [hasUp |-> TRUE, bond |-> b, uptime |-> u]]
    BY ZenonT(30), <1>7 DEF SetNodeInfo
  <2>2. [hasUp |-> TRUE, bond |-> b, uptime |-> u] \in [hasUp : BOOLEAN, bond : Nat, uptime : Nat]
    BY ZenonT(30), ReputationAssumption
  <2>3. [book.info EXCEPT ![n] = [hasUp |-> TRUE, bond |-> b, uptime |-> u]]
          \in [Rated -> [hasUp : BOOLEAN, bond : Nat, uptime : Nat]]
    BY ZenonT(30), <1>4, <2>2
  <2>4. book' \in Books /\ book'.evidence = book.evidence
    BY ZenonT(30), <2>1, <2>3 DEF EvidenceInv, Books
  <2> QED
    BY ZenonT(30), <1>7, <2>4 DEF SetNodeInfo
<1> QED
  BY ZenonT(30), <1>1, <1>2, <1>3, <1>5, <1>6, <1>7 DEF ReputationNext

(* Add, saveLocked, Open (store.go 36-115): proof of misbehaviour that the *)
(* file holds counts for ever: the node scores nothing after any change    *)
(* and any restart.                                                        *)
THEOREM SlashedStaysSlashed == ReputationSpec => SlashFinal
<1>1. ReputationInit => EvidenceInv
  <2> SUFFICES ASSUME ReputationInit
               PROVE  EvidenceInv
    BY ZenonT(30)
  <2>1. Unseen \in [hasUp : BOOLEAN, bond : Nat, uptime : Nat]
    BY ZenonT(30) DEF Unseen
  <2>2. NewBook \in Books
    BY ZenonT(30), <2>1 DEF NewBook, Books
  <2> QED
    BY ZenonT(30), <2>2 DEF ReputationInit, EvidenceInv
<1>2. EvidenceInv /\ [ReputationNext]_reputationVars => EvidenceInv'
  BY ZenonT(30), EvidenceStep
<1>3. EvidenceInv /\ [ReputationNext]_reputationVars =>
        (\A n \in Rated : Slashed(n) /\ ~unsaved => ReputationScore(n)' = 0)
  <2> SUFFICES ASSUME EvidenceInv, [ReputationNext]_reputationVars, NEW n \in Rated,
                      Slashed(n), ~unsaved
               PROVE  ReputationScore(n)' = 0
    BY ZenonT(30)
  <2>1. unsaved = FALSE => book.evidence[n] \subseteq book'.evidence[n]
    BY ZenonT(30), EvidenceStep
  <2>2. book'.evidence[n] \cap Slashable # {}
    BY <2>1 DEF Slashed
  <2> QED
    BY ZenonT(30), <2>2 DEF ReputationScore, Slashed
<1> QED
  BY <1>1, <1>2, <1>3, PTL DEF ReputationSpec, SlashFinal

-----------------------------------------------------------------------------
(***************************************************************************)
(* For any set of nodes and goroutines and any number of rotations: the    *)
(* circuit of a Rotator is always separated, its log ends at the entry in  *)
(* use, and the data plane follows it unless a callback was overtaken.     *)
(***************************************************************************)

(* Replacing a hop of a path of nodes gives a path of nodes.               *)
LEMMA ReplacePath ==
    ASSUME NEW p \in Seq(Nodes), Len(p) \in 1..3, NEW n \in Nodes
    PROVE  /\ ReplaceEntry(p, n) \in Seq(Nodes) /\ ReplaceExit(p, n) \in Seq(Nodes)
           /\ Entry(p) \in Nodes
BY DEF ReplaceEntry, ReplaceExit, Entry

(* A commit keeps the invariant when the new circuit is one.               *)
LEMMA CommitInv ==
    ASSUME RotatorInv, NEW c \in Callers, NEW old \in Seq(Nodes), NEW next \in Seq(Nodes),
           BuildCircuit(old), BuildCircuit(next), Commit(c, old, next)
    PROVE  RotatorInv'
<1> DEFINE o == [step |-> "callback", old |-> old, next |-> next]
           e == [old |-> Entry(old), new |-> Entry(next)]
<1>1. rotating' = [rotating EXCEPT ![c] = o] /\ current' = next /\ history' = Append(history, e)
      /\ plane' = plane /\ late' = late
  BY ZenonT(30) DEF Commit
<1>2. o \in Steps
  BY ZenonT(30) DEF Steps
<1>3. /\ rotating' \in [Callers -> Steps]
      /\ rotating'[c] = o
      /\ \A d \in Callers : d # c => rotating'[d] = rotating[d]
  BY ZenonT(30), <1>1, <1>2 DEF RotatorInv
<1>4. e \in [old : Nodes, new : Nodes]
  BY DEF Entry, BuildCircuit
<1>5. history \in Seq([old : Nodes, new : Nodes])
  BY ZenonT(30) DEF RotatorInv
<1>6. history' \in Seq([old : Nodes, new : Nodes]) /\ history'[Len(history')] = e
  BY <1>1, <1>4, <1>5
<1>7. HistoryEndsAtCurrent'
  BY <1>1, <1>6 DEF HistoryEndsAtCurrent
<1>8. \A d \in Callers :
         rotating'[d].step # "idle" =>
            BuildCircuit(rotating'[d].next) /\ BuildCircuit(rotating'[d].old)
  <2> SUFFICES ASSUME NEW d \in Callers, rotating'[d].step # "idle"
               PROVE  BuildCircuit(rotating'[d].next) /\ BuildCircuit(rotating'[d].old)
    BY ZenonT(30)
  <2>1. CASE d = c
    <3>1. rotating'[d].next = next /\ rotating'[d].old = old
      BY <1>3, <2>1
    <3> QED
      BY ZenonT(30), <3>1
  <2>2. CASE d # c
    <3>1. rotating'[d] = rotating[d]
      BY ZenonT(30), <1>3, <2>2
    <3> QED
      BY ZenonT(30), <3>1 DEF RotatorInv, CurrentSeparated
  <2> QED
    BY ZenonT(30), <2>1, <2>2
<1>9. CurrentSeparated'
  BY ZenonT(30), <1>1, <1>8 DEF CurrentSeparated
<1>10. \E d \in Callers : rotating'[d].step = "callback" /\ rotating'[d].next = current'
  BY ZenonT(30), <1>1, <1>3
<1> QED
  BY ZenonT(30), <1>1, <1>3, <1>6, <1>7, <1>8, <1>9, <1>10 DEF RotatorInv

(* A verified circuit that has just been wrapped satisfies the invariant.  *)
LEMMA InitInv == Init => RotatorInv
<1> SUFFICES ASSUME Init PROVE RotatorInv
  BY ZenonT(30)
<1>1. PICK p \in Circuits : NewRotator(p)
  BY ZenonT(30) DEF Init
<1>2. BuildCircuit(p) /\ \E k \in 1..3 : p \in [1..k -> Nodes]
  BY ZenonT(30) DEF Circuits
<1>3. p \in Seq(Nodes)
  BY <1>2
<1>4. NoRotation \in Steps /\ NoRotation.step = "idle"
  BY DEF NoRotation, Steps
<1>5. current = p /\ history = <<>> /\ late = FALSE /\ plane = Chain(current)
      /\ rotating = [c \in Callers |-> NoRotation]
  BY ZenonT(30), <1>1 DEF NewRotator
<1>6. rotating \in [Callers -> Steps] /\ \A c \in Callers : rotating[c].step = "idle"
  BY ZenonT(30), <1>4, <1>5
<1>7. CurrentSeparated /\ HistoryEndsAtCurrent
  <2>1. BuildCircuit(current)
    BY ZenonT(30), <1>2, <1>5
  <2> QED
    BY ZenonT(30), <2>1, <1>5, <1>6 DEF CurrentSeparated, HistoryEndsAtCurrent
<1>8. current \in Seq(Nodes) /\ history \in Seq([old : Nodes, new : Nodes]) /\ late \in BOOLEAN
  <2>1. current \in Seq(Nodes) /\ late = FALSE /\ history = <<>>
    BY ZenonT(30), <1>3, <1>5
  <2>2. <<>> \in Seq([old : Nodes, new : Nodes])
    OBVIOUS
  <2> QED
    BY ZenonT(30), <2>1, <2>2, Zenon
<1>9. plane = Chain(current)
  BY ZenonT(30), <1>5
<1> QED
  BY ZenonT(30), <1>6, <1>7, <1>8, <1>9 DEF RotatorInv

(* RotateEntry and RotateExit commit a circuit built from the current one. *)
LEMMA RotateInv ==
    ASSUME RotatorInv, NEW c \in Callers, NEW n \in Nodes,
           RotateEntry(c, n) \/ RotateExit(c, n)
    PROVE  RotatorInv'
<1>1. current \in Seq(Nodes) /\ BuildCircuit(current) /\ Len(current) \in 1..3
  BY ZenonT(30) DEF RotatorInv, CurrentSeparated, BuildCircuit
<1>2. CASE RotateEntry(c, n)
  BY ZenonT(30), <1>1, <1>2, ReplacePath, CommitInv DEF RotateEntry
<1>3. CASE RotateExit(c, n)
  BY ZenonT(30), <1>1, <1>3, ReplacePath, CommitInv DEF RotateExit
<1> QED
  BY ZenonT(30), <1>2, <1>3

(* RotateDownstream leaves a separated circuit to be committed.            *)
LEMMA DownstreamInv ==
    ASSUME RotatorInv, NEW c \in Callers, NEW m \in Nodes, NEW n \in Nodes,
           RotateDownstream(c, m, n)
    PROVE  RotatorInv'
<1> DEFINE next == <<Entry(current), m, n>>
           o == [step |-> "commit", old |-> current, next |-> next]
<1>1. BuildCircuit(next) /\ rotating[c].step = "idle" /\ rotating' = [rotating EXCEPT ![c] = o]
      /\ UNCHANGED <<current, history, plane, late>>
  BY ZenonT(30) DEF RotateDownstream, MayRotate
<1>2. current \in Seq(Nodes) /\ BuildCircuit(current)
  BY ZenonT(30) DEF RotatorInv, CurrentSeparated
<1>3. o \in Steps
  BY <1>2 DEF Steps, Entry, BuildCircuit
<1>4. /\ rotating' \in [Callers -> Steps]
      /\ rotating'[c] = o
      /\ \A d \in Callers : d # c => rotating'[d] = rotating[d]
  BY ZenonT(30), <1>1, <1>3 DEF RotatorInv
<1>5. \A d \in Callers :
         rotating'[d].step # "idle" =>
            BuildCircuit(rotating'[d].next) /\ BuildCircuit(rotating'[d].old)
  BY ZenonT(30), <1>1, <1>2, <1>4 DEF RotatorInv, CurrentSeparated
<1>6. \A d \in Callers : rotating[d].step = "callback" => rotating'[d] = rotating[d]
  BY ZenonT(30), <1>1, <1>4
<1>7. CurrentSeparated' /\ HistoryEndsAtCurrent'
  BY ZenonT(30), <1>1, <1>5 DEF RotatorInv, CurrentSeparated, HistoryEndsAtCurrent
<1> QED
  BY ZenonT(30), <1>1, <1>4, <1>5, <1>6, <1>7 DEF RotatorInv

(* A callback programs the circuit it was given and ends the call.         *)
LEMMA CallbackInv ==
    ASSUME RotatorInv, NEW c \in Callers, OnRotated(c)
    PROVE  RotatorInv'
<1>1. /\ rotating[c].step = "callback"
      /\ rotating' = [rotating EXCEPT ![c] = NoRotation]
      /\ plane' = Chain(rotating[c].next)
      /\ late' = (late \/ rotating[c].next # current) /\ UNCHANGED <<current, history>>
  BY ZenonT(30) DEF OnRotated
<1>2. NoRotation \in Steps
  BY DEF NoRotation, Steps
<1>3. /\ rotating' \in [Callers -> Steps]
      /\ rotating'[c] = NoRotation
      /\ \A d \in Callers : d # c => rotating'[d] = rotating[d]
  BY ZenonT(30), <1>1, <1>2 DEF RotatorInv
<1>4. \A d \in Callers :
         rotating'[d].step # "idle" =>
            BuildCircuit(rotating'[d].next) /\ BuildCircuit(rotating'[d].old)
  <2>1. NoRotation.step = "idle"
    BY ZenonT(30) DEF NoRotation
  <2> QED
    BY ZenonT(30), <1>3, <2>1 DEF RotatorInv, CurrentSeparated
<1>5. CurrentSeparated' /\ HistoryEndsAtCurrent'
  BY ZenonT(30), <1>1, <1>4 DEF RotatorInv, CurrentSeparated, HistoryEndsAtCurrent
<1>6. ~late' => plane' = Chain(current')
  BY ZenonT(30), <1>1
<1>7. late' \in BOOLEAN
  BY ZenonT(30), <1>1 DEF RotatorInv
<1> QED
  BY ZenonT(30), <1>1, <1>3, <1>4, <1>5, <1>6, <1>7 DEF RotatorInv

(* The inductive invariant holds in every reachable state.                 *)
THEOREM RotatorInvariant == Spec => []RotatorInv
<1>1. RotatorInv /\ [Next]_vars => RotatorInv'
  <2> SUFFICES ASSUME RotatorInv, [Next]_vars PROVE RotatorInv'
    BY ZenonT(30)
  <2>1. CASE UNCHANGED vars
    BY ZenonT(30), <2>1 DEF vars, RotatorInv, CurrentSeparated, HistoryEndsAtCurrent
  <2>2. ASSUME NEW c \in Callers, CommitDownstream(c) PROVE RotatorInv'
    <3>1. rotating[c] \in Steps /\ BuildCircuit(rotating[c].next) /\ BuildCircuit(rotating[c].old)
      BY ZenonT(30), <2>2 DEF CommitDownstream, RotatorInv, CurrentSeparated
    <3> QED
      BY ZenonT(30), <2>2, <3>1, CommitInv DEF CommitDownstream, Steps
  <2> QED
    BY ZenonT(30), <2>1, <2>2, RotateInv, DownstreamInv, CallbackInv DEF Next
<1> QED
  BY <1>1, InitInv, PTL DEF Spec

(* However rotations overlap, the current circuit and those still to be    *)
(* committed are separated: RotateDownstream need not verify again.        *)
THEOREM AlwaysSeparated == Spec => []CurrentSeparated
<1>1. RotatorInv => CurrentSeparated
  BY ZenonT(30) DEF RotatorInv
<1> QED
  BY <1>1, RotatorInvariant, PTL

(* The log ends at the entry in use, and with no rotation under way the    *)
(* data plane carries the current circuit unless a callback was overtaken. *)
THEOREM RotationsRecorded == Spec => [](HistoryEndsAtCurrent /\ PlaneFollows)
<1>1. RotatorInv => HistoryEndsAtCurrent /\ PlaneFollows
  BY ZenonT(30) DEF RotatorInv, PlaneFollows
<1> QED
  BY <1>1, RotatorInvariant, PTL

-----------------------------------------------------------------------------
(***************************************************************************)
(* TokenAgreed for any number of services and clients.  The strengthening  *)
(* ties every token in somebody's hands to the file: once the file holds a *)
(* token it never changes again, since nobody creates; before that nobody  *)
(* can have one except the single service that is creating it.             *)
(***************************************************************************)

ChannelTypeOK ==
    /\ tokenFile \in Nat \cup {Absent, Bad} /\ drawn \in Nat /\ raced \in BOOLEAN
    /\ daemon \in [Daemons -> [pc : {"down", "empty", "write", "listen", "up"}, tok : Nat]]
    /\ dial \in [Dialers -> [pc : {"idle", "dial", "sent", "served", "ok", "refused", "failed"},
                             tok : Nat, to : Daemons \cup {Absent}]]
    /\ \A c \in Dialers : dial[c].pc \in {"sent", "served"} => dial[c].to \in Listening

Created ==
    /\ \A s \in Daemons : /\ daemon[s].pc \notin Creating
                          /\ daemon[s].pc \in {"listen", "up"} => daemon[s].tok = tokenFile
    /\ \A c \in Dialers : dial[c].pc \in {"dial", "sent", "served"} => dial[c].tok = tokenFile

Uncreated ==
    /\ \A s \in Daemons : daemon[s].pc \notin {"listen", "up"}
    /\ \A s, t \in Daemons : daemon[s].pc \in Creating /\ daemon[t].pc \in Creating => s = t
    /\ \A c \in Dialers : dial[c].pc \notin {"dial", "sent", "served"}

Agreed ==
    ~raced => /\ tokenFile \in Nat => Created
              /\ tokenFile \notin Nat => Uncreated
              /\ \A c \in Dialers : dial[c].pc # "refused"

ChannelInv == ChannelTypeOK /\ Agreed

(* Initially no service and no client is doing anything.                   *)
LEMMA ChannelInitInv == ChannelInit => ChannelInv
<1> SUFFICES ASSUME ChannelInit PROVE ChannelInv
  BY ZenonT(30)
<1>1. \A s \in Daemons : daemon[s] = [pc |-> "down", tok |-> 0]
  BY ZenonT(30) DEF ChannelInit, Down, Daemon
<1>2. \A c \in Dialers : dial[c] = [pc |-> "idle", tok |-> 0, to |-> Absent]
  BY ZenonT(30) DEF ChannelInit, Resting, Call
<1>3. ChannelTypeOK
  <2>1. daemon \in [Daemons -> [pc : {"down", "empty", "write", "listen", "up"}, tok : Nat]]
    BY ZenonT(30) DEF ChannelInit, Down, Daemon
  <2>2. dial \in [Dialers -> [pc : {"idle", "dial", "sent", "served", "ok", "refused", "failed"},
                             tok : Nat, to : Daemons \cup {Absent}]]
    BY ZenonT(30) DEF ChannelInit, Resting, Call
  <2>3. tokenFile \in Nat \cup {Absent, Bad} /\ drawn \in Nat
    BY ZenonT(30) DEF ChannelInit
  <2>4. raced \in BOOLEAN
    BY ZenonT(30), Zenon DEF ChannelInit
  <2> QED
    BY <1>2, <2>1, <2>2, <2>3, <2>4 DEF ChannelTypeOK
<1>4. Agreed
  BY <1>1, <1>2 DEF Agreed, Created, Uncreated, Creating
<1> QED
  BY ZenonT(30), <1>3, <1>4 DEF ChannelInv

(* Each step keeps the types, and each of the two phases.                  *)
LEMMA ChannelStep == ChannelInv /\ [ChannelNext]_channelVars => ChannelInv'
<1> SUFFICES ASSUME ChannelInv, [ChannelNext]_channelVars PROVE ChannelInv'
  BY ZenonT(30)
<1> USE ChannelAssumption
<1> USE DEF ChannelInv, Creating, Listening
<1>1. ASSUME NEW s \in Daemons, LoadOrCreateToken(s) PROVE ChannelInv'
  <2>1. CASE tokenFile \in Nat
    <3>1. daemon' = [daemon EXCEPT ![s] = Daemon("listen", tokenFile)] /\ UNCHANGED <<drawn, raced>>
      BY ZenonT(30), <1>1, <2>1 DEF LoadOrCreateToken
    <3>2. ChannelTypeOK'
      BY ZenonT(30), <1>1, <2>1, <3>1 DEF LoadOrCreateToken, ChannelTypeOK, Daemon
    <3>3. Agreed'
      BY ZenonT(30), <1>1, <2>1, <3>1
         DEF LoadOrCreateToken, ChannelTypeOK, Daemon, Agreed, Created
    <3> QED
      BY ZenonT(30), <3>2, <3>3
  <2>2. CASE tokenFile \notin Nat
    <3>1. /\ daemon' = [daemon EXCEPT ![s] = Daemon("empty", drawn + 1)] /\ drawn' = drawn + 1
          /\ raced' = (raced \/ \E t \in Daemons \ {s} : daemon[t].pc \in Creating)
      BY ZenonT(30), <1>1, <2>2 DEF LoadOrCreateToken
    <3>2. ChannelTypeOK'
      <4>1. drawn + 1 \in Nat
        BY DEF ChannelTypeOK
      <4> QED
        BY ZenonT(30), <1>1, <2>2, <3>1, <4>1 DEF LoadOrCreateToken, ChannelTypeOK, Daemon
    <3>3. \A t \in Daemons : daemon'[t].pc = IF t = s THEN "empty" ELSE daemon[t].pc
      BY ZenonT(30), <3>1 DEF ChannelTypeOK, Daemon
    <3>4. UNCHANGED <<tokenFile, dial>>
      BY ZenonT(30), <1>1 DEF LoadOrCreateToken
    <3>5. ASSUME ~raced' PROVE Uncreated' /\ \A c \in Dialers : dial'[c].pc # "refused"
      <4>1. ~raced /\ \A t \in Daemons \ {s} : daemon[t].pc \notin Creating
        BY ZenonT(30), <3>1, <3>5
      <4>2. Uncreated /\ \A c \in Dialers : dial[c].pc # "refused"
        BY ZenonT(30), <2>2, <4>1 DEF Agreed
      <4> QED
        BY <3>3, <3>4, <4>1, <4>2 DEF Uncreated
    <3>6. Agreed'
      BY ZenonT(30), <2>2, <3>4, <3>5 DEF Agreed
    <3> QED
      BY ZenonT(30), <3>2, <3>6
  <2> QED
    BY ZenonT(30), <2>1, <2>2
<1>2. ASSUME NEW s \in Daemons, TruncateToken(s) PROVE ChannelInv'
  <2>1. ChannelTypeOK'
    BY <1>2 DEF TruncateToken, ChannelTypeOK
  <2>2. Agreed'
    BY <1>2 DEF TruncateToken, ChannelTypeOK, Agreed, Created, Uncreated
  <2> QED
    BY ZenonT(30), <2>1, <2>2
<1>3. ASSUME NEW s \in Daemons, WriteToken(s) PROVE ChannelInv'
  <2>1. ChannelTypeOK'
    BY <1>3 DEF WriteToken, ChannelTypeOK
  <2>2. Agreed'
    BY <1>3 DEF WriteToken, ChannelTypeOK, Agreed, Created, Uncreated
  <2> QED
    BY ZenonT(30), <2>1, <2>2
<1>4. ASSUME NEW s \in Daemons, Serve(s) PROVE ChannelInv'
  <2>1. ChannelTypeOK'
    BY ZenonT(30), <1>4 DEF Serve, ChannelTypeOK, Daemon, Down
  <2>2. Agreed'
    BY ZenonT(30), <1>4 DEF Serve, ChannelTypeOK, Daemon, Down, Agreed, Created, Uncreated
  <2> QED
    BY ZenonT(30), <2>1, <2>2
<1>5. ASSUME NEW s \in Daemons, Shutdown(s) PROVE ChannelInv'
  <2>1. \A c \in Dialers : /\ dial'[c].tok = dial[c].tok /\ dial'[c].to = dial[c].to
                           /\ dial'[c].pc = dial[c].pc \/ dial'[c].pc = "failed"
                           /\ dial'[c].pc \in {"sent", "served"} => dial[c].to # s
    BY <1>5 DEF Shutdown, ChannelTypeOK
  <2>2. \A t \in Daemons : daemon'[t] = IF t = s THEN Down ELSE daemon[t]
    BY ZenonT(30), <1>5 DEF Shutdown, ChannelTypeOK
  <2>3. ChannelTypeOK'
    BY ZenonT(30), <1>5, <2>1, <2>2 DEF Shutdown, ChannelTypeOK, Daemon, Down
  <2>4. Agreed'
    BY <1>5, <2>1, <2>2 DEF Shutdown, Daemon, Down, Agreed, Created, Uncreated
  <2> QED
    BY ZenonT(30), <2>3, <2>4
<1>6. ASSUME NEW c \in Dialers, LoadToken(c) PROVE ChannelInv'
  <2>1. ChannelTypeOK'
    BY ZenonT(30), <1>6 DEF LoadToken, ChannelTypeOK, Call
  <2>2. Agreed'
    BY ZenonT(30), <1>6 DEF LoadToken, ChannelTypeOK, Call, Agreed, Created, Uncreated
  <2> QED
    BY ZenonT(30), <2>1, <2>2
<1>7. ASSUME NEW c \in Dialers, Dial(c) PROVE ChannelInv'
  <2>1. ChannelTypeOK'
    BY <1>7 DEF Dial, ChannelTypeOK, Call
  <2>2. Agreed'
    BY <1>7 DEF Dial, ChannelTypeOK, Call, Agreed, Created, Uncreated
  <2> QED
    BY ZenonT(30), <2>1, <2>2
<1>8. ASSUME NEW c \in Dialers, serveConn(c) PROVE ChannelInv'
  <2>1. dial[c].to \in Listening
    BY ZenonT(30), <1>8 DEF serveConn, ChannelTypeOK
  <2>2. ChannelTypeOK'
    BY <1>8 DEF serveConn, ChannelTypeOK
  <2>3. Agreed'
    BY <1>8, <2>1 DEF serveConn, ChannelTypeOK, Agreed, Created, Uncreated
  <2> QED
    BY ZenonT(30), <2>2, <2>3
<1>9. ASSUME NEW c \in Dialers, Answer(c) \/ Deadline(c) \/ Return(c) PROVE ChannelInv'
  <2>1. ChannelTypeOK'
    BY <1>9 DEF Answer, Deadline, Return, ChannelTypeOK, Call, Resting
  <2>2. \A b \in Dialers : dial'[b] = dial[b] \/ dial'[b].pc \in {"ok", "failed", "idle"}
    BY <1>9 DEF Answer, Deadline, Return, ChannelTypeOK, Call, Resting
  <2>3. UNCHANGED <<tokenFile, drawn, daemon, runs, dialled, raced>>
    BY ZenonT(30), <1>9 DEF Answer, Deadline, Return
  <2>4. Agreed'
    BY ZenonT(30), <2>2, <2>3 DEF Agreed, Created, Uncreated
  <2> QED
    BY ZenonT(30), <2>1, <2>4
<1>10. CASE UNCHANGED channelVars
  BY ZenonT(30), <1>10 DEF channelVars, ChannelTypeOK, Agreed, Created, Uncreated
<1> QED
  BY ZenonT(30), <1>1, <1>2, <1>3, <1>4, <1>5, <1>6, <1>7, <1>8, <1>9, <1>10 DEF ChannelNext

(* The token file and everyone who read it agree, or two services created  *)
(* it at once (ipc.go 74-121).                                             *)
THEOREM ChannelInvariant == ChannelSpec => []ChannelInv
BY ChannelInitInv, ChannelStep, PTL DEF ChannelSpec

(* Unless two services created the token at the same time, the listening   *)
(* service holds the token in the file and refuses no client that read it, *)
(* for any number of services, clients, restarts and kills (ipc.go 74-121, *)
(* server.go 60-70).                                                       *)
THEOREM TokensAgree == ChannelSpec => []TokenAgreed
<1>1. ChannelInv => TokenAgreed
  BY ZenonT(30) DEF ChannelInv, Agreed, Created, Uncreated, TokenAgreed, Listening
<1> QED
  BY <1>1, ChannelInvariant, PTL

-----------------------------------------------------------------------------
INSTANCE FiniteSetTheorems

(* save, Load, the mirror and the key pins (registry.go 200-436): between  *)
(* two loads all that is stored for a node is signed by one operator, and  *)
(* a store at rest whose operations neither overlapped nor failed has the  *)
(* same nodes in its map, in its file and in the contract.                 *)
THEOREM RegistryStaysInStep == RegistrySpec => []RegistryAgrees
<1>1. RegistryInit => RegistryTypeOK /\ PinInv /\ AgreeInv
  <2> SUFFICES ASSUME RegistryInit
               PROVE  RegistryTypeOK /\ PinInv /\ AgreeInv
    BY ZenonT(30)
  <2>1. RegistryTypeOK
    BY ZenonT(30) DEF RegistryInit, NewStore, RegistryTypeOK, Files, Empty
  <2>2. PinInv
    BY ZenonT(30) DEF RegistryInit, NewStore, PinInv, Empty
  <2>3. \A w \in Writers : call[w] = NoCall
    BY ZenonT(30) DEF RegistryInit, NewStore
  <2>4. AgreeInv
    BY ZenonT(30), <2>3 DEF RegistryInit, NewStore, AgreeInv
  <2> QED
    BY ZenonT(30), <2>1, <2>2, <2>4
<1>2. /\ RegistryTypeOK /\ PinInv /\ AgreeInv /\ [RegistryNext]_registryVars
      => RegistryTypeOK' /\ PinInv' /\ AgreeInv'
  BY ZenonT(30), RegistryTypeStep, PinStep, AgreeStep
<1>3. RegistryTypeOK /\ PinInv /\ AgreeInv => RegistryAgrees
  <2> SUFFICES ASSUME RegistryTypeOK, PinInv, AgreeInv
               PROVE  RegistryAgrees
    BY ZenonT(30)
  <2>1. ASSUME NEW n \in NodeIds
        PROVE  Cardinality(signers[n]) <= 1
    <3>1. signers[n] \subseteq {opKeys[n]}
      BY ZenonT(30) DEF PinInv
    <3>2. IsFiniteSet({opKeys[n]}) /\ Cardinality({opKeys[n]}) = 1
      BY ZenonT(30), FS_Singleton
    <3> QED
      BY ZenonT(30), <3>1, <3>2, FS_Subset
  <2>2. Quiet /\ ~overlapped /\ ~failed => disk = nodes /\ chain = nodes
    BY ZenonT(30) DEF AgreeInv
  <2> QED
    BY ZenonT(30), <2>1, <2>2 DEF RegistryAgrees
<1> QED
  BY <1>1, <1>2, <1>3, PTL DEF RegistrySpec
=============================================================================
