------------------------- MODULE TunnelEngineProofs -------------------------
(***************************************************************************)
(* For any number of callers, devices, endpoints and retries: the engine   *)
(* is type correct, no watchdog iteration works on a closed device, and no *)
(* two Stop calls own the same device.                                     *)
(***************************************************************************)
EXTENDS TunnelEngine, TLAPS

(* The only facts about the constants that the proofs use.                 *)
LEMMA ConstFacts ==
    /\ 0 \in 0..(MaxRetries + 1)
    /\ \A n \in 0..(MaxRetries + 1) : ~(n > MaxRetries) => n + 1 \in 0..(MaxRetries + 1)
    /\ Outcomes \subseteq AllOutcomes
    /\ NoDevice \notin Devices
    /\ Closed \notin Endpoints
BY EngineAssumption

USE ConstFacts

(* The engine as New builds it satisfies the inductive invariant.          *)
LEMMA InitInv == Init => EngineInv
<1> SUFFICES ASSUME Init PROVE EngineInv
  BY ZenonT(30)
<1> USE DEF Init
<1>1. TypeOK
  BY ZenonT(30) DEF TypeOK, States, CallerPC, DogPC
<1> QED
  BY ZenonT(30), <1>1 DEF EngineInv, WatchdogDeviceOpen, StopOwnsDevice, Stopping, Starting

(* Every locked section and every device call of Start preserves it.       *)
LEMMA StartInv ==
    ASSUME EngineInv, NEW c \in Callers, Start(c)
    PROVE  EngineInv'
<1> USE DEF EngineInv, TypeOK, WatchdogDeviceOpen, StopOwnsDevice, Stopping, Starting,
            Open, Goto, Return, SetNow, SetSince, shared, dogs, States, CallerPC, DogPC
<1>1. ASSUME NEW ep \in Endpoints, StartCall(c, ep) PROVE EngineInv'
  <2> USE <1>1 DEF StartCall
  <2>1. TypeOK'
    BY ZenonT(30)
  <2>2. /\ \A o \in Callers : pc'[o] = pc[o] \/ pc'[o] = "create"
        /\ UNCHANGED <<held, backend, dev, wbe, wpc>>
    BY ZenonT(30)
  <2> QED
    BY ONLY SMTT(30), EngineInv, <2>1, <2>2
    DEF EngineInv, WatchdogDeviceOpen, StopOwnsDevice, Stopping, Starting, Open
<1>2. ASSUME NEW d \in Devices, StartCreated(c, d) PROVE EngineInv'
  <2> USE <1>2 DEF StartCreated
  <2>1. TypeOK'
    OBVIOUS
  <2>2. held'[c] = d /\ dev'[d] # Closed /\ \A o \in Callers : o # c => held'[o] = held[o]
    OBVIOUS
  <2>3. \A e \in Devices : e # d => dev'[e] = dev[e]
    BY ZenonT(30)
  <2>4. WatchdogDeviceOpen' /\ StopOwnsDevice'
    BY <2>2, <2>3 DEF Fresh
  <2> QED
    BY <2>1, <2>2, <2>3, <2>4 DEF Fresh
<1>3. CASE StartFailed(c)
  BY <1>3 DEF StartFailed
<1>4. CASE StartInstall(c)
  BY <1>4 DEF StartInstall
<1>5. CASE StartArm(c)
  BY <1>5 DEF StartArm
<1>6. CASE StartSpawn(c)
  BY <1>6 DEF StartSpawn
<1>7. ASSUME NEW hs \in BOOLEAN, StartProbe(c, hs) PROVE EngineInv'
  BY <1>7 DEF StartProbe
<1>8. CASE StartReturn(c)
  BY <1>8 DEF StartReturn
<1> QED
  BY ZenonT(30), <1>1, <1>2, <1>3, <1>4, <1>5, <1>6, <1>7, <1>8 DEF Start

(* So does every step of Stop; StopWait and StopWoken use that no watchdog *)
(* runs, StopClose that nobody else holds the device.                      *)
LEMMA StopInv ==
    ASSUME EngineInv, NEW c \in Callers, Stop(c)
    PROVE  EngineInv'
<1> USE DEF EngineInv, TypeOK, WatchdogDeviceOpen, StopOwnsDevice, Stopping, Starting,
            Open, Goto, Return, SetNow, shared, dogs, States, CallerPC, DogPC
<1>1. CASE StopCall(c)
  BY <1>1 DEF StopCall
<1>2. CASE StopWait(c)
  BY <1>2 DEF StopWait, NoWatchdog
<1>3. CASE StopWoken(c)
  <2>1. CASE NoWatchdog
    BY <1>3, <2>1 DEF StopWoken, NoWatchdog
  <2>2. CASE ~NoWatchdog
    BY <1>3, <2>2 DEF StopWoken
  <2> QED
    BY ZenonT(30), <2>1, <2>2
<1>4. CASE StopClose(c)
  BY <1>4 DEF StopClose
<1> QED
  BY ZenonT(30), <1>1, <1>2, <1>3, <1>4 DEF Stop

(* So do ApplyConfiguration, RotateEndpoint and Wake.                      *)
LEMMA UseInv ==
    ASSUME EngineInv, NEW c \in Callers,
           ApplyConfiguration(c) \/ RotateEndpoint(c) \/ Wake(c)
    PROVE  EngineInv'
<1> USE DEF EngineInv, TypeOK, WatchdogDeviceOpen, StopOwnsDevice, Stopping, Starting,
            Open, Goto, Return, SetNow, shared, dogs, States, CallerPC, DogPC
<1>1. ASSUME NEW ep \in Endpoints, ApplyCall(c, ep) \/ RotateCall(c, ep) PROVE EngineInv'
  <2>1. CASE ApplyCall(c, ep)
    BY <2>1 DEF ApplyCall, UseBackend
  <2>2. CASE RotateCall(c, ep)
    BY <2>2 DEF RotateCall, UseBackend
  <2> QED
    BY ZenonT(30), <1>1, <2>1, <2>2
<1>2. CASE ApplyDevice(c) \/ RotateDevice(c)
  <2>1. dev' \in [Devices -> Endpoints \cup {Closed}]
    BY <1>2 DEF ApplyDevice, RotateDevice, DeviceApply
  <2>2. \A d \in Devices : Open(d) => Open(d)'
    BY <1>2 DEF ApplyDevice, RotateDevice, DeviceApply
  <2>3. CASE ApplyDevice(c)
    BY <2>1, <2>2, <2>3 DEF ApplyDevice
  <2>4. CASE RotateDevice(c)
    BY <2>1, <2>2, <2>4 DEF RotateDevice
  <2> QED
    BY ZenonT(30), <1>2, <2>3, <2>4
<1>3. CASE DeviceError(c, "apply") \/ DeviceError(c, "rotate") \/ DeviceError(c, "rebind")
  <2>1. ASSUME NEW from \in {"apply", "rotate", "rebind"}, DeviceError(c, from)
        PROVE  EngineInv'
    <3>1. dev' \in [Devices -> Endpoints \cup {Closed}]
      BY <2>1 DEF DeviceError, DeviceApply
    <3>2. \A d \in Devices : Open(d) => Open(d)'
      BY <2>1 DEF DeviceError, DeviceApply
    <3>3. rebindErr' \in BOOLEAN
      BY ZenonT(30), <2>1 DEF DeviceError
    <3>4. /\ pc' = [pc EXCEPT ![c] = "idle"] /\ held' = [held EXCEPT ![c] = NoDevice]
          /\ UNCHANGED <<shared, arg, sawHS, dogs, crashed>>
      BY ZenonT(30), <2>1 DEF DeviceError
    <3>5. TypeOK'
      BY ZenonT(30), <3>1, <3>3, <3>4
    <3> QED
      BY <3>2, <3>4, <3>5
  <2> QED
    BY ZenonT(30), <1>3, <2>1
<1>4. CASE ApplyCommit(c)
  <2>1. arg[c] \in Endpoints
    BY ZenonT(30)
  <2>2. TypeOK'
    BY ZenonT(30), <1>4, <2>1 DEF ApplyCommit
  <2>3. UNCHANGED <<backend, dev, wpc, wbe>> /\ pc' = [pc EXCEPT ![c] = "idle"]
        /\ held' = [held EXCEPT ![c] = NoDevice]
    BY ZenonT(30), <1>4 DEF ApplyCommit
  <2> QED
    BY <2>2, <2>3
<1>5. CASE RotateRebind(c)
  BY <1>5 DEF RotateRebind
<1>6. CASE RotateCommit(c)
  <2>1. arg[c] \in Endpoints
    BY ZenonT(30)
  <2>2. TypeOK'
    BY ZenonT(30), <1>6, <2>1 DEF RotateCommit
  <2>3. UNCHANGED <<backend, dev, wpc, wbe>> /\ pc' = [pc EXCEPT ![c] = "idle"]
        /\ held' = [held EXCEPT ![c] = NoDevice]
    BY ZenonT(30), <1>6 DEF RotateCommit
  <2> QED
    BY <2>2, <2>3
<1>7. CASE UseBackend(c, "Wake", "wake") /\ UNCHANGED arg
  BY <1>7 DEF UseBackend
<1>8. CASE WakeReset(c)
  BY <1>8 DEF WakeReset
<1> QED
  BY ZenonT(30), <1>1, <1>2, <1>3, <1>4, <1>5, <1>6, <1>7, <1>8
     DEF ApplyConfiguration, RotateEndpoint, Wake

(* So does every step of a watchdog.                                       *)
LEMMA WatchdogInv ==
    ASSUME EngineInv, NEW w \in Devices, Watchdog(w)
    PROVE  EngineInv'
<1> USE DEF EngineInv, TypeOK, WatchdogDeviceOpen, StopOwnsDevice, Stopping, Starting,
            Open, SetNow, SetSince, shared, callers, dogs, States, CallerPC, DogPC
<1>1. CASE WatchdogExit(w)
  BY <1>1 DEF WatchdogExit
<1>2. CASE WakeDetected(w)
  BY <1>2 DEF WakeDetected
<1>3. CASE WakeDetectedReset(w)
  BY <1>3 DEF WakeDetectedReset
<1>4. CASE StepSnapshot(w)
  BY <1>4 DEF StepSnapshot
<1>5. ASSUME NEW outcome \in Outcomes, StepCommit(w, outcome) PROVE EngineInv'
  <2>1. state' \in States /\ grace' \in BOOLEAN /\ retries' \in 0..(MaxRetries + 1)
    <3>1. CASE noteFailureLocked
      BY ZenonT(30), <3>1 DEF noteFailureLocked
    <3>2. CASE ~noteFailureLocked
      BY ZenonT(30), <1>5, <3>2 DEF StepCommit, PollTransition, AllOutcomes
    <3> QED
      BY ZenonT(30), <3>1, <3>2
  <2>2. TypeOK'
    BY ZenonT(30), <1>5, <2>1 DEF StepCommit
  <2>3. /\ \A d \in Devices : wbe'[d] = wbe[d] \/ wbe'[d] = NoDevice
        /\ wbe'[w] = NoDevice
        /\ wpc[w] = "probed" /\ wpc'[w] = "select"
        /\ \A d \in Devices : d # w => wpc'[d] = wpc[d]
        /\ UNCHANGED <<pc, held, backend, dev>>
    BY <1>5 DEF StepCommit
  <2> QED
    BY <2>2, <2>3
<1> QED
  BY ZenonT(30), <1>1, <1>2, <1>3, <1>4, <1>5 DEF Watchdog

(* The end of the grace window changes none of what it speaks of.          *)
LEMMA GraceInv ==
    ASSUME EngineInv, GraceEnds
    PROVE  EngineInv'
BY ZenonT(30) DEF GraceEnds, EngineInv, TypeOK, WatchdogDeviceOpen, StopOwnsDevice, Stopping,
       Starting, Open, callers, dogs

(* EngineInv holds in every reachable state.                               *)
THEOREM EngineInvariant == Spec => []EngineInv
<1>1. EngineInv /\ [Next]_vars => EngineInv'
  <2> SUFFICES ASSUME EngineInv, [Next]_vars PROVE EngineInv'
    BY ZenonT(30)
  <2>1. CASE UNCHANGED vars
    BY <2>1 DEF vars, shared, callers, dogs, EngineInv, TypeOK, WatchdogDeviceOpen,
                StopOwnsDevice, Stopping, Starting, Open
  <2>2. ASSUME NEW c \in Callers, Caller(c) PROVE EngineInv'
    BY ZenonT(30), <2>2, StartInv, StopInv, UseInv DEF Caller
  <2>3. ASSUME NEW w \in Devices, Watchdog(w) PROVE EngineInv'
    BY ZenonT(30), <2>3, WatchdogInv
  <2> QED
    BY ZenonT(30), <2>1, <2>2, <2>3, GraceInv DEF Next
<1> QED
  BY InitInv, <1>1, PTL DEF Spec

(* The engine is type correct however its calls overlap.                   *)
THEOREM TypeCorrect == Spec => []TypeOK
<1>1. EngineInv => TypeOK
  BY ZenonT(30) DEF EngineInv
<1> QED
  BY EngineInvariant, <1>1, PTL

(* No watchdog iteration ever works on a closed device, whatever Stop,     *)
(* Start and the other calls do meanwhile.                                 *)
THEOREM WatchdogSafe == Spec => []WatchdogDeviceOpen
<1>1. EngineInv => WatchdogDeviceOpen
  BY ZenonT(30) DEF EngineInv
<1> QED
  BY EngineInvariant, <1>1, PTL

(* Every device leaves the engine with exactly one Stop.                   *)
THEOREM StopOwnership == Spec => []StopOwnsDevice
<1>1. EngineInv => StopOwnsDevice
  BY ZenonT(30) DEF EngineInv
<1> QED
  BY EngineInvariant, <1>1, PTL

(***************************************************************************)
(* One caller at a time.                                                   *)
(***************************************************************************)
OneCaller == \A c, o \in Callers : c = o

(* Where the caller is tells what is in the engine.  A call that uses the  *)
(* backend holds the engine's; a Start before it installs one, and a Stop, *)
(* find none.  A device outside the engine is one that a Start or a Stop   *)
(* holds, a watchdog the engine does not know one that a Stop waits for.   *)
UsesBackend == {"arm", "spawn", "probe", "started", "apply", "applied", "rotate",
                "rebind", "rotated", "wake"}
WithoutBackend == {"create", "install", "wait", "blocked", "woken", "close"}
Reconfigured == {"applied", "rebind", "rotated"}

SerialInv ==
    /\ \A d \in Devices : Open(d) /\ d # backend =>
          \E c \in Callers : held[c] = d /\ pc[c] \in WithoutBackend
    /\ \A w \in Devices : wpc[w] # "off" /\ w # cancel =>
          stopped[w] /\ \E c \in Callers : pc[c] \in {"wait", "blocked"}
    /\ \A w \in Devices : stopped[w] => wpc[w] # "off" /\ w # cancel
    /\ cancel # backend => cancel = NoDevice /\ \E c \in Callers : pc[c] = "arm"
    /\ cancel # NoDevice => wpc[cancel] # "off" \/ \E c \in Callers : pc[c] = "spawn"
    /\ backend # NoDevice /\ ~rebindErr /\ dev[backend] # endpoint =>
          \E c \in Callers : pc[c] \in Reconfigured
    /\ \A c \in Callers :
          /\ pc[c] \in UsesBackend => held[c] = backend /\ backend # NoDevice
          /\ pc[c] \in WithoutBackend => backend = NoDevice /\ cancel = NoDevice
          /\ pc[c] \in {"idle", "create"} => held[c] = NoDevice
          /\ pc[c] = "create" => arg[c] = endpoint
          /\ pc[c] = "install" => dev[held[c]] = endpoint
          /\ pc[c] \in Reconfigured => dev[held[c]] = arg[c]

(* What the calls and the watchdogs need of EngineInv.                     *)
LEMMA Parts ==
    ASSUME EngineInv
    PROVE  /\ backend \in Devices \cup {NoDevice} /\ cancel \in Devices \cup {NoDevice}
           /\ DOMAIN dev = Devices /\ DOMAIN wpc = Devices /\ DOMAIN stopped = Devices
           /\ DOMAIN pc = Callers /\ DOMAIN held = Callers /\ DOMAIN arg = Callers
           /\ \A c \in Callers : held[c] \in Devices \cup {NoDevice}
           /\ backend # NoDevice => Open(backend)
BY ZenonT(30) DEF EngineInv, TypeOK

(* And what Start needs: the watchdog of its device does not run yet.      *)
LEMMA Unwatched ==
    ASSUME EngineInv, NEW c \in Callers, Starting(c)
    PROVE  held[c] \in Devices /\ wpc[held[c]] = "off"
BY ZenonT(30) DEF EngineInv

(* Start keeps SerialInv when there is one caller.                         *)
LEMMA SerialStart ==
    ASSUME EngineInv, SerialInv, OneCaller, NEW c \in Callers, Start(c)
    PROVE  SerialInv'
<1>0. \A o \in Callers : o = c
  BY ZenonT(30) DEF OneCaller
<1> USE <1>0, Parts DEF SerialInv, UsesBackend, WithoutBackend, Reconfigured, Open,
                        Goto, Return, SetNow, SetSince, shared, dogs
<1>1. ASSUME NEW ep \in Endpoints, StartCall(c, ep) PROVE SerialInv'
  BY <1>1 DEF StartCall
<1>2. ASSUME NEW d \in Devices, StartCreated(c, d) PROVE SerialInv'
  BY <1>2 DEF StartCreated
<1>3. CASE StartFailed(c)
  BY <1>3 DEF StartFailed
<1>4. CASE StartInstall(c)
  <2>1. held[c] \in Devices /\ wpc[held[c]] = "off"
    BY ZenonT(30), <1>4, Unwatched DEF StartInstall, Starting
  <2> QED
    BY <1>4, <2>1 DEF StartInstall
<1>5. CASE StartArm(c)
  BY <1>5 DEF StartArm
<1>6. CASE StartSpawn(c)
  BY <1>6 DEF StartSpawn
<1>7. ASSUME NEW hs \in BOOLEAN, StartProbe(c, hs) PROVE SerialInv'
  BY <1>7 DEF StartProbe
<1>8. CASE StartReturn(c)
  BY <1>8 DEF StartReturn
<1> QED
  BY ZenonT(30), <1>1, <1>2, <1>3, <1>4, <1>5, <1>6, <1>7, <1>8 DEF Start

(* So does Stop: it closes the device once no watchdog is left.            *)
LEMMA SerialStop ==
    ASSUME EngineInv, SerialInv, OneCaller, NEW c \in Callers, Stop(c)
    PROVE  SerialInv'
<1>0. \A o \in Callers : o = c
  BY ZenonT(30) DEF OneCaller
<1> USE <1>0, Parts DEF SerialInv, UsesBackend, WithoutBackend, Reconfigured, Open,
                        Goto, Return, SetNow, shared, dogs
<1>1. CASE StopCall(c)
  <2>1. /\ pc[c] = "idle" /\ pc'[c] = "wait" /\ held'[c] = backend
        /\ backend' = NoDevice /\ cancel' = NoDevice
        /\ UNCHANGED <<dev, wpc>>
    BY <1>1 DEF StopCall
  <2>3. \A d \in Devices : stopped'[d] <=> stopped[d] \/ d = cancel
    BY ZenonT(30), <1>1 DEF StopCall
  <2>2. /\ \A d \in Devices : Open(d) => d = backend
        /\ \A w \in Devices : wpc[w] # "off" => w = cancel
    BY <2>1
  <2> QED
    BY <2>1, <2>2, <2>3
<1>2. CASE StopWait(c)
  BY <1>2 DEF StopWait, NoWatchdog
<1>3. CASE StopWoken(c)
  BY <1>3 DEF StopWoken, NoWatchdog
<1>4. CASE StopClose(c)
  BY <1>4 DEF StopClose
<1> QED
  BY ZenonT(30), <1>1, <1>2, <1>3, <1>4 DEF Stop

(* The device that ApplyConfiguration or RotateEndpoint changes is the     *)
(* current one, and the call records its new endpoint later.               *)
LEMMA SerialDevice ==
    ASSUME EngineInv, SerialInv, NEW c \in Callers, \A o \in Callers : o = c,
           pc[c] \in {"apply", "rotate"}, pc'[c] \in {"applied", "rebind"},
           UNCHANGED <<backend, cancel, endpoint, held, arg, wpc, stopped, rebindErr>>,
           \A d \in Devices : dev'[d] = IF d = held[c] /\ dev[d] # Closed THEN arg[c] ELSE dev[d]
    PROVE  SerialInv'
<1>1. /\ held[c] = backend /\ backend # NoDevice /\ backend \in Devices /\ Open(backend)
      /\ cancel = backend
  BY ZenonT(30), Parts DEF SerialInv, UsesBackend
<1>2. /\ dev'[backend] = arg[c]
      /\ \A d \in Devices : d # backend => dev'[d] = dev[d]
  BY ZenonT(30), <1>1 DEF Open
<1>3. \A d \in Devices : Open(d)' => d = backend
  BY ZenonT(30), <1>1, <1>2 DEF SerialInv, WithoutBackend, Open
<1> QED
  BY ZenonT(30), <1>1, <1>2, <1>3
     DEF SerialInv, UsesBackend, WithoutBackend, Reconfigured

(* So do ApplyConfiguration, RotateEndpoint and Wake, on the device they   *)
(* read under the lock.                                                    *)
LEMMA SerialUse ==
    ASSUME EngineInv, SerialInv, OneCaller, NEW c \in Callers,
           ApplyConfiguration(c) \/ RotateEndpoint(c) \/ Wake(c)
    PROVE  SerialInv'
<1>0. \A o \in Callers : o = c
  BY ZenonT(30) DEF OneCaller
<1> USE <1>0, Parts DEF SerialInv, UsesBackend, WithoutBackend, Reconfigured, Open,
                        Goto, Return, SetNow, shared, dogs
<1>1. ASSUME NEW ep \in Endpoints, ApplyCall(c, ep) PROVE SerialInv'
  BY ZenonT(30), <1>1 DEF ApplyCall, UseBackend
<1>2. ASSUME NEW ep \in Endpoints, RotateCall(c, ep) PROVE SerialInv'
  BY ZenonT(30), <1>2 DEF RotateCall, UseBackend
<1>3. CASE ApplyDevice(c)
  <2>1. /\ pc[c] = "apply" /\ pc'[c] = "applied"
        /\ UNCHANGED <<backend, cancel, endpoint, held, arg, wpc, stopped, rebindErr>>
    BY ZenonT(30), <1>3 DEF ApplyDevice
  <2>2. \A d \in Devices : dev'[d] = IF d = held[c] /\ dev[d] # Closed THEN arg[c] ELSE dev[d]
    BY ZenonT(30), <1>3 DEF ApplyDevice, DeviceApply
  <2> QED
    BY ZenonT(30), <2>1, <2>2, SerialDevice
<1>4. CASE RotateDevice(c)
  <2>1. /\ pc[c] = "rotate" /\ pc'[c] = "rebind"
        /\ UNCHANGED <<backend, cancel, endpoint, held, arg, wpc, stopped, rebindErr>>
    BY ZenonT(30), <1>4 DEF RotateDevice
  <2>2. \A d \in Devices : dev'[d] = IF d = held[c] /\ dev[d] # Closed THEN arg[c] ELSE dev[d]
    BY ZenonT(30), <1>4 DEF RotateDevice, DeviceApply
  <2> QED
    BY ZenonT(30), <2>1, <2>2, SerialDevice
<1>5. ASSUME NEW from \in {"apply", "rotate", "rebind"}, DeviceError(c, from) PROVE SerialInv'
  <2>1. /\ pc[c] = from /\ pc'[c] = "idle" /\ held'[c] = NoDevice
        /\ UNCHANGED <<backend, cancel, endpoint, wpc, stopped>>
    BY ZenonT(30), <1>5 DEF DeviceError
  <2>2. backend # NoDevice
    BY ZenonT(30), <2>1
  <2>3. CASE UNCHANGED dev
    <3>1. rebindErr \/ from = "rebind" => rebindErr'
      BY ZenonT(30), <1>5 DEF DeviceError
    <3>2. dev[backend] # endpoint => rebindErr'
      BY ZenonT(30), <2>1, <2>2, <3>1
    <3> QED
      BY ZenonT(30), <2>1, <2>2, <2>3, <3>1, <3>2
  <2>4. CASE rebindErr' /\ DeviceApply(c) /\ from # "rebind"
    <3>1. /\ held[c] = backend /\ backend \in Devices /\ Open(backend) /\ cancel = backend
      BY ZenonT(30), <2>1, <2>4, <2>2
    <3>2. /\ dev'[backend] = arg[c]
          /\ \A d \in Devices : d # backend => dev'[d] = dev[d]
      BY ZenonT(30), <2>4, <3>1 DEF DeviceApply
    <3>3. \A d \in Devices : Open(d)' => d = backend
      BY ZenonT(30), <3>1, <3>2
    <3> QED
      BY ZenonT(30), <2>1, <2>2, <2>4, <3>1, <3>2, <3>3
  <2> QED
    BY ZenonT(30), <1>5, <2>3, <2>4 DEF DeviceError
<1>6. CASE ApplyCommit(c)
  BY ZenonT(30), <1>6 DEF ApplyCommit
<1>7. CASE RotateRebind(c)
  BY ZenonT(30), <1>7 DEF RotateRebind
<1>8. CASE RotateCommit(c)
  BY ZenonT(30), <1>8 DEF RotateCommit
<1>9. CASE UseBackend(c, "Wake", "wake") /\ UNCHANGED arg
  BY ZenonT(30), <1>9 DEF UseBackend
<1>10. CASE WakeReset(c)
  BY ZenonT(30), <1>10 DEF WakeReset
<1> QED
  BY ZenonT(30), <1>1, <1>2, <1>3, <1>4, <1>5, <1>6, <1>7, <1>8, <1>9, <1>10
     DEF ApplyConfiguration, RotateEndpoint, Wake

(* So do the steps of a watchdog, which never touch the device.            *)
LEMMA SerialWatchdog ==
    ASSUME EngineInv, SerialInv, OneCaller, NEW w \in Devices, Watchdog(w)
    PROVE  SerialInv'
<1> USE Parts DEF SerialInv, UsesBackend, WithoutBackend, Reconfigured, Open,
                  shared, callers, dogs
<1>1. CASE WatchdogExit(w)
  <2>1. /\ wpc[w] = "select" /\ stopped[w]
        /\ \A d \in Devices : d # w => wpc'[d] = wpc[d] /\ stopped'[d] = stopped[d]
        /\ wpc'[w] = "off" /\ stopped'[w] = FALSE
        /\ UNCHANGED <<backend, cancel, endpoint, dev, held, arg, rebindErr>>
    BY <1>1 DEF WatchdogExit
  <2>2. \A c \in Callers :
           \/ pc'[c] = pc[c]
           \/ /\ pc[c] = "blocked" /\ pc'[c] = "woken"
              /\ \A d \in Devices : d # w => wpc[d] = "off"
    BY ZenonT(30), <1>1 DEF WatchdogExit
  <2>3. w # cancel
    BY ZenonT(30), <2>1
  <2>4. \A d \in Devices : Open(d)' /\ d # backend' =>
           \E c \in Callers : held'[c] = d /\ pc'[c] \in WithoutBackend
    <3>1. \A c \in Callers : pc[c] \in WithoutBackend => pc'[c] \in WithoutBackend
      BY ZenonT(30), <2>2
    <3> HIDE DEF WithoutBackend
    <3> QED
      BY ZenonT(30), <2>1, <3>1
  <2>5. \A d \in Devices : wpc'[d] # "off" /\ d # cancel' =>
           stopped'[d] /\ \E c \in Callers : pc'[c] \in {"wait", "blocked"}
    BY <2>1, <2>2
  <2>6. /\ \A d \in Devices : stopped'[d] => wpc'[d] # "off" /\ d # cancel'
        /\ cancel' # NoDevice => wpc'[cancel] # "off" \/ \E c \in Callers : pc'[c] = "spawn"
    BY <2>1, <2>2, <2>3
  <2>7. /\ cancel' # backend' => cancel' = NoDevice /\ \E c \in Callers : pc'[c] = "arm"
        /\ backend' # NoDevice /\ ~rebindErr' /\ dev'[backend'] # endpoint' =>
              \E c \in Callers : pc'[c] \in Reconfigured
    BY ZenonT(30), <2>1, <2>2
  <2>8. \A c \in Callers :
          /\ pc'[c] \in UsesBackend => held'[c] = backend' /\ backend' # NoDevice
          /\ pc'[c] \in WithoutBackend => backend' = NoDevice /\ cancel' = NoDevice
          /\ pc'[c] \in {"idle", "create"} => held'[c] = NoDevice
          /\ pc'[c] = "create" => arg'[c] = endpoint'
          /\ pc'[c] = "install" => dev'[held'[c]] = endpoint'
          /\ pc'[c] \in Reconfigured => dev'[held'[c]] = arg'[c]
    BY <2>1, <2>2
  <2> QED
    BY ZenonT(30), <2>1, <2>4, <2>5, <2>6, <2>7, <2>8
<1>2. CASE WakeDetected(w)
  BY ZenonT(30), <1>2 DEF WakeDetected
<1>3. CASE WakeDetectedReset(w)
  <2>1. /\ UNCHANGED <<pc, held, arg, backend, cancel, endpoint, dev, stopped, rebindErr>>
        /\ \A d \in Devices : (wpc'[d] = "off") <=> (wpc[d] = "off")
    BY ZenonT(30), <1>3 DEF WakeDetectedReset
  <2> QED
    BY <2>1
<1>4. CASE StepSnapshot(w)
  <2>1. /\ UNCHANGED <<pc, held, arg, backend, cancel, endpoint, dev, stopped, rebindErr>>
        /\ \A d \in Devices : (wpc'[d] = "off") <=> (wpc[d] = "off")
    BY ZenonT(30), <1>4 DEF StepSnapshot
  <2> QED
    BY <2>1
<1>5. ASSUME NEW outcome \in Outcomes, StepCommit(w, outcome) PROVE SerialInv'
  <2>1. /\ UNCHANGED <<pc, held, arg, backend, cancel, endpoint, dev, stopped, rebindErr>>
        /\ \A d \in Devices : (wpc'[d] = "off") <=> (wpc[d] = "off")
    BY ZenonT(30), <1>5 DEF StepCommit
  <2> QED
    BY <2>1
<1> QED
  BY ZenonT(30), <1>1, <1>2, <1>3, <1>4, <1>5 DEF Watchdog

(* SerialInv is inductive relative to EngineInv when there is one caller.  *)
LEMMA SerialStep ==
    ASSUME EngineInv, SerialInv, OneCaller, [Next]_vars
    PROVE  SerialInv'
<1>1. ASSUME NEW c \in Callers, Caller(c) PROVE SerialInv'
  BY ZenonT(30), <1>1, SerialStart, SerialStop, SerialUse DEF Caller
<1>2. ASSUME NEW w \in Devices, Watchdog(w) PROVE SerialInv'
  BY ZenonT(30), <1>2, SerialWatchdog
<1>3. CASE GraceEnds
  BY ZenonT(30), <1>3 DEF GraceEnds, SerialInv, Open, callers, dogs
<1>4. CASE UNCHANGED vars
  BY ZenonT(30), <1>4 DEF vars, shared, callers, dogs, SerialInv, Open
<1> QED
  BY ZenonT(30), <1>1, <1>2, <1>3, <1>4 DEF Next

(* SerialInv holds throughout when there is one caller.                    *)
LEMMA SerialInvariant ==
    ASSUME OneCaller
    PROVE  Spec => [](EngineInv /\ SerialInv)
<1>1. Init => SerialInv
  BY DEF Init, SerialInv, Open, UsesBackend, WithoutBackend, Reconfigured
<1>2. EngineInv /\ SerialInv /\ [Next]_vars => SerialInv'
  BY ZenonT(30), SerialStep
<1> QED
  BY <1>1, <1>2, EngineInvariant, PTL DEF Spec

(* With one caller, a finished Stop leaves neither a device nor a watchdog *)
(* behind, and Status reports the endpoint the device uses unless a rebind *)
(* failed: for any number of devices, endpoints and retries (engine.go).   *)
THEOREM EngineSettles ==
    ASSUME OneCaller
    PROVE  Spec => []EngineSettled
<1>1. EngineInv /\ SerialInv => EngineSettled
  <2> SUFFICES ASSUME EngineInv, SerialInv, \A c \in Callers : pc[c] = "idle"
               PROVE  /\ {d \in Devices : Open(d)} = {backend} \ {NoDevice}
                      /\ {d \in Devices : wpc[d] # "off"} = {cancel} \ {NoDevice}
                      /\ cancel = backend
                      /\ backend # NoDevice /\ ~rebindErr => dev[backend] = endpoint
    BY ZenonT(30) DEF EngineSettled
  <2>1. /\ backend \in Devices \cup {NoDevice} /\ cancel \in Devices \cup {NoDevice}
        /\ backend # NoDevice => Open(backend)
    BY ZenonT(30), Parts
  <2>2. \A d \in Devices : Open(d) <=> d = backend
    BY ZenonT(30), <2>1, EngineAssumption DEF SerialInv, WithoutBackend
  <2>3. \A d \in Devices : wpc[d] # "off" <=> d = cancel
    BY <2>1 DEF SerialInv
  <2>4. /\ cancel = backend
        /\ backend # NoDevice /\ ~rebindErr => dev[backend] = endpoint
    BY ZenonT(30) DEF SerialInv, Reconfigured
  <2> QED
    BY ZenonT(30), <2>1, <2>2, <2>3, <2>4
<1> QED
  BY <1>1, SerialInvariant, PTL

(* With one caller the state becomes UP without a device only by the hand  *)
(* of a watchdog that Stop has already told to end (monitor.go, step).     *)
THEOREM UpOnlyWithDevice ==
    ASSUME OneCaller
    PROVE  Spec => UpHasDevice
<1>1. ASSUME EngineInv, SerialInv, [Next]_vars, state' = "UP", backend' = NoDevice,
             ~(state = "UP" /\ backend = NoDevice)
      PROVE  \E w \in Devices : wpc[w] = "probed" /\ wpc'[w] = "select" /\ stopped[w]
  <2>0. ASSUME UNCHANGED <<state, backend>> PROVE FALSE
    BY ZenonT(30), <1>1, <2>0
  <2>1. ASSUME NEW c \in Callers, Start(c) PROVE FALSE
    <3>1. ASSUME NEW ep \in Endpoints, StartCall(c, ep) PROVE FALSE
      BY ZenonT(30), <1>1, <3>1 DEF StartCall, SetNow
    <3>2. ASSUME NEW d \in Devices, StartCreated(c, d) PROVE FALSE
      BY ZenonT(30), <2>0, <3>2 DEF StartCreated, shared
    <3>3. CASE StartFailed(c)
      BY ZenonT(30), <1>1, <3>3 DEF StartFailed, SetNow
    <3>4. CASE StartInstall(c)
      <4>1. backend' = held[c] /\ pc[c] = "install"
        BY ZenonT(30), <3>4 DEF StartInstall, Goto
      <4>2. Starting(c)
        BY ZenonT(30), <4>1 DEF Starting
      <4>3. held[c] \in Devices
        BY <1>1, <4>2, ZenonT(30) DEF EngineInv
      <4> QED
        BY ZenonT(30), <1>1, <4>1, <4>3, EngineAssumption
    <3>5. CASE StartArm(c)
      BY ZenonT(30), <2>0, <3>5 DEF StartArm
    <3>6. CASE StartSpawn(c)
      BY ZenonT(30), <2>0, <3>6 DEF StartSpawn, shared
    <3>7. ASSUME NEW hs \in BOOLEAN, StartProbe(c, hs) PROVE FALSE
      BY ZenonT(30), <2>0, <3>7 DEF StartProbe, shared
    <3>8. CASE StartReturn(c)
      <4>1. backend' = backend /\ pc[c] = "started"
        BY ZenonT(30), <3>8 DEF StartReturn, Return, Goto
      <4> QED
        BY ZenonT(30), <1>1, <4>1 DEF SerialInv, UsesBackend
    <3> QED
      BY ZenonT(30), <2>1, <3>1, <3>2, <3>3, <3>4, <3>5, <3>6, <3>7, <3>8 DEF Start
  <2>2. ASSUME NEW c \in Callers, Stop(c) PROVE FALSE
    BY ZenonT(30), <1>1, <2>2 DEF Stop, StopCall, StopWait, StopWoken, StopClose, SetNow, shared
  <2>3. ASSUME NEW c \in Callers, ApplyConfiguration(c) \/ RotateEndpoint(c) \/ Wake(c)
        PROVE  FALSE
    <3>1. ASSUME NEW from, NEW to, UseBackend(c, from, to) PROVE FALSE
      BY ZenonT(30), <2>0, <3>1 DEF UseBackend, shared
    <3>2. ASSUME NEW from, DeviceError(c, from) PROVE FALSE
      BY ZenonT(30), <2>0, <3>2 DEF DeviceError, shared
    <3>3. CASE ApplyDevice(c) \/ ApplyCommit(c) \/ RotateDevice(c)
               \/ RotateRebind(c) \/ WakeReset(c)
      BY ZenonT(30), <2>0, <3>3
         DEF ApplyDevice, ApplyCommit, RotateDevice, RotateRebind, WakeReset, shared
    <3>4. CASE RotateCommit(c)
      BY ZenonT(30), <1>1, <3>4 DEF RotateCommit, SetNow
    <3> QED
      BY ZenonT(30), <2>3, <3>1, <3>2, <3>3, <3>4
         DEF ApplyConfiguration, ApplyCall, RotateEndpoint, RotateCall, Wake
  <2>4. ASSUME NEW w \in Devices, Watchdog(w)
        PROVE  wpc[w] = "probed" /\ wpc'[w] = "select" /\ stopped[w]
    <3>1. PICK outcome \in Outcomes : StepCommit(w, outcome)
      BY ZenonT(30), <2>0, <2>4
         DEF Watchdog, WatchdogExit, WakeDetected, WakeDetectedReset, StepSnapshot, shared
    <3>2. wpc[w] = "probed" /\ wpc'[w] = "select" /\ backend = NoDevice
      BY ZenonT(30), <1>1, <3>1 DEF StepCommit, EngineInv, TypeOK
    <3>3. cancel = NoDevice
      BY ZenonT(30), <1>1, <3>2 DEF SerialInv
    <3> QED
      BY ZenonT(30), <1>1, <3>2, <3>3 DEF SerialInv
  <2>5. CASE GraceEnds \/ UNCHANGED vars
    BY ZenonT(30), <2>0, <2>5 DEF GraceEnds, vars, shared
  <2> QED
    BY ZenonT(30), <1>1, <2>1, <2>2, <2>3, <2>4, <2>5 DEF Next, Caller
<1>2. EngineInv /\ SerialInv /\ [Next]_vars =>
         [state' = "UP" /\ backend' = NoDevice /\ ~(state = "UP" /\ backend = NoDevice) =>
            \E w \in Devices : wpc[w] = "probed" /\ wpc'[w] = "select" /\ stopped[w]]_vars
  BY ZenonT(30), <1>1
<1> QED
  BY <1>2, SerialInvariant, PTL DEF Spec, UpHasDevice

=============================================================================
