---------------------------- MODULE TunnelEngine ----------------------------
(***************************************************************************)
(* The client's tunnel engine: internal/tunnel/engine.go (Start, Stop,     *)
(* ApplyConfiguration, RotateEndpoint, Wake), its watchdog goroutine       *)
(* (internal/tunnel/monitor.go) and the device handle behind it            *)
(* (internal/tunnel/backend.go).                                           *)
(*                                                                         *)
(* A caller is a goroutine that uses the Engine interface; the IPC server  *)
(* runs one per connection, so calls overlap.  Every critical section of   *)
(* e.mu is one step, and so is every call made between two of them.        *)
(* A device stands for one successful createBackend, and the watchdog that *)
(* Start spawns for it carries the same name.                              *)
(***************************************************************************)
EXTENDS Integers, FiniteSets

CONSTANTS
    Callers,      \* goroutines that call the engine
    Devices,      \* identities of the backends that createBackend returns
    Endpoints,    \* peer endpoints
    MaxRetries,   \* e.maxRetries
    Ops,          \* the operations the callers use
    Outcomes,     \* what a poll of the device may report
    NoDevice,     \* a nil backend, a nil cancel function
    Closed        \* a device that is not open

AllOps == {"Start", "Stop", "Apply", "Rotate", "Wake"}

(* What step makes of a poll: the probe failed; there is no handshake yet; *)
(* there is one older than staleAfter; there is a recent one that is not   *)
(* newer than lastHS; there is a recent, newer one.                        *)
AllOutcomes == {"error", "none", "stale", "same", "fresh"}

ASSUME EngineAssumption ==
    /\ MaxRetries \in Nat
    /\ Ops \subseteq AllOps
    /\ Outcomes \subseteq AllOutcomes
    /\ NoDevice \notin Devices
    /\ Closed \notin Endpoints

VARIABLES
    state,     \* e.state
    grace,     \* staleAfter has not yet passed since e.since
    retries,   \* e.retries, saturated: the code only asks retries > maxRetries
    backend,   \* e.backend
    cancel,    \* e.cancel, named by the watchdog it stops
    endpoint,  \* e.endpoint
    dev,       \* the endpoint each open device is configured with, or Closed
    pc,        \* where each caller is
    held,      \* the backend a caller keeps in a local variable
    arg,       \* the endpoint a caller was called with
    sawHS,     \* Start's probe saw a handshake
    wpc,       \* where each watchdog is
    wbe,       \* the backend a watchdog's iteration works on
    stopped,   \* the watchdog's stop channel is closed
    rebindErr, \* history: a call failed once the device had its new endpoint
    crashed    \* sync.WaitGroup panicked: the process is gone

shared == <<state, grace, retries, backend, cancel, endpoint>>
callers == <<pc, held, arg, sawHS>>
dogs == <<wpc, wbe, stopped>>
vars == <<shared, dev, callers, dogs, rebindErr, crashed>>

States == {"DOWN", "CONNECTING", "UP", "FAILED"}
CallerPC == {"idle", "create", "install", "arm", "spawn", "probe", "started",
             "wait", "blocked", "woken", "close",
             "apply", "applied", "rotate", "rebind", "rotated", "wake"}
DogPC == {"off", "select", "wake", "poll", "probed"}

Init ==
    /\ state = "DOWN" /\ grace = TRUE /\ retries = 0
    /\ backend = NoDevice /\ cancel = NoDevice
    /\ endpoint \in Endpoints
    /\ dev = [d \in Devices |-> Closed]
    /\ pc = [c \in Callers |-> "idle"]
    /\ held = [c \in Callers |-> NoDevice]
    /\ arg = [c \in Callers |-> endpoint]
    /\ sawHS = [c \in Callers |-> FALSE]
    /\ wpc = [d \in Devices |-> "off"]
    /\ wbe = [d \in Devices |-> NoDevice]
    /\ stopped = [d \in Devices |-> FALSE]
    /\ rebindErr = FALSE /\ crashed = FALSE

(***************************************************************************)
(* Helpers.                                                                *)
(***************************************************************************)
Open(d) == dev[d] # Closed

(* e.wg counts the watchdogs between wg.Add(1) and their deferred Done.    *)
NoWatchdog == \A d \in Devices : wpc[d] = "off"

(* A device that createBackend may return: nothing refers to it any more.  *)
Fresh(d) ==
    /\ ~Open(d) /\ wpc[d] = "off" /\ backend # d /\ cancel # d
    /\ \A c \in Callers : held[c] # d
    /\ \A w \in Devices : wbe[w] # d

Goto(c, from, to) ==
    /\ ~crashed
    /\ pc[c] = from
    /\ pc' = [pc EXCEPT ![c] = to]
Return(c, from) == Goto(c, from, "idle") /\ held' = [held EXCEPT ![c] = NoDevice]

(* setLocked with the current time opens a new grace window; setLocked     *)
(* with e.since keeps the old one.                                         *)
SetNow(s) == state' = s /\ grace' = TRUE
SetSince(s) == state' = s /\ UNCHANGED grace

(***************************************************************************)
(* Start.  The backend is nil at the check; the lock is released while the *)
(* device is created, installed, armed with a cancel function, watched and *)
(* probed.  A Start that finds a backend returns and changes nothing.      *)
(***************************************************************************)
StartCall(c, ep) ==
    /\ "Start" \in Ops
    /\ backend = NoDevice
    /\ Goto(c, "idle", "create")
    /\ arg' = [arg EXCEPT ![c] = ep]
    /\ endpoint' = ep
    /\ SetNow("CONNECTING")
    /\ retries' = 0
    /\ rebindErr' = FALSE
    /\ UNCHANGED <<backend, cancel, dev, held, sawHS, dogs, crashed>>

StartCreated(c, d) ==
    /\ Fresh(d)
    /\ Goto(c, "create", "install")
    /\ held' = [held EXCEPT ![c] = d]
    /\ dev' = [dev EXCEPT ![d] = arg[c]]
    /\ UNCHANGED <<shared, arg, sawHS, dogs, rebindErr, crashed>>

StartFailed(c) ==
    /\ Return(c, "create")
    /\ SetNow("FAILED")
    /\ UNCHANGED <<retries, backend, cancel, endpoint, dev, arg, sawHS, dogs,
                   rebindErr, crashed>>

StartInstall(c) ==
    /\ Goto(c, "install", "arm")
    /\ backend' = held[c]
    /\ UNCHANGED <<state, grace, retries, cancel, endpoint, dev, held, arg,
                   sawHS, dogs, rebindErr, crashed>>

StartArm(c) ==
    /\ Goto(c, "arm", "spawn")
    /\ cancel' = held[c]
    /\ UNCHANGED <<state, grace, retries, backend, endpoint, dev, held, arg,
                   sawHS, dogs, rebindErr, crashed>>

StartSpawn(c) ==
    /\ Goto(c, "spawn", "probe")
    /\ wpc' = [wpc EXCEPT ![held[c]] = "select"]
    /\ UNCHANGED <<shared, dev, held, arg, sawHS, wbe, stopped, rebindErr, crashed>>

(* A device another caller has closed meanwhile reports no handshake.      *)
StartProbe(c, hs) ==
    /\ Goto(c, "probe", "started")
    /\ hs => Open(held[c]) /\ Outcomes \cap {"stale", "same", "fresh"} # {}
    /\ sawHS' = [sawHS EXCEPT ![c] = hs]
    /\ UNCHANGED <<shared, dev, held, arg, dogs, rebindErr, crashed>>

StartReturn(c) ==
    /\ Return(c, "started")
    /\ sawHS' = [sawHS EXCEPT ![c] = FALSE]
    /\ IF sawHS[c] THEN SetSince("UP") ELSE UNCHANGED <<state, grace>>
    /\ UNCHANGED <<retries, backend, cancel, endpoint, dev, arg, dogs, rebindErr,
                   crashed>>

Start(c) ==
    \/ \E ep \in Endpoints : StartCall(c, ep)
    \/ \E d \in Devices : StartCreated(c, d)
    \/ StartFailed(c)
    \/ StartInstall(c)
    \/ StartArm(c)
    \/ StartSpawn(c)
    \/ \E hs \in BOOLEAN : StartProbe(c, hs)
    \/ StartReturn(c)

(***************************************************************************)
(* Stop.  cancel() only closes the stop channel, so it is part of the      *)
(* locked step.  wg.Wait returns at once when no watchdog runs, and        *)
(* otherwise when the last one is done; a waiter that is woken and finds   *)
(* the counter positive again panics (sync.WaitGroup, external).           *)
(***************************************************************************)
(* Mutants: the state is left as it was; the stop channel is not closed.   *)
StopCallKeepsState(c) ==
    /\ "Stop" \in Ops
    /\ Goto(c, "idle", "wait")
    /\ held' = [held EXCEPT ![c] = backend]
    /\ stopped' = [d \in Devices |-> stopped[d] \/ d = cancel]
    /\ cancel' = NoDevice
    /\ backend' = NoDevice
    /\ UNCHANGED <<state, grace, retries, endpoint, dev, arg, sawHS, wpc, wbe, rebindErr,
                   crashed>>

StopCallUncancelled(c) ==
    /\ "Stop" \in Ops
    /\ Goto(c, "idle", "wait")
    /\ held' = [held EXCEPT ![c] = backend]
    /\ cancel' = NoDevice /\ backend' = NoDevice
    /\ SetNow("DOWN")
    /\ UNCHANGED <<retries, endpoint, dev, arg, sawHS, dogs, rebindErr, crashed>>

StopCall(c) ==
    /\ "Stop" \in Ops
    /\ Goto(c, "idle", "wait")
    /\ held' = [held EXCEPT ![c] = backend]
    /\ stopped' = [d \in Devices |-> stopped[d] \/ d = cancel]
    /\ cancel' = NoDevice
    /\ backend' = NoDevice
    /\ SetNow("DOWN")
    /\ UNCHANGED <<retries, endpoint, dev, arg, sawHS, wpc, wbe, rebindErr, crashed>>

(* Mutant: the device is closed without waiting for the watchdog.          *)
StopWaitSkipped(c) ==
    /\ Goto(c, "wait", "close")
    /\ UNCHANGED <<shared, dev, held, arg, sawHS, dogs, rebindErr, crashed>>

StopWait(c) ==
    /\ IF NoWatchdog THEN Goto(c, "wait", "close") ELSE Goto(c, "wait", "blocked")
    /\ UNCHANGED <<shared, dev, held, arg, sawHS, dogs, rebindErr, crashed>>

StopWoken(c) ==
    /\ IF NoWatchdog
       THEN Goto(c, "woken", "close") /\ UNCHANGED crashed
       ELSE Goto(c, "woken", "woken") /\ crashed' = TRUE
    /\ UNCHANGED <<shared, dev, held, arg, sawHS, dogs, rebindErr>>

StopClose(c) ==
    /\ Return(c, "close")
    /\ dev' = [d \in Devices |-> IF d = held[c] THEN Closed ELSE dev[d]]
    /\ UNCHANGED <<shared, arg, sawHS, dogs, rebindErr, crashed>>

Stop(c) == StopCall(c) \/ StopWait(c) \/ StopWoken(c) \/ StopClose(c)

(***************************************************************************)
(* ApplyConfiguration, RotateEndpoint and Wake: take the backend under the *)
(* lock, use it outside, take the lock again to record the result.         *)
(***************************************************************************)
UseBackend(c, op, to) ==
    /\ op \in Ops
    /\ backend # NoDevice
    /\ Goto(c, "idle", to)
    /\ held' = [held EXCEPT ![c] = backend]
    /\ UNCHANGED <<shared, dev, sawHS, dogs, rebindErr, crashed>>

(* be.apply on a device that is already closed configures nothing.         *)
DeviceApply(c) ==
    dev' = [dev EXCEPT ![held[c]] = IF @ = Closed THEN Closed ELSE arg[c]]

(* The device call fails: an apply before the device took the endpoint, or *)
(* after (the settings are handed over line by line), a rebind always      *)
(* after.                                                                  *)
DeviceError(c, from) ==
    /\ Return(c, from)
    /\ \/ from # "rebind" /\ UNCHANGED <<dev, rebindErr>>
       \/ from # "rebind" /\ DeviceApply(c) /\ rebindErr' = TRUE
       \/ from = "rebind" /\ UNCHANGED dev /\ rebindErr' = TRUE
    /\ UNCHANGED <<shared, arg, sawHS, dogs, crashed>>

ApplyCall(c, ep) ==
    /\ UseBackend(c, "Apply", "apply")
    /\ arg' = [arg EXCEPT ![c] = ep]

ApplyDevice(c) ==
    /\ Goto(c, "apply", "applied")
    /\ DeviceApply(c)
    /\ UNCHANGED <<shared, held, arg, sawHS, dogs, rebindErr, crashed>>

(* Mutant: the new endpoint is not recorded.                               *)
ApplyCommitForgets(c) ==
    /\ Return(c, "applied")
    /\ retries' = 0
    /\ rebindErr' = FALSE
    /\ UNCHANGED <<state, grace, backend, cancel, endpoint, dev, arg, sawHS, dogs,
                   crashed>>

ApplyCommit(c) ==
    /\ Return(c, "applied")
    /\ endpoint' = arg[c]
    /\ retries' = 0
    /\ rebindErr' = FALSE
    /\ UNCHANGED <<state, grace, backend, cancel, dev, arg, sawHS, dogs, crashed>>

ApplyConfiguration(c) ==
    \/ \E ep \in Endpoints : ApplyCall(c, ep)
    \/ ApplyDevice(c)
    \/ DeviceError(c, "apply")
    \/ ApplyCommit(c)

RotateCall(c, ep) ==
    /\ UseBackend(c, "Rotate", "rotate")
    /\ arg' = [arg EXCEPT ![c] = ep]

RotateDevice(c) ==
    /\ Goto(c, "rotate", "rebind")
    /\ DeviceApply(c)
    /\ UNCHANGED <<shared, held, arg, sawHS, dogs, rebindErr, crashed>>

RotateRebind(c) ==
    /\ Goto(c, "rebind", "rotated")
    /\ UNCHANGED <<shared, dev, held, arg, sawHS, dogs, rebindErr, crashed>>

RotateCommit(c) ==
    /\ Return(c, "rotated")
    /\ endpoint' = arg[c]
    /\ retries' = 0
    /\ IF state = "FAILED" THEN SetNow("CONNECTING") ELSE UNCHANGED <<state, grace>>
    /\ rebindErr' = FALSE
    /\ UNCHANGED <<backend, cancel, dev, arg, sawHS, dogs, crashed>>

RotateEndpoint(c) ==
    \/ \E ep \in Endpoints : RotateCall(c, ep)
    \/ RotateDevice(c)
    \/ RotateRebind(c)
    \/ DeviceError(c, "rotate")
    \/ DeviceError(c, "rebind")
    \/ RotateCommit(c)

WakeReset(c) ==
    /\ Return(c, "wake")
    /\ retries' = 0
    /\ UNCHANGED <<state, grace, backend, cancel, endpoint, dev, arg, sawHS, dogs,
                   rebindErr, crashed>>

Wake(c) ==
    \/ UseBackend(c, "Wake", "wake") /\ UNCHANGED arg
    \/ WakeReset(c)

(***************************************************************************)
(* The watchdog.  In its select a closed stop channel and a tick may both  *)
(* be ready.  An iteration that notices a wall-clock jump rebinds and      *)
(* resets the retries first; then step takes the backend, probes it        *)
(* without the lock and records the outcome under it.                      *)
(***************************************************************************)
WatchdogExit(w) ==
    /\ ~crashed
    /\ wpc[w] = "select" /\ stopped[w]
    /\ wpc' = [wpc EXCEPT ![w] = "off"]
    /\ stopped' = [stopped EXCEPT ![w] = FALSE]
    /\ pc' = IF \A d \in Devices : d # w => wpc[d] = "off"
             THEN [c \in Callers |-> IF pc[c] = "blocked" THEN "woken" ELSE pc[c]]
             ELSE pc
    /\ UNCHANGED <<shared, dev, held, arg, sawHS, wbe, rebindErr, crashed>>

WakeDetected(w) ==
    /\ "Wake" \in Ops
    /\ ~crashed
    /\ wpc[w] = "select"
    /\ backend # NoDevice
    /\ wpc' = [wpc EXCEPT ![w] = "wake"]
    /\ wbe' = [wbe EXCEPT ![w] = backend]
    /\ UNCHANGED <<shared, dev, callers, stopped, rebindErr, crashed>>

WakeDetectedReset(w) ==
    /\ ~crashed
    /\ wpc[w] = "wake"
    /\ wpc' = [wpc EXCEPT ![w] = "poll"]
    /\ wbe' = [wbe EXCEPT ![w] = NoDevice]
    /\ retries' = 0
    /\ UNCHANGED <<state, grace, backend, cancel, endpoint, dev, callers, stopped,
                   rebindErr, crashed>>

(* step returns at once when the backend is nil.                           *)
StepSnapshot(w) ==
    /\ ~crashed
    /\ wpc[w] \in {"select", "poll"}
    /\ wpc' = [wpc EXCEPT ![w] = IF backend = NoDevice THEN "select" ELSE "probed"]
    /\ wbe' = [wbe EXCEPT ![w] = backend]
    /\ UNCHANGED <<shared, dev, callers, stopped, rebindErr, crashed>>

(* Mutant: only a tunnel that was UP gives up.                             *)
noteFailureWhenUp ==
    /\ retries' = IF retries > MaxRetries THEN retries ELSE retries + 1
    /\ IF state = "UP"
       THEN SetNow(IF retries + 1 > MaxRetries THEN "FAILED" ELSE "CONNECTING")
       ELSE UNCHANGED <<state, grace>>

noteFailureLocked ==
    /\ retries' = IF retries > MaxRetries THEN retries ELSE retries + 1
    /\ IF retries + 1 > MaxRetries
       THEN IF state # "FAILED" THEN SetNow("FAILED") ELSE UNCHANGED <<state, grace>>
       ELSE IF state = "UP" THEN SetNow("CONNECTING") ELSE UNCHANGED <<state, grace>>

(* The transition of one poll; recoverLocked only adds a rebind of the     *)
(* device to noteFailureLocked.                                            *)
PollTransition(outcome) ==
    CASE outcome \in {"error", "stale"} -> noteFailureLocked
      [] outcome = "none" /\ ~grace -> noteFailureLocked
      [] outcome = "none" /\ grace ->
            /\ IF state \in {"CONNECTING", "UP"}
               THEN UNCHANGED <<state, grace>> ELSE SetNow("CONNECTING")
            /\ UNCHANGED retries
      [] outcome = "same" /\ state = "UP" -> UNCHANGED <<state, grace, retries>>
      [] outcome = "fresh" \/ (outcome = "same" /\ state # "UP") ->
            SetSince("UP") /\ retries' = 0

StepCommit(w, outcome) ==
    /\ ~crashed
    /\ wpc[w] = "probed"
    /\ wpc' = [wpc EXCEPT ![w] = "select"]
    /\ wbe' = [wbe EXCEPT ![w] = NoDevice]
    /\ PollTransition(outcome)
    /\ UNCHANGED <<backend, cancel, endpoint, dev, callers, stopped, rebindErr, crashed>>

Watchdog(w) ==
    \/ WatchdogExit(w)
    \/ WakeDetected(w)
    \/ WakeDetectedReset(w)
    \/ StepSnapshot(w)
    \/ \E outcome \in Outcomes : StepCommit(w, outcome)

(* staleAfter passes without a change of state.                            *)
GraceEnds ==
    /\ ~crashed
    /\ grace /\ grace' = FALSE
    /\ UNCHANGED <<state, retries, backend, cancel, endpoint, dev, callers, dogs,
                   rebindErr, crashed>>

Caller(c) ==
    Start(c) \/ Stop(c) \/ ApplyConfiguration(c) \/ RotateEndpoint(c) \/ Wake(c)

Next ==
    \/ \E c \in Callers : Caller(c)
    \/ \E w \in Devices : Watchdog(w)
    \/ GraceEnds

Spec == Init /\ [][Next]_vars

(***************************************************************************)
(* Fairness.  A goroutine in the middle of a call, or of a watchdog        *)
(* iteration, is scheduled again; time passes.  The Go select chooses at   *)
(* random between a tick and the closed stop channel, so a watchdog that   *)
(* keeps coming back to it takes the exit (strong fairness).               *)
(***************************************************************************)
Proceed(c) == pc[c] # "idle" /\ Caller(c)

Fairness ==
    /\ \A c \in Callers : WF_vars(Proceed(c))
    /\ \A w \in Devices : WF_vars(Watchdog(w))
    /\ \A w \in Devices : SF_vars(WatchdogExit(w))
    /\ WF_vars(GraceEnds)

FairSpec == Spec /\ Fairness

-----------------------------------------------------------------------------
(* Every variable of the engine, of the callers and of the watchdogs has a *)
(* value the code can give it; in particular a caller past createBackend   *)
(* has a backend in its hands, and retries never passes maxRetries + 1.    *)
TypeOK ==
    /\ state \in States /\ grace \in BOOLEAN
    /\ retries \in 0..(MaxRetries + 1)
    /\ backend \in Devices \cup {NoDevice}
    /\ cancel \in Devices \cup {NoDevice}
    /\ endpoint \in Endpoints
    /\ dev \in [Devices -> Endpoints \cup {Closed}]
    /\ pc \in [Callers -> CallerPC]
    /\ held \in [Callers -> Devices \cup {NoDevice}]
    /\ arg \in [Callers -> Endpoints]
    /\ sawHS \in [Callers -> BOOLEAN]
    /\ wpc \in [Devices -> DogPC]
    /\ wbe \in [Devices -> Devices \cup {NoDevice}]
    /\ stopped \in [Devices -> BOOLEAN]
    /\ rebindErr \in BOOLEAN /\ crashed \in BOOLEAN

(* However the calls overlap, a watchdog iteration never works on a device *)
(* that has been closed: Stop closes the device it took out of the engine  *)
(* only after wg.Wait has seen every watchdog finish, and step only takes  *)
(* devices that are still in the engine.                                   *)
WatchdogDeviceOpen ==
    \A w \in Devices : wbe[w] # NoDevice => Open(wbe[w])

(* However the calls overlap, a device leaves the engine with one Stop: no *)
(* two Stop calls ever hold the same device, so none is closed twice, and  *)
(* the engine's backend is never a device that a Stop is about to close.   *)
Stopping(c) == pc[c] \in {"wait", "blocked", "woken", "close"} /\ held[c] # NoDevice

StopOwnsDevice ==
    \A c \in Callers : Stopping(c) =>
        /\ Open(held[c])
        /\ backend # held[c]
        /\ \A o \in Callers : Stopping(o) /\ held[o] = held[c] => o = c

(* The inductive invariant behind the two above.  A Stop past wg.Wait      *)
(* holds a device no watchdog works on; a Start between createBackend and  *)
(* the assignment of e.backend holds an open device only it knows, and     *)
(* until it spawns the watchdog nobody else does; a watchdog outside an    *)
(* iteration works on no device.                                           *)
Starting(c) == pc[c] \in {"install", "arm", "spawn"}

EngineInv ==
    /\ TypeOK
    /\ backend # NoDevice => Open(backend)
    /\ WatchdogDeviceOpen
    /\ StopOwnsDevice
    /\ \A w \in Devices : wpc[w] \in {"off", "select", "poll"} => wbe[w] = NoDevice
    /\ \A c \in Callers : pc[c] = "close" /\ held[c] # NoDevice =>
           \A w \in Devices : wbe[w] # held[c]
    /\ \A c \in Callers : pc[c] = "install" =>
           /\ Open(held[c])
           /\ backend # held[c]
           /\ \A w \in Devices : wbe[w] # held[c]
           /\ \A o \in Callers : Stopping(o) => held[o] # held[c]
    /\ \A c \in Callers : Starting(c) =>
           /\ held[c] \in Devices
           /\ wpc[held[c]] = "off"
           /\ \A o \in Callers : Starting(o) /\ held[o] = held[c] => o = c

(* With one caller, between calls the open device and the running watchdog *)
(* are exactly the ones the engine still knows how to stop, so a finished  *)
(* Stop leaves nothing behind; and Status reports the endpoint the device  *)
(* really uses, except after a call that failed in the device: the device  *)
(* may then have the new endpoint, and e.endpoint is only written after.   *)
EngineSettled ==
    (\A c \in Callers : pc[c] = "idle") =>
        /\ {d \in Devices : Open(d)} = {backend} \ {NoDevice}
        /\ {d \in Devices : wpc[d] # "off"} = {cancel} \ {NoDevice}
        /\ cancel = backend
        /\ backend # NoDevice /\ ~rebindErr => dev[backend] = endpoint

(* The engine "never reports UP without a real device behind it"           *)
(* (engine.go, package comment), with one caller, but for an iteration of  *)
(* step (monitor.go 67-114) that probed the device before Stop took it and *)
(* records what it saw after.                                              *)
UpHasDevice ==
    [][state' = "UP" /\ backend' = NoDevice /\ ~(state = "UP" /\ backend = NoDevice) =>
          \E w \in Devices : wpc[w] = "probed" /\ wpc'[w] = "select" /\ stopped[w]]_vars

(* wg.Wait in Stop comes back: the watchdog it waits for leaves its loop   *)
(* once the stop channel is closed, so Stop "tears down the device and     *)
(* watchdog" (engine.go) instead of hanging.                               *)
StopReturns ==
    \A c \in Callers : pc[c] \in {"wait", "blocked", "woken"} ~> pc[c] = "idle"

(* A dead peer "cannot wedge us" (monitor.go): unless calls and wake-ups   *)
(* go on resetting the retries, the engine does not stay CONNECTING for    *)
(* ever; it has a handshake, gives up, or is stopped.                      *)
DeadPeerFails ==
    <>[][retries' >= retries]_vars =>
        ((state = "CONNECTING" /\ backend # NoDevice) ~>
         (state # "CONNECTING" \/ backend = NoDevice))

=============================================================================
