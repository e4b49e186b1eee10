----------------------------- MODULE AbuseGuard -----------------------------
(***************************************************************************)
(* The abuse guard of a node (internal/nodes/abuse.go and the prechecks of *)
(* controller.go and api.go) with the operator's commands                  *)
(* (cmd/veilnet-node): the blocklist, the complaint log with its automatic *)
(* emergency disable, and the rate limits of Limiter.  The daemon reads    *)
(* the blocklist and the configuration once, when it starts; each command  *)
(* is a process of its own that loads a file, changes its copy and writes  *)
(* it back in place.                                                       *)
(***************************************************************************)
EXTENDS Limiter

CONSTANTS
    Pubkeys,        \* client public keys
    Reporters,      \* goroutines of the daemon that report a complaint
    Tools,          \* operator commands that may run at the same time
    Threshold,      \* ComplaintThreshold, normalised
    Nothing, Torn,  \* nobody; a file cut short
    MaxAttempts,    \* bound: requests to the daemon
    MaxClock,       \* bound: time
    MaxComplaints,  \* bound: complaints
    MaxTools        \* bound: commands

ASSUME GuardAssumption ==
    /\ {Threshold, MaxAttempts, MaxClock, MaxComplaints, MaxTools} \subseteq Nat
    /\ {"authorize", "mgmt"} \subseteq Classes

VARIABLES
    up,         \* the daemon is running
    auto,       \* AbusePolicy.AutoDisable in the daemon
    disabled,   \* Config.EmergencyDisable in the daemon
    blocked,    \* Blocklist.ips and .pubkeys in the daemon
    attempts,   \* requests so far
    complaints, \* lines of complaints.jsonl
    report,     \* the ReportComplaint of each goroutine of the daemon
    blockfile,  \* blocklist.json
    config,     \* the node configuration file: WireGuard key, disable flag
    tool,       \* the operator commands
    tools,      \* commands so far
    lastIn,     \* the client admitted last
    wanted,     \* what the operator's finished commands want blocked
    wantedUp,   \* that, when the daemon started
    crossed,    \* commands on the blocklist overlapped or were cut short
    tripped,    \* a report-abuse command has disabled the node
    rotated,    \* finished rotate-keys commands
    cfgCrossed, \* commands on the configuration overlapped or were cut short
    excused     \* the operator, or a report elsewhere, came after the last report

requestVars == <<attempts, lastIn>>
complaintVars == <<complaints, report, excused>>
blockVars == <<blockfile, wanted, crossed>>
configVars == <<config, tripped, rotated, cfgCrossed>>
daemonVars == <<up, auto, disabled, blocked, wantedUp>>
guardVars == <<limiterVars, requestVars, complaintVars, blockVars, configVars,
               daemonVars, tool, tools>>

NoReport == [pc |-> "idle", fresh |-> FALSE]
NoTool == [cmd |-> "none"]
Busy(cmds) == {t \in Tools : tool[t].cmd \in cmds}
BlockCmds == {"block", "unblock"}
ConfigCmds == {"report", "rotate"}
Fresh == [key |-> 0, disabled |-> FALSE]

GuardInit ==
    /\ LimiterInit
    /\ up = FALSE /\ auto = FALSE /\ disabled = FALSE /\ blocked = {} /\ wantedUp = {}
    /\ attempts = 0 /\ lastIn = Nothing
    /\ complaints = 0 /\ report = [r \in Reporters |-> NoReport] /\ excused = TRUE
    /\ blockfile = {} /\ wanted = {} /\ crossed = FALSE
    /\ config = Fresh /\ tripped = FALSE /\ rotated = 0 /\ cfgCrossed = FALSE
    /\ tool = [t \in Tools |-> NoTool] /\ tools = 0

(***************************************************************************)
(* The daemon.                                                             *)
(***************************************************************************)

(* cmdRun: a blocklist cut short is refused; of a configuration cut short  *)
(* the defaults may be all that is read.                                   *)
StartNode ==
    /\ ~up /\ up' = TRUE
    /\ blockfile # Torn /\ blocked' = blockfile
    /\ wantedUp' = IF crossed THEN {} ELSE wanted
    /\ disabled' = IF config = Torn THEN FALSE ELSE config.disabled
    /\ auto' \in BOOLEAN /\ excused' = TRUE
    /\ lastIn' = Nothing /\ UNCHANGED attempts
    /\ Rebuild
    /\ UNCHANGED <<complaints, report, blockVars, configVars, tool, tools>>

StopNode ==
    /\ up /\ up' = FALSE
    /\ report' = [r \in Reporters |-> NoReport]
    /\ UNCHANGED <<limiterVars, requestVars, complaints, excused, blockVars, configVars,
                   auto, disabled, blocked, wantedUp, tool, tools>>

Requests == up /\ attempts < MaxAttempts /\ attempts' = attempts + 1

(* Mutant: the blocklist is asked for the address as it was presented.     *)
PreAuthorizeRaw(a, p) ==
    /\ Requests /\ ~disabled
    /\ {a, p} \cap blocked = {}
    /\ \/ Allow("authorize", normalizeIP[a])
          /\ lastIn' = [ip |-> normalizeIP[a], pubkey |-> p]
       \/ Refuse("authorize", normalizeIP[a]) /\ UNCHANGED lastIn
    /\ UNCHANGED <<complaintVars, blockVars, configVars, daemonVars, tool, tools>>

(* Controller.Authorize up to PreAuthorize: a disabled node and a blocked  *)
(* client are turned away before the bucket is charged.                    *)
PreAuthorize(a, p) ==
    /\ Requests /\ ~disabled
    /\ {normalizeIP[a], p} \cap blocked = {}
    /\ \/ Allow("authorize", normalizeIP[a])
          /\ lastIn' = [ip |-> normalizeIP[a], pubkey |-> p]
       \/ Refuse("authorize", normalizeIP[a]) /\ UNCHANGED lastIn
    /\ UNCHANGED <<complaintVars, blockVars, configVars, daemonVars, tool, tools>>

(* authLoopback charges the management bucket before any other check.      *)
AllowMgmtRequest(a) ==
    /\ Requests
    /\ Allow("mgmt", normalizeIP[a]) \/ Refuse("mgmt", normalizeIP[a])
    /\ UNCHANGED <<lastIn, complaintVars, blockVars, configVars, daemonVars, tool, tools>>

(***************************************************************************)
(* Complaints that reach the daemon.                                       *)
(***************************************************************************)
Daemon == UNCHANGED <<limiterVars, requestVars, blockVars, configVars, tool, tools>>

(* ReportAbuse appends to the log.                                         *)
ReportComplaint(r) ==
    /\ up /\ report[r] = NoReport /\ complaints < MaxComplaints
    /\ complaints' = complaints + 1
    /\ report' = [report EXCEPT ![r] = [pc |-> "policy", fresh |-> TRUE]]
    /\ UNCHANGED <<excused, daemonVars>> /\ Daemon

Reported(r) ==
    /\ report' = [report EXCEPT ![r] = NoReport]
    /\ excused' = (excused /\ ~report[r].fresh)

ReadPolicy(r) ==
    /\ report[r].pc = "policy"
    /\ IF auto THEN report' = [report EXCEPT ![r].pc = "count"] /\ UNCHANGED excused
               ELSE Reported(r)
    /\ UNCHANGED <<complaints, daemonVars>> /\ Daemon

(* Mutant: one complaint more than the threshold.                          *)
CountAbove(r) ==
    /\ report[r].pc = "count"
    /\ IF complaints > Threshold
       THEN report' = [report EXCEPT ![r].pc = "trigger"] /\ UNCHANGED excused
       ELSE Reported(r)
    /\ UNCHANGED <<complaints, daemonVars>> /\ Daemon

(* A log that cannot be read ends the report.                              *)
Count(r) ==
    /\ report[r].pc = "count"
    /\ \/ IF complaints >= Threshold
          THEN report' = [report EXCEPT ![r].pc = "trigger"] /\ UNCHANGED excused
          ELSE Reported(r)
       \/ report' = [report EXCEPT ![r] = NoReport] /\ excused' = TRUE
    /\ UNCHANGED <<complaints, daemonVars>> /\ Daemon

(* onTrigger.                                                              *)
Trigger(r) ==
    /\ report[r].pc = "trigger" /\ disabled' = TRUE /\ Reported(r)
    /\ UNCHANGED <<complaints, up, auto, blocked, wantedUp>> /\ Daemon

(* SetEmergencyDisable and SetPolicy, by the operator.                     *)
Operate ==
    /\ up
    /\ \/ disabled' \in BOOLEAN /\ UNCHANGED auto
       \/ auto' \in BOOLEAN /\ UNCHANGED disabled
    /\ excused' = TRUE /\ report' = [r \in Reporters |-> [report[r] EXCEPT !.fresh = FALSE]]
    /\ UNCHANGED <<complaints, up, blocked, wantedUp>> /\ Daemon

(***************************************************************************)
(* The operator's commands.                                                *)
(***************************************************************************)
Process == UNCHANGED <<limiterVars, requestVars, daemonVars>>
Begin(t) == tool[t] = NoTool /\ tools < MaxTools /\ tools' = tools + 1
At(t, pc, cmds) == tool[t].cmd \in cmds /\ tool[t].pc = pc

(* NewBlocklist: a file cut short ends the command.                        *)
cmdBlocklist(t) ==
    /\ Begin(t) /\ blockfile # Torn
    /\ \E c \in BlockCmds, e \in Keys \cup Pubkeys :
          tool' = [tool EXCEPT ![t] = [cmd |-> c, pc |-> "open", entry |-> e, copy |-> blockfile]]
    /\ crossed' = (crossed \/ Busy(BlockCmds) # {})
    /\ UNCHANGED <<blockfile, wanted, complaintVars, configVars>> /\ Process

Changed(s, x) == IF x.cmd = "block" THEN s \cup {x.entry} ELSE s \ {x.entry}

(* saveLocked truncates the file, then writes it; either may be cut short. *)
saveLocked(t) ==
    /\ \/ /\ At(t, "open", BlockCmds)
          /\ blockfile' = Torn /\ tool' = [tool EXCEPT ![t].pc = "write"]
          /\ UNCHANGED <<wanted, crossed>>
       \/ /\ At(t, "write", BlockCmds) /\ tool' = [tool EXCEPT ![t] = NoTool]
          /\ \/ /\ blockfile' = Changed(tool[t].copy, tool[t])
                /\ wanted' = Changed(wanted, tool[t]) /\ UNCHANGED crossed
             \/ crossed' = TRUE /\ UNCHANGED <<blockfile, wanted>>
    /\ UNCHANGED <<tools, complaintVars, configVars>> /\ Process

(* report-abuse appends to the log; with the policy on and the threshold   *)
(* reached it goes on to the configuration.                                *)
cmdReportAbuse(t) ==
    /\ Begin(t) /\ complaints < MaxComplaints
    /\ complaints' = complaints + 1 /\ excused' = TRUE
    /\ \/ UNCHANGED tool
       \/ complaints' >= Threshold
          /\ tool' = [tool EXCEPT ![t] = [cmd |-> "report", pc |-> "load"]]
    /\ UNCHANGED <<report, blockVars, configVars>> /\ Process

cmdRotateKeys(t) ==
    /\ Begin(t) /\ tool' = [tool EXCEPT ![t] = [cmd |-> "rotate", pc |-> "load"]]
    /\ UNCHANGED <<complaintVars, blockVars, configVars>> /\ Process

Load(t) ==
    /\ At(t, "load", ConfigCmds)
    /\ tool' = [tool EXCEPT ![t] = [cmd |-> tool[t].cmd, pc |-> "open",
                                    copy |-> IF config = Torn THEN Fresh ELSE config]]
    /\ cfgCrossed' = (cfgCrossed \/ config = Torn
                      \/ \E o \in Tools : At(o, "open", ConfigCmds))
    /\ UNCHANGED <<tools, complaintVars, blockVars, config, tripped, rotated>> /\ Process

(* emergency_disable is set, or a key nobody had before.                   *)
Edited(t) ==
    IF tool[t].cmd = "report" THEN [tool[t].copy EXCEPT !.disabled = TRUE]
                              ELSE [tool[t].copy EXCEPT !.key = rotated + 1]

Save(t) ==
    /\ \/ /\ At(t, "open", ConfigCmds)
          /\ config' = Torn /\ tool' = [tool EXCEPT ![t].pc = "write"]
          /\ UNCHANGED <<tripped, rotated, cfgCrossed>>
       \/ /\ At(t, "write", ConfigCmds) /\ tool' = [tool EXCEPT ![t] = NoTool]
          /\ \/ /\ config' = Edited(t) /\ UNCHANGED cfgCrossed
                /\ tripped' = (tripped \/ tool[t].cmd = "report")
                /\ rotated' = rotated + (IF tool[t].cmd = "rotate" THEN 1 ELSE 0)
             \/ cfgCrossed' = TRUE /\ UNCHANGED <<config, tripped, rotated>>
    /\ UNCHANGED <<tools, complaintVars, blockVars>> /\ Process

Elapse ==
    /\ time < MaxClock /\ Pass
    /\ UNCHANGED <<requestVars, complaintVars, blockVars, configVars, daemonVars, tool, tools>>

(* Requests, with the commands they depend on; and complaints, with        *)
(* theirs.                                                                 *)
AccessNext ==
    \/ StartNode \/ StopNode \/ Elapse
    \/ \E a \in Addrs : AllowMgmtRequest(a) \/ \E p \in Pubkeys : PreAuthorize(a, p)
    \/ \E t \in Tools : cmdBlocklist(t) \/ saveLocked(t)

ComplaintNext ==
    \/ StartNode \/ StopNode \/ Operate
    \/ \E r \in Reporters : ReportComplaint(r) \/ ReadPolicy(r) \/ Count(r) \/ Trigger(r)
    \/ \E t \in Tools : cmdReportAbuse(t) \/ cmdRotateKeys(t) \/ Load(t) \/ Save(t)

GuardSpec == GuardInit /\ [][AccessNext \/ ComplaintNext]_guardVars

-----------------------------------------------------------------------------
(***************************************************************************)
(* Properties.                                                             *)
(***************************************************************************)

(* cmdBlocklist, NewBlocklist, PreAuthorize (main.go 304-342, abuse.go     *)
(* 124-227, 364-370): a client whose address or key was on the list when   *)
(* the daemon started is not admitted, in whatever form it presents its    *)
(* address, unless two commands on the list overlapped or one was cut      *)
(* short.  cmdReportAbuse, cmdRotateKeys (main.go 270-300, 387-397): the   *)
(* configuration file keeps both the emergency disable and the newest key, *)
(* under the same condition.                                               *)
OperatorEditsHold ==
    /\ up /\ lastIn # Nothing => {lastIn.ip, lastIn.pubkey} \cap wantedUp = {}
    /\ ~cfgCrossed /\ config # Torn => (tripped => config.disabled) /\ config.key = rotated

(* ReportComplaint (abuse.go 389-412): when all reports are over and the   *)
(* log has reached the threshold, the node is disabled, however the        *)
(* reports interleaved, unless the operator intervened or complaints came  *)
(* in elsewhere after the last report.                                     *)
TriggerFires ==
    up /\ auto /\ ~excused /\ complaints >= Threshold
       /\ (\A r \in Reporters : report[r] = NoReport) => disabled
=============================================================================
