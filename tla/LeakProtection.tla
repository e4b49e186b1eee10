--------------------------- MODULE LeakProtection ---------------------------
(***************************************************************************)
(* The privileged service's leak protection: osEnforcer (cmd/veilnet-      *)
(* service/enforce.go) over the kill switch (internal/firewall), the       *)
(* resolvers (internal/dns) and the IPv6 block (internal/routing), in the  *)
(* order in which App.Connect, App.Disconnect and the service's start call *)
(* it (internal/app/app.go, cmd/veilnet-service/main.go).                  *)
(*                                                                         *)
(* One call at a time.  A step is one operation on the machine or on a     *)
(* state file; the process may die between two.  Every command may fail,   *)
(* and a command that fails may have done part of its work.  Connect       *)
(* refuses while a node is connected, so Apply never finds e.applied set.  *)
(* The tunnel is stopped before every Clear, and its link goes with it.    *)
(***************************************************************************)
EXTENDS Naturals

CONSTANTS
    Platforms,  \* the machines considered: pairs <<firewall, resolver>>
    Plans,      \* the plans that App.buildEnforcePlan makes
    Hardened,   \* the firewalls whose user may block by default already
    Faulty,     \* the firewalls on whose machines commands and file writes may fail
    MaxCrashes  \* bound on the crashes of a run

(* The kill switch's backends; iptables is the Linux one without nft.      *)
Firewalls == {"netsh", "nft", "iptables", "pf"}

(* The resolvers' backends: systemd-resolved keeps them with the tunnel's  *)
(* link; netsh and networksetup set them on the tunnel's interface; the    *)
(* Linux one without systemd-resolved rewrites /etc/resolv.conf.           *)
Resolvers == {"link", "iface", "file"}

AllPlans == [kill : BOOLEAN, dns : {"VEILNET", "DOH", "SYSTEM"}, routeV6 : BOOLEAN]

ASSUME LeakAssumption ==
    /\ Platforms \subseteq Firewalls \X Resolvers
    /\ Plans \subseteq AllPlans
    /\ Hardened \subseteq Firewalls
    /\ Faulty \subseteq Firewalls
    /\ MaxCrashes \in Nat

VARIABLES
    fw, rv,    \* the machine's firewall and resolver backends
    rules,     \* our rules (on nft our table, on pf our anchor) are loaded
    block,     \* the machine's own default: outbound is blocked, pf is enabled
    userBlock, \* history: what the default was before VeilNet
    dns,       \* the resolvers in force: the user's, the tunnel's or none
    v6,        \* IPv6 is blocked
    sentinel,  \* the policy in the kill switch's state file, or "absent"
    snap,      \* the resolvers in the dns snapshot file, or "absent"
    policy,    \* Enable's local variable
    active,    \* firewall.Manager.active
    dnsMgr,    \* osEnforcer.dnsMgr # nil
    ipv6,      \* osEnforcer.ipv6
    applied,   \* osEnforcer.applied
    connected, \* App.node # nil
    plan,      \* the plan being applied, or applied
    pc, ctx,   \* the next step, and the call it belongs to
    crashes,   \* crashes so far
    ended,     \* history: a session has ended since the process started
    spoilt     \* history: what a failed step left in a state that no later one mends

machine == <<rules, block, dns, v6>>
files == <<sentinel, snap>>
enforcer == <<active, dnsMgr, ipv6, applied>>
host == <<fw, rv, userBlock>>
past == <<host, crashes, ended>>
history == <<past, spoilt>>
vars == <<machine, files, enforcer, policy, connected, plan, pc, ctx, history>>

Init ==
    /\ \E m \in Platforms : fw = m[1] /\ rv = m[2]
    /\ block \in (IF fw \in Hardened THEN BOOLEAN ELSE {FALSE}) /\ userBlock = block
    /\ rules = FALSE /\ dns = "user" /\ v6 = FALSE
    /\ sentinel = "absent" /\ snap = "absent" /\ policy = "allow"
    /\ active = FALSE /\ dnsMgr = FALSE /\ ipv6 = "unknown" /\ applied = FALSE
    /\ connected = FALSE /\ plan \in Plans
    /\ pc = "off" /\ ctx = "clear"
    /\ crashes = 0 /\ ended = FALSE /\ spoilt = {}

(***************************************************************************)
(* Control.  clearLocked skips what e knows nothing of.                    *)
(***************************************************************************)
Goto(from, to) == pc = from /\ pc' = to
MayFail == fw \in Faulty
Spoils(what, bad) == spoilt' = spoilt \cup (IF bad THEN {what} ELSE {})

(* Mutant: clearLocked has nothing to do unless Apply succeeded.           *)
StartClearApplied(from) ==
    /\ pc = from
    /\ pc' = IF ~applied THEN "unlink" ELSE IF ipv6 = "blocked" THEN "ipv6off" ELSE "dnsback"
    /\ ctx' = "clear"

StartClear(from) ==
    /\ pc = from
    /\ pc' = IF ipv6 = "blocked" THEN "ipv6off" ELSE IF dnsMgr THEN "dnsback" ELSE "remove"
    /\ ctx' = "clear"

(* Apply's rollback after the kill switch was enabled, or not.             *)
Rollback(from) ==
    IF plan.kill THEN Goto(from, "remove") /\ ctx' = "undo" ELSE StartClear(from)

(* The kill switch lets nothing past but the tunnel.                       *)
Blocked == CASE fw = "nft" -> rules \/ block
             [] fw = "pf" -> rules /\ block
             [] fw \in {"netsh", "iptables"} -> block

(***************************************************************************)
(* Connect: the tunnel is up; Apply.                                       *)
(***************************************************************************)
Connect(p) ==
    /\ ~connected
    /\ Goto("idle", IF p.kill THEN "stale" ELSE "newdns")
    /\ plan' = p
    /\ ctx' = "apply"
    /\ UNCHANGED <<machine, files, enforcer, policy, connected, history>>

(* buildEnforcePlan fails (the endpoint does not resolve): Connect clears. *)
PlanFails ==
    /\ MayFail /\ ~connected
    /\ StartClear("idle")
    /\ UNCHANGED <<machine, files, enforcer, policy, connected, plan, history>>

(* Backend.Remove.  `iptables -D` names no rule that Enable inserted, so   *)
(* that the rules of iptables stay.  (Those that the fallback of nft       *)
(* inserts stay too; they only accept packets, and are left out.)          *)
Remove ==
    \/ rules' = (fw = "iptables" /\ rules) /\ UNCHANGED spoilt
    \/ MayFail /\ UNCHANGED rules /\ Spoils("rules", rules)

(* removeStale; a Remove that fails is ignored.                            *)
RemoveStale ==
    /\ Goto("stale", "policy")
    /\ IF sentinel = "absent" THEN UNCHANGED <<rules, spoilt>> ELSE Remove
    /\ sentinel' = "absent"
    /\ UNCHANGED <<block, dns, v6, snap, enforcer, policy, connected, plan, ctx, past>>

(* Backend.CurrentPolicy.  nft only looks for our table.                   *)
CurrentPolicy ==
    CASE fw \in {"netsh", "pf"} -> IF block THEN "block" ELSE "allow"
      [] fw = "nft" -> IF rules THEN "ours" ELSE "allow"
      [] fw = "iptables" -> "allow"

SnapshotPolicy ==
    /\ Goto("policy", "rules")
    /\ policy' = CurrentPolicy \/ (MayFail /\ fw # "netsh" /\ policy' = "allow")
    /\ Spoils("rules", policy' # CurrentPolicy)
    /\ UNCHANGED <<machine, files, enforcer, connected, plan, ctx, past>>

SnapshotPolicyFails ==
    /\ MayFail /\ fw = "netsh"
    /\ StartClear("policy")
    /\ UNCHANGED <<machine, files, enforcer, policy, connected, plan, history>>

(* Backend.Enable.  nft falls back to iptables, which sets the default     *)
(* too; pf enables pf and ignores the error.                               *)
EnableRules ==
    /\ Goto("rules", "block")
    /\ rules' = TRUE
    /\ CASE fw = "netsh" -> UNCHANGED block
         [] fw = "nft" -> UNCHANGED block \/ (MayFail /\ block' = TRUE)
         [] fw = "iptables" -> block' = TRUE
         [] fw = "pf" -> block' = TRUE \/ (MayFail /\ UNCHANGED block)
    /\ UNCHANGED <<dns, v6, files, enforcer, policy, connected, plan, ctx, history>>

(* Enable removes the rules after a failure; the default stays.            *)
EnableFails ==
    /\ MayFail
    /\ StartClear("rules")
    /\ rules' \in BOOLEAN
    /\ block' \in (IF fw \in {"nft", "iptables"} THEN {block, TRUE} ELSE {block})
    /\ Spoils("rules", rules' \/ block' # block)
    /\ UNCHANGED <<dns, v6, files, enforcer, policy, connected, plan, past>>

(* Mutant: SetBlock ignores the error on every system.                     *)
AssertBlockUnchecked == block' = TRUE \/ (MayFail /\ UNCHANGED block)

(* Backend.SetBlock.  nft declares its chains again; pf ignores the error. *)
(* Without nft it sets the default and reports an error.                   *)
AssertBlock ==
    CASE fw \in {"netsh", "iptables"} -> block' = TRUE
      [] fw = "nft" -> UNCHANGED block
      [] fw = "pf" -> block' = TRUE \/ (MayFail /\ UNCHANGED block)

SetBlock ==
    /\ Goto("block", "sentinel")
    /\ fw # "iptables"
    /\ AssertBlock
    /\ UNCHANGED <<rules, dns, v6, files, enforcer, policy, connected, plan, ctx, history>>

SetBlockFails ==
    /\ fw = "iptables" \/ (MayFail /\ fw # "pf")
    /\ StartClear("block")
    /\ rules' = (fw = "iptables" /\ rules) \/ (MayFail /\ UNCHANGED rules)
    /\ block' \in (IF fw = "netsh" THEN {block} ELSE IF MayFail THEN {block, TRUE} ELSE {TRUE})
    /\ Spoils("rules", rules' \/ block' # userBlock)
    /\ UNCHANGED <<dns, v6, files, enforcer, policy, connected, plan, past>>

WriteSentinel ==
    /\ Goto("sentinel", "newdns")
    /\ sentinel' = policy \/ (MayFail /\ UNCHANGED sentinel)
    /\ Spoils("rules", sentinel' # policy)
    /\ active' = TRUE
    /\ UNCHANGED <<machine, snap, dnsMgr, ipv6, applied, policy, connected, plan, ctx, past>>

(***************************************************************************)
(* dns.Manager.Apply.  The snapshot is only taken when there is none.      *)
(***************************************************************************)
NewDnsManager ==
    /\ Goto("newdns", "snapshot")
    /\ dnsMgr' = TRUE
    /\ UNCHANGED <<machine, files, active, ipv6, applied, policy, connected, plan, ctx,
                   history>>

EnsureSnapshot ==
    /\ Goto("snapshot", "dns")
    /\ IF snap # "absent" \/ plan.dns = "SYSTEM" THEN UNCHANGED snap
       ELSE snap' = dns \/ (MayFail /\ snap' \in {"absent", "none"})
    /\ Spoils("dns", snap' # snap /\ snap' # dns)
    /\ UNCHANGED <<machine, sentinel, enforcer, policy, connected, plan, ctx, past>>

(* DoH refuses a resolver it has no template for.                          *)
ResolversRefused ==
    /\ plan.dns = "DOH"
    /\ Rollback("snapshot")
    /\ UNCHANGED <<machine, files, enforcer, policy, connected, plan, history>>

(* What Backend.Restore makes of the snapshot.  An empty one is the        *)
(* interface's own default, or a resolv.conf that names no resolver.       *)
PriorResolvers ==
    CASE rv = "link" -> "user"
      [] rv = "iface" -> IF snap \in {"absent", "none"} THEN "user" ELSE snap
      [] rv = "file" -> IF snap = "absent" THEN "none" ELSE snap

(* There is nothing to restore a resolv.conf from.                         *)
Unsaved == rv = "file" /\ snap = "absent"

SetResolvers ==
    /\ Goto("dns", "ipv6")
    /\ plan.dns = "DOH" => fw = "netsh"
    /\ IF plan.dns = "SYSTEM" THEN dns' = PriorResolvers /\ snap' = "absent"
       ELSE dns' = "tunnel" /\ UNCHANGED snap
    /\ Spoils("dns", plan.dns = "SYSTEM" /\ Unsaved)
    /\ UNCHANGED <<rules, block, v6, sentinel, enforcer, policy, connected, plan, ctx,
                   past>>

(* What a failing command leaves; a resolv.conf may be cut short.          *)
PartlyRestored == IF rv = "file" THEN {dns, "none"} ELSE {dns}
PartlySet == IF rv = "file" THEN {dns, "none"} ELSE {dns, "tunnel"}

(* DoH can only be registered on Windows.  SYSTEM deletes the snapshot     *)
(* whether or not the resolvers were restored.                             *)
SetResolversFails ==
    /\ MayFail \/ (plan.dns = "DOH" /\ fw # "netsh")
    /\ Rollback("dns")
    /\ dns' \in CASE plan.dns = "SYSTEM" -> PartlyRestored
                  [] plan.dns = "DOH" /\ fw # "netsh" -> {dns}
                  [] OTHER -> PartlySet
    /\ snap' = IF plan.dns = "SYSTEM" THEN "absent" ELSE snap
    /\ Spoils("dns", plan.dns = "SYSTEM")
    /\ UNCHANGED <<rules, block, v6, sentinel, enforcer, policy, connected, plan, past>>

(***************************************************************************)
(* IPv6, and the end of Apply and of Connect.  The route commands refuse a *)
(* blackhole that is there already.                                        *)
(***************************************************************************)
CommitApply ==
    /\ Goto("ipv6", "idle")
    /\ IF plan.routeV6 THEN ipv6' = "routed" /\ UNCHANGED v6
       ELSE (fw = "netsh" \/ ~v6) /\ v6' = TRUE /\ ipv6' = "blocked"
    /\ applied' = TRUE
    /\ connected' = TRUE
    /\ UNCHANGED <<rules, block, dns, files, active, dnsMgr, policy, plan, ctx, history>>

(* netsh adds the rule before the command that may fail.                   *)
BlockIPv6Fails ==
    /\ ~plan.routeV6
    /\ MayFail \/ (fw # "netsh" /\ v6)
    /\ Goto("ipv6", "dnsback") /\ ctx' = "undo"
    /\ v6' \in (IF fw = "netsh" THEN {v6, TRUE} ELSE {v6})
    /\ Spoils("v6", v6' # v6)
    /\ UNCHANGED <<rules, block, dns, files, enforcer, policy, connected, plan, past>>

Apply ==
    \/ RemoveStale
    \/ SnapshotPolicy
    \/ SnapshotPolicyFails
    \/ EnableRules
    \/ EnableFails
    \/ SetBlock
    \/ SetBlockFails
    \/ WriteSentinel
    \/ NewDnsManager
    \/ EnsureSnapshot
    \/ ResolversRefused
    \/ SetResolvers
    \/ SetResolversFails
    \/ CommitApply
    \/ BlockIPv6Fails

(***************************************************************************)
(* clearLocked, and the undo functions of Apply.  Errors are collected and *)
(* change nothing.                                                         *)
(***************************************************************************)
Disconnect ==
    /\ connected
    /\ StartClear("idle")
    /\ UNCHANGED <<machine, files, enforcer, policy, connected, plan, history>>

RestoreIPv6 ==
    /\ Goto("ipv6off", IF dnsMgr THEN "dnsback" ELSE "remove")
    /\ v6' = FALSE \/ (MayFail /\ UNCHANGED v6)
    /\ Spoils("v6", v6')
    /\ UNCHANGED <<rules, block, dns, files, enforcer, policy, connected, plan, ctx, past>>

(* dns.Manager.Restore deletes the snapshot even when it fails, and so     *)
(* does not find it when Clear follows a rollback.                         *)
RestoreResolvers ==
    /\ IF ctx = "undo" THEN Rollback("dnsback") ELSE Goto("dnsback", "remove") /\ UNCHANGED ctx
    /\ \/ dns' = PriorResolvers /\ Spoils("dns", Unsaved)
       \/ MayFail /\ dns' \in PartlyRestored /\ Spoils("dns", TRUE)
    /\ snap' = "absent"
    /\ UNCHANGED <<rules, block, v6, sentinel, enforcer, policy, connected, plan, past>>

(* firewall.Manager.Disable: the rules, the default, the state file.       *)
DisableRemove ==
    /\ Goto("remove", "restore")
    /\ IF sentinel = "absent" /\ ~active THEN UNCHANGED <<rules, spoilt>> ELSE Remove
    /\ UNCHANGED <<block, dns, v6, files, enforcer, policy, connected, plan, ctx, past>>

(* Backend.Restore with the recorded policy.  On Linux and macOS it also   *)
(* takes the rules away again; Linux then opens the default.               *)
RestorePolicy ==
    CASE sentinel = "absent" -> UNCHANGED <<rules, block>>
      [] sentinel # "absent" /\ fw = "netsh" -> block' = (sentinel = "block") /\ UNCHANGED rules
      [] sentinel # "absent" /\ fw = "pf" ->
            /\ block' = (block /\ sentinel # "allow")
            /\ rules' = FALSE
      [] sentinel # "absent" /\ fw \in {"nft", "iptables"} ->
            IF sentinel = "ours" THEN UNCHANGED <<rules, block>>
            ELSE block' = FALSE /\ rules' = (fw = "iptables" /\ rules)

DisableRestore ==
    /\ Goto("restore", "unlink")
    /\ \/ RestorePolicy /\ UNCHANGED spoilt
       \/ MayFail /\ sentinel # "absent" /\ UNCHANGED <<rules, block>> /\ Spoils("rules", TRUE)
    /\ UNCHANGED <<dns, v6, files, enforcer, policy, connected, plan, ctx, past>>

DisableUndone ==
    /\ ctx = "undo"
    /\ StartClear("unlink")
    /\ sentinel' = "absent"
    /\ active' = FALSE
    /\ UNCHANGED <<machine, snap, dnsMgr, ipv6, applied, policy, connected, plan, history>>

(* The end of Disable, of clearLocked and of the call that asked for it.   *)
Cleared ==
    /\ ctx = "clear"
    /\ Goto("unlink", "idle")
    /\ sentinel' = "absent"
    /\ active' = FALSE /\ ipv6' = "unknown" /\ applied' = FALSE
    /\ ended' = (ended \/ connected)
    /\ connected' = FALSE
    /\ UNCHANGED <<machine, snap, dnsMgr, policy, plan, ctx, host, crashes, spoilt>>

Clear ==
    \/ RestoreIPv6
    \/ RestoreResolvers
    \/ DisableRemove
    \/ DisableRestore
    \/ DisableUndone
    \/ Cleared

(* FailClosed: SetBlock again, after the tunnel was lost; the rules stay.  *)
FailClosed ==
    /\ pc = "idle" /\ applied /\ active
    /\ AssertBlock \/ (MayFail /\ block' \in {block, TRUE})
    /\ UNCHANGED <<rules, dns, v6, files, enforcer, policy, connected, plan, pc, ctx, history>>

(***************************************************************************)
(* The process starts, and clears before it serves; the process dies.      *)
(***************************************************************************)
Boot ==
    /\ StartClear("off")
    /\ UNCHANGED <<machine, files, enforcer, policy, connected, plan, history>>

(* main also ends this way when it is told to stop: it clears nothing.     *)
(* The tunnel's link is gone with the process.                             *)
Crash ==
    /\ pc # "off" /\ pc' = "off"
    /\ dns' = IF rv = "link" THEN "user" ELSE dns
    /\ crashes < MaxCrashes /\ crashes' = crashes + 1
    /\ active' = FALSE /\ dnsMgr' = FALSE /\ ipv6' = "unknown" /\ applied' = FALSE
    /\ connected' = FALSE /\ ended' = FALSE
    /\ UNCHANGED <<rules, block, v6, files, policy, plan, ctx, host, spoilt>>

Next ==
    \/ \E p \in Plans : Connect(p)
    \/ PlanFails
    \/ Apply
    \/ Disconnect
    \/ Clear
    \/ FailClosed
    \/ Boot
    \/ Crash

Spec == Init /\ [][Next]_vars

(* A session is connected only with the leak protection of its plan in     *)
(* force: "a session that reports PROTECTED without its kill switch and    *)
(* DNS in place is exactly the silent leak this project refuses to ship".  *)
ProtectedWhileUp ==
    connected /\ pc = "idle" =>
        /\ plan.kill => Blocked
        /\ plan.dns # "SYSTEM" => dns = "tunnel"
        /\ ~plan.routeV6 => v6

(* The inductive invariant behind it: each step of Apply leaves what the   *)
(* steps before it put in force.                                           *)
ShieldInv ==
    /\ <<fw, rv>> \in Platforms
    /\ ProtectedWhileUp
    /\ pc = "block" => rules
    /\ pc = "sentinel" => Blocked
    /\ pc \in {"newdns", "snapshot", "dns", "ipv6"} /\ plan.kill => Blocked
    /\ pc = "ipv6" /\ plan.dns # "SYSTEM" => dns = "tunnel"

(* The exception: pfctl -e may fail unseen.                                *)
PfReliable == "pf" \notin Faulty

Quiet == pc = "idle" /\ ~connected

(* When no session is connected and no call is running, the machine is as  *)
(* its user had it, whichever steps of Apply failed: what Apply installed, *)
(* the rollback and Clear removed (Apply: "Any failure inside Apply rolls  *)
(* back the steps already done").  The exceptions are what a failed step   *)
(* spoilt, what a process that died left behind, and a default that Linux  *)
(* opens whether or not it found it closed.  With nft, a session with a    *)
(* kill switch that ended in Disconnect also takes away the table that     *)
(* processes which died have left.                                         *)
HandedBack ==
    Quiet =>
        /\ crashes = 0 =>
              /\ "rules" \notin spoilt => /\ ~rules
                                          /\ block = userBlock \/ (fw = "nft" /\ userBlock)
              /\ "dns" \notin spoilt => dns = "user"
              /\ "v6" \notin spoilt => ~v6
        /\ fw = "nft" /\ plan.kill /\ ended /\ "rules" \notin spoilt => ~rules
=============================================================================
