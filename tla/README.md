# VeilNet: TLA+ specifications and proofs

VeilNet is a VPN whose nodes are advertised and paid through a DERO smart
contract. A client runs a privileged service (`cmd/veilnet-service`) behind a
local IPC socket; an operator runs a node (`cmd/veilnet-node`) with a management
API. This directory holds TLA+ specifications of the stateful parts of both,
TLC configurations for small instances, and TLAPS proofs that hold for every
instance. `PROJECT.json` lists components, runs, the lines each definition
models, the hazards of the code and the theorems.

## 1. The system's parts

| Part | Code | Runs as | Module |
|---|---|---|---|
| Tunnel engine and watchdog | `internal/tunnel` | callers on IPC goroutines, one watchdog goroutine per Start | `TunnelEngine` |
| Leak protection: kill switch, resolvers, IPv6 | `cmd/veilnet-service/enforce.go`, `internal/app/enforce.go`, `internal/{firewall,dns,routing}` | inside Connect, Disconnect and service start | `LeakProtection` |
| Connect, Disconnect, circuits | `internal/app/{app,circuit}.go` | one goroutine per IPC request | `Session` |
| Wallet and its transports | `internal/app/wallet.go`, `internal/dero` | request goroutines, the wallet outside | `Wallet` |
| Configuration, clean-exit mark | `internal/config`, `internal/app/onboard.go` | request goroutines, command line clients | `Settings` |
| Client database | `internal/storage` | several processes on one file | `Schema`, latencies in `AutoSelect` |
| IPC | `internal/ipc` | services and clients as processes | `Channel` |
| Mobile library and SDK | `mobile/veilnet`, `sdk/veilnet` | threads of the host application | `Mobile` |
| Traffic shaping | `internal/cover` | callers and a ticker | `Shaper` |
| Multihop: routes, guards, tokens, rotation | `internal/multihop` | callers and a rotation timer | `Routes`, `Rotator`, `Multihop` |
| Registry, selection | `internal/registry`, `internal/app/select.go` | callers, file on disk, contract | `Registry`, `Selection`, `AutoSelect` |
| Reputation | `internal/reputation` | callers, file on disk | `Reputation` |
| Node admission | `internal/nodes`, `internal/session` | one goroutine per HTTP request, one sweeper | `NodeAccess`, abstractly `LeaseTable` |
| Abuse guard, rate limiter, operator commands | `internal/nodes/{abuse,ratelimit,config}.go`, `cmd/veilnet-node` | per request; each command a process | `Limiter`, `AbuseGuard` |
| Registry and settlement contract | `contracts/veilnet.bas` | on chain, one transaction at a time | `Contract` |
| Payment service, session tokens | `internal/payments`, `internal/tokens` | on callers' goroutines | `Settlement` (composes `Contract`), `Prepaid`, `RouteSettlement` |
| Events, transport, WireGuard files, platform, security, UI | remaining packages | | not modelled, section 7 |

How they meet: `App.Connect` starts the tunnel engine and asks leak protection
for its plan; the node's management API turns a session token into a session,
an address and a WireGuard peer; usage becomes receipts, which the payment
service batches into the contract. `Session` sees the engine and the enforcer as
calls of one step each; their insides are `TunnelEngine` and `LeakProtection`.

Parts that share no state are put into one run by a variable `work`, chosen in
`Init`: a behaviour exercises one part, so the state spaces add up instead of
multiplying. `App`, `Services` and `Selection` are such compositions.

## 2. Modules

### TunnelEngine

State: `state`, `retries`, `backend`, `cancel`, `endpoint` are the fields of
`engine`; `dev` is the device behind each `createBackend`; `pc/held/arg` are a
caller's position and locals; `wpc/wbe/stopped` a watchdog's. Each critical
section of `e.mu` is one step and each call made outside it is another, so that
everything another goroutine may do between two of them is explored. Time is
one Boolean, `grace`: whether `staleAfter` has passed since `e.since`.
`retries` saturates above `maxRetries`, the only comparison the code makes. A
configuration that fails may have reached the device or not; `rebindErr` records
a call that failed when the device had its new endpoint.
The misuse panic of `sync.WaitGroup` (Add beside a Wait that is waking up) is the
variable `crashed`.

Properties: `EngineInv`, which contains `TypeOK`, `WatchdogDeviceOpen` and
`StopOwnsDevice`; `EngineSettled`, `UpHasDevice`, `StopReturns`, `DeadPeerFails`.

### NodeAccess and LeaseTable

State: `byToken`, `revoked` (session.Manager), `used`, `next` (IPAM), `peers`
(WireGuard), `rows` (table `authorized_clients`), the locals of every request
(`pc`, `tok`, `key`, `addr`) and of the sweeper (`swept`, `cur`, `spc`). Each of the
five parts has its own lock, so Authorize, Revoke and the sweeper's callback are
one step per call. `Restart` is a crash followed by `NewController`; the table and
the kernel's peers survive it. `Faults` lets RemovePeer and database calls fail
(the code drops those errors); `Rollbacks` lets AddPeer fail; `Capped` lets
MaxSessionDuration end a session before its token.

`restored` and `dropped` are history variables: the addresses the last
NewController reserved, and the addresses in use that nobody is to release any
more. An address is dropped when Manager.Authorize puts another session in the
place of one that was over, and when a request ends the session under its token
while it holds the address of an earlier one. The code gives neither kind back,
except by the chance of another release; `SessionsAccounted` and `LeasesDrain`
speak of all others.

`LeaseTable` is what a node promises, without its parts: one table from clients
to addresses that is changed in one step (`Grant`, `End`, `Reboot`), in which an
address has at most one client and an address kept from an earlier process has
none. `ImplementsTable` maps the sessions' addresses to the table and `restored` to
the kept addresses: opening a session is a `Grant`, a Revoke or a sweep an `End`, a
restart a `Reboot`, and every other step of the controller changes nothing.

Properties: `LeasesOwned` (`LeaseInv` and `NoLeaseLost`); `CapacityBound`;
`SessionsAccounted` (no lease is lost, sessions have their peers, revoked rows stay
out); `RestoredKept`, `LeasesDrain`, `ImplementsTable`.

### Contract and Settlement

`Contract` has one action per function of `veilnet.bas`, a transaction each;
integers wrap at `Limit`. `Settlement` is `payments.Service` in front of an
INSTANCE of it: `Collect`, `SubmitAccepted`/`SubmitFailed` and `Commit` are the
three parts of `RecordSettlement` (copy under the lock, submit without it, mark
under it). `chained` says whether there is a wallet and a contract; without them
`SettleLocally` takes the place of the submission. The wallet is taken to sign as the
node's operator. The chain gives a call its arguments by name: `Arguments` are the
names the service uses, `Declared` those of the contract that is deployed, and a call
which leaves a parameter without a value fails. A submission that fails may still have reached the chain: its batch
stays in the bag `sent` and may be mined later. A batch id is the hash of the
sorted receipt ids, so a batch is represented by its set of receipts.

Properties: `BooksExact`, `EntriesPermanent` (Contract); `CountedOnce`,
`CreditCovers`, `SettledReachesChain` (Settlement).

### LeakProtection

`osEnforcer.Apply`, `Clear` and `FailClosed`, `App.Connect` and `Disconnect` as far
as they call these, and the clearing at service start (`Boot`). The machine is `fw`
and `rv`, the firewall backend (netsh, nft, iptables, pf) and the resolver backend
(link: systemd-resolved; iface: netsh, networksetup; file: resolv.conf). "iptables" is
Linux without nft, where every Enable fails in SetBlock, and where `iptables -D` names
no rule that Enable inserted, so that the rules stay (`Remove`). `rules`,
`block`, `dns`, `v6` and the files `sentinel` and `snap` survive a crash; `policy`,
`active`, `dnsMgr`, `ipv6`, `applied` are memory and do not. Every command is one
step and may fail on the machines of `Faulty`, half way where the code runs several;
the process may die between any two steps (`Crash`), which also covers SIGTERM, on
which main returns without a Clear. `spoilt` records what a failed step left in a state
that no later step mends: the rules, the resolvers or IPv6.

Abstractions: the rules that the fallback from nft to iptables inserts only accept
packets and are left out; calls do not overlap, so the branch of `Apply` that first clears an
earlier enforcement is unreachable and left out; `App.FailClosed` has no caller
in the program and is modelled as an operation the service may be asked for;
`routing.Manager`'s Ensure and metric operations are called by nothing.

Properties: `ProtectedWhileUp`, `HandedBack`.

### Session

`App.Connect`, `Disconnect`, `BuildCircuitHops`, `AutoCircuitHops` and
`RotateCircuit` in request goroutines. `op[h]` is a handler's place and what it
read; between two places `App.mu` is free. `engine` and `rules` are the tunnel's
endpoint and the endpoint the kill switch lets through; `node`, `conn`, `circuit`
are the fields of `App`; `rows` the open rows of the connection history. A rotation
reads the circuit (`RotateCircuit`), looks for another exit (`PickExit`), moves the
tunnel (`RotateEndpoint`, which may fail before or after it moved) and records the
result (`CommitRotation`).

The code does not serialise whole requests, and some overlaps break what one
request alone keeps. History variables record exactly those, and the failures that
nothing mends, so that the properties hold of everything else: `clash` (a Connect or
Disconnect worked on the engine or the rules between another's steps), `swapped` (a
rotation committed around another change of the session), `moved` (a rotation moved the
tunnel since its Start; the kill switch keeps the old endpoint), `adrift` (the rotation
that moved it then failed), `mixed` (a rotation checked one circuit and changed
another), `unclosed` (the rows that Disconnect could not close).

Properties: `NeverBare`, `SessionIntact`, `CircuitShown`.

### Wallet, Settings

`Wallet`: `open` are the sockets, `wallet` the current one; a handler dials, probes
and installs, or takes the connection and calls. A probe is two calls, address and
balance; a request may fail to be written, before or after the wallet got it. Over RPC a call gets its own
answer; over XSWD the replies form a queue from which a call takes the next, its
own or a late one (`crossed`). `doubled`, `unsure` and `stale` record two payments at
a time, a payment whose outcome was unknown, and a refresh that outlived its
connection. Property: `WalletAccounted` (no socket is leaked, the status shown is the
current connection's, one payment per approval, a receipt means a payment).

`Settings`: UpdateConfig truncates and writes the file and then swaps the configuration
in memory; each may fail, and the service may end between them. A command line client
creates a missing file with the defaults (`Create`, `Fill`), reads the clean-exit mark,
clears it (`ReadMark`, `ClearMark`), and sets it again after the disconnect command and
when it returns, not when it exits through `fatal` or is killed (`Ends`). `broken`,
`together` and `lost` record a write of the file that was cut short, failed or
overlapped, clients that ran at a time, and a failing store. Property:
`FilesTellTheTruth`.

### Schema, Channel, Mobile, Shaper

`Schema`: processes open one SQLite file; each statement of a migration and the
write of its version commits on its own and may fail or be the last thing a
process does. Property: `SchemaBeforeUse`.

`Channel`: services read or create the token file (written in place, in two steps)
before they try to listen; clients read it and call. Property: `TokenAgreed`.

`Mobile`: the permission state and the client under their two locks, with the
SDK's filter, choice, quote and approval as operators. Property:
`ConnectionCarried`.

`Shaper`: `New`, `Send`, `Tick` in the three modes, with lengths in bytes of a small
cell. Property: `MeasuredExactly`.

### Routes, Rotator, Multihop

`Routes` has the builders as predicates on paths: what `BuildCircuit`, `BuildRoute`
and `Verify` accept. `Rotator` is `multihop.Rotator`: RotateEntry and RotateExit
commit under the lock, RotateDownstream builds without it, callbacks come after
the unlock. `Multihop` adds what is around it: the latency aggregator with
`SelectRoute` (filter, rank, greedy passes), and a `Route` with a sticky guard,
`RotateGuarded`, one token per hop and the quote. Each rotation makes a route with an
id of its own; after an exit rotation the owner swaps the token of `ReissueExitToken`
into its set (`Swapped`), and after a rotation of more than the exit, for which the
package has no function, it has none. The program uses the builders
(`Session`) and the quote; the rest has no caller in it, and the owner calls as the
package's tests do.

Properties: `CircuitSound`, `SelectionMaximal`, `RouteAccounted` (what the tokens are
scoped to, and what the quote bills, through rotations), `PinnedEntryKept`.

### Prepaid, RouteSettlement, Limiter, AbuseGuard

`Prepaid`: `Service.Authorize` step by step (balance, approval, transfer, mint,
credit) for overlapping calls, with the token issuer and its clock. Deposits are in
parts of an atomic unit and rounded to units when they are paid (`ToAtomic`), while the
token's time is computed from the deposit as asked for and cut to whole units of time;
one that comes to nothing gets the issuer's default. A service without a wallet, which
grants credit against no payment for the demo, is left out.
`RouteSettlement`: `ApprovalForRoute` and `SettleRoute` hop by hop while receipts
arrive. `Limiter`: token buckets in parts of 1/Window of a token, exact where the
code uses floating point. `AbuseGuard`: the daemon's copy of blocklist and
configuration, the commands that rewrite the files, the complaint log and its
trigger.

Properties: `TimeIsPaidFor` (`CreditIsPaid` and the tokens' costs), `VerdictsFinal`; `SettledUpToVerdict`; `RateBound`;
`OperatorEditsHold`, `TriggerFires`.

### Registry, Reputation, Selection, AutoSelect

`Registry`: Register, Update, Disable and SetPrice change the map under the lock;
snapshot, temporary file, rename and mirror are steps of their own; `Load` starts
from the file (every entry in it was validated against the same minimum bond when it
was stored, so none is skipped). `Reputation`: the book, its file and the score. `Selection` is
`Store.Select` over both, `AutoSelect` the application's choice over the latencies
it stored; scores are multiplied out to integers, so comparisons are exact. A bond
counts up to a limit, as in the code: above it two nodes are equally good.

Properties: `RegistryAgrees` (one operator per node; file and contract follow the
map), `SlashFinal`, `ChoiceUndominated`.

## 3. Runs

All runs pass but `settlement_declared`, which shows a violation (section 4).

| Run | Instance | Shows |
|---|---|---|
| `tunnel_serial` | 1 caller, 2 devices, 2 endpoints, 2 retries, all operations | `EngineSettled`, `UpHasDevice`, `StopReturns`, `DeadPeerFails` with calls that follow one another |
| `tunnel_concurrent` | 2 callers, 2 devices, 0 retries, all operations | `EngineInv` under every overlap |
| `node_admission` | 2 handlers and the sweeper, 1 key with 2 tokens, capacity 1; 0.8 million states | `LeasesOwned`, `CapacityBound`, `ImplementsTable` |
| `node_faults` | 1 handler and the sweeper, 1 client; AddPeer, RemovePeer and the database fail, sessions end before tokens, 1 crash | `SessionsAccounted`, `RestoredKept`, `LeasesDrain` |
| `contract` | 1 node, 2 signers, 2 batches, 2-bit integers | `BooksExact`, `EntriesPermanent` |
| `settlement_overlap` | 2 settlers, 2 receipts, timeouts and late transactions, with and without a contract; the contract's parameters as documented | `CountedOnce`, `CreditCovers`, `SettledReachesChain` |
| `settlement_declared` | the same with the parameters as `veilnet.bas` declares them | violates `SettledReachesChain` |
| `leak_protection` | 5 pairs of firewall and resolver, every plan, failures on Windows and Linux, 2 crashes; 1.7 million states | `ProtectedWhileUp`, `HandedBack` |
| `multihop` | 6 nodes that share hosts, keys and countries, 2 goroutines, 2 rotations, 2 samples, 3 routes | the properties of `Multihop` |
| `app` | 4 nodes, 2 goroutines and 4 requests; 2 dials, 5 calls, 1 approval; 2 clients, 2 saves, 3 starts; 3 opens; 2 services, 3 runs; 6 calls of the mobile host; 4 packets, 4 ticks; 1.3 million states | the properties of `Session`, `Wallet`, `Settings`, `Schema`, `Channel`, `Mobile`, `Shaper` |
| `services` | 2 callers, 2 sessions, 2 tokens, deposits of 1 and 4 thirds of a unit, 3 ticks; 2 hops, 2 receipts; 1 peer with 2 forms of its address, 3 attempts, 3 complaints, 2 commands | the properties of `Prepaid`, `RouteSettlement`, `Limiter`, `AbuseGuard` |
| `selection` | 2 nodes, 2 operators, 2 goroutines, 2 operations, 1 restart; 2 changes of the reputation; 3 probes, all policies | the properties of `Registry`, `Reputation`, `Selection`, `AutoSelect` |

The type invariants of `TunnelEngine` and `NodeAccess` are part of `EngineInv` and
`LeaseInv`; the other modules with proofs state what the proofs need of the types in
their inductive invariants. A property that has several conjuncts says them of one piece of state;
its comment names the code each is about.

Bounds. Two handlers, callers or settlers are enough for every pairwise race,
and the properties proved (section 5) are proved for any number. Two devices let
an old watchdog live beside a new device; a third would only repeat it. Size 8
leaves a pool of five addresses, small enough for IPAM's `next` to wrap around.
Two-bit integers make every sum in the contract reach the wrap. `MaxSent` bounds
the transactions under way at a time, not in all. Crashes are bounded by
`MaxCrashes` and `Restarts`; a crash during the recovery from a crash needs two.
In `Session` two of the four nodes share a box, so that paths of three hops exist
in a pool too thin for all of them; four requests allow a Connect, a rotation, a
Disconnect and a reconnect beside each other. Five calls are the two of a probe, a
payment, its retry and a call beside them, so that a late reply reaches a later call.
Three opens, runs or starts are two at a time and one after a crash; two saves are
enough to overlap, and they tell configurations apart by the wallet section alone
(`Rest` has one member). The migrations have as many statements as the code's. In
`Multihop` nodes share a box, an operator or a country pairwise, one has no key
and two are apart, so that every refusal occurs. The shaper's cells and lengths
include an empty packet, one shorter than a cell and one longer. In `selection` the
choices start from every file with an entry for every node; the registry's own
operations start from an empty file or one entry for all nodes (`Loaded`), as they
build the others themselves. Symmetry is used only in runs with no liveness
property.

Fairness. In `TunnelEngine` a goroutine inside a call or an iteration is
scheduled again (weak fairness), time passes, and a watchdog that keeps
returning to its `select` with the stop channel closed takes that branch (strong
fairness: Go's select chooses at random among ready cases). Callers need not
make calls. In `NodeAccess` a request once begun runs on and the sweeper's ticker
ticks; nobody has to send requests and no token has to expire. In `Settlement`
only mining is fair: the daemon mines what it accepted. Nothing else is assumed,
and the other modules state safety only.

Deadlock is checked except in runs where the system may stop: after a panic of
`WaitGroup`, when all receipts are settled, and where the bounds of `multihop`,
`app`, `services` and `selection` are used up.

## 4. What the models show beside the properties

The following behaviours of the code are in the models. They are why some
properties are conditional, on the history variables of section 2, or assume what
they do: without the condition TLC shows the behaviour described.

Against a comment or a doc of the repository:

- RecordSettlement names the arguments of RecordSettlementIdem `node_id` and `batch_id`
  (`payments.go:478`), as `docs/COMPATIBILITY.md:119` does; the contract declares `nodeID`
  and `batchID` (`veilnet.bas:126`). Arguments are bound by name, so the transaction is
  accepted and fails on the chain, and the receipts are marked settled. The run
  `settlement_declared` shows it; all other runs assume a contract with the documented
  names. The contract file also has a stray `60 RETURN 1` and `End Function` after that
  function (`veilnet.bas:144`), which the model reads as not there.
- A watchdog poll that overlaps Stop sets the state after it and leaves UP with no
  device (`monitor.go:67`); `engine.go:6` says "the engine never reports UP without a
  real device behind it". `UpHasDevice` allows exactly this step.
- A Revoke that runs after the session is opened and before AddPeer removes a peer
  that is not there yet, and Authorize installs it for good (`controller.go:229`);
  the comment above Revoke says it "removes a session: WireGuard peer, IP lease,
  sqlite row". No property says that peers end with their sessions.
- After a submission that timed out and was mined all the same, a receipt recorded
  meanwhile changes the batch and its id, and the contract counts the old receipts
  again (`payments.go:438`); `veilnet.bas:123` says that retries after a timeout are
  safe. `CountedOnce` excludes it (`grown`).
- A service that dies while connected leaves IPv6 blocked, and the clearing at the
  next start does not lift a block it did not install (`enforce.go:124`); `main.go:54`
  says "so the box is never left half-blocked". `HandedBack` says what it does of runs
  without a crash, and after a crash only that an nft table left behind is gone when the
  next session with a kill switch has ended.
- `SelectRoute` is greedy: its path cannot be extended (`SelectionMaximal`), but it is
  not always "the longest feasible path" (`latency.go:147`).
- `Route.RotateExit` and `RotateDownstream` rebuild the hops they keep without price
  and country (`guards.go:103`, `guards.go:130`), so a quote after a rotation leaves
  them out: it never bills too much (`RouteAccounted`) and may bill too little.
- The comments on tokens say that rotation re-issues them "under the same RouteID
  lineage" (`tokens.go:58`), and `MULTIHOP.md:111` that a token is scoped to "(route, node,
  role)". Every rotation makes a route with a new id, and only the exit's token is
  issued again: those of the kept hops are scoped to the first route for good
  (`RouteAccounted`). After a rotation of more than the exit nothing renews the set.
- A node without measurements gets the best latency term in `Store.Select`
  (`registry/select.go`), where the comment says neutral; in the application's choice
  a latency below a millisecond counts as the longest (`app/select.go:81`).
  `ChoiceUndominated` compares nodes measured alike.
- `Stop` of the mobile library is documented as idempotent (`api.go:106`); the
  application underneath answers "not connected" (`app.go:387`). The library builds a
  demo application when it was given none (`mobile.go:80`), which is exempt from the
  permission.
- The comment on ReportComplaint says that the disable is persisted (`abuse.go:387`);
  the trigger sets it in memory only, and a restart forgets it.
- `BuildCircuit` says that the exit becomes the current node (`circuit.go:107`); the
  session and the engine stay where they are.
- `MaxOverhead` limits cover and not the padding of cells (`cover.go:64`).

Overlaps and failures:

- Two overlapping Starts both find no backend (`engine.go:194`). The stop channel
  of the first watchdog is lost and a later Stop waits for it for ever, so
  `StopReturns` is checked with one caller only.
- A rotation or a configuration that fails in the device may leave it with the new
  endpoint (`engine.go:345`): `EngineSettled` excludes it (`rebindErr`), and `CircuitShown`
  the rotation of a circuit that ended so (`adrift`).
- A Revoke before the row is written finds no row to mark, and the row is then stored
  as active (`controller.go:217`): the address is reserved again at the next start.
- Two requests pass the capacity check together; `CapacityBound` says by how much
  the capacity is exceeded.
- A session that MaxSessionDuration ended is replaced under its token before the
  sweep (`session.go:301`), and its address is lost. So is the new session's, when a
  Revoke or a rollback that read the old one ends it: it releases the old address
  (`controller.go:239`) and nobody releases the other (`dropped`).
- The rollback of a failed AddPeer releases an address that the sweeper or a
  Revoke released already, so with more than one client an open session's address
  may be handed out again. `LeaseUnique` and `ImplementsTable` are proved for
  `Rollbacks = FALSE`.
- Two overlapping settlements charge the credit twice, up to the deposit;
  `CreditCovers` bounds the charge from below only. SettleRoute stops at a hop
  without receipts, and the hops after it stay unsettled.
- A payment whose token cannot be minted, or whose answer is lost, leaves a deposit
  without a credit; a second Authorize for a session replaces its credit
  (`slipped`).
- `pfctl -e` may fail unseen (`pf.go:86`): `PfReliable` excludes it, and the machines of
  the run with pf are those on which nothing fails.
- A command that fails in a rollback or in Clear is not tried again, and the snapshot of
  the resolvers is deleted whether or not they were restored (`spoilt`).
- On Windows a crash between SetBlock and writeSentinel makes the next Enable
  record the block as the user's policy; on Linux Disable opens an iptables
  default that the user had closed; without nft, Enable fails and leaves the
  default closed and its rules loaded; without a snapshot, Restore empties
  resolv.conf. Hence the exceptions of `HandedBack`.
- A Disconnect beside a Connect clears the rules of the new tunnel, or closes its
  history row (`clash`). RotateCircuit moves the engine and leaves the kill switch
  with the old endpoint (`moved`); a rotation beside a Disconnect leaves a circuit
  without a session.
- PayApproved clears the approval after the payment: two calls at a time pay twice
  (`doubled`), and so does a retry after an unknown outcome (`unsure`). The XSWD client
  takes the next reply for its own (`crossed`). A refresh overwrites the status of a
  connection that replaced the one it read (`stale`).
- The configuration file, the node's files and the token file are written in place:
  a reader may find them empty, and overlapping writers lose an update (`broken`). Two services
  starting at a time on a fresh machine may each write a token (`raced`).
- Registry saves share one temporary name and run outside the lock: an older
  snapshot may be the one that stays (`overlapped`). Operator keys are pinned in
  memory only, so `RegistryAgrees` speaks of one operator between two loads.
- Two processes that migrate at a time may leave two version rows or set the
  version back; as every statement is `IF NOT EXISTS`, `SchemaBeforeUse` holds all the
  same.

## 5. What is proved

A theorem holds for every value of the constants that the modules' `...Assumption`s
allow; TLC evaluates each assumption on a run. Where a theorem assumes more, it says
so in its statement, and below.

| Module | Of | Theorems (and the property of a run they state) |
|---|---|---|
| `TunnelEngineProofs` | `TunnelEngine` | `EngineInvariant` (`EngineInv`), `TypeCorrect`, `WatchdogSafe`, `StopOwnership`; `EngineSettles` (`EngineSettled`), `UpOnlyWithDevice` (`UpHasDevice`) |
| `NodeAccessProofs` | `NodeAccess` | `LeasesNeverLost` |
| `LeaseProofs` | `NodeAccess`, `LeaseTable` | `LeaseInvariant`, `LeasesUnique`, `LeasesExactlyOwned` (`LeasesOwned`), `RestoredLeasesKept` (`RestoredKept`), `TableImplemented` (`ImplementsTable`), `CapacityHeld` (`CapacityBound`) |
| `AdmissionProofs` | `NodeAccess` | `RevokedTokensStayOut`, `SessionsInStep` (`SessionsAccounted`) |
| `PaymentsProofs` | `Contract`, `Prepaid`, `RouteSettlement` | `BooksNeverWrap` (`BooksExact`), `EntriesNeverTakenBack` (`EntriesPermanent`), `VerdictsAreFinal` (`VerdictsFinal`), `CreditNeverExceedsPayment`, `RouteSettledToTheVerdict` (`SettledUpToVerdict`) |
| `GuardProofs` | `LeakProtection`, `Limiter`, `AbuseGuard` | `ShieldInvariant`, `Protected` (`ProtectedWhileUp`); `LimiterInvariant`, `RateIsBounded`, `GuardImplementsLimiter`, `GuardBoundsRates` (`RateBound`), `ComplaintsDisableTheNode` (`TriggerFires`), `OperatorEditsAreKept` (`OperatorEditsHold`) |
| `SessionProofs` | `Session`, `Schema` | `SessionInvariant`, `TunnelNeverBare` (`NeverBare`), `SessionsIntact` (`SessionIntact`), `CircuitAlwaysShown` (`CircuitShown`); `SchemaInvariant`, `SchemaAlwaysComplete` (`SchemaBeforeUse`) |
| `StoreProofs` | `Registry`, `Reputation`, `Rotator`, `Channel` | `RegistryStaysInStep` (`RegistryAgrees`), `SlashedStaysSlashed` (`SlashFinal`), `RotatorInvariant`, `AlwaysSeparated`, `RotationsRecorded`, `ChannelInvariant`, `TokensAgree` (`TokenAgreed`) |

The arguments:

**Tunnel engine**, for any callers, devices, endpoints and retries. Neither
`WatchdogDeviceOpen` nor `StopOwnsDevice` is inductive: that a Stop past `wg.Wait`
closes a device no watchdog works on depends on what Start holds before it installs
its device. `EngineInv` adds this: a device between createBackend and the assignment
of `e.backend` is open and known to its Start only, its watchdog is not yet running,
and a watchdog outside an iteration works on no device. `EngineSettles` and
`UpOnlyWithDevice` assume `OneCaller`, calls that follow one another; section 4 has
what overlapping Starts do. `SerialInv` reads from the place of that caller what is
in the engine: a device outside `e.backend` is in the hands of a Start or a Stop, a
watchdog outside `e.cancel` is one a Stop waits for, and the device's endpoint
differs from `e.endpoint` only inside a reconfiguration.

**Node admission**, for any handlers, clients, pool, capacity and restarts, with or
without a database, faults and caps. `LeasesNeverLost` needs nothing else: whatever
fails, every address in use has somebody who is to release it, or was reserved by a
restart, or is `dropped`. `LeasesUnique`, `LeasesExactlyOwned`, `RestoredLeasesKept`
and `TableImplemented` assume `Rollbacks = FALSE` (AddPeer does not fail); section 4
describes what happens without it. `LeaseInv` says that every address in use has at
most one owner among the open sessions (an address that a Revoke has read from a
session is still that session's), the requests, the sweeper and the addresses restored
at a restart. The refinement rests on it: when a session is opened, its request owns
the address, so nobody has it in the table. `CapacityHeld` counts: a live session
more is a request less between the check and Manager.Authorize, and the requests that
start when the node is full are turned away; finite sets of handlers and clients are
all it needs. `RevokedInv` says that whatever a Revoke or the sweeper works on is in
the map of revoked tokens already. `SessionsInStep` assumes `OneTokenPerKey` (a peer is
known by its key, so one client's Revoke removes the peer of another with the same
key) and `OneAtATime` (where MaxSessionDuration ends sessions before their tokens,
overlapping requests of one token install the peer of a session that was replaced).
`PeersInv` says that a session has its peer or the request that opened it is about to
install it.

**Payments.** `BooksNeverWrap` and `EntriesNeverTakenBack` hold for every width of the
integers: each sum the contract stores is compared with its operand first.
`VerdictsAreFinal` needs that the record of a revoked token is never swept and that a
record is gone only after its grace period (`RecordsInv`). `CreditInv` says that a call
past the transfer is covered by what its session paid, and what a session that saw
one call owes to where that call is. `RouteInv` says that a SettleRoute which has
come to a hop has settled what the hops before it owed when it began, whatever other
calls and receipts do meanwhile.

**Leak protection**, for any machines, plans, failures and number of crashes.
`Protected` assumes `PfReliable`: the firewall is not pf, or its enabling cannot fail;
an anchor in a pf that is not enabled filters nothing. `ShieldInv` says what the steps
of Apply before the current one have installed and that each later step leaves it in
force.

**Limiter and abuse guard**, for any bursts, windows, addresses and any length of time.
`RateBound` speaks of pairs of past admissions and is not inductive; the `Ledger` of a
bucket is: what it holds and what the admissions since the i-th cost never exceed a
full bucket and what was refilled since. `GuardImplementsLimiter` maps every step of
the daemon to an `allow` or to none, so the bound holds of the daemon too.
`TriggerInv`: when the log has reached the threshold and nothing excuses the daemon, it
is disabled or a report is under way that will still find out. `BlockInv` and
`ConfigInv`: unless commands crossed, one command at a time is between reading a file
and writing it, its copy has every finished edit, and the file has them too or is cut
short.

**Session and schema**, for any nodes and any number of goroutines and requests.
`NeverBare` and `SessionIntact` speak of the shared session, and who may change it next
is known only from the places of all handlers. `Exclusive` adds that while nothing
clashed at most one Connect is past Start, and it finds no session; a handler that
clears up is alone; a Disconnect closes the row in use. `CircuitShown` says what the
status shows, and the goroutines choose what it will show outside of the lock:
`Distinct` adds that a path about to be set, and a rotation's node with the hops it
keeps, are separated; `Shown`, that the tunnel's endpoint is the node shown or the one a
rotation is about to commit, and until a rotation the one the rules permit; a rotation
that failed with the tunnel moved is `adrift` until the next that succeeds. For
`SchemaBeforeUse`, over any migrations, processes, failures and kills, `ProgressOf` adds
that what a process counts as done was executed, by it or by another.

**Registry, reputation, rotation, IPC token.** `PinInv` ties what was stored since the
load to the pinned key; `AgreeInv` says of the one operation under way how far its
entry has come on the way from the map over the temporary file and the file to the
contract. `EvidenceInv`: unless the last save failed, file and memory have the same
evidence. `RotatorInv` adds to the separation of circuits that one which is not
programmed yet has its callback on the way; `CircuitSound` of `Multihop` puts the three
results together. `Agreed` ties every token in somebody's hands to the token file: once
the file holds a token nobody creates one, before that only one service can have one.

The proofs changed two models. `LeasesNeverLost` did not go through with `dropped` as it
first was, which showed the second way of losing an address in section 4. And
`CircuitShown` held on the instance only: with one request more, a Connect whose Apply
came after a rotation of the tunnel cleared `moved` again. It is now cleared where a
tunnel starts.

## 6. What is only model-checked

- Liveness (`StopReturns`, `DeadPeerFails`, `LeasesDrain`, `SettledReachesChain`) is out
  of the prover's reach.
- What a fold over a sequence or a set computes for every argument needs induction
  over data, which the prover does not have: `SelectionMaximal`, `RouteAccounted` and
  `ChoiceUndominated` (scores, quotes and the greedy passes), `CreditCovers` (sums of
  receipts), and in `TimeIsPaidFor` the sum of the tokens' costs.
- `PinnedEntryKept`, `CircuitSound` as a property of `Multihop`, `CountedOnce`,
  `HandedBack`, `WalletAccounted`, `FilesTellTheTruth`, `ConnectionCarried` and
  `MeasuredExactly` have no proof yet.

## 7. What is not modelled

- Events: nothing in the program subscribes, so no state depends on what is dropped.
- Beside `Settings`: the view-only client, which writes the same configuration file when
  its settings are changed, and the demo, whose store has no mark. The graphical client
  ends through `Ends` only.
- Parsing, paths, validation of single fields and formatting (`wireguard`, `transport`,
  `security`, `platform`, most of `config`), the UI and diagnostics: no state of their own.
- The SQL statements of `internal/storage` beside the schema and the latencies: one
  statement each, with no decision in Go.
- Cryptography: a signature, a proof or a token is valid or not. Verifying evidence and
  signing advisories keep no state.
- HTTP, WebSocket and WireGuard themselves; the daemon's client and HTTP digest
  authentication of `internal/dero`; the mocks.
- The shell commands of the node's firewall, heartbeats and statistics, and the byte
  counters of a session. The admission checks of `NodeAccess` that change none of its
  state are in `AbuseGuard` (block list, rate limit, emergency disable) and `Prepaid`
  (tokens).
- In `internal/multihop` the texts of `observability.go`, the three-hop switch, the
  expiry of tokens and guards and `PickPair`; in `internal/app` `MaybeAutoRotate`,
  which nothing calls, `ResetGuard`, which clears a flag that is only shown, and the
  demo engine.
- A second service on the same machine as far as it acts on the first one's leak
  protection: it clears the rules before it finds the address taken (`main.go:55`).

## 8. Where to go from here

1. A proof of `HandedBack`, whose inductive invariant has to follow every command of the
   restoring steps.
2. An abstract ledger that `Settlement` implements while no receipt arrives beside an
   open settlement.
3. `Session` over the real `LeakProtection` instead of its one-step interface, with two
   services on one machine.
