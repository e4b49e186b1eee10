------------------------------- MODULE Mobile -------------------------------
(***************************************************************************)
(* The mobile library (mobile/veilnet) over the SDK client (sdk/veilnet).  *)
(* The host application calls it from any thread.  Two locks: state, held  *)
(* through Configure, Start and Stop, and permission, held only while the  *)
(* grant of the operating system is read or written: Start looks at the    *)
(* grant and connects later, and the grant may change in between.  The     *)
(* application underneath is Session; here a connect and a disconnect is   *)
(* one step that may fail.                                                 *)
(***************************************************************************)
EXTENDS Integers

CONSTANTS
    Exits,          \* node ids the application lists
    Fee,            \* price of each, per hour
    Ping,           \* latency of each; -1: unknown
    Area,           \* region of each
    Offered,        \* those whose status is active or unset
    Rank,           \* place of each id in the order of names
    HostConfigs,    \* configurations the host may pass
    Nil,
    MaxHostCalls    \* bound: calls that change something

VARIABLES
    grant,      \* permission: provider, granted, fd
    config,     \* state.config
    client,     \* state.client: the configuration it was built with, or Nil
    backend,    \* state.app: Nil, "demo" or "real"
    starting,   \* Start past its check: the node asked for ("" : any), or Nil
    session,    \* the application's connection, or Nil
    released,   \* ClearTunnel was called since Start last looked at the grant
    hostCalls

mobileVars == <<grant, config, client, backend, starting, session, released, hostCalls>>

defaultConfig == [region |-> "", max |-> 0, hours |-> 1, paid |-> FALSE]

MobileInit ==
    /\ grant = [provider |-> "", granted |-> FALSE, fd |-> -1]
    /\ config = defaultConfig /\ client = Nil /\ backend = Nil
    /\ starting = Nil /\ session = Nil /\ released = FALSE /\ hostCalls = 0

HostCall == hostCalls < MaxHostCalls /\ hostCalls' = hostCalls + 1
underState == <<config, client, backend, starting, session>>

(***************************************************************************)
(* permission.go: under the permission lock.                               *)
(***************************************************************************)

(* Anything that is not a name of Apple's provider is Android's.           *)
normalizeProvider(p) == IF p \in {"apple", "ios"} THEN "apple" ELSE "android"
ProviderNames == {"", "android", "ios"}

RequestPermission(p) ==
    /\ HostCall /\ grant.provider = ""
    /\ grant' = [grant EXCEPT !.provider = normalizeProvider(p)]
    /\ UNCHANGED <<underState, released>>

(* A negative descriptor is rejected.                                      *)
SetTunnelFD(fd) ==
    /\ HostCall /\ fd >= 0
    /\ grant' = [provider |-> "android", granted |-> TRUE, fd |-> fd]
    /\ UNCHANGED <<underState, released>>

GrantTunnel(p) ==
    /\ HostCall /\ normalizeProvider(p) # "android"
    /\ grant' = [provider |-> normalizeProvider(p), granted |-> TRUE, fd |-> -1]
    /\ UNCHANGED <<underState, released>>

ClearTunnel ==
    /\ HostCall
    /\ grant' = [grant EXCEPT !.granted = FALSE, !.fd = -1]
    /\ released' = TRUE /\ UNCHANGED underState

hasTunnel == grant.granted /\ (grant.provider = "apple" \/ grant.fd >= 0)

requireTunnel(demo) == demo \/ hasTunnel

(***************************************************************************)
(* api.go: under the state lock.                                           *)
(***************************************************************************)

(* Mutant: the client built with the old configuration stays.              *)
ConfigureKept(c) ==
    /\ HostCall /\ starting = Nil
    /\ c.hours >= 0 /\ c.max >= 0
    /\ config' = [c EXCEPT !.hours = IF @ = 0 THEN 1 ELSE @]
    /\ UNCHANGED <<grant, client, backend, starting, session, released>>

Configure(c) ==
    /\ HostCall /\ starting = Nil
    /\ c.hours >= 0 /\ c.max >= 0
    /\ config' = [c EXCEPT !.hours = IF @ = 0 THEN 1 ELSE @]
    /\ client' = Nil
    /\ UNCHANGED <<grant, backend, starting, session, released>>

(* ensureClientLocked: the library makes a demo application when it has    *)
(* none.                                                                   *)
ensureClient ==
    /\ client' = IF client = Nil THEN config ELSE client
    /\ backend' = IF backend = Nil THEN "demo" ELSE backend

(* Start, up to its look at the grant.                                     *)
StartCheck(id) ==
    /\ HostCall /\ starting = Nil
    /\ ensureClient
    /\ \/ /\ requireTunnel(backend' = "demo")
          /\ starting' = id /\ released' = FALSE
       \/ ~requireTunnel(backend' = "demo") /\ UNCHANGED <<starting, released>>
    /\ UNCHANGED <<grant, config, session>>

(* Client.filter and Client.Select.                                        *)
filter ==
    {n \in Exits \cap Offered : /\ client.region \in {"", Area[n]}
                                /\ client.max > 0 => Fee[n] <= client.max}

Better(n, m) ==
    \/ Fee[n] < Fee[m]
    \/ Fee[n] = Fee[m] /\ Ping[n] >= 0 /\ (Ping[m] < 0 \/ Ping[n] < Ping[m])
    \/ Fee[n] = Fee[m] /\ Ping[n] = Ping[m] /\ Rank[n] < Rank[m]

BestExit == CHOOSE n \in filter : \A m \in filter \ {n} : Better(n, m)

(* The approval hook that ensureClientLocked builds.                       *)
approve(c, amount) ==
    amount <= 0 \/ (c.paid /\ (c.max > 0 => amount <= c.max * c.hours))

(* Client.Connect: the node asked for need not pass the filter.            *)
Chosen == IF starting = "" THEN IF filter = {} THEN Nil ELSE BestExit
                           ELSE starting
Quote(n) == Fee[n] * client.hours

StartConnect ==
    /\ starting # Nil
    /\ \/ /\ Chosen # Nil /\ approve(client, Quote(Chosen)) /\ session = Nil
          /\ session' = [node |-> Chosen, amount |-> Quote(Chosen), limits |-> config]
       \/ UNCHANGED session
    /\ starting' = Nil
    /\ UNCHANGED <<grant, config, client, backend, released, hostCalls>>

(* Stop: the disconnect is refused when there is no connection, and may    *)
(* fail.                                                                   *)
StopMobile ==
    /\ HostCall /\ starting = Nil
    /\ ensureClient
    /\ session' \in {session, Nil}
    /\ UNCHANGED <<grant, config, starting, released>>

(* SelectNode, Status and Diagnostics change nothing beyond the client.    *)
Inquire ==
    /\ HostCall /\ starting = Nil /\ client = Nil
    /\ ensureClient
    /\ UNCHANGED <<grant, config, starting, session, released>>

(* setBackendForTest: the one way in for an application that is not a demo.*)
setBackend ==
    /\ HostCall /\ starting = Nil /\ backend # "real"
    /\ backend' = "real" /\ client' = Nil /\ session' = Nil
    /\ UNCHANGED <<grant, config, starting, released>>

MobileNext ==
    \/ \E p \in ProviderNames : RequestPermission(p) \/ GrantTunnel(p)
    \/ \E fd \in {-1, 0} : SetTunnelFD(fd)
    \/ ClearTunnel
    \/ \E c \in HostConfigs : Configure(c)
    \/ \E id \in Exits \cup {""} : StartCheck(id)
    \/ StartConnect \/ StopMobile \/ Inquire \/ setBackend

MobileSpec == MobileInit /\ [][MobileNext]_mobileVars

-----------------------------------------------------------------------------
(***************************************************************************)
(* Properties.                                                             *)
(***************************************************************************)

(* requireTunnel, hasTunnelLocked (permission.go 194-215; "A mobile client *)
(* must never report a connection it cannot actually carry", 15-16): a     *)
(* connection of a real application is up only while a usable handle is    *)
(* held, whatever the host asks about providers meanwhile, unless the host *)
(* released the handle after Start had looked at it; and it costs no more  *)
(* than the configuration in force when it was made allows, though the     *)
(* client and its approval hook keep the configuration they were built     *)
(* with (Configure, ensureClientLocked, Connect: mobile.go 68-111).        *)
ConnectionCarried ==
    session # Nil => /\ backend = "real" => hasTunnel \/ released
                     /\ approve(session.limits, session.amount)
=============================================================================
