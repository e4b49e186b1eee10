------------------------------ MODULE Channel ------------------------------
(***************************************************************************)
(* The channel between the privileged service and its clients              *)
(* (internal/ipc, and main of cmd/veilnet-service): the token file that    *)
(* the service reads or creates before it listens, the clients that read   *)
(* it, and their calls.  The file is written in place: it is empty for a   *)
(* moment, and stays so when the process dies then.  Only one service can  *)
(* listen; one that cannot has been through the token file already.        *)
(***************************************************************************)
EXTENDS Naturals

CONSTANTS
    Daemons,        \* service processes
    Dialers,        \* client processes, one call at a time each
    Absent,         \* no token file
    Bad,            \* a token file that has not 64 characters
    MaxRuns,        \* bound: starts of the service
    MaxDialled      \* bound: calls

ASSUME ChannelAssumption == Absent \notin Nat /\ Bad \notin Nat /\ MaxRuns \in Nat

VARIABLES
    tokenFile,  \* ~/.veilnet/service.token
    drawn,      \* tokens drawn so far; they are 1, 2, ...
    daemon,     \* what each service does, and its token
    dial,       \* what each client does: its token and the service it reached
    runs, dialled,
    raced       \* two services created a token at the same time

channelVars == <<tokenFile, drawn, daemon, dial, runs, dialled, raced>>

Daemon(pc, tok) == [pc |-> pc, tok |-> tok]
Call(pc, tok, to) == [pc |-> pc, tok |-> tok, to |-> to]
Down == Daemon("down", 0)
Resting == Call("idle", 0, Absent)

ChannelInit ==
    /\ tokenFile = Absent /\ drawn = 0
    /\ daemon = [s \in Daemons |-> Down] /\ dial = [c \in Dialers |-> Resting]
    /\ runs = 0 /\ dialled = 0 /\ raced = FALSE

Creating == {"empty", "write"}
Listening == {s \in Daemons : daemon[s].pc = "up"}

(***************************************************************************)
(* LoadOrCreateToken.                                                      *)
(***************************************************************************)

(* Mutant: the service draws a token at every start.                       *)
LoadOrCreateTokenAlways(s) ==
    /\ daemon[s].pc = "down" /\ runs < MaxRuns /\ runs' = runs + 1
    /\ drawn' = drawn + 1
    /\ daemon' = [daemon EXCEPT ![s] = Daemon("empty", drawn')]
    /\ raced' = (raced \/ \E t \in Daemons \ {s} : daemon[t].pc \in Creating)
    /\ UNCHANGED <<tokenFile, dial, dialled>>

(* A token of the right length is taken; else a new one is drawn.          *)
LoadOrCreateToken(s) ==
    /\ daemon[s].pc = "down" /\ runs < MaxRuns /\ runs' = runs + 1
    /\ \/ /\ tokenFile \in Nat
          /\ daemon' = [daemon EXCEPT ![s] = Daemon("listen", tokenFile)]
          /\ UNCHANGED <<drawn, raced>>
       \/ /\ tokenFile \in {Absent, Bad} /\ drawn' = drawn + 1
          /\ daemon' = [daemon EXCEPT ![s] = Daemon("empty", drawn')]
          /\ raced' = (raced \/ \E t \in Daemons \ {s} : daemon[t].pc \in Creating)
    /\ UNCHANGED <<tokenFile, dial, dialled>>

TruncateToken(s) ==
    /\ daemon[s].pc = "empty" /\ tokenFile' = Bad
    /\ daemon' = [daemon EXCEPT ![s].pc = "write"]
    /\ UNCHANGED <<drawn, dial, runs, dialled, raced>>

WriteToken(s) ==
    /\ daemon[s].pc = "write" /\ tokenFile' = daemon[s].tok
    /\ daemon' = [daemon EXCEPT ![s].pc = "listen"]
    /\ UNCHANGED <<drawn, dial, runs, dialled, raced>>

(***************************************************************************)
(* The service: Serve, Close and the end of the process.                   *)
(***************************************************************************)

(* The address is free, or the service gives up.                           *)
Serve(s) ==
    /\ daemon[s].pc = "listen"
    /\ daemon' = [daemon EXCEPT ![s] = IF Listening = {} THEN Daemon("up", @.tok) ELSE Down]
    /\ UNCHANGED <<tokenFile, drawn, dial, runs, dialled, raced>>

(* Close stops the listeners and main returns, or the process is killed:   *)
(* connections that are being served go with it.                           *)
Shutdown(s) ==
    /\ daemon[s].pc # "down"
    /\ daemon' = [daemon EXCEPT ![s] = Down]
    /\ dial' = [c \in Dialers |-> IF dial[c].to = s /\ dial[c].pc \in {"sent", "served"}
                                  THEN [dial[c] EXCEPT !.pc = "failed"] ELSE dial[c]]
    /\ UNCHANGED <<tokenFile, drawn, runs, dialled, raced>>

(* serveConn: the token is compared, then the handler runs.                *)
serveConn(c) ==
    /\ dial[c].pc = "sent"
    /\ \/ /\ dial[c].tok # daemon[dial[c].to].tok
          /\ dial' = [dial EXCEPT ![c].pc = "refused"]
       \/ /\ dial[c].tok = daemon[dial[c].to].tok
          /\ dial' = [dial EXCEPT ![c].pc = "served"]
    /\ UNCHANGED <<tokenFile, drawn, daemon, runs, dialled, raced>>

(***************************************************************************)
(* A client: LoadToken once, then Call.                                    *)
(***************************************************************************)
LoadToken(c) ==
    /\ dial[c].pc = "idle" /\ dialled < MaxDialled /\ dialled' = dialled + 1
    /\ tokenFile \in Nat
    /\ dial' = [dial EXCEPT ![c] = Call("dial", tokenFile, Absent)]
    /\ UNCHANGED <<tokenFile, drawn, daemon, runs, raced>>

Dial(c) ==
    /\ dial[c].pc = "dial"
    /\ \/ \E s \in Listening : dial' = [dial EXCEPT ![c] = Call("sent", @.tok, s)]
       \/ Listening = {} /\ dial' = [dial EXCEPT ![c].pc = "failed"]
    /\ UNCHANGED <<tokenFile, drawn, daemon, runs, dialled, raced>>

(* The answer comes; or the read deadline passes first, whether or not the *)
(* request is served, which nothing takes back.                            *)
Answer(c) ==
    /\ dial[c].pc = "served" /\ dial' = [dial EXCEPT ![c].pc = "ok"]
    /\ UNCHANGED <<tokenFile, drawn, daemon, runs, dialled, raced>>

Deadline(c) ==
    /\ dial[c].pc \in {"sent", "served"} /\ dial' = [dial EXCEPT ![c].pc = "failed"]
    /\ UNCHANGED <<tokenFile, drawn, daemon, runs, dialled, raced>>

Return(c) ==
    /\ dial[c].pc \in {"ok", "refused", "failed"}
    /\ dial' = [dial EXCEPT ![c] = Resting]
    /\ UNCHANGED <<tokenFile, drawn, daemon, runs, dialled, raced>>

ChannelNext ==
    \/ \E s \in Daemons : \/ LoadOrCreateToken(s) \/ TruncateToken(s) \/ WriteToken(s)
                          \/ Serve(s) \/ Shutdown(s)
    \/ \E c \in Dialers : \/ LoadToken(c) \/ Dial(c) \/ serveConn(c) \/ Answer(c)
                          \/ Deadline(c) \/ Return(c)

ChannelSpec == ChannelInit /\ [][ChannelNext]_channelVars

-----------------------------------------------------------------------------
(***************************************************************************)
(* Properties.                                                             *)
(***************************************************************************)

(* LoadOrCreateToken, LoadToken, serveConn (ipc.go 74-121, server.go       *)
(* 60-70): unless two services created the token at the same time, the     *)
(* service that listens holds the token that is in the file, and a client  *)
(* that read the file is not refused, over restarts of the service, kills  *)
(* between the two halves of the write, and services that fail to listen.  *)
TokenAgreed ==
    ~raced =>
        /\ \A s \in Listening : tokenFile = daemon[s].tok
        /\ \A c \in Dialers : dial[c].pc # "refused"
=============================================================================
