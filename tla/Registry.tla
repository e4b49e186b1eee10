------------------------------ MODULE Registry ------------------------------
(***************************************************************************)
(* The node registry (internal/registry/registry.go): advertisements       *)
(* signed by an operator whose key is pinned to the node, kept in memory,  *)
(* saved to a file and mirrored to the contract.  An operation changes the *)
(* map under the lock and saves and mirrors after it has let go of it: the *)
(* snapshot is taken under the lock again, the temporary file has one name *)
(* for all, and a restart loads what was renamed into place.               *)
(***************************************************************************)
EXTENDS Naturals, FiniteSets

CONSTANTS
    NodeIds,
    Operators,      \* operator keys
    Fees,           \* prices per hour
    Writers,        \* goroutines that call the store
    None, Torn,     \* no entry, no key, no file; a file that is not whole
    MaxOps,         \* bound: operations
    MaxLoads        \* bound: restarts

Entries == [status : {"active", "disabled"}, price : Fees]
Empty == [n \in NodeIds |-> None]

ASSUME RegistryAssumption == None \notin Entries \cup Operators /\ MaxOps \in Nat

VARIABLES
    nodes,      \* Store.nodes
    opKeys,     \* Store.opKeys
    disk, tmp,  \* the file and the temporary file
    call,       \* what each goroutine is doing
    chain,      \* what the mirror has written to the contract
    ops, loads, \* operations and restarts so far
    signers,    \* operators whose signed advertisement was stored since the load
    overlapped, \* two operations were under way at once
    failed      \* a save or a mirror write failed, or the process ended in one

registryVars == <<nodes, opKeys, disk, tmp, call, chain, ops, loads, signers, overlapped, failed>>

NoCall == [pc |-> "idle"]
Others(w) == {v \in Writers \ {w} : call[v] # NoCall}

(* A store that has just loaded a file, for a start an empty one.          *)
NewStore(file) ==
    /\ nodes = file /\ opKeys = Empty /\ disk = file /\ tmp = None
    /\ call = [w \in Writers |-> NoCall] /\ chain = file
    /\ ops = 0 /\ loads = 0 /\ signers = [n \in NodeIds |-> {}]
    /\ overlapped = FALSE /\ failed = FALSE

RegistryInit == NewStore(Empty)

(***************************************************************************)
(* The operations, up to the unlock.                                       *)
(***************************************************************************)
Stored(w, n, e) ==
    /\ call[w] = NoCall /\ ops < MaxOps /\ ops' = ops + 1
    /\ nodes' = [nodes EXCEPT ![n] = e]
    /\ call' = [call EXCEPT ![w] = [pc |-> "snapshot", node |-> n, entry |-> e]]
    /\ overlapped' = (overlapped \/ Others(w) # {})
    /\ UNCHANGED <<disk, tmp, chain, loads, failed>>

(* A node without a pin accepts any key.                                   *)
checkKeyContinuity(n, op) == opKeys[n] \in {None, op}

(* put: the first key is pinned and stays.                                 *)
put(w, n, e, op) ==
    /\ Stored(w, n, e)
    /\ opKeys' = [opKeys EXCEPT ![n] = IF @ = None THEN op ELSE @]
    /\ signers' = [signers EXCEPT ![n] = @ \cup {op}]

(* Advertisements that do not verify or validate are turned away; the      *)
(* others are new, or changes of a known node.                             *)
Register(w) ==
    \E n \in NodeIds, e \in Entries, op \in Operators :
        nodes[n] = None /\ put(w, n, e, op)

Update(w) ==
    \E n \in NodeIds, e \in Entries, op \in Operators :
        nodes[n] # None /\ checkKeyContinuity(n, op) /\ put(w, n, e, op)

Disable(w) ==
    \E n \in NodeIds :
        /\ nodes[n] # None /\ Stored(w, n, [nodes[n] EXCEPT !.status = "disabled"])
        /\ UNCHANGED <<opKeys, signers>>

SetPrice(w) ==
    \E n \in NodeIds, p \in Fees :
        /\ nodes[n] # None /\ Stored(w, n, [nodes[n] EXCEPT !.price = p])
        /\ UNCHANGED <<opKeys, signers>>

(***************************************************************************)
(* save, and the mirror after it.                                          *)
(***************************************************************************)
Goto(w, c) == call' = [call EXCEPT ![w] = c]
Rest == UNCHANGED <<nodes, opKeys, ops, loads, signers, overlapped>>

Snapshot(w) ==
    /\ call[w].pc = "snapshot"
    /\ Goto(w, [pc |-> "open", node |-> call[w].node, entry |-> call[w].entry, snap |-> nodes])
    /\ UNCHANGED <<disk, tmp, chain, failed>> /\ Rest

(* WriteFile opens and truncates the temporary file, and then writes what  *)
(* its handle points to: another save may have renamed that meanwhile.     *)
Open(w) ==
    /\ call[w].pc = "open" /\ tmp' = Torn
    /\ Goto(w, [node |-> call[w].node, entry |-> call[w].entry, snap |-> call[w].snap,
                pc |-> "write", at |-> "tmp"])
    /\ UNCHANGED <<disk, chain, failed>> /\ Rest

Sharing(w) == \E v \in Writers \ {w} : call[v].pc \in {"write", "rename"}

(* Two writes into one file may leave neither whole.                       *)
WriteFile(w) ==
    LET written == {call[w].snap} \cup (IF Sharing(w) THEN {Torn} ELSE {})
    IN  /\ call[w].pc = "write"
        /\ \/ /\ tmp' \in IF call[w].at = "tmp" THEN written ELSE {tmp}
              /\ disk' \in IF call[w].at = "disk" THEN written ELSE {disk}
              /\ Goto(w, [call[w] EXCEPT !.pc = "rename"]) /\ UNCHANGED failed
           \/ Goto(w, NoCall) /\ failed' = TRUE /\ UNCHANGED <<tmp, disk>>
        /\ UNCHANGED chain /\ Rest

(* Handles on the temporary file follow it to its new name; without the    *)
(* file the save fails.                                                    *)
Moved(c) ==
    IF c.pc \notin {"write", "rename"} THEN c
    ELSE [c EXCEPT !.at = IF @ = "tmp" THEN "disk" ELSE "gone"]

(* Mutant: the temporary file is left where it is.                         *)
RenameNot(w) ==
    /\ call[w].pc = "rename" /\ tmp # None
    /\ Goto(w, [call[w] EXCEPT !.pc = "mirror"])
    /\ UNCHANGED <<disk, tmp, chain, failed>> /\ Rest

Rename(w) ==
    /\ call[w].pc = "rename"
    /\ \/ /\ tmp # None /\ disk' = tmp /\ tmp' = None
          /\ call' = [v \in Writers |-> IF v = w THEN [call[w] EXCEPT !.pc = "mirror"]
                                                 ELSE Moved(call[v])]
          /\ UNCHANGED failed
       \/ /\ tmp = None /\ Goto(w, NoCall) /\ failed' = TRUE /\ UNCHANGED <<disk, tmp>>
    /\ UNCHANGED chain /\ Rest

Mirror(w) ==
    /\ call[w].pc = "mirror" /\ Goto(w, NoCall)
    /\ \/ chain' = [chain EXCEPT ![call[w].node] = call[w].entry] /\ UNCHANGED failed
       \/ UNCHANGED chain /\ failed' = TRUE
    /\ UNCHANGED <<disk, tmp>> /\ Rest

(* The process ends at any point; NewStore and Load start from the file,   *)
(* without pins.  A file that is not whole is an error.  Load skips the    *)
(* entries that do not validate; while the minimum bond is the same and    *)
(* nobody else edits the file there is none: Register and Update validate  *)
(* what they store, and Disable and SetPrice leave it valid.               *)
Load ==
    /\ loads < MaxLoads /\ loads' = loads + 1 /\ disk # Torn
    /\ nodes' = disk /\ opKeys' = Empty /\ signers' = [n \in NodeIds |-> {}]
    /\ call' = [w \in Writers |-> NoCall]
    /\ failed' = (failed \/ \E w \in Writers : call[w] # NoCall)
    /\ UNCHANGED <<disk, tmp, chain, ops, overlapped>>

RegistryNext ==
    \/ Load
    \/ \E w \in Writers : \/ Register(w) \/ Update(w) \/ Disable(w) \/ SetPrice(w)
                          \/ Snapshot(w) \/ Open(w) \/ WriteFile(w) \/ Rename(w) \/ Mirror(w)

RegistrySpec == RegistryInit /\ [][RegistryNext]_registryVars

-----------------------------------------------------------------------------
(***************************************************************************)
(* Properties.                                                             *)
(***************************************************************************)
Quiet == \A w \in Writers : call[w] = NoCall

(* Register, Update (registry.go 213-296): between two loads the           *)
(* advertisements stored for a node all come from one operator.  save,     *)
(* Load, Mirror (registry.go 382-436, 257-261, 290-294, 315-319, 341-345): *)
(* when no operation is under way the file and the contract hold what the  *)
(* map does, unless operations overlapped or one failed.                   *)
RegistryAgrees ==
    /\ \A n \in NodeIds : Cardinality(signers[n]) <= 1
    /\ Quiet /\ ~overlapped /\ ~failed => disk = nodes /\ chain = nodes
=============================================================================
