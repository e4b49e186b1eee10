------------------------------ MODULE Settings ------------------------------
(***************************************************************************)
(* What the client keeps between runs: its configuration file              *)
(* (internal/config/client.go, App.UpdateConfig, App.persistWallet) and    *)
(* the mark of a clean exit in its store (internal/app/onboard.go).  The   *)
(* service holds the configuration in memory and rewrites the file in      *)
(* place, from any request goroutine; the command line client runs         *)
(* EnsureFirstRun when it starts, which creates a missing file, and        *)
(* MarkCleanShutdown when it returns, but not when it exits through fatal  *)
(* or is killed.                                                           *)
(***************************************************************************)
EXTENDS Naturals

CONSTANTS
    Savers,         \* request goroutines of the service
    Clients,        \* command line clients
    WalletModes,    \* what the wallet section says
    Rest,           \* what all the other sections say
    DefaultConfig,  \* DefaultClientConfig
    Missing, Torn,  \* the file is not there; it is cut short or mixed up
    MaxSaves,       \* bound: configuration changes
    MaxStarts       \* bound: client starts

Configs == [wallet : WalletModes, rest : Rest]

ASSUME SettingsAssumption ==
    /\ DefaultConfig \in Configs /\ Missing \notin Configs /\ Torn \notin Configs
    /\ Savers \cap Clients = {} /\ MaxSaves \in Nat /\ MaxStarts \in Nat

VARIABLES
    up,         \* the service is running
    cfg,        \* App.cfg of the service
    file,       \* the configuration file
    save,       \* the UpdateConfig of each goroutine
    saves,      \* changes so far
    proc,       \* where each command line client is
    mark,       \* the clean-exit setting: "", "0" or "1"
    starts,     \* client starts so far
    report,     \* UncleanExit of the last start
    died,       \* history: the last client that cleared the mark ended before
                \* its MarkCleanShutdown
    before,     \* history: died, as it was when the last start read the mark
    broken,     \* history: a write of the file was interrupted, failed,
                \* overlapped another or was read half done
    together,   \* history: a client read the mark while another was running
    lost        \* history: a read or a write of the mark failed

exits == <<mark, report, died, before, together, lost>>
clientVars == <<proc, starts, exits>>
settingsVars == <<up, cfg, file, save, saves, clientVars, broken>>

NoSave == [pc |-> "idle", new |-> DefaultConfig]
Writers == {h \in Savers : save[h].pc # "idle"} \cup
           {c \in Clients : proc[c] \in {"create", "write"}}

SettingsInit ==
    /\ up = FALSE /\ cfg = DefaultConfig /\ file = Missing
    /\ save = [h \in Savers |-> NoSave] /\ saves = 0
    /\ proc = [c \in Clients |-> "off"] /\ mark = "" /\ starts = 0
    /\ report = FALSE /\ died = FALSE /\ before = FALSE
    /\ broken = FALSE /\ together = FALSE /\ lost = FALSE

(* LoadClient: defaults for a missing file; a damaged one is refused or    *)
(* read as whatever is left of it.                                         *)
LoadClient(f) ==
    CASE f = Missing -> {DefaultConfig} [] f = Torn -> Configs [] OTHER -> {f}

(***************************************************************************)
(* The service.                                                            *)
(***************************************************************************)
StartService ==
    /\ ~up /\ up' = TRUE
    /\ \E c \in LoadClient(file) : cfg' = c
    /\ broken' = (broken \/ file = Torn)
    /\ UNCHANGED <<file, save, saves, clientVars>>

(* UpdateConfig, from the settings screen (the other sections change) and  *)
(* from persistWallet (the wallet section does); both send back a copy of  *)
(* the configuration they read.                                            *)
UpdateConfig(h) ==
    /\ up /\ save[h] = NoSave /\ saves < MaxSaves /\ saves' = saves + 1
    /\ \E new \in {[cfg EXCEPT !.rest = r] : r \in Rest} \cup
                  {[cfg EXCEPT !.wallet = m] : m \in WalletModes} :
          save' = [save EXCEPT ![h] = [pc |-> "open", new |-> new]]
    /\ broken' = (broken \/ Writers # {})
    /\ UNCHANGED <<up, cfg, file, clientVars>>

(* Save truncates the file when it opens it; it may not be able to.        *)
Truncate(h) ==
    /\ save[h].pc = "open"
    /\ \/ file' = Torn /\ save' = [save EXCEPT ![h].pc = "write"]
       \/ save' = [save EXCEPT ![h] = NoSave] /\ UNCHANGED file
    /\ UNCHANGED <<up, cfg, saves, clientVars, broken>>

(* Writes of two writers overlap in the file; a write may fail.            *)
Written(w, new) == {new} \cup (IF Writers = {w} THEN {} ELSE {Torn})

Write(h) ==
    /\ save[h].pc = "write"
    /\ \/ /\ file' \in Written(h, save[h].new)
          /\ save' = [save EXCEPT ![h].pc = "swap"] /\ UNCHANGED broken
       \/ /\ file' = Torn /\ broken' = TRUE
          /\ save' = [save EXCEPT ![h] = NoSave]
    /\ UNCHANGED <<up, cfg, saves, clientVars>>

Swap(h) ==
    /\ save[h].pc = "swap"
    /\ cfg' = save[h].new /\ save' = [save EXCEPT ![h] = NoSave]
    /\ UNCHANGED <<up, file, saves, clientVars, broken>>

(* The service ends, whatever its goroutines are doing.                    *)
EndService ==
    /\ up /\ up' = FALSE
    /\ save' = [h \in Savers |-> NoSave]
    /\ broken' = (broken \/ \E h \in Savers : save[h].pc = "write")
    /\ UNCHANGED <<cfg, file, saves, clientVars>>

(***************************************************************************)
(* The command line client.                                                *)
(***************************************************************************)

(* EnsureFirstRun, up to its Stat.  It ends early, and with it the client, *)
(* when the file cannot be read or is refused: the mark is as it was.      *)
EnsureFirstRun(c) ==
    /\ proc[c] = "off" /\ starts < MaxStarts /\ starts' = starts + 1
    /\ \/ UNCHANGED <<proc, broken>>
       \/ /\ file = Missing /\ proc' = [proc EXCEPT ![c] = "create"]
          /\ broken' = (broken \/ Writers # {})
       \/ /\ file # Missing /\ proc' = [proc EXCEPT ![c] = "read"]
          /\ UNCHANGED broken
    /\ UNCHANGED <<up, cfg, file, save, saves, exits>>

(* Save, of what LoadClient returned for a missing file, whatever is in    *)
(* its place by now.  When it fails the client ends.                       *)
Create(c) ==
    /\ proc[c] = "create"
    /\ \/ file' = Torn /\ proc' = [proc EXCEPT ![c] = "write"]
       \/ proc' = [proc EXCEPT ![c] = "off"] /\ UNCHANGED file
    /\ UNCHANGED <<up, cfg, save, saves, starts, exits, broken>>

Fill(c) ==
    /\ proc[c] = "write"
    /\ \/ /\ file' \in Written(c, DefaultConfig)
          /\ proc' = [proc EXCEPT ![c] = "read"] /\ UNCHANGED broken
       \/ /\ file' = Torn /\ broken' = TRUE
          /\ proc' = [proc EXCEPT ![c] = "off"]
    /\ UNCHANGED <<up, cfg, save, saves, starts, exits>>

(* Mutant: the mark is cleared before it is read.                          *)
ReadMarkCleared(c) ==
    /\ proc[c] = "read" /\ proc' = [proc EXCEPT ![c] = "clear"]
    /\ mark' = "0" /\ report' = TRUE /\ before' = died
    /\ together' = (together \/ \E d \in Clients : proc[d] \in {"clear", "run", "marked"})
    /\ UNCHANGED <<up, cfg, file, save, saves, starts, died, broken, lost>>

(* A mark that cannot be read reports nothing.                             *)
ReadMark(c) ==
    /\ proc[c] = "read" /\ proc' = [proc EXCEPT ![c] = "clear"]
    /\ \/ report' = (mark = "0") /\ UNCHANGED lost
       \/ report' = FALSE /\ lost' = TRUE
    /\ before' = died
    /\ together' = (together \/ \E d \in Clients : proc[d] \in {"clear", "run", "marked"})
    /\ UNCHANGED <<up, cfg, file, save, saves, mark, starts, died, broken>>

(* SetSetting; both callers drop its error.                                *)
SetMark(v) ==
    \/ mark' = v /\ UNCHANGED lost
    \/ lost' = TRUE /\ UNCHANGED mark

ClearMark(c) ==
    /\ proc[c] = "clear" /\ proc' = [proc EXCEPT ![c] = "run"]
    /\ SetMark("0")
    /\ UNCHANGED <<up, cfg, file, save, saves, starts, report, died, before, broken, together>>

(* After the disconnect command, and deferred to the client's return; the  *)
(* process ends later.                                                     *)
MarkCleanShutdown(c) ==
    /\ proc[c] \in {"run", "marked"} /\ proc' = [proc EXCEPT ![c] = "marked"]
    /\ SetMark("1") /\ died' = FALSE
    /\ UNCHANGED <<up, cfg, file, save, saves, starts, report, before, broken, together>>

(* The process ends: it has returned; or fatal, which runs no deferred     *)
(* call, or a kill ends it at any other step.                              *)
Ends(c) ==
    /\ proc[c] # "off" /\ proc' = [proc EXCEPT ![c] = "off"]
    /\ broken' = (broken \/ proc[c] = "write")
    /\ died' = (died \/ proc[c] = "run")
    /\ UNCHANGED <<up, cfg, file, save, saves, mark, starts, report, before, together, lost>>

SettingsNext ==
    \/ StartService \/ EndService
    \/ \E h \in Savers : UpdateConfig(h) \/ Truncate(h) \/ Write(h) \/ Swap(h)
    \/ \E c \in Clients :
          \/ EnsureFirstRun(c) \/ Create(c) \/ Fill(c) \/ ReadMark(c) \/ ClearMark(c)
          \/ MarkCleanShutdown(c) \/ Ends(c)

SettingsSpec == SettingsInit /\ [][SettingsNext]_settingsVars

-----------------------------------------------------------------------------
(***************************************************************************)
(* Properties.                                                             *)
(***************************************************************************)

(* UpdateConfig, LoadClient, EnsureFirstRun (app.go 235-252, client.go     *)
(* 202-257, onboard.go 161-184): the service runs with the configuration a *)
(* restart would load, unless a write of the file was cut short, failed,   *)
(* overlapped another or was read half done; the creation of a missing     *)
(* file by a client is such a write.                                       *)
(* EnsureFirstRun, MarkCleanShutdown (onboard.go 186-192, 214-221): a      *)
(* start reports an unclean exit exactly when the last client to clear the *)
(* mark ended before it set it again, however many starts in between ended *)
(* before they came to clear it, unless two clients ran together or the    *)
(* store failed.                                                           *)
FilesTellTheTruth ==
    /\ up /\ Writers = {} /\ ~broken => cfg \in LoadClient(file)
    /\ ~together /\ ~lost => report = before
=============================================================================
