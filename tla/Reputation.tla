----------------------------- MODULE Reputation -----------------------------
(***************************************************************************)
(* What a client remembers of the nodes it used (internal/reputation): the *)
(* evidence it accepted, the outcomes of its sessions and what it observed *)
(* of bond and uptime, all in one file that every change rewrites, and the *)
(* score made of it.  Fractions of one are kept in parts of Unit.          *)
(***************************************************************************)
EXTENDS Naturals

CONSTANTS
    Rated,          \* node ids
    Slashable,      \* kinds of evidence that carry a proof (IsSlashable)
    Observed,       \* kinds that are observations (IsAdvisory)
    Unit,           \* parts of one; BondFullDERO in parts of a bond
    Amounts,        \* bonds and uptimes that may be observed, also above one
    MaxChanges      \* bound: changes

ASSUME ReputationAssumption ==
    /\ Slashable \cap Observed = {}
    /\ Unit \in Nat \ {0} /\ Amounts \subseteq Nat /\ MaxChanges \in Nat

VARIABLES
    book,       \* the store in memory
    saved,      \* its file
    changes,    \* changes so far
    unsaved     \* the last save failed

reputationVars == <<book, saved, changes, unsaved>>

Kinds == Slashable \cup Observed
Unseen == [hasUp |-> FALSE, bond |-> 0, uptime |-> 0]

NewBook == [evidence |-> [n \in Rated |-> {}], success |-> [n \in Rated |-> 0],
            fail |-> [n \in Rated |-> 0], info |-> [n \in Rated |-> Unseen]]

ReputationInit == book = NewBook /\ saved = NewBook /\ changes = 0 /\ unsaved = FALSE

(* Mutant: the evidence is left out of the file.                           *)
saveLockedBare ==
    \/ saved' = [book' EXCEPT !.evidence = saved.evidence] /\ unsaved' = FALSE
    \/ UNCHANGED saved /\ unsaved' = TRUE

(* saveLocked: the whole book goes to a temporary file that is renamed, or *)
(* the file stays as it was; the change stays in memory either way.        *)
saveLocked ==
    \/ saved' = book' /\ unsaved' = FALSE
    \/ UNCHANGED saved /\ unsaved' = TRUE

(* Add: evidence that does not verify is not stored.                       *)
Add(n) ==
    /\ changes < MaxChanges /\ changes' = changes + 1
    /\ \E k \in Kinds : book' = [book EXCEPT !.evidence[n] = @ \cup {k}]
    /\ saveLocked

RecordSession(n) ==
    /\ changes < MaxChanges /\ changes' = changes + 1
    /\ \/ book' = [book EXCEPT !.success[n] = @ + 1]
       \/ book' = [book EXCEPT !.fail[n] = @ + 1]
    /\ saveLocked

SetNodeInfo(n) ==
    /\ changes < MaxChanges /\ changes' = changes + 1
    /\ \E b, u \in Amounts :
          book' = [book EXCEPT !.info[n] = [hasUp |-> TRUE, bond |-> b, uptime |-> u]]
    /\ saveLocked

(* The client starts again and reads its file.                             *)
OpenStore == book' = saved /\ unsaved' = FALSE /\ UNCHANGED <<saved, changes>>

ReputationNext ==
    \/ OpenStore \/ \E n \in Rated : Add(n) \/ RecordSession(n) \/ SetNodeInfo(n)

ReputationSpec == ReputationInit /\ [][ReputationNext]_reputationVars

(***************************************************************************)
(* The score.                                                              *)
(***************************************************************************)
clip01(v) == IF v > Unit THEN Unit ELSE v

Slashed(n) == book.evidence[n] \cap Slashable # {}

History(n) ==
    LET ok == book.success[n] bad == book.fail[n]
    IN  IF ok + bad = 0 THEN Unit \div 2 ELSE (ok * Unit) \div (ok + bad)

Uptime(n) == IF book.info[n].hasUp THEN book.info[n].uptime ELSE Unit \div 2

(* In hundredths of a Unit.                                                *)
ReputationScore(n) ==
    IF Slashed(n) THEN 0
    ELSE 30 * clip01(book.info[n].bond) + 30 * clip01(Uptime(n)) + 40 * clip01(History(n))

-----------------------------------------------------------------------------
(***************************************************************************)
(* Properties.                                                             *)
(***************************************************************************)

(* Add, saveLocked, Open (store.go 36-115): a node against which the       *)
(* client holds proof never scores again, over any later change and any    *)
(* restart, unless the client restarts after a save that failed.           *)
SlashFinal ==
    [][\A n \in Rated :
          Slashed(n) /\ ~unsaved => ReputationScore(n)' = 0]_reputationVars
=============================================================================
