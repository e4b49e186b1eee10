------------------------------- MODULE Schema -------------------------------
(***************************************************************************)
(* Opening the client's database (internal/storage/client.go).  The        *)
(* service and every command line client open the same file, and each runs *)
(* the migrations the file's version lacks.  There is no transaction       *)
(* around a migration, and none around the migration and its version: each *)
(* SQL statement commits on its own, may fail (another process holds the   *)
(* file), and is where a killed process stops.                             *)
(***************************************************************************)
EXTENDS Integers, Sequences

CONSTANTS
    Openers,        \* processes
    migrations,     \* how many statements each migration has
    MaxOpens        \* bound: calls of Open

ASSUME SchemaAssumption ==
    migrations \in Seq(Nat \ {0}) /\ MaxOpens \in Nat

VARIABLES
    created,    \* statements <<m, i>> that were executed: tables and indices
    version,    \* the rows of schema_version, oldest first
    at,         \* where each process is
    opens       \* calls of Open so far

schemaVars == <<created, version, at, opens>>

Statements == UNION {{m} \X (1..migrations[m]) : m \in 1..Len(migrations)}
Versions == 0..Len(migrations)

(* v: the variable v of migrate; i: the next statement of migration v + 1. *)
Place(pc, v, i) == [pc |-> pc, v |-> v, i |-> i]
Closed == Place("closed", 0, 1)

SchemaInit ==
    /\ created = {} /\ version = <<>> /\ opens = 0
    /\ at = [p \in Openers |-> Closed]

(* The schema_version table is there or is made.                           *)
OpenDatabase(p) ==
    /\ at[p].pc = "closed" /\ opens < MaxOpens /\ opens' = opens + 1
    /\ at' = [at EXCEPT ![p] = Place("read", 0, 1)]
    /\ UNCHANGED <<created, version>>

ReadVersion(p) ==
    /\ at[p].pc = "read"
    /\ at' = [at EXCEPT ![p] = IF version = <<>> THEN Place("insert", 0, 1)
                                                 ELSE Place("step", version[1], 1)]
    /\ UNCHANGED <<created, version, opens>>

(* Two processes that both found no row insert one each.                   *)
InsertVersion(p) ==
    /\ at[p].pc = "insert"
    /\ version' = Append(version, 0)
    /\ at' = [at EXCEPT ![p] = Place("step", 0, 1)]
    /\ UNCHANGED <<created, opens>>

(* Mutant: the version is written before the migration is run.             *)
StatementMarked(p) ==
    /\ at[p].pc = "step" /\ at[p].v < Len(migrations)
    /\ version' = IF at[p].i = 1 THEN [j \in DOMAIN version |-> at[p].v + 1] ELSE version
    /\ created' = created \cup {<<at[p].v + 1, at[p].i>>}
    /\ at' = [at EXCEPT ![p] =
                IF at[p].i < migrations[at[p].v + 1] THEN Place("step", at[p].v, at[p].i + 1)
                                                     ELSE Place("mark", at[p].v, at[p].i)]
    /\ UNCHANGED opens

(* CREATE ... IF NOT EXISTS: harmless when it was done before.             *)
Statement(p) ==
    /\ at[p].pc = "step" /\ at[p].v < Len(migrations)
    /\ created' = created \cup {<<at[p].v + 1, at[p].i>>}
    /\ at' = [at EXCEPT ![p] =
                IF at[p].i < migrations[at[p].v + 1] THEN Place("step", at[p].v, at[p].i + 1)
                                                     ELSE Place("mark", at[p].v, at[p].i)]
    /\ UNCHANGED <<version, opens>>

(* The UPDATE sets every row, and may set it back.                         *)
MarkVersion(p) ==
    /\ at[p].pc = "mark"
    /\ version' = [j \in DOMAIN version |-> at[p].v + 1]
    /\ at' = [at EXCEPT ![p] = Place("step", at[p].v + 1, 1)]
    /\ UNCHANGED <<created, opens>>

Opened(p) ==
    /\ at[p].pc = "step" /\ at[p].v >= Len(migrations)
    /\ at' = [at EXCEPT ![p].pc = "ready"]
    /\ UNCHANGED <<created, version, opens>>

(* A statement fails and Open returns the error, or the process is killed, *)
(* or it closes the store.                                                 *)
Close(p) ==
    /\ at[p].pc # "closed"
    /\ at' = [at EXCEPT ![p] = Closed]
    /\ UNCHANGED <<created, version, opens>>

SchemaNext ==
    \E p \in Openers :
       \/ OpenDatabase(p) \/ ReadVersion(p) \/ InsertVersion(p) \/ Statement(p)
       \/ MarkVersion(p) \/ Opened(p) \/ Close(p)

SchemaSpec == SchemaInit /\ [][SchemaNext]_schemaVars

-----------------------------------------------------------------------------
(***************************************************************************)
(* Properties.                                                             *)
(***************************************************************************)

(* Open and migrate (client.go 88-139): however many processes open the    *)
(* file at once, and wherever any of them stops, a process whose Open      *)
(* succeeded finds every table of every migration, and the version in the  *)
(* file never covers a migration that was not run to its end.              *)
SchemaBeforeUse ==
    /\ \A p \in Openers : at[p].pc = "ready" => Statements \subseteq created
    /\ \A j \in DOMAIN version :
          \A s \in Statements : s[1] <= version[j] => s \in created
=============================================================================
