------------------------------ MODULE Migrations ------------------------------
(***************************************************************************)
(* RunMigrations, run by every replica of server and worker that starts    *)
(* with RUN_MIGRATIONS=1: it reads the versions that were applied, and     *)
(* applies the others in order, each in a transaction that ends with the   *)
(* insert of its version.  Replicas that start together do not know of     *)
(* each other.                                                             *)
(***************************************************************************)
EXTENDS Naturals

CONSTANTS
  Replica,
  LastVersion   \* versions are 1 .. LastVersion

ASSUME MigrationsAssumption == LastVersion \in Nat

VARIABLES
  recorded,   \* the versions in schema_migrations
  ran,        \* ran[v]: how often the SQL of version v was committed
  boot        \* boot[r]: where replica r is

migrationsVars == <<recorded, ran, boot>>

Version == 1 .. LastVersion

\* "applied": what the replica read; "at": the version of its open transaction.
Booting == [step : {"down", "apply", "exec", "record", "up"},
            applied : SUBSET Version, at : 0 .. LastVersion]

Down == [step |-> "down", applied |-> {}, at |-> 0]

MigrationsInit ==
  /\ recorded = {}
  /\ ran = [v \in Version |-> 0]
  /\ boot = [r \in Replica |-> Down]

\* The process starts: CREATE TABLE IF NOT EXISTS, and the versions applied so far.
ReadApplied(r) ==
  /\ boot[r].step = "down"
  /\ boot' = [boot EXCEPT ![r] = [step |-> "apply", applied |-> recorded, at |-> 0]]
  /\ UNCHANGED <<recorded, ran>>

\* The versions it read as missing and has not applied itself.
Pending(r) == {v \in Version : v \notin boot[r].applied}

BeginMigration(r) ==
  /\ boot[r].step = "apply"
  /\ \E v \in Pending(r) :
       /\ \A u \in Pending(r) : v <= u
       /\ boot' = [boot EXCEPT ![r] = [step |-> "exec", applied |-> boot[r].applied, at |-> v]]
  /\ UNCHANGED <<recorded, ran>>

\* The SQL of a version waits for a transaction that has run it and is open.
Blocked(r) == \E s \in Replica \ {r} : boot[s].step = "record" /\ boot[s].at = boot[r].at

ExecMigration(r) ==
  /\ boot[r].step = "exec" /\ ~Blocked(r)
  /\ boot' = [boot EXCEPT ![r].step = "record"]
  /\ UNCHANGED <<recorded, ran>>

\* Variant: a version that another replica recorded meanwhile is no error.
CommitMigrationAnyway(r) ==
  /\ boot[r].step = "record"
  /\ recorded' = recorded \cup {boot[r].at}
  /\ ran' = [ran EXCEPT ![boot[r].at] = @ + 1]
  /\ boot' = [boot EXCEPT
       ![r] = [step |-> "apply", applied |-> boot[r].applied \cup {boot[r].at}, at |-> 0]]

\* The version is inserted, which its primary key allows once, and all is committed.
CommitMigration(r) ==
  /\ boot[r].step = "record"
  /\ boot[r].at \notin recorded
  /\ recorded' = recorded \cup {boot[r].at}
  /\ ran' = [ran EXCEPT ![boot[r].at] = @ + 1]
  /\ boot' = [boot EXCEPT
       ![r] = [step |-> "apply", applied |-> boot[r].applied \cup {boot[r].at}, at |-> 0]]

Serve(r) ==
  /\ boot[r].step = "apply" /\ Pending(r) = {}
  /\ boot' = [boot EXCEPT ![r].step = "up"]
  /\ UNCHANGED <<recorded, ran>>

\* A statement fails, the insert of the version among them, and the process exits; or
\* it dies.  Its transaction is rolled back.
ExitOrDie(r) ==
  /\ boot[r].step # "down"
  /\ boot' = [boot EXCEPT ![r] = Down]
  /\ UNCHANGED <<recorded, ran>>

MigrationsNext ==
  \E r \in Replica : ReadApplied(r) \/ BeginMigration(r) \/ ExecMigration(r)
                     \/ CommitMigration(r) \/ Serve(r) \/ ExitOrDie(r)

MigrationsSpec == MigrationsInit /\ [][MigrationsNext]_migrationsVars

-----------------------------------------------------------------------------
(* Properties *)

MigrationsTypeOK ==
  /\ recorded \subseteq Version
  /\ ran \in [Version -> Nat]
  /\ boot \in [Replica -> Booting]

\* Every version that is recorded was run once and those before it too, and none that
\* is not recorded left a trace, however many replicas start and die together.
AppliedOnceInOrder ==
  /\ \A v \in Version : ran[v] = IF v \in recorded THEN 1 ELSE 0
  /\ \A v \in recorded, u \in Version : u < v => u \in recorded

\* A replica serves only on a complete schema.
ServesComplete == \A r \in Replica : boot[r].step = "up" => recorded = Version

=============================================================================
