----------------------------- MODULE Migrations -----------------------------
(***************************************************************************)
(* The migration runner of the startup.  It reads the versions that are    *)
(* recorded once, and then applies each file that is not among them in     *)
(* numerical order, one transaction per file with its record.  A release   *)
(* may bring files, also with numbers below those already applied.         *)
(***************************************************************************)
EXTENDS Integers

CONSTANT Versions   \* numbers of migration files

ASSUME MigrationsAssumption == Versions \subseteq Nat

VARIABLES
  deployed,  \* files in migrations/
  applied,   \* rows of schema_migrations
  todo,      \* what the runner has still to apply
  ran        \* ran[v] : how often the statements of v were committed (history)

migrationVars == <<deployed, applied, todo, ran>>

MigrationsTypeOK ==
  /\ deployed \in SUBSET Versions
  /\ applied \in SUBSET Versions
  /\ todo \in SUBSET Versions
  /\ ran \in [Versions -> Nat]

MigrationsInit ==
  /\ deployed \in SUBSET Versions
  /\ applied = {}
  /\ todo = {}
  /\ ran = [v \in Versions |-> 0]

\* A release: external.
Deploy(v) ==
  /\ deployed' = deployed \cup {v}
  /\ UNCHANGED <<applied, todo, ran>>

\* Mutant: only files above the newest applied one.
NewerThanApplied == {v \in deployed : \A a \in applied : a < v}

\* Those that are not recorded.
Pending == deployed \ applied

ReadApplied ==
  /\ todo' = Pending
  /\ UNCHANGED <<deployed, applied, ran>>

\* The least pending one, with its record.
ApplyOne ==
  /\ \E v \in todo :
       /\ \A w \in todo : v <= w
       /\ todo' = todo \ {v}
       /\ applied' = applied \cup {v}
       /\ ran' = [ran EXCEPT ![v] = @ + 1]
  /\ UNCHANGED deployed

\* A statement fails, or the process dies: the transaction rolls back.
MigrationsAbort ==
  /\ todo' = {}
  /\ UNCHANGED <<deployed, applied, ran>>

\* Every deployed file was run exactly once and is recorded.
Migrated == \A v \in deployed : v \in applied /\ ran[v] = 1
=============================================================================
