------------------------------- MODULE Backups -------------------------------
(***************************************************************************)
(* The nightly backup: a dump is streamed into a .part file, renamed when  *)
(* pg_dump has ended well, and then all but the newest dumps are deleted.  *)
(* Files are known by the time in their name, which only grows.            *)
(***************************************************************************)
EXTENDS Integers, FiniteSets

CONSTANTS
  Keep,      \* dumps that the rotation keeps
  MaxDumps   \* bound: dumps that are started

ASSUME BackupsAssumption == Keep \in Nat \ {0} /\ MaxDumps \in Nat

VARIABLES
  stamp,   \* the time of the newest name, 0 at first
  parts,   \* .part files
  dumps,   \* files under their final names, and whether they hold the whole dump
  dump     \* the dump being made

backupVars == <<stamp, parts, dumps, dump>>

Stamps == 1..MaxDumps

NoDump == [pc |-> "none"]

BackupsTypeOK ==
  /\ stamp \in 0..MaxDumps
  /\ parts \in SUBSET Stamps
  /\ dumps \in SUBSET [stamp : Stamps, whole : BOOLEAN]
  /\ dump \in {NoDump} \cup [pc : {"stream", "renamed"}, stamp : Stamps]
              \cup [pc : {"exited"}, stamp : Stamps, code : {0, 1}]

BackupsInit ==
  /\ stamp = 0
  /\ parts = {}
  /\ dumps = {}
  /\ dump = NoDump

------------------------------------------------------------------------------
(* create_backup and rotate_backups.                                        *)

\* O_EXCL: a left-over .part of that name is deleted first.
OpenPart ==
  /\ dump = NoDump
  /\ stamp < MaxDumps
  /\ stamp' = stamp + 1
  /\ parts' = (parts \ {stamp + 1}) \cup {stamp + 1}
  /\ dump' = [pc |-> "stream", stamp |-> stamp + 1]
  /\ UNCHANGED dumps

\* pg_dump has closed its output and its exit code is awaited.
StreamEnds ==
  /\ dump.pc = "stream"
  /\ \E code \in {0, 1} : dump' = [pc |-> "exited", stamp |-> dump.stamp, code |-> code]
  /\ UNCHANGED <<stamp, parts, dumps>>

\* Mutant: the exit code is not looked at.
RenamesAny(code) == code \in {0, 1}

Renames(code) == code = 0

RenameDump ==
  /\ dump.pc = "exited" /\ Renames(dump.code)
  /\ parts' = parts \ {dump.stamp}
  /\ dumps' = dumps \cup {[stamp |-> dump.stamp, whole |-> dump.code = 0]}
  /\ dump' = [pc |-> "renamed", stamp |-> dump.stamp]
  /\ UNCHANGED stamp

Newer(f) == {g \in dumps : g.stamp > f.stamp}

\* Mutant: the list is sorted the other way round.
Newest == {f \in dumps : Cardinality({g \in dumps : g.stamp < f.stamp}) >= Keep}

\* All but the newest.
Surplus == {f \in dumps : Cardinality(Newer(f)) >= Keep}

\* A file that cannot be deleted is left.
RotateBackups ==
  /\ dump.pc = "renamed"
  /\ \E deleted \in SUBSET Surplus : dumps' = dumps \ deleted
  /\ dump' = NoDump
  /\ UNCHANGED <<stamp, parts>>

\* pg_dump cannot start or fails, a write fails, a timeout, a cancellation: the
\* .part file is deleted.
DropDump ==
  /\ parts' = IF dump = NoDump THEN parts ELSE parts \ {dump.stamp}
  /\ dump' = NoDump
  /\ UNCHANGED <<stamp, dumps>>

\* The process is killed: the .part file is left.
BackupDies ==
  /\ dump' = NoDump
  /\ UNCHANGED <<stamp, parts, dumps>>
==============================================================================
