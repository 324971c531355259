---------------------------- MODULE DurableStore ----------------------------
(***************************************************************************)
(* What of the database survives, and how a start gets it back: Open       *)
(* (internal/store/sqlite.go) with migrate (internal/store/migrate.go),    *)
(* under crashes of the process and power losses of the machine.           *)
(*                                                                         *)
(* Open sets journal_mode=WAL and synchronous=NORMAL.  A commit is then    *)
(* written to the log file but not synced: it survives the death of the    *)
(* process, but the operating system forces it to disk when it likes, at   *)
(* the latest at a checkpoint.  The frames of the log carry cumulative     *)
(* checksums, so that what a power loss leaves is the database after some  *)
(* earlier commit: a prefix, never a selection, of the commits.            *)
(***************************************************************************)
EXTENDS VerifyService

VARIABLES
  schema,    \* [version: the newest row of schema_migrations,
             \*  made: the steps whose tables and indexes exist; 0 is
             \*  schema_migrations itself]
  opening,   \* the migration step Open is about to do; 0: not in Open
  disk       \* the database as of the last commit that is on disk

dvars == << schema, opening, disk >>
durableVars == << allVars, dvars >>

LatestSchema == 3

\* All that is in the database file.
database == << auditEntries, archiveEntries, archiveBatches, lastId,
               lastVerify, schema >>

NoSchema == [version |-> 0, made |-> {}]

DInit == /\ VInit
         /\ schema = NoSchema
         /\ opening = 0
         /\ disk = << {}, {}, << >>, 0, "none", NoSchema >>

-----------------------------------------------------------------------------
(* Open                                                                    *)

\* PRAGMAs, CREATE TABLE IF NOT EXISTS schema_migrations, MAX(version).
OpenDatabase ==
  /\ ~up
  /\ opening = 0
  /\ schema' = [schema EXCEPT !.made = @ \cup {0}]
  /\ opening' = schema.version + 1
  /\ UNCHANGED << allVars, disk >>

\* Mutant of Migrate: the step and its version are two commits.
MigrateInTwo ==
  /\ opening \in 1 .. LatestSchema
  /\ IF opening \in schema.made
     THEN /\ schema' = [schema EXCEPT !.version = opening]
          /\ opening' = opening + 1
     ELSE /\ schema' = [schema EXCEPT !.made = @ \cup {opening}]
          /\ UNCHANGED opening
  /\ UNCHANGED << allVars, disk >>

\* One transaction: the DDL of the step (IF NOT EXISTS) and its version row.
Migrate ==
  /\ opening \in 1 .. LatestSchema
  /\ schema' = [version |-> opening, made |-> schema.made \cup {opening}]
  /\ opening' = opening + 1
  /\ UNCHANGED << allVars, disk >>

\* ensureGenesis, and main goes on to serve.
OpenReturns ==
  /\ opening = LatestSchema + 1
  /\ Start
  /\ opening' = 0
  /\ UNCHANGED << vvars, schema, disk >>

\* A statement of Open fails, or the process dies in it: main ends
\* (log.Fatal), the open transaction is rolled back.
OpenFails ==
  /\ opening # 0
  /\ opening' = 0
  /\ UNCHANGED << allVars, schema, disk >>

-----------------------------------------------------------------------------
(* The machine                                                             *)

\* The log file gets to disk up to the newest commit.  (An older one: this
\* step happened right after it.)
Persist == /\ disk # database
           /\ disk' = database
           /\ UNCHANGED << allVars, schema, opening >>

\* Recovery reads the log up to its last valid frame.
Restore ==
  /\ auditEntries' = disk[1]
  /\ archiveEntries' = disk[2]
  /\ archiveBatches' = disk[3]
  /\ lastId' = disk[4]
  /\ lastVerify' = disk[5]
  /\ schema' = disk[6]

\* The machine stops, with the process if it runs.  What clients were told
\* they still know.
PowerLoss ==
  /\ disk # database
  /\ Restore
  /\ up' = FALSE
  /\ opening' = 0
  /\ pc' = [c \in Clients |-> "idle"]
  /\ pending' = [c \in Clients |-> NoEntry]
  /\ archiveJob' = {}
  /\ VIdle
  /\ UNCHANGED << replied, disk >>

DStoreStep == \/ Crash /\ VIdle /\ UNCHANGED lastVerify
              \/ (\E c \in Clients : Client(c)) /\ UNCHANGED vvars
              \/ Archiver /\ UNCHANGED vvars

DNext == \/ OpenDatabase \/ Migrate \/ OpenReturns \/ OpenFails
         \/ (DStoreStep \/ VerifyStep) /\ UNCHANGED dvars
         \/ Persist \/ PowerLoss

DSpec == DInit /\ [][DNext]_durableVars

-----------------------------------------------------------------------------
(* Properties                                                              *)

\* The recorded version tells exactly which steps have been done, whatever
\* ended the starts before; the server runs on the latest schema only.
SchemaWhole ==
  /\ schema.made = IF schema = NoSchema THEN {} ELSE 0 .. schema.version
  /\ up => schema.version = LatestSchema
  /\ AllEntries # {} => schema.version = LatestSchema

\* A power loss takes the newest rows only, whichever table they are in: it
\* brings back no row, and every row that is left is older than every row
\* that is gone.
LossIsTail ==
  [][PowerLoss =>
       /\ AllEntries' \subseteq AllEntries
       /\ \A lost \in AllEntries \ AllEntries', left \in AllEntries' :
            left.id < lost.id]_durableVars

-----------------------------------------------------------------------------
(* The inductive invariant: of the running store, of the verification in   *)
(* progress, of the file, and of what a power loss would take.             *)

\* The database a power loss leaves, as a store of its own.
OnDisk == INSTANCE AuditStore
  WITH auditEntries <- disk[1], archiveEntries <- disk[2],
       archiveBatches <- disk[3], lastId <- disk[4]

\* A recorded version tells which steps have been done.
IsSchema(s) ==
  /\ s = [version |-> s.version, made |-> s.made]
  /\ s.version \in 0 .. LatestSchema
  /\ s.made = IF s = NoSchema THEN {} ELSE 0 .. s.version

\* Open goes through the steps in order, before the server runs; there are no
\* rows without the tables they are in.
OpenInv ==
  /\ IsSchema(schema)
  /\ opening \in 0 .. LatestSchema + 1
  /\ opening # 0 => ~up /\ schema # NoSchema /\ opening = schema.version + 1
  /\ up => schema.version = LatestSchema /\ auditEntries # {}
  /\ AllEntries # {} => schema.version = LatestSchema

\* The file is a database that was current at some earlier time: all in it is
\* in the log still, and what it lacks came later.
DiskInv ==
  /\ OnDisk!TableInv
  /\ OnDisk!AllEntries \subseteq AllEntries
  /\ \A e \in AllEntries : e \in OnDisk!AllEntries \/ e.id > disk[4]
  /\ disk[4] =< lastId
  /\ disk[5] \in {"none", "ok", "link_broken", "hash_mismatch", "head_mismatch"}
  /\ OnDisk!SeqUnique => disk[5] \in {"none", "ok", "head_mismatch"}
  /\ IsSchema(disk[6])
  /\ OnDisk!AllEntries # {} => disk[6].version = LatestSchema

DInv == StoreInv /\ VerifyInv /\ OpenInv /\ DiskInv

-----------------------------------------------------------------------------

\* docs/01 8.1 "with synchronous=NORMAL under WAL no commit is lost".
AckSurvives == replied \subseteq AllEntries

=============================================================================
