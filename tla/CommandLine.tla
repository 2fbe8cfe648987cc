---- MODULE CommandLine ----
(***************************************************************************)
(* `reconrelate` as processes that share a home directory, a database and  *)
(* an artifact directory: each runs one command through main(), any of     *)
(* them may be killed at any point, and nothing but SQLite locks.          *)
(***************************************************************************)
EXTENDS Integers, FiniteSets

CONSTANTS
  Procs, Edits, NoValue, Versions, Backup, MaxIndex,
  MaxKills      \* bound on the processes killed

VARIABLES
  command, kills,                     \* of each process: the command it runs; the kills so far
  names, content, edit, read, store, fd, cstep, saved, overlapped, \* ConfigStore
  main, wal, conn, seen, dstep, temporary, safety, stored, mixed,  \* DatabaseFiles
  files, index, left, clobbered, racing                            \* Artifacts

INSTANCE ConfigStore
INSTANCE DatabaseFiles
INSTANCE Artifacts

ASSUME CommandLineAssumption ==
  /\ IsFiniteSet(Procs) /\ IsFiniteSet(Versions)
  /\ MaxIndex \in Nat
  /\ Versions = 1 .. Cardinality(Versions)
  /\ InOrder(Backup)

config == <<names, content, edit, read, store, fd, cstep, saved, overlapped>>
database == <<main, wal, conn, seen, dstep, temporary, safety, stored, mixed>>
artifacts == <<files, index, left, clobbered, racing>>
vars == <<command, kills, config, database, artifacts>>

Init ==
  /\ command = [p \in Procs |-> "none"]
  /\ kills = 0
  /\ ConfigInit /\ DatabaseInit /\ ArtifactsInit

OnlyConfig == UNCHANGED <<kills, database, artifacts>>
OnlyDatabase == UNCHANGED <<kills, config, artifacts>>
OnlyArtifacts == UNCHANGED <<kills, config, database>>

Is(p, c) == command[p] = c
Becomes(p, c) == command' = [command EXCEPT ![p] = c]

\* `config set`, `config unset`, `model add`, `model use`, `model remove`.
Configure(p) ==
  \/ /\ Is(p, "none") /\ \E e \in Edits : BeginEdit(p, e)
     /\ Becomes(p, "configure")
     /\ OnlyConfig
  \/ /\ Is(p, "configure") /\ EditStep(p)
     /\ IF cstep'[p] = "idle" THEN Becomes(p, "done") ELSE UNCHANGED command
     /\ OnlyConfig

\* build_runtime, of every command that needs the database.
BuildRuntime(p) ==
  \/ /\ Is(p, "none") /\ OpenDatabase(p)
     /\ \E c \in {"run", "export"} : Becomes(p, c)
     /\ OnlyDatabase
  \/ /\ Migrated(p) \/ \E v \in Versions : Migrate(p, v)
     /\ UNCHANGED command
     /\ OnlyDatabase
  \/ /\ \E v \in Versions : MigrationFails(p, v)
     /\ Becomes(p, "done")
     /\ OnlyDatabase

\* `run`: the crawl's commits, the bundle, and the runtime is closed.
HandleRun(p) ==
  \/ /\ Is(p, "run") /\ CommitRow(p)
     /\ Becomes(p, "save")
     /\ OnlyDatabase
  \/ /\ Is(p, "save") /\ TakeIndex(p, Bundle)
     /\ Becomes(p, "write")
     /\ OnlyArtifacts

\* `export`: three files under one number.
HandleExport(p) ==
  /\ Is(p, "export") /\ dstep[p] = "ready" /\ TakeIndex(p, Export)
  /\ Becomes(p, "write")
  /\ OnlyArtifacts

WriteFiles(p) ==
  \/ /\ Is(p, "write") /\ WriteArtifact(p)
     /\ UNCHANGED command
     /\ OnlyArtifacts
  \/ /\ Is(p, "write") /\ left[p] = <<>> /\ CloseDatabase(p)
     /\ Becomes(p, "done")
     /\ OnlyDatabase

\* `db restore --yes`.
HandleRestore(p) ==
  \/ /\ Is(p, "none") /\ BackUpActive(p)
     /\ Becomes(p, "restore")
     /\ OnlyDatabase
  \/ /\ CopyBackup(p) \/ MoveLog(p) \/ MoveIndex(p)
     /\ UNCHANGED command
     /\ OnlyDatabase
  \/ /\ ReplaceDatabase(p)
     /\ Becomes(p, "done")
     /\ OnlyDatabase

\* The process dies; what it had open is closed by the system.
Kill(p) ==
  /\ command[p] \notin {"none", "done"}
  /\ kills < MaxKills /\ kills' = kills + 1
  /\ Becomes(p, "done")
  /\ IF cstep[p] = "idle" THEN UNCHANGED config ELSE KillEdit(p)
  /\ IF dstep[p] = "idle" THEN UNCHANGED database ELSE KillConnection(p)
  /\ IF left[p] = <<>> THEN UNCHANGED artifacts ELSE KillWriter(p)

UserArchives == Archive /\ UNCHANGED <<command, kills, config, database>>

Next ==
  \/ \E p \in Procs :
       \/ Configure(p) \/ BuildRuntime(p) \/ HandleRun(p) \/ HandleExport(p)
       \/ WriteFiles(p) \/ HandleRestore(p) \/ Kill(p)
  \/ UserArchives

Spec == Init /\ [][Next]_vars
====
