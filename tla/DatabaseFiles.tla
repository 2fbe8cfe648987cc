---- MODULE DatabaseFiles ----
(***************************************************************************)
(* The SQLite file and its write-ahead log: opening and migrating it,      *)
(* committing, `db backup` and `db restore`.  Content is a set of commits. *)
(* A process whose log was moved, or whose file was replaced, goes on with *)
(* those: SQLite looks whether a file was moved for a rollback journal     *)
(* only, so its commits succeed, and the present database has none.        *)
(***************************************************************************)
EXTENDS Integers, FiniteSets

CONSTANTS
  Procs,
  Versions,     \* the migrations on disk: 1 .. n
  Backup        \* the content of the backup file that is restored

Migration(v, p) == [kind |-> "migration", version |-> v, by |-> p]
RowOf(p) == [kind |-> "row", version |-> 0, by |-> p]

VARIABLES
  main, wal,      \* content of the file, and what only its log has; wal.there says
                  \* whether the log exists
  conn,           \* of each process: no connection, one on the present file, or one on
                  \* a file that was replaced or whose log was moved
  seen, dstep,    \* of each process: the migrations it knows as applied, its step
  temporary,      \* of each process: the file it prepares
  safety,         \* what the pre-restore backups, and the logs beside them, hold
  stored, mixed   \* history: the rows acknowledged on the present database while no
                  \* restore was under way; whether a log was begun beside a file or an
                  \* index it does not belong to

NoLog == [there |-> FALSE, commits |-> {}]
Log(commits) == [there |-> TRUE, commits |-> commits]

DatabaseInit ==
  /\ main = {} /\ wal = NoLog
  /\ conn = [p \in Procs |-> "none"]
  /\ seen = [p \in Procs |-> {}]
  /\ dstep = [p \in Procs |-> "idle"]
  /\ temporary = [p \in Procs |-> {}]
  /\ safety = {}
  /\ stored = {} /\ mixed = FALSE

Content == main \cup wal.commits
Applied(commits) == {c.version : c \in {m \in commits : m.kind = "migration"}}

DStep(p, step) == dstep' = [dstep EXCEPT ![p] = step]
Alone(p) == \A q \in Procs \ {p} : conn[q] # "open"

\* The last connection to close writes the log back and removes it.
CloseFiles(p) ==
  /\ conn' = [conn EXCEPT ![p] = "none"]
  /\ IF conn[p] = "open" /\ Alone(p)
       THEN main' = Content /\ wal' = NoLog
       ELSE UNCHANGED <<main, wal>>

\* get_connection, the schema, and the SELECT on schema_migrations.  A log that
\* was left behind is read with the file.
OpenDatabase(p) ==
  /\ dstep[p] = "idle"
  /\ conn' = [conn EXCEPT ![p] = "open"]
  /\ wal' = IF wal.there THEN wal ELSE Log({})
  /\ mixed' = (mixed \/ \E q \in Procs : dstep[q] \in {"index", "replace"})
  /\ seen' = [seen EXCEPT ![p] = Applied(Content)]
  /\ DStep(p, "migrate")
  /\ UNCHANGED <<main, temporary, safety, stored>>

Pending(p) == Versions \ seen[p]
IsNext(p, v) == v \in Pending(p) /\ \A w \in Pending(p) : v =< w

\* Faulty: statements written to be repeated do not fail.
Repeatable(v) == FALSE

\* The tables or columns are there: another process came first.
FailsOn(v) == v \in Applied(Content)

\* Where a commit goes: into the log.  That of a process left with a moved log goes
\* there, beside the safety backup, until a later one overwrites it; a log begun during
\* the replacement was not moved.
Committed(p, commit) ==
  \/ /\ conn[p] = "open" \/ (conn[p] = "stale" /\ mixed /\ wal.there)
     /\ wal' = Log(wal.commits \cup {commit})
     /\ UNCHANGED safety
  \/ /\ conn[p] = "stale"
     /\ safety' \in {safety, safety \cup {commit}}
     /\ UNCHANGED wal

\* BEGIN IMMEDIATE, the statements, the row and the commit: one transaction.
Migrate(p, v) ==
  /\ dstep[p] = "migrate"
  /\ IsNext(p, v)
  /\ conn[p] = "open" => ~FailsOn(v)
  /\ Committed(p, Migration(v, p))
  /\ seen' = [seen EXCEPT ![p] = @ \cup {v}]
  /\ UNCHANGED <<main, conn, dstep, temporary, stored, mixed>>

Leave(p) ==
  /\ DStep(p, "idle")
  /\ seen' = [seen EXCEPT ![p] = {}]
  /\ temporary' = [temporary EXCEPT ![p] = {}]

\* MigrationError: the command ends.
MigrationFails(p, v) ==
  /\ dstep[p] = "migrate"
  /\ IsNext(p, v)
  /\ conn[p] = "open" => FailsOn(v)
  /\ Leave(p) /\ CloseFiles(p)
  /\ UNCHANGED <<safety, stored, mixed>>

Migrated(p) ==
  /\ dstep[p] = "migrate" /\ Pending(p) = {}
  /\ DStep(p, "ready")
  /\ UNCHANGED <<main, wal, conn, seen, temporary, safety, stored, mixed>>

Restores == {"copy", "move", "index", "replace"}

\* The commit is acknowledged whatever became of the database.
CommitRow(p) ==
  /\ dstep[p] = "ready"
  /\ Committed(p, RowOf(p))
  /\ stored' = IF conn[p] = "open" /\ ~mixed /\ \A q \in Procs : dstep[q] \notin Restores
                 THEN stored \cup {RowOf(p)} ELSE stored
  /\ UNCHANGED <<main, conn, seen, dstep, temporary, mixed>>

CloseDatabase(p) ==
  /\ dstep[p] \in {"migrate", "ready"}
  /\ Leave(p) /\ CloseFiles(p)
  /\ UNCHANGED <<safety, stored, mixed>>

----
(* db restore.                                                              *)
----

\* Faulty: the file is copied without its log.
FileOnly == main

\* The backup API reads what a reader of the database would.
Snapshot == Content

\* The backup to restore has passed its check; now the active database is copied
\* into the safety backup, on a connection of its own that is closed again.
BackUpActive(p) ==
  /\ dstep[p] = "idle" /\ conn[p] = "none"
  /\ safety' = safety \cup Snapshot
  /\ IF Alone(p) THEN main' = Content /\ wal' = NoLog ELSE UNCHANGED <<main, wal>>
  /\ DStep(p, "copy")
  /\ UNCHANGED <<conn, seen, temporary, stored, mixed>>

\* The backup is copied into a file beside the active one, and checked there.
CopyBackup(p) ==
  /\ dstep[p] = "copy"
  /\ temporary' = [temporary EXCEPT ![p] = Backup]
  /\ DStep(p, "move")
  /\ UNCHANGED <<main, wal, conn, seen, safety, stored, mixed>>

Detach == conn' = [q \in Procs |-> IF conn[q] = "open" THEN "stale" ELSE conn[q]]

\* The log is moved beside the safety backup, with the processes that have it open.
MoveLog(p) ==
  /\ dstep[p] = "move"
  /\ IF wal.there
       THEN safety' = safety \cup wal.commits /\ wal' = NoLog /\ Detach
       ELSE UNCHANGED <<safety, wal, conn>>
  /\ DStep(p, "index")
  /\ UNCHANGED <<main, seen, temporary, stored, mixed>>

\* Then its index (-shm), which holds nothing of its own.
MoveIndex(p) ==
  /\ dstep[p] = "index"
  /\ DStep(p, "replace")
  /\ UNCHANGED <<main, wal, conn, seen, temporary, safety, stored, mixed>>

\* os.replace.  A log begun since the other was moved stays, and is read with a
\* file it does not belong to.
ReplaceDatabase(p) ==
  /\ dstep[p] = "replace"
  /\ main' = temporary[p]
  /\ Detach
  /\ Leave(p)
  /\ UNCHANGED <<wal, safety, stored, mixed>>

\* A process that is killed closes nothing: the log stays.  A restore killed with only
\* the log moved leaves the index to the next log, with those who still have it open.
KillConnection(p) ==
  /\ dstep[p] # "idle"
  /\ conn' = [conn EXCEPT ![p] = "none"]
  /\ Leave(p)
  /\ mixed' = (mixed \/ (dstep[p] = "index" /\ \E q \in Procs : conn[q] = "stale"))
  /\ UNCHANGED <<main, wal, safety, stored>>

----
\* Each migration once, in order.
InOrder(commits) ==
  /\ \A c, d \in commits :
       c.kind = "migration" /\ d.kind = "migration" /\ c.version = d.version => c = d
  /\ \A v \in Applied(commits) : 1 .. v \subseteq Applied(commits)

\* No migration is applied twice or before an earlier one, with processes that read
\* the applied ones before either began, and with databases restored from older
\* backups.
MigratedInOrder == mixed \/ InOrder(Content)

\* Every row stored is in the active database or in a safety backup, wherever a restore
\* stops, and if the restore was overlapped then in a safety backup.  Stored are the rows
\* acknowledged before a restore began, or after it on a connection of its database.
\* Rows acknowledged between its backup and its replacement, and ever after to a process
\* that had the database open meanwhile, may be gone: docs/DATABASE_OPERATIONS.md:43
\* tells not to run one.
NothingLost ==
  stored \subseteq (IF mixed THEN {} ELSE Content) \cup safety
====
