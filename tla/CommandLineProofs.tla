---- MODULE CommandLineProofs ----
(***************************************************************************)
(* What the commands promise.  Of those that change files, for any number  *)
(* of processes, edits, migrations and kills: a configuration that is      *)
(* edited by one command at a time is kept, the database is migrated in    *)
(* order and nothing stored in it is lost, and no finished artifact is     *)
(* overwritten.  Of those that compute (run chooses pivots, plan shows the *)
(* preflight plan, providers compare judges two runs), for any evidence,   *)
(* registry and graphs: the theorems of module Algorithms.                 *)
(*                                                                         *)
(* The files of the home directory are independent, so each has an         *)
(* invariant of its own, which the steps on the others leave alone.  The   *)
(* computations keep no state: the invariant only says what was asked, and *)
(* the lemmas follow an answer from there.                                 *)
(***************************************************************************)
EXTENDS CommandLine, Algorithms, FiniteSetTheorems, WellFoundedInduction, TLAPS

----
(* The invariants.                                                          *)
----

Restoring == {p \in Procs : dstep[p] \in Restores}

\* A restore that has begun has everything in the safety backup; after it moved the
\* log there is none, and no process is connected, until one opens the database.
FilesInv ==
  /\ NothingLost
  /\ Restoring # {} => stored \subseteq safety
  /\ DOMAIN conn = Procs /\ DOMAIN seen = Procs /\ DOMAIN dstep = Procs /\ DOMAIN temporary = Procs
  /\ wal = [there |-> wal.there, commits |-> wal.commits]
  /\ wal.there \in BOOLEAN /\ (~wal.there => wal.commits = {})
  /\ mixed \in BOOLEAN
  /\ ~mixed =>
       /\ InOrder(main) /\ InOrder(Content)
       /\ \A p \in Procs : dstep[p] \in {"index", "replace"} => ~wal.there
       /\ \A p \in Procs : conn[p] = "open" => wal.there /\ seen[p] \subseteq Applied(Content)
  /\ \A p \in Procs : dstep[p] \in {"move", "index", "replace"} => temporary[p] = Backup

\* One edit at a time knows the configuration, and has the temporary file to itself.
ConfigTyped ==
  /\ DOMAIN cstep = Procs /\ DOMAIN read = Procs /\ DOMAIN store = Procs /\ DOMAIN fd = Procs
  /\ DOMAIN edit = Procs
  /\ DOMAIN content = Inodes
  /\ names = [config |-> names.config, tmp |-> names.tmp]
  /\ {names.config, names.tmp} \cup {fd[p] : p \in Procs} \subseteq Inodes \cup {NoFile}
  /\ overlapped \in BOOLEAN

Result(p) == Whole(Edited(edit[p], saved, saved[edit[p].name]))

\* What process p knows of the files.
Knows(p) ==
  /\ cstep[p] = "idle" => fd[p] = NoFile
  /\ cstep[p] \in {"load", "open", "write", "replace"} => store[p] = saved[edit[p].name]
  /\ cstep[p] \in {"open", "write", "replace"} => read[p] = saved
  /\ cstep[p] \in {"write", "replace"} => fd[p] = names.tmp /\ names.tmp # NoFile
  /\ cstep[p] = "write" => content[names.tmp] = Broken
  /\ cstep[p] = "replace" => content[names.tmp] = Result(p)

OneEdit ==
  /\ LoadConfig = saved
  /\ names.config # NoFile => content[names.config].whole /\ names.tmp # names.config
  /\ \A p, q \in Procs : cstep[p] # "idle" /\ cstep[q] # "idle" => p = q
  /\ \A p \in Procs : Knows(p)

ConfigInv == ConfigTyped /\ (~overlapped => OneEdit)

\* Two writers at once are racing, and so are a writer and the owner of a file of
\* its number; what a writer has still to write, it has not written.
Suffixes(s) == {s[i] : i \in 1 .. Len(s)}
ArtifactsInv ==
  /\ DOMAIN index = Procs /\ DOMAIN left = Procs
  /\ \A p \in Procs : left[p] \in {<<>>, Bundle, Export, Tail(Export), Tail(Tail(Export))}
  /\ \A f \in files : f.index \in 1 .. MaxIndex /\ f.owner \in Procs
  /\ \A p, q \in Procs : p # q /\ left[p] # <<>> /\ left[q] # <<>> => {p, q} \in racing
  /\ \A p \in Procs : left[p] # <<>> =>
       /\ index[p] \in 1 .. MaxIndex
       /\ \A f \in files : f.index = index[p] =>
            IF f.owner = p THEN f.suffix \notin Suffixes(left[p]) ELSE {f.owner, p} \in racing
  /\ ArtifactsKept

----
(* What a step may be to each of the files.                                 *)
----

DatabaseNext ==
  \/ \E p \in Procs :
       \/ OpenDatabase(p) \/ Migrated(p) \/ CommitRow(p) \/ CloseDatabase(p)
       \/ BackUpActive(p) \/ CopyBackup(p) \/ MoveLog(p) \/ MoveIndex(p) \/ ReplaceDatabase(p) \/ KillConnection(p)
       \/ \E v \in Versions : Migrate(p, v) \/ MigrationFails(p, v)
  \/ UNCHANGED database

ConfigNext ==
  \/ \E p \in Procs : EditStep(p) \/ KillEdit(p) \/ \E e \in Edits : BeginEdit(p, e)
  \/ UNCHANGED config

ArtifactsNext ==
  \/ \E p \in Procs : WriteArtifact(p) \/ KillWriter(p) \/ TakeIndex(p, Bundle) \/ TakeIndex(p, Export)
  \/ Archive
  \/ UNCHANGED artifacts

LEMMA StepsOnFiles == [Next]_vars => DatabaseNext /\ ConfigNext /\ ArtifactsNext
<1> SUFFICES ASSUME [Next]_vars PROVE DatabaseNext /\ ConfigNext /\ ArtifactsNext
  OBVIOUS
<1>1. ASSUME NEW p \in Procs, Configure(p) PROVE DatabaseNext /\ ConfigNext /\ ArtifactsNext
  BY <1>1 DEF Configure, OnlyConfig, DatabaseNext, ConfigNext, ArtifactsNext
<1>2. ASSUME NEW p \in Procs, BuildRuntime(p) PROVE DatabaseNext /\ ConfigNext /\ ArtifactsNext
  BY <1>2 DEF BuildRuntime, OnlyDatabase, DatabaseNext, ConfigNext, ArtifactsNext
<1>3. ASSUME NEW p \in Procs, HandleRun(p) PROVE DatabaseNext /\ ConfigNext /\ ArtifactsNext
  BY <1>3 DEF HandleRun, OnlyDatabase, OnlyArtifacts, DatabaseNext, ConfigNext, ArtifactsNext
<1>4. ASSUME NEW p \in Procs, HandleExport(p) \/ WriteFiles(p) PROVE DatabaseNext /\ ConfigNext /\ ArtifactsNext
  BY <1>4 DEF HandleExport, WriteFiles, OnlyDatabase, OnlyArtifacts, DatabaseNext, ConfigNext, ArtifactsNext
<1>5. ASSUME NEW p \in Procs, HandleRestore(p) PROVE DatabaseNext /\ ConfigNext /\ ArtifactsNext
  BY <1>5 DEF HandleRestore, OnlyDatabase, DatabaseNext, ConfigNext, ArtifactsNext
<1>6. ASSUME NEW p \in Procs, Kill(p) PROVE DatabaseNext /\ ConfigNext /\ ArtifactsNext
  BY <1>6 DEF Kill, DatabaseNext, ConfigNext, ArtifactsNext
<1>7. CASE UserArchives
  BY <1>7 DEF UserArchives, DatabaseNext, ConfigNext, ArtifactsNext
<1>8. CASE UNCHANGED vars
  BY <1>8 DEF vars, DatabaseNext, ConfigNext, ArtifactsNext
<1>9. QED
  BY <1>1, <1>2, <1>3, <1>4, <1>5, <1>6, <1>7, <1>8 DEF Next

----
(* The database.                                                            *)
----

LEMMA RowsKeepOrder ==
  ASSUME NEW S, InOrder(S), NEW p PROVE InOrder(S \cup {RowOf(p)}) /\ Applied(S) \subseteq Applied(S \cup {RowOf(p)})
<1>1. RowOf(p).kind # "migration"
  BY DEF RowOf
<1>2. Applied(S \cup {RowOf(p)}) = Applied(S)
  BY <1>1 DEF Applied
<1>3. QED
  BY <1>1, <1>2 DEF InOrder

\* The next migration a process does not know, which nobody else has applied.
LEMMA MigrationKeepsOrder ==
  ASSUME NEW S, InOrder(S), NEW p, NEW v \in Nat, v \notin Applied(S), 1 .. (v - 1) \subseteq Applied(S)
  PROVE  InOrder(S \cup {Migration(v, p)}) /\ Applied(S \cup {Migration(v, p)}) = Applied(S) \cup {v}
<1> DEFINE m == Migration(v, p)
<1>1. m.kind = "migration" /\ m.version = v
  BY DEF Migration
<1> HIDE DEF m
<1>2. Applied(S \cup {m}) = Applied(S) \cup {v}
  BY <1>1 DEF Applied
<1>3. ASSUME NEW c \in S, c.kind = "migration" PROVE c.version # v
  BY <1>3 DEF Applied
<1>4. \A c, d \in S \cup {m} :
        c.kind = "migration" /\ d.kind = "migration" /\ c.version = d.version => c = d
  BY <1>1, <1>3 DEF InOrder
<1>5. \A w \in Applied(S \cup {m}) : 1 .. w \subseteq Applied(S \cup {m})
  <2>1. 1 .. v \subseteq (1 .. (v - 1)) \cup {v}
    OBVIOUS
  <2>2. QED
    BY <1>2, <2>1 DEF InOrder
<1>6. QED
  BY <1>2, <1>4, <1>5 DEF InOrder, m

\* Steps that leave file and log alone.
LEMMA ConnectionStep ==
  ASSUME FilesInv, NEW p \in Procs,
         Migrated(p) \/ CopyBackup(p) \/ MoveIndex(p) \/ KillConnection(p)
  PROVE  FilesInv'
<1>1. UNCHANGED <<main, wal, safety, stored>> /\ Content' = Content
  BY DEF Migrated, CopyBackup, MoveIndex, KillConnection, Content
<1>2. /\ dstep' = [dstep EXCEPT ![p] = dstep'[p]]
      /\ dstep'[p] \in {"ready", "move", "replace", "idle"}
      /\ dstep'[p] = "replace" => dstep[p] = "index" /\ temporary' = temporary
      /\ dstep'[p] = "move" => dstep[p] = "copy" /\ temporary' = [temporary EXCEPT ![p] = Backup]
      /\ DOMAIN temporary' = Procs /\ DOMAIN seen' = Procs /\ DOMAIN conn' = Procs
      /\ \A q \in Procs : conn'[q] = "open" => conn[q] = "open" /\ seen'[q] = seen[q]
      /\ \A q \in Procs \ {p} : temporary'[q] = temporary[q] /\ dstep'[q] = dstep[q]
  BY DEF Migrated, CopyBackup, MoveIndex, KillConnection, Leave, DStep, FilesInv
<1>3. Restoring' \subseteq Restoring
  <2>1. dstep'[p] \in Restores => dstep[p] \in Restores
    <3>1. CASE dstep'[p] = "move"
      BY <1>2, <3>1 DEF Restores
    <3>2. CASE dstep'[p] = "replace"
      BY <1>2, <3>2 DEF Restores
    <3>3. CASE dstep'[p] \in {"ready", "idle"}
      BY <3>3 DEF Restores
    <3>4. QED
      BY <1>2, <3>1, <3>2, <3>3
  <2>2. QED
    BY <1>2, <2>1 DEF Restoring
<1>4. mixed' \in BOOLEAN /\ (mixed => mixed') /\ (mixed' /\ ~mixed => p \in Restoring)
  <2>1. CASE mixed' = mixed
    BY <2>1 DEF FilesInv
  <2>2. CASE KillConnection(p)
    <3>1. mixed' = (mixed \/ (dstep[p] = "index" /\ \E q \in Procs : conn[q] = "stale"))
      BY <2>2 DEF KillConnection
    <3>2. dstep[p] = "index" => p \in Restoring
      BY DEF Restoring, Restores
    <3>3. QED
      BY <3>1, <3>2
  <2>3. QED
    BY <2>1, <2>2 DEF Migrated, CopyBackup, MoveIndex
<1>5. NothingLost'
  BY <1>1, <1>4 DEF FilesInv, NothingLost
<1>6. DOMAIN dstep' = Procs /\ \A q \in Procs : dstep'[q] \in {"move", "index", "replace"} => temporary'[q] = Backup
  <2>1. DOMAIN dstep' = Procs
    BY <1>2 DEF FilesInv
  <2>2. ASSUME NEW q \in Procs \ {p}, dstep'[q] \in {"move", "index", "replace"} PROVE temporary'[q] = Backup
    BY <1>2, <2>2 DEF FilesInv
  <2>3. ASSUME dstep'[p] \in {"move", "index", "replace"} PROVE temporary'[p] = Backup
    <3>1. CASE dstep'[p] = "move"
      BY <1>2, <3>1 DEF FilesInv
    <3>2. CASE dstep'[p] = "replace"
      BY <1>2, <3>2 DEF FilesInv
    <3>3. QED
      BY <1>2, <2>3, <3>1, <3>2
  <2>4. QED
    BY <2>1, <2>2, <2>3
<1>7. ~mixed => /\ InOrder(main) /\ InOrder(Content)
                /\ \A q \in Procs : dstep'[q] \in {"index", "replace"} => ~wal.there
                /\ \A q \in Procs : conn'[q] = "open" => wal.there /\ seen'[q] \subseteq Applied(Content)
  BY <1>2 DEF FilesInv
<1>8. QED
  BY <1>1, <1>2, <1>3, <1>4, <1>5, <1>6, <1>7 DEF FilesInv

LEMMA OpenStep ==
  ASSUME FilesInv, NEW p \in Procs, OpenDatabase(p) PROVE FilesInv'
<1>1. /\ main' = main /\ safety' = safety /\ stored' = stored /\ temporary' = temporary
      /\ wal'.there = TRUE /\ wal'.commits = wal.commits /\ wal' = [there |-> wal'.there, commits |-> wal'.commits]
      /\ mixed' = (mixed \/ \E q \in Procs : dstep[q] \in {"index", "replace"})
  BY DEF OpenDatabase, FilesInv, Log
<1>2. Content' = Content
  BY <1>1 DEF Content
<1>3. /\ conn' = [conn EXCEPT ![p] = "open"] /\ seen' = [seen EXCEPT ![p] = Applied(Content)]
      /\ dstep' = [dstep EXCEPT ![p] = "migrate"] /\ dstep[p] = "idle"
      /\ DOMAIN conn = Procs /\ DOMAIN seen = Procs /\ DOMAIN dstep = Procs
  BY DEF OpenDatabase, DStep, FilesInv
<1>4. Restoring' = Restoring
  BY <1>3 DEF Restoring, Restores
<1>5. ~mixed' => /\ InOrder(main') /\ InOrder(Content')
                 /\ \A q \in Procs : dstep'[q] \in {"index", "replace"} => ~wal'.there
                 /\ \A q \in Procs : conn'[q] = "open" => wal'.there /\ seen'[q] \subseteq Applied(Content')
  BY <1>1, <1>2, <1>3 DEF FilesInv
<1>6. NothingLost'
  BY <1>1, <1>2 DEF FilesInv, NothingLost, Restoring, Restores
<1>7. \A q \in Procs : dstep'[q] \in {"move", "index", "replace"} => temporary'[q] = Backup
  BY <1>1, <1>3 DEF FilesInv
<1>8. mixed' \in BOOLEAN
  BY <1>1 DEF FilesInv
<1>9. DOMAIN conn' = Procs /\ DOMAIN seen' = Procs /\ DOMAIN dstep' = Procs /\ DOMAIN temporary' = Procs
  BY <1>1, <1>3 DEF FilesInv
<1>10. QED
  BY <1>1, <1>4, <1>5, <1>6, <1>7, <1>8, <1>9 DEF FilesInv

\* A commit goes into the log of the present database.
LEMMA CommitStep ==
  ASSUME FilesInv, NEW p \in Procs, NEW commit, conn[p] = "open" \/ mixed,
         wal' = Log(wal.commits \cup {commit}), UNCHANGED <<main, conn, dstep, temporary, safety, mixed>>,
         DOMAIN seen' = Procs, \A q \in Procs \ {p} : seen'[q] = seen[q],
         stored' \subseteq stored \cup {commit}, mixed \/ Restoring # {} => stored' = stored,
         ~mixed => /\ InOrder(Content \cup {commit})
                   /\ Applied(Content) \subseteq Applied(Content \cup {commit})
                   /\ seen'[p] \subseteq Applied(Content \cup {commit})
  PROVE  FilesInv'
<1>1. wal'.there = TRUE /\ wal'.commits = wal.commits \cup {commit}
      /\ wal' = [there |-> wal'.there, commits |-> wal'.commits]
  BY DEF Log
<1>2. Content' = Content \cup {commit}
  BY <1>1 DEF Content
<1>3. Restoring' = Restoring
  BY DEF Restoring
<1>4. NothingLost'
  BY <1>2 DEF NothingLost, FilesInv
<1>5. ~mixed => /\ InOrder(main) /\ InOrder(Content')
                /\ \A q \in Procs : dstep[q] = "replace" => ~wal'.there
                /\ \A q \in Procs : conn[q] = "open" => wal'.there /\ seen'[q] \subseteq Applied(Content')
  BY <1>1, <1>2 DEF FilesInv
<1>6. Restoring' # {} => stored' \subseteq safety'
  BY <1>3 DEF FilesInv
<1>7. QED
  BY <1>1, <1>4, <1>5, <1>6 DEF FilesInv

\* A commit goes into a log that was moved away.
LEMMA StaleStep ==
  ASSUME FilesInv, NEW p \in Procs, conn[p] = "stale", safety \subseteq safety',
         UNCHANGED <<main, wal, conn, dstep, temporary, stored, mixed>>,
         DOMAIN seen' = Procs, \A q \in Procs \ {p} : seen'[q] = seen[q]
  PROVE  FilesInv'
<1>1. Content' = Content /\ Restoring' = Restoring
  BY DEF Content, Restoring
<1>2. NothingLost'
  BY <1>1 DEF FilesInv, NothingLost
<1>3. \A q \in Procs : conn'[q] = "open" => conn[q] = "open" /\ seen'[q] = seen[q]
  OBVIOUS
<1>4. QED
  BY <1>1, <1>2, <1>3 DEF FilesInv

LEMMA MigrateStep ==
  ASSUME CommandLineAssumption, FilesInv, NEW p \in Procs, NEW v \in Versions, Migrate(p, v) PROVE FilesInv'
<1> DEFINE m == Migration(v, p)
<1>1. v \notin seen[p] /\ (\A w \in Versions \ seen[p] : v =< w)
  BY DEF Migrate, IsNext, Pending
<1>2. conn[p] = "open" => v \notin Applied(Content)
  BY DEF Migrate, FailsOn
<1>3. v \in Nat /\ 1 .. (v - 1) \subseteq seen[p]
  <2>1. PICK n \in Nat : Versions = 1 .. n
    BY FS_CardinalityType DEF CommandLineAssumption
  <2>2. \A w \in 1 .. (v - 1) : w \in Versions /\ ~(v =< w)
    BY <2>1
  <2>3. QED
    BY <1>1, <2>1, <2>2
<1>4. ~mixed /\ conn[p] = "open" => InOrder(Content) /\ seen[p] \subseteq Applied(Content)
  BY DEF FilesInv
<1>5. ~mixed /\ conn[p] = "open" =>
        InOrder(Content \cup {m}) /\ Applied(Content \cup {m}) = Applied(Content) \cup {v}
  BY <1>2, <1>3, <1>4, MigrationKeepsOrder
<1>6. /\ UNCHANGED <<main, conn, dstep, temporary, mixed, stored>>
      /\ DOMAIN seen' = Procs /\ (\A q \in Procs \ {p} : seen'[q] = seen[q]) /\ seen'[p] = seen[p] \cup {v}
  BY DEF Migrate, FilesInv
<1>7. \/ (conn[p] = "open" \/ mixed) /\ wal' = Log(wal.commits \cup {m}) /\ UNCHANGED safety
      \/ conn[p] = "stale" /\ safety \subseteq safety' /\ UNCHANGED wal
  BY DEF Migrate, Committed
<1> HIDE DEF m
<1>8. CASE conn[p] = "stale" /\ safety \subseteq safety' /\ UNCHANGED wal
  BY <1>6, <1>8, StaleStep
<1>9. CASE (conn[p] = "open" \/ mixed) /\ wal' = Log(wal.commits \cup {m}) /\ UNCHANGED safety
  BY <1>4, <1>5, <1>6, <1>9, CommitStep
<1>10. QED
  BY <1>7, <1>8, <1>9

LEMMA RowStep ==
  ASSUME FilesInv, NEW p \in Procs, CommitRow(p) PROVE FilesInv'
<1> DEFINE r == RowOf(p)
<1>1. ~mixed /\ conn[p] = "open" => InOrder(Content) /\ seen[p] \subseteq Applied(Content)
  BY DEF FilesInv
<1>2. ~mixed /\ conn[p] = "open" =>
        InOrder(Content \cup {r}) /\ Applied(Content) \subseteq Applied(Content \cup {r})
  BY <1>1, RowsKeepOrder
<1>3. /\ UNCHANGED <<main, conn, dstep, temporary, mixed, seen>>
      /\ stored' \subseteq stored \cup {r} /\ (mixed \/ Restoring # {} => stored' = stored)
      /\ conn[p] # "open" => stored' = stored
  BY DEF CommitRow, Restoring
<1>4. DOMAIN seen' = Procs /\ (\A q \in Procs \ {p} : seen'[q] = seen[q]) /\ seen'[p] = seen[p]
  BY <1>3 DEF FilesInv
<1>5. \/ (conn[p] = "open" \/ mixed) /\ wal' = Log(wal.commits \cup {r}) /\ UNCHANGED safety
      \/ conn[p] = "stale" /\ safety \subseteq safety' /\ UNCHANGED wal
  BY DEF CommitRow, Committed
<1> HIDE DEF r
<1>6. CASE conn[p] = "stale" /\ safety \subseteq safety' /\ UNCHANGED wal
  BY <1>3, <1>4, <1>6, StaleStep
<1>7. CASE (conn[p] = "open" \/ mixed) /\ wal' = Log(wal.commits \cup {r}) /\ UNCHANGED safety
  BY <1>1, <1>2, <1>3, <1>4, <1>7, CommitStep
<1>8. QED
  BY <1>5, <1>6, <1>7

\* The last connection to close takes the log into the file.
LEMMA CloseStep ==
  ASSUME FilesInv, NEW p \in Procs, Leave(p), CloseFiles(p), UNCHANGED <<safety, stored, mixed>> PROVE FilesInv'
<1>1. /\ dstep' = [dstep EXCEPT ![p] = "idle"] /\ seen' = [seen EXCEPT ![p] = {}]
      /\ temporary' = [temporary EXCEPT ![p] = {}] /\ conn' = [conn EXCEPT ![p] = "none"]
      /\ DOMAIN conn = Procs /\ DOMAIN seen = Procs /\ DOMAIN dstep = Procs /\ DOMAIN temporary = Procs
  BY DEF Leave, CloseFiles, DStep, FilesInv
<1>2. Restoring' \subseteq Restoring
  BY <1>1 DEF Restoring, Restores
<1>3. \/ main' = main /\ wal' = wal
      \/ main' = Content /\ wal' = NoLog /\ \A q \in Procs : conn'[q] # "open"
  BY <1>1 DEF CloseFiles, Alone
<1>4. Content' = Content
  BY <1>3 DEF Content, NoLog
<1>5. /\ wal' = [there |-> wal'.there, commits |-> wal'.commits] /\ wal'.there \in BOOLEAN
      /\ (~wal'.there => wal'.commits = {})
  <2>1. CASE wal' = wal
    <3>1. wal = [there |-> wal.there, commits |-> wal.commits] /\ wal.there \in BOOLEAN
          /\ (~wal.there => wal.commits = {})
      BY DEF FilesInv
    <3>2. QED
      BY <2>1, <3>1
  <2>2. CASE wal' = NoLog
    BY <2>2 DEF NoLog
  <2>3. QED
    BY <1>3, <2>1, <2>2
<1>6. ~mixed => /\ InOrder(main') /\ InOrder(Content')
                /\ \A q \in Procs : dstep'[q] \in {"index", "replace"} => ~wal'.there
                /\ \A q \in Procs : conn'[q] = "open" => wal'.there /\ seen'[q] \subseteq Applied(Content')
  <2>1. CASE main' = main /\ wal' = wal
    BY <1>1, <1>4, <2>1 DEF FilesInv
  <2>2. CASE main' = Content /\ wal' = NoLog /\ \A q \in Procs : conn'[q] # "open"
    BY <1>1, <1>4, <2>2 DEF FilesInv, NoLog
  <2>3. QED
    BY <1>3, <2>1, <2>2
<1>7. NothingLost'
  BY <1>4 DEF FilesInv, NothingLost
<1>8. \A q \in Procs : dstep'[q] \in {"move", "index", "replace"} => temporary'[q] = Backup
  BY <1>1 DEF FilesInv
<1>9. QED
  BY <1>1, <1>2, <1>5, <1>6, <1>7, <1>8 DEF FilesInv

\* The safety backup takes what the database holds.
LEMMA BackUpStep ==
  ASSUME FilesInv, NEW p \in Procs, BackUpActive(p) PROVE FilesInv'
<1>1. /\ dstep' = [dstep EXCEPT ![p] = "copy"] /\ conn[p] = "none" /\ safety' = safety \cup Content
      /\ UNCHANGED <<conn, seen, temporary, stored, mixed>>
  BY DEF BackUpActive, DStep, Snapshot
<1>2. \/ main' = main /\ wal' = wal
      \/ main' = Content /\ wal' = NoLog /\ \A q \in Procs : conn[q] # "open"
  BY <1>1 DEF BackUpActive, Alone
<1>3. Content' = Content
  BY <1>2 DEF Content, NoLog
<1>4. /\ wal' = [there |-> wal'.there, commits |-> wal'.commits] /\ wal'.there \in BOOLEAN
      /\ (~wal'.there => wal'.commits = {})
  <2>1. CASE wal' = wal
    <3>1. wal = [there |-> wal.there, commits |-> wal.commits] /\ wal.there \in BOOLEAN
          /\ (~wal.there => wal.commits = {})
      BY DEF FilesInv
    <3>2. QED
      BY <2>1, <3>1
  <2>2. CASE wal' = NoLog
    BY <2>2 DEF NoLog
  <2>3. QED
    BY <1>2, <2>1, <2>2
<1>5. ~mixed => /\ InOrder(main') /\ InOrder(Content')
                /\ \A q \in Procs : dstep'[q] \in {"index", "replace"} => ~wal'.there
                /\ \A q \in Procs : conn'[q] = "open" => wal'.there /\ seen'[q] \subseteq Applied(Content')
  <2>1. CASE main' = main /\ wal' = wal
    BY <1>1, <1>3, <2>1 DEF FilesInv
  <2>2. CASE main' = Content /\ wal' = NoLog /\ \A q \in Procs : conn[q] # "open"
    BY <1>1, <1>3, <2>2 DEF FilesInv, NoLog
  <2>3. QED
    BY <1>2, <2>1, <2>2
<1>6. stored' \subseteq safety'
  BY <1>1 DEF FilesInv, NothingLost
<1>7. NothingLost'
  BY <1>6 DEF NothingLost
<1>8. DOMAIN dstep' = Procs /\ \A q \in Procs : dstep'[q] \in {"move", "index", "replace"} => temporary'[q] = Backup
  BY <1>1 DEF FilesInv
<1>9. QED
  BY <1>1, <1>4, <1>5, <1>6, <1>7, <1>8 DEF FilesInv

\* The log is gone, and with it every connection.
LEMMA MoveLogStep ==
  ASSUME FilesInv, NEW p \in Procs, MoveLog(p) PROVE FilesInv'
<1>1. /\ dstep' = [dstep EXCEPT ![p] = "index"] /\ dstep[p] = "move" /\ UNCHANGED <<main, seen, temporary, stored, mixed>>
      /\ DOMAIN dstep = Procs
  BY DEF MoveLog, DStep, FilesInv
<1>2. wal' = NoLog /\ safety \subseteq safety'
  BY DEF MoveLog, FilesInv, NoLog
<1>3. DOMAIN conn' = Procs /\ (~mixed => \A q \in Procs : conn'[q] # "open")
  <2>1. CASE wal.there
    BY <2>1 DEF MoveLog, Detach, FilesInv
  <2>2. CASE ~wal.there
    BY <2>2 DEF MoveLog, FilesInv
  <2>3. QED
    BY <2>1, <2>2
<1>4. p \in Restoring
  BY <1>1 DEF Restoring, Restores
<1>5. stored' \subseteq safety'
  BY <1>1, <1>2, <1>4 DEF FilesInv
<1>6. Content' = main
  BY <1>1, <1>2 DEF Content, NoLog
<1>7. ~mixed => InOrder(main') /\ InOrder(Content')
  BY <1>1, <1>6 DEF FilesInv
<1>8. wal' = [there |-> wal'.there, commits |-> wal'.commits] /\ ~wal'.there /\ wal'.there \in BOOLEAN /\ wal'.commits = {}
  BY <1>2 DEF NoLog
<1>9. DOMAIN dstep' = Procs /\ \A q \in Procs : dstep'[q] \in {"move", "index", "replace"} => temporary'[q] = Backup
  BY <1>1 DEF FilesInv
<1>10. NothingLost'
  BY <1>5 DEF NothingLost
<1>11. QED
  BY <1>1, <1>3, <1>5, <1>7, <1>8, <1>9, <1>10 DEF FilesInv

\* The backup is in place; unless a log was begun before, nothing else is.
LEMMA ReplaceStep ==
  ASSUME CommandLineAssumption, FilesInv, NEW p \in Procs, ReplaceDatabase(p) PROVE FilesInv'
<1>1. /\ dstep[p] = "replace" /\ main' = temporary[p] /\ UNCHANGED <<wal, safety, stored, mixed>>
      /\ conn' = [q \in Procs |-> IF conn[q] = "open" THEN "stale" ELSE conn[q]]
      /\ dstep' = [dstep EXCEPT ![p] = "idle"] /\ seen' = [seen EXCEPT ![p] = {}]
      /\ temporary' = [temporary EXCEPT ![p] = {}]
      /\ DOMAIN dstep = Procs /\ DOMAIN seen = Procs /\ DOMAIN temporary = Procs
  BY DEF ReplaceDatabase, Detach, Leave, DStep, FilesInv
<1>2. main' = Backup /\ p \in Restoring
  BY <1>1 DEF FilesInv, Restoring, Restores
<1>3. stored' \subseteq safety'
  BY <1>1, <1>2 DEF FilesInv
<1>4. ~mixed => Content' = Backup
  BY <1>1, <1>2 DEF FilesInv, Content
<1>5. \A q \in Procs : conn'[q] # "open"
  BY <1>1
<1>6. ~mixed => /\ InOrder(main') /\ InOrder(Content')
                /\ \A q \in Procs : dstep'[q] \in {"index", "replace"} => ~wal'.there
  BY <1>1, <1>2, <1>4 DEF FilesInv, CommandLineAssumption
<1>7. DOMAIN conn' = Procs /\ \A q \in Procs : dstep'[q] \in {"move", "index", "replace"} => temporary'[q] = Backup
  BY <1>1 DEF FilesInv
<1>8. NothingLost'
  BY <1>3 DEF NothingLost
<1>9. QED
  BY <1>1, <1>3, <1>5, <1>6, <1>7, <1>8 DEF FilesInv

LEMMA FilesInductive ==
  ASSUME CommandLineAssumption, FilesInv, DatabaseNext PROVE FilesInv'
<1>1. ASSUME NEW p \in Procs, OpenDatabase(p) PROVE FilesInv'
  BY <1>1, OpenStep
<1>2. ASSUME NEW p \in Procs, Migrated(p) \/ CopyBackup(p) \/ MoveIndex(p) \/ KillConnection(p) PROVE FilesInv'
  BY <1>2, ConnectionStep
<1>3. ASSUME NEW p \in Procs, CommitRow(p) PROVE FilesInv'
  BY <1>3, RowStep
<1>4. ASSUME NEW p \in Procs, CloseDatabase(p) PROVE FilesInv'
  BY <1>4, CloseStep DEF CloseDatabase
<1>5. ASSUME NEW p \in Procs, BackUpActive(p) PROVE FilesInv'
  BY <1>5, BackUpStep
<1>6. ASSUME NEW p \in Procs, MoveLog(p) PROVE FilesInv'
  BY <1>6, MoveLogStep
<1>7. ASSUME NEW p \in Procs, ReplaceDatabase(p) PROVE FilesInv'
  BY <1>7, ReplaceStep
<1>8. ASSUME NEW p \in Procs, NEW v \in Versions, Migrate(p, v) PROVE FilesInv'
  BY <1>8, MigrateStep
<1>9. ASSUME NEW p \in Procs, NEW v \in Versions, MigrationFails(p, v) PROVE FilesInv'
  BY <1>9, CloseStep DEF MigrationFails
<1>10. ASSUME UNCHANGED database PROVE FilesInv'
  BY <1>10 DEF database, FilesInv, NothingLost, Restoring, Content
<1>11. QED
  BY <1>1, <1>2, <1>3, <1>4, <1>5, <1>6, <1>7, <1>8, <1>9, <1>10 DEF DatabaseNext

LEMMA FilesAtStart == Init => FilesInv
<1> SUFFICES ASSUME Init PROVE FilesInv
  OBVIOUS
<1>1. main = {} /\ wal = NoLog /\ stored = {} /\ mixed = FALSE
      /\ conn = [p \in Procs |-> "none"] /\ dstep = [p \in Procs |-> "idle"]
      /\ seen = [p \in Procs |-> {}] /\ temporary = [p \in Procs |-> {}]
  BY DEF Init, DatabaseInit
<1>2. Content = {}
  BY <1>1 DEF Content, NoLog
<1>3. InOrder({})
  BY DEF InOrder, Applied
<1>4. QED
  BY <1>1, <1>2, <1>3 DEF FilesInv, NothingLost, Restoring, Restores, NoLog

LEMMA FilesAlways == Spec => []FilesInv
<1>1. FilesInv /\ [Next]_vars => FilesInv'
  BY StepsOnFiles, FilesInductive, CommandLineAssumption
<1>2. QED
  BY <1>1, FilesAtStart, PTL DEF Spec

\* Whoever opens, migrates, restores or is killed, each migration is applied once and
\* after the earlier ones.
THEOREM MigratesInOrder == Spec => []MigratedInOrder
<1>1. FilesInv => MigratedInOrder
  BY DEF FilesInv, MigratedInOrder
<1>2. QED
  BY <1>1, FilesAlways, PTL

\* Every row acknowledged on the present database while no restore was under way stays in
\* the active database or in a safety backup, whatever processes with a moved log commit.
THEOREM KeepsEveryRow == Spec => []NothingLost
<1>1. FilesInv => NothingLost
  BY DEF FilesInv
<1>2. QED
  BY <1>1, FilesAlways, PTL

----
(* The configuration.                                                       *)
----

\* A name is either in use by the directory or by a process: there is a free inode.
LEMMA InodesSuffice ==
  ASSUME CommandLineAssumption, ConfigTyped
  PROVE  NewInode \in Inodes \ Referenced
<1> DEFINE open == {fd[p] : p \in Procs}
           f == [p \in Procs |-> fd[p]]
           named == {names.config, names.tmp}
           n == Cardinality(Procs)
<1>1. IsFiniteSet(Procs) /\ n \in Nat
  BY FS_CardinalityType DEF CommandLineAssumption
<1>2. f \in Surjection(Procs, open)
  BY DEF Surjection
<1> HIDE DEF f
<1>3. IsFiniteSet(open) /\ Cardinality(open) =< n
  BY <1>1, <1>2, FS_Surjection
<1>4. Cardinality(open) \in Nat
  BY <1>3, FS_CardinalityType
<1>5. IsFiniteSet({names.config}) /\ Cardinality({names.config}) = 1
  BY FS_Singleton
<1>6. IsFiniteSet({names.config} \cup {names.tmp}) /\ Cardinality({names.config} \cup {names.tmp}) =< 2
  <2> DEFINE one == {names.config}
  <2> HIDE DEF one
  <2>1. IsFiniteSet(one) /\ Cardinality(one) = 1
    BY <1>5 DEF one
  <2>2. /\ IsFiniteSet(one \cup {names.tmp})
        /\ Cardinality(one \cup {names.tmp}) = IF names.tmp \in one THEN Cardinality(one) ELSE Cardinality(one) + 1
    BY <2>1, FS_AddElement
  <2>3. QED
    BY <2>1, <2>2 DEF one
<1>7. named = {names.config} \cup {names.tmp}
  OBVIOUS
<1>8. IsFiniteSet(named) /\ Cardinality(named) \in Nat /\ Cardinality(named) =< 2
  BY <1>6, <1>7, FS_CardinalityType
<1> HIDE DEF open, named
<1>9. /\ IsFiniteSet(named \cup open)
      /\ Cardinality(named \cup open) = Cardinality(named) + Cardinality(open) - Cardinality(named \cap open)
  BY <1>3, <1>8, FS_Union
<1>10. Cardinality(named \cap open) \in Nat
  <2>1. IsFiniteSet(named \cap open)
    BY <1>8, FS_Subset
  <2>2. QED
    BY <2>1, FS_CardinalityType
<1>11. Cardinality(named \cup open) =< n + 2
  BY <1>1, <1>3, <1>4, <1>8, <1>9, <1>10
<1>12. IsFiniteSet(Inodes) /\ Cardinality(Inodes) = n + 3
  <2>1. 0 \in Int /\ n + 2 \in Int
    BY <1>1
  <2>2. IsFiniteSet(0 .. (n + 2)) /\ Cardinality(0 .. (n + 2)) = IF 0 > n + 2 THEN 0 ELSE (n + 2) - 0 + 1
    BY <2>1, FS_Interval
  <2>3. QED
    BY <1>1, <2>2 DEF Inodes
<1>13. ~(Inodes \subseteq named \cup open)
  <2> SUFFICES ASSUME Inodes \subseteq named \cup open PROVE FALSE
    OBVIOUS
  <2>1. Cardinality(Inodes) =< Cardinality(named \cup open)
    BY <1>9, FS_Subset
  <2>2. Cardinality(named \cup open) \in Nat
    BY <1>9, FS_CardinalityType
  <2>3. QED
    BY <1>1, <1>11, <1>12, <2>1, <2>2
<1>14. \E i \in Inodes : i \notin Referenced
  BY <1>13 DEF Referenced, open, named
<1>15. QED
  BY <1>14 DEF NewInode

LEMMA BeginStep ==
  ASSUME ConfigInv, NEW p \in Procs, NEW e \in Edits, BeginEdit(p, e) PROVE ConfigInv'
<1>1. /\ cstep[p] = "idle" /\ edit' = [edit EXCEPT ![p] = e] /\ store' = [store EXCEPT ![p] = LoadConfig[e.name]]
      /\ overlapped' = (overlapped \/ \E q \in Procs : cstep[q] # "idle")
      /\ cstep' = [cstep EXCEPT ![p] = "load"] /\ UNCHANGED <<names, content, read, fd, saved>>
  BY DEF BeginEdit, CStep
<1>2. ConfigTyped'
  BY <1>1 DEF ConfigInv, ConfigTyped
<1>3. ASSUME ~overlapped' PROVE OneEdit'
  <2>1. OneEdit /\ \A q \in Procs : cstep[q] = "idle"
    BY <1>1, <1>3 DEF ConfigInv, ConfigTyped
  <2>2. LoadConfig' = LoadConfig
    BY <1>1 DEF LoadConfig
  <2>3. ASSUME NEW q \in Procs PROVE Knows(q)'
    BY <1>1, <2>1 DEF OneEdit, Knows, ConfigInv, ConfigTyped
  <2>4. \A q, r \in Procs : cstep'[q] # "idle" /\ cstep'[r] # "idle" => q = r
    BY <1>1, <2>1 DEF ConfigInv, ConfigTyped
  <2>5. QED
    BY <1>1, <2>1, <2>2, <2>3, <2>4 DEF OneEdit
<1>4. QED
  BY <1>2, <1>3 DEF ConfigInv

LEMMA LoadStep ==
  ASSUME ConfigInv, NEW p \in Procs, Load(p) PROVE ConfigInv'
<1>1. /\ cstep[p] = "load" /\ read' = [read EXCEPT ![p] = LoadConfig] /\ cstep' = [cstep EXCEPT ![p] = "open"]
      /\ UNCHANGED <<names, content, edit, store, fd, saved, overlapped>>
  BY DEF Load, CStep
<1>2. ConfigTyped'
  BY <1>1 DEF ConfigInv, ConfigTyped
<1>3. ASSUME ~overlapped PROVE OneEdit'
  <2>1. OneEdit
    BY <1>3 DEF ConfigInv
  <2>2. LoadConfig' = LoadConfig
    BY <1>1 DEF LoadConfig
  <2>3. ASSUME NEW q \in Procs PROVE Knows(q)'
    BY <1>1, <2>1 DEF OneEdit, Knows, ConfigInv, ConfigTyped
  <2>4. \A q, r \in Procs : cstep'[q] # "idle" /\ cstep'[r] # "idle" => q = r
    BY <1>1, <2>1 DEF ConfigInv, ConfigTyped, OneEdit
  <2>5. QED
    BY <1>1, <2>1, <2>2, <2>3, <2>4 DEF OneEdit
<1>4. QED
  BY <1>1, <1>2, <1>3 DEF ConfigInv

\* The temporary file is not the configuration, be it new or left by a killed command.
LEMMA OpenFileStep ==
  ASSUME CommandLineAssumption, ConfigInv, NEW p \in Procs, Open(p) PROVE ConfigInv'
<1> DEFINE i == IF names.tmp = NoFile THEN NewInode ELSE names.tmp
<1>1. NewInode \in Inodes \ Referenced
  BY InodesSuffice DEF ConfigInv
<1>2. NoFile \notin Inodes
  <2>1. Cardinality(Procs) \in Nat
    BY FS_CardinalityType DEF CommandLineAssumption
  <2>2. QED
    BY <2>1 DEF Inodes, NoFile
<1>3. i \in Inodes /\ i # NoFile
  BY <1>1, <1>2 DEF ConfigInv, ConfigTyped
<1>4. names.tmp # names.config \/ names.config = NoFile => i # names.config
  BY <1>1, <1>3 DEF Referenced
<1>5. /\ cstep[p] = "open" /\ names' = [names EXCEPT !.tmp = i] /\ content' = [content EXCEPT ![i] = Broken]
      /\ fd' = [fd EXCEPT ![p] = i] /\ cstep' = [cstep EXCEPT ![p] = "write"]
      /\ UNCHANGED <<edit, read, store, saved, overlapped>>
  BY DEF Open, OpenTemporary, CStep
<1> HIDE DEF i
<1>6. names'.config = names.config /\ names'.tmp = i /\ names' = [config |-> names'.config, tmp |-> names'.tmp]
  BY <1>5 DEF ConfigInv, ConfigTyped
<1>7. ConfigTyped'
  BY <1>3, <1>5, <1>6 DEF ConfigInv, ConfigTyped
<1>8. ASSUME ~overlapped PROVE OneEdit'
  <2>1. OneEdit
    BY <1>8 DEF ConfigInv
  <2>2. i # names.config
    BY <1>4, <2>1 DEF OneEdit
  <2>3. names.config # NoFile => content'[names.config] = content[names.config]
    BY <1>5, <2>2 DEF ConfigInv, ConfigTyped
  <2>4. LoadConfig' = LoadConfig
    BY <1>6, <2>3 DEF LoadConfig
  <2>5. content'[i] = Broken
    BY <1>3, <1>5 DEF ConfigInv, ConfigTyped
  <2>6. \A q \in Procs \ {p} : cstep[q] = "idle"
    BY <1>5, <2>1 DEF OneEdit
  <2>7. ASSUME NEW q \in Procs PROVE Knows(q)'
    BY <1>3, <1>5, <1>6, <2>1, <2>5, <2>6 DEF OneEdit, Knows, ConfigInv, ConfigTyped
  <2>8. \A q, r \in Procs : cstep'[q] # "idle" /\ cstep'[r] # "idle" => q = r
    BY <1>5, <2>6 DEF ConfigInv, ConfigTyped
  <2>9. QED
    BY <1>5, <1>6, <2>1, <2>2, <2>3, <2>4, <2>7, <2>8 DEF OneEdit
<1>9. QED
  BY <1>5, <1>7, <1>8 DEF ConfigInv

LEMMA WriteStep ==
  ASSUME ConfigInv, NEW p \in Procs, Write(p) PROVE ConfigInv'
<1>1. /\ cstep[p] = "write" /\ cstep' = [cstep EXCEPT ![p] = "replace"]
      /\ UNCHANGED <<names, edit, read, store, fd, saved, overlapped>>
  BY DEF Write, CStep
<1>2. PICK text : /\ content' = [content EXCEPT ![fd[p]] = text]
                  /\ \/ text = Whole(Edited(edit[p], read[p], store[p]))
                     \/ content[fd[p]].whole
  BY DEF Write
<1>3. ConfigTyped'
  BY <1>1, <1>2 DEF ConfigInv, ConfigTyped
<1>4. ASSUME ~overlapped PROVE OneEdit'
  <2>1. OneEdit
    BY <1>4 DEF ConfigInv
  <2>2. Knows(p)
    BY <2>1 DEF OneEdit
  <2>3. fd[p] = names.tmp /\ names.tmp # NoFile /\ content[names.tmp] = Broken
        /\ read[p] = saved /\ store[p] = saved[edit[p].name]
    BY <1>1, <2>2 DEF Knows
  <2>4. text = Result(p)
    BY <1>2, <2>3 DEF Broken, Result
  <2>5. names.tmp # names.config
    BY <2>1, <2>3 DEF OneEdit
  <2>6. names.config # NoFile => content'[names.config] = content[names.config]
    BY <1>2, <2>3, <2>5 DEF ConfigInv, ConfigTyped
  <2>7. LoadConfig' = LoadConfig
    BY <1>1, <2>6 DEF LoadConfig
  <2>8. names.tmp \in Inodes
    BY <2>3 DEF ConfigInv, ConfigTyped
  <2>9. content'[names.tmp] = Result(p)'
    BY <1>1, <1>2, <2>3, <2>4, <2>8 DEF ConfigInv, ConfigTyped, Result
  <2>10. \A q \in Procs \ {p} : cstep[q] = "idle"
    BY <1>1, <2>1 DEF OneEdit
  <2>11. ASSUME NEW q \in Procs PROVE Knows(q)'
    <3>1. CASE q = p
      BY <1>1, <2>3, <2>9, <3>1 DEF Knows, ConfigInv, ConfigTyped
    <3>2. CASE q # p
      BY <1>1, <2>1, <2>10, <3>2 DEF Knows, OneEdit, ConfigInv, ConfigTyped
    <3>3. QED
      BY <3>1, <3>2
  <2>12. \A q, r \in Procs : cstep'[q] # "idle" /\ cstep'[r] # "idle" => q = r
    BY <1>1, <2>10 DEF ConfigInv, ConfigTyped
  <2>13. QED
    BY <1>1, <2>1, <2>6, <2>7, <2>11, <2>12 DEF OneEdit
<1>5. QED
  BY <1>1, <1>3, <1>4 DEF ConfigInv

LEMMA ReplaceFileStep ==
  ASSUME ConfigInv, NEW p \in Procs, Replace(p) PROVE ConfigInv'
<1>1. /\ cstep[p] = "replace" /\ names.tmp # NoFile /\ names' = [config |-> names.tmp, tmp |-> NoFile]
      /\ saved' = Edited(edit[p], saved, saved[edit[p].name])
      /\ cstep' = [cstep EXCEPT ![p] = "idle"] /\ fd' = [fd EXCEPT ![p] = NoFile]
      /\ read' = [read EXCEPT ![p] = Empty] /\ store' = [store EXCEPT ![p] = NoValue]
      /\ UNCHANGED <<content, edit, overlapped>>
  BY DEF Replace, EndEdit, CStep
<1>2. ConfigTyped'
  BY <1>1 DEF ConfigInv, ConfigTyped
<1>3. ASSUME ~overlapped PROVE OneEdit'
  <2>1. OneEdit
    BY <1>3 DEF ConfigInv
  <2>2. content[names.tmp] = Result(p)
    BY <1>1, <2>1 DEF OneEdit, Knows
  <2>3. content[names.tmp].whole /\ content[names.tmp].values = saved'
    BY <1>1, <2>2 DEF Result, Whole
  <2>4. LoadConfig' = saved'
    BY <1>1, <2>3 DEF LoadConfig
  <2>5. \A q \in Procs : cstep'[q] = "idle" /\ fd'[q] = NoFile
    BY <1>1, <2>1 DEF OneEdit, Knows, ConfigInv, ConfigTyped
  <2>6. \A q \in Procs : Knows(q)'
    BY <2>5 DEF Knows
  <2>7. QED
    BY <1>1, <2>3, <2>4, <2>5, <2>6 DEF OneEdit
<1>4. QED
  BY <1>1, <1>2, <1>3 DEF ConfigInv

\* An edit that fails or is killed leaves the configuration alone.
LEMMA EndStep ==
  ASSUME ConfigInv, NEW p \in Procs, EndEdit(p), UNCHANGED <<names, saved>> PROVE ConfigInv'
<1>1. /\ cstep' = [cstep EXCEPT ![p] = "idle"] /\ fd' = [fd EXCEPT ![p] = NoFile]
      /\ read' = [read EXCEPT ![p] = Empty] /\ store' = [store EXCEPT ![p] = NoValue]
      /\ UNCHANGED <<names, saved, content, edit, overlapped>>
  BY DEF EndEdit, CStep
<1>2. ConfigTyped'
  BY <1>1 DEF ConfigInv, ConfigTyped
<1>3. ASSUME ~overlapped PROVE OneEdit'
  <2>1. OneEdit
    BY <1>3 DEF ConfigInv
  <2>2. LoadConfig' = LoadConfig
    BY <1>1 DEF LoadConfig
  <2>3. ASSUME NEW q \in Procs PROVE Knows(q)'
    <3>1. CASE q = p
      BY <1>1, <3>1 DEF Knows, ConfigInv, ConfigTyped
    <3>2. CASE q # p
      <4>1. Knows(q) /\ Result(q)' = Result(q)
        BY <1>1, <2>1 DEF OneEdit, Result
      <4>2. cstep'[q] = cstep[q] /\ fd'[q] = fd[q] /\ read'[q] = read[q] /\ store'[q] = store[q]
        BY <1>1, <3>2 DEF ConfigInv, ConfigTyped
      <4>3. QED
        BY <1>1, <4>1, <4>2 DEF Knows
    <3>3. QED
      BY <3>1, <3>2
  <2>4. \A q, r \in Procs : cstep'[q] # "idle" /\ cstep'[r] # "idle" => q = r
    BY <1>1, <2>1 DEF ConfigInv, ConfigTyped, OneEdit
  <2>5. QED
    BY <1>1, <2>1, <2>2, <2>3, <2>4 DEF OneEdit
<1>4. QED
  BY <1>1, <1>2, <1>3 DEF ConfigInv

LEMMA ConfigInductive ==
  ASSUME CommandLineAssumption, ConfigInv, ConfigNext PROVE ConfigInv'
<1>1. ASSUME NEW p \in Procs, EditStep(p) PROVE ConfigInv'
  BY <1>1, LoadStep, OpenFileStep, WriteStep, ReplaceFileStep, EndStep DEF EditStep, ReplaceFails
<1>2. ASSUME NEW p \in Procs, KillEdit(p) PROVE ConfigInv'
  BY <1>2, EndStep DEF KillEdit
<1>3. ASSUME NEW p \in Procs, NEW e \in Edits, BeginEdit(p, e) PROVE ConfigInv'
  BY <1>3, BeginStep
<1>4. ASSUME UNCHANGED config PROVE ConfigInv'
  BY <1>4 DEF config, ConfigInv, ConfigTyped, OneEdit, Knows, LoadConfig, Result
<1>5. QED
  BY <1>1, <1>2, <1>3, <1>4 DEF ConfigNext

LEMMA ConfigAtStart == Init => ConfigInv
<1> SUFFICES ASSUME Init PROVE ConfigInv
  OBVIOUS
<1>1. /\ names = [config |-> NoFile, tmp |-> NoFile] /\ content = [i \in Inodes |-> Broken]
      /\ DOMAIN edit = Procs /\ DOMAIN read = Procs /\ DOMAIN store = Procs
      /\ fd = [p \in Procs |-> NoFile] /\ cstep = [p \in Procs |-> "idle"]
      /\ saved = Empty /\ overlapped = FALSE
  BY DEF Init, ConfigInit
<1>2. ConfigTyped
  BY <1>1 DEF ConfigTyped
<1>3. OneEdit
  BY <1>1 DEF OneEdit, Knows, LoadConfig
<1>4. QED
  BY <1>2, <1>3 DEF ConfigInv

\* Edits that never overlap are all kept, in the order in which they succeeded, wherever
\* other edits were killed.
THEOREM EditsAreKept == Spec => []ConfigKept
<1>1. ConfigInv /\ [Next]_vars => ConfigInv'
  BY StepsOnFiles, ConfigInductive, CommandLineAssumption
<1>2. ConfigInv => ConfigKept
  BY DEF ConfigInv, OneEdit, ConfigTyped, ConfigKept
<1>3. QED
  BY <1>1, <1>2, ConfigAtStart, PTL DEF Spec

----
(* The artifacts.                                                           *)
----

NatLess == {ss \in Nat \X Nat : ss[1] < ss[2]}
LEMMA NatLessWellFounded == IsWellFoundedOn(NatLess, Nat)
BY NatLessThanWellFounded DEF OpToRel, NatLess

LEMMA HighestNumber ==
  ASSUME NEW n \in Nat, NEW S \in SUBSET (0 .. n), S # {}
  PROVE  Max(S) \in S /\ \A s \in S : s =< Max(S)
<1> DEFINE T == {k \in Nat : n - k \in S}
<1>1. PICK s \in S : s \in 0 .. n
  OBVIOUS
<1>2. n - s \in Nat /\ n - (n - s) = s
  BY <1>1
<1>3. n - s \in T
  BY <1>1, <1>2
<1>4. T \subseteq Nat /\ T # {}
  BY <1>3
<1>5. PICK t \in T : \A u \in T : ~ (<<u, t>> \in NatLess)
  <2> HIDE DEF T
  <2>1. QED
    BY <1>4, NatLessWellFounded, WFMin
<1>6. \A u \in T : ~(u < t)
  BY <1>5 DEF NatLess
<1>7. \A r \in S : r =< n - t
  <2> TAKE r \in S
  <2>1. r \in 0 .. n
    OBVIOUS
  <2>2. n - r \in T
    BY <2>1
  <2>3. ~(n - r < t)
    BY <1>6, <2>2
  <2>4. t \in Nat
    BY <1>5
  <2>5. QED
    BY <2>1, <2>3, <2>4
<1>8. n - t \in S
  BY <1>5
<1>9. QED
  <2>1. \E m \in S : \A r \in S : m >= r
    BY <1>7, <1>8
  <2>2. Max(S) \in S /\ \A r \in S : Max(S) >= r
    BY <2>1 DEF Max
  <2>3. QED
    BY <2>2

LEMMA NumberIsNew ==
  ASSUME CommandLineAssumption, ArtifactsInv
  PROVE  NextRunIndex(files) \in Nat \ {0} /\ \A f \in files : f.index < NextRunIndex(files)
<1> DEFINE S == {0} \cup {f.index : f \in files}
<1>1. MaxIndex \in Nat /\ S \subseteq 0 .. MaxIndex /\ S # {}
  BY DEF CommandLineAssumption, ArtifactsInv
<1> HIDE DEF S
<1>2. Max(S) \in S /\ \A s \in S : s =< Max(S)
  BY <1>1, HighestNumber
<1>3. Max(S) \in Nat /\ NextRunIndex(files) = Max(S) + 1
  BY <1>1, <1>2 DEF NextRunIndex, S
<1>4. \A f \in files : f.index \in S /\ f.index \in Nat
  BY DEF S, ArtifactsInv
<1>5. QED
  BY <1>2, <1>3, <1>4

LEMMA TakeStep ==
  ASSUME CommandLineAssumption, ArtifactsInv, NEW p \in Procs, NEW suffixes \in {Bundle, Export}, TakeIndex(p, suffixes)
  PROVE  ArtifactsInv'
<1> DEFINE n == NextRunIndex(files)
<1>1. n \in Nat \ {0} /\ \A f \in files : f.index < n
  BY NumberIsNew
<1>2. /\ left[p] = <<>> /\ n =< MaxIndex /\ index' = [index EXCEPT ![p] = n] /\ left' = [left EXCEPT ![p] = suffixes]
      /\ racing' = racing \cup {{p, q} : q \in {o \in Procs : left[o] # <<>>}} /\ UNCHANGED <<files, clobbered>>
  BY DEF TakeIndex
<1> HIDE DEF n
<1>3. MaxIndex \in Nat
  BY DEF CommandLineAssumption
<1>4. \A f \in files : f.index # n
  BY <1>1 DEF ArtifactsInv
<1>5. \A q \in Procs \ {p} : left[q] # <<>> => {p, q} \in racing' /\ {q, p} \in racing'
  BY <1>2
<1>6. \A q, r \in Procs : q # r /\ left'[q] # <<>> /\ left'[r] # <<>> => {q, r} \in racing'
  BY <1>2, <1>5 DEF ArtifactsInv
<1>7. \A q \in Procs : left'[q] \in {<<>>, Bundle, Export, Tail(Export), Tail(Tail(Export))}
  BY <1>2 DEF ArtifactsInv
<1>8. ASSUME NEW q \in Procs, left'[q] # <<>>
      PROVE  /\ index'[q] \in 1 .. MaxIndex
             /\ \A f \in files : f.index = index'[q] =>
                  IF f.owner = q THEN f.suffix \notin Suffixes(left'[q]) ELSE {f.owner, q} \in racing'
  <2>1. CASE q = p
    BY <1>1, <1>2, <1>3, <1>4, <2>1 DEF ArtifactsInv
  <2>2. CASE q # p
    BY <1>2, <1>8, <2>2 DEF ArtifactsInv
  <2>3. QED
    BY <2>1, <2>2
<1>9. ArtifactsKept'
  BY <1>2 DEF ArtifactsInv, ArtifactsKept
<1>10. QED
  BY <1>2, <1>6, <1>7, <1>8, <1>9 DEF ArtifactsInv

\* No list of suffixes names one twice.
LEMMA SuffixesDiffer ==
  ASSUME NEW s \in {Bundle, Export, Tail(Export), Tail(Tail(Export))}
  PROVE  /\ Head(s) \in Suffixes(s) /\ Head(s) \notin Suffixes(Tail(s)) /\ Suffixes(Tail(s)) \subseteq Suffixes(s)
         /\ Tail(s) \in {<<>>, Bundle, Export, Tail(Export), Tail(Tail(Export))}
<1> DEFINE two == <<"graph.json", "report.md">>
           one == <<"report.md">>
<1>1. Tail(Export) = two /\ Tail(two) = one /\ Tail(one) = <<>> /\ Tail(Bundle) = <<>>
  BY DEF Export, Bundle
<1>2. Head(Export) = "tree.txt" /\ Head(two) = "graph.json" /\ Head(one) = "report.md" /\ Head(Bundle) = "md"
  BY DEF Export, Bundle
<1>3. Suffixes(Export) = {"tree.txt", "graph.json", "report.md"}
  BY DEF Suffixes, Export
<1>4. Suffixes(two) = {"graph.json", "report.md"}
  BY DEF Suffixes
<1>5. Suffixes(one) = {"report.md"} /\ Suffixes(Bundle) = {"md"} /\ Suffixes(<<>>) = {}
  BY DEF Suffixes, Bundle
<1> HIDE DEF one, two
<1>6. CASE s = Bundle
  BY <1>1, <1>2, <1>5, <1>6
<1>7. CASE s = Export
  BY <1>1, <1>2, <1>3, <1>4, <1>7
<1>8. CASE s = two
  BY <1>1, <1>2, <1>4, <1>5, <1>8
<1>9. CASE s = one
  BY <1>1, <1>2, <1>5, <1>9
<1>10. QED
  BY <1>1, <1>6, <1>7, <1>8, <1>9

LEMMA WriteArtifactStep ==
  ASSUME ArtifactsInv, NEW p \in Procs, WriteArtifact(p) PROVE ArtifactsInv'
<1> DEFINE suffix == Head(left[p])
           same == {f \in files : f.index = index[p] /\ f.suffix = suffix}
           new == [index |-> index[p], suffix |-> suffix, owner |-> p]
<1>1. /\ left[p] # <<>> /\ files' = (files \ same) \cup {new}
      /\ clobbered' = clobbered \cup {[of |-> f.owner, by |-> p] : f \in same}
      /\ left' = [left EXCEPT ![p] = Tail(@)] /\ UNCHANGED <<index, racing>>
  BY DEF WriteArtifact
<1>2. /\ suffix \in Suffixes(left[p]) /\ suffix \notin Suffixes(Tail(left[p]))
      /\ Suffixes(Tail(left[p])) \subseteq Suffixes(left[p])
      /\ Tail(left[p]) \in {<<>>, Bundle, Export, Tail(Export), Tail(Tail(Export))}
  BY <1>1, SuffixesDiffer DEF ArtifactsInv
<1>3. DOMAIN left' = Procs /\ left'[p] = Tail(left[p]) /\ \A q \in Procs \ {p} : left'[q] = left[q]
  BY <1>1 DEF ArtifactsInv
<1>4. new.index = index[p] /\ new.suffix = suffix /\ new.owner = p
  OBVIOUS
<1>5. \A f \in same : f \in files /\ f.index = index[p] /\ f.suffix = suffix
  OBVIOUS
<1>6. \A f \in files' : f \in files \/ f = new
  BY <1>1
<1> HIDE DEF suffix, same, new
<1>7. \A f \in same : {f.owner, p} \in racing
  BY <1>1, <1>2, <1>5 DEF ArtifactsInv
<1>8. ArtifactsKept'
  <2>1. ASSUME NEW c \in clobbered' PROVE {c.of, c.by} \in racing
    <3>1. CASE c \in clobbered
      BY <3>1 DEF ArtifactsInv, ArtifactsKept
    <3>2. ASSUME NEW f \in same, c = [of |-> f.owner, by |-> p] PROVE {c.of, c.by} \in racing
      BY <1>7, <3>2
    <3>3. QED
      BY <1>1, <2>1, <3>1, <3>2
  <2>2. ASSUME NEW f \in files, f.index = index[p] PROVE f.owner = p \/ {f.owner, p} \in racing
    BY <1>1, <2>2 DEF ArtifactsInv
  <2>3. ASSUME NEW f \in files', NEW g \in files', f.index = g.index
        PROVE  f.owner = g.owner \/ {f.owner, g.owner} \in racing
    <3>1. CASE f \in files /\ g \in files
      BY <2>3, <3>1 DEF ArtifactsInv, ArtifactsKept
    <3>2. CASE f = new /\ g \in files
      <4>1. {g.owner, p} = {p, g.owner}
        OBVIOUS
      <4>2. QED
        BY <1>4, <2>2, <2>3, <3>2, <4>1
    <3>3. CASE f \in files /\ g = new
      BY <1>4, <2>2, <2>3, <3>3
    <3>4. QED
      BY <1>6, <3>1, <3>2, <3>3
  <2>4. QED
    BY <1>1, <2>1, <2>3 DEF ArtifactsKept
<1>9. \A q, r \in Procs : q # r /\ left'[q] # <<>> /\ left'[r] # <<>> => left[q] # <<>> /\ left[r] # <<>>
  BY <1>1, <1>3
<1>10. \A q \in Procs : left'[q] # <<>> => left[q] # <<>> /\ Suffixes(left'[q]) \subseteq Suffixes(left[q])
  BY <1>1, <1>2, <1>3
<1>11. \A f \in files' : f.index \in 1 .. MaxIndex /\ f.owner \in Procs
  BY <1>1, <1>4, <1>6 DEF ArtifactsInv
<1>12. ASSUME NEW q \in Procs, left'[q] # <<>>, NEW f \in files', f.index = index[q]
       PROVE  IF f.owner = q THEN f.suffix \notin Suffixes(left'[q]) ELSE {f.owner, q} \in racing
  <2>1. CASE f \in files
    BY <1>10, <1>12, <2>1 DEF ArtifactsInv
  <2>2. CASE f = new /\ q = p
    BY <1>2, <1>3, <1>4, <2>2
  <2>3. CASE f = new /\ q # p
    BY <1>1, <1>4, <1>10, <1>12, <2>3 DEF ArtifactsInv
  <2>4. QED
    BY <1>6, <2>1, <2>2, <2>3
<1>13. \A q \in Procs : left'[q] \in {<<>>, Bundle, Export, Tail(Export), Tail(Tail(Export))}
  BY <1>2, <1>3 DEF ArtifactsInv
<1>14. /\ DOMAIN index' = Procs
       /\ \A q, r \in Procs : q # r /\ left'[q] # <<>> /\ left'[r] # <<>> => {q, r} \in racing'
       /\ \A q \in Procs : left'[q] # <<>> => index'[q] \in 1 .. MaxIndex
  BY <1>1, <1>9, <1>10 DEF ArtifactsInv
<1>15. \A q \in Procs : left'[q] # <<>> =>
         \A f \in files' : f.index = index'[q] =>
           IF f.owner = q THEN f.suffix \notin Suffixes(left'[q]) ELSE {f.owner, q} \in racing'
  BY <1>1, <1>12
<1>16. QED
  BY <1>3, <1>8, <1>11, <1>13, <1>14, <1>15 DEF ArtifactsInv

LEMMA RemovalStep ==
  ASSUME ArtifactsInv, UNCHANGED <<index, clobbered, racing>>, files' \subseteq files, DOMAIN left' = Procs,
         \A p \in Procs : left'[p] = left[p] \/ left'[p] = <<>>
  PROVE  ArtifactsInv'
<1>1. ArtifactsKept'
  BY DEF ArtifactsInv, ArtifactsKept
<1>2. \A p \in Procs : left'[p] \in {<<>>, Bundle, Export, Tail(Export), Tail(Tail(Export))}
  BY DEF ArtifactsInv
<1>3. \A p \in Procs : left'[p] # <<>> => left'[p] = left[p]
  OBVIOUS
<1>4. QED
  BY <1>1, <1>2, <1>3 DEF ArtifactsInv

LEMMA ArtifactsInductive ==
  ASSUME CommandLineAssumption, ArtifactsInv, ArtifactsNext PROVE ArtifactsInv'
<1>1. ASSUME NEW p \in Procs, TakeIndex(p, Bundle) \/ TakeIndex(p, Export) PROVE ArtifactsInv'
  BY <1>1, TakeStep
<1>2. ASSUME NEW p \in Procs, WriteArtifact(p) PROVE ArtifactsInv'
  BY <1>2, WriteArtifactStep
<1>3. ASSUME NEW p \in Procs, KillWriter(p) PROVE ArtifactsInv'
  BY <1>3, RemovalStep DEF KillWriter, ArtifactsInv
<1>4. CASE Archive
  BY <1>4, RemovalStep DEF Archive, ArtifactsInv
<1>5. CASE UNCHANGED artifacts
  BY <1>5, RemovalStep DEF artifacts, ArtifactsInv
<1>6. QED
  BY <1>1, <1>2, <1>3, <1>4, <1>5 DEF ArtifactsNext

LEMMA ArtifactsAtStart == Init => ArtifactsInv
BY DEF Init, ArtifactsInit, ArtifactsInv, ArtifactsKept

\* A number stands for the artifacts of one process, and a finished artifact is never
\* overwritten by a process that began after its owner was done, whatever was archived
\* and whoever was killed.
THEOREM NumbersAreNotReused == Spec => []ArtifactsKept
<1>1. ArtifactsInv /\ [Next]_vars => ArtifactsInv'
  BY StepsOnFiles, ArtifactsInductive, CommandLineAssumption
<1>2. ArtifactsInv => ArtifactsKept
  BY DEF ArtifactsInv
<1>3. QED
  BY <1>1, <1>2, ArtifactsAtStart, PTL DEF Spec

----
(* The first of a finite set in a strict order.                             *)
----

IsStrictOrder(S, R) ==
  /\ \A x \in S : <<x, x>> \notin R
  /\ \A x, y \in S : x # y => <<x, y>> \in R \/ <<y, x>> \in R
  /\ \A x, y, z \in S : <<x, y>> \in R /\ <<y, z>> \in R => <<x, z>> \in R
Before(x, S, R) == {d \in S : <<d, x>> \in R}
Place(x, S, R) == Cardinality(Before(x, S, R))
Firsts(k, S, R) == {c \in S : Place(c, S, R) < k}

LEMMA PlaceType ==
  ASSUME NEW S, IsFiniteSet(S), NEW R, NEW x
  PROVE  IsFiniteSet(Before(x, S, R)) /\ Place(x, S, R) \in Nat
<1>1. Before(x, S, R) \subseteq S
  BY DEF Before
<1>2. IsFiniteSet(Before(x, S, R))
  BY <1>1, FS_Subset
<1>3. QED
  BY <1>2, FS_CardinalityType DEF Place

\* What comes before has a lower place.
LEMMA PlacesGrow ==
  ASSUME NEW S, IsFiniteSet(S), NEW R, IsStrictOrder(S, R),
         NEW x \in S, NEW y \in S, <<x, y>> \in R
  PROVE  Place(x, S, R) < Place(y, S, R)
<1> DEFINE B == Before(x, S, R)
<1>1. x \notin B /\ B \cup {x} \subseteq Before(y, S, R)
  BY DEF IsStrictOrder, Before
<1>2. IsFiniteSet(B) /\ IsFiniteSet(Before(y, S, R))
  BY PlaceType
<1>3. Cardinality(B \cup {x}) = Cardinality(B) + 1
  BY <1>1, <1>2, FS_AddElement
<1>4. Cardinality(B \cup {x}) <= Cardinality(Before(y, S, R))
  BY <1>1, <1>2, FS_Subset
<1>5. Cardinality(B) \in Nat /\ Cardinality(Before(y, S, R)) \in Nat
  BY <1>2, FS_CardinalityType
<1>6. QED
  BY <1>3, <1>4, <1>5 DEF Place

\* Every set of numbers has a smallest one.
LEMMA LeastOf ==
  ASSUME NEW G \in SUBSET Nat, G # {}
  PROVE  \E n \in G : \A m \in G : n <= m
<1>1. PICK n \in G : \A m \in G : <<m, n>> \notin NatLess
  BY NatLessWellFounded, WFMin
<1>2. ASSUME NEW m \in Nat, NEW k \in Nat
      PROVE  <<m, k>> \in NatLess <=> m < k
  BY DEF NatLess
<1>3. \A m \in G : ~(m < n)
  BY <1>1, <1>2
<1>4. QED
  BY <1>3

\* Of some elements, one comes before all the others.
LEMMA OneIsFirst ==
  ASSUME NEW S, IsFiniteSet(S), NEW R, IsStrictOrder(S, R),
         NEW T \in SUBSET S, T # {}
  PROVE  \E x \in T : \A y \in T \ {x} : <<x, y>> \in R
<1> DEFINE G == {Place(x, S, R) : x \in T}
<1>1. G \in SUBSET Nat /\ G # {}
  BY PlaceType
<1>2. PICK n \in G : \A m \in G : n <= m
  <2> HIDE DEF G
  <2>1. QED
    BY <1>1, LeastOf
<1>3. PICK x \in T : n = Place(x, S, R)
  OBVIOUS
<1>4. ASSUME NEW y \in T \ {x} PROVE <<x, y>> \in R
  <2>1. Place(x, S, R) <= Place(y, S, R)
    BY <1>2, <1>3
  <2>2. Place(x, S, R) \in Nat /\ Place(y, S, R) \in Nat
    BY PlaceType
  <2>3. <<y, x>> \notin R
    BY <2>1, <2>2, PlacesGrow
  <2>4. QED
    BY <2>3 DEF IsStrictOrder
<1>5. QED
  BY <1>4

\* And one comes after all the others.
LEMMA OneIsLast ==
  ASSUME NEW S, IsFiniteSet(S), NEW R, IsStrictOrder(S, R),
         NEW T \in SUBSET S, T # {}
  PROVE  \E x \in T : \A y \in T \ {x} : <<y, x>> \in R
<1> DEFINE Q == {<<p[2], p[1]>> : p \in {q \in S \X S : q \in R}}
<1>1. ASSUME NEW x \in S, NEW y \in S PROVE <<x, y>> \in Q <=> <<y, x>> \in R
  OBVIOUS
<1> HIDE DEF Q
<1>2. IsStrictOrder(S, Q)
  BY <1>1 DEF IsStrictOrder
<1>3. PICK x \in T : \A y \in T \ {x} : <<x, y>> \in Q
  BY <1>2, OneIsFirst
<1>4. QED
  BY <1>1, <1>3

\* With an element go all that come before it.
LEMMA FirstsAreClosed ==
  ASSUME NEW S, IsFiniteSet(S), NEW R, IsStrictOrder(S, R), NEW k \in Nat,
         NEW d \in Firsts(k, S, R), NEW c \in S, <<c, d>> \in R
  PROVE  c \in Firsts(k, S, R)
<1>1. d \in S /\ Place(d, S, R) < k
  BY DEF Firsts
<1>2. Place(c, S, R) < Place(d, S, R) /\ Place(c, S, R) \in Nat /\ Place(d, S, R) \in Nat
  BY <1>1, PlacesGrow, PlaceType
<1>3. QED
  BY <1>1, <1>2 DEF Firsts

\* There is a first, and one that nothing precedes is among the first.
LEMMA FirstsExist ==
  ASSUME NEW S, IsFiniteSet(S), NEW R, IsStrictOrder(S, R), NEW k \in Nat, k > 0, S # {}
  PROVE  Firsts(k, S, R) # {}
<1>1. PICK x \in S : \A y \in S \ {x} : <<x, y>> \in R
  BY OneIsFirst
<1>2. Before(x, S, R) = {}
  BY <1>1 DEF Before, IsStrictOrder
<1>3. Place(x, S, R) = 0
  BY <1>2, FS_EmptySet DEF Place
<1>4. QED
  BY <1>3 DEF Firsts

\* While one is left out, k are taken.
LEMMA FirstsFill ==
  ASSUME NEW S, IsFiniteSet(S), NEW R, IsStrictOrder(S, R), NEW k \in Nat,
         S \ Firsts(k, S, R) # {}
  PROVE  Cardinality(Firsts(k, S, R)) = k
<1> DEFINE F == Firsts(k, S, R)
<1>1. F \subseteq S /\ IsFiniteSet(F) /\ Cardinality(F) \in Nat
  <2>1. F \subseteq S
    BY DEF Firsts
  <2>2. QED
    BY <2>1, FS_Subset, FS_CardinalityType
<1>2. k <= Cardinality(F)
  <2> DEFINE T == S \ F
  <2>0. T \in SUBSET S /\ T # {}
    OBVIOUS
  <2> HIDE DEF T
  <2>1. PICK c \in T : \A d \in T \ {c} : <<c, d>> \in R
    BY <2>0, OneIsFirst
  <2> USE DEF T
  <2>2. Before(c, S, R) \subseteq F
    BY <2>1 DEF Before, IsStrictOrder
  <2>3. Cardinality(Before(c, S, R)) <= Cardinality(F)
    BY <1>1, <2>2, FS_Subset
  <2>4. ~(Place(c, S, R) < k) /\ Place(c, S, R) \in Nat
    BY <2>1, PlaceType DEF Firsts
  <2>5. QED
    BY <1>1, <2>3, <2>4 DEF Place
<1>3. Cardinality(F) <= k
  <2>1. CASE F = {}
    BY <2>1, FS_EmptySet
  <2>2. CASE F # {}
    <3>1. PICK m \in F : \A d \in F \ {m} : <<d, m>> \in R
      BY <1>1, <2>2, OneIsLast
    <3>2. F \subseteq Before(m, S, R) \cup {m} /\ m \notin Before(m, S, R)
      BY <1>1, <3>1 DEF Before, IsStrictOrder
    <3>3. IsFiniteSet(Before(m, S, R)) /\ Place(m, S, R) \in Nat
      BY PlaceType
    <3>4. Cardinality(Before(m, S, R) \cup {m}) = Place(m, S, R) + 1
      BY <3>2, <3>3, FS_AddElement DEF Place
    <3>5. IsFiniteSet(Before(m, S, R) \cup {m})
      BY <3>3, FS_AddElement
    <3>6. Cardinality(F) <= Place(m, S, R) + 1
      BY <3>2, <3>4, <3>5, FS_Subset
    <3>7. Place(m, S, R) < k
      BY <3>1 DEF Firsts
    <3>8. QED
      BY <1>1, <3>3, <3>6, <3>7
  <2>3. QED
    BY <2>1, <2>2
<1>4. QED
  BY <1>1, <1>2, <1>3

----
(* Which computation is asked for, and of which inputs.                     *)
----

DomainInputs ==
  [whois : WhoisRecords, intel : Intels, output : ModelOutputs, threshold : Thresholds,
   topK : TopKs, verifications : Verifications, escalateOnly : BOOLEAN]
RunInputs == [settings : PlanSettings, env : Environments, approved : BOOLEAN, pivots : PivotMixes]
ComparisonInputs == [baseline : Graphs, candidate : Graphs, labelled : Cases]

\* What has been asked is one of the inputs.
InputInv ==
  /\ subject = "domain" => input \in DomainInputs
  /\ subject = "run" => input \in RunInputs /\ Len(input.pivots) <= input.settings.topK
  /\ subject = "comparison" => input \in ComparisonInputs

\* Every question is asked with inputs of the constants.
LEMMA InputsAlways == AlgorithmsSpec => []InputInv
<1>1. NothingAsked => InputInv
  BY DEF NothingAsked, InputInv
<1>2. InputInv /\ [Ask]_question => InputInv'
  <2> SUFFICES ASSUME InputInv, [Ask]_question PROVE InputInv'
    OBVIOUS
  <2>1. CASE PickDomain
    BY <2>1 DEF PickDomain, InputInv, DomainInputs
  <2>2. CASE PickRun
    BY <2>2 DEF PickRun, InputInv, RunInputs
  <2>3. CASE PickComparison
    BY <2>3 DEF PickComparison, InputInv, ComparisonInputs
  <2>4. CASE UNCHANGED question
    BY <2>4 DEF InputInv, question
  <2>5. QED
    BY <2>1, <2>2, <2>3, <2>4 DEF Ask
<1>3. QED
  BY <1>1, <1>2, PTL DEF AlgorithmsSpec

----
(* Comparisons of runs.                                                     *)
----

\* What an evaluation counts: of the labelled domains, those found and those missed.
LEMMA Counted ==
  ASSUME NEW g \in Graphs, NEW l \in Cases
  PROVE  LET e == Evaluation(g, l) IN
         /\ IsFiniteSet(e.truePositives) /\ IsFiniteSet(e.falsePositives)
         /\ IsFiniteSet(e.missed)
         /\ e.missed = l.positive \ e.truePositives
         /\ e.truePositives \subseteq l.positive /\ IsFiniteSet(l.positive)
<1>1. IsFiniteSet(g.domains) /\ IsFiniteSet(l.positive) /\ IsFiniteSet(l.negative)
  BY ReportsAssumption
<1>2. IsFiniteSet(Predicted(g) \cap l.positive) /\ IsFiniteSet(Predicted(g) \cap l.negative)
       /\ IsFiniteSet(l.positive \ Predicted(g))
  <2>1. Predicted(g) \cap l.positive \in SUBSET l.positive /\ Predicted(g) \cap l.negative \in SUBSET l.negative
         /\ l.positive \ Predicted(g) \in SUBSET l.positive
    OBVIOUS
  <2>2. QED
    BY <1>1, <2>1, FS_Subset
<1>3. QED
  BY <1>1, <1>2 DEF Evaluation

\* More found and fewer false: no ratio gets smaller.
LEMMA RatiosGrow ==
  ASSUME NEW tb \in Nat, NEW fb \in Nat, NEW tc \in Nat, NEW fc \in Nat, tb <= tc, fc <= fb
  PROVE  tc * (tb + fb) >= tb * (tc + fc)
<1>1. tb * fc <= tb * fb
  BY Z3
<1>2. tb * fb <= tc * fb
  BY Z3
<1>3. tb * fc <= tc * fb
  BY <1>1, <1>2
<1>4. tc * (tb + fb) = tc * tb + tc * fb /\ tb * (tc + fc) = tc * tb + tb * fc
  BY Z3
<1>5. QED
  BY <1>3, <1>4

\* Nothing lost and something gained: no defined ratio got worse, and the way back
\* loses what was gained.
LEMMA Improved ==
  ASSUME NEW b \in Graphs, NEW c \in Graphs, NEW l \in Cases,
         Comparison(b, c, l).verdict = "improved"
  PROVE  /\ AtLeast(Evaluation(c, l).precision, Evaluation(b, l).precision)
         /\ AtLeast(Evaluation(c, l).recall, Evaluation(b, l).recall)
         /\ AtLeast(Evaluation(c, l).f1, Evaluation(b, l).f1)
         /\ Comparison(c, b, l).verdict = "degraded"
<1> DEFINE eb == Evaluation(b, l)  ec == Evaluation(c, l)
           tb == Cardinality(eb.truePositives)  tc == Cardinality(ec.truePositives)
           fb == Cardinality(eb.falsePositives)  fc == Cardinality(ec.falsePositives)
           mb == Cardinality(eb.missed)  mc == Cardinality(ec.missed)
           n == Cardinality(l.positive)
<1>1. eb.truePositives \subseteq ec.truePositives /\ ec.falsePositives \subseteq eb.falsePositives
       /\ (ec.truePositives # eb.truePositives \/ eb.falsePositives # ec.falsePositives)
  BY DEF Comparison, Verdict
<1>2. tb \in Nat /\ tc \in Nat /\ fb \in Nat /\ fc \in Nat /\ mb \in Nat /\ mc \in Nat /\ n \in Nat
  BY Counted, FS_CardinalityType
<1>3. tb <= tc /\ fc <= fb /\ mc <= mb
  <2>1. ec.missed \subseteq eb.missed
    BY <1>1, Counted
  <2>2. QED
    BY <1>1, <2>1, Counted, FS_Subset
<1>4. Comparison(c, b, l).verdict = "degraded"
  BY <1>1 DEF Comparison, Verdict
<1>5. /\ eb.precision = <<tb, tb + fb>> /\ ec.precision = <<tc, tc + fc>>
      /\ eb.recall = <<tb, n>> /\ ec.recall = <<tc, n>>
      /\ eb.f1 = <<2 * tb, IF eb.truePositives = {} THEN 0 ELSE 2 * tb + fb + mb>>
      /\ ec.f1 = <<2 * tc, IF ec.truePositives = {} THEN 0 ELSE 2 * tc + fc + mc>>
  BY DEF Evaluation
<1> HIDE DEF eb, ec, tb, tc, fb, fc, mb, mc, n
<1>6. AtLeast(ec.precision, eb.precision)
  <2>1. tc * (tb + fb) >= tb * (tc + fc)
    BY <1>2, <1>3, RatiosGrow
  <2>2. QED
    BY <1>5, <2>1 DEF AtLeast
<1>7. AtLeast(ec.recall, eb.recall)
  <2>1. tc * n >= tb * n
    BY <1>2, <1>3, Z3
  <2>2. QED
    BY <1>5, <2>1 DEF AtLeast
<1>8. AtLeast(ec.f1, eb.f1)
  <2> DEFINE x == 2 * tb  y == 2 * tc  u == fb + mb  v == fc + mc
  <2>1. x \in Nat /\ y \in Nat /\ u \in Nat /\ v \in Nat /\ x <= y /\ v <= u
    BY <1>2, <1>3
  <2>2. 2 * tb + fb + mb = x + u /\ 2 * tc + fc + mc = y + v
    BY <1>2
  <2> HIDE DEF x, y, u, v
  <2>3. y * (x + u) >= x * (y + v)
    BY <2>1, RatiosGrow
  <2>4. 0 >= 0 /\ y * 0 = 0 /\ x * 0 = 0
    BY <2>1
  <2>5. eb.f1 = <<x, IF eb.truePositives = {} THEN 0 ELSE x + u>> /\ ec.f1 = <<y, IF ec.truePositives = {} THEN 0 ELSE y + v>>
    BY <1>5, <2>2 DEF x, y
  <2>6. QED
    BY <2>1, <2>3, <2>5 DEF AtLeast, IsDefined
<1>9. QED
  BY <1>4, <1>6, <1>7, <1>8 DEF eb, ec

\* For any labelled cases and graphs compare_graphs calls nothing an improvement
\* that makes precision, recall or F1 worse, or whose reverse is not a degradation.
THEOREM ImprovementsAreReal == AlgorithmsSpec => []ImprovementIsReal
<1>1. InputInv => ImprovementIsReal
  <2> SUFFICES ASSUME InputInv, subject = "comparison",
                      Comparison(input.baseline, input.candidate, input.labelled).verdict = "improved"
               PROVE  LET b == Evaluation(input.baseline, input.labelled)
                          c == Evaluation(input.candidate, input.labelled)
                      IN /\ AtLeast(c.precision, b.precision) /\ AtLeast(c.recall, b.recall)
                         /\ AtLeast(c.f1, b.f1)
                         /\ Comparison(input.candidate, input.baseline, input.labelled).verdict = "degraded"
    BY DEF ImprovementIsReal
  <2>1. input.baseline \in Graphs /\ input.candidate \in Graphs /\ input.labelled \in Cases
    BY DEF InputInv, ComparisonInputs
  <2>2. QED
    BY <2>1, Improved
<1>2. QED
  BY <1>1, InputsAlways, PTL

----
(* The order of the candidates.                                             *)
----

Identified == [type : IdentifierTypes, value : DOMAIN Alphabet, score : 0..100]

\* What is left to allocate slots to: no identifier twice.
IsPool(C) ==
  /\ C \subseteq Identified /\ IsFiniteSet(C)
  /\ \A c, d \in C : SameIdentifier(c, d) => c = d

LEMMA UtilityType ==
  ASSUME NEW c \in Identified, NEW v \in Nat
  PROVE  Utility(c, v) \in Int
<1>1. c.score \in Int /\ c.type \in IdentifierTypes
  BY DEF Identified
<1>2. Specificity[c.type] \in Int
  BY <1>1 DEF Specificity, IdentifierTypes, TypePlace
<1>3. (IF c.type = "tracker" THEN 1 ELSE 1 + v) \in Int
  OBVIOUS
<1>4. \A x, y, z \in Int : x * y * z \in Int
  BY Z3
<1>5. QED
  BY <1>1, <1>2, <1>3, <1>4 DEF Utility

\* RanksBefore compares four numbers, the first that differs deciding.
Less(a, b, c, d, p, q, r, s) ==
  \/ a > p
  \/ a = p /\ b > q
  \/ a = p /\ b = q /\ c < r
  \/ a = p /\ b = q /\ c = r /\ d < s

LEMMA KeysOf ==
  ASSUME NEW c \in Identified
  PROVE  /\ c.score \in Int /\ TypePlace[c.type] \in Int /\ Alphabet[c.value] \in Int
         /\ c.type \in IdentifierTypes /\ c.value \in DOMAIN Alphabet
<1>1. c.score \in 0..100 /\ c.type \in IdentifierTypes /\ c.value \in DOMAIN Alphabet
  BY DEF Identified
<1>2. TypePlace[c.type] \in Int
  BY <1>1 DEF IdentifierTypes, TypePlace
<1>3. Alphabet[c.value] \in Int
  <2>1. Alphabet \in [DOMAIN Alphabet -> Nat]
    BY ValuesAssumption
  <2>2. \A x \in DOMAIN Alphabet : Alphabet[x] \in Nat
    BY <2>1
  <2>3. QED
    BY <1>1, <2>2
<1>4. QED
  BY <1>1, <1>2, <1>3

LEMMA TypesHavePlaces ==
  ASSUME NEW x \in IdentifierTypes, NEW y \in IdentifierTypes, TypePlace[x] = TypePlace[y]
  PROVE  x = y
BY DEF IdentifierTypes, TypePlace

LEMMA RanksByKeys ==
  ASSUME NEW v \in Nat, NEW c \in Identified, NEW d \in Identified
  PROVE  RanksBefore(c, d, v) <=>
           Less(Utility(c, v), c.score, TypePlace[c.type], Alphabet[c.value],
                Utility(d, v), d.score, TypePlace[d.type], Alphabet[d.value])
<1>1. (c.type = d.type) <=> (TypePlace[c.type] = TypePlace[d.type])
  BY KeysOf, TypesHavePlaces
<1>2. QED
  BY <1>1 DEF RanksBefore, Less

LEMMA RanksAreStrict ==
  ASSUME NEW C, IsPool(C), NEW v \in Nat
  PROVE  /\ \A c \in C : ~RanksBefore(c, c, v)
         /\ \A c, d \in C : c # d => RanksBefore(c, d, v) \/ RanksBefore(d, c, v)
         /\ \A c, d, e \in C : RanksBefore(c, d, v) /\ RanksBefore(d, e, v) => RanksBefore(c, e, v)
         /\ \A c, d \in C : RanksBefore(c, d, v) => Utility(c, v) >= Utility(d, v)
<1>1. C \subseteq Identified /\ \A c, d \in C : SameIdentifier(c, d) => c = d
  BY DEF IsPool
<1>2. ASSUME NEW c \in C PROVE ~RanksBefore(c, c, v)
  BY <1>1, UtilityType, KeysOf DEF RanksBefore
<1>3. ASSUME NEW c \in C, NEW d \in C, c # d PROVE RanksBefore(c, d, v) \/ RanksBefore(d, c, v)
  <2>1. c.type # d.type \/ c.value # d.value
    BY <1>1, <1>3 DEF SameIdentifier
  <2>2. c.type # d.type => TypePlace[c.type] # TypePlace[d.type]
    BY <1>1, KeysOf, TypesHavePlaces
  <2>3. c.value # d.value => Alphabet[c.value] # Alphabet[d.value]
    BY <1>1, KeysOf, ValuesAssumption
  <2>4. /\ Utility(c, v) \in Int /\ Utility(d, v) \in Int /\ c.score \in Int /\ d.score \in Int
        /\ TypePlace[c.type] \in Int /\ TypePlace[d.type] \in Int
        /\ Alphabet[c.value] \in Int /\ Alphabet[d.value] \in Int
    BY <1>1, UtilityType, KeysOf
  <2>5. QED
    BY <1>1, <2>1, <2>2, <2>3, <2>4, RanksByKeys DEF Less
<1>4. ASSUME NEW c \in C, NEW d \in C, NEW e \in C, RanksBefore(c, d, v), RanksBefore(d, e, v)
      PROVE  RanksBefore(c, e, v)
  <2>1. \A x \in {c, d, e} :
          /\ Utility(x, v) \in Int /\ x.score \in Int /\ TypePlace[x.type] \in Int /\ Alphabet[x.value] \in Int
    BY <1>1, UtilityType, KeysOf
  <2>2. \A x, y \in {c, d, e} :
          RanksBefore(x, y, v) <=>
            Less(Utility(x, v), x.score, TypePlace[x.type], Alphabet[x.value],
                 Utility(y, v), y.score, TypePlace[y.type], Alphabet[y.value])
    BY <1>1, RanksByKeys
  <2>3. QED
    BY <1>4, <2>1, <2>2 DEF Less
<1>5. ASSUME NEW c \in C, NEW d \in C, RanksBefore(c, d, v) PROVE Utility(c, v) >= Utility(d, v)
  BY <1>1, <1>5, UtilityType DEF RanksBefore
<1>6. QED
  BY <1>2, <1>3, <1>4, <1>5

\* The order in which slots are given, as a relation.
Order(C, turn, v) == {p \in C \X C : Ahead(p[1], p[2], turn, v)}

LEMMA OrderIsStrict ==
  ASSUME NEW C, IsPool(C), NEW v \in Nat, NEW turn \in [C -> 1..3]
  PROVE  /\ IsStrictOrder(C, Order(C, turn, v))
         /\ \A c, d \in C : <<c, d>> \in Order(C, turn, v) <=> Ahead(c, d, turn, v)
<1>1. \A c, d \in C : <<c, d>> \in Order(C, turn, v) <=> Ahead(c, d, turn, v)
  BY DEF Order
<1>2. \A c \in C : turn[c] \in Int
  OBVIOUS
<1>3. \A c \in C : ~Ahead(c, c, turn, v)
  BY <1>2, RanksAreStrict DEF Ahead
<1>4. \A c, d \in C : c # d => Ahead(c, d, turn, v) \/ Ahead(d, c, turn, v)
  BY <1>2, RanksAreStrict DEF Ahead
<1>5. ASSUME NEW c \in C, NEW d \in C, NEW e \in C, Ahead(c, d, turn, v), Ahead(d, e, turn, v)
      PROVE  Ahead(c, e, turn, v)
  BY <1>2, <1>5, RanksAreStrict DEF Ahead
<1>6. QED
  BY <1>1, <1>3, <1>4, <1>5 DEF IsStrictOrder

LEMMA FirstInOrderIsFirsts ==
  ASSUME NEW C, IsPool(C), NEW v \in Nat, NEW turn \in [C -> 1..3], NEW k \in Nat
  PROVE  FirstInOrder(C, k, turn, v) = Firsts(k, C, Order(C, turn, v))
<1>1. ASSUME NEW c \in C
      PROVE  {d \in C : Ahead(d, c, turn, v)} = Before(c, C, Order(C, turn, v))
  BY OrderIsStrict DEF Before
<1>2. QED
  BY <1>1 DEF FirstInOrder, Firsts, Place
----
TurnOf(C, v) == [c \in C |-> Turn(c, C, v)]

LEMMA TurnsType ==
  ASSUME NEW C, NEW v
  PROVE  TurnOf(C, v) \in [C -> 1..3]
BY DEF TurnOf, Turn

\* Slots are given in a strict order.
LEMMA AllocatedInOrder ==
  ASSUME NEW C, IsPool(C), NEW v \in Nat, NEW k \in Nat
  PROVE  /\ IsFiniteSet(C)
         /\ IsStrictOrder(C, Order(C, TurnOf(C, v), v))
         /\ \A c, d \in C : <<c, d>> \in Order(C, TurnOf(C, v), v) <=> Ahead(c, d, TurnOf(C, v), v)
         /\ Allocate(C, k, v) = Firsts(k, C, Order(C, TurnOf(C, v), v))
         /\ Allocate(C, k, v) \subseteq C
<1>1. TurnOf(C, v) \in [C -> 1..3]
  BY TurnsType
<1>2. Allocate(C, k, v) = FirstInOrder(C, k, TurnOf(C, v), v)
  BY DEF Allocate, TurnOf
<1>3. FirstInOrder(C, k, TurnOf(C, v), v) \subseteq C
  BY DEF FirstInOrder
<1>4. QED
  BY <1>1, <1>2, <1>3, OrderIsStrict, FirstInOrderIsFirsts DEF IsPool

\* With two slots, every gap that has a candidate is served.
LEMMA GapsServed ==
  ASSUME NEW C, IsPool(C), NEW v \in Nat, NEW k \in Nat, k >= 2, NEW c \in C
  PROVE  \E d \in Allocate(C, k, v) : Gap(d) = Gap(c)
<1> DEFINE R == Order(C, TurnOf(C, v), v)
           Same == {d \in C : Gap(d) = Gap(c)}
<1>1. IsFiniteSet(C) /\ IsStrictOrder(C, R) /\ Allocate(C, k, v) = Firsts(k, C, R)
  BY AllocatedInOrder
<1>2. \A x, y \in C : <<x, y>> \in R <=> Ahead(x, y, TurnOf(C, v), v)
  BY AllocatedInOrder
<1>3. Same \in SUBSET C /\ Same # {}
  OBVIOUS
<1>4. PICK d \in Same : \A e \in Same \ {d} : <<d, e>> \in R
  <2> HIDE DEF Same, R
  <2>1. QED
    BY <1>1, <1>3, OneIsFirst
<1>5. d \in C /\ Gap(d) = Gap(c)
  OBVIOUS
<1>6. Place(d, C, R) < 2
  <2>1. \A x, y \in Before(d, C, R) : x = y
    <3> SUFFICES ASSUME NEW x \in Before(d, C, R), NEW y \in Before(d, C, R), x # y PROVE FALSE
      OBVIOUS
    <3>1. x \in C /\ y \in C /\ <<x, d>> \in R /\ <<y, d>> \in R
      BY DEF Before
    <3>2. Gap(x) # Gap(d) /\ Gap(y) # Gap(d)
      BY <1>1, <1>4, <1>5, <3>1 DEF IsStrictOrder
    <3>3. Gap(x) = Gap(y)
      BY <3>2 DEF Gap
    <3>4. RanksBefore(x, y, v) \/ RanksBefore(y, x, v)
      BY <3>1, RanksAreStrict
    <3>5. TurnOf(C, v)[x] = 3 \/ TurnOf(C, v)[y] = 3
      BY <3>1, <3>3, <3>4 DEF TurnOf, Turn
    <3>6. TurnOf(C, v)[d] < 3
      <4>1. ASSUME NEW e \in C, Gap(e) = Gap(d), RanksBefore(e, d, v) PROVE FALSE
        <5>1. e # d
          BY <1>5, <4>1, RanksAreStrict
        <5>2. Ahead(d, e, TurnOf(C, v), v)
          BY <1>2, <1>4, <1>5, <4>1, <5>1
        <5>3. ~RanksBefore(d, e, v)
          BY <1>5, <4>1, RanksAreStrict
        <5>4. TurnOf(C, v)[d] < TurnOf(C, v)[e]
          BY <5>2, <5>3 DEF Ahead
        <5>5. TurnOf(C, v)[d] = 3
          BY <1>5, <4>1 DEF TurnOf, Turn
        <5>6. TurnOf(C, v)[e] \in 1..3
          BY TurnsType
        <5>7. QED
          BY <5>4, <5>5, <5>6
      <4>2. QED
        BY <1>5, <4>1 DEF TurnOf, Turn
    <3>7. Ahead(x, d, TurnOf(C, v), v) /\ Ahead(y, d, TurnOf(C, v), v)
      BY <1>2, <1>5, <3>1
    <3>8. TurnOf(C, v)[x] \in 1..3 /\ TurnOf(C, v)[y] \in 1..3 /\ TurnOf(C, v)[d] \in 1..3
      BY <1>5, <3>1, TurnsType
    <3>9. QED
      BY <3>5, <3>6, <3>7, <3>8 DEF Ahead
  <2>2. CASE Before(d, C, R) = {}
    BY <2>2, FS_EmptySet DEF Place
  <2>3. CASE Before(d, C, R) # {}
    <3>1. PICK x : Before(d, C, R) = {x}
      BY <2>1, <2>3
    <3>2. Cardinality({x}) = 1
      BY FS_Singleton
    <3>3. QED
      BY <3>1, <3>2 DEF Place
  <2>4. QED
    BY <2>2, <2>3
<1>7. Place(d, C, R) \in Nat
  BY <1>1, PlaceType
<1>8. d \in Firsts(k, C, R)
  BY <1>5, <1>6, <1>7 DEF Firsts
<1>9. QED
  BY <1>1, <1>5, <1>8

\* Nothing is passed over for something less useful that is not the best of its gap.
LEMMA PassedOver ==
  ASSUME NEW C, IsPool(C), NEW v \in Nat, NEW k \in Nat,
         NEW c \in C \ Allocate(C, k, v), NEW d \in Allocate(C, k, v),
         NEW e \in C, Gap(e) = Gap(d), Utility(e, v) > Utility(d, v)
  PROVE  Utility(c, v) <= Utility(d, v)
<1> DEFINE R == Order(C, TurnOf(C, v), v)
<1>1. IsFiniteSet(C) /\ IsStrictOrder(C, R) /\ Allocate(C, k, v) = Firsts(k, C, R) /\ d \in C
  BY AllocatedInOrder
<1>2. <<c, d>> \notin R
  BY <1>1, FirstsAreClosed
<1>3. ~Ahead(c, d, TurnOf(C, v), v) /\ c # d
  BY <1>1, <1>2, AllocatedInOrder
<1>4. RanksBefore(e, d, v)
  <2>1. e \in Identified /\ d \in Identified
    BY <1>1 DEF IsPool
  <2>2. QED
    BY <2>1 DEF RanksBefore
<1>5. TurnOf(C, v)[d] = 3
  BY <1>1, <1>4 DEF TurnOf, Turn
<1>6. TurnOf(C, v)[c] \in 1..3
  BY TurnsType
<1>7. ~RanksBefore(c, d, v)
  BY <1>3, <1>5, <1>6 DEF Ahead
<1>8. RanksBefore(d, c, v)
  BY <1>1, <1>3, <1>7, RanksAreStrict
<1>9. Utility(d, v) >= Utility(c, v) /\ Utility(d, v) \in Int /\ Utility(c, v) \in Int
  BY <1>1, <1>8, RanksAreStrict, UtilityType DEF IsPool
<1>10. QED
  BY <1>9

----
(* What is left of the evidence.                                            *)
----

LEMMA RangeIsFinite ==
  ASSUME NEW S, IsFiniteSet(S), NEW f, DOMAIN f = S
  PROVE  IsFiniteSet({f[x] : x \in S})
<1> DEFINE T == {f[x] : x \in S}
           g == [x \in S |-> f[x]]
<1>1. g \in Surjection(S, T)
  BY DEF Surjection
<1> HIDE DEF g, T
<1>2. IsFiniteSet(T)
  BY <1>1, FS_Surjection
<1>3. QED
  BY <1>2 DEF T

Evidence == [type : IdentifierTypes \cup {"other"}, value : RawValues \cup {""}, score : Int]

\* In a batch, the same identifier has the same score.
IsBatch(B) ==
  /\ B \subseteq Evidence /\ IsFiniteSet(B)
  /\ \A c, d \in B : c.type = d.type /\ Canonical(c.value) = Canonical(d.value) => c.score = d.score
Batches == {B \in SUBSET Evidence : IsBatch(B)}

LEMMA CanonicalType ==
  ASSUME NEW v \in RawValues \cup {""}
  PROVE  Canonical(v) \in DOMAIN Alphabet \cup {""}
<1>1. DOMAIN Alphabet \cap DOMAIN Spelling = {} /\ "" \notin RawValues
       /\ \A w \in DOMAIN Spelling : Spelling[w] \in DOMAIN Alphabet \cup {""}
  BY ValuesAssumption
<1>2. QED
  BY <1>1 DEF Canonical, RawValues

LEMMA CanonicalTwice ==
  ASSUME NEW v \in DOMAIN Alphabet \cup {""}
  PROVE  Canonical(v) = v
<1>1. DOMAIN Alphabet \cap DOMAIN Spelling = {} /\ "" \notin RawValues
  BY ValuesAssumption
<1>2. QED
  BY <1>1 DEF Canonical, RawValues

\* Of one batch, the filter keeps every identifier once.
LEMMA PassingIsPool ==
  ASSUME NEW B, IsBatch(B), NEW t
  PROVE  IsPool(Passing(B, t))
<1> DEFINE D == {d \in B : IsValid(d) /\ d.score >= t /\ Canonical(d.value) # ""}
           f == [c \in D |-> Normal(c)]
<1>1. D \subseteq B /\ IsFiniteSet(D)
  <2>1. D \subseteq B
    OBVIOUS
  <2>2. QED
    BY <2>1, FS_Subset DEF IsBatch
<1>2. Passing(B, t) = {f[c] : c \in D}
  BY DEF Passing
<1>3. IsFiniteSet(Passing(B, t))
  <2>1. DOMAIN f = D
    OBVIOUS
  <2> HIDE DEF D, f
  <2>2. QED
    BY <1>1, <1>2, <2>1, RangeIsFinite
<1>4. ASSUME NEW d \in D PROVE Normal(d) \in Identified
  <2>1. d.value \in RawValues \cup {""} /\ Canonical(d.value) # ""
    BY <1>1 DEF IsBatch, Evidence
  <2>2. Canonical(d.value) \in DOMAIN Alphabet
    BY <2>1, CanonicalType
  <2>3. d.type \in IdentifierTypes /\ d.score \in 0..100
    BY DEF IsValid
  <2>4. QED
    BY <2>2, <2>3 DEF Normal, Identified
<1>5. ASSUME NEW c \in D, NEW d \in D, SameIdentifier(Normal(c), Normal(d)) PROVE Normal(c) = Normal(d)
  <2>1. c.type = d.type /\ Canonical(c.value) = Canonical(d.value)
    BY <1>5 DEF SameIdentifier, Normal
  <2>2. c.score = d.score
    BY <1>1, <2>1 DEF IsBatch
  <2>3. QED
    BY <2>1, <2>2 DEF Normal
<1>6. Passing(B, t) \subseteq Identified /\ \A c, d \in Passing(B, t) : SameIdentifier(c, d) => c = d
  BY <1>2, <1>4, <1>5
<1>7. QED
  BY <1>3, <1>6 DEF IsPool

\* What the filter keeps of one batch.
Fresh(batches, t, i) ==
  {c \in Passing(batches[i], t) : \A j \in 1..(i - 1) : \A d \in Passing(batches[j], t) : ~SameIdentifier(c, d)}

LEMMA FilteredIsPool ==
  ASSUME NEW batches \in Seq(Batches), NEW t
  PROVE  IsPool(Filtered(batches, t))
<1> DEFINE F == Filtered(batches, t)
           n == Len(batches)
           f == [i \in 1..n |-> Fresh(batches, t, i)]
<1>1. n \in Nat /\ DOMAIN batches = 1..n /\ \A i \in 1..n : IsBatch(batches[i])
  BY DEF Batches
<1>2. F = UNION {f[i] : i \in 1..n}
  BY <1>1 DEF Filtered, Fresh
<1>3. \A i \in 1..n : f[i] \subseteq Passing(batches[i], t) /\ IsPool(Passing(batches[i], t))
  BY <1>1, PassingIsPool DEF Fresh
<1>4. IsFiniteSet(F)
  <2>1. IsFiniteSet(1..n)
    BY <1>1, FS_Interval
  <2>2. IsFiniteSet({f[i] : i \in 1..n})
    <3>1. DOMAIN f = 1..n
      OBVIOUS
    <3> HIDE DEF f, n
    <3>2. QED
      BY <2>1, <3>1, RangeIsFinite
  <2>3. \A i \in 1..n : IsFiniteSet(f[i])
    <3>1. ASSUME NEW i \in 1..n PROVE IsFiniteSet(f[i])
      <4>1. f[i] \subseteq Passing(batches[i], t) /\ IsFiniteSet(Passing(batches[i], t))
        BY <1>3 DEF IsPool
      <4> HIDE DEF f
      <4>2. QED
        BY <4>1, FS_Subset
    <3>2. QED
      BY <3>1
  <2>4. \A T \in {f[i] : i \in 1..n} : IsFiniteSet(T)
    BY <2>3
  <2>5. QED
    <3> HIDE DEF f, n
    <3>1. QED
      BY <1>2, <2>2, <2>4, FS_UNION
<1>5. F \subseteq Identified
  BY <1>2, <1>3 DEF IsPool
<1>6. ASSUME NEW c \in F, NEW d \in F, SameIdentifier(c, d) PROVE c = d
  <2>1. PICK i \in 1..n : c \in Fresh(batches, t, i)
    BY <1>2
  <2>2. PICK j \in 1..n : d \in Fresh(batches, t, j)
    BY <1>2
  <2>3. c \in Passing(batches[i], t) /\ d \in Passing(batches[j], t)
    BY <2>1, <2>2 DEF Fresh
  <2>4. SameIdentifier(d, c)
    BY <1>6 DEF SameIdentifier
  <2>5. ~(i < j) /\ ~(j < i)
    BY <1>1, <1>6, <2>1, <2>2, <2>3, <2>4 DEF Fresh
  <2>6. i = j
    BY <2>5
  <2>7. QED
    BY <1>3, <1>6, <2>3, <2>6 DEF IsPool
<1>7. QED
  BY <1>4, <1>5, <1>6 DEF IsPool

\* If anything passes, something is kept.
LEMMA SomethingIsKept ==
  ASSUME NEW batches \in Seq(Batches), NEW t, NEW i \in DOMAIN batches, Passing(batches[i], t) # {}
  PROVE  Filtered(batches, t) # {}
<1> DEFINE G == {j \in 1..Len(batches) : Passing(batches[j], t) # {}}
<1>1. Len(batches) \in Nat /\ DOMAIN batches = 1..Len(batches)
  OBVIOUS
<1>2. PICK j \in G : \A m \in G : j <= m
  <2>1. i \in G /\ G \in SUBSET Nat
    BY <1>1
  <2> HIDE DEF G
  <2>2. QED
    BY <2>1, LeastOf
<1>3. j \in 1..Len(batches) /\ Passing(batches[j], t) # {}
  OBVIOUS
<1>4. ASSUME NEW m \in 1..(j - 1) PROVE Passing(batches[m], t) = {}
  <2>1. m \in 1..Len(batches) /\ ~(j <= m)
    BY <1>1, <1>3
  <2>2. m \notin G
    BY <1>2, <2>1
  <2>3. QED
    BY <2>1, <2>2
<1>5. PICK c : c \in Passing(batches[j], t)
  BY <1>3
<1>6. c \in Fresh(batches, t, j)
  BY <1>4, <1>5 DEF Fresh
<1>7. Fresh(batches, t, j) \subseteq Filtered(batches, t)
  BY <1>1, <1>3 DEF Filtered, Fresh
<1>8. QED
  BY <1>6, <1>7
----
LEMMA NormalFormsType ==
  ASSUME NEW s \in Values
  PROVE  NormalForms(s) \in SUBSET DOMAIN Alphabet /\ IsFiniteSet(NormalForms(s))
<1> DEFINE f == [v \in s |-> Canonical(v)]
<1>1. s \subseteq RawValues /\ IsFiniteSet(s)
  BY DEF Values
<1>2. IsFiniteSet({f[v] : v \in s})
  <2>1. DOMAIN f = s
    OBVIOUS
  <2> HIDE DEF f
  <2>2. QED
    BY <1>1, <2>1, RangeIsFinite
<1>3. NormalForms(s) \subseteq {f[v] : v \in s}
  BY DEF NormalForms
<1>4. IsFiniteSet(NormalForms(s))
  BY <1>2, <1>3, FS_Subset
<1>5. NormalForms(s) \in SUBSET DOMAIN Alphabet
  BY <1>1, CanonicalType DEF NormalForms
<1>6. QED
  BY <1>4, <1>5

LEMMA FoundIsBatch ==
  ASSUME NEW type \in IdentifierTypes, NEW s \in SUBSET RawValues, IsFiniteSet(s), NEW n \in Int
  PROVE  Found(type, s, n) \in Batches
<1> DEFINE f == [v \in s |-> [type |-> type, value |-> v, score |-> n]]
<1>1. Found(type, s, n) = {f[v] : v \in s}
  BY DEF Found
<1>2. IsFiniteSet({f[v] : v \in s})
  <2>1. DOMAIN f = s
    OBVIOUS
  <2> HIDE DEF f
  <2>2. QED
    BY <2>1, RangeIsFinite
<1>3. Found(type, s, n) \subseteq Evidence
  <2>1. \A v \in s : f[v] \in Evidence
    BY DEF Evidence
  <2>2. QED
    BY <1>1, <2>1
<1>4. \A c \in Found(type, s, n) : c.score = n
  BY DEF Found
<1>5. QED
  BY <1>1, <1>2, <1>3, <1>4 DEF IsBatch, Batches

LEMMA TrackersAreBatch ==
  ASSUME NEW s \in SUBSET DOMAIN Alphabet, IsFiniteSet(s)
  PROVE  TrackerPivots(s) \in Batches
<1> DEFINE f == [v \in s |-> [type |-> "tracker", value |-> v, score |-> TrackerConfidence(v)]]
<1>1. TrackerPivots(s) = {f[v] : v \in s}
  BY DEF TrackerPivots, Found
<1>2. IsFiniteSet({f[v] : v \in s})
  <2>1. DOMAIN f = s
    OBVIOUS
  <2> HIDE DEF f
  <2>2. QED
    BY <2>1, RangeIsFinite
<1>3. \A v \in s : f[v] \in Evidence
  <2>1. \A v \in s : TrackerConfidence(v) \in Int
    BY DEF TrackerConfidence
  <2>2. "tracker" \in IdentifierTypes
    BY DEF IdentifierTypes, TypePlace
  <2>3. QED
    BY <2>1, <2>2 DEF Evidence, RawValues
<1>4. ASSUME NEW v \in s, NEW w \in s, Canonical(v) = Canonical(w) PROVE v = w
  BY <1>4, CanonicalTwice
<1>5. \A c \in TrackerPivots(s) : c.value \in s /\ c.score = TrackerConfidence(c.value)
  BY <1>1
<1>6. \A c, d \in TrackerPivots(s) : Canonical(c.value) = Canonical(d.value) => c.score = d.score
  BY <1>4, <1>5
<1>7. QED
  BY <1>1, <1>2, <1>3, <1>6 DEF IsBatch, Batches

\* The nine batches of the baseline.
LEMMA BaselineType ==
  ASSUME NEW whois \in WhoisRecords, NEW intel \in Intels, NEW root
  PROVE  DeterministicPivots(whois, intel, root) \in Seq(Batches)
<1>1. ASSUME NEW type \in IdentifierTypes, NEW s \in Values, NEW u \in SUBSET NormalForms(s), NEW n \in Int
      PROVE  Found(type, u, n) \in Batches
  <2>1. u \in SUBSET RawValues /\ IsFiniteSet(u)
    BY NormalFormsType, FS_Subset DEF RawValues
  <2>2. QED
    BY <2>1, FoundIsBatch
<1>2. ASSUME NEW s \in Values PROVE NormalForms(s) \in SUBSET RawValues /\ IsFiniteSet(NormalForms(s))
  BY NormalFormsType DEF RawValues
<1>0. {"email", "phone", "ns", "org", "name", "tracker"} \subseteq IdentifierTypes
  BY DEF IdentifierTypes, TypePlace
<1>3. /\ whois.emails \in Values /\ whois.phones \in Values /\ whois.nameservers \in Values
      /\ whois.orgs \in Values /\ whois.names \in Values
      /\ intel.aliases \in Values /\ intel.copyright \in Values /\ intel.legal \in Values
      /\ intel.trackers \in Values
  BY EvidenceAssumption
<1>4. WhoisPivots(whois, root) \in Seq(Batches)
  <2>1. Found("email", NormalForms(whois.emails) \ Noise, 80) \in Batches
    <3>1. NormalForms(whois.emails) \ Noise \in SUBSET NormalForms(whois.emails)
      OBVIOUS
    <3>2. QED
      BY <1>0, <1>1, <1>3, <3>1
  <2>2. Found("phone", NormalForms(whois.phones), 60) \in Batches
    BY <1>0, <1>2, <1>3, FoundIsBatch
  <2>3. Found("ns", NormalForms(whois.nameservers) \ (Noise \cup {root}), 65) \in Batches
    <3>1. NormalForms(whois.nameservers) \ (Noise \cup {root}) \in SUBSET NormalForms(whois.nameservers)
      OBVIOUS
    <3>2. QED
      BY <1>0, <1>1, <1>3, <3>1
  <2>4. Found("org", NormalForms(whois.orgs) \ Undisclosed, 75) \in Batches
    <3>1. NormalForms(whois.orgs) \ Undisclosed \in SUBSET NormalForms(whois.orgs)
      OBVIOUS
    <3>2. QED
      BY <1>0, <1>1, <1>3, <3>1
  <2>5. Found("name", NormalForms(whois.names) \ Undisclosed, 65) \in Batches
    <3>1. NormalForms(whois.names) \ Undisclosed \in SUBSET NormalForms(whois.names)
      OBVIOUS
    <3>2. QED
      BY <1>0, <1>1, <1>3, <3>1
  <2>6. QED
    BY <2>1, <2>2, <2>3, <2>4, <2>5 DEF WhoisPivots
<1>5. PagePivots(intel) \in Seq(Batches)
  <2>1. Found("org", intel.aliases, 45) \in Batches
    BY <1>0, <1>3, FoundIsBatch DEF Values
  <2>2. Found("org", NormalForms(intel.copyright), 70) \in Batches
    BY <1>0, <1>2, <1>3, FoundIsBatch
  <2>3. Found("org", NormalForms(intel.legal), 85) \in Batches
    BY <1>0, <1>2, <1>3, FoundIsBatch
  <2>4. TrackerPivots(NormalForms(intel.trackers)) \in Batches
    BY <1>3, NormalFormsType, TrackersAreBatch
  <2>5. QED
    BY <2>1, <2>2, <2>3, <2>4 DEF PagePivots
<1>6. QED
  BY <1>4, <1>5 DEF DeterministicPivots

LEMMA ParsedType ==
  ASSUME NEW output \in ModelOutputs
  PROVE  Parsed(output) \in Seq(Batches)
<1> DEFINE p == output.pivots
<1>1. p \in Seq(Evidence)
  BY EvidenceAssumption DEF Evidence
<1>2. ASSUME NEW c \in Evidence PROVE {c} \in Batches
  BY FS_Singleton DEF IsBatch, Batches
<1>3. \A i \in DOMAIN p : {p[i]} \in Batches
  BY <1>1, <1>2
<1>4. [i \in DOMAIN p |-> {p[i]}] \in Seq(Batches)
  BY <1>1, <1>3
<1>5. QED
  BY <1>4 DEF Parsed

LEMMA CandidatesType ==
  ASSUME NEW whois \in WhoisRecords, NEW intel \in Intels, NEW root, NEW output \in ModelOutputs,
         NEW escalateOnly \in BOOLEAN
  PROVE  Candidates(whois, intel, root, output, escalateOnly) \in Seq(Batches)
BY BaselineType, ParsedType DEF Candidates

\* What makes a baseline strong passes the filter.
LEMMA StrongPasses ==
  ASSUME NEW whois \in WhoisRecords, NEW intel \in Intels, NEW root, NEW t \in Int, t <= StrongScore,
         HasStrong(DeterministicPivots(whois, intel, root))
  PROVE  \E i \in DOMAIN DeterministicPivots(whois, intel, root) :
            Passing(DeterministicPivots(whois, intel, root)[i], t) # {}
<1> DEFINE b == DeterministicPivots(whois, intel, root)
<1>1. PICK i \in DOMAIN b : \E c \in b[i] : c.score >= StrongScore
  BY DEF HasStrong
<1>2. PICK c \in b[i] : c.score >= StrongScore
  BY <1>1
<1>3. ASSUME NEW s \in Values, NEW v \in NormalForms(s) PROVE v # "" /\ Canonical(v) = v
  BY NormalFormsType, CanonicalTwice DEF NormalForms
<1>4. /\ whois.emails \in Values /\ whois.phones \in Values /\ whois.nameservers \in Values
      /\ whois.orgs \in Values /\ whois.names \in Values
      /\ intel.aliases \in Values /\ intel.copyright \in Values /\ intel.legal \in Values
      /\ intel.trackers \in Values
  BY EvidenceAssumption
<1>5. IsValid(c) /\ Canonical(c.value) # ""
  <2> DEFINE w == WhoisPivots(whois, root)  p == PagePivots(intel)
  <2>1. \/ c \in Found("email", NormalForms(whois.emails) \ Noise, 80)
        \/ c \in Found("org", NormalForms(whois.orgs) \ Undisclosed, 75)
        \/ c \in Found("org", NormalForms(intel.legal), 85)
        \/ c \in TrackerPivots(NormalForms(intel.trackers))
    BY <1>1, <1>2 DEF Found, StrongScore, DeterministicPivots, WhoisPivots, PagePivots
  <2>2. CASE c \in Found("email", NormalForms(whois.emails) \ Noise, 80)
    <3>1. PICK v \in NormalForms(whois.emails) \ Noise : c = [type |-> "email", value |-> v, score |-> 80]
      BY <2>2 DEF Found
    <3>2. v # "" /\ Canonical(v) = v /\ v \notin Noise
      BY <1>3, <1>4
    <3>3. c.score \in 0..100
      BY <3>1
    <3>4. c.type \in IdentifierTypes /\ c.value = v
      BY <3>1 DEF IdentifierTypes, TypePlace
    <3>5. c.type \in {"ns", "email"} => v \notin Noise
      BY <3>1, <3>2
    <3>6. QED
      BY <3>2, <3>3, <3>4, <3>5 DEF IsValid
  <2>3. CASE c \in Found("org", NormalForms(whois.orgs) \ Undisclosed, 75)
    <3>1. PICK v \in NormalForms(whois.orgs) \ Undisclosed : c = [type |-> "org", value |-> v, score |-> 75]
      BY <2>3 DEF Found
    <3>2. v # "" /\ Canonical(v) = v
      BY <1>3, <1>4
    <3>3. c.score \in 0..100
      BY <3>1
    <3>4. c.type \in IdentifierTypes /\ c.value = v
      BY <3>1 DEF IdentifierTypes, TypePlace
    <3>5. c.type \in {"ns", "email"} => v \notin Noise
      BY <3>1, <3>2
    <3>6. QED
      BY <3>2, <3>3, <3>4, <3>5 DEF IsValid
  <2>4. CASE c \in Found("org", NormalForms(intel.legal), 85)
    <3>1. PICK v \in NormalForms(intel.legal) : c = [type |-> "org", value |-> v, score |-> 85]
      BY <2>4 DEF Found
    <3>2. v # "" /\ Canonical(v) = v
      BY <1>3, <1>4
    <3>3. c.score \in 0..100
      BY <3>1
    <3>4. c.type \in IdentifierTypes /\ c.value = v
      BY <3>1 DEF IdentifierTypes, TypePlace
    <3>5. c.type \in {"ns", "email"} => v \notin Noise
      BY <3>1, <3>2
    <3>6. QED
      BY <3>2, <3>3, <3>4, <3>5 DEF IsValid
  <2>5. CASE c \in TrackerPivots(NormalForms(intel.trackers))
    <3>1. PICK v \in NormalForms(intel.trackers) :
            c = [type |-> "tracker", value |-> v, score |-> TrackerConfidence(v)]
      BY <2>5 DEF TrackerPivots, Found
    <3>2. TrackerConfidence(v) \in 0..100
      BY DEF TrackerConfidence
    <3>3. QED
      BY <1>3, <1>4, <3>1, <3>2 DEF IsValid, IdentifierTypes, TypePlace
  <2>6. QED
    BY <2>1, <2>2, <2>3, <2>4, <2>5
<1>6. c.score >= t
  <2>1. c.score \in Int
    <3>1. c.score \in 0..100
      BY <1>5 DEF IsValid
    <3>2. QED
      BY <3>1
  <2>2. QED
    BY <1>2, <2>1 DEF StrongScore
<1>7. Normal(c) \in Passing(b[i], t)
  BY <1>5, <1>6 DEF Passing
<1>8. QED
  BY <1>7

\* For any evidence: a baseline strong enough to spare the model leaves a pivot, if
\* the score asked for is not above what counts as strong.
THEOREM StrongBaselineYields == AlgorithmsSpec => []SkippingYieldsPivots
<1>1. InputInv => SkippingYieldsPivots
  <2> DEFINE b == DeterministicPivots(input.whois, input.intel, Root)
             all == Candidates(input.whois, input.intel, Root, input.output, input.escalateOnly)
  <2> SUFFICES ASSUME InputInv, subject = "domain", HasStrong(b), input.threshold <= StrongScore, input.topK > 0
               PROVE  Pivots # {}
    BY DEF SkippingYieldsPivots
  <2>1. /\ input.whois \in WhoisRecords /\ input.intel \in Intels /\ input.output \in ModelOutputs
        /\ input.threshold \in Int /\ input.topK \in Nat /\ input.verifications \in Nat
        /\ input.escalateOnly \in BOOLEAN
    BY EvidenceAssumption DEF InputInv, DomainInputs
  <2>2. all \in Seq(Batches) /\ b \in Seq(Batches) /\ Parsed(input.output) \in Seq(Batches)
    BY <2>1, CandidatesType, BaselineType, ParsedType
  <2>3. PICK i \in DOMAIN b : Passing(b[i], input.threshold) # {}
    BY <2>1, StrongPasses
  <2>4. i \in DOMAIN all /\ all[i] = b[i]
    BY <2>2 DEF Candidates
  <2>5. Filtered(all, input.threshold) # {} /\ IsPool(Filtered(all, input.threshold))
    BY <2>2, <2>3, <2>4, SomethingIsKept, FilteredIsPool
  <2>6. Allocate(Filtered(all, input.threshold), input.topK, input.verifications) # {}
    BY <2>1, <2>5, AllocatedInOrder, FirstsExist
  <2>7. QED
    BY <2>6 DEF Pivots, SelectPivots
<1>2. QED
  BY <1>1, InputsAlways, PTL

\* For any evidence and any number of slots, allocate_pivots leaves no slot empty,
\* no gap unserved and nothing passed over for something less useful.
THEOREM SlotsAreSpentWell == AlgorithmsSpec => []AllocationServesGaps
<1>1. InputInv => AllocationServesGaps
  <2> DEFINE C == Eligible  k == input.topK  v == input.verifications
             A == Allocate(C, k, v)
  <2> SUFFICES ASSUME InputInv, subject = "domain" PROVE ServesGaps(C, A)
    BY DEF AllocationServesGaps, Pivots, SelectPivots, Eligible
  <2>1. /\ input.whois \in WhoisRecords /\ input.intel \in Intels /\ input.output \in ModelOutputs
        /\ k \in Nat /\ v \in Nat /\ input.escalateOnly \in BOOLEAN
    BY EvidenceAssumption DEF InputInv, DomainInputs
  <2>2. IsPool(C)
    BY <2>1, CandidatesType, FilteredIsPool DEF Eligible
  <2>3. C \ A # {} => Cardinality(A) = k
    BY <2>1, <2>2, AllocatedInOrder, FirstsFill
  <2>4. ASSUME k >= 2 PROVE {Gap(c) : c \in C \ A} \subseteq {Gap(c) : c \in A}
    BY <2>1, <2>2, <2>4, GapsServed
  <2>5. ASSUME NEW c \in C \ A, NEW d \in A, NEW e \in A \ {d}, Gap(e) = Gap(d), Utility(e, v) > Utility(d, v)
        PROVE  Utility(c, v) <= Utility(d, v)
    <3>1. e \in C
      BY <2>1, <2>2, AllocatedInOrder
    <3>2. QED
      BY <2>1, <2>2, <2>5, <3>1, PassedOver
  <2>6. QED
    BY <2>3, <2>4, <2>5 DEF ServesGaps
<1>2. QED
  BY <1>1, InputsAlways, PTL

----
(* The plan and the run.                                                    *)
----

LEMMA ProvidersFinite ==
  ASSUME NEW some \in SUBSET DOMAIN Registry
  PROVE  IsFiniteSet(some) /\ Cardinality(some) \in Nat /\ some \in SUBSET Nat
<1>1. DOMAIN Registry = 1..Len(Registry) /\ Len(Registry) \in Nat
  BY RegistryAssumption
<1>2. IsFiniteSet(1..Len(Registry))
  BY <1>1, FS_Interval
<1>3. IsFiniteSet(some)
  BY <1>1, <1>2, FS_Subset
<1>4. QED
  BY <1>1, <1>3, FS_CardinalityType

LEMMA NoMoreThan ==
  ASSUME NEW some \in SUBSET DOMAIN Registry, NEW others \in SUBSET some
  PROVE  Cardinality(others) <= Cardinality(some)
BY ProvidersFinite, FS_Subset

\* One provider is the first, if there is any.
LEMMA FirstIsOne ==
  ASSUME NEW some \in SUBSET DOMAIN Registry
  PROVE  /\ FirstOf(some, Registry) \subseteq some
         /\ Cardinality(FirstOf(some, Registry)) \in {0, 1}
         /\ some # {} => FirstOf(some, Registry) # {}
<1> DEFINE F == FirstOf(some, Registry)
           Paid == {i \in some : Registry[i].tier = "paid"}
           Best == IF Paid = {} THEN some ELSE Paid
<1>1. some \in SUBSET Nat
  BY ProvidersFinite
<1>2. F \subseteq some
  BY DEF FirstOf
<1>3. \A i, j \in F : i = j
  BY <1>1 DEF FirstOf, Comes
<1>4. Cardinality(F) \in {0, 1}
  <2>1. CASE F = {}
    BY <2>1, FS_EmptySet
  <2>2. CASE F # {}
    <3>1. PICK i : F = {i}
      BY <1>3, <2>2
    <3>2. QED
      BY <3>1, FS_Singleton
  <2>3. QED
    BY <2>1, <2>2
<1>5. ASSUME some # {} PROVE F # {}
  <2>1. Best \in SUBSET Nat /\ Best # {} /\ Best \subseteq some
    BY <1>1, <1>5
  <2>2. PICK i \in Best : \A j \in Best : i <= j
    <3> HIDE DEF Best
    <3>1. QED
      BY <2>1, LeastOf
  <2>3. ASSUME NEW j \in some \ {i} PROVE Comes(i, j, Registry)
    <3>1. i \in Nat /\ j \in Nat /\ i \in some
      BY <1>1, <2>1
    <3>2. CASE Paid = {}
      <4>1. i < j /\ Registry[i].tier # "paid" /\ Registry[j].tier # "paid"
        BY <2>2, <3>1, <3>2
      <4>2. QED
        BY <4>1 DEF Comes
    <3>3. CASE Paid # {}
      <4>1. Registry[i].tier = "paid" /\ (Registry[j].tier = "paid" => i < j)
        BY <2>2, <3>1, <3>3
      <4>2. QED
        BY <4>1 DEF Comes
    <3>4. QED
      BY <3>2, <3>3
  <2>4. i \in F
    BY <2>1, <2>3 DEF FirstOf
  <2>5. QED
    BY <2>4
<1>6. QED
  BY <1>2, <1>4, <1>5

\* What a run asks, the plan counts on.
LEMMA PickedAreUsable ==
  ASSUME NEW env, NEW profile, NEW approved \in BOOLEAN, NEW capability
  PROVE  /\ PickAll(capability, Registry, env, profile = "byok" /\ approved)
              \subseteq For(capability, Registry, Usable(Registry, env, profile, approved))
         /\ For(capability, Registry, Usable(Registry, env, profile, approved)) \subseteq DOMAIN Registry
<1> DEFINE there == {i \in For(capability, Registry, DOMAIN Registry) : IsAvailable(Registry[i], env)}
           pinned == {i \in there : Registry[i].name = env.pins[capability]}
           allow == profile = "byok" /\ approved
<1>1. FirstOf(pinned, Registry) \subseteq there
  BY DEF FirstOf
<1>2. ASSUME NEW i \in PickAll(capability, Registry, env, allow)
      PROVE  i \in For(capability, Registry, Usable(Registry, env, profile, approved))
  <2>1. i \in there /\ (allow \/ ~Registry[i].billable)
    BY <1>1 DEF PickAll
  <2>2. i \in DOMAIN Registry /\ Registry[i].capability = capability /\ IsAvailable(Registry[i], env)
    BY <2>1 DEF For
  <2>3. IsPaid(Registry[i]) => allow
    BY <2>1, <2>2, RegistryAssumption DEF IsPaid
  <2>4. QED
    BY <2>2, <2>3 DEF For, Usable
<1>3. For(capability, Registry, Usable(Registry, env, profile, approved)) \subseteq DOMAIN Registry
  BY DEF For, Usable
<1>4. QED
  BY <1>2, <1>3

LEMMA PickedIsOne ==
  ASSUME NEW env, NEW profile, NEW approved \in BOOLEAN, NEW capability
  PROVE  LET picked == Pick(capability, Registry, env, profile = "byok" /\ approved)
             one == FirstOf(For(capability, Registry, Usable(Registry, env, profile, approved)), Registry)
         IN Cardinality(picked) \in {0, 1} /\ (one = {} => Cardinality(picked) = 0)
<1> DEFINE all == PickAll(capability, Registry, env, profile = "byok" /\ approved)
           usable == For(capability, Registry, Usable(Registry, env, profile, approved))
<1>1. all \subseteq usable /\ usable \subseteq DOMAIN Registry
  BY PickedAreUsable
<1> HIDE DEF all, usable
<1>2. Cardinality(FirstOf(all, Registry)) \in {0, 1} /\ FirstOf(all, Registry) \subseteq all
  BY <1>1, FirstIsOne
<1>3. ASSUME FirstOf(usable, Registry) = {} PROVE Cardinality(FirstOf(all, Registry)) = 0
  <2>1. usable = {}
    BY <1>1, <1>3, FirstIsOne
  <2>2. FirstOf(all, Registry) = {}
    BY <1>1, <1>2, <2>1
  <2>3. QED
    BY <2>2, FS_EmptySet
<1>4. QED
  BY <1>2, <1>3 DEF Pick, all, usable

\* A domain has no more pivots of some types than pivots.
LEMMA PivotsOf ==
  ASSUME NEW pivots \in PivotMixes, NEW types
  PROVE  Of(pivots, types) \in Nat /\ Of(pivots, types) <= Len(pivots)
<1> DEFINE K == {k \in DOMAIN pivots : pivots[k] \in types}
<1>1. DOMAIN pivots = 1..Len(pivots) /\ Len(pivots) \in Nat
  BY RegistryAssumption
<1>2. \A n \in Nat : IsFiniteSet(1..n) /\ Cardinality(1..n) = n
  <2> TAKE n \in Nat
  <2>1. IsFiniteSet(1..n) /\ Cardinality(1..n) = (IF 1 > n THEN 0 ELSE n - 1 + 1)
    BY FS_Interval
  <2>2. QED
    BY <2>1
<1>3. K \subseteq 1..Len(pivots)
  BY <1>1
<1>4. IsFiniteSet(K) /\ Cardinality(K) <= Len(pivots)
  BY <1>1, <1>2, <1>3, FS_Subset
<1>5. QED
  BY <1>4, FS_CardinalityType DEF Of

LEMMA Products ==
  ASSUME NEW a \in Nat, NEW b \in Nat, NEW c \in Nat, NEW d \in Nat, a <= b, c <= d
  PROVE  a * c <= b * d /\ a * c \in Nat /\ b * d \in Nat
<1>1. a * c <= b * c
  BY Z3
<1>2. b * c <= b * d
  BY Z3
<1>3. a * c \in Nat /\ b * c \in Nat /\ b * d \in Nat
  BY Z3
<1>4. QED
  BY <1>1, <1>2, <1>3

\* Capability by capability: what the runtime was wired with is among what the plan
\* counted, and each provider is asked no oftener than the plan assumed.
LEMMA PlanCovers ==
  ASSUME NEW s \in PlanSettings, NEW env, NEW approved \in BOOLEAN, NEW pivots \in PivotMixes,
         Len(pivots) <= s.topK
  PROVE  LET plan == Plan(s, Registry, env, approved)
             runtime == Runtime(s, Registry, env, approved)
             asked == Asked(s, Registry, runtime, pivots)
         IN /\ \A c \in DOMAIN asked \ {"acquisitions"} : asked[c] <= PlannedFor(plan, c)
            /\ asked.acquisitions <= (1 + MaxRelated) * PlannedFor(plan, "acquisitions")
<1> DEFINE usable == Usable(Registry, env, s.profile, approved)
           r == Runtime(s, Registry, env, approved)
           asked == Asked(s, Registry, r, pivots)
           planned(c) == PlannedFor(Plan(s, Registry, env, approved), c)
           All(c) == For(c, Registry, usable)
           One(c) == FirstOf(All(c), Registry)
           allow == s.profile = "byok" /\ approved
<1>1. s.topK \in Nat /\ s.perIdentifier \in Nat /\ Len(pivots) \in Nat
  BY RegistryAssumption
<1>2. ASSUME NEW c PROVE All(c) \in SUBSET DOMAIN Registry
  BY PickedAreUsable
<1>3. ASSUME NEW c
      PROVE  /\ Cardinality(All(c)) \in Nat /\ Cardinality(PickAll(c, Registry, env, allow)) \in Nat
             /\ Cardinality(PickAll(c, Registry, env, allow)) <= Cardinality(All(c))
             /\ All(c) = {} => Cardinality(PickAll(c, Registry, env, allow)) = 0
             /\ PickAll(c, Registry, env, allow) \in SUBSET DOMAIN Registry
  <2>1. PickAll(c, Registry, env, allow) \subseteq All(c) /\ All(c) \in SUBSET DOMAIN Registry
    BY PickedAreUsable
  <2> HIDE DEF All, allow
  <2>2. QED
    BY <2>1, ProvidersFinite, NoMoreThan, FS_EmptySet
<1>4. ASSUME NEW c
      PROVE  /\ Cardinality(Pick(c, Registry, env, allow)) \in {0, 1}
             /\ One(c) = {} => Cardinality(Pick(c, Registry, env, allow)) = 0
  BY PickedIsOne
<1>5. ASSUME NEW types PROVE Of(pivots, types) \in Nat /\ Of(pivots, types) <= s.topK
  BY <1>1, PivotsOf
<1>6. /\ planned("whois") = Step(All("whois"), Cardinality(All("whois"))).calls
      /\ planned("basic_info") = Step(One("basic_info"), 1).calls
      /\ planned("dns") = Step(One("dns"), 1).calls
      /\ planned("subdomains") =
           Step(IF s.subdomains THEN All("subdomains") ELSE {}, Cardinality(All("subdomains"))).calls
      /\ planned("historical_web") = Step(IF s.history THEN One("historical_web") ELSE {}, 1).calls
      /\ planned("reverse_whois") = Step(One("reverse_whois"), s.topK).calls
      /\ planned("tracker_verification") =
           Step(IF One("reverse_whois") = {} THEN {} ELSE One("basic_info"), s.topK * s.perIdentifier).calls
      /\ planned("acquisitions") =
           Step(IF s.acquisitions THEN All("acquisitions") ELSE {}, Cardinality(All("acquisitions")) * s.topK).calls
  BY DEF Plan, PlannedFor, Steps, AcquisitionsPlanned
<1>7. ASSUME NEW some, NEW n \in Nat
      PROVE  /\ Step(some, n).calls = (IF some = {} THEN 0 ELSE n)
  BY <1>7 DEF Step
<1>8. /\ r.whois = PickAll("whois", Registry, env, allow)
      /\ r.basic = Pick("basic_info", Registry, env, allow)
      /\ r.dns = Pick("dns", Registry, env, allow)
      /\ r.reverse = Pick("reverse_whois", Registry, env, allow)
      /\ r.history = Pick("historical_web", Registry, env, allow)
      /\ r.acquisitions = PickAll("acquisitions", Registry, env, allow)
  BY DEF Runtime
<1>9. /\ DOMAIN asked = {"whois", "basic_info", "dns", "subdomains", "historical_web", "reverse_whois",
                         "tracker_verification", "acquisitions"}
      /\ asked.whois = Cardinality(r.whois) /\ asked.basic_info = Cardinality(r.basic)
      /\ asked.dns = Cardinality(r.dns)
      /\ asked.subdomains = (IF s.subdomains THEN Cardinality(r.subdomains) ELSE 0)
      /\ asked.historical_web = (IF s.history THEN Cardinality(r.history) ELSE 0)
      /\ asked.reverse_whois = Searches(r, pivots)
      /\ asked.tracker_verification = Checks(s, r, pivots)
      /\ asked.acquisitions = Expansions(s, r, pivots) + Resolutions(s, Registry, r, pivots)
  BY DEF Asked
<1>10. Cardinality(r.subdomains) <= Cardinality(All("subdomains")) /\ Cardinality(r.subdomains) \in Nat
        /\ (All("subdomains") = {} => Cardinality(r.subdomains) = 0)
  <2>1. r.subdomains \subseteq All("subdomains")
    <3>1. ASSUME NEW i \in r.subdomains PROVE i \in All("subdomains")
      <4>1. i \in DOMAIN Registry /\ Registry[i].capability = "subdomains" /\ IsAvailable(Registry[i], env)
        BY DEF Runtime, For
      <4>2. ~IsPaid(Registry[i])
        BY <4>1, RegistryAssumption DEF IsPaid
      <4>3. QED
        BY <4>1, <4>2 DEF For, Usable
    <3>2. QED
      BY <3>1
  <2>2. All("subdomains") \in SUBSET DOMAIN Registry
    BY <1>2
  <2> HIDE DEF All, r
  <2>3. QED
    BY <2>1, <2>2, ProvidersFinite, NoMoreThan, FS_EmptySet
<1> HIDE DEF usable, r, asked, planned, All, One, allow
<1>11. asked.whois <= planned("whois")
  BY <1>3, <1>6, <1>7, <1>8, <1>9
<1>12. asked.basic_info <= planned("basic_info") /\ asked.dns <= planned("dns")
  BY <1>4, <1>6, <1>7, <1>8, <1>9
<1>13. asked.subdomains <= planned("subdomains")
  BY <1>3, <1>6, <1>7, <1>9, <1>10
<1>14. asked.historical_web <= planned("historical_web")
  BY <1>4, <1>6, <1>7, <1>8, <1>9
<1>15. asked.reverse_whois <= planned("reverse_whois")
  <2> DEFINE n == Of(pivots, {"email", "phone", "tracker"})
             q == Cardinality(r.reverse)
  <2>1. n \in Nat /\ n <= s.topK
    BY <1>5
  <2>2. q \in {0, 1} /\ (One("reverse_whois") = {} => q = 0)
    BY <1>4, <1>8
  <2>3. asked.reverse_whois = q * n
    BY <1>9 DEF Searches
  <2>4. planned("reverse_whois") = (IF One("reverse_whois") = {} THEN 0 ELSE s.topK)
    BY <1>1, <1>6, <1>7
  <2> HIDE DEF n, q
  <2>5. q = 0 \/ q = 1
    BY <2>2
  <2>6. QED
    BY <1>1, <2>1, <2>2, <2>3, <2>4, <2>5
<1>16. asked.tracker_verification <= planned("tracker_verification")
  <2> DEFINE n == Of(pivots, {"tracker"})
             q == Cardinality(r.reverse)  b == Cardinality(r.basic)  x == n * s.perIdentifier
             y == s.topK * s.perIdentifier
  <2>1. n \in Nat /\ n <= s.topK
    BY <1>5
  <2>2. x <= y /\ x \in Nat /\ y \in Nat
    BY <1>1, <2>1, Products
  <2>3. q \in {0, 1} /\ b \in {0, 1} /\ (One("reverse_whois") = {} => q = 0) /\ (One("basic_info") = {} => b = 0)
    BY <1>4, <1>8
  <2>4. asked.tracker_verification = q * b * x
    BY <1>9 DEF Checks
  <2>5. planned("tracker_verification") =
          (IF (IF One("reverse_whois") = {} THEN {} ELSE One("basic_info")) = {} THEN 0 ELSE y)
    BY <1>6, <1>7, <2>2
  <2> HIDE DEF n, q, b, x, y
  <2>6. (q = 0 \/ q = 1) /\ (b = 0 \/ b = 1)
    BY <2>3
  <2>7. QED
    BY <2>2, <2>3, <2>4, <2>5, <2>6
<1>17. asked.acquisitions <= (1 + MaxRelated) * planned("acquisitions")
  <2> DEFINE n == Of(pivots, {"org"})
             q == Cardinality(r.acquisitions)  a == Cardinality(All("acquisitions"))
             others == {i \in r.acquisitions : Registry[i].name # "wikidata"}
             o == Cardinality(others)
             y == a * s.topK
  <2>1. n \in Nat /\ n <= s.topK
    BY <1>5
  <2>2. q \in Nat /\ a \in Nat /\ q <= a /\ (All("acquisitions") = {} => q = 0)
    BY <1>3, <1>8
  <2>3. o \in Nat /\ o <= q
    <3>1. r.acquisitions \in SUBSET DOMAIN Registry
      BY <1>3, <1>8
    <3>2. others \in SUBSET r.acquisitions
      OBVIOUS
    <3> HIDE DEF others
    <3>3. QED
      BY <3>1, <3>2, ProvidersFinite, NoMoreThan
  <2>4. q * n <= y /\ o * n <= y /\ y \in Nat /\ q * n \in Nat /\ o * n \in Nat
    <3>1. y = a * s.topK
      OBVIOUS
    <3> HIDE DEF n, q, a, o, y
    <3>2. q * n <= y /\ y \in Nat /\ q * n \in Nat
      BY <1>1, <2>1, <2>2, <3>1, Products
    <3>3. o <= a
      BY <2>2, <2>3
    <3>4. o * n <= y /\ o * n \in Nat
      BY <1>1, <2>1, <2>2, <2>3, <3>1, <3>3, Products
    <3>5. QED
      BY <3>2, <3>4
  <2>5. Expansions(s, r, pivots) = (IF s.acquisitions THEN q * n ELSE 0)
    BY DEF Expansions
  <2>6. \/ Resolutions(s, Registry, r, pivots) = 0
        \/ s.acquisitions /\ Resolutions(s, Registry, r, pivots) = MaxRelated * (o * n)
    BY DEF Resolutions
  <2>7. planned("acquisitions") = (IF (IF s.acquisitions THEN All("acquisitions") ELSE {}) = {} THEN 0 ELSE y)
    BY <1>6, <1>7, <2>4
  <2>8. All("acquisitions") = {} => q * n = 0 /\ o * n = 0
    BY <2>1, <2>2, <2>3
  <2> HIDE DEF n, q, a, o, others, y
  <2>9. /\ Expansions(s, r, pivots) \in Nat /\ Resolutions(s, Registry, r, pivots) \in Nat
        /\ planned("acquisitions") \in Nat
        /\ Expansions(s, r, pivots) <= planned("acquisitions")
        /\ Resolutions(s, Registry, r, pivots) <= MaxRelated * planned("acquisitions")
    BY <2>4, <2>5, <2>6, <2>7, <2>8 DEF MaxRelated
  <2>10. QED
    BY <1>9, <2>9 DEF MaxRelated
<1>18. \A c \in DOMAIN asked \ {"acquisitions"} : asked[c] <= planned(c)
  BY <1>9, <1>11, <1>12, <1>13, <1>14, <1>15, <1>16
<1>19. QED
  BY <1>17, <1>18 DEF asked, planned, r

\* For any registry, keys, pins and approval: the look-ups of organisations are all that
\* build_query_plan leaves out of what it announces for a domain, and come to at most
\* MaxRelated for each corporate call that it does announce.
THEOREM PlanMissesNoOtherCall == AlgorithmsSpec => []PlanMissesLookUpsOnly
<1>1. InputInv => PlanMissesLookUpsOnly
  <2> SUFFICES ASSUME InputInv, subject = "run"
               PROVE  LET plan == Plan(input.settings, Registry, input.env, input.approved)
                          runtime == Runtime(input.settings, Registry, input.env, input.approved)
                          asked == Asked(input.settings, Registry, runtime, input.pivots)
                      IN /\ \A c \in DOMAIN asked \ {"acquisitions"} : asked[c] <= PlannedFor(plan, c)
                         /\ asked.acquisitions <= (1 + MaxRelated) * PlannedFor(plan, "acquisitions")
    BY DEF PlanMissesLookUpsOnly
  <2>1. /\ input.settings \in PlanSettings /\ input.approved \in BOOLEAN /\ input.pivots \in PivotMixes
        /\ Len(input.pivots) <= input.settings.topK
    BY DEF InputInv, RunInputs
  <2>2. QED
    BY <2>1, PlanCovers
<1>2. QED
  BY <1>1, InputsAlways, PTL
====
