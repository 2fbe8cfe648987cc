---- MODULE ConfigStore ----
(***************************************************************************)
(* ~/.reconrelate/config.json, the persisted environment: `config set`,    *)
(* `config unset` and the `model` commands read the whole file, change one *)
(* name and replace the file by a temporary one whose name they share.     *)
(* There is no lock.  Files are inodes under two names, so that a process  *)
(* goes on writing to a file another one has moved.                        *)
(***************************************************************************)
EXTENDS Integers, FiniteSets

CONSTANTS
  Procs,
  Edits,        \* what a command does: [name, op, value]; the edits of the model
                \* profiles add to or take from the set of profiles under one name
  NoValue       \* the value of a name the file does not have

Names == {e.name : e \in Edits}
Inodes == 0 .. Cardinality(Procs) + 2
NoFile == -1
Empty == [n \in Names |-> NoValue]

\* What a file holds: text that is not JSON (cut short, or of two writers) or the
\* values of the names.
Broken == [whole |-> FALSE, values |-> Empty]
Whole(values) == [whole |-> TRUE, values |-> values]

VARIABLES
  names,              \* the directory: names.config and names.tmp, an inode or NoFile
  content,            \* [Inodes -> what it holds]
  edit, read, store, fd, cstep,  \* of each process: its edit, the values and the profiles
                      \* it read, the inode it has open, its step
  saved, overlapped   \* history: the acknowledged edits, applied one by one; whether
                      \* two edits were ever under way together

ConfigInit ==
  /\ names = [config |-> NoFile, tmp |-> NoFile]
  /\ content = [i \in Inodes |-> Broken]
  /\ edit = [p \in Procs |-> CHOOSE e \in Edits : TRUE]
  /\ read = [p \in Procs |-> Empty]
  /\ store = [p \in Procs |-> NoValue]
  /\ fd = [p \in Procs |-> NoFile]
  /\ cstep = [p \in Procs |-> "idle"]
  /\ saved = Empty
  /\ overlapped = FALSE

\* A file that is missing or does not parse is an empty configuration.
LoadConfig ==
  IF names.config = NoFile \/ ~content[names.config].whole THEN Empty
  ELSE content[names.config].values

Profiles(value) == IF value = NoValue THEN {} ELSE value

\* What the edit e makes of the values, when the profiles were read as `profiles`:
\* set_value, unset_value, and add_profile, use_profile, remove_profile.
Edited(e, values, profiles) ==
  [values EXCEPT ![e.name] =
     CASE e.op = "set" -> e.value
       [] e.op = "unset" -> NoValue
       [] e.op = "add" -> Profiles(profiles) \cup {e.value}
       [] e.op = "remove" -> Profiles(profiles) \ {e.value}]

Referenced == {names.config, names.tmp} \cup {fd[p] : p \in Procs}
NewInode == CHOOSE i \in Inodes : i \notin Referenced

CStep(p, step) == cstep' = [cstep EXCEPT ![p] = step]

\* load_store: the profiles are read first; save_store reads the file again.
\* `model remove` of a profile that is not there is an error.
BeginEdit(p, e) ==
  /\ cstep[p] = "idle"
  /\ e.op = "remove" => e.value \in Profiles(LoadConfig[e.name])
  /\ edit' = [edit EXCEPT ![p] = e]
  /\ store' = [store EXCEPT ![p] = LoadConfig[e.name]]
  /\ overlapped' = (overlapped \/ \E q \in Procs : cstep[q] # "idle")
  /\ CStep(p, "load")
  /\ UNCHANGED <<names, content, read, fd, saved>>

Load(p) ==
  /\ cstep[p] = "load"
  /\ read' = [read EXCEPT ![p] = LoadConfig]
  /\ CStep(p, "open")
  /\ UNCHANGED <<names, content, edit, store, fd, saved, overlapped>>

\* Faulty: the configuration file itself is opened for writing.
OpenInPlace(p) ==
  LET i == IF names.config = NoFile THEN NewInode ELSE names.config
  IN /\ names' = [config |-> i, tmp |-> i]
     /\ content' = [content EXCEPT ![i] = Broken]
     /\ fd' = [fd EXCEPT ![p] = i]

\* tmp.write_text truncates the file of that name, or makes one.
OpenTemporary(p) ==
  LET i == IF names.tmp = NoFile THEN NewInode ELSE names.tmp
  IN /\ names' = [names EXCEPT !.tmp = i]
     /\ content' = [content EXCEPT ![i] = Broken]
     /\ fd' = [fd EXCEPT ![p] = i]

Open(p) ==
  /\ cstep[p] = "open"
  /\ OpenTemporary(p)
  /\ CStep(p, "write")
  /\ UNCHANGED <<edit, read, store, saved, overlapped>>

\* The text is written when the file is closed.  Over the text of another writer
\* it may end before that text does.
Write(p) ==
  /\ cstep[p] = "write"
  /\ LET mine == Whole(Edited(edit[p], read[p], store[p]))
     IN \/ content' = [content EXCEPT ![fd[p]] = mine]
        \/ content[fd[p]].whole /\ content[fd[p]] # mine /\ content' = [content EXCEPT ![fd[p]] = Broken]
  /\ CStep(p, "replace")
  /\ UNCHANGED <<names, edit, read, store, fd, saved, overlapped>>

EndEdit(p) ==
  /\ CStep(p, "idle")
  /\ fd' = [fd EXCEPT ![p] = NoFile]
  /\ read' = [read EXCEPT ![p] = Empty]
  /\ store' = [store EXCEPT ![p] = NoValue]
  /\ UNCHANGED <<content, edit, overlapped>>

\* os.replace: the command has succeeded.
Replace(p) ==
  /\ cstep[p] = "replace" /\ names.tmp # NoFile
  /\ names' = [config |-> names.tmp, tmp |-> NoFile]
  /\ saved' = Edited(edit[p], saved, saved[edit[p].name])
  /\ EndEdit(p)

\* os.replace finds no temporary file: another command has moved it.
ReplaceFails(p) ==
  /\ cstep[p] = "replace" /\ names.tmp = NoFile
  /\ EndEdit(p)
  /\ UNCHANGED <<names, saved>>

KillEdit(p) ==
  /\ cstep[p] # "idle"
  /\ EndEdit(p)
  /\ UNCHANGED <<names, saved>>

EditStep(p) ==
  Load(p) \/ Open(p) \/ Write(p) \/ Replace(p) \/ ReplaceFails(p)

\* As long as no two edits overlapped, the file is whole and holds what every
\* acknowledged command left, whichever commands were killed half way.
ConfigKept ==
  overlapped \/ LoadConfig = saved
====
