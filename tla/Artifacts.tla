---- MODULE Artifacts ----
(***************************************************************************)
(* The artifacts of one domain in one directory: <domain>-<n>.md of a run, *)
(* <domain>-<n>.tree.txt, .graph.json and .report.md of an export.  The    *)
(* number is one more than the highest in the directory when it is listed. *)
(***************************************************************************)
EXTENDS Integers, Sequences, FiniteSets, FiniteSetsExt

CONSTANTS
  Procs,
  MaxIndex      \* bound on the numbers in use

VARIABLES
  files,             \* the directory: [index, suffix, owner]
  index, left,       \* of each process: the number it took, the suffixes it has to write
  clobbered, racing  \* history: whose files were overwritten, with the process that did
                     \* it; the processes one of which was not done when the other began

ArtifactsInit ==
  /\ files = {}
  /\ index = [p \in Procs |-> 0]
  /\ left = [p \in Procs |-> <<>>]
  /\ clobbered = {} /\ racing = {}

\* Faulty: the next number is the number of artifacts plus one.
CountedIndex(dir) == Cardinality({f.index : f \in dir}) + 1

NextRunIndex(dir) == Max({0} \cup {f.index : f \in dir}) + 1

Bundle == <<"md">>
Export == <<"tree.txt", "graph.json", "report.md">>

TakeIndex(p, suffixes) ==
  /\ left[p] = <<>>
  /\ NextRunIndex(files) =< MaxIndex
  /\ index' = [index EXCEPT ![p] = NextRunIndex(files)]
  /\ left' = [left EXCEPT ![p] = suffixes]
  /\ racing' = racing \cup {{p, q} : q \in {o \in Procs : left[o] # <<>>}}
  /\ UNCHANGED <<files, clobbered>>

\* write_text: a file of that name is replaced.
WriteArtifact(p) ==
  /\ left[p] # <<>>
  /\ LET suffix == Head(left[p])
         same == {f \in files : f.index = index[p] /\ f.suffix = suffix}
     IN /\ files' = (files \ same) \cup {[index |-> index[p], suffix |-> suffix, owner |-> p]}
        /\ clobbered' = clobbered \cup {[of |-> f.owner, by |-> p] : f \in same}
        /\ left' = [left EXCEPT ![p] = Tail(@)]
  /\ UNCHANGED <<index, racing>>

\* The user archives the artifacts of one number.
Archive ==
  /\ \E f \in files : files' = {g \in files : g.index # f.index}
  /\ UNCHANGED <<index, left, clobbered, racing>>

KillWriter(p) ==
  /\ left[p] # <<>>
  /\ left' = [left EXCEPT ![p] = <<>>]
  /\ UNCHANGED <<files, index, clobbered, racing>>

\* The files of one number are of one process, and none was overwritten by another,
\* unless one of the two listed the directory before the other was done writing.  A
\* number may well be given again: if the highest is archived, or its process was killed
\* before it wrote; then no file of it is left to overwrite.  Between processes that do
\* race, nothing keeps what next_run_index says it never overwrites silently.
ArtifactsKept ==
  /\ \A f, g \in files : f.index = g.index => f.owner = g.owner \/ {f.owner, g.owner} \in racing
  /\ \A c \in clobbered : {c.of, c.by} \in racing
====
