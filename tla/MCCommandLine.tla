---- MODULE MCCommandLine ----
(* Three processes, two migrations, a backup older than the second of them.  *)
EXTENDS CommandLine, TLC

MCEdits ==
  {[name |-> "model", op |-> "set", value |-> "m"], [name |-> "model", op |-> "unset", value |-> "m"],
   [name |-> "profiles", op |-> "add", value |-> "a"], [name |-> "profiles", op |-> "remove", value |-> "a"]}
MCBackup == {[kind |-> "migration", version |-> 1, by |-> "earlier"]}
Alike == Permutations(Procs)
====
