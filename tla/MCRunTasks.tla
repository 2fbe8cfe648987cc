---- MODULE MCRunTasks ----
(* Two workers and three tasks, one of them damaged; any order of crashes,   *)
(* expiries and resumes.                                                     *)
EXTENDS RunTasks
====
