---- MODULE TaskTable ----
(***************************************************************************)
(* The run_tasks table of one run, as values: what each repository method  *)
(* does to the rows, each of them one SQLite transaction.  A table is a    *)
(* function from the keys that have a row (the run-scoped idempotency_key) *)
(* to rows; RunTasks and CrawlRun hold one in a variable.                  *)
(*                                                                         *)
(* lease_until is kept as what the statements ask of it: "none" (NULL),    *)
(* "live" (not before now) or "expired".  created_at is a batch number:    *)
(* rows of one batch are siblings in an order the providers choose.        *)
(* priority and available_at are left out: every caller in src/ enqueues   *)
(* with priority 0 and an available_at already reached.                    *)
(***************************************************************************)
EXTENDS Naturals, FiniteSets

CONSTANT MaxAttempts        \* run_tasks.max_attempts, never below 1

ASSUME MaxAttemptsAssumption == MaxAttempts \in Nat \ {0}

Row == [status   : {"pending", "in_progress", "succeeded", "failed"},
        attempts : 0..MaxAttempts,
        lease    : {"none", "live", "expired"},
        created  : Nat]

Settled(row) == row.status \in {"succeeded", "failed"}

EmptyTable == [k \in {} |-> "no row"]

\* INSERT OR IGNORE: a key that has a row keeps it.
InsertOrIgnore(table, rows) ==
  [k \in DOMAIN table \cup DOMAIN rows |->
     IF k \in DOMAIN table THEN table[k] ELSE rows[k]]

NewRow(table) ==
  [status |-> "pending", attempts |-> 0, lease |-> "none",
   created |-> Cardinality(DOMAIN table) + 1]

EnqueueRunTask(table, keys) ==
  InsertOrIgnore(table, [k \in keys |-> NewRow(table)])

----
\* Faulty variants of GivenUp: the attempts start over; one attempt too many.
GivenUpAfresh(row) == [row EXCEPT !.status = "pending", !.attempts = 0, !.lease = "none"]
GivenUpLate(row) ==
  [row EXCEPT !.status = IF row.attempts > MaxAttempts THEN "failed" ELSE "pending",
              !.lease  = "none"]

\* What a row whose delivery is given up becomes.
GivenUp(row) ==
  [row EXCEPT !.status = IF row.attempts >= MaxAttempts THEN "failed" ELSE "pending",
              !.lease  = "none"]

\* The two UPDATEs that open claim_run_task.
SweepExpired(table) ==
  [k \in DOMAIN table |->
     IF table[k].status = "in_progress" /\ table[k].lease = "expired"
       THEN GivenUp(table[k]) ELSE table[k]]

\* Faulty: resume trusts the leases of the process that died.
RequeueExpiredTasks(table) == SweepExpired(table)

\* Resume gives up every unfinished delivery, whatever its lease.
RequeueInProgressTasks(table) ==
  [k \in DOMAIN table |->
     IF table[k].status = "in_progress" THEN GivenUp(table[k]) ELSE table[k]]

\* The rows count_runnable_tasks counts: a swept row is not among them yet.
RunnableTasks(table) ==
  {k \in DOMAIN table : /\ table[k].status = "pending"
                        /\ table[k].attempts < MaxAttempts}

\* Faulty: the newest task first.
NewestTasks(table) ==
  {k \in RunnableTasks(table) :
     \A j \in RunnableTasks(table) : table[j].created <= table[k].created}

\* ORDER BY created_at LIMIT 1, siblings in either order.
NextTasks(table) ==
  {k \in RunnableTasks(table) :
     \A j \in RunnableTasks(table) : table[k].created <= table[j].created}

ClaimRow(row) ==
  [row EXCEPT !.status = "in_progress", !.attempts = @ + 1, !.lease = "live"]

\* Faulty: a late completion of a task that failed meanwhile counts.
CompleteAnyway(table, k) ==
  [table EXCEPT ![k] = [@ EXCEPT !.status = "succeeded", !.lease = "none"]]

CompleteRunTask(table, k) ==
  IF table[k].status = "in_progress"
    THEN [table EXCEPT ![k] = [@ EXCEPT !.status = "succeeded", !.lease = "none"]]
    ELSE table

\* fail_run_task(retry=False): no guard on the status the row has by now.
FailRunTask(table, k) ==
  [table EXCEPT ![k] = [@ EXCEPT !.status = "failed", !.lease = "none"]]

ExpireLease(table, k) == [table EXCEPT ![k] = [@ EXCEPT !.lease = "expired"]]

\* The rows of one status, as get_run_task_summary counts them.
TasksWith(table, status) == {k \in DOMAIN table : table[k].status = status}
====
