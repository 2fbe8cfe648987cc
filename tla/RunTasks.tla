---- MODULE RunTasks ----
(***************************************************************************)
(* The durable task queue of a run: workers (processes, each with its own  *)
(* connection) enqueue, claim under a lease, complete, crash, and requeue  *)
(* on resume.  A worker remembers only the task it was handed; nothing     *)
(* ties a row to its worker, so a delivery can be given up while its       *)
(* worker is still at work.                                                *)
(***************************************************************************)
EXTENDS TaskTable

CONSTANTS Keys,         \* idempotency keys that are ever enqueued
          Workers,
          Damaged       \* keys whose payload_json no longer parses

ASSUME DamagedAssumption == Damaged \subseteq Keys

VARIABLES table,        \* the run_tasks rows of the run
          held          \* the deliveries in the workers' memories

vars == <<table, held>>

Delivery == [worker : Workers, key : Keys, attempt : 1..MaxAttempts]

Idle(w) == \A d \in held : d.worker # w

Init ==
  /\ table = EmptyTable
  /\ held = {}

\* One transaction of pushes: a batch is finite and has rows.
Enqueue(keys) ==
  /\ keys # {} /\ IsFiniteSet(keys)
  /\ table' = EnqueueRunTask(table, keys)
  /\ UNCHANGED held

\* claim_run_task: the sweep and the claim are one transaction.
Claim(w) ==
  /\ Idle(w)
  /\ \E k \in NextTasks(SweepExpired(table)) :
       LET row == ClaimRow(SweepExpired(table)[k]) IN
         /\ table' = [SweepExpired(table) EXCEPT ![k] = row]
         /\ held' = held \cup {[worker |-> w, key |-> k, attempt |-> row.attempts]}

\* claim_run_task finds no row; the sweep is committed all the same.
ClaimNothing(w) ==
  /\ Idle(w)
  /\ RunnableTasks(SweepExpired(table)) = {}
  /\ table' = SweepExpired(table)
  /\ UNCHANGED held

\* The second transaction of a claim whose payload does not parse.
RejectDamaged(d) ==
  /\ d.key \in Damaged
  /\ table' = FailRunTask(table, d.key)
  /\ held' = held \ {d}

Complete(d) ==
  /\ d.key \notin Damaged
  /\ table' = CompleteRunTask(table, d.key)
  /\ held' = held \ {d}

\* The worker's process dies with its memory.
Abandon(d) ==
  /\ held' = held \ {d}
  /\ UNCHANGED table

Requeue ==
  /\ table' = RequeueInProgressTasks(table)
  /\ UNCHANGED held

\* Time passes the lease_until of an unfinished row.
LeaseExpires(k) ==
  /\ table[k].lease = "live"
  /\ table' = ExpireLease(table, k)
  /\ UNCHANGED held

Next ==
  \/ \E keys \in SUBSET Keys : Enqueue(keys)
  \/ \E w \in Workers : Claim(w) \/ ClaimNothing(w)
  \/ \E d \in held : RejectDamaged(d) \/ Complete(d) \/ Abandon(d)
  \/ Requeue
  \/ \E k \in DOMAIN table : LeaseExpires(k)

Spec == Init /\ [][Next]_vars
----
\* Every row is well formed and the workers hold deliveries of the run's keys.
TypeOK ==
  /\ IsFiniteSet(DOMAIN table)
  /\ DOMAIN table \subseteq Keys
  /\ table \in [DOMAIN table -> Row]
  /\ held \subseteq Delivery

\* A lease is on a row exactly while it is in progress, so the sweep of
\* claim_run_task misses no unfinished delivery.
LeasedIffInProgress ==
  \A k \in DOMAIN table : (table[k].lease # "none") <=> (table[k].status = "in_progress")

\* No row is pending with its attempts used up: claim_run_task would never
\* select it and mark_run_completed would call the run partial for ever.
NoStrandedTask ==
  TasksWith(table, "pending") \subseteq RunnableTasks(table)

\* Two workers may hold one task (a lease ran out, a resume requeued it), but
\* never by the same attempt: each attempt number is handed out once, and it
\* is one the row has counted.  So at most MaxAttempts workers ever start a
\* task, those that crashed or lost their lease included.
OneWorkerPerAttempt ==
  /\ \A d, e \in held : (d.key = e.key /\ d.attempt = e.attempt) => d = e
  /\ \A d \in held : /\ d.key \in DOMAIN table
                     /\ d.attempt <= table[d.key].attempts

\* A row that succeeded or failed keeps its status for good, whatever a late
\* complete, a sweep or a requeue of a worker that lost its lease still does, and
\* though fail_run_task, the second transaction of a claim whose payload is damaged,
\* asks for no status and may come after the sweep or another worker settled the row.
SettledIsFinal ==
  [][\A k \in DOMAIN table :
       Settled(table[k]) => (k \in DOMAIN table' /\ table'[k].status = table[k].status)]_vars
====
