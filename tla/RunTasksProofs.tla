---- MODULE RunTasksProofs ----
(***************************************************************************)
(* For every set of keys and workers and every attempt limit: the queue is *)
(* well formed, strands no task, hands each attempt to one worker, and     *)
(* never reopens a settled task.                                           *)
(*                                                                         *)
(* The inductive invariant is the conjunction of the invariants and what   *)
(* fail_run_task relies on, that no damaged task says succeeded; Regroup   *)
(* splits it into what the table lemmas speak of and the deliveries.       *)
(***************************************************************************)
EXTENDS RunTasks, TaskTableProofs

\* No row of a damaged payload says succeeded: what fail_run_task, which asks for no
\* status, relies on so as not to overwrite a success.
DamagedNeverSucceeds ==
  TasksWith(table, "succeeded") \cap Damaged = {}

\* The inductive invariant: the invariants of the run and DamagedNeverSucceeds.
IInv ==
  /\ TypeOK
  /\ LeasedIffInProgress
  /\ NoStrandedTask
  /\ OneWorkerPerAttempt
  /\ DamagedNeverSucceeds

\* What IInv says of the deliveries in the workers' hands.
Deliveries(t, h) ==
  /\ h \subseteq Delivery
  /\ \A d, e \in h : (d.key = e.key /\ d.attempt = e.attempt) => d = e
  /\ \A d \in h : d.key \in DOMAIN t /\ d.attempt <= t[d.key].attempts

\* The invariants of the run say the same as TableOK and Deliveries.
LEMMA Regroup == IInv <=> TableOK(table, Keys, Damaged) /\ Deliveries(table, held)
<1>1. NoStrandedTask <=>
        \A k \in DOMAIN table : table[k].status = "pending" => table[k].attempts < MaxAttempts
  BY DEF NoStrandedTask, TasksWith, RunnableTasks
<1>2. DamagedNeverSucceeds <=>
        \A k \in DOMAIN table : k \in Damaged => table[k].status # "succeeded"
  BY DEF DamagedNeverSucceeds, TasksWith
<1>3. QED
  BY <1>1, <1>2 DEF IInv, TypeOK, LeasedIffInProgress, OneWorkerPerAttempt,
              TableOK, Table, RowOK, Deliveries

\* Deliveries survive a step that only adds attempts and hands out nothing.
LEMMA KeepDeliveries ==
  ASSUME NEW t, NEW u, TableOK(t, Keys, Damaged), TableOK(u, Keys, Damaged), Grows(t, u),
         NEW h, Deliveries(t, h), NEW g \in SUBSET h
  PROVE  Deliveries(u, g)
<1>1. \A d \in h : d.attempt \in Nat
  BY MaxAttemptsAssumption DEF Deliveries, Delivery
<1>2. /\ \A k \in DOMAIN t : t[k].attempts \in Nat
      /\ \A k \in DOMAIN u : u[k].attempts \in Nat
  BY MaxAttemptsAssumption DEF TableOK, Table, Row
<1>3. QED
  BY <1>1, <1>2 DEF Grows, Deliveries

\* A claim hands out an attempt no delivery of the task has yet.
LEMMA ClaimStep ==
  ASSUME TableOK(table, Keys, Damaged), Deliveries(table, held), NEW w \in Workers, Claim(w)
  PROVE  TableOK(table', Keys, Damaged) /\ Deliveries(table', held') /\ Grows(table, table')
<1> DEFINE t == SweepExpired(table)
<1>1. PICK k \in NextTasks(t) :
        /\ table' = [t EXCEPT ![k] = ClaimRow(t[k])]
        /\ held' = held \cup {[worker |-> w, key |-> k, attempt |-> ClaimRow(t[k]).attempts]}
  BY DEF Claim
<1>2. TableOK(t, Keys, Damaged) /\ Grows(table, t) /\ DOMAIN t = DOMAIN table
  BY SweepTable
<1>3. Deliveries(t, held)
  BY <1>2, KeepDeliveries
<1>4. k \in RunnableTasks(t)
  BY DEF NextTasks
<1> HIDE DEF t
<1>5. /\ TableOK(table', Keys, Damaged) /\ Grows(t, table') /\ DOMAIN table' = DOMAIN t
      /\ table'[k].attempts = t[k].attempts + 1
      /\ ClaimRow(t[k]).attempts = t[k].attempts + 1
      /\ ClaimRow(t[k]).attempts \in 1..MaxAttempts
  BY <1>1, <1>2, <1>4, ClaimTable, ZenonT(40)
<1>6. Deliveries(table', held)
  BY <1>2, <1>3, <1>5, KeepDeliveries
<1>7. /\ k \in DOMAIN t /\ k \in DOMAIN table' /\ k \in Keys
      /\ t[k].attempts \in Nat
  BY <1>2, <1>4, <1>5, MaxAttemptsAssumption DEF RunnableTasks, TableOK, Table, Row
<1> DEFINE new == [worker |-> w, key |-> k, attempt |-> ClaimRow(t[k]).attempts]
<1>8. new \in Delivery
  BY <1>5, <1>7 DEF Delivery
<1>9. \A d \in held : d.key = k => d.attempt \in Nat /\ d.attempt <= t[k].attempts
  BY <1>3, MaxAttemptsAssumption DEF Deliveries, Delivery
<1>10. \A d \in held : d.key = k => d.attempt # new.attempt
  BY <1>5, <1>7, <1>9
<1>11. new.attempt <= table'[k].attempts
  BY <1>5, <1>7
<1>12. new.key = k /\ held' = held \cup {new}
  BY <1>1
<1> HIDE DEF new
<1>13. Deliveries(table', held')
  <2>1. held' \subseteq Delivery
    BY <1>6, <1>8, <1>12 DEF Deliveries
  <2>2. ASSUME NEW d \in held', NEW e \in held', d.key = e.key, d.attempt = e.attempt
        PROVE  d = e
    <3>1. CASE d \in held /\ e \in held
      BY <2>2, <3>1, <1>6 DEF Deliveries
    <3>2. CASE d = new \/ e = new
      BY <2>2, <3>2, <1>10, <1>12
    <3>3. QED
      BY <3>1, <3>2, <1>12
  <2>3. ASSUME NEW d \in held'
        PROVE  d.key \in DOMAIN table' /\ d.attempt <= table'[d.key].attempts
    BY <1>6, <1>7, <1>11, <1>12 DEF Deliveries
  <2>4. QED
    BY <2>1, <2>2, <2>3 DEF Deliveries
<1>14. Grows(table, table')
  <2>1. /\ \A j \in DOMAIN table : table[j].attempts \in Nat
        /\ \A j \in DOMAIN t : t[j].attempts \in Nat
        /\ \A j \in DOMAIN table' : table'[j].attempts \in Nat
    BY <1>2, <1>5, MaxAttemptsAssumption DEF TableOK, Table, Row
  <2>2. QED
    BY <1>2, <1>5, <2>1 DEF Grows, Settled
<1>15. QED
  BY <1>5, <1>13, <1>14

\* Every step of the queue keeps IInv and lets the table only grow.
LEMMA NextStep ==
  ASSUME IInv, [Next]_vars
  PROVE  IInv' /\ Grows(table, table')
<1>1. TableOK(table, Keys, Damaged) /\ Deliveries(table, held)
  BY Regroup
<1>2. Grows(table, table)
  BY <1>1, MaxAttemptsAssumption DEF TableOK, Table, Row, Grows
<1>3. SUFFICES TableOK(table', Keys, Damaged) /\ Deliveries(table', held') /\ Grows(table, table')
  <2>1. (TableOK(table, Keys, Damaged) /\ Deliveries(table, held))' => IInv'
    BY Regroup, PTL
  <2>2. QED
    BY <2>1
<1>4. ASSUME NEW keys \in SUBSET Keys, Enqueue(keys)
      PROVE  TableOK(table', Keys, Damaged) /\ Deliveries(table', held') /\ Grows(table, table')
  BY <1>1, <1>4, EnqueueTable, KeepDeliveries DEF Enqueue
<1>5. ASSUME NEW w \in Workers, Claim(w)
      PROVE  TableOK(table', Keys, Damaged) /\ Deliveries(table', held') /\ Grows(table, table')
  BY <1>1, <1>5, ClaimStep
<1>6. ASSUME NEW w \in Workers, ClaimNothing(w)
      PROVE  TableOK(table', Keys, Damaged) /\ Deliveries(table', held') /\ Grows(table, table')
  BY <1>1, <1>6, SweepTable, KeepDeliveries DEF ClaimNothing
<1>7. ASSUME NEW d \in held, RejectDamaged(d)
      PROVE  TableOK(table', Keys, Damaged) /\ Deliveries(table', held') /\ Grows(table, table')
  <2>1. d.key \in DOMAIN table
    BY <1>1 DEF Deliveries
  <2>2. TableOK(table', Keys, Damaged) /\ Grows(table, table') /\ held' \subseteq held
    BY <1>1, <1>7, <2>1, FailTable DEF RejectDamaged
  <2>3. QED
    BY <1>1, <2>2, KeepDeliveries
<1>8. ASSUME NEW d \in held, Complete(d)
      PROVE  TableOK(table', Keys, Damaged) /\ Deliveries(table', held') /\ Grows(table, table')
  <2>1. d.key \in DOMAIN table
    BY <1>1 DEF Deliveries
  <2>2. TableOK(table', Keys, Damaged) /\ Grows(table, table') /\ held' \subseteq held
    BY <1>1, <1>8, <2>1, CompleteTable DEF Complete
  <2>3. QED
    BY <1>1, <2>2, KeepDeliveries
<1>9. ASSUME NEW d \in held, Abandon(d)
      PROVE  TableOK(table', Keys, Damaged) /\ Deliveries(table', held') /\ Grows(table, table')
  BY <1>1, <1>2, <1>9, KeepDeliveries DEF Abandon
<1>10. CASE Requeue
  BY <1>1, <1>10, RequeueTable, KeepDeliveries DEF Requeue
<1>11. ASSUME NEW k \in DOMAIN table, LeaseExpires(k)
       PROVE  TableOK(table', Keys, Damaged) /\ Deliveries(table', held') /\ Grows(table, table')
  BY <1>1, <1>11, ExpireTable, KeepDeliveries DEF LeaseExpires
<1>12. CASE UNCHANGED vars
  BY <1>1, <1>2, <1>12 DEF vars
<1>13. QED
  BY <1>4, <1>5, <1>6, <1>7, <1>8, <1>9, <1>10, <1>11, <1>12 DEF Next

\* A run starts with no task and no worker at one.
LEMMA InitStep == Init => IInv
<1>1. ASSUME Init PROVE TableOK(table, Keys, Damaged) /\ Deliveries(table, held)
  <2>1. DOMAIN table = {} /\ held = {}
    BY <1>1 DEF Init, EmptyTable
  <2>2. table \in [DOMAIN table -> Row]
    BY <1>1, <2>1 DEF Init, EmptyTable
  <2>3. QED
    BY <2>1, <2>2, FS_EmptySet DEF TableOK, Table, Deliveries
<1>2. QED
  BY <1>1, Regroup

\* The queue is well formed, leases exactly the rows in progress, strands no
\* pending row and hands out no attempt twice: under every interleaving of claims,
\* crashes, expiries and resumes.
THEOREM QueueSafe ==
  Spec => [](TypeOK /\ LeasedIffInProgress /\ NoStrandedTask /\ OneWorkerPerAttempt)
<1>1. IInv /\ [Next]_vars => IInv'
  BY NextStep
<1>2. QED
  BY InitStep, <1>1, PTL DEF Spec, IInv

\* No row stays pending with its attempts used up: none that claim_run_task would never
\* select again.
THEOREM NothingStranded == Spec => []NoStrandedTask
BY QueueSafe, PTL

\* A settled row keeps its status: no late completion, sweep or requeue undoes it.
THEOREM SettledStays == Spec => SettledIsFinal
<1>1. IInv /\ [Next]_vars =>
        \A k \in DOMAIN table :
          Settled(table[k]) => (k \in DOMAIN table' /\ table'[k].status = table[k].status)
  BY NextStep DEF Grows
<1>2. IInv /\ [Next]_vars => IInv'
  BY NextStep
<1>3. QED
  BY InitStep, <1>1, <1>2, PTL DEF Spec, SettledIsFinal
====
