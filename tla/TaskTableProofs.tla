---- MODULE TaskTableProofs ----
(***************************************************************************)
(* What each operation on the run_tasks rows preserves: the rows stay well *)
(* formed, attempts are never forgotten and settled rows keep their status.*)
(* RunTasksProofs and CrawlRunProofs use these lemmas and unfold no table  *)
(* operation again.  K are the keys of the table, D those whose payload is *)
(* damaged.                                                                *)
(***************************************************************************)
EXTENDS TaskTable, FiniteSetTheorems, TLAPS

\* A table of the run: what TypeOK says of the rows.
Table(t, K) == /\ IsFiniteSet(DOMAIN t)
            /\ DOMAIN t \subseteq K
            /\ t \in [DOMAIN t -> Row]

\* What the other invariants say of one row.
RowOK(row) == /\ (row.lease # "none") <=> (row.status = "in_progress")
              /\ row.status = "pending" => row.attempts < MaxAttempts

TableOK(t, K, D) ==
  /\ Table(t, K)
  /\ \A k \in DOMAIN t : RowOK(t[k]) /\ (k \in D => t[k].status # "succeeded")

\* Counts of attempts only grow and settled rows keep their status.
Grows(t, u) ==
  /\ DOMAIN t \subseteq DOMAIN u
  /\ \A k \in DOMAIN t : /\ t[k].attempts <= u[k].attempts
                         /\ Settled(t[k]) => u[k].status = t[k].status

\* Growth adds up over two operations.
LEMMA GrowsOn ==
  ASSUME NEW K, NEW D, NEW t, NEW u, NEW v,
         TableOK(t, K, D), TableOK(u, K, D), TableOK(v, K, D),
         Grows(t, u), Grows(u, v)
  PROVE  Grows(t, v)
<1>1. /\ \A k \in DOMAIN t : t[k].attempts \in Nat
      /\ \A k \in DOMAIN u : u[k].attempts \in Nat
      /\ \A k \in DOMAIN v : v[k].attempts \in Nat
  BY MaxAttemptsAssumption DEF TableOK, Table, Row
<1>2. QED
  BY <1>1 DEF Grows, Settled

\* A row whose delivery is given up is pending with attempts left, or failed.
LEMMA GivenUpRow ==
  ASSUME NEW row \in Row
  PROVE  /\ GivenUp(row) \in Row
         /\ RowOK(GivenUp(row)) /\ GivenUp(row).status # "succeeded"
         /\ GivenUp(row).attempts = row.attempts
<1>1. CASE row.attempts >= MaxAttempts
  <2>1. GivenUp(row) = [row EXCEPT !.status = "failed", !.lease = "none"]
    BY <1>1 DEF GivenUp
  <2>2. QED
    BY <2>1, MaxAttemptsAssumption DEF Row, RowOK
<1>2. CASE row.attempts < MaxAttempts
  <2>1. ~(row.attempts >= MaxAttempts)
    BY <1>2, MaxAttemptsAssumption DEF Row
  <2>2. GivenUp(row) = [row EXCEPT !.status = "pending", !.lease = "none"]
    BY <2>1 DEF GivenUp
  <2>3. QED
    BY <1>2, <2>2, MaxAttemptsAssumption DEF Row, RowOK
<1>3. QED
  BY <1>1, <1>2, MaxAttemptsAssumption DEF Row

\* The row an enqueue adds is a well-formed pending row.
LEMMA NewRowOK ==
  ASSUME NEW t, IsFiniteSet(DOMAIN t)
  PROVE  NewRow(t) \in Row /\ RowOK(NewRow(t)) /\ NewRow(t).status # "succeeded"
<1>1. Cardinality(DOMAIN t) \in Nat
  BY FS_CardinalityType
<1>2. QED
  BY <1>1, MaxAttemptsAssumption DEF NewRow, Row, RowOK

\* enqueue_run_task keeps the rows there are and adds well-formed ones.
LEMMA EnqueueTable ==
  ASSUME NEW K, NEW D, NEW t, TableOK(t, K, D), NEW keys \in SUBSET K, IsFiniteSet(keys)
  PROVE  TableOK(EnqueueRunTask(t, keys), K, D) /\ Grows(t, EnqueueRunTask(t, keys))
<1> DEFINE u == EnqueueRunTask(t, keys)
<1>1. NewRow(t) \in Row /\ RowOK(NewRow(t)) /\ NewRow(t).status # "succeeded"
  BY NewRowOK DEF TableOK, Table
<1>2. DOMAIN u = DOMAIN t \cup keys
  BY DEF EnqueueRunTask, InsertOrIgnore
<1>3. IsFiniteSet(DOMAIN u)
  BY <1>2, FS_Union DEF TableOK, Table
<1>4. \A k \in DOMAIN u : u[k] = IF k \in DOMAIN t THEN t[k] ELSE NewRow(t)
  BY <1>2 DEF EnqueueRunTask, InsertOrIgnore
<1>5. u \in [DOMAIN u -> Row]
  <2>1. \A k \in DOMAIN u : u[k] \in Row
    BY <1>1, <1>4 DEF TableOK, Table
  <2>2. u = [k \in DOMAIN u |-> u[k]]
    BY DEF EnqueueRunTask, InsertOrIgnore
  <2>3. QED
    BY <2>1, <2>2
<1>6. \A k \in DOMAIN u : RowOK(u[k]) /\ (k \in D => u[k].status # "succeeded")
  BY <1>1, <1>4 DEF TableOK
<1>7. Table(u, K)
  BY <1>2, <1>3, <1>5 DEF TableOK, Table
<1>8. Grows(t, u)
  <2>1. \A k \in DOMAIN t : u[k] = t[k] /\ t[k].attempts \in Nat
    BY <1>2, <1>4, MaxAttemptsAssumption DEF TableOK, Table, Row
  <2>2. QED
    BY <1>2, <2>1 DEF Grows
<1>9. QED
  BY <1>6, <1>7, <1>8 DEF TableOK

\* The sweep of claim_run_task, and the requeue of a resume, give up some of
\* the rows in progress and leave every other row alone.
LEMMA GivingUp ==
  ASSUME NEW K, NEW D, NEW t, TableOK(t, K, D), NEW S,
         \A k \in S : k \in DOMAIN t /\ t[k].status = "in_progress",
         NEW u, u = [k \in DOMAIN t |-> IF k \in S THEN GivenUp(t[k]) ELSE t[k]]
  PROVE  TableOK(u, K, D) /\ Grows(t, u) /\ DOMAIN u = DOMAIN t
<1>1. \A k \in DOMAIN t :
        /\ t[k] \in Row
        /\ RowOK(t[k]) /\ (k \in D => t[k].status # "succeeded")
  BY DEF TableOK, Table
<1>2. \A k \in DOMAIN t :
        /\ GivenUp(t[k]) \in Row
        /\ RowOK(GivenUp(t[k])) /\ GivenUp(t[k]).status # "succeeded"
        /\ GivenUp(t[k]).attempts = t[k].attempts
  BY <1>1, GivenUpRow
<1>3. DOMAIN u = DOMAIN t
  OBVIOUS
<1>4. /\ u \in [DOMAIN u -> Row]
      /\ \A k \in DOMAIN u : RowOK(u[k]) /\ (k \in D => u[k].status # "succeeded")
  BY <1>1, <1>2
<1>5. Grows(t, u)
  <2>1. \A k \in DOMAIN t : t[k].attempts \in Nat
    BY <1>1, MaxAttemptsAssumption DEF Row
  <2>2. QED
    BY <1>2, <1>3, <2>1 DEF Grows, Settled
<1>6. QED
  BY <1>3, <1>4, <1>5 DEF TableOK, Table

\* The sweep that opens claim_run_task keeps the table well formed.
LEMMA SweepTable ==
  ASSUME NEW K, NEW D, NEW t, TableOK(t, K, D)
  PROVE  /\ TableOK(SweepExpired(t), K, D)
         /\ Grows(t, SweepExpired(t))
         /\ DOMAIN SweepExpired(t) = DOMAIN t
<1> DEFINE S == {k \in DOMAIN t : t[k].status = "in_progress" /\ t[k].lease = "expired"}
<1>1. SweepExpired(t) = [k \in DOMAIN t |-> IF k \in S THEN GivenUp(t[k]) ELSE t[k]]
  BY DEF SweepExpired
<1>2. QED
  BY <1>1, GivingUp, ZenonT(40)

\* The requeue of a resume keeps the table well formed, no attempt forgotten.
LEMMA RequeueTable ==
  ASSUME NEW K, NEW D, NEW t, TableOK(t, K, D)
  PROVE  /\ TableOK(RequeueInProgressTasks(t), K, D)
         /\ Grows(t, RequeueInProgressTasks(t))
<1> DEFINE S == {k \in DOMAIN t : t[k].status = "in_progress"}
<1>1. RequeueInProgressTasks(t) = [k \in DOMAIN t |-> IF k \in S THEN GivenUp(t[k]) ELSE t[k]]
  BY DEF RequeueInProgressTasks
<1>2. QED
  BY <1>1, GivingUp, ZenonT(40)

\* Changing one row into a well-formed row keeps the table well formed.
LEMMA UpdateTable ==
  ASSUME NEW K, NEW D, NEW t, TableOK(t, K, D), NEW k \in DOMAIN t, NEW row \in Row, RowOK(row),
         t[k].attempts <= row.attempts,
         k \in D => row.status # "succeeded",
         Settled(t[k]) => row.status = t[k].status
  PROVE  /\ TableOK([t EXCEPT ![k] = row], K, D)
         /\ Grows(t, [t EXCEPT ![k] = row])
<1> DEFINE u == [t EXCEPT ![k] = row]
<1>1. t \in [DOMAIN t -> Row]
  BY DEF TableOK, Table
<1>2. DOMAIN u = DOMAIN t /\ u \in [DOMAIN u -> Row]
  BY <1>1
<1>3. \A j \in DOMAIN t : u[j] = IF j = k THEN row ELSE t[j]
  BY <1>1
<1>4. \A j \in DOMAIN t : t[j].attempts \in Nat
  BY <1>1, MaxAttemptsAssumption DEF Row
<1>5. QED
  BY <1>2, <1>3, <1>4 DEF TableOK, Table, Grows, Settled

----
\* A row that is settled keeps its attempts and loses its lease.
LEMMA SettledRow ==
  ASSUME NEW row \in Row, NEW status \in {"succeeded", "failed"}
  PROVE  LET new == [row EXCEPT !.status = status, !.lease = "none"] IN
           /\ new \in Row /\ RowOK(new)
           /\ row.attempts <= new.attempts /\ new.status = status
<1> DEFINE new == [row EXCEPT !.status = status, !.lease = "none"]
<1>1. row.attempts \in Nat
  BY MaxAttemptsAssumption DEF Row
<1>2. /\ new \in Row /\ new.status = status
      /\ new.lease = "none" /\ new.attempts = row.attempts
  BY DEF Row
<1>3. RowOK(new) /\ row.attempts <= new.attempts
  BY <1>1, <1>2 DEF RowOK
<1>4. QED
  BY <1>2, <1>3

\* A claimed row has one attempt more and a live lease.
LEMMA ClaimedRow ==
  ASSUME NEW row \in Row, row.attempts < MaxAttempts
  PROVE  /\ ClaimRow(row) \in Row /\ RowOK(ClaimRow(row))
         /\ ClaimRow(row).attempts = row.attempts + 1
         /\ ClaimRow(row).attempts \in 1..MaxAttempts
         /\ row.attempts <= ClaimRow(row).attempts
         /\ ClaimRow(row).status # "succeeded"
<1>1. row.attempts \in Nat /\ row.attempts + 1 \in 1..MaxAttempts
  BY MaxAttemptsAssumption DEF Row
<1>2. ClaimRow(row) = [row EXCEPT !.status = "in_progress",
                                  !.attempts = row.attempts + 1, !.lease = "live"]
  BY DEF ClaimRow, Row
<1>3. row.attempts + 1 \in 0..MaxAttempts
  BY <1>1, MaxAttemptsAssumption
<1>4. /\ ClaimRow(row) \in Row
      /\ ClaimRow(row).status = "in_progress" /\ ClaimRow(row).lease = "live"
      /\ ClaimRow(row).attempts = row.attempts + 1
  BY <1>2, <1>3 DEF Row
<1>5. RowOK(ClaimRow(row)) /\ row.attempts <= ClaimRow(row).attempts
  BY <1>1, <1>4 DEF RowOK
<1>6. QED
  BY <1>1, <1>4, <1>5

\* The expiry of a lease changes nothing else of a row in progress.
LEMMA ExpiredRow ==
  ASSUME NEW row \in Row, RowOK(row), row.lease = "live"
  PROVE  LET new == [row EXCEPT !.lease = "expired"] IN
           /\ new \in Row /\ RowOK(new)
           /\ row.attempts <= new.attempts /\ new.status = row.status
<1>1. row.attempts \in Nat
  BY MaxAttemptsAssumption DEF Row
<1>2. QED
  BY <1>1 DEF Row, RowOK

\* The UPDATE of claim_run_task adds one attempt to the row it selected.
LEMMA ClaimTable ==
  ASSUME NEW K, NEW D, NEW t, TableOK(t, K, D), NEW k \in RunnableTasks(t)
  PROVE  LET u == [t EXCEPT ![k] = ClaimRow(t[k])] IN
           /\ TableOK(u, K, D) /\ Grows(t, u) /\ DOMAIN u = DOMAIN t
           /\ u[k].attempts = t[k].attempts + 1
           /\ ClaimRow(t[k]).attempts = t[k].attempts + 1
           /\ ClaimRow(t[k]).attempts \in 1..MaxAttempts
<1>1. /\ k \in DOMAIN t /\ t \in [DOMAIN t -> Row] /\ t[k] \in Row
      /\ t[k].status = "pending" /\ t[k].attempts < MaxAttempts
  BY DEF RunnableTasks, TableOK, Table
<1>2. /\ ClaimRow(t[k]) \in Row /\ RowOK(ClaimRow(t[k]))
      /\ ClaimRow(t[k]).attempts = t[k].attempts + 1
      /\ ClaimRow(t[k]).attempts \in 1..MaxAttempts
      /\ t[k].attempts <= ClaimRow(t[k]).attempts
      /\ ClaimRow(t[k]).status # "succeeded"
  BY <1>1, ClaimedRow
<1>3. ~Settled(t[k])
  BY <1>1 DEF Settled
<1>4. /\ TableOK([t EXCEPT ![k] = ClaimRow(t[k])], K, D)
      /\ Grows(t, [t EXCEPT ![k] = ClaimRow(t[k])])
  BY <1>1, <1>2, <1>3, UpdateTable
<1>5. QED
  BY <1>1, <1>2, <1>4

\* complete_run_task settles the row it finds in progress and no other.
LEMMA CompleteTable ==
  ASSUME NEW K, NEW D, NEW t, TableOK(t, K, D), NEW k \in DOMAIN t, k \notin D
  PROVE  TableOK(CompleteRunTask(t, k), K, D) /\ Grows(t, CompleteRunTask(t, k))
<1>1. t[k] \in Row
  BY DEF TableOK, Table
<1>2. CASE t[k].status = "in_progress"
  <2> DEFINE new == [t[k] EXCEPT !.status = "succeeded", !.lease = "none"]
  <2>1. new \in Row /\ RowOK(new) /\ t[k].attempts <= new.attempts
    BY <1>1, SettledRow
  <2>2. CompleteRunTask(t, k) = [t EXCEPT ![k] = new]
    BY <1>2 DEF CompleteRunTask
  <2>3. ~Settled(t[k])
    BY <1>2 DEF Settled
  <2> HIDE DEF new
  <2>4. TableOK([t EXCEPT ![k] = new], K, D) /\ Grows(t, [t EXCEPT ![k] = new])
    BY <2>1, <2>3, UpdateTable
  <2>5. QED
    BY <2>2, <2>4
<1>3. CASE t[k].status # "in_progress"
  <2>1. CompleteRunTask(t, k) = t
    BY <1>3 DEF CompleteRunTask
  <2>2. \A j \in DOMAIN t : t[j].attempts \in Nat
    BY MaxAttemptsAssumption DEF TableOK, Table, Row
  <2>3. QED
    BY <2>1, <2>2 DEF Grows
<1>4. QED
  BY <1>2, <1>3

\* A lease that runs out changes nothing of its row but the lease.
LEMMA ExpireTable ==
  ASSUME NEW K, NEW D, NEW t, TableOK(t, K, D), NEW k \in DOMAIN t, t[k].lease = "live"
  PROVE  TableOK(ExpireLease(t, k), K, D) /\ Grows(t, ExpireLease(t, k))
<1> DEFINE new == [t[k] EXCEPT !.lease = "expired"]
<1>1. t[k] \in Row /\ RowOK(t[k]) /\ (k \in D => t[k].status # "succeeded")
  BY DEF TableOK, Table
<1>2. new \in Row /\ RowOK(new) /\ t[k].attempts <= new.attempts /\ new.status = t[k].status
  BY <1>1, ExpiredRow
<1>3. ExpireLease(t, k) = [t EXCEPT ![k] = new]
  BY DEF ExpireLease
<1> HIDE DEF new
<1>4. TableOK([t EXCEPT ![k] = new], K, D) /\ Grows(t, [t EXCEPT ![k] = new])
  BY <1>1, <1>2, UpdateTable
<1>5. QED
  BY <1>3, <1>4

\* fail_run_task fails the row of a damaged task, which had not succeeded.
LEMMA FailTable ==
  ASSUME NEW K, NEW D, NEW t, TableOK(t, K, D), NEW k \in DOMAIN t, k \in D
  PROVE  TableOK(FailRunTask(t, k), K, D) /\ Grows(t, FailRunTask(t, k))
<1> DEFINE new == [t[k] EXCEPT !.status = "failed", !.lease = "none"]
<1>1. t[k] \in Row /\ t[k].status # "succeeded"
  BY DEF TableOK, Table
<1>2. new \in Row /\ RowOK(new) /\ t[k].attempts <= new.attempts /\ new.status = "failed"
  BY <1>1, SettledRow
<1>3. FailRunTask(t, k) = [t EXCEPT ![k] = new]
  BY DEF FailRunTask
<1>4. Settled(t[k]) => new.status = t[k].status
  BY <1>1, <1>2 DEF Settled
<1> HIDE DEF new
<1>5. TableOK([t EXCEPT ![k] = new], K, D) /\ Grows(t, [t EXCEPT ![k] = new])
  BY <1>2, <1>4, UpdateTable
<1>6. QED
  BY <1>3, <1>5
====
