---- MODULE ProviderPermitsProofs ----
(***************************************************************************)
(* The shared capacity of a provider, for any number of requests and any   *)
(* limits and delays: calls within their lease keep the concurrency limit, *)
(* those within their timeout do when the slack of a lease covers the wait *)
(* for the lock, and a live waiter is not overtaken.                       *)
(***************************************************************************)
EXTENDS ProviderPermits, FiniteSetTheorems, TLAPS

\* What TypeOK says of the rows and the requests.
Rows ==
  /\ DOMAIN leases \subseteq Requests /\ leases \in [DOMAIN leases -> Nat]
  /\ DOMAIN waiters \subseteq Requests /\ waiters \in [DOMAIN waiters -> Waiter]

Counts ==
  /\ DOMAIN used \subseteq Nat /\ used \in [DOMAIN used -> 1..Rate]
  /\ DOMAIN started \subseteq Nat /\ started \in [DOMAIN started -> Nat]

Clocks ==
  /\ now \in 0..Horizon
  /\ pc \in [Requests -> Steps]
  /\ clock \in [Requests -> Nat] /\ due \in [Requests -> Nat] /\ deadline \in [Requests -> Nat]

\* Where time stands to what a request read and has to do.
Timely ==
  \A r \in Requests :
    /\ clock[r] <= now
    /\ pc[r] = "asking" => /\ due[r] = clock[r] + LockWait /\ now <= due[r]
    /\ pc[r] = "waiting" => /\ due[r] <= clock[r] + LockWait + Poll /\ now <= due[r] + MaxStall
    /\ pc[r] = "calling" => /\ due[r] <= clock[r] + LockWait + Timeout
                            /\ now <= due[r] + MaxStall

Current == {r \in DOMAIN leases : now < leases[r]}

\* A call has its row for as long as the lease was given, and the rows not yet
\* expired are within the limit.
Leased ==
  /\ \A r \in InFlight : now < clock[r] + LeaseTime =>
       r \in DOMAIN leases /\ leases[r] = clock[r] + LeaseTime
  /\ Cardinality(Current) <= Concurrency

PermitsInv == Rows /\ Counts /\ Clocks /\ Timely /\ Leased
----
\* The delays and limits are natural numbers.
LEMMA Times == /\ LeaseTime \in Nat /\ WaiterTTL \in Nat
               /\ Timeout \in Nat /\ LeaseSlack \in Nat /\ LockWait \in Nat
               /\ CapacityWait \in Nat /\ Poll \in Nat /\ MaxStall \in Nat
               /\ Concurrency \in Nat /\ Horizon \in Nat
BY PermitsAssumption DEF LeaseTime, WaiterTTL

\* The rows that are live by an earlier clock are finitely many requests, and
\* all those not expired now are among them.
LEMMA LiveRows ==
  ASSUME Rows, Clocks, NEW time \in Nat, time <= now
  PROVE  /\ Current \subseteq DOMAIN LiveLeases(time)
         /\ DOMAIN LiveLeases(time) \subseteq DOMAIN leases
         /\ \A q \in DOMAIN LiveLeases(time) : LiveLeases(time)[q] = leases[q]
         /\ LiveLeases(time) \in [DOMAIN LiveLeases(time) -> Nat]
         /\ IsFiniteSet(DOMAIN LiveLeases(time)) /\ IsFiniteSet(Current)
<1>1. /\ DOMAIN LiveLeases(time) = DOMAIN leases \ {r \in DOMAIN leases : leases[r] <= time}
      /\ LiveLeases(time) = [x \in DOMAIN LiveLeases(time) |-> leases[x]]
  BY DEF LiveLeases, Without
<1>2. \A r \in DOMAIN leases : leases[r] \in Nat /\ (now < leases[r] => ~(leases[r] <= time))
  BY DEF Rows, Clocks
<1>3. Current \subseteq DOMAIN LiveLeases(time)
  BY <1>1, <1>2 DEF Current
<1>4. IsFiniteSet(DOMAIN LiveLeases(time)) /\ IsFiniteSet(Current)
  BY <1>1, <1>3, FS_Subset, PermitsAssumption DEF Rows
<1>5. QED
  BY <1>1, <1>2, <1>3, <1>4
\* The window of a time.
LEMMA WindowType ==
  ASSUME NEW time \in Nat
  PROVE  WindowOf(time) \in Nat
BY PermitsAssumption DEF WindowOf

\* Counting once more, below a limit.
LEMMA CountedType ==
  ASSUME NEW f, DOMAIN f \subseteq Nat, NEW w \in Nat, NEW n \in Nat \ {0},
         f \in [DOMAIN f -> 1..n], Count(f, w) < n
  PROVE  /\ DOMAIN Counted(f, w) \subseteq Nat
         /\ \A v \in DOMAIN Counted(f, w) : Counted(f, w)[v] \in 1..n
<1>1. DOMAIN Counted(f, w) = DOMAIN f \cup {w}
  BY DEF Counted
<1>2. \A v \in DOMAIN f \cup {w} : Counted(f, w)[v] = IF v = w THEN Count(f, w) + 1 ELSE f[v]
  BY DEF Counted
<1>3. Count(f, w) + 1 \in 1..n
  BY DEF Count
<1>4. QED
  BY <1>1, <1>2, <1>3

\* The queue as a transaction leaves it.
LEMMA QueuedRows ==
  ASSUME Rows, Clocks, NEW r \in Requests
  PROVE  /\ DOMAIN Queued(r) = DOMAIN LiveWaiters(clock[r]) \cup {r}
         /\ DOMAIN LiveWaiters(clock[r]) =
              {q \in DOMAIN waiters : ~(waiters[q].expires <= clock[r])}
         /\ \A q \in DOMAIN Queued(r) \ {r} : Queued(r)[q] = waiters[q]
         /\ Queued(r)[r].created = IF r \in DOMAIN LiveWaiters(clock[r])
                                     THEN waiters[r].created ELSE clock[r]
         /\ Queued(r)[r].expires = clock[r] + WaiterTTL
         /\ DOMAIN Queued(r) \subseteq Requests
         /\ Queued(r) \in [DOMAIN Queued(r) -> Waiter]
<1> DEFINE live == DOMAIN LiveWaiters(clock[r])
<1>1. live = {q \in DOMAIN waiters : ~(waiters[q].expires <= clock[r])}
  BY DEF LiveWaiters, Without
<1>2. live \subseteq Requests /\ \A q \in live : waiters[q] \in Waiter
  BY <1>1 DEF Rows
<1> HIDE DEF live
<1>3. Queued(r) = [q \in live \cup {r} |->
                     IF q # r THEN waiters[q]
                     ELSE [created |-> IF r \in live THEN waiters[r].created ELSE clock[r],
                           expires |-> clock[r] + WaiterTTL]]
  BY DEF Queued, live
<1>4. [created |-> IF r \in live THEN waiters[r].created ELSE clock[r],
       expires |-> clock[r] + WaiterTTL] \in Waiter
  BY <1>2, Times DEF Waiter, Clocks
<1>5. QED
  BY <1>1, <1>2, <1>3, <1>4 DEF live

\* The start.
LEMMA PermitsInit == Init => PermitsInv
<1>1. ASSUME Init PROVE PermitsInv
  <2>1. Current = {} /\ InFlight = {}
    BY <1>1 DEF Init, Current, InFlight
  <2>2. Leased
    BY <2>1, FS_EmptySet, Times DEF Leased
  <2>3. Rows /\ Counts /\ Clocks /\ Timely
    BY <1>1, Times DEF Init, Rows, Counts, Clocks, Timely, Steps
  <2>4. QED
    BY <2>2, <2>3 DEF PermitsInv
<1>2. QED
  BY <1>1

\* A request that asks, withdraws or ends: the rows of others and their times
\* are left alone.
LEMMA PermitsQuiet ==
  ASSUME PermitsInv, NEW r \in Requests,
         Ask(r) \/ GiveUp(r) \/ Cancel(r) \/ FinishCall(r) \/ Release(r) \/ Lose(r)
  PROVE  PermitsInv'
<1> USE DEF PermitsInv
<1>1. CASE Ask(r)
  <2>1. Rows' /\ Counts' /\ Clocks'
    BY <1>1, Times DEF Ask, Goto, Rows, Counts, Clocks, Steps, table
  <2>2. Timely'
    BY <1>1, Times DEF Ask, Goto, Clocks, Timely
  <2>3. InFlight' \subseteq InFlight /\ \A q \in InFlight' : clock'[q] = clock[q]
    BY <1>1 DEF Ask, Goto, InFlight, Clocks
  <2>4. Leased'
    BY <1>1, <2>3 DEF Ask, Leased, Current, table
  <2>5. QED
    BY <2>1, <2>2, <2>4
<1>2. CASE GiveUp(r) \/ FinishCall(r) \/ Lose(r)
  <2>1. /\ UNCHANGED <<now, table, started>>
        /\ \E step \in {"cancelling", "releasing", "lost"} : Close(r, step)
    BY <1>2 DEF GiveUp, FinishCall, Lose
  <2>2. Rows' /\ Counts' /\ Clocks'
    BY <2>1, Times DEF Close, Goto, Rows, Counts, Clocks, Steps, table
  <2>3. Timely'
    BY <2>1, Times DEF Close, Goto, Clocks, Timely
  <2>4. InFlight' \subseteq InFlight /\ \A q \in InFlight' : clock'[q] = clock[q]
    BY <2>1 DEF Close, Goto, InFlight, Clocks
  <2>5. Leased'
    BY <2>1, <2>4 DEF Leased, Current, table
  <2>6. QED
    BY <2>2, <2>3, <2>5
<1>3. CASE Cancel(r)
  <2>1. Rows'
    BY <1>3 DEF Cancel, Without, Rows
  <2>2. Counts' /\ Clocks'
    BY <1>3, Times DEF Cancel, Close, Goto, Counts, Clocks, Steps
  <2>3. Timely'
    BY <1>3, Times DEF Cancel, Close, Goto, Clocks, Timely
  <2>4. InFlight' \subseteq InFlight /\ \A q \in InFlight' : clock'[q] = clock[q]
    BY <1>3 DEF Cancel, Close, Goto, InFlight, Clocks
  <2>5. Leased'
    BY <1>3, <2>4 DEF Cancel, Leased, Current
  <2>6. QED
    BY <2>1, <2>2, <2>3, <2>5
<1>4. CASE Release(r)
  <2>1. Rows'
    BY <1>4 DEF Release, Without, Rows
  <2>2. Counts' /\ Clocks'
    BY <1>4, Times DEF Release, Goto, Counts, Clocks, Steps
  <2>3. Timely'
    BY <1>4, Times DEF Release, Goto, Clocks, Timely
  <2>4. InFlight' = InFlight /\ r \notin InFlight
    BY <1>4 DEF Release, Goto, InFlight, Clocks
  <2>5. \A q \in DOMAIN leases \ {r} : q \in DOMAIN leases' /\ leases'[q] = leases[q]
    BY <1>4 DEF Release, Without
  <2>6. Current' \subseteq Current
    BY <1>4 DEF Release, Without, Current
  <2>7. Cardinality(Current') <= Concurrency
    <3>1. IsFiniteSet(Current)
      BY FS_Subset, PermitsAssumption DEF Rows, Current
    <3>2. Cardinality(Current') <= Cardinality(Current) /\ IsFiniteSet(Current')
      BY <2>6, <3>1, FS_Subset
    <3>3. QED
      BY <3>1, <3>2, FS_CardinalityType, Times DEF Leased
  <2>8. Leased'
    BY <1>4, <2>4, <2>5, <2>7 DEF Release, Leased
  <2>9. QED
    BY <2>1, <2>2, <2>3, <2>8
<1>5. QED
  BY <1>1, <1>2, <1>3, <1>4

\* A refusal deletes expired rows only.
LEMMA PermitsDeny ==
  ASSUME PermitsInv, NEW r \in Requests, Deny(r)
  PROVE  PermitsInv'
<1> USE DEF PermitsInv
<1> DEFINE live == LiveLeases(clock[r])
<1>1. clock[r] \in Nat /\ clock[r] <= now
  BY DEF Clocks, Timely
<1>2. /\ Current \subseteq DOMAIN live /\ DOMAIN live \subseteq DOMAIN leases
      /\ \A q \in DOMAIN live : live[q] = leases[q]
      /\ live \in [DOMAIN live -> Nat]
  BY <1>1, LiveRows
<1>3. leases' = live
  BY DEF Deny
<1> HIDE DEF live
<1>4. Rows'
  BY <1>2, <1>3, QueuedRows DEF Deny, Rows
<1>5. Counts' /\ Clocks'
  BY Times DEF Deny, Goto, Counts, Clocks, Steps
<1>6. Timely'
  BY Times DEF Deny, Goto, Clocks, Timely
<1>7. InFlight' = InFlight
  BY DEF Deny, Goto, InFlight, Clocks
<1>8. Current' = Current
  BY <1>2, <1>3 DEF Deny, Current
<1>9. \A q \in InFlight : now < clock[q] + LeaseTime => q \in Current
  BY DEF Leased, Current
<1>10. Leased'
  BY <1>2, <1>3, <1>7, <1>8, <1>9 DEF Deny, Leased
<1>11. QED
  BY <1>4, <1>5, <1>6, <1>10

\* A grant adds a row where fewer than the limit are live.
LEMMA PermitsGrant ==
  ASSUME PermitsInv, NEW r \in Requests, Grant(r)
  PROVE  PermitsInv'
<1> USE DEF PermitsInv
<1> DEFINE live == LiveLeases(clock[r])
<1>1. clock[r] \in Nat /\ clock[r] <= now /\ now \in Nat
  BY DEF Clocks, Timely
<1>2. /\ Current \subseteq DOMAIN live /\ DOMAIN live \subseteq DOMAIN leases
      /\ \A q \in DOMAIN live : live[q] = leases[q]
      /\ live \in [DOMAIN live -> Nat]
      /\ IsFiniteSet(DOMAIN live)
  BY <1>1, LiveRows
<1>3. Cardinality(DOMAIN live) < Concurrency
  BY DEF Grant, HasCapacity
<1>4. leases' = [q \in DOMAIN live \cup {r} |-> IF q = r THEN clock[r] + LeaseTime ELSE leases[q]]
  BY DEF Grant
<1> HIDE DEF live
<1>5. Rows'
  <2>1. DOMAIN leases' \subseteq Requests /\ leases' \in [DOMAIN leases' -> Nat]
    BY <1>1, <1>2, <1>4, Times DEF Rows
  <2>2. DOMAIN waiters' \subseteq Requests /\ waiters' \in [DOMAIN waiters' -> Waiter]
    BY QueuedRows DEF Grant, Without
  <2>3. QED
    BY <2>1, <2>2 DEF Rows
<1>6. Counts'
  <2>1. /\ WindowOf(clock[r]) \in Nat /\ WindowOf(now) \in Nat
        /\ Rate \in Nat \ {0} /\ Count(used, WindowOf(clock[r])) < Rate
    BY <1>1, WindowType, PermitsAssumption DEF Grant, HasCapacity
  <2>3. DOMAIN used' \subseteq Nat /\ \A v \in DOMAIN used' : used'[v] \in 1..Rate
    BY <2>1, CountedType DEF Grant, Counts
  <2>4. used' \in [DOMAIN used' -> 1..Rate]
    BY <2>3 DEF Grant, Counted
  <2>5. DOMAIN started' = DOMAIN started \cup {WindowOf(now)}
    BY DEF Grant, Counted
  <2>6. \A v \in DOMAIN started' : started'[v] \in Nat
    BY <2>1, <2>5 DEF Grant, Counted, Count, Counts
  <2>7. started' \in [DOMAIN started' -> Nat]
    BY <2>6 DEF Grant, Counted
  <2>8. QED
    BY <2>1, <2>3, <2>4, <2>5, <2>7 DEF Counts
<1>7. Clocks'
  BY Times DEF Grant, Goto, Clocks, Steps
<1>8. Timely'
  BY Times DEF Grant, Goto, Clocks, Timely
<1>9. Leased'
  <2>1. UNCHANGED <<now, clock>> /\ InFlight' = InFlight \cup {r}
    BY DEF Grant, Goto, InFlight, Clocks
  <2>2. \A q \in InFlight : now < clock[q] + LeaseTime => q \in DOMAIN live
    BY <1>2 DEF Leased, Current
  <2>3. \A q \in InFlight' : now < clock[q] + LeaseTime =>
          q \in DOMAIN leases' /\ leases'[q] = clock[q] + LeaseTime
    BY <1>2, <1>4, <2>1, <2>2 DEF Leased
  <2>4. Current' \subseteq DOMAIN live \cup {r}
    BY <1>4 DEF Current
  <2>5. Cardinality(DOMAIN live \cup {r}) <= Cardinality(DOMAIN live) + 1
        /\ IsFiniteSet(DOMAIN live \cup {r})
    <3>1. Cardinality(DOMAIN live) \in Nat
      BY <1>2, FS_CardinalityType
    <3>2. /\ IsFiniteSet(DOMAIN live \cup {r})
          /\ \/ Cardinality(DOMAIN live \cup {r}) = Cardinality(DOMAIN live)
             \/ Cardinality(DOMAIN live \cup {r}) = Cardinality(DOMAIN live) + 1
      BY <1>2, FS_AddElement
    <3>3. QED
      BY <3>1, <3>2
  <2>6. Cardinality(Current') <= Cardinality(DOMAIN live \cup {r}) /\ IsFiniteSet(Current')
    BY <2>4, <2>5, FS_Subset
  <2>7. Cardinality(Current') <= Concurrency
    BY <1>2, <1>3, <2>5, <2>6, FS_CardinalityType, Times
  <2>8. QED
    BY <2>1, <2>3, <2>7 DEF Leased
<1>10. QED
  BY <1>5, <1>6, <1>7, <1>8, <1>9

\* Time passes.
LEMMA PermitsTick ==
  ASSUME PermitsInv, Tick
  PROVE  PermitsInv'
<1> USE DEF PermitsInv
<1>1. Rows' /\ Counts' /\ Clocks'
  BY Times DEF Tick, Rows, Counts, Clocks, table
<1>2. Timely'
  BY Times DEF Tick, Clocks, Timely
<1>3. Leased'
  <2>1. now \in Nat /\ now' = now + 1 /\ UNCHANGED <<leases, pc, clock>>
    BY DEF Tick, Clocks, table
  <2>2. Current' \subseteq Current
    BY <2>1 DEF Current, Rows
  <2>3. IsFiniteSet(Current)
    BY FS_Subset, PermitsAssumption DEF Rows, Current
  <2>4. Cardinality(Current') <= Concurrency
    BY <2>2, <2>3, FS_Subset, FS_CardinalityType, Times DEF Leased
  <2>5. \A r \in InFlight' : now' < clock'[r] + LeaseTime => now < clock[r] + LeaseTime
    BY <2>1, Times DEF InFlight, Clocks
  <2>6. QED
    BY <2>1, <2>4, <2>5 DEF Leased, InFlight
<1>4. QED
  BY <1>1, <1>2, <1>3

\* Every step keeps the invariant.
LEMMA PermitsStep ==
  ASSUME PermitsInv, [Next]_vars
  PROVE  PermitsInv'
<1>1. CASE UNCHANGED vars
  BY <1>1 DEF vars, table, PermitsInv, Rows, Counts, Clocks, Timely, Leased, InFlight, Current
<1>2. QED
  BY <1>1, PermitsQuiet, PermitsDeny, PermitsGrant, PermitsTick DEF Next

\* The invariant holds throughout.
LEMMA AlwaysPermits == Spec => []PermitsInv
<1>1. PermitsInv /\ [Next]_vars => PermitsInv'
  BY PermitsStep
<1>2. QED
  BY <1>1, PermitsInit, PTL DEF Spec
----
\* Type correctness: among it, no window ever counts more calls than Rate.
THEOREM PermitsTyped == Spec => []TypeOK
<1>1. PermitsInv => TypeOK
  BY DEF PermitsInv, Rows, Counts, Clocks, TypeOK
<1>2. QED
  BY <1>1, AlwaysPermits, PTL

\* Of finitely many calls, those that have a row not yet expired keep the limit.
LEMMA CoveredCalls ==
  ASSUME PermitsInv, NEW S \in SUBSET InFlight, \A r \in S : now < clock[r] + LeaseTime
  PROVE  Cardinality(S) <= Concurrency
<1>1. S \subseteq Current
  <2>1. ASSUME NEW r \in S PROVE r \in Current
    BY DEF PermitsInv, Leased, Current
  <2>2. QED
    BY <2>1
<1>2. IsFiniteSet(Current)
  BY FS_Subset, PermitsAssumption DEF PermitsInv, Rows, Current
<1>3. Cardinality(S) <= Cardinality(Current) /\ IsFiniteSet(S)
  BY <1>1, <1>2, FS_Subset
<1>4. QED
  BY <1>2, <1>3, FS_CardinalityType, Times DEF PermitsInv, Leased

\* The concurrency limit holds of the calls within their lease, whatever the
\* lock waits, the late timers and the crashes.
THEOREM LeasedCallsKeepCeiling == Spec => []LeasedCeiling
<1>1. PermitsInv => LeasedCeiling
  <2> DEFINE S == {r \in InFlight : now < clock[r] + LeaseTime}
  <2>1. ASSUME PermitsInv PROVE Cardinality(S) <= Concurrency
    BY <2>1, CoveredCalls
  <2>2. QED
    BY <2>1 DEF LeasedCeiling
<1>2. QED
  BY <1>1, AlwaysPermits, PTL

\* It holds of the calls within their timeout, however late those of other processes
\* are stopped, if the slack of a lease is no shorter than the wait for the lock.
THEOREM TimelyCallsKeepCeiling == Spec => []TimelyCeiling
<1>1. PermitsInv => TimelyCeiling
  <2> DEFINE S == {r \in InFlight : now < due[r]}
  <2>1. ASSUME PermitsInv, LockWait <= LeaseSlack PROVE Cardinality(S) <= Concurrency
    <3>1. \A r \in S : now < clock[r] + LeaseTime
      BY <2>1, Times DEF PermitsInv, Timely, Clocks, InFlight, LeaseTime
    <3>2. QED
      BY <2>1, <3>1, CoveredCalls
  <2>2. QED
    BY <2>1 DEF TimelyCeiling
<1>2. QED
  BY <1>1, AlwaysPermits, PTL
----
\* The first ask finds no row of its request.
FirstAsk(r) ==
  pc[r] = "asking" /\ r \notin DOMAIN waiters /\ deadline[r] = clock[r] + CapacityWait

\* Later ones find it with the time of the first, and not about to expire.
InQueue(r) ==
  /\ r \in DOMAIN waiters
  /\ waiters[r].created + CapacityWait = deadline[r]
  /\ pc[r] = "waiting" => waiters[r].expires = clock[r] + WaiterTTL
  /\ pc[r] = "asking" =>
       clock[r] + WaiterTTL <= waiters[r].expires + LockWait + Poll + MaxStall

\* Rows belong to requests that have asked.
Placed ==
  \A r \in Requests :
    /\ pc[r] = "idle" => r \notin DOMAIN waiters
    /\ pc[r] = "asking" => FirstAsk(r) \/ InQueue(r)
    /\ pc[r] = "waiting" => InQueue(r)

\* The row of a live request has not expired by the clock of anybody.
LEMMA RowLives ==
  ASSUME PermitsInv, RowsOutliveSleep, NEW q \in Requests, InQueue(q),
         pc[q] \in {"asking", "waiting"}, NEW time \in Nat, time <= now
  PROVE  q \in DOMAIN LiveWaiters(time)
<1>1. waiters[q].expires \in Nat /\ clock[q] \in Nat /\ due[q] \in Nat /\ now \in Nat
  BY DEF PermitsInv, Rows, Clocks, Waiter, InQueue
<1>2. CASE pc[q] = "waiting"
  <2>1. now <= clock[q] + LockWait + Poll + MaxStall
    BY <1>1, <1>2, Times DEF PermitsInv, Timely
  <2>2. now < waiters[q].expires
    BY <1>1, <1>2, <2>1, Times DEF InQueue, RowsOutliveSleep
  <2>3. QED
    BY <1>1, <2>2 DEF LiveWaiters, Without, InQueue
<1>3. CASE pc[q] = "asking"
  <2>1. now <= clock[q] + LockWait
    BY <1>1, <1>3, Times DEF PermitsInv, Timely
  <2>2. now < waiters[q].expires
    BY <1>1, <1>3, <2>1, Times DEF InQueue, RowsOutliveSleep
  <2>3. QED
    BY <1>1, <2>2 DEF LiveWaiters, Without, InQueue
<1>4. QED
  BY <1>2, <1>3

\* A transaction of another request leaves a live request's row where it is.
LEMMA RowStays ==
  ASSUME PermitsInv, RowsOutliveSleep, NEW q \in Requests, InQueue(q),
         pc[q] \in {"asking", "waiting"}, NEW r \in Requests, q # r
  PROVE  q \in DOMAIN Queued(r) /\ Queued(r)[q] = waiters[q]
<1>1. clock[r] \in Nat /\ clock[r] <= now
  BY DEF PermitsInv, Clocks, Timely
<1>2. q \in DOMAIN LiveWaiters(clock[r])
  BY <1>1, RowLives
<1>3. QED
  BY <1>2, QueuedRows DEF PermitsInv

\* The row a request asks with tells when it first asked.
LEMMA OwnRow ==
  ASSUME PermitsInv, Placed, RowsOutliveSleep, NEW r \in Requests, pc[r] = "asking"
  PROVE  Queued(r)[r].created + CapacityWait = deadline[r]
<1>1. clock[r] \in Nat /\ clock[r] <= now
  BY DEF PermitsInv, Clocks, Timely
<1>2. CASE FirstAsk(r)
  <2>1. r \notin DOMAIN LiveWaiters(clock[r])
    BY <1>2, QueuedRows DEF FirstAsk, PermitsInv
  <2>2. QED
    BY <1>2, <2>1, QueuedRows DEF FirstAsk, PermitsInv
<1>3. CASE InQueue(r)
  <2>1. r \in DOMAIN LiveWaiters(clock[r])
    BY <1>1, <1>3, RowLives
  <2>2. QED
    BY <1>3, <2>1, QueuedRows DEF InQueue, PermitsInv
<1>4. QED
  BY <1>2, <1>3 DEF Placed

\* What a step of one request must show to keep every place.
LEMMA PlacedFrame ==
  ASSUME PermitsInv, PermitsInv', Placed, RowsOutliveSleep, NEW r \in Requests,
         /\ pc'[r] = "idle" => r \notin DOMAIN waiters'
         /\ pc'[r] = "asking" => FirstAsk(r)' \/ InQueue(r)'
         /\ pc'[r] = "waiting" => InQueue(r)',
         \A q \in Requests \ {r} :
           pc'[q] = pc[q] /\ clock'[q] = clock[q] /\ deadline'[q] = deadline[q],
         \A q \in Requests \ {r} : q \in DOMAIN waiters' => q \in DOMAIN waiters,
         \A q \in Requests \ {r} :
           (InQueue(q) /\ pc[q] \in {"asking", "waiting"}) =>
              q \in DOMAIN waiters' /\ waiters'[q] = waiters[q]
  PROVE  Placed'
<1>1. ASSUME NEW q \in Requests \ {r}
      PROVE  /\ pc'[q] = "idle" => q \notin DOMAIN waiters'
             /\ pc'[q] = "asking" => FirstAsk(q)' \/ InQueue(q)'
             /\ pc'[q] = "waiting" => InQueue(q)'
  BY <1>1 DEF Placed, FirstAsk, InQueue
<1>2. QED
  BY <1>1 DEF Placed

\* Every step keeps every live request's place.
LEMMA PlacedStep ==
  ASSUME PermitsInv, PermitsInv', Placed, RowsOutliveSleep, [Next]_vars
  PROVE  Placed'
<1>1. ASSUME NEW r \in Requests, Ask(r)
      PROVE  Placed'
  <2>1. /\ pc'[r] = "asking" /\ clock'[r] = now /\ waiters' = waiters
        /\ pc[r] = "idle" => deadline'[r] = now + CapacityWait
        /\ pc[r] = "waiting" => deadline'[r] = deadline[r]
        /\ pc[r] \in {"idle", "waiting"}
        /\ \A q \in Requests \ {r} :
             pc'[q] = pc[q] /\ clock'[q] = clock[q] /\ deadline'[q] = deadline[q]
    BY <1>1 DEF Ask, Goto, table, PermitsInv, Clocks
  <2> DEFINE Kept == \A q \in Requests \ {r} :
                       (InQueue(q) /\ pc[q] \in {"asking", "waiting"}) =>
                          q \in DOMAIN waiters' /\ waiters'[q] = waiters[q]
  <2>5. Kept
    BY <2>1 DEF InQueue
  <2>2. CASE pc[r] = "idle"
    <3>1. FirstAsk(r)'
      BY <2>1, <2>2 DEF Placed, FirstAsk
    <3>2. QED
      BY <2>1, <2>5, <3>1, PlacedFrame
  <2>3. CASE pc[r] = "waiting"
    <3>1. InQueue(r)
      BY <2>3 DEF Placed
    <3>2. /\ now \in Nat /\ clock[r] \in Nat /\ waiters[r].expires \in Nat
          /\ now <= clock[r] + LockWait + Poll + MaxStall
      BY <2>3, <3>1, Times DEF PermitsInv, Timely, Rows, Clocks, Waiter, InQueue
    <3>3. InQueue(r)'
      BY <2>1, <2>3, <3>1, <3>2, Times DEF InQueue
    <3>4. QED
      BY <2>1, <2>5, <3>3, PlacedFrame
  <2>4. QED
    BY <2>1, <2>2, <2>3
<1>2. ASSUME NEW r \in Requests, Deny(r)
      PROVE  Placed'
  <2>1. /\ pc[r] = "asking" /\ waiters' = Queued(r)
        /\ pc'[r] \in {"cancelling", "waiting"}
        /\ UNCHANGED <<clock, deadline>>
        /\ \A q \in Requests \ {r} : pc'[q] = pc[q]
    BY <1>2 DEF Deny, Goto, PermitsInv, Clocks
  <2>2. InQueue(r)'
    BY <2>1, QueuedRows, OwnRow DEF InQueue, PermitsInv
  <2>3. \A q \in Requests \ {r} : q \in DOMAIN waiters' => q \in DOMAIN waiters
    BY <2>1, QueuedRows DEF PermitsInv
  <2>4. \A q \in Requests \ {r} :
          (InQueue(q) /\ pc[q] \in {"asking", "waiting"}) =>
             q \in DOMAIN waiters' /\ waiters'[q] = waiters[q]
    BY <2>1, RowStays
  <2>5. QED
    BY <2>1, <2>2, <2>3, <2>4, PlacedFrame
<1>3. ASSUME NEW r \in Requests, Grant(r)
      PROVE  Placed'
  <2>1. /\ waiters' = Without(Queued(r), {r})
        /\ pc'[r] = "calling"
        /\ UNCHANGED <<clock, deadline>>
        /\ \A q \in Requests \ {r} : pc'[q] = pc[q]
    BY <1>3 DEF Grant, Goto, PermitsInv, Clocks
  <2>2. \A q \in Requests \ {r} : q \in DOMAIN waiters' => q \in DOMAIN waiters
    BY <2>1, QueuedRows, ZenonT(60) DEF PermitsInv, Without
  <2>3. \A q \in Requests \ {r} :
          (InQueue(q) /\ pc[q] \in {"asking", "waiting"}) =>
             q \in DOMAIN waiters' /\ waiters'[q] = waiters[q]
    BY <2>1, RowStays DEF Without
  <2>4. QED
    BY <2>1, <2>2, <2>3, PlacedFrame
<1>4. ASSUME NEW r \in Requests,
             GiveUp(r) \/ Cancel(r) \/ FinishCall(r) \/ Release(r) \/ Lose(r)
      PROVE  Placed'
  <2>1. /\ pc'[r] \notin {"idle", "asking", "waiting"}
        /\ \A q \in Requests \ {r} :
             pc'[q] = pc[q] /\ clock'[q] = clock[q] /\ deadline'[q] = deadline[q]
    BY <1>4 DEF GiveUp, Cancel, FinishCall, Release, Lose, Close, Goto, PermitsInv, Clocks
  <2>2. \A q \in Requests \ {r} : /\ q \in DOMAIN waiters' <=> q \in DOMAIN waiters
                                  /\ q \in DOMAIN waiters => waiters'[q] = waiters[q]
    BY <1>4 DEF GiveUp, Cancel, FinishCall, Release, Lose, Without, table
  <2>3. \A q \in Requests \ {r} :
          (InQueue(q) /\ pc[q] \in {"asking", "waiting"}) =>
             q \in DOMAIN waiters' /\ waiters'[q] = waiters[q]
    BY <2>2 DEF InQueue
  <2>4. QED
    BY <2>1, <2>2, <2>3, PlacedFrame
<1>5. CASE Tick \/ UNCHANGED vars
  BY <1>5 DEF Tick, vars, table, Placed, FirstAsk, InQueue
<1>6. QED
  BY <1>1, <1>2, <1>3, <1>4, <1>5 DEF Next

\* Nobody is queued at the start.
LEMMA PlacedInit == Init => Placed
BY DEF Init, Placed

\* The head of the queue is the live request that asked first.
LEMMA GrantInOrder ==
  ASSUME PermitsInv, Placed, RowsOutliveSleep, NEW q \in Requests, NEW r \in Requests,
         Grant(r), q \in DOMAIN waiters, pc[q] \in {"asking", "waiting"}
  PROVE  deadline[r] <= deadline[q]
<1>1. pc[r] = "asking" /\ IsHead(Queued(r), r)
  BY DEF Grant
<1>2. CASE q = r
  BY <1>2 DEF PermitsInv, Clocks
<1>3. CASE q # r
  <2>1. InQueue(q)
    BY DEF Placed, FirstAsk
  <2>2. q \in DOMAIN Queued(r) /\ Queued(r)[q] = waiters[q]
    BY <1>3, <2>1, RowStays
  <2>3. waiters[q].created + CapacityWait = deadline[q]
    BY <2>1 DEF InQueue
  <2>4. Queued(r)[r].created + CapacityWait = deadline[r]
    BY <1>1, OwnRow
  <2>5. /\ r \in DOMAIN Queued(r) /\ Queued(r)[r] \in Waiter /\ waiters[q] \in Waiter
    BY <2>1, QueuedRows DEF PermitsInv, Rows, InQueue
  <2>6. /\ Queued(r)[r].created \in Nat /\ waiters[q].created \in Nat
    BY <2>5 DEF Waiter
  <2>7. Queued(r)[r].created <= waiters[q].created
    BY <1>1, <2>2, <2>6 DEF IsHead
  <2>8. QED
    BY <2>3, <2>4, <2>6, <2>7, Times
<1>4. QED
  BY <1>2, <1>3

\* No live request in the queue is overtaken by one that first asked later.
THEOREM FirstAskedFirstServed == Spec => NoOvertaking
<1> DEFINE InOrder(q, r) ==
      ( /\ RowsOutliveSleep
        /\ pc[r] = "asking" /\ pc'[r] = "calling"
        /\ q \in DOMAIN waiters /\ pc[q] \in {"asking", "waiting"} )
      => deadline[r] <= deadline[q]
<1>1. ASSUME PermitsInv, RowsOutliveSleep => Placed, [Next]_vars
      PROVE  \A q, r \in Requests : InOrder(q, r)
  <2>1. ASSUME NEW q \in Requests, NEW r \in Requests, RowsOutliveSleep,
               pc[r] = "asking", pc'[r] = "calling",
               q \in DOMAIN waiters, pc[q] \in {"asking", "waiting"}
        PROVE  deadline[r] <= deadline[q]
    <3>1. ASSUME NEW s \in Requests, ~Grant(s),
                 Ask(s) \/ Grant(s) \/ Deny(s) \/ GiveUp(s) \/ Cancel(s)
                 \/ FinishCall(s) \/ Release(s) \/ Lose(s)
          PROVE  FALSE
      <4>1. PICK step \in Steps \ {"calling"} : pc' = [pc EXCEPT ![s] = step]
        BY <3>1 DEF Ask, Deny, GiveUp, Cancel, FinishCall, Release, Lose, Close, Goto, Steps
      <4>2. QED
        BY <1>1, <2>1, <4>1 DEF PermitsInv, Clocks
    <3>2. ASSUME NEW s \in Requests, Grant(s)
          PROVE  s = r
      BY <1>1, <2>1, <3>2 DEF Grant, Goto, PermitsInv, Clocks
    <3>3. ~Tick /\ ~UNCHANGED vars
      BY <2>1 DEF Tick, vars
    <3>4. Grant(r)
      BY <1>1, <3>1, <3>2, <3>3 DEF Next
    <3>5. QED
      BY <1>1, <2>1, <3>4, GrantInOrder
  <2>2. QED
    BY <2>1
<1>2. PermitsInv /\ PermitsInv' /\ (RowsOutliveSleep => Placed) /\ [Next]_vars
        => (RowsOutliveSleep => Placed)'
  BY PlacedStep DEF RowsOutliveSleep, WaiterTTL, LeaseTime
<1>3. Init => (RowsOutliveSleep => Placed)
  BY PlacedInit
<1>4. PermitsInv /\ (RowsOutliveSleep => Placed) /\ [Next]_vars
        => [\A q, r \in Requests : InOrder(q, r)]_vars
  BY <1>1
<1>5. QED
  BY <1>2, <1>3, <1>4, AlwaysPermits, PTL DEF Spec, NoOvertaking

----
\* A permit belongs to a request that calls, releases it or was lost, a place in the
\* queue to one that waits, is about to leave it or was lost.
OwnRows ==
  /\ \A r \in Requests \cap DOMAIN leases : pc[r] \in {"calling", "releasing", "lost"}
  /\ \A r \in Requests \cap DOMAIN waiters : pc[r] \in {"asking", "waiting", "cancelling", "lost"}

LEMMA OwnRowsStep ==
  ASSUME PermitsInv, OwnRows, NEW r \in Requests,
         \/ Ask(r) \/ Grant(r) \/ Deny(r) \/ GiveUp(r) \/ Cancel(r) \/ FinishCall(r) \/ Release(r) \/ Lose(r)
  PROVE  OwnRows'
<1>1. DOMAIN pc = Requests /\ clock[r] \in Nat /\ clock[r] <= now
  BY DEF PermitsInv, Clocks, Timely
<1>2. CASE Ask(r)
  BY <1>1, <1>2 DEF Ask, Goto, OwnRows, table
<1>3. CASE GiveUp(r)
  BY <1>1, <1>3 DEF GiveUp, Close, Goto, OwnRows, table
<1>4. CASE FinishCall(r)
  BY <1>1, <1>4 DEF FinishCall, Close, Goto, OwnRows, table
<1>5. CASE Lose(r)
  BY <1>1, <1>5 DEF Lose, Close, Goto, OwnRows, table
<1>6. CASE Cancel(r)
  <2>1. DOMAIN waiters' = DOMAIN waiters \ {r} /\ DOMAIN leases' = DOMAIN leases /\ pc[r] = "cancelling"
    BY <1>6 DEF Cancel, Without
  <2>2. \A q \in Requests \ {r} : pc'[q] = pc[q]
    BY <1>6 DEF Cancel, Close, Goto
  <2>3. QED
    BY <2>1, <2>2 DEF OwnRows
<1>7. CASE Release(r)
  <2>1. DOMAIN leases' = DOMAIN leases \ {r} /\ DOMAIN waiters' = DOMAIN waiters /\ pc[r] = "releasing"
    BY <1>7 DEF Release, Without
  <2>2. \A q \in Requests \ {r} : pc'[q] = pc[q]
    BY <1>7 DEF Release, Goto
  <2>3. QED
    BY <2>1, <2>2 DEF OwnRows
<1>8. CASE Grant(r)
  <2>1. DOMAIN leases' \subseteq DOMAIN leases \cup {r}
    BY <1>1, <1>8, LiveRows DEF Grant, PermitsInv
  <2>2. DOMAIN waiters' = DOMAIN Queued(r) \ {r}
    BY <1>8 DEF Grant, Without
  <2>3. DOMAIN waiters' \subseteq DOMAIN waiters \ {r}
    BY <2>2, QueuedRows DEF PermitsInv
  <2>4. pc'[r] = "calling" /\ \A q \in Requests \ {r} : pc'[q] = pc[q]
    BY <1>1, <1>8 DEF Grant, Goto
  <2>5. QED
    BY <2>1, <2>3, <2>4 DEF OwnRows
<1>9. CASE Deny(r)
  <2>1. DOMAIN leases' \subseteq DOMAIN leases
    BY <1>1, <1>9, LiveRows DEF Deny, PermitsInv
  <2>2. DOMAIN waiters' \subseteq DOMAIN waiters \cup {r}
    BY <1>9, QueuedRows DEF Deny, PermitsInv
  <2>3. pc[r] = "asking" /\ pc'[r] \in {"cancelling", "waiting"} /\ \A q \in Requests \ {r} : pc'[q] = pc[q]
    BY <1>1, <1>9 DEF Deny, Goto
  <2>4. QED
    BY <2>1, <2>2, <2>3 DEF OwnRows
<1>10. QED
  BY <1>2, <1>3, <1>4, <1>5, <1>6, <1>7, <1>8, <1>9

\* A request that ended in order has neither a permit nor a place in the queue: a refusal
\* leaves a row that only its own request takes out, and a release may come after another
\* process deleted the lease.
THEOREM EndedRequestsLeaveNothing == Spec => []NoLeftovers
<1>1. Init => OwnRows
  BY DEF Init, OwnRows
<1>2. PermitsInv /\ OwnRows /\ [Next]_vars => OwnRows'
  <2>1. CASE Tick \/ UNCHANGED vars
    BY <2>1 DEF Tick, vars, table, OwnRows
  <2>2. QED
    BY <2>1, OwnRowsStep DEF Next
<1>3. PermitsInv /\ OwnRows => NoLeftovers
  BY DEF PermitsInv, Rows, OwnRows, NoLeftovers
<1>4. QED
  BY <1>1, <1>2, <1>3, AlwaysPermits, PTL DEF Spec
----
\* A wait that began sleeps to its deadline at most, and asks again when it wakes.
Bounded ==
  \A r \in Requests :
    /\ pc[r] = "asking" => clock[r] <= deadline[r] + MaxStall
    /\ pc[r] = "waiting" => due[r] <= deadline[r]

LEMMA BoundedStep ==
  ASSUME PermitsInv, Bounded, NEW r \in Requests,
         \/ Ask(r) \/ Grant(r) \/ Deny(r) \/ GiveUp(r) \/ Cancel(r) \/ FinishCall(r) \/ Release(r) \/ Lose(r)
  PROVE  Bounded'
<1>1. /\ pc \in [Requests -> Steps] /\ clock \in [Requests -> Nat] /\ due \in [Requests -> Nat]
      /\ deadline \in [Requests -> Nat] /\ now \in Nat
  BY DEF PermitsInv, Clocks
<1>2. CASE Ask(r)
  BY <1>1, <1>2, Times DEF Ask, Goto, Bounded, PermitsInv, Timely
<1>3. CASE GiveUp(r) \/ FinishCall(r) \/ Lose(r) \/ Cancel(r)
  <2>1. PICK step \in {"cancelling", "releasing", "lost", "done"} : Close(r, step)
    BY <1>3 DEF GiveUp, FinishCall, Lose, Cancel
  <2>2. QED
    BY <1>1, <2>1 DEF Close, Goto, Bounded
<1>4. CASE Grant(r) \/ Release(r)
  BY <1>1, <1>4 DEF Grant, Release, Goto, Bounded
<1>5. CASE Deny(r)
  <2>1. /\ UNCHANGED <<now, clock, deadline>>
        /\ due' = [due EXCEPT ![r] = IF now + Poll < deadline[r] THEN now + Poll ELSE deadline[r]]
        /\ pc' = [pc EXCEPT ![r] = IF now >= deadline[r] THEN "cancelling" ELSE "waiting"]
    BY <1>5 DEF Deny, Goto
  <2>2. due'[r] <= deadline[r] /\ \A q \in Requests \ {r} : due'[q] = due[q]
    BY <1>1, <2>1, Times
  <2>3. QED
    BY <1>1, <2>1, <2>2 DEF Bounded
<1>6. QED
  BY <1>2, <1>3, <1>4, <1>5

\* No request waits longer than its deadline, a late timer and one wait for the lock.
THEOREM WaitsAreBounded == Spec => []BoundedWait
<1>1. Init => Bounded
  BY DEF Init, Bounded
<1>2. PermitsInv /\ Bounded /\ [Next]_vars => Bounded'
  <2>1. CASE Tick \/ UNCHANGED vars
    BY <2>1 DEF Tick, vars, table, Bounded
  <2>2. QED
    BY <2>1, BoundedStep DEF Next
<1>3. PermitsInv /\ Bounded => BoundedWait
  BY Times DEF PermitsInv, Clocks, Timely, Bounded, BoundedWait
<1>4. QED
  BY <1>1, <1>2, <1>3, AlwaysPermits, PTL DEF Spec

----
\* Each call that began in a window was counted in it or in the one before, once.
CountedOnce ==
  LockWait <= Window =>
    \A w \in Nat : Count(started, w) <= Count(used, w) + (IF w = 0 THEN 0 ELSE Count(used, w - 1))

\* Two times that are a window apart at most are in one window or in neighbours.
LEMMA NextWindow ==
  ASSUME NEW a \in Nat, NEW b \in Nat, a <= b, b <= a + Window
  PROVE  WindowOf(b) \in {WindowOf(a), WindowOf(a) + 1}
<1> DEFINE i == a \div Window
           j == b \div Window
<1>1. Window \in Nat \ {0}
  BY PermitsAssumption
<1>2. i \in Nat /\ j \in Nat
  BY <1>1
<1>3. Window * i <= a /\ a < Window * (i + 1)
  BY <1>1
<1>4. Window * j <= b /\ b < Window * (j + 1)
  BY <1>1
<1> HIDE DEF i, j
<1>5. i <= j
  <2> SUFFICES ASSUME j + 1 <= i PROVE FALSE
    BY <1>2
  <2>1. Window * (j + 1) <= Window * i
    BY <1>1, <1>2
  <2>2. QED
    BY <1>1, <1>2, <1>3, <1>4, <2>1
<1>6. j <= i + 1
  <2> SUFFICES ASSUME i + 2 <= j PROVE FALSE
    BY <1>2
  <2>1. Window * (i + 2) <= Window * j
    BY <1>1, <1>2
  <2>2. Window * (i + 2) = Window * (i + 1) + Window
    BY <1>1, <1>2
  <2>3. QED
    BY <1>1, <1>2, <1>3, <1>4, <2>1, <2>2
<1>7. j \in {i, i + 1}
  BY <1>2, <1>5, <1>6
<1>8. QED
  BY <1>7 DEF WindowOf, i, j

LEMMA CountAgain ==
  ASSUME NEW f, NEW v, NEW w
  PROVE  Count(Counted(f, w), v) = IF v = w THEN Count(f, w) + 1 ELSE Count(f, v)
BY DEF Count, Counted

LEMMA CountsAreNatural ==
  ASSUME Counts, NEW w
  PROVE  Count(used, w) \in 0 .. Rate /\ Count(started, w) \in Nat
<1>1. Rate \in Nat
  BY PermitsAssumption
<1>2. QED
  BY <1>1 DEF Counts, Count

LEMMA CountedGrant ==
  ASSUME PermitsInv, CountedOnce, NEW r \in Requests, Grant(r)
  PROVE  CountedOnce'
<1> SUFFICES ASSUME LockWait <= Window, NEW w \in Nat
             PROVE  Count(started', w) <= Count(used', w) + (IF w = 0 THEN 0 ELSE Count(used', w - 1))
  BY DEF CountedOnce
<1> DEFINE a == WindowOf(clock[r])
           b == WindowOf(now)
<1>1. used' = Counted(used, a) /\ started' = Counted(started, b)
  BY DEF Grant
<1>2. clock[r] \in Nat /\ now \in Nat /\ clock[r] <= now /\ now <= clock[r] + Window
  BY Times, PermitsAssumption DEF Grant, PermitsInv, Clocks, Timely
<1>3. a \in Nat /\ b \in {a, a + 1}
  BY <1>2, NextWindow, WindowType
<1> HIDE DEF a, b
<1>4. Count(used', w) = (IF w = a THEN Count(used, a) + 1 ELSE Count(used, w))
  BY <1>1, CountAgain
<1>5. Count(used', w - 1) = (IF w - 1 = a THEN Count(used, a) + 1 ELSE Count(used, w - 1))
  BY <1>1, CountAgain
<1>6. Count(started', w) = (IF w = b THEN Count(started, b) + 1 ELSE Count(started, w))
  BY <1>1, CountAgain
<1>7. /\ Count(used, w) \in Nat /\ Count(used, w - 1) \in Nat /\ Count(started, w) \in Nat
  BY CountsAreNatural, PermitsAssumption DEF PermitsInv
<1>8. Count(started, w) <= Count(used, w) + (IF w = 0 THEN 0 ELSE Count(used, w - 1))
  BY DEF CountedOnce
<1>9. QED
  BY <1>3, <1>4, <1>5, <1>6, <1>7, <1>8

\* One window of the clock sees the calls of two windows of the count at most, as long as
\* the lock is waited for no longer than a window.
THEOREM WindowsStayWithinTwice == Spec => []StartsPerWindow
<1>1. Init => CountedOnce
  BY DEF Init, CountedOnce, Count
<1>2. PermitsInv /\ CountedOnce /\ [Next]_vars => CountedOnce'
  <2>1. ASSUME UNCHANGED <<used, started>>, CountedOnce PROVE CountedOnce'
    BY <2>1 DEF CountedOnce, Count
  <2>2. QED
    BY <2>1, CountedGrant
    DEF Next, vars, table, Tick, Ask, Deny, GiveUp, Cancel, FinishCall, Release, Lose
<1>3. PermitsInv /\ CountedOnce => StartsPerWindow
  <2> SUFFICES ASSUME PermitsInv, CountedOnce, LockWait <= Window, NEW w \in DOMAIN started
               PROVE  started[w] <= 2 * Rate
    BY DEF StartsPerWindow
  <2>1. w \in Nat /\ started[w] = Count(started, w)
    BY DEF PermitsInv, Counts, Count
  <2>2. Count(started, w) <= Count(used, w) + (IF w = 0 THEN 0 ELSE Count(used, w - 1))
    BY <2>1 DEF CountedOnce
  <2>3. Count(used, w) \in 0 .. Rate /\ Count(used, w - 1) \in 0 .. Rate /\ Count(started, w) \in Nat
    BY CountsAreNatural DEF PermitsInv
  <2>4. Rate \in Nat
    BY PermitsAssumption
  <2>5. QED
    BY <2>1, <2>2, <2>3, <2>4
<1>4. QED
  BY <1>1, <1>2, <1>3, AlwaysPermits, PTL DEF Spec
====
