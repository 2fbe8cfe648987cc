---- MODULE ProviderPermits ----
(***************************************************************************)
(* The capacity of one provider, shared by every process on the database:  *)
(* provider_rate_windows, provider_concurrency_leases and the queue of     *)
(* provider_waiters, under ProviderExecutor._wait_for_permit.              *)
(*                                                                         *)
(* Time counts in ticks.  acquire_provider_permit reads the clock, waits   *)
(* for the write lock, and decides by the clock it read: two steps here.   *)
(* A request is one attempt of a call, with the request_id it queues under.*)
(***************************************************************************)
EXTENDS Naturals, FiniteSets

CONSTANTS
  Requests,       \* request_ids, ordered as the numbers they are
  Rate,           \* rate_limit_per_minute, at least 1
  Concurrency,    \* concurrency_limit, at least 1
  Window,         \* the minute of the rate windows
  Timeout,        \* timeout_sec of a call
  LeaseSlack,     \* what a lease adds to it: 5 s
  LockWait,       \* busy_timeout: 5 s
  CapacityWait,   \* provider_capacity_wait_sec
  Poll,           \* longest sleep between two asks
  MaxStall,       \* how late a process may serve a timer: its event loop is
                  \* blocked while any of its coroutines waits for the write lock
  Horizon         \* bound on the ticks of a behaviour

ASSUME PermitsAssumption ==
  /\ Requests \subseteq Nat /\ IsFiniteSet(Requests)
  /\ {Rate, Concurrency, Window} \subseteq Nat \ {0}
  /\ {Timeout, LeaseSlack, LockWait, CapacityWait, Poll, MaxStall, Horizon} \subseteq Nat

VARIABLES
  now,
  leases,         \* [request -> expires_at]: the permit rows
  waiters,        \* [request -> its row]
  used,           \* [window -> request_count]
  started,        \* history: [window -> calls begun in it]
  pc, clock, due, deadline   \* of each request: its step, the clock it read, the
                             \* tick it must act by, the end of its capacity wait

table == <<leases, waiters, used>>
vars == <<now, table, started, pc, clock, due, deadline>>

Steps == {"idle", "asking", "waiting", "cancelling", "calling", "releasing", "done", "lost"}
Waiter == [created : Nat, expires : Nat]

\* Faulty: the lease is as long as the call.
LeaseBare == Timeout

LeaseTime == Timeout + LeaseSlack
WaiterTTL == 2 * LeaseTime

WindowOf(time) == time \div Window
Count(f, w) == IF w \in DOMAIN f THEN f[w] ELSE 0
Counted(f, w) == [v \in DOMAIN f \cup {w} |-> IF v = w THEN Count(f, w) + 1 ELSE f[v]]
Without(f, S) == [x \in DOMAIN f \ S |-> f[x]]

Init ==
  /\ now = 0
  /\ leases = [r \in {} |-> 0] /\ waiters = [r \in {} |-> 0]
  /\ used = [w \in {} |-> 0] /\ started = [w \in {} |-> 0]
  /\ pc = [r \in Requests |-> "idle"]
  /\ clock = [r \in Requests |-> 0]
  /\ due = [r \in Requests |-> 0]
  /\ deadline = [r \in Requests |-> 0]

Goto(r, step) == pc' = [pc EXCEPT ![r] = step]

\* The request ends or is about to: its times no longer matter.
Close(r, step) ==
  /\ Goto(r, step)
  /\ clock' = [clock EXCEPT ![r] = 0]
  /\ due' = [due EXCEPT ![r] = 0]
  /\ deadline' = [deadline EXCEPT ![r] = 0]

\* The first ask of a wait starts its deadline; the clock is read before BEGIN
\* IMMEDIATE, which waits for the write lock.
Ask(r) ==
  /\ pc[r] \in {"idle", "waiting"}
  /\ clock' = [clock EXCEPT ![r] = now]
  /\ due' = [due EXCEPT ![r] = now + LockWait]
  /\ deadline' = IF pc[r] = "idle" THEN [deadline EXCEPT ![r] = now + CapacityWait]
                                   ELSE deadline
  /\ Goto(r, "asking")
  /\ UNCHANGED <<now, table, started>>

\* The rows left once those expired by the caller's clock are deleted.
LiveLeases(time) == Without(leases, {r \in DOMAIN leases : leases[r] <= time})
LiveWaiters(time) == Without(waiters, {r \in DOMAIN waiters : waiters[r].expires <= time})

\* Faulty: asking again starts over at the back of the queue.
QueuedAnew(r) ==
  [q \in DOMAIN LiveWaiters(clock[r]) \cup {r} |->
     IF q = r THEN [created |-> clock[r], expires |-> clock[r] + WaiterTTL]
     ELSE waiters[q]]

\* The queue with the caller in it: its place is kept, its expiry refreshed.
Queued(r) ==
  [q \in DOMAIN LiveWaiters(clock[r]) \cup {r} |->
     IF q # r THEN waiters[q]
     ELSE [created |-> IF r \in DOMAIN LiveWaiters(clock[r]) THEN waiters[r].created
                                                              ELSE clock[r],
           expires |-> clock[r] + WaiterTTL]]

\* ORDER BY created_at, id LIMIT 1.
IsHead(queue, r) ==
  \A q \in DOMAIN queue : \/ queue[r].created < queue[q].created
                          \/ queue[r].created = queue[q].created /\ r <= q

\* Faulty: one call too many at a time, or in a window.
HasCapacityLoose(r) ==
  /\ Cardinality(DOMAIN LiveLeases(clock[r])) <= Concurrency
  /\ Count(used, WindowOf(clock[r])) < Rate
HasCapacityOver(r) ==
  /\ Cardinality(DOMAIN LiveLeases(clock[r])) < Concurrency
  /\ Count(used, WindowOf(clock[r])) <= Rate

HasCapacity(r) ==
  /\ Cardinality(DOMAIN LiveLeases(clock[r])) < Concurrency
  /\ Count(used, WindowOf(clock[r])) < Rate

\* Faulty: the row of a granted waiter stays.
GrantQueued(r) ==
  /\ pc[r] = "asking"
  /\ IsHead(Queued(r), r) /\ HasCapacity(r)
  /\ used' = Counted(used, WindowOf(clock[r]))
  /\ leases' = [q \in DOMAIN LiveLeases(clock[r]) \cup {r} |->
                  IF q = r THEN clock[r] + LeaseTime ELSE leases[q]]
  /\ waiters' = Queued(r)
  /\ started' = Counted(started, WindowOf(now))
  /\ due' = [due EXCEPT ![r] = now + Timeout]
  /\ Goto(r, "calling")
  /\ UNCHANGED <<now, clock, deadline>>

\* The transaction of a request that is let through, and the start of its call.
Grant(r) ==
  /\ pc[r] = "asking"
  /\ IsHead(Queued(r), r) /\ HasCapacity(r)
  /\ used' = Counted(used, WindowOf(clock[r]))
  /\ leases' = [q \in DOMAIN LiveLeases(clock[r]) \cup {r} |->
                  IF q = r THEN clock[r] + LeaseTime ELSE leases[q]]
  /\ waiters' = Without(Queued(r), {r})
  /\ started' = Counted(started, WindowOf(now))
  /\ due' = [due EXCEPT ![r] = now + Timeout]
  /\ Goto(r, "calling")
  /\ UNCHANGED <<now, clock, deadline>>

\* Faulty: the sleep does not look at the deadline.
DenyLong(r) ==
  /\ pc[r] = "asking"
  /\ ~(IsHead(Queued(r), r) /\ HasCapacity(r))
  /\ leases' = LiveLeases(clock[r])
  /\ waiters' = Queued(r)
  /\ Goto(r, IF now >= deadline[r] THEN "cancelling" ELSE "waiting")
  /\ due' = [due EXCEPT ![r] = now + Poll]
  /\ UNCHANGED <<now, used, started, clock, deadline>>

\* A refusal is committed too; past its deadline the request gives up, else it
\* sleeps, never beyond the deadline.
Deny(r) ==
  /\ pc[r] = "asking"
  /\ ~(IsHead(Queued(r), r) /\ HasCapacity(r))
  /\ leases' = LiveLeases(clock[r])
  /\ waiters' = Queued(r)
  /\ Goto(r, IF now >= deadline[r] THEN "cancelling" ELSE "waiting")
  /\ due' = [due EXCEPT ![r] = IF now + Poll < deadline[r] THEN now + Poll ELSE deadline[r]]
  /\ UNCHANGED <<now, used, started, clock, deadline>>

\* The write lock is not had in time (OperationalError), or the task that
\* sleeps is cancelled: the wait ends in its finally block.
GiveUp(r) ==
  /\ \/ pc[r] = "asking" /\ now >= due[r]
     \/ pc[r] = "waiting"
  /\ Close(r, "cancelling")
  /\ UNCHANGED <<now, table, started>>

Cancel(r) ==
  /\ pc[r] = "cancelling"
  /\ waiters' = Without(waiters, {r})
  /\ Close(r, "done")
  /\ UNCHANGED <<now, leases, used, started>>

\* The call answers, fails or is stopped at its timeout.
FinishCall(r) ==
  /\ pc[r] = "calling"
  /\ Close(r, "releasing")
  /\ UNCHANGED <<now, table, started>>

Release(r) ==
  /\ pc[r] = "releasing"
  /\ leases' = Without(leases, {r})
  /\ Goto(r, "done")
  /\ UNCHANGED <<now, waiters, used, started, clock, due, deadline>>

\* The process dies, or its release or cancellation fails and is only logged:
\* its rows stay until they expire.
Lose(r) ==
  /\ pc[r] \notin {"idle", "done", "lost"}
  /\ Close(r, "lost")
  /\ UNCHANGED <<now, table, started>>

\* A tick may not pass what a process has to do by then: the lock wait ends on
\* its own, sleeps and call timeouts may be served late.
Tick ==
  /\ now < Horizon
  /\ \A r \in Requests :
       /\ pc[r] = "asking" => now < due[r]
       /\ pc[r] \in {"waiting", "calling"} => now < due[r] + MaxStall
  /\ now' = now + 1
  /\ UNCHANGED <<table, started, pc, clock, due, deadline>>

Next ==
  \/ \E r \in Requests : \/ Ask(r) \/ Grant(r) \/ Deny(r) \/ GiveUp(r) \/ Cancel(r)
                         \/ FinishCall(r) \/ Release(r) \/ Lose(r)
  \/ Tick

Spec == Init /\ [][Next]_vars
----
TypeOK ==
  /\ now \in 0..Horizon
  /\ DOMAIN leases \subseteq Requests /\ leases \in [DOMAIN leases -> Nat]
  /\ DOMAIN waiters \subseteq Requests /\ waiters \in [DOMAIN waiters -> Waiter]
  /\ DOMAIN used \subseteq Nat /\ used \in [DOMAIN used -> 1..Rate]
  /\ DOMAIN started \subseteq Nat /\ started \in [DOMAIN started -> Nat]
  /\ pc \in [Requests -> Steps]
  /\ {clock, due, deadline} \subseteq [Requests -> Nat]

InFlight == {r \in Requests : pc[r] = "calling"}

\* Over all processes the calls that are within their timeout never exceed the
\* concurrency limit, although a lease counts from the clock that was read before the
\* wait for the lock: its slack is as long as that wait (busy_timeout, 5 s both), and
\* no longer.  Calls whose timeout is served late are not among them: with one of
\* those the provider may have more calls than its limit.
TimelyCeiling ==
  LockWait <= LeaseSlack =>
    Cardinality({r \in InFlight : now < due[r]}) <= Concurrency

\* Whatever the delays, the calls that are within their lease keep the limit,
\* those whose lease another process could have deleted early among them.
LeasedCeiling ==
  Cardinality({r \in InFlight : now < clock[r] + LeaseTime}) <= Concurrency

\* A call counts in the window of the clock it read, so one window may see the
\* calls of two; never more.
StartsPerWindow ==
  LockWait <= Window => \A w \in DOMAIN started : started[w] <= 2 * Rate

\* A waiter's row outlives two lock waits and the sleep between them.
RowsOutliveSleep == 2 * LockWait + Poll + MaxStall < WaiterTTL

\* A request that is queued and whose process is alive is not overtaken by one
\* that first asked later, however often either asked again.
NoOvertaking ==
  [][\A q, r \in Requests :
       ( /\ RowsOutliveSleep
         /\ pc[r] = "asking" /\ pc'[r] = "calling"
         /\ q \in DOMAIN waiters /\ pc[q] \in {"asking", "waiting"} )
       => deadline[r] <= deadline[q]]_vars

\* A wait ends with its deadline, but for one late timer and one last ask.
BoundedWait ==
  \A r \in Requests :
    pc[r] \in {"asking", "waiting"} => now <= deadline[r] + MaxStall + LockWait

\* A request that ended in order left no permit and no place in the queue.
NoLeftovers ==
  \A r \in Requests : pc[r] = "done" => r \notin DOMAIN leases \cup DOMAIN waiters
====
