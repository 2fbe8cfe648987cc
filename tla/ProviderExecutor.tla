---- MODULE ProviderExecutor ----
(***************************************************************************)
(* ProviderExecutor.execute for one billable provider, in several          *)
(* processes on one database: the run budget of each process, its local    *)
(* circuit and bulkhead, the shared circuit (provider_state), retries, and *)
(* the telemetry row of a call.                                            *)
(*                                                                         *)
(* A process is one event loop: its calls interleave at awaits only, those *)
(* of two processes between any two accesses to the database.  Permits are *)
(* granted or refused freely; ProviderPermits says when.                   *)
(***************************************************************************)
EXTENDS Integers, FiniteSets

CONSTANTS
  Procs, Calls,
  Owner,       \* [Calls -> Procs]: the process that executes a call
  Retries,     \* retry_count
  Failures,    \* circuit_failures
  Cooldown,    \* circuit_cooldown_sec, in ticks
  Limit,       \* concurrency_limit of the bulkhead
  MaxCalls,    \* max_provider_calls, negative for none
  MaxUnits,    \* max_billable_units, negative for none; an attempt costs one
  Horizon      \* bound on the ticks of a behaviour

ASSUME ExecutorAssumption ==
  /\ Owner \in [Calls -> Procs] /\ IsFiniteSet(Calls)
  /\ {Retries, Cooldown, Horizon} \subseteq Nat
  /\ {Failures, Limit} \subseteq Nat \ {0}
  /\ {MaxCalls, MaxUnits} \subseteq Int

VARIABLES
  now,
  row,                     \* provider_state: consecutive failures, open until (0 for NULL)
  circuit, reserved, free, \* of each process: local circuit, calls reserved, bulkhead slots
  txn,                     \* of each connection: the transaction an error left open
  pc, tries,               \* of each call: its step, its rounds
  recorded,                \* the calls with a provider_calls row
  paid,                    \* history: <<call, round>> of each attempt that reached the provider
  lastFailure              \* history: when a call last failed, 0 for never

process == <<circuit, reserved, free>>
vars == <<now, row, process, txn, pc, tries, recorded, paid, lastFailure>>

\* A call ends refused by the budget, rejected by a circuit, done in any other
\* way, or lost with its process.
Ended == {"refused", "rejected", "done", "lost"}
Steps == {"new", "clearing", "queued", "asking", "calling", "backoff"} \cup Ended
Closed == [failures |-> 0, open |-> 0]

Init ==
  /\ now = 1
  /\ row = Closed
  /\ circuit = [p \in Procs |-> Closed]
  /\ reserved = [p \in Procs |-> 0]
  /\ free = [p \in Procs |-> Limit]
  /\ txn = [p \in Procs |-> "none"]
  /\ pc = [c \in Calls |-> "new"]
  /\ tries = [c \in Calls |-> 0]
  /\ recorded = {}
  /\ paid = {}
  /\ lastFailure = 0

\* No other call of the process is between two of its statements.
Runs(c) == \A d \in Calls \ {c} : Owner[d] = Owner[c] => pc[d] # "clearing"

\* Another connection holds the write lock, and a write gives up in the end.
Blocked(p) == \E q \in Procs \ {p} : txn[q] = "write"

\* A write and its commit: it ends a transaction an error left open; one that
\* is refused the lock leaves such a transaction, if without the lock.
Written(p) ==
  [txn EXCEPT ![p] = IF ~Blocked(p) THEN "none"
                     ELSE IF txn[p] = "none" THEN "open" ELSE txn[p]]

End(c, how) ==
  /\ pc' = [pc EXCEPT ![c] = how]
  /\ tries' = [tries EXCEPT ![c] = 0]

\* _emit: the row is lost when the write fails, and nobody is told.
Emit(c) ==
  /\ recorded' = IF Blocked(Owner[c]) THEN recorded ELSE recorded \cup {c}
  /\ txn' = Written(Owner[c])

\* Faulty: one attempt's units are reserved, not those of its retries.
UnitsOnce(calls) == calls

WorstCaseUnits(calls) == calls * (Retries + 1)

WithinBudget(p) ==
  /\ MaxCalls >= 0 => reserved[p] + 1 <= MaxCalls
  /\ MaxUnits >= 0 => WorstCaseUnits(reserved[p] + 1) <= MaxUnits

\* Over the budget.  provider_calls.status does not admit 'budget_exceeded':
\* the row is refused inside the transaction its INSERT began.
Refuse(c) ==
  LET p == Owner[c] IN
  /\ pc[c] = "new" /\ Runs(c)
  /\ ~WithinBudget(p)
  /\ End(c, "refused")
  /\ txn' = IF Blocked(p) THEN Written(p) ELSE [txn EXCEPT ![p] = "write"]
  /\ UNCHANGED <<now, row, process, recorded, paid, lastFailure>>

\* Faulty: no cooldown ends what a failure opened.
LocallyOpenForGood(p) == circuit[p].open # 0

LocallyOpen(p) == circuit[p].open # 0 /\ now - circuit[p].open < Cooldown

\* The local circuit after it was looked at.
Cooled(p) == IF LocallyOpen(p) \/ circuit[p].open = 0 THEN circuit[p] ELSE Closed

\* The rest of _circuit_is_open, once the shared circuit is found closed.
CheckLocal(c) ==
  LET p == Owner[c] IN
  /\ circuit' = [circuit EXCEPT ![p] = Cooled(p)]
  /\ IF LocallyOpen(p)
       THEN End(c, "rejected") /\ Emit(c)
       ELSE /\ pc' = [pc EXCEPT ![c] = "queued"]
            /\ UNCHANGED <<tries, recorded>>

Reserve(c) == reserved' = [reserved EXCEPT ![Owner[c]] = @ + 1]

\* The budget is reserved, then the shared circuit read: open, closed, or
\* expired, in which case a second statement is to close it.
RejectOpen(c) ==
  /\ pc[c] = "new" /\ Runs(c) /\ WithinBudget(Owner[c])
  /\ row.open > now
  /\ Reserve(c)
  /\ End(c, "rejected") /\ Emit(c)
  /\ UNCHANGED <<now, row, circuit, free, paid, lastFailure>>

Check(c) ==
  /\ pc[c] = "new" /\ Runs(c) /\ WithinBudget(Owner[c])
  /\ row.open = 0
  /\ Reserve(c)
  /\ CheckLocal(c)
  /\ LocallyOpen(Owner[c]) \/ UNCHANGED txn
  /\ UNCHANGED <<now, row, free, paid, lastFailure>>

FindExpired(c) ==
  /\ pc[c] = "new" /\ Runs(c) /\ WithinBudget(Owner[c])
  /\ row.open # 0 /\ row.open <= now
  /\ Reserve(c)
  /\ pc' = [pc EXCEPT ![c] = "clearing"]
  /\ UNCHANGED <<now, row, circuit, free, txn, tries, recorded, paid, lastFailure>>

\* Faulty: the circuit is closed with its failures still counted.
ClearKeepingCount(c) ==
  /\ pc[c] = "clearing" /\ Runs(c)
  /\ row' = IF Blocked(Owner[c]) THEN row ELSE [row EXCEPT !.open = 0]
  /\ CheckLocal(c)
  /\ LocallyOpen(Owner[c]) \/ txn' = Written(Owner[c])
  /\ UNCHANGED <<now, reserved, free, paid, lastFailure>>

\* The UPDATE asks nothing of the row it closes; its failure is only logged.
Clear(c) ==
  /\ pc[c] = "clearing" /\ Runs(c)
  /\ row' = IF Blocked(Owner[c]) THEN row ELSE Closed
  /\ CheckLocal(c)
  /\ LocallyOpen(Owner[c]) \/ txn' = Written(Owner[c])
  /\ UNCHANGED <<now, reserved, free, paid, lastFailure>>

Enter(c) ==
  LET p == Owner[c] IN
  /\ pc[c] = "queued" /\ Runs(c) /\ free[p] > 0
  /\ free' = [free EXCEPT ![p] = @ - 1]
  /\ pc' = [pc EXCEPT ![c] = "asking"]
  /\ tries' = [tries EXCEPT ![c] = 1]
  /\ UNCHANGED <<now, row, circuit, reserved, txn, recorded, paid, lastFailure>>

Leave(p) == free' = [free EXCEPT ![p] = @ + 1]

\* BEGIN IMMEDIATE fails inside a transaction and against a held lock.
CanBegin(p) == txn[p] = "none" /\ ~Blocked(p)

Grant(c) ==
  /\ pc[c] = "asking" /\ Runs(c) /\ CanBegin(Owner[c])
  /\ pc' = [pc EXCEPT ![c] = "calling"]
  /\ paid' = paid \cup {<<c, tries[c]>>}
  /\ UNCHANGED <<now, row, process, txn, tries, recorded, lastFailure>>

\* Faulty: a refused call keeps its place in the bulkhead.
DenyHolding(c) ==
  /\ pc[c] = "asking" /\ Runs(c) /\ CanBegin(Owner[c])
  /\ End(c, "done") /\ Emit(c)
  /\ UNCHANGED <<now, row, process, paid, lastFailure>>

\* No permit within the capacity wait: no failure of the provider.
Deny(c) ==
  /\ pc[c] = "asking" /\ Runs(c) /\ CanBegin(Owner[c])
  /\ End(c, "done") /\ Emit(c) /\ Leave(Owner[c])
  /\ UNCHANGED <<now, row, circuit, reserved, paid, lastFailure>>

\* A failure counted, and the circuit opened once there are enough.
Counted(state, threshold, until) ==
  [failures |-> state.failures + 1,
   open |-> IF state.failures + 1 >= threshold THEN until ELSE state.open]

\* _mark_failure and the end of a call that is not tried again.
Fail(c, threshold) ==
  LET p == Owner[c] IN
  /\ circuit' = [circuit EXCEPT ![p] = Counted(@, threshold, now)]
  /\ row' = IF Blocked(p) THEN row ELSE Counted(row, threshold, now + Cooldown)
  /\ lastFailure' = now
  /\ End(c, "done") /\ Emit(c) /\ Leave(p)

Again(c) ==
  /\ tries[c] <= Retries
  /\ pc' = [pc EXCEPT ![c] = "backoff"]
  /\ UNCHANGED <<row, circuit, free, tries, recorded, lastFailure>>

GiveUp(c) ==
  /\ tries[c] > Retries
  /\ Fail(c, Failures)

\* The permit's transaction cannot begin: an attempt that failed before the
\* provider was asked.  Taking back the place in the queue is a write.
MissPermit(c) ==
  /\ pc[c] = "asking" /\ Runs(c) /\ ~CanBegin(Owner[c])
  /\ txn' = Written(Owner[c])
  /\ Again(c) \/ GiveUp(c)
  /\ UNCHANGED <<now, reserved, paid>>

\* Timeout, rate limit or another error of the provider.
AnswerFails(c) ==
  /\ pc[c] = "calling" /\ Runs(c)
  /\ (Again(c) /\ UNCHANGED txn) \/ GiveUp(c)
  /\ UNCHANGED <<now, reserved, paid>>

\* An authentication failure opens the circuits at once; a malformed answer is
\* not tried again.
AnswerFinal(c) ==
  /\ pc[c] = "calling" /\ Runs(c)
  /\ \E threshold \in {1, Failures} : Fail(c, threshold)
  /\ UNCHANGED <<now, reserved, paid>>

\* The executor sleeps with its permit, if it had one, and gives it back after.
Retry(c) ==
  /\ pc[c] = "backoff" /\ Runs(c)
  /\ pc' = [pc EXCEPT ![c] = "asking"]
  /\ tries' = [tries EXCEPT ![c] = @ + 1]
  /\ txn' \in {txn, Written(Owner[c])}
  /\ UNCHANGED <<now, row, process, recorded, paid, lastFailure>>

\* _mark_success leaves the local circuit as open as it was.
Answer(c) ==
  LET p == Owner[c] IN
  /\ pc[c] = "calling" /\ Runs(c)
  /\ circuit' = [circuit EXCEPT ![p].failures = 0]
  /\ row' = IF Blocked(p) THEN row ELSE Closed
  /\ End(c, "done") /\ Emit(c) /\ Leave(p)
  /\ UNCHANGED <<now, reserved, paid, lastFailure>>

\* The input is refused by the provider's own checks: no failure.
RejectInput(c) ==
  /\ pc[c] = "calling" /\ Runs(c)
  /\ End(c, "done") /\ Emit(c) /\ Leave(Owner[c])
  /\ UNCHANGED <<now, row, circuit, reserved, paid, lastFailure>>

\* Some other commit of the process.
CommitElse(p) ==
  /\ txn[p] # "none" /\ ~Blocked(p)
  /\ \A c \in Calls : Owner[c] = p => pc[c] # "clearing"
  /\ txn' = Written(p)
  /\ UNCHANGED <<now, row, process, pc, tries, recorded, paid, lastFailure>>

\* The process dies with all its calls; its transaction is rolled back.
Stop(p) ==
  /\ \E c \in Calls : Owner[c] = p /\ pc[c] \notin {"new"} \cup Ended
  /\ LET dead == {c \in Calls : Owner[c] = p /\ pc[c] \notin Ended} IN
       /\ pc' = [c \in Calls |-> IF c \in dead THEN "lost" ELSE pc[c]]
       /\ tries' = [c \in Calls |-> IF c \in dead THEN 0 ELSE tries[c]]
  /\ circuit' = [circuit EXCEPT ![p] = Closed]
  /\ free' = [free EXCEPT ![p] = Limit]
  /\ txn' = [txn EXCEPT ![p] = "none"]
  /\ UNCHANGED <<now, row, reserved, recorded, paid, lastFailure>>

Tick ==
  /\ now < Horizon
  /\ now' = now + 1
  /\ UNCHANGED <<row, process, txn, pc, tries, recorded, paid, lastFailure>>

Admit(c) == Refuse(c) \/ RejectOpen(c) \/ Check(c) \/ FindExpired(c) \/ Clear(c) \/ Enter(c)
Permit(c) == Grant(c) \/ Deny(c) \/ MissPermit(c)
Finish(c) == Answer(c) \/ AnswerFails(c) \/ AnswerFinal(c) \/ RejectInput(c) \/ Retry(c)

Next ==
  \/ \E c \in Calls : Admit(c) \/ Permit(c) \/ Finish(c)
  \/ \E p \in Procs : CommitElse(p) \/ Stop(p)
  \/ Tick

Spec == Init /\ [][Next]_vars

\* The event loop serves every call, and the provider answers or times out.
FairSpec == Spec /\ \A c \in Calls : WF_vars(Admit(c) \/ Permit(c) \/ Finish(c))
----
State == [failures : Nat, open : Nat]

TypeOK ==
  /\ now \in 1..(Horizon + 1)
  /\ row \in State
  /\ circuit \in [Procs -> State]
  /\ reserved \in [Procs -> Nat]
  /\ free \in [Procs -> 0..Limit]
  /\ txn \in [Procs -> {"none", "open", "write"}]
  /\ pc \in [Calls -> Steps]
  /\ tries \in [Calls -> 0..(Retries + 1)]
  /\ recorded \subseteq Calls
  /\ paid \subseteq Calls \X (1..(Retries + 1))
  /\ lastFailure \in Nat

\* The attempts of a process that reached the provider never cost more than its
\* ceiling, however often each call is tried again and whatever it met before.
Paid(p) == {attempt \in paid : Owner[attempt[1]] = p}
PaidWithinBudget == MaxUnits >= 0 => \A p \in Procs : Cardinality(Paid(p)) <= MaxUnits

\* A closed circuit, shared or of a process, counts fewer failures than it takes to
\* open it: after a success, a cooldown or a clear the provider starts over with all
\* of them, never one failure short of opening, and no failure that is counted as the
\* last one needed leaves it closed.  It says nothing of failures that were not
\* counted: one whose write is refused, or one that Clear forgets.
ThresholdOpens ==
  \A state \in {row} \cup {circuit[p] : p \in Procs} :
    state.failures >= Failures => state.open # 0

\* A call is rejected for a failure less than a cooldown ago: after it, a
\* circuit lets calls through, though nothing but calls ever closes it.
RejectedForCause ==
  [][\A c \in Calls :
       pc[c] # "rejected" /\ pc'[c] = "rejected" => now < lastFailure + Cooldown]_vars

\* A call that came to its end has a telemetry row.
EveryCallRecorded == {c \in Calls : pc[c] \in Ended \ {"lost"}} \subseteq recorded

\* Every call that began comes to its end, or its process dies: the bulkhead
\* loses no slot, and no round of retries is endless.
CallsEnd == \A c \in Calls : pc[c] # "new" ~> pc[c] \in Ended
====
