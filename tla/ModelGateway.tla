---- MODULE ModelGateway ----
(***************************************************************************)
(* LLMClient.call_unified for the domains of one run: the economical model *)
(* first, then the primary one; before each SDK call a cached result is    *)
(* looked up and a reservation is made in the database, after it one       *)
(* telemetry row is written, with the result if it is valid.               *)
(*                                                                         *)
(* Several processes share the database, each on one connection.  A write  *)
(* may be refused the lock, and then leaves the transaction open that      *)
(* sqlite3 began for it: what the connection writes next is committed only *)
(* by the next commit.  A process may be interrupted or killed.            *)
(***************************************************************************)
EXTENDS Integers, FiniteSets, Functions

CONSTANTS
  Procs, Domains,
  Evidence,     \* what is known of a domain: [public |-> ..., personal |-> ...]
  HasFast,      \* a fast model is configured, and differs from the primary
  CloudTasks,   \* the tasks whose model is not a local one
  Dimensions,   \* calls, input, output and cloud tokens, cloud cost
  Ceiling,      \* [Dimensions -> Nat]: the run's ceilings
  Weight,       \* [Tasks -> [Dimensions -> Nat]]: what a call reserves; for a model
                \* without a fresh price, more than any ceiling
  MaxVisits,    \* bound on the selections of a behaviour
  MaxRefusals   \* bound on the writes refused because of writers outside the model

Tasks == {"fast", "strong", "single"}

ASSUME GatewayAssumption ==
  /\ HasFast \in BOOLEAN
  /\ CloudTasks \subseteq Tasks
  /\ Ceiling \in [Dimensions -> Nat]
  /\ Weight \in [Tasks -> [Dimensions -> Nat]]
  /\ {MaxVisits, MaxRefusals} \subseteq Nat
  /\ \A e \in Evidence : e = [public |-> e.public, personal |-> e.personal]

VARIABLES
  reservations,  \* model_budget_reservations, committed: [key, task]
  results,       \* model_calls with a result: [key, answer]
  txn, pending,  \* of each connection: its open transaction, the reservation in it
  pc, ask, got,  \* of each process: its step, its question, the outcome of its call
  visits, refusals,
  billed, lost,  \* history: SDK calls of a question; those whose reservation was rolled back
  given          \* history: the questions answered, with the answers that were used

tables == <<reservations, results>>
vars == <<tables, txn, pending, pc, ask, got, visits, refusals, billed, lost, given>>

Projected(task, e) == IF task \in CloudTasks THEN [public |-> e.public] ELSE e
Question(task, d, e) == [task |-> task, domain |-> d, text |-> Projected(task, e)]
Questions == {Question(task, d, e) : task \in Tasks, d \in Domains, e \in Evidence}

\* Faulty: the key is that of the redacted evidence, whichever the model sees.
RequestKeyRedacted(q) == <<q.domain, q.task, q.text.public>>

\* The hash of run, domain, task, policy, model and input.
RequestKey(q) == <<q.domain, q.task, q.text>>

\* A call ends refused by the budget, failed, with output the parser rejects, or
\* with an answer, which carries the question it was given for.
Kinds == {"strong", "weak", "abstained"}
Answers == [kind : Kinds, of : Questions]
Failures == {"refused", "error", "invalid"}
Failed(how) == [kind |-> how, of |-> {}]
Outcomes == Answers \cup {Failed(how) : how \in Failures}
Nothing == Failed("error")

FirstTask == IF HasFast THEN "fast" ELSE "single"
NoVisit == [question |-> [task |-> "none"], evidence |-> [public |-> "none"]]

Init ==
  /\ reservations = {} /\ results = {}
  /\ txn = [p \in Procs |-> "none"]
  /\ pending = [p \in Procs |-> {}]
  /\ pc = [p \in Procs |-> "idle"]
  /\ ask = [p \in Procs |-> NoVisit]
  /\ got = [p \in Procs |-> Nothing]
  /\ visits = 0 /\ refusals = 0
  /\ billed = [q \in Questions |-> 0]
  /\ lost = [q \in Questions |-> 0]
  /\ given = {}

Key(p) == RequestKey(ask[p].question)

\* Another connection holds the write lock.
Blocked(p) == \E q \in Procs \ {p} : txn[q] = "write"

\* busy_timeout runs out: the lock is another process's, or a writer's outside.
IsRefused(p) ==
  /\ txn[p] # "write"
  /\ \/ Blocked(p) /\ UNCHANGED refusals
     \/ refusals < MaxRefusals /\ refusals' = refusals + 1

\* A commit makes what the transaction wrote durable.
Commit(p) ==
  /\ reservations' = reservations \cup pending[p]
  /\ txn' = [txn EXCEPT ![p] = "none"]
  /\ pending' = [pending EXCEPT ![p] = {}]

Ask(p, task, d, e) ==
  /\ ask' = [ask EXCEPT ![p] = [question |-> Question(task, d, e), evidence |-> e]]
  /\ pc' = [pc EXCEPT ![p] = "lookup"]

\* The baseline is weak, or every domain is escalated; the observation batch
\* before has committed whatever an earlier write left open.
SelectPivots(p, d, e) ==
  /\ pc[p] = "idle" /\ visits < MaxVisits
  /\ visits' = visits + 1
  /\ Ask(p, FirstTask, d, e)
  /\ Commit(p)
  /\ UNCHANGED <<results, got, refusals, billed, lost, given>>

\* What is used of an attempt: candidates, if there is an answer.
Finish(p, outcome) ==
  /\ pc' = [pc EXCEPT ![p] = "idle"]
  /\ ask' = [ask EXCEPT ![p] = NoVisit]
  /\ given' = given \cup {[question |-> ask[p].question, answer |-> a] : a \in {outcome} \cap Answers}

\* Faulty: an attempt without candidates is made again, whatever its task.
SufficesIfStrong(q, outcome) == outcome.kind \in {"strong", "refused", "weak"}

\* The fast model's answer is enough, or the budget is spent.
Suffices(q, outcome) == q.task # "fast" \/ outcome.kind \in {"strong", "refused"}

Route(p, outcome) ==
  IF Suffices(ask[p].question, outcome)
    THEN Finish(p, outcome)
    ELSE Ask(p, "strong", ask[p].question.domain, ask[p].evidence) /\ UNCHANGED given

\* get_cached_model_result: the answer is replayed, without a row of its own.
Replay(p) ==
  /\ pc[p] = "lookup"
  /\ \E r \in results : r.key = Key(p) /\ Route(p, r.answer)
  /\ UNCHANGED <<tables, txn, pending, got, visits, refusals, billed, lost>>

FindNothing(p) ==
  /\ pc[p] = "lookup"
  /\ \A r \in results : r.key # Key(p)
  /\ pc' = [pc EXCEPT ![p] = "reserving"]
  /\ UNCHANGED <<tables, txn, pending, ask, got, visits, refusals, billed, lost, given>>

\* What the connection of p reads: its own reservation too.
Rows(p) == reservations \cup pending[p]
Used(p, dim) == SumFunction([r \in Rows(p) |-> Weight[r.task][dim]])

\* Faulty: the ceilings alone are looked at.
NeverDuplicate(p) == FALSE

Duplicate(p) == \E r \in Rows(p) : r.key = Key(p)

\* Faulty: the ceilings are compared with what was reserved before this call.
SpentWithinCeilings(p) == \A dim \in Dimensions : Used(p, dim) <= Ceiling[dim]

WithinCeilings(p) ==
  \A dim \in Dimensions : Used(p, dim) + Weight[ask[p].question.task][dim] <= Ceiling[dim]

\* reserve_model_budget, in its own transaction, or in one that is open: then
\* the row waits for the next commit, and the lock is held until it.
Reserve(p) ==
  /\ pc[p] = "reserving" /\ ~Blocked(p)
  /\ ~Duplicate(p) /\ WithinCeilings(p)
  /\ LET row == [key |-> Key(p), task |-> ask[p].question.task] IN
       IF txn[p] = "none"
         THEN /\ reservations' = reservations \cup {row}
              /\ UNCHANGED <<txn, pending>>
         ELSE /\ pending' = [pending EXCEPT ![p] = @ \cup {row}]
              /\ txn' = [txn EXCEPT ![p] = "write"]
              /\ UNCHANGED reservations
  /\ pc' = [pc EXCEPT ![p] = "sending"]
  /\ UNCHANGED <<results, ask, got, visits, refusals, billed, lost, given>>

Ends(p, outcome) ==
  /\ got' = [got EXCEPT ![p] = outcome]
  /\ pc' = [pc EXCEPT ![p] = "recording"]

\* A duplicate is a budget refusal too: ModelDuplicateReservationError.
Refuse(p) ==
  /\ pc[p] = "reserving"
  /\ txn[p] = "none" => ~Blocked(p)
  /\ Duplicate(p) \/ ~WithinCeilings(p)
  /\ Ends(p, Failed("refused"))
  /\ UNCHANGED <<tables, txn, pending, ask, visits, refusals, billed, lost, given>>

\* BEGIN IMMEDIATE, or the INSERT, is not given the lock.
MissLock(p) ==
  /\ pc[p] = "reserving" /\ IsRefused(p)
  /\ Ends(p, Failed("error"))
  /\ UNCHANGED <<tables, txn, pending, ask, visits, billed, lost, given>>

Send(p) ==
  /\ pc[p] = "sending"
  /\ billed' = [billed EXCEPT ![ask[p].question] = @ + 1]
  /\ pc' = [pc EXCEPT ![p] = "calling"]
  /\ UNCHANGED <<tables, txn, pending, ask, got, visits, refusals, lost, given>>

\* The provider answers, fails, times out, or says what the parser rejects.
Return(p) ==
  /\ pc[p] = "calling"
  /\ \E kind \in Kinds \cup {"invalid", "error"} :
       Ends(p, IF kind \in Kinds THEN [kind |-> kind, of |-> ask[p].question] ELSE Failed(kind))
  /\ UNCHANGED <<tables, txn, pending, ask, visits, refusals, billed, lost, given>>

\* record_model_call: the row has a result only if there is an answer.
Record(p) ==
  /\ pc[p] = "recording" /\ ~Blocked(p)
  /\ results' = results \cup {[key |-> Key(p), answer |-> a] : a \in {got[p]} \cap Answers}
  /\ Commit(p)
  /\ Route(p, got[p])
  /\ got' = [got EXCEPT ![p] = Nothing]
  /\ UNCHANGED <<visits, refusals, billed, lost>>

\* The row is refused the lock; the error is logged and the attempt goes on.
MissRecord(p) ==
  /\ pc[p] = "recording" /\ IsRefused(p)
  /\ txn' = [txn EXCEPT ![p] = "open"]
  /\ Route(p, got[p])
  /\ got' = [got EXCEPT ![p] = Nothing]
  /\ UNCHANGED <<tables, pending, visits, billed, lost>>

Dies(p) ==
  /\ pc' = [pc EXCEPT ![p] = "idle"]
  /\ txn' = [txn EXCEPT ![p] = "none"]
  /\ pending' = [pending EXCEPT ![p] = {}]
  /\ ask' = [ask EXCEPT ![p] = NoVisit]
  /\ got' = [got EXCEPT ![p] = Nothing]
  /\ UNCHANGED <<results, visits, refusals, billed, given>>

\* KeyboardInterrupt while the SDK is called: the row says "error", and its commit
\* takes along what was pending.
Interrupt(p) ==
  /\ pc[p] = "calling" /\ ~Blocked(p)
  /\ reservations' = reservations \cup pending[p]
  /\ Dies(p)
  /\ UNCHANGED lost

\* The process is killed, and its transaction rolled back.
Kill(p) ==
  /\ pc[p] # "idle"
  /\ Dies(p)
  /\ LET q == ask[p].question IN
       lost' = IF pending[p] # {} /\ pc[p] # "sending" THEN [lost EXCEPT ![q] = @ + 1] ELSE lost
  /\ UNCHANGED reservations

Attempt(p) ==
  \/ Replay(p) \/ FindNothing(p)
  \/ Reserve(p) \/ Refuse(p) \/ MissLock(p)
  \/ Send(p) \/ Return(p)
  \/ Record(p) \/ MissRecord(p)

Next ==
  \E p \in Procs :
    \/ \E d \in Domains, e \in Evidence : SelectPivots(p, d, e)
    \/ Attempt(p)
    \/ Interrupt(p) \/ Kill(p)

Spec == Init /\ [][Next]_vars

\* The SDK call has a timeout, a lock wait too: an attempt always goes on.
FairSpec == Spec /\ \A p \in Procs : WF_vars(Attempt(p))
----
TypeOK ==
  /\ reservations \subseteq [key : {RequestKey(q) : q \in Questions}, task : Tasks]
  /\ results \subseteq [key : {RequestKey(q) : q \in Questions}, answer : Answers]
  /\ txn \in [Procs -> {"none", "open", "write"}]
  /\ \A p \in Procs : pc[p] # "idle" => ask[p].question \in Questions
  /\ billed \in [Questions -> Nat] /\ lost \in [Questions -> Nat]

\* A request is paid for once, whatever crashes, retries and processes meet it:
\* but for the reservations a kill rolled back, it is never sent again.
PaidOnceUnlessLost == \A q \in Questions : billed[q] <= 1 + lost[q]

\* As long as no reservation was rolled back, what was really sent stays within
\* each of the run's ceilings, over all its processes and resumes.
Sent == {q \in Questions : billed[q] > 0}
Spent(dim) == SumFunction([q \in Sent |-> billed[q] * Weight[q.task][dim]])
SpentWithinCeiling ==
  (\A q \in Questions : lost[q] = 0) => \A dim \in Dimensions : Spent(dim) <= Ceiling[dim]

\* Pivots of a domain come from an answer to the very question asked: this
\* domain, this model's task, this evidence, new or replayed.
AnswersAreOwn == \A g \in given : g.answer.of = g.question

\* A selection comes to its end, or its process dies.
SelectionEnds == \A p \in Procs : pc[p] # "idle" ~> pc[p] = "idle"
====
