---- MODULE ModelGatewayProofs ----
(***************************************************************************)
(* For every set of processes, domains and evidence, whatever calls weigh  *)
(* and wherever writes are refused and processes killed: answers are the   *)
(* question's own, a request is paid for again only after a kill took its  *)
(* reservation back, and what is sent stays within the ceilings.           *)
(*                                                                         *)
(* A reservation is made before a request is sent, and its row, in the     *)
(* table or in the one transaction that writes, keeps every process from   *)
(* making another.  Hence the invariant: a request that was billed more    *)
(* often than its reservation was lost has a row.  Those rows never weigh  *)
(* more than the run's ceilings, and what was sent no more than the rows.  *)
(* A sum over a finite set is defined by recursion on the set; what it is  *)
(* follows from the smallest set at which it could go wrong.               *)
(***************************************************************************)
EXTENDS ModelGateway, FiniteSetTheorems, TLAPS

Keys == {RequestKey(q) : q \in Questions}
Row == [key : Keys, task : Tasks]
Visit == [question : Questions, evidence : Evidence]
Steps == {"idle", "lookup", "reserving", "sending", "calling", "recording"}

TypeInv ==
  /\ reservations \in SUBSET Row
  /\ results \in SUBSET [key : Keys, answer : Answers]
  /\ txn \in [Procs -> {"none", "open", "write"}]
  /\ pending \in [Procs -> SUBSET Row]
  /\ pc \in [Procs -> Steps]
  /\ ask \in [Procs -> Visit \cup {NoVisit}]
  /\ \A p \in Procs : pc[p] # "idle" => ask[p] \in Visit
  /\ got \in [Procs -> Outcomes]
  /\ billed \in [Questions -> Nat]
  /\ lost \in [Questions -> Nat]

\* Cached answers, and the answer a process has, belong to their question.
AnswersInv ==
  /\ \A r \in results : r.key = RequestKey(r.answer.of)
  /\ \A p \in Procs : got[p] \in Answers => pc[p] = "recording" /\ got[p].of = ask[p].question
  /\ AnswersAreOwn

\* The row of a process's question.
OwnRow(p) == [key |-> Key(p), task |-> ask[p].question.task]

\* Only one process's transaction writes; it holds the row of the question the
\* process is about to send, sends, or has sent.
TransactionInv ==
  /\ \A p, q \in Procs : txn[p] = "write" /\ txn[q] = "write" => p = q
  /\ \A p \in Procs :
       IF txn[p] = "write"
         THEN pc[p] \in {"sending", "calling", "recording"} /\ pending[p] = {OwnRow(p)}
         ELSE pending[p] = {}

Reserved(q) == \E r \in reservations \cup UNION {pending[p] : p \in Procs} : r.key = RequestKey(q)

PaymentInv ==
  /\ PaidOnceUnlessLost
  /\ \A q \in Questions : billed[q] > lost[q] => Reserved(q)
  /\ \A p \in Procs : pc[p] = "sending" =>
       OwnRow(p) \in Rows(p) /\ billed[ask[p].question] <= lost[ask[p].question]
  /\ \A p, q \in Procs : pc[p] = "sending" /\ pc[q] = "sending" /\ p # q =>
       ask[p].question # ask[q].question

----
(* Questions and the outcome of an attempt.                                 *)
----

\* A question is made of a task, a domain and some evidence, and its key names it.
LEMMA QuestionParts ==
  /\ FirstTask \in Tasks
  /\ \A task \in Tasks, d \in Domains, e \in Evidence : Question(task, d, e) \in Questions
  /\ \A q \in Questions : q.task \in Tasks /\ q.domain \in Domains /\ RequestKey(q) \in Keys
<1>1. \A task, d, e : /\ Question(task, d, e).task = task
                      /\ Question(task, d, e).domain = d
  BY DEF Question
<1>2. QED
  BY <1>1 DEF FirstTask, Tasks, Questions, Keys

LEMMA KeyInjective ==
  ASSUME NEW q \in Questions, NEW r \in Questions, RequestKey(q) = RequestKey(r)
  PROVE  q = r
<1>1. /\ q = [task |-> q.task, domain |-> q.domain, text |-> q.text]
      /\ r = [task |-> r.task, domain |-> r.domain, text |-> r.text]
  BY DEF Questions, Question
<1>2. q.task = r.task /\ q.domain = r.domain /\ q.text = r.text
  BY DEF RequestKey
<1>3. QED
  BY <1>1, <1>2

\* An outcome without an answer is not an answer.
LEMMA FailuresAreNoAnswers ==
  /\ \A how \in Failures : Failed(how) \in Outcomes /\ Failed(how) \notin Answers
  /\ Nothing \in Outcomes /\ Nothing \notin Answers
<1>1. \A how \in Failures : Failed(how).kind = how /\ how \notin Kinds
  BY DEF Failures, Failed, Kinds
<1>2. \A a \in Answers : a.kind \in Kinds
  BY DEF Answers
<1>3. QED
  BY <1>1, <1>2 DEF Outcomes, Nothing, Failures

\* p goes on with another question, or is done.
LEMMA RouteStep ==
  ASSUME TypeInv, NEW p \in Procs, ask[p] \in Visit, NEW outcome, Route(p, outcome)
  PROVE  /\ pc' = [pc EXCEPT ![p] = pc'[p]] /\ pc'[p] \in {"idle", "lookup"}
         /\ ask' = [ask EXCEPT ![p] = ask'[p]]
         /\ ask'[p] \in Visit \cup {NoVisit}
         /\ pc'[p] # "idle" => ask'[p] \in Visit
         /\ given' \subseteq given \cup {[question |-> ask[p].question, answer |-> a] : a \in {outcome} \cap Answers}
<1>1. ask[p].question \in Questions /\ ask[p].evidence \in Evidence
  BY DEF Visit
<1>2. CASE Suffices(ask[p].question, outcome)
  BY <1>2 DEF Route, Finish, TypeInv
<1>3. CASE ~Suffices(ask[p].question, outcome)
  <2> DEFINE q == Question("strong", ask[p].question.domain, ask[p].evidence)
  <2>1. q \in Questions
    BY <1>1, QuestionParts DEF Tasks
  <2>2. ask' = [ask EXCEPT ![p] = [question |-> q, evidence |-> ask[p].evidence]]
    BY <1>3 DEF Route, Ask
  <2>3. pc' = [pc EXCEPT ![p] = "lookup"] /\ given' = given
    BY <1>3 DEF Route, Ask
  <2> HIDE DEF q
  <2>4. ask'[p] = [question |-> q, evidence |-> ask[p].evidence] /\ pc'[p] = "lookup"
    BY <2>2, <2>3 DEF TypeInv
  <2>5. ask'[p] \in Visit
    BY <1>1, <2>1, <2>4 DEF Visit
  <2>6. QED
    BY <2>2, <2>3, <2>4, <2>5
<1>4. QED
  BY <1>2, <1>3

----
(* One step of Next, whichever process takes it.                            *)
----

\* The case distinction every preservation proof makes.
LEMMA NextCases ==
  ASSUME [Next]_vars
  PROVE  \/ \E p \in Procs, d \in Domains, e \in Evidence : SelectPivots(p, d, e)
         \/ \E p \in Procs : Attempt(p) \/ Interrupt(p) \/ Kill(p)
         \/ UNCHANGED vars
  BY DEF Next

\* Steps keep the types.
LEMMA TypeStep == TypeInv /\ [Next]_vars => TypeInv'
<1> SUFFICES ASSUME TypeInv, [Next]_vars PROVE TypeInv'
  OBVIOUS
<1>1. ASSUME NEW p \in Procs, NEW d \in Domains, NEW e \in Evidence, SelectPivots(p, d, e)
      PROVE  TypeInv'
  <2> DEFINE v == [question |-> Question(FirstTask, d, e), evidence |-> e]
  <2>1. v \in Visit
    BY QuestionParts DEF Visit
  <2>2. ask' = [ask EXCEPT ![p] = v] /\ pc' = [pc EXCEPT ![p] = "lookup"]
    BY <1>1 DEF SelectPivots, Ask
  <2>3. reservations' \in SUBSET Row /\ txn' = [txn EXCEPT ![p] = "none"]
        /\ pending' = [pending EXCEPT ![p] = {}]
    BY <1>1 DEF SelectPivots, Commit, TypeInv
  <2> HIDE DEF v
  <2>4. QED
    BY <1>1, <2>1, <2>2, <2>3 DEF SelectPivots, TypeInv, Steps
<1>2. ASSUME NEW p \in Procs, Attempt(p) PROVE TypeInv'
  <2>1. CASE Replay(p)
    <3>1. ask[p] \in Visit
      BY <2>1 DEF Replay, TypeInv
    <3>2. PICK r \in results : Route(p, r.answer)
      BY <2>1 DEF Replay
    <3>3. QED
      BY <2>1, <3>1, <3>2, RouteStep DEF Replay, TypeInv, tables, Steps
  <2>2. CASE FindNothing(p)
    BY <2>2 DEF FindNothing, TypeInv, tables, Steps
  <2>3. CASE Reserve(p)
    <3>1. ask[p] \in Visit
      BY <2>3 DEF Reserve, TypeInv
    <3>2. OwnRow(p) \in Row
      BY <3>1, QuestionParts DEF OwnRow, Key, Row, Visit
    <3>3. \/ reservations' = reservations \cup {OwnRow(p)} /\ UNCHANGED <<txn, pending>>
          \/ /\ pending' = [pending EXCEPT ![p] = @ \cup {OwnRow(p)}]
             /\ txn' = [txn EXCEPT ![p] = "write"]
             /\ UNCHANGED reservations
      BY <2>3 DEF Reserve, OwnRow
    <3>4. QED
      BY <2>3, <3>2, <3>3 DEF Reserve, TypeInv, Steps
  <2>4. CASE Refuse(p)
    BY <2>4, FailuresAreNoAnswers DEF Refuse, Ends, TypeInv, tables, Steps, Failures
  <2>5. CASE MissLock(p)
    BY <2>5, FailuresAreNoAnswers DEF MissLock, Ends, TypeInv, tables, Steps, Failures
  <2>6. CASE Send(p)
    BY <2>6 DEF Send, TypeInv, tables, Steps, Visit
  <2>7. CASE Return(p)
    <3>1. ask[p].question \in Questions
      BY <2>7 DEF Return, TypeInv, Visit
    <3>2. PICK kind \in Kinds \cup {"invalid", "error"} :
            Ends(p, IF kind \in Kinds THEN [kind |-> kind, of |-> ask[p].question] ELSE Failed(kind))
      BY <2>7 DEF Return
    <3>3. (IF kind \in Kinds THEN [kind |-> kind, of |-> ask[p].question] ELSE Failed(kind)) \in Outcomes
      BY <3>1, FailuresAreNoAnswers DEF Outcomes, Answers, Failures
    <3>4. QED
      BY <2>7, <3>2, <3>3 DEF Return, Ends, TypeInv, tables, Steps
  <2>8. CASE Record(p)
    <3>1. ask[p] \in Visit
      BY <2>8 DEF Record, TypeInv
    <3>2. Key(p) \in Keys
      BY <3>1, QuestionParts DEF Key, Visit
    <3>3. results' \in SUBSET [key : Keys, answer : Answers]
      BY <2>8, <3>2 DEF Record, TypeInv
    <3>4. reservations' \in SUBSET Row /\ txn' = [txn EXCEPT ![p] = "none"]
          /\ pending' = [pending EXCEPT ![p] = {}]
      BY <2>8 DEF Record, Commit, TypeInv
    <3>5. QED
      BY <2>8, <3>1, <3>3, <3>4, RouteStep, FailuresAreNoAnswers DEF Record, TypeInv, Steps
  <2>9. CASE MissRecord(p)
    <3>1. ask[p] \in Visit
      BY <2>9 DEF MissRecord, TypeInv
    <3>2. QED
      BY <2>9, <3>1, RouteStep, FailuresAreNoAnswers DEF MissRecord, TypeInv, tables, Steps
  <2>10. QED
    BY <1>2, <2>1, <2>2, <2>3, <2>4, <2>5, <2>6, <2>7, <2>8, <2>9 DEF Attempt
<1>3. ASSUME NEW p \in Procs, Interrupt(p) PROVE TypeInv'
  BY <1>3, FailuresAreNoAnswers DEF Interrupt, Dies, TypeInv, Steps
<1>4. ASSUME NEW p \in Procs, Kill(p) PROVE TypeInv'
  <2>1. ask[p].question \in Questions
    BY <1>4 DEF Kill, TypeInv, Visit
  <2>2. lost' \in [Questions -> Nat]
    BY <1>4, <2>1 DEF Kill, TypeInv
  <2>3. QED
    BY <1>4, <2>2, FailuresAreNoAnswers DEF Kill, Dies, TypeInv, Steps
<1>5. CASE UNCHANGED vars
  BY <1>5 DEF vars, tables, TypeInv
<1>6. QED
  BY <1>1, <1>2, <1>3, <1>4, <1>5, NextCases

\* What is kept as an answer, or used as one, was given to the question.
LEMMA AnswersStep == TypeInv /\ AnswersInv /\ [Next]_vars => AnswersInv'
<1> SUFFICES ASSUME TypeInv, AnswersInv, [Next]_vars PROVE AnswersInv'
  OBVIOUS
<1>1. ASSUME NEW p \in Procs, NEW d \in Domains, NEW e \in Evidence, SelectPivots(p, d, e)
      PROVE  AnswersInv'
  BY <1>1 DEF SelectPivots, Ask, AnswersInv, AnswersAreOwn, TypeInv
<1>2. ASSUME NEW p \in Procs, Attempt(p) PROVE AnswersInv'
  <2>1. CASE Replay(p)
    <3>1. ask[p].question \in Questions /\ ask[p] \in Visit
      BY <2>1 DEF Replay, TypeInv, Visit
    <3>2. PICK r \in results : r.key = Key(p) /\ Route(p, r.answer)
      BY <2>1 DEF Replay
    <3>3. r.answer.of \in Questions
      BY <3>2 DEF TypeInv, Answers
    <3>4. r.answer.of = ask[p].question
      BY <3>1, <3>2, <3>3, KeyInjective DEF AnswersInv, Key
    <3>5. AnswersAreOwn'
      BY <3>1, <3>2, <3>4, RouteStep DEF AnswersInv, AnswersAreOwn
    <3>6. got' = got /\ results' = results /\ got[p] \notin Answers
      BY <2>1 DEF Replay, tables, AnswersInv
    <3>7. QED
      BY <3>1, <3>2, <3>5, <3>6, RouteStep DEF AnswersInv, TypeInv
  <2>2. CASE FindNothing(p)
    BY <2>2 DEF FindNothing, AnswersInv, AnswersAreOwn, tables, TypeInv
  <2>3. CASE Reserve(p)
    BY <2>3 DEF Reserve, AnswersInv, AnswersAreOwn, TypeInv
  <2>4. CASE Refuse(p)
    BY <2>4, FailuresAreNoAnswers DEF Refuse, Ends, AnswersInv, AnswersAreOwn, tables, TypeInv, Failures
  <2>5. CASE MissLock(p)
    BY <2>5, FailuresAreNoAnswers DEF MissLock, Ends, AnswersInv, AnswersAreOwn, tables, TypeInv, Failures
  <2>6. CASE Send(p)
    BY <2>6 DEF Send, AnswersInv, AnswersAreOwn, tables, TypeInv
  <2>7. CASE Return(p)
    <3>1. PICK kind \in Kinds \cup {"invalid", "error"} :
            Ends(p, IF kind \in Kinds THEN [kind |-> kind, of |-> ask[p].question] ELSE Failed(kind))
      BY <2>7 DEF Return
    <3>2. got'[p] \in Answers => got'[p].of = ask[p].question
      BY <3>1, FailuresAreNoAnswers DEF Ends, TypeInv, Failures
    <3>3. QED
      BY <2>7, <3>1, <3>2 DEF Return, Ends, AnswersInv, AnswersAreOwn, tables, TypeInv
  <2>8. CASE Record(p)
    <3>1. ask[p] \in Visit
      BY <2>8 DEF Record, TypeInv
    <3>2. Route(p, got[p])
      BY <2>8 DEF Record
    <3>3. \A r \in results' : r.key = RequestKey(r.answer.of)
      BY <2>8 DEF Record, AnswersInv, Key
    <3>4. AnswersAreOwn'
      BY <3>1, <3>2, RouteStep DEF AnswersInv, AnswersAreOwn
    <3>5. got' = [got EXCEPT ![p] = Nothing]
      BY <2>8 DEF Record
    <3>6. QED
      BY <3>1, <3>2, <3>3, <3>4, <3>5, RouteStep, FailuresAreNoAnswers DEF AnswersInv, TypeInv
  <2>9. CASE MissRecord(p)
    <3>1. ask[p] \in Visit
      BY <2>9 DEF MissRecord, TypeInv
    <3>2. Route(p, got[p]) /\ got' = [got EXCEPT ![p] = Nothing] /\ results' = results
      BY <2>9 DEF MissRecord, tables
    <3>3. AnswersAreOwn'
      BY <3>1, <3>2, RouteStep DEF AnswersInv, AnswersAreOwn
    <3>4. QED
      BY <3>1, <3>2, <3>3, RouteStep, FailuresAreNoAnswers DEF AnswersInv, TypeInv
  <2>10. QED
    BY <1>2, <2>1, <2>2, <2>3, <2>4, <2>5, <2>6, <2>7, <2>8, <2>9 DEF Attempt
<1>3. ASSUME NEW p \in Procs, Interrupt(p) PROVE AnswersInv'
  BY <1>3, FailuresAreNoAnswers DEF Interrupt, Dies, AnswersInv, AnswersAreOwn, TypeInv
<1>4. ASSUME NEW p \in Procs, Kill(p) PROVE AnswersInv'
  BY <1>4, FailuresAreNoAnswers DEF Kill, Dies, AnswersInv, AnswersAreOwn, TypeInv
<1>5. CASE UNCHANGED vars
  BY <1>5 DEF vars, tables, AnswersInv, AnswersAreOwn
<1>6. QED
  BY <1>1, <1>2, <1>3, <1>4, <1>5, NextCases

\* A step of p leaves the others' questions, steps and transactions alone.
LEMMA OthersStay ==
  ASSUME TypeInv, NEW p \in Procs,
         Attempt(p) \/ Interrupt(p) \/ Kill(p) \/ \E d \in Domains, e \in Evidence : SelectPivots(p, d, e)
  PROVE  \A q \in Procs \ {p} : /\ pc'[q] = pc[q] /\ ask'[q] = ask[q]
                                /\ txn'[q] = txn[q] /\ pending'[q] = pending[q]
<1>1. CASE Replay(p) \/ Record(p) \/ MissRecord(p)
  <2>1. ask[p] \in Visit /\ \E outcome : Route(p, outcome)
    BY <1>1 DEF Replay, Record, MissRecord, TypeInv
  <2>2. /\ pc' = [pc EXCEPT ![p] = pc'[p]]
        /\ ask' = [ask EXCEPT ![p] = ask'[p]]
    BY <2>1, RouteStep
  <2>3. QED
    BY <1>1, <2>2 DEF Replay, Record, MissRecord, Commit, TypeInv
<1>2. CASE FindNothing(p) \/ Reserve(p) \/ Refuse(p) \/ MissLock(p) \/ Send(p) \/ Return(p)
  BY <1>2 DEF FindNothing, Reserve, Refuse, MissLock, Send, Return, Ends, TypeInv
<1>3. CASE Interrupt(p) \/ Kill(p)
  BY <1>3 DEF Interrupt, Kill, Dies, TypeInv
<1>4. CASE \E d \in Domains, e \in Evidence : SelectPivots(p, d, e)
  BY <1>4 DEF SelectPivots, Ask, Commit, TypeInv
<1>5. QED
  BY <1>1, <1>2, <1>3, <1>4 DEF Attempt

\* The transaction of a process that is before its reservation holds nothing.
LEMMA TransactionStep == TypeInv /\ TransactionInv /\ [Next]_vars => TransactionInv'
<1> SUFFICES ASSUME TypeInv, TransactionInv, [Next]_vars PROVE TransactionInv'
  OBVIOUS
<1> DEFINE Mine(p) ==
      IF txn[p] = "write"
        THEN pc[p] \in {"sending", "calling", "recording"} /\ pending[p] = {OwnRow(p)}
        ELSE pending[p] = {}
<1>1. ASSUME NEW p \in Procs,
             Attempt(p) \/ Interrupt(p) \/ Kill(p) \/ \E d \in Domains, e \in Evidence : SelectPivots(p, d, e),
             Mine(p)',
             txn'[p] = "write" => \A q \in Procs \ {p} : txn[q] # "write"
      PROVE  TransactionInv'
  <2>1. \A q \in Procs \ {p} : Mine(q)'
    BY <1>1, OthersStay DEF TransactionInv, OwnRow, Key
  <2>2. \A q, r \in Procs : txn'[q] = "write" /\ txn'[r] = "write" => q = r
    BY <1>1, OthersStay DEF TransactionInv
  <2>3. QED
    BY <1>1, <2>1, <2>2 DEF TransactionInv
<1>2. ASSUME NEW p \in Procs, NEW d \in Domains, NEW e \in Evidence, SelectPivots(p, d, e)
      PROVE  TransactionInv'
  <2>1. txn'[p] = "none" /\ pending'[p] = {}
    BY <1>2 DEF SelectPivots, Commit, TypeInv
  <2>2. QED
    BY <1>1, <1>2, <2>1
<1>3. ASSUME NEW p \in Procs, Attempt(p) PROVE TransactionInv'
  <2> USE <1>3
  <2>1. Mine(p)
    BY DEF TransactionInv
  <2>2. CASE Replay(p) \/ FindNothing(p) \/ Refuse(p) \/ MissLock(p)
    <3>1. pending[p] = {} /\ txn[p] # "write"
      BY <2>1, <2>2 DEF Replay, FindNothing, Refuse, MissLock
    <3>2. pending'[p] = {} /\ txn'[p] # "write"
      BY <2>2, <3>1 DEF Replay, FindNothing, Refuse, MissLock
    <3>3. QED
      BY <1>1, <3>2
  <2>3. CASE Reserve(p)
    <3>1. pending[p] = {} /\ txn[p] # "write" /\ \A q \in Procs \ {p} : txn[q] # "write"
      BY <2>1, <2>3 DEF Reserve, Blocked
    <3>2. pc'[p] = "sending" /\ ask' = ask
      BY <2>3 DEF Reserve, TypeInv
    <3>3. Mine(p)'
      BY <2>3, <3>1, <3>2 DEF Reserve, OwnRow, Key, TypeInv
    <3>4. QED
      BY <1>1, <3>1, <3>3
  <2>4. CASE Send(p) \/ Return(p)
    <3>1. /\ pc'[p] \in {"calling", "recording"}
          /\ ask' = ask /\ pending' = pending /\ txn' = txn
      BY <2>4 DEF Send, Return, Ends, TypeInv
    <3>2. Mine(p)'
      BY <2>1, <3>1 DEF OwnRow, Key
    <3>3. QED
      BY <1>1, <3>1, <3>2 DEF TransactionInv
  <2>5. CASE Record(p)
    <3>1. txn'[p] = "none" /\ pending'[p] = {}
      BY <2>5 DEF Record, Commit, TypeInv
    <3>2. QED
      BY <1>1, <3>1
  <2>6. CASE MissRecord(p)
    <3>1. txn'[p] = "open" /\ pending'[p] = {}
      BY <2>1, <2>6 DEF MissRecord, IsRefused, TypeInv
    <3>2. QED
      BY <1>1, <3>1
  <2>7. QED
    BY <2>2, <2>3, <2>4, <2>5, <2>6 DEF Attempt
<1>4. ASSUME NEW p \in Procs, Interrupt(p) \/ Kill(p) PROVE TransactionInv'
  <2>1. txn'[p] = "none" /\ pending'[p] = {}
    BY <1>4 DEF Interrupt, Kill, Dies, TypeInv
  <2>2. QED
    BY <1>1, <1>4, <2>1
<1>5. CASE UNCHANGED vars
  BY <1>5 DEF vars, tables, TransactionInv, OwnRow, Key
<1>6. QED
  BY <1>2, <1>3, <1>4, <1>5, NextCases

----
(* What is paid for.                                                        *)
----

StepOf(p) ==
  Attempt(p) \/ Interrupt(p) \/ Kill(p) \/ \E d \in Domains, e \in Evidence : SelectPivots(p, d, e)

\* A step that sends nothing, loses nothing and makes no reservation ready to send
\* keeps what every other process has.
LEMMA QuietStep ==
  ASSUME TypeInv, PaymentInv, NEW p \in Procs, StepOf(p),
         pc'[p] # "sending",
         UNCHANGED <<billed, lost>>,
         reservations \subseteq reservations',
         pending[p] \subseteq reservations' \cup pending'[p]
  PROVE  PaymentInv'
<1>1. \A q \in Procs \ {p} : /\ pc'[q] = pc[q] /\ ask'[q] = ask[q]
                             /\ txn'[q] = txn[q] /\ pending'[q] = pending[q]
  BY OthersStay DEF StepOf
<1>2. \A q \in Questions : Reserved(q) => Reserved(q)'
  BY <1>1 DEF Reserved
<1>3. \A q \in Procs : pc'[q] = "sending" =>
        /\ q # p /\ pc[q] = "sending" /\ ask'[q] = ask[q]
        /\ OwnRow(q) \in Rows(q) => (OwnRow(q) \in Rows(q))'
  BY <1>1 DEF OwnRow, Key, Rows
<1>4. PaidOnceUnlessLost'
  BY DEF PaymentInv, PaidOnceUnlessLost
<1>5. QED
  BY <1>2, <1>3, <1>4 DEF PaymentInv

\* A reservation is made only for a question without a row: nothing was paid for
\* it but what was lost.
LEMMA ReserveStep ==
  ASSUME TypeInv, TransactionInv, PaymentInv, NEW p \in Procs, Reserve(p)
  PROVE  PaymentInv'
<1> DEFINE own == ask[p].question
<1>1. own \in Questions /\ pc[p] = "reserving"
  BY DEF Reserve, TypeInv, Visit
<1>2. \A q \in Procs \ {p} : pending[q] = {}
  BY DEF Reserve, Blocked, TransactionInv
<1>3. ~Reserved(own)
  BY <1>2 DEF Reserve, Duplicate, Rows, Reserved, Key
<1>4. billed[own] <= lost[own]
  BY <1>1, <1>3 DEF PaymentInv, TypeInv
<1>5. /\ pc' = [pc EXCEPT ![p] = "sending"] /\ UNCHANGED <<ask, billed, lost>>
      /\ reservations \subseteq reservations'
      /\ \A q \in Procs \ {p} : pending'[q] = pending[q]
      /\ OwnRow(p) \in reservations' \cup pending'[p]
      /\ pending[p] \subseteq pending'[p]
  BY DEF Reserve, OwnRow, TypeInv
<1>6. \A q \in Questions : Reserved(q) => Reserved(q)'
  BY <1>5 DEF Reserved
<1>7. \A q \in Procs \ {p} : pc[q] = "sending" =>
        (OwnRow(q) \in Rows(q))' /\ ask[q].question # own
  <2>1. ASSUME NEW q \in Procs \ {p}, pc[q] = "sending"
        PROVE  OwnRow(q) \in reservations
    BY <1>2, <2>1 DEF PaymentInv, Rows
  <2>2. ASSUME NEW q \in Procs \ {p}, pc[q] = "sending"
        PROVE  ask[q].question # own
    <3>1. OwnRow(q).key = RequestKey(ask[q].question)
      BY DEF OwnRow, Key
    <3>2. QED
      BY <1>3, <2>1, <2>2, <3>1 DEF Reserved
  <2>3. QED
    BY <1>5, <2>1, <2>2 DEF Rows, OwnRow, Key
<1>8. (OwnRow(p) \in Rows(p))'
  BY <1>5 DEF OwnRow, Key, Rows
<1>9. PaidOnceUnlessLost'
  BY <1>5 DEF PaymentInv, PaidOnceUnlessLost
<1>10. ASSUME NEW q \in Procs, pc'[q] = "sending"
       PROVE  /\ (OwnRow(q) \in Rows(q))'
              /\ billed'[ask'[q].question] <= lost'[ask'[q].question]
  BY <1>4, <1>5, <1>7, <1>8, <1>10 DEF PaymentInv, TypeInv
<1>11. ASSUME NEW q \in Procs, NEW r \in Procs, pc'[q] = "sending", pc'[r] = "sending", q # r
       PROVE  ask'[q].question # ask'[r].question
  BY <1>5, <1>7, <1>11 DEF PaymentInv, TypeInv
<1>12. \A q \in Questions : billed'[q] > lost'[q] => Reserved(q)'
  BY <1>5, <1>6 DEF PaymentInv
<1>13. QED
  BY <1>9, <1>10, <1>11, <1>12 DEF PaymentInv

\* Only one process is about to send a question, and it has its row.
LEMMA SendStep ==
  ASSUME TypeInv, TransactionInv, PaymentInv, NEW p \in Procs, Send(p)
  PROVE  PaymentInv'
<1> DEFINE own == ask[p].question
<1>1. own \in Questions /\ pc[p] = "sending"
  BY DEF Send, TypeInv, Visit
<1>2. /\ billed' = [billed EXCEPT ![own] = @ + 1]
      /\ pc' = [pc EXCEPT ![p] = "calling"]
      /\ UNCHANGED <<reservations, pending, ask, lost>>
  BY DEF Send, tables
<1>3. billed[own] <= lost[own] /\ OwnRow(p) \in Rows(p)
  BY <1>1 DEF PaymentInv
<1>4. Reserved(own)
  BY <1>3 DEF Rows, Reserved, OwnRow, Key
<1>5. \A q \in Procs : pc'[q] = "sending" => q # p /\ pc[q] = "sending" /\ ask[q].question # own
  BY <1>1, <1>2 DEF PaymentInv, TypeInv
<1>6. \A q \in Questions : Reserved(q)' <=> Reserved(q)
  BY <1>2 DEF Reserved
<1>7. \A q \in Procs : pc'[q] = "sending" =>
        /\ (OwnRow(q) \in Rows(q))'
        /\ billed'[ask[q].question] = billed[ask[q].question]
  <2>1. ASSUME NEW q \in Procs, pc'[q] = "sending"
        PROVE  OwnRow(q)' = OwnRow(q) /\ Rows(q)' = Rows(q) /\ ask[q].question \in Questions
    BY <1>2, <1>5, <2>1 DEF OwnRow, Key, Rows, TypeInv, Visit
  <2>2. QED
    BY <1>2, <1>5, <2>1 DEF PaymentInv, TypeInv
<1>8. PaidOnceUnlessLost'
  BY <1>1, <1>2, <1>3 DEF PaymentInv, PaidOnceUnlessLost, TypeInv
<1>9. \A q \in Questions : billed'[q] > lost'[q] => Reserved(q)'
  BY <1>1, <1>2, <1>4, <1>6 DEF PaymentInv, TypeInv
<1>10. QED
  BY <1>2, <1>5, <1>7, <1>8, <1>9 DEF PaymentInv

\* A kill takes at most the killed process's own reservation back; if it was sent,
\* the loss is counted.
LEMMA KillStep ==
  ASSUME TypeInv, TransactionInv, PaymentInv, NEW p \in Procs, Kill(p)
  PROVE  PaymentInv'
<1> DEFINE own == ask[p].question
<1>1. own \in Questions
  BY DEF Kill, TypeInv, Visit
<1>2. /\ pc'[p] = "idle" /\ UNCHANGED <<billed, reservations>>
      /\ pending'[p] = {}
  BY DEF Kill, Dies, TypeInv
<1>3. CASE pending[p] = {}
  <2>1. lost' = lost
    BY <1>3 DEF Kill
  <2>2. QED
    BY <1>2, <1>3, <2>1, QuietStep DEF StepOf
<1>4. CASE pending[p] # {}
  <2>1. pending[p] = {OwnRow(p)} /\ pc[p] \in {"sending", "calling", "recording"}
    BY <1>4 DEF TransactionInv
  <2>2. \A q \in Procs \ {p} : /\ pc'[q] = pc[q] /\ ask'[q] = ask[q] /\ pending'[q] = pending[q]
    BY OthersStay
  <2>3. \A q \in Questions \ {own} : Reserved(q) => Reserved(q)'
    <3>1. \A q \in Questions : OwnRow(p).key = RequestKey(q) => q = own
      BY <1>1, KeyInjective DEF OwnRow, Key
    <3>2. QED
      BY <1>2, <2>1, <2>2, <3>1 DEF Reserved
  <2>4. /\ \A q \in Questions \ {own} : lost'[q] = lost[q]
        /\ lost[own] \in Nat /\ lost'[own] \in Nat /\ billed[own] \in Nat
        /\ lost[own] <= lost'[own]
        /\ pc[p] # "sending" => lost'[own] = lost[own] + 1
    <3>1. lost' = IF pc[p] # "sending" THEN [lost EXCEPT ![own] = @ + 1] ELSE lost
      BY <1>4 DEF Kill
    <3>2. QED
      BY <1>1, <3>1 DEF TypeInv
  <2>5. billed[own] <= lost'[own]
    <3>1. CASE pc[p] = "sending"
      BY <2>4, <3>1 DEF PaymentInv
    <3>2. CASE pc[p] # "sending"
      BY <1>1, <2>4, <3>2 DEF PaymentInv, PaidOnceUnlessLost
    <3>3. QED
      BY <3>1, <3>2
  <2>6. PaidOnceUnlessLost'
    <3>1. \A q \in Questions : billed[q] <= 1 + lost'[q]
      BY <2>4, <2>5 DEF PaymentInv, PaidOnceUnlessLost
    <3>2. QED
      BY <1>2, <3>1 DEF PaidOnceUnlessLost
  <2>7. \A q \in Questions : billed'[q] > lost'[q] => Reserved(q)'
    BY <1>2, <2>3, <2>4, <2>5 DEF PaymentInv
  <2>8. ASSUME NEW q \in Procs, pc'[q] = "sending"
        PROVE  /\ q # p /\ pc[q] = "sending" /\ ask'[q] = ask[q]
               /\ (OwnRow(q) \in Rows(q))'
               /\ billed'[ask'[q].question] <= lost'[ask'[q].question]
    <3>1. q # p /\ pc[q] = "sending" /\ ask'[q] = ask[q] /\ pending'[q] = pending[q]
      BY <1>2, <2>2, <2>8
    <3>2. ask[q].question \in Questions
      BY <3>1 DEF TypeInv, Visit
    <3>3. billed[ask[q].question] <= lost'[ask[q].question]
      <4>1. CASE ask[q].question = own
        BY <2>5, <4>1
      <4>2. CASE ask[q].question # own
        BY <2>4, <3>1, <3>2, <4>2 DEF PaymentInv
      <4>3. QED
        BY <4>1, <4>2
    <3>4. (OwnRow(q) \in Rows(q))'
      BY <1>2, <3>1 DEF PaymentInv, Rows, OwnRow, Key
    <3>5. QED
      BY <1>2, <3>1, <3>3, <3>4
  <2>9. QED
    BY <2>6, <2>7, <2>8 DEF PaymentInv
<1>5. QED
  BY <1>3, <1>4

LEMMA PaymentStep == TypeInv /\ TransactionInv /\ PaymentInv /\ [Next]_vars => PaymentInv'
<1> SUFFICES ASSUME TypeInv, TransactionInv, PaymentInv, [Next]_vars PROVE PaymentInv'
  OBVIOUS
<1>1. ASSUME NEW p \in Procs, NEW d \in Domains, NEW e \in Evidence, SelectPivots(p, d, e)
      PROVE  PaymentInv'
  <2>1. pc'[p] = "lookup" /\ reservations' = reservations \cup pending[p] /\ UNCHANGED <<billed, lost>>
    BY <1>1 DEF SelectPivots, Ask, Commit, TypeInv
  <2>2. QED
    BY <1>1, <2>1, QuietStep DEF StepOf
<1>2. ASSUME NEW p \in Procs, Attempt(p) PROVE PaymentInv'
  <2>1. CASE Replay(p)
    <3>1. ask[p] \in Visit /\ \E outcome : Route(p, outcome)
      BY <2>1 DEF Replay, TypeInv
    <3>2. pc'[p] # "sending"
      BY <3>1, RouteStep
    <3>3. QED
      BY <1>2, <2>1, <3>2, QuietStep DEF StepOf, Replay, tables
  <2>2. CASE FindNothing(p) \/ Refuse(p) \/ MissLock(p) \/ Return(p)
    <3>1. pc'[p] # "sending" /\ UNCHANGED <<reservations, pending, billed, lost>>
      BY <2>2 DEF FindNothing, Refuse, MissLock, Return, Ends, TypeInv, tables
    <3>2. QED
      BY <1>2, <3>1, QuietStep DEF StepOf
  <2>3. CASE Reserve(p)
    BY <2>3, ReserveStep
  <2>4. CASE Send(p)
    BY <2>4, SendStep
  <2>5. CASE Record(p) \/ MissRecord(p)
    <3>1. ask[p] \in Visit /\ \E outcome : Route(p, outcome)
      BY <2>5 DEF Record, MissRecord, TypeInv
    <3>2. pc'[p] # "sending"
      BY <3>1, RouteStep
    <3>3. /\ UNCHANGED <<billed, lost>>
          /\ \/ UNCHANGED <<reservations, pending>>
             \/ reservations' = reservations \cup pending[p]
      BY <2>5 DEF Record, MissRecord, Commit, tables
    <3>4. QED
      BY <1>2, <3>2, <3>3, QuietStep DEF StepOf
  <2>6. QED
    BY <1>2, <2>1, <2>2, <2>3, <2>4, <2>5 DEF Attempt
<1>3. ASSUME NEW p \in Procs, Interrupt(p) PROVE PaymentInv'
  <2>1. pc'[p] = "idle" /\ reservations' = reservations \cup pending[p] /\ UNCHANGED <<billed, lost>>
    BY <1>3 DEF Interrupt, Dies, TypeInv
  <2>2. QED
    BY <1>3, <2>1, QuietStep DEF StepOf
<1>4. ASSUME NEW p \in Procs, Kill(p) PROVE PaymentInv'
  BY <1>4, KillStep
<1>5. CASE UNCHANGED vars
  <2>1. \A q \in Questions : Reserved(q)' <=> Reserved(q)
    BY <1>5 DEF vars, tables, Reserved
  <2>2. \A p \in Procs : OwnRow(p)' = OwnRow(p) /\ Rows(p)' = Rows(p)
    BY <1>5 DEF vars, tables, OwnRow, Key, Rows
  <2>3. QED
    BY <1>5, <2>1, <2>2 DEF vars, PaymentInv, PaidOnceUnlessLost
<1>6. QED
  BY <1>1, <1>2, <1>3, <1>4, <1>5, NextCases

----
(* Sums over finite sets.  A smallest set on which a fact fails takes the      *)
(* place of induction.                                                         *)
----

Adds(f, w, S) ==
  f = [s \in SUBSET S |-> IF s = {} THEN 0
                          ELSE LET x == CHOOSE x \in s : TRUE IN w[x] + f[s \ {x}]]

Summand(w, s, f) == IF s = {} THEN 0
                    ELSE w[CHOOSE x \in s : TRUE] + f[s \ {CHOOSE x \in s : TRUE}]

LEMMA SumDef ==
  ASSUME NEW w, NEW S
  PROVE  SumFunctionOnSet(w, S) = (CHOOSE f : Adds(f, w, S))[S]
  BY DEF SumFunctionOnSet, FoldFunctionOnSet, MapThenFoldSet, Adds

\* Every non-empty collection of subsets of a finite set has a minimal one.
LEMMA MinimalSubset ==
  ASSUME NEW S, IsFiniteSet(S), NEW G \in SUBSET SUBSET S, G # {}
  PROVE  \E T \in G : \A U \in G : U \subseteq T => U = T
<1>1. IsWellFoundedOn(StrictSubsetOrdering(S), FiniteSubsetsOf(S))
  BY FS_StrictSubsetOrderingWellFounded
<1>2. G \subseteq FiniteSubsetsOf(S)
  BY FS_Subset DEF FiniteSubsetsOf
<1>3. PICK T \in G : \A U \in G : <<U, T>> \notin StrictSubsetOrdering(S)
  BY <1>1, <1>2, WFMin
<1>4. QED
  BY <1>3 DEF StrictSubsetOrdering

\* Two functions that add up w agree where both are defined.
LEMMA AddsUnique ==
  ASSUME NEW w, NEW S, IsFiniteSet(S), NEW T \in SUBSET S, NEW f, NEW g, Adds(f, w, S), Adds(g, w, T)
  PROVE  \A s \in SUBSET T : f[s] = g[s]
<1> DEFINE G == {s \in SUBSET T : f[s] # g[s]}
<1> SUFFICES ASSUME G # {} PROVE FALSE
  OBVIOUS
<1>1. IsFiniteSet(T)
  BY FS_Subset
<1>2. PICK s \in G : \A U \in G : U \subseteq s => U = s
  <2>1. G \in SUBSET SUBSET T
    OBVIOUS
  <2> HIDE DEF G
  <2>2. QED
    BY <1>1, <2>1, MinimalSubset
<1>3. f[s] = Summand(w, s, f) /\ g[s] = Summand(w, s, g)
  BY DEF Adds, Summand
<1>4. CASE s = {}
  BY <1>3, <1>4 DEF Summand
<1>5. CASE s # {}
  <2> DEFINE x == CHOOSE x \in s : TRUE
  <2>1. x \in s
    BY <1>5
  <2> HIDE DEF x
  <2>2. s \ {x} \in SUBSET T /\ s \ {x} \notin G
    BY <1>2, <2>1
  <2>3. f[s \ {x}] = g[s \ {x}]
    BY <2>2
  <2>4. f[s] = w[x] + f[s \ {x}] /\ g[s] = w[x] + g[s \ {x}]
    BY <1>3, <1>5 DEF Summand, x
  <2>5. QED
    BY <2>3, <2>4
<1>6. QED
  BY <1>4, <1>5

\* A function that adds up w exists: on a smallest set without one, it would be
\* put together from those on the sets below.
LEMMA AddsExists ==
  ASSUME NEW w, NEW S, IsFiniteSet(S)
  PROVE  \E f : Adds(f, w, S)
<1> DEFINE G == {T \in SUBSET S : ~ \E f : Adds(f, w, T)}
<1> SUFFICES ASSUME G # {} PROVE FALSE
  OBVIOUS
<1>1. PICK T \in G : \A U \in G : U \subseteq T => U = T
  <2>1. G \in SUBSET SUBSET S
    OBVIOUS
  <2> HIDE DEF G
  <2>2. QED
    BY <2>1, MinimalSubset
<1> DEFINE F(U) == CHOOSE f : Adds(f, w, U)
           c(s) == CHOOSE x \in s : TRUE
           g == [s \in SUBSET T |-> IF s = {} THEN 0 ELSE w[c(s)] + F(s \ {c(s)})[s \ {c(s)}]]
<1>2. \A U \in SUBSET T : U # T => Adds(F(U), w, U)
  BY <1>1
<1>3. \A s \in SUBSET T : s # {} => c(s) \in s
  OBVIOUS
<1> HIDE DEF F, c
<1>4. ASSUME NEW U \in SUBSET T, U # T PROVE F(U)[U] = g[U]
  <2>1. CASE U = {}
    <3>1. F(U)[U] = Summand(w, U, F(U))
      BY <1>2, <1>4 DEF Adds, Summand
    <3>2. QED
      BY <2>1, <3>1 DEF Summand
  <2>2. CASE U # {}
    <3> DEFINE V == U \ {c(U)}
    <3>1. V \in SUBSET U /\ V \in SUBSET T /\ V # T
      BY <1>3, <1>4, <2>2
    <3>2. Adds(F(U), w, U) /\ Adds(F(V), w, V)
      BY <1>2, <1>4, <3>1
    <3>3. IsFiniteSet(U)
      BY FS_Subset
    <3>4. F(U)[V] = F(V)[V]
      BY <3>1, <3>2, <3>3, AddsUnique
    <3>5. F(U)[U] = Summand(w, U, F(U))
      BY <3>2 DEF Adds, Summand
    <3>6. F(U)[U] = w[c(U)] + F(U)[V]
      BY <2>2, <3>5 DEF Summand, c
    <3>7. QED
      BY <2>2, <3>4, <3>6
  <2>3. QED
    BY <2>1, <2>2
<1>5. \A s \in SUBSET T : g[s] = Summand(w, s, g)
  <2>1. ASSUME NEW s \in SUBSET T, s # {} PROVE g[s] = w[c(s)] + g[s \ {c(s)}]
    <3>1. s \ {c(s)} \in SUBSET T /\ s \ {c(s)} # T
      BY <1>3, <2>1
    <3>2. F(s \ {c(s)})[s \ {c(s)}] = g[s \ {c(s)}]
      BY <1>4, <3>1
    <3>3. QED
      BY <2>1, <3>2
  <2>2. g[{}] = 0
    OBVIOUS
  <2> HIDE DEF g
  <2>3. QED
    BY <2>1, <2>2 DEF Summand, c
<1>6. g = [s \in SUBSET T |-> g[s]]
  OBVIOUS
<1> HIDE DEF g
<1>7. Adds(g, w, T)
  BY <1>5, <1>6 DEF Adds, Summand
<1>8. QED
  BY <1>7

\* A sum is zero, or that of one element and the others.
LEMMA SumRecursion ==
  ASSUME NEW w, NEW S, IsFiniteSet(S)
  PROVE  IF S = {} THEN SumFunctionOnSet(w, S) = 0
         ELSE \E x \in S : SumFunctionOnSet(w, S) = w[x] + SumFunctionOnSet(w, S \ {x})
<1> DEFINE F(U) == CHOOSE f : Adds(f, w, U)
           x == CHOOSE x \in S : TRUE
           T == S \ {x}
<1>1. IsFiniteSet(T)
  BY FS_Subset
<1>2. SumFunctionOnSet(w, S) = F(S)[S] /\ SumFunctionOnSet(w, T) = F(T)[T]
  BY SumDef
<1>3. Adds(F(S), w, S) /\ Adds(F(T), w, T)
  BY <1>1, AddsExists
<1> HIDE DEF F
<1>4. F(S)[T] = F(T)[T]
  <2>1. T \in SUBSET S
    OBVIOUS
  <2> HIDE DEF T
  <2>2. QED
    BY <1>3, <2>1, AddsUnique
<1>5. F(S)[S] = Summand(w, S, F(S))
  BY <1>3 DEF Adds, Summand
<1>6. S # {} => x \in S
  OBVIOUS
<1>7. F(S)[S] = IF S = {} THEN 0 ELSE w[x] + F(S)[T]
  BY <1>5 DEF Summand
<1> HIDE DEF x
<1>8. QED
  BY <1>2, <1>4, <1>6, <1>7

Weighed(w, S) == IsFiniteSet(S) /\ \A x \in S : w[x] \in Nat

LEMMA SumType ==
  ASSUME NEW w, NEW S, Weighed(w, S), NEW T \in SUBSET S
  PROVE  SumFunctionOnSet(w, T) \in Nat
<1> DEFINE G == {U \in SUBSET S : SumFunctionOnSet(w, U) \notin Nat}
<1> SUFFICES ASSUME G # {} PROVE FALSE
  OBVIOUS
<1>1. PICK U \in G : \A V \in G : V \subseteq U => V = U
  <2>1. G \in SUBSET SUBSET S
    OBVIOUS
  <2> HIDE DEF G
  <2>2. QED
    BY <2>1, MinimalSubset DEF Weighed
<1>2. IsFiniteSet(U)
  BY FS_Subset DEF Weighed
<1>3. IF U = {} THEN SumFunctionOnSet(w, U) = 0
      ELSE \E x \in U : SumFunctionOnSet(w, U) = w[x] + SumFunctionOnSet(w, U \ {x})
  BY <1>2, SumRecursion
<1>4. \A x \in U : SumFunctionOnSet(w, U \ {x}) \in Nat
  BY <1>1
<1>5. SumFunctionOnSet(w, U) \notin Nat /\ \A x \in U : w[x] \in Nat
  BY <1>1 DEF Weighed
<1>6. CASE U = {}
  BY <1>3, <1>5, <1>6
<1>7. CASE U # {}
  <2>1. PICK x \in U : SumFunctionOnSet(w, U) = w[x] + SumFunctionOnSet(w, U \ {x})
    BY <1>3, <1>7
  <2>2. w[x] \in Nat /\ SumFunctionOnSet(w, U \ {x}) \in Nat
    BY <1>4, <1>5
  <2>3. QED
    BY <1>5, <2>1, <2>2
<1>8. QED
  BY <1>6, <1>7

\* Any element may be the first: the choice of the recursion does not matter.
LEMMA SumAdd ==
  ASSUME NEW w, NEW S, Weighed(w, S), NEW x \in S
  PROVE  SumFunctionOnSet(w, S) = w[x] + SumFunctionOnSet(w, S \ {x})
<1> DEFINE Sum(U) == SumFunctionOnSet(w, U)
           G == {U \in SUBSET S : \E y \in U : Sum(U) # w[y] + Sum(U \ {y})}
<1> SUFFICES ASSUME G # {} PROVE FALSE
  OBVIOUS
<1>1. PICK U \in G : \A V \in G : V \subseteq U => V = U
  <2>1. G \in SUBSET SUBSET S
    OBVIOUS
  <2> HIDE DEF G
  <2>2. QED
    BY <2>1, MinimalSubset DEF Weighed
<1>2. PICK y \in U : Sum(U) # w[y] + Sum(U \ {y})
  BY <1>1
<1>3. IsFiniteSet(U)
  BY FS_Subset DEF Weighed
<1>4. PICK z \in U : Sum(U) = w[z] + Sum(U \ {z})
  BY <1>3, SumRecursion
<1>5. y # z
  BY <1>2, <1>4
<1>6. \A V \in SUBSET U : V # U => \A v \in V : Sum(V) = w[v] + Sum(V \ {v})
  BY <1>1
<1>7. \A V \in SUBSET U : Sum(V) \in Nat
  BY SumType
<1> HIDE DEF Sum, G
<1>8. Sum(U \ {z}) = w[y] + Sum((U \ {z}) \ {y})
  BY <1>4, <1>5, <1>6
<1>9. Sum(U \ {y}) = w[z] + Sum((U \ {y}) \ {z})
  BY <1>2, <1>5, <1>6
<1>10. (U \ {z}) \ {y} = (U \ {y}) \ {z}
  OBVIOUS
<1>11. w[y] \in Nat /\ w[z] \in Nat
  BY <1>1 DEF Weighed, G
<1>12. QED
  <2> DEFINE R == (U \ {y}) \ {z}
  <2>1. Sum(R) \in Nat
    BY <1>7
  <2>2. Sum(U \ {z}) = w[y] + Sum(R) /\ Sum(U \ {y}) = w[z] + Sum(R)
    BY <1>8, <1>9, <1>10
  <2> HIDE DEF R
  <2>3. QED
    BY <1>2, <1>4, <1>11, <2>1, <2>2

\* If every element has one of its own that weighs as much, the sum is no larger.
LEMMA SumInjection ==
  ASSUME NEW v, NEW S, Weighed(v, S), NEW w, NEW T, Weighed(w, T), NEW h,
         \A x \in S : h[x] \in T /\ v[x] <= w[h[x]],
         \A x, y \in S : h[x] = h[y] => x = y
  PROVE  SumFunctionOnSet(v, S) <= SumFunctionOnSet(w, T)
<1> DEFINE Image(U) == {h[x] : x \in U}
           Small(U) == SumFunctionOnSet(v, U)
           Large(V) == SumFunctionOnSet(w, V)
           G == {U \in SUBSET S : \E V \in SUBSET T : Image(U) \subseteq V /\ ~(Small(U) <= Large(V))}
<1> SUFFICES ASSUME G # {} PROVE FALSE
  <2>1. Image(S) \subseteq T
    OBVIOUS
  <2>2. S \notin G
    OBVIOUS
  <2>3. QED
    BY <2>1, <2>2
<1>1. PICK U \in G : \A V \in G : V \subseteq U => V = U
  <2>1. G \in SUBSET SUBSET S
    OBVIOUS
  <2> HIDE DEF G
  <2>2. QED
    BY <2>1, MinimalSubset DEF Weighed
<1>2. PICK V \in SUBSET T : Image(U) \subseteq V /\ ~(Small(U) <= Large(V))
  BY <1>1
<1>3. IsFiniteSet(U) /\ IsFiniteSet(V)
  BY <1>1, FS_Subset DEF Weighed
<1>4. Small(U) \in Nat /\ Large(V) \in Nat
  BY <1>1, SumType
<1>5. U # {}
  BY <1>2, <1>3, <1>4, SumRecursion
<1>6. PICK x \in U : Small(U) = v[x] + Small(U \ {x})
  BY <1>3, <1>5, SumRecursion
<1>7. h[x] \in V /\ v[x] <= w[h[x]] /\ v[x] \in Nat /\ w[h[x]] \in Nat
  BY <1>1, <1>2 DEF Weighed
<1>8. Large(V) = w[h[x]] + Large(V \ {h[x]})
  <2>1. Weighed(w, V)
    BY <1>3 DEF Weighed
  <2>2. QED
    BY <1>7, <2>1, SumAdd
<1>9. Small(U \ {x}) \in Nat /\ Large(V \ {h[x]}) \in Nat
  <2>1. U \ {x} \in SUBSET S /\ V \ {h[x]} \in SUBSET T
    BY <1>1
  <2>2. QED
    BY <2>1, SumType
<1>10. Small(U \ {x}) <= Large(V \ {h[x]})
  <2>1. Image(U \ {x}) \subseteq V \ {h[x]}
    BY <1>1, <1>2
  <2>2. U \ {x} \in SUBSET S /\ U \ {x} # U /\ U \ {x} \notin G
    BY <1>1
  <2>3. V \ {h[x]} \in SUBSET T
    OBVIOUS
  <2> HIDE DEF Image, Small, Large
  <2>4. QED
    BY <2>1, <2>2, <2>3
<1> HIDE DEF Small, Large
<1>11. QED
  BY <1>2, <1>4, <1>6, <1>7, <1>8, <1>9, <1>10

----
(* What is reserved stays within the ceilings, and so what is sent.            *)
----

AllRows == reservations \cup UNION {pending[p] : p \in Procs}
RowOf(q) == [key |-> RequestKey(q), task |-> q.task]
WeightIn(R, dim) == [r \in R |-> Weight[r.task][dim]]

\* The table and the open transactions together are what the ceilings bound:
\* a process that reserves sees all of them, since no other one has the lock.
CeilingInv ==
  /\ IsFiniteSet(AllRows)
  /\ \A r \in AllRows : \E q \in Questions : r = RowOf(q)
  /\ \A dim \in Dimensions : SumFunctionOnSet(WeightIn(AllRows, dim), AllRows) <= Ceiling[dim]

\* Rows weigh a natural number.
LEMMA RowsWeighed ==
  ASSUME NEW R, IsFiniteSet(R), \A r \in R : \E q \in Questions : r = RowOf(q), NEW dim \in Dimensions
  PROVE  Weighed(WeightIn(R, dim), R)
<1>1. \A r \in R : r.task \in Tasks
  BY QuestionParts DEF RowOf
<1>2. \A r \in R : Weight[r.task][dim] \in Nat
  BY <1>1, GatewayAssumption
<1>3. QED
  BY <1>2 DEF Weighed, WeightIn

\* Fewer rows weigh no more.
LEMMA FewerRows ==
  ASSUME NEW R, NEW S, R \subseteq S, IsFiniteSet(S),
         \A r \in S : \E q \in Questions : r = RowOf(q), NEW dim \in Dimensions
  PROVE  SumFunctionOnSet(WeightIn(R, dim), R) <= SumFunctionOnSet(WeightIn(S, dim), S)
<1> DEFINE v == WeightIn(R, dim)
           w == WeightIn(S, dim)
           h == [r \in R |-> r]
<1>1. IsFiniteSet(R)
  BY FS_Subset
<1>2. Weighed(v, R) /\ Weighed(w, S)
  BY <1>1, RowsWeighed
<1>3. \A r \in R : h[r] \in S /\ v[r] <= w[h[r]]
  BY <1>2 DEF Weighed, WeightIn
<1>4. \A r, s \in R : h[r] = h[s] => r = s
  OBVIOUS
<1> HIDE DEF v, w, h
<1>5. QED
  BY <1>2, <1>3, <1>4, SumInjection DEF v, w

\* Steps that reserve nothing leave the ceilings kept.
LEMMA KeepsCeiling ==
  ASSUME CeilingInv, AllRows' \subseteq AllRows
  PROVE  CeilingInv'
<1> DEFINE Sum(R, dim) == SumFunctionOnSet(WeightIn(R, dim), R)
<1>1. IsFiniteSet(AllRows') /\ \A r \in AllRows' : \E q \in Questions : r = RowOf(q)
  BY FS_Subset DEF CeilingInv
<1>2. ASSUME NEW dim \in Dimensions
      PROVE  Sum(AllRows', dim) <= Ceiling[dim]
  <2>1. Sum(AllRows', dim) <= Sum(AllRows, dim) /\ Sum(AllRows, dim) <= Ceiling[dim]
    BY FewerRows DEF CeilingInv
  <2>2. Sum(AllRows', dim) \in Nat /\ Sum(AllRows, dim) \in Nat
    BY <1>1, RowsWeighed, SumType DEF CeilingInv
  <2>3. Ceiling[dim] \in Nat
    BY GatewayAssumption
  <2> HIDE DEF Sum
  <2>4. QED
    BY <2>1, <2>2, <2>3
<1>3. QED
  BY <1>1, <1>2 DEF CeilingInv, WeightIn

\* The connection that reserves reads every row there is.
LEMMA ReserveCeiling ==
  ASSUME TypeInv, TransactionInv, CeilingInv, NEW p \in Procs, Reserve(p)
  PROVE  CeilingInv'
<1> DEFINE row == OwnRow(p)
           Sum(R, dim) == SumFunctionOnSet(WeightIn(R, dim), R)
<1>1. ask[p].question \in Questions /\ row = RowOf(ask[p].question)
  BY DEF Reserve, TypeInv, Visit, OwnRow, RowOf, Key
<1>2. \A q \in Procs \ {p} : pending[q] = {}
  BY DEF Reserve, Blocked, TransactionInv
<1>3. AllRows = Rows(p)
  BY <1>2 DEF AllRows, Rows
<1>4. AllRows' = AllRows \cup {row}
  <2>1. CASE txn[p] = "none"
    <3>1. reservations' = reservations \cup {row} /\ pending' = pending
      BY <2>1 DEF Reserve, OwnRow
    <3>2. QED
      BY <3>1 DEF AllRows
  <2>2. CASE txn[p] # "none"
    <3>1. pending' = [pending EXCEPT ![p] = @ \cup {row}] /\ reservations' = reservations
      BY <2>2 DEF Reserve, OwnRow
    <3>2. pending'[p] = pending[p] \cup {row} /\ \A q \in Procs \ {p} : pending'[q] = pending[q]
      BY <3>1 DEF TypeInv
    <3>3. QED
      BY <3>1, <3>2 DEF AllRows
  <2>3. QED
    BY <2>1, <2>2
<1>5. row \notin AllRows
  BY <1>3 DEF Reserve, Duplicate, OwnRow
<1>6. IsFiniteSet(AllRows') /\ \A r \in AllRows' : \E q \in Questions : r = RowOf(q)
  BY <1>1, <1>4, FS_AddElement DEF CeilingInv
<1>7. ASSUME NEW dim \in Dimensions
      PROVE  Sum(AllRows', dim) <= Ceiling[dim]
  <2> DEFINE w == WeightIn(AllRows', dim)
             W == Weight[row.task][dim]
  <2>1. Weighed(w, AllRows')
    BY <1>6, RowsWeighed
  <2>2. AllRows' \ {row} = AllRows /\ row \in AllRows' /\ w[row] = W
    BY <1>4, <1>5 DEF WeightIn
  <2>3. Sum(AllRows', dim) = W + SumFunctionOnSet(w, AllRows)
    <3>1. SumFunctionOnSet(w, AllRows') = w[row] + SumFunctionOnSet(w, AllRows' \ {row})
      BY <2>1, <2>2, SumAdd
    <3>2. QED
      BY <2>2, <3>1
  <2>4. SumFunctionOnSet(w, AllRows) <= Sum(AllRows, dim)
    <3> DEFINE v == WeightIn(AllRows, dim)
               h == [r \in AllRows |-> r]
    <3>1. Weighed(v, AllRows)
      BY RowsWeighed DEF CeilingInv
    <3>2. Weighed(w, AllRows)
      BY <1>4, <2>1, <3>1 DEF Weighed
    <3>3. \A r \in AllRows : h[r] \in AllRows /\ w[r] <= v[h[r]]
      BY <1>4, <3>1 DEF WeightIn, Weighed
    <3>4. \A r, s \in AllRows : h[r] = h[s] => r = s
      OBVIOUS
    <3> HIDE DEF v, w, h
    <3>5. QED
      BY <3>1, <3>2, <3>3, <3>4, SumInjection DEF v
  <2>5. Used(p, dim) = Sum(AllRows, dim)
    BY <1>3 DEF Used, SumFunction, WeightIn
  <2>6. Used(p, dim) + W <= Ceiling[dim]
    BY DEF Reserve, WithinCeilings, OwnRow
  <2>7. Sum(AllRows, dim) \in Nat /\ SumFunctionOnSet(w, AllRows) \in Nat
    <3>1. Weighed(WeightIn(AllRows, dim), AllRows)
      BY RowsWeighed DEF CeilingInv
    <3>2. AllRows \in SUBSET AllRows'
      BY <1>4
    <3> HIDE DEF w
    <3>3. QED
      BY <2>1, <3>1, <3>2, SumType
  <2>8. W \in Nat /\ Ceiling[dim] \in Nat
    BY <2>1, <2>2, GatewayAssumption DEF Weighed
  <2> HIDE DEF Sum, W, w
  <2>9. QED
    BY <2>3, <2>4, <2>5, <2>6, <2>7, <2>8
<1>8. QED
  BY <1>6, <1>7 DEF CeilingInv, WeightIn

\* Commits move rows, kills remove them, other steps leave them.
LEMMA CeilingStep == TypeInv /\ TransactionInv /\ CeilingInv /\ [Next]_vars => CeilingInv'
<1> SUFFICES ASSUME TypeInv, TransactionInv, CeilingInv, [Next]_vars PROVE CeilingInv'
  OBVIOUS
<1>1. ASSUME NEW p \in Procs, StepOf(p), ~Reserve(p)
      PROVE  AllRows' \subseteq AllRows
  <2>1. \A q \in Procs \ {p} : pending'[q] = pending[q]
    BY <1>1, OthersStay DEF StepOf
  <2>2. reservations' \cup pending'[p] \subseteq reservations \cup pending[p]
    <3>1. CASE Replay(p) \/ FindNothing(p) \/ Refuse(p) \/ MissLock(p) \/ Send(p) \/ Return(p) \/ MissRecord(p)
      BY <3>1 DEF Replay, FindNothing, Refuse, MissLock, Send, Return, MissRecord, tables
    <3>2. CASE Record(p) \/ \E d \in Domains, e \in Evidence : SelectPivots(p, d, e)
      BY <3>2 DEF Record, SelectPivots, Commit, TypeInv
    <3>3. CASE Interrupt(p) \/ Kill(p)
      BY <3>3 DEF Interrupt, Kill, Dies, TypeInv
    <3>4. QED
      BY <1>1, <3>1, <3>2, <3>3 DEF StepOf, Attempt
  <2>3. QED
    BY <2>1, <2>2 DEF AllRows
<1>2. CASE \E p \in Procs : Reserve(p)
  BY <1>2, ReserveCeiling
<1>3. CASE \E p \in Procs : StepOf(p) /\ ~Reserve(p)
  BY <1>1, <1>3, KeepsCeiling
<1>4. CASE UNCHANGED vars
  BY <1>4, KeepsCeiling DEF vars, tables, AllRows
<1>5. QED
  BY <1>2, <1>3, <1>4, NextCases DEF StepOf

\* Without a loss, each question sent was sent once and has its row.
LEMMA SpentIsReserved ==
  ASSUME TypeInv, PaymentInv, CeilingInv
  PROVE  SpentWithinCeiling
<1> SUFFICES ASSUME \A q \in Questions : lost[q] = 0, NEW dim \in Dimensions
             PROVE  Spent(dim) <= Ceiling[dim]
  BY DEF SpentWithinCeiling
<1> DEFINE v == [q \in Sent |-> billed[q] * Weight[q.task][dim]]
           w == WeightIn(AllRows, dim)
           h == [q \in Sent |-> RowOf(q)]
<1>1. \A q \in Sent : q \in Questions /\ billed[q] = 1
  BY DEF Sent, TypeInv, PaymentInv, PaidOnceUnlessLost
<1>2. \A q \in Sent : RowOf(q) \in AllRows
  <2>1. ASSUME NEW q \in Sent PROVE RowOf(q) \in AllRows
    <3>1. Reserved(q)
      BY <1>1 DEF PaymentInv
    <3>2. PICK r \in AllRows : r.key = RequestKey(q)
      BY <3>1 DEF Reserved, AllRows
    <3>3. PICK s \in Questions : r = RowOf(s)
      BY DEF CeilingInv
    <3>4. s = q
      BY <1>1, <3>2, <3>3, KeyInjective DEF RowOf
    <3>5. QED
      BY <3>3, <3>4
  <2>2. QED
    BY <2>1
<1>3. \A q, r \in Sent : h[q] = h[r] => q = r
  BY <1>1, KeyInjective DEF RowOf
<1>4. IsFiniteSet(Sent)
  <2>1. h \in Injection(Sent, AllRows)
    BY <1>2, <1>3 DEF Injection, IsInjective
  <2>2. QED
    BY <2>1, FS_Injection DEF CeilingInv
<1>5. \A q \in Sent : Weight[q.task][dim] \in Nat
  BY <1>1, QuestionParts, GatewayAssumption
<1>6. Weighed(v, Sent) /\ \A q \in Sent : v[q] = Weight[q.task][dim]
  BY <1>1, <1>4, <1>5 DEF Weighed
<1>7. Weighed(w, AllRows)
  BY RowsWeighed DEF CeilingInv
<1>8. \A q \in Sent : h[q] \in AllRows /\ v[q] <= w[h[q]]
  <2>1. \A q \in Sent : h[q] \in AllRows /\ w[h[q]] = Weight[q.task][dim]
    BY <1>2 DEF WeightIn, RowOf
  <2>2. QED
    BY <1>5, <1>6, <2>1
<1>9. Spent(dim) = SumFunctionOnSet(v, Sent)
  BY DEF Spent, SumFunction
<1> HIDE DEF v, w, h
<1>10. SumFunctionOnSet(v, Sent) <= SumFunctionOnSet(w, AllRows)
  BY <1>3, <1>6, <1>7, <1>8, SumInjection
<1>11. SumFunctionOnSet(w, AllRows) <= Ceiling[dim]
  BY DEF CeilingInv, w
<1>12. SumFunctionOnSet(v, Sent) \in Nat /\ SumFunctionOnSet(w, AllRows) \in Nat /\ Ceiling[dim] \in Nat
  BY <1>6, <1>7, SumType, GatewayAssumption
<1>13. QED
  BY <1>9, <1>10, <1>11, <1>12

----

IInv == TypeInv /\ AnswersInv /\ TransactionInv /\ PaymentInv /\ CeilingInv

LEMMA InitStep == Init => IInv
<1> SUFFICES ASSUME Init PROVE IInv
  OBVIOUS
<1>1. TypeInv
  BY FailuresAreNoAnswers DEF Init, TypeInv, Steps
<1>2. AnswersInv
  BY FailuresAreNoAnswers DEF Init, AnswersInv, AnswersAreOwn
<1>3. TransactionInv
  BY DEF Init, TransactionInv
<1>4. PaymentInv
  BY DEF Init, PaymentInv, PaidOnceUnlessLost
<1>5. CeilingInv
  <2>1. AllRows = {}
    BY DEF Init, AllRows
  <2>2. \A w : SumFunctionOnSet(w, {}) = 0
    BY FS_EmptySet, SumRecursion
  <2>3. \A dim \in Dimensions : Ceiling[dim] \in Nat
    BY GatewayAssumption
  <2>4. QED
    BY <2>1, <2>2, <2>3, FS_EmptySet DEF CeilingInv
<1>6. QED
  BY <1>1, <1>2, <1>3, <1>4, <1>5 DEF IInv

LEMMA NextStep == IInv /\ [Next]_vars => IInv'
  BY TypeStep, AnswersStep, TransactionStep, PaymentStep, CeilingStep DEF IInv

\* The tables, the connections and the processes hold what they may.
THEOREM GatewayTyped == Spec => []TypeOK
<1>1. IInv => TypeOK
  BY DEF IInv, TypeInv, TypeOK, Row, Keys, Visit
<1>2. QED
  BY InitStep, NextStep, <1>1, PTL DEF Spec

\* The pivots of a domain come from an answer to the very question that was asked.
THEOREM AnswersStayOwn == Spec => []AnswersAreOwn
<1>1. IInv => AnswersAreOwn
  BY DEF IInv, AnswersInv
<1>2. QED
  BY InitStep, NextStep, <1>1, PTL DEF Spec

\* No request is paid for again, but for the reservations a kill rolled back.
THEOREM RequestsPaidOnce == Spec => []PaidOnceUnlessLost
<1>1. IInv => PaidOnceUnlessLost
  BY DEF IInv, PaymentInv
<1>2. QED
  BY InitStep, NextStep, <1>1, PTL DEF Spec

\* As long as no kill took a sent request's reservation back, what all processes
\* and resumes really sent stays within each of the run's ceilings.
THEOREM SpentStaysWithinCeiling == Spec => []SpentWithinCeiling
<1>1. IInv => SpentWithinCeiling
  BY SpentIsReserved DEF IInv
<1>2. QED
  BY InitStep, NextStep, <1>1, PTL DEF Spec
====
