---- MODULE ProviderExecutorProofs ----
(***************************************************************************)
(* What ProviderExecutor keeps for any processes, calls and limits.        *)
(*                                                                         *)
(* Kinds types the state but for the bulkheads; Rounds, Slots, Reserved    *)
(* and Causes say how a call's rounds, the free slots, the budget and the  *)
(* circuits' times belong together.  Their conjunction is inductive.       *)
(***************************************************************************)
EXTENDS ProviderExecutor, FiniteSetTheorems, TLAPS

Held == {"asking", "calling", "backoff"}
Holders(p) == {c \in Calls : Owner[c] = p /\ pc[c] \in Held}
Charged(p) == {c \in Calls : /\ Owner[c] = p
                             /\ \/ pc[c] \in Held \cup {"clearing", "queued"}
                                \/ \E n \in 1..(Retries + 1) : <<c, n>> \in paid}

Kinds ==
  /\ now \in Nat \ {0} /\ now <= Horizon + 1
  /\ row \in State
  /\ circuit \in [Procs -> State]
  /\ reserved \in [Procs -> Nat]
  /\ free \in [Procs -> Int]
  /\ txn \in [Procs -> {"none", "open", "write"}]
  /\ pc \in [Calls -> Steps]
  /\ tries \in [Calls -> 0..(Retries + 1)]
  /\ recorded \subseteq Calls
  /\ paid \subseteq Calls \X (1..(Retries + 1))
  /\ lastFailure \in Nat

\* A call that holds a slot is in one of its rounds; one that sleeps has another.
Rounds ==
  \A c \in Calls : /\ pc[c] \in Held => tries[c] >= 1
                   /\ pc[c] = "backoff" => tries[c] <= Retries

\* Every slot is free or held by a call.
Slots == \A p \in Procs : free[p] >= 0 /\ free[p] + Cardinality(Holders(p)) = Limit

\* The calls that cost something were reserved, and fit.
Reserved ==
  \A p \in Procs : /\ Cardinality(Charged(p)) <= reserved[p]
                   /\ MaxUnits >= 0 => WorstCaseUnits(reserved[p]) <= MaxUnits

\* A circuit is open on account of the last failure or of an earlier one.
Causes ==
  /\ lastFailure <= now
  /\ row.open <= lastFailure + Cooldown
  /\ \A p \in Procs : circuit[p].open <= lastFailure

ExecInv == Kinds /\ Rounds /\ Slots /\ Reserved /\ Causes /\ ThresholdOpens

\* The assumption on the constants, taken apart.
LEMMA Constants ==
  /\ Owner \in [Calls -> Procs] /\ IsFiniteSet(Calls)
  /\ Retries \in Nat /\ Cooldown \in Nat /\ Horizon \in Nat
  /\ Failures \in Nat \ {0} /\ Limit \in Nat \ {0}
  /\ MaxCalls \in Int /\ MaxUnits \in Int
  BY ExecutorAssumption DEF ExecutorAssumption

\* Writing and committing leaves a transaction of one of the three kinds.
LEMMA WrittenKind ==
  ASSUME NEW p \in Procs, txn \in [Procs -> {"none", "open", "write"}]
  PROVE  Written(p) \in [Procs -> {"none", "open", "write"}]
  BY DEF Written

\* The local circuit that was looked at is a circuit.
LEMMA CooledKind ==
  ASSUME NEW p \in Procs, Kinds
  PROVE  Cooled(p) \in State /\ (Cooled(p) = circuit[p] \/ Cooled(p) = Closed)
  BY DEF Cooled, Kinds, Closed, State

\* Counting a failure gives a circuit.
LEMMA CountedKind ==
  ASSUME NEW s \in State, NEW t \in Nat \ {0}, NEW u \in Nat
  PROVE  Counted(s, t, u) \in State
  BY DEF Counted, State

\* Kinds is kept by every step.
LEMMA KindsKept == Kinds /\ Rounds /\ [Next]_vars => Kinds'
<1> SUFFICES ASSUME Kinds, Rounds, [Next]_vars PROVE Kinds'
  OBVIOUS
<1> USE Constants
<1>1. ASSUME NEW c \in Calls, Admit(c) PROVE Kinds'
  <2> DEFINE p == Owner[c]
  <2>1. p \in Procs /\ Written(p) \in [Procs -> {"none", "open", "write"}]
    BY WrittenKind DEF Kinds
  <2>2. Cooled(p) \in State
    BY <2>1, CooledKind
  <2>3. CASE Refuse(c)
    BY <2>1, <2>3 DEF Kinds, Refuse, End, Steps, Ended, process
  <2>4. CASE RejectOpen(c)
    BY <2>1, <2>4 DEF Kinds, RejectOpen, Reserve, End, Emit, Steps, Ended
  <2>5. CASE Check(c)
    BY <2>1, <2>2, <2>5 DEF Kinds, Check, CheckLocal, Reserve, End, Emit, Steps, Ended
  <2>6. CASE FindExpired(c)
    BY <2>1, <2>6 DEF Kinds, FindExpired, Reserve, Steps
  <2>7. CASE Clear(c)
    <3>1. row' \in State /\ circuit' \in [Procs -> State] /\ txn' = Written(p)
      BY <2>1, <2>2, <2>7 DEF Kinds, Clear, CheckLocal, Emit, Closed, State
    <3>2. CASE LocallyOpen(p)
      BY <2>1, <2>7, <3>1, <3>2 DEF Kinds, Clear, CheckLocal, End, Emit, Steps, Ended
    <3>3. CASE ~LocallyOpen(p)
      BY <2>1, <2>7, <3>1, <3>3 DEF Kinds, Clear, CheckLocal, Steps
    <3>4. QED
      BY <3>2, <3>3
  <2>8. CASE Enter(c)
    BY <2>1, <2>8 DEF Kinds, Enter, Steps
  <2>9. QED
    BY <1>1, <2>3, <2>4, <2>5, <2>6, <2>7, <2>8 DEF Admit
<1>2. ASSUME NEW c \in Calls, Permit(c) \/ Finish(c) PROVE Kinds'
  <2> DEFINE p == Owner[c]
  <2>1. p \in Procs /\ Written(p) \in [Procs -> {"none", "open", "write"}]
    BY WrittenKind DEF Kinds
  <2>2. ASSUME NEW t \in {1, Failures}, Fail(c, t), UNCHANGED <<now, reserved, paid>> PROVE Kinds'
    <3>1. Counted(circuit[p], t, now) \in State /\ Counted(row, t, now + Cooldown) \in State
      BY <2>1, CountedKind DEF Kinds
    <3>2. QED
      BY <2>1, <2>2, <3>1 DEF Kinds, Fail, End, Emit, Leave, Steps, Ended
  <2>3. CASE Grant(c)
    BY <2>1, <2>3 DEF Kinds, Rounds, Grant, Steps, Held, process
  <2>4. CASE Deny(c)
    BY <2>1, <2>4 DEF Kinds, Deny, End, Emit, Leave, Steps, Ended
  <2>5. CASE MissPermit(c)
    <3>1. CASE Again(c)
      BY <2>1, <2>5, <3>1 DEF Kinds, MissPermit, Again, Steps
    <3>2. CASE GiveUp(c)
      BY <2>2, <2>5, <3>2 DEF MissPermit, GiveUp
    <3>3. QED
      BY <2>5, <3>1, <3>2 DEF MissPermit
  <2>6. CASE AnswerFails(c)
    <3>1. CASE Again(c) /\ UNCHANGED txn
      BY <2>1, <2>6, <3>1 DEF Kinds, AnswerFails, Again, Steps
    <3>2. CASE GiveUp(c)
      BY <2>2, <2>6, <3>2 DEF AnswerFails, GiveUp
    <3>3. QED
      BY <2>6, <3>1, <3>2 DEF AnswerFails
  <2>7. CASE AnswerFinal(c)
    BY <2>2, <2>7 DEF AnswerFinal
  <2>8. CASE Retry(c)
    BY <2>1, <2>8 DEF Kinds, Rounds, Retry, Steps, process
  <2>9. CASE Answer(c)
    BY <2>1, <2>9 DEF Kinds, Answer, End, Emit, Leave, Steps, Ended, Closed, State
  <2>10. CASE RejectInput(c)
    BY <2>1, <2>10 DEF Kinds, RejectInput, End, Emit, Leave, Steps, Ended
  <2>11. QED
    BY <1>2, <2>3, <2>4, <2>5, <2>6, <2>7, <2>8, <2>9, <2>10 DEF Permit, Finish
<1>3. ASSUME NEW p \in Procs, CommitElse(p) PROVE Kinds'
  BY <1>3, WrittenKind DEF Kinds, CommitElse, process
<1>4. ASSUME NEW p \in Procs, Stop(p) PROVE Kinds'
  BY <1>4 DEF Kinds, Stop, Steps, Ended, Closed, State
<1>5. CASE Tick
  BY <1>5 DEF Kinds, Tick, process
<1>6. CASE UNCHANGED vars
  BY <1>6 DEF Kinds, vars, process
<1>7. QED
  BY <1>1, <1>2, <1>3, <1>4, <1>5, <1>6 DEF Next

\* Rounds is kept by every step.
LEMMA RoundsKept == Kinds /\ Rounds /\ [Next]_vars => Rounds'
<1> SUFFICES ASSUME Kinds, Rounds, [Next]_vars, NEW d \in Calls
             PROVE  /\ pc'[d] \in Held => tries'[d] >= 1
                    /\ pc'[d] = "backoff" => tries'[d] <= Retries
  BY DEF Rounds
<1> DEFINE Good == /\ pc'[d] \in Held => tries'[d] >= 1
                   /\ pc'[d] = "backoff" => tries'[d] <= Retries
<1> USE Constants DEF Kinds, Rounds, Held
<1>1. ASSUME NEW c \in Calls, NEW how \in Ended, End(c, how) PROVE Good
  BY <1>1 DEF End, Ended
<1>2. ASSUME NEW c \in Calls, Admit(c) PROVE Good
  <2>1. CASE Check(c) \/ Clear(c)
    <3>1. CASE LocallyOpen(Owner[c])
      BY <1>1, <2>1, <3>1 DEF Check, Clear, CheckLocal, Ended
    <3>2. CASE ~LocallyOpen(Owner[c])
      BY <2>1, <3>2 DEF Check, Clear, CheckLocal
    <3>3. QED
      BY <3>1, <3>2
  <2>2. CASE Refuse(c) \/ RejectOpen(c)
    BY <1>1, <2>2 DEF Refuse, RejectOpen, Ended
  <2>3. CASE FindExpired(c)
    BY <2>3 DEF FindExpired
  <2>4. CASE Enter(c)
    BY <2>4 DEF Enter
  <2>5. QED
    BY <1>2, <2>1, <2>2, <2>3, <2>4 DEF Admit
<1>3. ASSUME NEW c \in Calls, Permit(c) \/ Finish(c) PROVE Good
  <2>1. CASE Grant(c)
    BY <2>1 DEF Grant
  <2>2. CASE Deny(c) \/ Answer(c) \/ RejectInput(c) \/ AnswerFinal(c)
    BY <1>1, <2>2 DEF Deny, Answer, RejectInput, AnswerFinal, Fail, Ended
  <2>3. CASE MissPermit(c) \/ AnswerFails(c)
    <3>1. CASE Again(c)
      BY <2>3, <3>1 DEF MissPermit, AnswerFails, Again
    <3>2. CASE GiveUp(c)
      BY <1>1, <3>2 DEF GiveUp, Fail, Ended
    <3>3. QED
      BY <2>3, <3>1, <3>2 DEF MissPermit, AnswerFails
  <2>4. CASE Retry(c)
    BY <2>4 DEF Retry
  <2>5. QED
    BY <1>3, <2>1, <2>2, <2>3, <2>4 DEF Permit, Finish
<1>4. ASSUME NEW p \in Procs, CommitElse(p) \/ Stop(p) PROVE Good
  BY <1>4 DEF CommitElse, Stop
<1>5. CASE Tick \/ UNCHANGED vars
  BY <1>5 DEF Tick, vars
<1>6. QED
  BY <1>2, <1>3, <1>4, <1>5 DEF Next

\* Opening or closing a circuit dates it no later than the failures so far.
LEMMA CausesKept == Kinds /\ Causes /\ [Next]_vars => Causes'
<1> SUFFICES ASSUME Kinds, Causes, [Next]_vars PROVE Causes'
  OBVIOUS
<1> USE Constants DEF Kinds, Causes, State
<1>1. ASSUME NEW c \in Calls, Fail(c, 1) \/ Fail(c, Failures), UNCHANGED now PROVE Causes'
  BY <1>1 DEF Fail, Counted
<1>2. ASSUME NEW c \in Calls, Admit(c) PROVE Causes'
  <2>1. CASE Check(c) \/ Clear(c)
    <3>1. Cooled(Owner[c]) = circuit[Owner[c]] \/ Cooled(Owner[c]) = Closed
      BY CooledKind
    <3>2. QED
      BY <2>1, <3>1 DEF Check, Clear, CheckLocal, Closed
  <2>2. CASE Refuse(c) \/ RejectOpen(c) \/ FindExpired(c) \/ Enter(c)
    BY <2>2 DEF Refuse, RejectOpen, FindExpired, Enter, process
  <2>3. QED
    BY <1>2, <2>1, <2>2 DEF Admit
<1>3. ASSUME NEW c \in Calls, Permit(c) \/ Finish(c) PROVE Causes'
  <2>1. CASE Grant(c) \/ Deny(c) \/ RejectInput(c) \/ Retry(c)
    BY <2>1 DEF Grant, Deny, RejectInput, Retry, process
  <2>2. CASE MissPermit(c) \/ AnswerFails(c)
    <3>1. CASE Again(c)
      BY <2>2, <3>1 DEF MissPermit, AnswerFails, Again
    <3>2. CASE GiveUp(c)
      BY <1>1, <2>2, <3>2 DEF MissPermit, AnswerFails, GiveUp
    <3>3. QED
      BY <2>2, <3>1, <3>2 DEF MissPermit, AnswerFails
  <2>3. CASE AnswerFinal(c)
    BY <1>1, <2>3 DEF AnswerFinal
  <2>4. CASE Answer(c)
    BY <2>4 DEF Answer, Closed
  <2>5. QED
    BY <1>3, <2>1, <2>2, <2>3, <2>4 DEF Permit, Finish
<1>4. ASSUME NEW p \in Procs, CommitElse(p) \/ Stop(p) PROVE Causes'
  BY <1>4 DEF CommitElse, Stop, process, Closed
<1>5. CASE Tick \/ UNCHANGED vars
  BY <1>5 DEF Tick, vars, process
<1>6. QED
  BY <1>2, <1>3, <1>4, <1>5 DEF Next

\* No failure that reaches the threshold leaves its circuit closed.
LEMMA ThresholdKept == Kinds /\ ThresholdOpens /\ [Next]_vars => ThresholdOpens'
<1> SUFFICES ASSUME Kinds, ThresholdOpens, [Next]_vars PROVE ThresholdOpens'
  OBVIOUS
<1> DEFINE Opened(s) == s.failures >= Failures => s.open # 0
<1> USE Constants
<1>1. Opened(row) /\ \A p \in Procs : Opened(circuit[p])
  BY DEF ThresholdOpens
<1>2. SUFFICES Opened(row') /\ \A p \in Procs : Opened(circuit'[p])
  BY DEF ThresholdOpens
<1> DEFINE Goal == Opened(row') /\ \A p \in Procs : Opened(circuit'[p])
<1>3. Opened(Closed)
  BY DEF Closed
<1>4. ASSUME NEW c \in Calls, NEW t \in {1, Failures}, Fail(c, t) PROVE Goal
  <2>1. ASSUME NEW s \in State, Opened(s), NEW u \in Nat \ {0} PROVE Opened(Counted(s, t, u))
    BY <2>1 DEF Counted, State
  <2>2. Opened(Counted(row, t, now + Cooldown)) /\ Opened(Counted(circuit[Owner[c]], t, now))
    BY <1>1, <2>1 DEF Kinds
  <2>3. QED
    BY <1>1, <1>4, <2>2 DEF Fail, Kinds
<1>5. ASSUME NEW c \in Calls, Admit(c) PROVE Goal
  <2>1. CASE Check(c) \/ Clear(c)
    <3>1. Opened(Cooled(Owner[c]))
      BY <1>1, <1>3, CooledKind
    <3>2. QED
      BY <1>1, <1>3, <2>1, <3>1 DEF Check, Clear, CheckLocal, Kinds
  <2>2. CASE Refuse(c) \/ RejectOpen(c) \/ FindExpired(c) \/ Enter(c)
    BY <1>1, <2>2 DEF Refuse, RejectOpen, FindExpired, Enter, process
  <2>3. QED
    BY <1>5, <2>1, <2>2 DEF Admit
<1>6. ASSUME NEW c \in Calls, Permit(c) \/ Finish(c) PROVE Goal
  <2>1. CASE Grant(c) \/ Deny(c) \/ RejectInput(c) \/ Retry(c)
    BY <1>1, <2>1 DEF Grant, Deny, RejectInput, Retry, process
  <2>2. CASE MissPermit(c) \/ AnswerFails(c)
    <3>1. CASE Again(c)
      BY <1>1, <2>2, <3>1 DEF MissPermit, AnswerFails, Again
    <3>2. CASE GiveUp(c)
      BY <1>4, <2>2, <3>2 DEF GiveUp
    <3>3. QED
      BY <2>2, <3>1, <3>2 DEF MissPermit, AnswerFails
  <2>3. CASE AnswerFinal(c)
    BY <1>4, <2>3 DEF AnswerFinal
  <2>4. CASE Answer(c)
    BY <1>1, <1>3, <2>4 DEF Answer, Kinds, State
  <2>5. QED
    BY <1>6, <2>1, <2>2, <2>3, <2>4 DEF Permit, Finish
<1>7. ASSUME NEW p \in Procs, CommitElse(p) \/ Stop(p) PROVE Goal
  BY <1>1, <1>3, <1>7 DEF CommitElse, Stop, process, Kinds
<1>8. CASE Tick \/ UNCHANGED vars
  BY <1>1, <1>8 DEF Tick, vars, process
<1>9. QED
  BY <1>5, <1>6, <1>7, <1>8 DEF Next

\* The calls of a process are finitely many.
LEMMA FiniteCalls ==
  ASSUME NEW S \in SUBSET Calls
  PROVE  IsFiniteSet(S) /\ Cardinality(S) \in Nat
  BY Constants, FS_Subset, FS_CardinalityType

\* So are those that hold a slot and those that are charged for.
LEMMA FiniteShares ==
  ASSUME NEW p \in Procs
  PROVE  /\ IsFiniteSet(Holders(p)) /\ Cardinality(Holders(p)) \in Nat
         /\ IsFiniteSet(Charged(p)) /\ Cardinality(Charged(p)) \in Nat
<1>1. Holders(p) \in SUBSET Calls /\ Charged(p) \in SUBSET Calls
  BY DEF Holders, Charged
<1>2. QED
  BY <1>1, FiniteCalls

\* Moving a call that holds no slot to a step without one changes no holder.
LEMMA HoldersStay ==
  ASSUME Kinds, NEW c \in Calls, NEW s \in Steps, pc' = [pc EXCEPT ![c] = s],
         pc[c] \in Held <=> s \in Held, NEW q \in Procs
  PROVE  Holders(q)' = Holders(q)
  BY DEF Kinds, Holders

\* A call that ends leaves its slot.
LEMMA HoldersLeave ==
  ASSUME Kinds, Slots, NEW c \in Calls, pc[c] \in Held,
         NEW how \in Ended, End(c, how), Leave(Owner[c])
  PROVE  Slots'
<1> USE Constants
<1>1. ASSUME NEW q \in Procs PROVE free'[q] >= 0 /\ free'[q] + Cardinality(Holders(q)') = Limit
  <2>1. CASE q = Owner[c]
    <3>1. Holders(q)' = Holders(q) \ {c} /\ c \in Holders(q)
      BY <2>1 DEF Holders, Kinds, End, Held, Ended
    <3>2. Cardinality(Holders(q)') = Cardinality(Holders(q)) - 1 /\ Cardinality(Holders(q)) \in Nat
      <4>1. Cardinality(Holders(q) \ {c}) = Cardinality(Holders(q)) - 1
        BY <3>1, FiniteShares, FS_RemoveElement
      <4>2. QED
        BY <3>1, <4>1, FiniteShares
    <3>3. QED
      BY <2>1, <3>2 DEF Slots, Leave, Kinds
  <2>2. CASE q # Owner[c]
    <3>1. Holders(q)' = Holders(q)
      BY <2>2 DEF Holders, Kinds, End
    <3>2. QED
      BY <2>2, <3>1 DEF Slots, Leave, Kinds
  <2>3. QED
    BY <2>1, <2>2
<1>2. QED
  BY <1>1 DEF Slots

\* No step loses or makes a slot.
LEMMA SlotsKept == Kinds /\ Slots /\ [Next]_vars => Slots'
<1> SUFFICES ASSUME Kinds, Slots, [Next]_vars PROVE Slots'
  OBVIOUS
<1> USE Constants
<1>1. ASSUME UNCHANGED free, \A q \in Procs : Holders(q)' = Holders(q) PROVE Slots'
  BY <1>1 DEF Slots
<1>2. ASSUME NEW c \in Calls, Admit(c) PROVE Slots'
  <2>1. CASE Enter(c)
    <3>1. ASSUME NEW q \in Procs PROVE free'[q] >= 0 /\ free'[q] + Cardinality(Holders(q)') = Limit
      <4>1. CASE q = Owner[c]
        <5>1. Holders(q)' = Holders(q) \cup {c} /\ c \notin Holders(q)
          BY <2>1, <4>1 DEF Holders, Kinds, Enter, Held
        <5>2. Cardinality(Holders(q)') = Cardinality(Holders(q)) + 1 /\ Cardinality(Holders(q)) \in Nat
          BY <5>1, FiniteShares, FS_AddElement
        <5>3. QED
          BY <2>1, <4>1, <5>2 DEF Slots, Enter, Kinds
      <4>2. CASE q # Owner[c]
        <5>1. Holders(q)' = Holders(q)
          BY <2>1, <4>2 DEF Holders, Kinds, Enter
        <5>2. QED
          BY <2>1, <4>2, <5>1 DEF Slots, Enter, Kinds
      <4>3. QED
        BY <4>1, <4>2
    <3>2. QED
      BY <3>1 DEF Slots
  <2>2. CASE Refuse(c) \/ RejectOpen(c) \/ FindExpired(c) \/ Check(c) \/ Clear(c)
    <3>1. pc[c] \notin Held /\ UNCHANGED free
      BY <2>2 DEF Refuse, RejectOpen, FindExpired, Check, Clear, Held, process
    <3>2. PICK s \in Steps \ Held : pc' = [pc EXCEPT ![c] = s]
      <4>1. \/ pc' = [pc EXCEPT ![c] = "refused"] \/ pc' = [pc EXCEPT ![c] = "rejected"]
            \/ pc' = [pc EXCEPT ![c] = "clearing"] \/ pc' = [pc EXCEPT ![c] = "queued"]
        BY <2>2 DEF Refuse, RejectOpen, FindExpired, Check, Clear, CheckLocal, End
      <4>2. QED
        BY <4>1 DEF Held, Steps, Ended
    <3>3. QED
      BY <1>1, <3>1, <3>2, HoldersStay
  <2>3. QED
    BY <1>2, <2>1, <2>2 DEF Admit
<1>3. ASSUME NEW c \in Calls, Permit(c) \/ Finish(c) PROVE Slots'
  <2>1. pc[c] \in Held
    BY <1>3 DEF Permit, Finish, Grant, Deny, MissPermit, Answer, AnswerFails, AnswerFinal,
                RejectInput, Retry, Held
  <2>2. ASSUME NEW s \in Held, pc' = [pc EXCEPT ![c] = s], UNCHANGED free PROVE Slots'
    <3>1. s \in Steps
      BY DEF Held, Steps
    <3>2. QED
      BY <1>1, <2>1, <2>2, <3>1, HoldersStay
  <2>3. ASSUME End(c, "done"), Leave(Owner[c]) PROVE Slots'
    <3>1. "done" \in Ended
      BY DEF Ended
    <3>2. QED
      BY <2>1, <2>3, <3>1, HoldersLeave
  <2>4. CASE Grant(c) \/ Retry(c)
    BY <2>2, <2>4 DEF Grant, Retry, Held, process
  <2>5. CASE Deny(c) \/ Answer(c) \/ RejectInput(c)
    BY <2>3, <2>5 DEF Deny, Answer, RejectInput
  <2>6. CASE MissPermit(c) \/ AnswerFails(c) \/ AnswerFinal(c)
    <3>1. CASE Again(c)
      BY <2>2, <3>1 DEF Again, Held
    <3>2. CASE GiveUp(c)
      BY <2>3, <3>2 DEF GiveUp, Fail
    <3>3. CASE AnswerFinal(c)
      BY <2>3, <3>3 DEF AnswerFinal, Fail
    <3>4. QED
      BY <2>6, <3>1, <3>2, <3>3 DEF MissPermit, AnswerFails
  <2>7. QED
    BY <1>3, <2>4, <2>5, <2>6 DEF Permit, Finish
<1>4. ASSUME NEW p \in Procs, Stop(p) PROVE Slots'
  <2>1. ASSUME NEW q \in Procs PROVE free'[q] >= 0 /\ free'[q] + Cardinality(Holders(q)') = Limit
    <3>1. CASE q = p
      <4>1. Holders(q)' = {}
        BY <1>4, <3>1 DEF Stop, Holders, Held, Kinds, Ended
      <4>2. free'[q] = Limit
        BY <1>4, <3>1 DEF Stop, Kinds
      <4>3. QED
        BY <4>1, <4>2, FS_EmptySet
    <3>2. CASE q # p
      <4>1. Holders(q)' = Holders(q)
        BY <1>4, <3>2 DEF Stop, Holders, Kinds
      <4>2. QED
        BY <1>4, <3>2, <4>1 DEF Stop, Kinds, Slots
    <3>3. QED
      BY <3>1, <3>2
  <2>2. QED
    BY <2>1 DEF Slots
<1>5. ASSUME UNCHANGED <<pc, free>> PROVE Slots'
  BY <1>1, <1>5 DEF Holders
<1>6. CASE (\E p \in Procs : CommitElse(p)) \/ Tick \/ UNCHANGED vars
  BY <1>5, <1>6 DEF CommitElse, Tick, vars, process
<1>7. QED
  BY <1>2, <1>3, <1>4, <1>6 DEF Next

\* More calls in the budget never cost less.
LEMMA Monotone ==
  ASSUME NEW m \in Nat, NEW n \in Nat, m <= n
  PROVE  m * (Retries + 1) <= n * (Retries + 1)
<1>1. PICK k \in Nat : n = m + k
  <2>1. n - m \in Nat /\ n = m + (n - m)
    OBVIOUS
  <2>2. QED
    BY <2>1
<1>2. n * (Retries + 1) = m * (Retries + 1) + k * (Retries + 1)
  BY <1>1, Constants
<1>3. m * (Retries + 1) \in Nat /\ k * (Retries + 1) \in Nat
  BY Constants
<1>4. QED
  BY <1>2, <1>3

\* A call is charged for only after it was reserved, and once.
LEMMA ReservedKept == Kinds /\ Rounds /\ Reserved /\ [Next]_vars => Reserved'
<1> SUFFICES ASSUME Kinds, Rounds, Reserved, [Next]_vars PROVE Reserved'
  OBVIOUS
<1> USE Constants
<1>1. ASSUME UNCHANGED reserved, \A q \in Procs : Charged(q)' \subseteq Charged(q) PROVE Reserved'
  <2>1. ASSUME NEW q \in Procs PROVE Cardinality(Charged(q)') <= reserved[q]
    <3>1. Cardinality(Charged(q)') <= Cardinality(Charged(q))
      BY <1>1, FiniteCalls, FS_Subset DEF Charged
    <3>2. Cardinality(Charged(q)') \in Nat /\ Cardinality(Charged(q)) \in Nat
      BY FiniteCalls, <1>1 DEF Charged
    <3>3. QED
      BY <3>1, <3>2 DEF Reserved, Kinds
  <2>2. QED
    BY <1>1, <2>1 DEF Reserved, WorstCaseUnits
<1>2. ASSUME NEW c \in Calls, NEW s, pc' = [pc EXCEPT ![c] = s], UNCHANGED <<reserved, paid>>,
             pc[c] \in Held \cup {"clearing", "queued"} \/ s \notin Held \cup {"clearing", "queued"}
      PROVE Reserved'
  BY <1>1, <1>2 DEF Charged, Kinds
<1>3. ASSUME NEW c \in Calls, WithinBudget(Owner[c]), Reserve(c), UNCHANGED paid,
             NEW s, pc' = [pc EXCEPT ![c] = s]
      PROVE Reserved'
  <2>1. ASSUME NEW q \in Procs
        PROVE  /\ Cardinality(Charged(q)') <= reserved'[q]
               /\ MaxUnits >= 0 => WorstCaseUnits(reserved'[q]) <= MaxUnits
    <3>1. CASE q = Owner[c]
      <4>1. Charged(q)' \subseteq Charged(q) \cup {c}
        BY <1>3 DEF Charged, Kinds
      <4>2. IsFiniteSet(Charged(q)) /\ Cardinality(Charged(q)) \in Nat
        BY FiniteShares
      <4>3. /\ IsFiniteSet(Charged(q) \cup {c})
            /\ Cardinality(Charged(q) \cup {c}) <= Cardinality(Charged(q)) + 1
            /\ Cardinality(Charged(q) \cup {c}) \in Nat
        <5>1. /\ IsFiniteSet(Charged(q) \cup {c})
              /\ \/ Cardinality(Charged(q) \cup {c}) = Cardinality(Charged(q))
                 \/ Cardinality(Charged(q) \cup {c}) = Cardinality(Charged(q)) + 1
          <6>1. IsFiniteSet(Charged(q) \cup {c})
            BY <4>2, FS_AddElement
          <6>2. CASE c \in Charged(q)
            BY <4>2, <6>1, <6>2, FS_AddElement
          <6>3. CASE c \notin Charged(q)
            BY <4>2, <6>1, <6>3, FS_AddElement
          <6>4. QED
            BY <6>1, <6>2, <6>3
        <5>2. QED
          BY <4>2, <5>1
      <4>4. Cardinality(Charged(q)') <= Cardinality(Charged(q) \cup {c})
            /\ Cardinality(Charged(q)') \in Nat
        BY <4>1, <4>3, FS_Subset, FS_CardinalityType
      <4>5. reserved'[q] = reserved[q] + 1
        BY <1>3, <3>1 DEF Reserve, Kinds
      <4>6. QED
        BY <1>3, <3>1, <4>2, <4>3, <4>4, <4>5 DEF WithinBudget, Reserved, Kinds
    <3>2. CASE q # Owner[c]
      <4>1. Charged(q)' = Charged(q)
        BY <1>3, <3>2 DEF Charged, Kinds
      <4>2. reserved'[q] = reserved[q]
        BY <1>3, <3>2 DEF Reserve, Kinds
      <4>3. QED
        BY <4>1, <4>2 DEF Reserved
    <3>3. QED
      BY <3>1, <3>2
  <2>2. QED
    BY <2>1 DEF Reserved, WorstCaseUnits
<1>4. ASSUME NEW c \in Calls, Admit(c) PROVE Reserved'
  <2>1. CASE Refuse(c)
    BY <1>2, <2>1 DEF Refuse, End, Held, process
  <2>2. CASE RejectOpen(c) \/ FindExpired(c) \/ Check(c)
    BY <1>3, <2>2 DEF RejectOpen, FindExpired, Check, CheckLocal, End
  <2>3. CASE Clear(c)
    BY <1>2, <2>3 DEF Clear, CheckLocal, End, Held
  <2>4. CASE Enter(c)
    BY <1>2, <2>4 DEF Enter
  <2>5. QED
    BY <1>4, <2>1, <2>2, <2>3, <2>4 DEF Admit
<1>5. ASSUME NEW c \in Calls, Permit(c) \/ Finish(c) PROVE Reserved'
  <2>1. CASE Grant(c)
    <3>1. ASSUME NEW q \in Procs PROVE Charged(q)' \subseteq Charged(q)
      BY <2>1 DEF Grant, Charged, Kinds, Held
    <3>2. QED
      BY <1>1, <2>1, <3>1 DEF Grant, process
  <2>2. CASE Deny(c) \/ Answer(c) \/ RejectInput(c) \/ Retry(c)
    BY <1>2, <2>2 DEF Deny, Answer, RejectInput, Retry, End, Held, process
  <2>3. CASE MissPermit(c) \/ AnswerFails(c) \/ AnswerFinal(c)
    BY <1>2, <2>3 DEF MissPermit, AnswerFails, AnswerFinal, Again, GiveUp, Fail, End, Held
  <2>4. QED
    BY <1>5, <2>1, <2>2, <2>3 DEF Permit, Finish
<1>6. ASSUME NEW p \in Procs, Stop(p) PROVE Reserved'
  <2>1. ASSUME NEW q \in Procs PROVE Charged(q)' \subseteq Charged(q)
    BY <1>6 DEF Stop, Charged, Kinds, Held
  <2>2. QED
    BY <1>1, <1>6, <2>1 DEF Stop
<1>7. ASSUME UNCHANGED <<pc, paid, reserved>> PROVE Reserved'
  BY <1>1, <1>7 DEF Charged
<1>8. CASE (\E p \in Procs : CommitElse(p)) \/ Tick \/ UNCHANGED vars
  BY <1>7, <1>8 DEF CommitElse, Tick, vars, process
<1>9. QED
  BY <1>4, <1>5, <1>6, <1>8 DEF Next
----
\* The first state.
LEMMA ExecInit == Init => ExecInv
<1> SUFFICES ASSUME Init PROVE ExecInv
  OBVIOUS
<1> USE Constants DEF Init, Closed
<1>1. Kinds /\ Rounds /\ Causes /\ ThresholdOpens
  BY DEF Kinds, Rounds, Causes, ThresholdOpens, State, Steps, Held
<1>2. ASSUME NEW p \in Procs PROVE Holders(p) = {} /\ Charged(p) = {}
  BY DEF Holders, Charged, Held
<1>3. Slots
  <2>1. ASSUME NEW p \in Procs PROVE free[p] = Limit /\ Cardinality(Holders(p)) = 0
    BY <1>2, FS_EmptySet
  <2>2. QED
    BY <2>1 DEF Slots
<1>4. WorstCaseUnits(0) = 0
  BY DEF WorstCaseUnits
<1>5. Reserved
  BY <1>2, <1>4, FS_EmptySet DEF Reserved
<1>6. QED
  BY <1>1, <1>3, <1>5 DEF ExecInv

\* The invariant holds throughout.
LEMMA ExecAlways == Spec => []ExecInv
<1>1. ExecInv /\ [Next]_vars => ExecInv'
  BY KindsKept, RoundsKept, SlotsKept, ReservedKept, CausesKept, ThresholdKept DEF ExecInv
<1>2. QED
  BY ExecInit, <1>1, PTL DEF Spec

\* Every reachable state is well typed; no bulkhead has more or fewer slots than
\* its limit says.
THEOREM ExecutorTyped == Spec => []TypeOK
<1>1. ASSUME ExecInv PROVE TypeOK
  <2>1. free \in [Procs -> 0..Limit]
    <3>1. ASSUME NEW p \in Procs PROVE free[p] \in 0..Limit
      BY <1>1, Constants, FiniteShares DEF ExecInv, Kinds, Slots
    <3>2. QED
      BY <1>1, <3>1 DEF ExecInv, Kinds
  <2>2. QED
    BY <1>1, <2>1, Constants DEF ExecInv, Kinds, TypeOK
<1>2. QED
  BY <1>1, ExecAlways, PTL

\* Whatever is tried again and however calls interleave, a process never pays
\* for more attempts than its ceiling of billable units.
THEOREM PaidStaysInBudget == Spec => []PaidWithinBudget
<1>1. ASSUME ExecInv, MaxUnits >= 0, NEW p \in Procs PROVE Cardinality(Paid(p)) <= MaxUnits
  <2> DEFINE R == 1..(Retries + 1)
  <2>1. Paid(p) \subseteq Charged(p) \X R
    <3>1. ASSUME NEW attempt \in Paid(p) PROVE attempt \in Charged(p) \X R
      <4>1. PICK c \in Calls, n \in R : attempt = <<c, n>>
        BY <1>1 DEF Paid, ExecInv, Kinds
      <4>2. c \in Charged(p)
        BY <4>1 DEF Paid, Charged
      <4>3. QED
        BY <4>1, <4>2
    <3>2. QED
      BY <3>1
  <2>2. IsFiniteSet(Charged(p)) /\ Cardinality(Charged(p)) \in Nat
    BY FiniteShares
  <2>3. IsFiniteSet(R) /\ Cardinality(R) = Retries + 1
    BY Constants, FS_Interval
  <2>4. /\ IsFiniteSet(Charged(p) \X R)
        /\ Cardinality(Charged(p) \X R) = Cardinality(Charged(p)) * (Retries + 1)
    BY <2>2, <2>3, FS_Product
  <2>5. Cardinality(Paid(p)) <= Cardinality(Charged(p)) * (Retries + 1)
        /\ Cardinality(Paid(p)) \in Nat
    BY <2>1, <2>4, FS_Subset, FS_CardinalityType
  <2>6. Cardinality(Charged(p)) <= reserved[p] /\ reserved[p] \in Nat
    BY <1>1 DEF ExecInv, Reserved, Kinds
  <2>7. Cardinality(Charged(p)) * (Retries + 1) <= reserved[p] * (Retries + 1)
    BY <2>2, <2>6, Monotone
  <2>8. reserved[p] * (Retries + 1) <= MaxUnits
    BY <1>1 DEF ExecInv, Reserved, WorstCaseUnits
  <2>9. Cardinality(Charged(p)) * (Retries + 1) \in Int /\ reserved[p] * (Retries + 1) \in Int
    BY <2>2, <2>6, Constants
  <2>10. QED
    BY <2>5, <2>7, <2>8, <2>9, Constants
<1>2. ExecInv => PaidWithinBudget
  BY <1>1 DEF PaidWithinBudget
<1>3. QED
  BY <1>2, ExecAlways, PTL

\* However successes, failures, cooldowns and clears of several processes interleave,
\* no circuit is closed that has counted as many failures as open it.
THEOREM EnoughFailuresOpen == Spec => []ThresholdOpens
<1>1. ExecInv => ThresholdOpens
  BY DEF ExecInv
<1>2. QED
  BY <1>1, ExecAlways, PTL

\* A rejection always has a failure less than a cooldown ago for its cause.
THEOREM RejectionsHaveCause == Spec => RejectedForCause
<1> DEFINE Justified == \A c \in Calls :
             pc[c] # "rejected" /\ pc'[c] = "rejected" => now < lastFailure + Cooldown
<1>1. ASSUME ExecInv, [Next]_vars, NEW c \in Calls, pc[c] # "rejected", pc'[c] = "rejected"
      PROVE  now < lastFailure + Cooldown
  <2> USE <1>1, Constants DEF ExecInv, Kinds
  <2>1. ASSUME NEW d \in Calls, NEW s, pc' = [pc EXCEPT ![d] = s] PROVE d = c /\ s = "rejected"
    BY <2>1
  <2>2. ASSUME NEW d \in Calls, Admit(d) PROVE now < lastFailure + Cooldown
    <3>1. CASE RejectOpen(d)
      BY <3>1 DEF RejectOpen, Causes, State
    <3>2. CASE Check(d) \/ Clear(d)
      <4>1. CASE LocallyOpen(Owner[d])
        BY <4>1 DEF LocallyOpen, Causes, State
      <4>2. CASE ~LocallyOpen(Owner[d])
        BY <2>1, <3>2, <4>2 DEF Check, Clear, CheckLocal
      <4>3. QED
        BY <4>1, <4>2
    <3>3. CASE Refuse(d) \/ FindExpired(d) \/ Enter(d)
      BY <2>1, <3>3 DEF Refuse, FindExpired, Enter, End
    <3>4. QED
      BY <2>2, <3>1, <3>2, <3>3 DEF Admit
  <2>3. ASSUME NEW d \in Calls, Permit(d) \/ Finish(d) PROVE FALSE
    BY <2>1, <2>3 DEF Permit, Finish, Grant, Deny, MissPermit, Answer, AnswerFails, AnswerFinal,
                      RejectInput, Retry, Again, GiveUp, Fail, End
  <2>4. ASSUME NEW p \in Procs, CommitElse(p) \/ Stop(p) PROVE FALSE
    BY <2>4 DEF CommitElse, Stop
  <2>5. ~(Tick \/ UNCHANGED vars)
    BY DEF Tick, vars
  <2>6. QED
    BY <2>2, <2>3, <2>4, <2>5 DEF Next
<1>2. ExecInv /\ [Next]_vars => [Justified]_vars
  BY <1>1
<1>3. QED
  BY <1>2, ExecAlways, PTL DEF Spec, RejectedForCause
====
