---- MODULE CrawlRunProofs ----
(***************************************************************************)
(* The crawl, for every graph of domains, limit and number of processes:   *)
(* its state is well formed, it uses its queue as RunTasks specifies it, a *)
(* task succeeds only after its domain was processed, the cross-run cache  *)
(* gets a domain's own children only, no child is lost, and no domain is   *)
(* mapped further from the root than the cap.  With one process at a time  *)
(* its status is honest and its order breadth first.                       *)
(***************************************************************************)
EXTENDS CrawlRun, TaskTableProofs

Items == [key : Keys, attempt : 1..MaxAttempts]

\* What TypeOK says of the committed rows; what is collected stays finite, so
\* that a batch of pushes is one.
DatabaseOK ==
  /\ TableOK(tasks, Keys, {})
  /\ run \in {"none", "running"} \cup Verdicts
  /\ nodes \subseteq Domains /\ IsFiniteSet(nodes)
  /\ others \subseteq UNION {Attributes[d] : d \in Domains}
  /\ DOMAIN lineage \subseteq Domains \X Domains /\ lineage \in [DOMAIN lineage -> Nat]
  /\ DOMAIN processed \subseteq Domains /\ processed \in [DOMAIN processed -> Nat]
  /\ DOMAIN cache \subseteq Domains /\ cache \in [DOMAIN cache -> SUBSET Domains]
  /\ \A d \in DOMAIN cache : IsFiniteSet(cache[d])
  /\ degraded \in BOOLEAN

\* What TypeOK says of the processes' memory.
MemoryOK ==
  /\ pc \in [Procs -> Steps]
  /\ item \in [Procs -> Items \cup {NoItem}]
  /\ enqueued \in [Procs -> SUBSET Keys]
  /\ todo \in [Procs -> Seq(Domains)]
  /\ collected \in [Procs -> SUBSET Domains]
  /\ \A p \in Procs : IsFiniteSet(collected[p])

HistoryOK == legacy \subseteq Domains /\ stops \in 0..MaxStops

\* The steps at which a process has a task in hand.
AtWork == {"check", "gather", "subdomains", "pivots", "acquisitions", "cache",
           "observations", "replay", "replay_lineage", "replay_push", "mark", "complete"}

Control ==
  \A p \in Procs : /\ (item[p] # NoItem) <=> (pc[p] \in AtWork)
                   /\ (pc[p] \in {"replay_lineage", "replay_push"}) => (todo[p] # <<>>)

WellFormed == DatabaseOK /\ MemoryOK /\ HistoryOK /\ Control
----
\* A process at work knows its domain and its depth.
LEMMA ItemAtWork ==
  ASSUME MemoryOK, Control, NEW p \in Procs, pc[p] \in AtWork
  PROVE  /\ item[p] \in Items /\ item[p].key \in Keys
         /\ DomainOf(p) \in Domains /\ DepthOf(p) \in Nat
         /\ item[p].key = <<DomainOf(p), DepthOf(p)>>
<1>1. item[p] \in Items
  BY DEF MemoryOK, Control
<1>2. QED
  BY <1>1 DEF Items, Keys, DomainOf, DepthOf

\* The children a cap and a ceiling admit are some of those a push is tried for.
LEMMA AdmittedSome ==
  ASSUME NEW S, NEW ks \in Admitted(S)
  PROVE  ks \subseteq S
BY DEF Admitted

\* A batch of pushes adds well-formed pending tasks and forgets none.
LEMMA PushTable ==
  ASSUME DatabaseOK, MemoryOK, Control, NEW p \in Procs, pc[p] \in AtWork,
         NEW children \in SUBSET Domains, IsFiniteSet(children),
         PushChildren(p, children)
  PROVE  \E keys \in SUBSET Keys :
           /\ IsFiniteSet(keys)
           /\ tasks' = EnqueueRunTask(tasks, keys)
           /\ enqueued' = [enqueued EXCEPT ![p] = @ \cup keys]
           /\ TableOK(tasks', Keys, {}) /\ Grows(tasks, tasks')
<1> DEFINE depth == DepthOf(p) + 1
           wanted == IF WithinCap(depth) THEN NewChildren(p, children) ELSE {}
           all == {<<c, depth>> : c \in wanted}
<1>1. PICK keys \in Admitted(all) :
        /\ tasks' = EnqueueRunTask(tasks, keys)
        /\ enqueued' = [enqueued EXCEPT ![p] = @ \cup keys]
  BY DEF PushChildren
<1>2. depth \in Nat
  BY ItemAtWork
<1>3. wanted \subseteq children
  BY DEF NewChildren
<1>4. keys \subseteq children \X {depth}
  BY <1>1, <1>3, AdmittedSome
<1>5. IsFiniteSet(children \X {depth})
  BY FS_Singleton, FS_Product
<1>6. IsFiniteSet(keys)
  BY <1>4, <1>5, FS_Subset
<1>7. keys \in SUBSET Keys
  BY <1>2, <1>4 DEF Keys
<1>8. TableOK(tasks', Keys, {}) /\ Grows(tasks, tasks')
  BY <1>1, <1>6, <1>7, EnqueueTable DEF DatabaseOK
<1>9. QED
  BY <1>1, <1>6, <1>7, <1>8

\* A batch's lineage is added to the one there is.
LEMMA LineageTable ==
  ASSUME DatabaseOK, MemoryOK, Control, NEW p \in Procs, pc[p] \in AtWork,
         NEW children \in SUBSET Domains, AddLineage(p, children)
  PROVE  /\ DOMAIN lineage' \subseteq Domains \X Domains
         /\ lineage' \in [DOMAIN lineage' -> Nat]
         /\ DOMAIN lineage \subseteq DOMAIN lineage'
         /\ \A c \in children : <<c, DomainOf(p)>> \in DOMAIN lineage'
<1> DEFINE depth == DepthOf(p) + 1
           edges == children \X {DomainOf(p)}
<1>1. depth \in Nat /\ DomainOf(p) \in Domains
  BY ItemAtWork
<1>2. lineage' = InsertOrIgnore(lineage, [e \in edges |-> depth])
  BY DEF AddLineage
<1>3. DOMAIN lineage' = DOMAIN lineage \cup edges
  BY <1>2 DEF InsertOrIgnore
<1>4. \A e \in DOMAIN lineage' : lineage'[e] \in Nat
  BY <1>1, <1>2 DEF InsertOrIgnore, DatabaseOK
<1>5. lineage' \in [DOMAIN lineage' -> Nat]
  BY <1>2, <1>3, <1>4 DEF InsertOrIgnore
<1>6. QED
  BY <1>1, <1>3, <1>5 DEF DatabaseOK

\* The nodes of other types a step adds are attributes of the domain at hand.
LEMMA AttributesKept ==
  ASSUME DatabaseOK, MemoryOK, Control, NEW p \in Procs, pc[p] \in AtWork, AddAttributes(p)
  PROVE  others' \subseteq UNION {Attributes[d] : d \in Domains}
<1>1. DomainOf(p) \in Domains
  BY ItemAtWork
<1>2. PICK found \in SUBSET Attributes[DomainOf(p)] : others' = others \cup found
  BY DEF AddAttributes
<1>3. QED
  BY <1>1, <1>2 DEF DatabaseOK

\* A list of a finite set of domains is a sequence of domains.
LEMMA ListingType ==
  ASSUME NEW S \in SUBSET Domains, IsFiniteSet(S), NEW list \in Listings(S)
  PROVE  list \in Seq(Domains)
<1>1. Cardinality(S) \in Nat
  BY FS_CardinalityType
<1>2. list \in [1..Cardinality(S) -> Domains]
  BY DEF Listings
<1>3. QED
  BY <1>1, <1>2

\* What a search finds is some of a finite answer.
LEMMA SearchedSome ==
  ASSUME MemoryOK, Control, NEW p \in Procs, pc[p] \in AtWork,
         NEW f \in {Subdomains, ReverseWhois, Acquisitions, Redirects},
         NEW found \in SUBSET f[DomainOf(p)]
  PROVE  found \in SUBSET Domains /\ IsFiniteSet(found)
<1>1. DomainOf(p) \in Domains
  BY ItemAtWork
<1>2. f[DomainOf(p)] \in SUBSET Domains /\ IsFiniteSet(f[DomainOf(p)])
  BY <1>1, CrawlAssumption
<1>3. QED
  BY <1>2, FS_Subset
----
\* The key of one task of depth 0.
LEMMA OneKey ==
  ASSUME NEW d \in Domains
  PROVE  {<<d, 0>>} \in SUBSET Keys /\ IsFiniteSet({<<d, 0>>})
<1>1. <<d, 0>> \in Keys
  BY DEF Keys
<1>2. IsFiniteSet({<<d, 0>>})
  BY FS_Singleton
<1>3. QED
  BY <1>1, <1>2

\* Starting and resuming keep the state well formed.
LEMMA StartStep ==
  ASSUME WellFormed, NEW p \in Procs,
         CreateRun(p) \/ SeedNode(p) \/ SeedTask(p) \/ Resume(p) \/ ResumePending(p)
         \/ ResumeElsewhere(p) \/ SeedLegacy(p) \/ StartLoop(p)
  PROVE  WellFormed'
<1> USE DEF WellFormed
<1>1. CASE CreateRun(p)
  <2>1. DatabaseOK'
    BY <1>1 DEF CreateRun, DatabaseOK, graph
  <2>2. MemoryOK' /\ Control' /\ HistoryOK'
    BY <1>1 DEF CreateRun, Goto, MemoryOK, Control, HistoryOK, AtWork, Steps, history
  <2>3. QED
    BY <2>1, <2>2
<1>2. CASE SeedNode(p)
  <2>1. nodes' = nodes \cup {Root} /\ nodes' \subseteq Domains /\ IsFiniteSet(nodes')
    BY <1>2, CrawlAssumption, FS_AddElement DEF SeedNode, DatabaseOK
  <2>2. DatabaseOK'
    BY <1>2, <2>1 DEF SeedNode, DatabaseOK
  <2>3. MemoryOK' /\ Control' /\ HistoryOK'
    BY <1>2 DEF SeedNode, Goto, MemoryOK, Control, HistoryOK, AtWork, Steps, history
  <2>4. QED
    BY <2>2, <2>3
<1>3. CASE SeedTask(p)
  <2>1. {<<Root, 0>>} \in SUBSET Keys /\ IsFiniteSet({<<Root, 0>>})
    BY CrawlAssumption, OneKey
  <2>2. DatabaseOK'
    BY <1>3, <2>1, EnqueueTable DEF SeedTask, DatabaseOK, graph
  <2>3. MemoryOK' /\ Control' /\ HistoryOK'
    BY <1>3, <2>1 DEF SeedTask, Goto, MemoryOK, Control, HistoryOK, AtWork, Steps, history
  <2>4. QED
    BY <2>2, <2>3
<1>4. CASE Resume(p)
  <2>1. DatabaseOK'
    BY <1>4, RequeueTable DEF Resume, DatabaseOK, graph
  <2>2. MemoryOK' /\ Control' /\ HistoryOK'
    BY <1>4 DEF Resume, Goto, MemoryOK, Control, HistoryOK, AtWork, Steps, history
  <2>3. QED
    BY <2>1, <2>2
<1>5. CASE ResumePending(p)
  <2>1. PICK pending \in SUBSET nodes : \E list \in Listings(pending) : todo' = [todo EXCEPT ![p] = list]
    BY <1>5 DEF ResumePending, ResumableQueue
  <2>2. PICK list \in Seq(Domains) : todo' = [todo EXCEPT ![p] = list]
    <3>1. pending \in SUBSET Domains /\ IsFiniteSet(pending)
      BY FS_Subset DEF DatabaseOK
    <3>2. QED
      BY <2>1, <3>1, ListingType
  <2>3. DatabaseOK'
    BY <1>5, CrawlAssumption, FS_AddElement DEF ResumePending, DatabaseOK
  <2>4. MemoryOK' /\ Control' /\ HistoryOK'
    BY <1>5, <2>2 DEF ResumePending, Goto, MemoryOK, Control, HistoryOK, AtWork, Steps, history
  <2>5. QED
    BY <2>3, <2>4
<1>6. CASE ResumeElsewhere(p)
  <2>1. DatabaseOK'
    BY <1>6 DEF ResumeElsewhere, DatabaseOK, database, graph
  <2>2. MemoryOK' /\ Control' /\ HistoryOK'
    BY <1>6 DEF ResumeElsewhere, Goto, MemoryOK, Control, HistoryOK, AtWork, Steps, database, history
  <2>3. QED
    BY <2>1, <2>2
<1>7. CASE SeedLegacy(p)
  <2>1. Head(todo[p]) \in Domains /\ Tail(todo[p]) \in Seq(Domains)
    BY <1>7 DEF SeedLegacy, MemoryOK
  <2>2. {<<Head(todo[p]), 0>>} \in SUBSET Keys /\ IsFiniteSet({<<Head(todo[p]), 0>>})
    BY <2>1, OneKey
  <2>3. DatabaseOK'
    BY <1>7, <2>2, EnqueueTable DEF SeedLegacy, DatabaseOK, graph
  <2>4. MemoryOK' /\ Control' /\ HistoryOK'
    BY <1>7, <2>1, <2>2 DEF SeedLegacy, MemoryOK, Control, HistoryOK, AtWork
  <2>5. QED
    BY <2>3, <2>4
<1>8. CASE StartLoop(p)
  <2>1. DatabaseOK'
    BY <1>8 DEF StartLoop, DatabaseOK, database, graph
  <2>2. MemoryOK' /\ Control' /\ HistoryOK'
    BY <1>8 DEF StartLoop, Goto, MemoryOK, Control, HistoryOK, AtWork, Steps, database, history
  <2>3. QED
    BY <2>1, <2>2
<1>9. QED
  BY <1>1, <1>2, <1>3, <1>4, <1>5, <1>6, <1>7, <1>8

\* A claim hands over a task of the run, with an attempt within the limit.
LEMMA PopStep ==
  ASSUME WellFormed, NEW p \in Procs, Pop(p)
  PROVE  /\ WellFormed' /\ Grows(tasks, tasks')
         /\ \E k \in NextTasks(SweepExpired(tasks)) :
              /\ item' = [item EXCEPT ![p] =
                            [key |-> k, attempt |-> ClaimRow(SweepExpired(tasks)[k]).attempts]]
              /\ tasks' = [SweepExpired(tasks) EXCEPT ![k] = ClaimRow(SweepExpired(tasks)[k])]
<1> DEFINE t == SweepExpired(tasks)
<1>1. PICK k \in NextTasks(t) :
        /\ tasks' = [t EXCEPT ![k] = ClaimRow(t[k])]
        /\ item' = [item EXCEPT ![p] = [key |-> k, attempt |-> ClaimRow(t[k]).attempts]]
  BY DEF Pop
<1>2. TableOK(t, Keys, {}) /\ Grows(tasks, t) /\ DOMAIN t = DOMAIN tasks
  BY SweepTable DEF WellFormed, DatabaseOK
<1>3. k \in RunnableTasks(t) /\ k \in DOMAIN t
  BY DEF NextTasks, RunnableTasks
<1> HIDE DEF t
<1>4. /\ TableOK(tasks', Keys, {}) /\ Grows(t, tasks') /\ DOMAIN tasks' = DOMAIN t
      /\ ClaimRow(t[k]).attempts \in 1..MaxAttempts
  BY <1>1, <1>2, <1>3, ClaimTable
<1>5. k \in Keys
  BY <1>2, <1>3 DEF TableOK, Table
<1>6. DatabaseOK'
  BY <1>4 DEF WellFormed, Pop, DatabaseOK, graph
<1>7. [key |-> k, attempt |-> ClaimRow(t[k]).attempts] \in Items
  BY <1>4, <1>5 DEF Items
<1>8. [key |-> k, attempt |-> ClaimRow(t[k]).attempts] # NoItem
  BY <1>4 DEF NoItem
<1>9. MemoryOK' /\ Control' /\ HistoryOK'
  BY <1>1, <1>7, <1>8 DEF WellFormed, Pop, Goto, MemoryOK, Control, HistoryOK, AtWork, Steps, history
<1>10. Grows(tasks, tasks')
  BY <1>2, <1>4, GrowsOn DEF WellFormed, DatabaseOK
<1>11. QED
  BY <1>1, <1>6, <1>9, <1>10 DEF WellFormed, t

\* The loop's own steps keep the state well formed.
LEMMA LoopStep ==
  ASSUME WellFormed, NEW p \in Procs,
         LoopTest(p) \/ PopNothing(p) \/ Check(p) \/ CompleteTask(p)
         \/ JudgeRun(p) \/ MarkRunCompleted(p) \/ Stop(p)
  PROVE  WellFormed'
<1> USE DEF WellFormed
<1>1. CASE LoopTest(p)
  BY <1>1 DEF LoopTest, Goto, DatabaseOK, MemoryOK, HistoryOK, Control, AtWork, Steps, Verdicts,
              database, graph, history
<1>2. CASE PopNothing(p)
  <2>1. DatabaseOK'
    BY <1>2, SweepTable DEF PopNothing, DatabaseOK, graph
  <2>2. MemoryOK' /\ Control' /\ HistoryOK'
    BY <1>2, FS_EmptySet
       DEF PopNothing, Forget, Goto, MemoryOK, Control, HistoryOK, AtWork, Steps
  <2>3. QED
    BY <2>1, <2>2
<1>3. CASE Check(p)
  <2>1. DatabaseOK' /\ HistoryOK'
    BY <1>3 DEF Check, DatabaseOK, HistoryOK, database, graph, history
  <2>2. ASSUME NEW list \in Seq(Domains), todo' = [todo EXCEPT ![p] = list], Goto(p, "observations")
        PROVE  MemoryOK' /\ Control'
    BY <1>3, <2>2 DEF Check, Goto, MemoryOK, Control, AtWork, Steps
  <2>3. ASSUME NEW step \in {"complete", "gather"}, Goto(p, step), UNCHANGED todo
        PROVE  MemoryOK' /\ Control'
    BY <1>3, <2>3 DEF Check, Goto, MemoryOK, Control, AtWork, Steps
  <2>4. CASE DomainOf(p) \in DOMAIN cache
    <3>1. cache[DomainOf(p)] \in SUBSET Domains /\ IsFiniteSet(cache[DomainOf(p)])
      BY <2>4 DEF DatabaseOK
    <3>2. \A list \in Listings(cache[DomainOf(p)]) : list \in Seq(Domains)
      BY <3>1, ListingType
    <3>3. QED
      BY <1>3, <2>1, <2>2, <2>3, <3>2 DEF Check
  <2>5. CASE DomainOf(p) \notin DOMAIN cache
    BY <1>3, <2>1, <2>3, <2>5 DEF Check
  <2>6. QED
    BY <2>4, <2>5
<1>4. CASE CompleteTask(p)
  <2>1. DatabaseOK'
    <3>1. CASE item[p].key \in DOMAIN tasks
      BY <1>4, <3>1, CompleteTable DEF CompleteTask, DatabaseOK, graph
    <3>2. CASE item[p].key \notin DOMAIN tasks
      <4>1. CompleteRunTask(tasks, item[p].key) = tasks
        BY <3>2 DEF CompleteRunTask, DatabaseOK, TableOK, Table
      <4>2. QED
        BY <1>4, <4>1 DEF CompleteTask, DatabaseOK, graph
    <3>3. QED
      BY <3>1, <3>2
  <2>2. MemoryOK' /\ Control' /\ HistoryOK'
    BY <1>4, FS_EmptySet
       DEF CompleteTask, Goto, MemoryOK, Control, HistoryOK, AtWork, Steps, history
  <2>3. QED
    BY <2>1, <2>2
<1>5. CASE JudgeRun(p)
  BY <1>5 DEF JudgeRun, Goto, DatabaseOK, MemoryOK, HistoryOK, Control, AtWork, Steps, Verdicts,
              database, graph, history
<1>6. CASE MarkRunCompleted(p)
  <2>1. DatabaseOK'
    BY <1>6 DEF MarkRunCompleted, DatabaseOK, graph
  <2>2. MemoryOK' /\ Control' /\ HistoryOK'
    BY <1>6, FS_EmptySet
       DEF MarkRunCompleted, Forget, Goto, MemoryOK, Control, HistoryOK, AtWork, Steps, Verdicts
  <2>3. QED
    BY <2>1, <2>2
<1>7. CASE Stop(p)
  <2>1. DatabaseOK'
    BY <1>7 DEF Stop, DatabaseOK, database, graph
  <2>2. MemoryOK' /\ Control'
    BY <1>7, FS_EmptySet DEF Stop, Forget, Goto, MemoryOK, Control, AtWork, Steps
  <2>3. HistoryOK'
    BY <1>7, CrawlAssumption DEF Stop, HistoryOK
  <2>4. QED
    BY <2>1, <2>2, <2>3
<1>8. QED
  BY <1>1, <1>2, <1>3, <1>4, <1>5, <1>6, <1>7

\* A stage of the expansion keeps the state well formed: its batch, and the
\* move to the next stage.
LEMMA StageStep ==
  ASSUME WellFormed, NEW p \in Procs, pc[p] \in AtWork,
         NEW children \in SUBSET Domains, IsFiniteSet(children), AddChildren(p, children),
         NEW step \in AtWork, step \notin {"replay_lineage", "replay_push"}, Goto(p, step),
         degraded' \in BOOLEAN, others' \subseteq UNION {Attributes[d] : d \in Domains},
         UNCHANGED <<run, processed, cache, item, todo, history>>
  PROVE  WellFormed'
<1> USE DEF WellFormed
<1>1. PICK keys \in SUBSET Keys :
        /\ enqueued' = [enqueued EXCEPT ![p] = @ \cup keys]
        /\ TableOK(tasks', Keys, {})
  BY PushTable DEF AddChildren
<1>2. /\ DOMAIN lineage' \subseteq Domains \X Domains
      /\ lineage' \in [DOMAIN lineage' -> Nat]
  BY LineageTable DEF AddChildren
<1>3. DatabaseOK'
  <2>1. nodes' \subseteq Domains /\ IsFiniteSet(nodes')
    BY FS_Union DEF AddChildren, DatabaseOK
  <2>2. QED
    BY <1>1, <1>2, <2>1 DEF DatabaseOK
<1>4. /\ collected' = [collected EXCEPT ![p] = @ \cup children]
      /\ IsFiniteSet(collected[p] \cup children)
  BY FS_Union DEF AddChildren, MemoryOK
<1>5. MemoryOK'
  <2>1. step \in Steps
    BY DEF AtWork, Steps
  <2>2. QED
    BY <1>1, <1>4, <2>1 DEF MemoryOK, Goto
<1>6. Control' /\ HistoryOK'
  BY DEF Control, HistoryOK, MemoryOK, Goto, history
<1>7. QED
  BY <1>3, <1>5, <1>6

\* Mapping a domain keeps the state well formed.
LEMMA ExpandStep ==
  ASSUME WellFormed, NEW p \in Procs,
         Gather(p) \/ EnumerateSubdomains(p) \/ ReverseWhoisBatch(p) \/ ExpandAcquisitions(p)
         \/ UpsertDomainCache(p) \/ MarkDomainProcessed(p)
  PROVE  WellFormed'
<1> USE DEF WellFormed
<1>1. CASE Gather(p)
  <2>1. PICK seen \in SUBSET Redirects[DomainOf(p)] : nodes' = nodes \cup seen
    BY <1>1 DEF Gather
  <2>2. seen \in SUBSET Domains /\ IsFiniteSet(seen)
    BY <1>1, SearchedSome DEF Gather, AtWork
  <2>3. IsFiniteSet(nodes')
    BY <2>1, <2>2, FS_Union DEF DatabaseOK
  <2>4. DatabaseOK'
    <3>1. others' \subseteq UNION {Attributes[d] : d \in Domains}
      BY <1>1, AttributesKept DEF Gather, AtWork
    <3>2. QED
      BY <1>1, <2>1, <2>2, <2>3, <3>1 DEF Gather, DatabaseOK
  <2>5. MemoryOK' /\ Control' /\ HistoryOK'
    BY <1>1 DEF Gather, Goto, MemoryOK, Control, HistoryOK, AtWork, Steps, history
  <2>6. QED
    BY <2>4, <2>5
<1>2. CASE EnumerateSubdomains(p)
  <2>1. PICK found \in SUBSET Subdomains[DomainOf(p)] : AddChildren(p, found)
    BY <1>2 DEF EnumerateSubdomains, Searched
  <2>2. found \in SUBSET Domains /\ IsFiniteSet(found)
    BY <1>2, SearchedSome DEF EnumerateSubdomains, AtWork
  <2>3. pc[p] \in AtWork /\ degraded' \in BOOLEAN
    BY <1>2 DEF EnumerateSubdomains, AtWork, DatabaseOK
  <2>4. "pivots" \in AtWork
    BY DEF AtWork
  <2>5. Goto(p, "pivots") /\ UNCHANGED <<run, others, processed, cache, item, todo, history>>
    BY <1>2 DEF EnumerateSubdomains
  <2>6. QED
    BY <2>1, <2>2, <2>3, <2>4, <2>5, StageStep DEF DatabaseOK
<1>3. CASE ReverseWhoisBatch(p)
  <2>1. PICK found \in SUBSET ReverseWhois[DomainOf(p)] : AddChildren(p, found)
    BY <1>3 DEF ReverseWhoisBatch, Searched
  <2>2. found \in SUBSET Domains /\ IsFiniteSet(found)
    BY <1>3, SearchedSome DEF ReverseWhoisBatch, AtWork
  <2>3. pc[p] \in AtWork /\ degraded' \in BOOLEAN
    BY <1>3 DEF ReverseWhoisBatch, AtWork, DatabaseOK, WithinCap
  <2>4. "acquisitions" \in AtWork
    BY DEF AtWork
  <2>5. Goto(p, "acquisitions") /\ UNCHANGED <<run, processed, cache, item, todo, history>>
    BY <1>3 DEF ReverseWhoisBatch
  <2>6. others' \subseteq UNION {Attributes[d] : d \in Domains}
    BY <1>3, <2>3, AttributesKept DEF ReverseWhoisBatch
  <2>7. QED
    BY <2>1, <2>2, <2>3, <2>4, <2>5, <2>6, StageStep
<1>4. CASE ExpandAcquisitions(p)
  <2>1. PICK found \in SUBSET Acquisitions[DomainOf(p)] : AddChildren(p, found)
    BY <1>4 DEF ExpandAcquisitions
  <2>2. found \in SUBSET Domains /\ IsFiniteSet(found)
    BY <1>4, SearchedSome DEF ExpandAcquisitions, AtWork
  <2>3. PICK step \in {"mark", "cache"} : Goto(p, step)
    BY <1>4 DEF ExpandAcquisitions
  <2>4. pc[p] \in AtWork /\ degraded' \in BOOLEAN
    BY <1>4 DEF ExpandAcquisitions, AtWork, DatabaseOK
  <2>5. step \in AtWork /\ step \notin {"replay_lineage", "replay_push"}
    BY <2>3 DEF AtWork
  <2>6. UNCHANGED <<run, others, processed, cache, item, todo, history>>
    BY <1>4 DEF ExpandAcquisitions
  <2>7. QED
    BY <2>1, <2>2, <2>3, <2>4, <2>5, <2>6, StageStep DEF DatabaseOK
<1>5. CASE UpsertDomainCache(p)
  <2>1. DomainOf(p) \in Domains
    BY <1>5, ItemAtWork DEF UpsertDomainCache, AtWork
  <2>2. collected[p] \in SUBSET Domains /\ IsFiniteSet(collected[p])
    BY DEF MemoryOK
  <2>3. /\ DOMAIN cache' = DOMAIN cache \cup {DomainOf(p)}
        /\ \A d \in DOMAIN cache' : cache'[d] = IF d = DomainOf(p) THEN collected[p] ELSE cache[d]
    BY <1>5 DEF UpsertDomainCache
  <2>4. /\ DOMAIN cache' \subseteq Domains
        /\ \A d \in DOMAIN cache' : cache'[d] \in SUBSET Domains /\ IsFiniteSet(cache'[d])
    BY <2>1, <2>2, <2>3 DEF DatabaseOK
  <2>5. cache' \in [DOMAIN cache' -> SUBSET Domains]
    BY <1>5, <2>3, <2>4 DEF UpsertDomainCache
  <2>6. DatabaseOK'
    BY <1>5, <2>4, <2>5 DEF UpsertDomainCache, DatabaseOK, graph
  <2>7. MemoryOK' /\ Control' /\ HistoryOK'
    BY <1>5 DEF UpsertDomainCache, Goto, MemoryOK, Control, HistoryOK, AtWork, Steps, history
  <2>8. QED
    BY <2>6, <2>7
<1>6. CASE MarkDomainProcessed(p)
  <2>1. DomainOf(p) \in Domains /\ DepthOf(p) \in Nat
    BY <1>6, ItemAtWork DEF MarkDomainProcessed, AtWork
  <2>2. /\ DOMAIN processed' = DOMAIN processed \cup {DomainOf(p)}
        /\ \A d \in DOMAIN processed' :
             processed'[d] = IF d \in DOMAIN processed THEN processed[d] ELSE DepthOf(p)
    BY <1>6 DEF MarkDomainProcessed, InsertOrIgnore
  <2>3. \A d \in DOMAIN processed' : processed'[d] \in Nat
    BY <2>1, <2>2 DEF DatabaseOK
  <2>4. processed' \in [DOMAIN processed' -> Nat]
    BY <1>6, <2>3 DEF MarkDomainProcessed, InsertOrIgnore
  <2>5. DatabaseOK'
    BY <1>6, <2>1, <2>2, <2>4 DEF MarkDomainProcessed, DatabaseOK, graph
  <2>6. MemoryOK' /\ Control' /\ HistoryOK'
    BY <1>6 DEF MarkDomainProcessed, Goto, MemoryOK, Control, HistoryOK, AtWork, Steps, history
  <2>7. QED
    BY <2>5, <2>6
<1>7. QED
  BY <1>1, <1>2, <1>3, <1>4, <1>5, <1>6

\* Replaying a cached domain keeps the state well formed.
LEMMA ReplayStep ==
  ASSUME WellFormed, NEW p \in Procs,
         ReplayCachedObservations(p) \/ ReplayNode(p) \/ ReplayLineage(p) \/ ReplayPush(p)
         \/ ReplayDone(p)
  PROVE  WellFormed'
<1> USE DEF WellFormed
<1>1. CASE ReplayCachedObservations(p)
  <2>1. PICK seen \in SUBSET Redirects[DomainOf(p)] : nodes' = nodes \cup seen
    BY <1>1 DEF ReplayCachedObservations
  <2>2. seen \in SUBSET Domains /\ IsFiniteSet(seen)
    BY <1>1, SearchedSome DEF ReplayCachedObservations, AtWork
  <2>3. IsFiniteSet(nodes')
    BY <2>1, <2>2, FS_Union DEF DatabaseOK
  <2>4. DatabaseOK'
    <3>1. others' \subseteq UNION {Attributes[d] : d \in Domains}
      BY <1>1, AttributesKept DEF ReplayCachedObservations, AtWork
    <3>2. QED
      BY <1>1, <2>1, <2>2, <2>3, <3>1 DEF ReplayCachedObservations, DatabaseOK
  <2>5. MemoryOK' /\ Control' /\ HistoryOK'
    BY <1>1 DEF ReplayCachedObservations, Goto, MemoryOK, Control, HistoryOK, AtWork, Steps, history
  <2>6. QED
    BY <2>4, <2>5
<1>2. CASE ReplayNode(p)
  <2>1. Head(todo[p]) \in Domains
    BY <1>2 DEF ReplayNode, MemoryOK
  <2>2. others' \subseteq UNION {Attributes[d] : d \in Domains}
    BY <1>2, AttributesKept DEF ReplayNode, AtWork
  <2>3. IsFiniteSet(nodes')
    BY <1>2, FS_AddElement DEF ReplayNode, DatabaseOK
  <2>4. DatabaseOK'
    BY <1>2, <2>1, <2>2, <2>3 DEF ReplayNode, DatabaseOK
  <2>5. MemoryOK' /\ Control' /\ HistoryOK'
    BY <1>2 DEF ReplayNode, Goto, MemoryOK, Control, HistoryOK, AtWork, Steps, history
  <2>6. QED
    BY <2>4, <2>5
<1>3. CASE ReplayLineage(p)
  <2>1. Head(todo[p]) \in Domains
    BY <1>3 DEF ReplayLineage, MemoryOK, Control
  <2>2. DatabaseOK'
    BY <1>3, <2>1, LineageTable DEF ReplayLineage, DatabaseOK, AtWork
  <2>3. MemoryOK' /\ Control' /\ HistoryOK'
    BY <1>3 DEF ReplayLineage, Goto, MemoryOK, Control, HistoryOK, AtWork, Steps, history
  <2>4. QED
    BY <2>2, <2>3
<1>4. CASE ReplayPush(p)
  <2>1. Head(todo[p]) \in Domains /\ Tail(todo[p]) \in Seq(Domains)
    BY <1>4 DEF ReplayPush, MemoryOK, Control
  <2>2. {Head(todo[p])} \in SUBSET Domains /\ IsFiniteSet({Head(todo[p])})
    BY <2>1, FS_Singleton
  <2>3. PushChildren(p, {Head(todo[p])}) /\ pc[p] \in AtWork
    BY <1>4 DEF ReplayPush, AtWork
  <2>4. PICK keys \in SUBSET Keys :
          /\ enqueued' = [enqueued EXCEPT ![p] = @ \cup keys]
          /\ TableOK(tasks', Keys, {})
    BY <2>2, <2>3, PushTable
  <2>5. DatabaseOK'
    BY <1>4, <2>4 DEF ReplayPush, DatabaseOK, graph
  <2>6. MemoryOK' /\ Control' /\ HistoryOK'
    BY <1>4, <2>1, <2>4 DEF ReplayPush, Goto, MemoryOK, Control, HistoryOK, AtWork, Steps, history
  <2>7. QED
    BY <2>5, <2>6
<1>5. CASE ReplayDone(p)
  BY <1>5 DEF ReplayDone, Goto, DatabaseOK, MemoryOK, HistoryOK, Control, AtWork, Steps,
              database, graph, history
<1>6. QED
  BY <1>1, <1>2, <1>3, <1>4, <1>5

\* A lease that runs out keeps the state well formed.
LEMMA ExpiryStep ==
  ASSUME WellFormed, NEW k \in DOMAIN tasks, LeaseExpires(k)
  PROVE  WellFormed'
BY ExpireTable
   DEF LeaseExpires, WellFormed, DatabaseOK, MemoryOK, HistoryOK, Control, memory, graph, history

\* Every step of the crawl keeps the state well formed.
LEMMA WellFormedStep ==
  ASSUME WellFormed, [Next]_vars
  PROVE  WellFormed'
<1>1. ASSUME NEW p \in Procs, CreateRun(p) \/ Resume(p) \/ Step(p) \/ Stop(p)
      PROVE  WellFormed'
  BY <1>1, StartStep, PopStep, LoopStep, ExpandStep, ReplayStep DEF Step
<1>2. ASSUME NEW k \in DOMAIN tasks, LeaseExpires(k)
      PROVE  WellFormed'
  BY <1>2, ExpiryStep
<1>3. CASE UNCHANGED vars
  BY <1>3 DEF vars, database, graph, memory, history, WellFormed, DatabaseOK, MemoryOK,
              HistoryOK, Control, DomainOf
<1>4. QED
  BY <1>1, <1>2, <1>3 DEF Next

\* Before the first run, with whatever earlier runs left in the cache.
LEMMA WellFormedInit == Init => WellFormed
<1>1. ASSUME Init PROVE WellFormed
  <2>1. TableOK(EmptyTable, Keys, {})
    BY FS_EmptySet DEF EmptyTable, TableOK, Table
  <2>2. DatabaseOK
    BY <1>1, <2>1, FS_EmptySet, CrawlAssumption DEF Init, DatabaseOK, EmptyTable
  <2>3. MemoryOK
    BY <1>1, FS_EmptySet DEF Init, MemoryOK, Steps
  <2>4. HistoryOK /\ Control
    BY <1>1, CrawlAssumption DEF Init, HistoryOK, Control, AtWork
  <2>5. QED
    BY <2>2, <2>3, <2>4 DEF WellFormed
<1>2. QED
  BY <1>1
----
\* The queue's table operations are the crawl's own.
LEMMA SameTable ==
  ASSUME NEW t, NEW k, NEW keys
  PROVE  /\ Queue!EnqueueRunTask(t, keys) = EnqueueRunTask(t, keys)
         /\ Queue!SweepExpired(t) = SweepExpired(t)
         /\ Queue!RequeueInProgressTasks(t) = RequeueInProgressTasks(t)
         /\ Queue!RunnableTasks(t) = RunnableTasks(t)
         /\ Queue!NextTasks(t) = NextTasks(t)
         /\ Queue!ClaimRow(t) = ClaimRow(t)
         /\ Queue!CompleteRunTask(t, k) = CompleteRunTask(t, k)
         /\ Queue!ExpireLease(t, k) = ExpireLease(t, k)
<1>1. Queue!NewRow(t) = NewRow(t)
  BY DEF Queue!NewRow, NewRow, Queue!Cardinality, Cardinality
<1>2. Queue!EnqueueRunTask(t, keys) = EnqueueRunTask(t, keys)
  BY <1>1 DEF Queue!EnqueueRunTask, EnqueueRunTask, Queue!InsertOrIgnore, InsertOrIgnore
<1>3. Queue!SweepExpired(t) = SweepExpired(t)
  BY DEF Queue!SweepExpired, SweepExpired, Queue!GivenUp, GivenUp
<1>4. Queue!RequeueInProgressTasks(t) = RequeueInProgressTasks(t)
  BY DEF Queue!RequeueInProgressTasks, RequeueInProgressTasks, Queue!GivenUp, GivenUp
<1>5. Queue!RunnableTasks(t) = RunnableTasks(t) /\ Queue!NextTasks(t) = NextTasks(t)
  BY DEF Queue!RunnableTasks, RunnableTasks, Queue!NextTasks, NextTasks
<1>6. Queue!ClaimRow(t) = ClaimRow(t) /\ Queue!CompleteRunTask(t, k) = CompleteRunTask(t, k)
      /\ Queue!ExpireLease(t, k) = ExpireLease(t, k)
  BY DEF Queue!ClaimRow, ClaimRow, Queue!CompleteRunTask, CompleteRunTask,
         Queue!ExpireLease, ExpireLease
<1>7. QED
  BY <1>2, <1>3, <1>4, <1>5, <1>6

\* The workers' hands are empty but for their items.
LEMMA HeldKept ==
  ASSUME UNCHANGED item
  PROVE  UNCHANGED Held
BY DEF Held, Working, DeliveryOf

\* A worker that drops its item takes its own delivery out of Held, no other.
LEMMA HeldDropped ==
  ASSUME MemoryOK, NEW p \in Procs, item' = [item EXCEPT ![p] = NoItem]
  PROVE  /\ p \in Working => Held' = Held \ {DeliveryOf(p)}
         /\ p \notin Working => Held' = Held
<1>1. item' \in [Procs -> Items \cup {NoItem}]
  BY DEF MemoryOK
<1>2. Working' = Working \ {p} /\ \A q \in Working' : item'[q] = item[q]
  BY <1>1 DEF Working, MemoryOK
<1>3. Held' = {DeliveryOf(q) : q \in Working \ {p}}
  BY <1>2 DEF Held, DeliveryOf
<1>4. \A q \in Working \ {p} : DeliveryOf(q) # DeliveryOf(p)
  BY DEF DeliveryOf
<1>5. QED
  BY <1>3, <1>4 DEF Held

\* A batch of pushes is an Enqueue of the keys that are new, or nothing.
LEMMA PushRefines ==
  ASSUME DatabaseOK, NEW keys \in SUBSET Keys, IsFiniteSet(keys),
         tasks' = EnqueueRunTask(tasks, keys), UNCHANGED item
  PROVE  [QueueStep]_(Queue!vars)
<1> DEFINE new == DOMAIN tasks' \ DOMAIN tasks
<1>1. DOMAIN tasks' = DOMAIN tasks \cup keys
  BY DEF EnqueueRunTask, InsertOrIgnore
<1>2. new = keys \ DOMAIN tasks
  BY <1>1
<1>3. IsFiniteSet(new)
  BY <1>2, FS_Subset
<1>4. tasks' = EnqueueRunTask(tasks, new)
  BY <1>2 DEF EnqueueRunTask, InsertOrIgnore
<1>5. UNCHANGED Held
  BY HeldKept
<1>6. CASE new = {}
  <2>1. tasks' = tasks
    BY <1>4, <1>6 DEF EnqueueRunTask, InsertOrIgnore, DatabaseOK, TableOK, Table
  <2>2. QED
    BY <1>5, <2>1 DEF Queue!vars
<1>7. CASE new # {}
  <2>1. Queue!IsFiniteSet(new)
    BY <1>3 DEF Queue!IsFiniteSet, IsFiniteSet
  <2>2. Queue!Enqueue(new)
    BY <1>4, <1>5, <1>7, <2>1, SameTable DEF Queue!Enqueue
  <2>3. QED
    BY <2>2 DEF QueueStep
<1>8. QED
  BY <1>6, <1>7
\* A step that touches neither the rows nor the items leaves the queue alone.
LEMMA QueueStutters ==
  ASSUME UNCHANGED <<tasks, item>>
  PROVE  [QueueStep]_(Queue!vars)
BY HeldKept DEF Queue!vars

\* A process between two tasks has no delivery.
LEMMA IdleProcess ==
  ASSUME MemoryOK, Control, NEW p \in Procs, pc[p] \notin AtWork
  PROVE  Queue!Idle(p) /\ p \notin Working /\ item[p] = NoItem
<1>1. item[p] = NoItem
  BY DEF Control
<1>2. p \notin Working
  BY <1>1 DEF Working
<1>3. \A d \in Held : d.worker # p
  BY <1>2 DEF Held, DeliveryOf
<1>4. QED
  BY <1>1, <1>2, <1>3 DEF Queue!Idle

\* The crawl's claim is the queue's.
LEMMA PopRefines ==
  ASSUME WellFormed, NEW p \in Procs, Pop(p)
  PROVE  Queue!Claim(p)
<1>1. PICK k \in NextTasks(SweepExpired(tasks)) :
        /\ item' = [item EXCEPT ![p] =
                      [key |-> k, attempt |-> ClaimRow(SweepExpired(tasks)[k]).attempts]]
        /\ tasks' = [SweepExpired(tasks) EXCEPT ![k] = ClaimRow(SweepExpired(tasks)[k])]
  BY PopStep
<1> DEFINE new == [key |-> k, attempt |-> ClaimRow(SweepExpired(tasks)[k]).attempts]
<1>2. Queue!Idle(p) /\ p \notin Working
  BY IdleProcess DEF WellFormed, Pop, AtWork
<1>3. pc'[p] = "check" /\ WellFormed'
  BY PopStep DEF Pop, Goto, WellFormed, MemoryOK
<1>4. item'[p] = new /\ item'[p] # NoItem
  BY <1>1, <1>3 DEF WellFormed, MemoryOK, Control, AtWork
<1>5. Working' = Working \cup {p} /\ \A q \in Working : item'[q] = item[q]
  BY <1>1, <1>2, <1>4 DEF WellFormed, MemoryOK, Working
<1>6. Held' = Held \cup {[worker |-> p, key |-> new.key, attempt |-> new.attempt]}
  BY <1>4, <1>5 DEF Held, DeliveryOf
<1>7. Held' = Held \cup {[worker |-> p, key |-> k,
                          attempt |-> ClaimRow(SweepExpired(tasks)[k]).attempts]}
  BY <1>6
<1>8. QED
  BY <1>1, <1>2, <1>7, SameTable DEF Queue!Claim

\* Starting and resuming enqueue and requeue as the queue does.
LEMMA StartRefines ==
  ASSUME WellFormed, NEW p \in Procs,
         CreateRun(p) \/ SeedNode(p) \/ SeedTask(p) \/ Resume(p) \/ ResumePending(p)
         \/ ResumeElsewhere(p) \/ SeedLegacy(p) \/ StartLoop(p)
  PROVE  [QueueStep]_(Queue!vars)
<1>1. CASE CreateRun(p) \/ SeedNode(p) \/ ResumePending(p) \/ ResumeElsewhere(p) \/ StartLoop(p)
  BY <1>1, QueueStutters
     DEF CreateRun, SeedNode, ResumePending, ResumeElsewhere, StartLoop, database
<1>2. CASE SeedTask(p)
  BY <1>2, CrawlAssumption, OneKey, PushRefines DEF SeedTask, WellFormed
<1>3. CASE SeedLegacy(p)
  <2>1. Head(todo[p]) \in Domains
    BY <1>3 DEF SeedLegacy, WellFormed, MemoryOK
  <2>2. QED
    BY <1>3, <2>1, OneKey, PushRefines DEF SeedLegacy, WellFormed
<1>4. CASE Resume(p)
  <2>1. UNCHANGED Held
    BY <1>4, HeldKept DEF Resume
  <2>2. Queue!Requeue
    BY <1>4, <2>1, SameTable DEF Resume, Queue!Requeue
  <2>3. QED
    BY <2>2 DEF QueueStep
<1>5. QED
  BY <1>1, <1>2, <1>3, <1>4

\* A process that ends gives its delivery up, if it has one.
LEMMA ForgetRefines ==
  ASSUME WellFormed, NEW p \in Procs, Forget(p), UNCHANGED tasks
  PROVE  [QueueStep]_(Queue!vars)
<1>1. item' = [item EXCEPT ![p] = NoItem]
  BY DEF Forget
<1>2. CASE p \in Working
  <2>1. Queue!Abandon(DeliveryOf(p))
    BY <1>1, <1>2, HeldDropped DEF WellFormed, Queue!Abandon
  <2>2. QED
    BY <1>2, <2>1 DEF QueueStep
<1>3. CASE p \notin Working
  BY <1>1, <1>3, HeldDropped DEF WellFormed, Queue!vars
<1>4. QED
  BY <1>2, <1>3

\* The loop claims and completes as the queue does.
LEMMA LoopRefines ==
  ASSUME WellFormed, NEW p \in Procs,
         LoopTest(p) \/ PopNothing(p) \/ Check(p) \/ CompleteTask(p)
         \/ JudgeRun(p) \/ MarkRunCompleted(p) \/ Stop(p)
  PROVE  [QueueStep]_(Queue!vars)
<1>1. CASE LoopTest(p) \/ Check(p) \/ JudgeRun(p)
  BY <1>1, QueueStutters DEF LoopTest, Check, JudgeRun, database
<1>2. CASE PopNothing(p)
  <2>1. Queue!Idle(p) /\ p \notin Working
    BY <1>2, IdleProcess DEF WellFormed, PopNothing, AtWork
  <2>2. Held' = Held
    BY <1>2, <2>1, HeldDropped DEF WellFormed, PopNothing, Forget
  <2>3. Queue!ClaimNothing(p)
    BY <1>2, <2>1, <2>2, SameTable DEF PopNothing, Queue!ClaimNothing
  <2>4. QED
    BY <2>3 DEF QueueStep
<1>3. CASE CompleteTask(p)
  <2>1. p \in Working
    BY <1>3 DEF WellFormed, Control, CompleteTask, AtWork, Working
  <2>2. Held' = Held \ {DeliveryOf(p)}
    BY <1>3, <2>1, HeldDropped DEF WellFormed, CompleteTask
  <2>3. DeliveryOf(p).key = item[p].key
    BY DEF DeliveryOf
  <2>4. tasks' = Queue!CompleteRunTask(tasks, DeliveryOf(p).key)
    BY <1>3, <2>3, SameTable DEF CompleteTask
  <2>5. Queue!Complete(DeliveryOf(p))
    BY <2>2, <2>4 DEF Queue!Complete
  <2>6. QED
    BY <2>1, <2>5 DEF QueueStep
<1>4. CASE MarkRunCompleted(p) \/ Stop(p)
  BY <1>4, ForgetRefines DEF MarkRunCompleted, Stop, database
<1>5. QED
  BY <1>1, <1>2, <1>3, <1>4

\* Mapping a domain, afresh or from the cache, only enqueues.
LEMMA ExpandRefines ==
  ASSUME WellFormed, NEW p \in Procs,
         Gather(p) \/ EnumerateSubdomains(p) \/ ReverseWhoisBatch(p) \/ ExpandAcquisitions(p)
         \/ UpsertDomainCache(p) \/ MarkDomainProcessed(p)
         \/ ReplayCachedObservations(p) \/ ReplayNode(p) \/ ReplayLineage(p) \/ ReplayPush(p)
         \/ ReplayDone(p)
  PROVE  [QueueStep]_(Queue!vars)
<1>1. ASSUME NEW children \in SUBSET Domains, IsFiniteSet(children), pc[p] \in AtWork,
             PushChildren(p, children), UNCHANGED item
      PROVE  [QueueStep]_(Queue!vars)
  BY <1>1, PushTable, PushRefines DEF WellFormed
<1>2. CASE \/ Gather(p) \/ UpsertDomainCache(p) \/ MarkDomainProcessed(p)
           \/ ReplayCachedObservations(p) \/ ReplayNode(p) \/ ReplayLineage(p) \/ ReplayDone(p)
  BY <1>2, QueueStutters
     DEF Gather, UpsertDomainCache, MarkDomainProcessed, ReplayCachedObservations, ReplayNode,
         ReplayLineage, ReplayDone, database
<1>3. CASE EnumerateSubdomains(p) \/ ReverseWhoisBatch(p) \/ ExpandAcquisitions(p)
  <2>1. pc[p] \in AtWork /\ UNCHANGED item
    BY <1>3 DEF EnumerateSubdomains, ReverseWhoisBatch, ExpandAcquisitions, AtWork
  <2>2. PICK f \in {Subdomains, ReverseWhois, Acquisitions, Redirects} :
          \E found \in SUBSET f[DomainOf(p)] : AddChildren(p, found)
    BY <1>3 DEF EnumerateSubdomains, ReverseWhoisBatch, ExpandAcquisitions, Searched
  <2>3. PICK found \in SUBSET f[DomainOf(p)] : AddChildren(p, found)
    BY <2>2
  <2>4. found \in SUBSET Domains /\ IsFiniteSet(found)
    BY <2>1, SearchedSome DEF WellFormed
  <2>5. QED
    BY <1>1, <2>1, <2>3, <2>4 DEF AddChildren
<1>4. CASE ReplayPush(p)
  <2>1. Head(todo[p]) \in Domains
    BY <1>4 DEF ReplayPush, WellFormed, MemoryOK, Control
  <2>2. {Head(todo[p])} \in SUBSET Domains /\ IsFiniteSet({Head(todo[p])})
    BY <2>1, FS_Singleton
  <2>3. QED
    BY <1>1, <1>4, <2>2 DEF ReplayPush, AtWork
<1>5. QED
  BY <1>2, <1>3, <1>4

\* Every step of the crawl is a step of its queue, or leaves the queue alone.
LEMMA StepRefines ==
  ASSUME WellFormed, [Next]_vars
  PROVE  [QueueStep]_(Queue!vars)
<1>1. ASSUME NEW p \in Procs, CreateRun(p) \/ Resume(p) \/ Step(p) \/ Stop(p)
      PROVE  [QueueStep]_(Queue!vars)
  <2>1. CASE Pop(p)
    BY <2>1, PopRefines DEF QueueStep
  <2>2. CASE ~Pop(p)
    BY <1>1, <2>2, StartRefines, LoopRefines, ExpandRefines DEF Step
  <2>3. QED
    BY <2>1, <2>2
<1>2. ASSUME NEW k \in DOMAIN tasks, LeaseExpires(k)
      PROVE  [QueueStep]_(Queue!vars)
  <2>1. UNCHANGED Held
    BY <1>2, HeldKept DEF LeaseExpires, memory
  <2>2. Queue!LeaseExpires(k)
    BY <1>2, <2>1, SameTable DEF LeaseExpires, Queue!LeaseExpires
  <2>3. QED
    BY <2>2 DEF QueueStep
<1>3. CASE UNCHANGED vars
  BY <1>3, QueueStutters DEF vars, database, memory
<1>4. QED
  BY <1>1, <1>2, <1>3 DEF Next
----
\* The state is well formed throughout.
LEMMA AlwaysWellFormed == Spec => []WellFormed
<1>1. WellFormed /\ [Next]_vars => WellFormed'
  BY WellFormedStep
<1>2. QED
  BY <1>1, WellFormedInit, PTL DEF Spec

\* Type correctness of the crawl, for every graph, limit and number of
\* processes: among it, no task is ever handed out with an attempt beyond
\* MaxAttempts.
THEOREM TypeCorrect == Spec => []TypeOK
<1>1. WellFormed => TypeOK
  BY DEF WellFormed, DatabaseOK, MemoryOK, HistoryOK, TypeOK, TableOK, Table, Items
<1>2. QED
  BY <1>1, AlwaysWellFormed, PTL

\* The crawl uses its queue as RunTasks specifies it: whatever it enqueues,
\* claims, completes, requeues or loses to a stop is a step of the queue, so
\* what RunTasksProofs proves of the queue holds of the crawl's.
THEOREM CrawlUsesQueue == Spec => ImplementsQueue
<1>1. Init => Queue!Init
  <2>1. ASSUME Init PROVE Held = {} /\ tasks = Queue!EmptyTable
    BY <2>1 DEF Init, Held, Working, EmptyTable, Queue!EmptyTable
  <2>2. QED
    BY <2>1 DEF Queue!Init
<1>2. WellFormed /\ [Next]_vars => [QueueStep]_(Queue!vars)
  BY StepRefines
<1>3. QED
  BY <1>1, <1>2, AlwaysWellFormed, PTL DEF Spec, ImplementsQueue
\* The same with the batches bounded by Keys: the crawl implements RunTasks.
THEOREM CrawlImplementsRunTasks == Spec => Queue!Spec
<1>1. Init => Queue!Init
  <2>1. ASSUME Init PROVE Held = {} /\ tasks = Queue!EmptyTable
    BY <2>1 DEF Init, Held, Working, EmptyTable, Queue!EmptyTable
  <2>2. QED
    BY <2>1 DEF Queue!Init
<1>2. ASSUME WellFormed, WellFormed', QueueStep PROVE Queue!Next
  <2>1. DOMAIN tasks' \ DOMAIN tasks \in SUBSET Keys
    BY <1>2 DEF WellFormed, DatabaseOK, TableOK, Table
  <2>2. \A p \in Working : DeliveryOf(p) \in Held
    BY DEF Held
  <2>3. QED
    BY <1>2, <2>1, <2>2 DEF QueueStep, Queue!Next
<1>3. WellFormed /\ WellFormed' /\ [QueueStep]_(Queue!vars) => [Queue!Next]_(Queue!vars)
  BY <1>2
<1>4. WellFormed /\ [Next]_vars => WellFormed' /\ [QueueStep]_(Queue!vars)
  BY WellFormedStep, StepRefines
<1>5. QED
  BY <1>1, <1>3, <1>4, AlwaysWellFormed, PTL DEF Spec, Queue!Spec
----
\* What a process at work may rely on: the domain whose task it completes is
\* processed, and what it collected for the cache is committed as its domain's.
ProcessOK(p) ==
  /\ pc[p] = "complete" => DomainOf(p) \in DOMAIN processed
  /\ \A c \in collected[p] : pc[p] \in AtWork /\ <<c, DomainOf(p)>> \in DOMAIN lineage

Ledger ==
  /\ ProcessedBeforeSucceeded
  /\ CacheHoldsOwnChildren
  /\ \A p \in Procs : ProcessOK(p)

Succeeded == TasksWith(tasks, "succeeded")

\* No table operation but a completion makes a task succeeded.
LEMMA NoNewSuccess ==
  ASSUME NEW t, NEW keys, NEW k
  PROVE  /\ TasksWith(EnqueueRunTask(t, keys), "succeeded") \subseteq TasksWith(t, "succeeded")
         /\ TasksWith(SweepExpired(t), "succeeded") \subseteq TasksWith(t, "succeeded")
         /\ TasksWith(RequeueInProgressTasks(t), "succeeded") \subseteq TasksWith(t, "succeeded")
<1>1. TasksWith(EnqueueRunTask(t, keys), "succeeded") \subseteq TasksWith(t, "succeeded")
  BY DEF TasksWith, EnqueueRunTask, InsertOrIgnore, NewRow
<1>2. \A row \in {t[j] : j \in DOMAIN t} :
        row.status = "in_progress" => GivenUp(row).status # "succeeded" \/ row.status = "succeeded"
  BY DEF GivenUp
<1>3. QED
  BY <1>1, <1>2 DEF TasksWith, SweepExpired, RequeueInProgressTasks

\* What a step of one process must show to keep the ledger.
LEMMA LedgerFrame ==
  ASSUME WellFormed, WellFormed', Ledger, NEW p \in Procs, ProcessOK(p)',
         \A q \in Procs \ {p} : /\ pc'[q] = pc[q] /\ item'[q] = item[q]
                                /\ collected'[q] = collected[q],
         DOMAIN processed \subseteq DOMAIN processed',
         DOMAIN lineage \subseteq DOMAIN lineage',
         \A k \in Succeeded' : k \in Succeeded \/ k[1] \in DOMAIN processed,
         \A d \in DOMAIN cache' \ DOMAIN EarlierCache :
           \/ d \in DOMAIN cache /\ cache'[d] = cache[d]
           \/ \A c \in cache'[d] : <<c, d>> \in DOMAIN lineage'
  PROVE  Ledger'
<1>1. ProcessedBeforeSucceeded'
  BY DEF Ledger, ProcessedBeforeSucceeded, Succeeded
<1>2. CacheHoldsOwnChildren'
  BY DEF Ledger, CacheHoldsOwnChildren
<1>3. \A q \in Procs : ProcessOK(q)'
  BY DEF Ledger, ProcessOK, DomainOf
<1>4. QED
  BY <1>1, <1>2, <1>3 DEF Ledger

\* Starting and resuming keep the ledger.
LEMMA StartLedger ==
  ASSUME WellFormed, WellFormed', Ledger, NEW p \in Procs,
         CreateRun(p) \/ SeedNode(p) \/ SeedTask(p) \/ Resume(p) \/ ResumePending(p)
         \/ ResumeElsewhere(p) \/ SeedLegacy(p) \/ StartLoop(p)
  PROVE  Ledger'
<1>1. UNCHANGED <<processed, lineage, cache, item, collected>>
  BY DEF CreateRun, SeedNode, SeedTask, Resume, ResumePending, ResumeElsewhere, SeedLegacy,
         StartLoop, database, graph
<1>2. /\ pc[p] \notin AtWork /\ pc'[p] \notin AtWork
      /\ \A q \in Procs \ {p} : pc'[q] = pc[q]
  BY DEF CreateRun, SeedNode, SeedTask, Resume, ResumePending, ResumeElsewhere, SeedLegacy,
         StartLoop, Goto, AtWork, WellFormed, MemoryOK
<1>3. ProcessOK(p)'
  BY <1>1, <1>2 DEF Ledger, ProcessOK, AtWork
<1>4. Succeeded' \subseteq Succeeded
  BY NoNewSuccess
     DEF Succeeded, CreateRun, SeedNode, SeedTask, Resume, ResumePending, ResumeElsewhere,
         SeedLegacy, StartLoop, database
<1>5. QED
  BY <1>1, <1>2, <1>3, <1>4, LedgerFrame

\* The loop keeps it: only a processed domain's task is completed.
LEMMA LoopLedger ==
  ASSUME WellFormed, WellFormed', Ledger, NEW p \in Procs,
         LoopTest(p) \/ Pop(p) \/ PopNothing(p) \/ Check(p) \/ CompleteTask(p)
         \/ JudgeRun(p) \/ MarkRunCompleted(p) \/ Stop(p)
  PROVE  Ledger'
<1>1. UNCHANGED <<processed, lineage, cache>>
  BY DEF LoopTest, Pop, PopNothing, Check, CompleteTask, JudgeRun, MarkRunCompleted, Stop,
         database, graph
<1>2. \A q \in Procs \ {p} : pc'[q] = pc[q] /\ item'[q] = item[q] /\ collected'[q] = collected[q]
  BY DEF LoopTest, Pop, PopNothing, Check, CompleteTask, JudgeRun, MarkRunCompleted, Stop,
         Forget, Goto, WellFormed, MemoryOK
<1>3. ProcessOK(p)'
  <2>1. CASE LoopTest(p) \/ JudgeRun(p) \/ Pop(p)
    <3>1. pc[p] \notin AtWork /\ pc'[p] # "complete" /\ UNCHANGED collected
      BY <2>1 DEF LoopTest, JudgeRun, Pop, Goto, AtWork, Verdicts, WellFormed, MemoryOK
    <3>2. QED
      BY <3>1 DEF Ledger, ProcessOK
  <2>2. CASE Check(p)
    <3>1. pc'[p] \in AtWork /\ UNCHANGED <<item, collected>>
      BY <2>2 DEF Check, Goto, AtWork, WellFormed, MemoryOK
    <3>2. pc'[p] = "complete" => DomainOf(p) \in DOMAIN processed
      BY <2>2 DEF Check, Goto, WellFormed, MemoryOK
    <3>3. QED
      BY <1>1, <3>1, <3>2 DEF Ledger, ProcessOK, DomainOf
  <2>3. CASE PopNothing(p) \/ CompleteTask(p) \/ MarkRunCompleted(p) \/ Stop(p)
    <3>1. pc'[p] # "complete" /\ collected'[p] = {}
      BY <2>3 DEF PopNothing, CompleteTask, MarkRunCompleted, Stop, Forget, Goto, WellFormed, MemoryOK
    <3>2. QED
      BY <3>1 DEF ProcessOK
  <2>4. QED
    BY <2>1, <2>2, <2>3
<1>4. \A k \in Succeeded' : k \in Succeeded \/ k[1] \in DOMAIN processed
  <2>1. CASE CompleteTask(p)
    <3>1. Succeeded' \subseteq Succeeded \cup {item[p].key}
      BY <2>1 DEF CompleteTask, CompleteRunTask, Succeeded, TasksWith
    <3>2. DomainOf(p) \in DOMAIN processed
      BY <2>1 DEF CompleteTask, Ledger, ProcessOK
    <3>3. QED
      BY <3>1, <3>2 DEF DomainOf
  <2>2. CASE Pop(p)
    <3>1. PICK k \in NextTasks(SweepExpired(tasks)) :
            tasks' = [SweepExpired(tasks) EXCEPT ![k] = ClaimRow(SweepExpired(tasks)[k])]
      BY <2>2, PopStep
    <3>2. Succeeded' \subseteq TasksWith(SweepExpired(tasks), "succeeded")
      BY <3>1 DEF Succeeded, TasksWith, ClaimRow
    <3>3. QED
      BY <3>2, NoNewSuccess DEF Succeeded
  <2>3. CASE PopNothing(p)
    BY <2>3, NoNewSuccess DEF PopNothing, Succeeded
  <2>4. CASE LoopTest(p) \/ Check(p) \/ JudgeRun(p) \/ MarkRunCompleted(p) \/ Stop(p)
    BY <2>4 DEF LoopTest, Check, JudgeRun, MarkRunCompleted, Stop, database, Succeeded
  <2>5. QED
    BY <2>1, <2>2, <2>3, <2>4
<1>5. QED
  BY <1>1, <1>2, <1>3, <1>4, LedgerFrame

\* A stage keeps it: what it collects it commits in the same batch.
LEMMA StageLedger ==
  ASSUME WellFormed, WellFormed', Ledger, NEW p \in Procs, pc[p] \in AtWork,
         NEW children \in SUBSET Domains, IsFiniteSet(children), AddChildren(p, children),
         NEW step \in AtWork, step # "complete", Goto(p, step),
         UNCHANGED <<processed, cache, item>>
  PROVE  Ledger'
<1>1. /\ DOMAIN lineage \subseteq DOMAIN lineage'
      /\ \A c \in children : <<c, DomainOf(p)>> \in DOMAIN lineage'
  BY LineageTable DEF WellFormed, AddChildren
<1>2. /\ \A q \in Procs \ {p} : pc'[q] = pc[q] /\ item'[q] = item[q] /\ collected'[q] = collected[q]
      /\ pc'[p] = step /\ collected'[p] = collected[p] \cup children
  BY DEF Goto, AddChildren, WellFormed, MemoryOK
<1>3. ProcessOK(p)'
  BY <1>1, <1>2 DEF Ledger, ProcessOK, DomainOf
<1>4. Succeeded' \subseteq Succeeded
  BY NoNewSuccess DEF AddChildren, PushChildren, Succeeded
<1>5. QED
  BY <1>1, <1>2, <1>3, <1>4, LedgerFrame

\* Mapping a domain, afresh or from the cache, keeps the ledger.
LEMMA ExpandLedger ==
  ASSUME WellFormed, WellFormed', Ledger, NEW p \in Procs,
         Gather(p) \/ EnumerateSubdomains(p) \/ ReverseWhoisBatch(p) \/ ExpandAcquisitions(p)
         \/ UpsertDomainCache(p) \/ MarkDomainProcessed(p)
  PROVE  Ledger'
<1>1. CASE Gather(p)
  <2>1. /\ UNCHANGED <<tasks, lineage, processed, cache, item, collected>>
        /\ pc[p] \in AtWork /\ pc' = [pc EXCEPT ![p] = "subdomains"]
    BY <1>1 DEF Gather, Goto, AtWork
  <2>2. /\ \A q \in Procs \ {p} : pc'[q] = pc[q]
        /\ pc'[p] \in AtWork /\ pc'[p] # "complete"
    BY <2>1 DEF WellFormed, MemoryOK, AtWork
  <2>3. ProcessOK(p)'
    BY <2>1, <2>2 DEF Ledger, ProcessOK, DomainOf
  <2>4. QED
    BY <2>1, <2>2, <2>3, LedgerFrame DEF Succeeded
<1>2. CASE EnumerateSubdomains(p) \/ ReverseWhoisBatch(p) \/ ExpandAcquisitions(p)
  <2>1. pc[p] \in AtWork /\ UNCHANGED <<processed, item>>
    BY <1>2 DEF EnumerateSubdomains, ReverseWhoisBatch, ExpandAcquisitions, AtWork
  <2>2. PICK f \in {Subdomains, ReverseWhois, Acquisitions, Redirects} :
          \E found \in SUBSET f[DomainOf(p)] : AddChildren(p, found)
    BY <1>2 DEF EnumerateSubdomains, ReverseWhoisBatch, ExpandAcquisitions, Searched
  <2>3. PICK found \in SUBSET f[DomainOf(p)] : AddChildren(p, found)
    BY <2>2
  <2>4. found \in SUBSET Domains /\ IsFiniteSet(found)
    BY <2>1, SearchedSome DEF WellFormed
  <2>5. PICK step \in {"pivots", "acquisitions", "mark", "cache"} : Goto(p, step)
    BY <1>2 DEF EnumerateSubdomains, ReverseWhoisBatch, ExpandAcquisitions
  <2>6. step \in AtWork /\ step # "complete"
    BY <2>5 DEF AtWork
  <2>7. UNCHANGED cache
    BY <1>2 DEF EnumerateSubdomains, ReverseWhoisBatch, ExpandAcquisitions
  <2>8. QED
    BY <2>1, <2>3, <2>4, <2>5, <2>6, <2>7, StageLedger
<1>3. CASE UpsertDomainCache(p)
  <2>1. /\ UNCHANGED <<tasks, lineage, processed, item, collected>>
        /\ pc[p] \in AtWork /\ pc' = [pc EXCEPT ![p] = "mark"]
    BY <1>3 DEF UpsertDomainCache, Goto, AtWork, graph
  <2>2. /\ \A q \in Procs \ {p} : pc'[q] = pc[q]
        /\ pc'[p] \in AtWork /\ pc'[p] # "complete"
    BY <2>1 DEF WellFormed, MemoryOK, AtWork
  <2>3. ProcessOK(p)'
    BY <2>1, <2>2 DEF Ledger, ProcessOK, DomainOf
  <2>4. \A d \in DOMAIN cache' \ DOMAIN EarlierCache :
          \/ d \in DOMAIN cache /\ cache'[d] = cache[d]
          \/ \A c \in cache'[d] : <<c, d>> \in DOMAIN lineage'
    <3>1. \A c \in collected[p] : <<c, DomainOf(p)>> \in DOMAIN lineage'
      BY <2>1 DEF Ledger, ProcessOK
    <3>2. QED
      BY <1>3, <3>1 DEF UpsertDomainCache
  <2>5. QED
    BY <2>1, <2>2, <2>3, <2>4, LedgerFrame DEF Succeeded
<1>4. CASE MarkDomainProcessed(p)
  <2>1. /\ UNCHANGED <<tasks, lineage, cache, item, collected>>
        /\ pc[p] \in AtWork /\ pc' = [pc EXCEPT ![p] = "complete"]
    BY <1>4 DEF MarkDomainProcessed, Goto, AtWork, graph
  <2>2. /\ \A q \in Procs \ {p} : pc'[q] = pc[q]
        /\ pc'[p] \in AtWork
    BY <2>1 DEF WellFormed, MemoryOK, AtWork
  <2>3. DOMAIN processed' = DOMAIN processed \cup {DomainOf(p)}
    BY <1>4 DEF MarkDomainProcessed, InsertOrIgnore
  <2>4. ProcessOK(p)'
    BY <2>1, <2>2, <2>3 DEF Ledger, ProcessOK, DomainOf
  <2>5. QED
    BY <2>1, <2>2, <2>3, <2>4, LedgerFrame DEF Succeeded
<1>5. QED
  BY <1>1, <1>2, <1>3, <1>4

\* Replaying a cached domain keeps it.
LEMMA ReplayLedger ==
  ASSUME WellFormed, WellFormed', Ledger, NEW p \in Procs,
         ReplayCachedObservations(p) \/ ReplayNode(p) \/ ReplayLineage(p) \/ ReplayPush(p)
         \/ ReplayDone(p)
  PROVE  Ledger'
<1>1. /\ UNCHANGED <<processed, cache, item, collected>>
      /\ pc[p] \in AtWork
      /\ \A q \in Procs \ {p} : pc'[q] = pc[q]
      /\ pc'[p] \in AtWork /\ pc'[p] # "complete"
  BY DEF ReplayCachedObservations, ReplayNode, ReplayLineage, ReplayPush, ReplayDone, Goto,
         AtWork, database, WellFormed, MemoryOK
<1>2. DOMAIN lineage \subseteq DOMAIN lineage'
  <2>1. CASE ReplayLineage(p)
    BY <2>1 DEF ReplayLineage, AddLineage, InsertOrIgnore
  <2>2. CASE ReplayCachedObservations(p) \/ ReplayNode(p) \/ ReplayPush(p) \/ ReplayDone(p)
    BY <2>2 DEF ReplayCachedObservations, ReplayNode, ReplayPush, ReplayDone, database, graph
  <2>3. QED
    BY <2>1, <2>2
<1>3. ProcessOK(p)'
  BY <1>1, <1>2 DEF Ledger, ProcessOK, DomainOf
<1>4. Succeeded' \subseteq Succeeded
  BY NoNewSuccess
     DEF ReplayCachedObservations, ReplayNode, ReplayLineage, ReplayPush, PushChildren,
         ReplayDone, database, Succeeded
<1>5. QED
  BY <1>1, <1>2, <1>3, <1>4, LedgerFrame

\* Every step of the crawl keeps the ledger.
LEMMA LedgerStep ==
  ASSUME WellFormed, Ledger, [Next]_vars
  PROVE  Ledger'
<1>1. WellFormed'
  BY WellFormedStep
<1>2. ASSUME NEW p \in Procs, CreateRun(p) \/ Resume(p) \/ Step(p) \/ Stop(p)
      PROVE  Ledger'
  BY <1>1, <1>2, StartLedger, LoopLedger, ExpandLedger, ReplayLedger DEF Step
<1>3. ASSUME NEW k \in DOMAIN tasks, LeaseExpires(k)
      PROVE  Ledger'
  <2>1. Succeeded' \subseteq Succeeded
    BY <1>3 DEF LeaseExpires, ExpireLease, Succeeded, TasksWith
  <2>2. UNCHANGED <<processed, lineage, cache, pc, item, collected>>
    BY <1>3 DEF LeaseExpires, graph, memory
  <2>3. QED
    BY <2>1, <2>2 DEF Ledger, ProcessedBeforeSucceeded, CacheHoldsOwnChildren, ProcessOK,
                      DomainOf, Succeeded
<1>4. CASE UNCHANGED vars
  BY <1>4 DEF vars, database, graph, memory, Ledger, ProcessedBeforeSucceeded,
              CacheHoldsOwnChildren, ProcessOK, DomainOf
<1>5. QED
  BY <1>2, <1>3, <1>4 DEF Next

\* Nothing has succeeded, been cached or collected at the start.
LEMMA LedgerInit == Init => Ledger
BY DEF Init, Ledger, ProcessedBeforeSucceeded, CacheHoldsOwnChildren, ProcessOK, TasksWith, EmptyTable

\* The ledger is kept throughout.
LEMMA AlwaysLedger == Spec => []Ledger
<1>1. WellFormed /\ Ledger /\ [Next]_vars => Ledger'
  BY LedgerStep
<1>2. QED
  BY <1>1, LedgerInit, AlwaysWellFormed, PTL DEF Spec

\* No task is recorded succeeded before its domain was recorded processed,
\* however often the task was delivered and wherever its workers stopped.
THEOREM SuccessMeansProcessed == Spec => []ProcessedBeforeSucceeded
<1>1. Ledger => ProcessedBeforeSucceeded
  BY DEF Ledger
<1>2. QED
  BY <1>1, AlwaysLedger, PTL

\* What a run writes to the cross-run cache under a domain are children it had
\* committed as that domain's.
THEOREM CacheIsOwn == Spec => []CacheHoldsOwnChildren
<1>1. Ledger => CacheHoldsOwnChildren
  BY DEF Ledger
<1>2. QED
  BY <1>1, AlwaysLedger, PTL
----
\* Without Overlap one process at most is at work, and none before the run has
\* its row or after it has its status; what a verdict says was true and still is.
AllDone == TasksWith(tasks, "succeeded") = DOMAIN tasks /\ ~degraded

Alone ==
  /\ \A p, q \in Procs : pc[p] # "off" /\ pc[q] # "off" => p = q
  /\ run \notin {"running", "partial"} => \A p \in Procs : pc[p] = "off"
  /\ (run = "completed" \/ \E p \in Procs : pc[p] = "completed") => AllDone

\* A step that comes to no verdict: the process was alone, or is now.
LEMMA AloneFrame ==
  ASSUME WellFormed, Alone, NEW p \in Procs, NEW step, Goto(p, step), step # "completed",
         \A q \in Procs \ {p} : pc[q] = "off",
         run' \in {"running", "partial"}
  PROVE  Alone'
BY DEF Alone, Goto, WellFormed, MemoryOK

\* A process at work has the run to itself, and the run is under way.
LEMMA WorksAlone ==
  ASSUME WellFormed, Alone, NEW p \in Procs, pc[p] # "off"
  PROVE  run \in {"running", "partial"} /\ \A q \in Procs \ {p} : pc[q] = "off"
BY DEF Alone

\* Every action of a process but the verdict, the status and the ends is such a step.
LEMMA AloneStep ==
  ASSUME WellFormed, Alone, ~Overlap, NEW p \in Procs,
         CreateRun(p) \/ Resume(p) \/ Stop(p) \/ Step(p)
  PROVE  Alone'
<1>1. CASE CreateRun(p)
  <2>1. \A q \in Procs \ {p} : pc[q] = "off"
    BY <1>1 DEF CreateRun, Alone
  <2>2. QED
    BY <1>1, <2>1, AloneFrame DEF CreateRun
<1>2. CASE Resume(p)
  BY <1>2, AloneFrame DEF Resume
<1>3. CASE Stop(p) \/ PopNothing(p)
  <2>1. pc[p] # "off" /\ Goto(p, "off") /\ UNCHANGED run
    BY <1>3 DEF Stop, PopNothing, Forget, database
  <2>2. QED
    BY <2>1, WorksAlone, AloneFrame
<1>4. CASE SeedLegacy(p)
  <2>1. pc[p] # "off" /\ pc[p] # "completed" /\ UNCHANGED <<run, pc>>
    BY <1>4 DEF SeedLegacy
  <2>2. run \in {"running", "partial"} /\ \A q \in Procs \ {p} : pc[q] = "off"
    BY <2>1, WorksAlone
  <2>3. QED
    BY <2>1, <2>2 DEF Alone
<1>5. CASE ResumePending(p)
  BY <1>5, WorksAlone, AloneFrame DEF ResumePending
<1>6. CASE LoopTest(p) \/ Check(p) \/ ExpandAcquisitions(p)
  <2>1. PICK step \in Steps \ {"completed"} : Goto(p, step)
    BY <1>6 DEF LoopTest, Check, ExpandAcquisitions, Steps
  <2>2. pc[p] # "off" /\ UNCHANGED run
    BY <1>6 DEF LoopTest, Check, ExpandAcquisitions, database
  <2>3. QED
    BY <2>1, <2>2, WorksAlone, AloneFrame
<1>7. CASE SeedNode(p) \/ SeedTask(p) \/ ResumeElsewhere(p) \/ StartLoop(p) \/ Pop(p)
           \/ Gather(p) \/ EnumerateSubdomains(p) \/ ReverseWhoisBatch(p)
           \/ UpsertDomainCache(p) \/ ReplayCachedObservations(p) \/ ReplayNode(p)
           \/ ReplayLineage(p) \/ ReplayPush(p) \/ ReplayDone(p) \/ MarkDomainProcessed(p)
           \/ CompleteTask(p)
  <2>1. PICK step \in Steps \ {"completed"} : Goto(p, step)
    BY <1>7 DEF SeedNode, SeedTask, ResumeElsewhere, StartLoop, Pop, Gather,
                EnumerateSubdomains, ReverseWhoisBatch, UpsertDomainCache,
                ReplayCachedObservations, ReplayNode, ReplayLineage, ReplayPush, ReplayDone,
                MarkDomainProcessed, CompleteTask, Steps
  <2>2. pc[p] # "off" /\ UNCHANGED run
    BY <1>7 DEF SeedNode, SeedTask, ResumeElsewhere, StartLoop, Pop, Gather,
                EnumerateSubdomains, ReverseWhoisBatch, UpsertDomainCache,
                ReplayCachedObservations, ReplayNode, ReplayLineage, ReplayPush, ReplayDone,
                MarkDomainProcessed, CompleteTask, database
  <2>3. QED
    BY <2>1, <2>2, WorksAlone, AloneFrame
<1>8. CASE JudgeRun(p)
  <2>1. /\ run \in {"running", "partial"} /\ \A q \in Procs \ {p} : pc[q] = "off"
        /\ UNCHANGED <<run, tasks, degraded>>
    BY <1>8, WorksAlone DEF JudgeRun, database
  <2>2. CASE pc'[p] = "completed"
    <3>1. /\ TasksWith(tasks, "pending") \cup TasksWith(tasks, "in_progress") = {}
          /\ TasksWith(tasks, "failed") = {} /\ ~degraded
      BY <1>8, <2>2 DEF JudgeRun, Goto, WellFormed, MemoryOK
    <3>2. \A k \in DOMAIN tasks : tasks[k].status = "succeeded"
      BY <3>1 DEF TasksWith, WellFormed, DatabaseOK, TableOK, Table, Row
    <3>3. AllDone'
      BY <2>1, <3>1, <3>2 DEF AllDone, TasksWith
    <3>4. QED
      BY <1>8, <2>1, <3>3 DEF JudgeRun, Goto, Alone, WellFormed, MemoryOK
  <2>3. CASE pc'[p] # "completed"
    <3>1. PICK step : Goto(p, step) /\ step = pc'[p]
      BY <1>8 DEF JudgeRun, Goto, WellFormed, MemoryOK
    <3>2. QED
      BY <2>1, <2>3, <3>1, AloneFrame
  <2>4. QED
    BY <2>2, <2>3
<1>9. CASE MarkRunCompleted(p)
  <2>1. /\ \A q \in Procs \ {p} : pc[q] = "off"
        /\ run' = pc[p] /\ pc' = [pc EXCEPT ![p] = "off"] /\ UNCHANGED <<tasks, degraded>>
    BY <1>9, WorksAlone DEF MarkRunCompleted, Verdicts, Forget, Goto
  <2>2. \A q \in Procs : pc'[q] = "off"
    BY <2>1 DEF WellFormed, MemoryOK
  <2>3. run' = "completed" => AllDone'
    BY <2>1 DEF Alone, AllDone
  <2>4. QED
    BY <2>2, <2>3 DEF Alone
<1>10. QED
  BY <1>1, <1>2, <1>3, <1>4, <1>5, <1>6, <1>7, <1>8, <1>9 DEF Step

\* Every step keeps it; where all has succeeded there is no lease to run out.
LEMMA AloneKept ==
  ASSUME WellFormed, Alone, ~Overlap, [Next]_vars
  PROVE  Alone'
<1>1. ASSUME NEW k \in DOMAIN tasks, LeaseExpires(k)
      PROVE  Alone'
  <2>1. tasks[k].status = "in_progress"
    BY <1>1 DEF LeaseExpires, WellFormed, DatabaseOK, TableOK, Table, RowOK
  <2>2. ~AllDone
    BY <2>1 DEF AllDone, TasksWith
  <2>3. UNCHANGED <<run, pc>>
    BY <1>1 DEF LeaseExpires, memory
  <2>4. QED
    BY <2>2, <2>3 DEF Alone
<1>2. CASE UNCHANGED vars
  BY <1>2 DEF vars, database, memory, Alone, AllDone
<1>3. QED
  BY <1>1, <1>2, AloneStep DEF Next

\* Where no run is resumed while another process works on it, a run that reads
\* completed has every task succeeded and every domain mapped, and no degraded
\* provider call on record.
THEOREM CompletedMeansDone == ~Overlap => (Spec => []CompletedLeavesNothing)
<1>1. Init => Alone
  BY DEF Init, Alone
<1>2. ~Overlap /\ WellFormed /\ Alone /\ [Next]_vars => Alone'
  BY AloneKept
<1>3. Alone /\ Ledger => CompletedLeavesNothing
  BY DEF Alone, AllDone, Ledger, ProcessedBeforeSucceeded, CompletedLeavesNothing
<1>4. SUFFICES ASSUME ~Overlap PROVE Spec => []CompletedLeavesNothing
  OBVIOUS
<1>5. WellFormed /\ Alone /\ [Next]_vars => Alone'
  BY <1>2, <1>4
<1>6. QED
  BY <1>1, <1>3, <1>5, AlwaysWellFormed, AlwaysLedger, PTL DEF Spec
----
\* A child within the cap is processed or has a task from the batch on that
\* records it; a process forgets no task it enqueued, and what it replays from
\* the cache are children this run recorded before.
Followed(d) == d \in DOMAIN processed \/ \E k \in DOMAIN tasks : k[1] = d

Replaying == {"observations", "replay", "replay_lineage", "replay_push"}

RecallOK(p) ==
  /\ enqueued[p] \subseteq DOMAIN tasks
  /\ pc[p] \in Replaying =>
       \A i \in DOMAIN todo[p] : <<todo[p][i], DomainOf(p)>> \in DOMAIN lineage

Covered ==
  /\ \A e \in DOMAIN lineage : WithinCap(lineage[e]) => Followed(e[1])
  /\ \A p \in Procs : RecallOK(p)

\* What a step of one process must show to keep every child covered.
LEMMA CoveredFrame ==
  ASSUME WellFormed, Covered, NEW p \in Procs, RecallOK(p)',
         \A q \in Procs \ {p} : /\ pc'[q] = pc[q] /\ item'[q] = item[q]
                                /\ enqueued'[q] = enqueued[q] /\ todo'[q] = todo[q],
         DOMAIN tasks \subseteq DOMAIN tasks', DOMAIN processed \subseteq DOMAIN processed',
         DOMAIN lineage \subseteq DOMAIN lineage',
         \A e \in DOMAIN lineage' :
           \/ e \in DOMAIN lineage /\ lineage'[e] = lineage[e]
           \/ WithinCap(lineage'[e]) => Followed(e[1])'
  PROVE  Covered'
<1>1. \A d : Followed(d) => Followed(d)'
  BY DEF Followed
<1>2. \A e \in DOMAIN lineage' : WithinCap(lineage'[e]) => Followed(e[1])'
  BY <1>1 DEF Covered
<1>3. \A q \in Procs : RecallOK(q)'
  BY DEF Covered, RecallOK, DomainOf
<1>4. QED
  BY <1>2, <1>3 DEF Covered, WithinCap

\* A batch without a ceiling follows every child the cap admits.
LEMMA PushFollows ==
  ASSUME Covered, MaxPendingQueue = 0, NEW p \in Procs, NEW children,
         PushChildren(p, children), MemoryOK, UNCHANGED processed
  PROVE  /\ DOMAIN tasks \subseteq DOMAIN tasks'
         /\ \A q \in Procs \ {p} : enqueued'[q] = enqueued[q]
         /\ enqueued'[p] \subseteq DOMAIN tasks'
         /\ WithinCap(DepthOf(p) + 1) => \A c \in children : Followed(c)'
<1> DEFINE depth == DepthOf(p) + 1
           wanted == IF WithinCap(depth) THEN NewChildren(p, children) ELSE {}
           keys == {<<c, depth>> : c \in wanted}
<1>1. /\ tasks' = EnqueueRunTask(tasks, keys)
      /\ enqueued' = [enqueued EXCEPT ![p] = @ \cup keys]
  BY DEF PushChildren, Admitted
<1>2. DOMAIN tasks' = DOMAIN tasks \cup keys
  BY <1>1 DEF EnqueueRunTask, InsertOrIgnore
<1>3. enqueued'[p] \subseteq DOMAIN tasks'
  BY <1>1, <1>2 DEF Covered, RecallOK, MemoryOK
<1>4. ASSUME WithinCap(depth), NEW c \in children PROVE Followed(c)'
  <2>1. CASE c \in DOMAIN processed
    BY <2>1 DEF Followed
  <2>2. CASE c \notin DOMAIN processed
    <3>1. <<c, depth>> \in enqueued[p] \/ <<c, depth>> \in keys
      BY <1>4, <2>2 DEF NewChildren
    <3>2. <<c, depth>> \in DOMAIN tasks'
      BY <1>2, <3>1 DEF Covered, RecallOK
    <3>3. QED
      BY <3>2 DEF Followed
  <2>3. QED
    BY <2>1, <2>2
<1>5. QED
  BY <1>1, <1>2, <1>3, <1>4 DEF MemoryOK

\* Starting, resuming and the loop's own steps lose no child.
LEMMA StartCovered ==
  ASSUME WellFormed, Covered, NEW p \in Procs,
         CreateRun(p) \/ SeedNode(p) \/ SeedTask(p) \/ Resume(p) \/ ResumePending(p)
         \/ ResumeElsewhere(p) \/ SeedLegacy(p) \/ StartLoop(p)
  PROVE  Covered'
<1>1. UNCHANGED <<processed, lineage, item>>
  BY DEF CreateRun, SeedNode, SeedTask, Resume, ResumePending, ResumeElsewhere, SeedLegacy,
         StartLoop, database, graph
<1>2. /\ pc'[p] \notin Replaying
      /\ \A q \in Procs \ {p} : pc'[q] = pc[q] /\ enqueued'[q] = enqueued[q] /\ todo'[q] = todo[q]
  BY DEF CreateRun, SeedNode, SeedTask, Resume, ResumePending, ResumeElsewhere, SeedLegacy,
         StartLoop, Goto, Replaying, WellFormed, MemoryOK
<1>3. DOMAIN tasks \subseteq DOMAIN tasks' /\ enqueued'[p] \subseteq DOMAIN tasks'
  <2>1. CASE SeedTask(p) \/ SeedLegacy(p)
    <3>1. PICK keys : /\ tasks' = EnqueueRunTask(tasks, keys)
                      /\ enqueued'[p] \subseteq enqueued[p] \cup keys
      BY <2>1 DEF SeedTask, SeedLegacy, WellFormed, MemoryOK
    <3>2. DOMAIN tasks' = DOMAIN tasks \cup keys
      BY <3>1 DEF EnqueueRunTask, InsertOrIgnore
    <3>3. QED
      BY <3>1, <3>2 DEF Covered, RecallOK
  <2>2. CASE Resume(p)
    BY <2>2 DEF Resume, RequeueInProgressTasks, Covered, RecallOK
  <2>3. CASE CreateRun(p) \/ SeedNode(p) \/ ResumePending(p) \/ ResumeElsewhere(p) \/ StartLoop(p)
    BY <2>3 DEF CreateRun, SeedNode, ResumePending, ResumeElsewhere, StartLoop, database,
                Covered, RecallOK
  <2>4. QED
    BY <2>1, <2>2, <2>3
<1>4. RecallOK(p)'
  BY <1>2, <1>3 DEF RecallOK
<1>5. QED
  BY <1>1, <1>2, <1>3, <1>4, CoveredFrame

\* A cache entry of a run that began without one lists recorded children.
LEMMA LoopCovered ==
  ASSUME WellFormed, Ledger, Covered, DOMAIN EarlierCache = {}, NEW p \in Procs,
         LoopTest(p) \/ Pop(p) \/ PopNothing(p) \/ Check(p) \/ CompleteTask(p)
         \/ JudgeRun(p) \/ MarkRunCompleted(p) \/ Stop(p)
  PROVE  Covered'
<1>1. UNCHANGED <<processed, lineage>>
  BY DEF LoopTest, Pop, PopNothing, Check, CompleteTask, JudgeRun, MarkRunCompleted, Stop,
         database, graph
<1>2. \A q \in Procs \ {p} : /\ pc'[q] = pc[q] /\ item'[q] = item[q]
                             /\ enqueued'[q] = enqueued[q] /\ todo'[q] = todo[q]
  BY DEF LoopTest, Pop, PopNothing, Check, CompleteTask, JudgeRun, MarkRunCompleted, Stop,
         Forget, Goto, WellFormed, MemoryOK
<1>3. DOMAIN tasks' = DOMAIN tasks
  <2>1. CASE Pop(p) \/ PopNothing(p)
    BY <2>1 DEF Pop, PopNothing, SweepExpired
  <2>2. CASE CompleteTask(p)
    BY <2>2 DEF CompleteTask, CompleteRunTask
  <2>3. CASE LoopTest(p) \/ Check(p) \/ JudgeRun(p) \/ MarkRunCompleted(p) \/ Stop(p)
    BY <2>3 DEF LoopTest, Check, JudgeRun, MarkRunCompleted, Stop, database
  <2>4. QED
    BY <2>1, <2>2, <2>3
<1>4. enqueued'[p] \subseteq DOMAIN tasks'
  <2>1. enqueued'[p] = enqueued[p] \/ enqueued'[p] = {}
    BY DEF LoopTest, Pop, PopNothing, Check, CompleteTask, JudgeRun, MarkRunCompleted, Stop,
           Forget, WellFormed, MemoryOK
  <2>2. QED
    BY <1>3, <2>1 DEF Covered, RecallOK
<1>5. pc'[p] \in Replaying =>
        \A i \in DOMAIN todo'[p] : <<todo'[p][i], DomainOf(p)>> \in DOMAIN lineage /\ UNCHANGED item
  <2>1. CASE Check(p)
    <3>1. SUFFICES ASSUME pc'[p] \in Replaying, NEW i \in DOMAIN todo'[p]
                   PROVE  <<todo'[p][i], DomainOf(p)>> \in DOMAIN lineage /\ UNCHANGED item
      OBVIOUS
    <3>2. PICK list \in Listings(cache[DomainOf(p)]) :
            DomainOf(p) \in DOMAIN cache /\ todo'[p] = list
      BY <2>1, <3>1 DEF Check, Goto, Replaying, WellFormed, MemoryOK
    <3>3. todo'[p][i] \in cache[DomainOf(p)]
      BY <3>1, <3>2 DEF Listings
    <3>4. QED
      BY <2>1, <3>2, <3>3 DEF Ledger, CacheHoldsOwnChildren, Check
  <2>2. CASE ~Check(p)
    <3>1. pc'[p] \notin Replaying
      BY <2>2 DEF LoopTest, Pop, PopNothing, CompleteTask, JudgeRun, MarkRunCompleted, Stop,
                  Forget, Goto, Replaying, WellFormed, MemoryOK
    <3>2. QED
      BY <3>1
  <2>3. QED
    BY <2>1, <2>2
<1>6. RecallOK(p)'
  BY <1>1, <1>4, <1>5 DEF RecallOK, DomainOf
<1>7. QED
  BY <1>1, <1>2, <1>3, <1>6, CoveredFrame

\* A stage records and follows its children in one batch.
LEMMA StageCovered ==
  ASSUME WellFormed, Covered, MaxPendingQueue = 0, NEW p \in Procs, NEW children,
         AddChildren(p, children), NEW step, step \notin Replaying, Goto(p, step),
         UNCHANGED <<processed, item, todo>>
  PROVE  Covered'
<1>1. /\ DOMAIN tasks \subseteq DOMAIN tasks'
      /\ \A q \in Procs \ {p} : enqueued'[q] = enqueued[q]
      /\ enqueued'[p] \subseteq DOMAIN tasks'
      /\ WithinCap(DepthOf(p) + 1) => \A c \in children : Followed(c)'
  BY PushFollows DEF AddChildren, WellFormed
<1>2. pc'[p] = step /\ \A q \in Procs \ {p} : pc'[q] = pc[q]
  BY DEF Goto, WellFormed, MemoryOK
<1>3. RecallOK(p)'
  BY <1>1, <1>2 DEF RecallOK
<1>4. /\ DOMAIN lineage \subseteq DOMAIN lineage'
      /\ \A e \in DOMAIN lineage' :
           \/ e \in DOMAIN lineage /\ lineage'[e] = lineage[e]
           \/ e[1] \in children /\ lineage'[e] = DepthOf(p) + 1
  BY DEF AddChildren, AddLineage, InsertOrIgnore
<1>5. QED
  BY <1>1, <1>2, <1>3, <1>4, CoveredFrame

\* Mapping a domain loses no child.
LEMMA ExpandCovered ==
  ASSUME WellFormed, Covered, MaxPendingQueue = 0, NEW p \in Procs,
         Gather(p) \/ EnumerateSubdomains(p) \/ ReverseWhoisBatch(p) \/ ExpandAcquisitions(p)
         \/ UpsertDomainCache(p) \/ MarkDomainProcessed(p)
  PROVE  Covered'
<1>1. CASE Gather(p) \/ UpsertDomainCache(p) \/ MarkDomainProcessed(p)
  <2>1. UNCHANGED <<tasks, lineage, item, enqueued, todo>>
    BY <1>1 DEF Gather, UpsertDomainCache, MarkDomainProcessed, graph
  <2>2. pc'[p] \notin Replaying /\ \A q \in Procs \ {p} : pc'[q] = pc[q]
    BY <1>1 DEF Gather, UpsertDomainCache, MarkDomainProcessed, Goto, Replaying, WellFormed, MemoryOK
  <2>3. DOMAIN processed \subseteq DOMAIN processed'
    BY <1>1 DEF Gather, UpsertDomainCache, MarkDomainProcessed, InsertOrIgnore
  <2>4. RecallOK(p)'
    BY <2>1, <2>2 DEF Covered, RecallOK
  <2>5. QED
    BY <2>1, <2>2, <2>3, <2>4, CoveredFrame
<1>2. CASE EnumerateSubdomains(p) \/ ReverseWhoisBatch(p) \/ ExpandAcquisitions(p)
  <2>1. PICK found : AddChildren(p, found)
    BY <1>2 DEF EnumerateSubdomains, ReverseWhoisBatch, ExpandAcquisitions
  <2>2. PICK step \in {"pivots", "acquisitions", "mark", "cache"} : Goto(p, step)
    BY <1>2 DEF EnumerateSubdomains, ReverseWhoisBatch, ExpandAcquisitions
  <2>3. step \notin Replaying
    BY <2>2 DEF Replaying
  <2>4. UNCHANGED <<processed, item, todo>>
    BY <1>2 DEF EnumerateSubdomains, ReverseWhoisBatch, ExpandAcquisitions
  <2>5. QED
    BY <2>1, <2>2, <2>3, <2>4, StageCovered
<1>3. QED
  BY <1>1, <1>2

\* A replay records nothing new, and follows what it pushes.
LEMMA ReplayCovered ==
  ASSUME WellFormed, Covered, MaxPendingQueue = 0, NEW p \in Procs,
         ReplayCachedObservations(p) \/ ReplayNode(p) \/ ReplayLineage(p) \/ ReplayPush(p)
         \/ ReplayDone(p)
  PROVE  Covered'
<1>1. /\ UNCHANGED <<processed, item>> /\ pc[p] \in Replaying
      /\ \A q \in Procs \ {p} : pc'[q] = pc[q] /\ todo'[q] = todo[q]
  BY DEF ReplayCachedObservations, ReplayNode, ReplayLineage, ReplayPush, ReplayDone, Goto,
         Replaying, database,
         WellFormed, MemoryOK
<1>2. \A i \in DOMAIN todo[p] : <<todo[p][i], DomainOf(p)>> \in DOMAIN lineage
  BY <1>1 DEF Covered, RecallOK
<1>3. todo[p] \in Seq(Domains)
  BY DEF WellFormed, MemoryOK
<1>4. UNCHANGED lineage
  <2>1. CASE ReplayLineage(p)
    <3>1. todo[p] # <<>>
      BY <2>1 DEF ReplayLineage, WellFormed, Control
    <3>2. <<Head(todo[p]), DomainOf(p)>> \in DOMAIN lineage
      BY <1>2, <1>3, <3>1
    <3>3. {Head(todo[p])} \X {DomainOf(p)} \subseteq DOMAIN lineage
      BY <3>2
    <3>4. lineage' = InsertOrIgnore(lineage,
                       [e \in {Head(todo[p])} \X {DomainOf(p)} |-> DepthOf(p) + 1])
      BY <2>1 DEF ReplayLineage, AddLineage
    <3>5. lineage' = [e \in DOMAIN lineage |-> lineage[e]]
      BY <3>3, <3>4 DEF InsertOrIgnore
    <3>6. QED
      BY <3>5 DEF WellFormed, DatabaseOK
  <2>2. CASE ~ReplayLineage(p)
    BY <2>2 DEF ReplayCachedObservations, ReplayNode, ReplayPush, ReplayDone, database, graph
  <2>3. QED
    BY <2>1, <2>2
<1>5. \A i \in DOMAIN todo'[p] : \E j \in DOMAIN todo[p] : todo'[p][i] = todo[p][j]
  <2>1. CASE ReplayPush(p)
    <3>1. todo[p] # <<>> /\ todo'[p] = Tail(todo[p])
      BY <2>1 DEF ReplayPush, WellFormed, Control, MemoryOK
    <3>2. \A i \in DOMAIN Tail(todo[p]) : i + 1 \in DOMAIN todo[p] /\ Tail(todo[p])[i] = todo[p][i + 1]
      BY <1>3, <3>1
    <3>3. QED
      BY <3>1, <3>2
  <2>2. CASE ~ReplayPush(p)
    BY <2>2 DEF ReplayCachedObservations, ReplayNode, ReplayLineage, ReplayDone
  <2>3. QED
    BY <2>1, <2>2
<1>6. /\ DOMAIN tasks \subseteq DOMAIN tasks'
      /\ \A q \in Procs \ {p} : enqueued'[q] = enqueued[q]
      /\ enqueued'[p] \subseteq DOMAIN tasks'
  <2>1. CASE ReplayPush(p)
    BY <2>1, PushFollows DEF ReplayPush, WellFormed
  <2>2. CASE ~ReplayPush(p)
    BY <2>2 DEF ReplayCachedObservations, ReplayNode, ReplayLineage, ReplayDone,
                database, Covered, RecallOK
  <2>3. QED
    BY <2>1, <2>2
<1>7. RecallOK(p)'
  BY <1>1, <1>2, <1>4, <1>5, <1>6 DEF RecallOK, DomainOf
<1>8. QED
  BY <1>1, <1>4, <1>6, <1>7, CoveredFrame

\* Every step keeps every child covered.
LEMMA CoveredStep ==
  ASSUME WellFormed, Ledger, Covered, MaxPendingQueue = 0, DOMAIN EarlierCache = {}, [Next]_vars
  PROVE  Covered'
<1>1. ASSUME NEW p \in Procs, CreateRun(p) \/ Resume(p) \/ Step(p) \/ Stop(p)
      PROVE  Covered'
  BY <1>1, StartCovered, LoopCovered, ExpandCovered, ReplayCovered DEF Step
<1>2. ASSUME NEW k \in DOMAIN tasks, LeaseExpires(k)
      PROVE  Covered'
  <2>1. DOMAIN tasks' = DOMAIN tasks /\ UNCHANGED <<processed, lineage, memory>>
    BY <1>2 DEF LeaseExpires, ExpireLease, graph
  <2>2. QED
    BY <2>1 DEF memory, Covered, Followed, RecallOK, DomainOf, WithinCap
<1>3. CASE UNCHANGED vars
  BY <1>3 DEF vars, database, graph, memory, Covered, Followed, RecallOK, DomainOf, WithinCap
<1>4. QED
  BY <1>1, <1>2, <1>3 DEF Next

\* A run that finds no cache entry of earlier runs, and has no ceiling on its
\* queue, loses no child, wherever its processes stop and however many share it.
THEOREM NoChildIsLost ==
  DOMAIN EarlierCache = {} => (Spec => []NoLostChild)
<1>1. CASE MaxPendingQueue = 0
  <2>1. Init => Covered
    BY DEF Init, Covered, RecallOK, Replaying, EmptyTable
  <2>2. Covered => NoLostChild
    BY DEF Covered, Followed, NoLostChild
  <2>3. SUFFICES ASSUME DOMAIN EarlierCache = {} PROVE Spec => []NoLostChild
    OBVIOUS
  <2>4. WellFormed /\ Ledger /\ Covered /\ [Next]_vars => Covered'
    BY <1>1, <2>3, CoveredStep
  <2>5. QED
    BY <2>1, <2>2, <2>4, AlwaysWellFormed, AlwaysLedger, PTL DEF Spec
<1>2. CASE MaxPendingQueue # 0
  <2>1. NoLostChild
    BY <1>2 DEF NoLostChild
  <2>2. QED
    BY <2>1, PTL
<1>3. QED
  BY <1>1, <1>2
----
\* What one process at a time, breadth first and without the legacy queue,
\* makes of the table.  A task is expanded when its domain was, is or may still
\* be mapped at its depth.
Expanded(k) ==
  \/ tasks[k].status = "failed"
  \/ k[1] \in DOMAIN processed /\ processed[k[1]] = k[2]
  \/ ~Settled(tasks[k]) /\ k[1] \notin DOMAIN processed

\* The deeper a task the later its batch; two levels above it nothing is open;
\* on every level above it some task was expanded.
ByLevel ==
  /\ \A k \in DOMAIN tasks : tasks[k].created <= Cardinality(DOMAIN tasks)
  /\ \A j, k \in DOMAIN tasks :
       /\ j[2] < k[2] => tasks[j].created < tasks[k].created
       /\ j[2] + 1 < k[2] => Settled(tasks[j])
  /\ \A k \in DOMAIN tasks : \A n \in Nat :
       n < k[2] => \E j \in DOMAIN tasks : j[2] = n /\ Expanded(j)

\* Nothing is queued before the root is, or processed before it is queued.
Rooted ==
  /\ DOMAIN tasks # {} => <<Root, 0>> \in DOMAIN tasks
  /\ DOMAIN processed # {} => DOMAIN tasks # {}
  /\ IsFiniteSet(DOMAIN processed)

\* The domain a process is at was not processed when it looked, and is not yet.
Fresh == AtWork \ {"check", "complete"}

\* A process at work holds the only open delivery, on the shallowest open level.
TurnOK(p) ==
  /\ pc[p] \in AtWork =>
       /\ item[p].key \in DOMAIN tasks /\ tasks[item[p].key].status = "in_progress"
       /\ \A k \in DOMAIN tasks :
            /\ tasks[k].status = "in_progress" => k = item[p].key
            /\ k[2] < DepthOf(p) => Settled(tasks[k])
            /\ k[2] <= DepthOf(p) + 1
  /\ pc[p] \in Fresh => DomainOf(p) \notin DOMAIN processed
  /\ pc[p] \notin AtWork \cup {"off"} =>
       \A k \in DOMAIN tasks : tasks[k].status # "in_progress"

InOrder ==
  /\ ByLevel /\ Rooted /\ ShallowestFirst
  /\ \A p \in Procs : TurnOK(p)

\* A run has tasks once it has its row.
NoRunNoTask == run = "none" => DOMAIN tasks = {}

\* Rows that move without settling afresh, or succeed when their domain is
\* processed, stay in order.
LEMMA RowsMove ==
  ASSUME WellFormed, WellFormed', InOrder, Regular, UNCHANGED processed,
         DOMAIN tasks' = DOMAIN tasks,
         \A k \in DOMAIN tasks :
           /\ tasks'[k].created = tasks[k].created
           /\ Settled(tasks[k]) => tasks'[k].status = tasks[k].status
           /\ tasks'[k].status = "succeeded" =>
                tasks[k].status = "succeeded" \/ k[1] \in DOMAIN processed
  PROVE  ByLevel' /\ Rooted' /\ ShallowestFirst'
<1>1. \A k \in DOMAIN tasks : tasks'[k].status \in {"pending", "in_progress", "succeeded", "failed"}
  BY DEF WellFormed, DatabaseOK, TableOK, Table, Row
<1>2. \A k \in DOMAIN tasks : Expanded(k) => Expanded(k)'
  BY <1>1 DEF Expanded, Settled
<1>3. \A k \in DOMAIN tasks : Settled(tasks[k]) => Settled(tasks'[k])
  BY DEF Settled
<1>4. ByLevel'
  BY <1>2, <1>3 DEF InOrder, ByLevel
<1>5. Rooted' /\ ShallowestFirst'
  BY DEF InOrder, Rooted, ShallowestFirst, Settled
<1>6. QED
  BY <1>4, <1>5

\* The first row, the root's, is in order; where there is one nothing is added.
LEMMA RootAdded ==
  ASSUME WellFormed, WellFormed', InOrder, Regular, UNCHANGED processed,
         tasks' = EnqueueRunTask(tasks, {<<Root, 0>>})
  PROVE  /\ ByLevel' /\ Rooted' /\ ShallowestFirst'
         /\ \A k \in DOMAIN tasks' : tasks'[k].status = "in_progress" =>
              k \in DOMAIN tasks /\ tasks[k].status = "in_progress"
<1>1. DOMAIN tasks' = DOMAIN tasks \cup {<<Root, 0>>}
  BY DEF EnqueueRunTask, InsertOrIgnore
<1>2. \A k \in DOMAIN tasks' : tasks'[k] = IF k \in DOMAIN tasks THEN tasks[k] ELSE NewRow(tasks)
  BY <1>1 DEF EnqueueRunTask, InsertOrIgnore
<1>3. \A k \in DOMAIN tasks' : tasks'[k].status = "in_progress" =>
        k \in DOMAIN tasks /\ tasks[k].status = "in_progress"
  BY <1>2 DEF NewRow
<1>4. CASE DOMAIN tasks # {}
  <2>1. DOMAIN tasks' = DOMAIN tasks
    BY <1>1, <1>4 DEF InOrder, Rooted
  <2>2. \A k \in DOMAIN tasks : tasks'[k] = tasks[k]
    BY <1>2, <2>1
  <2>3. QED
    BY <1>3, <2>1, <2>2, RowsMove
<1>5. CASE DOMAIN tasks = {}
  <2>1. DOMAIN tasks' = {<<Root, 0>>} /\ DOMAIN processed = {}
    BY <1>1, <1>5 DEF InOrder, Rooted
  <2>2. tasks'[<<Root, 0>>].created = 1 /\ Cardinality(DOMAIN tasks') = 1
    <3>1. Cardinality(DOMAIN tasks) = 0
      BY <1>5, FS_EmptySet
    <3>2. tasks'[<<Root, 0>>] = NewRow(tasks)
      BY <1>2, <1>5, <2>1
    <3>3. Cardinality(DOMAIN tasks') = 1
      BY <2>1, FS_Singleton
    <3>4. QED
      BY <3>1, <3>2, <3>3 DEF NewRow
  <2>3. ByLevel'
    <3>1. \A k \in DOMAIN tasks' : k[2] \in Nat /\ k[2] = 0 /\ tasks'[k].created = 1
      BY <2>1, <2>2
    <3>2. ASSUME NEW k \in DOMAIN tasks' PROVE tasks'[k].created <= Cardinality(DOMAIN tasks')
      <4>1. tasks'[k].created = 1
        BY <3>1
      <4>2. QED
        BY <2>2, <4>1
    <3>3. ASSUME NEW j \in DOMAIN tasks', NEW k \in DOMAIN tasks'
          PROVE  ~(j[2] < k[2]) /\ ~(j[2] + 1 < k[2])
      <4>1. j[2] = 0 /\ k[2] = 0
        BY <3>1
      <4>2. QED
        BY <4>1
    <3>4. ASSUME NEW k \in DOMAIN tasks', NEW m \in Nat PROVE ~(m < k[2])
      <4>1. k[2] = 0
        BY <3>1
      <4>2. QED
        BY <4>1
    <3>5. QED
      BY <3>2, <3>3, <3>4 DEF ByLevel
  <2>4. Rooted' /\ ShallowestFirst'
    BY <2>1 DEF Rooted, ShallowestFirst, InOrder
  <2>5. QED
    BY <1>3, <2>3, <2>4
<1>6. QED
  BY <1>4, <1>5

\* A batch of a process at work is one level below its task and comes last.
LEMMA BatchAdded ==
  ASSUME WellFormed, WellFormed', InOrder, Regular, NEW p \in Procs, pc[p] \in Fresh,
         UNCHANGED processed, NEW children, PushChildren(p, children)
  PROVE  /\ ByLevel' /\ Rooted' /\ ShallowestFirst'
         /\ DOMAIN tasks \subseteq DOMAIN tasks'
         /\ \A k \in DOMAIN tasks' :
              \/ k \in DOMAIN tasks /\ tasks'[k] = tasks[k]
              \/ k[2] = DepthOf(p) + 1 /\ tasks'[k].status = "pending"
<1> DEFINE d == DepthOf(p)
           wanted == IF WithinCap(d + 1) THEN NewChildren(p, children) ELSE {}
           i == item[p].key
           n == Cardinality(DOMAIN tasks)
<1>1. PICK keys \in Admitted({<<c, d + 1>> : c \in wanted}) : tasks' = EnqueueRunTask(tasks, keys)
  BY DEF PushChildren
<1>2. \A k \in keys : k[2] = d + 1 /\ k[1] \notin DOMAIN processed
  <2>1. keys \subseteq {<<c, d + 1>> : c \in wanted}
    BY <1>1, AdmittedSome
  <2>2. \A c \in wanted : c \notin DOMAIN processed
    BY DEF NewChildren
  <2>3. QED
    BY <2>1, <2>2
<1>3. DOMAIN tasks' = DOMAIN tasks \cup keys
  BY <1>1 DEF EnqueueRunTask, InsertOrIgnore
<1>4. \A k \in DOMAIN tasks' : tasks'[k] = IF k \in DOMAIN tasks THEN tasks[k] ELSE NewRow(tasks)
  BY <1>1, <1>3 DEF EnqueueRunTask, InsertOrIgnore
<1>5. pc[p] \in AtWork /\ d \in Nat /\ i[2] = d /\ i[1] = DomainOf(p)
  BY ItemAtWork DEF WellFormed, Fresh, DepthOf, DomainOf
<1>6. /\ i \in DOMAIN tasks /\ ~Settled(tasks[i]) /\ i[1] \notin DOMAIN processed
      /\ \A k \in DOMAIN tasks : k[2] <= d + 1 /\ (k[2] < d => Settled(tasks[k]))
  BY <1>5 DEF InOrder, TurnOK, Settled
<1>7. /\ \A k \in DOMAIN tasks : k[2] \in Nat /\ tasks[k].created \in Nat
      /\ \A k \in DOMAIN tasks' : k[2] \in Nat
      /\ IsFiniteSet(DOMAIN tasks) /\ IsFiniteSet(DOMAIN tasks')
  BY DEF WellFormed, DatabaseOK, TableOK, Table, Row, Keys
<1>8. n \in Nat /\ Cardinality(DOMAIN tasks') \in Nat /\ n <= Cardinality(DOMAIN tasks')
  BY <1>3, <1>7, FS_CardinalityType, FS_Subset
<1>9. ASSUME NEW k \in DOMAIN tasks', k \notin DOMAIN tasks
      PROVE  tasks'[k].created = n + 1 /\ n + 1 <= Cardinality(DOMAIN tasks')
  <2>1. Cardinality(DOMAIN tasks \cup {k}) = n + 1 /\ IsFiniteSet(DOMAIN tasks \cup {k})
    BY <1>7, <1>9, FS_AddElement
  <2>2. DOMAIN tasks \cup {k} \subseteq DOMAIN tasks'
    BY <1>3, <1>9
  <2>3. n + 1 <= Cardinality(DOMAIN tasks')
    BY <1>7, <2>1, <2>2, FS_Subset
  <2>4. QED
    BY <1>4, <1>9, <2>3 DEF NewRow
<1>10. \A k \in DOMAIN tasks : tasks'[k] = tasks[k] /\ tasks[k].created <= n
  BY <1>3, <1>4 DEF InOrder, ByLevel
<1>11. \A k \in DOMAIN tasks' : k \in DOMAIN tasks \/ k[2] = d + 1
  BY <1>2, <1>3
<1> HIDE DEF n, d, i
<1>12. \A k \in DOMAIN tasks' : tasks'[k].created <= Cardinality(DOMAIN tasks')
  BY <1>7, <1>8, <1>9, <1>10
<1>13. ASSUME NEW j \in DOMAIN tasks', NEW k \in DOMAIN tasks'
       PROVE  /\ j[2] < k[2] => tasks'[j].created < tasks'[k].created
              /\ j[2] + 1 < k[2] => Settled(tasks'[j])
  <2>1. CASE j \in DOMAIN tasks /\ k \in DOMAIN tasks
    BY <1>10, <2>1 DEF InOrder, ByLevel
  <2>2. CASE j \in DOMAIN tasks /\ k \notin DOMAIN tasks
    <3>1. k[2] = d + 1 /\ tasks'[k].created = n + 1
      BY <1>9, <1>11, <2>2
    <3>2. tasks'[j].created <= n /\ (j[2] < d => Settled(tasks'[j]))
      BY <1>6, <1>10, <2>2
    <3>3. tasks'[j].created \in Nat /\ j[2] \in Nat
      BY <1>7, <1>10, <2>2
    <3>4. QED
      BY <1>5, <1>8, <3>1, <3>2, <3>3
  <2>3. CASE j \notin DOMAIN tasks
    <3>1. j[2] = d + 1 /\ k[2] <= d + 1
      BY <1>5, <1>6, <1>11, <2>3
    <3>2. QED
      BY <1>5, <1>7, <3>1
  <2>4. QED
    BY <2>1, <2>2, <2>3
<1>14. ASSUME NEW k \in DOMAIN tasks', NEW m \in Nat, m < k[2]
       PROVE  \E j \in DOMAIN tasks' : j[2] = m /\ Expanded(j)'
  <2>1. \A j \in DOMAIN tasks : Expanded(j) => j \in DOMAIN tasks' /\ Expanded(j)'
    BY <1>3, <1>10 DEF Expanded
  <2>2. CASE k \in DOMAIN tasks
    BY <1>14, <2>1, <2>2 DEF InOrder, ByLevel
  <2>3. CASE k \notin DOMAIN tasks /\ m < d
    <3>1. \E j \in DOMAIN tasks : j[2] = m /\ Expanded(j)
      BY <1>5, <1>6, <2>3 DEF InOrder, ByLevel
    <3>2. QED
      BY <2>1, <3>1
  <2>4. CASE k \notin DOMAIN tasks /\ m = d
    BY <1>5, <1>6, <2>1, <2>4 DEF Expanded
  <2>5. QED
    BY <1>5, <1>11, <1>14, <2>2, <2>3, <2>4
<1>15. ByLevel'
  BY <1>12, <1>13, <1>14 DEF ByLevel
<1>16. Rooted'
  BY <1>3, <1>6 DEF InOrder, Rooted
<1>17. ShallowestFirst'
  <2>1. \A k \in DOMAIN tasks' : k \in DOMAIN tasks \/ k[1] \notin DOMAIN processed
    BY <1>2, <1>3
  <2>2. QED
    BY <1>10, <2>1 DEF InOrder, ShallowestFirst
<1>18. QED
  BY <1>3, <1>4, <1>10, <1>11, <1>15, <1>16, <1>17 DEF NewRow, d

\* A domain is recorded at the depth of the open task that mapped it: its tasks
\* on shallower levels are settled, and have not succeeded.
LEMMA DomainMarked ==
  ASSUME WellFormed, WellFormed', Ledger, InOrder, Regular, NEW p \in Procs,
         MarkDomainProcessed(p)
  PROVE  ByLevel' /\ Rooted' /\ ShallowestFirst'
<1> DEFINE d == DepthOf(p)
           i == item[p].key
<1>1. /\ UNCHANGED tasks
      /\ DOMAIN processed' = DOMAIN processed \cup {DomainOf(p)}
      /\ \A a \in DOMAIN processed' : processed'[a] = IF a \in DOMAIN processed THEN processed[a] ELSE d
  BY DEF MarkDomainProcessed, InsertOrIgnore
<1>2. pc[p] \in AtWork /\ pc[p] \in Fresh /\ d \in Nat /\ i = <<DomainOf(p), d>>
  BY ItemAtWork DEF MarkDomainProcessed, WellFormed, Fresh, AtWork
<1>3. /\ i \in DOMAIN tasks /\ ~Settled(tasks[i]) /\ DomainOf(p) \notin DOMAIN processed
      /\ \A k \in DOMAIN tasks : k[2] <= d + 1 /\ (k[2] < d => Settled(tasks[k]))
  BY <1>2 DEF InOrder, TurnOK, Settled
<1>4. \A k \in DOMAIN tasks : k \in Keys /\ k[2] \in Nat /\ k = <<k[1], k[2]>>
  BY DEF WellFormed, DatabaseOK, TableOK, Table, Keys
<1> HIDE DEF d, i
<1>5. ASSUME NEW j \in DOMAIN tasks, j[2] <= d, Expanded(j)
      PROVE  Expanded(j)'
  <2>1. CASE j[1] = DomainOf(p) /\ j[2] = d
    BY <1>1, <1>3, <2>1 DEF Expanded
  <2>2. CASE j[1] = DomainOf(p) /\ j[2] < d
    <3>1. tasks[j].status = "failed"
      BY <1>3, <1>5, <2>2 DEF Expanded
    <3>2. QED
      BY <1>1, <3>1 DEF Expanded
  <2>3. CASE j[1] # DomainOf(p)
    BY <1>1, <1>5, <2>3 DEF Expanded
  <2>4. QED
    BY <1>2, <1>4, <1>5, <2>1, <2>2, <2>3
<1>6. ByLevel'
  <2>1. ASSUME NEW k \in DOMAIN tasks, NEW m \in Nat, m < k[2]
        PROVE  \E j \in DOMAIN tasks : j[2] = m /\ Expanded(j)'
    <3>1. PICK j \in DOMAIN tasks : j[2] = m /\ Expanded(j)
      BY <2>1 DEF InOrder, ByLevel
    <3>2. k[2] <= d + 1 /\ k[2] \in Nat
      BY <1>3, <1>4
    <3>3. m <= d
      BY <1>2, <2>1, <3>2
    <3>4. QED
      BY <1>5, <3>1, <3>3
  <2>2. QED
    BY <1>1, <2>1 DEF InOrder, ByLevel
<1>7. Rooted'
  BY <1>1, <1>3, FS_AddElement DEF InOrder, Rooted
<1>8. ShallowestFirst'
  <2>1. ASSUME NEW k \in DOMAIN tasks, k[1] \in DOMAIN processed', k[2] < processed'[k[1]]
        PROVE  tasks[k].status = "failed"
    <3>1. CASE k[1] \in DOMAIN processed
      BY <1>1, <2>1, <3>1 DEF InOrder, ShallowestFirst
    <3>2. CASE k[1] \notin DOMAIN processed
      <4>1. k[2] < d
        BY <1>1, <2>1, <3>2
      <4>2. Settled(tasks[k]) /\ tasks[k].status # "succeeded"
        BY <1>3, <3>2, <4>1 DEF Ledger, ProcessedBeforeSucceeded, TasksWith
      <4>3. QED
        BY <4>2 DEF Settled
    <3>3. QED
      BY <3>1, <3>2
  <2>2. QED
    BY <1>1, <2>1 DEF ShallowestFirst
<1>9. QED
  BY <1>6, <1>7, <1>8

\* The other processes are off, and off they may be.
LEMMA TurnFrame ==
  ASSUME NEW p \in Procs, \A q \in Procs \ {p} : pc'[q] = "off", TurnOK(p)',
         ByLevel', Rooted', ShallowestFirst'
  PROVE  InOrder'
<1>1. ASSUME NEW q \in Procs \ {p} PROVE TurnOK(q)'
  BY <1>1 DEF TurnOK, AtWork, Fresh
<1>2. QED
  BY <1>1 DEF InOrder

\* Rows that do not move stay in order.
LEMMA RowsStay ==
  ASSUME WellFormed, WellFormed', InOrder, Regular, UNCHANGED <<tasks, processed>>
  PROVE  ByLevel' /\ Rooted' /\ ShallowestFirst'
BY RowsMove

\* With no delivery open there is nothing to sweep.
LEMMA NothingToSweep ==
  ASSUME WellFormed, \A k \in DOMAIN tasks : tasks[k].status # "in_progress"
  PROVE  SweepExpired(tasks) = tasks
<1>1. SweepExpired(tasks) = [k \in DOMAIN tasks |-> tasks[k]]
  BY DEF SweepExpired
<1>2. QED
  BY <1>1 DEF WellFormed, DatabaseOK, TableOK, Table

\* A claim takes the shallowest open task.
LEMMA PopInOrder ==
  ASSUME WellFormed, WellFormed', InOrder, Regular, NEW p \in Procs, Pop(p)
  PROVE  ByLevel' /\ Rooted' /\ ShallowestFirst' /\ TurnOK(p)'
<1>1. \A k \in DOMAIN tasks : tasks[k].status # "in_progress"
  BY DEF Pop, InOrder, TurnOK, AtWork
<1>2. PICK k \in NextTasks(tasks) :
        /\ item'[p].key = k
        /\ tasks' = [tasks EXCEPT ![k] = ClaimRow(tasks[k])]
  BY <1>1, NothingToSweep, PopStep DEF WellFormed, MemoryOK
<1>3. /\ k \in DOMAIN tasks /\ tasks[k].status = "pending"
      /\ \A j \in RunnableTasks(tasks) : tasks[k].created <= tasks[j].created
  BY <1>2 DEF NextTasks, RunnableTasks
<1>4. /\ \A j \in DOMAIN tasks : j[2] \in Nat /\ tasks[j].created \in Nat
      /\ \A j \in DOMAIN tasks : tasks[j].status = "pending" => j \in RunnableTasks(tasks)
  BY DEF WellFormed, DatabaseOK, TableOK, Table, Row, RowOK, Keys, RunnableTasks
<1>5. ClaimRow(tasks[k]).status = "in_progress" /\ ClaimRow(tasks[k]).created = tasks[k].created
  BY <1>3 DEF ClaimRow, WellFormed, DatabaseOK, TableOK, Table, Row
<1>6. /\ DOMAIN tasks' = DOMAIN tasks /\ tasks'[k].status = "in_progress"
      /\ \A j \in DOMAIN tasks : tasks'[j].created = tasks[j].created
      /\ \A j \in DOMAIN tasks \ {k} : tasks'[j] = tasks[j]
  BY <1>2, <1>3, <1>5
<1>7. ByLevel' /\ Rooted' /\ ShallowestFirst'
  <2>1. UNCHANGED processed
    BY DEF Pop
  <2>2. ~Settled(tasks[k])
    BY <1>3 DEF Settled
  <2>3. QED
    BY <1>6, <2>1, <2>2, RowsMove
<1>8. ASSUME NEW j \in DOMAIN tasks
      PROVE  (j[2] < k[2] => Settled(tasks'[j])) /\ j[2] <= k[2] + 1
  <2>1. j[2] < k[2] => tasks[j].status # "pending" /\ j # k
    BY <1>3, <1>4 DEF InOrder, ByLevel
  <2>2. j[2] < k[2] => Settled(tasks'[j])
    BY <1>1, <1>6, <2>1 DEF Settled, WellFormed, DatabaseOK, TableOK, Table, Row
  <2>3. ~(k[2] + 1 < j[2])
    BY <1>3 DEF InOrder, ByLevel, Settled
  <2>4. QED
    BY <1>3, <1>4, <2>2, <2>3
<1>9. pc'[p] = "check"
  BY DEF Pop, Goto, WellFormed, MemoryOK
<1>10. \A j \in DOMAIN tasks' : tasks'[j].status = "in_progress" => j = k
  BY <1>1, <1>6
<1>11. TurnOK(p)'
  BY <1>2, <1>3, <1>6, <1>8, <1>9, <1>10 DEF TurnOK, DepthOf, Fresh, AtWork
<1>12. QED
  BY <1>7, <1>11

\* A process at work that changes neither rows nor item keeps its turn.
LEMMA TurnKept ==
  ASSUME InOrder, NEW p \in Procs, pc[p] \in AtWork, pc'[p] \in AtWork, DepthOf(p) \in Nat,
         UNCHANGED <<processed, item>>, DOMAIN tasks \subseteq DOMAIN tasks',
         \A k \in DOMAIN tasks' :
           \/ k \in DOMAIN tasks /\ tasks'[k] = tasks[k]
           \/ k[2] = DepthOf(p) + 1 /\ tasks'[k].status = "pending",
         pc'[p] \in Fresh => DomainOf(p) \notin DOMAIN processed
  PROVE  TurnOK(p)'
<1>1. DepthOf(p)' = DepthOf(p) /\ DomainOf(p)' = DomainOf(p)
  BY DEF DepthOf, DomainOf
<1>2. ASSUME NEW k \in DOMAIN tasks'
      PROVE  /\ tasks'[k].status = "in_progress" => k = item[p].key
             /\ k[2] < DepthOf(p) => Settled(tasks'[k])
             /\ k[2] <= DepthOf(p) + 1
  <2>1. CASE k \in DOMAIN tasks /\ tasks'[k] = tasks[k]
    BY <2>1 DEF InOrder, TurnOK
  <2>2. CASE k[2] = DepthOf(p) + 1 /\ tasks'[k].status = "pending"
    BY <2>2
  <2>3. QED
    BY <2>1, <2>2
<1>3. item[p].key \in DOMAIN tasks' /\ tasks'[item[p].key].status = "in_progress"
  <2>1. item[p].key \in DOMAIN tasks /\ tasks[item[p].key].status = "in_progress"
    BY DEF InOrder, TurnOK
  <2>2. item[p].key[2] = DepthOf(p) /\ DepthOf(p) # DepthOf(p) + 1
    BY DEF DepthOf
  <2>3. QED
    BY <2>1, <2>2
<1>4. QED
  BY <1>1, <1>2, <1>3 DEF TurnOK, AtWork

\* The steps of a process that is not at work.
LEMMA IdleInOrder ==
  ASSUME WellFormed, WellFormed', Alone, ~Overlap, InOrder, NoRunNoTask, Regular', NEW p \in Procs,
         CreateRun(p) \/ SeedNode(p) \/ SeedTask(p) \/ Resume(p) \/ ResumePending(p)
         \/ ResumeElsewhere(p) \/ SeedLegacy(p) \/ StartLoop(p) \/ LoopTest(p)
         \/ PopNothing(p) \/ JudgeRun(p) \/ MarkRunCompleted(p)
  PROVE  ByLevel' /\ Rooted' /\ ShallowestFirst' /\ TurnOK(p)' /\ Regular
<1>1. UNCHANGED processed
  BY DEF CreateRun, SeedNode, SeedTask, Resume, ResumePending, ResumeElsewhere, SeedLegacy,
         StartLoop, LoopTest, PopNothing, JudgeRun, MarkRunCompleted, database
<1>2. Regular
  BY DEF CreateRun, SeedNode, SeedTask, Resume, ResumePending, ResumeElsewhere, SeedLegacy,
         StartLoop, LoopTest, PopNothing, JudgeRun, MarkRunCompleted, history, Regular
<1>3. pc[p] \notin AtWork /\ pc'[p] \notin AtWork
  BY DEF CreateRun, SeedNode, SeedTask, Resume, ResumePending, ResumeElsewhere, SeedLegacy,
         StartLoop, LoopTest, PopNothing, JudgeRun, MarkRunCompleted, Verdicts, Forget, Goto,
         AtWork, WellFormed, MemoryOK
<1>4. CASE SeedTask(p) \/ SeedLegacy(p)
  <2>1. tasks' = EnqueueRunTask(tasks, {<<Root, 0>>})
    BY <1>4 DEF SeedTask, SeedLegacy, Regular
  <2>2. \A k \in DOMAIN tasks : tasks[k].status # "in_progress"
    BY <1>4 DEF SeedTask, SeedLegacy, InOrder, TurnOK, AtWork
  <2>3. /\ ByLevel' /\ Rooted' /\ ShallowestFirst'
        /\ \A k \in DOMAIN tasks' : tasks'[k].status # "in_progress"
    BY <1>1, <1>2, <2>1, <2>2, RootAdded
  <2>4. QED
    BY <1>2, <1>3, <2>3 DEF TurnOK, Fresh
<1>5. CASE Resume(p)
  <2>1. tasks' = RequeueInProgressTasks(tasks)
    BY <1>5 DEF Resume
  <2>2. \A k \in DOMAIN tasks :
          /\ GivenUp(tasks[k]).status \in {"pending", "failed"}
          /\ GivenUp(tasks[k]).created = tasks[k].created
    BY DEF GivenUp, WellFormed, DatabaseOK, TableOK, Table, Row
  <2>3. /\ DOMAIN tasks' = DOMAIN tasks
        /\ \A k \in DOMAIN tasks :
             tasks'[k] = IF tasks[k].status = "in_progress" THEN GivenUp(tasks[k]) ELSE tasks[k]
    BY <2>1 DEF RequeueInProgressTasks
  <2>4. ByLevel' /\ Rooted' /\ ShallowestFirst'
    BY <1>1, <1>2, <2>2, <2>3, RowsMove DEF Settled
  <2>5. QED
    BY <1>2, <1>3, <2>2, <2>3, <2>4 DEF TurnOK, Fresh
<1>6. CASE CreateRun(p)
  <2>1. UNCHANGED tasks /\ DOMAIN tasks = {}
    BY <1>6 DEF CreateRun, NoRunNoTask
  <2>2. QED
    BY <1>1, <1>2, <1>3, <2>1, RowsStay DEF TurnOK, Fresh
<1>7. CASE SeedNode(p) \/ ResumePending(p) \/ ResumeElsewhere(p) \/ StartLoop(p)
           \/ LoopTest(p) \/ PopNothing(p) \/ JudgeRun(p) \/ MarkRunCompleted(p)
  <2>1. \A k \in DOMAIN tasks : tasks[k].status # "in_progress"
    <3>1. pc[p] # "off"
      BY <1>7 DEF SeedNode, ResumePending, ResumeElsewhere, StartLoop, LoopTest, PopNothing,
                  JudgeRun, MarkRunCompleted, Verdicts
    <3>2. QED
      BY <1>3, <3>1 DEF InOrder, TurnOK
  <2>2. UNCHANGED tasks
    BY <1>7, <2>1, NothingToSweep
       DEF SeedNode, ResumePending, ResumeElsewhere, StartLoop, LoopTest, PopNothing, JudgeRun,
           MarkRunCompleted, database
  <2>3. QED
    BY <1>1, <1>2, <1>3, <2>1, <2>2, RowsStay DEF TurnOK, Fresh
<1>8. QED
  BY <1>4, <1>5, <1>6, <1>7

\* The steps of a process at work but the completion.
LEMMA WorkInOrder ==
  ASSUME WellFormed, WellFormed', Ledger, InOrder, Regular', NEW p \in Procs,
         Check(p) \/ Gather(p) \/ EnumerateSubdomains(p) \/ ReverseWhoisBatch(p)
         \/ ExpandAcquisitions(p) \/ UpsertDomainCache(p) \/ ReplayCachedObservations(p)
         \/ ReplayNode(p) \/ ReplayLineage(p) \/ ReplayPush(p) \/ ReplayDone(p) \/ MarkDomainProcessed(p)
  PROVE  ByLevel' /\ Rooted' /\ ShallowestFirst' /\ TurnOK(p)' /\ Regular
<1>1. Regular
  BY DEF Check, Gather, EnumerateSubdomains, ReverseWhoisBatch, ExpandAcquisitions,
         UpsertDomainCache, ReplayCachedObservations, ReplayNode, ReplayLineage, ReplayPush, ReplayDone,
         MarkDomainProcessed, history, Regular
<1>2. pc[p] \in AtWork /\ pc'[p] \in AtWork
  BY DEF Check, Gather, EnumerateSubdomains, ReverseWhoisBatch, ExpandAcquisitions,
         UpsertDomainCache, ReplayCachedObservations, ReplayNode, ReplayLineage, ReplayPush, ReplayDone,
         MarkDomainProcessed, Goto, AtWork, WellFormed, MemoryOK
<1>3. DepthOf(p) \in Nat
  BY <1>2, ItemAtWork DEF WellFormed
<1>4. UNCHANGED item
  BY DEF Check, Gather, EnumerateSubdomains, ReverseWhoisBatch, ExpandAcquisitions,
         UpsertDomainCache, ReplayCachedObservations, ReplayNode, ReplayLineage, ReplayPush, ReplayDone,
         MarkDomainProcessed, database
<1>5. CASE Check(p)
  <2>1. UNCHANGED <<tasks, processed>>
    BY <1>5 DEF Check, database
  <2>2. pc'[p] \in Fresh => DomainOf(p) \notin DOMAIN processed
    BY <1>5 DEF Check, Goto, Fresh, WellFormed, MemoryOK
  <2>3. TurnOK(p)'
    BY <1>2, <1>3, <1>4, <2>1, <2>2, TurnKept
  <2>4. QED
    BY <1>1, <2>1, <2>3, RowsStay
<1>6. CASE Gather(p) \/ UpsertDomainCache(p) \/ ReplayCachedObservations(p) \/ ReplayNode(p)
           \/ ReplayLineage(p) \/ ReplayDone(p)
  <2>1. UNCHANGED <<tasks, processed>>
    BY <1>6 DEF Gather, UpsertDomainCache, ReplayCachedObservations, ReplayNode, ReplayLineage,
                ReplayDone, database
  <2>2. pc[p] \in Fresh
    BY <1>6 DEF Gather, UpsertDomainCache, ReplayCachedObservations, ReplayNode, ReplayLineage, ReplayDone,
                Fresh, AtWork
  <2>3. DomainOf(p) \notin DOMAIN processed
    BY <2>2 DEF InOrder, TurnOK
  <2>4. TurnOK(p)'
    BY <1>2, <1>3, <1>4, <2>1, <2>3, TurnKept
  <2>5. QED
    BY <1>1, <2>1, <2>4, RowsStay
<1>7. CASE EnumerateSubdomains(p) \/ ReverseWhoisBatch(p) \/ ExpandAcquisitions(p) \/ ReplayPush(p)
  <2>1. UNCHANGED processed /\ \E children : PushChildren(p, children)
    BY <1>7 DEF EnumerateSubdomains, ReverseWhoisBatch, ExpandAcquisitions, AddChildren, ReplayPush
  <2>2. pc[p] \in Fresh
    BY <1>7 DEF EnumerateSubdomains, ReverseWhoisBatch, ExpandAcquisitions, ReplayPush, Fresh, AtWork
  <2>3. DomainOf(p) \notin DOMAIN processed
    BY <2>2 DEF InOrder, TurnOK
  <2>4. /\ ByLevel' /\ Rooted' /\ ShallowestFirst'
        /\ DOMAIN tasks \subseteq DOMAIN tasks'
        /\ \A k \in DOMAIN tasks' :
             \/ k \in DOMAIN tasks /\ tasks'[k] = tasks[k]
             \/ k[2] = DepthOf(p) + 1 /\ tasks'[k].status = "pending"
    BY <1>1, <2>1, <2>2, BatchAdded
  <2>5. TurnOK(p)'
    BY <1>2, <1>3, <1>4, <2>1, <2>3, <2>4, TurnKept
  <2>6. QED
    BY <1>1, <2>4, <2>5
<1>8. CASE MarkDomainProcessed(p)
  <2>1. UNCHANGED tasks /\ pc'[p] = "complete"
    BY <1>8 DEF MarkDomainProcessed, Goto, WellFormed, MemoryOK
  <2>2. TurnOK(p)'
    BY <1>2, <1>4, <2>1 DEF InOrder, TurnOK, DepthOf, DomainOf, Fresh, AtWork
  <2>3. QED
    BY <1>1, <1>8, <2>2, DomainMarked
<1>9. QED
  BY <1>5, <1>6, <1>7, <1>8

\* A completion settles the only open delivery.
LEMMA CompleteInOrder ==
  ASSUME WellFormed, WellFormed', Ledger, InOrder, Regular', NEW p \in Procs, CompleteTask(p)
  PROVE  ByLevel' /\ Rooted' /\ ShallowestFirst' /\ TurnOK(p)' /\ Regular
<1> DEFINE i == item[p].key
<1>1. Regular /\ UNCHANGED processed /\ pc[p] = "complete" /\ pc'[p] = "loop"
  BY DEF CompleteTask, Goto, history, Regular, WellFormed, MemoryOK
<1>2. /\ i \in DOMAIN tasks /\ tasks[i].status = "in_progress"
      /\ \A k \in DOMAIN tasks : tasks[k].status = "in_progress" => k = i
      /\ i[1] \in DOMAIN processed
  BY <1>1 DEF InOrder, TurnOK, AtWork, Ledger, ProcessOK, DomainOf
<1>3. tasks' = [tasks EXCEPT ![i] = [tasks[i] EXCEPT !.status = "succeeded", !.lease = "none"]]
  BY <1>2 DEF CompleteTask, CompleteRunTask
<1> HIDE DEF i
<1>4. /\ DOMAIN tasks' = DOMAIN tasks /\ \A k \in DOMAIN tasks \ {i} : tasks'[k] = tasks[k]
      /\ tasks'[i].status = "succeeded" /\ tasks'[i].created = tasks[i].created
  <2>1. tasks \in [DOMAIN tasks -> Row]
    BY DEF WellFormed, DatabaseOK, TableOK, Table
  <2>2. tasks[i] \in Row
    BY <1>2, <2>1
  <2>3. tasks'[i] = [tasks[i] EXCEPT !.status = "succeeded", !.lease = "none"]
    BY <1>2, <1>3, <2>1
  <2>4. tasks'[i].status = "succeeded" /\ tasks'[i].created = tasks[i].created
    BY <2>2, <2>3 DEF Row
  <2>5. QED
    BY <1>3, <2>1, <2>4
<1>5. ByLevel' /\ Rooted' /\ ShallowestFirst'
  <2>1. ~Settled(tasks[i])
    BY <1>2 DEF Settled
  <2>2. QED
    BY <1>1, <1>2, <1>4, <2>1, RowsMove
<1>6. TurnOK(p)'
  BY <1>1, <1>2, <1>4 DEF TurnOK, AtWork, Fresh
<1>7. QED
  BY <1>1, <1>5, <1>6

\* Every step of one process at a time keeps a regular crawl in order.
LEMMA InOrderStep ==
  ASSUME WellFormed, Alone, ~Overlap, Ledger, Regular => InOrder, NoRunNoTask, [Next]_vars
  PROVE  (Regular => InOrder)' /\ NoRunNoTask'
<1>1. WellFormed'
  BY WellFormedStep
<1>2. ASSUME NEW p \in Procs, CreateRun(p) \/ Resume(p) \/ Step(p) \/ Stop(p)
      PROVE  (Regular => InOrder)' /\ NoRunNoTask'
  <2>0. CreateRun(p) \/ Resume(p) \/ pc[p] # "off"
    BY <1>2 DEF SeedNode, SeedTask, ResumePending, ResumeElsewhere, SeedLegacy, StartLoop,
                LoopTest, Pop, PopNothing, Check, Gather, EnumerateSubdomains,
                ReverseWhoisBatch, ExpandAcquisitions, UpsertDomainCache,
                ReplayCachedObservations, ReplayNode, ReplayLineage, ReplayPush, ReplayDone,
                MarkDomainProcessed, CompleteTask, JudgeRun, MarkRunCompleted, Stop, Step,
                Verdicts
  <2>1. \A q \in Procs \ {p} : pc[q] = "off"
    BY <2>0, WorksAlone DEF CreateRun, Resume, Alone
  <2>2. \A q \in Procs \ {p} : pc'[q] = pc[q]
    BY <1>2 DEF CreateRun, SeedNode, SeedTask, Resume, ResumePending, ResumeElsewhere,
                SeedLegacy, StartLoop, LoopTest, Pop, PopNothing, Check, Gather,
                EnumerateSubdomains, ReverseWhoisBatch, ExpandAcquisitions, UpsertDomainCache,
                ReplayCachedObservations, ReplayNode, ReplayLineage, ReplayPush, ReplayDone,
                MarkDomainProcessed, CompleteTask, JudgeRun, MarkRunCompleted, Stop, Step,
                Forget, Goto, WellFormed, MemoryOK
  <2>3. NoRunNoTask'
    <3>1. run \in {"running", "partial"} \/ CreateRun(p)
      BY <2>0, WorksAlone DEF Resume
    <3>2. run' # "none"
      BY <1>2, <3>1
         DEF CreateRun, SeedNode, SeedTask, Resume, ResumePending, ResumeElsewhere,
             SeedLegacy, StartLoop, LoopTest, Pop, PopNothing, Check, Gather,
             EnumerateSubdomains, ReverseWhoisBatch, ExpandAcquisitions, UpsertDomainCache,
             ReplayCachedObservations, ReplayNode, ReplayLineage, ReplayPush, ReplayDone,
             MarkDomainProcessed, CompleteTask, JudgeRun, MarkRunCompleted, Stop, Step,
             Verdicts, database
    <3>3. QED
      BY <3>2 DEF NoRunNoTask
  <2>4. ASSUME Regular' PROVE InOrder'
    <3>1. legacy \subseteq legacy'
      BY <1>2 DEF CreateRun, SeedNode, SeedTask, Resume, ResumePending, ResumeElsewhere,
                  SeedLegacy, StartLoop, LoopTest, Pop, PopNothing, Check, Gather,
                  EnumerateSubdomains, ReverseWhoisBatch, ExpandAcquisitions, UpsertDomainCache,
                  ReplayCachedObservations, ReplayNode, ReplayLineage, ReplayPush, ReplayDone,
                  MarkDomainProcessed, CompleteTask, JudgeRun, MarkRunCompleted, Stop, Step,
                  history
    <3>2. Regular /\ InOrder
      BY <2>4, <3>1 DEF Regular
    <3>3. ByLevel' /\ Rooted' /\ ShallowestFirst' /\ TurnOK(p)'
      <4>1. CASE Stop(p)
        <5>1. UNCHANGED <<tasks, processed>> /\ pc'[p] = "off"
          BY <4>1 DEF Stop, Forget, Goto, database, WellFormed, MemoryOK
        <5>2. TurnOK(p)'
          BY <5>1 DEF TurnOK, Fresh, AtWork
        <5>3. QED
          BY <1>1, <3>2, <5>1, <5>2, RowsStay
      <4>2. CASE CreateRun(p) \/ Resume(p) \/ Step(p)
        BY <1>1, <2>4, <3>2, <4>2, IdleInOrder, PopInOrder, WorkInOrder, CompleteInOrder DEF Step
      <4>3. QED
        BY <1>2, <4>1, <4>2
    <3>4. QED
      BY <2>1, <2>2, <3>3, TurnFrame
  <2>5. QED
    BY <2>3, <2>4
<1>3. ASSUME NEW k \in DOMAIN tasks, LeaseExpires(k)
      PROVE  (Regular => InOrder)' /\ NoRunNoTask'
  <2>1. /\ DOMAIN tasks' = DOMAIN tasks
        /\ \A j \in DOMAIN tasks : /\ tasks'[j].status = tasks[j].status
                                   /\ tasks'[j].created = tasks[j].created
    BY <1>3 DEF LeaseExpires, ExpireLease, WellFormed, DatabaseOK, TableOK, Table, Row
  <2>2. UNCHANGED <<run, processed, memory, legacy>>
    BY <1>3 DEF LeaseExpires, history
  <2>3. Regular' => Regular /\ InOrder
    BY <2>2 DEF Regular
  <2>4. ASSUME Regular, InOrder PROVE InOrder'
    <3>1. ByLevel' /\ Rooted' /\ ShallowestFirst'
      BY <1>1, <2>1, <2>2, <2>4, RowsMove
    <3>2. \A p \in Procs : TurnOK(p)'
      BY <2>1, <2>2, <2>4 DEF InOrder, TurnOK, Settled, DepthOf, DomainOf, memory
    <3>3. QED
      BY <3>1, <3>2 DEF InOrder
  <2>5. QED
    BY <2>1, <2>2, <2>3, <2>4 DEF NoRunNoTask
<1>4. CASE UNCHANGED vars
  <2>1. UNCHANGED <<run, tasks, processed, pc, item, legacy>>
    BY <1>4 DEF vars, database, memory, history
  <2>2. (Regular => InOrder)'
    BY <2>1 DEF Regular, InOrder, ByLevel, Expanded, Rooted, ShallowestFirst, TurnOK,
                DepthOf, DomainOf
  <2>3. QED
    BY <2>1, <2>2 DEF NoRunNoTask
<1>5. QED
  BY <1>2, <1>3, <1>4 DEF Next

\* A regular crawl of one process at a time is always in order.
LEMMA AlwaysInOrder ==
  ASSUME ~Overlap
  PROVE  Spec => [](WellFormed /\ (Regular => InOrder))
<1>1. Init => Alone /\ (Regular => InOrder) /\ NoRunNoTask
  BY FS_EmptySet
     DEF Init, Alone, InOrder, ByLevel, Rooted, ShallowestFirst, TurnOK, NoRunNoTask,
         EmptyTable, AtWork, Fresh
<1>2. WellFormed /\ Alone /\ [Next]_vars => Alone'
  BY AloneKept
<1>3. WellFormed /\ Alone /\ Ledger /\ (Regular => InOrder) /\ NoRunNoTask /\ [Next]_vars
        => (Regular => InOrder)' /\ NoRunNoTask'
  BY InOrderStep
<1>4. QED
  BY <1>1, <1>2, <1>3, AlwaysWellFormed, AlwaysLedger, PTL DEF Spec

\* A regular crawl of one process at a time maps each domain at the smallest
\* depth it was enqueued at, unless the task of that depth failed.
THEOREM MappedAtSmallestDepth == ~Overlap => (Spec => []ShallowestFirst)
<1>1. WellFormed /\ (Regular => InOrder) => ShallowestFirst
  BY DEF InOrder, ShallowestFirst
<1>2. SUFFICES ASSUME ~Overlap PROVE Spec => []ShallowestFirst
  OBVIOUS
<1>3. QED
  BY <1>1, <1>2, AlwaysInOrder, PTL

\* A union is no larger than its parts together.
LEMMA UnionBound ==
  ASSUME NEW S, NEW T, IsFiniteSet(S), IsFiniteSet(T)
  PROVE  /\ IsFiniteSet(S \cup T)
         /\ Cardinality(S \cup T) <= Cardinality(S) + Cardinality(T)
<1>1. IsFiniteSet(S \cap T)
  BY FS_Subset
<1>2. /\ Cardinality(S) \in Nat /\ Cardinality(T) \in Nat
      /\ Cardinality(S \cap T) \in Nat
  BY <1>1, FS_CardinalityType
<1>3. /\ IsFiniteSet(S \cup T)
      /\ Cardinality(S \cup T) = Cardinality(S) + Cardinality(T) - Cardinality(S \cap T)
  BY FS_Union
<1>4. QED
  BY <1>2, <1>3

\* The levels two above a task were paid for, each by a domain or a failure.
LEMMA LevelsPaid ==
  ASSUME WellFormed, InOrder, NEW k \in DOMAIN tasks
  PROVE  k[2] <= 1 + Cardinality(DOMAIN processed) + Cardinality(TasksWith(tasks, "failed"))
<1> DEFINE done == DOMAIN processed
           failed == TasksWith(tasks, "failed")
           levels == 0..(k[2] - 2)
           mapped == {n \in levels : \E d \in done : processed[d] = n}
           lost == {n \in levels : \E j \in failed : j[2] = n}
           mapper == [n \in mapped |-> CHOOSE d \in done : processed[d] = n]
           loser == [n \in lost |-> CHOOSE j \in failed : j[2] = n]
<1>1. k[2] \in Nat /\ \A j \in DOMAIN tasks : j[2] \in Nat
  BY DEF WellFormed, DatabaseOK, TableOK, Table, Keys
<1>2. IsFiniteSet(done) /\ IsFiniteSet(failed)
  BY FS_Subset DEF InOrder, Rooted, TasksWith, WellFormed, DatabaseOK, TableOK, Table
<1>3. Cardinality(done) \in Nat /\ Cardinality(failed) \in Nat
  BY <1>2, FS_CardinalityType
<1>4. levels \subseteq mapped \cup lost
  <2>1. SUFFICES ASSUME NEW n \in levels PROVE n \in mapped \/ n \in lost
    OBVIOUS
  <2>2. n \in Nat /\ n < k[2] /\ n + 1 < k[2]
    BY <1>1
  <2>3. PICK j \in DOMAIN tasks : j[2] = n /\ Expanded(j)
    BY <2>2 DEF InOrder, ByLevel
  <2>4. Settled(tasks[j])
    BY <2>2, <2>3 DEF InOrder, ByLevel
  <2>5. j \in failed \/ (j[1] \in done /\ processed[j[1]] = n)
    BY <2>3, <2>4 DEF Expanded, TasksWith
  <2>6. QED
    BY <2>3, <2>5
<1>5. IsFiniteSet(mapped) /\ Cardinality(mapped) <= Cardinality(done)
  <2>1. \A n \in mapped : mapper[n] \in done /\ processed[mapper[n]] = n
    OBVIOUS
  <2>2. mapper \in Injection(mapped, done)
    BY <2>1 DEF Injection, IsInjective
  <2>3. QED
    BY <1>2, <2>2, FS_Injection
<1>6. IsFiniteSet(lost) /\ Cardinality(lost) <= Cardinality(failed)
  <2>1. \A n \in lost : loser[n] \in failed /\ loser[n][2] = n
    OBVIOUS
  <2>2. loser \in Injection(lost, failed)
    BY <2>1 DEF Injection, IsInjective
  <2>3. QED
    BY <1>2, <2>2, FS_Injection
<1>7. IsFiniteSet(mapped \cup lost)
      /\ Cardinality(mapped \cup lost) <= Cardinality(mapped) + Cardinality(lost)
  BY <1>5, <1>6, UnionBound
<1>8. Cardinality(levels) <= Cardinality(mapped \cup lost)
  BY <1>4, <1>7, FS_Subset
<1>9. k[2] - 1 <= Cardinality(levels) /\ Cardinality(levels) \in Nat
  <2>1. 0 \in Int /\ k[2] - 2 \in Int
    BY <1>1
  <2>2. Cardinality(levels) = IF 0 > k[2] - 2 THEN 0 ELSE (k[2] - 2) - 0 + 1
    BY <2>1, FS_Interval
  <2>3. QED
    BY <1>1, <2>2
<1> HIDE DEF mapped, lost, levels, done, failed
<1>10. /\ Cardinality(mapped) \in Nat /\ Cardinality(lost) \in Nat
       /\ Cardinality(mapped \cup lost) \in Nat
  BY <1>5, <1>6, <1>7, FS_CardinalityType
<1>11. k[2] <= 1 + Cardinality(done) + Cardinality(failed)
  BY <1>1, <1>3, <1>5, <1>6, <1>7, <1>8, <1>9, <1>10
<1>12. QED
  BY <1>11 DEF done, failed

\* However the domains lead to one another, a regular crawl of one process at a
\* time goes a level deeper only for a domain processed or a task failed.
THEOREM EveryLevelIsPaidFor == ~Overlap => (Spec => []DepthIsPaidFor)
<1>1. WellFormed /\ (Regular => InOrder) => DepthIsPaidFor
  BY LevelsPaid DEF DepthIsPaidFor
<1>2. SUFFICES ASSUME ~Overlap PROVE Spec => []DepthIsPaidFor
  OBVIOUS
<1>3. QED
  BY <1>1, <1>2, AlwaysInOrder, PTL
----
\* Reach is defined by recursion over the hops; what it is follows from the
\* smallest number of hops at which it could go wrong.
NatLess == {ss \in Nat \X Nat : ss[1] < ss[2]}

LEMMA NatLessWellFounded == IsWellFoundedOn(NatLess, Nat)
BY NatLessThanWellFounded DEF OpToRel, NatLess

\* A set of numbers has a smallest one.
LEMMA SmallestNumber ==
  ASSUME NEW G \in SUBSET Nat, G # {}
  PROVE  \E n \in G : \A m \in G : n <= m
<1>1. PICK n \in G : \A m \in G : <<m, n>> \notin NatLess
  BY NatLessWellFounded, WFMin
<1>2. ASSUME NEW m \in Nat, NEW k \in Nat
      PROVE  <<m, k>> \in NatLess <=> m < k
  BY DEF NatLess
<1>3. \A m \in G : ~(m < n)
  BY <1>1, <1>2
<1>4. QED
  BY <1>3

Hop(S) == S \cup UNION {Children(d) : d \in S}
Hops(f, N) == f = [n \in N |-> IF n = 0 THEN {Root} ELSE Hop(f[n - 1])]

\* Two functions that count hops agree where both are defined.
LEMMA HopsUnique ==
  ASSUME NEW n \in Nat, NEW M, 0 .. n \subseteq M, NEW f, NEW g, Hops(f, M), Hops(g, 0 .. n)
  PROVE  f[n] = g[n]
<1> DEFINE G == {m \in 0 .. n : f[m] # g[m]}
<1> SUFFICES ASSUME G # {} PROVE FALSE
  OBVIOUS
<1>1. PICK m \in G : \A k \in G : m <= k
  <2>1. G \in SUBSET Nat
    OBVIOUS
  <2> HIDE DEF G
  <2>2. QED
    BY <2>1, SmallestNumber
<1>2. m \in 0 .. n /\ m \in M /\ f[m] # g[m]
  BY <1>1
<1>3. f[m] = (IF m = 0 THEN {Root} ELSE Hop(f[m - 1])) /\ g[m] = (IF m = 0 THEN {Root} ELSE Hop(g[m - 1]))
  BY <1>2 DEF Hops
<1>4. m # 0
  BY <1>2, <1>3
<1>5. m - 1 \in 0 .. n /\ m - 1 \notin G
  BY <1>1, <1>4
<1>6. f[m - 1] = g[m - 1]
  BY <1>5
<1>7. QED
  BY <1>2, <1>3, <1>6

LEMMA HopsExist ==
  ASSUME NEW n \in Nat
  PROVE  \E f : Hops(f, 0 .. n)
<1> DEFINE G == {m \in Nat : ~ \E f : Hops(f, 0 .. m)}
<1> SUFFICES ASSUME G # {} PROVE FALSE
  OBVIOUS
<1>1. PICK m \in G : \A k \in G : m <= k
  BY SmallestNumber
<1>2. CASE m = 0
  <2> DEFINE f == [k \in 0 .. 0 |-> {Root}]
  <2>1. Hops(f, 0 .. 0)
    BY DEF Hops
  <2>2. QED
    BY <1>1, <1>2, <2>1
<1>3. CASE m # 0
  <2>1. PICK f : Hops(f, 0 .. (m - 1))
    <3>1. m - 1 \in Nat /\ m - 1 \notin G
      BY <1>1, <1>3
    <3>2. QED
      BY <3>1
  <2>2. m \in Nat
    BY <1>1
  <2> DEFINE g == [k \in 0 .. m |-> IF k = m THEN Hop(f[m - 1]) ELSE f[k]]
  <2>3. \A k \in 0 .. m : g[k] = IF k = 0 THEN {Root} ELSE Hop(g[k - 1])
    <3>1. ASSUME NEW k \in 0 .. m, k # m PROVE g[k] = IF k = 0 THEN {Root} ELSE Hop(g[k - 1])
      <4>1. k \in 0 .. (m - 1)
        BY <1>1, <3>1
      <4> HIDE DEF G
      <4>2. f[k] = IF k = 0 THEN {Root} ELSE Hop(f[k - 1])
        BY <2>1, <4>1 DEF Hops
      <4>3. k # 0 => g[k - 1] = f[k - 1]
        BY <2>2, <4>1
      <4>4. QED
        BY <3>1, <4>2, <4>3
    <3>2. g[m] = Hop(g[m - 1])
      <4>1. m \in 0 .. m /\ m - 1 \in 0 .. m /\ m - 1 # m
        BY <1>1, <1>3
      <4>2. g[m] = Hop(f[m - 1]) /\ g[m - 1] = f[m - 1]
        BY <4>1
      <4>3. QED
        BY <4>2
    <3>3. QED
      BY <1>3, <3>1, <3>2
  <2>4. g = [k \in 0 .. m |-> g[k]]
    OBVIOUS
  <2> HIDE DEF g
  <2>5. Hops(g, 0 .. m)
    BY <2>3, <2>4 DEF Hops
  <2>6. QED
    BY <1>1, <2>5
<1>4. QED
  BY <1>2, <1>3

\* Reach begins at the root and follows every child of what it has.
LEMMA ReachSteps ==
  /\ Reach[0] = {Root}
  /\ \A n \in Nat : Reach[n + 1] = Hop(Reach[n])
<1> DEFINE F(n) == CHOOSE f : Hops(f, 0 .. n)
           g == [n \in Nat |-> F(n)[n]]
<1>1. \A n \in Nat : Hops(F(n), 0 .. n)
  BY HopsExist
<1> HIDE DEF F
<1>2. ASSUME NEW n \in Nat
      PROVE  g[n] = IF n = 0 THEN {Root} ELSE Hop(g[n - 1])
  <2>1. F(n)[n] = IF n = 0 THEN {Root} ELSE Hop(F(n)[n - 1])
    BY <1>1 DEF Hops
  <2>2. ASSUME n # 0 PROVE F(n)[n - 1] = F(n - 1)[n - 1]
    <3>1. n - 1 \in Nat /\ 0 .. (n - 1) \subseteq 0 .. n
      BY <2>2
    <3>2. QED
      BY <1>1, <3>1, HopsUnique
  <2>3. QED
    BY <2>1, <2>2
<1>3. g = [n \in Nat |-> g[n]]
  OBVIOUS
<1> HIDE DEF g
<1>4. Hops(g, Nat)
  BY <1>2, <1>3 DEF Hops
<1>5. Reach = CHOOSE f : Hops(f, Nat)
  BY Zenon DEF Reach, Hops, Hop
<1>6. Hops(Reach, Nat)
  BY <1>4, <1>5
<1>7. \A n \in Nat : Reach[n] = IF n = 0 THEN {Root} ELSE Hop(Reach[n - 1])
  BY <1>6 DEF Hops
<1>8. Reach[0] = {Root}
  BY <1>7
<1>9. ASSUME NEW n \in Nat PROVE Reach[n + 1] = Hop(Reach[n])
  <2>1. n + 1 \in Nat /\ n + 1 # 0 /\ (n + 1) - 1 = n
    OBVIOUS
  <2>2. Reach[n + 1] = Hop(Reach[(n + 1) - 1])
    BY <1>7, <2>1
  <2>3. QED
    BY <2>1, <2>2
<1>10. QED
  BY <1>8, <1>9

\* More hops reach no less.
LEMMA ReachGrows ==
  ASSUME NEW n \in Nat, NEW m \in Nat, n <= m
  PROVE  Reach[n] \subseteq Reach[m]
<1> DEFINE G == {k \in Nat : n <= k /\ ~(Reach[n] \subseteq Reach[k])}
<1> SUFFICES ASSUME G # {} PROVE FALSE
  OBVIOUS
<1>1. PICK k \in G : \A j \in G : k <= j
  BY SmallestNumber
<1>2. k # n
  BY <1>1
<1>3. k - 1 \in Nat /\ n <= k - 1 /\ k - 1 \notin G
  BY <1>1, <1>2
<1>4. Reach[k] = Hop(Reach[k - 1])
  BY <1>1, <1>3, ReachSteps
<1>5. QED
  BY <1>1, <1>3, <1>4 DEF Hop
----
\* Without the legacy queue, a task is within the cap and its domain no more
\* hops away from the root than its depth says.  The same holds of what a
\* process has in hand, and what it collected or replays are its domain's
\* children.
Close(d, n) == WithinCap(n) /\ d \in Reach[n]

NearbyProcess(p) ==
  /\ pc[p] \in AtWork => Close(DomainOf(p), DepthOf(p))
  /\ \A c \in collected[p] : pc[p] \in AtWork /\ c \in Children(DomainOf(p))
  /\ pc[p] \in Replaying => \A i \in DOMAIN todo[p] : todo[p][i] \in Children(DomainOf(p))

Nearby ==
  /\ \A k \in DOMAIN tasks : Close(k[1], k[2])
  /\ \A d \in DOMAIN processed : Close(d, processed[d])
  /\ \A d \in DOMAIN cache : cache[d] \subseteq Children(d)
  /\ \A p \in Procs : NearbyProcess(p)

\* The root is where the counting starts, within every cap.
LEMMA RootClose == Close(Root, 0)
BY ReachSteps, CrawlAssumption DEF Close, WithinCap

\* A child is one hop further than its domain.
LEMMA ChildClose ==
  ASSUME NEW d, NEW n \in Nat, Close(d, n), NEW c \in Children(d), WithinCap(n + 1)
  PROVE  Close(c, n + 1)
BY ReachSteps DEF Close, Hop

\* A batch of children puts nothing in the queue that is too far.
LEMMA PushClose ==
  ASSUME WellFormed, Nearby, NEW p \in Procs, pc[p] \in AtWork,
         NEW children \in SUBSET Children(DomainOf(p)), PushChildren(p, children)
  PROVE  \A k \in DOMAIN tasks' : k \in DOMAIN tasks \/ Close(k[1], k[2])
<1> DEFINE depth == DepthOf(p) + 1
           wanted == IF WithinCap(depth) THEN NewChildren(p, children) ELSE {}
           all == {<<c, depth>> : c \in wanted}
<1>1. PICK keys \in Admitted(all) : tasks' = EnqueueRunTask(tasks, keys)
  BY DEF PushChildren
<1>2. DOMAIN tasks' = DOMAIN tasks \cup keys /\ keys \subseteq all
  BY <1>1, AdmittedSome DEF EnqueueRunTask, InsertOrIgnore
<1>3. Close(DomainOf(p), DepthOf(p)) /\ DepthOf(p) \in Nat
  BY ItemAtWork DEF Nearby, NearbyProcess, WellFormed
<1>4. ASSUME NEW c \in wanted PROVE Close(c, depth)
  <2>1. c \in children /\ WithinCap(depth)
    BY <1>4 DEF NewChildren
  <2>2. QED
    BY <1>3, <2>1, ChildClose
<1>5. QED
  BY <1>2, <1>4

\* What a step of one process must show to keep everything nearby.
LEMMA NearbyFrame ==
  ASSUME WellFormed, Nearby, NEW p \in Procs, NearbyProcess(p)',
         \A q \in Procs \ {p} : /\ pc'[q] = pc[q] /\ item'[q] = item[q]
                                /\ collected'[q] = collected[q] /\ todo'[q] = todo[q],
         \A k \in DOMAIN tasks' : k \in DOMAIN tasks \/ Close(k[1], k[2]),
         \A d \in DOMAIN processed' :
           \/ d \in DOMAIN processed /\ processed'[d] = processed[d]
           \/ Close(d, processed'[d]),
         \A d \in DOMAIN cache' :
           \/ d \in DOMAIN cache /\ cache'[d] = cache[d]
           \/ cache'[d] \subseteq Children(d)
  PROVE  Nearby'
<1>1. \A k \in DOMAIN tasks' : Close(k[1], k[2])
  BY DEF Nearby
<1>2. \A d \in DOMAIN processed' : Close(d, processed'[d])
  BY DEF Nearby
<1>3. \A d \in DOMAIN cache' : cache'[d] \subseteq Children(d)
  BY DEF Nearby
<1>4. \A q \in Procs : NearbyProcess(q)'
  <2>1. ASSUME NEW q \in Procs \ {p} PROVE NearbyProcess(q)'
    BY DEF Nearby, NearbyProcess, DomainOf, DepthOf, Close
  <2>2. QED
    BY <2>1
<1>5. QED
  BY <1>1, <1>2, <1>3, <1>4 DEF Nearby, Close

\* Starting and resuming put only the root in the queue, unless the legacy
\* queue has another domain.
LEMMA StartNearby ==
  ASSUME WellFormed, Nearby, Regular', NEW p \in Procs,
         CreateRun(p) \/ SeedNode(p) \/ SeedTask(p) \/ Resume(p) \/ ResumePending(p)
         \/ ResumeElsewhere(p) \/ SeedLegacy(p) \/ StartLoop(p)
  PROVE  Nearby'
<1>1. UNCHANGED <<processed, cache, item, collected>>
  BY DEF CreateRun, SeedNode, SeedTask, Resume, ResumePending, ResumeElsewhere, SeedLegacy,
         StartLoop, database, graph
<1>2. /\ pc[p] \notin AtWork /\ pc'[p] \notin AtWork /\ pc'[p] \notin Replaying
      /\ \A q \in Procs \ {p} : pc'[q] = pc[q] /\ todo'[q] = todo[q]
  BY DEF CreateRun, SeedNode, SeedTask, Resume, ResumePending, ResumeElsewhere, SeedLegacy,
         StartLoop, Goto, AtWork, Replaying, WellFormed, MemoryOK
<1>3. NearbyProcess(p)'
  BY <1>1, <1>2 DEF Nearby, NearbyProcess
<1>4. \A k \in DOMAIN tasks' : k \in DOMAIN tasks \/ Close(k[1], k[2])
  <2>1. CASE SeedTask(p) \/ SeedLegacy(p)
    <3>1. tasks' = EnqueueRunTask(tasks, {<<Root, 0>>})
      BY <2>1 DEF SeedTask, SeedLegacy, Regular
    <3>2. DOMAIN tasks' = DOMAIN tasks \cup {<<Root, 0>>}
      BY <3>1 DEF EnqueueRunTask, InsertOrIgnore
    <3>3. QED
      BY <3>2, RootClose
  <2>2. CASE Resume(p)
    BY <2>2 DEF Resume, RequeueInProgressTasks
  <2>3. CASE CreateRun(p) \/ SeedNode(p) \/ ResumePending(p) \/ ResumeElsewhere(p) \/ StartLoop(p)
    BY <2>3 DEF CreateRun, SeedNode, ResumePending, ResumeElsewhere, StartLoop, database
  <2>4. QED
    BY <2>1, <2>2, <2>3
<1>5. QED
  BY <1>1, <1>2, <1>3, <1>4, NearbyFrame

\* The loop's own steps hand over what the queue and the cache have.
LEMMA LoopNearby ==
  ASSUME WellFormed, Nearby, NEW p \in Procs,
         LoopTest(p) \/ Pop(p) \/ PopNothing(p) \/ Check(p) \/ CompleteTask(p)
         \/ JudgeRun(p) \/ MarkRunCompleted(p) \/ Stop(p)
  PROVE  Nearby'
<1>1. UNCHANGED <<processed, cache>>
  BY DEF LoopTest, Pop, PopNothing, Check, CompleteTask, JudgeRun, MarkRunCompleted, Stop,
         database, graph
<1>2. \A q \in Procs \ {p} : /\ pc'[q] = pc[q] /\ item'[q] = item[q]
                             /\ collected'[q] = collected[q] /\ todo'[q] = todo[q]
  BY DEF LoopTest, Pop, PopNothing, Check, CompleteTask, JudgeRun, MarkRunCompleted, Stop,
         Forget, Goto, WellFormed, MemoryOK
<1>3. DOMAIN tasks' = DOMAIN tasks
  <2>1. CASE Pop(p) \/ PopNothing(p)
    BY <2>1 DEF Pop, PopNothing, SweepExpired
  <2>2. CASE CompleteTask(p)
    BY <2>2 DEF CompleteTask, CompleteRunTask
  <2>3. CASE LoopTest(p) \/ Check(p) \/ JudgeRun(p) \/ MarkRunCompleted(p) \/ Stop(p)
    BY <2>3 DEF LoopTest, Check, JudgeRun, MarkRunCompleted, Stop, database
  <2>4. QED
    BY <2>1, <2>2, <2>3
<1>4. NearbyProcess(p)'
  <2>1. CASE Pop(p)
    <3>1. PICK k \in NextTasks(SweepExpired(tasks)) :
            item' = [item EXCEPT ![p] =
                       [key |-> k, attempt |-> ClaimRow(SweepExpired(tasks)[k]).attempts]]
      BY <2>1, PopStep
    <3>2. k \in DOMAIN tasks
      BY <3>1 DEF NextTasks, RunnableTasks, SweepExpired
    <3>3. item'[p].key = k
      BY <3>1 DEF WellFormed, MemoryOK
    <3>4. Close(DomainOf(p)', DepthOf(p)')
      BY <3>2, <3>3 DEF Nearby, DomainOf, DepthOf
    <3>5. collected'[p] = {} /\ pc'[p] \notin Replaying
      BY <2>1 DEF Pop, Goto, AtWork, Replaying, WellFormed, MemoryOK, Nearby, NearbyProcess
    <3>6. QED
      BY <3>4, <3>5 DEF NearbyProcess, Close
  <2>2. CASE Check(p)
    <3>1. pc[p] \in AtWork /\ pc'[p] \in AtWork /\ UNCHANGED <<item, collected>>
      BY <2>2 DEF Check, Goto, AtWork, WellFormed, MemoryOK
    <3>2. pc'[p] \in Replaying => \A i \in DOMAIN todo'[p] : todo'[p][i] \in Children(DomainOf(p))
      <4>1. SUFFICES ASSUME pc'[p] \in Replaying, NEW i \in DOMAIN todo'[p]
                     PROVE  todo'[p][i] \in Children(DomainOf(p))
        OBVIOUS
      <4>2. PICK list \in Listings(cache[DomainOf(p)]) :
              DomainOf(p) \in DOMAIN cache /\ todo'[p] = list
        BY <2>2, <4>1 DEF Check, Goto, Replaying, WellFormed, MemoryOK
      <4>3. todo'[p][i] \in cache[DomainOf(p)]
        BY <4>1, <4>2 DEF Listings
      <4>4. QED
        BY <4>2, <4>3 DEF Nearby
    <3>3. QED
      BY <3>1, <3>2 DEF Nearby, NearbyProcess, DomainOf, DepthOf, Close
  <2>3. CASE LoopTest(p) \/ JudgeRun(p)
    <3>1. /\ pc[p] \notin AtWork /\ pc'[p] \notin AtWork /\ pc'[p] \notin Replaying
          /\ UNCHANGED collected
      BY <2>3 DEF LoopTest, JudgeRun, Goto, AtWork, Replaying, Verdicts, WellFormed, MemoryOK
    <3>2. QED
      BY <3>1 DEF Nearby, NearbyProcess
  <2>4. CASE PopNothing(p) \/ CompleteTask(p) \/ MarkRunCompleted(p) \/ Stop(p)
    <3>1. pc'[p] \notin AtWork /\ pc'[p] \notin Replaying /\ collected'[p] = {}
      BY <2>4 DEF PopNothing, CompleteTask, MarkRunCompleted, Stop, Forget, Goto, AtWork,
                  Replaying, WellFormed, MemoryOK
    <3>2. QED
      BY <3>1 DEF NearbyProcess
  <2>5. QED
    BY <2>1, <2>2, <2>3, <2>4
<1>5. QED
  BY <1>1, <1>2, <1>3, <1>4, NearbyFrame

\* Mapping a domain finds its children, and marks it at the depth of its task.
LEMMA ExpandNearby ==
  ASSUME WellFormed, Nearby, NEW p \in Procs,
         Gather(p) \/ EnumerateSubdomains(p) \/ ReverseWhoisBatch(p) \/ ExpandAcquisitions(p)
         \/ UpsertDomainCache(p) \/ MarkDomainProcessed(p)
  PROVE  Nearby'
<1>1. /\ pc[p] \in AtWork /\ pc'[p] \in AtWork /\ pc'[p] \notin Replaying
      /\ UNCHANGED <<item, todo>> /\ \A q \in Procs \ {p} : pc'[q] = pc[q]
  BY DEF Gather, EnumerateSubdomains, ReverseWhoisBatch, ExpandAcquisitions, UpsertDomainCache,
         MarkDomainProcessed, Goto, AtWork, Replaying, WellFormed, MemoryOK
<1>2. Close(DomainOf(p), DepthOf(p)) /\ DomainOf(p)' = DomainOf(p) /\ DepthOf(p)' = DepthOf(p)
  BY <1>1 DEF Nearby, NearbyProcess, DomainOf, DepthOf
<1>3. \A c \in collected[p] : c \in Children(DomainOf(p))
  BY DEF Nearby, NearbyProcess
<1>4. CASE Gather(p) \/ UpsertDomainCache(p) \/ MarkDomainProcessed(p)
  <2>1. UNCHANGED <<tasks, collected>>
    BY <1>4 DEF Gather, UpsertDomainCache, MarkDomainProcessed, graph
  <2>2. NearbyProcess(p)'
    BY <1>1, <1>2, <1>3, <2>1 DEF NearbyProcess, Close
  <2>3. \A d \in DOMAIN processed' :
          \/ d \in DOMAIN processed /\ processed'[d] = processed[d]
          \/ Close(d, processed'[d])
    <3>1. CASE MarkDomainProcessed(p)
      BY <1>2, <3>1 DEF MarkDomainProcessed, InsertOrIgnore
    <3>2. CASE ~MarkDomainProcessed(p)
      BY <1>4, <3>2 DEF Gather, UpsertDomainCache
    <3>3. QED
      BY <3>1, <3>2
  <2>4. \A d \in DOMAIN cache' :
          \/ d \in DOMAIN cache /\ cache'[d] = cache[d]
          \/ cache'[d] \subseteq Children(d)
    <3>1. CASE UpsertDomainCache(p)
      BY <1>3, <3>1 DEF UpsertDomainCache
    <3>2. CASE ~UpsertDomainCache(p)
      BY <1>4, <3>2 DEF Gather, MarkDomainProcessed
    <3>3. QED
      BY <3>1, <3>2
  <2>5. QED
    BY <1>1, <2>1, <2>2, <2>3, <2>4, NearbyFrame
<1>5. CASE EnumerateSubdomains(p) \/ ReverseWhoisBatch(p) \/ ExpandAcquisitions(p)
  <2>1. PICK found \in SUBSET Children(DomainOf(p)) : AddChildren(p, found)
    BY <1>5 DEF EnumerateSubdomains, ReverseWhoisBatch, ExpandAcquisitions, Searched, Children
  <2>2. UNCHANGED <<processed, cache>>
    BY <1>5 DEF EnumerateSubdomains, ReverseWhoisBatch, ExpandAcquisitions
  <2>3. /\ collected'[p] = collected[p] \cup found
        /\ \A q \in Procs \ {p} : collected'[q] = collected[q]
    BY <2>1 DEF AddChildren, WellFormed, MemoryOK
  <2>4. NearbyProcess(p)'
    BY <1>1, <1>2, <1>3, <2>3 DEF NearbyProcess, Close
  <2>5. \A k \in DOMAIN tasks' : k \in DOMAIN tasks \/ Close(k[1], k[2])
    BY <1>1, <2>1, PushClose DEF AddChildren
  <2>6. QED
    BY <1>1, <2>2, <2>3, <2>4, <2>5, NearbyFrame
<1>6. QED
  BY <1>4, <1>5

\* A replay follows the children the cache lists.
LEMMA ReplayNearby ==
  ASSUME WellFormed, Nearby, NEW p \in Procs,
         ReplayCachedObservations(p) \/ ReplayNode(p) \/ ReplayLineage(p) \/ ReplayPush(p)
         \/ ReplayDone(p)
  PROVE  Nearby'
<1>1. /\ UNCHANGED <<processed, cache, item, collected>>
      /\ pc[p] \in Replaying /\ pc[p] \in AtWork /\ pc'[p] \in AtWork
      /\ \A q \in Procs \ {p} : pc'[q] = pc[q] /\ todo'[q] = todo[q]
  BY DEF ReplayCachedObservations, ReplayNode, ReplayLineage, ReplayPush, ReplayDone, Goto,
         Replaying, AtWork,
         database, WellFormed, MemoryOK
<1>2. \A i \in DOMAIN todo[p] : todo[p][i] \in Children(DomainOf(p))
  BY <1>1 DEF Nearby, NearbyProcess
<1>3. todo[p] \in Seq(Domains)
  BY DEF WellFormed, MemoryOK
<1>4. \A i \in DOMAIN todo'[p] : todo'[p][i] \in Children(DomainOf(p))
  <2>1. CASE ReplayPush(p)
    <3>1. todo[p] # <<>> /\ todo'[p] = Tail(todo[p])
      BY <2>1 DEF ReplayPush, WellFormed, Control, MemoryOK
    <3>2. \A i \in DOMAIN Tail(todo[p]) : i + 1 \in DOMAIN todo[p] /\ Tail(todo[p])[i] = todo[p][i + 1]
      BY <1>3, <3>1
    <3>3. QED
      BY <1>2, <3>1, <3>2
  <2>2. CASE ~ReplayPush(p)
    BY <1>2, <2>2 DEF ReplayCachedObservations, ReplayNode, ReplayLineage, ReplayDone
  <2>3. QED
    BY <2>1, <2>2
<1>5. \A k \in DOMAIN tasks' : k \in DOMAIN tasks \/ Close(k[1], k[2])
  <2>1. CASE ReplayPush(p)
    <3>1. todo[p] # <<>>
      BY <2>1 DEF ReplayPush, WellFormed, Control
    <3>2. 1 \in DOMAIN todo[p] /\ Head(todo[p]) = todo[p][1]
      BY <1>3, <3>1
    <3>3. {Head(todo[p])} \in SUBSET Children(DomainOf(p))
      BY <1>2, <3>2
    <3>4. QED
      BY <1>1, <2>1, <3>3, PushClose DEF ReplayPush
  <2>2. CASE ~ReplayPush(p)
    BY <2>2 DEF ReplayCachedObservations, ReplayNode, ReplayLineage, ReplayDone, database
  <2>3. QED
    BY <2>1, <2>2
<1>6. NearbyProcess(p)'
  BY <1>1, <1>4 DEF Nearby, NearbyProcess, DomainOf, DepthOf, Close
<1>7. QED
  BY <1>1, <1>5, <1>6, NearbyFrame

\* Every step of a run that took no legacy queue keeps everything nearby.
LEMMA NearbyStep ==
  ASSUME WellFormed, Nearby, Regular', [Next]_vars
  PROVE  Nearby'
<1>1. ASSUME NEW p \in Procs, CreateRun(p) \/ Resume(p) \/ Step(p) \/ Stop(p)
      PROVE  Nearby'
  BY <1>1, StartNearby, LoopNearby, ExpandNearby, ReplayNearby DEF Step
<1>2. ASSUME NEW k \in DOMAIN tasks, LeaseExpires(k)
      PROVE  Nearby'
  <2>1. DOMAIN tasks' = DOMAIN tasks /\ UNCHANGED <<processed, cache, memory>>
    BY <1>2 DEF LeaseExpires, ExpireLease
  <2>2. QED
    BY <2>1 DEF memory, Nearby, NearbyProcess, DomainOf, DepthOf, Close
<1>3. CASE UNCHANGED vars
  BY <1>3 DEF vars, database, memory, Nearby, NearbyProcess, DomainOf, DepthOf, Close
<1>4. QED
  BY <1>1, <1>2, <1>3 DEF Next

\* The legacy queue, once taken, stays taken.
LEMMA RegularBefore ==
  ASSUME [Next]_vars, Regular'
  PROVE  Regular
<1>1. legacy \subseteq legacy'
  <2>1. ASSUME NEW p \in Procs, CreateRun(p) \/ Resume(p) \/ Step(p) \/ Stop(p)
        PROVE  legacy \subseteq legacy'
    BY <2>1
       DEF Step, CreateRun, Resume, Stop, SeedNode, SeedTask, ResumePending, ResumeElsewhere,
           SeedLegacy, StartLoop, LoopTest, Pop, PopNothing, Check, Gather, EnumerateSubdomains,
           ReverseWhoisBatch, ExpandAcquisitions, UpsertDomainCache, ReplayCachedObservations,
           ReplayNode, ReplayLineage, ReplayPush, ReplayDone, MarkDomainProcessed, CompleteTask, JudgeRun,
           MarkRunCompleted, history
  <2>2. QED
    BY <2>1 DEF Next, LeaseExpires, vars, history
<1>2. QED
  BY <1>1 DEF Regular

\* A capped run that took no legacy queue maps no domain more hops away from
\* the root than the cap: neither a depth lost in a replay from the cache, nor
\* a second process, nor a restart gets it further.
THEOREM CapIsKept == Spec => []RegularDepthCapHolds
<1>1. Init => Nearby
  BY CrawlAssumption DEF Init, Nearby, NearbyProcess, AtWork, Replaying, EmptyTable, Children
<1>2. WellFormed /\ (Regular => Nearby) /\ [Next]_vars => (Regular => Nearby)'
  <2>1. SUFFICES ASSUME WellFormed, Regular => Nearby, [Next]_vars, Regular'
                 PROVE  Nearby'
    OBVIOUS
  <2>2. Nearby
    BY <2>1, RegularBefore
  <2>3. QED
    BY <2>1, <2>2, NearbyStep
<1>3. WellFormed /\ (Regular => Nearby) => RegularDepthCapHolds
  <2>1. SUFFICES ASSUME WellFormed, Nearby, MaxDepth >= 0, NEW d \in DOMAIN processed
                 PROVE  d \in Reach[MaxDepth]
    BY DEF RegularDepthCapHolds, DepthCapHolds
  <2>2. MaxDepth \in Nat /\ processed[d] \in Nat
    BY <2>1, CrawlAssumption DEF WellFormed, DatabaseOK
  <2>3. processed[d] <= MaxDepth /\ d \in Reach[processed[d]]
    BY <2>1, <2>2 DEF Nearby, Close, WithinCap
  <2>4. QED
    BY <2>2, <2>3, ReachGrows
<1>4. QED
  BY <1>1, <1>2, <1>3, AlwaysWellFormed, PTL DEF Spec
====
