---- MODULE CrawlRun ----
(***************************************************************************)
(* RunOrchestrator.run over the database of one run: the processes that    *)
(* start it and resume it, the durable queue (TaskTable), the nodes,       *)
(* lineage and processed_domains tables, the cross-run domain_cache and    *)
(* the run's status.                                                       *)
(*                                                                         *)
(* An action is what the code does between two commits or awaits; a        *)
(* process may stop (crash, kill, Ctrl+C, uncaught error) before any of    *)
(* them, losing its memory and no committed row.  What the providers       *)
(* answer is an environment choice: any subset of what they could find.    *)
(***************************************************************************)
EXTENDS TaskTable, Integers, Sequences

CONSTANTS
  Domains, Root,
  Procs,            \* processes that run `reconrelate run` on this root
  MaxDepth,         \* depth cap; negative means None, no cap
  MaxPendingQueue,  \* settings.max_pending_queue, 0 for none
  GlobalMaxNodes,   \* settings.global_max_nodes, 0 for none
  Subdomains,       \* [Domains -> SUBSET Domains]: subdomain enumeration
  ReverseWhois,     \* [Domains -> SUBSET Domains]: reverse-WHOIS pivots
  Acquisitions,     \* [Domains -> SUBSET Domains]: corporate relations
  Redirects,        \* [Domains -> SUBSET Domains]: redirect and CNAME targets
  Attributes,       \* [Domains -> nodes of other types]: addresses, name
                    \* servers, mail hosts, identifiers
  EarlierCache,     \* children of the domains with a fresh entry from earlier runs
  Overlap,          \* may a process resume a run another is still working on?
  MaxStops          \* bound on the stops of a behaviour

ASSUME CrawlAssumption ==
  /\ Root \in Domains
  /\ MaxDepth \in Int /\ MaxPendingQueue \in Nat /\ GlobalMaxNodes \in Nat
  /\ \A f \in {Subdomains, ReverseWhois, Acquisitions, Redirects} :
       /\ f \in [Domains -> SUBSET Domains]
       /\ \A d \in Domains : IsFiniteSet(f[d])
  /\ DOMAIN Attributes = Domains
  /\ \A d \in Domains : IsFiniteSet(Attributes[d])
  /\ DOMAIN EarlierCache \subseteq Domains
  /\ EarlierCache \in [DOMAIN EarlierCache -> SUBSET Domains]
  /\ \A d \in DOMAIN EarlierCache : IsFiniteSet(EarlierCache[d])
  /\ Overlap \in BOOLEAN /\ MaxStops \in Nat

VARIABLES
  run,              \* runs.status, "none" before the row exists
  tasks,            \* run_tasks; a key is <<domain, depth>>
  nodes,            \* the nodes of type domain
  others,           \* the nodes of the other types
  lineage,          \* [<<child, parent>> -> depth], first depth kept
  processed,        \* processed_domains: [domain -> depth]
  cache,            \* domain_cache: [domain -> its children]
  degraded,         \* a provider_calls row with a degraded status exists
  pc, item, enqueued, todo, collected,   \* the memory of each process
  legacy,           \* history: domains pushed by the legacy resume
  stops             \* history: stops so far

graph == <<nodes, others, lineage>>
database == <<run, tasks, graph, processed, cache, degraded>>
memory == <<pc, item, enqueued, todo, collected>>
history == <<legacy, stops>>
vars == <<database, memory, history>>

Keys == Domains \X Nat
NoItem == [key |-> <<>>, attempt |-> 0]
Verdicts == {"partial", "completed", "completed_degraded"}
Steps == {"off", "seed_node", "seed_task", "resume", "seed_legacy", "loop", "pop",
          "check", "gather", "subdomains", "pivots", "acquisitions", "cache",
          "observations", "replay", "replay_lineage", "replay_push", "mark", "complete",
          "finish"} \cup Verdicts

\* Faulty: one level too deep.
BeyondCap(depth) == MaxDepth < 0 \/ depth <= MaxDepth + 1

WithinCap(depth) == MaxDepth < 0 \/ depth <= MaxDepth
DomainOf(p) == item[p].key[1]
DepthOf(p) == item[p].key[2]

Init ==
  /\ run = "none" /\ tasks = EmptyTable
  /\ nodes = {} /\ others = {} /\ lineage = EmptyTable /\ processed = EmptyTable
  /\ cache = EarlierCache /\ degraded = FALSE
  /\ pc = [p \in Procs |-> "off"]
  /\ item = [p \in Procs |-> NoItem]
  /\ enqueued = [p \in Procs |-> {}]
  /\ todo = [p \in Procs |-> <<>>]
  /\ collected = [p \in Procs |-> {}]
  /\ legacy = {} /\ stops = 0

Goto(p, step) == pc' = [pc EXCEPT ![p] = step]
----
(* Starting and resuming *)

\* A fresh run: the run row, the root node and the root task are three commits.
CreateRun(p) ==
  /\ pc[p] = "off" /\ run = "none"
  /\ run' = "running"
  /\ Goto(p, "seed_node")
  /\ UNCHANGED <<tasks, graph, processed, cache, degraded, item, enqueued, todo, collected, history>>

SeedNode(p) ==
  /\ pc[p] = "seed_node"
  /\ nodes' = nodes \cup {Root}
  /\ Goto(p, "seed_task")
  /\ UNCHANGED <<run, tasks, others, lineage, processed, cache, degraded, item, enqueued, todo, collected, history>>

SeedTask(p) ==
  /\ pc[p] = "seed_task"
  /\ tasks' = EnqueueRunTask(tasks, {<<Root, 0>>})
  /\ enqueued' = [enqueued EXCEPT ![p] = {<<Root, 0>>}]
  /\ Goto(p, "loop")
  /\ UNCHANGED <<run, graph, processed, cache, degraded, item, todo, collected, history>>

\* get_latest_resumable_run finds the run; its leased tasks are requeued.
Resume(p) ==
  /\ pc[p] = "off"
  /\ run \in {"running", "partial"}
  /\ Overlap \/ \A q \in Procs \ {p} : pc[q] = "off"
  /\ tasks' = RequeueInProgressTasks(tasks)
  /\ Goto(p, "resume")
  /\ UNCHANGED <<run, graph, processed, cache, degraded, item, enqueued, todo, collected, history>>

\* get_resumable_queue: every unprocessed domain node, whatever its depth was.
ResumableQueue == nodes \ DOMAIN processed

Listings(S) ==
  {list \in [1..Cardinality(S) -> S] :
     \A i, j \in 1..Cardinality(S) : list[i] = list[j] => i = j}

\* The legacy queue is read only when the durable one has nothing runnable.
ResumePending(p) ==
  /\ pc[p] = "resume"
  /\ LET pending == IF RunnableTasks(tasks) = {} THEN ResumableQueue ELSE {} IN
       /\ RunnableTasks(tasks) # {} \/ pending # {}
       /\ \E list \in Listings(pending) : todo' = [todo EXCEPT ![p] = list]
  /\ run' = "running"
  /\ nodes' = nodes \cup {Root}
  /\ Goto(p, "seed_legacy")
  /\ UNCHANGED <<tasks, others, lineage, processed, cache, degraded, item, enqueued, collected, history>>

\* Nothing pending: the process creates a fresh run and leaves this one as it is.
ResumeElsewhere(p) ==
  /\ pc[p] = "resume"
  /\ RunnableTasks(tasks) = {} /\ ResumableQueue = {}
  /\ Goto(p, "off")
  /\ UNCHANGED <<database, item, enqueued, todo, collected, history>>

\* The depth get_resumable_queue reads (first_seen_depth) is never written: 0.
SeedLegacy(p) ==
  /\ pc[p] = "seed_legacy" /\ todo[p] # <<>>
  /\ tasks' = EnqueueRunTask(tasks, {<<Head(todo[p]), 0>>})
  /\ enqueued' = [enqueued EXCEPT ![p] = @ \cup {<<Head(todo[p]), 0>>}]
  /\ legacy' = legacy \cup {Head(todo[p])}
  /\ todo' = [todo EXCEPT ![p] = Tail(@)]
  /\ UNCHANGED <<run, graph, processed, cache, degraded, pc, item, collected, stops>>

StartLoop(p) ==
  /\ pc[p] = "seed_legacy" /\ todo[p] = <<>>
  /\ Goto(p, "loop")
  /\ UNCHANGED <<database, item, enqueued, todo, collected, history>>
----
(* The crawl loop *)

\* count_nodes counts the nodes of every type.
AtNodeLimit ==
  GlobalMaxNodes > 0 /\ Cardinality(nodes) + Cardinality(others) >= GlobalMaxNodes

\* `while queue:` and the node limit; another process may empty the queue
\* between this check and the pop.
LoopTest(p) ==
  /\ pc[p] = "loop"
  /\ Goto(p, IF RunnableTasks(tasks) = {} \/ AtNodeLimit THEN "finish" ELSE "pop")
  /\ UNCHANGED <<database, item, enqueued, todo, collected, history>>

\* Faulty: the task is returned as it was selected, before the UPDATE.
PopStale(p) ==
  /\ pc[p] = "pop"
  /\ \E k \in NextTasks(SweepExpired(tasks)) :
       LET row == SweepExpired(tasks)[k] IN
         /\ tasks' = [SweepExpired(tasks) EXCEPT ![k] = ClaimRow(row)]
         /\ item' = [item EXCEPT ![p] = [key |-> k, attempt |-> row.attempts]]
  /\ Goto(p, "check")
  /\ UNCHANGED <<run, graph, processed, cache, degraded, enqueued, todo, collected, history>>

\* The node and the lineage of the popped domain were committed with its task.
Pop(p) ==
  /\ pc[p] = "pop"
  /\ \E k \in NextTasks(SweepExpired(tasks)) :
       LET row == ClaimRow(SweepExpired(tasks)[k]) IN
         /\ tasks' = [SweepExpired(tasks) EXCEPT ![k] = row]
         /\ item' = [item EXCEPT ![p] = [key |-> k, attempt |-> row.attempts]]
  /\ Goto(p, "check")
  /\ UNCHANGED <<run, graph, processed, cache, degraded, enqueued, todo, collected, history>>

\* The process ends, its memory with it.
Forget(p) ==
  /\ Goto(p, "off")
  /\ item' = [item EXCEPT ![p] = NoItem]
  /\ enqueued' = [enqueued EXCEPT ![p] = {}]
  /\ todo' = [todo EXCEPT ![p] = <<>>]
  /\ collected' = [collected EXCEPT ![p] = {}]

\* pop() raises IndexError on an empty claim and run() does not catch it.
PopNothing(p) ==
  /\ pc[p] = "pop"
  /\ RunnableTasks(SweepExpired(tasks)) = {}
  /\ tasks' = SweepExpired(tasks)
  /\ Forget(p)
  /\ UNCHANGED <<run, graph, processed, cache, degraded, legacy, stops>>

\* Faulty: a cache hit completes the task at once.
CheckTrusting(p) ==
  /\ pc[p] = "check"
  /\ Goto(p, IF DomainOf(p) \in DOMAIN processed \cup DOMAIN cache
               THEN "complete" ELSE "gather")
  /\ UNCHANGED <<database, item, enqueued, todo, collected, history>>

\* A processed domain only has its task completed; one with a cache entry is
\* replayed, unless the entry is past its TTL or --refresh was asked for.
Check(p) ==
  /\ pc[p] = "check"
  /\ \/ /\ DomainOf(p) \in DOMAIN processed
        /\ Goto(p, "complete") /\ UNCHANGED todo
     \/ /\ DomainOf(p) \in DOMAIN cache \ DOMAIN processed
        /\ \E list \in Listings(cache[DomainOf(p)]) : todo' = [todo EXCEPT ![p] = list]
        /\ Goto(p, "observations")
     \/ /\ DomainOf(p) \notin DOMAIN processed
        /\ Goto(p, "gather") /\ UNCHANGED todo
  /\ UNCHANGED <<database, item, enqueued, collected, history>>

AddAttributes(p) ==
  \E found \in SUBSET Attributes[DomainOf(p)] : others' = others \cup found

\* The providers answer, some may fail; observations and the nodes they lead
\* to are one batch.  A redirect or CNAME target is not enqueued.
Gather(p) ==
  /\ pc[p] = "gather"
  /\ \E seen \in SUBSET Redirects[DomainOf(p)] : nodes' = nodes \cup seen
  /\ AddAttributes(p)
  /\ degraded' \in {degraded, TRUE}
  /\ Goto(p, "subdomains")
  /\ UNCHANGED <<run, tasks, lineage, processed, cache, item, enqueued, todo, collected, history>>

\* Faulty: a domain that has a node is taken for queued.
UnseenChildren(p, children) == children \ nodes

\* The children a push is tried for: not known to this process at this depth
\* and not processed.
NewChildren(p, children) ==
  {c \in children : /\ <<c, DepthOf(p) + 1>> \notin enqueued[p]
                    /\ c \notin DOMAIN processed}

\* What of them the pending ceiling lets through: in some order, each push
\* sees the rows the earlier ones added.
Admitted(keys) ==
  LET before == Cardinality(RunnableTasks(tasks))
      after(ks) == before + Cardinality(ks \ DOMAIN tasks)
  IN IF MaxPendingQueue = 0 THEN {keys}
     ELSE IF before >= MaxPendingQueue THEN {{}}
     ELSE {ks \in SUBSET keys : /\ after(ks) <= MaxPendingQueue
                                /\ ks = keys \/ after(ks) = MaxPendingQueue}

\* Faulty: the cap is asked about the children's children.
PushChildrenShy(p, children) ==
  LET depth == DepthOf(p) + 1
      wanted == IF WithinCap(depth + 1) THEN NewChildren(p, children) ELSE {}
  IN \E keys \in Admitted({<<c, depth>> : c \in wanted}) :
       /\ tasks' = EnqueueRunTask(tasks, keys)
       /\ enqueued' = [enqueued EXCEPT ![p] = @ \cup keys]

\* The tasks of those the cap and the ceiling let through.
PushChildren(p, children) ==
  LET depth == DepthOf(p) + 1
      wanted == IF WithinCap(depth) THEN NewChildren(p, children) ELSE {}
  IN \E keys \in Admitted({<<c, depth>> : c \in wanted}) :
       /\ tasks' = EnqueueRunTask(tasks, keys)
       /\ enqueued' = [enqueued EXCEPT ![p] = @ \cup keys]

AddLineage(p, children) ==
  lineage' = InsertOrIgnore(lineage, [e \in children \X {DomainOf(p)} |-> DepthOf(p) + 1])

\* One batch.  Those of one stage that commit apart (one per pivot, one per
\* provider) are taken together: stopping between them is finding fewer.
AddChildren(p, children) ==
  /\ nodes' = nodes \cup children
  /\ AddLineage(p, children)
  /\ PushChildren(p, children)
  /\ collected' = [collected EXCEPT ![p] = @ \cup children]

\* Below the cap a search runs; at the cap it finds nothing.
Searched(p, answers) ==
  IF WithinCap(DepthOf(p) + 1) THEN SUBSET (answers[DomainOf(p)] \ {DomainOf(p)}) ELSE {{}}

EnumerateSubdomains(p) ==
  /\ pc[p] = "subdomains"
  /\ \E found \in Searched(p, Subdomains) : AddChildren(p, found)
  /\ Goto(p, "pivots")
  /\ UNCHANGED <<run, others, processed, cache, degraded, item, todo, history>>

\* The nodes of the selected pivots, whatever the cap, then the searches; a
\* failed one counts as one that found nothing.
ReverseWhoisBatch(p) ==
  /\ pc[p] = "pivots"
  /\ AddAttributes(p)
  /\ \E found \in Searched(p, ReverseWhois) : AddChildren(p, found)
  /\ degraded' \in {degraded, degraded \/ WithinCap(DepthOf(p) + 1)}
  /\ Goto(p, "acquisitions")
  /\ UNCHANGED <<run, processed, cache, item, todo, history>>

\* Corporate relations are resolved at any depth; only the push is capped.
\* `flagged` is _expansion_degraded, set by a related_orgs call that raised.
\* The row of such a call may be missing (a refused budget_exceeded row, a lost
\* one), and a row may be degraded without a flag (a failed resolve_domain).
ExpandAcquisitions(p) ==
  /\ pc[p] = "acquisitions"
  /\ \E found \in SUBSET (Acquisitions[DomainOf(p)] \ {DomainOf(p)}) : AddChildren(p, found)
  /\ degraded' \in {degraded, TRUE}
  /\ \E flagged \in BOOLEAN : Goto(p, IF flagged THEN "mark" ELSE "cache")
  /\ UNCHANGED <<run, others, processed, cache, item, todo, history>>

\* upsert_domain_cache, in a commit of its own before the domain is processed.
UpsertDomainCache(p) ==
  /\ pc[p] = "cache"
  /\ cache' = [d \in DOMAIN cache \cup {DomainOf(p)} |->
                 IF d = DomainOf(p) THEN collected[p] ELSE cache[d]]
  /\ Goto(p, "mark")
  /\ UNCHANGED <<run, tasks, graph, processed, degraded, item, enqueued, todo, collected, history>>

\* A cache hit: the stored observations, each with the node it leads to.
ReplayCachedObservations(p) ==
  /\ pc[p] = "observations"
  /\ \E seen \in SUBSET Redirects[DomainOf(p)] : nodes' = nodes \cup seen
  /\ AddAttributes(p)
  /\ Goto(p, "replay")
  /\ UNCHANGED <<run, tasks, lineage, processed, cache, degraded, item, enqueued, todo, collected, history>>

\* _replay_cached commits each child's node, with the identifier's that links
\* it, then its lineage, then its task.
ReplayNode(p) ==
  /\ pc[p] = "replay" /\ todo[p] # <<>>
  /\ nodes' = nodes \cup {Head(todo[p])}
  /\ AddAttributes(p)
  /\ Goto(p, "replay_lineage")
  /\ UNCHANGED <<run, tasks, lineage, processed, cache, degraded, item, enqueued, todo, collected, history>>

ReplayLineage(p) ==
  /\ pc[p] = "replay_lineage"
  /\ AddLineage(p, {Head(todo[p])})
  /\ Goto(p, "replay_push")
  /\ UNCHANGED <<run, tasks, nodes, others, processed, cache, degraded, item, enqueued, todo, collected, history>>

ReplayPush(p) ==
  /\ pc[p] = "replay_push"
  /\ PushChildren(p, {Head(todo[p])})
  /\ todo' = [todo EXCEPT ![p] = Tail(@)]
  /\ Goto(p, "replay")
  /\ UNCHANGED <<run, graph, processed, cache, degraded, item, collected, history>>

\* Faulty: a replayed domain is not marked processed.
ReplayDoneUnmarked(p) ==
  /\ pc[p] = "replay" /\ todo[p] = <<>>
  /\ Goto(p, "complete")
  /\ UNCHANGED <<database, item, enqueued, todo, collected, history>>

ReplayDone(p) ==
  /\ pc[p] = "replay" /\ todo[p] = <<>>
  /\ Goto(p, "mark")
  /\ UNCHANGED <<database, item, enqueued, todo, collected, history>>

\* mark_domain_processed, then complete_run_task: two commits.
MarkDomainProcessed(p) ==
  /\ pc[p] = "mark"
  /\ processed' = InsertOrIgnore(processed, [d \in {DomainOf(p)} |-> DepthOf(p)])
  /\ Goto(p, "complete")
  /\ UNCHANGED <<run, tasks, graph, cache, degraded, item, enqueued, todo, collected, history>>

\* Faulty: what was collected for the cache carries over to the next domain.
CompleteTaskKeeping(p) ==
  /\ pc[p] = "complete"
  /\ tasks' = CompleteRunTask(tasks, item[p].key)
  /\ item' = [item EXCEPT ![p] = NoItem]
  /\ Goto(p, "loop")
  /\ UNCHANGED <<run, graph, processed, cache, degraded, enqueued, todo, collected, history>>

CompleteTask(p) ==
  /\ pc[p] = "complete"
  /\ tasks' = CompleteRunTask(tasks, item[p].key)
  /\ item' = [item EXCEPT ![p] = NoItem]
  /\ collected' = [collected EXCEPT ![p] = {}]
  /\ Goto(p, "loop")
  /\ UNCHANGED <<run, graph, processed, cache, degraded, enqueued, todo, history>>

\* Faulty: exhausted tasks do not degrade the run.
JudgeRunMildly(p) ==
  /\ pc[p] = "finish"
  /\ Goto(p, IF TasksWith(tasks, "pending") \cup TasksWith(tasks, "in_progress") # {}
               THEN "partial"
             ELSE IF degraded THEN "completed_degraded" ELSE "completed")
  /\ UNCHANGED <<database, item, enqueued, todo, collected, history>>

\* mark_run_completed reads the provider failures and the task counts...
JudgeRun(p) ==
  /\ pc[p] = "finish"
  /\ Goto(p, IF TasksWith(tasks, "pending") \cup TasksWith(tasks, "in_progress") # {}
               THEN "partial"
             ELSE IF TasksWith(tasks, "failed") # {} \/ degraded
               THEN "completed_degraded"
             ELSE "completed")
  /\ UNCHANGED <<database, item, enqueued, todo, collected, history>>

\* ...and writes the status they call for, whatever the rows say by now.
MarkRunCompleted(p) ==
  /\ pc[p] \in Verdicts
  /\ run' = pc[p]
  /\ Forget(p)
  /\ UNCHANGED <<tasks, graph, processed, cache, degraded, legacy, stops>>
----
\* A crash, a kill, Ctrl+C or an uncaught error: no handler writes the database.
Stop(p) ==
  /\ pc[p] # "off" /\ stops < MaxStops
  /\ stops' = stops + 1
  /\ Forget(p)
  /\ UNCHANGED <<database, legacy>>

\* Time passes the lease of a task at work.
LeaseExpires(k) ==
  /\ tasks[k].lease = "live"
  /\ tasks' = ExpireLease(tasks, k)
  /\ UNCHANGED <<run, graph, processed, cache, degraded, memory, history>>

Step(p) ==
  \/ SeedNode(p) \/ SeedTask(p)
  \/ ResumePending(p) \/ ResumeElsewhere(p) \/ SeedLegacy(p) \/ StartLoop(p)
  \/ LoopTest(p) \/ Pop(p) \/ PopNothing(p) \/ Check(p)
  \/ Gather(p) \/ EnumerateSubdomains(p) \/ ReverseWhoisBatch(p) \/ ExpandAcquisitions(p)
  \/ UpsertDomainCache(p)
  \/ ReplayCachedObservations(p) \/ ReplayNode(p) \/ ReplayLineage(p) \/ ReplayPush(p)
  \/ ReplayDone(p)
  \/ MarkDomainProcessed(p) \/ CompleteTask(p) \/ JudgeRun(p) \/ MarkRunCompleted(p)

Next ==
  \/ \E p \in Procs : CreateRun(p) \/ Resume(p) \/ Step(p) \/ Stop(p)
  \/ \E k \in DOMAIN tasks : LeaseExpires(k)

Spec == Init /\ [][Next]_vars

\* A running process goes on until it exits, and an operator resumes a run
\* that stopped; nobody is assumed to start one.
FairSpec ==
  /\ Spec
  /\ \A p \in Procs : WF_vars(Step(p)) /\ WF_vars(Resume(p))
----
TypeOK ==
  /\ run \in {"none", "running"} \cup Verdicts
  /\ DOMAIN tasks \subseteq Keys /\ tasks \in [DOMAIN tasks -> Row]
  /\ nodes \subseteq Domains
  /\ others \subseteq UNION {Attributes[d] : d \in Domains}
  /\ DOMAIN lineage \subseteq Domains \X Domains /\ lineage \in [DOMAIN lineage -> Nat]
  /\ DOMAIN processed \subseteq Domains /\ processed \in [DOMAIN processed -> Nat]
  /\ DOMAIN cache \subseteq Domains /\ cache \in [DOMAIN cache -> SUBSET Domains]
  /\ degraded \in BOOLEAN
  /\ pc \in [Procs -> Steps]
  /\ item \in [Procs -> [key : Keys, attempt : 1..MaxAttempts] \cup {NoItem}]
  /\ enqueued \in [Procs -> SUBSET Keys]
  /\ todo \in [Procs -> Seq(Domains)]
  /\ collected \in [Procs -> SUBSET Domains]
  /\ legacy \subseteq Domains /\ stops \in 0..MaxStops

\* A task is succeeded only if its domain was processed first, whichever
\* process completed it and however often it was delivered.
ProcessedBeforeSucceeded ==
  \A k \in TasksWith(tasks, "succeeded") : k[1] \in DOMAIN processed

\* Every child a processed domain discovered within the cap is processed or
\* has a task: no crash between two batches loses one.
NoLostChild ==
  MaxPendingQueue = 0 =>
    \A e \in DOMAIN lineage :
      (e[2] \in DOMAIN processed /\ WithinCap(lineage[e])) =>
        (e[1] \in DOMAIN processed \/ \E k \in DOMAIN tasks : k[1] = e[1])

\* A run reported completed left nothing undone: every task it ever queued
\* succeeded and every domain of one was processed.  No degraded provider call
\* is on record either; a failure whose row was lost is not seen.
CompletedLeavesNothing ==
  run = "completed" =>
    /\ TasksWith(tasks, "succeeded") = DOMAIN tasks
    /\ \A k \in DOMAIN tasks : k[1] \in DOMAIN processed
    /\ ~degraded

\* What this run wrote to the cross-run cache for a domain are children it had
\* committed as that domain's: nothing of another domain, nothing a stop undid.
CacheHoldsOwnChildren ==
  \A d \in DOMAIN cache \ DOMAIN EarlierCache :
    \A c \in cache[d] : <<c, d>> \in DOMAIN lineage

\* Only the legacy queue steps outside the breadth-first crawl.
Regular == legacy \subseteq {Root}

\* A domain is mapped at the smallest depth it was enqueued at, unless the
\* task of that depth failed: requeued tasks keep their place in the queue.
ShallowestFirst ==
  Regular =>
    \A k \in DOMAIN tasks :
      (k[1] \in DOMAIN processed /\ k[2] < processed[k[1]]) => tasks[k].status = "failed"

\* A cycle of domains cannot deepen the crawl for ever, even without a cap:
\* one more level costs a domain processed or a task failed.
DepthIsPaidFor ==
  Regular =>
    \A k \in DOMAIN tasks :
      k[2] <= 1 + Cardinality(DOMAIN processed) + Cardinality(TasksWith(tasks, "failed"))

\* What is within reach of the root by discovery, in at most n hops.
Children(d) ==
  Subdomains[d] \cup ReverseWhois[d] \cup Acquisitions[d]
  \cup (IF d \in DOMAIN EarlierCache THEN EarlierCache[d] ELSE {})

Reach[n \in Nat] ==
  IF n = 0 THEN {Root} ELSE Reach[n - 1] \cup UNION {Children(d) : d \in Reach[n - 1]}

\* A capped run maps no domain more hops away from the root than the cap.
DepthCapHolds == MaxDepth >= 0 => DOMAIN processed \subseteq Reach[MaxDepth]

\* The same, of runs that never took the legacy queue.
RegularDepthCapHolds == Regular => DepthCapHolds

\* A run whose root is recorded gets a task, and its queue is always drained in
\* the end: what a process left pending or in progress when it stopped, a
\* resumed one finishes, even if the root's task was never written.
Drains ==
  [](nodes # {} => <>(/\ DOMAIN tasks # {}
                      /\ TasksWith(tasks, "pending") \cup TasksWith(tasks, "in_progress") = {}))
----
\* The crawl uses its queue as RunTasks specifies it.
Working == {p \in Procs : item[p] # NoItem}
DeliveryOf(p) == [worker |-> p, key |-> item[p].key, attempt |-> item[p].attempt]
Held == {DeliveryOf(p) : p \in Working}

Queue == INSTANCE RunTasks
  WITH Workers <- Procs, Damaged <- {}, table <- tasks, held <- Held

\* Every step of the crawl is a step of the queue or leaves it alone.  The
\* batch of an Enqueue is named, not searched for.
QueueStep ==
  \/ Queue!Enqueue(DOMAIN tasks' \ DOMAIN tasks)
  \/ \E p \in Procs : Queue!Claim(p) \/ Queue!ClaimNothing(p)
  \/ \E p \in Working : Queue!Complete(DeliveryOf(p)) \/ Queue!Abandon(DeliveryOf(p))
  \/ Queue!Requeue
  \/ \E k \in DOMAIN tasks : Queue!LeaseExpires(k)

ImplementsQueue == Queue!Init /\ [][QueueStep]_(Queue!vars)
====
