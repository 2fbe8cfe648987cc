---- MODULE EvidenceLedger ----
(***************************************************************************)
(* What the runs of one database record about one domain: the observations *)
(* of the providers, the claims projected from them and the links between. *)
(* A fresh delivery of the domain's task writes them in batches, each one  *)
(* transaction; a delivery that finds a fresh cache entry replays it with  *)
(* a commit for every write.  A worker may be killed between two commits,  *)
(* and the task is delivered again.  Meanwhile `db retention` removes runs. *)
(***************************************************************************)
EXTENDS Integers, FiniteSets

CONSTANTS
  Runs,         \* naturals, in the order the runs were created
  Reports,      \* what one gathering may bring: sets of [source, fact]
  Found,        \* what one search, by the pivot or the organisation, may find:
                \* sets of [fact, sources], the supporting sources included
  Unlinked,     \* values a pivot may have that no provider reports
  Family,       \* [source -> family], the catalogue
  Unclassified, \* the family of a source outside the catalogue
  Workers,      \* how many processes crawl at a time
  MaxGathers,   \* bound on the deliveries that ask the providers
  MaxStops,     \* bound on the deliveries that are stopped
  MaxRetentions \* bound on the retentions begun

Kinds == {"infrastructure", "subdomain", "identifier", "related", "acquisition"}
Derived == "relationship_engine"
Scores == {"high", "low"}
NoEntry == [observations |-> {}, children |-> {}, at |-> 0]

ASSUME LedgerAssumption ==
  /\ Runs \subseteq Nat
  /\ {Workers, MaxGathers, MaxStops, MaxRetentions} \subseteq Nat
  /\ \A R \in Reports : \A p \in R : p.fact.kind \in Kinds /\ p.source # Derived
  /\ \A F \in Found : \A f \in F :
       f.fact.kind \in {"related", "acquisition"} /\ f.sources # {} /\ Derived \notin f.sources
  /\ \A f \in Unlinked : f.kind = "identifier"

VARIABLES
  runs, modelled,              \* tables: the runs, the runs with model_calls rows
  observations, claims, links, \* tables of the ledger
  cache,                       \* the domain's row of domain_cache
  processed,                   \* the runs that have marked the domain processed
  pc, mine, pivots, children,  \* of each worker: its step, the observations of this
                               \* delivery, its pivots, the records for the cache
  todo, held,                  \* of each replay: the items left, the item at hand
  retention,                   \* the operator: its step, the runs it read
  now,                         \* gatherings so far
  stops, retentions,           \* how many deliveries were stopped, retentions begun
  cut,                         \* history: the runs stopped, inside a replay or not
  replayed                     \* history: of each run, the entry its last delivery replays

ledger == <<observations, claims, links>>
local == <<pc, mine, pivots, children, todo, held>>
vars == <<runs, modelled, ledger, cache, processed, local, retention, now, stops, retentions, cut, replayed>>

----
(* Rows.  Two observations are one row when all of these agree: the dedup   *)
(* key hashes the timestamp too.  A claim's key has neither score nor class.*)

Observation(r, source, fact, at) == [run |-> r, source |-> source, fact |-> fact, at |-> at]
InRun(r, o) == [o EXCEPT !.run = r]
\* The first row of a list: the order of the lists is some fixed one.
FirstOf(os) == CHOOSE o \in os : TRUE
Key(c) == [run |-> c.run, fact |-> c.fact]

\* Infrastructure is seen, not inferred; the rest is as good as its score.
ClassOf(fact, score) ==
  IF fact.kind \in {"infrastructure", "subdomain"} THEN "verified"
  ELSE IF score = "high" THEN "probable" ELSE "candidate"

\* A claim that exists keeps its first score and class.
AddClaims(cs) == claims \cup {c \in cs : \A d \in claims : Key(c) # Key(d)}

Claim(r, fact, score) == [run |-> r, fact |-> fact, class |-> ClassOf(fact, score)]
Link(c, o) == [claim |-> Key(c), observation |-> o]

\* The observations of a run about the domain and this value, best first: which
\* one is first depends on confidences the model leaves out.
About(r, fact) == {o \in observations : o.run = r /\ o.fact = fact}

\* Faulty: the foreign keys are off, as they are in SQLite by default.
Unenforced(r) == TRUE

\* The foreign keys of the ledger: a row needs its run.
Exists(r) == r \in runs

----
(* How a claim is shown: get_claims_with_evidence, summarize_source_families *)

Evidence(k) == {l.observation : l \in {m \in links : m.claim = k}}

\* Faulty: every source is a lineage of its own.
OwnFamily(source) == source

SourceFamily(source) == Family[source]

Families(k) == {SourceFamily(o.source) : o \in Evidence(k)}

Independence(k) ==
  CASE Families(k) = {} -> "no_evidence"
    [] Unclassified \in Families(k) -> "unclassified"
    [] Cardinality(Families(k) \ {Unclassified}) > 1 -> "multiple_independent_families"
    [] OTHER -> "single_family"

----
Init ==
  /\ runs = Runs
  /\ modelled = {} /\ observations = {} /\ claims = {} /\ links = {}
  /\ cache = NoEntry
  /\ processed = {}
  /\ pc = [r \in Runs |-> "idle"]
  /\ mine = [r \in Runs |-> {}]
  /\ pivots = [r \in Runs |-> {}]
  /\ children = [r \in Runs |-> {}]
  /\ todo = [r \in Runs |-> {}]
  /\ held = [r \in Runs |-> {}]
  /\ retention = [step |-> "idle", runs |-> {}]
  /\ now = 0
  /\ stops = 0
  /\ retentions = 0
  /\ cut = {}
  /\ replayed = [r \in Runs |-> NoEntry]

\* A process is free for the run, which is there and not done.
Deliverable(r) ==
  /\ pc[r] = "idle" /\ r \in runs \ processed
  /\ Cardinality({q \in Runs : pc[q] # "idle"}) < Workers

Goto(r, step) == pc' = [pc EXCEPT ![r] = step]

\* One transaction: the observations os, the claims cs, and links for both.
Commit(r, os, cs, ls) ==
  /\ Exists(r)
  /\ observations' = observations \cup os
  /\ claims' = AddClaims(cs)
  /\ links' = links \cup ls

UntouchedTables ==
  UNCHANGED <<runs, modelled, cache, processed, retention, stops, retentions, cut>>

----
(* A fresh delivery.                                                        *)

\* What the providers' results become: an observation of each fact of each source.
Reported(r, R) == {Observation(r, p.source, p.fact, now + 1) : p \in R}

\* Addresses, servers, aliases and redirects get a node and a claim of their own.
Infrastructure(os) == {o \in os : o.fact.kind = "infrastructure"}

\* The providers answer, some with nothing.  One batch: the observations and,
\* for those on infrastructure, the claims.  An entry that is stale, or a run
\* with --refresh, comes here as well.
Gather(r) ==
  /\ Deliverable(r)
  /\ now < MaxGathers
  /\ \E R \in Reports :
       LET os == Reported(r, R)
           seen == Infrastructure(os)
       IN /\ Commit(r, os, {Claim(r, o.fact, "high") : o \in seen},
                    {Link(Claim(r, o.fact, "high"), o) : o \in seen})
          /\ mine' = [mine EXCEPT ![r] = os]
  /\ now' = now + 1
  /\ replayed' = [replayed EXCEPT ![r] = NoEntry]
  /\ Goto(r, "subdomains")
  /\ UntouchedTables /\ UNCHANGED <<pivots, children, todo, held>>

Child(fact, score, os, via) == [fact |-> fact, score |-> score, evidence |-> os, via |-> via]

\* One batch; a name is kept for the cache with its first observation only.
MapSubdomains(r) ==
  /\ pc[r] = "subdomains"
  /\ LET os == {o \in mine[r] : o.fact.kind = "subdomain"}
         names == {o.fact : o \in os}
     IN /\ Commit(r, {}, {Claim(r, n, "high") : n \in names},
                  {Link(Claim(r, o.fact, "high"), o) : o \in os})
        /\ children' = [children EXCEPT ![r] =
             {Child(n, "high", {FirstOf({o \in os : o.fact = n})}, {}) : n \in names}]
  /\ Goto(r, "select")
  /\ UntouchedTables /\ UNCHANGED <<mine, pivots, todo, held, now, replayed>>

\* A pivot is a value the providers reported, or one taken from a page's text.
\* The model is asked, and leaves rows, or the heuristics suffice.
SelectPivots(r) ==
  /\ pc[r] = "select"
  /\ \E P \in SUBSET ({o.fact : o \in {m \in mine[r] : m.fact.kind = "identifier"}}
                        \cup Unlinked), score \in Scores :
       pivots' = [pivots EXCEPT ![r] = {[fact |-> f, score |-> score, step |-> "record"] : f \in P}]
  /\ \/ Exists(r) /\ modelled' = modelled \cup {r}
     \/ UNCHANGED modelled
  /\ Goto(r, "pivots")
  /\ UNCHANGED <<runs, ledger, cache, processed, mine, children, todo, held, retention, now,
                 stops, retentions, cut, replayed>>

\* Faulty: `for extra in evidence_rows[1:]`, with the first never linked.
SupportWithoutFirst(c, os) == {Link(c, o) : o \in os \ {FirstOf(os)}}

Support(c, os) == {Link(c, o) : o \in os}

\* One batch for a pivot.  What the run has observed of the value supports the
\* claim; a value never observed gets an observation of the engine's own.
RecordPivot(r) ==
  /\ pc[r] = "pivots"
  /\ \E p \in pivots[r] :
       LET c == Claim(r, p.fact, p.score)
           own == {Observation(r, Derived, p.fact, now)}
           os == IF About(r, p.fact) = {} THEN own ELSE About(r, p.fact)
       IN /\ p.step = "record"
          /\ Commit(r, os, {c}, Support(c, os))
          /\ pivots' = [pivots EXCEPT ![r] = (@ \ {p}) \cup {[p EXCEPT !.step = "search"]}]
  /\ UntouchedTables /\ UNCHANGED <<pc, mine, children, todo, held, now, replayed>>

\* What a pivot's search found: a related domain, as good as the pivot and kept
\* with it, or a domain of an acquired organisation.
Record(r, p, f) ==
  [fact |-> f.fact,
   score |-> IF f.fact.kind = "related" THEN p.score ELSE "high",
   via |-> IF f.fact.kind = "related" THEN {p.fact} ELSE {},
   evidence |-> {Observation(r, s, f.fact, now) : s \in f.sources}]

\* The searches end, and the results of each pivot are a batch: the domains with
\* their observation and, for a tracker, the one that verified it.
RecordFound(r) ==
  /\ pc[r] = "pivots"
  /\ \A p \in pivots[r] : p.step = "search"
  /\ \E p \in pivots[r], F \in Found :
       LET new == {Record(r, p, f) : f \in F}
       IN /\ Commit(r, UNION {n.evidence : n \in new}, {Claim(r, n.fact, n.score) : n \in new},
                    UNION {Support(Claim(r, n.fact, n.score), n.evidence) : n \in new})
          /\ pivots' = [pivots EXCEPT ![r] = @ \ {p}]
          /\ children' = [children EXCEPT ![r] = @ \cup new]
  /\ UntouchedTables /\ UNCHANGED <<pc, mine, todo, held, now, replayed>>

\* The domain's last two commits.  A run that had a provider fail on the way, or
\* may not share its data, does not write the cache.
Store(r) ==
  /\ pc[r] = "pivots" /\ pivots[r] = {}
  /\ Exists(r)
  /\ \/ cache' = [observations |-> mine[r], children |-> children[r], at |-> now]
     \/ UNCHANGED cache
  /\ Goto(r, "mark")
  /\ UNCHANGED <<runs, modelled, ledger, processed, mine, pivots, children, todo, held, retention,
                 now, stops, retentions, cut, replayed>>

Reset(r) ==
  /\ Goto(r, "idle")
  /\ mine' = [mine EXCEPT ![r] = {}]
  /\ pivots' = [pivots EXCEPT ![r] = {}]
  /\ children' = [children EXCEPT ![r] = {}]
  /\ todo' = [todo EXCEPT ![r] = {}]
  /\ held' = [held EXCEPT ![r] = {}]

MarkDomainProcessed(r) ==
  /\ pc[r] = "mark"
  /\ Exists(r)
  /\ processed' = processed \cup {r}
  /\ Reset(r)
  /\ UNCHANGED <<runs, modelled, ledger, cache, retention, now, stops, retentions, cut, replayed>>

----
(* A delivery that finds a fresh entry.  No batch: each write is a commit.  *)
(* held is the item at hand: the evidence still to come, the observation    *)
(* just written, and the next step.                                         *)

Item(stage, child) == [stage |-> stage, child |-> child]

Items(entry) ==
  {Item(1, Child(o.fact, "high", {o}, {})) : o \in entry.observations}
    \cup {Item(2, c) : c \in entry.children}

StartReplay(r) ==
  /\ Deliverable(r)
  /\ cache # NoEntry
  /\ todo' = [todo EXCEPT ![r] = Items(cache)]
  /\ replayed' = [replayed EXCEPT ![r] = cache]
  /\ Goto(r, "replay")
  /\ UntouchedTables /\ UNCHANGED <<ledger, mine, pivots, children, held, now>>

Hold(r, h) == held' = [held EXCEPT ![r] = {h}]
Drop(r) == held' = [held EXCEPT ![r] = {}]

ReplayUnchanged == UntouchedTables /\ UNCHANGED <<pc, mine, pivots, children, now, replayed>>

\* The observations first, then the children; an observation on infrastructure
\* and every child has a claim.
ReplayObservation(r) ==
  /\ pc[r] = "replay" /\ held[r] = {}
  /\ todo[r] # {}
  /\ LET i == FirstOf({j \in todo[r] : \A k \in todo[r] : j.stage =< k.stage})
         o == FirstOf(i.child.evidence)
     IN
       /\ Commit(r, {InRun(r, o)}, {}, {})
       /\ todo' = [todo EXCEPT ![r] = @ \ {i}]
       /\ IF i.stage = 2 \/ o.fact.kind = "infrastructure"
            THEN Hold(r, [child |-> [i.child EXCEPT !.evidence = @ \ {o}],
                          row |-> InRun(r, o), step |-> "claim"])
            ELSE Drop(r)
  /\ ReplayUnchanged

HeldClaim(r, h) == Claim(r, h.child.fact, h.child.score)

\* Faulty: a claim that exists is taken to have its link.
AfterClaimIfNew(c) == IF c \in claims THEN "next" ELSE "link"

\* add_claim gives the id of an existing claim too, and the link is made anyway.
AfterClaim(c) == "link"

ReplayClaim(r) ==
  /\ \E h \in held[r] :
       /\ h.step = "claim"
       /\ Commit(r, {}, {HeldClaim(r, h)}, {})
       /\ Hold(r, [h EXCEPT !.step = AfterClaim(HeldClaim(r, h))])
  /\ ReplayUnchanged /\ UNCHANGED todo

ReplayLink(r) ==
  /\ \E h \in held[r] :
       /\ h.step = "link"
       /\ Commit(r, {}, {}, {Link(HeldClaim(r, h), h.row)})
       /\ Hold(r, [h EXCEPT !.step = "next"])
  /\ ReplayUnchanged /\ UNCHANGED todo

\* The next supporting observation of the child at hand.
ReplaySupport(r) ==
  /\ \E h \in held[r] :
       /\ h.step = "next" /\ h.child.evidence # {}
       /\ LET o == FirstOf(h.child.evidence)
          IN /\ Commit(r, {InRun(r, o)}, {}, {})
             /\ Hold(r, [child |-> [h.child EXCEPT !.evidence = @ \ {o}],
                         row |-> InRun(r, o), step |-> "link"])
  /\ ReplayUnchanged /\ UNCHANGED todo

\* The pivot the child was found by: the best observation of the value, or one
\* of the engine's own, under a key without a timestamp.
ReplayPivot(r) ==
  /\ \E h \in held[r] : \E f \in h.child.via :
       /\ h.step = "next" /\ h.child.evidence = {}
       /\ LET own == {Observation(r, Derived, f, 0)}
              missing == IF About(r, f) = {} THEN own ELSE {}
          IN /\ Commit(r, missing, {}, {})
             /\ \E o \in About(r, f) \cup missing :
                  Hold(r, [child |-> Child(f, h.child.score, {}, {}), row |-> o, step |-> "claim"])
  /\ ReplayUnchanged /\ UNCHANGED todo

ReplayNext(r) ==
  /\ \E h \in held[r] : h.step = "next" /\ h.child.evidence = {} /\ h.child.via = {}
  /\ Drop(r)
  /\ ReplayUnchanged /\ UNCHANGED <<ledger, todo>>

ReplayEnds(r) ==
  /\ pc[r] = "replay" /\ held[r] = {} /\ todo[r] = {}
  /\ Goto(r, "mark")
  /\ UntouchedTables /\ UNCHANGED <<ledger, mine, pivots, children, todo, held, now, replayed>>

----
(* Interruptions and retention.                                             *)

\* Killed, interrupted, or ended by an IntegrityError because the run is gone.
Stop(r) ==
  /\ pc[r] # "idle"
  /\ stops < MaxStops
  /\ stops' = stops + 1
  /\ cut' = cut \cup {[run |-> r, replay |-> pc[r] = "replay"]}
  /\ Reset(r)
  /\ UNCHANGED <<runs, modelled, ledger, cache, processed, retention, now, retentions, replayed>>

\* The run ids are read before the transaction begins.
ReadCutoff(cutoff) ==
  /\ retention.step # "delete" /\ retentions < MaxRetentions
  /\ retentions' = retentions + 1
  /\ \E r \in runs : r < cutoff
  /\ retention' = [step |-> "delete", runs |-> {r \in runs : r < cutoff}]
  /\ UNCHANGED <<runs, modelled, ledger, cache, processed, local, now, stops, cut, replayed>>

Outside(table) == {row \in table : row.run \notin retention.runs}

Delete ==
  /\ runs' = runs \ retention.runs
  /\ observations' = Outside(observations)
  /\ claims' = Outside(claims)
  /\ links' = {l \in links : l.claim.run \notin retention.runs}
  /\ processed' = processed \ retention.runs

\* model_calls and model_budget_reservations refer to their run and are not
\* deleted: the DELETE FROM runs fails, and the whole transaction is rolled back.
ApplyRetention ==
  /\ retention.step = "delete"
  /\ IF retention.runs \cap modelled = {}
       THEN Delete /\ retention' = [retention EXCEPT !.step = "done"]
       ELSE /\ retention' = [retention EXCEPT !.step = "failed"]
            /\ UNCHANGED <<runs, ledger, processed>>
  /\ UNCHANGED <<modelled, cache, local, now, stops, retentions, cut, replayed>>

Next ==
  \/ \E r \in Runs :
       \/ Gather(r) \/ MapSubdomains(r) \/ SelectPivots(r) \/ RecordPivot(r)
       \/ RecordFound(r) \/ Store(r) \/ MarkDomainProcessed(r)
       \/ StartReplay(r) \/ ReplayObservation(r) \/ ReplayClaim(r) \/ ReplayLink(r)
       \/ ReplaySupport(r) \/ ReplayPivot(r) \/ ReplayNext(r) \/ ReplayEnds(r)
       \/ Stop(r) \/ ReadCutoff(r)
  \/ ApplyRetention

Spec == Init /\ [][Next]_vars

----
(* Properties.                                                              *)

\* A claim is shown as corroborated by independent families only when sources of
\* two families are behind it, one of which may be the engine itself, but then only
\* in a run that was stopped: a delivery records a value as the engine's own when
\* nothing else has it yet.  Redelivery, which stores observations again under new
\* timestamps, and a cascade's second source corroborate nothing.
CorroborationIsEarned ==
  \A c \in claims :
    Independence(Key(c)) = "multiple_independent_families" =>
      \E o, p \in Evidence(Key(c)) :
        /\ Family[o.source] # Family[p.source] /\ p.source # Derived
        /\ o.source = Derived => c.run \in {s.run : s \in cut}

\* A claim and its evidence are one commit except in a replay: a claim without
\* evidence is one a replay is about to link, or was stopped before it could.
EvidenceFirst ==
  \A c \in claims :
    \/ Evidence(Key(c)) # {}
    \/ [run |-> c.run, replay |-> TRUE] \in cut
    \/ \E h \in held[c.run] : h.step = "link" /\ Key(HeldClaim(c.run, h)) = Key(c)

\* When a replay, begun again as often as it was stopped, has marked the domain
\* processed, the run has every child of the entry as a claim, with all the
\* evidence that came with it.
ReplayIsComplete ==
  \A r \in runs \cap processed : \A child \in replayed[r].children :
    {InRun(r, o) : o \in child.evidence} \subseteq Evidence(Key(Claim(r, child.fact, child.score)))

\* Retention removes a run with all that refers to it, also while a worker is
\* still at the run and goes on writing.
RetentionIsWhole ==
  /\ modelled \subseteq runs
  /\ \A row \in observations \cup claims : row.run \in runs
  /\ \A l \in links : l.claim.run \in runs /\ l.observation \in observations

\* A retention that was applied has removed the runs it counted.
RetentionRemoves == retention.step # "failed"
====
