---- MODULE EvidenceLedgerProofs ----
(***************************************************************************)
(* For any runs, reports, families and bounds: retention leaves nothing of *)
(* a run behind, whatever is at work on it; a claim without evidence is    *)
(* one a replay is about to link or was stopped at; a replay that ended    *)
(* has everything the cache listed; and a claim called corroborated in a   *)
(* run that was never stopped has two families that reported its fact.     *)
(*                                                                         *)
(* What workers remember may be of a run that is gone; the foreign keys    *)
(* keep it out of the tables.  So Remembered is about runs that exist.     *)
(* Corroboration needs where a claim and its links come from (Origin), a   *)
(* replay how far it has got (Progress).                                   *)
(***************************************************************************)
EXTENDS EvidenceLedger, FiniteSetTheorems, TLAPS

IsObservation(o) == o = [run |-> o.run, source |-> o.source, fact |-> o.fact, at |-> o.at]
IsChild(c) ==
  /\ c = [fact |-> c.fact, score |-> c.score, evidence |-> c.evidence, via |-> c.via]
  /\ c.evidence # {}
  /\ \A o \in c.evidence : IsObservation(o)
IsHeld(h) ==
  /\ h = [child |-> h.child, row |-> h.row, step |-> h.step]
  /\ h.child = [fact |-> h.child.fact, score |-> h.child.score,
                evidence |-> h.child.evidence, via |-> h.child.via]
  /\ \A o \in h.child.evidence : IsObservation(o)

\* The entry of the cache, and what workers have on their way to it and from it.
MemoryInv ==
  /\ runs \subseteq Runs
  /\ pc \in [Runs -> {"idle", "subdomains", "select", "pivots", "mark", "replay"}]
  /\ DOMAIN mine = Runs /\ DOMAIN children = Runs /\ DOMAIN todo = Runs
  /\ DOMAIN held = Runs /\ DOMAIN pivots = Runs
  /\ \A o \in cache.observations : IsObservation(o)
  /\ \A c \in cache.children : IsChild(c)
  /\ \A r \in Runs :
       /\ \A o \in mine[r] : IsObservation(o) /\ o.run = r
       /\ \A c \in children[r] : IsChild(c)
       /\ \A i \in todo[r] : i = Item(i.stage, i.child) /\ i.stage \in {1, 2} /\ IsChild(i.child)
       /\ \A h \in held[r] : IsHeld(h) /\ IsObservation(h.row) /\ h.row.run = r
       /\ \A g, h \in held[r] : g = h
       /\ held[r] # {} => pc[r] = "replay"

\* What a worker is at is in the tables, as long as its run is.
Remembered ==
  \A r \in runs : mine[r] \subseteq observations /\ \A h \in held[r] : h.row \in observations

\* The tables: every row's run exists; links have their observation, of one run,
\* and never lose it.
TablesInv ==
  /\ RetentionIsWhole
  /\ \A o \in observations : IsObservation(o)
  /\ \A c \in claims : c = [run |-> c.run, fact |-> c.fact, class |-> c.class]
  /\ \A l \in links : l.observation.run = l.claim.run

IInv == MemoryInv /\ Remembered /\ TablesInv /\ EvidenceFirst

----
(* Rows, and what a commit does to the tables.                              *)
----

LEMMA FirstIsOne == ASSUME NEW S, S # {} PROVE FirstOf(S) \in S
  BY DEF FirstOf

LEMMA RowFields ==
  /\ \A r, s, f, t : /\ IsObservation(Observation(r, s, f, t))
                     /\ Observation(r, s, f, t).run = r /\ Observation(r, s, f, t).fact = f
  /\ \A r, o : IsObservation(o) => IsObservation(InRun(r, o)) /\ InRun(r, o).run = r
  /\ \A r, f, s : /\ Claim(r, f, s) = [run |-> Claim(r, f, s).run, fact |-> Claim(r, f, s).fact,
                                      class |-> Claim(r, f, s).class]
                  /\ Claim(r, f, s).run = r /\ Claim(r, f, s).fact = f
                  /\ Key(Claim(r, f, s)) = [run |-> r, fact |-> f]
  /\ \A c, o : /\ Link(c, o).claim = Key(c) /\ Link(c, o).observation = o
               /\ Key(c).run = c.run /\ Key(c).fact = c.fact
<1>1. \A r, s, f, t : /\ IsObservation(Observation(r, s, f, t))
                      /\ Observation(r, s, f, t).run = r /\ Observation(r, s, f, t).fact = f
  BY DEF Observation, IsObservation
<1>2. ASSUME NEW r, NEW o, IsObservation(o)
      PROVE  IsObservation(InRun(r, o)) /\ InRun(r, o).run = r
  <2>1. InRun(r, o) = [run |-> r, source |-> o.source, fact |-> o.fact, at |-> o.at]
    BY <1>2 DEF InRun, IsObservation
  <2>2. QED
    BY <2>1 DEF IsObservation
<1>3. \A r, f, s : /\ Claim(r, f, s) = [run |-> Claim(r, f, s).run, fact |-> Claim(r, f, s).fact,
                                       class |-> Claim(r, f, s).class]
                   /\ Claim(r, f, s).run = r /\ Claim(r, f, s).fact = f
                   /\ Key(Claim(r, f, s)) = [run |-> r, fact |-> f]
  BY DEF Claim, Key
<1>4. \A c, o : /\ Link(c, o).claim = Key(c) /\ Link(c, o).observation = o
                /\ Key(c).run = c.run /\ Key(c).fact = c.fact
  BY DEF Link, Key
<1>5. QED
  BY <1>1, <1>2, <1>3, <1>4

\* What a run may commit: rows of its own, and links to observations that are there.
Own(r, os, cs, ls) ==
  /\ \A o \in os : IsObservation(o) /\ o.run = r
  /\ \A c \in cs : c = [run |-> c.run, fact |-> c.fact, class |-> c.class] /\ c.run = r
  /\ \A l \in ls : /\ l.claim.run = r /\ l.observation.run = r
                   /\ l.observation \in observations \cup os

LEMMA CommitTables ==
  ASSUME TablesInv, NEW r \in Runs, NEW os, NEW cs, NEW ls,
         Commit(r, os, cs, ls), Own(r, os, cs, ls), UNCHANGED <<runs, modelled>>
  PROVE  TablesInv' /\ observations' = observations \cup os /\ links' = links \cup ls
<1>1. /\ r \in runs /\ observations' = observations \cup os /\ links' = links \cup ls
      /\ claims' \subseteq claims \cup cs
  BY DEF Commit, Exists, AddClaims
<1>2. RetentionIsWhole'
  BY <1>1 DEF Own, TablesInv, RetentionIsWhole
<1>3. QED
  BY <1>1, <1>2 DEF Own, TablesInv

\* A commit keeps EvidenceFirst if it brings evidence for its claims, or the replay
\* holds the claim, and if no replay lets go of a claim without linking it.
Linked(q, h) == \E l \in links : l.claim = Key(HeldClaim(q, h))
LEMMA CommitEvidence ==
  ASSUME TablesInv, MemoryInv, EvidenceFirst, NEW r \in Runs, NEW os, NEW cs, NEW ls,
         Commit(r, os, cs, ls), cut' = cut,
         \A c \in cs : /\ c.run = r
                       /\ \/ \E l \in ls : l.claim = Key(c)
                          \/ \E h \in held'[r] : h.step = "link" /\ Key(HeldClaim(r, h)) = Key(c),
         \A h \in held[r] : h.step = "link" => h \in held'[r] \/ Linked(r, h)',
         \A q \in Runs \ {r} : held'[q] = held[q]
  PROVE  EvidenceFirst'
<1>1. links' = links \cup ls /\ claims' \subseteq claims \cup cs
  BY DEF Commit, AddClaims
<1>2. ASSUME NEW c \in cs PROVE
        \/ (Evidence(Key(c)) # {})'
        \/ \E h \in held'[c.run] : h.step = "link" /\ Key(HeldClaim(c.run, h)) = Key(c)
  BY <1>1 DEF Evidence
<1>3. ASSUME NEW c \in claims PROVE
        \/ (Evidence(Key(c)) # {})'
        \/ [run |-> c.run, replay |-> TRUE] \in cut'
        \/ \E h \in held'[c.run] : h.step = "link" /\ Key(HeldClaim(c.run, h)) = Key(c)
  <2>1. CASE Evidence(Key(c)) # {}
    BY <1>1, <2>1 DEF Evidence
  <2>2. CASE [run |-> c.run, replay |-> TRUE] \in cut
    BY <2>2
  <2>3. CASE \E h \in held[c.run] : h.step = "link" /\ Key(HeldClaim(c.run, h)) = Key(c)
    <3>1. PICK h \in held[c.run] : h.step = "link" /\ Key(HeldClaim(c.run, h)) = Key(c)
      BY <2>3
    <3>2. c.run \in Runs
      BY DEF TablesInv, RetentionIsWhole, MemoryInv
    <3>3. CASE h \in held'[c.run]
      BY <3>1, <3>3
    <3>4. CASE c.run = r /\ Linked(r, h)'
      BY <3>1, <3>4 DEF Linked, Evidence
    <3>5. QED
      BY <3>1, <3>2, <3>3, <3>4
  <2>4. QED
    BY <2>1, <2>2, <2>3 DEF EvidenceFirst
<1>4. QED
  BY <1>1, <1>2, <1>3 DEF EvidenceFirst

----
(* The steps of a fresh delivery.                                           *)
----

\* A fresh delivery's commit with evidence for each of its claims.
LEMMA FreshCommit ==
  ASSUME IInv, NEW r \in Runs, NEW os, NEW cs, NEW ls,
         Commit(r, os, cs, ls), Own(r, os, cs, ls), UNCHANGED <<runs, modelled, cut, held>>,
         \A c \in cs : \E l \in ls : l.claim = Key(c),
         \A q \in Runs : mine'[q] \subseteq mine[q] \/ (q = r /\ mine'[q] \subseteq os)
  PROVE  TablesInv' /\ Remembered' /\ EvidenceFirst'
<1>1. TablesInv' /\ observations' = observations \cup os
  BY CommitTables DEF IInv
<1>2. Remembered'
  BY <1>1 DEF IInv, Remembered, MemoryInv
<1>3. EvidenceFirst'
  BY CommitEvidence DEF IInv, Own
<1>4. QED
  BY <1>1, <1>2, <1>3

LEMMA GatherStep == ASSUME IInv, NEW r \in Runs, Gather(r) PROVE IInv'
<1>1. PICK R \in Reports :
        LET os == Reported(r, R)
            seen == Infrastructure(os)
        IN /\ Commit(r, os, {Claim(r, o.fact, "high") : o \in seen},
                     {Link(Claim(r, o.fact, "high"), o) : o \in seen})
           /\ mine' = [mine EXCEPT ![r] = os]
  BY DEF Gather
<1> DEFINE os == Reported(r, R)
           seen == Infrastructure(os)
           cs == {Claim(r, o.fact, "high") : o \in seen}
           ls == {Link(Claim(r, o.fact, "high"), o) : o \in seen}
<1>2. \A o \in os : IsObservation(o) /\ o.run = r
  BY RowFields DEF Reported
<1>3. seen \subseteq os
  BY DEF Infrastructure
<1>4. Commit(r, os, cs, ls) /\ mine' = [mine EXCEPT ![r] = os]
  BY <1>1
<1> HIDE DEF os, seen
<1>5. Own(r, os, cs, ls) /\ \A c \in cs : \E l \in ls : l.claim = Key(c)
  <2>1. \A o \in seen : o.run = r /\ o \in os
    BY <1>2, <1>3
  <2>2. \A c \in cs : c = [run |-> c.run, fact |-> c.fact, class |-> c.class] /\ c.run = r
    BY RowFields
  <2>3. \A l \in ls : l.claim.run = r /\ l.observation.run = r /\ l.observation \in os
    BY <2>1, RowFields
  <2>4. ASSUME NEW o \in seen PROVE \E l \in ls : l.claim = Key(Claim(r, o.fact, "high"))
    <3>1. Link(Claim(r, o.fact, "high"), o) \in ls
      OBVIOUS
    <3>2. QED
      BY <3>1, RowFields
  <2> HIDE DEF cs, ls
  <2>5. QED
    BY <1>2, <2>2, <2>3, <2>4 DEF Own, cs
<1>6. TablesInv' /\ Remembered' /\ EvidenceFirst'
  <2>1. UNCHANGED <<runs, modelled, cut, held>>
    BY DEF Gather, UntouchedTables
  <2>2. \A q \in Runs : mine'[q] \subseteq mine[q] \/ (q = r /\ mine'[q] \subseteq os)
    BY <1>4 DEF IInv, MemoryInv
  <2> HIDE DEF cs, ls
  <2>3. QED
    BY <1>4, <1>5, <2>1, <2>2, FreshCommit
<1>7. MemoryInv'
  <2>1. /\ pc[r] = "idle" /\ pc' = [pc EXCEPT ![r] = "subdomains"]
        /\ UNCHANGED <<runs, cache, pivots, children, todo, held>>
    BY DEF Gather, Deliverable, Goto, UntouchedTables
  <2>2. QED
    BY <1>2, <1>4, <2>1 DEF IInv, MemoryInv
<1>8. QED
  BY <1>6, <1>7 DEF IInv

LEMMA MapSubdomainsStep == ASSUME IInv, NEW r \in Runs, MapSubdomains(r) PROVE IInv'
<1> DEFINE os == {o \in mine[r] : o.fact.kind = "subdomain"}
           names == {o.fact : o \in os}
           cs == {Claim(r, n, "high") : n \in names}
           ls == {Link(Claim(r, o.fact, "high"), o) : o \in os}
           new == {Child(n, "high", {FirstOf({o \in os : o.fact = n})}, {}) : n \in names}
<1>1. Commit(r, {}, cs, ls) /\ children' = [children EXCEPT ![r] = new]
  BY DEF MapSubdomains
<1>2. \A o \in os : IsObservation(o) /\ o.run = r
  BY DEF IInv, MemoryInv
<1>3. os \subseteq observations
  <2>1. r \in runs
    BY <1>1 DEF Commit, Exists
  <2>2. QED
    BY <2>1 DEF IInv, Remembered
<1>4. \A c \in new : IsChild(c)
  <2>1. ASSUME NEW n \in names PROVE IsObservation(FirstOf({o \in os : o.fact = n}))
    <3>1. {o \in os : o.fact = n} # {}
      OBVIOUS
    <3>2. FirstOf({o \in os : o.fact = n}) \in os
      BY <3>1, FirstIsOne
    <3>3. QED
      BY <1>2, <3>2
  <2>2. ASSUME NEW n \in names PROVE IsChild(Child(n, "high", {FirstOf({o \in os : o.fact = n})}, {}))
    <3> DEFINE first == FirstOf({o \in os : o.fact = n})
    <3>1. IsObservation(first)
      BY <2>1
    <3> HIDE DEF first
    <3> DEFINE c == Child(n, "high", {first}, {})
    <3>2. c = [fact |-> c.fact, score |-> c.score, evidence |-> c.evidence, via |-> c.via]
      BY DEF Child
    <3>3. c.evidence = {first}
      BY DEF Child
    <3>4. IsChild(c)
      BY <3>1, <3>2, <3>3 DEF IsChild
    <3>5. QED
      BY <3>4 DEF first
  <2>3. QED
    BY <2>2
<1> HIDE DEF os, new
<1>5. Own(r, {}, cs, ls) /\ \A c \in cs : \E l \in ls : l.claim = Key(c)
  BY <1>2, <1>3, RowFields DEF Own
<1>6. TablesInv' /\ Remembered' /\ EvidenceFirst'
  <2>1. UNCHANGED <<runs, modelled, cut, held, mine>>
    BY DEF MapSubdomains, UntouchedTables
  <2> HIDE DEF cs, ls
  <2>2. QED
    BY <1>1, <1>5, <2>1, FreshCommit
<1>7. MemoryInv'
  <2>1. /\ pc[r] = "subdomains" /\ pc' = [pc EXCEPT ![r] = "select"]
        /\ UNCHANGED <<runs, cache, mine, pivots, todo, held>>
    BY DEF MapSubdomains, Goto, UntouchedTables
  <2>2. QED
    BY <1>1, <1>4, <2>1 DEF IInv, MemoryInv
<1>8. QED
  BY <1>6, <1>7 DEF IInv

LEMMA SelectPivotsStep == ASSUME IInv, NEW r \in Runs, SelectPivots(r) PROVE IInv'
<1>1. /\ pc[r] = "select" /\ pc' = [pc EXCEPT ![r] = "pivots"]
      /\ DOMAIN pivots' = DOMAIN pivots
      /\ UNCHANGED <<runs, observations, claims, links, cache, mine, children, todo, held, cut>>
      /\ modelled' \subseteq modelled \cup {r} /\ (modelled' # modelled => r \in runs)
  BY DEF SelectPivots, Goto, Exists, ledger
<1>2. MemoryInv'
  BY <1>1 DEF IInv, MemoryInv
<1>3. Remembered' /\ TablesInv'
  BY <1>1 DEF IInv, Remembered, TablesInv, RetentionIsWhole
<1>4. EvidenceFirst'
  BY <1>1 DEF IInv, EvidenceFirst, Evidence
<1>5. QED
  BY <1>2, <1>3, <1>4 DEF IInv

LEMMA RecordPivotStep == ASSUME IInv, NEW r \in Runs, RecordPivot(r) PROVE IInv'
<1>1. PICK p \in pivots[r] :
        LET c == Claim(r, p.fact, p.score)
            own == {Observation(r, Derived, p.fact, now)}
            os == IF About(r, p.fact) = {} THEN own ELSE About(r, p.fact)
        IN /\ Commit(r, os, {c}, Support(c, os))
           /\ pivots' = [pivots EXCEPT ![r] = (@ \ {p}) \cup {[p EXCEPT !.step = "search"]}]
  BY DEF RecordPivot
<1> DEFINE c == Claim(r, p.fact, p.score)
           own == {Observation(r, Derived, p.fact, now)}
           os == IF About(r, p.fact) = {} THEN own ELSE About(r, p.fact)
<1>2. Commit(r, os, {c}, Support(c, os))
  BY <1>1
<1>3. os # {} /\ \A o \in os : IsObservation(o) /\ o.run = r
  BY RowFields DEF About, IInv, TablesInv
<1> HIDE DEF os
<1>4. Own(r, os, {c}, Support(c, os)) /\ \E l \in Support(c, os) : l.claim = Key(c)
  BY <1>3, RowFields DEF Own, Support
<1>5. TablesInv' /\ Remembered' /\ EvidenceFirst'
  <2>1. UNCHANGED <<runs, modelled, cut, held, mine>>
    BY DEF RecordPivot, UntouchedTables
  <2> HIDE DEF c
  <2>2. QED
    BY <1>2, <1>4, <2>1, FreshCommit
<1>6. MemoryInv'
  <2>1. DOMAIN pivots' = DOMAIN pivots /\ UNCHANGED <<runs, pc, cache, mine, children, todo, held>>
    BY <1>1 DEF RecordPivot, UntouchedTables
  <2>2. QED
    BY <2>1 DEF IInv, MemoryInv
<1>7. QED
  BY <1>5, <1>6 DEF IInv

LEMMA RecordFoundStep == ASSUME IInv, NEW r \in Runs, RecordFound(r) PROVE IInv'
<1>1. PICK p \in pivots[r], F \in Found :
        LET new == {Record(r, p, f) : f \in F}
        IN /\ Commit(r, UNION {n.evidence : n \in new}, {Claim(r, n.fact, n.score) : n \in new},
                     UNION {Support(Claim(r, n.fact, n.score), n.evidence) : n \in new})
           /\ pivots' = [pivots EXCEPT ![r] = @ \ {p}]
           /\ children' = [children EXCEPT ![r] = @ \cup new]
  BY DEF RecordFound
<1> DEFINE new == {Record(r, p, f) : f \in F}
           os == UNION {n.evidence : n \in new}
           cs == {Claim(r, n.fact, n.score) : n \in new}
           ls == UNION {Support(Claim(r, n.fact, n.score), n.evidence) : n \in new}
<1>2. \A n \in new : IsChild(n) /\ \A o \in n.evidence : o.run = r
  <2>1. ASSUME NEW f \in F
        PROVE  IsChild(Record(r, p, f)) /\ \A o \in Record(r, p, f).evidence : o.run = r
    <3>1. f.sources # {}
      BY LedgerAssumption
    <3>2. Record(r, p, f).evidence = {Observation(r, s, f.fact, now) : s \in f.sources}
      BY DEF Record
    <3>3. \A o \in Record(r, p, f).evidence : IsObservation(o) /\ o.run = r
      BY <3>2, RowFields
    <3>4. Record(r, p, f).evidence # {}
      BY <3>1, <3>2
    <3>5. Record(r, p, f) = [fact |-> Record(r, p, f).fact, score |-> Record(r, p, f).score,
                             evidence |-> Record(r, p, f).evidence, via |-> Record(r, p, f).via]
      BY DEF Record
    <3>6. QED
      BY <3>3, <3>4, <3>5 DEF IsChild
  <2>2. QED
    BY <2>1
<1>3. Commit(r, os, cs, ls) /\ children' = [children EXCEPT ![r] = @ \cup new]
  BY <1>1
<1> HIDE DEF new
<1>4. Own(r, os, cs, ls)
  BY <1>2, RowFields DEF Own, Support, IsChild
<1>5. \A c \in cs : \E l \in ls : l.claim = Key(c)
  <2>1. ASSUME NEW n \in new PROVE \E l \in ls : l.claim = Key(Claim(r, n.fact, n.score))
    <3>1. PICK o \in n.evidence : TRUE
      BY <1>2 DEF IsChild
    <3>2. Link(Claim(r, n.fact, n.score), o) \in ls
      BY <3>1 DEF Support
    <3>3. QED
      BY <3>2, RowFields
  <2>2. QED
    BY <2>1
<1>6. TablesInv' /\ Remembered' /\ EvidenceFirst'
  <2>1. UNCHANGED <<runs, modelled, cut, held, mine>>
    BY DEF RecordFound, UntouchedTables
  <2> HIDE DEF os, cs, ls
  <2>2. QED
    BY <1>3, <1>4, <1>5, <2>1, FreshCommit
<1>7. MemoryInv'
  <2>1. DOMAIN pivots' = DOMAIN pivots /\ UNCHANGED <<runs, pc, cache, mine, todo, held>>
    BY <1>1 DEF RecordFound, UntouchedTables
  <2>2. QED
    BY <1>2, <1>3, <2>1 DEF IInv, MemoryInv
<1>8. QED
  BY <1>6, <1>7 DEF IInv

LEMMA StoreStep == ASSUME IInv, NEW r \in Runs, Store(r) PROVE IInv'
<1>1. /\ pc[r] = "pivots" /\ pc' = [pc EXCEPT ![r] = "mark"]
      /\ UNCHANGED <<runs, modelled, observations, claims, links, mine, pivots, children, todo, held, cut>>
      /\ \/ cache'.observations = mine[r] /\ cache'.children = children[r]
         \/ cache' = cache
  BY DEF Store, Goto, ledger
<1>2. MemoryInv'
  BY <1>1 DEF IInv, MemoryInv
<1>3. Remembered' /\ TablesInv' /\ EvidenceFirst'
  BY <1>1 DEF IInv, Remembered, TablesInv, RetentionIsWhole, EvidenceFirst, Evidence
<1>4. QED
  BY <1>2, <1>3 DEF IInv

----
(* The steps of a replay.                                                   *)
----

\* The worker of r forgets what it had; nothing is committed.
LEMMA ResetMemory ==
  ASSUME MemoryInv, NEW r \in Runs, Reset(r), UNCHANGED <<cache>>, runs' \subseteq runs
  PROVE  MemoryInv' /\ \A q \in Runs : mine'[q] \subseteq mine[q] /\ held'[q] \subseteq held[q]
  BY DEF Reset, Goto, MemoryInv

LEMMA MarkStep == ASSUME IInv, NEW r \in Runs, MarkDomainProcessed(r) PROVE IInv'
<1>1. /\ pc[r] = "mark" /\ Reset(r)
      /\ UNCHANGED <<runs, modelled, observations, claims, links, cache, cut>>
  BY DEF MarkDomainProcessed, ledger
<1>2. MemoryInv' /\ \A q \in Runs : mine'[q] \subseteq mine[q] /\ held'[q] \subseteq held[q]
  BY <1>1, ResetMemory DEF IInv
<1>3. \A c \in claims : held'[c.run] = held[c.run]
  <2>1. held' = [held EXCEPT ![r] = {}] /\ held[r] = {}
    BY <1>1 DEF Reset, IInv, MemoryInv
  <2>2. \A c \in claims : c.run \in Runs
    BY DEF IInv, MemoryInv, TablesInv, RetentionIsWhole
  <2>3. QED
    BY <2>1, <2>2 DEF IInv, MemoryInv
<1>4. Remembered' /\ TablesInv'
  BY <1>1, <1>2 DEF IInv, MemoryInv, Remembered, TablesInv, RetentionIsWhole
<1>5. EvidenceFirst'
  BY <1>1, <1>3 DEF IInv, EvidenceFirst, Evidence
<1>6. QED
  BY <1>2, <1>4, <1>5 DEF IInv

LEMMA StartReplayStep == ASSUME IInv, NEW r \in Runs, StartReplay(r) PROVE IInv'
<1>1. /\ pc[r] = "idle" /\ pc' = [pc EXCEPT ![r] = "replay"]
      /\ todo' = [todo EXCEPT ![r] = Items(cache)]
      /\ UNCHANGED <<runs, modelled, observations, claims, links, cache, cut, mine, pivots, children, held>>
  BY DEF StartReplay, Deliverable, Goto, UntouchedTables, ledger
<1>2. \A i \in Items(cache) : i = Item(i.stage, i.child) /\ i.stage \in {1, 2} /\ IsChild(i.child)
  <2>1. ASSUME NEW o \in cache.observations PROVE IsChild(Child(o.fact, "high", {o}, {}))
    <3> DEFINE c == Child(o.fact, "high", {o}, {})
    <3>1. c = [fact |-> c.fact, score |-> c.score, evidence |-> c.evidence, via |-> c.via]
      BY DEF Child
    <3>2. c.evidence = {o} /\ IsObservation(o)
      BY DEF Child, IInv, MemoryInv
    <3> HIDE DEF c
    <3>3. IsChild(c)
      BY <3>1, <3>2 DEF IsChild
    <3>4. QED
      BY <3>3 DEF c
  <2>2. \A c \in cache.children : IsChild(c)
    BY DEF IInv, MemoryInv
  <2>3. \A s, c : Item(s, c).stage = s /\ Item(s, c).child = c
    BY DEF Item
  <2>4. ASSUME NEW i \in Items(cache) PROVE \E s \in {1, 2} : \E c : i = Item(s, c) /\ IsChild(c)
    BY <2>1, <2>2 DEF Items
  <2>5. QED
    BY <2>3, <2>4
<1>3. MemoryInv'
  BY <1>1, <1>2 DEF IInv, MemoryInv
<1>4. Remembered' /\ TablesInv' /\ EvidenceFirst'
  BY <1>1 DEF IInv, Remembered, TablesInv, RetentionIsWhole, EvidenceFirst, Evidence
<1>5. QED
  BY <1>3, <1>4 DEF IInv

\* What a replay may hold after it committed the observations os.
MayHold(r, os, H) ==
  /\ \A h \in H : IsHeld(h) /\ IsObservation(h.row) /\ h.row.run = r /\ h.row \in observations \cup os
  /\ \A g, h \in H : g = h

\* Claims committed are linked, or held to be linked; a link held is kept or made.
Fulfils(r, cs, ls, H) ==
  /\ \A c \in cs :
       \/ \E l \in ls : l.claim = Key(c)
       \/ \E h \in H : h.step = "link" /\ Key(HeldClaim(r, h)) = Key(c)
  /\ \A h \in held[r] : h.step = "link" => h \in H \/ \E l \in ls : l.claim = Key(HeldClaim(r, h))

TodoShrinks == DOMAIN todo' = Runs /\ \A q \in Runs : todo'[q] \subseteq todo[q]

LEMMA ReplayCommit ==
  ASSUME IInv, NEW r \in Runs, pc[r] = "replay", NEW os, NEW cs, NEW ls, NEW H,
         Commit(r, os, cs, ls), Own(r, os, cs, ls), ReplayUnchanged, TodoShrinks,
         held' = [held EXCEPT ![r] = H], MayHold(r, os, H), Fulfils(r, cs, ls, H)
  PROVE  IInv'
<1> USE DEF MayHold, Fulfils
<1>1. UNCHANGED <<runs, modelled, cache, cut, pc, mine, pivots, children>>
  BY DEF ReplayUnchanged, UntouchedTables
<1>2. TablesInv' /\ observations' = observations \cup os /\ links' = links \cup ls
  BY <1>1, CommitTables DEF IInv
<1>3. held'[r] = H /\ \A q \in Runs \ {r} : held'[q] = held[q]
  BY DEF IInv, MemoryInv
<1>4. Remembered'
  BY <1>1, <1>2, <1>3 DEF IInv, MemoryInv, Remembered
<1>5. EvidenceFirst'
  <2>1. \A h \in held[r] : h.step = "link" => h \in held'[r] \/ Linked(r, h)'
    BY <1>2, <1>3 DEF Linked
  <2>2. QED
    BY <1>1, <1>3, <2>1, CommitEvidence DEF IInv, Own
<1>6. MemoryInv'
  BY <1>1, <1>3 DEF IInv, MemoryInv, TodoShrinks
<1>7. QED
  BY <1>2, <1>4, <1>5, <1>6 DEF IInv

LEMMA ReplayObservationStep == ASSUME IInv, NEW r \in Runs, ReplayObservation(r) PROVE IInv'
<1> DEFINE M == {j \in todo[r] : \A k \in todo[r] : j.stage =< k.stage}
           i == FirstOf(M)
           o == FirstOf(i.child.evidence)
           h == [child |-> [i.child EXCEPT !.evidence = @ \ {o}], row |-> InRun(r, o), step |-> "claim"]
<1>1. /\ pc[r] = "replay" /\ held[r] = {} /\ todo[r] # {}
      /\ Commit(r, {InRun(r, o)}, {}, {})
      /\ todo' = [todo EXCEPT ![r] = @ \ {i}]
      /\ held' = [held EXCEPT ![r] = {h}] \/ held' = [held EXCEPT ![r] = {}]
      /\ ReplayUnchanged
  BY DEF ReplayObservation, Hold, Drop
<1>2. i \in todo[r]
  <2>1. \A j \in todo[r] : j.stage \in {1, 2}
    BY DEF IInv, MemoryInv
  <2>2. M # {}
    <3>1. CASE \E j \in todo[r] : j.stage = 1
      BY <2>1, <3>1
    <3>2. CASE \A j \in todo[r] : j.stage = 2
      BY <1>1, <3>2
    <3>3. QED
      BY <2>1, <3>1, <3>2
  <2>3. i \in M
    BY <2>2, FirstIsOne
  <2>4. QED
    BY <2>3
<1>3. IsChild(i.child)
  BY <1>2 DEF IInv, MemoryInv
<1>4. o \in i.child.evidence /\ IsObservation(o)
  BY <1>3, FirstIsOne DEF IsChild
<1>5. IsObservation(InRun(r, o)) /\ InRun(r, o).run = r
  BY <1>4, RowFields
<1> HIDE DEF o
<1>6. IsHeld(h) /\ h.row = InRun(r, o) /\ h.step = "claim"
  BY <1>3 DEF IsHeld, IsChild
<1> HIDE DEF h, i
<1>7. Own(r, {InRun(r, o)}, {}, {})
  BY <1>5 DEF Own
<1>8. TodoShrinks
  BY <1>1 DEF IInv, MemoryInv, TodoShrinks
<1>9. CASE held' = [held EXCEPT ![r] = {h}]
  <2> DEFINE H == {h}
  <2>1. MayHold(r, {InRun(r, o)}, H) /\ Fulfils(r, {}, {}, H)
    BY <1>1, <1>5, <1>6 DEF MayHold, Fulfils
  <2>2. held' = [held EXCEPT ![r] = H]
    BY <1>9
  <2> HIDE DEF H
  <2>3. QED
    BY <1>1, <1>7, <1>8, <2>1, <2>2, ReplayCommit
<1>10. CASE held' = [held EXCEPT ![r] = {}]
  <2>1. MayHold(r, {InRun(r, o)}, {}) /\ Fulfils(r, {}, {}, {})
    BY <1>1 DEF MayHold, Fulfils
  <2>2. QED
    BY <1>1, <1>7, <1>8, <1>10, <2>1, ReplayCommit
<1>11. QED
  BY <1>1, <1>9, <1>10

\* A replay that holds a claim is at work, and holds only that.
LEMMA Holding ==
  ASSUME IInv, NEW r \in Runs, NEW h \in held[r]
  PROVE  /\ pc[r] = "replay" /\ IsHeld(h) /\ IsObservation(h.row) /\ h.row.run = r
         /\ \A g \in held[r] : g = h
         /\ r \in runs => h.row \in observations
  BY DEF IInv, MemoryInv, Remembered

LEMMA ReplayClaimStep == ASSUME IInv, NEW r \in Runs, ReplayClaim(r) PROVE IInv'
<1>1. PICK h \in held[r] :
        /\ h.step = "claim"
        /\ Commit(r, {}, {HeldClaim(r, h)}, {})
        /\ held' = [held EXCEPT ![r] = {[h EXCEPT !.step = "link"]}]
  BY DEF ReplayClaim, Hold, AfterClaim
<1>2. ReplayUnchanged /\ todo' = todo
  BY DEF ReplayClaim
<1> DEFINE g == [h EXCEPT !.step = "link"]
           H == {g}
           c == HeldClaim(r, h)
<1>3. /\ pc[r] = "replay" /\ IsHeld(h) /\ IsObservation(h.row) /\ h.row.run = r
      /\ h.row \in observations /\ \A f \in held[r] : f = h
  BY <1>1, Holding DEF Commit, Exists
<1>4. /\ IsHeld(g) /\ IsObservation(g.row) /\ g.row.run = r /\ g.row \in observations
      /\ g.step = "link" /\ HeldClaim(r, g) = c
  <2>1. h = [child |-> h.child, row |-> h.row, step |-> h.step]
    BY <1>3 DEF IsHeld
  <2>2. g = [child |-> h.child, row |-> h.row, step |-> "link"]
    BY <2>1
  <2>3. g.child = h.child /\ g.row = h.row /\ g.step = "link"
    BY <2>2
  <2> HIDE DEF g
  <2>4. IsHeld(g)
    BY <1>3, <2>2, <2>3 DEF IsHeld
  <2>5. QED
    BY <1>3, <2>3, <2>4 DEF HeldClaim
<1>5. c = [run |-> c.run, fact |-> c.fact, class |-> c.class] /\ c.run = r
  BY RowFields DEF HeldClaim
<1>6. held' = [held EXCEPT ![r] = H]
  BY <1>1
<1> HIDE DEF g, c
<1>7. Own(r, {}, {c}, {})
  BY <1>5 DEF Own
<1>8. Commit(r, {}, {c}, {})
  BY <1>1 DEF c
<1>9. \A f \in held[r] : f.step # "link"
  BY <1>1, <1>3
<1>10. MayHold(r, {}, H) /\ Fulfils(r, {c}, {}, H)
  <2>1. MayHold(r, {}, H)
    BY <1>4 DEF MayHold
  <2>2. Key(HeldClaim(r, g)) = Key(c)
    BY <1>4
  <2>3. Fulfils(r, {c}, {}, H)
    BY <1>4, <1>9, <2>2 DEF Fulfils
  <2>4. QED
    BY <2>1, <2>3
<1> HIDE DEF H
<1>11. TodoShrinks
  BY <1>2 DEF IInv, MemoryInv, TodoShrinks
<1>12. QED
  BY <1>2, <1>3, <1>6, <1>7, <1>8, <1>10, <1>11, ReplayCommit

LEMMA ReplayLinkStep == ASSUME IInv, NEW r \in Runs, ReplayLink(r) PROVE IInv'
<1>1. PICK h \in held[r] :
        /\ h.step = "link"
        /\ Commit(r, {}, {}, {Link(HeldClaim(r, h), h.row)})
        /\ held' = [held EXCEPT ![r] = {[h EXCEPT !.step = "next"]}]
  BY DEF ReplayLink, Hold
<1> DEFINE g == [h EXCEPT !.step = "next"]
           H == {g}
           l == Link(HeldClaim(r, h), h.row)
<1>2. /\ pc[r] = "replay" /\ IsHeld(h) /\ IsObservation(h.row) /\ h.row.run = r
      /\ h.row \in observations /\ \A f \in held[r] : f = h
  BY <1>1, Holding DEF Commit, Exists
<1>3. IsHeld(g) /\ g.row = h.row /\ g.step = "next"
  <2>1. h = [child |-> h.child, row |-> h.row, step |-> h.step]
    BY <1>2 DEF IsHeld
  <2>2. g = [child |-> h.child, row |-> h.row, step |-> "next"]
    BY <2>1
  <2>3. g.child = h.child /\ g.row = h.row /\ g.step = "next"
    BY <2>2
  <2> HIDE DEF g
  <2>4. QED
    BY <1>2, <2>2, <2>3 DEF IsHeld
<1>4. l.claim = Key(HeldClaim(r, h)) /\ l.observation = h.row /\ l.claim.run = r
  <2>1. HeldClaim(r, h).run = r
    BY RowFields DEF HeldClaim
  <2>2. QED
    BY <2>1, RowFields
<1>5. held' = [held EXCEPT ![r] = H] /\ Commit(r, {}, {}, {l})
  BY <1>1
<1> HIDE DEF g, l
<1>6. Own(r, {}, {}, {l})
  BY <1>2, <1>4 DEF Own
<1>7. MayHold(r, {}, H) /\ Fulfils(r, {}, {l}, H)
  BY <1>2, <1>3, <1>4 DEF MayHold, Fulfils
<1> HIDE DEF H
<1>8. TodoShrinks /\ ReplayUnchanged
  BY DEF ReplayLink, IInv, MemoryInv, TodoShrinks
<1>9. QED
  BY <1>2, <1>5, <1>6, <1>7, <1>8, ReplayCommit

LEMMA ReplaySupportStep == ASSUME IInv, NEW r \in Runs, ReplaySupport(r) PROVE IInv'
<1>1. PICK h \in held[r] :
        /\ h.step = "next" /\ h.child.evidence # {}
        /\ LET o == FirstOf(h.child.evidence)
           IN /\ Commit(r, {InRun(r, o)}, {}, {})
              /\ held' = [held EXCEPT ![r] =
                   {[child |-> [h.child EXCEPT !.evidence = @ \ {o}], row |-> InRun(r, o), step |-> "link"]}]
  BY DEF ReplaySupport, Hold
<1> DEFINE o == FirstOf(h.child.evidence)
           g == [child |-> [h.child EXCEPT !.evidence = @ \ {o}], row |-> InRun(r, o), step |-> "link"]
           H == {g}
<1>2. /\ pc[r] = "replay" /\ IsHeld(h) /\ \A f \in held[r] : f = h
  BY <1>1, Holding DEF Commit, Exists
<1>3. IsObservation(o)
  BY <1>1, <1>2, FirstIsOne DEF IsHeld
<1>4. IsObservation(InRun(r, o)) /\ InRun(r, o).run = r
  BY <1>3, RowFields
<1>5. held' = [held EXCEPT ![r] = H] /\ Commit(r, {InRun(r, o)}, {}, {})
  BY <1>1
<1> HIDE DEF o
<1>6. IsHeld(g) /\ g.row = InRun(r, o)
  BY <1>2 DEF IsHeld
<1> HIDE DEF g
<1>7. Own(r, {InRun(r, o)}, {}, {})
  BY <1>4 DEF Own
<1>8. MayHold(r, {InRun(r, o)}, H) /\ Fulfils(r, {}, {}, H)
  BY <1>1, <1>2, <1>4, <1>6 DEF MayHold, Fulfils
<1> HIDE DEF H
<1>9. TodoShrinks /\ ReplayUnchanged
  BY DEF ReplaySupport, IInv, MemoryInv, TodoShrinks
<1>10. QED
  BY <1>2, <1>5, <1>7, <1>8, <1>9, ReplayCommit

LEMMA ReplayPivotStep == ASSUME IInv, NEW r \in Runs, ReplayPivot(r) PROVE IInv'
<1>1. PICK h, f :
        /\ h \in held[r] /\ f \in h.child.via /\ h.step = "next"
        /\ LET own == {Observation(r, Derived, f, 0)}
               missing == IF About(r, f) = {} THEN own ELSE {}
           IN /\ Commit(r, missing, {}, {})
              /\ \E o \in About(r, f) \cup missing :
                   held' = [held EXCEPT ![r] =
                     {[child |-> Child(f, h.child.score, {}, {}), row |-> o, step |-> "claim"]}]
  BY DEF ReplayPivot, Hold
<1> DEFINE own == {Observation(r, Derived, f, 0)}
           missing == IF About(r, f) = {} THEN own ELSE {}
<1>2. PICK o \in About(r, f) \cup missing :
        held' = [held EXCEPT ![r] =
          {[child |-> Child(f, h.child.score, {}, {}), row |-> o, step |-> "claim"]}]
  BY <1>1
<1> DEFINE g == [child |-> Child(f, h.child.score, {}, {}), row |-> o, step |-> "claim"]
           H == {g}
<1>3. pc[r] = "replay" /\ \A e \in held[r] : e = h
  BY <1>1, Holding
<1>4. \A e \in missing : IsObservation(e) /\ e.run = r
  BY RowFields
<1>5. Commit(r, missing, {}, {}) /\ held' = [held EXCEPT ![r] = H]
  BY <1>1, <1>2
<1> HIDE DEF missing
<1>6. IsObservation(o) /\ o.run = r /\ o \in observations \cup missing
  BY <1>2, <1>4 DEF About, IInv, TablesInv
<1>7. IsHeld(g) /\ g.row = o
  BY DEF IsHeld, Child
<1> HIDE DEF g
<1>8. Own(r, missing, {}, {})
  BY <1>4 DEF Own
<1>9. MayHold(r, missing, H) /\ Fulfils(r, {}, {}, H)
  BY <1>1, <1>3, <1>6, <1>7 DEF MayHold, Fulfils
<1> HIDE DEF H
<1>10. TodoShrinks /\ ReplayUnchanged
  BY DEF ReplayPivot, IInv, MemoryInv, TodoShrinks
<1>11. QED
  BY <1>3, <1>5, <1>8, <1>9, <1>10, ReplayCommit

LEMMA ReplayNextStep == ASSUME IInv, NEW r \in Runs, ReplayNext(r) \/ ReplayEnds(r) PROVE IInv'
<1>1. /\ UNCHANGED <<runs, modelled, observations, claims, links, cache, cut, mine, pivots, children, todo>>
      /\ \/ /\ held' = [held EXCEPT ![r] = {}] /\ pc' = pc
            /\ \E h \in held[r] : h.step = "next"
         \/ /\ held' = held /\ pc' = [pc EXCEPT ![r] = "mark"] /\ held[r] = {}
  BY DEF ReplayNext, ReplayEnds, Drop, Goto, ReplayUnchanged, UntouchedTables, ledger
<1>2. MemoryInv'
  BY <1>1 DEF IInv, MemoryInv
<1>3. \A q \in Runs : \A h \in held[q] : h \in held'[q] \/ (q = r /\ h.step = "next")
  BY <1>1 DEF IInv, MemoryInv
<1>4. \A q \in Runs : held'[q] \subseteq held[q]
  BY <1>1 DEF IInv, MemoryInv
<1>5. Remembered' /\ TablesInv'
  BY <1>1, <1>4 DEF IInv, MemoryInv, Remembered, TablesInv, RetentionIsWhole
<1>6. EvidenceFirst'
  <2>1. \A c \in claims : c.run \in Runs
    BY DEF IInv, MemoryInv, TablesInv, RetentionIsWhole
  <2>2. QED
    BY <1>1, <1>3, <2>1 DEF IInv, EvidenceFirst, Evidence
<1>7. QED
  BY <1>2, <1>5, <1>6 DEF IInv

----
(* Interruptions and retention.                                             *)
----

LEMMA StopStep == ASSUME IInv, NEW r \in Runs, Stop(r) PROVE IInv'
<1>1. /\ Reset(r) /\ cut' = cut \cup {[run |-> r, replay |-> pc[r] = "replay"]}
      /\ UNCHANGED <<runs, modelled, observations, claims, links, cache>>
  BY DEF Stop, ledger
<1>2. MemoryInv' /\ \A q \in Runs : mine'[q] \subseteq mine[q] /\ held'[q] \subseteq held[q]
  BY <1>1, ResetMemory DEF IInv
<1>3. Remembered' /\ TablesInv'
  BY <1>1, <1>2 DEF IInv, MemoryInv, Remembered, TablesInv, RetentionIsWhole
<1>4. \A q \in Runs \ {r} : held'[q] = held[q]
  BY <1>1 DEF Reset, IInv, MemoryInv
<1>5. ASSUME NEW c \in claims', ~(Evidence(Key(c)) # {})'
      PROVE  \/ [run |-> c.run, replay |-> TRUE] \in cut'
             \/ \E h \in held'[c.run] : h.step = "link" /\ Key(HeldClaim(c.run, h)) = Key(c)
  <2>1. c \in claims /\ Evidence(Key(c)) = {} /\ c.run \in Runs
    BY <1>1, <1>5 DEF Evidence, IInv, MemoryInv, TablesInv, RetentionIsWhole
  <2>2. CASE [run |-> c.run, replay |-> TRUE] \in cut
    BY <1>1, <2>2
  <2>3. CASE \E h \in held[c.run] : h.step = "link" /\ Key(HeldClaim(c.run, h)) = Key(c)
    <3>1. CASE c.run = r
      <4>1. pc[r] = "replay"
        BY <2>3, <3>1 DEF IInv, MemoryInv
      <4>2. [run |-> r, replay |-> TRUE] \in cut'
        BY <1>1, <4>1
      <4>3. QED
        BY <3>1, <4>2
    <3>2. CASE c.run # r
      BY <1>4, <2>1, <2>3, <3>2
    <3>3. QED
      BY <3>1, <3>2
  <2>4. QED
    BY <2>1, <2>2, <2>3 DEF IInv, EvidenceFirst
<1>6. EvidenceFirst'
  BY <1>5 DEF EvidenceFirst
<1>7. QED
  BY <1>2, <1>3, <1>6 DEF IInv

\* The rows of the runs that go are found by their run, and no link crosses runs.
LEMMA ApplyRetentionStep == ASSUME IInv, ApplyRetention PROVE IInv'
<1>1. UNCHANGED <<modelled, cache, pc, mine, pivots, children, todo, held, cut>>
  BY DEF ApplyRetention, local
<1>2. CASE UNCHANGED <<runs, observations, claims, links>>
  BY <1>1, <1>2 DEF IInv, MemoryInv, Remembered, TablesInv, RetentionIsWhole, EvidenceFirst, Evidence
<1>3. CASE /\ retention.runs \cap modelled = {}
           /\ runs' = runs \ retention.runs
           /\ observations' = Outside(observations)
           /\ claims' = Outside(claims)
           /\ links' = {l \in links : l.claim.run \notin retention.runs}
  <2>1. MemoryInv'
    BY <1>1, <1>3 DEF IInv, MemoryInv
  <2>2. Remembered'
    BY <1>1, <1>3 DEF IInv, MemoryInv, Remembered, Outside
  <2>3. TablesInv'
    BY <1>1, <1>3 DEF IInv, TablesInv, RetentionIsWhole, Outside
  <2>4. ASSUME NEW c \in claims' PROVE Evidence(Key(c))' = Evidence(Key(c)) /\ c \in claims
    <3>1. c \in claims /\ c.run \notin retention.runs
      BY <1>3 DEF Outside
    <3>2. \A l \in links : l.claim = Key(c) => l \in links'
      BY <1>3, <3>1, RowFields
    <3>3. links' \subseteq links
      BY <1>3
    <3>4. QED
      BY <3>1, <3>2, <3>3 DEF Evidence
  <2>5. EvidenceFirst'
    BY <1>1, <2>4 DEF IInv, EvidenceFirst
  <2>6. QED
    BY <2>1, <2>2, <2>3, <2>5 DEF IInv
<1>4. QED
  BY <1>2, <1>3 DEF ApplyRetention, Delete, ledger

LEMMA NextStep == IInv /\ [Next]_vars => IInv'
<1> SUFFICES ASSUME IInv, [Next]_vars PROVE IInv'
  OBVIOUS
<1>1. ASSUME NEW r \in Runs,
             \/ Gather(r) \/ MapSubdomains(r) \/ SelectPivots(r) \/ RecordPivot(r)
             \/ RecordFound(r) \/ Store(r) \/ MarkDomainProcessed(r)
      PROVE  IInv'
  BY <1>1, GatherStep, MapSubdomainsStep, SelectPivotsStep, RecordPivotStep,
     RecordFoundStep, StoreStep, MarkStep
<1>2. ASSUME NEW r \in Runs,
             \/ StartReplay(r) \/ ReplayObservation(r) \/ ReplayClaim(r) \/ ReplayLink(r)
             \/ ReplaySupport(r) \/ ReplayPivot(r) \/ ReplayNext(r) \/ ReplayEnds(r)
             \/ Stop(r)
      PROVE  IInv'
  BY <1>2, StartReplayStep, ReplayObservationStep, ReplayClaimStep, ReplayLinkStep,
     ReplaySupportStep, ReplayPivotStep, ReplayNextStep, StopStep
<1>3. CASE (\E r \in Runs : ReadCutoff(r)) \/ UNCHANGED vars
  <2>1. UNCHANGED <<runs, modelled, observations, claims, links, cache, cut, pc, mine, pivots, children, todo, held>>
    BY <1>3 DEF ReadCutoff, vars, ledger, local
  <2>2. QED
    BY <2>1 DEF IInv, MemoryInv, Remembered, TablesInv, RetentionIsWhole, EvidenceFirst, Evidence
<1>4. CASE ApplyRetention
  BY <1>4, ApplyRetentionStep
<1>5. QED
  BY <1>1, <1>2, <1>3, <1>4 DEF Next

LEMMA InitStep == Init => IInv
  BY DEF Init, NoEntry, IInv, MemoryInv, Remembered, TablesInv, RetentionIsWhole, EvidenceFirst

\* Retention takes a run with all that refers to it, whatever is still at work on
\* it, and whatever its worker remembers.
THEOREM RetentionStaysWhole == Spec => []RetentionIsWhole
<1>1. IInv => RetentionIsWhole
  BY DEF IInv, TablesInv
<1>2. QED
  BY InitStep, NextStep, <1>1, PTL DEF Spec

\* A claim without evidence is one a replay is about to link, or was stopped at.
THEOREM ClaimsHaveEvidence == Spec => []EvidenceFirst
<1>1. IInv => EvidenceFirst
  BY DEF IInv
<1>2. QED
  BY InitStep, NextStep, <1>1, PTL DEF Spec

----
(* Where evidence comes from, and how far a replay has got.                 *)
----

\* A child found: a domain, with evidence about it from a provider, and the
\* identifier it was found by.
IsFinding(c) ==
  /\ c.fact.kind # "identifier"
  /\ \A o \in c.evidence : o.fact = c.fact /\ o.source # Derived
  /\ \A f \in c.via : f.kind = "identifier"

\* An observation to replay: one, and a provider's.
IsReport(c) ==
  /\ c.via = {}
  /\ \E o : c.evidence = {o} /\ o.fact = c.fact /\ o.source # Derived

\* What a replay has at hand is about one fact.
IsOneFact(h) ==
  /\ h.step \in {"claim", "link", "next"}
  /\ h.row.fact = h.child.fact
  /\ \A o \in h.child.evidence :
       o.fact = h.child.fact /\ o.source # Derived /\ o.fact.kind # "identifier"
  /\ \A f \in h.child.via : f.kind = "identifier"

\* Only pivots are the engine's own.
AboutMemory ==
  /\ \A o \in cache.observations : o.source # Derived
  /\ \A c \in cache.children : IsFinding(c)
  /\ \A r \in Runs :
       /\ \A o \in mine[r] : o.source # Derived
       /\ \A p \in pivots[r] : p = [fact |-> p.fact, score |-> p.score, step |-> p.step]
                               /\ p.fact.kind = "identifier"
       /\ \A c \in children[r] : IsFinding(c)
       /\ \A i \in todo[r] : IF i.stage = 2 THEN IsFinding(i.child) ELSE IsReport(i.child)
       /\ \A h \in held[r] : IsOneFact(h)

\* The runs one delivery of which was stopped.
Interrupted == {s.run : s \in cut}

\* The tables: evidence is about what its claim is about, and a value is the engine's
\* own and a provider's only in a run that was stopped.
AboutTables ==
  /\ \A l \in links : l.observation.fact = l.claim.fact
  /\ \A o \in observations : o.source = Derived => o.fact.kind = "identifier"
  /\ \A o, p \in observations :
       o.run = p.run /\ o.fact = p.fact /\ o.source = Derived /\ p.source # Derived
         => o.run \in Interrupted

\* Why: a run that was never stopped has one delivery, which finds nothing there, and
\* a replay has all reports behind it before it comes to a pivot.
Origin(r) ==
  r \notin Interrupted =>
    /\ pc[r] = "idle" /\ r \notin processed => \A o \in observations : o.run # r
    /\ pc[r] = "replay" /\ (\E i \in todo[r] : i.stage = 1) =>
         /\ \A o \in observations : o.run = r => o.source # Derived
         /\ \A h \in held[r] : h.child.via = {}

Supported(r, child, o) == InRun(r, o) \in Evidence(Key(Claim(r, child.fact, child.score)))

\* The child at hand has o still to come, or about to be linked.
AtHand(r, child, o) ==
  \E h \in held[r] :
    /\ h.child.fact = child.fact
    /\ o \in h.child.evidence \/ (h.row = InRun(r, o) /\ h.step # "next")

\* What a replay has to bring is there, at hand, or still to do.
Progress(r) ==
  /\ r \in processed => pc[r] = "idle"
  /\ pc[r] \in {"subdomains", "select", "pivots"} => replayed[r].children = {}
  /\ r \in processed \/ pc[r] = "mark" =>
       \A c \in replayed[r].children : \A o \in c.evidence : Supported(r, c, o)
  /\ pc[r] = "replay" =>
       \A c \in replayed[r].children : \A o \in c.evidence :
         Supported(r, c, o) \/ Item(2, c) \in todo[r] \/ AtHand(r, c, o)

HInv ==
  /\ IInv /\ AboutMemory /\ AboutTables
  /\ DOMAIN replayed = Runs
  /\ \A r \in runs : Origin(r) /\ Progress(r)

LEMMA InRunFields ==
  ASSUME NEW r, NEW o, IsObservation(o)
  PROVE  InRun(r, o).run = r /\ InRun(r, o).source = o.source /\ InRun(r, o).fact = o.fact
<1>1. InRun(r, o) = [run |-> r, source |-> o.source, fact |-> o.fact, at |-> o.at]
  BY DEF InRun, IsObservation
<1>2. QED
  BY <1>1

LEMMA SupportedKept ==
  ASSUME NEW r, NEW c, NEW o, Supported(r, c, o),
         \A l \in links : l.claim.run = r => l \in links'
  PROVE  Supported(r, c, o)'
<1>1. Key(Claim(r, c.fact, c.score)) = [run |-> r, fact |-> c.fact]
  BY RowFields
<1>2. PICK l \in links : l.claim = [run |-> r, fact |-> c.fact] /\ l.observation = InRun(r, o)
  BY <1>1 DEF Supported, Evidence
<1>3. l \in links'
  BY <1>2
<1>4. QED
  BY <1>1, <1>2, <1>3 DEF Supported, Evidence

\* What a commit of the run r may bring, and what the tables are afterwards.
Pure(r, os) ==
  \A o \in os : \A p \in observations \cup os :
    p.run = r /\ p.fact = o.fact => (o.source = Derived <=> p.source = Derived)

LEMMA CommitHistory ==
  ASSUME HInv, NEW r \in Runs, NEW os, NEW cs, NEW ls, Commit(r, os, cs, ls), UNCHANGED cut,
         \A o \in os : o.run = r /\ (o.source = Derived => o.fact.kind = "identifier"),
         \A l \in ls : l.observation.fact = l.claim.fact,
         r \in Interrupted \/ Pure(r, os)
  PROVE  /\ AboutTables' /\ Interrupted' = Interrupted
         /\ observations' = observations \cup os /\ links' = links \cup ls
<1>1. observations' = observations \cup os /\ links' = links \cup ls
  BY DEF Commit
<1>2. Interrupted' = Interrupted
  BY DEF Interrupted
<1>3. ASSUME NEW o \in observations', NEW p \in observations',
             o.run = p.run, o.fact = p.fact, o.source = Derived, p.source # Derived
      PROVE  o.run \in Interrupted
  <2>1. CASE o \in observations /\ p \in observations
    BY <1>3, <2>1 DEF HInv, AboutTables
  <2>2. CASE o \in os \/ p \in os
    BY <1>1, <1>3, <2>2 DEF Pure
  <2>3. QED
    BY <1>1, <2>1, <2>2
<1>4. QED
  BY <1>1, <1>2, <1>3 DEF HInv, AboutTables

\* A run the step has nothing to do with.
LEMMA Elsewhere ==
  ASSUME HInv, NEW q \in runs, q \in runs',
         \A o \in observations' : o.run = q => o \in observations,
         \A l \in links : l.claim.run = q => l \in links',
         pc'[q] = pc[q], todo'[q] = todo[q], held'[q] = held[q], replayed'[q] = replayed[q],
         q \in processed' <=> q \in processed, cut \subseteq cut'
  PROVE  Origin(q)' /\ Progress(q)'
<1>1. q \in Interrupted => q \in Interrupted'
  BY DEF Interrupted
<1>2. Origin(q)'
  BY <1>1 DEF HInv, Origin
<1>3. \A c, o : Supported(q, c, o) => Supported(q, c, o)'
  BY SupportedKept
<1>4. \A c, o : AtHand(q, c, o) => AtHand(q, c, o)'
  BY DEF AtHand
<1>5. Progress(q)'
  BY <1>3, <1>4 DEF HInv, Progress
<1>6. QED
  BY <1>2, <1>5

\* A step of the run r, with or without a commit: what is left to show is about r.
Aside(r) ==
  /\ \A q \in Runs \ {r} : /\ pc'[q] = pc[q] /\ todo'[q] = todo[q] /\ held'[q] = held[q]
                           /\ replayed'[q] = replayed[q]
                           /\ q \in processed' <=> q \in processed
  /\ DOMAIN replayed' = Runs
  /\ UNCHANGED runs

LEMMA CommitStep ==
  ASSUME HInv, IInv', AboutMemory', NEW r \in Runs, NEW os, NEW cs, NEW ls, Commit(r, os, cs, ls),
         UNCHANGED cut, Aside(r),
         \A o \in os : o.run = r /\ (o.source = Derived => o.fact.kind = "identifier"),
         \A l \in ls : l.observation.fact = l.claim.fact,
         r \in Interrupted \/ Pure(r, os),
         Origin(r)', Progress(r)'
  PROVE  HInv'
<1>1. /\ AboutTables' /\ observations' = observations \cup os /\ links' = links \cup ls
  BY CommitHistory
<1>2. ASSUME NEW q \in runs, q # r PROVE Origin(q)' /\ Progress(q)'
  <2>1. q \in Runs
    BY DEF HInv, IInv, MemoryInv
  <2>2. QED
    BY <1>1, <1>2, <2>1, Elsewhere DEF Aside
<1>3. QED
  BY <1>1, <1>2 DEF HInv, Aside

LEMMA GatherHistory == ASSUME HInv, NEW r \in Runs, Gather(r), IInv' PROVE HInv'
<1>1. PICK R \in Reports :
        LET os == Reported(r, R)
            seen == Infrastructure(os)
        IN /\ Commit(r, os, {Claim(r, o.fact, "high") : o \in seen},
                     {Link(Claim(r, o.fact, "high"), o) : o \in seen})
           /\ mine' = [mine EXCEPT ![r] = os]
  BY DEF Gather
<1> DEFINE os == Reported(r, R)
           seen == Infrastructure(os)
           cs == {Claim(r, o.fact, "high") : o \in seen}
           ls == {Link(Claim(r, o.fact, "high"), o) : o \in seen}
<1>2. \A o \in os : o.run = r /\ o.source # Derived
  <2>1. \A p \in R : p.source # Derived
    BY LedgerAssumption
  <2>2. \A s, f, t : Observation(r, s, f, t).source = s /\ Observation(r, s, f, t).run = r
    BY DEF Observation
  <2>3. QED
    BY <2>1, <2>2 DEF Reported
<1>3. Commit(r, os, cs, ls) /\ mine' = [mine EXCEPT ![r] = os]
  BY <1>1
<1>4. \A l \in ls : l.observation.fact = l.claim.fact
  BY RowFields
<1>5. /\ pc[r] = "idle" /\ r \in runs \ processed /\ pc' = [pc EXCEPT ![r] = "subdomains"]
      /\ replayed' = [replayed EXCEPT ![r] = NoEntry]
      /\ UNCHANGED <<runs, cache, processed, pivots, children, todo, held, cut>>
  BY DEF Gather, Deliverable, Goto, UntouchedTables
<1> HIDE DEF os, cs, ls
<1>6. r \in Interrupted \/ Pure(r, os)
  BY <1>2, <1>5 DEF HInv, Origin, Pure
<1>7. AboutMemory'
  BY <1>2, <1>3, <1>5 DEF HInv, IInv, MemoryInv, AboutMemory
<1>8. Aside(r)
  BY <1>5 DEF HInv, IInv, MemoryInv, Aside
<1>9. Origin(r)' /\ Progress(r)'
  <2>1. pc'[r] = "subdomains" /\ replayed'[r].children = {} /\ r \notin processed'
    BY <1>5 DEF HInv, IInv, MemoryInv, NoEntry
  <2>2. QED
    BY <2>1 DEF Origin, Progress
<1>10. QED
  BY <1>2, <1>3, <1>4, <1>5, <1>6, <1>7, <1>8, <1>9, CommitStep

LEMMA MapSubdomainsHistory == ASSUME HInv, NEW r \in Runs, MapSubdomains(r), IInv' PROVE HInv'
<1> DEFINE os == {o \in mine[r] : o.fact.kind = "subdomain"}
           names == {o.fact : o \in os}
           cs == {Claim(r, n, "high") : n \in names}
           ls == {Link(Claim(r, o.fact, "high"), o) : o \in os}
           new == {Child(n, "high", {FirstOf({o \in os : o.fact = n})}, {}) : n \in names}
<1>1. Commit(r, {}, cs, ls) /\ children' = [children EXCEPT ![r] = new]
  BY DEF MapSubdomains
<1>2. /\ pc[r] = "subdomains" /\ pc' = [pc EXCEPT ![r] = "select"]
      /\ UNCHANGED <<runs, cache, processed, mine, pivots, todo, held, replayed, cut>>
  BY DEF MapSubdomains, Goto, UntouchedTables
<1>3. \A l \in ls : l.observation.fact = l.claim.fact
  BY RowFields
<1>4. \A c \in new : IsFinding(c)
  <2>1. ASSUME NEW n \in names
        PROVE  IsFinding(Child(n, "high", {FirstOf({o \in os : o.fact = n})}, {}))
    <3> DEFINE first == FirstOf({o \in os : o.fact = n})
               c == Child(n, "high", {first}, {})
    <3>1. {o \in os : o.fact = n} # {}
      OBVIOUS
    <3>2. first \in os /\ first.fact = n
      BY <3>1, FirstIsOne
    <3>3. n.kind = "subdomain" /\ first.source # Derived
      BY <3>2 DEF HInv, AboutMemory
    <3> HIDE DEF first
    <3>4. c.fact = n /\ c.evidence = {first} /\ c.via = {}
      BY DEF Child
    <3>5. IsFinding(c)
      BY <3>2, <3>3, <3>4 DEF IsFinding
    <3>6. QED
      BY <3>5 DEF first
  <2>2. QED
    BY <2>1
<1> HIDE DEF cs, ls, new
<1>5. AboutMemory'
  BY <1>1, <1>2, <1>4 DEF HInv, IInv, MemoryInv, AboutMemory
<1>6. Aside(r) /\ Pure(r, {})
  BY <1>2 DEF HInv, IInv, MemoryInv, Aside, Pure
<1>7. Origin(r)' /\ Progress(r)'
  <2>1. /\ pc'[r] = "select" /\ replayed'[r].children = {} /\ r \notin processed'
    BY <1>1, <1>2 DEF HInv, IInv, MemoryInv, Progress, Commit, Exists
  <2>2. QED
    BY <2>1 DEF Origin, Progress
<1>8. QED
  BY <1>1, <1>2, <1>3, <1>5, <1>6, <1>7, CommitStep

LEMMA SelectPivotsHistory == ASSUME HInv, NEW r \in Runs, SelectPivots(r), IInv' PROVE HInv'
<1>1. PICK P \in SUBSET ({o.fact : o \in {m \in mine[r] : m.fact.kind = "identifier"}} \cup Unlinked),
           score \in Scores :
        pivots' = [pivots EXCEPT ![r] = {[fact |-> f, score |-> score, step |-> "record"] : f \in P}]
  BY DEF SelectPivots
<1>2. /\ pc[r] = "select" /\ pc' = [pc EXCEPT ![r] = "pivots"]
      /\ UNCHANGED <<runs, observations, links, cache, processed, mine, children, todo, held, replayed, cut>>
  BY DEF SelectPivots, Goto, ledger
<1>3. AboutMemory'
  <2> DEFINE new == {[fact |-> f, score |-> score, step |-> "record"] : f \in P}
  <2>1. \A f \in P : f.kind = "identifier"
    BY LedgerAssumption
  <2>2. \A p \in new : p = [fact |-> p.fact, score |-> p.score, step |-> p.step]
                       /\ p.fact.kind = "identifier"
    BY <2>1
  <2>3. pivots' = [pivots EXCEPT ![r] = new]
    BY <1>1
  <2> HIDE DEF new
  <2>4. QED
    BY <1>2, <2>2, <2>3 DEF HInv, IInv, MemoryInv, AboutMemory
<1>4. AboutTables'
  BY <1>2 DEF HInv, AboutTables, Interrupted
<1>5. ASSUME NEW q \in runs PROVE Origin(q)' /\ Progress(q)'
  <2>1. CASE q = r
    <3>1. pc'[r] = "pivots" /\ replayed'[r].children = {} /\ r \notin processed'
      BY <1>2, <2>1 DEF HInv, IInv, MemoryInv, Progress
    <3>2. QED
      BY <2>1, <3>1 DEF Origin, Progress
  <2>2. CASE q # r
    <3>1. pc'[q] = pc[q]
      BY <1>2, <2>2 DEF HInv, IInv, MemoryInv
    <3>2. QED
      BY <1>2, <3>1, Elsewhere
  <2>3. QED
    BY <2>1, <2>2
<1>6. QED
  BY <1>2, <1>3, <1>4, <1>5 DEF HInv

LEMMA RecordPivotHistory == ASSUME HInv, NEW r \in Runs, RecordPivot(r), IInv' PROVE HInv'
<1>1. PICK p \in pivots[r] :
        LET c == Claim(r, p.fact, p.score)
            own == {Observation(r, Derived, p.fact, now)}
            os == IF About(r, p.fact) = {} THEN own ELSE About(r, p.fact)
        IN /\ Commit(r, os, {c}, Support(c, os))
           /\ pivots' = [pivots EXCEPT ![r] = (@ \ {p}) \cup {[p EXCEPT !.step = "search"]}]
  BY DEF RecordPivot
<1> DEFINE c == Claim(r, p.fact, p.score)
           own == {Observation(r, Derived, p.fact, now)}
           os == IF About(r, p.fact) = {} THEN own ELSE About(r, p.fact)
<1>2. /\ pc[r] = "pivots"
      /\ UNCHANGED <<runs, pc, cache, processed, mine, children, todo, held, replayed, cut>>
  BY DEF RecordPivot, UntouchedTables
<1>3. Commit(r, os, {c}, Support(c, os))
  BY <1>1
<1>4. p = [fact |-> p.fact, score |-> p.score, step |-> p.step] /\ p.fact.kind = "identifier"
  BY DEF HInv, AboutMemory
<1>5. \A o \in os : o.run = r /\ o.fact = p.fact
  BY RowFields DEF About
<1>6. r \in Interrupted \/ Pure(r, os)
  <2>1. CASE About(r, p.fact) = {}
    <3>1. os = own
      BY <2>1
    <3>2. \A o \in observations : ~(o.run = r /\ o.fact = p.fact)
      BY <2>1 DEF About
    <3>3. QED
      BY <1>5, <3>1, <3>2 DEF Pure
  <2>2. CASE About(r, p.fact) # {}
    <3>1. os \subseteq observations
      BY <2>2 DEF About
    <3>2. QED
      BY <1>5, <3>1 DEF HInv, AboutTables, Pure
  <2>3. QED
    BY <2>1, <2>2
<1> HIDE DEF os
<1>7. \A l \in Support(c, os) : l.observation.fact = l.claim.fact
  <2>1. Key(c).fact = p.fact
    BY RowFields
  <2>2. QED
    BY <1>5, <2>1, RowFields DEF Support
<1>8. AboutMemory'
  <2> DEFINE g == [p EXCEPT !.step = "search"]
  <2>1. g = [fact |-> p.fact, score |-> p.score, step |-> "search"]
    BY <1>4
  <2>2. g = [fact |-> g.fact, score |-> g.score, step |-> g.step] /\ g.fact.kind = "identifier"
    BY <1>4, <2>1
  <2>3. pivots' = [pivots EXCEPT ![r] = (@ \ {p}) \cup {g}]
    BY <1>1
  <2> HIDE DEF g
  <2>4. QED
    BY <1>2, <2>2, <2>3 DEF HInv, IInv, MemoryInv, AboutMemory
<1>9. Aside(r)
  BY <1>2 DEF HInv, Aside
<1>10. Origin(r)' /\ Progress(r)'
  <2>1. /\ pc'[r] = "pivots" /\ replayed'[r].children = {} /\ r \notin processed'
    BY <1>2, <1>3 DEF HInv, Progress, Commit, Exists
  <2>2. QED
    BY <2>1 DEF Origin, Progress
<1> HIDE DEF c
<1>11. QED
  BY <1>2, <1>3, <1>4, <1>5, <1>6, <1>7, <1>8, <1>9, <1>10, CommitStep

LEMMA RecordFoundHistory == ASSUME HInv, NEW r \in Runs, RecordFound(r), IInv' PROVE HInv'
<1>1. PICK p \in pivots[r], F \in Found :
        LET new == {Record(r, p, f) : f \in F}
        IN /\ Commit(r, UNION {n.evidence : n \in new}, {Claim(r, n.fact, n.score) : n \in new},
                     UNION {Support(Claim(r, n.fact, n.score), n.evidence) : n \in new})
           /\ pivots' = [pivots EXCEPT ![r] = @ \ {p}]
           /\ children' = [children EXCEPT ![r] = @ \cup new]
  BY DEF RecordFound
<1> DEFINE new == {Record(r, p, f) : f \in F}
           os == UNION {n.evidence : n \in new}
           cs == {Claim(r, n.fact, n.score) : n \in new}
           ls == UNION {Support(Claim(r, n.fact, n.score), n.evidence) : n \in new}
<1>2. /\ pc[r] = "pivots"
      /\ UNCHANGED <<runs, pc, cache, processed, mine, todo, held, replayed, cut>>
  BY DEF RecordFound, UntouchedTables
<1>3. \A n \in new : IsFinding(n) /\ \A o \in n.evidence : o.run = r
  <2>1. ASSUME NEW f \in F
        PROVE  IsFinding(Record(r, p, f)) /\ \A o \in Record(r, p, f).evidence : o.run = r
    <3> DEFINE n == Record(r, p, f)
    <3>1. f.fact.kind \in {"related", "acquisition"} /\ Derived \notin f.sources
      BY LedgerAssumption
    <3>2. /\ n.fact = f.fact /\ n.evidence = {Observation(r, s, f.fact, now) : s \in f.sources}
          /\ n.via \in {{p.fact}, {}}
      BY DEF Record
    <3>3. \A s : /\ Observation(r, s, f.fact, now).run = r
                 /\ Observation(r, s, f.fact, now).fact = f.fact
                 /\ Observation(r, s, f.fact, now).source = s
      BY DEF Observation
    <3>4. p.fact.kind = "identifier"
      BY DEF HInv, AboutMemory
    <3> HIDE DEF n
    <3>5. IsFinding(n) /\ \A o \in n.evidence : o.run = r
      BY <3>1, <3>2, <3>3, <3>4 DEF IsFinding
    <3>6. QED
      BY <3>5 DEF n
  <2>2. QED
    BY <2>1
<1>4. /\ Commit(r, os, cs, ls) /\ pivots' = [pivots EXCEPT ![r] = @ \ {p}]
      /\ children' = [children EXCEPT ![r] = @ \cup new]
  BY <1>1
<1> HIDE DEF new
<1>5. \A o \in os : o.run = r /\ o.source # Derived /\ o.fact.kind # "identifier"
  BY <1>3 DEF IsFinding
<1>6. \A l \in ls : l.observation.fact = l.claim.fact
  <2>1. ASSUME NEW n \in new, NEW o \in n.evidence
        PROVE  /\ Link(Claim(r, n.fact, n.score), o).observation = o
               /\ Link(Claim(r, n.fact, n.score), o).claim.fact = o.fact
    BY <1>3, RowFields DEF IsFinding
  <2>2. QED
    BY <2>1, RowFields DEF Support
<1> HIDE DEF os, cs, ls
<1>7. Pure(r, os)
  BY <1>5 DEF HInv, AboutTables, Pure
<1>8. AboutMemory'
  BY <1>2, <1>3, <1>4 DEF HInv, IInv, MemoryInv, AboutMemory
<1>9. Aside(r)
  BY <1>2 DEF HInv, Aside
<1>10. Origin(r)' /\ Progress(r)'
  <2>1. /\ pc'[r] = "pivots" /\ replayed'[r].children = {} /\ r \notin processed'
    BY <1>2, <1>4 DEF HInv, Progress, Commit, Exists
  <2>2. QED
    BY <2>1 DEF Origin, Progress
<1>11. QED
  BY <1>2, <1>4, <1>5, <1>6, <1>7, <1>8, <1>9, <1>10, CommitStep

\* Steps that commit nothing to the ledger.
LEMMA QuietStep ==
  ASSUME HInv, IInv', AboutMemory', NEW r \in Runs, Aside(r), cut \subseteq cut',
         UNCHANGED <<observations, links>>, r \in runs => Origin(r)' /\ Progress(r)'
  PROVE  HInv'
<1>1. AboutTables'
  <2>1. \A q \in Interrupted : q \in Interrupted'
    BY DEF Interrupted
  <2>2. QED
    BY <2>1 DEF HInv, AboutTables
<1>2. ASSUME NEW q \in runs, q # r PROVE Origin(q)' /\ Progress(q)'
  <2>1. q \in Runs
    BY DEF HInv, IInv, MemoryInv
  <2>2. QED
    BY <1>2, <2>1, Elsewhere DEF Aside
<1>3. QED
  BY <1>1, <1>2 DEF HInv, Aside

LEMMA StoreHistory == ASSUME HInv, NEW r \in Runs, Store(r), IInv' PROVE HInv'
<1>1. /\ pc[r] = "pivots" /\ r \in runs /\ pc' = [pc EXCEPT ![r] = "mark"]
      /\ UNCHANGED <<runs, processed, observations, links, mine, pivots, children, todo, held, replayed, cut>>
      /\ \/ cache'.observations = mine[r] /\ cache'.children = children[r]
         \/ cache' = cache
  BY DEF Store, Exists, Goto, ledger
<1>2. AboutMemory'
  BY <1>1 DEF HInv, IInv, MemoryInv, AboutMemory
<1>3. Aside(r)
  BY <1>1 DEF HInv, IInv, MemoryInv, Aside
<1>4. Origin(r)' /\ Progress(r)'
  <2>1. pc'[r] = "mark" /\ replayed'[r].children = {} /\ r \notin processed'
    BY <1>1 DEF HInv, IInv, MemoryInv, Progress
  <2>2. QED
    BY <2>1 DEF Origin, Progress
<1>5. QED
  BY <1>1, <1>2, <1>3, <1>4, QuietStep

\* The worker forgets what it had.
LEMMA ResetHistory ==
  ASSUME HInv, NEW r \in Runs, Reset(r), UNCHANGED <<cache>>
  PROVE  /\ AboutMemory' /\ pc'[r] = "idle"
         /\ \A q \in Runs \ {r} : pc'[q] = pc[q] /\ todo'[q] = todo[q] /\ held'[q] = held[q]
<1>1. /\ pc' = [pc EXCEPT ![r] = "idle"] /\ mine' = [mine EXCEPT ![r] = {}]
      /\ pivots' = [pivots EXCEPT ![r] = {}] /\ children' = [children EXCEPT ![r] = {}]
      /\ todo' = [todo EXCEPT ![r] = {}] /\ held' = [held EXCEPT ![r] = {}]
  BY DEF Reset, Goto
<1>2. QED
  BY <1>1 DEF HInv, IInv, MemoryInv, AboutMemory

LEMMA MarkHistory == ASSUME HInv, NEW r \in Runs, MarkDomainProcessed(r), IInv' PROVE HInv'
<1>1. /\ pc[r] = "mark" /\ r \in runs /\ processed' = processed \cup {r} /\ Reset(r)
      /\ UNCHANGED <<runs, observations, links, cache, replayed, cut>>
  BY DEF MarkDomainProcessed, Exists, ledger
<1>2. /\ AboutMemory' /\ pc'[r] = "idle"
      /\ \A q \in Runs \ {r} : pc'[q] = pc[q] /\ todo'[q] = todo[q] /\ held'[q] = held[q]
  BY <1>1, ResetHistory
<1>3. Aside(r)
  BY <1>1, <1>2 DEF HInv, Aside
<1>4. \A c, o : Supported(r, c, o) => Supported(r, c, o)'
  BY <1>1, SupportedKept
<1>5. Origin(r)' /\ Progress(r)'
  BY <1>1, <1>2, <1>4 DEF HInv, Origin, Progress
<1>6. QED
  BY <1>1, <1>2, <1>3, <1>5, QuietStep

LEMMA StopHistory == ASSUME HInv, NEW r \in Runs, Stop(r), IInv' PROVE HInv'
<1>1. /\ pc[r] # "idle" /\ cut' = cut \cup {[run |-> r, replay |-> pc[r] = "replay"]} /\ Reset(r)
      /\ UNCHANGED <<runs, observations, links, cache, processed, replayed>>
  BY DEF Stop, ledger
<1>2. /\ AboutMemory' /\ pc'[r] = "idle"
      /\ \A q \in Runs \ {r} : pc'[q] = pc[q] /\ todo'[q] = todo[q] /\ held'[q] = held[q]
  BY <1>1, ResetHistory
<1>3. Aside(r) /\ cut \subseteq cut'
  BY <1>1, <1>2 DEF HInv, Aside
<1>4. r \in runs => Origin(r)' /\ Progress(r)'
  <2>1. r \in Interrupted'
    <3>1. [run |-> r, replay |-> pc[r] = "replay"] \in cut'
      BY <1>1
    <3>2. QED
      BY <3>1 DEF Interrupted
  <2>2. r \in runs => r \notin processed'
    BY <1>1 DEF HInv, Progress
  <2>3. QED
    BY <1>2, <2>1, <2>2 DEF Origin, Progress
<1>5. QED
  BY <1>1, <1>2, <1>3, <1>4, QuietStep

LEMMA StartReplayHistory == ASSUME HInv, NEW r \in Runs, StartReplay(r), IInv' PROVE HInv'
<1>1. /\ pc[r] = "idle" /\ r \in runs \ processed /\ pc' = [pc EXCEPT ![r] = "replay"]
      /\ todo' = [todo EXCEPT ![r] = Items(cache)] /\ replayed' = [replayed EXCEPT ![r] = cache]
      /\ UNCHANGED <<runs, processed, observations, links, cache, cut, mine, pivots, children, held>>
  BY DEF StartReplay, Deliverable, Goto, UntouchedTables, ledger
<1>2. \A i \in Items(cache) : IF i.stage = 2 THEN IsFinding(i.child) ELSE IsReport(i.child)
  <2>1. \A s, c : Item(s, c).stage = s /\ Item(s, c).child = c
    BY DEF Item
  <2>2. ASSUME NEW o \in cache.observations PROVE IsReport(Child(o.fact, "high", {o}, {}))
    <3> DEFINE c == Child(o.fact, "high", {o}, {})
    <3>1. c.fact = o.fact /\ c.evidence = {o} /\ c.via = {}
      BY DEF Child
    <3>2. o.source # Derived
      BY DEF HInv, AboutMemory
    <3> HIDE DEF c
    <3>3. IsReport(c)
      BY <3>1, <3>2 DEF IsReport
    <3>4. QED
      BY <3>3 DEF c
  <2>3. \A c \in cache.children : IsFinding(c)
    BY DEF HInv, AboutMemory
  <2>4. ASSUME NEW i \in Items(cache)
        PROVE  IF i.stage = 2 THEN IsFinding(i.child) ELSE IsReport(i.child)
    <3>1. CASE \E o \in cache.observations : i = Item(1, Child(o.fact, "high", {o}, {}))
      BY <2>1, <2>2, <3>1
    <3>2. CASE \E c \in cache.children : i = Item(2, c)
      BY <2>1, <2>3, <3>2
    <3>3. QED
      BY <3>1, <3>2 DEF Items
  <2>5. QED
    BY <2>4
<1>3. AboutMemory'
  BY <1>1, <1>2 DEF HInv, IInv, MemoryInv, AboutMemory
<1>4. Aside(r)
  BY <1>1 DEF HInv, IInv, MemoryInv, Aside
<1>5. Origin(r)'
  <2>1. r \notin Interrupted => \A o \in observations : o.run # r
    BY <1>1 DEF HInv, Origin
  <2>2. held[r] = {} /\ Interrupted' = Interrupted /\ pc'[r] = "replay"
    BY <1>1 DEF HInv, IInv, MemoryInv, Interrupted
  <2>3. QED
    BY <1>1, <2>1, <2>2 DEF Origin
<1>6. Progress(r)'
  <2>1. /\ replayed'[r] = cache /\ pc'[r] = "replay" /\ r \notin processed'
        /\ \A c \in cache.children : Item(2, c) \in todo'[r]
    BY <1>1 DEF HInv, IInv, MemoryInv, Items
  <2>2. QED
    BY <2>1 DEF Progress
<1>7. QED
  BY <1>1, <1>3, <1>4, <1>5, <1>6, QuietStep

\* What becomes of the observations a replay had to bring.
Handed(r, ls, H) ==
  \A c \in replayed[r].children : \A o \in c.evidence :
    AtHand(r, c, o) \/ (Item(2, c) \in todo[r] /\ Item(2, c) \notin todo'[r]) =>
      \/ \E l \in ls : l = Link(Claim(r, c.fact, c.score), InRun(r, o))
      \/ \E h \in H : /\ h.child.fact = c.fact
                      /\ o \in h.child.evidence \/ (h.row = InRun(r, o) /\ h.step # "next")

\* What a replay may commit and hold.
Brings(r, os, ls, H) ==
  /\ \A h \in H : IsOneFact(h)
  /\ \A o \in os : o.run = r /\ (o.source = Derived => o.fact.kind = "identifier")
  /\ \A l \in ls : l.observation.fact = l.claim.fact
  /\ r \in Interrupted \/ Pure(r, os)
  /\ r \notin Interrupted /\ (\E i \in todo'[r] : i.stage = 1) =>
       (\A o \in os : o.source # Derived) /\ (\A h \in H : h.child.via = {})
  /\ Handed(r, ls, H)

\* A replay's commit.
LEMMA ReplayHistory ==
  ASSUME HInv, IInv', NEW r \in Runs, pc[r] = "replay", NEW os, NEW cs, NEW ls, NEW H,
         Commit(r, os, cs, ls), ReplayUnchanged, TodoShrinks,
         \A q \in Runs \ {r} : todo'[q] = todo[q],
         held' = [held EXCEPT ![r] = H], Brings(r, os, ls, H)
  PROVE  HInv'
<1> USE DEF Brings
<1>1. UNCHANGED <<runs, cache, processed, cut, pc, mine, pivots, children, replayed>>
  BY DEF ReplayUnchanged, UntouchedTables
<1>2. held'[r] = H /\ \A q \in Runs \ {r} : held'[q] = held[q]
  BY DEF HInv, IInv, MemoryInv
<1>3. AboutMemory'
  BY <1>1, <1>2 DEF HInv, AboutMemory, TodoShrinks
<1>4. Aside(r)
  BY <1>1, <1>2 DEF HInv, Aside
<1>5. observations' = observations \cup os /\ links' = links \cup ls /\ Interrupted' = Interrupted
  BY <1>1 DEF Commit, Interrupted
<1>6. r \in runs
  BY DEF Commit, Exists
<1>7. Origin(r)'
  <2>1. \A i \in todo'[r] : i \in todo[r]
    BY DEF TodoShrinks
  <2>2. QED
    BY <1>1, <1>2, <1>5, <1>6, <2>1 DEF HInv, Origin
<1>8. Progress(r)'
  <2>1. r \notin processed
    BY <1>6 DEF HInv, Progress
  <2>2. ASSUME NEW c \in replayed[r].children, NEW o \in c.evidence
        PROVE  Supported(r, c, o)' \/ Item(2, c) \in todo'[r] \/ AtHand(r, c, o)'
    <3>1. CASE Supported(r, c, o)
      BY <1>5, <3>1, SupportedKept
    <3>2. CASE \E l \in ls : l = Link(Claim(r, c.fact, c.score), InRun(r, o))
      <4>1. PICK l \in links' : /\ l.claim = Key(Claim(r, c.fact, c.score))
                                /\ l.observation = InRun(r, o)
        BY <1>5, <3>2 DEF Link
      <4>2. QED
        BY <4>1 DEF Supported, Evidence
    <3>3. CASE \E h \in H : /\ h.child.fact = c.fact
                            /\ o \in h.child.evidence \/ (h.row = InRun(r, o) /\ h.step # "next")
      BY <1>2, <3>3 DEF AtHand
    <3>4. CASE Item(2, c) \in todo[r] /\ Item(2, c) \in todo'[r]
      BY <3>4
    <3>5. Supported(r, c, o) \/ Item(2, c) \in todo[r] \/ AtHand(r, c, o)
      BY <1>6 DEF HInv, Progress
    <3>6. QED
      BY <3>1, <3>2, <3>3, <3>4, <3>5 DEF Handed
  <2>3. QED
    BY <1>1, <2>1, <2>2 DEF Progress
<1>9. QED
  BY <1>1, <1>3, <1>4, <1>7, <1>8, CommitStep

LEMMA ReplayObservationHistory == ASSUME HInv, NEW r \in Runs, ReplayObservation(r), IInv' PROVE HInv'
<1> DEFINE M == {j \in todo[r] : \A k \in todo[r] : j.stage =< k.stage}
           i == FirstOf(M)
           o == FirstOf(i.child.evidence)
           h == [child |-> [i.child EXCEPT !.evidence = @ \ {o}], row |-> InRun(r, o), step |-> "claim"]
<1>1. /\ pc[r] = "replay" /\ held[r] = {} /\ todo[r] # {}
      /\ Commit(r, {InRun(r, o)}, {}, {})
      /\ todo' = [todo EXCEPT ![r] = @ \ {i}]
      /\ \/ held' = [held EXCEPT ![r] = {h}]
         \/ held' = [held EXCEPT ![r] = {}] /\ i.stage # 2
      /\ ReplayUnchanged
  BY DEF ReplayObservation, Hold, Drop
<1>2. i \in todo[r] /\ (i.stage = 2 => \A k \in todo[r] : k.stage = 2)
  <2>1. \A j \in todo[r] : j.stage \in {1, 2}
    BY DEF HInv, IInv, MemoryInv
  <2>2. M # {}
    <3>1. CASE \E j \in todo[r] : j.stage = 1
      BY <2>1, <3>1
    <3>2. CASE \A j \in todo[r] : j.stage = 2
      BY <1>1, <3>2
    <3>3. QED
      BY <2>1, <3>1, <3>2
  <2>3. i \in M
    BY <2>2, FirstIsOne
  <2>4. QED
    BY <2>1, <2>3
<1>3. /\ IsChild(i.child) /\ i = Item(i.stage, i.child)
      /\ IF i.stage = 2 THEN IsFinding(i.child) ELSE IsReport(i.child)
  BY <1>2 DEF HInv, IInv, MemoryInv, AboutMemory
<1>4. o \in i.child.evidence /\ IsObservation(o)
  BY <1>3, FirstIsOne DEF IsChild
<1>5. o.fact = i.child.fact /\ o.source # Derived
  BY <1>3, <1>4 DEF IsFinding, IsReport
<1>6. InRun(r, o).run = r /\ InRun(r, o).source # Derived /\ InRun(r, o).fact = i.child.fact
  BY <1>4, <1>5, InRunFields
<1> HIDE DEF o
<1>7. /\ h.child.fact = i.child.fact /\ h.child.evidence = i.child.evidence \ {o}
      /\ h.child.via = i.child.via /\ h.row = InRun(r, o) /\ h.step = "claim"
  BY <1>3 DEF IsChild
<1> HIDE DEF h, i
<1>8. IsOneFact(h)
  BY <1>3, <1>4, <1>6, <1>7 DEF IsOneFact, IsFinding, IsReport
<1>9. TodoShrinks /\ \A q \in Runs \ {r} : todo'[q] = todo[q]
  BY <1>1 DEF HInv, IInv, MemoryInv, TodoShrinks
<1>10. todo'[r] = todo[r] \ {i} /\ r \in runs
  BY <1>1 DEF HInv, IInv, MemoryInv, Commit, Exists
<1>11. (\E j \in todo'[r] : j.stage = 1) => i.stage # 2 /\ h.child.via = {}
  BY <1>2, <1>3, <1>7, <1>10 DEF IsReport
<1>12. r \in Interrupted \/ Pure(r, {InRun(r, o)})
  <2>1. CASE i.stage = 2
    <3>1. InRun(r, o).fact.kind # "identifier"
      BY <1>3, <1>6, <2>1 DEF IsFinding
    <3>2. QED
      BY <1>6, <3>1 DEF Pure, HInv, AboutTables
  <2>2. CASE i.stage # 2
    <3>1. i.stage = 1
      BY <1>2, <2>2 DEF HInv, IInv, MemoryInv
    <3>2. r \notin Interrupted => \A p \in observations : p.run = r => p.source # Derived
      BY <1>1, <1>2, <1>10, <3>1 DEF HInv, Origin
    <3>3. QED
      BY <1>6, <3>2 DEF Pure
  <2>3. QED
    BY <2>1, <2>2
<1>13. \A c \in replayed[r].children : \A e \in c.evidence :
         ~AtHand(r, c, e) /\ (Item(2, c) \in todo[r] /\ Item(2, c) \notin todo'[r] =>
           i.stage = 2 /\ i.child = c /\ (e \in h.child.evidence \/ h.row = InRun(r, e)))
  <2>1. \A c : Item(2, c).stage = 2 /\ Item(2, c).child = c
    BY DEF Item
  <2>2. QED
    BY <1>1, <1>7, <1>10, <2>1 DEF AtHand
<1>14. CASE held' = [held EXCEPT ![r] = {h}]
  <2> DEFINE H == {h}
  <2>1. Handed(r, {}, H)
    BY <1>7, <1>13 DEF Handed
  <2>2. held' = [held EXCEPT ![r] = H] /\ \A g \in H : IsOneFact(g) /\ g = h
    BY <1>8, <1>14
  <2> HIDE DEF H
  <2>3. Brings(r, {InRun(r, o)}, {}, H)
    BY <1>6, <1>11, <1>12, <2>1, <2>2 DEF Brings
  <2>4. QED
    BY <1>1, <1>9, <2>2, <2>3, ReplayHistory
<1>15. CASE held' = [held EXCEPT ![r] = {}] /\ i.stage # 2
  <2>1. Handed(r, {}, {})
    BY <1>13, <1>15 DEF Handed
  <2>2. Brings(r, {InRun(r, o)}, {}, {})
    BY <1>6, <1>11, <1>12, <2>1 DEF Brings
  <2>3. QED
    BY <1>1, <1>9, <1>15, <2>2, ReplayHistory
<1>16. QED
  BY <1>1, <1>14, <1>15

LEMMA ReplayClaimHistory == ASSUME HInv, NEW r \in Runs, ReplayClaim(r), IInv' PROVE HInv'
<1>1. PICK h \in held[r] :
        /\ h.step = "claim"
        /\ Commit(r, {}, {HeldClaim(r, h)}, {})
        /\ held' = [held EXCEPT ![r] = {[h EXCEPT !.step = "link"]}]
  BY DEF ReplayClaim, Hold, AfterClaim
<1> DEFINE g == [h EXCEPT !.step = "link"]
           H == {g}
           c == HeldClaim(r, h)
<1>2. ReplayUnchanged /\ todo' = todo
  BY DEF ReplayClaim
<1>3. pc[r] = "replay" /\ IsHeld(h) /\ (\A f \in held[r] : f = h) /\ IsOneFact(h)
  BY Holding DEF HInv, AboutMemory
<1>4. g.child = h.child /\ g.row = h.row /\ g.step = "link"
  BY <1>3 DEF IsHeld
<1>5. held' = [held EXCEPT ![r] = H] /\ Commit(r, {}, {c}, {})
  BY <1>1
<1> HIDE DEF g, c
<1>6. \A f \in H : f = g
  OBVIOUS
<1>7. IsOneFact(g)
  BY <1>3, <1>4 DEF IsOneFact
<1>8. Handed(r, {}, H)
  BY <1>2, <1>3, <1>4 DEF Handed, AtHand
<1> HIDE DEF H
<1>9. TodoShrinks
  BY <1>2 DEF HInv, IInv, MemoryInv, TodoShrinks
<1>10. r \notin Interrupted /\ (\E i \in todo'[r] : i.stage = 1) => h.child.via = {}
  BY <1>1, <1>2, <1>3 DEF HInv, Origin, Commit, Exists
<1>11. Pure(r, {})
  BY DEF Pure
<1>12. Brings(r, {}, {}, H)
  BY <1>4, <1>6, <1>7, <1>8, <1>10, <1>11 DEF Brings
<1>13. QED
  BY <1>2, <1>3, <1>5, <1>9, <1>12, ReplayHistory

LEMMA ReplayLinkHistory == ASSUME HInv, NEW r \in Runs, ReplayLink(r), IInv' PROVE HInv'
<1>1. PICK h \in held[r] :
        /\ h.step = "link"
        /\ Commit(r, {}, {}, {Link(HeldClaim(r, h), h.row)})
        /\ held' = [held EXCEPT ![r] = {[h EXCEPT !.step = "next"]}]
  BY DEF ReplayLink, Hold
<1> DEFINE g == [h EXCEPT !.step = "next"]
           H == {g}
           l == Link(HeldClaim(r, h), h.row)
<1>2. ReplayUnchanged /\ todo' = todo
  BY DEF ReplayLink
<1>3. pc[r] = "replay" /\ IsHeld(h) /\ (\A f \in held[r] : f = h) /\ IsOneFact(h)
  BY Holding DEF HInv, AboutMemory
<1>4. g.child = h.child /\ g.row = h.row /\ g.step = "next"
  BY <1>3 DEF IsHeld
<1>5. held' = [held EXCEPT ![r] = H] /\ Commit(r, {}, {}, {l})
  BY <1>1
<1>6. l.claim = [run |-> r, fact |-> h.child.fact] /\ l.observation = h.row
      /\ \A score : Link(Claim(r, h.child.fact, score), h.row) = l
  BY RowFields DEF HeldClaim, Link
<1> HIDE DEF g, l
<1>7. \A f \in H : f = g
  OBVIOUS
<1>8. IsOneFact(g) /\ l.observation.fact = l.claim.fact
  BY <1>3, <1>4, <1>6 DEF IsOneFact
<1>9. Handed(r, {l}, H)
  BY <1>2, <1>3, <1>4, <1>6 DEF Handed, AtHand
<1> HIDE DEF H
<1>10. TodoShrinks
  BY <1>2 DEF HInv, IInv, MemoryInv, TodoShrinks
<1>11. r \notin Interrupted /\ (\E i \in todo'[r] : i.stage = 1) => h.child.via = {}
  BY <1>1, <1>2, <1>3 DEF HInv, Origin, Commit, Exists
<1>12. Pure(r, {})
  BY DEF Pure
<1>13. Brings(r, {}, {l}, H)
  BY <1>4, <1>7, <1>8, <1>9, <1>11, <1>12 DEF Brings
<1>14. QED
  BY <1>2, <1>3, <1>5, <1>10, <1>13, ReplayHistory

LEMMA ReplaySupportHistory == ASSUME HInv, NEW r \in Runs, ReplaySupport(r), IInv' PROVE HInv'
<1>1. PICK h \in held[r] :
        /\ h.step = "next" /\ h.child.evidence # {}
        /\ LET o == FirstOf(h.child.evidence)
           IN /\ Commit(r, {InRun(r, o)}, {}, {})
              /\ held' = [held EXCEPT ![r] =
                   {[child |-> [h.child EXCEPT !.evidence = @ \ {o}], row |-> InRun(r, o), step |-> "link"]}]
  BY DEF ReplaySupport, Hold
<1> DEFINE o == FirstOf(h.child.evidence)
           g == [child |-> [h.child EXCEPT !.evidence = @ \ {o}], row |-> InRun(r, o), step |-> "link"]
           H == {g}
<1>2. ReplayUnchanged /\ todo' = todo
  BY DEF ReplaySupport
<1>3. pc[r] = "replay" /\ IsHeld(h) /\ (\A f \in held[r] : f = h) /\ IsOneFact(h)
  BY Holding DEF HInv, AboutMemory
<1>4. o \in h.child.evidence /\ IsObservation(o)
  BY <1>1, <1>3, FirstIsOne DEF IsHeld
<1>5. held' = [held EXCEPT ![r] = H] /\ Commit(r, {InRun(r, o)}, {}, {})
  BY <1>1
<1> HIDE DEF o
<1>6. /\ InRun(r, o).run = r /\ InRun(r, o).source # Derived /\ InRun(r, o).fact = h.child.fact
      /\ InRun(r, o).fact.kind # "identifier"
  BY <1>3, <1>4, InRunFields DEF IsOneFact
<1>7. /\ g.child.fact = h.child.fact /\ g.child.evidence = h.child.evidence \ {o}
      /\ g.child.via = h.child.via /\ g.row = InRun(r, o) /\ g.step = "link"
  BY <1>3 DEF IsHeld
<1> HIDE DEF g
<1>8. \A f \in H : f = g
  OBVIOUS
<1>9. IsOneFact(g)
  BY <1>3, <1>6, <1>7 DEF IsOneFact
<1>10. Handed(r, {}, H)
  BY <1>1, <1>2, <1>3, <1>7 DEF Handed, AtHand
<1> HIDE DEF H
<1>11. TodoShrinks
  BY <1>2 DEF HInv, IInv, MemoryInv, TodoShrinks
<1>12. r \notin Interrupted /\ (\E i \in todo'[r] : i.stage = 1) => h.child.via = {}
  BY <1>1, <1>2, <1>3 DEF HInv, Origin, Commit, Exists
<1>13. Pure(r, {InRun(r, o)})
  BY <1>6 DEF Pure, HInv, AboutTables
<1>14. Brings(r, {InRun(r, o)}, {}, H)
  BY <1>6, <1>7, <1>8, <1>9, <1>10, <1>12, <1>13 DEF Brings
<1>15. QED
  BY <1>2, <1>3, <1>5, <1>11, <1>14, ReplayHistory

LEMMA ReplayPivotHistory == ASSUME HInv, NEW r \in Runs, ReplayPivot(r), IInv' PROVE HInv'
<1>1. PICK h, f :
        /\ h \in held[r] /\ f \in h.child.via /\ h.step = "next" /\ h.child.evidence = {}
        /\ LET own == {Observation(r, Derived, f, 0)}
               missing == IF About(r, f) = {} THEN own ELSE {}
           IN /\ Commit(r, missing, {}, {})
              /\ \E o \in About(r, f) \cup missing :
                   held' = [held EXCEPT ![r] =
                     {[child |-> Child(f, h.child.score, {}, {}), row |-> o, step |-> "claim"]}]
  BY DEF ReplayPivot, Hold
<1> DEFINE own == {Observation(r, Derived, f, 0)}
           missing == IF About(r, f) = {} THEN own ELSE {}
<1>2. PICK o \in About(r, f) \cup missing :
        held' = [held EXCEPT ![r] =
          {[child |-> Child(f, h.child.score, {}, {}), row |-> o, step |-> "claim"]}]
  BY <1>1
<1> DEFINE g == [child |-> Child(f, h.child.score, {}, {}), row |-> o, step |-> "claim"]
           H == {g}
<1>3. pc[r] = "replay" /\ (\A e \in held[r] : e = h) /\ IsOneFact(h)
  BY <1>1, Holding DEF HInv, AboutMemory
<1>4. \A e \in missing : e.run = r /\ e.fact = f
  BY RowFields
<1>5. f.kind = "identifier"
  BY <1>1, <1>3 DEF IsOneFact
<1>6. Commit(r, missing, {}, {}) /\ held' = [held EXCEPT ![r] = H]
  BY <1>1, <1>2
<1>7. Pure(r, missing)
  <2>1. CASE About(r, f) = {}
    <3>1. missing = own
      BY <2>1
    <3>2. \A p \in observations : ~(p.run = r /\ p.fact = f)
      BY <2>1 DEF About
    <3>3. QED
      BY <1>4, <3>1, <3>2 DEF Pure
  <2>2. CASE About(r, f) # {}
    BY <2>2 DEF Pure
  <2>3. QED
    BY <2>1, <2>2
<1> HIDE DEF missing
<1>8. /\ g.child.fact = f /\ g.child.evidence = {} /\ g.child.via = {}
      /\ g.row = o /\ g.step = "claim" /\ o.fact = f
  BY <1>2, <1>4 DEF Child, About
<1> HIDE DEF g
<1>9. \A e \in H : e = g
  OBVIOUS
<1>10. IsOneFact(g)
  BY <1>8 DEF IsOneFact
<1>11. TodoShrinks /\ todo' = todo /\ ReplayUnchanged
  BY DEF ReplayPivot, HInv, IInv, MemoryInv, TodoShrinks
<1>12. Handed(r, {}, H)
  BY <1>1, <1>3, <1>11 DEF Handed, AtHand
<1> HIDE DEF H
<1>13. r \notin Interrupted => ~(\E i \in todo'[r] : i.stage = 1)
  BY <1>1, <1>3, <1>11 DEF HInv, Origin, Commit, Exists
<1>14. Brings(r, missing, {}, H)
  BY <1>4, <1>5, <1>7, <1>9, <1>10, <1>12, <1>13 DEF Brings
<1>15. QED
  BY <1>3, <1>6, <1>11, <1>14, ReplayHistory

LEMMA ReplayNextHistory ==
  ASSUME HInv, NEW r \in Runs, ReplayNext(r) \/ ReplayEnds(r), IInv' PROVE HInv'
<1>1. /\ UNCHANGED <<runs, observations, links, cache, processed, cut, mine, pivots, children, todo, replayed>>
      /\ \/ /\ held' = [held EXCEPT ![r] = {}] /\ pc' = pc
            /\ \E h \in held[r] : h.step = "next" /\ h.child.evidence = {}
         \/ /\ held' = held /\ pc' = [pc EXCEPT ![r] = "mark"]
            /\ pc[r] = "replay" /\ held[r] = {} /\ todo[r] = {}
  BY DEF ReplayNext, ReplayEnds, Drop, Goto, ReplayUnchanged, UntouchedTables, ledger
<1>2. AboutMemory'
  BY <1>1 DEF HInv, IInv, MemoryInv, AboutMemory
<1>3. Aside(r)
  BY <1>1 DEF HInv, IInv, MemoryInv, Aside
<1>4. pc[r] = "replay" /\ Interrupted' = Interrupted
  BY <1>1 DEF HInv, IInv, MemoryInv, Interrupted
<1>5. \A c, o : Supported(r, c, o) => Supported(r, c, o)'
  BY <1>1, SupportedKept
<1>6. \A c, o : ~AtHand(r, c, o)
  BY <1>1 DEF HInv, IInv, MemoryInv, AtHand
<1>7. r \in runs => Origin(r)'
  BY <1>1, <1>4 DEF HInv, IInv, MemoryInv, Origin
<1>8. r \in runs => Progress(r)'
  <2>1. r \in runs => r \notin processed
    BY <1>4 DEF HInv, Progress
  <2>2. pc'[r] = "replay" \/ (pc'[r] = "mark" /\ todo[r] = {})
    BY <1>1, <1>4 DEF HInv, IInv, MemoryInv
  <2>3. QED
    BY <1>1, <1>4, <1>5, <1>6, <2>1, <2>2 DEF HInv, Progress
<1>9. QED
  BY <1>1, <1>2, <1>3, <1>7, <1>8, QuietStep

LEMMA RetentionHistory == ASSUME HInv, ApplyRetention, IInv' PROVE HInv'
<1>1. UNCHANGED <<cache, pc, mine, pivots, children, todo, held, cut, replayed>>
  BY DEF ApplyRetention, local
<1>2. \/ UNCHANGED <<runs, observations, links, processed>>
      \/ /\ runs' = runs \ retention.runs
         /\ observations' = Outside(observations)
         /\ links' = {l \in links : l.claim.run \notin retention.runs}
         /\ processed' = processed \ retention.runs
  BY DEF ApplyRetention, Delete, ledger
<1>3. observations' \subseteq observations /\ links' \subseteq links
  BY <1>2 DEF Outside
<1>4. AboutMemory' /\ AboutTables'
  BY <1>1, <1>3 DEF HInv, AboutMemory, AboutTables, Interrupted
<1>5. ASSUME NEW q \in runs' PROVE Origin(q)' /\ Progress(q)'
  <2>1. /\ q \in runs /\ (q \in processed' <=> q \in processed)
        /\ \A l \in links : l.claim.run = q => l \in links'
    BY <1>2
  <2>2. QED
    BY <1>1, <1>3, <2>1, Elsewhere
<1>6. QED
  BY <1>1, <1>4, <1>5 DEF HInv

LEMMA HistoryStep == HInv /\ [Next]_vars => HInv'
<1> SUFFICES ASSUME HInv, [Next]_vars PROVE HInv'
  OBVIOUS
<1>1. IInv'
  BY NextStep DEF HInv
<1>2. ASSUME NEW r \in Runs,
             \/ Gather(r) \/ MapSubdomains(r) \/ SelectPivots(r) \/ RecordPivot(r)
             \/ RecordFound(r) \/ Store(r) \/ MarkDomainProcessed(r)
      PROVE  HInv'
  BY <1>1, <1>2, GatherHistory, MapSubdomainsHistory, SelectPivotsHistory, RecordPivotHistory,
     RecordFoundHistory, StoreHistory, MarkHistory
<1>3. ASSUME NEW r \in Runs,
             \/ StartReplay(r) \/ ReplayObservation(r) \/ ReplayClaim(r) \/ ReplayLink(r)
             \/ ReplaySupport(r) \/ ReplayPivot(r) \/ ReplayNext(r) \/ ReplayEnds(r)
             \/ Stop(r)
      PROVE  HInv'
  BY <1>1, <1>3, StartReplayHistory, ReplayObservationHistory, ReplayClaimHistory,
     ReplayLinkHistory, ReplaySupportHistory, ReplayPivotHistory, ReplayNextHistory, StopHistory
<1>4. CASE (\E r \in Runs : ReadCutoff(r)) \/ UNCHANGED vars
  <2>1. UNCHANGED <<runs, observations, claims, links, cache, cut, pc, mine, pivots, children, todo, held,
                    processed, replayed>>
    BY <1>4 DEF ReadCutoff, vars, ledger, local
  <2>2. AboutMemory' /\ AboutTables'
    BY <2>1 DEF HInv, AboutMemory, AboutTables, Interrupted
  <2>3. \A q \in runs' : Origin(q)' /\ Progress(q)'
    BY <2>1, Elsewhere
  <2>4. QED
    BY <1>1, <2>1, <2>2, <2>3 DEF HInv
<1>5. CASE ApplyRetention
  BY <1>1, <1>5, RetentionHistory
<1>6. QED
  BY <1>2, <1>3, <1>4, <1>5 DEF Next

LEMMA HistoryInit == Init => HInv
<1> SUFFICES ASSUME Init PROVE HInv
  OBVIOUS
<1>1. AboutMemory /\ AboutTables
  BY DEF Init, NoEntry, AboutMemory, AboutTables
<1>2. ASSUME NEW r \in runs PROVE Origin(r) /\ Progress(r)
  BY DEF Init, NoEntry, Origin, Progress
<1>3. QED
  BY <1>1, <1>2, InitStep DEF HInv, Init

\* What is behind a claim of several families.
LEMMA EarnedByTwo == HInv => CorroborationIsEarned
<1> SUFFICES ASSUME HInv, NEW c \in claims, Independence(Key(c)) = "multiple_independent_families"
             PROVE  \E o, p \in Evidence(Key(c)) :
                      /\ Family[o.source] # Family[p.source] /\ p.source # Derived
                      /\ o.source = Derived => c.run \in {s.run : s \in cut}
  BY DEF CorroborationIsEarned
<1> DEFINE F == Families(Key(c)) \ {Unclassified}
<1>1. Cardinality(F) > 1
  BY DEF Independence
<1>2. F # {} /\ \A x : F # {x}
  BY <1>1, FS_EmptySet, FS_Singleton, SMTT(30)
<1>3. PICK x \in F, y \in F : x # y
  BY <1>2
<1>4. PICK o \in Evidence(Key(c)), p \in Evidence(Key(c)) : Family[o.source] = x /\ Family[p.source] = y
  BY <1>3 DEF Families, SourceFamily
<1>5. \A e \in Evidence(Key(c)) : e \in observations /\ e.run = c.run /\ e.fact = c.fact
  BY RowFields DEF Evidence, HInv, IInv, TablesInv, RetentionIsWhole, AboutTables
<1>6. CASE o.source # Derived /\ p.source # Derived
  BY <1>3, <1>4, <1>6
<1>7. CASE o.source = Derived \/ p.source = Derived
  <2>1. c.run \in {s.run : s \in cut}
    BY <1>3, <1>4, <1>5, <1>7 DEF HInv, AboutTables, Interrupted
  <2>2. QED
    BY <1>3, <1>4, <1>7, <2>1
<1>8. QED
  BY <1>6, <1>7

\* A claim is shown as corroborated only when providers of two families are behind it,
\* or one family and the engine in a run that was stopped: redelivery, replay and
\* cascades corroborate nothing.
THEOREM CorroborationStaysEarned == Spec => []CorroborationIsEarned
  BY HistoryInit, HistoryStep, EarnedByTwo, PTL DEF Spec

\* Once a replay, begun again as often as it was stopped, has marked the domain
\* processed, the run has all the evidence of every child of the entry.
THEOREM ReplaysAreComplete == Spec => []ReplayIsComplete
<1>1. HInv => ReplayIsComplete
  BY DEF HInv, Progress, Supported, ReplayIsComplete
<1>2. QED
  BY HistoryInit, HistoryStep, <1>1, PTL DEF Spec
====
