---- MODULE Algorithms ----
(***************************************************************************)
(* The pure computations of a run - which pivots a domain gets, what the   *)
(* preflight plan promises, how two finished runs compare - on every       *)
(* possible input: one step asks a question, and the invariants relate     *)
(* what is computed in answer to it.                                       *)
(***************************************************************************)
EXTENDS PivotSelection, QueryPlan, RunReports

CONSTANTS
  Root,                    \* the domain whose pivots are selected
  WhoisRecords, Intels,    \* what its WHOIS record and its page may say
  ModelOutputs,            \* what a model may say
  Thresholds, TopKs, Verifications,
  PlanSettings, Registry, Environments, PivotMixes,
  Graphs, Cases

\* Evidence is finite, and made of values that can be normalised; an identifier
\* type a model makes up is "other".
Values == {s \in SUBSET RawValues : IsFiniteSet(s)}
ASSUME EvidenceAssumption ==
  /\ WhoisRecords \subseteq [emails : Values, phones : Values, nameservers : Values, orgs : Values, names : Values]
  /\ Intels \subseteq [aliases : Values, copyright : Values, legal : Values, trackers : Values]
  /\ \A m \in ModelOutputs : m.pivots \in Seq([type : IdentifierTypes \cup {"other"}, value : RawValues \cup {""}, score : Int])
  /\ Thresholds \subseteq Int /\ TopKs \subseteq Nat /\ Verifications \subseteq Nat

\* default_registry: a paid provider is billable, and the sources of subdomains are
\* free.
ASSUME RegistryAssumption ==
  /\ Len(Registry) \in Nat /\ DOMAIN Registry = 1..Len(Registry)
  /\ \A i \in DOMAIN Registry :
       /\ Registry[i].tier = "paid" => Registry[i].billable
       /\ Registry[i].capability = "subdomains" => ~Registry[i].billable
  /\ \A s \in PlanSettings : s.topK \in Nat /\ s.perIdentifier \in Nat
  /\ \A p \in PivotMixes : Len(p) \in Nat /\ DOMAIN p = 1..Len(p)

ASSUME ReportsAssumption ==
  /\ \A g \in Graphs : IsFiniteSet(g.domains)
  /\ \A c \in Cases : IsFiniteSet(c.positive) /\ IsFiniteSet(c.negative)

VARIABLES subject, input
question == <<subject, input>>

NothingAsked == subject = "none" /\ input = [none |-> TRUE]

PickDomain ==
  /\ subject = "none" /\ subject' = "domain"
  /\ \E w \in WhoisRecords, i \in Intels, m \in ModelOutputs,
        t \in Thresholds, k \in TopKs, v \in Verifications, e \in BOOLEAN :
       input' = [whois |-> w, intel |-> i, output |-> m,
                 threshold |-> t, topK |-> k, verifications |-> v, escalateOnly |-> e]

PickRun ==
  /\ subject = "none" /\ subject' = "run"
  /\ \E s \in PlanSettings, e \in Environments, a \in BOOLEAN, p \in PivotMixes :
       /\ Len(p) <= s.topK
       /\ input' = [settings |-> s, env |-> e, approved |-> a, pivots |-> p]

PickComparison ==
  /\ subject = "none" /\ subject' = "comparison"
  /\ \E b, c \in Graphs, l \in Cases : input' = [baseline |-> b, candidate |-> c, labelled |-> l]

Ask == PickDomain \/ PickRun \/ PickComparison

AlgorithmsSpec == NothingAsked /\ [][Ask]_question
----
\* A strong baseline spares the model, and must then yield something itself: a
\* candidate that made it strong never falls to a later filter, unless the score
\* asked for is higher than what counts as strong.
Pivots ==
  SelectPivots(input.whois, input.intel, Root, input.output,
               input.threshold, input.topK, input.verifications, input.escalateOnly)
SkippingYieldsPivots ==
  subject = "domain" =>
    (HasStrong(DeterministicPivots(input.whois, input.intel, Root))
       /\ input.threshold <= StrongScore /\ input.topK > 0 => Pivots # {})

\* The few slots are spent well: none stays empty while a candidate is left, the
\* two gaps are both served if they can be, and beyond the best of each gap
\* nothing is passed over for something less useful.
Eligible ==
  Filtered(Candidates(input.whois, input.intel, Root, input.output, input.escalateOnly), input.threshold)
ServesGaps(candidates, chosen) ==
  LET left == candidates \ chosen
      U(c) == Utility(c, input.verifications)
  IN /\ left # {} => Cardinality(chosen) = input.topK
     /\ input.topK >= 2 => {Gap(c) : c \in left} \subseteq {Gap(c) : c \in chosen}
     /\ \A c \in left : \A d \in chosen :
          (\E e \in chosen \ {d} : Gap(e) = Gap(d) /\ U(e) > U(d)) => U(c) <= U(d)
AllocationServesGaps == subject = "domain" => ServesGaps(Eligible, Pivots)

\* The look-ups of organisations that corporate sources name without a web site are all
\* the preflight plan leaves out: whatever pins and keys are set, no domain makes more
\* provider calls of another capability than the plan announces.  Of acquisitions it may
\* make more than these "conservative bounds" (docs/QUERY_PLANNER.md): with the
\* look-ups, up to 1 + MaxRelated times as many.
PlanMissesLookUpsOnly ==
  subject = "run" =>
    LET plan == Plan(input.settings, Registry, input.env, input.approved)
        runtime == Runtime(input.settings, Registry, input.env, input.approved)
        asked == Asked(input.settings, Registry, runtime, input.pivots)
    IN /\ \A c \in DOMAIN asked \ {"acquisitions"} : asked[c] <= PlannedFor(plan, c)
       /\ asked.acquisitions <= (1 + MaxRelated) * PlannedFor(plan, "acquisitions")

\* A run whose plan shows no warning is not stopped by its own ceilings on the way: what
\* all its domains ask, look-ups aside, stays within max_provider_calls, and what the
\* executor reserves for all attempts within max_billable_units.  A crawl without a limit
\* on its nodes (global_max_nodes = 0) has no plan: it announces no call at all.
UnwarnedRunFits ==
  subject = "run" =>
    LET settings == input.settings
        plan == Plan(settings, Registry, input.env, input.approved)
        runtime == Runtime(settings, Registry, input.env, input.approved)
        asked == Asked(settings, Registry, runtime, input.pivots)
        lookUps == Resolutions(settings, Registry, runtime, input.pivots)
    IN ~plan.warns /\ settings.maxNodes > 0 =>
         /\ settings.maxNodes * (FoldFunction(+, 0, asked) - lookUps) <= settings.maxCalls
         /\ settings.maxNodes * Reserved(settings, Registry, runtime, asked) <= settings.maxUnits

\* A provider change called an improvement is one: no metric that is defined for
\* both runs gets worse, and seen from the other side it is a degradation.
ImprovementIsReal ==
  subject = "comparison" =>
    LET b == Evaluation(input.baseline, input.labelled)
        c == Evaluation(input.candidate, input.labelled)
    IN Comparison(input.baseline, input.candidate, input.labelled).verdict = "improved" =>
         /\ AtLeast(c.precision, b.precision) /\ AtLeast(c.recall, b.recall) /\ AtLeast(c.f1, b.f1)
         /\ Comparison(input.candidate, input.baseline, input.labelled).verdict = "degraded"
====
