---- MODULE QueryPlan ----
(***************************************************************************)
(* The offline preflight plan of a run (build_query_plan), the selection   *)
(* of providers a run is really wired with (build_runtime), and, for       *)
(* comparison, the provider calls the crawl makes for one domain when      *)
(* everything that can be asked is asked.                                  *)
(*                                                                         *)
(* infos is the registry: a provider is [capability, name, tier, billable, *)
(* requests, needs, executable], and is referred to by its place in the    *)
(* order of registration.  An environment is [keys, invalid, executables,  *)
(* disabled, pins], pins giving each capability a source or "auto".        *)
(***************************************************************************)
EXTENDS Integers, FiniteSets, Sequences, Functions

IsAvailable(info, env) ==
  /\ info.name \notin env.disabled
  /\ info.needs \subseteq env.keys \ env.invalid
  /\ info.executable \in env.executables \cup {""}

IsPaid(info) == info.billable \/ info.tier = "paid"

\* What the plan counts on: the profile's policy, and the approval.
Usable(infos, env, profile, approved) ==
  {i \in DOMAIN infos : IsAvailable(infos[i], env) /\ (IsPaid(infos[i]) => profile = "byok" /\ approved)}

For(capability, infos, some) == {i \in some : infos[i].capability = capability}

\* The registry's order: paid providers before free ones.
Comes(i, j, infos) ==
  LET free(k) == infos[k].tier # "paid"
  IN (free(j) /\ ~free(i)) \/ ((free(i) <=> free(j)) /\ i < j)

FirstOf(some, infos) == {i \in some : \A j \in some \ {i} : Comes(i, j, infos)}

Step(providers, calls) ==
  [providers |-> providers, calls |-> IF providers = {} \/ calls <= 0 THEN 0 ELSE calls]

\* Faulty: the providers of a cascade stand in for each other.
AcquisitionsPlannedOnce(settings, infos, usable) ==
  Step(IF settings.acquisitions THEN For("acquisitions", infos, usable) ELSE {}, settings.topK)

AcquisitionsPlanned(settings, infos, usable) ==
  LET sources == For("acquisitions", infos, usable)
  IN Step(IF settings.acquisitions THEN sources ELSE {}, Cardinality(sources) * settings.topK)

\* One step for each capability; a step without calls is not in the plan.
Steps(settings, infos, usable) ==
  LET All(capability) == For(capability, infos, usable)
      One(capability) == FirstOf(All(capability), infos)
  IN [ whois |-> Step(All("whois"), Cardinality(All("whois"))),
       basic_info |-> Step(One("basic_info"), 1),
       dns |-> Step(One("dns"), 1),
       subdomains |-> Step(IF settings.subdomains THEN All("subdomains") ELSE {}, Cardinality(All("subdomains"))),
       historical_web |-> Step(IF settings.history THEN One("historical_web") ELSE {}, 1),
       reverse_whois |-> Step(One("reverse_whois"), settings.topK),
       tracker_verification |-> Step(IF One("reverse_whois") = {} THEN {} ELSE One("basic_info"),
                                     settings.topK * settings.perIdentifier),
       acquisitions |-> AcquisitionsPlanned(settings, infos, usable) ]

Total(steps, Value(_)) == FoldFunction(+, 0, [c \in DOMAIN steps |-> Value(steps[c])])

\* What max_provider_calls and max_billable_units are compared with.
Warns(settings, calls, units) == calls > settings.maxCalls \/ units > settings.maxUnits

\* Faulty: the units of the retries are not counted.
UnitsUnretried(settings, infos, s) == IF \E i \in s.providers : infos[i].billable THEN s.calls ELSE 0

UnitsPlanned(settings, infos, s) ==
  IF \E i \in s.providers : infos[i].billable THEN s.calls * (settings.retries + 1) ELSE 0

Plan(settings, infos, env, approved) ==
  LET steps == Steps(settings, infos, Usable(infos, env, settings.profile, approved))
      Requests(s) == IF s.calls = 0 THEN 0 ELSE CHOOSE n \in {infos[i].requests : i \in s.providers} :
                       \A i \in s.providers : infos[i].requests <= n
      calls == settings.maxNodes * Total(steps, LAMBDA s : s.calls)
      units == settings.maxNodes * Total(steps, LAMBDA s : UnitsPlanned(settings, infos, s))
  IN [steps |-> steps, calls |-> calls, units |-> units,
      requests |-> settings.maxNodes * Total(steps, LAMBDA s : s.calls * Requests(s)),
      warns |-> Warns(settings, calls, units)]

PlannedFor(plan, capability) == plan.steps[capability].calls
----
\* The providers of a run: a pin selects one source, or is ignored when that
\* source is not available; without approval a billable one is never used.
PickAll(capability, infos, env, allowBillable) ==
  LET there  == {i \in For(capability, infos, DOMAIN infos) : IsAvailable(infos[i], env)}
      pinned == {i \in there : infos[i].name = env.pins[capability]}
  IN {i \in (IF pinned # {} THEN FirstOf(pinned, infos) ELSE there) : allowBillable \/ ~infos[i].billable}

Pick(capability, infos, env, allowBillable) ==
  FirstOf(PickAll(capability, infos, env, allowBillable), infos)

\* build_runtime: subdomain sources are taken as they are.
Runtime(settings, infos, env, approved) ==
  LET allow == settings.profile = "byok" /\ approved IN
  [ whois |-> PickAll("whois", infos, env, allow),
    basic |-> Pick("basic_info", infos, env, allow),
    dns |-> Pick("dns", infos, env, allow),
    reverse |-> Pick("reverse_whois", infos, env, allow),
    history |-> Pick("historical_web", infos, env, allow),
    acquisitions |-> PickAll("acquisitions", infos, env, allow),
    subdomains |-> {i \in For("subdomains", infos, DOMAIN infos) : IsAvailable(infos[i], env)} ]

\* How many of a domain's pivots are of some types.
Of(pivots, types) == Cardinality({k \in DOMAIN pivots : pivots[k] \in types})

\* _reverse_whois_batch: one search for an address, a number or a tracker; the
\* results of a tracker's search are verified one by one.
Searches(runtime, pivots) == Cardinality(runtime.reverse) * Of(pivots, {"email", "phone", "tracker"})
Checks(settings, runtime, pivots) ==
  Cardinality(runtime.reverse) * Cardinality(runtime.basic) * (Of(pivots, {"tracker"}) * settings.perIdentifier)

\* _expand_acquisitions: each source is asked for each organisation.
Expansions(settings, runtime, pivots) ==
  IF settings.acquisitions THEN Cardinality(runtime.acquisitions) * Of(pivots, {"org"}) ELSE 0

\* _resolve_org_domain_via_wikidata: an organisation another source names
\* without a domain costs a call of its own; a source names up to eight.
MaxRelated == 8
Resolutions(settings, infos, runtime, pivots) ==
  LET others == {i \in runtime.acquisitions : infos[i].name # "wikidata"}
  IN IF settings.acquisitions /\ others # runtime.acquisitions
       THEN MaxRelated * (Cardinality(others) * Of(pivots, {"org"})) ELSE 0

\* _gather_all_data asks every registry until one knows enough; here none does.
Asked(settings, infos, runtime, pivots) ==
  [ whois |-> Cardinality(runtime.whois),
    basic_info |-> Cardinality(runtime.basic),
    dns |-> Cardinality(runtime.dns),
    subdomains |-> IF settings.subdomains THEN Cardinality(runtime.subdomains) ELSE 0,
    historical_web |-> IF settings.history THEN Cardinality(runtime.history) ELSE 0,
    reverse_whois |-> Searches(runtime, pivots),
    tracker_verification |-> Checks(settings, runtime, pivots),
    acquisitions |-> Expansions(settings, runtime, pivots) + Resolutions(settings, infos, runtime, pivots) ]

\* Who is asked, and the units the executor reserves when one of them is billable:
\* those of every attempt a call may make.
Askers(runtime) ==
  [ whois |-> runtime.whois, basic_info |-> runtime.basic, dns |-> runtime.dns,
    subdomains |-> runtime.subdomains, historical_web |-> runtime.history,
    reverse_whois |-> runtime.reverse, tracker_verification |-> runtime.basic,
    acquisitions |-> runtime.acquisitions ]
Reserved(settings, infos, runtime, asked) ==
  LET Attempts(c) == IF \E i \in Askers(runtime)[c] : infos[i].billable
                       THEN asked[c] * (settings.retries + 1) ELSE 0
  IN Total([c \in DOMAIN asked |-> c], Attempts)
====
