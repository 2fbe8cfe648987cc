---- MODULE PivotSelection ----
(***************************************************************************)
(* How the pivots of one domain are chosen: a baseline read from WHOIS and *)
(* the page, the model's candidates where the baseline is weak, then one   *)
(* filter, and an allocation of the few slots.  Scores are in hundredths.  *)
(*                                                                         *)
(* A candidate is [type, value, score].  They come as a sequence of        *)
(* batches: inside a batch, equal identifiers have equal scores and the    *)
(* order cannot matter.  Results are sets, for the order of the chosen     *)
(* pivots is not used.                                                     *)
(***************************************************************************)
EXTENDS Integers, FiniteSets, Sequences

CONSTANTS
  Alphabet,     \* the normal values, each with its place in string order
  Spelling,     \* normalize_identifier of the others: raw value |-> normal form,
                \* "" for one it rejects
  Noise,        \* generic and registrar addresses, role mailboxes, shared name servers
  Undisclosed   \* the values that stand for a redacted organisation or name

RawValues == DOMAIN Alphabet \cup DOMAIN Spelling

\* Normalising twice changes nothing more.
ASSUME ValuesAssumption ==
  /\ Alphabet \in [DOMAIN Alphabet -> Nat] /\ "" \notin RawValues
  /\ \A v, w \in DOMAIN Alphabet : Alphabet[v] = Alphabet[w] => v = w
  /\ DOMAIN Alphabet \cap DOMAIN Spelling = {}
  /\ \A v \in DOMAIN Spelling : Spelling[v] \in DOMAIN Alphabet \cup {""}

\* The identifier types, each with its place in string order.
TypePlace == [email |-> 1, name |-> 2, ns |-> 3, org |-> 4, phone |-> 5, tracker |-> 6]
IdentifierTypes == DOMAIN TypePlace

Canonical(v) == IF v \in DOMAIN Spelling THEN Spelling[v] ELSE v

NormalForms(values) == {Canonical(v) : v \in values} \ {""}
Found(type, values, score) == {[type |-> type, value |-> v, score |-> score] : v \in values}

TrackerConfidence(t) ==
  CASE t = "CA-PUB-1" -> 95 [] t = "UA-1" -> 92 [] t = "GTM-1" -> 90 [] t = "G-1" -> 85 [] OTHER -> 70
TrackerPivots(values) == UNION {Found("tracker", {v}, TrackerConfidence(v)) : v \in values}

\* Faulty: the registrar's own addresses count as the owner's.
WhoisPivotsWithNoise(whois, root) ==
  << Found("email", NormalForms(whois.emails), 80),
     Found("phone", NormalForms(whois.phones), 60),
     Found("org", NormalForms(whois.orgs) \ Undisclosed, 75) >>

\* extract_whois_pivot_candidates, from a record's fields and raw lines.
WhoisPivots(whois, root) ==
  << Found("email", NormalForms(whois.emails) \ Noise, 80),
     Found("phone", NormalForms(whois.phones), 60),
     Found("ns", NormalForms(whois.nameservers) \ (Noise \cup {root}), 65),
     Found("org", NormalForms(whois.orgs) \ Undisclosed, 75),
     Found("name", NormalForms(whois.names) \ Undisclosed, 65) >>

\* Aliases are taken as they are written.
PagePivots(intel) ==
  << Found("org", intel.aliases, 45),
     Found("org", NormalForms(intel.copyright), 70),
     Found("org", NormalForms(intel.legal), 85),
     TrackerPivots(NormalForms(intel.trackers)) >>

DeterministicPivots(whois, intel, root) == WhoisPivots(whois, root) \o PagePivots(intel)

\* The strict contract of a model's output: RelationshipOutput.
MaxModelPivots == 20
IsContract(output) ==
  /\ output.abstain <=> output.pivots = <<>>
  /\ Len(output.pivots) <= MaxModelPivots
  /\ \A i \in DOMAIN output.pivots :
       /\ output.pivots[i].type \in IdentifierTypes \ {"tracker"} /\ output.pivots[i].value # ""
       /\ output.pivots[i].score \in 0..100

Parsed(output) ==
  IF IsContract(output) THEN [i \in DOMAIN output.pivots |-> {output.pivots[i]}] ELSE <<>>

StrongScore == 75
HasStrong(batches) == \E i \in DOMAIN batches : \E c \in batches[i] : c.score >= StrongScore

\* select_pivots: a strong baseline spares the model.
Candidates(whois, intel, root, output, escalateOnly) ==
  LET baseline == DeterministicPivots(whois, intel, root)
  IN IF escalateOnly /\ HasStrong(baseline) THEN baseline ELSE baseline \o Parsed(output)

IsValid(c) ==
  /\ c.type \in IdentifierTypes /\ c.value # "" /\ c.score \in 0..100
  /\ c.type \in {"ns", "email"} => Canonical(c.value) \notin Noise

Normal(c) == [type |-> c.type, value |-> Canonical(c.value), score |-> c.score]
SameIdentifier(c, d) == c.type = d.type /\ c.value = d.value

Passing(batch, threshold) ==
  {Normal(c) : c \in {d \in batch : IsValid(d) /\ d.score >= threshold /\ Canonical(d.value) # ""}}

\* _finalize, up to the allocation: of one identifier the first candidate stays.
Filtered(batches, threshold) ==
  UNION { {c \in Passing(batches[i], threshold) :
             \A j \in 1..(i - 1) : \A d \in Passing(batches[j], threshold) : ~SameIdentifier(c, d)}
          : i \in DOMAIN batches }

Gap(c) == IF c.type \in {"org", "name"} THEN "corporate_control" ELSE "asset_discovery"

Specificity ==
  [email |-> 100, phone |-> 85, tracker |-> 250, ns |-> 25, org |-> 90, name |-> 35]

\* score_pivot: utility for one call, times 1 + verifications to stay whole.
Utility(c, verifications) ==
  c.score * Specificity[c.type] * (IF c.type = "tracker" THEN 1 ELSE 1 + verifications)

RanksBefore(c, d, verifications) ==
  LET U(e) == Utility(e, verifications) IN
  \/ U(c) > U(d)
  \/ U(c) = U(d) /\ c.score > d.score
  \/ U(c) = U(d) /\ c.score = d.score /\ TypePlace[c.type] < TypePlace[d.type]
  \/ U(c) = U(d) /\ c.score = d.score /\ c.type = d.type /\ Alphabet[c.value] < Alphabet[d.value]

\* When a candidate is considered: the best of each gap, then the rest.
Turn(c, candidates, verifications) ==
  IF \E d \in candidates : Gap(d) = Gap(c) /\ RanksBefore(d, c, verifications) THEN 3
  ELSE IF Gap(c) = "asset_discovery" THEN 1 ELSE 2

Ahead(c, d, turn, verifications) ==
  turn[c] < turn[d] \/ (turn[c] = turn[d] /\ RanksBefore(c, d, verifications))

FirstInOrder(candidates, topK, turn, verifications) ==
  {c \in candidates : Cardinality({d \in candidates : Ahead(d, c, turn, verifications)}) < topK}

\* Faulty: slots go by utility alone.
AllocateByUtility(candidates, topK, verifications) ==
  FirstInOrder(candidates, topK, [c \in candidates |-> 3], verifications)

\* allocate_pivots: as many as there are slots.
Allocate(candidates, topK, verifications) ==
  FirstInOrder(candidates, topK, [c \in candidates |-> Turn(c, candidates, verifications)], verifications)

SelectPivots(whois, intel, root, output, threshold, topK, verifications, escalateOnly) ==
  Allocate(Filtered(Candidates(whois, intel, root, output, escalateOnly), threshold), topK, verifications)
====
