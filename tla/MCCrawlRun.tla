---- MODULE MCCrawlRun ----
(* Three discovery graphs for CrawlRun.                                     *)
EXTENDS CrawlRun

CONSTANTS r, a, b, c, x, ip

Where(m) == [d \in Domains |-> IF d \in DOMAIN m THEN m[d] ELSE {}]
NoCap == -1
NoCache == EmptyTable

\* The root has a subdomain a and shares an identifier with b, which leads to
\* a again, one level deeper, redirects to c and has an address; a acquired c,
\* c acquired x.
TwoPathsSubdomains == Where([d \in {r} |-> {a}])
TwoPathsReverseWhois == Where([d \in {r, b} |-> IF d = r THEN {b} ELSE {a}])
TwoPathsAcquisitions == Where([d \in {a, c} |-> IF d = a THEN {c} ELSE {x}])
TwoPathsRedirects == Where([d \in {b} |-> {c}])
TwoPathsAttributes == Where([d \in {b} |-> {ip}])

\* A ring an earlier run mapped: r leads to a, a and b lead to each other.
RingSubdomains == Where([d \in {r} |-> {a}])
RingReverseWhois == Where([d \in {r} |-> {b}])
RingCache == [d \in {a, b} |-> IF d = a THEN {b, r} ELSE {a}]

\* r and a lead to each other.
PairSubdomains == Where([d \in {r} |-> {a}])
PairReverseWhois == Where([d \in {a} |-> {r}])

Nothing == Where(EmptyTable)
====
