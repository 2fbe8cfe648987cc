---- MODULE MCAlgorithms ----
(* One domain "acme.com": two addresses, one of them the registrar's, a     *)
(* phone number, name servers, an organisation under two spellings; the     *)
(* built-in providers; graphs of up to three domains besides the root.      *)
EXTENDS Algorithms

Spellings == [ACME |-> "acme", dashes |-> ""]
NoiseValues == {"help@registrar", "ns.cloud"}
Ordered == <<"CA-PUB-1", "G-1", "acme", "acme.com", "help@registrar", "jo", "me@acme",
             "ns.acme", "ns.cloud", "redacted", "tel">>
Places == [v \in Range(Ordered) |-> CHOOSE i \in DOMAIN Ordered : Ordered[i] = v]

WhoisValues ==
  [ emails : SUBSET {"me@acme", "help@registrar"}, phones : {{}, {"tel"}, {"dashes"}},
    nameservers : {{}, {"ns.acme", "ns.cloud", "acme.com"}},
    orgs : {{}, {"ACME"}, {"redacted"}}, names : {{}, {"jo"}} ]
IntelValues ==
  [ aliases : {{}, {"ACME"}}, copyright : {{}, {"acme"}}, legal : {{}, {"acme"}},
    trackers : {{}, {"G-1"}, {"CA-PUB-1"}} ]
Outputs ==
  { [abstain |-> TRUE, pivots |-> <<>>],
    [abstain |-> FALSE, pivots |-> <<[type |-> "email", value |-> "me@acme", score |-> 95]>>] }

Provider(capability, name, tier, needs, executable, requests) ==
  [ capability |-> capability, name |-> name, tier |-> tier, billable |-> tier = "paid",
    needs |-> needs, executable |-> executable, requests |-> requests ]
DefaultRegistry ==
  << Provider("whois", "rdap-iana", "free", {}, "", 30),
     Provider("whois", "python-whois", "free", {}, "", 1),
     Provider("basic_info", "http-html", "free", {}, "", 12),
     Provider("reverse_whois", "duckduckgo", "free", {}, "", 1),
     Provider("reverse_whois", "whoxy", "paid", {"WHOXY_API_KEY"}, "", 1),
     Provider("subdomains", "subfinder", "free", {}, "subfinder", 1),
     Provider("subdomains", "crtsh", "free", {}, "", 6),
     Provider("subdomains", "hackertarget", "free", {}, "", 6),
     Provider("dns", "stdlib", "free", {}, "", 6),
     Provider("acquisitions", "wikidata", "free", {}, "", 22),
     Provider("acquisitions", "gleif", "free", {}, "", 5),
     Provider("acquisitions", "sec-edgar", "free", {"SEC_USER_AGENT"}, "", 7),
     Provider("historical_web", "wayback", "free", {}, "", 8) >>
Auto == [c \in {p.capability : p \in Range(DefaultRegistry)} |-> "auto"]
Pinnable == {p \in Range(DefaultRegistry) : p.name \in {"whoxy", "duckduckgo", "wikidata"}}
Envs ==
  [ keys : SUBSET {"WHOXY_API_KEY", "SEC_USER_AGENT"}, invalid : {{}, {"SEC_USER_AGENT"}},
    executables : {{}, {"subfinder"}}, disabled : {{}, {"gleif"}, {"http-html"}},
    pins : {Auto} \cup {[Auto EXCEPT ![p.capability] = p.name] : p \in Pinnable} ]
SettingsValues ==
  { [profile |-> p, topK |-> 3, perIdentifier |-> 3, maxNodes |-> n, retries |-> 2,
     maxCalls |-> 500, maxUnits |-> u, subdomains |-> s, history |-> s, acquisitions |-> a] :
      p \in {"free", "byok"}, n \in {5, 10, 50}, u \in {0, 45}, s \in BOOLEAN, a \in BOOLEAN }
Mixes == { <<"org", "org", "org">>, <<"tracker", "tracker", "tracker">>, <<"email", "org", "tracker">>, <<"ns">> }

FoundDomains == {"a", "b", "c"}
GraphValues == {[root |-> "r", domains |-> {"r"} \cup s, complete |-> c] : s \in SUBSET FoundDomains, c \in BOOLEAN}
CaseValues == {[positive |-> p, negative |-> n] : p \in SUBSET FoundDomains, n \in SUBSET FoundDomains}
Consistent == {c \in CaseValues : c.positive \cap c.negative = {} /\ c.positive \cup c.negative # {}}
====
