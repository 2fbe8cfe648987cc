---- MODULE MCEvidenceLedger ----
(* Two runs of one domain.  Two registration sources of one lineage, a web    *)
(* page, two certificate indexes, a search provider and a register.         *)
EXTENDS EvidenceLedger

ip == [kind |-> "infrastructure", value |-> "ip"]
sub == [kind |-> "subdomain", value |-> "sub"]
email == [kind |-> "identifier", value |-> "email"]
acquired == [kind |-> "acquisition", value |-> "y"]
related == [kind |-> "related", value |-> "x"]

Say(source, fact) == [source |-> source, fact |-> fact]
MCReports ==
  {{Say("dns", ip)},
   {Say("rdap", email), Say("whois", email), Say("crtsh", sub), Say("hackertarget", sub)}}
MCFound ==
  {{}, {[fact |-> related, sources |-> {"search", "web"}]}, {[fact |-> acquired, sources |-> {"sec"}]}}
MCUnlinked == {email}
MCFamily ==
  [s \in {"rdap", "whois", "web", "dns", "crtsh", "hackertarget", "search", "sec", Derived} |->
     CASE s \in {"rdap", "whois"} -> "registry"
       [] s = "search" -> "unclassified"
       [] OTHER -> s]
====
