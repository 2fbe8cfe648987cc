---- MODULE MCModelGateway ----
(* Two processes on one domain whose evidence changes between visits: the    *)
(* fast model is local and sees all of it, the primary one only the public   *)
(* part.                                                                      *)
EXTENDS ModelGateway

PublicAndPersonal ==
  { [public |-> 1, personal |-> 1], [public |-> 1, personal |-> 2] }
CallsAndCloudTokens ==
  [task \in Tasks |-> [calls |-> 1, cloud |-> IF task = "fast" THEN 0 ELSE 2]]
TwoCalls == [calls |-> 2, cloud |-> 3]
====
