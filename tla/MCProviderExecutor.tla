---- MODULE MCProviderExecutor ----
(* Two processes; all calls but the last belong to the first.               *)
EXTENDS ProviderExecutor

AllButLast == [c \in Calls |-> IF c = Cardinality(Calls) THEN "q" ELSE "p"]
Unlimited == -1
====
