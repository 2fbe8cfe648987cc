---- MODULE MCProviderPermits ----
(* Three attempts of calls to one provider, each of a process of its own.    *)
EXTENDS ProviderPermits
====
