--------------------------- MODULE MCRegistryHttp ---------------------------
\* A small instance of RegistryHttp: one service with one name.
EXTENDS RegistryHttp

CONSTANTS a1, c1, c2

Services == {"browse"}
Keys == Services \X {"browse-1"}

Registers(a) ==
  [op |-> "register", key |-> <<"browse", "browse-1">>,
   record |-> [kind |-> "instance", address |-> a]]
Deregisters == [op |-> "deregister", key |-> <<"browse", "browse-1">>]
Resolves == [op |-> "resolve", service |-> "browse"]
All == [op |-> "all"]

\* A server that registers and calls others, and registry_ctl, which lists and
\* deregisters.  Listing instances differs from listing all in the answer only.
Requests == {Registers(a1), Deregisters, Resolves, All}
WhoAsks == [c \in {c1, c2} |->
              IF c = c1 THEN {Registers(a1), Resolves} ELSE {Deregisters, All}]
=============================================================================
