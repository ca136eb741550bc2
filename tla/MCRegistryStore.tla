-------------------------- MODULE MCRegistryStore --------------------------
\* Small instances of RegistryStore: names of one service in every role, and a
\* service that nobody registers.  Names and addresses are interchangeable.
EXTENDS RegistryStore, TLC

CONSTANT Id

Services == {"browse", "video"}
Keys == {"browse"} \X Id

Symmetric == Permutations(Id) \cup Permutations(Address)
=============================================================================
