-------------------------- MODULE MCServerProcess --------------------------
\* Small instances of ServerProcess.
EXTENDS ServerProcess, TLC

CONSTANTS p1, p2

\* Incarnations under one name, one after the other or overlapping.
SameName == p1 :> "ranking-1" @@ p2 :> "ranking-1"
OneName == p1 :> "ranking-1"

\* Processes of one name, and registries, differ in nothing but their identity.
Interchangeable == Permutations(Proc) \cup Permutations(Registry)
=============================================================================
