--------------------------- MODULE RegistryStore ---------------------------
(***************************************************************************)
(* registry_store.cpp: the records of the name service and the rotation of *)
(* Resolve.  records_ is a std::unordered_map whose iteration order is     *)
(* visible: the first entry met is the answer, and the rotation index is   *)
(* taken modulo the instances in iteration order.  `position` is that      *)
(* order.  An insertion may rehash, so it may permute every record;        *)
(* overwriting a record and erasing one leave the others in order.         *)
(*                                                                         *)
(* `served` is a history variable: the instances of a service that took a  *)
(* turn in the current round of the rotation.  A round starts again when   *)
(* the rotation is disturbed and when the index wraps.                     *)
(***************************************************************************)
EXTENDS Naturals, FiniteSets, Functions

CONSTANTS
  Service,       \* service names
  Key,           \* the <<service, instance id>> pairs registrations use
  Kind,          \* "entry", "instance", or a string Resolve ignores
  Address,       \* host:port pairs
  IndexModulus   \* 2^w for the width w of std::size_t

ASSUME KeyAssumption == \A k \in Key : k[1] \in Service
ASSUME KeyFinite == IsFiniteSet(Key)
ASSUME IndexAssumption == IndexModulus \in Nat \ {0}

VARIABLES records, position, rrIndex, served, reply

vars == <<records, position, rrIndex, served, reply>>

Record == [kind : Kind, address : Address]
NotFound == [found |-> FALSE]
Found(a) == [found |-> TRUE, address |-> a]

-----------------------------------------------------------------------------
\* Mutant of Of: the kind of a record is not looked at.
OfAnyKind(s, kind) == {k \in DOMAIN records : k[1] = s}

\* The records of a service with a kind, and where a record stands among them.
Of(s, kind) == {k \in DOMAIN records : k[1] = s /\ records[k].kind = kind}
Instances(s) == Of(s, "instance")
Ahead(k, S) == {j \in S : position[j] < position[k]}

\* The rotation of a service: its instances with their relative order.
Rotation(s) == {p \in Instances(s) \X Instances(s) : position[p[1]] <= position[p[2]]}

\* What a change of the records does to the rounds under way.
DisturbRounds ==
  served' = [s \in Service |-> IF Rotation(s)' = Rotation(s) THEN served[s] ELSE {}]

-----------------------------------------------------------------------------
Init ==
  /\ records = [k \in {} |-> {}]
  /\ position = [k \in {} |-> 0]
  /\ rrIndex = [s \in Service |-> 0]
  /\ served = [s \in Service |-> {}]
  /\ reply = NotFound

\* A key not yet in the map is inserted and may rehash it.
Insert(k, r) ==
  /\ k \notin DOMAIN records
  /\ records' = [j \in DOMAIN records \cup {k} |-> IF j = k THEN r ELSE records[j]]
  /\ position' \in Injection(DOMAIN records \cup {k}, 1..Cardinality(DOMAIN records \cup {k}))

\* A key already in the map keeps its node.
Overwrite(k, r) ==
  /\ k \in DOMAIN records
  /\ records' = [records EXCEPT ![k] = r]
  /\ UNCHANGED position

Upsert(k, r) ==
  /\ Insert(k, r) \/ Overwrite(k, r)
  /\ DisturbRounds
  /\ reply' = [ok |-> TRUE]
  /\ UNCHANGED rrIndex

\* Whoever asks: the record's pid and port are not compared.
Remove(k) ==
  /\ records' = Restrict(records, DOMAIN records \ {k})
  /\ position' = Restrict(position, DOMAIN position \ {k})
  /\ DisturbRounds
  /\ reply' = [ok |-> k \in DOMAIN records]
  /\ UNCHANGED rrIndex

\* The first entry in iteration order is the answer.
ResolveEntry(s, k) ==
  /\ k \in Of(s, "entry")
  /\ Ahead(k, Of(s, "entry")) = {}
  /\ reply' = Found(records[k].address)
  /\ UNCHANGED <<records, position, rrIndex, served>>

\* Mutants of NextIndex: the index is not advanced, or never wraps.
SameIndex(s) == rrIndex[s]
EndlessIndex(s) == rrIndex[s] + 1

\* The index advances on every turn and wraps with the width of its type.
NextIndex(s) == (rrIndex[s] + 1) % IndexModulus

\* Without an entry the instances take turns.
TakeTurn(s, k) ==
  /\ Of(s, "entry") = {}
  /\ k \in Instances(s)
  /\ Cardinality(Ahead(k, Instances(s))) = rrIndex[s] % Cardinality(Instances(s))
  /\ rrIndex' = [rrIndex EXCEPT ![s] = NextIndex(s)]
  /\ LET round == IF served[s] = Instances(s) THEN {} ELSE served[s]
     IN served' = [served EXCEPT ![s] = IF rrIndex[s] = IndexModulus - 1 THEN {} ELSE round \cup {k}]
  /\ reply' = Found(records[k].address)
  /\ UNCHANGED <<records, position>>

ResolveNothing(s) ==
  /\ Of(s, "entry") = {}
  /\ Instances(s) = {}
  /\ reply' = NotFound
  /\ UNCHANGED <<records, position, rrIndex, served>>

Resolve(s) ==
  \/ \E k \in Key : ResolveEntry(s, k) \/ TakeTurn(s, k)
  \/ ResolveNothing(s)

ListInstances(s) ==
  /\ reply' = [rows |-> {records[k] : k \in Instances(s)}]
  /\ UNCHANGED <<records, position, rrIndex, served>>

ListAll ==
  /\ reply' = [rows |-> {records[k] : k \in DOMAIN records}]
  /\ UNCHANGED <<records, position, rrIndex, served>>

Next ==
  \/ \E k \in Key : Remove(k) \/ \E r \in Record : Upsert(k, r)
  \/ \E s \in Service : Resolve(s) \/ ListInstances(s)
  \/ ListAll

Spec == Init /\ [][Next]_vars

-----------------------------------------------------------------------------
\* Records, their order and the per-service indices keep their shape: every
\* record has a position of its own, and only instances take part in a round.
TypeOK ==
  /\ DOMAIN records \subseteq Key
  /\ records \in [DOMAIN records -> Record]
  /\ position \in [DOMAIN records -> Nat]
  /\ IsInjective(position)
  /\ rrIndex \in [Service -> 0..IndexModulus - 1]
  /\ \A s \in Service : served[s] \subseteq Instances(s)

\* Resolve's rotation is fair (registry_store.cpp:52-54): an instance gets a
\* second turn only after every other instance of its service had one, as long
\* as no key is inserted, the instances of the service stay the same and the
\* index does not wrap.  Re-registrations and other services do not disturb it.
FairTurns ==
  [][\A s \in Service, k \in Key :
       TakeTurn(s, k) => (k \notin served[s] \/ served[s] = Instances(s))]_vars

\* The store implements the name service: entries win over instances, any
\* record found is a current one, and NotFound means there is none.
Names == INSTANCE NameService WITH book <- records
ImplementsNameService == Names!Spec
=============================================================================
