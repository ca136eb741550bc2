------------------------ MODULE RegistryStoreProofs ------------------------
(***************************************************************************)
(* RegistryStore keeps its type, implements NameService and takes turns    *)
(* fairly, for any set of services, names, kinds and addresses and any     *)
(* width of the index.                                                     *)
(***************************************************************************)
EXTENDS RegistryStore, FiniteSetTheorems, TLAPS

-----------------------------------------------------------------------------
\* An undisturbed rotation has the same instances: the history of the round
\* stays a set of current instances across an insertion or a removal.
LEMMA RoundsStayCurrent ==
  ASSUME TypeOK, DisturbRounds,
         DOMAIN records' \subseteq Key,
         position' \in [DOMAIN records' -> Nat]
  PROVE  \A s \in Service : served'[s] \subseteq Instances(s)'
<1>1. ASSUME NEW s \in Service, Rotation(s)' = Rotation(s)
      PROVE  Instances(s) \subseteq Instances(s)'
  <2>1. ASSUME NEW k \in Instances(s) PROVE <<k, k>> \in Rotation(s)
    <3>1. k \in DOMAIN records
      BY <2>1 DEF Instances, Of
    <3>2. position[k] \in Nat
      BY <3>1 DEF TypeOK
    <3> QED
      BY <2>1, <3>2 DEF Rotation
  <2> QED
    BY <1>1, <2>1 DEF Rotation
<1>2. \A s \in Service : served'[s] = IF Rotation(s)' = Rotation(s) THEN served[s] ELSE {}
  BY DEF DisturbRounds
<1> QED
  BY <1>1, <1>2 DEF TypeOK

\* Records and positions have the same keys after an insertion, and no two
\* records share a position, whatever the rehash did.
LEMMA UpsertType ==
  ASSUME TypeOK, NEW k \in Key, NEW r \in Record, Upsert(k, r)
  PROVE  TypeOK'
<1>1. /\ DOMAIN records' \subseteq Key
      /\ records' \in [DOMAIN records' -> Record]
      /\ position' \in [DOMAIN records' -> Nat]
      /\ IsInjective(position')
  <2>1. CASE Insert(k, r)
    <3>1. /\ DOMAIN records' = DOMAIN records \cup {k}
          /\ records' \in [DOMAIN records' -> Record]
      BY <2>1 DEF Insert, TypeOK
    <3>2. /\ position' \in [DOMAIN records \cup {k} -> 1..Cardinality(DOMAIN records \cup {k})]
          /\ IsInjective(position')
      BY <2>1 DEF Insert, Injection
    <3>3. position' \in [DOMAIN records \cup {k} -> Nat]
      <4>1. 1..Cardinality(DOMAIN records \cup {k}) \subseteq Nat
        OBVIOUS
      <4> QED
        BY <3>2, <4>1
    <3> QED
      BY <3>1, <3>2, <3>3 DEF TypeOK
  <2>2. CASE Overwrite(k, r)
    BY <2>2 DEF Overwrite, TypeOK
  <2> QED
    BY <2>1, <2>2 DEF Upsert
<1>2. \A s \in Service : served'[s] \subseteq Instances(s)'
  BY <1>1, RoundsStayCurrent DEF Upsert
<1> QED
  BY <1>1, <1>2 DEF TypeOK, Upsert

LEMMA RemoveType ==
  ASSUME TypeOK, NEW k \in Key, Remove(k)
  PROVE  TypeOK'
<1>1. /\ DOMAIN records' = DOMAIN records \ {k}
      /\ \A j \in DOMAIN records \ {k} : records'[j] = records[j] /\ position'[j] = position[j]
      /\ records' = [j \in DOMAIN records \ {k} |-> records[j]]
      /\ position' = [j \in DOMAIN records \ {k} |-> position[j]]
  BY DEF Remove, Restrict, TypeOK
<1>2. /\ DOMAIN records' \subseteq Key
      /\ records' \in [DOMAIN records' -> Record]
      /\ position' \in [DOMAIN records' -> Nat]
      /\ IsInjective(position')
  BY <1>1 DEF TypeOK, IsInjective
<1>3. \A s \in Service : served'[s] \subseteq Instances(s)'
  BY <1>2, RoundsStayCurrent DEF Remove
<1> QED
  BY <1>2, <1>3 DEF TypeOK, Remove

\* A turn moves the index within its width and adds a current instance.
LEMMA TakeTurnType ==
  ASSUME TypeOK, NEW s \in Service, NEW k \in Key, TakeTurn(s, k)
  PROVE  TypeOK'
<1>1. rrIndex' \in [Service -> 0..IndexModulus - 1]
  <2>1. (rrIndex[s] + 1) % IndexModulus \in 0..IndexModulus - 1
    BY IndexAssumption DEF TypeOK
  <2> QED
    BY <2>1 DEF TakeTurn, NextIndex, TypeOK
<1>2. \A t \in Service : Instances(t)' = Instances(t)
  BY DEF TakeTurn, Instances, Of
<1>3. \A t \in Service : served'[t] \subseteq Instances(t)
  BY DEF TakeTurn, TypeOK
<1> QED
  BY <1>1, <1>2, <1>3 DEF TakeTurn, TypeOK

-----------------------------------------------------------------------------
\* Every reachable store is well formed (registry_store.h:32-34): each record
\* has its own place in the iteration order, indices stay within std::size_t,
\* and only current instances take part in a round.
THEOREM TypeCorrect == Spec => []TypeOK
<1>1. Init => TypeOK
  BY IndexAssumption DEF Init, TypeOK, IsInjective, Record, Instances, Of
<1>2. TypeOK /\ [Next]_vars => TypeOK'
  <2> SUFFICES ASSUME TypeOK, [Next]_vars PROVE TypeOK'
    OBVIOUS
  <2>1. CASE UNCHANGED <<records, position, rrIndex, served>>
    BY <2>1 DEF TypeOK, Instances, Of
  <2>2. CASE \E k \in Key : Remove(k) \/ \E r \in Record : Upsert(k, r)
    BY <2>2, RemoveType, UpsertType
  <2>3. ASSUME NEW s \in Service, Resolve(s) PROVE TypeOK'
    <3>1. CASE \E k \in Key : TakeTurn(s, k)
      BY <3>1, TakeTurnType
    <3> QED
      BY <2>1, <2>3, <3>1 DEF Resolve, ResolveEntry, ResolveNothing
  <2> QED
    BY <2>1, <2>2, <2>3 DEF Next, ListInstances, ListAll, vars
<1> QED
  BY <1>1, <1>2, PTL DEF Spec

-----------------------------------------------------------------------------
\* The records are read the same way at both levels.
LEMMA SameRecords ==
  \A s \in Service : \A kind : Names!Of(s, kind) = Of(s, kind)
BY DEF Names!Of, Of

\* The iteration order and the rotation index only narrow the abstract choice:
\* the store implements the name service.
THEOREM Implements == Spec => ImplementsNameService
<1>1. Init => Names!Init
  BY DEF Init, Names!Init, NotFound, Names!NotFound
<1>2. TypeOK /\ [Next]_vars => [Names!Next]_(Names!vars)
  <2> SUFFICES ASSUME TypeOK, [Next]_vars PROVE [Names!Next]_(Names!vars)
    OBVIOUS
  <2>1. ASSUME NEW k \in Key, Remove(k) PROVE Names!Remove(k)
    BY <2>1 DEF Remove, Names!Remove, Restrict, TypeOK
  <2>2. ASSUME NEW k \in Key, NEW r \in Record, Upsert(k, r) PROVE Names!Upsert(k, r)
    <3>1. records' = [j \in DOMAIN records \cup {k} |-> IF j = k THEN r ELSE records[j]]
      BY <2>2 DEF Upsert, Insert, Overwrite, TypeOK
    <3> QED
      BY <2>2, <3>1 DEF Upsert, Names!Upsert
  <2>3. ASSUME NEW s \in Service, Resolve(s) PROVE Names!Resolve(s)
    <3>1. CASE \E k \in Key : ResolveEntry(s, k)
      BY <3>1, SameRecords DEF ResolveEntry, Names!Resolve, Names!AnswerFrom, Found, Names!Found
    <3>2. CASE \E k \in Key : TakeTurn(s, k)
      BY <3>2, SameRecords
      DEF TakeTurn, Instances, Names!Resolve, Names!AnswerFrom, Found, Names!Found
    <3>3. CASE ResolveNothing(s)
      BY <3>3, SameRecords
      DEF ResolveNothing, Instances, Names!Resolve, NotFound, Names!NotFound
    <3> QED
      BY <2>3, <3>1, <3>2, <3>3 DEF Resolve
  <2>4. ASSUME NEW s \in Service, ListInstances(s) PROVE Names!ListInstances(s)
    BY <2>4, SameRecords DEF ListInstances, Names!ListInstances, Instances
  <2>5. ASSUME ListAll PROVE Names!ListAll
    BY <2>5 DEF ListAll, Names!ListAll
  <2>6. ASSUME UNCHANGED vars PROVE UNCHANGED Names!vars
    BY <2>6 DEF vars, Names!vars
  <2>7. Record = Names!Record
    BY DEF Record, Names!Record
  <2> QED
    BY <2>1, <2>2, <2>3, <2>4, <2>5, <2>6, <2>7 DEF Next, Names!Next
<1> QED
  BY <1>1, <1>2, TypeCorrect, PTL DEF Spec, ImplementsNameService, Names!Spec

-----------------------------------------------------------------------------
(* The rotation *)

\* Where an instance stands in the iteration order of its service, and the
\* instances whose turn the indices from b up to the present one were.
Place(k, s) == Cardinality(Ahead(k, Instances(s)))

TurnsSince(s, b) ==
  {k \in Instances(s) :
     \E j \in Nat : b <= j /\ j < rrIndex[s] /\ Place(k, s) = j % Cardinality(Instances(s))}

\* The round under way began at an index b, at most as many turns ago as there are
\* instances, and those that had a turn are those whose place an index since b is.
Rounds ==
  /\ served \in [Service -> SUBSET Key]
  /\ \A s \in Service : \E b \in Nat :
       /\ b <= rrIndex[s]
       /\ rrIndex[s] <= b + Cardinality(Instances(s))
       /\ served[s] = TurnsSince(s, b)

\* Quotient and remainder.
LEMMA Division ==
  ASSUME NEW m \in Nat \ {0}, NEW i \in Nat
  PROVE  i \div m \in Nat /\ (i % m) \in Nat /\ (i % m) < m /\ i = m * (i \div m) + (i % m)
OBVIOUS

LEMMA RemainderOfSum ==
  ASSUME NEW m \in Nat \ {0}, NEW q \in Nat, NEW r \in Nat, r < m
  PROVE  (m * q + r) % m = r
OBVIOUS

\* Two indices at most m apart that leave the same remainder are m apart.
LEMMA NextOfRemainder ==
  ASSUME NEW m \in Nat \ {0}, NEW i \in Nat, NEW j \in Nat,
         i < j, j <= i + m, i % m = j % m
  PROVE  j = i + m
<1> DEFINE p == i \div m
           q == j \div m
<1>1. p \in Nat /\ q \in Nat /\ i = m * p + (i % m) /\ j = m * q + (i % m)
  BY Division
<1>2. (i % m) \in Nat
  BY Division
<1> HIDE DEF p, q
<1>3. m * p < m * q /\ m * q <= m * p + m
  BY <1>1, <1>2
<1>4. m * (q - p) > 0 /\ m * (q - p) <= m
  BY <1>1, <1>3
<1>5. q - p = 1
  <2>1. q - p >= 2 => m * (q - p) >= 2 * m
    BY <1>1
  <2>2. q - p <= 0 => m * (q - p) <= 0
    BY <1>1
  <2> QED
    BY <1>1, <1>4, <2>1, <2>2
<1> QED
  BY <1>1, <1>2, <1>5

\* Among m indices in a row there is one for each remainder.
LEMMA EveryRemainder ==
  ASSUME NEW m \in Nat \ {0}, NEW b \in Nat, NEW r \in Nat, r < m
  PROVE  \E j \in Nat : b <= j /\ j < b + m /\ j % m = r
<1> DEFINE q == b \div m
<1>1. q \in Nat /\ (b % m) \in Nat /\ (b % m) < m /\ b = m * q + (b % m)
  BY Division
<1> HIDE DEF q
<1>2. CASE b % m <= r
  <2>1. m * q + r \in Nat /\ b <= m * q + r /\ m * q + r < b + m
    BY <1>1, <1>2
  <2> QED
    BY <1>1, <2>1, RemainderOfSum
<1>3. CASE r < b % m
  <2>1. m * (q + 1) + r \in Nat /\ b <= m * (q + 1) + r /\ m * (q + 1) + r < b + m
    BY <1>1, <1>3
  <2>2. (m * (q + 1) + r) % m = r
    <3>1. q + 1 \in Nat
      BY <1>1
    <3> QED
      BY <3>1, RemainderOfSum
  <2> QED
    BY <2>1, <2>2
<1> QED
  BY <1>1, <1>2, <1>3

\* The places of the instances of a service are numbered from 0, each once.
LEMMA Places ==
  ASSUME TypeOK, NEW s \in Service
  PROVE  /\ Cardinality(Instances(s)) \in Nat
         /\ \A k \in Instances(s) : Place(k, s) \in Nat /\ Place(k, s) < Cardinality(Instances(s))
         /\ \A k, l \in Instances(s) : Place(k, s) = Place(l, s) => k = l
<1>1. Instances(s) \in SUBSET Key
  BY DEF TypeOK, Instances, Of
<1>2. IsFiniteSet(Instances(s)) /\ Cardinality(Instances(s)) \in Nat
  BY <1>1, KeyFinite, FS_Subset, FS_CardinalityType
<1>3. ASSUME NEW k \in Instances(s), NEW T, T \subseteq Instances(s), k \in T,
             Ahead(k, Instances(s)) \subseteq T
      PROVE  Place(k, s) \in Nat /\ Place(k, s) < Cardinality(T)
  <2>1. IsFiniteSet(T) /\ Cardinality(T) \in Nat
    BY <1>2, <1>3, FS_Subset, FS_CardinalityType
  <2>2. k \notin Ahead(k, Instances(s))
    <3>1. position[k] \in Nat
      BY DEF TypeOK, Instances, Of
    <3> QED
      BY <3>1 DEF Ahead
  <2>3. /\ IsFiniteSet(Ahead(k, Instances(s)))
        /\ Place(k, s) <= Cardinality(T)
        /\ Cardinality(T) # Place(k, s)
    BY <1>3, <2>1, <2>2, FS_Subset DEF Place
  <2>4. Place(k, s) \in Nat
    BY <2>3, FS_CardinalityType DEF Place
  <2> QED
    BY <2>1, <2>3, <2>4
<1>4. ASSUME NEW k \in Instances(s), NEW l \in Instances(s), position[k] < position[l]
      PROVE  Place(k, s) < Place(l, s)
  <2>1. /\ k \in Ahead(l, Instances(s))
        /\ Ahead(k, Instances(s)) \subseteq Ahead(l, Instances(s))
        /\ Ahead(l, Instances(s)) \subseteq Instances(s)
    <3>1. \A i \in Instances(s) : position[i] \in Nat
      BY DEF TypeOK, Instances, Of
    <3> QED
      BY <1>4, <3>1 DEF Ahead
  <2> QED
    BY <1>3, <2>1 DEF Place
<1>5. \A k \in Instances(s) : Place(k, s) \in Nat /\ Place(k, s) < Cardinality(Instances(s))
  BY <1>3 DEF Ahead
<1>6. ASSUME NEW k \in Instances(s), NEW l \in Instances(s), Place(k, s) = Place(l, s)
      PROVE  k = l
  <2>1. /\ k \in DOMAIN position /\ l \in DOMAIN position
        /\ position[k] \in Nat /\ position[l] \in Nat
    BY DEF TypeOK, Instances, Of
  <2>2. position[k] = position[l]
    BY <1>4, <1>5, <1>6, <2>1
  <2> QED
    BY <2>1, <2>2 DEF TypeOK, IsInjective
<1> QED
  BY <1>2, <1>5, <1>6

\* An instance whose turn it is again was the first of a full round.
LEMMA SecondTurn ==
  ASSUME TypeOK, NEW s \in Service, NEW b \in Nat,
         b <= rrIndex[s], rrIndex[s] <= b + Cardinality(Instances(s)),
         served[s] = TurnsSince(s, b)
  PROVE  /\ rrIndex[s] = b + Cardinality(Instances(s)) => served[s] = Instances(s)
         /\ \A k \in served[s] :
              Place(k, s) = rrIndex[s] % Cardinality(Instances(s)) => served[s] = Instances(s)
<1> DEFINE m == Cardinality(Instances(s))
<1>1. /\ m \in Nat
      /\ \A k \in Instances(s) : Place(k, s) \in Nat /\ Place(k, s) < m
      /\ rrIndex[s] \in Nat
  BY Places, IndexAssumption DEF TypeOK
<1>2. ASSUME rrIndex[s] = b + m
      PROVE  served[s] = Instances(s)
  <2>1. ASSUME NEW k \in Instances(s) PROVE k \in TurnsSince(s, b)
    <3>1. m \in Nat \ {0} /\ Place(k, s) \in Nat /\ Place(k, s) < m
      BY <1>1, <2>1
    <3>2. PICK j \in Nat : b <= j /\ j < b + m /\ j % m = Place(k, s)
      BY <3>1, EveryRemainder
    <3> QED
      BY <1>2, <3>2 DEF TurnsSince
  <2> QED
    BY <2>1 DEF TurnsSince
<1>3. ASSUME NEW k \in served[s], Place(k, s) = rrIndex[s] % m
      PROVE  rrIndex[s] = b + m
  <2>1. PICK j \in Nat : b <= j /\ j < rrIndex[s] /\ Place(k, s) = j % m
    BY DEF TurnsSince
  <2>2. k \in Instances(s) /\ m \in Nat \ {0}
    BY <1>1 DEF TurnsSince
  <2>3. rrIndex[s] <= j + m
    BY <1>1, <2>1
  <2>4. rrIndex[s] = j + m
    BY <1>1, <1>3, <2>1, <2>2, <2>3, NextOfRemainder
  <2> QED
    BY <1>1, <2>1, <2>4
<1> QED
  BY <1>2, <1>3

\* An undisturbed rotation has the same instances in the same places.
LEMMA SameRotation ==
  ASSUME TypeOK, TypeOK', NEW s \in Service, Rotation(s)' = Rotation(s)
  PROVE  /\ Instances(s)' = Instances(s)
         /\ \A k \in Instances(s) : Place(k, s)' = Place(k, s)
<1>1. /\ \A k \in Instances(s) : position[k] \in Nat
      /\ \A k \in Instances(s)' : position'[k] \in Nat
  BY DEF TypeOK, Instances, Of
<1>2. Instances(s) = {k \in Key : <<k, k>> \in Rotation(s)}
  BY <1>1 DEF Rotation, Instances, Of, TypeOK
<1>3. Instances(s)' = {k \in Key : <<k, k>> \in Rotation(s)'}
  BY <1>1 DEF Rotation, Instances, Of, TypeOK
<1>4. Instances(s)' = Instances(s)
  BY <1>2, <1>3
<1>5. ASSUME NEW k \in Instances(s)
      PROVE  Ahead(k, Instances(s))' = Ahead(k, Instances(s))
  <2>1. Ahead(k, Instances(s)) = {j \in Instances(s) : <<k, j>> \notin Rotation(s)}
    BY <1>1 DEF Ahead, Rotation
  <2>2. Ahead(k, Instances(s))' = {j \in Instances(s)' : <<k, j>> \notin Rotation(s)'}
    BY <1>1, <1>4 DEF Ahead, Rotation
  <2> QED
    BY <1>4, <2>1, <2>2
<1> QED
  BY <1>4, <1>5 DEF Place

\* A change of the records leaves a round as it is or starts it again.
LEMMA DisturbedRounds ==
  ASSUME TypeOK, TypeOK', Rounds, DisturbRounds, rrIndex' = rrIndex
  PROVE  Rounds'
<1>1. served' \in [Service -> SUBSET Key]
  BY DEF DisturbRounds, Rounds
<1>2. ASSUME NEW s \in Service, Rotation(s)' = Rotation(s)
      PROVE  \E b \in Nat : /\ b <= rrIndex[s]
                            /\ rrIndex[s] <= b + Cardinality(Instances(s)')
                            /\ served'[s] = TurnsSince(s, b)'
  <2>1. PICK b \in Nat : /\ b <= rrIndex[s]
                         /\ rrIndex[s] <= b + Cardinality(Instances(s))
                         /\ served[s] = TurnsSince(s, b)
    BY DEF Rounds
  <2>2. Instances(s)' = Instances(s) /\ \A k \in Instances(s) : Place(k, s)' = Place(k, s)
    BY <1>2, SameRotation
  <2>3. TurnsSince(s, b)' = TurnsSince(s, b)
    BY <2>2 DEF TurnsSince
  <2> QED
    BY <1>2, <2>1, <2>2, <2>3 DEF DisturbRounds
<1>3. ASSUME NEW s \in Service, Rotation(s)' # Rotation(s)
      PROVE  \E b \in Nat : /\ b <= rrIndex[s]
                            /\ rrIndex[s] <= b + Cardinality(Instances(s)')
                            /\ served'[s] = TurnsSince(s, b)'
  <2>1. rrIndex[s] \in Nat /\ Cardinality(Instances(s)') \in Nat
    <3>1. Instances(s)' \in SUBSET Key
      BY DEF TypeOK, Instances, Of
    <3> QED
      BY <3>1, KeyFinite, FS_Subset, FS_CardinalityType, IndexAssumption DEF TypeOK
  <2>2. served'[s] = {}
    BY <1>3 DEF DisturbRounds
  <2>3. TurnsSince(s, rrIndex[s])' = {}
    BY <2>1 DEF TurnsSince
  <2> QED
    BY <2>1, <2>2, <2>3
<1> QED
  BY <1>1, <1>2, <1>3 DEF Rounds

\* A turn goes to the instance whose place the index is; it opens a round when
\* every instance had its turn and ends one when the index wraps.
LEMMA TurnRounds ==
  ASSUME TypeOK, Rounds, NEW s \in Service, NEW k \in Key, TakeTurn(s, k)
  PROVE  Rounds'
<1> DEFINE m == Cardinality(Instances(s))
           round == IF served[s] = Instances(s) THEN {} ELSE served[s]
<1>1. /\ UNCHANGED <<records, position>>
      /\ rrIndex' = [rrIndex EXCEPT ![s] = (rrIndex[s] + 1) % IndexModulus]
      /\ served' = [served EXCEPT ![s] = IF rrIndex[s] = IndexModulus - 1 THEN {} ELSE round \cup {k}]
      /\ k \in Instances(s)
      /\ Place(k, s) = rrIndex[s] % m
  BY DEF TakeTurn, NextIndex, Place
<1>2. \A t \in Service : /\ Instances(t)' = Instances(t)
                         /\ \A l : Place(l, t)' = Place(l, t)
  BY <1>1 DEF Place, Ahead, Instances, Of
<1>3. served' \in [Service -> SUBSET Key]
  BY <1>1 DEF Rounds
<1>4. ASSUME NEW t \in Service \ {s}
      PROVE  /\ rrIndex'[t] = rrIndex[t]
             /\ served'[t] = served[t]
             /\ \A b : TurnsSince(t, b)' = TurnsSince(t, b)
  <2>1. rrIndex'[t] = rrIndex[t] /\ served'[t] = served[t]
    BY <1>1 DEF TypeOK, Rounds
  <2> QED
    BY <1>2, <2>1 DEF TurnsSince
<1>5. /\ m \in Nat \ {0}
      /\ rrIndex[s] \in Nat /\ rrIndex[s] < IndexModulus
      /\ \A l \in Instances(s) : Place(l, s) = Place(k, s) => l = k
  <2>1. m \in Nat /\ Place(k, s) \in Nat /\ Place(k, s) < m
    BY <1>1, Places
  <2>2. rrIndex[s] \in Nat /\ rrIndex[s] < IndexModulus
    BY IndexAssumption DEF TypeOK
  <2> QED
    BY <1>1, <2>1, <2>2, Places
<1>6. \E b \in Nat : /\ b <= rrIndex'[s]
                     /\ rrIndex'[s] <= b + m
                     /\ served'[s] = TurnsSince(s, b)'
  <2>1. CASE rrIndex[s] = IndexModulus - 1
    <3>1. rrIndex'[s] = 0
      <4>1. IndexModulus % IndexModulus = 0
        BY IndexAssumption
      <4>2. rrIndex[s] + 1 = IndexModulus
        BY <2>1, IndexAssumption
      <4> QED
        BY <1>1, <4>1, <4>2 DEF TypeOK
    <3>2. served'[s] = {}
      BY <1>1, <2>1 DEF Rounds
    <3>3. TurnsSince(s, 0)' = {}
      BY <3>1 DEF TurnsSince
    <3> QED
      BY <1>5, <3>1, <3>2, <3>3
  <2>2. CASE rrIndex[s] # IndexModulus - 1
    <3>1. rrIndex'[s] = rrIndex[s] + 1
      <4>1. (rrIndex[s] + 1) % IndexModulus = rrIndex[s] + 1
        BY <1>5, <2>2, IndexAssumption
      <4> QED
        BY <1>1, <4>1 DEF TypeOK
    <3>2. served'[s] = round \cup {k}
      BY <1>1, <2>2 DEF Rounds
    <3>3. \A b \in Nat : b <= rrIndex[s] => TurnsSince(s, b)' = TurnsSince(s, b) \cup {k}
      <4>1. ASSUME NEW b \in Nat, b <= rrIndex[s], NEW l \in TurnsSince(s, b)'
            PROVE  l \in TurnsSince(s, b) \cup {k}
        <5>1. l \in Instances(s)
          BY <1>2, <4>1 DEF TurnsSince
        <5>2. PICK j \in Nat : b <= j /\ j < rrIndex[s] + 1 /\ Place(l, s) = j % m
          BY <1>2, <3>1, <4>1 DEF TurnsSince
        <5>3. CASE j = rrIndex[s]
          BY <1>1, <1>5, <5>1, <5>2, <5>3
        <5>4. CASE j < rrIndex[s]
          BY <5>1, <5>2, <5>4 DEF TurnsSince
        <5> QED
          BY <1>5, <5>2, <5>3, <5>4
      <4>2. ASSUME NEW b \in Nat, b <= rrIndex[s], NEW l \in TurnsSince(s, b) \cup {k}
            PROVE  l \in TurnsSince(s, b)'
        <5>1. l \in Instances(s)'
          BY <1>1, <1>2, <4>2 DEF TurnsSince
        <5>2. \E j \in Nat : b <= j /\ j < rrIndex[s] + 1 /\ Place(l, s) = j % m
          BY <1>1, <1>5, <4>2 DEF TurnsSince
        <5> QED
          BY <1>2, <3>1, <5>1, <5>2 DEF TurnsSince
      <4> QED
        BY <4>1, <4>2
    <3>4. CASE served[s] = Instances(s)
      <4>1. PICK b \in Nat : b = rrIndex[s]
        BY <1>5
      <4>2. TurnsSince(s, b) = {}
        BY <1>5, <4>1 DEF TurnsSince
      <4>3. served'[s] = TurnsSince(s, b)'
        BY <1>5, <3>2, <3>3, <3>4, <4>1, <4>2
      <4> QED
        BY <1>5, <3>1, <4>1, <4>3
    <3>5. CASE served[s] # Instances(s)
      <4>1. PICK b \in Nat : /\ b <= rrIndex[s]
                             /\ rrIndex[s] <= b + m
                             /\ served[s] = TurnsSince(s, b)
        BY DEF Rounds
      <4>2. rrIndex[s] # b + m
        BY <3>5, <4>1, SecondTurn
      <4> QED
        BY <1>5, <3>1, <3>2, <3>3, <3>5, <4>1, <4>2
    <3> QED
      BY <3>4, <3>5
  <2> QED
    BY <2>1, <2>2
<1>7. ASSUME NEW t \in Service
      PROVE  \E b \in Nat : /\ b <= rrIndex'[t]
                            /\ rrIndex'[t] <= b + Cardinality(Instances(t)')
                            /\ served'[t] = TurnsSince(t, b)'
  <2>1. CASE t = s
    BY <1>2, <1>6, <2>1
  <2>2. CASE t # s
    BY <1>2, <1>4, <2>2 DEF Rounds
  <2> QED
    BY <2>1, <2>2
<1> QED
  BY <1>3, <1>7 DEF Rounds

LEMMA RoundsHold == Spec => []Rounds
<1>1. Init => Rounds
  <2> SUFFICES ASSUME Init PROVE Rounds
    OBVIOUS
  <2>1. ASSUME NEW s \in Service
        PROVE  /\ 0 <= rrIndex[s]
               /\ rrIndex[s] <= 0 + Cardinality(Instances(s))
               /\ served[s] = TurnsSince(s, 0)
    <3>1. Instances(s) = {}
      BY DEF Init, Instances, Of
    <3>2. Cardinality(Instances(s)) = 0 /\ TurnsSince(s, 0) = {}
      BY <3>1, FS_EmptySet DEF TurnsSince
    <3> QED
      BY <3>2 DEF Init
  <2>2. served \in [Service -> SUBSET Key]
    BY DEF Init
  <2> QED
    BY <2>1, <2>2 DEF Rounds
<1>2. TypeOK /\ TypeOK' /\ Rounds /\ [Next]_vars => Rounds'
  <2> SUFFICES ASSUME TypeOK, TypeOK', Rounds, [Next]_vars PROVE Rounds'
    OBVIOUS
  <2>1. CASE UNCHANGED <<records, position, rrIndex, served>>
    BY <2>1 DEF Rounds, TurnsSince, Place, Ahead, Instances, Of
  <2>2. CASE \E k \in Key : Remove(k) \/ \E r \in Record : Upsert(k, r)
    BY <2>2, DisturbedRounds DEF Remove, Upsert
  <2>3. ASSUME NEW s \in Service, Resolve(s) PROVE Rounds'
    BY <2>1, <2>3, TurnRounds DEF Resolve, ResolveEntry, ResolveNothing
  <2> QED
    BY <2>1, <2>2, <2>3 DEF Next, ListInstances, ListAll, vars
<1> QED
  BY <1>1, <1>2, TypeCorrect, PTL DEF Spec

\* Resolve's rotation is fair (registry_store.cpp:52-54), for any number of
\* instances, any iteration order and any width of the index: no instance has a
\* second turn before every other one had its own, unless a key was inserted, the
\* instances changed or the index wrapped.
THEOREM TurnsAreFair == Spec => FairTurns
<1> DEFINE Fair ==
      \A s \in Service, k \in Key :
        TakeTurn(s, k) => (k \notin served[s] \/ served[s] = Instances(s))
<1>1. TypeOK /\ Rounds => Fair
  <2> SUFFICES ASSUME TypeOK, Rounds, NEW s \in Service, NEW k \in Key,
                      TakeTurn(s, k), k \in served[s]
               PROVE  served[s] = Instances(s)
    OBVIOUS
  <2>1. PICK b \in Nat : /\ b <= rrIndex[s]
                         /\ rrIndex[s] <= b + Cardinality(Instances(s))
                         /\ served[s] = TurnsSince(s, b)
    BY DEF Rounds
  <2>2. Place(k, s) = rrIndex[s] % Cardinality(Instances(s))
    BY DEF TakeTurn, Place
  <2> QED
    BY <2>1, <2>2, SecondTurn
<1>2. TypeOK /\ Rounds => [Fair]_vars
  BY <1>1
<1> QED
  BY <1>2, RoundsHold, TypeCorrect, PTL DEF FairTurns
=============================================================================
