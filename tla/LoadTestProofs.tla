--------------------------- MODULE LoadTestProofs ---------------------------
(***************************************************************************)
(* The load test: what its loops make of any command line and any file,    *)
(* and what its report says of any number of workers, whenever they are    *)
(* killed.                                                                 *)
(*                                                                         *)
(* The loops over arguments, lines and workers are recursive functions;    *)
(* what they compute is shown by EveryNumber, on the numbers of turns.     *)
(***************************************************************************)
EXTENDS LoadTest, SequenceTheorems, FiniteSetTheorems, TLAPS

-----------------------------------------------------------------------------
(* Loops *)

\* A nonempty set of natural numbers has a least one: induction in the form the
\* proofs below use it.
LEMMA LeastNumber ==
  ASSUME NEW T, T \subseteq Nat, T # {}
  PROVE  \E m \in T : \A k \in T : m <= k
<1>1. \E m \in T : \A k \in T : ~(<<k, m>> \in OpToRel(<,Nat))
  BY NatLessThanWellFounded, WFMin
<1>2. PICK m \in T : \A k \in T : ~(<<k, m>> \in OpToRel(<,Nat))
  BY <1>1
<1>3. \A k \in T : ~(k < m)
  BY <1>2 DEF OpToRel
<1> QED
  BY <1>3

\* What fails nowhere first fails nowhere: T is where it fails.
LEMMA EveryNumber ==
  ASSUME NEW T, T \subseteq Nat, 0 \notin T,
         \A n \in Nat : n \notin T => n + 1 \notin T
  PROVE  T = {}
<1>1. SUFFICES ASSUME T # {} PROVE FALSE
  OBVIOUS
<1>2. PICK m \in T : \A k \in T : m <= k
  BY <1>1, LeastNumber
<1>3. m \in Nat /\ m # 0
  BY <1>2
<1>4. m - 1 \in Nat /\ ~(m <= m - 1) /\ m - 1 + 1 = m
  BY <1>3
<1>5. m - 1 \notin T
  BY <1>2, <1>4
<1> QED
  BY <1>2, <1>4, <1>5

\* The loop over the lines, over the arguments and over the workers: each computes
\* something, which starts as it should and follows the loop from each to the next.
LEMMA LoadedLoop ==
  ASSUME NEW lines, Len(lines) \in Nat
  PROVE  LET v == LoadedUpTo(lines)
         IN  v[0] = <<>> /\ \A i \in 1..Len(lines) : v[i] = TakeLine(v[i - 1], lines[i])
<1> DEFINE IsLoop(f, n) ==
             f = [i \in 0..n |-> IF i = 0 THEN <<>> ELSE TakeLine(f[i - 1], lines[i])]
           T == {n \in Nat : ~\E f : IsLoop(f, n)}
<1>1. \E f : IsLoop(f, 0)
  <2>1. IsLoop([i \in 0..0 |-> <<>>], 0)
    OBVIOUS
  <2> QED
    BY <2>1
<1>2. ASSUME NEW n \in Nat, NEW f, IsLoop(f, n)
      PROVE  \E g : IsLoop(g, n + 1)
  <2> DEFINE g == [i \in 0..(n + 1) |-> IF i = 0 THEN <<>> ELSE TakeLine(f[i - 1], lines[i])]
  <2>1. \A i \in 0..n : g[i] = f[i]
    <3>1. \A i \in 0..n : f[i] = IF i = 0 THEN <<>> ELSE TakeLine(f[i - 1], lines[i])
      BY <1>2
    <3> QED
      BY <3>1
  <2>2. \A i \in 0..(n + 1) : g[i] = IF i = 0 THEN <<>> ELSE TakeLine(g[i - 1], lines[i])
    <3>1. \A i \in 1..(n + 1) : i - 1 \in 0..n
      OBVIOUS
    <3>2. \A i \in 1..(n + 1) : g[i - 1] = f[i - 1]
      BY <2>1, <3>1
    <3>3. \A i \in 0..(n + 1) : g[i] = IF i = 0 THEN <<>> ELSE TakeLine(f[i - 1], lines[i])
      OBVIOUS
    <3> HIDE DEF g
    <3>4. \A i \in 0..(n + 1) : i = 0 \/ i \in 1..(n + 1)
      OBVIOUS
    <3> QED
      BY <3>2, <3>3, <3>4
  <2>3. g = [i \in 0..(n + 1) |-> IF i = 0 THEN <<>> ELSE TakeLine(g[i - 1], lines[i])]
    <3> HIDE DEF g
    <3> QED
      BY <2>2 DEF g
  <2> QED
    BY <2>3
<1> HIDE DEF IsLoop
<1>3. T = {}
  <2>1. T \subseteq Nat /\ 0 \notin T
    BY <1>1
  <2>2. \A n \in Nat : n \notin T => n + 1 \notin T
    BY <1>2
  <2> HIDE DEF T
  <2> QED
    BY <2>1, <2>2, EveryNumber
<1>4. \E f : IsLoop(f, Len(lines))
  BY <1>3
<1>5. IsLoop(LoadedUpTo(lines), Len(lines))
  BY <1>4 DEF IsLoop, LoadedUpTo
<1> QED
  BY <1>5 DEF IsLoop

LEMMA ParsedLoop ==
  ASSUME NEW list, Len(list) \in Nat
  PROVE  LET v == ParsedUpTo(list)
         IN  v[0] = Defaults /\ \A i \in 1..Len(list) : v[i] = ParseArg(v[i - 1], list[i])
<1> DEFINE IsLoop(f, n) ==
             f = [i \in 0..n |-> IF i = 0 THEN Defaults ELSE ParseArg(f[i - 1], list[i])]
           T == {n \in Nat : ~\E f : IsLoop(f, n)}
<1>1. \E f : IsLoop(f, 0)
  <2>1. IsLoop([i \in 0..0 |-> Defaults], 0)
    OBVIOUS
  <2> QED
    BY <2>1
<1>2. ASSUME NEW n \in Nat, NEW f, IsLoop(f, n)
      PROVE  \E g : IsLoop(g, n + 1)
  <2> DEFINE g == [i \in 0..(n + 1) |-> IF i = 0 THEN Defaults ELSE ParseArg(f[i - 1], list[i])]
  <2>1. \A i \in 0..n : g[i] = f[i]
    <3>1. \A i \in 0..n : f[i] = IF i = 0 THEN Defaults ELSE ParseArg(f[i - 1], list[i])
      BY <1>2
    <3> QED
      BY <3>1
  <2>2. \A i \in 0..(n + 1) : g[i] = IF i = 0 THEN Defaults ELSE ParseArg(g[i - 1], list[i])
    <3>1. \A i \in 1..(n + 1) : i - 1 \in 0..n
      OBVIOUS
    <3>2. \A i \in 1..(n + 1) : g[i - 1] = f[i - 1]
      BY <2>1, <3>1
    <3>3. \A i \in 0..(n + 1) : g[i] = IF i = 0 THEN Defaults ELSE ParseArg(f[i - 1], list[i])
      OBVIOUS
    <3> HIDE DEF g
    <3>4. \A i \in 0..(n + 1) : i = 0 \/ i \in 1..(n + 1)
      OBVIOUS
    <3> QED
      BY <3>2, <3>3, <3>4
  <2>3. g = [i \in 0..(n + 1) |-> IF i = 0 THEN Defaults ELSE ParseArg(g[i - 1], list[i])]
    <3> HIDE DEF g
    <3> QED
      BY <2>2 DEF g
  <2> QED
    BY <2>3
<1> HIDE DEF IsLoop
<1>3. T = {}
  <2>1. T \subseteq Nat /\ 0 \notin T
    BY <1>1
  <2>2. \A n \in Nat : n \notin T => n + 1 \notin T
    BY <1>2
  <2> HIDE DEF T
  <2> QED
    BY <2>1, <2>2, EveryNumber
<1>4. \E f : IsLoop(f, Len(list))
  BY <1>3
<1>5. IsLoop(ParsedUpTo(list), Len(list))
  BY <1>4 DEF IsLoop, ParsedUpTo
<1> QED
  BY <1>5 DEF IsLoop

LEMMA SumLoop ==
  ASSUME NEW term
  PROVE  LET v == SumUpTo(term)
         IN  v[0] = 0 /\ \A i \in 1..MaxWorkers : v[i] = v[i - 1] + term[i]
<1> DEFINE IsLoop(f, n) == f = [i \in 0..n |-> IF i = 0 THEN 0 ELSE f[i - 1] + term[i]]
           T == {n \in Nat : ~\E f : IsLoop(f, n)}
<1>1. \E f : IsLoop(f, 0)
  <2>1. IsLoop([i \in 0..0 |-> 0], 0)
    OBVIOUS
  <2> QED
    BY <2>1
<1>2. ASSUME NEW n \in Nat, NEW f, IsLoop(f, n)
      PROVE  \E g : IsLoop(g, n + 1)
  <2> DEFINE g == [i \in 0..(n + 1) |-> IF i = 0 THEN 0 ELSE f[i - 1] + term[i]]
  <2>1. \A i \in 0..n : g[i] = f[i]
    <3>1. \A i \in 0..n : f[i] = IF i = 0 THEN 0 ELSE f[i - 1] + term[i]
      BY <1>2
    <3> QED
      BY <3>1
  <2>2. \A i \in 0..(n + 1) : g[i] = IF i = 0 THEN 0 ELSE g[i - 1] + term[i]
    <3>1. \A i \in 1..(n + 1) : i - 1 \in 0..n
      OBVIOUS
    <3>2. \A i \in 1..(n + 1) : g[i - 1] = f[i - 1]
      BY <2>1, <3>1
    <3>3. \A i \in 0..(n + 1) : g[i] = IF i = 0 THEN 0 ELSE f[i - 1] + term[i]
      OBVIOUS
    <3> HIDE DEF g
    <3>4. \A i \in 0..(n + 1) : i = 0 \/ i \in 1..(n + 1)
      OBVIOUS
    <3> QED
      BY <3>2, <3>3, <3>4
  <2>3. g = [i \in 0..(n + 1) |-> IF i = 0 THEN 0 ELSE g[i - 1] + term[i]]
    <3> HIDE DEF g
    <3> QED
      BY <2>2 DEF g
  <2> QED
    BY <2>3
<1> HIDE DEF IsLoop
<1>3. T = {}
  <2>1. T \subseteq Nat /\ 0 \notin T
    BY <1>1
  <2>2. \A n \in Nat : n \notin T => n + 1 \notin T
    BY <1>2
  <2> HIDE DEF T
  <2> QED
    BY <2>1, <2>2, EveryNumber
<1>4. \E f : IsLoop(f, MaxWorkers)
  BY <1>3, MaxAssumption
<1>5. IsLoop(SumUpTo(term), MaxWorkers)
  BY <1>4 DEF IsLoop, SumUpTo
<1> QED
  BY <1>5, MaxAssumption DEF IsLoop

-----------------------------------------------------------------------------
(* Sums over the workers *)

LEMMA SumPrefix ==
  ASSUME NEW f \in [Worker -> Nat], NEW n \in 0..MaxWorkers
  PROVE  SumUpTo(f)[n] \in Nat
<1> DEFINE v == SumUpTo(f)
           T == {k \in Nat : k <= MaxWorkers /\ v[k] \notin Nat}
<1>1. v[0] = 0 /\ \A i \in 1..MaxWorkers : v[i] = v[i - 1] + f[i]
  BY SumLoop
<1> HIDE DEF v
<1>2. 0 \notin T
  BY <1>1
<1>3. ASSUME NEW k \in Nat, k \notin T PROVE k + 1 \notin T
  <2>1. SUFFICES ASSUME k + 1 <= MaxWorkers PROVE v[k + 1] \in Nat
    OBVIOUS
  <2>2. k + 1 \in 1..MaxWorkers /\ k + 1 - 1 = k /\ v[k] \in Nat
    BY <1>3, <2>1, MaxAssumption
  <2>3. f[k + 1] \in Nat
    BY <2>2 DEF Worker
  <2> QED
    BY <1>1, <2>2, <2>3
<1>4. T = {}
  <2>1. T \subseteq Nat
    OBVIOUS
  <2> HIDE DEF T
  <2> QED
    BY <1>2, <1>3, <2>1, EveryNumber
<1> QED
  BY <1>4, MaxAssumption DEF v

LEMMA SumType ==
  ASSUME NEW f \in [Worker -> Nat]
  PROVE  SumOf(f) \in Nat
BY SumPrefix, MaxAssumption DEF SumOf

LEMMA SumOfZeros ==
  ASSUME NEW f, \A w \in Worker : f[w] = 0
  PROVE  SumOf(f) = 0
<1> DEFINE v == SumUpTo(f)
           T == {k \in Nat : k <= MaxWorkers /\ v[k] # 0}
<1>1. v[0] = 0 /\ \A i \in 1..MaxWorkers : v[i] = v[i - 1] + f[i]
  BY SumLoop
<1> HIDE DEF v
<1>2. 0 \notin T
  BY <1>1
<1>3. ASSUME NEW k \in Nat, k \notin T PROVE k + 1 \notin T
  <2>1. SUFFICES ASSUME k + 1 <= MaxWorkers PROVE v[k + 1] = 0
    OBVIOUS
  <2>2. k + 1 \in 1..MaxWorkers /\ k + 1 - 1 = k /\ v[k] = 0
    BY <1>3, <2>1, MaxAssumption
  <2>3. f[k + 1] = 0
    BY <2>2 DEF Worker
  <2> QED
    BY <1>1, <2>2, <2>3
<1>4. T = {}
  <2>1. T \subseteq Nat
    OBVIOUS
  <2> HIDE DEF T
  <2> QED
    BY <1>2, <1>3, <2>1, EveryNumber
<1> QED
  BY <1>4, MaxAssumption DEF v, SumOf

\* One more worker counts: the sum grows by what it adds.
LEMMA SumGrows ==
  ASSUME NEW f \in [Worker -> Nat], NEW g \in [Worker -> Nat], NEW n \in Worker, NEW d \in Nat,
         f[n] = 0, g[n] = d, \A w \in Worker \ {n} : g[w] = f[w]
  PROVE  SumOf(g) = SumOf(f) + d
<1> DEFINE v == SumUpTo(f)
           u == SumUpTo(g)
           T == {k \in Nat : k <= MaxWorkers /\ u[k] # IF k < n THEN v[k] ELSE v[k] + d}
<1>1. v[0] = 0 /\ \A i \in 1..MaxWorkers : v[i] = v[i - 1] + f[i]
  BY SumLoop
<1>2. u[0] = 0 /\ \A i \in 1..MaxWorkers : u[i] = u[i - 1] + g[i]
  BY SumLoop
<1>3. \A k \in 0..MaxWorkers : v[k] \in Nat /\ u[k] \in Nat
  BY SumPrefix
<1> HIDE DEF v, u
<1>4. n \in Nat /\ 0 < n /\ n <= MaxWorkers /\ MaxWorkers \in Nat
  BY MaxAssumption DEF Worker
<1>5. 0 \notin T
  BY <1>1, <1>2, <1>4
<1>6. ASSUME NEW k \in Nat, k \notin T PROVE k + 1 \notin T
  <2>1. SUFFICES ASSUME k + 1 <= MaxWorkers
                 PROVE  u[k + 1] = IF k + 1 < n THEN v[k + 1] ELSE v[k + 1] + d
    OBVIOUS
  <2>2. /\ k + 1 \in 1..MaxWorkers /\ k + 1 - 1 = k
        /\ k \in 0..MaxWorkers /\ k + 1 \in 0..MaxWorkers
    BY <2>1, <1>4
  <2>3. u[k] = IF k < n THEN v[k] ELSE v[k] + d
    BY <1>6, <2>2
  <2>4. v[k + 1] = v[k] + f[k + 1] /\ u[k + 1] = u[k] + g[k + 1]
    BY <1>1, <1>2, <2>2
  <2>5. f[k + 1] \in Nat /\ v[k] \in Nat /\ k + 1 \in Worker
    BY <1>3, <2>2 DEF Worker
  <2>6. CASE k + 1 = n
    BY <2>3, <2>4, <2>5, <2>6
  <2>7. CASE k + 1 # n
    <3>1. g[k + 1] = f[k + 1]
      BY <2>5, <2>7
    <3>2. k < n <=> k + 1 < n
      BY <1>4, <2>7
    <3> QED
      BY <2>3, <2>4, <2>5, <3>1, <3>2
  <2> QED
    BY <2>6, <2>7
<1>7. T = {}
  <2>1. T \subseteq Nat
    OBVIOUS
  <2> HIDE DEF T
  <2> QED
    BY <1>5, <1>6, <2>1, EveryNumber
<1>8. u[MaxWorkers] = v[MaxWorkers] + d
  BY <1>4, <1>7
<1> QED
  BY <1>8 DEF u, v, SumOf

-----------------------------------------------------------------------------
(* Options and the configuration *)

\* Cutting to an int: into its range, and without effect on what is in it.
LEMMA Cut ==
  ASSUME NEW v \in Int
  PROVE  ToInt(v) \in Int32 /\ (v \in 0..IntMax => ToInt(v) = v)
<1> DEFINE m == 2 * (IntMax + 1)
           x == v + IntMax + 1
<1>1. IntMax \in Nat
  BY IntMaxAssumption
<1>2. m \in Nat \ {0} /\ x \in Int
  BY <1>1
<1>3. (x % m) \in Int /\ 0 <= (x % m) /\ (x % m) < m
  <2> HIDE DEF m, x
  <2> QED
    BY <1>2
<1>4. 0 <= x /\ x < m => x % m = x
  <2> HIDE DEF m, x
  <2> QED
    BY <1>2
<1>5. v \in 0..IntMax => 0 <= x /\ x < m
  BY <1>1
<1>6. ToInt(v) = (x % m) - (IntMax + 1)
  BY DEF ToInt
<1>7. ToInt(v) \in Int32
  <2>1. (x % m) < 2 * (IntMax + 1)
    BY <1>3
  <2> HIDE DEF x, m
  <2> QED
    BY <1>1, <1>3, <1>6, <2>1 DEF Int32
<1>8. v \in 0..IntMax => ToInt(v) = v
  <2>1. SUFFICES ASSUME v \in 0..IntMax PROVE ToInt(v) = v
    OBVIOUS
  <2>2. ToInt(v) = x - (IntMax + 1)
    BY <1>4, <1>5, <1>6, <2>1
  <2> QED
    BY <1>1, <2>2
<1> QED
  BY <1>7, <1>8

\* Options, unless parsing ended.
Opts == [Option -> Int32]

LEMMA DefaultsTyped == Defaults \in Opts
<1>1. \A o \in Option : Defaults[o] \in Int32
  BY DefaultsAssumption, IntMaxAssumption DEF Int32
<1> QED
  BY <1>1, DefaultsAssumption DEF Opts

LEMMA OptsAreNotEnded == \A o \in Opts : o \notin Ended
<1>1. "workers" \in Option /\ "workers" \notin DOMAIN Refused /\ "workers" \notin DOMAIN Help
  BY DEF Option, Refused, Help
<1> QED
  BY <1>1 DEF Opts, Ended

\* j is the last of the first i arguments that names the option o.
IsLast(list, i, o, j) ==
  j \in 1..i /\ list[j].name = o /\ \A k \in 1..i : list[k].name = o => k <= j

\* The options after i arguments, none of which ended the parsing.
TakenUpTo(list, i, opts) ==
  /\ opts \in Opts
  /\ \A o \in Option :
       IF \E j \in 1..i : list[j].name = o
       THEN \E j \in 1..i : /\ IsLast(list, i, o, j)
                            /\ IsNonNegative(list[j].text)
                            /\ opts[o] = ToInt(Strtol(list[j].text))
       ELSE opts[o] = Defaults[o]

LEMMA OneArgument ==
  ASSUME NEW list, NEW i \in Nat, NEW opts, TakenUpTo(list, i, opts),
         list[i + 1].text.value \in Int,
         ParseArg(opts, list[i + 1]) \notin Ended
  PROVE  TakenUpTo(list, i + 1, ParseArg(opts, list[i + 1]))
<1> DEFINE n == list[i + 1].name
           t == list[i + 1].text
           v == ToInt(Strtol(t))
           new == ParseArg(opts, list[i + 1])
<1>1. opts \in Opts /\ opts \notin Ended
  BY OptsAreNotEnded DEF TakenUpTo
<1>2. IF n \in Option THEN IsNonNegative(t) /\ new = [opts EXCEPT ![n] = v] ELSE new = opts
  BY <1>1 DEF ParseArg, Ended, Option
<1>3. v \in Int32
  <2>1. Strtol(t) \in Int
    BY LongMaxAssumption DEF Strtol
  <2> QED
    BY <2>1, Cut
<1>4. new \in Opts /\ \A o \in Option \ {n} : new[o] = opts[o]
  <2>1. CASE n \in Option
    BY <1>1, <1>2, <1>3, <2>1 DEF Opts
  <2>2. CASE n \notin Option
    BY <1>1, <1>2, <2>2
  <2> QED
    BY <2>1, <2>2
<1>5. n \in Option => new[n] = v /\ IsNonNegative(t)
  BY <1>1, <1>2, <1>3 DEF Opts
<1> HIDE DEF new
<1>6. 1..i + 1 = 1..i \cup {i + 1} /\ \A k \in 1..i : k <= i + 1
  OBVIOUS
<1>7. i + 1 \in 1..i + 1 /\ IsLast(list, i + 1, n, i + 1)
  BY DEF IsLast
<1>8. ASSUME NEW o \in Option \ {n}
      PROVE  IF \E j \in 1..i + 1 : list[j].name = o
             THEN \E j \in 1..i + 1 : /\ IsLast(list, i + 1, o, j)
                                      /\ IsNonNegative(list[j].text)
                                      /\ new[o] = ToInt(Strtol(list[j].text))
             ELSE new[o] = Defaults[o]
  <2>1. CASE \E j \in 1..i : list[j].name = o
    <3>1. PICK j \in 1..i : /\ IsLast(list, i, o, j)
                            /\ IsNonNegative(list[j].text)
                            /\ opts[o] = ToInt(Strtol(list[j].text))
      BY <2>1 DEF TakenUpTo
    <3>2. IsLast(list, i + 1, o, j)
      BY <1>6, <3>1 DEF IsLast
    <3>3. j \in 1..i + 1 /\ list[j].name = o
      BY <1>6, <3>1 DEF IsLast
    <3> QED
      BY <1>4, <3>1, <3>2, <3>3
  <2>2. CASE ~\E j \in 1..i : list[j].name = o
    <3>1. ~\E j \in 1..i + 1 : list[j].name = o
      BY <1>6, <2>2
    <3> QED
      BY <1>4, <2>2, <3>1 DEF TakenUpTo
  <2> QED
    BY <2>1, <2>2
<1>9. TakenUpTo(list, i + 1, new)
  BY <1>4, <1>5, <1>7, <1>8 DEF TakenUpTo
<1> QED
  BY <1>9 DEF new

\* The checks of single arguments: a batch is never empty.
LEMMA BatchIsPositive ==
  ASSUME NEW opts \in Opts, opts.staggerBatch > 0, NEW arg, arg.text.value \in Int,
         ParseArg(opts, arg) \notin Ended
  PROVE  ParseArg(opts, arg).staggerBatch > 0
<1> DEFINE v == ToInt(Strtol(arg.text))
<1>1. v \in Int
  <2>1. Strtol(arg.text) \in Int
    BY LongMaxAssumption DEF Strtol
  <2> QED
    BY <2>1, Cut, IntMaxAssumption DEF Int32
<1>2. opts \notin Ended /\ "staggerBatch" \in DOMAIN opts
  BY OptsAreNotEnded DEF Opts, Option
<1> HIDE DEF v
<1>3. CASE ParseArg(opts, arg) = opts
  BY <1>3
<1>4. CASE ParseArg(opts, arg) # opts
  <2>1. ParseArg(opts, arg) = [opts EXCEPT ![arg.name] = v] /\ ~(arg.name = "staggerBatch" /\ v <= 0)
    BY <1>2, <1>4 DEF ParseArg, Ended, v
  <2>2. CASE arg.name = "staggerBatch"
    BY <1>1, <1>2, <2>1, <2>2
  <2>3. CASE arg.name # "staggerBatch"
    BY <1>2, <2>1, <2>3
  <2> QED
    BY <2>2, <2>3
<1> QED
  BY <1>3, <1>4

LEMMA Taken ==
  ASSUME NEW list \in ArgLists, ParseArgs(list) \notin Ended
  PROVE  /\ TakenUpTo(list, Len(list), ParseArgs(list))
         /\ ParseArgs(list).workers > 0 /\ ParseArgs(list).staggerBatch > 0
         /\ ParseArgs(list).minSleep <= ParseArgs(list).maxSleep
<1> DEFINE v == ParsedUpTo(list)
           Good(k) == TakenUpTo(list, k, v[k]) /\ v[k].staggerBatch > 0
           T == {k \in Nat : k <= Len(list) /\ v[k] \notin Ended /\ ~Good(k)}
<1>1. /\ Len(list) \in Nat /\ DOMAIN list = 1..Len(list)
      /\ \A i \in 1..Len(list) : list[i].text.value \in Int
  BY InputAssumption
<1>2. v[0] = Defaults /\ \A i \in 1..Len(list) : v[i] = ParseArg(v[i - 1], list[i])
  BY <1>1, ParsedLoop
<1>3. /\ ParseArgs(list) = v[Len(list)] /\ ~(ParseArgs(list).workers <= 0)
      /\ ~(ParseArgs(list).maxSleep < ParseArgs(list).minSleep)
  BY DEF ParseArgs, Ended
<1> HIDE DEF v
<1>4. 0 \notin T
  BY <1>2, DefaultsTyped, DefaultsAssumption DEF TakenUpTo
<1>5. ASSUME NEW k \in Nat, k \notin T PROVE k + 1 \notin T
  <2>1. SUFFICES ASSUME k + 1 <= Len(list), v[k + 1] \notin Ended
                 PROVE  Good(k + 1)
    OBVIOUS
  <2>2. k + 1 \in 1..Len(list) /\ k + 1 - 1 = k /\ k <= Len(list)
    BY <1>1, <2>1
  <2>3. v[k + 1] = ParseArg(v[k], list[k + 1])
    BY <1>2, <2>2
  <2>4. v[k] \notin Ended
    BY <2>1, <2>3 DEF ParseArg
  <2>5. Good(k)
    BY <1>5, <2>2, <2>4
  <2>6. TakenUpTo(list, k + 1, v[k + 1])
    BY <1>1, <2>1, <2>2, <2>3, <2>5, OneArgument
  <2>7. v[k + 1].staggerBatch > 0
    BY <1>1, <2>1, <2>2, <2>3, <2>5, BatchIsPositive DEF TakenUpTo
  <2> QED
    BY <2>6, <2>7
<1>6. T = {}
  <2>1. T \subseteq Nat
    OBVIOUS
  <2> HIDE DEF T
  <2> QED
    BY <1>4, <1>5, <2>1, EveryNumber
<1>7. TakenUpTo(list, Len(list), ParseArgs(list)) /\ ParseArgs(list).staggerBatch > 0
  BY <1>1, <1>3, <1>6
<1>8. /\ ParseArgs(list).workers \in Int
      /\ ParseArgs(list).minSleep \in Int /\ ParseArgs(list).maxSleep \in Int
  BY <1>7, IntMaxAssumption DEF TakenUpTo, Opts, Option, Int32
<1> QED
  BY <1>3, <1>7, <1>8

\* What the loop over the command line has made of it.
LEMMA OptionsParsed ==
  ASSUME NEW list \in ArgLists, ParseArgs(list) \notin Ended
  PROVE  /\ ParseArgs(list) \in Opts
         /\ ParseArgs(list).workers \in 1..MaxWorkers
         /\ ParseArgs(list).staggerBatch > 0
         /\ ParseArgs(list).minSleep <= ParseArgs(list).maxSleep
         /\ \A o \in Option :
              IF \E i \in DOMAIN list : list[i].name = o
              THEN LastOf(list, o).text.value <= IntMax =>
                     /\ ParseArgs(list)[o] = LastOf(list, o).text.value
                     /\ ParseArgs(list)[o] >= 0
              ELSE ParseArgs(list)[o] = Defaults[o]
<1> DEFINE opts == ParseArgs(list)
<1>1. /\ TakenUpTo(list, Len(list), opts)
      /\ opts.workers > 0 /\ opts.staggerBatch > 0 /\ opts.minSleep <= opts.maxSleep
  BY Taken
<1>2. /\ Len(list) \in Nat /\ DOMAIN list = 1..Len(list)
      /\ \A i \in 1..Len(list) : list[i].text.value \in Int
  BY InputAssumption
<1>3. opts.workers <= MaxWorkers
  BY WorkersAssumption
<1> HIDE DEF opts
<1>4. opts.workers \in 1..MaxWorkers
  <2>1. opts.workers \in Int
    BY <1>1, IntMaxAssumption DEF TakenUpTo, Opts, Option, Int32
  <2> QED
    BY <1>1, <1>3, <2>1, MaxAssumption
<1>5. ASSUME NEW o \in Option, \E i \in DOMAIN list : list[i].name = o,
             LastOf(list, o).text.value <= IntMax
      PROVE  opts[o] = LastOf(list, o).text.value /\ opts[o] >= 0
  <2>1. PICK j \in 1..Len(list) : /\ IsLast(list, Len(list), o, j)
                                  /\ IsNonNegative(list[j].text)
                                  /\ opts[o] = ToInt(Strtol(list[j].text))
    BY <1>1, <1>2, <1>5 DEF TakenUpTo
  <2>2. LastOf(list, o) = list[j]
    <3>1. \A i \in DOMAIN list :
            (list[i].name = o /\ \A k \in DOMAIN list : list[k].name = o => k <= i) <=> i = j
      BY <1>2, <2>1 DEF IsLast
    <3> QED
      BY <1>2, <2>1, <3>1 DEF LastOf
  <2>3. list[j].text.value \in Int /\ list[j].text.value <= IntMax
    BY <1>2, <1>5, <2>1, <2>2
  <2>4. Strtol(list[j].text) = list[j].text.value /\ list[j].text.value >= 0
    BY <2>1, <2>3, LongMaxAssumption, IntMaxAssumption DEF Strtol, IsNonNegative
  <2>5. ToInt(list[j].text.value) = list[j].text.value
    <3>1. list[j].text.value \in 0..IntMax
      BY <2>3, <2>4, IntMaxAssumption
    <3> QED
      BY <2>3, <3>1, Cut
  <2> QED
    BY <2>1, <2>2, <2>4, <2>5
<1>6. ASSUME NEW o \in Option, ~\E i \in DOMAIN list : list[i].name = o
      PROVE  opts[o] = Defaults[o]
  BY <1>1, <1>2, <1>6 DEF TakenUpTo
<1>7. opts \in Opts
  BY <1>1 DEF TakenUpTo
<1> QED
  BY <1>1, <1>4, <1>5, <1>6, <1>7 DEF opts

\* What the loop over the file has made of it: a key has the text of its last line.
LEMMA FileLoaded ==
  ASSUME NEW f \in Files, NEW key \in DOMAIN LoadFromFile(f)
  PROVE  \E i \in DOMAIN f :
           /\ IsSetting(f[i]) /\ f[i].key = key
           /\ \A j \in DOMAIN f : j > i /\ IsSetting(f[j]) => f[j].key # key
           /\ f[i].text = LoadFromFile(f)[key]
<1> DEFINE v == LoadedUpTo(f)
           SetBy(n, i) ==
             /\ IsSetting(f[i]) /\ f[i].key = key
             /\ \A j \in 1..n : j > i /\ IsSetting(f[j]) => f[j].key # key
             /\ f[i].text = v[n][key]
           T == {n \in Nat : n <= Len(f) /\ key \in DOMAIN v[n] /\ ~\E i \in 1..n : SetBy(n, i)}
<1>1. Len(f) \in Nat /\ DOMAIN f = 1..Len(f)
  BY InputAssumption
<1>2. /\ v[0] = <<>>
      /\ \A i \in 1..Len(f) : v[i] = TakeLine(v[i - 1], f[i])
  BY <1>1, LoadedLoop
<1>3. LoadFromFile(f) = v[Len(f)]
  BY DEF LoadFromFile
<1> HIDE DEF v
<1>4. 0 \notin T
  BY <1>2
<1>5. ASSUME NEW n \in Nat, n \notin T PROVE n + 1 \notin T
  <2>1. SUFFICES ASSUME n + 1 <= Len(f), key \in DOMAIN v[n + 1]
                 PROVE  \E i \in 1..n + 1 : SetBy(n + 1, i)
    OBVIOUS
  <2>2. n + 1 \in 1..Len(f) /\ n + 1 - 1 = n /\ n <= Len(f) /\ n + 1 \in 1..n + 1
    BY <1>1, <2>1
  <2>3. v[n + 1] = IF IsSetting(f[n + 1]) THEN Put(v[n], f[n + 1]) ELSE v[n]
    BY <1>2, <2>2 DEF TakeLine
  <2>4. CASE IsSetting(f[n + 1]) /\ f[n + 1].key = key
    <3>1. v[n + 1][key] = f[n + 1].text
      BY <2>3, <2>4 DEF Put
    <3>2. SetBy(n + 1, n + 1)
      BY <2>4, <3>1
    <3> QED
      BY <2>2, <3>2
  <2>5. CASE ~(IsSetting(f[n + 1]) /\ f[n + 1].key = key)
    <3>1. key \in DOMAIN v[n] /\ v[n + 1][key] = v[n][key]
      BY <2>1, <2>3, <2>5 DEF Put
    <3>2. PICK i \in 1..n : SetBy(n, i)
      BY <1>5, <2>2, <3>1
    <3>3. i \in 1..n + 1
      OBVIOUS
    <3>4. \A j \in 1..n + 1 : j \in 1..n \/ j = n + 1
      OBVIOUS
    <3>5. SetBy(n + 1, i)
      BY <2>5, <3>1, <3>2, <3>4
    <3> QED
      BY <3>3, <3>5
  <2> QED
    BY <2>4, <2>5
<1>6. T = {}
  <2>1. T \subseteq Nat
    OBVIOUS
  <2> HIDE DEF T
  <2> QED
    BY <1>4, <1>5, <2>1, EveryNumber
<1>7. \E i \in 1..Len(f) : SetBy(Len(f), i)
  BY <1>1, <1>3, <1>6
<1> QED
  BY <1>1, <1>3, <1>7

-----------------------------------------------------------------------------
(* Statistics *)

Counts == [ok : Nat, fail : Nat, sum : Nat, min : Nat, max : Nat]
Outcome == {o \in [answered : BOOLEAN, videos : Nat, ms : Nat] : o.answered \/ o.videos = 0}

\* The successes among the calls s, if e videos are expected, and their times.
Successful(s, e) == {i \in DOMAIN s : s[i].videos = e}
TimesIn(s, e) == {s[i].ms : i \in Successful(s, e)}

\* One of the times and the greatest; the least too, if 0 is not one of them.
Extremes(st, times) ==
  IF times = {} THEN st.min = 0 /\ st.max = 0
  ELSE /\ st.min \in times /\ st.max \in times
       /\ \A t \in times : t <= st.max /\ (0 \notin times => st.min <= t)

\* st are the statistics of the calls s.
StatsOf(st, s, e) ==
  /\ st.ok = Cardinality(Successful(s, e))
  /\ st.ok + st.fail = Len(s)
  /\ st.fail = 0 => Successful(s, e) = DOMAIN s
  /\ Extremes(st, TimesIn(s, e))

LEMMA StatsTyped ==
  /\ NoStats \in Counts
  /\ \A st \in Counts, good \in BOOLEAN, ms \in Nat : RecordRpc(st, good, ms) \in Counts
  /\ \A a, b \in Counts : Merge(a, b) \in Counts
<1>1. NoStats \in Counts
  BY DEF NoStats, Counts
<1>2. ASSUME NEW st \in Counts, NEW good \in BOOLEAN, NEW ms \in Nat
      PROVE  RecordRpc(st, good, ms) \in Counts
  <2>1. LeastOf(st.min, ms) \in Nat /\ Greatest(st.max, ms) \in Nat
    BY DEF Counts, LeastOf, Least, Greatest
  <2>2. st.ok + 1 \in Nat /\ st.fail + 1 \in Nat /\ st.sum + ms \in Nat
    BY DEF Counts
  <2>3. [st EXCEPT !.fail = @ + 1] \in Counts
    BY <2>2 DEF Counts
  <2>4. [st EXCEPT !.ok = @ + 1, !.sum = @ + ms,
                   !.min = LeastOf(@, ms), !.max = Greatest(@, ms)] \in Counts
    BY <2>1, <2>2 DEF Counts
  <2> QED
    BY <2>3, <2>4 DEF RecordRpc
<1>3. ASSUME NEW a \in Counts, NEW b \in Counts
      PROVE  Merge(a, b) \in Counts
  <2>1. LeastOf(a.min, b.min) \in Nat /\ Greatest(a.max, b.max) \in Nat
    BY DEF Counts, LeastOf, Least, Greatest
  <2> QED
    BY <2>1 DEF Merge, Counts
<1> QED
  BY <1>1, <1>2, <1>3

LEMMA RecordedExtremes ==
  ASSUME NEW st \in Counts, NEW times \in SUBSET Nat, NEW ms \in Nat, Extremes(st, times)
  PROVE  Extremes(RecordRpc(st, TRUE, ms), times \cup {ms})
<1> DEFINE new == RecordRpc(st, TRUE, ms)
<1>1. /\ new.min = LeastOf(st.min, ms)
      /\ new.max = Greatest(st.max, ms)
  BY DEF RecordRpc, Counts
<1>2. st.min \in Nat /\ st.max \in Nat
  BY DEF Counts
<1> HIDE DEF new
<1>3. SUFFICES /\ new.min \in times \cup {ms} /\ new.max \in times \cup {ms}
               /\ \A t \in times \cup {ms} :
                    t <= new.max /\ (0 \notin times \cup {ms} => new.min <= t)
  BY DEF Extremes, new
<1>4. CASE times = {}
  <2>1. st.min = 0 /\ st.max = 0
    BY <1>4 DEF Extremes
  <2>2. new.min = ms /\ new.max = ms
    BY <1>1, <2>1 DEF LeastOf, Greatest
  <2> QED
    BY <1>4, <2>2
<1>5. CASE times # {}
  <2>1. /\ st.min \in times /\ st.max \in times
        /\ \A t \in times : t <= st.max /\ (0 \notin times => st.min <= t)
    BY <1>5 DEF Extremes
  <2>2. new.min \in times \cup {ms} /\ (st.min # 0 => new.min <= st.min /\ new.min <= ms)
    BY <1>1, <1>2, <2>1 DEF LeastOf, Least
  <2>3. new.max \in times \cup {ms} /\ st.max <= new.max /\ ms <= new.max
    BY <1>1, <1>2, <2>1 DEF Greatest
  <2>4. new.min \in Nat /\ new.max \in Nat /\ \A t \in times : t \in Nat
    BY <2>2, <2>3
  <2>5. ASSUME NEW t \in times \cup {ms} PROVE t <= new.max
    <3>1. CASE t \in times
      BY <1>2, <2>1, <2>3, <2>4, <3>1
    <3> QED
      BY <2>3, <3>1
  <2>6. ASSUME 0 \notin times \cup {ms}, NEW t \in times \cup {ms} PROVE new.min <= t
    <3>1. st.min # 0 /\ 0 \notin times
      BY <2>1, <2>6
    <3>2. new.min <= st.min /\ new.min <= ms
      BY <2>2, <3>1
    <3>3. CASE t \in times
      <4>1. st.min <= t /\ t \in Nat
        BY <2>1, <2>4, <3>1, <3>3
      <4> QED
        BY <1>2, <2>4, <3>2, <4>1
    <3> QED
      BY <2>6, <3>2, <3>3
  <2> QED
    BY <2>2, <2>3, <2>5, <2>6
<1> QED
  BY <1>4, <1>5

LEMMA MergedExtremes ==
  ASSUME NEW a \in Counts, NEW b \in Counts, NEW T \in SUBSET Nat, NEW U \in SUBSET Nat,
         Extremes(a, T), Extremes(b, U)
  PROVE  Extremes(Merge(a, b), T \cup U)
<1> DEFINE new == Merge(a, b)
<1>1. /\ new.min = IF b.min > 0 THEN LeastOf(a.min, b.min) ELSE a.min
      /\ new.max = Greatest(a.max, b.max)
  BY DEF Merge
<1>2. a.min \in Nat /\ a.max \in Nat /\ b.min \in Nat /\ b.max \in Nat
  BY DEF Counts
<1> HIDE DEF new
<1>3. SUFFICES IF T \cup U = {} THEN new.min = 0 /\ new.max = 0
               ELSE /\ new.min \in T \cup U /\ new.max \in T \cup U
                    /\ \A t \in T \cup U :
                         t <= new.max /\ (0 \notin T \cup U => new.min <= t)
  BY DEF Extremes, new
<1>4. IF T = {} THEN a.min = 0 /\ a.max = 0
      ELSE /\ a.min \in T /\ a.max \in T
           /\ \A t \in T : t <= a.max /\ (0 \notin T => a.min <= t)
  BY DEF Extremes
<1>5. IF U = {} THEN b.min = 0 /\ b.max = 0
      ELSE /\ b.min \in U /\ b.max \in U
           /\ \A t \in U : t <= b.max /\ (0 \notin U => b.min <= t)
  BY DEF Extremes
<1>6. CASE U = {}
  <2>1. new.min = a.min /\ new.max = a.max
    BY <1>1, <1>2, <1>5, <1>6 DEF Greatest
  <2> QED
    BY <1>4, <1>6, <2>1
<1>7. CASE U # {} /\ T = {}
  <2>1. a.min = 0 /\ a.max = 0
    BY <1>4, <1>7
  <2>2. new.min = b.min /\ new.max = b.max
    BY <1>1, <1>2, <2>1 DEF LeastOf, Greatest
  <2> QED
    BY <1>5, <1>7, <2>2
<1>8. CASE U # {} /\ T # {}
  <2>1. /\ a.min \in T /\ a.max \in T /\ b.min \in U /\ b.max \in U
        /\ \A t \in T : t \in Nat /\ t <= a.max /\ (0 \notin T => a.min <= t)
        /\ \A t \in U : t \in Nat /\ t <= b.max /\ (0 \notin U => b.min <= t)
    BY <1>4, <1>5, <1>8
  <2>2. /\ new.max \in {a.max, b.max}
        /\ new.max \in Nat /\ a.max <= new.max /\ b.max <= new.max
    BY <1>1, <1>2 DEF Greatest
  <2>3. ASSUME NEW t \in T \cup U PROVE t <= new.max
    <3>1. CASE t \in T
      BY <1>2, <2>1, <2>2, <3>1
    <3>2. CASE t \in U
      BY <1>2, <2>1, <2>2, <3>2
    <3> QED
      BY <3>1, <3>2
  <2>4. /\ new.min \in {a.min, b.min} /\ new.min \in Nat
        /\ a.min # 0 /\ b.min # 0 => new.min <= a.min /\ new.min <= b.min
    BY <1>1, <1>2 DEF LeastOf, Least
  <2>5. ASSUME 0 \notin T \cup U, NEW t \in T \cup U PROVE new.min <= t
    <3>1. new.min <= a.min /\ new.min <= b.min
      BY <2>1, <2>4, <2>5
    <3>2. (a.min <= t \/ b.min <= t) /\ t \in Nat
      BY <2>1, <2>5
    <3> QED
      BY <1>2, <2>4, <3>1, <3>2
  <2>6. new.min \in T \cup U /\ new.max \in T \cup U
    BY <2>1, <2>2, <2>4
  <2> QED
    BY <1>8, <2>3, <2>5, <2>6
<1> QED
  BY <1>6, <1>7, <1>8

\* One call more.
LEMMA Appended ==
  ASSUME NEW s \in Seq(Outcome), NEW o \in Outcome, NEW e
  PROVE  /\ Append(s, o) \in Seq(Outcome)
         /\ Len(Append(s, o)) = Len(s) + 1
         /\ DOMAIN Append(s, o) = DOMAIN s \cup {Len(s) + 1}
         /\ Successful(Append(s, o), e) =
              IF o.videos = e THEN Successful(s, e) \cup {Len(s) + 1} ELSE Successful(s, e)
         /\ Cardinality(Successful(Append(s, o), e)) =
              IF o.videos = e THEN Cardinality(Successful(s, e)) + 1
              ELSE Cardinality(Successful(s, e))
         /\ TimesIn(Append(s, o), e) =
              IF o.videos = e THEN TimesIn(s, e) \cup {o.ms} ELSE TimesIn(s, e)
<1> DEFINE n == Len(s) + 1
           a == Append(s, o)
<1>1. /\ a \in Seq(Outcome) /\ Len(a) = n /\ Len(s) \in Nat /\ DOMAIN s = 1..Len(s)
      /\ DOMAIN a = 1..n
      /\ \A i \in 1..Len(s) : a[i] = s[i]
      /\ a[n] = o
  BY AppendProperties, LenProperties
<1> HIDE DEF a
<1>2. DOMAIN a = DOMAIN s \cup {n} /\ n \notin DOMAIN s
  BY <1>1
<1>3. Successful(a, e) = IF o.videos = e THEN Successful(s, e) \cup {n} ELSE Successful(s, e)
  BY <1>1, <1>2 DEF Successful
<1>4. Successful(s, e) \subseteq 1..Len(s)
  BY <1>1 DEF Successful
<1>5. IsFiniteSet(Successful(s, e)) /\ n \notin Successful(s, e)
  <2>1. IsFiniteSet(1..Len(s))
    BY <1>1, FS_Interval
  <2> QED
    BY <1>1, <1>2, <1>4, <2>1, FS_Subset
<1>6. Cardinality(Successful(s, e) \cup {n}) = Cardinality(Successful(s, e)) + 1
  BY <1>5, FS_AddElement
<1>7. TimesIn(a, e) = IF o.videos = e THEN TimesIn(s, e) \cup {o.ms} ELSE TimesIn(s, e)
  <2>1. \A i \in Successful(s, e) : a[i] = s[i]
    BY <1>1, <1>4
  <2> HIDE DEF n
  <2> QED
    BY <1>1, <1>3, <2>1 DEF TimesIn
<1>8. Cardinality(Successful(a, e)) = IF o.videos = e THEN Cardinality(Successful(s, e)) + 1
                                      ELSE Cardinality(Successful(s, e))
  BY <1>3, <1>6
<1> QED
  BY <1>1, <1>2, <1>3, <1>7, <1>8 DEF a

LEMMA CallsTyped ==
  ASSUME NEW s \in Seq(Outcome), NEW e
  PROVE  /\ TimesIn(s, e) \in SUBSET Nat
         /\ IsFiniteSet(Successful(s, e))
         /\ Cardinality(Successful(s, e)) \in Nat
<1>1. Len(s) \in Nat /\ DOMAIN s = 1..Len(s) /\ \A i \in DOMAIN s : s[i] \in Outcome
  BY LenProperties, ElementOfSeq
<1>2. IsFiniteSet(1..Len(s)) /\ Successful(s, e) \in SUBSET (1..Len(s))
  BY <1>1, FS_Interval DEF Successful
<1>3. IsFiniteSet(Successful(s, e)) /\ Cardinality(Successful(s, e)) \in Nat
  BY <1>2, FS_Subset, FS_CardinalityType
<1>4. \A i \in DOMAIN s : s[i].ms \in Nat
  BY <1>1 DEF Outcome
<1> QED
  BY <1>3, <1>4 DEF TimesIn, Successful

LEMMA NoCalls ==
  ASSUME NEW e
  PROVE  /\ <<>> \in Seq(Outcome)
         /\ Successful(<<>>, e) = {} /\ TimesIn(<<>>, e) = {}
         /\ StatsOf(NoStats, <<>>, e)
<1>1. <<>> \in Seq(Outcome) /\ Len(<<>>) = 0 /\ DOMAIN <<>> = {}
  OBVIOUS
<1>2. Successful(<<>>, e) = {} /\ TimesIn(<<>>, e) = {}
  BY <1>1 DEF Successful, TimesIn
<1>3. Cardinality({}) = 0
  BY FS_EmptySet
<1>4. /\ NoStats.ok = 0 /\ NoStats.fail = 0 /\ NoStats.min = 0 /\ NoStats.max = 0
  BY DEF NoStats
<1>5. Extremes(NoStats, {})
  BY <1>4 DEF Extremes
<1>6. StatsOf(NoStats, <<>>, e)
  <2> DEFINE s == <<>>
  <2>1. /\ Len(s) = 0 /\ DOMAIN s = {} /\ Successful(s, e) = {} /\ TimesIn(s, e) = {}
        /\ Cardinality({}) = 0
    BY <1>1, <1>2, <1>3
  <2> HIDE DEF s
  <2>2. StatsOf(NoStats, s, e)
    BY <2>1, <1>4, <1>5 DEF StatsOf
  <2> QED
    BY <2>2 DEF s
<1> QED
  BY <1>1, <1>2, <1>6

\* RecordRpc keeps the statistics those of the calls.
LEMMA OneCall ==
  ASSUME NEW st \in Counts, NEW s \in Seq(Outcome), NEW e, StatsOf(st, s, e),
         NEW o \in Outcome, NEW ms \in Nat, o.videos = e => o.ms = ms
  PROVE  StatsOf(RecordRpc(st, o.videos = e, ms), Append(s, o), e)
<1> DEFINE a == Append(s, o)
<1>1. /\ Len(a) = Len(s) + 1 /\ Len(s) \in Nat
      /\ DOMAIN a = DOMAIN s \cup {Len(s) + 1}
      /\ TimesIn(s, e) \in SUBSET Nat
      /\ Cardinality(Successful(s, e)) \in Nat
  BY Appended, CallsTyped, LenProperties
<1>2. st.ok \in Nat /\ st.fail \in Nat
  BY DEF Counts
<1>3. CASE o.videos = e
  <2> DEFINE new == RecordRpc(st, TRUE, ms)
  <2>1. /\ Successful(a, e) = Successful(s, e) \cup {Len(s) + 1}
        /\ Cardinality(Successful(a, e)) = Cardinality(Successful(s, e)) + 1
        /\ TimesIn(a, e) = TimesIn(s, e) \cup {ms}
    BY <1>3, Appended
  <2>2. new.ok = st.ok + 1 /\ new.fail = st.fail
    BY DEF RecordRpc, Counts
  <2>3. Extremes(new, TimesIn(a, e))
    BY <1>1, <2>1, RecordedExtremes DEF StatsOf
  <2> HIDE DEF new, a
  <2>4. StatsOf(new, a, e)
    BY <1>1, <1>2, <2>1, <2>2, <2>3 DEF StatsOf
  <2>5. (o.videos = e) = TRUE
    BY <1>3
  <2> QED
    BY <2>4, <2>5 DEF new, a
<1>4. CASE o.videos # e
  <2> DEFINE new == RecordRpc(st, FALSE, ms)
  <2>1. /\ Successful(a, e) = Successful(s, e)
        /\ TimesIn(a, e) = TimesIn(s, e)
    BY <1>4, Appended
  <2>2. new.ok = st.ok /\ new.fail = st.fail + 1 /\ new.min = st.min /\ new.max = st.max
    BY DEF RecordRpc, Counts
  <2>3. Extremes(new, TimesIn(a, e))
    BY <2>1, <2>2 DEF StatsOf, Extremes
  <2> HIDE DEF new, a
  <2>4. StatsOf(new, a, e)
    BY <1>1, <1>2, <2>1, <2>2, <2>3 DEF StatsOf
  <2>5. (o.videos = e) = FALSE
    BY <1>4
  <2> QED
    BY <2>4, <2>5 DEF new, a
<1> QED
  BY <1>3, <1>4

-----------------------------------------------------------------------------
(* The inductive invariant *)

Places == {"none", "starting", "running", "writing", "written", "exited", "killed"}

Shape ==
  /\ main \in {"args", "config", "fork", "close", "read", "wait", "ended"}
  /\ options \in Opts
  /\ options.workers \in 1..MaxWorkers
  /\ expected \in Nat
  /\ next \in 1..options.workers + 1
  /\ got \in BOOLEAN
  /\ crashed \in Nat
  /\ exit \in -1..2
  /\ total \in Counts
  /\ worker \in [Worker -> Places]
  /\ stats \in [Worker -> Counts]
  /\ writers \in [Worker -> SUBSET (Worker \cup {Main})]
  /\ pipe \in [Worker -> BOOLEAN]
  /\ calls \in [Worker -> Seq(Outcome)]

\* What main was given, and what it has made of it.
Inputs ==
  /\ main = "args" => args \in ArgLists
  /\ main \in {"args", "config"} => file \in Files
  /\ main = "close" => file = <<>>
  /\ OptionsAsTyped
  /\ ExpectedAsWritten

\* Which workers main has forked.
Forked ==
  /\ main \in {"args", "config"} => next = 1 /\ \A w \in Worker : worker[w] = "none"
  /\ main = "fork" => \A w \in Worker : worker[w] = "none" <=> w >= next
  /\ main = "close" =>
       next <= options.workers /\ \A w \in Worker : worker[w] = "none" <=> w > next
  /\ main \in {"read", "wait"} => \A w \in 1..options.workers : worker[w] # "none"
  /\ main = "wait" => next <= options.workers

\* A worker holds its pipe while it lives, and has written to it if it exited.
Pipes ==
  /\ \A w \in Worker :
       /\ worker[w] \in {"starting", "running", "writing", "written"} => w \in writers[w]
       /\ worker[w] \in {"written", "exited"} => pipe[w]
  /\ main = "wait" => got \/ worker[next] = "killed"

OneFailure == [NoStats EXCEPT !.fail = 1]

\* The statistics of a worker are those of its calls; one that could not start has
\* a failure without a call.
Own(w) ==
  /\ worker[w] \in {"none", "starting"} => calls[w] = <<>> /\ stats[w] = NoStats
  /\ worker[w] = "running" => StatsOf(stats[w], calls[w], expected)
  /\ worker[w] \in {"writing", "written", "exited"} =>
       \/ StatsOf(stats[w], calls[w], expected)
       \/ calls[w] = <<>> /\ stats[w] = OneFailure
  /\ stats[w].ok + stats[w].fail <= MaxCalls

\* The workers main has collected, and those of them whose statistics it has merged.
Collected == IF main \in {"read", "wait"} \/ Reported THEN 1..next - 1 ELSE {}
Counted == {w \in Collected : worker[w] = "exited"}
OkCalls == [w \in Worker |-> IF w \in Counted THEN stats[w].ok ELSE 0]
AllCalls == [w \in Worker |-> IF w \in Counted THEN stats[w].ok + stats[w].fail ELSE 0]
CountedTimes == UNION {TimesOf(w) : w \in Counted}

\* The report so far is that of the workers collected so far.
Merged ==
  /\ \A w \in Collected : worker[w] \in {"exited", "killed"}
  /\ crashed + Cardinality(Counted) = Cardinality(Collected)
  /\ crashed = 0 => Counted = Collected
  /\ total.ok = SumOf(OkCalls)
  /\ total.ok + total.fail = SumOf(AllCalls)
  /\ total.fail = 0 => \A w \in Counted : stats[w].fail = 0
  /\ Extremes(total, CountedTimes)
  /\ Reported /\ exit = 0 => crashed = 0 /\ total.fail = 0

IInv ==
  /\ Shape
  /\ Inputs
  /\ Forked
  /\ Pipes
  /\ \A w \in Worker : Own(w)
  /\ Merged

LEMMA WorkerNumbers ==
  ASSUME Shape
  PROVE  /\ \A w \in 1..options.workers : w \in Worker
         /\ next \in Nat /\ options.workers \in Nat /\ MaxWorkers \in Nat
         /\ Main \notin Worker
BY MaxAssumption DEF Shape, Worker, Main

\* A step of a worker, or its end, leaves main and the other workers alone.
LEMMA WorkerMoves ==
  ASSUME Shape, NEW w \in Worker, WorkerStep(w) \/ Die(w)
  PROVE  /\ main # "ended"
         /\ UNCHANGED <<inputVars, mainVars, options, expected>>
         /\ worker[w] \in {"starting", "running", "writing", "written"}
         /\ worker'[w] \in Places \ {"none", "starting"}
         /\ worker' \in [Worker -> Places]
         /\ \A v \in Worker \ {w} : /\ worker'[v] = worker[v]
                                    /\ stats'[v] = stats[v]
                                    /\ calls'[v] = calls[v]
                                    /\ pipe'[v] = pipe[v]
         /\ \A v \in Worker : writers[v] \ {w} \subseteq writers'[v]
<1>1. CASE StartFails(w)
  BY <1>1 DEF StartFails, At, Shape, Places, inputVars, mainVars
<1>2. CASE Start(w)
  BY <1>2 DEF Start, At, Shape, Places, inputVars, mainVars
<1>3. CASE Call(w)
  BY <1>3 DEF Call, At, Shape, Places, inputVars, mainVars
<1>4. CASE Finish(w)
  BY <1>4 DEF Finish, At, Shape, Places, inputVars, mainVars
<1>5. CASE Write(w)
  BY <1>5 DEF Write, At, Shape, Places, inputVars, mainVars
<1>6. CASE Exit(w)
  BY <1>6 DEF Exit, At, Shape, Places, inputVars, mainVars
<1>7. CASE Die(w)
  BY <1>7 DEF Die, At, Shape, Places, inputVars, mainVars
<1> QED
  BY <1>1, <1>2, <1>3, <1>4, <1>5, <1>6, <1>7 DEF WorkerStep

\* What Call does, in terms of one outcome.
LEMMA CallAdds ==
  ASSUME Shape, NEW w \in Worker, Call(w)
  PROVE  \E o \in Outcome, ms \in Nat :
           /\ o.videos = expected => o.ms = ms
           /\ stats' = [stats EXCEPT ![w] = RecordRpc(stats[w], o.videos = expected, ms)]
           /\ calls' = [calls EXCEPT ![w] = Append(calls[w], o)]
<1>1. PICK answered \in BOOLEAN, n \in Answers, ms \in Latency :
        LET videos == IF answered THEN n ELSE 0 IN
          /\ stats' = [stats EXCEPT ![w] = RecordRpc(@, IsOk(videos), ms)]
          /\ calls' = [calls EXCEPT ![w] = Append(@,
               [answered |-> answered, videos |-> videos,
                ms |-> IF videos = expected THEN ms ELSE 0])]
  BY DEF Call
<1> DEFINE videos == IF answered THEN n ELSE 0
           o == [answered |-> answered, videos |-> videos,
                 ms |-> IF videos = expected THEN ms ELSE 0]
<1>2. n \in Nat /\ ms \in Nat
  BY CallAssumption
<1>3. o \in Outcome
  BY <1>2 DEF Outcome
<1>4. o.videos = videos /\ (o.videos = expected => o.ms = ms)
  OBVIOUS
<1>5. stats' = [stats EXCEPT ![w] = RecordRpc(stats[w], videos = expected, ms)]
  BY <1>1 DEF IsOk
<1>6. calls' = [calls EXCEPT ![w] = Append(calls[w], o)]
  BY <1>1
<1> HIDE DEF o, videos
<1>7. stats' = [stats EXCEPT ![w] = RecordRpc(stats[w], o.videos = expected, ms)]
  BY <1>4, <1>5
<1> QED
  BY <1>2, <1>3, <1>4, <1>6, <1>7

LEMMA InitInv == Init => IInv
<1> SUFFICES ASSUME Init PROVE IInv
  OBVIOUS
<1>2. main = "args" /\ next = 1 /\ crashed = 0 /\ total = NoStats /\ ~Reported
  BY DEF Init, Reported
<1>3. Shape
  <2>1. NoStats \in Counts /\ <<>> \in Seq(Outcome)
    BY StatsTyped, NoCalls
  <2>2. Defaults \in Opts /\ Defaults.workers \in 1..MaxWorkers
    BY DefaultsTyped, DefaultsAssumption
  <2>3. /\ worker \in [Worker -> Places] /\ stats \in [Worker -> Counts]
        /\ writers \in [Worker -> SUBSET (Worker \cup {Main})]
        /\ pipe \in [Worker -> BOOLEAN] /\ calls \in [Worker -> Seq(Outcome)]
    BY <2>1 DEF Init, Places
  <2>4. options \in Opts /\ options.workers \in 1..MaxWorkers /\ next \in 1..options.workers + 1
    BY <2>2, MaxAssumption DEF Init
  <2>5. /\ main = "args" /\ expected \in Nat /\ got \in BOOLEAN /\ crashed \in Nat
        /\ total \in Counts
    BY <2>1 DEF Init
  <2>6. exit \in -1..2
    <3>1. exit = -1
      BY DEF Init
    <3> QED
      BY <3>1
  <2> QED
    BY <2>3, <2>4, <2>5, <2>6 DEF Shape
<1>4. Inputs
  BY DEF Init, Inputs, OptionsAsTyped, ExpectedAsWritten
<1>5. Forked
  BY DEF Init, Forked
<1>6. Pipes
  BY DEF Init, Pipes
<1>7. ASSUME NEW w \in Worker PROVE Own(w)
  <2>1. worker[w] = "none" /\ calls[w] = <<>> /\ stats[w] = NoStats
    BY DEF Init
  <2>2. NoStats.ok + NoStats.fail <= MaxCalls
    BY MaxAssumption DEF NoStats
  <2> QED
    BY <2>1, <2>2 DEF Own
<1>8. Merged
  <2>1. Collected = {} /\ Counted = {}
    BY <1>2 DEF Collected, Counted
  <2>2. SumOf(OkCalls) = 0 /\ SumOf(AllCalls) = 0
    <3>1. \A w \in Worker : OkCalls[w] = 0 /\ AllCalls[w] = 0
      BY <2>1 DEF OkCalls, AllCalls
    <3> QED
      BY <3>1, SumOfZeros
  <2>3. Cardinality({}) = 0
    BY FS_EmptySet
  <2>4. CountedTimes = {}
    BY <2>1 DEF CountedTimes
  <2>5. total.ok = 0 /\ total.fail = 0 /\ total.min = 0 /\ total.max = 0
    BY <1>2 DEF NoStats
  <2>6. Extremes(total, {})
    BY <2>5 DEF Extremes
  <2> QED
    BY <1>2, <2>1, <2>2, <2>3, <2>4, <2>5, <2>6 DEF Merged
<1> QED
  BY <1>3, <1>4, <1>5, <1>6, <1>7, <1>8 DEF IInv

LEMMA ShapeStep == IInv /\ [Next]_vars => Shape'
<1> SUFFICES ASSUME IInv, [Next]_vars PROVE Shape'
  OBVIOUS
<1>2. Shape
  BY DEF IInv
<1> USE <1>2
<1>3. CASE ReadArgs
  <2>1. main = "args" /\ args \in ArgLists /\ ParseArgs(args) \notin Ended /\ next = 1
    BY <1>3 DEF ReadArgs, IInv, Inputs, Forked
  <2>2. options' \in Opts /\ options'.workers \in 1..MaxWorkers
    BY <1>3, <2>1, OptionsParsed DEF ReadArgs
  <2>3. 1 \in 1..options'.workers + 1
    BY <2>2, MaxAssumption
  <2> QED
    BY <1>3, <2>1, <2>2, <2>3 DEF ReadArgs, Shape, workerVars, mainVars
<1>4. CASE RefuseArgs \/ ShowHelp
  BY <1>4 DEF RefuseArgs, ShowHelp, Leave, Shape, workerVars, mainVars
<1>5. CASE ReadConfig
  <2>1. expected' \in Nat
    BY <1>5, IntMaxAssumption DEF ReadConfig, HasNonNegativeInt, ParsesAsInt, Int32
  <2> QED
    BY <1>5, <2>1 DEF ReadConfig, Shape, workerVars, mainVars
<1>6. CASE RefuseConfig
  BY <1>6 DEF RefuseConfig, Leave, Shape, workerVars, mainVars
<1>7. CASE Fork
  <2>1. next \in Worker
    BY <1>7, WorkerNumbers DEF Fork, Shape
  <2>2. worker' \in [Worker -> Places] /\ writers' \in [Worker -> SUBSET (Worker \cup {Main})]
    BY <1>7, <2>1 DEF Fork, Shape, Places
  <2> QED
    BY <1>7, <2>2 DEF Fork, Shape
<1>8. CASE CloseWriteEnd
  <2>1. next + 1 \in 1..options.workers + 1
    BY <1>8, WorkerNumbers DEF CloseWriteEnd, IInv, Forked, Shape
  <2> QED
    BY <1>8, <2>1 DEF CloseWriteEnd, Shape, workerVars
<1>9. CASE ForkFails
  BY <1>9 DEF ForkFails, Leave, Shape, workerVars
<1>10. CASE AllForked
  <2>1. 1 \in 1..options.workers + 1
    BY WorkerNumbers
  <2> QED
    BY <1>10, <2>1 DEF AllForked, Shape, workerVars
<1>11. CASE ReadStats
  <2>1. next \in Worker
    BY <1>11, WorkerNumbers DEF ReadStats, Shape
  <2> QED
    BY <1>11, <2>1 DEF ReadStats, Shape, workerVars
<1>12. CASE WaitFor
  <2>1. next \in Worker /\ next + 1 \in 1..options.workers + 1
    BY <1>12, WorkerNumbers DEF WaitFor, IInv, Forked, Shape
  <2>2. Merge(total, stats[next]) \in Counts
    BY <2>1, StatsTyped DEF Shape
  <2>3. total' \in Counts /\ crashed' \in Nat
    BY <1>12, <2>2 DEF WaitFor, Shape
  <2> QED
    BY <1>12, <2>1, <2>3 DEF WaitFor, Shape, workerVars
<1>13. CASE Report
  BY <1>13 DEF Report, Leave, Shape, workerVars
<1>14. ASSUME NEW w \in Worker, WorkerStep(w) \/ Die(w)
       PROVE  Shape'
  <2>1. /\ UNCHANGED <<inputVars, mainVars, options, expected>>
        /\ worker' \in [Worker -> Places]
    BY <1>14, WorkerMoves
  <2>2. stats' \in [Worker -> Counts]
    <3>1. CASE Call(w)
      <4>1. PICK o \in Outcome, ms \in Nat :
              stats' = [stats EXCEPT ![w] = RecordRpc(stats[w], o.videos = expected, ms)]
        BY <3>1, CallAdds
      <4>2. PICK good \in BOOLEAN : good = (o.videos = expected)
        OBVIOUS
      <4>3. RecordRpc(stats[w], good, ms) \in Counts
        BY StatsTyped DEF Shape
      <4> QED
        BY <4>1, <4>2, <4>3 DEF Shape
    <3>2. CASE StartFails(w)
      <4>1. [stats[w] EXCEPT !.fail = @ + 1] \in Counts
        <5>1. stats[w] \in Counts /\ stats[w].fail + 1 \in Nat
          BY DEF Shape, Counts
        <5> QED
          BY <5>1 DEF Counts
      <4> QED
        BY <3>2, <4>1 DEF StartFails, Shape
    <3>3. CASE Die(w)
      BY <3>3, StatsTyped DEF Die, Shape
    <3> QED
      BY <1>14, <3>1, <3>2, <3>3 DEF WorkerStep, Start, Finish, Write, Exit, Shape
  <2>3. calls' \in [Worker -> Seq(Outcome)]
    <3>1. CASE Call(w)
      <4>1. PICK o \in Outcome, ms \in Nat : calls' = [calls EXCEPT ![w] = Append(calls[w], o)]
        BY <3>1, CallAdds
      <4>2. Append(calls[w], o) \in Seq(Outcome)
        BY Appended DEF Shape
      <4> QED
        BY <4>1, <4>2 DEF Shape
    <3>2. CASE Die(w)
      BY <3>2, NoCalls DEF Die, Shape
    <3> QED
      BY <1>14, <3>1, <3>2 DEF WorkerStep, StartFails, Start, Finish, Write, Exit, Shape
  <2>4. writers' \in [Worker -> SUBSET (Worker \cup {Main})] /\ pipe' \in [Worker -> BOOLEAN]
    BY <1>14 DEF WorkerStep, StartFails, Start, Call, Finish, Write, Exit, Die, Shape
  <2> QED
    BY <2>1, <2>2, <2>3, <2>4 DEF Shape, mainVars
<1>15. CASE UNCHANGED vars
  BY <1>15 DEF vars, mainVars, workerVars, Shape
<1> QED
  BY <1>3, <1>4, <1>5, <1>6, <1>7, <1>8, <1>9, <1>10, <1>11, <1>12, <1>13, <1>14, <1>15
     DEF Next, MainStep

LEMMA InputsStep == IInv /\ [Next]_vars => Inputs'
<1> SUFFICES ASSUME IInv, [Next]_vars PROVE Inputs'
  OBVIOUS
<1>1. Shape /\ Inputs
  BY DEF IInv
<1>2. CASE ReadArgs
  <2>1. args \in ArgLists /\ ParseArgs(args) \notin Ended /\ file \in Files
    BY <1>1, <1>2 DEF ReadArgs, Inputs
  <2>2. main' = "config" /\ options' = ParseArgs(args) /\ args' = args /\ file' = file
    BY <1>2 DEF ReadArgs, inputVars
  <2>3. OptionsAsTyped'
    <3>1. /\ options'.workers > 0 /\ options'.staggerBatch > 0
          /\ options'.minSleep <= options'.maxSleep
      BY <2>1, <2>2, OptionsParsed, MaxAssumption
    <3> QED
      BY <2>1, <2>2, <3>1, OptionsParsed DEF OptionsAsTyped
  <2> QED
    BY <2>1, <2>2, <2>3 DEF Inputs, ExpectedAsWritten
<1>3. CASE ReadConfig
  <2>1. main = "config" /\ main' = "fork" /\ file \in Files /\ file' = file
    BY <1>1, <1>3 DEF ReadConfig, Inputs, inputVars
  <2>2. /\ CountKey \in DOMAIN LoadFromFile(file)
        /\ expected' = LoadFromFile(file)[CountKey].value
    BY <1>3 DEF ReadConfig, HasNonNegativeInt
  <2>3. ExpectedAsWritten'
    <3>1. PICK i \in DOMAIN file :
            /\ IsSetting(file[i]) /\ file[i].key = CountKey
            /\ \A j \in DOMAIN file : j > i /\ IsSetting(file[j]) => file[j].key # CountKey
            /\ file[i].text = LoadFromFile(file)[CountKey]
      BY <2>1, <2>2, FileLoaded
    <3> QED
      BY <2>1, <2>2, <3>1 DEF ExpectedAsWritten
  <2> QED
    BY <2>1, <2>3 DEF Inputs, OptionsAsTyped
<1>4. CASE Fork
  BY <1>4 DEF Fork, Inputs, OptionsAsTyped, ExpectedAsWritten
<1>5. CASE CloseWriteEnd
  <2>1. main' = "fork" /\ file' = <<>>
    BY <1>1, <1>5 DEF CloseWriteEnd, Inputs, inputVars
  <2> QED
    BY <2>1 DEF Inputs, OptionsAsTyped, ExpectedAsWritten
<1>6. CASE \/ RefuseArgs \/ ShowHelp \/ RefuseConfig \/ ForkFails \/ AllForked \/ ReadStats
           \/ WaitFor \/ Report
  <2>1. main' \in {"ended", "read", "wait"}
    BY <1>6 DEF RefuseArgs, ShowHelp, RefuseConfig, ForkFails, AllForked, ReadStats, WaitFor,
                Report, Leave
  <2> QED
    BY <2>1 DEF Inputs, OptionsAsTyped, ExpectedAsWritten
<1>7. CASE UNCHANGED <<inputVars, mainVars, options, expected>>
  BY <1>1, <1>7 DEF inputVars, mainVars, Inputs, OptionsAsTyped, ExpectedAsWritten
<1>8. ASSUME NEW w \in Worker, WorkerStep(w) \/ Die(w)
      PROVE  Inputs'
  BY <1>1, <1>7, <1>8, WorkerMoves
<1> QED
  BY <1>2, <1>3, <1>4, <1>5, <1>6, <1>7, <1>8 DEF Next, MainStep, vars

LEMMA ForkedStep == IInv /\ [Next]_vars => Forked'
<1> SUFFICES ASSUME IInv, [Next]_vars PROVE Forked'
  OBVIOUS
<1>1. Shape /\ Forked
  BY DEF IInv
<1>2. /\ next \in Nat /\ options.workers \in Nat /\ Worker \subseteq Nat
      /\ \A w \in 1..options.workers : w \in Worker
  BY <1>1, WorkerNumbers DEF Worker
<1>3. CASE ReadArgs
  BY <1>1, <1>3 DEF ReadArgs, Forked, workerVars
<1>4. CASE ReadConfig
  <2>1. main' = "fork" /\ next' = 1 /\ \A w \in Worker : worker'[w] = "none"
    BY <1>1, <1>4 DEF ReadConfig, Forked, workerVars
  <2>2. \A w \in Worker : w >= 1
    BY DEF Worker
  <2> QED
    BY <2>1, <2>2 DEF Forked
<1>5. CASE Fork
  <2>1. main' = "close" /\ next' = next /\ options' = options /\ next <= options.workers
    BY <1>5 DEF Fork
  <2>2. ASSUME NEW w \in Worker PROVE worker'[w] = "none" <=> w > next
    <3>1. worker[w] = "none" <=> w >= next
      BY <1>1, <1>5 DEF Fork, Forked
    <3>2. worker'[w] = IF w = next THEN "starting" ELSE worker[w]
      BY <1>1, <1>5 DEF Fork, Shape
    <3>3. w \in Nat
      BY <1>2
    <3> QED
      BY <1>2, <3>1, <3>2, <3>3
  <2> QED
    BY <2>1, <2>2 DEF Forked
<1>6. CASE CloseWriteEnd
  <2>1. main' = "fork" /\ next' = next + 1
    BY <1>6 DEF CloseWriteEnd
  <2>2. ASSUME NEW w \in Worker PROVE worker'[w] = "none" <=> w >= next + 1
    <3>1. worker'[w] = "none" <=> w > next
      BY <1>1, <1>6 DEF CloseWriteEnd, Forked, workerVars
    <3> QED
      BY <1>2, <3>1
  <2> QED
    BY <2>1, <2>2 DEF Forked
<1>7. CASE AllForked
  <2>1. main' = "read" /\ options' = options
    BY <1>7 DEF AllForked
  <2>2. ASSUME NEW w \in 1..options.workers PROVE worker'[w] # "none"
    <3>1. worker[w] = "none" <=> w >= next
      BY <1>1, <1>2, <1>7 DEF AllForked, Forked
    <3>2. worker'[w] = worker[w] /\ next > options.workers
      BY <1>7 DEF AllForked, workerVars
    <3> QED
      BY <1>2, <3>1, <3>2
  <2> QED
    BY <2>1, <2>2 DEF Forked
<1>8. CASE ReadStats
  BY <1>1, <1>8 DEF ReadStats, Forked, workerVars
<1>9. CASE WaitFor
  BY <1>1, <1>9 DEF WaitFor, Forked, workerVars
<1>10. CASE RefuseArgs \/ ShowHelp \/ RefuseConfig \/ ForkFails \/ Report
  BY <1>10 DEF RefuseArgs, ShowHelp, RefuseConfig, ForkFails, Report, Leave, Forked
<1>11. ASSUME NEW w \in Worker, WorkerStep(w) \/ Die(w)
       PROVE  Forked'
  <2>1. main' = main /\ next' = next /\ options' = options
    BY <1>1, <1>11, WorkerMoves DEF mainVars
  <2>2. \A v \in Worker : worker'[v] = "none" <=> worker[v] = "none"
    BY <1>1, <1>11, WorkerMoves
  <2> QED
    BY <1>1, <1>2, <2>1, <2>2 DEF Forked
<1>12. CASE UNCHANGED vars
  BY <1>1, <1>12 DEF vars, mainVars, workerVars, Forked
<1> QED
  BY <1>3, <1>4, <1>5, <1>6, <1>7, <1>8, <1>9, <1>10, <1>11, <1>12 DEF Next, MainStep

LEMMA PipesStep == IInv /\ [Next]_vars => Pipes'
<1> SUFFICES ASSUME IInv, [Next]_vars PROVE Pipes'
  OBVIOUS
<1>1. Shape /\ Forked /\ Pipes
  BY DEF IInv
<1> DEFINE Holds(w) ==
      /\ worker[w] \in {"starting", "running", "writing", "written"} => w \in writers[w]
      /\ worker[w] \in {"written", "exited"} => pipe[w]
<1>2. \A w \in Worker : Holds(w)
  BY <1>1 DEF Pipes
<1>3. Main \notin Worker
  BY <1>1, WorkerNumbers
<1>4. CASE Fork
  <2>1. main' = "close" /\ pipe' = pipe
    BY <1>4 DEF Fork
  <2>2. ASSUME NEW w \in Worker PROVE Holds(w)'
    <3>1. /\ worker'[w] = IF w = next THEN "starting" ELSE worker[w]
          /\ writers'[w] = IF w = next THEN {Main, next}
                           ELSE IF Main \in writers[w] THEN writers[w] \cup {next} ELSE writers[w]
      BY <1>1, <1>4 DEF Fork, Shape
    <3> QED
      BY <1>2, <2>1, <3>1
  <2> QED
    BY <2>1, <2>2 DEF Pipes
<1>5. CASE RefuseArgs \/ ShowHelp \/ RefuseConfig \/ ForkFails \/ Report
  <2>1. /\ main' = "ended" /\ worker' = worker /\ pipe' = pipe
        /\ \A w \in Worker : writers'[w] = writers[w] \ {Main}
    BY <1>5 DEF RefuseArgs, ShowHelp, RefuseConfig, ForkFails, Report, Leave, workerVars
  <2>2. \A w \in Worker : Holds(w)'
    BY <1>2, <1>3, <2>1
  <2> QED
    BY <2>1, <2>2 DEF Pipes
<1>6. CASE CloseWriteEnd
  <2>1. main' = "fork" /\ worker' = worker /\ pipe' = pipe
    BY <1>6 DEF CloseWriteEnd, workerVars
  <2>2. \A w \in Worker : w \in writers[w] => w \in writers'[w]
    BY <1>1, <1>3, <1>6 DEF CloseWriteEnd, Shape
  <2>3. \A w \in Worker : Holds(w)'
    BY <1>2, <2>1, <2>2
  <2> QED
    BY <2>1, <2>3 DEF Pipes
<1>7. CASE ReadArgs \/ ReadConfig \/ AllForked \/ WaitFor
  <2>1. main' # "wait" /\ worker' = worker /\ pipe' = pipe /\ writers' = writers
    BY <1>7 DEF ReadArgs, ReadConfig, AllForked, WaitFor, workerVars
  <2> QED
    BY <1>2, <2>1 DEF Pipes
<1>8. CASE ReadStats
  <2>1. /\ worker' = worker /\ pipe' = pipe /\ writers' = writers /\ next' = next
        /\ got' = pipe[next] /\ next <= options.workers
        /\ pipe[next] \/ writers[next] = {}
        /\ main = "read"
    BY <1>8 DEF ReadStats, workerVars
  <2>2. next \in Worker /\ worker[next] # "none"
    BY <1>1, <2>1, WorkerNumbers DEF Forked, Shape
  <2>3. got' \/ worker[next] = "killed"
    <3>1. CASE writers[next] = {} /\ ~pipe[next]
      BY <1>1, <1>2, <2>2, <3>1 DEF Shape, Places
    <3>2. CASE pipe[next]
      BY <2>1, <3>2
    <3> QED
      BY <2>1, <3>1, <3>2
  <2> QED
    BY <1>2, <2>1, <2>3 DEF Pipes
<1>9. ASSUME NEW w \in Worker, WorkerStep(w) \/ Die(w)
      PROVE  Pipes'
  <2>1. /\ main' = main /\ got' = got /\ next' = next
        /\ worker[w] \in {"starting", "running", "writing", "written"}
        /\ \A v \in Worker \ {w} : /\ worker'[v] = worker[v]
                                   /\ pipe'[v] = pipe[v]
                                   /\ v \in writers[v] => v \in writers'[v]
    BY <1>1, <1>9, WorkerMoves DEF mainVars
  <2>2. \A v \in Worker \ {w} : Holds(v)'
    BY <1>2, <2>1
  <2>3. Holds(w)'
    BY <1>1, <1>2, <1>9 DEF WorkerStep, StartFails, Start, Call, Finish, Write, Exit, Die, At, Shape
  <2>4. main = "wait" => next \in Worker
    BY <1>1, WorkerNumbers DEF Forked, Shape
  <2>5. main' = "wait" => got' \/ worker'[next'] = "killed"
    <3>1. main = "wait" => got \/ worker[next] = "killed"
      BY <1>1 DEF Pipes
    <3>2. worker[w] # "killed"
      BY <2>1
    <3> QED
      BY <2>1, <2>4, <3>1, <3>2
  <2>6. \A v \in Worker : Holds(v)'
    BY <2>2, <2>3
  <2> QED
    BY <2>5, <2>6 DEF Pipes
<1>10. CASE UNCHANGED vars
  BY <1>1, <1>10 DEF vars, mainVars, workerVars, Pipes
<1> QED
  BY <1>4, <1>5, <1>6, <1>7, <1>8, <1>9, <1>10 DEF Next, MainStep

LEMMA OwnStep == IInv /\ [Next]_vars => \A w \in Worker : Own(w)'
<1> SUFFICES ASSUME IInv, [Next]_vars PROVE \A w \in Worker : Own(w)'
  OBVIOUS
<1>1. Shape /\ Forked /\ \A w \in Worker : Own(w)
  BY DEF IInv
<1>2. CASE ReadConfig
  <2>1. worker' = worker /\ stats' = stats /\ calls' = calls /\ \A w \in Worker : worker[w] = "none"
    BY <1>1, <1>2 DEF ReadConfig, Forked, workerVars
  <2> QED
    BY <1>1, <2>1 DEF Own
<1>3. CASE Fork
  <2>1. stats' = stats /\ calls' = calls /\ expected' = expected
    BY <1>3 DEF Fork
  <2>2. ASSUME NEW w \in Worker
        PROVE  \/ worker'[w] = worker[w]
               \/ worker[w] = "none" /\ worker'[w] = "starting"
    <3>1. worker[w] = "none" <=> w >= next
      BY <1>1, <1>3 DEF Fork, Forked
    <3>2. worker'[w] = IF w = next THEN "starting" ELSE worker[w]
      BY <1>1, <1>3 DEF Fork, Shape
    <3>3. next \in Nat
      BY <1>1, WorkerNumbers
    <3>4. w \in Nat
      BY DEF Worker
    <3>5. CASE w = next
      <4>1. w >= next
        BY <3>3, <3>4, <3>5
      <4> QED
        BY <3>1, <3>2, <3>5, <4>1
    <3>6. CASE w # next
      BY <3>2, <3>6
    <3> QED
      BY <3>5, <3>6
  <2> QED
    BY <1>1, <2>1, <2>2 DEF Own
<1>4. CASE UNCHANGED <<workerVars, expected>>
  BY <1>1, <1>4 DEF workerVars, Own
<1>5. CASE \/ ReadArgs \/ RefuseArgs \/ ShowHelp \/ RefuseConfig \/ CloseWriteEnd \/ ForkFails
           \/ AllForked \/ ReadStats \/ WaitFor \/ Report
  <2>1. UNCHANGED <<workerVars, expected>>
    BY <1>5 DEF ReadArgs, RefuseArgs, ShowHelp, RefuseConfig, CloseWriteEnd, ForkFails,
                AllForked, ReadStats, WaitFor, Report
  <2> QED
    BY <1>4, <2>1
<1>6. ASSUME NEW w \in Worker, WorkerStep(w) \/ Die(w)
      PROVE  \A v \in Worker : Own(v)'
  <2>1. expected' = expected
    BY <1>1, <1>6, WorkerMoves
  <2>2. ASSUME NEW v \in Worker \ {w} PROVE Own(v)'
    <3>1. worker'[v] = worker[v] /\ stats'[v] = stats[v] /\ calls'[v] = calls[v]
      BY <1>1, <1>6, WorkerMoves
    <3> QED
      BY <1>1, <2>1, <3>1 DEF Own
  <2>3. Own(w) /\ stats[w] \in Counts /\ calls[w] \in Seq(Outcome)
    BY <1>1 DEF Shape
  <2>4. ASSUME StartFails(w) PROVE Own(w)'
    <3>1. /\ worker'[w] = "writing" /\ calls'[w] = <<>>
          /\ stats'[w] = [NoStats EXCEPT !.fail = @ + 1]
      BY <1>1, <2>3, <2>4 DEF StartFails, At, Own, Shape
    <3>2. stats'[w] = OneFailure
      BY <3>1 DEF OneFailure, NoStats
    <3>3. OneFailure.ok + OneFailure.fail <= MaxCalls
      BY MaxAssumption DEF OneFailure, NoStats
    <3> QED
      BY <3>1, <3>2, <3>3 DEF Own
  <2>5. ASSUME Start(w) PROVE Own(w)'
    <3>1. /\ worker'[w] = "running" /\ calls'[w] = <<>> /\ stats'[w] = NoStats
          /\ stats[w] = NoStats
      BY <1>1, <2>3, <2>5 DEF Start, At, Own, Shape
    <3>2. StatsOf(NoStats, <<>>, expected)
      BY NoCalls
    <3> QED
      BY <2>1, <2>3, <3>1, <3>2 DEF Own
  <2>6. ASSUME Call(w) PROVE Own(w)'
    <3>1. /\ worker[w] = "running" /\ worker' = worker
          /\ Len(calls[w]) < IF options.duration <= 0 THEN 1 ELSE MaxCalls
      BY <2>6 DEF Call, At
    <3>2. PICK o \in Outcome, ms \in Nat :
            /\ o.videos = expected => o.ms = ms
            /\ stats' = [stats EXCEPT ![w] = RecordRpc(stats[w], o.videos = expected, ms)]
            /\ calls' = [calls EXCEPT ![w] = Append(calls[w], o)]
      BY <1>1, <2>6, CallAdds
    <3>3. /\ stats'[w] = RecordRpc(stats[w], o.videos = expected, ms)
          /\ calls'[w] = Append(calls[w], o)
      BY <1>1, <3>2 DEF Shape
    <3>4. StatsOf(stats'[w], calls'[w], expected)
      BY <2>3, <3>1, <3>2, <3>3, OneCall DEF Own
    <3>5. Len(calls'[w]) = Len(calls[w]) + 1 /\ Len(calls[w]) \in Nat
      BY <2>3, <3>3, Appended, LenProperties
    <3>6. stats'[w].ok + stats'[w].fail <= MaxCalls
      <4>1. Len(calls'[w]) <= MaxCalls
        BY <3>1, <3>5, MaxAssumption
      <4> QED
        BY <3>4, <4>1 DEF StatsOf
    <3> QED
      BY <2>1, <3>1, <3>4, <3>6 DEF Own
  <2>7. ASSUME Finish(w) \/ Write(w) \/ Exit(w) PROVE Own(w)'
    <3>1. /\ worker[w] \in {"running", "writing", "written"}
          /\ worker'[w] \in {"writing", "written", "exited"}
          /\ stats' = stats /\ calls' = calls
      BY <1>1, <2>7 DEF Finish, Write, Exit, At, Shape
    <3> QED
      BY <2>1, <2>3, <3>1 DEF Own
  <2>8. ASSUME Die(w) PROVE Own(w)'
    <3>1. worker'[w] = "killed" /\ (stats'[w] = stats[w] \/ stats'[w] = NoStats)
      BY <1>1, <2>8 DEF Die, Shape
    <3>2. NoStats.ok + NoStats.fail <= MaxCalls
      BY MaxAssumption DEF NoStats
    <3> QED
      BY <2>3, <3>1, <3>2 DEF Own
  <2>9. Own(w)'
    BY <1>6, <2>4, <2>5, <2>6, <2>7, <2>8 DEF WorkerStep
  <2> QED
    BY <2>2, <2>9
<1> QED
  BY <1>2, <1>3, <1>4, <1>5, <1>6 DEF Next, MainStep, vars

\* What the statistics of a worker that exited say of its calls.
LEMMA ExitedStats ==
  ASSUME Shape, NEW w \in Worker, Own(w), worker[w] = "exited"
  PROVE  /\ stats[w] \in Counts /\ calls[w] \in Seq(Outcome) /\ TimesOf(w) \in SUBSET Nat
         /\ stats[w].ok = Cardinality(Successful(calls[w], expected))
         /\ stats[w].ok + stats[w].fail =
              IF calls[w] = <<>> THEN stats[w].fail ELSE Len(calls[w])
         /\ stats[w].fail = 0 => Successful(calls[w], expected) = DOMAIN calls[w]
         /\ Extremes(stats[w], TimesOf(w))
<1>1. stats[w] \in Counts /\ calls[w] \in Seq(Outcome)
  BY DEF Shape
<1>2. TimesOf(w) = TimesIn(calls[w], expected) /\ TimesOf(w) \in SUBSET Nat
  BY <1>1, CallsTyped DEF TimesOf, TimesIn, Successful
<1>3. stats[w].ok \in Nat /\ stats[w].fail \in Nat
  BY <1>1 DEF Counts
<1>4. Cardinality({}) = 0
  BY FS_EmptySet
<1>5. CASE StatsOf(stats[w], calls[w], expected)
  <2>1. calls[w] = <<>> => stats[w].ok = 0
    BY <1>4, <1>5, NoCalls DEF StatsOf
  <2> QED
    BY <1>1, <1>2, <1>3, <1>5, <2>1 DEF StatsOf
<1>6. CASE calls[w] = <<>> /\ stats[w] = OneFailure
  <2>1. stats[w].ok = 0 /\ stats[w].fail = 1 /\ stats[w].min = 0 /\ stats[w].max = 0
    BY <1>6 DEF OneFailure, NoStats
  <2>2. Successful(calls[w], expected) = {} /\ TimesOf(w) = {}
    BY <1>2, <1>6, NoCalls
  <2>3. Extremes(stats[w], TimesOf(w))
    BY <2>1, <2>2 DEF Extremes
  <2> QED
    <3>1. stats[w].ok + stats[w].fail = stats[w].fail /\ stats[w].fail # 0
      BY <2>1
    <3>2. calls[w] = <<>>
      BY <1>6
    <3>3. stats[w].ok = Cardinality(Successful(calls[w], expected))
      BY <1>4, <2>1, <2>2
    <3> QED
      BY <1>1, <1>2, <2>3, <3>1, <3>2, <3>3
<1> QED
  BY <1>5, <1>6 DEF Own

LEMMA CollectedTyped ==
  ASSUME Shape
  PROVE  /\ Collected \subseteq Worker /\ Counted \subseteq Worker
         /\ IsFiniteSet(Collected) /\ IsFiniteSet(Counted)
         /\ Cardinality(Collected) \in Nat /\ Cardinality(Counted) \in Nat
         /\ Cardinality(Collected) <= MaxWorkers
         /\ OkCalls \in [Worker -> Nat] /\ AllCalls \in [Worker -> Nat]
<1>1. Collected \subseteq Worker /\ Counted \subseteq Collected
  BY MaxAssumption DEF Collected, Counted, Shape, Worker
<1>2. IsFiniteSet(Worker) /\ Cardinality(Worker) = MaxWorkers
  BY MaxAssumption, FS_Interval DEF Worker
<1>3. /\ IsFiniteSet(Collected) /\ Cardinality(Collected) <= MaxWorkers
      /\ Cardinality(Collected) \in Nat
  BY <1>1, <1>2, FS_Subset, FS_CardinalityType
<1>4. IsFiniteSet(Counted) /\ Cardinality(Counted) \in Nat
  BY <1>1, <1>3, FS_Subset, FS_CardinalityType
<1>5. \A w \in Worker : stats[w].ok \in Nat /\ stats[w].ok + stats[w].fail \in Nat
  BY DEF Shape, Counts
<1> QED
  BY <1>1, <1>3, <1>4, <1>5 DEF OkCalls, AllCalls

\* A step that neither collects a worker nor touches one collected.
LEMMA MergedKept ==
  ASSUME Shape, Merged,
         Collected' = Collected, crashed' = crashed, total' = total,
         \A w \in Collected : /\ worker'[w] = worker[w] /\ stats'[w] = stats[w]
                              /\ calls'[w] = calls[w] /\ expected' = expected,
         Reported' /\ exit' = 0 => crashed = 0 /\ total.fail = 0
  PROVE  Merged'
<1>1. Counted' = Counted /\ Counted \subseteq Collected
  BY DEF Counted
<1>2. OkCalls' = OkCalls /\ AllCalls' = AllCalls
  BY <1>1 DEF OkCalls, AllCalls
<1>3. CountedTimes' = CountedTimes
  <2>1. ASSUME NEW w \in Counted PROVE TimesOf(w)' = TimesOf(w)
    <3>1. calls'[w] = calls[w] /\ expected' = expected
      BY <1>1
    <3> QED
      BY <3>1 DEF TimesOf
  <2> QED
    BY <1>1, <2>1 DEF CountedTimes
<1> QED
  BY <1>1, <1>2, <1>3 DEF Merged

\* One more worker is merged, or found crashed.
LEMMA MergedByWait == IInv /\ WaitFor => Merged'
<1> SUFFICES ASSUME IInv, WaitFor PROVE Merged'
  OBVIOUS
<1>1. Shape /\ Forked /\ Pipes /\ Merged /\ \A w \in Worker : Own(w)
  BY DEF IInv
<1>2. /\ main = "wait" /\ main' = "read" /\ next' = next + 1
      /\ worker[next] \in {"exited", "killed"} /\ next <= options.workers
      /\ worker' = worker /\ stats' = stats /\ calls' = calls /\ expected' = expected
  BY <1>1 DEF WaitFor, Forked, workerVars
<1>3. next \in Worker /\ next \in Nat
  BY <1>1, <1>2, WorkerNumbers DEF Shape
<1>4. /\ Collected = 1..next - 1 /\ Collected' = Collected \cup {next} /\ next \notin Collected
      /\ ~Reported'
  <2>1. Collected = 1..next - 1 /\ Collected' = 1..(next + 1) - 1
    BY <1>2 DEF Collected
  <2>2. 1..(next + 1) - 1 = (1..next - 1) \cup {next} /\ next \notin 1..next - 1
    BY <1>3 DEF Worker
  <2> QED
    BY <1>2, <2>1, <2>2 DEF Reported
<1>5. /\ IsFiniteSet(Collected) /\ IsFiniteSet(Counted)
      /\ Cardinality(Collected) \in Nat /\ Cardinality(Counted) \in Nat
      /\ OkCalls \in [Worker -> Nat] /\ AllCalls \in [Worker -> Nat]
      /\ Counted \subseteq Collected /\ Collected \subseteq Worker
  BY <1>1, CollectedTyped DEF Counted
<1>6. Cardinality(Collected') = Cardinality(Collected) + 1
  BY <1>4, <1>5, FS_AddElement
<1>7. crashed \in Nat /\ total \in Counts
  BY <1>1 DEF Shape
<1>8. \A w \in Collected' : worker'[w] \in {"exited", "killed"}
  BY <1>1, <1>2, <1>4 DEF Merged
<1>9. ASSUME NEW w \in Worker PROVE TimesOf(w)' = TimesOf(w)
  BY <1>2 DEF TimesOf
<1>10. CASE worker[next] = "exited"
  <2>1. total' = Merge(total, stats[next]) /\ crashed' = crashed
    BY <1>1, <1>2, <1>10 DEF WaitFor, Pipes
  <2>2. Counted' = Counted \cup {next} /\ next \notin Counted
    BY <1>2, <1>4, <1>10 DEF Counted
  <2>3. Cardinality(Counted') = Cardinality(Counted) + 1
    BY <1>5, <2>2, FS_AddElement
  <2>4. /\ stats[next] \in Counts /\ TimesOf(next) \in SUBSET Nat
        /\ Extremes(stats[next], TimesOf(next))
    BY <1>1, <1>3, <1>10, ExitedStats
  <2>5. stats[next].ok \in Nat /\ stats[next].fail \in Nat /\ total.ok \in Nat /\ total.fail \in Nat
    BY <1>7, <2>4 DEF Counts
  <2>6. total'.ok = total.ok + stats[next].ok /\ total'.fail = total.fail + stats[next].fail
    BY <2>1 DEF Merge
  <2>7. SumOf(OkCalls') = SumOf(OkCalls) + stats[next].ok
    <3>1. OkCalls' \in [Worker -> Nat]
      BY <1>2, <1>5, <2>2, <2>5 DEF OkCalls
    <3>2. OkCalls[next] = 0 /\ OkCalls'[next] = stats[next].ok
      BY <1>2, <1>3, <2>2 DEF OkCalls
    <3>3. \A w \in Worker \ {next} : OkCalls'[w] = OkCalls[w]
      BY <1>2, <2>2 DEF OkCalls
    <3> QED
      BY <1>3, <1>5, <2>5, <3>1, <3>2, <3>3, SumGrows
  <2>8. SumOf(AllCalls') = SumOf(AllCalls) + (stats[next].ok + stats[next].fail)
    <3>1. AllCalls' \in [Worker -> Nat]
      BY <1>2, <1>5, <2>2, <2>5 DEF AllCalls
    <3>2. AllCalls[next] = 0 /\ AllCalls'[next] = stats[next].ok + stats[next].fail
      BY <1>2, <1>3, <2>2 DEF AllCalls
    <3>3. \A w \in Worker \ {next} : AllCalls'[w] = AllCalls[w]
      BY <1>2, <2>2 DEF AllCalls
    <3>4. stats[next].ok + stats[next].fail \in Nat
      BY <2>5
    <3> QED
      BY <1>3, <1>5, <3>1, <3>2, <3>3, <3>4, SumGrows
  <2>9. Extremes(total', CountedTimes')
    <3>1. CountedTimes' = CountedTimes \cup TimesOf(next)
      BY <1>3, <1>5, <1>9, <2>2 DEF CountedTimes
    <3>2. CountedTimes \in SUBSET Nat
      <4>1. \A w \in Counted : TimesOf(w) \in SUBSET Nat
        BY <1>1, <1>5, ExitedStats DEF Counted
      <4> QED
        BY <4>1 DEF CountedTimes
    <3>3. Extremes(total, CountedTimes)
      BY <1>1 DEF Merged
    <3> QED
      BY <1>7, <2>1, <2>4, <3>1, <3>2, <3>3, MergedExtremes
  <2>10. crashed' + Cardinality(Counted') = Cardinality(Collected')
    BY <1>1, <1>5, <1>6, <1>7, <2>1, <2>3 DEF Merged
  <2>11. crashed' = 0 => Counted' = Collected'
    BY <1>1, <1>4, <2>1, <2>2 DEF Merged
  <2>12. total'.ok = SumOf(OkCalls') /\ total'.ok + total'.fail = SumOf(AllCalls')
    <3>1. total.ok = SumOf(OkCalls) /\ total.ok + total.fail = SumOf(AllCalls)
      BY <1>1 DEF Merged
    <3>2. total'.ok + total'.fail = (total.ok + total.fail) + (stats[next].ok + stats[next].fail)
      BY <2>5, <2>6
    <3> QED
      BY <2>6, <2>7, <2>8, <3>1, <3>2
  <2>13. total'.fail = 0 => \A w \in Counted' : stats'[w].fail = 0
    <3>1. total'.fail = 0 => total.fail = 0 /\ stats[next].fail = 0
      BY <2>5, <2>6
    <3>2. total.fail = 0 => \A w \in Counted : stats[w].fail = 0
      BY <1>1 DEF Merged
    <3> QED
      BY <1>2, <2>2, <3>1, <3>2
  <2> QED
    BY <1>4, <1>8, <2>9, <2>10, <2>11, <2>12, <2>13 DEF Merged
<1>11. CASE worker[next] = "killed"
  <2>1. total' = total /\ crashed' = crashed + 1
    BY <1>11 DEF WaitFor
  <2>2. Counted' = Counted
    BY <1>2, <1>4, <1>11 DEF Counted
  <2>3. OkCalls' = OkCalls /\ AllCalls' = AllCalls
    BY <1>2, <2>2 DEF OkCalls, AllCalls
  <2>4. CountedTimes' = CountedTimes
    BY <1>5, <1>9, <2>2 DEF CountedTimes
  <2>5. crashed' + Cardinality(Counted') = Cardinality(Collected')
    BY <1>1, <1>5, <1>6, <1>7, <2>1, <2>2 DEF Merged
  <2>6. crashed' # 0
    BY <1>7, <2>1
  <2> QED
    BY <1>1, <1>2, <1>4, <1>8, <2>1, <2>2, <2>3, <2>4, <2>5, <2>6 DEF Merged
<1> QED
  BY <1>2, <1>10, <1>11

LEMMA MergedStep == IInv /\ [Next]_vars => Merged'
<1> SUFFICES ASSUME IInv, [Next]_vars PROVE Merged'
  OBVIOUS
<1>1. Shape /\ Forked /\ Merged
  BY DEF IInv
<1>2. /\ next \in Nat /\ options.workers \in Nat /\ options.workers >= 1
  BY <1>1, WorkerNumbers DEF Shape
<1>3. CASE ReadArgs \/ ReadConfig \/ Fork \/ CloseWriteEnd \/ AllForked
  <2>1. /\ main \in {"args", "config", "fork", "close"}
        /\ main' \in {"config", "fork", "close", "read"}
        /\ main' = "read" => next' = 1
        /\ crashed' = crashed /\ total' = total
    BY <1>3 DEF ReadArgs, ReadConfig, Fork, CloseWriteEnd, AllForked
  <2>2. Collected = {} /\ Collected' = {} /\ ~Reported'
    BY <2>1 DEF Collected, Reported
  <2> QED
    BY <1>1, <2>1, <2>2, MergedKept
<1>4. CASE RefuseArgs \/ ShowHelp \/ RefuseConfig \/ ForkFails
  <2>1. /\ main \in {"args", "config", "fork"} /\ main' = "ended"
        /\ next' = next /\ options' = options /\ next <= options.workers
        /\ crashed' = crashed /\ total' = total
    BY <1>1, <1>2, <1>4 DEF RefuseArgs, ShowHelp, RefuseConfig, ForkFails, Leave, Forked
  <2>2. ~Reported'
    BY <1>2, <2>1 DEF Reported
  <2>3. Collected = {} /\ Collected' = {}
    BY <2>1, <2>2 DEF Collected, Reported
  <2> QED
    BY <1>1, <2>1, <2>2, <2>3, MergedKept
<1>5. CASE ReadStats
  <2>1. /\ main = "read" /\ main' = "wait" /\ next' = next /\ crashed' = crashed /\ total' = total
        /\ worker' = worker /\ stats' = stats /\ calls' = calls /\ expected' = expected
    BY <1>5 DEF ReadStats, workerVars
  <2>2. Collected' = Collected /\ ~Reported'
    BY <2>1 DEF Collected, Reported
  <2> QED
    BY <1>1, <2>1, <2>2, MergedKept
<1>6. CASE WaitFor
  BY <1>6, MergedByWait
<1>7. CASE Report
  <2>1. /\ main = "read" /\ main' = "ended" /\ next' = next /\ crashed' = crashed /\ total' = total
        /\ options' = options /\ next > options.workers
        /\ worker' = worker /\ stats' = stats /\ calls' = calls /\ expected' = expected
        /\ exit' = IF crashed > 0 \/ total.fail > 0 THEN 1 ELSE 0
    BY <1>7 DEF Report, Leave, workerVars
  <2>2. Collected' = Collected
    BY <2>1 DEF Collected, Reported
  <2>3. crashed \in Nat /\ total.fail \in Nat
    BY <1>1 DEF Shape, Counts
  <2>4. exit' = 0 => crashed = 0 /\ total.fail = 0
    BY <2>1, <2>3
  <2> QED
    BY <1>1, <2>1, <2>2, <2>4, MergedKept
<1>8. ASSUME NEW w \in Worker, WorkerStep(w) \/ Die(w)
      PROVE  Merged'
  <2>1. /\ main # "ended" /\ worker[w] \notin {"exited", "killed"}
        /\ UNCHANGED <<mainVars, options, expected>>
        /\ \A v \in Worker \ {w} : /\ worker'[v] = worker[v]
                                   /\ stats'[v] = stats[v]
                                   /\ calls'[v] = calls[v]
    BY <1>1, <1>8, WorkerMoves
  <2>2. Collected' = Collected /\ ~Reported'
    BY <2>1 DEF Collected, Reported, mainVars
  <2>3. Collected \subseteq Worker \ {w}
    BY <1>1, <2>1, CollectedTyped DEF Merged
  <2>4. crashed' = crashed /\ total' = total
    BY <2>1 DEF mainVars
  <2> QED
    BY <1>1, <2>1, <2>2, <2>3, <2>4, MergedKept
<1>9. CASE UNCHANGED vars
  <2>1. UNCHANGED <<main, next, crashed, exit, total, options, worker, stats, calls, expected>>
    BY <1>9 DEF vars, mainVars, workerVars
  <2>2. Collected' = Collected /\ (Reported' <=> Reported)
    BY <2>1 DEF Collected, Reported
  <2>3. Reported' /\ exit' = 0 => crashed = 0 /\ total.fail = 0
    BY <1>1, <2>1, <2>2 DEF Merged
  <2> QED
    BY <1>1, <2>1, <2>2, <2>3, MergedKept
<1> QED
  BY <1>3, <1>4, <1>5, <1>6, <1>7, <1>8, <1>9 DEF Next, MainStep

LEMMA NextInv == IInv /\ [Next]_vars => IInv'
BY ShapeStep, InputsStep, ForkedStep, PipesStep, OwnStep, MergedStep DEF IInv

LEMMA Invariance == Spec => []IInv
BY InitInv, NextInv, PTL DEF Spec

-----------------------------------------------------------------------------
(* Theorems *)

\* Options, statistics and counters keep their types and bounds.
THEOREM TypeCorrect == Spec => []TypeOK
<1>1. IInv => TypeOK
  <2> SUFFICES ASSUME IInv PROVE TypeOK
    OBVIOUS
  <2>1. Shape /\ Merged /\ \A w \in Worker : Own(w)
    BY DEF IInv
  <2>2. DOMAIN options = Option /\ \A o \in DOMAIN options : options[o] \in Int32
    BY <2>1 DEF Shape, Opts
  <2>3. next \in 1..MaxWorkers + 1
    BY <2>1, MaxAssumption DEF Shape
  <2>4. crashed \in 0..MaxWorkers
    <3>1. crashed + Cardinality(Counted) = Cardinality(Collected) /\ crashed \in Nat
      BY <2>1 DEF Merged, Shape
    <3> QED
      BY <2>1, <3>1, CollectedTyped, MaxAssumption
  <2>5. ASSUME NEW w \in Worker
        PROVE  DOMAIN stats[w] = DOMAIN NoStats /\ stats[w].ok + stats[w].fail <= MaxCalls
    <3>1. stats[w] \in Counts
      BY <2>1 DEF Shape
    <3>2. DOMAIN stats[w] = DOMAIN NoStats
      BY <3>1 DEF Counts, NoStats
    <3> QED
      BY <2>1, <3>2 DEF Own
  <2> QED
    BY <2>1, <2>2, <2>3, <2>4, <2>5 DEF TypeOK, Shape, Places
<1> QED
  BY <1>1, Invariance, PTL

\* ParseArgs (load_options.cpp:45-114): an option has the number that was typed last
\* for it, if that fits an int, or its default, for any command line; whatever was
\* typed there is a worker, no batch is empty, and the sleeps are a range.
THEOREM OptionsTyped == Spec => []OptionsAsTyped
<1>1. IInv => OptionsAsTyped
  BY DEF IInv, Inputs
<1> QED
  BY <1>1, Invariance, PTL

\* LoadFromFile and ExpectedVideoCount: the number of videos is that of the last
\* line that sets it, for any file.
THEOREM ExpectedWritten == Spec => []ExpectedAsWritten
<1>1. IInv => ExpectedAsWritten
  BY DEF IInv, Inputs
<1> QED
  BY <1>1, Invariance, PTL

\* When main has reported, what it has merged are the workers that exited.
LEMMA ReportedAll ==
  ASSUME IInv, Reported
  PROVE  Collected = 1..options.workers /\ Whole = Counted
<1>1. Shape
  BY DEF IInv
<1>2. next = options.workers + 1
  BY <1>1, WorkerNumbers DEF Reported, Shape
<1>3. Collected = 1..options.workers
  <2>1. next - 1 = options.workers
    BY <1>1, <1>2, WorkerNumbers
  <2>2. Collected = 1..next - 1
    BY DEF Collected
  <2> QED
    BY <2>1, <2>2
<1>4. \A w \in Worker : w <= options.workers <=> w \in 1..options.workers
  BY <1>1, WorkerNumbers DEF Worker
<1> QED
  BY <1>1, <1>3, <1>4, WorkerNumbers DEF Whole, Counted

\* Every worker is in the report once, with all it did or as crashed, whenever it
\* was killed (main.cpp of the load test reads, waits and merges in order).
THEOREM Accounted == Spec => []ReportAccounts
<1>1. IInv => ReportAccounts
  <2> SUFFICES ASSUME IInv, Reported
               PROVE  /\ crashed = options.workers - Cardinality(Whole)
                      /\ total.ok + total.fail =
                           OfWhole([w \in Worker |->
                             IF calls[w] = <<>> THEN stats[w].fail ELSE Len(calls[w])])
    BY DEF ReportAccounts
  <2>1. Shape /\ Merged /\ (\A w \in Worker : Own(w)) /\ crashed \in Nat
    BY DEF IInv, Shape
  <2>2. Collected = 1..options.workers /\ Whole = Counted
    BY ReportedAll
  <2>3. Cardinality(Collected) = options.workers
    <3>1. options.workers \in Nat /\ options.workers >= 1
      BY <2>1, WorkerNumbers DEF Shape
    <3>2. Cardinality(1..options.workers) = options.workers - 1 + 1
      BY <3>1, FS_Interval
    <3> QED
      BY <2>2, <3>1, <3>2
  <2>4. crashed = options.workers - Cardinality(Whole)
    BY <2>1, <2>2, <2>3, CollectedTyped, WorkerNumbers DEF Merged
  <2> DEFINE f == [w \in Worker |-> IF calls[w] = <<>> THEN stats[w].fail ELSE Len(calls[w])]
  <2>5. [w \in Worker |-> IF w \in Whole THEN f[w] ELSE 0] = AllCalls
    <3>1. \A w \in Counted : f[w] = stats[w].ok + stats[w].fail
      BY <2>1, CollectedTyped, ExitedStats DEF Counted
    <3> HIDE DEF f
    <3> QED
      BY <2>2, <3>1 DEF AllCalls
  <2>6. OfWhole(f) = SumOf(AllCalls)
    <3> HIDE DEF f
    <3> QED
      BY <2>5 DEF OfWhole
  <2> QED
    BY <2>1, <2>4, <2>6 DEF Merged
<1> QED
  BY <1>1, Invariance, PTL

\* A success of the report is a call that was answered with the expected videos,
\* unless none are expected (worker.cpp:93).
THEOREM SuccessesAnswered == Spec => []SuccessesWereAnswered
<1>1. IInv => SuccessesWereAnswered
  <2> SUFFICES ASSUME IInv, Reported, expected > 0
               PROVE  total.ok = OfWhole([w \in Worker |-> Cardinality(GoodCalls(w))])
    BY DEF SuccessesWereAnswered
  <2>1. Shape /\ Merged /\ (\A w \in Worker : Own(w)) /\ expected \in Nat
    BY DEF IInv, Shape
  <2>2. Whole = Counted
    BY ReportedAll
  <2>3. ASSUME NEW w \in Counted PROVE stats[w].ok = Cardinality(GoodCalls(w))
    <3>1. /\ calls[w] \in Seq(Outcome)
          /\ stats[w].ok = Cardinality(Successful(calls[w], expected))
      BY <2>1, CollectedTyped, ExitedStats DEF Counted
    <3>2. ASSUME NEW i \in DOMAIN calls[w], calls[w][i].videos = expected
          PROVE  calls[w][i].answered
      <4>1. calls[w][i] \in Outcome
        BY <3>1, LenProperties, ElementOfSeq
      <4> QED
        BY <2>1, <3>2, <4>1 DEF Outcome
    <3>3. GoodCalls(w) = Successful(calls[w], expected)
      BY <3>2 DEF GoodCalls, Successful
    <3> QED
      BY <3>1, <3>3
  <2> DEFINE f == [w \in Worker |-> Cardinality(GoodCalls(w))]
  <2>4. [w \in Worker |-> IF w \in Whole THEN f[w] ELSE 0] = OkCalls
    <3>1. \A w \in Counted : f[w] = stats[w].ok
      BY <2>1, <2>3, CollectedTyped
    <3> HIDE DEF f
    <3> QED
      BY <2>2, <3>1 DEF OkCalls
  <2>5. OfWhole(f) = SumOf(OkCalls)
    <3> HIDE DEF f
    <3> QED
      BY <2>4 DEF OfWhole
  <2> QED
    BY <2>1, <2>5 DEF Merged
<1> QED
  BY <1>1, Invariance, PTL

\* Exit code 0 after the report: every worker exited and every call was good.
THEOREM ZeroIsGood == Spec => []ZeroMeansAllGood
<1>1. IInv => ZeroMeansAllGood
  <2> SUFFICES ASSUME IInv, Reported, exit = 0, NEW w \in 1..options.workers
               PROVE  /\ worker[w] = "exited"
                      /\ \A i \in DOMAIN calls[w] : calls[w][i].videos = expected
    BY DEF ZeroMeansAllGood
  <2>1. Shape /\ Merged /\ \A v \in Worker : Own(v)
    BY DEF IInv
  <2>2. w \in Counted /\ stats[w].fail = 0
    BY <2>1, ReportedAll DEF Merged
  <2>3. w \in Worker /\ worker[w] = "exited"
    BY <2>1, <2>2, CollectedTyped DEF Counted
  <2>4. Successful(calls[w], expected) = DOMAIN calls[w]
    BY <2>1, <2>2, <2>3, ExitedStats
  <2> QED
    BY <2>3, <2>4 DEF Successful
<1> QED
  BY <1>1, Invariance, PTL

\* The minimum and the maximum of the report are times of successful calls, and the
\* greatest and, if none took 0 ms, the least (worker_stats.cpp:15), in whatever order
\* workers end.
THEOREM LatenciesRight == Spec => []LatenciesAreRight
<1>1. IInv => LatenciesAreRight
  <2> SUFFICES ASSUME IInv, Reported PROVE LatenciesAreRight
    BY DEF LatenciesAreRight
  <2>1. Extremes(total, CountedTimes)
    BY DEF IInv, Merged
  <2>2. Times = CountedTimes
    BY ReportedAll DEF Times, CountedTimes
  <2> QED
    BY <2>1, <2>2 DEF LatenciesAreRight, Extremes
<1> QED
  BY <1>1, Invariance, PTL
=============================================================================
