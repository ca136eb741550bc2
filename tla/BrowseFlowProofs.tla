-------------------------- MODULE BrowseFlowProofs --------------------------
(***************************************************************************)
(* A call of Browse: what formatting and parsing do to an id, for any      *)
(* width and any text; the type of the ids on their way; and that an OK    *)
(* answer is complete, as long as one setting says, and for the user the   *)
(* text denotes.                                                           *)
(*                                                                         *)
(* The recursive functions are characterised by least-number induction:    *)
(* WFMin on the natural numbers instead of an induction theorem.           *)
(***************************************************************************)
EXTENDS BrowseFlow, SequenceTheorems, WellFoundedInduction, TLAPS

-----------------------------------------------------------------------------
(* Numbers and texts *)

\* A nonempty set of natural numbers has a least one: induction in the form the
\* proofs below use it.
LEMMA LeastNumber ==
  ASSUME NEW T, T \subseteq Nat, T # {}
  PROVE  \E m \in T : \A k \in T : m <= k
<1>1. \E m \in T : \A k \in T : ~(<<k, m>> \in OpToRel(<,Nat))
  BY NatLessThanWellFounded, WFMin
<1>2. PICK m \in T : \A k \in T : ~(<<k, m>> \in OpToRel(<,Nat))
  BY <1>1
<1>3. \A k \in T : ~(k < m)
  BY <1>2 DEF OpToRel
<1> QED
  BY <1>3

\* The loop over a text computes something, whatever the text: there is a function
\* that is 0 before the first character and follows the loop from each to the next.
LEMMA ValueUpToDef ==
  ASSUME NEW t, Len(t) \in Nat
  PROVE  ValueUpTo(t) =
           [i \in 0..Len(t) |->
              IF i = 0 THEN 0 ELSE (ValueUpTo(t)[i - 1] * 10 + t[i]) % IdModulus]
<1> DEFINE IsLoop(f, n) ==
             f = [i \in 0..n |-> IF i = 0 THEN 0 ELSE (f[i - 1] * 10 + t[i]) % IdModulus]
           T == {n \in Nat : ~\E f : IsLoop(f, n)}
<1>1. \E f : IsLoop(f, 0)
  <2>1. IsLoop([i \in 0..0 |-> 0], 0)
    OBVIOUS
  <2> QED
    BY <2>1
<1>2. ASSUME NEW n \in Nat, NEW f, IsLoop(f, n)
      PROVE  \E g : IsLoop(g, n + 1)
  <2> DEFINE g == [i \in 0..(n + 1) |->
                     IF i = 0 THEN 0 ELSE (f[i - 1] * 10 + t[i]) % IdModulus]
  <2>1. \A i \in 0..n : g[i] = f[i]
    <3>1. \A i \in 0..n : f[i] = IF i = 0 THEN 0 ELSE (f[i - 1] * 10 + t[i]) % IdModulus
      BY <1>2
    <3> QED
      BY <3>1
  <2>2. \A i \in 0..(n + 1) : g[i] = IF i = 0 THEN 0 ELSE (g[i - 1] * 10 + t[i]) % IdModulus
    <3>1. \A i \in 1..(n + 1) : i - 1 \in 0..n
      OBVIOUS
    <3>2. \A i \in 1..(n + 1) : g[i - 1] = f[i - 1]
      BY <2>1, <3>1
    <3>3. \A i \in 0..(n + 1) : g[i] = IF i = 0 THEN 0 ELSE (f[i - 1] * 10 + t[i]) % IdModulus
      OBVIOUS
    <3> HIDE DEF g
    <3>4. \A i \in 0..(n + 1) : i = 0 \/ i \in 1..(n + 1)
      OBVIOUS
    <3> QED
      BY <3>2, <3>3, <3>4
  <2>3. g = [i \in 0..(n + 1) |-> IF i = 0 THEN 0 ELSE (g[i - 1] * 10 + t[i]) % IdModulus]
    <3> HIDE DEF g
    <3> QED
      BY <2>2 DEF g
  <2> QED
    BY <2>3
<1> HIDE DEF IsLoop
<1>3. T = {}
  <2>1. SUFFICES ASSUME T # {} PROVE FALSE
    OBVIOUS
  <2>2. PICK m \in T : \A k \in T : m <= k
    BY <2>1, LeastNumber
  <2>3. m # 0
    BY <1>1, <2>2
  <2>4. m - 1 \in Nat /\ m - 1 \notin T
    <3>1. m \in Nat
      BY <2>2
    <3>2. m - 1 \in Nat /\ ~(m <= m - 1)
      BY <2>3, <3>1
    <3> QED
      BY <2>2, <3>2
  <2>5. \E f : IsLoop(f, m - 1)
    BY <2>4
  <2>6. \E g : IsLoop(g, m - 1 + 1)
    BY <1>2, <2>4, <2>5
  <2>7. m \in Nat /\ m - 1 + 1 = m
    BY <2>2
  <2>8. \E g : IsLoop(g, m)
    BY <2>6, <2>7
  <2> QED
    BY <2>2, <2>8
<1>4. \E f : IsLoop(f, Len(t))
  BY <1>3
<1> QED
  BY <1>4 DEF ValueUpTo, IsLoop

\* std::to_string, one digit more than for the tenth part.
LEMMA DecimalDef ==
  Decimal = [n \in 0..IdModulus - 1 |->
               IF n < 10 THEN <<n>> ELSE Append(Decimal[n \div 10], n % 10)]
<1> DEFINE IsDecimal(f, m) ==
             f = [n \in 0..m |-> IF n < 10 THEN <<n>> ELSE Append(f[n \div 10], n % 10)]
           T == {m \in Nat : ~\E f : IsDecimal(f, m)}
<1>1. \E f : IsDecimal(f, 0)
  <2>1. IsDecimal([n \in 0..0 |-> <<n>>], 0)
    OBVIOUS
  <2> QED
    BY <2>1
<1>2. ASSUME NEW m \in Nat, NEW f, IsDecimal(f, m)
      PROVE  \E g : IsDecimal(g, m + 1)
  <2> DEFINE g == [n \in 0..(m + 1) |->
                     IF n < 10 THEN <<n>> ELSE Append(f[n \div 10], n % 10)]
  <2>1. \A n \in 0..m : f[n] = IF n < 10 THEN <<n>> ELSE Append(f[n \div 10], n % 10)
    BY <1>2
  <2>2. \A n \in 0..(m + 1) : n >= 10 => n \div 10 \in 0..m
    OBVIOUS
  <2>3. \A n \in 0..(m + 1) : g[n] = IF n < 10 THEN <<n>> ELSE Append(f[n \div 10], n % 10)
    OBVIOUS
  <2>4. g = [n \in 0..(m + 1) |-> g[n]]
    OBVIOUS
  <2> HIDE DEF g
  <2>5. \A n \in 0..m : g[n] = f[n]
    <3>1. \A n \in 0..m : n \in 0..(m + 1)
      OBVIOUS
    <3>2. ASSUME NEW n \in 0..m PROVE g[n] = f[n]
      BY <2>1, <2>3, <3>1
    <3> QED
      BY <3>2
  <2>6. \A n \in 0..(m + 1) : n >= 10 => g[n \div 10] = f[n \div 10]
    BY <2>2, <2>5
  <2>7. \A n \in 0..(m + 1) : n < 10 \/ n >= 10
    OBVIOUS
  <2>8. \A n \in 0..(m + 1) : g[n] = IF n < 10 THEN <<n>> ELSE Append(g[n \div 10], n % 10)
    BY <2>3, <2>6, <2>7
  <2>9. IsDecimal(g, m + 1)
    BY <2>4, <2>8
  <2> QED
    BY <2>9
<1> HIDE DEF IsDecimal
<1>3. T = {}
  <2>1. SUFFICES ASSUME T # {} PROVE FALSE
    OBVIOUS
  <2>2. PICK m \in T : \A k \in T : m <= k
    BY <2>1, LeastNumber
  <2>3. m # 0
    BY <1>1, <2>2
  <2>4. m - 1 \in Nat /\ m - 1 \notin T
    <3>1. m \in Nat
      BY <2>2
    <3>2. m - 1 \in Nat /\ ~(m <= m - 1)
      BY <2>3, <3>1
    <3> QED
      BY <2>2, <3>2
  <2>5. \E f : IsDecimal(f, m - 1)
    BY <2>4
  <2>6. \E g : IsDecimal(g, m - 1 + 1)
    BY <1>2, <2>4, <2>5
  <2>7. m \in Nat /\ m - 1 + 1 = m
    BY <2>2
  <2>8. \E g : IsDecimal(g, m)
    BY <2>6, <2>7
  <2> QED
    BY <2>2, <2>8
<1>4. \E f : IsDecimal(f, IdModulus - 1)
  <2>1. IdModulus - 1 \in Nat
    BY ItemAssumption
  <2> QED
    BY <1>3, <2>1
<1> QED
  BY <1>4 DEF Decimal, IsDecimal

\* The value of a text is one of the id type, and a digit more shifts it.
LEMMA ValueOf ==
  /\ \A n \in Digit : Value(<<n>>) = n % IdModulus
  /\ \A t \in Seq(Digit) : Value(t) \in 0..IdModulus - 1
  /\ \A t \in Seq(Digit), d \in Digit :
       Value(Append(t, d)) = (Value(t) * 10 + d) % IdModulus
<1>1. ASSUME NEW t \in Seq(Digit)
      PROVE  /\ ValueUpTo(t)[0] = 0
             /\ \A i \in 1..Len(t) :
                  ValueUpTo(t)[i] = (ValueUpTo(t)[i - 1] * 10 + t[i]) % IdModulus
  <2>1. Len(t) \in Nat
    BY LenProperties
  <2> DEFINE v == ValueUpTo(t)
  <2>2. v = [i \in 0..Len(t) |-> IF i = 0 THEN 0 ELSE (v[i - 1] * 10 + t[i]) % IdModulus]
    BY <2>1, ValueUpToDef
  <2> HIDE DEF v
  <2>3. \A i \in 0..Len(t) : v[i] = IF i = 0 THEN 0 ELSE (v[i - 1] * 10 + t[i]) % IdModulus
    BY <2>2
  <2>4. v[0] = 0 /\ \A i \in 1..Len(t) : v[i] = (v[i - 1] * 10 + t[i]) % IdModulus
    BY <2>1, <2>3
  <2> QED
    BY <2>4 DEF v
<1>2. ASSUME NEW t \in Seq(Digit), NEW i \in Nat, i <= Len(t)
      PROVE  ValueUpTo(t)[i] \in 0..IdModulus - 1
  <2> DEFINE T == {j \in Nat : j <= Len(t) /\ ValueUpTo(t)[j] \notin 0..IdModulus - 1}
  <2>1. SUFFICES ASSUME T # {} PROVE FALSE
    BY <1>2
  <2>2. PICK m \in T : \A k \in T : m <= k
    BY <2>1, LeastNumber
  <2>3. m # 0
    BY <1>1, <2>2, ItemAssumption
  <2>4. m \in 1..Len(t) /\ m - 1 \in Nat /\ m - 1 <= Len(t) /\ ~(m <= m - 1)
    BY <2>2, <2>3, LenProperties
  <2>5. ValueUpTo(t)[m - 1] \in 0..IdModulus - 1
    BY <2>2, <2>4
  <2>6. t[m] \in 0..9
    BY <2>4, ElementOfSeq DEF Digit
  <2>7. (ValueUpTo(t)[m - 1] * 10 + t[m]) % IdModulus \in 0..IdModulus - 1
    <3>1. \A x \in Nat : x % IdModulus \in 0..IdModulus - 1
      BY ItemAssumption
    <3>2. ValueUpTo(t)[m - 1] \in Nat /\ t[m] \in Nat
      BY <2>5, <2>6, ItemAssumption
    <3>3. \A x, y \in Nat : x * 10 + y \in Nat
      OBVIOUS
    <3>4. ValueUpTo(t)[m - 1] * 10 + t[m] \in Nat
      BY <3>2, <3>3
    <3> QED
      BY <3>1, <3>4
  <2>8. ValueUpTo(t)[m] \in 0..IdModulus - 1
    BY <1>1, <2>4, <2>7
  <2> QED
    BY <2>2, <2>8
<1>3. ASSUME NEW t \in Seq(Digit), NEW d \in Digit, NEW i \in Nat, i <= Len(t)
      PROVE  ValueUpTo(Append(t, d))[i] = ValueUpTo(t)[i]
  <2> DEFINE s == Append(t, d)
             T == {j \in Nat : j <= Len(t) /\ ValueUpTo(s)[j] # ValueUpTo(t)[j]}
  <2>0. /\ s \in Seq(Digit) /\ Len(s) = Len(t) + 1 /\ Len(t) \in Nat
        /\ \A j \in 1..Len(t) : s[j] = t[j]
    BY AppendProperties, LenProperties
  <2> HIDE DEF s
  <2>1. SUFFICES ASSUME T # {} PROVE FALSE
    BY <1>3 DEF s
  <2>2. PICK m \in T : \A k \in T : m <= k
    BY <2>1, LeastNumber
  <2>3. m # 0
    BY <1>1, <2>0, <2>2
  <2>4. m \in 1..Len(t) /\ m \in 1..Len(s) /\ m - 1 \in Nat /\ m - 1 <= Len(t) /\ ~(m <= m - 1)
    BY <2>0, <2>2, <2>3
  <2>5. ValueUpTo(s)[m - 1] = ValueUpTo(t)[m - 1]
    BY <2>2, <2>4
  <2>6. ValueUpTo(s)[m] = ValueUpTo(t)[m]
    BY <1>1, <2>0, <2>4, <2>5
  <2> QED
    BY <2>2, <2>6
<1>4. ASSUME NEW n \in Digit
      PROVE  Value(<<n>>) = n % IdModulus
  <2>1. <<n>> \in Seq(Digit) /\ Len(<<n>>) = 1 /\ <<n>>[1] = n
    OBVIOUS
  <2>2. /\ ValueUpTo(<<n>>)[0] = 0
        /\ ValueUpTo(<<n>>)[1] = (ValueUpTo(<<n>>)[1 - 1] * 10 + <<n>>[1]) % IdModulus
    <3>1. 1 \in 1..Len(<<n>>)
      BY <2>1
    <3> QED
      BY <1>1, <2>1, <3>1
  <2> QED
    BY <2>1, <2>2 DEF Value, Digit
<1>5. ASSUME NEW t \in Seq(Digit), NEW d \in Digit
      PROVE  Value(Append(t, d)) = (Value(t) * 10 + d) % IdModulus
  <2>1. /\ Append(t, d) \in Seq(Digit) /\ Len(Append(t, d)) = Len(t) + 1 /\ Len(t) \in Nat
        /\ Append(t, d)[Len(t) + 1] = d
    BY AppendProperties, LenProperties
  <2>2. ValueUpTo(Append(t, d))[Len(t)] = ValueUpTo(t)[Len(t)]
    BY <1>3, <2>1
  <2>3. ValueUpTo(Append(t, d))[Len(t) + 1] =
          (ValueUpTo(Append(t, d))[Len(t) + 1 - 1] * 10 + d) % IdModulus
    <3> DEFINE s == Append(t, d)
               l == Len(t) + 1
    <3>1. s \in Seq(Digit) /\ l \in 1..Len(s) /\ s[l] = d
      BY <2>1
    <3> HIDE DEF s, l
    <3>2. ValueUpTo(s)[l] = (ValueUpTo(s)[l - 1] * 10 + d) % IdModulus
      BY <1>1, <3>1
    <3> QED
      BY <3>2 DEF s, l
  <2>4. Len(t) + 1 - 1 = Len(t)
    BY <2>1
  <2> QED
    BY <2>1, <2>2, <2>3, <2>4 DEF Value
<1>6. \A t \in Seq(Digit) : Value(t) \in 0..IdModulus - 1
  BY <1>2, LenProperties DEF Value
<1> QED
  BY <1>4, <1>5, <1>6

\* Formatting and parsing again gives the number back: an id survives each hop.
LEMMA RoundTrip ==
  ASSUME NEW n \in 0..IdModulus - 1
  PROVE  /\ Decimal[n] \in Seq(Digit)
         /\ Value(Decimal[n]) = n
<1> DEFINE Same(k) == Decimal[k] \in Seq(Digit) /\ Value(Decimal[k]) = k
           T == {k \in Nat : k < IdModulus /\ ~Same(k)}
<1>1. SUFFICES ASSUME T # {} PROVE FALSE
  <2>1. n \in Nat /\ n < IdModulus
    BY ItemAssumption
  <2> QED
    BY <2>1
<1>2. PICK m \in T : \A k \in T : m <= k
  BY <1>1, LeastNumber
<1>3. m \in Nat /\ m < IdModulus /\ m \in 0..IdModulus - 1 /\ IdModulus \in Nat \ {0}
  BY <1>2, ItemAssumption
<1>4. Decimal[m] = IF m < 10 THEN <<m>> ELSE Append(Decimal[m \div 10], m % 10)
  <2> DEFINE f == Decimal
  <2>1. f = [k \in 0..IdModulus - 1 |-> IF k < 10 THEN <<k>> ELSE Append(f[k \div 10], k % 10)]
    BY DecimalDef
  <2> HIDE DEF f
  <2>2. f[m] = IF m < 10 THEN <<m>> ELSE Append(f[m \div 10], m % 10)
    BY <1>3, <2>1
  <2> QED
    BY <2>2 DEF f
<1>5. CASE m < 10
  <2>1. m \in Digit /\ m % IdModulus = m
    BY <1>3, <1>5 DEF Digit
  <2>2. Decimal[m] = <<m>> /\ <<m>> \in Seq(Digit)
    BY <1>4, <1>5, <2>1
  <2> QED
    BY <1>2, <2>1, <2>2, ValueOf
<1>6. CASE m >= 10
  <2> DEFINE q == m \div 10
             r == m % 10
  <2>1. q \in Nat /\ q < m /\ r \in Digit /\ q * 10 + r = m
    BY <1>3, <1>6 DEF Digit
  <2>2. Decimal[m] = Append(Decimal[q], r)
    BY <1>3, <1>4, <1>6
  <2> HIDE DEF q, r
  <2>3. Same(q)
    BY <1>2, <1>3, <2>1
  <2>4. Decimal[m] \in Seq(Digit)
    BY <2>1, <2>2, <2>3, AppendProperties
  <2>5. Value(Decimal[m]) = (q * 10 + r) % IdModulus
    BY <2>1, <2>2, <2>3, ValueOf
  <2>6. m % IdModulus = m
    BY <1>3
  <2> QED
    BY <1>2, <2>1, <2>4, <2>5, <2>6
<1> QED
  BY <1>3, <1>5, <1>6

\* What the services make of a text they sent to each other.
LEMMA ParseDecimal ==
  ASSUME NEW n \in 0..IdModulus - 1
  PROVE  /\ Parse(Decimal[n]) = n
         /\ AllDigits(Decimal[n])
         /\ IsUser(Decimal[n])
<1>1. \A i \in DOMAIN Decimal[n] : Decimal[n][i] \in Digit
  BY RoundTrip, LenProperties, ElementOfSeq
<1>2. Parse(Decimal[n]) = n /\ AllDigits(Decimal[n])
  BY <1>1, RoundTrip DEF Parse, AllDigits
<1>3. n = 0 => Decimal[n] = <<0>>
  <2> DEFINE f == Decimal
  <2>1. f = [k \in 0..IdModulus - 1 |-> IF k < 10 THEN <<k>> ELSE Append(f[k \div 10], k % 10)]
    BY DecimalDef
  <2> HIDE DEF f
  <2>2. n = 0 => f[n] = <<0>>
    BY <2>1
  <2> QED
    BY <2>2 DEF f
<1> QED
  BY <1>2, <1>3 DEF IsUser

\* Whatever a client sends, the user id is one of its type; a text that counts as a
\* user's is a decimal number.
LEMMA ParseText ==
  ASSUME NEW t \in Text
  PROVE  /\ Parse(t) \in 0..IdModulus - 1
         /\ IsUser(t) => Parse(t) = Value(t)
<1>1. t \in Seq(Digit \cup {NonDigit})
  BY TextAssumption
<1>2. ASSUME AllDigits(t) PROVE t \in Seq(Digit)
  <2>1. Len(t) \in Nat /\ DOMAIN t = 1..Len(t) /\ t \in [1..Len(t) -> Digit \cup {NonDigit}]
    BY <1>1, LenProperties
  <2>2. t \in [1..Len(t) -> Digit]
    BY <1>2, <2>1 DEF AllDigits
  <2> QED
    BY <2>1, <2>2
<1>3. 0 \in 0..IdModulus - 1
  BY ItemAssumption
<1>4. AllDigits(<<0>>)
  BY DEF AllDigits, Digit
<1> QED
  BY <1>2, <1>3, <1>4, ValueOf DEF Parse, IsUser

-----------------------------------------------------------------------------
(* The inductive invariant *)

Steps == {"idle", "browse", "rank", "ranking", "fetch", "answer"}

\* What a call has found out when it has come to a step, unless a list is empty.
Parsed(c) == IsUser(text[c]) /\ user[c] = Parse(text[c])
Ranked(c) == wanted[c] > 0 /\ wanted[c] \in inForce[c] /\ Len(items[c]) = wanted[c]
Fetched(c) == videos[c] = Clips(user[c], items[c])

Progress(c) ==
  /\ pc[c] \in {"rank", "ranking", "fetch", "answer"} => Parsed(c)
  /\ pc[c] = "ranking" => wanted[c] \in inForce[c]
  /\ pc[c] = "fetch" /\ items[c] # <<>> => Ranked(c)
  /\ pc[c] = "answer" /\ videos[c] # <<>> => Ranked(c) /\ Fetched(c)
  /\ pc[c] # "idle" => answer[c] = "none" /\ recommendCount \in inForce[c]
  /\ answer[c] = "OK" => Parsed(c) /\ Ranked(c) /\ Fetched(c)
  /\ answer[c] = "INVALID_ARGUMENT" => ~IsUser(text[c])

\* The history of a call's settings is a function on the calls.
IInv == TypeOK /\ DOMAIN inForce = Call /\ \A c \in Call : Progress(c)

LEMMA ItemsAreIds == \A i \in Item : i \in 0..IdModulus - 1
BY ItemAssumption

LEMMA FunctionIsSeq ==
  ASSUME NEW n \in Nat, NEW S, NEW f \in [1..n -> S]
  PROVE  f \in Seq(S) /\ Len(f) = n /\ DOMAIN f = 1..n
OBVIOUS

\* Item ids come out of RankingClient as they were drawn.
LEMMA DrawnItems ==
  ASSUME NEW n \in Nat, NEW drawn \in Draw(n)
  PROVE  LET wire == [i \in DOMAIN drawn |-> Decimal[drawn[i]]]
         IN  /\ [i \in DOMAIN wire |-> Parse(wire[i])] = drawn
             /\ drawn \in Seq(Item)
             /\ Len(drawn) = n
<1> DEFINE wire == [i \in DOMAIN drawn |-> Decimal[drawn[i]]]
<1>1. DOMAIN drawn = 1..n /\ drawn \in [1..n -> Item]
  BY DEF Draw
<1>2. \A i \in 1..n : drawn[i] \in 0..IdModulus - 1
  BY <1>1, ItemsAreIds
<1>3. DOMAIN wire = 1..n /\ \A i \in 1..n : Parse(wire[i]) = drawn[i]
  BY <1>1, <1>2, ParseDecimal
<1> HIDE DEF wire
<1>4. [i \in DOMAIN wire |-> Parse(wire[i])] = drawn
  BY <1>1, <1>3
<1>5. drawn \in Seq(Item) /\ Len(drawn) = n
  BY <1>1
<1> QED
  BY <1>4, <1>5 DEF wire

\* The video server is asked for the items that RankingClient returned.
LEMMA AskedItems ==
  ASSUME NEW ids \in Seq(Item)
  PROVE  [i \in DOMAIN ids |-> Parse(Decimal[ids[i]])] = ids
<1>1. DOMAIN ids = 1..Len(ids) /\ ids \in [1..Len(ids) -> Item]
  BY LenProperties
<1>2. \A i \in DOMAIN ids : Parse(Decimal[ids[i]]) = ids[i]
  BY <1>1, ParseDecimal, ItemsAreIds
<1> QED
  BY <1>1, <1>2

\* There is a clip for each item.
LEMMA ClipsType ==
  ASSUME NEW u \in 0..IdModulus - 1, NEW ids \in Seq(Item)
  PROVE  /\ Clips(u, ids) \in Seq([user : 0..IdModulus - 1, item : Item])
         /\ Len(Clips(u, ids)) = Len(ids)
         /\ DOMAIN Clips(u, ids) = DOMAIN ids
         /\ \A i \in DOMAIN ids : Clips(u, ids)[i] = Video(u, ids[i])
<1>1. Len(ids) \in Nat /\ DOMAIN ids = 1..Len(ids) /\ ids \in [1..Len(ids) -> Item]
  BY LenProperties
<1>2. /\ DOMAIN Clips(u, ids) = DOMAIN ids
      /\ \A i \in DOMAIN ids : Clips(u, ids)[i] = Video(u, ids[i])
  BY DEF Clips
<1>3. \A i \in 1..Len(ids) : Video(u, ids[i]) \in [user : 0..IdModulus - 1, item : Item]
  BY <1>1 DEF Video
<1>4. Clips(u, ids) \in [1..Len(ids) -> [user : 0..IdModulus - 1, item : Item]]
  BY <1>1, <1>3 DEF Clips
<1>5. /\ Clips(u, ids) \in Seq([user : 0..IdModulus - 1, item : Item])
      /\ Len(Clips(u, ids)) = Len(ids)
  BY <1>1, <1>4, FunctionIsSeq
<1> QED
  BY <1>1, <1>2, <1>5

-----------------------------------------------------------------------------
LEMMA InitInv == Init => IInv
<1> SUFFICES ASSUME Init PROVE IInv
  OBVIOUS
<1>1. 0 \in 0..IdModulus - 1 /\ 0 \in Nat
  BY ItemAssumption
<1>2. <<>> \in Seq(Item) /\ <<>> \in Seq([user : 0..IdModulus - 1, item : Item])
  BY EmptySeq
<1>3. TypeOK
  BY <1>1, <1>2 DEF Init, TypeOK
<1> QED
  BY <1>3 DEF Init, IInv, Progress

\* The call c made a step that left the others, and the settings, alone.
LEMMA OthersKeep ==
  ASSUME IInv, NEW c \in Call, NEW d \in Call, d # c, CallNext(c)
  PROVE  Progress(d)'
<1> USE DEF IInv, TypeOK, CallNext, Finish, Progress, Parsed, Ranked, Fetched
<1>1. /\ pc'[d] = pc[d] /\ text'[d] = text[d] /\ user'[d] = user[d] /\ wanted'[d] = wanted[d]
      /\ items'[d] = items[d] /\ videos'[d] = videos[d] /\ answer'[d] = answer[d]
      /\ inForce'[d] = inForce[d] /\ recommendCount' = recommendCount
  <2>1. CASE BrowseStarts(c)
    BY <2>1 DEF BrowseStarts
  <2>2. CASE RankStarts(c)
    BY <2>2 DEF RankStarts
  <2>3. CASE RankReturns(c)
    BY <2>3 DEF RankReturns
  <2>4. CASE FetchReturns(c)
    BY <2>4 DEF FetchReturns
  <2>5. CASE BrowseAnswers(c)
    BY <2>5 DEF BrowseAnswers
  <2>6. CASE RankFails(c)
    BY <2>6 DEF RankFails
  <2>7. CASE NothingRanked(c)
    BY <2>7 DEF NothingRanked
  <2>8. CASE FetchFails(c)
    BY <2>8 DEF FetchFails
  <2> QED
    BY <2>1, <2>2, <2>3, <2>4, <2>5, <2>6, <2>7, <2>8
<1> QED
  BY <1>1

LEMMA NextInv == IInv /\ [Next]_vars => IInv'
<1> SUFFICES ASSUME IInv, [Next]_vars PROVE IInv'
  OBVIOUS
<1>1. ASSUME NEW c \in Call, BrowseStarts(c)
      PROVE  TypeOK' /\ DOMAIN inForce' = Call /\ Progress(c)'
  <2>1. Parse(text[c]) \in 0..IdModulus - 1
    BY ParseText DEF IInv, TypeOK
  <2>2. TypeOK' /\ DOMAIN inForce' = Call
    BY <1>1, <2>1 DEF BrowseStarts, Finish, IInv, TypeOK
  <2>3. Progress(c)'
    <3>1. CASE ~IsUser(text[c]) /\ Finish(c, "INVALID_ARGUMENT")
      BY <1>1, <3>1 DEF BrowseStarts, Finish, IInv, TypeOK, Progress
    <3>2. CASE IsUser(text[c]) /\ pc' = [pc EXCEPT ![c] = "rank"] /\ UNCHANGED answer
      BY <1>1, <3>2 DEF BrowseStarts, IInv, TypeOK, Progress, Parsed
    <3> QED
      BY <1>1, <3>1, <3>2 DEF BrowseStarts
  <2> QED
    BY <2>2, <2>3
<1>2. ASSUME NEW c \in Call, RankStarts(c)
      PROVE  TypeOK' /\ DOMAIN inForce' = Call /\ Progress(c)'
  <2>1. recommendCount \in Nat
    BY <1>2, SettingAssumption DEF RankStarts, IInv, TypeOK
  <2>2. TypeOK' /\ DOMAIN inForce' = Call
    BY <1>2, <2>1 DEF RankStarts, IInv, TypeOK
  <2>3. Progress(c)'
    BY <1>2 DEF RankStarts, IInv, TypeOK, Progress, Parsed
  <2> QED
    BY <2>2, <2>3
<1>3. ASSUME NEW c \in Call, RankReturns(c)
      PROVE  TypeOK' /\ DOMAIN inForce' = Call /\ Progress(c)'
  <2>1. PICK drawn \in Draw(wanted[c]) : items' = [items EXCEPT ![c] = drawn]
    <3>1. PICK d \in Draw(wanted[c]) :
             LET wire == [i \in DOMAIN d |-> Decimal[d[i]]]
             IN  items' = [items EXCEPT ![c] = [i \in DOMAIN wire |-> Parse(wire[i])]]
      BY <1>3 DEF RankReturns
    <3>2. LET wire == [i \in DOMAIN d |-> Decimal[d[i]]]
          IN  [i \in DOMAIN wire |-> Parse(wire[i])] = d
      BY DrawnItems DEF IInv, TypeOK
    <3>3. items' = [items EXCEPT ![c] = d]
      BY <3>1, <3>2
    <3> QED
      BY <3>3
  <2>2. drawn \in Seq(Item) /\ Len(drawn) = wanted[c]
    BY DrawnItems DEF IInv, TypeOK
  <2>3. TypeOK' /\ DOMAIN inForce' = Call
    BY <1>3, <2>1, <2>2 DEF RankReturns, IInv, TypeOK
  <2>4. Progress(c)'
    BY <1>3, <2>1, <2>2 DEF RankReturns, IInv, TypeOK, Progress, Parsed, Ranked
  <2> QED
    BY <2>3, <2>4
<1>4. ASSUME NEW c \in Call, FetchReturns(c)
      PROVE  TypeOK' /\ DOMAIN inForce' = Call /\ Progress(c)'
  <2>1. user[c] \in 0..IdModulus - 1 /\ items[c] \in Seq(Item)
    BY DEF IInv, TypeOK
  <2>2. videos' = [videos EXCEPT ![c] = Clips(user[c], items[c])]
    BY <1>4, <2>1, ParseDecimal, AskedItems DEF FetchReturns
  <2>3. Clips(user[c], items[c]) \in Seq([user : 0..IdModulus - 1, item : Item])
    BY <2>1, ClipsType
  <2>4. TypeOK' /\ DOMAIN inForce' = Call
    BY <1>4, <2>2, <2>3 DEF FetchReturns, IInv, TypeOK
  <2>5. Progress(c)'
    BY <1>4, <2>2 DEF FetchReturns, IInv, TypeOK, Progress, Parsed, Ranked, Fetched
  <2> QED
    BY <2>4, <2>5
<1>5. ASSUME NEW c \in Call, BrowseAnswers(c)
      PROVE  TypeOK' /\ DOMAIN inForce' = Call /\ Progress(c)'
  <2>1. TypeOK' /\ DOMAIN inForce' = Call
    BY <1>5 DEF BrowseAnswers, Finish, IInv, TypeOK
  <2>2. Progress(c)'
    BY <1>5 DEF BrowseAnswers, Finish, IInv, TypeOK, Progress, Parsed, Ranked, Fetched
  <2> QED
    BY <2>1, <2>2
<1>6. ASSUME NEW c \in Call, RankFails(c)
      PROVE  TypeOK' /\ DOMAIN inForce' = Call /\ Progress(c)'
  <2>1. <<>> \in Seq(Item)
    BY EmptySeq
  <2>2. TypeOK' /\ DOMAIN inForce' = Call
    BY <1>6, <2>1 DEF RankFails, IInv, TypeOK
  <2>3. Progress(c)'
    BY <1>6 DEF RankFails, IInv, TypeOK, Progress, Parsed
  <2> QED
    BY <2>2, <2>3
<1>7. ASSUME NEW c \in Call, NothingRanked(c) \/ FetchFails(c)
       PROVE  TypeOK' /\ DOMAIN inForce' = Call /\ Progress(c)'
  <2>1. <<>> \in Seq([user : 0..IdModulus - 1, item : Item])
    BY EmptySeq
  <2>2. TypeOK' /\ DOMAIN inForce' = Call
    <3>1. CASE NothingRanked(c)
      BY <2>1, <3>1 DEF NothingRanked, IInv, TypeOK
    <3>2. CASE FetchFails(c)
      BY <2>1, <3>2 DEF FetchFails, IInv, TypeOK
    <3> QED
      BY <1>7, <3>1, <3>2
  <2>3. Progress(c)'
    BY <1>7 DEF NothingRanked, FetchFails, IInv, TypeOK, Progress, Parsed
  <2> QED
    BY <2>2, <2>3
<1>8. ASSUME NEW c \in Call, NEW t \in Text, Request(c, t)
      PROVE  IInv'
  <2>1. 0 \in 0..IdModulus - 1 /\ 0 \in Nat
    BY ItemAssumption
  <2>2. <<>> \in Seq(Item) /\ <<>> \in Seq([user : 0..IdModulus - 1, item : Item])
    BY EmptySeq
  <2>3. TypeOK' /\ DOMAIN inForce' = Call
    BY <1>8, <2>1, <2>2 DEF Request, IInv, TypeOK
  <2>4. Progress(c)'
    BY <1>8 DEF Request, IInv, TypeOK, Progress
  <2>5. ASSUME NEW d \in Call, d # c PROVE Progress(d)'
    BY <1>8, <2>5 DEF Request, IInv, TypeOK, Progress, Parsed, Ranked, Fetched
  <2> QED
    BY <2>3, <2>4, <2>5 DEF IInv
<1>9. ASSUME NEW s \in Setting, Reload(s)
      PROVE  IInv'
  <2>1. TypeOK' /\ DOMAIN inForce' = Call
    BY <1>9 DEF Reload, callVars, IInv, TypeOK
  <2>2. ASSUME NEW d \in Call PROVE Progress(d)'
    BY <1>9 DEF Reload, callVars, IInv, TypeOK, Progress, Parsed, Ranked, Fetched
  <2> QED
    BY <2>1, <2>2 DEF IInv
<1>10. ASSUME UNCHANGED vars
      PROVE  IInv'
  BY <1>10 DEF vars, callVars, IInv, TypeOK, Progress, Parsed, Ranked, Fetched
<1>11. ASSUME NEW c \in Call, CallNext(c)
       PROVE  IInv'
  <2>1. TypeOK' /\ DOMAIN inForce' = Call /\ Progress(c)'
    BY <1>1, <1>2, <1>3, <1>4, <1>5, <1>6, <1>7, <1>11 DEF CallNext
  <2> QED
    BY <1>11, <2>1, OthersKeep DEF IInv
<1> QED
  BY <1>8, <1>9, <1>10, <1>11 DEF Next

LEMMA Invariance == Spec => []IInv
BY InitInv, NextInv, PTL DEF Spec

\* Ids and items stay in their ranges through formatting, parsing and wrapping.
THEOREM TypeCorrect == Spec => []TypeOK
<1>1. IInv => TypeOK
  BY DEF IInv
<1> QED
  BY <1>1, Invariance, PTL

\* A call that succeeds has one video for each ranked item, in order and for the
\* user its text denotes (browse_service_impl.cpp:30-44), for any width of the ids,
\* although every id was formatted and parsed again at each hop.
THEOREM OkComplete == Spec => []OkIsComplete
<1>1. IInv => OkIsComplete
  <2> SUFFICES ASSUME IInv, NEW c \in Call, answer[c] = "OK"
               PROVE  /\ Len(videos[c]) = Len(items[c])
                      /\ \A i \in DOMAIN videos[c] : videos[c][i] = Video(Value(text[c]), items[c][i])
    BY DEF OkIsComplete
  <2>1. user[c] = Value(text[c]) /\ user[c] \in 0..IdModulus - 1
    BY ParseText DEF IInv, TypeOK, Progress, Parsed
  <2>2. videos[c] = Clips(user[c], items[c]) /\ items[c] \in Seq(Item)
    BY DEF IInv, TypeOK, Progress, Fetched
  <2> QED
    BY <2>1, <2>2, ClipsType
<1> QED
  BY <1>1, Invariance, PTL

\* An answer is as long as a recommend_count that was in force during the call
\* (ranking_engine.cpp:27-46), and not empty.
THEOREM CountFromOneSnapshot == Spec => []CountOfOneSnapshot
<1>1. IInv => CountOfOneSnapshot
  <2> SUFFICES ASSUME IInv, NEW c \in Call, answer[c] = "OK"
               PROVE  Len(videos[c]) > 0 /\ Len(videos[c]) \in inForce[c]
    BY DEF CountOfOneSnapshot
  <2>1. Ranked(c) /\ videos[c] = Clips(user[c], items[c])
    BY DEF IInv, Progress, Fetched
  <2>2. Len(videos[c]) = Len(items[c])
    BY <2>1, ClipsType DEF IInv, TypeOK
  <2> QED
    BY <2>1, <2>2 DEF Ranked
<1> QED
  BY <1>1, Invariance, PTL

\* No text that denotes a user id is refused, and the videos of the user 0 go to
\* the text "0" only (browse_service_impl.cpp:24-28), not to one that wraps to it.
THEOREM OnlyNonUsersRefused == Spec => []RefusesOnlyNonUsers
<1>1. IInv => RefusesOnlyNonUsers
  <2> SUFFICES ASSUME IInv, NEW c \in Call, NEW u \in 0..IdModulus - 1
               PROVE  /\ text[c] = Decimal[u] => answer[c] # "INVALID_ARGUMENT"
                      /\ answer[c] = "OK" /\ user[c] = 0 => text[c] = <<0>>
    BY DEF RefusesOnlyNonUsers
  <2>1. text[c] = Decimal[u] => answer[c] # "INVALID_ARGUMENT"
    BY ParseDecimal DEF IInv, Progress
  <2>2. answer[c] = "OK" /\ user[c] = 0 => text[c] = <<0>>
    BY DEF IInv, Progress, Parsed, IsUser
  <2> QED
    BY <2>1, <2>2
<1> QED
  BY <1>1, Invariance, PTL
=============================================================================
