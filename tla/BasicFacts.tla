----------------------------- MODULE BasicFacts -----------------------------
(***************************************************************************)
(* What a sequence holds, as a set, after a message or a list entry has    *)
(* been added at its end or taken from its front, or after a walk that     *)
(* takes out some; and what comes first in a set.                          *)
(***************************************************************************)
EXTENDS Integers, Walks, SequencesExt, SequenceTheorems, FiniteSetTheorems, TLAPS

\* Append adds one element to what a queue holds.
LEMMA AppendHolds ==
    ASSUME NEW S, NEW q \in Seq(S), NEW e \in S
    PROVE  ToSet(Append(q, e)) = ToSet(q) \cup {e}
<1>1. /\ Append(q, e) \in Seq(S) /\ Len(Append(q, e)) = Len(q) + 1
      /\ \A i \in 1 .. Len(q) : Append(q, e)[i] = q[i]
      /\ Append(q, e)[Len(q) + 1] = e
  BY AppendProperties
<1>2. DOMAIN q = 1 .. Len(q) /\ DOMAIN Append(q, e) = 1 .. Len(q) + 1 /\ Len(q) \in Nat
  BY <1>1, LenProperties
<1>3. DOMAIN Append(q, e) = DOMAIN q \cup {Len(q) + 1}
  BY <1>2
<1> QED BY <1>1, <1>2, <1>3 DEF ToSet

\* Taking the head leaves what the tail holds.
LEMMA TailHolds ==
    ASSUME NEW S, NEW q \in Seq(S), q # <<>>
    PROVE  ToSet(q) = ToSet(Tail(q)) \cup {Head(q)}
<1>1. /\ Tail(q) \in Seq(S) /\ Len(Tail(q)) = Len(q) - 1
      /\ \A i \in 1 .. Len(Tail(q)) : Tail(q)[i] = q[i + 1]
  BY HeadTailProperties
<1>2. DOMAIN q = 1 .. Len(q) /\ DOMAIN Tail(q) = 1 .. Len(q) - 1 /\ Len(q) \in Nat \ {0}
  BY <1>1, LenProperties, EmptySeq
<1>3. Head(q) = q[1] /\ 1 \in DOMAIN q
  BY <1>2
<1>4. ASSUME NEW i \in DOMAIN q
      PROVE  q[i] \in ToSet(Tail(q)) \cup {Head(q)}
  <2>1. CASE i = 1
    BY <1>3, <2>1
  <2>2. CASE i # 1
    <3>1. i - 1 \in DOMAIN Tail(q) /\ i - 1 \in 1 .. Len(Tail(q)) /\ (i - 1) + 1 = i
      BY <1>1, <1>2, <2>2
    <3>2. Tail(q)[i - 1] = q[i]
      BY <1>1, <3>1
    <3> QED BY <3>1, <3>2 DEF ToSet
  <2> QED BY <2>1, <2>2
<1>5. ASSUME NEW i \in DOMAIN Tail(q)
      PROVE  Tail(q)[i] \in ToSet(q)
  <2>1. i + 1 \in DOMAIN q /\ Tail(q)[i] = q[i + 1]
    BY <1>1, <1>2
  <2> QED BY <2>1 DEF ToSet
<1> QED BY <1>3, <1>4, <1>5 DEF ToSet

\* Some numbers have a least.
LEMMA Least ==
    ASSUME NEW S, S \subseteq Nat, S # {}
    PROVE  \E n \in S : \A m \in S : n <= m
<1> DEFINE R == {xy \in Nat \X Nat : xy[1] < xy[2]}
<1>1. IsWellFoundedOn(R, Nat)
  BY NatLessThanWellFounded DEF OpToRel
<1>2. PICK n \in S : \A m \in S : ~ (<<m, n>> \in R)
  BY <1>1, WFMin
<1>3. ASSUME NEW m \in S PROVE n <= m
  <2>1. ~ (<<m, n>> \in R) /\ n \in Nat /\ m \in Nat
    BY <1>2
  <2> QED BY <2>1
<1> QED BY <1>3

\* What the function that Remaining defines has at i.
RemainingAt(list, gone, f, i) ==
    IF i = 0 THEN <<>>
    ELSE IF i \in gone THEN f[i - 1] ELSE Append(f[i - 1], list[i])

Remains(list, gone, n, f) == f = [i \in 0 .. n |-> RemainingAt(list, gone, f, i)]

\* There is such a function up to every n: the first without would follow one with.
LEMMA RemainsExists ==
    ASSUME NEW list, NEW gone, NEW n \in Nat
    PROVE  \E f : Remains(list, gone, n, f)
<1> DEFINE Bad == {k \in Nat : ~ \E f : Remains(list, gone, k, f)}
<1> SUFFICES ASSUME Bad # {} PROVE FALSE
  OBVIOUS
<1>1. PICK k \in Bad : \A m \in Bad : k <= m
  BY Least
<1>2. CASE k = 0
  <2> DEFINE f == [i \in 0 .. 0 |-> <<>>]
  <2>1. f = [i \in 0 .. 0 |-> RemainingAt(list, gone, f, i)]
    BY DEF RemainingAt
  <2> QED BY <1>2, <2>1 DEF Remains
<1>3. CASE k # 0
  <2>1. k \in Nat /\ k - 1 \in Nat /\ ~ (k <= k - 1)
    BY <1>3
  <2>2. k - 1 \notin Bad
    BY <1>1, <2>1
  <2>3. PICK f : Remains(list, gone, k - 1, f)
    BY <2>1, <2>2
  <2> DEFINE g == [i \in 0 .. k |-> IF i = k THEN RemainingAt(list, gone, f, k) ELSE f[i]]
  <2>4. \A i \in 0 .. k - 1 : f[i] = RemainingAt(list, gone, f, i)
    BY <2>3 DEF Remains
  <2>5. ASSUME NEW i \in 0 .. k PROVE g[i] = RemainingAt(list, gone, g, i)
    <3>1. i # 0 => i - 1 \in 0 .. k - 1 /\ g[i - 1] = f[i - 1]
      BY <2>1
    <3>2. RemainingAt(list, gone, g, i) = RemainingAt(list, gone, f, i)
      BY <3>1 DEF RemainingAt
    <3>3. CASE i = k
      BY <3>2, <3>3
    <3>4. CASE i # k
      <4>1. i \in 0 .. k - 1
        BY <2>1, <3>4
      <4> QED BY <2>4, <3>2, <3>4, <4>1
    <3> QED BY <3>3, <3>4
  <2> HIDE DEF Bad
  <2>6. g = [i \in 0 .. k |-> g[i]]
    OBVIOUS
  <2> HIDE DEF g
  <2>7. g = [i \in 0 .. k |-> RemainingAt(list, gone, g, i)]
    BY <2>5, <2>6
  <2> QED BY <2>7 DEF Remains, Bad
<1> QED BY <1>2, <1>3

\* A walk that takes out the elements at some places leaves all the others.
LEMMA RemainingHolds ==
    ASSUME NEW S, NEW list \in Seq(S), NEW gone
    PROVE  /\ Remaining(list, gone) \in Seq(S)
           /\ ToSet(Remaining(list, gone)) = {list[i] : i \in DOMAIN list \ gone}
<1> DEFINE N == Len(list)
           f == CHOOSE g : Remains(list, gone, N, g)
           Upto(k) == {list[i] : i \in (1 .. k) \ gone}
           Bad == {k \in 0 .. N : ~ (f[k] \in Seq(S) /\ ToSet(f[k]) = Upto(k))}
<1>1. N \in Nat /\ DOMAIN list = 1 .. N /\ \A i \in 1 .. N : list[i] \in S
  BY LenProperties, ElementOfSeq
<1>2. Remaining(list, gone) = f[N]
  BY DEF Remaining, Remains, RemainingAt
<1>3. \A i \in 0 .. N : f[i] = RemainingAt(list, gone, f, i)
  <2>1. Remains(list, gone, N, f)
    BY <1>1, RemainsExists
  <2> HIDE DEF f
  <2> QED BY <2>1 DEF Remains
<1> HIDE DEF f, N
<1>4. Bad = {}
  <2> SUFFICES ASSUME Bad # {} PROVE FALSE
    OBVIOUS
  <2>1. PICK k \in Bad : \A m \in Bad : k <= m
    <3>1. Bad \subseteq Nat
      BY <1>1
    <3> HIDE DEF Bad
    <3> QED BY <3>1, Least
  <2>2. CASE k = 0
    <3>1. f[0] = <<>> /\ <<>> \in Seq(S)
      BY <1>1, <1>3, EmptySeq DEF RemainingAt
    <3>2. ToSet(<<>>) = {} /\ Upto(0) = {}
      BY DEF ToSet
    <3> QED BY <2>1, <2>2, <3>1, <3>2
  <2>3. CASE k # 0
    <3>1. k \in 1 .. N /\ k - 1 \in 0 .. N /\ ~ (k <= k - 1)
      BY <1>1, <2>3
    <3>2. f[k - 1] \in Seq(S) /\ ToSet(f[k - 1]) = Upto(k - 1)
      BY <2>1, <3>1
    <3>3. 1 .. k = (1 .. k - 1) \cup {k}
      BY <1>1, <3>1
    <3>4. CASE k \in gone
      <4>1. f[k] = f[k - 1]
        BY <1>3, <2>3, <3>4 DEF RemainingAt
      <4>2. Upto(k) = Upto(k - 1)
        BY <3>3, <3>4
      <4> QED BY <2>1, <3>2, <4>1, <4>2
    <3>5. CASE k \notin gone
      <4>1. f[k] = Append(f[k - 1], list[k]) /\ list[k] \in S
        BY <1>1, <1>3, <2>3, <3>1, <3>5 DEF RemainingAt
      <4>2. Upto(k) = Upto(k - 1) \cup {list[k]}
        BY <3>3, <3>5
      <4>3. f[k] \in Seq(S) /\ ToSet(f[k]) = ToSet(f[k - 1]) \cup {list[k]}
        BY <3>2, <4>1, AppendProperties, AppendHolds
      <4> QED BY <2>1, <3>2, <4>2, <4>3
    <3> QED BY <3>4, <3>5
  <2> QED BY <2>2, <2>3
<1>5. f[N] \in Seq(S) /\ ToSet(f[N]) = Upto(N)
  <2>1. N \in 0 .. N
    BY <1>1
  <2> HIDE DEF Upto
  <2> QED BY <1>4, <2>1
<1> QED BY <1>1, <1>2, <1>5

\* Of the finitely many elements of an order, one has none before it: that which
\* has the fewest.
LEMMA Minimal ==
    ASSUME NEW S, IsFiniteSet(S), S # {}, NEW R,
           \A x \in S : <<x, x>> \notin R,
           \A x, y, z \in S : <<x, y>> \in R /\ <<y, z>> \in R => <<x, z>> \in R
    PROVE  \E m \in S : \A x \in S : <<x, m>> \notin R
<1> DEFINE below == [m \in S |-> {x \in S : <<x, m>> \in R}]
           size == [m \in S |-> Cardinality(below[m])]
           B == {size[m] : m \in S}
<1>1. ASSUME NEW m \in S
      PROVE  below[m] \in SUBSET S /\ IsFiniteSet(below[m]) /\ size[m] = Cardinality(below[m]) /\ size[m] \in Nat
  <2>1. below[m] \in SUBSET S /\ size[m] = Cardinality(below[m])
    OBVIOUS
  <2> HIDE DEF below
  <2> QED BY <2>1, FS_Subset, FS_CardinalityType
<1>2. \A m, x \in S : x \in below[m] <=> <<x, m>> \in R
  OBVIOUS
<1> HIDE DEF below, size
<1>3. B \subseteq Nat /\ B # {}
  BY <1>1
<1>4. PICK b \in B : \A n \in B : b <= n
  BY <1>3, Least
<1>5. PICK m \in S : b = size[m]
  OBVIOUS
<1>6. \A x \in S : size[m] <= size[x]
  BY <1>4, <1>5
<1>7. ASSUME NEW x \in S, <<x, m>> \in R PROVE FALSE
  <2>1. \A y \in below[x] : y \in below[m]
    <3> SUFFICES ASSUME NEW y \in S, <<y, x>> \in R PROVE <<y, m>> \in R
      BY <1>1, <1>2
    <3> QED BY <1>7
  <2>2. x \in below[m] /\ x \notin below[x]
    BY <1>2, <1>7
  <2>3. below[x] \in SUBSET below[m] /\ below[x] # below[m]
    BY <2>1, <2>2
  <2>4. size[x] <= size[m] /\ size[x] # size[m]
    BY <1>1, <2>3, FS_Subset
  <2> QED BY <1>1, <1>6, <2>4
<1> QED BY <1>7

\* Finitely many numbers have a greatest.
LEMMA Greatest ==
    ASSUME NEW S, S \subseteq Nat, IsFiniteSet(S), S # {}
    PROVE  \E n \in S : \A m \in S : m <= n
<1> DEFINE R == {xy \in Nat \X Nat : xy[1] > xy[2]}
<1>1. \A x, y \in S : x \in Nat /\ y \in Nat /\ (<<x, y>> \in R <=> x > y)
  OBVIOUS
<1> HIDE DEF R
<1>2. PICK n \in S : \A x \in S : <<x, n>> \notin R
  <2>1. \A x \in S : <<x, x>> \notin R
    BY <1>1
  <2>2. \A x, y, z \in S : <<x, y>> \in R /\ <<y, z>> \in R => <<x, z>> \in R
    BY <1>1
  <2> QED BY <2>1, <2>2, Minimal
<1>3. ASSUME NEW m \in S PROVE m <= n
  <2>1. ~ (m > n) /\ m \in Nat /\ n \in Nat
    BY <1>1, <1>2
  <2> QED BY <2>1
<1> QED BY <1>3
=============================================================================
