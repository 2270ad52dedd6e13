----------------------------- MODULE DataProofs -----------------------------
(* What the algorithms over data compute, for inputs of any size: the sums of  *)
(* usage and the placement of containers. Both rest on induction over the      *)
(* natural numbers, which is stated for sets: a property is the set of numbers *)
(* that have it.                                                               *)
EXTENDS Metering, Placement, SequenceTheorems, WellFoundedInduction, TLAPS

-----------------------------------------------------------------------------
(* Induction and recursion *)

\* A set of natural numbers that is not empty has a least member.
LEMMA LeastNumber == ASSUME NEW T \in SUBSET Nat, T # {} PROVE \E m \in T : \A n \in T : m <= n
<1> DEFINE R == OpToRel(<, Nat)
<1>1. \E x \in T : \A y \in T : ~(<<y, x>> \in R)
  <2> HIDE DEF R
  <2>1. IsWellFoundedOn(R, Nat)
    BY NatLessThanWellFounded, Zenon DEF R
  <2> QED
    BY <2>1, WFMin
<1>2. \A x, y \in Nat : <<y, x>> \in R <=> y < x
  BY DEF OpToRel
<1> HIDE DEF R
<1>3. \A x, y \in T : <<y, x>> \in R <=> y < x
  BY <1>2
<1>4. PICK m \in T : \A n \in T : ~(<<n, m>> \in R)
  BY <1>1
<1>5. \A n \in T : ~(n < m)
  BY <1>3, <1>4
<1>6. \A n \in T : m <= n
  BY <1>5
<1> QED
  BY <1>6

\* Induction: a set that has 0 and with n also n + 1 has every natural number.
LEMMA Induction == ASSUME NEW T, 0 \in T, \A n \in Nat : n \in T => n + 1 \in T PROVE Nat \subseteq T
<1> SUFFICES ASSUME Nat \ T # {} PROVE FALSE
  OBVIOUS
<1>1. PICK m \in Nat \ T : \A n \in Nat \ T : m <= n
  BY LeastNumber
<1>2. m # 0 /\ m - 1 \in Nat
  BY <1>1
<1>3. m - 1 \in T
  BY <1>1, <1>2
<1> QED
  BY <1>1, <1>2, <1>3

\* f begins with b and goes on as g says.
Recurs(f, b, g) == f[0] = b /\ \A n \in Nat : f[n + 1] = g[<<n, f[n]>>]

\* Primitive recursion: a first value and a way to go on determine a function.
LEMMA Recursion ==
    ASSUME NEW X, NEW b \in X, NEW g \in [Nat \X X -> X]
    PROVE  \E f \in [Nat -> X] : Recurs(f, b, g)
<1> DEFINE Starts(n) == {h \in [0..n -> X] : h[0] = b /\ \A i \in 0..(n - 1) : h[i + 1] = g[<<i, h[i]>>]}
<1>1. \A n \in Nat : Starts(n) # {}
  <2> DEFINE T == {n \in Nat : Starts(n) # {}}
  <2>1. 0 \in T
    <3>1. [i \in 0..0 |-> b] \in Starts(0)
      OBVIOUS
    <3> QED
      BY <3>1
  <2>2. ASSUME NEW n \in Nat, n \in T PROVE n + 1 \in T
    <3>1. PICK h \in Starts(n) : TRUE
      BY <2>2
    <3> DEFINE e == [i \in 0..(n + 1) |-> IF i = n + 1 THEN g[<<n, h[n]>>] ELSE h[i]]
    <3>2. h \in [0..n -> X] /\ h[n] \in X /\ g[<<n, h[n]>>] \in X
      OBVIOUS
    <3>3. e \in [0..(n + 1) -> X]
      BY <3>2
    <3>4. e[0] = b
      OBVIOUS
    <3>5. ASSUME NEW i \in 0..n PROVE e[i + 1] = g[<<i, e[i]>>]
      <4>1. CASE i = n
        <5>1. n + 1 \in 0..(n + 1) /\ n \in 0..(n + 1) /\ n # n + 1
          OBVIOUS
        <5>2. e[n + 1] = g[<<n, h[n]>>] /\ e[n] = h[n]
          BY <5>1
        <5> QED
          BY <4>1, <5>2
      <4>2. CASE i # n
        <5>1. i \in 0..(n - 1) /\ i + 1 # n + 1 /\ i # n + 1 /\ i + 1 \in 0..(n + 1) /\ i \in 0..(n + 1)
          BY <4>2
        <5>2. e[i + 1] = h[i + 1] /\ e[i] = h[i]
          BY <5>1
        <5>3. h[i + 1] = g[<<i, h[i]>>]
          BY <5>1
        <5> QED
          BY <5>2, <5>3
      <4> QED
        BY <4>1, <4>2
    <3>6. (n + 1) - 1 = n
      OBVIOUS
    <3>7. e \in Starts(n + 1)
      <4> HIDE DEF e
      <4> QED
        BY <3>3, <3>4, <3>5, <3>6
    <3> HIDE DEF Starts, e
    <3>8. Starts(n + 1) # {} /\ n + 1 \in Nat
      BY <3>7
    <3> QED
      BY <3>8
  <2> HIDE DEF T
  <2>3. Nat \subseteq T
    BY <2>1, <2>2, Induction
  <2> QED
    BY <2>3 DEF T
<1>2. ASSUME NEW n \in Nat, NEW h \in Starts(n), NEW e \in Starts(n + 1) PROVE \A i \in Nat : i <= n => h[i] = e[i]
  <2> DEFINE T == {i \in Nat : i <= n => h[i] = e[i]}
  <2>1. 0 \in T
    OBVIOUS
  <2>2. ASSUME NEW i \in Nat, i \in T PROVE i + 1 \in T
    <3>1. CASE i + 1 <= n
      <4>1. i \in 0..(n - 1) /\ i \in 0..((n + 1) - 1)
        BY <3>1
      <4>2. h[i + 1] = g[<<i, h[i]>>] /\ e[i + 1] = g[<<i, e[i]>>] /\ h[i] = e[i]
        BY <2>2, <4>1
      <4> QED
        BY <4>2
    <3> QED
      BY <3>1
  <2> HIDE DEF T
  <2>3. Nat \subseteq T
    BY <2>1, <2>2, Induction
  <2> QED
    BY <2>3 DEF T
<1> DEFINE P(n) == CHOOSE h : h \in Starts(n)
           F == [n \in Nat |-> P(n)[n]]
<1>3. ASSUME NEW n \in Nat PROVE P(n) \in Starts(n)
  <2> HIDE DEF Starts
  <2> QED
    BY <1>1
<1> HIDE DEF P
<1>4. F \in [Nat -> X]
  <2> SUFFICES ASSUME NEW n \in Nat PROVE P(n)[n] \in X
    OBVIOUS
  <2>1. P(n) \in [0..n -> X]
    BY <1>3
  <2> QED
    BY <2>1
<1>5. F[0] = b
  BY <1>3
<1>6. ASSUME NEW n \in Nat PROVE F[n + 1] = g[<<n, F[n]>>]
  <2>1. P(n) \in Starts(n) /\ P(n + 1) \in Starts(n + 1)
    BY <1>3
  <2>2. F[n] = P(n)[n] /\ F[n + 1] = P(n + 1)[n + 1]
    OBVIOUS
  <2>3. P(n)[n] = P(n + 1)[n]
    BY <1>2, <2>1, SMTT(60)
  <2>4. n \in 0..((n + 1) - 1)
    OBVIOUS
  <2>5. P(n + 1)[n + 1] = g[<<n, P(n + 1)[n]>>]
    BY <2>1, <2>4
  <2> QED
    BY <2>2, <2>3, <2>5
<1> HIDE DEF F
<1> QED
  BY <1>4, <1>5, <1>6 DEF Recurs

-----------------------------------------------------------------------------
(* Sums of usage *)

\* SumUpTo meets its recursive equation, and sums natural numbers to natural numbers.
LEMMA SumEquation ==
    ASSUME NEW q \in [Days -> Nat]
    PROVE  /\ SumUpTo(q) \in [Days -> Nat]
           /\ SumUpTo(q)[0] = q[0]
           /\ \A d \in Days : d # 0 => SumUpTo(q)[d] = SumUpTo(q)[d - 1] + q[d]
<1>0. LastDay \in Nat /\ 0 \in Days /\ \A d \in Days : d \in Nat /\ (d # 0 => d - 1 \in Days)
  BY MeteringAssumption DEF Days
<1> DEFINE g == [k \in Nat \X Nat |-> IF k[1] + 1 \in Days THEN k[2] + q[k[1] + 1] ELSE k[2]]
           Eq(s) == s = [d \in Days |-> IF d = 0 THEN q[0] ELSE s[d - 1] + q[d]]
<1>1. g \in [Nat \X Nat -> Nat]
  OBVIOUS
<1>2. PICK f \in [Nat -> Nat] : f[0] = q[0] /\ \A n \in Nat : f[n + 1] = g[<<n, f[n]>>]
  <2>1. q[0] \in Nat
    BY <1>0
  <2> HIDE DEF g
  <2>2. \E f \in [Nat -> Nat] : Recurs(f, q[0], g)
    BY <1>1, <2>1, Recursion
  <2> QED
    BY <2>2 DEF Recurs
<1>3. ASSUME NEW d \in Days, d # 0 PROVE f[d] = f[d - 1] + q[d]
  <2>1. d - 1 \in Nat /\ (d - 1) + 1 = d
    BY <1>0, <1>3
  <2>2. f[d] = g[<<d - 1, f[d - 1]>>]
    BY <1>2, <2>1
  <2> QED
    BY <2>1, <2>2
<1> HIDE DEF g
<1>4. Eq([d \in Days |-> f[d]])
  BY <1>0, <1>2, <1>3
<1>5. SumUpTo(q) = CHOOSE s : Eq(s)
  BY DEF SumUpTo
<1>6. Eq(SumUpTo(q))
  <2> HIDE DEF Eq
  <2>1. \E s : Eq(s)
    BY <1>4
  <2>2. Eq(CHOOSE s : Eq(s))
    BY <2>1, Zenon
  <2> QED
    BY <1>5, <2>2, Zenon
<1>7. /\ SumUpTo(q)[0] = q[0]
      /\ \A d \in Days : d # 0 => SumUpTo(q)[d] = SumUpTo(q)[d - 1] + q[d]
  BY <1>0, <1>6
<1>8. \A d \in Days : SumUpTo(q)[d] \in Nat
  <2> DEFINE T == {n \in Nat : n \in Days => SumUpTo(q)[n] \in Nat}
  <2>1. 0 \in T
    BY <1>0, <1>7
  <2>2. ASSUME NEW n \in Nat, n \in T PROVE n + 1 \in T
    <3>1. n + 1 \in Days => n \in Days /\ n + 1 # 0 /\ (n + 1) - 1 = n
      BY <1>0 DEF Days
    <3> QED
      BY <1>7, <2>2, <3>1
  <2>3. Nat \subseteq T
    <3> HIDE DEF T
    <3> QED
      BY <2>1, <2>2, Induction
  <2> QED
    BY <1>0, <2>3
<1>9. SumUpTo(q) \in [Days -> Nat]
  BY <1>6, <1>8
<1> QED
  BY <1>7, <1>9

\* Fewer records on every day add up to less.
LEMMA SumMonotone ==
    ASSUME NEW q \in [Days -> Nat], NEW r \in [Days -> Nat], \A d \in Days : q[d] <= r[d]
    PROVE  SumUpTo(q)[LastDay] <= SumUpTo(r)[LastDay]
<1>0. LastDay \in Days /\ Days \subseteq Nat /\ 0 \in Days
  BY MeteringAssumption DEF Days
<1> DEFINE T == {n \in Nat : n \in Days => SumUpTo(q)[n] <= SumUpTo(r)[n]}
<1>1. 0 \in T
  BY <1>0, SumEquation
<1>2. ASSUME NEW n \in Nat, n \in T PROVE n + 1 \in T
  <2> SUFFICES ASSUME n + 1 \in Days PROVE SumUpTo(q)[n + 1] <= SumUpTo(r)[n + 1]
    OBVIOUS
  <2>1. n \in Days /\ n + 1 # 0 /\ (n + 1) - 1 = n
    BY MeteringAssumption DEF Days
  <2>2. SumUpTo(q)[n + 1] = SumUpTo(q)[n] + q[n + 1] /\ SumUpTo(r)[n + 1] = SumUpTo(r)[n] + r[n + 1]
    BY <2>1, SumEquation
  <2>3. SumUpTo(q)[n] \in Nat /\ SumUpTo(r)[n] \in Nat /\ q[n + 1] \in Nat /\ r[n + 1] \in Nat
    BY <2>1, SumEquation
  <2> QED
    BY <1>2, <2>1, <2>2, <2>3
<1>3. Nat \subseteq T
  <2> HIDE DEF T
  <2> QED
    BY <1>1, <1>2, Induction
<1> QED
  BY <1>0, <1>3

\* A record adds its quantity to the sum, once.
LEMMA SumAdds ==
    ASSUME NEW q \in [Days -> Nat], NEW day \in Days, NEW x \in Nat, NEW r \in [Days -> Nat],
           \A d \in Days : r[d] = IF d = day THEN q[d] + x ELSE q[d]
    PROVE  SumUpTo(r)[LastDay] = SumUpTo(q)[LastDay] + x
<1>0. LastDay \in Days /\ Days \subseteq Nat /\ 0 \in Days /\ day <= LastDay
  BY MeteringAssumption DEF Days
<1> DEFINE T == {n \in Nat : n \in Days => SumUpTo(r)[n] = SumUpTo(q)[n] + (IF day <= n THEN x ELSE 0)}
<1>1. 0 \in T
  <2>1. SumUpTo(r)[0] = r[0] /\ SumUpTo(q)[0] = q[0] /\ q[0] \in Nat
    BY <1>0, SumEquation
  <2> QED
    BY <1>0, <2>1
<1>2. ASSUME NEW n \in Nat, n \in T PROVE n + 1 \in T
  <2> SUFFICES ASSUME n + 1 \in Days PROVE SumUpTo(r)[n + 1] = SumUpTo(q)[n + 1] + (IF day <= n + 1 THEN x ELSE 0)
    OBVIOUS
  <2>1. n \in Days /\ n + 1 # 0 /\ (n + 1) - 1 = n
    BY MeteringAssumption DEF Days
  <2>2. SumUpTo(q)[n + 1] = SumUpTo(q)[n] + q[n + 1] /\ SumUpTo(r)[n + 1] = SumUpTo(r)[n] + r[n + 1]
    BY <2>1, SumEquation
  <2>3. SumUpTo(q)[n] \in Nat /\ SumUpTo(r)[n] \in Nat /\ q[n + 1] \in Nat /\ r[n + 1] \in Nat
    BY <2>1, SumEquation
  <2>4. SumUpTo(r)[n] = SumUpTo(q)[n] + (IF day <= n THEN x ELSE 0)
    BY <1>2, <2>1
  <2>5. r[n + 1] = IF n + 1 = day THEN q[n + 1] + x ELSE q[n + 1]
    OBVIOUS
  <2> QED
    BY <1>0, <2>2, <2>3, <2>4, <2>5
<1>3. Nat \subseteq T
  <2> HIDE DEF T
  <2> QED
    BY <1>1, <1>2, Induction
<1>4. SumUpTo(r)[LastDay] = SumUpTo(q)[LastDay] + (IF day <= LastDay THEN x ELSE 0)
  BY <1>0, <1>3
<1> QED
  BY <1>0, <1>4

-----------------------------------------------------------------------------
(* Usage is counted once *)

Decision == [allowed : BOOLEAN, readable : BOOLEAN, delta : Deltas, used : Nat, rolled : Nat]

UsageType ==
    /\ uday \in Days
    /\ raw \in [Days \X Days -> Nat]
    /\ rollups \in [Days -> Nat \cup {NoRow}] /\ snapshots \in [Days -> Nat \cup {NoRow}]
    /\ everUsed \in [Days -> Nat]
    /\ decided \in [Meters -> Decision \cup {NoRow}]

\* The records of a period by the day they were made.
RecordsOf(table, p) == [d \in Days |-> table[<<p, d>>]]

\* The records of a period, and what the rollup says of it, are numbers.
LEMMA UsageNumbers ==
    ASSUME UsageType, NEW p \in Days
    PROVE  /\ RecordsOf(raw, p) \in [Days -> Nat]
           /\ RawTotal(p) = SumUpTo(RecordsOf(raw, p))[LastDay]
           /\ RawTotal(p) \in Nat /\ CurrentUsage(p) \in Nat
<1>0. LastDay \in Days
  BY MeteringAssumption DEF Days
<1>1. RecordsOf(raw, p) \in [Days -> Nat]
  BY DEF UsageType, RecordsOf
<1>2. RawTotal(p) = SumUpTo(RecordsOf(raw, p))[LastDay]
  BY DEF RawTotal, RecordsOf
<1>3. SumUpTo(RecordsOf(raw, p))[LastDay] \in Nat
  BY <1>0, <1>1, SumEquation
<1>4. CurrentUsage(p) \in Nat
  BY DEF UsageType, CurrentUsage
<1> QED
  BY <1>1, <1>2, <1>3, <1>4

\* Without records the total is 0.
LEMMA NoRecords ==
    ASSUME NEW q \in [Days -> Nat], \A d \in Days : q[d] = 0
    PROVE  SumUpTo(q)[LastDay] = 0
<1>0. LastDay \in Days /\ Days \subseteq Nat /\ 0 \in Days
  BY MeteringAssumption DEF Days
<1> DEFINE T == {n \in Nat : n \in Days => SumUpTo(q)[n] = 0}
<1>1. 0 \in T
  BY <1>0, SumEquation
<1>2. ASSUME NEW n \in Nat, n \in T PROVE n + 1 \in T
  <2> SUFFICES ASSUME n + 1 \in Days PROVE SumUpTo(q)[n + 1] = 0
    OBVIOUS
  <2>1. n \in Days /\ n + 1 # 0 /\ (n + 1) - 1 = n
    BY MeteringAssumption DEF Days
  <2>2. SumUpTo(q)[n + 1] = SumUpTo(q)[n] + q[n + 1]
    BY <2>1, SumEquation
  <2> QED
    BY <1>2, <2>1, <2>2
<1>3. Nat \subseteq T
  <2> HIDE DEF T
  <2> QED
    BY <1>1, <1>2, Induction
<1> QED
  BY <1>0, <1>3

\* A period's records are made on its day or later.
RecordedSince == \A p, d \in Days : raw[<<p, d>>] # 0 => p <= d

UsageInv == UsageType /\ RecordedSince /\ UsageTrue

\* Nothing is used at first.
LEMMA UsageInitially == MeteringInit => UsageInv
<1> SUFFICES ASSUME MeteringInit PROVE UsageInv
  OBVIOUS
<1>1. UsageType
  BY MeteringAssumption DEF MeteringInit, UsageType, Days
<1>2. ASSUME NEW p \in Days PROVE RawTotal(p) = 0
  <2>1. RecordsOf(raw, p) \in [Days -> Nat] /\ RawTotal(p) = SumUpTo(RecordsOf(raw, p))[LastDay]
    BY <1>1, UsageNumbers
  <2>2. \A d \in Days : RecordsOf(raw, p)[d] = 0
    BY DEF MeteringInit, RecordsOf
  <2> QED
    BY <2>1, <2>2, NoRecords
<1>3. UsageCountedOnce
  BY <1>2 DEF MeteringInit, UsageCountedOnce, CurrentUsage
<1>4. AllowedWithinLimit
  BY DEF MeteringInit, AllowedWithinLimit
<1>5. RecentComplete
  BY <1>2 DEF MeteringInit, RecentComplete
<1>6. RecordedSince
  BY DEF MeteringInit, RecordedSince
<1> QED
  BY <1>1, <1>3, <1>4, <1>5, <1>6 DEF UsageInv, UsageTrue

\* cleanRawUsage only takes away, and only records of the day of the cut-off and before.
LEMMA PurgeLeaves ==
    ASSUME UsageType, CleanRawUsage
    PROVE  /\ raw' \in [Days \X Days -> Nat]
           /\ \A p, d \in Days : raw'[<<p, d>>] <= raw[<<p, d>>] /\ (d + RawRetention > uday => raw'[<<p, d>>] = raw[<<p, d>>])
<1> DEFINE cutoff == uday - RawRetention
           After(left, k) == IF k[2] < cutoff THEN 0 ELSE IF k[2] = cutoff /\ k[1] <= cutoff THEN left[k[1]] ELSE raw[k]
<1>0. Days \subseteq Nat /\ uday \in Nat /\ RawRetention \in Nat /\ MaxUsage \in Nat /\ cutoff \in Int
  BY MeteringAssumption DEF UsageType, Days
<1>1. PICK left \in [0..cutoff -> 0..MaxUsage] :
        /\ \A p \in 0..cutoff : left[p] <= raw[<<p, cutoff>>]
        /\ raw' = [k \in DOMAIN raw |-> After(left, k)]
  BY DEF CleanRawUsage
<1>2. DOMAIN raw = Days \X Days /\ \A p, d \in Days : raw[<<p, d>>] \in Nat
  BY DEF UsageType
<1>3. ASSUME NEW p \in Days, NEW d \in Days
      PROVE  /\ After(left, <<p, d>>) \in Nat /\ After(left, <<p, d>>) <= raw[<<p, d>>]
             /\ d + RawRetention > uday => After(left, <<p, d>>) = raw[<<p, d>>]
  <2>1. raw[<<p, d>>] \in Nat /\ p \in Nat /\ d \in Nat
    BY <1>0, <1>2
  <2>2. CASE d < cutoff
    BY <1>0, <2>1, <2>2
  <2>3. CASE d = cutoff /\ p <= cutoff
    <3>1. p \in 0..cutoff
      BY <1>0, <2>1, <2>3
    <3>2. left[p] \in Nat /\ left[p] <= raw[<<p, d>>]
      <4> HIDE DEF cutoff
      <4>1. left[p] \in 0..MaxUsage
        BY <1>1, <3>1
      <4>2. left[p] <= raw[<<p, cutoff>>]
        BY <1>1, <3>1
      <4> QED
        BY <1>0, <2>3, <4>1, <4>2
    <3>3. After(left, <<p, d>>) = left[p]
      <4>1. <<p, d>>[1] = p /\ <<p, d>>[2] = d /\ ~(cutoff < cutoff)
        BY <1>0
      <4> HIDE DEF cutoff
      <4> QED
        BY <2>3, <4>1
    <3> QED
      BY <1>0, <2>1, <2>3, <3>2, <3>3
  <2>4. CASE ~(d < cutoff) /\ ~(d = cutoff /\ p <= cutoff)
    BY <1>0, <2>1, <2>4
  <2> QED
    BY <2>2, <2>3, <2>4
<1> HIDE DEF After
<1>4. \A p, d \in Days : raw'[<<p, d>>] = After(left, <<p, d>>)
  BY <1>1, <1>2
<1>5. raw' \in [Days \X Days -> Nat]
  <2>1. \A k \in Days \X Days : After(left, k) \in Nat
    <3> TAKE k \in Days \X Days
    <3>1. PICK p \in Days, d \in Days : k = <<p, d>>
      OBVIOUS
    <3> QED
      BY <1>3, <3>1
  <2> QED
    BY <1>1, <1>2, <2>1
<1> QED
  BY <1>3, <1>4, <1>5

\* The steps keep the rows what they are.
LEMMA UsageTypes == ASSUME UsageType, MeteringNext PROVE UsageType'
<1>0. Days \subseteq Nat /\ LastDay \in Nat /\ 0..uday \subseteq Days /\ uday \in Nat
  BY MeteringAssumption DEF UsageType, Days
<1>1. CASE UsageDay
  <2>1. uday' \in Days
    BY <1>0, <1>1 DEF UsageDay, Days
  <2> QED
    BY <1>1, <2>1 DEF UsageType, UsageDay
<1>2. CASE HandleUsageRollup
  <2>1. PICK period \in 0..uday : RollupUsage(period)
    BY <1>2 DEF HandleUsageRollup
  <2>2. period \in Days /\ RawTotal(period) \in Nat
    BY <1>0, UsageNumbers
  <2>3. rollups' \in [Days -> Nat \cup {NoRow}]
    BY <2>1, <2>2 DEF UsageType, RollupUsage
  <2> QED
    BY <2>1, <2>3 DEF UsageType, RollupUsage
<1>3. CASE AggregateDaily
  <2>1. PICK period \in 0..uday : snapshots' = [snapshots EXCEPT ![period] = CurrentUsage(period)]
    BY <1>3 DEF AggregateDaily
  <2>2. period \in Days /\ CurrentUsage(period) \in Nat
    BY <1>0, UsageNumbers
  <2>3. snapshots' \in [Days -> Nat \cup {NoRow}]
    BY <2>1, <2>2 DEF UsageType
  <2> QED
    BY <1>3, <2>3 DEF UsageType, AggregateDaily
<1>4. CASE CleanRawUsage
  <2>1. raw' \in [Days \X Days -> Nat]
    BY <1>4, PurgeLeaves
  <2> QED
    BY <1>4, <2>1 DEF UsageType, CleanRawUsage
<1>5. ASSUME NEW w \in Meters, NEW delta \in Deltas, NEW readable \in BOOLEAN, Enforce(w, delta, readable) PROVE UsageType'
  <2>1. everUsed[uday] \in Nat /\ CurrentUsage(uday) \in Nat
    BY <1>0, UsageNumbers DEF UsageType
  <2>2. [allowed |-> ~readable \/ Allowed(delta), readable |-> readable, delta |-> delta,
         used |-> everUsed[uday], rolled |-> CurrentUsage(uday)] \in Decision
    <3>1. (~readable \/ Allowed(delta)) \in BOOLEAN
      BY DEF Allowed
    <3> HIDE DEF Allowed
    <3> QED
      BY <2>1, <3>1 DEF Decision
  <2>3. decided' \in [Meters -> Decision \cup {NoRow}]
    BY <1>5, <2>2 DEF UsageType, Enforce
  <2> QED
    BY <1>5, <2>3 DEF UsageType, Enforce
<1>6. ASSUME NEW w \in Meters, NEW p \in 0..uday, RecordUsage(w, p) PROVE UsageType'
  <2>1. p \in Days /\ decided[w].delta \in Nat
    BY <1>0, <1>6, MeteringAssumption DEF UsageType, RecordUsage, Decision
  <2>2. raw' \in [Days \X Days -> Nat] /\ everUsed' \in [Days -> Nat]
    BY <1>6, <2>1 DEF UsageType, RecordUsage
  <2>3. decided' \in [Meters -> Decision \cup {NoRow}]
    BY <1>6 DEF UsageType, RecordUsage
  <2> QED
    BY <1>6, <2>2, <2>3 DEF UsageType, RecordUsage
<1> QED
  BY <1>1, <1>2, <1>3, <1>4, <1>5, <1>6 DEF MeteringNext

\* The steps count no record twice.
LEMMA UsageCounts == ASSUME UsageType, UsageCountedOnce, MeteringNext PROVE UsageCountedOnce'
<1>0. Days \subseteq Nat /\ uday \in Days /\ 0..uday \subseteq Days
  BY MeteringAssumption DEF UsageType, Days
<1>t. UsageType'
  BY UsageTypes
<1>n. ASSUME NEW p \in Days
      PROVE  /\ RawTotal(p) \in Nat /\ CurrentUsage(p) \in Nat /\ everUsed[p] \in Nat
             /\ RawTotal(p) <= everUsed[p] /\ CurrentUsage(p) <= everUsed[p]
             /\ snapshots[p] # NoRow => snapshots[p] <= everUsed[p]
  BY UsageNumbers DEF UsageType, UsageCountedOnce
<1>r. ASSUME raw' = raw, NEW p \in Days PROVE RawTotal(p)' = RawTotal(p)
  BY <1>r DEF RawTotal
<1>c. ASSUME rollups' = rollups, NEW p \in Days PROVE CurrentUsage(p)' = CurrentUsage(p)
  BY <1>c DEF CurrentUsage
<1> SUFFICES ASSUME NEW p \in Days
             PROVE  /\ RawTotal(p)' <= everUsed'[p] /\ CurrentUsage(p)' <= everUsed'[p]
                    /\ snapshots'[p] # NoRow => snapshots'[p] <= everUsed'[p]
  BY DEF UsageCountedOnce
<1>1. CASE UsageDay
  BY <1>1, <1>n, <1>r, <1>c DEF UsageDay
<1>2. CASE HandleUsageRollup
  <2>1. PICK period \in 0..uday : RollupUsage(period)
    BY <1>2 DEF HandleUsageRollup
  <2>2. CurrentUsage(p)' = CurrentUsage(p) \/ CurrentUsage(p)' = RawTotal(p)
    <3>1. CASE p = period /\ RawTotal(period) # 0
      <4>1. rollups'[p] = RawTotal(p) /\ RawTotal(p) # NoRow
        BY <1>n, <2>1, <3>1, MeteringAssumption DEF RollupUsage, UsageType
      <4> QED
        BY <4>1 DEF CurrentUsage
    <3>2. CASE ~(p = period /\ RawTotal(period) # 0)
      <4>1. rollups'[p] = rollups[p]
        BY <2>1, <3>2 DEF RollupUsage, UsageType
      <4> QED
        BY <4>1 DEF CurrentUsage
    <3> QED
      BY <3>1, <3>2
  <2>3. RawTotal(p)' = RawTotal(p) /\ everUsed' = everUsed /\ snapshots' = snapshots
    BY <1>r, <2>1 DEF RollupUsage
  <2> QED
    BY <1>n, <2>2, <2>3
<1>3. CASE AggregateDaily
  <2>1. PICK period \in 0..uday : snapshots' = [snapshots EXCEPT ![period] = CurrentUsage(period)]
    BY <1>3 DEF AggregateDaily
  <2>2. snapshots'[p] = snapshots[p] \/ snapshots'[p] = CurrentUsage(p)
    BY <2>1 DEF UsageType
  <2>3. RawTotal(p)' = RawTotal(p) /\ CurrentUsage(p)' = CurrentUsage(p) /\ everUsed' = everUsed
    BY <1>3, <1>r, <1>c DEF AggregateDaily
  <2> QED
    BY <1>n, <2>2, <2>3
<1>4. CASE CleanRawUsage
  <2>1. RecordsOf(raw, p) \in [Days -> Nat] /\ RawTotal(p) = SumUpTo(RecordsOf(raw, p))[LastDay]
    BY UsageNumbers
  <2>2. RecordsOf(raw', p) \in [Days -> Nat] /\ RawTotal(p)' = SumUpTo(RecordsOf(raw', p))[LastDay]
    BY <1>t DEF UsageType, RecordsOf, RawTotal
  <2>3. \A d \in Days : RecordsOf(raw', p)[d] <= RecordsOf(raw, p)[d]
    BY <1>4, PurgeLeaves DEF RecordsOf
  <2>4. RawTotal(p)' <= RawTotal(p)
    BY <2>1, <2>2, <2>3, SumMonotone
  <2>5. RawTotal(p)' \in Nat
    <3>1. LastDay \in Days
      BY MeteringAssumption DEF Days
    <3> QED
      BY <2>2, <3>1, SumEquation
  <2>6. CurrentUsage(p)' = CurrentUsage(p) /\ everUsed' = everUsed /\ snapshots' = snapshots
    BY <1>4, <1>c DEF CleanRawUsage
  <2> QED
    BY <1>n, <2>4, <2>5, <2>6
<1>5. ASSUME NEW w \in Meters, NEW delta \in Deltas, NEW readable \in BOOLEAN, Enforce(w, delta, readable)
      PROVE  /\ RawTotal(p)' <= everUsed'[p] /\ CurrentUsage(p)' <= everUsed'[p]
             /\ snapshots'[p] # NoRow => snapshots'[p] <= everUsed'[p]
  BY <1>5, <1>n, <1>r, <1>c DEF Enforce
<1>6. ASSUME NEW w \in Meters, NEW period \in 0..uday, RecordUsage(w, period)
      PROVE  /\ RawTotal(p)' <= everUsed'[p] /\ CurrentUsage(p)' <= everUsed'[p]
             /\ snapshots'[p] # NoRow => snapshots'[p] <= everUsed'[p]
  <2> DEFINE x == decided[w].delta
  <2>1. x \in Nat /\ period \in Days
    BY <1>0, <1>6, MeteringAssumption DEF UsageType, RecordUsage, Decision
  <2>2. /\ raw' = [raw EXCEPT ![<<period, uday>>] = @ + x]
        /\ everUsed' = [everUsed EXCEPT ![period] = @ + x]
        /\ rollups' = rollups /\ snapshots' = snapshots
    BY <1>6 DEF RecordUsage
  <2> HIDE DEF x
  <2>3. RecordsOf(raw, p) \in [Days -> Nat] /\ RawTotal(p) = SumUpTo(RecordsOf(raw, p))[LastDay]
    BY UsageNumbers
  <2>4. RecordsOf(raw', p) \in [Days -> Nat] /\ RawTotal(p)' = SumUpTo(RecordsOf(raw', p))[LastDay]
    BY <1>t DEF UsageType, RecordsOf, RawTotal
  <2>5. CASE p = period
    <3>1. \A d \in Days : RecordsOf(raw', p)[d] = IF d = uday THEN RecordsOf(raw, p)[d] + x ELSE RecordsOf(raw, p)[d]
      BY <2>2, <2>5 DEF RecordsOf, UsageType
    <3>2. RawTotal(p)' = RawTotal(p) + x
      <4> DEFINE q == RecordsOf(raw, p)
                 r == RecordsOf(raw', p)
      <4>1. q \in [Days -> Nat] /\ r \in [Days -> Nat] /\ \A d \in Days : r[d] = IF d = uday THEN q[d] + x ELSE q[d]
        BY <2>3, <2>4, <3>1
      <4> HIDE DEF q, r
      <4>2. SumUpTo(r)[LastDay] = SumUpTo(q)[LastDay] + x
        BY <1>0, <2>1, <4>1, SumAdds, ZenonT(60)
      <4> QED
        BY <2>3, <2>4, <4>2 DEF q, r
    <3>3. everUsed'[p] = everUsed[p] + x
      BY <2>2, <2>5 DEF UsageType
    <3>4. CurrentUsage(p)' = CurrentUsage(p)
      BY <1>c, <2>2
    <3>5. snapshots'[p] # NoRow => snapshots[p] \in Nat
      BY <2>2 DEF UsageType
    <3> QED
      BY <1>n, <2>1, <2>2, <3>2, <3>3, <3>4, <3>5
  <2>6. CASE p # period
    <3>1. RecordsOf(raw', p) = RecordsOf(raw, p)
      BY <2>2, <2>6 DEF RecordsOf, UsageType
    <3>2. RawTotal(p)' = RawTotal(p) /\ everUsed'[p] = everUsed[p]
      BY <2>2, <2>3, <2>4, <2>6, <3>1 DEF UsageType
    <3>3. CurrentUsage(p)' = CurrentUsage(p)
      BY <1>c, <2>2
    <3> QED
      BY <1>n, <2>2, <3>2, <3>3
  <2> QED
    BY <2>5, <2>6
<1> QED
  BY <1>1, <1>2, <1>3, <1>4, <1>5, <1>6 DEF MeteringNext

\* The steps keep the records of the recent periods complete: what the purge takes was
\* recorded before the day of such a period, and so is not of it.
LEMMA UsageComplete ==
    ASSUME UsageType, RecordedSince, RecentComplete, MeteringNext
    PROVE  RecordedSince' /\ RecentComplete'
<1>0. Days \subseteq Nat /\ uday \in Days /\ 0..uday \subseteq Days /\ RawRetention \in Nat
  BY MeteringAssumption DEF UsageType, Days
<1>t. UsageType'
  BY UsageTypes
<1>1. ASSUME raw' = raw, everUsed' = everUsed, uday' \in Nat, uday <= uday' PROVE RecordedSince' /\ RecentComplete'
  <2>1. \A p \in Days : RawTotal(p)' = RawTotal(p)
    BY <1>1 DEF RawTotal
  <2>2. \A p \in Days : uday' < p + RawRetention => uday < p + RawRetention
    BY <1>0, <1>1
  <2>3. RecentComplete'
    BY <1>1, <2>1, <2>2 DEF RecentComplete
  <2> QED
    BY <1>1, <2>3 DEF RecordedSince
<1>2. CASE UsageDay
  BY <1>0, <1>1, <1>2 DEF UsageDay
<1>3. CASE HandleUsageRollup
  BY <1>0, <1>1, <1>3 DEF HandleUsageRollup, RollupUsage
<1>4. CASE AggregateDaily
  BY <1>0, <1>1, <1>4 DEF AggregateDaily
<1>5. ASSUME NEW w \in Meters, NEW delta \in Deltas, NEW readable \in BOOLEAN, Enforce(w, delta, readable)
      PROVE  RecordedSince' /\ RecentComplete'
  BY <1>0, <1>1, <1>5 DEF Enforce
<1>6. CASE CleanRawUsage
  <2>1. RecordedSince'
    <3> SUFFICES ASSUME NEW p \in Days, NEW d \in Days, raw'[<<p, d>>] # 0 PROVE p <= d
      BY DEF RecordedSince
    <3>1. raw'[<<p, d>>] \in Nat /\ raw[<<p, d>>] \in Nat /\ raw'[<<p, d>>] <= raw[<<p, d>>]
      BY <1>6, <1>t, PurgeLeaves DEF UsageType
    <3>2. raw[<<p, d>>] # 0
      BY <3>1
    <3> QED
      BY <3>2 DEF RecordedSince
  <2>2. ASSUME NEW p \in Days, uday < p + RawRetention PROVE RawTotal(p)' = RawTotal(p)
    <3>1. ASSUME NEW d \in Days PROVE raw'[<<p, d>>] = raw[<<p, d>>]
      <4>1. CASE d + RawRetention > uday
        BY <1>6, <4>1, PurgeLeaves
      <4>2. CASE ~(d + RawRetention > uday)
        <5>1. ~(p <= d)
          BY <1>0, <2>2, <4>2
        <5>2. raw[<<p, d>>] = 0
          BY <5>1 DEF RecordedSince
        <5>3. raw'[<<p, d>>] \in Nat /\ raw'[<<p, d>>] <= raw[<<p, d>>]
          BY <1>6, <1>t, PurgeLeaves DEF UsageType
        <5> QED
          BY <5>2, <5>3
      <4> QED
        BY <4>1, <4>2
    <3>2. [d \in Days |-> raw'[<<p, d>>]] = [d \in Days |-> raw[<<p, d>>]]
      BY <3>1
    <3> QED
      BY <3>2, Zenon DEF RawTotal
  <2>3. uday' = uday /\ everUsed' = everUsed
    BY <1>6 DEF CleanRawUsage
  <2> QED
    BY <2>1, <2>2, <2>3 DEF RecentComplete
<1>7. ASSUME NEW w \in Meters, NEW period \in 0..uday, RecordUsage(w, period) PROVE RecordedSince' /\ RecentComplete'
  <2> DEFINE x == decided[w].delta
  <2>1. x \in Nat /\ period \in Days /\ period <= uday
    <3>1. decided[w] # NoRow /\ decided[w] \in Decision \cup {NoRow}
      BY <1>7 DEF RecordUsage, UsageType
    <3>2. x \in Nat
      BY <3>1, MeteringAssumption DEF Decision
    <3>3. period \in Nat /\ period <= uday /\ uday \in Days /\ LastDay \in Nat
      BY <1>0, MeteringAssumption DEF UsageType
    <3> QED
      BY <3>2, <3>3 DEF Days
  <2>2. /\ raw' = [raw EXCEPT ![<<period, uday>>] = @ + x]
        /\ everUsed' = [everUsed EXCEPT ![period] = @ + x] /\ uday' = uday
    BY <1>7 DEF RecordUsage
  <2> HIDE DEF x
  <2>3. \A p, d \in Days : raw'[<<p, d>>] = IF p = period /\ d = uday THEN raw[<<p, d>>] + x ELSE raw[<<p, d>>]
    BY <1>0, <2>1, <2>2 DEF UsageType
  <2>4. RecordedSince'
    BY <2>1, <2>3 DEF RecordedSince
  <2>5. ASSUME NEW p \in Days, uday < p + RawRetention PROVE RawTotal(p)' = everUsed'[p]
    <3>0. RawTotal(p) = everUsed[p]
      BY <2>5 DEF RecentComplete
    <3> DEFINE q == RecordsOf(raw, p)
               r == RecordsOf(raw', p)
    <3>1. q \in [Days -> Nat] /\ r \in [Days -> Nat]
      BY <1>t DEF UsageType, RecordsOf
    <3>2. RawTotal(p) = SumUpTo(q)[LastDay] /\ RawTotal(p)' = SumUpTo(r)[LastDay]
      BY DEF RawTotal, RecordsOf
    <3>3. CASE p = period
      <4>1. \A d \in Days : r[d] = IF d = uday THEN q[d] + x ELSE q[d]
        BY <2>3, <3>3 DEF RecordsOf
      <4> HIDE DEF q, r
      <4>2. SumUpTo(r)[LastDay] = SumUpTo(q)[LastDay] + x
        BY <1>0, <2>1, <3>1, <4>1, SumAdds, ZenonT(60)
      <4>3. everUsed'[p] = everUsed[p] + x
        BY <2>2, <3>3 DEF UsageType
      <4> QED
        BY <3>0, <3>2, <4>2, <4>3
    <3>4. CASE p # period
      <4>1. r = q
        BY <2>3, <3>4 DEF RecordsOf
      <4>2. everUsed'[p] = everUsed[p]
        BY <2>2, <3>4 DEF UsageType
      <4> HIDE DEF q, r
      <4> QED
        BY <3>0, <3>2, <4>1, <4>2
    <3> QED
      BY <3>3, <3>4
  <2> QED
    BY <2>2, <2>4, <2>5 DEF RecentComplete
<1> QED
  BY <1>2, <1>3, <1>4, <1>5, <1>6, <1>7 DEF MeteringNext

\* What a caller was told stays so until it records: only Enforce gives a new answer.
LEMMA UsageAllowed == ASSUME UsageType, AllowedWithinLimit, MeteringNext PROVE AllowedWithinLimit'
<1>1. CASE decided' = decided
  BY <1>1 DEF AllowedWithinLimit
<1>2. ASSUME NEW w \in Meters, NEW delta \in Deltas, NEW readable \in BOOLEAN, Enforce(w, delta, readable) PROVE AllowedWithinLimit'
  <2>1. decided'[w] = [allowed |-> ~readable \/ Allowed(delta), readable |-> readable, delta |-> delta,
                       used |-> everUsed[uday], rolled |-> CurrentUsage(uday)]
    BY <1>2 DEF Enforce, UsageType
  <2>2. \A v \in Meters \ {w} : decided'[v] = decided[v]
    BY <1>2 DEF Enforce, UsageType
  <2>3. (decided'[w].allowed /\ decided'[w].readable /\ Limit # Unlimited /\ decided'[w].used = decided'[w].rolled)
        => decided'[w].used + decided'[w].delta <= Limit
    <3> DEFINE answer == ~readable \/ Allowed(delta)
    <3>1. /\ decided'[w].allowed = answer /\ decided'[w].readable = readable
          /\ decided'[w].delta = delta /\ decided'[w].used = everUsed[uday] /\ decided'[w].rolled = CurrentUsage(uday)
      <4>1. decided'[w] = [allowed |-> answer, readable |-> readable, delta |-> delta,
                           used |-> everUsed[uday], rolled |-> CurrentUsage(uday)]
        BY <2>1, Zenon
      <4> HIDE DEF answer
      <4> QED
        BY <4>1
    <3>2. ASSUME decided'[w].allowed, decided'[w].readable PROVE Allowed(delta)
      <4>1. answer /\ readable
        BY <3>1, <3>2, Zenon
      <4> QED
        BY <4>1, Zenon
    <3> QED
      BY <3>1, <3>2 DEF Allowed
  <2> QED
    BY <2>2, <2>3 DEF AllowedWithinLimit
<1>3. ASSUME NEW w \in Meters, NEW p \in 0..uday, RecordUsage(w, p) PROVE AllowedWithinLimit'
  <2>1. decided'[w] = NoRow /\ \A v \in Meters \ {w} : decided'[v] = decided[v]
    BY <1>3 DEF RecordUsage, UsageType
  <2> QED
    BY <2>1 DEF AllowedWithinLimit
<1> QED
  BY <1>1, <1>2, <1>3 DEF MeteringNext, UsageDay, HandleUsageRollup, RollupUsage, AggregateDaily, CleanRawUsage

\* The invariant is kept by every step.
LEMMA UsageInductive == UsageInv /\ [MeteringNext]_uvars => UsageInv'
<1>1. ASSUME UsageInv, MeteringNext PROVE UsageInv'
  BY <1>1, UsageTypes, UsageCounts, UsageComplete, UsageAllowed DEF UsageInv, UsageTrue
<1>2. ASSUME UsageInv, UNCHANGED uvars PROVE UsageInv'
  BY <1>2 DEF UsageInv, UsageType, RecordedSince, UsageTrue, UsageCountedOnce, RecentComplete, AllowedWithinLimit,
              RawTotal, CurrentUsage, uvars
<1> QED
  BY <1>1, <1>2

\* For any number of callers and days and any quantities: a rollup and a snapshot never say
\* more than was ever recorded for their period, however often and late their jobs run and
\* whatever cleanRawUsage has purged; until the retention since its day has passed, nothing of
\* a period is purged; and what Check allows on rollups that are up to date is within the limit
\* of the plan.
THEOREM UsageIsTrue == MeteringSpec => []UsageTrue
<1>1. UsageInv => UsageTrue
  BY DEF UsageInv
<1> QED
  BY UsageInitially, UsageInductive, <1>1, PTL DEF MeteringSpec

\* A rollup job that runs while its period is recent leaves exactly what was recorded for it.
RollupExact ==
    \A p \in Days : rollups'[p] # rollups[p] /\ uday < p + RawRetention => rollups'[p] = everUsed[p]

\* RollupUsage neither adds to an earlier total nor loses a record of a recent period, whenever
\* and however often it runs: each total it writes is the usage of the period at that time.
THEOREM RollupsAreExact == MeteringSpec => [][RollupExact]_uvars
<1>1. ASSUME UsageInv, MeteringNext PROVE RollupExact
  <2>0. uday \in Days /\ 0..uday \subseteq Days
    BY <1>1, MeteringAssumption DEF UsageInv, UsageType, Days
  <2>1. CASE rollups' = rollups
    BY <2>1 DEF RollupExact
  <2>2. CASE HandleUsageRollup
    <3>1. PICK period \in 0..uday : RollupUsage(period)
      BY <2>2 DEF HandleUsageRollup
    <3>2. ASSUME NEW p \in Days, rollups'[p] # rollups[p], uday < p + RawRetention PROVE rollups'[p] = everUsed[p]
      <4>1. p = period /\ rollups'[p] = RawTotal(p)
        BY <1>1, <2>0, <3>1, <3>2 DEF RollupUsage, UsageInv, UsageType
      <4>2. RawTotal(p) = everUsed[p]
        BY <1>1, <3>2 DEF UsageInv, UsageTrue, RecentComplete
      <4> QED
        BY <4>1, <4>2
    <3> QED
      BY <3>2 DEF RollupExact
  <2> QED
    BY <1>1, <2>1, <2>2 DEF MeteringNext, UsageDay, AggregateDaily, CleanRawUsage, Enforce, RecordUsage
<1>2. UsageInv /\ [MeteringNext]_uvars => [RollupExact]_uvars
  BY <1>1
<1> QED
  BY UsageInitially, UsageInductive, <1>2, PTL DEF MeteringSpec

-----------------------------------------------------------------------------
(* Scanning and sorting a list *)

\* The loop of BestFitPlacer and WorstFitPlacer over a list of any length ends with a
\* position of least score among those that fit, and without one only if none fits.
LEMMA ScanFindsLeast ==
    ASSUME NEW n \in Nat, NEW fitting \in SUBSET (1..n), NEW score \in [1..n -> Int]
    PROVE  /\ LeastOf(n, fitting, score) = 0 => fitting = {}
           /\ LeastOf(n, fitting, score) # 0 =>
                /\ LeastOf(n, fitting, score) \in fitting
                /\ \A i \in fitting : score[LeastOf(n, fitting, score)] <= score[i]
<1> DEFINE Takes(k, b) == k \in fitting /\ (b = 0 \/ score[k] < score[b])
           g == [k \in Nat \X Nat |-> IF Takes(k[1] + 1, k[2]) THEN k[1] + 1 ELSE k[2]]
           Eq(s) == s = [k \in 0..n |-> IF k = 0 THEN 0
                                        ELSE IF k \in fitting /\ (s[k - 1] = 0 \/ score[k] < score[s[k - 1]]) THEN k
                                        ELSE s[k - 1]]
           best == CHOOSE s : Eq(s)
<1>1. g \in [Nat \X Nat -> Nat]
  <2> HIDE DEF Takes
  <2> QED
    OBVIOUS
<1>2. PICK f \in [Nat -> Nat] : Recurs(f, 0, g)
  <2> HIDE DEF g
  <2> QED
    BY <1>1, Recursion
<1>3. ASSUME NEW k \in 0..n, k # 0
      PROVE  f[k] = IF k \in fitting /\ (f[k - 1] = 0 \/ score[k] < score[f[k - 1]]) THEN k ELSE f[k - 1]
  <2>1. k - 1 \in Nat /\ (k - 1) + 1 = k /\ f[k - 1] \in Nat
    BY <1>3
  <2>2. f[k] = g[<<k - 1, f[k - 1]>>]
    BY <1>2, <2>1 DEF Recurs
  <2>3. g[<<k - 1, f[k - 1]>>] = IF Takes(k, f[k - 1]) THEN k ELSE f[k - 1]
    <3> HIDE DEF Takes
    <3> QED
      BY <2>1
  <2> QED
    BY <2>2, <2>3
<1> HIDE DEF g
<1>4. Eq([k \in 0..n |-> f[k]])
  <2>1. f[0] = 0
    BY <1>2 DEF Recurs
  <2>2. \A k \in 0..n : k # 0 => k - 1 \in 0..n
    OBVIOUS
  <2> QED
    BY <1>3, <2>1, <2>2
<1>5. Eq(best)
  <2> HIDE DEF Eq
  <2>1. \E s : Eq(s)
    BY <1>4
  <2> QED
    BY <2>1, Zenon
<1>6. LeastOf(n, fitting, score) = best[n]
  BY DEF LeastOf
<1> HIDE DEF best
<1>7. /\ best[0] = 0
      /\ \A k \in 0..n : k # 0 => best[k] = IF k \in fitting /\ (best[k - 1] = 0 \/ score[k] < score[best[k - 1]]) THEN k
                                            ELSE best[k - 1]
  <2> DEFINE Step(b, k) == IF k = 0 THEN 0 ELSE IF k \in fitting /\ (b[k - 1] = 0 \/ score[k] < score[b[k - 1]]) THEN k ELSE b[k - 1]
  <2>1. best = [k \in 0..n |-> Step(best, k)]
    BY <1>5, Zenon
  <2>2. 0 \in 0..n
    OBVIOUS
  <2>3. \A k \in 0..n : best[k] = Step(best, k)
    <3> HIDE DEF Step
    <3> QED
      BY <2>1, Zenon
  <2> QED
    BY <2>2, <2>3, Zenon
<1> HIDE DEF Eq
<1> DEFINE Good(k) == /\ best[k] = 0 => \A i \in fitting : i > k
                      /\ best[k] # 0 => best[k] \in fitting /\ \A i \in fitting : i <= k => score[best[k]] <= score[i]
           T == {k \in Nat : k <= n => Good(k)}
<1>8. 0 \in T
  BY <1>7
<1>9. ASSUME NEW k \in Nat, k \in T PROVE k + 1 \in T
  <2> SUFFICES ASSUME k + 1 <= n PROVE Good(k + 1)
    OBVIOUS
  <2>1. Good(k)
    BY <1>9
  <2>2. k + 1 \in 0..n /\ k + 1 # 0 /\ (k + 1) - 1 = k /\ k + 1 \in 1..n
    OBVIOUS
  <2>3. best[k + 1] = IF k + 1 \in fitting /\ (best[k] = 0 \/ score[k + 1] < score[best[k]]) THEN k + 1 ELSE best[k]
    BY <1>7, <2>2
  <2>4. \A i \in fitting : i \in 1..n /\ score[i] \in Int /\ (i <= k + 1 => i <= k \/ i = k + 1) /\ (i > k /\ i # k + 1 => i > k + 1)
    OBVIOUS
  <2>a. \A x, y, z \in Int : x <= x /\ (x < y /\ y <= z => x <= z) /\ (~(x < y) => y <= x)
    OBVIOUS
  <2>5. CASE k + 1 \in fitting /\ best[k] = 0
    <3>1. best[k + 1] = k + 1 /\ \A i \in fitting : i > k
      BY <2>1, <2>3, <2>5
    <3>2. \A i \in fitting : i <= k + 1 => i = k + 1
      BY <2>4, <3>1
    <3>3. ASSUME NEW i \in fitting, i <= k + 1 PROVE score[k + 1] <= score[i]
      BY <2>4, <2>a, <3>2, <3>3, Zenon
    <3> QED
      BY <2>2, <2>5, <3>1, <3>3
  <2>6. CASE k + 1 \in fitting /\ best[k] # 0 /\ score[k + 1] < score[best[k]]
    <3>1. best[k + 1] = k + 1 /\ best[k] \in fitting
      BY <2>1, <2>3, <2>6
    <3>2. ASSUME NEW i \in fitting, i <= k + 1 PROVE score[k + 1] <= score[i]
      <4>1. score[best[k]] \in Int /\ score[k + 1] \in Int /\ score[i] \in Int
        BY <2>2, <2>4, <3>1
      <4>2. CASE i <= k
        <5>1. score[best[k]] <= score[i]
          BY <2>1, <2>6, <4>2
        <5> QED
          BY <2>6, <2>a, <4>1, <5>1, Zenon
      <4>3. CASE i = k + 1
        BY <4>1, <4>3
      <4> QED
        BY <2>4, <3>2, <4>2, <4>3
    <3> QED
      BY <2>2, <2>6, <3>1, <3>2
  <2>7. CASE k + 1 \in fitting /\ best[k] # 0 /\ ~(score[k + 1] < score[best[k]])
    <3>1. best[k + 1] = best[k] /\ best[k] \in fitting
      BY <2>1, <2>3, <2>7
    <3>2. ASSUME NEW i \in fitting, i <= k + 1 PROVE score[best[k]] <= score[i]
      <4>1. score[best[k]] \in Int /\ score[k + 1] \in Int
        BY <2>2, <2>4, <3>1
      <4>2. CASE i <= k
        BY <2>1, <2>7, <4>2
      <4>3. CASE i = k + 1
        BY <2>7, <2>a, <4>1, <4>3, Zenon
      <4> QED
        BY <2>4, <3>2, <4>2, <4>3
    <3> QED
      BY <2>7, <3>1, <3>2
  <2>8. CASE k + 1 \notin fitting
    <3>1. best[k + 1] = best[k]
      BY <2>3, <2>8
    <3>2. \A i \in fitting : (i <= k + 1 => i <= k) /\ (i > k => i > k + 1)
      BY <2>4, <2>8
    <3> QED
      BY <2>1, <3>1, <3>2
  <2> QED
    BY <2>5, <2>6, <2>7, <2>8
<1>10. Nat \subseteq T
  <2> HIDE DEF T
  <2> QED
    BY <1>8, <1>9, Induction
<1>11. Good(n)
  BY <1>10
<1> QED
  BY <1>6, <1>11

\* Every list has an order that respects a key: the sorting placers have a result.
LEMMA SortedOrderExists ==
    ASSUME NEW n \in Nat, NEW key \in [1..n -> Int]
    PROVE  \E p \in Bijection(1..n, 1..n) : \A i, j \in 1..n : i < j => key[p[i]] <= key[p[j]]
<1> DEFINE Sorts(p, c, m) == \A i, j \in 1..m : i < j => c[p[i]] <= c[p[j]]
           T == {m \in Nat : \A c \in [1..m -> Int] : \E p \in Bijection(1..m, 1..m) : Sorts(p, c, m)}
<1>1. 0 \in T
  <2> SUFFICES ASSUME NEW c \in [1..0 -> Int] PROVE \E p \in Bijection(1..0, 1..0) : Sorts(p, c, 0)
    OBVIOUS
  <2>1. [i \in 1..0 |-> i] \in Bijection(1..0, 1..0)
    BY DEF Bijection, Injection, Surjection, IsInjective
  <2> QED
    BY <2>1
<1>2. ASSUME NEW m \in Nat, m \in T PROVE m + 1 \in T
  <2> SUFFICES ASSUME NEW c \in [1..(m + 1) -> Int] PROVE \E p \in Bijection(1..(m + 1), 1..(m + 1)) : Sorts(p, c, m + 1)
    OBVIOUS
  <2>1. PICK top \in 1..(m + 1) : \A i \in 1..(m + 1) : c[i] <= c[top]
    <3> DEFINE d == [i \in 1..(m + 1) |-> -c[i]]
               t == LeastOf(m + 1, 1..(m + 1), d)
    <3>1. d \in [1..(m + 1) -> Int] /\ m + 1 \in Nat /\ m + 1 \in 1..(m + 1)
      OBVIOUS
    <3>2. t \in 1..(m + 1) /\ \A i \in 1..(m + 1) : d[t] <= d[i]
      <4> HIDE DEF d
      <4>1. /\ t = 0 => 1..(m + 1) = {}
            /\ t # 0 => t \in 1..(m + 1) /\ \A i \in 1..(m + 1) : d[t] <= d[i]
        BY <3>1, ScanFindsLeast
      <4> HIDE DEF t
      <4> QED
        BY <3>1, <4>1
    <3> HIDE DEF t
    <3>3. \A i \in 1..(m + 1) : c[i] <= c[t]
      BY <3>2
    <3> QED
      BY <3>2, <3>3
  <2> DEFINE e == [i \in 1..m |-> IF i = top THEN c[m + 1] ELSE c[i]]
  <2>2. e \in [1..m -> Int]
    OBVIOUS
  <2>3. PICK s \in Bijection(1..m, 1..m) : Sorts(s, e, m)
    BY <1>2, <2>2
  <2>4. /\ s \in [1..m -> 1..m] /\ \A i, j \in 1..m : s[i] = s[j] => i = j
        /\ \A y \in 1..m : \E i \in 1..m : s[i] = y
    BY <2>3 DEF Bijection, Injection, Surjection, IsInjective
  <2> DEFINE p == [i \in 1..(m + 1) |-> IF i = m + 1 THEN top ELSE IF s[i] = top THEN m + 1 ELSE s[i]]
  <2>5. p[m + 1] = top /\ \A i \in 1..m : p[i] = IF s[i] = top THEN m + 1 ELSE s[i]
    OBVIOUS
  <2>6. p \in [1..(m + 1) -> 1..(m + 1)]
    <3> SUFFICES ASSUME NEW i \in 1..(m + 1)
                 PROVE  (IF i = m + 1 THEN top ELSE IF s[i] = top THEN m + 1 ELSE s[i]) \in 1..(m + 1)
      BY Zenon
    <3>1. CASE i = m + 1
      BY <3>1
    <3>2. CASE i # m + 1
      <4>1. i \in 1..m
        BY <3>2
      <4>2. s[i] \in 1..m
        BY <2>4, <4>1
      <4> QED
        BY <3>2, <4>2
    <3> QED
      BY <3>1, <3>2
  <2> HIDE DEF p
  <2>7. ASSUME NEW i \in 1..m PROVE c[p[i]] = e[s[i]] /\ p[i] # top
    <3>1. s[i] \in 1..m
      BY <2>4
    <3>2. CASE s[i] = top
      <4>1. p[i] = m + 1 /\ e[s[i]] = c[m + 1] /\ m + 1 # top
        BY <2>5, <3>1, <3>2
      <4> QED
        BY <4>1
    <3>3. CASE s[i] # top
      <4>1. p[i] = s[i] /\ e[s[i]] = c[s[i]]
        BY <2>5, <3>1, <3>3
      <4> QED
        BY <3>3, <4>1
    <3> QED
      BY <3>2, <3>3
  <2>8. \A i, j \in 1..(m + 1) : p[i] = p[j] => i = j
    <3>1. ASSUME NEW i \in 1..m, NEW j \in 1..m, p[i] = p[j] PROVE i = j
      <4>1. s[i] \in 1..m /\ s[j] \in 1..m
        BY <2>4
      <4>2. s[i] = s[j]
        BY <2>5, <3>1, <4>1
      <4> QED
        BY <2>4, <4>2
    <3>2. \A i \in 1..(m + 1) : i = m + 1 \/ i \in 1..m
      OBVIOUS
    <3> QED
      BY <2>5, <2>7, <3>1, <3>2
  <2>9. ASSUME NEW y \in 1..(m + 1) PROVE \E i \in 1..(m + 1) : p[i] = y
    <3>0. m + 1 \in 1..(m + 1) /\ 1..m \subseteq 1..(m + 1)
      OBVIOUS
    <3>1. CASE y = top
      BY <2>5, <3>0, <3>1
    <3>2. CASE y # top /\ y = m + 1
      <4>1. top \in 1..m
        BY <3>2
      <4>2. PICK i \in 1..m : s[i] = top
        BY <2>4, <4>1
      <4> QED
        BY <2>5, <3>0, <3>2, <4>2
    <3>3. CASE y # top /\ y # m + 1
      <4>1. y \in 1..m
        BY <3>3
      <4>2. PICK i \in 1..m : s[i] = y
        BY <2>4, <4>1
      <4> QED
        BY <2>5, <3>0, <3>3, <4>2
    <3> QED
      BY <3>1, <3>2, <3>3
  <2>10. p \in Bijection(1..(m + 1), 1..(m + 1))
    BY <2>6, <2>8, <2>9 DEF Bijection, Injection, Surjection, IsInjective
  <2>11. Sorts(p, c, m + 1)
    <3> SUFFICES ASSUME NEW i \in 1..(m + 1), NEW j \in 1..(m + 1), i < j PROVE c[p[i]] <= c[p[j]]
      OBVIOUS
    <3>1. i \in 1..m
      OBVIOUS
    <3>2. CASE j = m + 1
      <4>1. p[i] \in 1..(m + 1) /\ p[j] = top
        BY <2>5, <2>6, <3>2
      <4> QED
        BY <2>1, <4>1
    <3>3. CASE j # m + 1
      <4>1. j \in 1..m
        BY <3>3
      <4>2. e[s[i]] <= e[s[j]]
        BY <2>3, <3>1, <4>1
      <4> QED
        BY <2>7, <3>1, <4>1, <4>2
    <3> QED
      BY <3>2, <3>3
  <2> HIDE DEF Sorts
  <2> QED
    BY <2>10, <2>11
<1>3. Nat \subseteq T
  <2> HIDE DEF T
  <2> QED
    BY <1>1, <1>2, Induction
<1>4. \E p \in Bijection(1..n, 1..n) : Sorts(p, key, n)
  BY <1>3
<1> QED
  BY <1>4

-----------------------------------------------------------------------------
(* What the placers take *)

\* The result of a placer is a fitting server of least key, and is empty only if none fits.
LeastBy(result, servers, r, key) ==
    /\ result = {} => Fitting(servers, r) = {}
    /\ \A s \in result : \E m \in Fitting(servers, r) :
          servers[m] = s /\ \A i \in Fitting(servers, r) : key[m] <= key[i]

\* A list of servers and its positions.
LEMMA ListFacts ==
    ASSUME NEW servers \in Seq(Server), NEW r
    PROVE  /\ Len(servers) \in Nat /\ DOMAIN servers = 1..Len(servers)
           /\ \A i \in DOMAIN servers : servers[i] \in Server
           /\ Fitting(servers, r) \subseteq 1..Len(servers)
  BY DEF Fitting

\* What is left of a server is a number, and is the difference unless it is overcommitted.
LEMMA Available ==
    ASSUME NEW s \in Server
    PROVE  /\ AvailableCPU(s) \in Int /\ LoadScore(s) \in Int /\ s.count \in Int
           /\ s.cores - s.cpu >= 0 => AvailableCPU(s) = s.cores - s.cpu
<1>1. s.cores \in Int /\ s.cpu \in Int /\ s.memory \in Int /\ s.mem \in Int /\ s.slots \in Int /\ s.count \in Int
  BY DEF Server
<1>2. \A x, y \in Int : y > 0 => x \div y \in Int
  OBVIOUS
<1>3. 3 * Scale \in Int /\ Scale * s.cpu \in Int /\ Scale * s.mem \in Int /\ Scale * s.count \in Int
  BY <1>1 DEF Scale
<1>4. LoadScore(s) \in Int
  <2>1. s.cores > 0 => (Scale * s.cpu) \div s.cores \in Int
    BY <1>1, <1>2, <1>3
  <2>2. (IF s.memory > 0 THEN (Scale * s.mem) \div s.memory ELSE 0) \in Int
    BY <1>1, <1>2, <1>3
  <2>3. (IF s.slots > 0 THEN (Scale * s.count) \div s.slots ELSE 0) \in Int
    BY <1>1, <1>2, <1>3
  <2> QED
    BY <1>1, <1>3, <2>1, <2>2, <2>3 DEF LoadScore
<1> QED
  BY <1>1, <1>4 DEF AvailableCPU, AtLeast0

\* A server that fits has room for the request: the clamps at nothing do not hide an
\* overcommitted server, since a request asks for something.
LEMMA FitsIsRoom ==
    ASSUME NEW s \in Server, NEW r \in Request
    PROVE  /\ FitsRequest(s, r) <=> /\ s.cpu + r.cpu <= s.cores /\ s.mem + r.mem <= s.memory /\ s.count < s.slots
                                    /\ r.gpu => s.gpus > 0
           /\ FitsRequest(s, r) => AvailableCPU(s) = s.cores - s.cpu
<1>1. s.cores \in Int /\ s.cpu \in Int /\ s.memory \in Int /\ s.mem \in Int /\ s.slots \in Int /\ s.count \in Int
  BY DEF Server
<1>2. r.cpu \in Nat \ {0} /\ r.mem \in Nat \ {0}
  BY DEF Request
<1>3. AvailableCPU(s) >= r.cpu <=> s.cpu + r.cpu <= s.cores
  BY <1>1, <1>2 DEF AvailableCPU, AtLeast0
<1>4. AvailableMemory(s) >= r.mem <=> s.mem + r.mem <= s.memory
  BY <1>1, <1>2 DEF AvailableMemory, AtLeast0
<1>5. AvailableSlots(s) > 0 <=> s.count < s.slots
  BY <1>1 DEF AvailableSlots, AtLeast0
<1>6. s.cpu + r.cpu <= s.cores => AvailableCPU(s) = s.cores - s.cpu
  BY <1>1, <1>2 DEF AvailableCPU, AtLeast0
<1> QED
  BY <1>3, <1>4, <1>5, <1>6 DEF FitsRequest

\* FirstFitPlacer takes the first that fits of what was kept, and gives up only when none does.
LEMMA FirstFitTakesFirst ==
    ASSUME NEW servers \in Seq(Server), NEW kept \in SUBSET DOMAIN servers, NEW r
    PROVE  /\ FirstFitOf(servers, kept, r) = {} => \A i \in kept : ~FitsRequest(servers[i], r)
           /\ \A s \in FirstFitOf(servers, kept, r) : \E m \in kept :
                 servers[m] = s /\ FitsRequest(servers[m], r) /\ \A i \in kept : FitsRequest(servers[i], r) => m <= i
<1>0. DOMAIN servers \subseteq Nat
  BY ListFacts
<1>1. ASSUME NEW i \in kept, FitsRequest(servers[i], r) PROVE FirstFitOf(servers, kept, r) # {}
  <2> DEFINE T == {j \in kept : FitsRequest(servers[j], r)}
  <2>1. T \in SUBSET Nat /\ T # {}
    BY <1>0, <1>1
  <2>2. PICK m \in T : \A j \in T : m <= j
    <3> HIDE DEF T
    <3> QED
      BY <2>1, LeastNumber
  <2>3. m \in kept /\ FitsRequest(servers[m], r)
    OBVIOUS
  <2>4. \A j \in kept : j < m => ~FitsRequest(servers[j], r)
    BY <1>0, <2>2
  <2>5. servers[m] \in FirstFitOf(servers, kept, r)
    BY <2>3, <2>4 DEF FirstFitOf
  <2> QED
    BY <2>5
<1>2. ASSUME NEW s \in FirstFitOf(servers, kept, r)
      PROVE  \E m \in kept : servers[m] = s /\ FitsRequest(servers[m], r) /\ \A i \in kept : FitsRequest(servers[i], r) => m <= i
  <2>1. PICK m \in kept : servers[m] = s /\ FitsRequest(servers[m], r) /\ \A j \in kept : j < m => ~FitsRequest(servers[j], r)
    BY DEF FirstFitOf
  <2>2. \A i \in kept : FitsRequest(servers[i], r) => m <= i
    BY <1>0, <2>1
  <2> QED
    BY <2>1, <2>2
<1> QED
  BY <1>1, <1>2

\* What the scanning placers take, for a score by position.
LEMMA ScanTakesLeast ==
    ASSUME NEW servers \in Seq(Server), NEW r, NEW score \in [DOMAIN servers -> Int]
    PROVE  LeastBy(ServerAt(servers, LeastOf(Len(servers), Fitting(servers, r), score)), servers, r, score)
<1>1. Len(servers) \in Nat /\ Fitting(servers, r) \in SUBSET (1..Len(servers)) /\ score \in [1..Len(servers) -> Int]
  BY ListFacts
<1> DEFINE b == LeastOf(Len(servers), Fitting(servers, r), score)
<1>2. /\ b = 0 => Fitting(servers, r) = {}
      /\ b # 0 => b \in Fitting(servers, r) /\ \A i \in Fitting(servers, r) : score[b] <= score[i]
  BY <1>1, ScanFindsLeast
<1> HIDE DEF b
<1>3. LeastBy(ServerAt(servers, b), servers, r, score)
  BY <1>2 DEF LeastBy, ServerAt
<1> QED
  BY <1>3 DEF b

\* q is the list of the servers in the order p, which respects the key.
Reorders(p, q, servers, key) ==
    /\ \A i \in DOMAIN servers : q[i] = servers[p[i]]
    /\ \A y \in DOMAIN servers : \E i \in DOMAIN servers : p[i] = y
    /\ \A i, j \in DOMAIN servers : i < j => key[p[i]] <= key[p[j]]

\* sort.Slice leaves a list of the same servers, none lost, in an order of the key; there is one.
LEMMA SortKeepsServers ==
    ASSUME NEW servers \in Seq(Server), NEW key \in [DOMAIN servers -> Int]
    PROVE  /\ SortedBy(servers, key) # {}
           /\ \A q \in SortedBy(servers, key) :
                /\ q \in Seq(Server) /\ DOMAIN q = DOMAIN servers
                /\ \E p \in [DOMAIN servers -> DOMAIN servers] : Reorders(p, q, servers, key)
<1> DEFINE n == Len(servers)
           D == DOMAIN servers
<1>0. n \in Nat /\ D = 1..n /\ \A i \in D : servers[i] \in Server
  BY ListFacts
<1>1. SortedBy(servers, key) # {}
  <2>1. key \in [1..n -> Int]
    BY <1>0
  <2>2. PICK p \in Bijection(1..n, 1..n) : \A i, j \in 1..n : i < j => key[p[i]] <= key[p[j]]
    BY <1>0, <2>1, SortedOrderExists
  <2>3. [i \in D |-> servers[p[i]]] \in SortedBy(servers, key)
    <3>1. p \in Bijection(D, D) /\ \A i, j \in D : i < j => key[p[i]] <= key[p[j]]
      BY <1>0, <2>2, Zenon
    <3> QED
      BY <3>1, Zenon DEF SortedBy
  <2> QED
    BY <2>3
<1>2. ASSUME NEW q \in SortedBy(servers, key)
      PROVE  /\ q \in Seq(Server) /\ DOMAIN q = D
             /\ \E p \in [D -> D] : Reorders(p, q, servers, key)
  <2>1. PICK p \in Bijection(D, D) : q = [i \in D |-> servers[p[i]]] /\ \A i, j \in D : i < j => key[p[i]] <= key[p[j]]
    BY DEF SortedBy
  <2>2. p \in [D -> D] /\ \A y \in D : \E i \in D : p[i] = y
    BY <2>1, Zenon DEF Bijection, Injection, Surjection
  <2> HIDE DEF n, D
  <2>3. q \in [D -> Server]
    BY <1>0, <2>1, <2>2
  <2>4. q \in [1..n -> Server]
    BY <1>0, <2>3
  <2>5. q \in Seq(Server)
    BY <1>0, <2>4
  <2>6. \A i \in D : q[i] = servers[p[i]]
    BY <2>1
  <2>7. Reorders(p, q, servers, key)
    BY <2>1, <2>2, <2>6, Zenon DEF Reorders, D
  <2> QED
    BY <2>2, <2>3, <2>5, <2>7
<1> QED
  BY <1>1, <1>2

\* First fit on a sorted list takes a fitting server of least key.
LEMMA FirstOfSorted ==
    ASSUME NEW servers \in Seq(Server), NEW key \in [DOMAIN servers -> Int], NEW r
    PROVE  LeastBy(UNION {FirstFit(q, r) : q \in SortedBy(servers, key)}, servers, r, key)
<1> DEFINE D == DOMAIN servers
           Result == UNION {FirstFit(q, r) : q \in SortedBy(servers, key)}
<1>0. D \subseteq Nat
  BY ListFacts
<1>1. ASSUME NEW s \in Result
      PROVE  \E m \in Fitting(servers, r) : servers[m] = s /\ \A i \in Fitting(servers, r) : key[m] <= key[i]
  <2>1. PICK q \in SortedBy(servers, key) : s \in FirstFit(q, r)
    OBVIOUS
  <2>2. q \in Seq(Server) /\ DOMAIN q = D
    BY SortKeepsServers
  <2>3. PICK p \in [D -> D] : /\ \A i \in D : q[i] = servers[p[i]]
                              /\ \A y \in D : \E i \in D : p[i] = y
                              /\ \A i, j \in D : i < j => key[p[i]] <= key[p[j]]
    <3>1. PICK p \in [D -> D] : Reorders(p, q, servers, key)
      BY SortKeepsServers
    <3> QED
      BY <3>1 DEF Reorders
  <2>4. PICK a \in D : q[a] = s /\ FitsRequest(q[a], r) /\ \A i \in D : FitsRequest(q[i], r) => a <= i
    BY <2>1, <2>2, FirstFitTakesFirst, ZenonT(60) DEF FirstFit
  <2>5. p[a] \in Fitting(servers, r) /\ servers[p[a]] = s
    BY <2>3, <2>4 DEF Fitting
  <2>6. ASSUME NEW x \in Fitting(servers, r) PROVE key[p[a]] <= key[x]
    <3>1. PICK b \in D : p[b] = x
      BY <2>3 DEF Fitting
    <3>2. FitsRequest(q[b], r)
      BY <2>3, <3>1 DEF Fitting
    <3>3. a <= b
      BY <2>4, <3>2
    <3>4. CASE a = b
      <4>1. key[x] \in Int
        BY DEF Fitting
      <4> QED
        BY <3>1, <3>4, <4>1
    <3>5. CASE a < b
      BY <2>3, <3>1, <3>5
    <3> QED
      BY <1>0, <3>3, <3>4, <3>5
  <2> QED
    BY <2>5, <2>6
<1>2. ASSUME Result = {} PROVE Fitting(servers, r) = {}
  <2> SUFFICES ASSUME NEW x \in Fitting(servers, r) PROVE FALSE
    OBVIOUS
  <2>1. PICK q \in SortedBy(servers, key) : q \in Seq(Server) /\ DOMAIN q = D
    BY SortKeepsServers
  <2>2. PICK p \in [D -> D] : /\ \A i \in D : q[i] = servers[p[i]]
                              /\ \A y \in D : \E i \in D : p[i] = y
    <3>1. PICK p \in [D -> D] : Reorders(p, q, servers, key)
      BY SortKeepsServers
    <3> QED
      BY <3>1 DEF Reorders
  <2>3. PICK b \in D : p[b] = x
    BY <2>2 DEF Fitting
  <2>4. FitsRequest(q[b], r)
    BY <2>2, <2>3 DEF Fitting
  <2>5. FirstFit(q, r) # {}
    BY <2>1, <2>4, FirstFitTakesFirst DEF FirstFit
  <2> QED
    BY <1>2, <2>5
<1> HIDE DEF Result
<1>3. LeastBy(Result, servers, r, key)
  BY <1>1, <1>2 DEF LeastBy
<1> QED
  BY <1>3 DEF Result

\* The free CPU of the servers at their positions.
FreeCPU(servers) == [i \in DOMAIN servers |-> AvailableCPU(servers[i])]

\* BestFitPlacer takes a server with the least free CPU that fits.
LEMMA BestFitTakesTightest ==
    ASSUME NEW servers \in Seq(Server), NEW r \in Request
    PROVE  LeastBy(BestFit(servers, r), servers, r, FreeCPU(servers))
<1> DEFINE waste == [i \in DOMAIN servers |-> AvailableCPU(servers[i]) - r.cpu]
<1>0. r.cpu \in Int
  BY DEF Request
<1>1. \A i \in DOMAIN servers : AvailableCPU(servers[i]) \in Int
  BY ListFacts, Available
<1>2. waste \in [DOMAIN servers -> Int]
  BY <1>0, <1>1
<1>3. \A i, j \in DOMAIN servers : waste[i] <= waste[j] <=> FreeCPU(servers)[i] <= FreeCPU(servers)[j]
  BY <1>0, <1>1 DEF FreeCPU
<1>4. BestFit(servers, r) = ServerAt(servers, LeastOf(Len(servers), Fitting(servers, r), waste))
  BY DEF BestFit
<1> HIDE DEF waste
<1>5. LeastBy(BestFit(servers, r), servers, r, waste)
  BY <1>2, <1>4, ScanTakesLeast
<1>6. Fitting(servers, r) \subseteq DOMAIN servers
  BY DEF Fitting
<1> QED
  BY <1>3, <1>5, <1>6 DEF LeastBy

\* WorstFitPlacer takes one with the most.
LEMMA WorstFitTakesEmptiest ==
    ASSUME NEW servers \in Seq(Server), NEW r \in Request
    PROVE  LeastBy(WorstFit(servers, r), servers, r, [i \in DOMAIN servers |-> -AvailableCPU(servers[i])])
<1> DEFINE waste == [i \in DOMAIN servers |-> r.cpu - AvailableCPU(servers[i])]
           key == [i \in DOMAIN servers |-> -AvailableCPU(servers[i])]
<1>0. r.cpu \in Int
  BY DEF Request
<1>1. \A i \in DOMAIN servers : AvailableCPU(servers[i]) \in Int
  BY ListFacts, Available
<1>2. waste \in [DOMAIN servers -> Int]
  BY <1>0, <1>1
<1>3. \A i, j \in DOMAIN servers : waste[i] <= waste[j] <=> key[i] <= key[j]
  BY <1>0, <1>1
<1>4. WorstFit(servers, r) = ServerAt(servers, LeastOf(Len(servers), Fitting(servers, r), waste))
  BY DEF WorstFit
<1> HIDE DEF waste, key
<1>5. LeastBy(WorstFit(servers, r), servers, r, waste)
  BY <1>2, <1>4, ScanTakesLeast
<1>6. Fitting(servers, r) \subseteq DOMAIN servers
  BY DEF Fitting
<1>7. LeastBy(WorstFit(servers, r), servers, r, key)
  BY <1>3, <1>5, <1>6 DEF LeastBy
<1> QED
  BY <1>7 DEF key

\* Sorting first does not change what BestFitPlacer looks for.
LEMMA BestOfSorted ==
    ASSUME NEW servers \in Seq(Server), NEW key \in [DOMAIN servers -> Int], NEW r \in Request
    PROVE  LeastBy(UNION {BestFit(q, r) : q \in SortedBy(servers, key)}, servers, r, FreeCPU(servers))
<1> DEFINE D == DOMAIN servers
           Result == UNION {BestFit(q, r) : q \in SortedBy(servers, key)}
<1>1. ASSUME NEW s \in Result
      PROVE  \E m \in Fitting(servers, r) : servers[m] = s /\ \A i \in Fitting(servers, r) : FreeCPU(servers)[m] <= FreeCPU(servers)[i]
  <2>1. PICK q \in SortedBy(servers, key) : s \in BestFit(q, r)
    OBVIOUS
  <2>2. q \in Seq(Server) /\ DOMAIN q = D
    BY SortKeepsServers
  <2>3. PICK p \in [D -> D] : /\ \A i \in D : q[i] = servers[p[i]]
                              /\ \A y \in D : \E i \in D : p[i] = y
    <3>1. PICK p \in [D -> D] : Reorders(p, q, servers, key)
      BY SortKeepsServers
    <3> QED
      BY <3>1 DEF Reorders
  <2>4. PICK a \in Fitting(q, r) : q[a] = s /\ \A i \in Fitting(q, r) : FreeCPU(q)[a] <= FreeCPU(q)[i]
    BY <2>1, <2>2, BestFitTakesTightest DEF LeastBy
  <2>5. a \in D /\ p[a] \in Fitting(servers, r) /\ servers[p[a]] = s
    BY <2>2, <2>3, <2>4 DEF Fitting
  <2>6. ASSUME NEW x \in Fitting(servers, r) PROVE FreeCPU(servers)[p[a]] <= FreeCPU(servers)[x]
    <3>1. PICK b \in D : p[b] = x
      BY <2>3 DEF Fitting
    <3>2. b \in Fitting(q, r)
      BY <2>2, <2>3, <3>1 DEF Fitting
    <3>3. FreeCPU(q)[a] <= FreeCPU(q)[b]
      BY <2>4, <3>2
    <3>4. FreeCPU(q)[a] = FreeCPU(servers)[p[a]] /\ FreeCPU(q)[b] = FreeCPU(servers)[p[b]]
      BY <2>2, <2>3, <2>5 DEF FreeCPU
    <3> QED
      BY <3>1, <3>3, <3>4
  <2> QED
    BY <2>5, <2>6
<1>2. ASSUME Result = {} PROVE Fitting(servers, r) = {}
  <2> SUFFICES ASSUME NEW x \in Fitting(servers, r) PROVE FALSE
    OBVIOUS
  <2>1. PICK q \in SortedBy(servers, key) : q \in Seq(Server) /\ DOMAIN q = D
    BY SortKeepsServers
  <2>2. PICK p \in [D -> D] : /\ \A i \in D : q[i] = servers[p[i]]
                              /\ \A y \in D : \E i \in D : p[i] = y
    <3>1. PICK p \in [D -> D] : Reorders(p, q, servers, key)
      BY SortKeepsServers
    <3> QED
      BY <3>1 DEF Reorders
  <2>3. PICK b \in D : p[b] = x
    BY <2>2 DEF Fitting
  <2>4. b \in Fitting(q, r)
    BY <2>1, <2>2, <2>3 DEF Fitting
  <2>5. BestFit(q, r) # {}
    BY <2>1, <2>4, BestFitTakesTightest DEF LeastBy
  <2> QED
    BY <1>2, <2>5
<1> HIDE DEF Result
<1>3. LeastBy(Result, servers, r, FreeCPU(servers))
  BY <1>1, <1>2 DEF LeastBy
<1> QED
  BY <1>3 DEF Result

-----------------------------------------------------------------------------
(* Every placement is a good one *)

\* What is asked of the result of Select: a server of the list with room, that is what the
\* algorithm is named for, and none only if there is none with room or a filter has dropped it.
WellChosen(result, servers, r) ==
    /\ \A s \in result : /\ s \in Range(servers) /\ HasRoom(s, r)
                         /\ \A t \in Range(servers) : HasRoom(t, r) => NamedFor(s, t, r)
    /\ result = {} => \/ \A t \in Range(servers) : ~HasRoom(t, r)
                      \/ r.algorithm \in {"affinity", "anti_affinity", "region_aware", "az_aware"}

\* Fitting is having room, for all algorithms but the one that asks for a GPU by itself.
LEMMA RoomIsFit ==
    ASSUME NEW servers \in Seq(Server), NEW r \in Request, r.algorithm # "gpu"
    PROVE  \A i \in DOMAIN servers : servers[i] \in Server /\ (HasRoom(servers[i], r) <=> FitsRequest(servers[i], r))
<1> SUFFICES ASSUME NEW i \in DOMAIN servers
             PROVE  servers[i] \in Server /\ (HasRoom(servers[i], r) <=> FitsRequest(servers[i], r))
  OBVIOUS
<1>1. servers[i] \in Server
  BY ListFacts
<1>2. HasRoom(servers[i], r) <=> /\ servers[i].cpu + r.cpu <= servers[i].cores /\ servers[i].mem + r.mem <= servers[i].memory
                                 /\ servers[i].count < servers[i].slots /\ (r.gpu => servers[i].gpus > 0)
  BY DEF HasRoom
<1> QED
  BY <1>1, <1>2, FitsIsRoom

\* The least by a key is what an algorithm is named for, if the key says so.
LEMMA LeastIsWell ==
    ASSUME NEW servers \in Seq(Server), NEW r \in Request, r.algorithm # "gpu", NEW result, NEW key,
           LeastBy(result, servers, r, key),
           \A m, i \in DOMAIN servers :
              FitsRequest(servers[m], r) /\ FitsRequest(servers[i], r) /\ key[m] <= key[i] => NamedFor(servers[m], servers[i], r)
    PROVE  WellChosen(result, servers, r)
<1>1. \A i \in DOMAIN servers : HasRoom(servers[i], r) <=> i \in Fitting(servers, r)
  BY RoomIsFit DEF Fitting
<1>2. Fitting(servers, r) \subseteq DOMAIN servers /\ \A i \in Fitting(servers, r) : FitsRequest(servers[i], r)
  BY DEF Fitting
<1>3. \A t \in Range(servers) : \E i \in DOMAIN servers : servers[i] = t
  BY DEF Range
<1>4. \A i \in DOMAIN servers : servers[i] \in Range(servers)
  BY DEF Range
<1>5. ASSUME NEW s \in result
      PROVE  s \in Range(servers) /\ HasRoom(s, r) /\ \A t \in Range(servers) : HasRoom(t, r) => NamedFor(s, t, r)
  <2>1. PICK m \in Fitting(servers, r) : servers[m] = s /\ \A i \in Fitting(servers, r) : key[m] <= key[i]
    BY DEF LeastBy
  <2>2. ASSUME NEW t \in Range(servers), HasRoom(t, r) PROVE NamedFor(s, t, r)
    <3>1. PICK i \in DOMAIN servers : servers[i] = t
      BY <1>3
    <3>2. i \in Fitting(servers, r)
      BY <1>1, <2>2, <3>1
    <3> QED
      BY <1>2, <2>1, <3>1, <3>2
  <2> QED
    BY <1>1, <1>2, <1>4, <2>1, <2>2
<1>6. result = {} => \A t \in Range(servers) : ~HasRoom(t, r)
  BY <1>1, <1>3 DEF LeastBy
<1> QED
  BY <1>5, <1>6 DEF WellChosen

\* The first of what a filter kept has room.
LEMMA KeptIsWell ==
    ASSUME NEW servers \in Seq(Server), NEW r \in Request, NEW kept \in SUBSET DOMAIN servers,
           r.algorithm \in {"affinity", "anti_affinity", "region_aware", "az_aware"},
           \A m \in kept : \A t \in Range(servers) : NamedFor(servers[m], t, r)
    PROVE  WellChosen(FirstFitOf(servers, kept, r), servers, r)
<1>1. \A i \in DOMAIN servers : HasRoom(servers[i], r) <=> FitsRequest(servers[i], r)
  BY RoomIsFit
<1>2. \A i \in DOMAIN servers : servers[i] \in Range(servers)
  BY DEF Range
<1>3. ASSUME NEW s \in FirstFitOf(servers, kept, r) PROVE \E m \in kept : servers[m] = s /\ FitsRequest(servers[m], r)
  BY FirstFitTakesFirst
<1> QED
  BY <1>1, <1>2, <1>3 DEF WellChosen

\* Each algorithm of the registry chooses well.
LEMMA SelectIsWell ==
    ASSUME NEW servers \in Seq(Server), NEW r \in Request
    PROVE  WellChosen(Select(servers, r), servers, r)
<1> DEFINE D == DOMAIN servers
<1>0. \A i \in D : servers[i] \in Server
  BY ListFacts
<1>n. \A i \in D : /\ servers[i].cores \in Int /\ servers[i].cpu \in Int /\ servers[i].count \in Int
                   /\ AvailableCPU(servers[i]) \in Int /\ LoadScore(servers[i]) \in Int
                   /\ FitsRequest(servers[i], r) => AvailableCPU(servers[i]) = servers[i].cores - servers[i].cpu
  <2> TAKE i \in D
  <2>1. servers[i].cores \in Int /\ servers[i].cpu \in Int /\ servers[i].count \in Int
    BY <1>0 DEF Server
  <2> QED
    BY <1>0, <2>1, Available, FitsIsRoom
<1>k. \A t \in Range(servers) : \E i \in D : servers[i] = t
  BY DEF Range
<1>1. CASE r.algorithm = "first_fit"
  <2> DEFINE key == [i \in D |-> i]
  <2>1. Select(servers, r) = FirstFitOf(servers, D, r)
    BY <1>1 DEF Select, FirstFit
  <2>2. LeastBy(FirstFitOf(servers, D, r), servers, r, key)
    <3>1. D \in SUBSET D /\ Fitting(servers, r) = {i \in D : FitsRequest(servers[i], r)}
      BY DEF Fitting
    <3>2. \A i \in D : key[i] = i
      OBVIOUS
    <3>3. /\ FirstFitOf(servers, D, r) = {} => \A i \in D : ~FitsRequest(servers[i], r)
          /\ \A s \in FirstFitOf(servers, D, r) : \E m \in D :
                servers[m] = s /\ FitsRequest(servers[m], r) /\ \A i \in D : FitsRequest(servers[i], r) => m <= i
      BY <3>1, FirstFitTakesFirst
    <3> HIDE DEF D, key
    <3> QED
      BY <3>1, <3>2, <3>3 DEF LeastBy
  <2>3. \A s, t : NamedFor(s, t, r)
    BY <1>1 DEF NamedFor
  <2> HIDE DEF key
  <2> QED
    BY <1>1, <2>1, <2>2, <2>3, LeastIsWell
<1>2. CASE r.algorithm = "best_fit"
  <2>1. Select(servers, r) = BestFit(servers, r)
    BY <1>2 DEF Select
  <2>2. LeastBy(BestFit(servers, r), servers, r, FreeCPU(servers))
    BY BestFitTakesTightest
  <2>3. ASSUME NEW m \in D, NEW i \in D, FitsRequest(servers[m], r), FitsRequest(servers[i], r), FreeCPU(servers)[m] <= FreeCPU(servers)[i]
        PROVE  NamedFor(servers[m], servers[i], r)
    <3>1. servers[m].cores - servers[m].cpu <= servers[i].cores - servers[i].cpu
      BY <1>n, <2>3 DEF FreeCPU
    <3> QED
      BY <1>2, <3>1 DEF NamedFor
  <2> QED
    BY <1>2, <2>1, <2>2, <2>3, LeastIsWell
<1>3. CASE r.algorithm = "worst_fit"
  <2> DEFINE key == [i \in D |-> -AvailableCPU(servers[i])]
  <2>1. Select(servers, r) = WorstFit(servers, r)
    BY <1>3 DEF Select
  <2>2. LeastBy(WorstFit(servers, r), servers, r, key)
    BY WorstFitTakesEmptiest
  <2>3. ASSUME NEW m \in D, NEW i \in D, FitsRequest(servers[m], r), FitsRequest(servers[i], r), key[m] <= key[i]
        PROVE  NamedFor(servers[m], servers[i], r)
    <3>1. servers[m].cores - servers[m].cpu >= servers[i].cores - servers[i].cpu
      BY <1>n, <2>3
    <3> QED
      BY <1>3, <3>1 DEF NamedFor
  <2> HIDE DEF key
  <2> QED
    BY <1>3, <2>1, <2>2, <2>3, LeastIsWell
<1>4. CASE r.algorithm = "first_fit_decreasing"
  <2> DEFINE key == [i \in D |-> -AvailableCPU(servers[i])]
  <2>0. key \in [D -> Int]
    BY <1>n
  <2>1. Select(servers, r) = UNION {FirstFit(q, r) : q \in SortedBy(servers, key)}
    BY <1>4 DEF Select, FirstFitDecreasing, ByFreeCPU
  <2>2. LeastBy(Select(servers, r), servers, r, key)
    <3> HIDE DEF key
    <3> QED
      BY <2>0, <2>1, FirstOfSorted
  <2>3. ASSUME NEW m \in D, NEW i \in D, FitsRequest(servers[m], r), FitsRequest(servers[i], r), key[m] <= key[i]
        PROVE  NamedFor(servers[m], servers[i], r)
    <3>1. servers[m].cores - servers[m].cpu >= servers[i].cores - servers[i].cpu
      BY <1>n, <2>3
    <3> QED
      BY <1>4, <3>1 DEF NamedFor
  <2> HIDE DEF key
  <2> QED
    BY <1>4, <2>2, <2>3, LeastIsWell
<1>5. CASE r.algorithm = "best_fit_decreasing"
  <2> DEFINE key == [i \in D |-> -AvailableCPU(servers[i])]
  <2>0. key \in [D -> Int]
    BY <1>n
  <2>1. Select(servers, r) = UNION {BestFit(q, r) : q \in SortedBy(servers, key)}
    BY <1>5 DEF Select, BestFitDecreasing, ByFreeCPU
  <2>2. LeastBy(Select(servers, r), servers, r, FreeCPU(servers))
    <3> HIDE DEF key
    <3> QED
      BY <2>0, <2>1, BestOfSorted
  <2>3. ASSUME NEW m \in D, NEW i \in D, FitsRequest(servers[m], r), FitsRequest(servers[i], r), FreeCPU(servers)[m] <= FreeCPU(servers)[i]
        PROVE  NamedFor(servers[m], servers[i], r)
    <3>1. servers[m].cores - servers[m].cpu <= servers[i].cores - servers[i].cpu
      BY <1>n, <2>3 DEF FreeCPU
    <3> QED
      BY <1>5, <3>1 DEF NamedFor
  <2> QED
    BY <1>5, <2>2, <2>3, LeastIsWell
<1>6. CASE r.algorithm = "most_loaded"
  <2> DEFINE key == [i \in D |-> -LoadScore(servers[i])]
  <2>0. key \in [D -> Int]
    BY <1>n
  <2>1. Select(servers, r) = UNION {FirstFit(q, r) : q \in SortedBy(servers, key)}
    BY <1>6 DEF Select, MostLoaded
  <2>2. LeastBy(Select(servers, r), servers, r, key)
    <3> HIDE DEF key
    <3> QED
      BY <2>0, <2>1, FirstOfSorted
  <2>3. ASSUME NEW m \in D, NEW i \in D, key[m] <= key[i] PROVE NamedFor(servers[m], servers[i], r)
    <3>1. LoadScore(servers[m]) >= LoadScore(servers[i])
      BY <1>n, <2>3
    <3> QED
      BY <1>6, <3>1 DEF NamedFor
  <2> HIDE DEF key
  <2> QED
    BY <1>6, <2>2, <2>3, LeastIsWell
<1>7. CASE r.algorithm = "warm_node"
  <2> DEFINE key == [i \in D |-> -servers[i].count]
  <2>0. key \in [D -> Int]
    BY <1>n
  <2>1. Select(servers, r) = UNION {FirstFit(q, r) : q \in SortedBy(servers, key)}
    BY <1>7 DEF Select, WarmNode
  <2>2. LeastBy(Select(servers, r), servers, r, key)
    <3> HIDE DEF key
    <3> QED
      BY <2>0, <2>1, FirstOfSorted
  <2>3. ASSUME NEW m \in D, NEW i \in D, key[m] <= key[i] PROVE NamedFor(servers[m], servers[i], r)
    <3>1. servers[m].count >= servers[i].count
      BY <1>n, <2>3
    <3> QED
      BY <1>7, <3>1 DEF NamedFor
  <2> HIDE DEF key
  <2> QED
    BY <1>7, <2>2, <2>3, LeastIsWell
<1>8. CASE r.algorithm = "cold_node"
  <2> DEFINE key == [i \in D |-> servers[i].count]
  <2>0. key \in [D -> Int]
    BY <1>n
  <2>1. Select(servers, r) = UNION {FirstFit(q, r) : q \in SortedBy(servers, key)}
    BY <1>8 DEF Select, ColdNode
  <2>2. LeastBy(Select(servers, r), servers, r, key)
    <3> HIDE DEF key
    <3> QED
      BY <2>0, <2>1, FirstOfSorted
  <2>3. ASSUME NEW m \in D, NEW i \in D, key[m] <= key[i] PROVE NamedFor(servers[m], servers[i], r)
    <3>1. servers[m].count <= servers[i].count
      BY <1>n, <2>3
    <3> QED
      BY <1>8, <3>1 DEF NamedFor
  <2> HIDE DEF key
  <2> QED
    BY <1>8, <2>2, <2>3, LeastIsWell
<1>9. CASE r.algorithm \notin {"first_fit", "best_fit", "worst_fit", "first_fit_decreasing", "best_fit_decreasing", "most_loaded",
                              "affinity", "anti_affinity", "region_aware", "az_aware", "gpu", "warm_node", "cold_node"}
  <2> DEFINE key == [i \in D |-> LoadScore(servers[i])]
  <2>0. key \in [D -> Int]
    BY <1>n
  <2>1. Select(servers, r) = UNION {FirstFit(q, r) : q \in SortedBy(servers, key)}
    <3>1. Select(servers, r) = LeastLoaded(servers, r)
      BY <1>9 DEF Select, Balanced
    <3> QED
      BY <3>1 DEF LeastLoaded
  <2>2. LeastBy(Select(servers, r), servers, r, key)
    <3> HIDE DEF key
    <3> QED
      BY <2>0, <2>1, FirstOfSorted
  <2>3. ASSUME NEW m \in D, NEW i \in D, key[m] <= key[i] PROVE NamedFor(servers[m], servers[i], r)
    <3>1. LoadScore(servers[m]) <= LoadScore(servers[i])
      BY <1>n, <2>3
    <3> QED
      BY <1>9, <3>1 DEF NamedFor
  <2> HIDE DEF key
  <2> QED
    BY <1>9, <2>2, <2>3, LeastIsWell
<1>10. CASE r.algorithm = "affinity"
  <2> DEFINE kept == IF r.label = "" THEN D ELSE Filtered(D, LabelledAt(servers, r))
  <2>1. Select(servers, r) = FirstFitOf(servers, kept, r) /\ kept \in SUBSET D
    BY <1>10 DEF Select, Affinity, Filtered
  <2>2. ASSUME NEW m \in kept, NEW t \in Range(servers) PROVE NamedFor(servers[m], t, r)
    <3>1. ASSUME r.label # "", Labelled(t, r) PROVE Labelled(servers[m], r)
      <4>1. PICK i \in D : servers[i] = t
        BY <1>k
      <4>2. i \in LabelledAt(servers, r)
        BY <3>1, <4>1 DEF LabelledAt
      <4>3. m \in LabelledAt(servers, r)
        BY <3>1, <4>2 DEF Filtered
      <4> QED
        BY <4>3 DEF LabelledAt
    <3> QED
      BY <1>10, <3>1 DEF NamedFor
  <2> HIDE DEF kept
  <2> QED
    BY <1>10, <2>1, <2>2, KeptIsWell
<1>11. CASE r.algorithm = "anti_affinity"
  <2> DEFINE kept == IF r.label = "" THEN D ELSE Filtered(D, D \ LabelledAt(servers, r))
  <2>1. Select(servers, r) = FirstFitOf(servers, kept, r) /\ kept \in SUBSET D
    BY <1>11 DEF Select, AntiAffinity, Filtered
  <2>2. ASSUME NEW m \in kept, NEW t \in Range(servers) PROVE NamedFor(servers[m], t, r)
    <3>1. ASSUME r.label # "", ~Labelled(t, r) PROVE ~Labelled(servers[m], r)
      <4>1. PICK i \in D : servers[i] = t
        BY <1>k
      <4>2. i \in D \ LabelledAt(servers, r)
        BY <3>1, <4>1 DEF LabelledAt
      <4>3. m \in D \ LabelledAt(servers, r)
        BY <3>1, <4>2 DEF Filtered
      <4> QED
        BY <4>3 DEF LabelledAt
    <3> QED
      BY <1>11, <3>1 DEF NamedFor
  <2> HIDE DEF kept
  <2> QED
    BY <1>11, <2>1, <2>2, KeptIsWell
<1>12. CASE r.algorithm = "region_aware"
  <2> DEFINE kept == IF r.region = "" THEN D ELSE Filtered(D, {i \in D : servers[i].region = r.region})
  <2>1. Select(servers, r) = FirstFitOf(servers, kept, r) /\ kept \in SUBSET D
    BY <1>12 DEF Select, RegionAware, RegionAwareOf, Filtered
  <2>2. ASSUME NEW m \in kept, NEW t \in Range(servers) PROVE NamedFor(servers[m], t, r)
    <3>1. ASSUME r.region # "", t.region = r.region PROVE servers[m].region = r.region
      <4>1. PICK i \in D : servers[i] = t
        BY <1>k
      <4> QED
        BY <3>1, <4>1 DEF Filtered
    <3> QED
      BY <1>12, <3>1 DEF NamedFor
  <2> HIDE DEF kept
  <2> QED
    BY <1>12, <2>1, <2>2, KeptIsWell
<1>13. CASE r.algorithm = "az_aware"
  <2> DEFINE zoned == IF r.zone = "" THEN D ELSE Filtered(D, ZonedAt(servers, r))
             kept == IF r.region = "" THEN zoned ELSE Filtered(zoned, {i \in zoned : servers[i].region = r.region})
  <2>1. Select(servers, r) = FirstFitOf(servers, kept, r)
    BY <1>13 DEF Select, AZAware, RegionAwareOf
  <2>2. zoned \in SUBSET D
    BY DEF Filtered
  <2>3. ASSUME NEW m \in zoned, NEW t \in Range(servers) PROVE NamedFor(servers[m], t, r)
    <3>1. ASSUME r.zone # "", t.zone = r.zone PROVE servers[m].zone = r.zone
      <4>1. PICK i \in D : servers[i] = t
        BY <1>k
      <4>2. i \in ZonedAt(servers, r)
        BY <3>1, <4>1 DEF ZonedAt
      <4>3. m \in ZonedAt(servers, r)
        BY <3>1, <4>2 DEF Filtered
      <4> QED
        BY <4>3 DEF ZonedAt
    <3> QED
      BY <1>13, <3>1 DEF NamedFor
  <2> HIDE DEF zoned
  <2>4. kept \subseteq zoned
    BY DEF Filtered
  <2> HIDE DEF kept
  <2> QED
    BY <1>13, <2>1, <2>2, <2>3, <2>4, KeptIsWell
<1>14. CASE r.algorithm = "gpu"
  <2> DEFINE g == [r EXCEPT !.gpu = TRUE]
             kept == {i \in D : servers[i].gpus > 0}
  <2>1. Select(servers, r) = FirstFitOf(servers, kept, g) /\ kept \in SUBSET D
    BY <1>14 DEF Select, GPU
  <2>2. g \in Request /\ g.gpu = TRUE /\ g.cpu = r.cpu /\ g.mem = r.mem
    BY DEF Request
  <2> HIDE DEF g
  <2>3. ASSUME NEW i \in D PROVE HasRoom(servers[i], r) <=> i \in kept /\ FitsRequest(servers[i], g)
    <3>1. FitsRequest(servers[i], g) <=> /\ servers[i].cpu + r.cpu <= servers[i].cores /\ servers[i].mem + r.mem <= servers[i].memory
                                         /\ servers[i].count < servers[i].slots /\ servers[i].gpus > 0
      BY <1>0, <2>2, FitsIsRoom
    <3> QED
      BY <1>14, <3>1 DEF HasRoom
  <2> HIDE DEF kept
  <2>4. ASSUME NEW s \in Select(servers, r) PROVE \E m \in D : servers[m] = s /\ HasRoom(s, r)
    <3>1. PICK m \in kept : servers[m] = s /\ FitsRequest(servers[m], g)
      BY <2>1, <2>2, FirstFitTakesFirst
    <3> QED
      BY <2>1, <2>3, <3>1
  <2>5. ASSUME Select(servers, r) = {} PROVE \A i \in D : ~HasRoom(servers[i], r)
    <3>1. \A i \in kept : ~FitsRequest(servers[i], g)
      BY <2>1, <2>5, FirstFitTakesFirst
    <3> QED
      BY <2>3, <3>1
  <2>6. \A s, t : NamedFor(s, t, r)
    BY <1>14 DEF NamedFor
  <2>7. \A i \in D : servers[i] \in Range(servers)
    BY DEF Range
  <2> QED
    BY <1>k, <2>4, <2>5, <2>6, <2>7 DEF WellChosen
<1> QED
  BY <1>1, <1>2, <1>3, <1>4, <1>5, <1>6, <1>7, <1>8, <1>9, <1>10, <1>11, <1>12, <1>13, <1>14

\* pickPort stays in the range that the request gives, and never gives port 0.
LEMMA PortIsInRange ==
    ASSUME NEW r \in Request
    PROVE  /\ PickPort(r) \in Nat \ {0}
           /\ r.min > 0 /\ r.max > r.min => PickPort(r) \in r.min..r.max
<1> DEFINE lo == IF r.min <= 0 THEN PortBase ELSE r.min
           hi == IF r.max <= lo THEN lo + PortSpan ELSE r.max
           span == hi - lo + 1
<1>0. r.min \in Int /\ r.max \in Int /\ r.idlen \in Nat /\ PortBase \in Nat \ {0} /\ PortSpan \in Nat
  BY PlacementAssumption DEF Request
<1>1. lo \in Nat \ {0} /\ hi \in Nat /\ lo <= hi
  BY <1>0
<1>2. r.min > 0 /\ r.max > r.min => lo = r.min /\ hi = r.max
  BY <1>0
<1>3. PickPort(r) = lo + (r.idlen % span)
  BY DEF PickPort
<1> HIDE DEF lo, hi
<1>4. span \in Nat \ {0}
  BY <1>1
<1>5. \A x \in Nat, y \in Nat \ {0} : x % y \in 0..(y - 1)
  OBVIOUS
<1>6. r.idlen % span \in 0..(span - 1)
  BY <1>0, <1>4, <1>5
<1>7. r.idlen % span \in 0..(hi - lo)
  BY <1>1, <1>6
<1> HIDE DEF span
<1> QED
  BY <1>0, <1>1, <1>2, <1>3, <1>7

\* FirstFitPlacer passes over no server with room.
LEMMA FirstFitSkipsNone ==
    ASSUME NEW servers \in Seq(Server), NEW r \in Request, r.algorithm = "first_fit", NEW s \in Select(servers, r)
    PROVE  \E i \in DOMAIN servers : servers[i] = s /\ \A j \in 1..(i - 1) : ~HasRoom(servers[j], r)
<1>1. Select(servers, r) = FirstFitOf(servers, DOMAIN servers, r)
  BY DEF Select, FirstFit
<1>2. PICK m \in DOMAIN servers : servers[m] = s /\ \A i \in DOMAIN servers : FitsRequest(servers[i], r) => m <= i
  BY <1>1, FirstFitTakesFirst
<1>3. \A j \in 1..(m - 1) : j \in DOMAIN servers /\ ~(m <= j)
  BY ListFacts
<1>4. \A i \in DOMAIN servers : HasRoom(servers[i], r) <=> FitsRequest(servers[i], r)
  BY RoomIsFit
<1> QED
  BY <1>2, <1>3, <1>4

PlacedInv == fleet \in Fleets /\ request \in Requests /\ PlacedWell

\* A placement answers well.
LEMMA SimulateIsWell == ASSUME PlacedInv, Simulate PROVE PlacedWell'
<1>0. fleet \in Seq(Server) /\ request \in Request
  BY PlacementAssumption DEF PlacedInv
<1>1. WellChosen(Select(fleet, request), fleet, request)
  BY <1>0, SelectIsWell
<1>2. fleet' = fleet /\ request' = request /\ Choosable' = Choosable
  BY DEF Simulate, Choosable
<1>3. Choosable = {t \in Range(fleet) : HasRoom(t, request)}
  BY DEF Choosable
<1>4. ASSUME NEW s \in Select(fleet, request), placed' = {[server |-> s, port |-> PickPort(request)]} PROVE PlacedWell'
  <2> DEFINE p == [server |-> s, port |-> PickPort(request)]
  <2>1. placed' = {p} /\ p.server = s /\ p.port = PickPort(request)
    BY <1>4
  <2>2. NoPlace.port = 0 /\ PickPort(request) # 0
    BY <1>0, PortIsInRange DEF NoPlace
  <2>3. p # NoPlace
    BY <2>1, <2>2
  <2> HIDE DEF p
  <2>4. s \in Choosable /\ \A t \in Choosable : NamedFor(s, t, request)
    BY <1>1, <1>3 DEF WellChosen
  <2>5. PlacedWithRoom'
    BY <1>2, <2>1, <2>3, <2>4 DEF PlacedWithRoom
  <2>6. PlacedBest'
    BY <1>2, <2>1, <2>4 DEF PlacedBest
  <2>7. PlacedFirst'
    <3>1. request.algorithm = "first_fit" =>
            \E i \in DOMAIN fleet : fleet[i] = s /\ \A j \in 1..(i - 1) : ~HasRoom(fleet[j], request)
      BY <1>0, FirstFitSkipsNone
    <3> QED
      BY <1>2, <2>1, <3>1 DEF PlacedFirst
  <2>8. PortInRange'
    BY <1>0, <1>2, <2>1, PortIsInRange DEF PortInRange
  <2> QED
    BY <2>5, <2>6, <2>7, <2>8 DEF PlacedWell
<1>5. ASSUME Select(fleet, request) = {}, placed' = {NoPlace} PROVE PlacedWell'
  <2>1. Choosable # {} => request.algorithm \in {"affinity", "anti_affinity", "region_aware", "az_aware"}
    BY <1>1, <1>3, <1>5 DEF WellChosen
  <2>2. placed' \ {NoPlace} = {}
    BY <1>5
  <2>3. PlacedWithRoom'
    BY <1>2, <1>5, <2>1 DEF PlacedWithRoom
  <2> QED
    BY <2>2, <2>3 DEF PlacedWell, PlacedBest, PlacedFirst, PortInRange
<1> QED
  BY <1>4, <1>5 DEF Simulate

\* For a list of servers of any length and amounts of any size: every algorithm of the
\* registry answers with a server that has room and is what the algorithm is named for among
\* all that have room, gives up only when none has room or its filter has dropped them, and
\* gives a port of the request's range.
THEOREM PlacementIsGood == PlacementSpec => []PlacedWell
<1>1. PlacementInit => PlacedInv
  BY DEF PlacementInit, PlacedInv, PlacedWell, PlacedWithRoom, PlacedBest, PlacedFirst, PortInRange
<1>2. PlacedInv /\ [PlacementNext]_plvars => PlacedInv'
  <2>1. ASSUME PlacedInv, PlacementNext PROVE PlacedInv'
    BY <2>1, SimulateIsWell DEF PlacementNext, PlacedInv, Simulate
  <2>2. ASSUME PlacedInv, UNCHANGED plvars PROVE PlacedInv'
    BY <2>2 DEF PlacedInv, PlacedWell, PlacedWithRoom, PlacedBest, PlacedFirst, PortInRange, Choosable, plvars
  <2> QED
    BY <2>1, <2>2
<1>3. PlacedInv => PlacedWell
  BY DEF PlacedInv
<1> QED
  BY <1>1, <1>2, <1>3, PTL DEF PlacementSpec
=============================================================================
