------------------------------ MODULE SumLemmas ------------------------------
(***************************************************************************)
(* What a sum over 0 .. n-1 is worth after the updates the aggregates      *)
(* make.  Everything follows from two facts: partial sums exist, and they  *)
(* are unique; both by taking the smallest natural number where the        *)
(* contrary would start.                                                   *)
(***************************************************************************)
EXTENDS Sums, WellFoundedInduction, TLAPS

\* g is the function of the partial sums of f.
IsPartialSums(g, f, n) ==
  g = [i \in 0 .. n |-> IF i = 0 THEN 0 ELSE g[i - 1] + f[i - 1]]

\* A non-empty set of naturals has a least element: the least-number
\* principle, for a set instead of a predicate.
LEMMA LeastElement ==
  ASSUME NEW T \in SUBSET Nat, T # {}
  PROVE  \E x \in T : \A y \in T : x <= y
<1> DEFINE R == {ss \in Nat \X Nat : ss[1] < ss[2]}
<1>1. IsWellFoundedOn(R, Nat)
  BY NatLessThanWellFounded DEF OpToRel
<1>2. PICK x \in T : \A y \in T : ~ (<<y, x>> \in R)
  <2> HIDE DEF R
  <2> QED BY <1>1, WFMin
<1>3. ASSUME NEW y \in T
      PROVE  x <= y
  <2>1. /\ x \in Nat /\ y \in Nat
        /\ ~ (<<y, x>> \in R)
    BY <1>2
  <2>2. <<y, x>> \in R <=> y < x
    BY <2>1
  <2> QED BY <2>1, <2>2
<1> QED BY <1>3

\* Any function that satisfies the equation makes PartialSums satisfy it.
LEMMA PartialSumsChosen ==
  ASSUME NEW n \in Nat, NEW f, NEW g, IsPartialSums(g, f, n)
  PROVE  IsPartialSums(PartialSums(f, n), f, n)
  BY DEF IsPartialSums, PartialSums

\* Partial sums of an integer function exist.
LEMMA PartialSumsExist ==
  ASSUME NEW n \in Nat, NEW f \in [0 .. n - 1 -> Int]
  PROVE  \E g \in [0 .. n -> Int] : IsPartialSums(g, f, n)
<1> DEFINE Ok(k) == \E g \in [0 .. k -> Int] : IsPartialSums(g, f, k)
           Bad == {k \in 0 .. n : ~ Ok(k)}
<1>1. Ok(0)
  <2> DEFINE z == [i \in 0 .. 0 |-> 0]
  <2>1. z \in [0 .. 0 -> Int] /\ IsPartialSums(z, f, 0)
    BY DEF IsPartialSums
  <2> QED BY <2>1
<1>2. ASSUME NEW k \in 0 .. n - 1, Ok(k)
      PROVE  Ok(k + 1)
  <2>1. PICK g \in [0 .. k -> Int] : IsPartialSums(g, f, k)
    BY <1>2
  <2> DEFINE h == [i \in 0 .. k + 1 |-> IF i = k + 1 THEN g[k] + f[k] ELSE g[i]]
  <2>2. h \in [0 .. k + 1 -> Int]
    BY <2>1
  <2>3. ASSUME NEW i \in 0 .. k + 1
        PROVE  h[i] = IF i = 0 THEN 0 ELSE h[i - 1] + f[i - 1]
    <3>1. CASE i = k + 1
      BY <3>1, <2>1
    <3>2. CASE i \in 0 .. k
      <4>1. g[i] = IF i = 0 THEN 0 ELSE g[i - 1] + f[i - 1]
        BY <2>1, <3>2 DEF IsPartialSums
      <4> QED BY <4>1, <3>2
    <3> QED BY <3>1, <3>2
  <2>4. IsPartialSums(h, f, k + 1)
    BY <2>3 DEF IsPartialSums
  <2> QED BY <2>2, <2>4
<1>3. Bad = {}
  <2> SUFFICES ASSUME Bad # {} PROVE FALSE
    OBVIOUS
  <2>1. PICK x \in Bad : \A y \in Bad : x <= y
    <3>1. Bad \in SUBSET Nat
      OBVIOUS
    <3> HIDE DEF Bad
    <3> QED BY <3>1, LeastElement
  <2>2. x # 0
    BY <1>1
  <2>3. x - 1 \in 0 .. n - 1 /\ Ok(x - 1)
    BY <2>1, <2>2
  <2>4. Ok(x - 1 + 1)
    <3> HIDE DEF Ok
    <3> QED BY <2>3, <1>2
  <2>5. x - 1 + 1 = x
    OBVIOUS
  <2>6. Ok(x)
    BY <2>4, <2>5
  <2> QED BY <2>6
<1>4. Ok(n)
  <2>1. n \in 0 .. n
    OBVIOUS
  <2> HIDE DEF Ok
  <2> QED BY <1>3, <2>1
<1> QED BY <1>4

\* Partial sums are unique.
LEMMA PartialSumsUnique ==
  ASSUME NEW n \in Nat, NEW f, NEW g, NEW h,
         IsPartialSums(g, f, n), IsPartialSums(h, f, n)
  PROVE  \A i \in 0 .. n : g[i] = h[i]
<1> DEFINE Bad == {i \in 0 .. n : g[i] # h[i]}
<1> SUFFICES ASSUME Bad # {} PROVE FALSE
  OBVIOUS
<1>1. PICK x \in Bad : \A y \in Bad : x <= y
  <2>1. Bad \in SUBSET Nat
    OBVIOUS
  <2> HIDE DEF Bad
  <2> QED BY <2>1, LeastElement
<1>2. ASSUME NEW i \in 0 .. n
      PROVE  /\ g[i] = IF i = 0 THEN 0 ELSE g[i - 1] + f[i - 1]
             /\ h[i] = IF i = 0 THEN 0 ELSE h[i - 1] + f[i - 1]
  BY DEF IsPartialSums
<1>3. x # 0
  BY <1>2
<1>4. x - 1 \in 0 .. n /\ g[x - 1] = h[x - 1]
  BY <1>1, <1>3
<1>5. g[x] = h[x]
  BY <1>2, <1>3, <1>4
<1> QED BY <1>5

\* The sum, described by any function of partial sums.
LEMMA SumToIs ==
  ASSUME NEW n \in Nat, NEW f, NEW g, IsPartialSums(g, f, n)
  PROVE  SumTo(f, n) = g[n]
  BY PartialSumsChosen, PartialSumsUnique DEF SumTo

LEMMA SumToType ==
  ASSUME NEW n \in Nat, NEW f \in [0 .. n - 1 -> Int]
  PROVE  SumTo(f, n) \in Int
<1>1. PICK g \in [0 .. n -> Int] : IsPartialSums(g, f, n)
  BY PartialSumsExist
<1> QED BY <1>1, SumToIs

\* Adding two functions pointwise adds their sums.
LEMMA SumToAdd ==
  ASSUME NEW n \in Nat,
         NEW f \in [0 .. n - 1 -> Int], NEW d \in [0 .. n - 1 -> Int],
         NEW e \in [0 .. n - 1 -> Int],
         \A i \in 0 .. n - 1 : e[i] = f[i] + d[i]
  PROVE  SumTo(e, n) = SumTo(f, n) + SumTo(d, n)
<1>1. PICK g \in [0 .. n -> Int] : IsPartialSums(g, f, n)
  BY PartialSumsExist
<1>2. PICK h \in [0 .. n -> Int] : IsPartialSums(h, d, n)
  BY PartialSumsExist
<1> DEFINE k == [i \in 0 .. n |-> g[i] + h[i]]
<1>3. ASSUME NEW i \in 0 .. n
      PROVE  k[i] = IF i = 0 THEN 0 ELSE k[i - 1] + e[i - 1]
  <2>1. /\ g[i] = IF i = 0 THEN 0 ELSE g[i - 1] + f[i - 1]
        /\ h[i] = IF i = 0 THEN 0 ELSE h[i - 1] + d[i - 1]
    BY <1>1, <1>2 DEF IsPartialSums
  <2>2. CASE i = 0
    BY <2>1, <2>2
  <2>3. CASE i # 0
    <3>1. i - 1 \in 0 .. n - 1 /\ i - 1 \in 0 .. n
      BY <2>3
    <3> QED BY <2>1, <2>3, <3>1
  <2> QED BY <2>2, <2>3
<1>4. IsPartialSums(k, e, n)
  BY <1>3 DEF IsPartialSums
<1>5. SumTo(e, n) = k[n] /\ SumTo(f, n) = g[n] /\ SumTo(d, n) = h[n]
  BY <1>1, <1>2, <1>4, SumToIs
<1> QED BY <1>5

\* A function that is zero everywhere sums to zero.
LEMMA SumToZero ==
  ASSUME NEW n \in Nat, NEW f \in [0 .. n - 1 -> Int],
         \A i \in 0 .. n - 1 : f[i] = 0
  PROVE  SumTo(f, n) = 0
<1> DEFINE g == [i \in 0 .. n |-> 0]
<1>1. IsPartialSums(g, f, n)
  BY DEF IsPartialSums
<1> QED BY <1>1, SumToIs

\* A function that is x at p and zero elsewhere sums to x.
LEMMA SumToSingle ==
  ASSUME NEW n \in Nat, NEW p \in 0 .. n - 1, NEW x \in Int,
         NEW f \in [0 .. n - 1 -> Int],
         f[p] = x, \A i \in 0 .. n - 1 : i # p => f[i] = 0
  PROVE  SumTo(f, n) = x
<1> DEFINE g == [i \in 0 .. n |-> IF i > p THEN x ELSE 0]
<1>1. ASSUME NEW i \in 0 .. n
      PROVE  g[i] = IF i = 0 THEN 0 ELSE g[i - 1] + f[i - 1]
  <2>1. CASE i = 0
    BY <2>1
  <2>2. CASE i # 0
    <3>1. i - 1 \in 0 .. n - 1 /\ i - 1 \in 0 .. n
      BY <2>2
    <3> QED BY <3>1, <2>2
  <2> QED BY <2>1, <2>2
<1>2. IsPartialSums(g, f, n)
  BY <1>1 DEF IsPartialSums
<1>3. g[n] = x
  OBVIOUS
<1> QED BY <1>2, <1>3, SumToIs

\* Changing one value changes the sum by as much.
LEMMA SumToUpdate ==
  ASSUME NEW n \in Nat, NEW p \in 0 .. n - 1, NEW x \in Int,
         NEW f \in [0 .. n - 1 -> Int]
  PROVE  SumTo([f EXCEPT ![p] = x], n) = SumTo(f, n) + x - f[p]
<1> DEFINE e == [f EXCEPT ![p] = x]
           d == [i \in 0 .. n - 1 |-> IF i = p THEN x - f[p] ELSE 0]
<1>1. /\ e \in [0 .. n - 1 -> Int]
      /\ d \in [0 .. n - 1 -> Int]
      /\ \A i \in 0 .. n - 1 : e[i] = f[i] + d[i]
  OBVIOUS
<1>2. SumTo(d, n) = x - f[p]
  BY SumToSingle
<1>3. SumTo(e, n) = SumTo(f, n) + SumTo(d, n)
  <2> HIDE DEF e, d
  <2> QED BY <1>1, SumToAdd
<1>4. SumTo(f, n) \in Int
  BY SumToType
<1> QED BY <1>2, <1>3, <1>4

\* Natural values have a natural sum.
LEMMA SumToNat ==
  ASSUME NEW n \in Nat, NEW f \in [0 .. n - 1 -> Nat]
  PROVE  SumTo(f, n) \in Nat
<1>1. PICK g \in [0 .. n -> Int] : IsPartialSums(g, f, n)
  <2>1. f \in [0 .. n - 1 -> Int]
    OBVIOUS
  <2> QED BY <2>1, PartialSumsExist
<1>2. ASSUME NEW i \in 0 .. n
      PROVE  g[i] = IF i = 0 THEN 0 ELSE g[i - 1] + f[i - 1]
  BY <1>1 DEF IsPartialSums
<1> DEFINE Bad == {i \in 0 .. n : g[i] < 0}
<1>3. Bad = {}
  <2> SUFFICES ASSUME Bad # {} PROVE FALSE
    OBVIOUS
  <2>1. PICK x \in Bad : \A y \in Bad : x <= y
    <3>1. Bad \in SUBSET Nat
      OBVIOUS
    <3> HIDE DEF Bad
    <3> QED BY <3>1, LeastElement
  <2>2. x # 0
    BY <1>1, <1>2
  <2>3. x - 1 \in 0 .. n - 1 /\ g[x - 1] >= 0
    BY <1>1, <2>1, <2>2
  <2>4. g[x] = g[x - 1] + f[x - 1] /\ f[x - 1] \in Nat
    BY <1>2, <2>2, <2>3
  <2> QED BY <1>1, <2>1, <2>3, <2>4
<1>4. g[n] >= 0
  BY <1>1, <1>3
<1> QED BY <1>1, <1>4, SumToIs

\* ... and no value is larger than the sum.
LEMMA SumToBound ==
  ASSUME NEW n \in Nat, NEW f \in [0 .. n - 1 -> Nat], NEW p \in 0 .. n - 1
  PROVE  f[p] <= SumTo(f, n)
<1> DEFINE e == [f EXCEPT ![p] = 0]
<1>1. e \in [0 .. n - 1 -> Nat] /\ f \in [0 .. n - 1 -> Int]
  OBVIOUS
<1>2. SumTo(e, n) = SumTo(f, n) + 0 - f[p]
  <2>1. f \in [0 .. n - 1 -> Int] /\ 0 \in Int
    OBVIOUS
  <2>2. SumTo([f EXCEPT ![p] = 0], n) = SumTo(f, n) + 0 - f[p]
    BY ONLY n \in Nat, p \in 0 .. n - 1, <2>1, SumToUpdate
  <2> QED BY <2>2
<1>3. SumTo(e, n) \in Nat /\ SumTo(f, n) \in Nat
  <2> HIDE DEF e
  <2> QED BY <1>1, SumToNat
<1> QED BY <1>2, <1>3
=============================================================================
