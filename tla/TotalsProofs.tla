---------------------------- MODULE TotalsProofs ----------------------------
(***************************************************************************)
(* Facts about SumTo. The library's induction theorems take an operator    *)
(* parameter, so induction is done by hand: a set of naturals that is not  *)
(* empty has a least element (well-foundedness of < on Nat), and the least *)
(* counterexample to a claim about 0..n is neither 0 nor a successor.      *)
(***************************************************************************)
EXTENDS Totals, NaturalsInduction, WellFoundedInduction, TLAPS

\* Every non-empty set of naturals has a least element.
LEMMA LeastNat ==
  ASSUME NEW T \in SUBSET Nat, T # {}
  PROVE  \E m \in T : \A k \in T : m <= k
<1>1. PICK m \in T : \A k \in T : <<k, m>> \notin OpToRel(<, Nat)
  BY WFMin, NatLessThanWellFounded, Zenon
<1>2. \A k \in T : ~(k < m)
  BY <1>1, Zenon DEF OpToRel
<1> QED
  BY <1>2

\* Induction up to n, for membership in a set instead of for a predicate.
LEMMA InductUpTo ==
  ASSUME NEW n \in Nat, NEW G, 0 \in G,
         \A i \in 0..n : i \in G /\ i < n => i + 1 \in G
  PROVE  \A i \in 0..n : i \in G
<1> DEFINE Bad == {i \in 0..n : i \notin G}
<1> SUFFICES ASSUME Bad # {} PROVE FALSE
  OBVIOUS
<1>1. PICK m \in Bad : \A k \in Bad : m <= k
  <2>1. Bad \in SUBSET Nat
    OBVIOUS
  <2> QED
    BY <2>1, LeastNat
<1>2. m # 0 /\ m - 1 \in 0..n /\ m - 1 \notin Bad
  BY <1>1
<1> QED
  BY <1>1, <1>2

\* s lists the sums of the first 0, 1, ..., n entries of x: the equation by
\* which SumTo chooses its function.
PartialSums(s, x, n) ==
  s = [i \in 0..n |-> IF i = 0 THEN 0 ELSE s[i - 1] + x[i]]

\* The recursive equation has a solution.
LEMMA PartialSumsExist ==
  ASSUME NEW n \in Nat, NEW x
  PROVE  \E s : PartialSums(s, x, n)
<1> DEFINE G == {i \in 0..n : \E s : PartialSums(s, x, i)}
<1>1. 0 \in G
  <2> DEFINE z == [i \in 0..0 |-> 0]
  <2>1. PartialSums(z, x, 0)
    BY DEF PartialSums
  <2> QED
    BY <2>1
<1>2. ASSUME NEW i \in 0..n, i \in G, i < n
      PROVE  i + 1 \in G
  <2>1. PICK s : PartialSums(s, x, i)
    BY <1>2
  <2> DEFINE t == [j \in 0..(i + 1) |-> IF j = i + 1 THEN s[i] + x[i + 1]
                                                     ELSE s[j]]
  <2>2. PartialSums(t, x, i + 1)
    BY <2>1 DEF PartialSums
  <2> QED
    BY <2>2, <1>2
<1>3. \A i \in 0..n : i \in G
  <2> HIDE DEF G
  <2> QED
    BY <1>1, <1>2, InductUpTo
<1> QED
  BY <1>3

\* SumTo is the last of the partial sums.
LEMMA SumToIsPartialSum ==
  ASSUME NEW n \in Nat, NEW x
  PROVE  \E s : PartialSums(s, x, n) /\ SumTo(x, n) = s[n]
<1> DEFINE c == CHOOSE s : PartialSums(s, x, n)
<1>1. PartialSums(c, x, n)
  BY PartialSumsExist
<1>2. SumTo(x, n) = c[n]
  BY DEF SumTo, PartialSums
<1> QED
  BY <1>1, <1>2

\* The partial sums of integers are integers.
LEMMA PartialSumsType ==
  ASSUME NEW n \in Nat, NEW x \in [1..n -> Int], NEW s, PartialSums(s, x, n)
  PROVE  s \in [0..n -> Int]
<1> DEFINE G == {i \in 0..n : s[i] \in Int}
<1>1. 0 \in G
  BY DEF PartialSums
<1>2. ASSUME NEW i \in 0..n, i \in G, i < n
      PROVE  i + 1 \in G
  <2>1. s[i + 1] = s[i] + x[i + 1]
    BY <1>2 DEF PartialSums
  <2> QED
    BY <1>2, <2>1
<1>3. \A i \in 0..n : i \in G
  <2> HIDE DEF G
  <2> QED
    BY <1>1, <1>2, InductUpTo
<1> QED
  BY <1>3 DEF PartialSums

\* The total of integers is an integer.
THEOREM SumToType ==
  ASSUME NEW n \in Nat, NEW x \in [1..n -> Int]
  PROVE  SumTo(x, n) \in Int
BY SumToIsPartialSum, PartialSumsType

\* Changing one entry changes the total by what it changes the entry.
THEOREM SumToUpdate ==
  ASSUME NEW n \in Nat, NEW x \in [1..n -> Int], NEW y \in [1..n -> Int],
         NEW j \in 1..n, \A i \in 1..n : i # j => y[i] = x[i]
  PROVE  SumTo(y, n) = SumTo(x, n) + (y[j] - x[j])
<1>1. PICK s : PartialSums(s, x, n) /\ SumTo(x, n) = s[n]
  BY SumToIsPartialSum
<1>2. PICK t : PartialSums(t, y, n) /\ SumTo(y, n) = t[n]
  BY SumToIsPartialSum
<1>3. s \in [0..n -> Int] /\ t \in [0..n -> Int]
  BY <1>1, <1>2, PartialSumsType
<1> DEFINE d == y[j] - x[j]
           G == {i \in 0..n : t[i] = IF i < j THEN s[i] ELSE s[i] + d}
<1>4. d \in Int
  OBVIOUS
<1>5. 0 \in G
  BY <1>1, <1>2 DEF PartialSums
<1>6. ASSUME NEW i \in 0..n, i \in G, i < n
      PROVE  i + 1 \in G
  <2>1. /\ s[i + 1] = s[i] + x[i + 1]
        /\ t[i + 1] = t[i] + y[i + 1]
    BY <1>1, <1>2, <1>6 DEF PartialSums
  <2>2. /\ i + 1 \in 1..n
        /\ x[i + 1] \in Int /\ y[i + 1] \in Int
        /\ s[i] \in Int /\ t[i] \in Int /\ s[i + 1] \in Int
    <3>1. i + 1 \in 1..n /\ i + 1 \in 0..n
      BY <1>6
    <3> HIDE DEF G
    <3> QED
      BY <1>3, <3>1
  <2>3. CASE i + 1 < j
    BY <2>1, <2>2, <2>3, <1>6
  <2>4. CASE i + 1 = j
    <3>1. t[i + 1] = s[i] + y[i + 1]
      BY <2>1, <2>4, <1>6
    <3>2. y[i + 1] = x[i + 1] + d
      BY <2>2, <2>4
    <3>3. t[i + 1] = s[i + 1] + d
      <4> HIDE DEF d
      <4> QED
        BY <3>1, <3>2, <2>1, <2>2, <1>4
    <3> QED
      BY <3>3, <2>2, <2>4
  <2>5. CASE i + 1 > j
    <3>1. x[i + 1] = y[i + 1]
      BY <2>5, <2>2
    <3>2. t[i] = s[i] + d
      BY <2>5, <1>6
    <3>3. t[i + 1] = s[i + 1] + d
      <4> HIDE DEF d, G
      <4> QED
        BY <3>1, <3>2, <2>1, <2>2, <1>4
    <3>4. i + 1 \in 0..n /\ ~(i + 1 < j)
      BY <2>2, <2>5
    <3> HIDE DEF d
    <3> QED
      BY <3>3, <3>4
  <2> QED
    BY <2>2, <2>3, <2>4, <2>5
<1>7. \A i \in 0..n : i \in G
  <2> HIDE DEF G
  <2> QED
    BY <1>5, <1>6, InductUpTo
<1>8. t[n] = s[n] + d
  <2>1. n \in G /\ ~(n < j)
    BY <1>7
  <2> QED
    BY <2>1
<1> QED
  BY <1>1, <1>2, <1>8

\* The total of zeros is zero.
THEOREM SumToZero ==
  ASSUME NEW n \in Nat, NEW x, \A i \in 1..n : x[i] = 0
  PROVE  SumTo(x, n) = 0
<1>1. PICK s : PartialSums(s, x, n) /\ SumTo(x, n) = s[n]
  BY SumToIsPartialSum
<1> DEFINE G == {i \in 0..n : s[i] = 0}
<1>2. 0 \in G
  BY <1>1 DEF PartialSums
<1>3. ASSUME NEW i \in 0..n, i \in G, i < n
      PROVE  i + 1 \in G
  BY <1>1, <1>3 DEF PartialSums
<1>4. \A i \in 0..n : i \in G
  <2> HIDE DEF G
  <2> QED
    BY <1>2, <1>3, InductUpTo
<1> QED
  BY <1>1, <1>4

\* The total of naturals is no less than any of them.
THEOREM SumToAtLeast ==
  ASSUME NEW n \in Nat, NEW x \in [1..n -> Nat]
  PROVE  SumTo(x, n) \in Nat /\ \A j \in 1..n : x[j] <= SumTo(x, n)
<1>1. ASSUME NEW y \in [1..n -> Nat] PROVE SumTo(y, n) \in Nat
  <2>1. PICK s : PartialSums(s, y, n) /\ SumTo(y, n) = s[n]
    BY SumToIsPartialSum
  <2> DEFINE G == {i \in 0..n : s[i] \in Nat}
  <2>2. 0 \in G
    BY <2>1 DEF PartialSums
  <2>3. ASSUME NEW i \in 0..n, i \in G, i < n
        PROVE  i + 1 \in G
    <3>1. s[i + 1] = s[i] + y[i + 1]
      BY <2>1, <2>3 DEF PartialSums
    <3> QED
      BY <2>3, <3>1
  <2>4. \A i \in 0..n : i \in G
    <3> HIDE DEF G
    <3> QED
      BY <2>2, <2>3, InductUpTo
  <2> QED
    BY <2>1, <2>4
<1>2. ASSUME NEW j \in 1..n PROVE x[j] <= SumTo(x, n)
  <2> DEFINE y == [x EXCEPT ![j] = 0]
  <2>1. y \in [1..n -> Nat] /\ y[j] = 0 /\ \A i \in 1..n : i # j => y[i] = x[i]
    OBVIOUS
  <2> HIDE DEF y
  <2>2. SumTo(y, n) = SumTo(x, n) + (y[j] - x[j])
    <3>1. x \in [1..n -> Int] /\ y \in [1..n -> Int]
      BY <2>1
    <3> QED
      BY <2>1, <3>1, SumToUpdate
  <2>3. SumTo(y, n) \in Nat /\ SumTo(x, n) \in Nat
    BY <1>1, <2>1
  <2> QED
    BY <2>1, <2>2, <2>3
<1> QED
  BY <1>1, <1>2
=============================================================================
