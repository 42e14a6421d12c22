---------------------------- MODULE PlatformProofs ----------------------------
(***************************************************************************)
(* Proofs about the document numbers (NumberSequence), about reception and *)
(* the requests that reach it (CheckIn, Sync), and about two services that *)
(* share no state with them: the sessions (Sessions) and the cache of the  *)
(* dashboard (DashCache). Each part has an inductive invariant of its own: *)
(* NumbersInv, SyncInv, SessionInv and CacheInv.                           *)
(***************************************************************************)
EXTENDS Sync, Sessions, DashCache, FiniteSetTheorems, TLAPS

(***************************************************************************)
(* BehindOnlyBySeed for any series, any number of tries and any seeds. A   *)
(* counter alone says too little: the seed's copy of it must not fall      *)
(* behind either (Copy), and a counter is never ahead of its table by more *)
(* than one (Dense), so that aligning it with the table takes nothing away.*)
(***************************************************************************)
Years ==
  /\ \A k \in Series : sequences[k].year <= year
  /\ \A k \in Series : \A row \in numbers[k] : row[1] <= year
  /\ AtWork => /\ aligning.year <= year
               /\ \A k \in Series : aligning.entries[k].year <= aligning.year

\* next is 1, or the number before it is in the table.
DenseIn(tried, table) ==
  Next1(tried, year) = 1 \/ <<year, Next1(tried, year) - 1>> \in table

Dense ==
  /\ \A k \in Series : DenseIn(sequences[k], numbers[k])
  /\ AtWork => \A k \in Series : DenseIn(aligning.entries[k], numbers[k])

\* What the seed is going to write is behind by no more than it was outrun.
Copy ==
  AtWork => \A k \in Series :
    /\ Next1(sequences[k], year) <= Next1(aligning.entries[k], year) + outrun[k]
    /\ \A row \in numbers[k] :
         row[1] = year => row[2] < Next1(aligning.entries[k], year) + outrun[k]

NumbersInv == NumbersTypeOK /\ Years /\ Dense /\ Copy /\ BehindOnlyBySeed

-----------------------------------------------------------------------------
\* The first number to try is a positive number.
LEMMA Next1Type ==
  ASSUME NEW tried \in Entry, NEW y \in Nat
  PROVE  Next1(tried, y) \in Nat \ {0}
BY DEF Next1, Entry

\* The marker of no seed is no seed at work.
LEMMA NoSeedType == NoSeed \in Seeding
BY DEF NoSeed, Seeding, Entry

\* No number is given yet.
LEMMA NumbersStart == NumbersInit => NumbersInv
<1> SUFFICES ASSUME NumbersInit PROVE NumbersInv
  OBVIOUS
<1>1. NumbersTypeOK
  BY NoSeedType DEF NumbersInit, NumbersTypeOK, Entry
<1>2. ~AtWork
  BY DEF NumbersInit, AtWork
<1>3. Years
  BY <1>2 DEF NumbersInit, Years
<1>4. Dense
  BY <1>2 DEF NumbersInit, Dense, DenseIn, Next1
<1>5. BehindOnlyBySeed
  BY DEF NumbersInit, BehindOnlyBySeed
<1> QED
  BY <1>1, <1>2, <1>3, <1>4, <1>5 DEF NumbersInv, Copy

-----------------------------------------------------------------------------
\* A new number is above what the table has from the seed's copy on.
LEMMA NumberedKeeps ==
  ASSUME NumbersInv, NEW k \in Series, CreateNumbered(k) PROVE NumbersInv'
<1> USE SeriesAssumption
<1>1. PICK n \in 1..MaxNumber :
        /\ Gives(k, n)
        /\ sequences' = [sequences EXCEPT ![k] = [year |-> year, next |-> n + 1]]
        /\ numbers' = [numbers EXCEPT ![k] = @ \cup {<<year, n>>}]
        /\ outrun' = [outrun EXCEPT ![k] = IF AtWork THEN @ + 1 ELSE @]
        /\ UNCHANGED <<year, aligning>>
  BY DEF CreateNumbered
<1> DEFINE f == Next1(sequences[k], year)
<1>2. n \in Nat /\ n > 0 /\ year \in Nat /\ year > 0 /\ f \in Nat /\ f > 0 /\ outrun[k] \in Nat
  BY <1>1, Next1Type DEF NumbersInv, NumbersTypeOK
<1>3. f <= n /\ (f = n \/ <<year, n - 1>> \in numbers[k])
  <2>1. f <= n /\ \A m \in f..(n - 1) : <<year, m>> \in numbers[k]
    BY <1>1 DEF Gives
  <2>2. CASE f = n
    BY <2>2, <1>2
  <2>3. CASE f < n
    <3>1. n - 1 \in f..(n - 1)
      BY <2>3, <1>2
    <3> QED
      BY <3>1, <2>1
  <2> QED
    BY <2>1, <2>2, <2>3, <1>2
<1>4. \A j \in Series \ {k} :
        sequences'[j] = sequences[j] /\ numbers'[j] = numbers[j] /\ outrun'[j] = outrun[j]
  BY <1>1 DEF NumbersInv, NumbersTypeOK
<1>5. /\ sequences'[k] = [year |-> year, next |-> n + 1]
      /\ numbers'[k] = numbers[k] \cup {<<year, n>>}
      /\ outrun'[k] = IF AtWork THEN outrun[k] + 1 ELSE outrun[k]
  BY <1>1 DEF NumbersInv, NumbersTypeOK
<1>6. year' = year /\ aligning' = aligning /\ (AtWork' <=> AtWork)
  BY <1>1 DEF AtWork
<1>7. NumbersTypeOK'
  <2>1. sequences' \in [Series -> Entry]
    BY <1>1, <1>2 DEF NumbersInv, NumbersTypeOK, Entry
  <2>2. numbers' \in [Series -> SUBSET ((Nat \ {0}) \X (Nat \ {0}))]
    <3>1. <<year, n>> \in (Nat \ {0}) \X (Nat \ {0})
      BY <1>2
    <3> QED
      BY <3>1, <1>1 DEF NumbersInv, NumbersTypeOK
  <2>3. outrun' \in [Series -> Nat]
    BY <1>1 DEF NumbersInv, NumbersTypeOK
  <2> QED
    BY <2>1, <2>2, <2>3, <1>6 DEF NumbersInv, NumbersTypeOK
<1>8. Next1(sequences'[k], year') = n + 1
  BY <1>5, <1>6 DEF Next1
<1>9. Years'
  <2>1. \A j \in Series : sequences'[j].year <= year'
    BY <1>2, <1>4, <1>5, <1>6 DEF NumbersInv, Years
  <2>2. \A j \in Series : \A row \in numbers'[j] : row[1] <= year'
    BY <1>2, <1>4, <1>5, <1>6 DEF NumbersInv, Years
  <2> QED
    BY <2>1, <2>2, <1>6 DEF NumbersInv, Years
<1>10. Dense'
  <2>1. \A j \in Series : DenseIn(sequences[j], numbers[j])'
    <3>1. <<year, n>> \in numbers'[k] /\ (n + 1) - 1 = n
      BY <1>5, <1>2
    <3>2. DenseIn(sequences[k], numbers[k])'
      BY <3>1, <1>8, <1>6 DEF DenseIn
    <3>3. \A j \in Series \ {k} : DenseIn(sequences[j], numbers[j])'
      BY <1>4, <1>6 DEF NumbersInv, Dense, DenseIn, Next1
    <3> QED
      BY <3>2, <3>3
  <2>2. AtWork' => \A j \in Series : DenseIn(aligning.entries[j], numbers[j])'
    BY <1>4, <1>5, <1>6 DEF NumbersInv, Dense, DenseIn, Next1
  <2> QED
    BY <2>1, <2>2 DEF Dense
<1>11. BehindOnlyBySeed'
  <2>1. ASSUME NEW row \in numbers'[k], row[1] = year
        PROVE  row[2] < (n + 1) + outrun'[k]
    <3>1. outrun'[k] \in Nat /\ outrun'[k] >= outrun[k]
      BY <1>5, <1>2
    <3>2. CASE row = <<year, n>>
      BY <3>1, <3>2, <1>2
    <3>3. CASE row \in numbers[k]
      <4>1. row[2] < f + outrun[k] /\ row[2] \in Nat
        BY <3>3, <2>1 DEF NumbersInv, BehindOnlyBySeed, NumbersTypeOK
      <4> QED
        BY <4>1, <3>1, <1>2, <1>3
    <3> QED
      BY <3>2, <3>3, <2>1, <1>5
  <2>2. \A j \in Series \ {k} : \A row \in numbers'[j] :
          row[1] = year' => row[2] < Next1(sequences'[j], year') + outrun'[j]
    BY <1>4, <1>6 DEF NumbersInv, BehindOnlyBySeed
  <2> QED
    BY <2>1, <2>2, <1>8, <1>6 DEF BehindOnlyBySeed
<1>12. Copy'
  <2> SUFFICES ASSUME AtWork', NEW j \in Series
               PROVE  /\ Next1(sequences'[j], year) <= Next1(aligning.entries[j], year) + outrun'[j]
                      /\ \A row \in numbers'[j] :
                           row[1] = year => row[2] < Next1(aligning.entries[j], year) + outrun'[j]
    BY <1>6 DEF Copy
  <2> DEFINE e == Next1(aligning.entries[j], year)
  <2>1. e \in Nat
    BY <1>2, Next1Type DEF NumbersInv, NumbersTypeOK, Seeding
  <2>2. Next1(sequences[j], year) <= e + outrun[j]
    BY <1>6 DEF NumbersInv, Copy
  <2>3. \A row \in numbers[j] : row[1] = year => row[2] < e + outrun[j]
    BY <1>6 DEF NumbersInv, Copy
  <2>4. CASE j # k
    BY <2>4, <2>2, <2>3, <1>4, <1>6
  <2>5. CASE j = k
    <3>1. outrun'[k] = outrun[k] + 1
      BY <1>5, <1>6
    <3>2. n <= e + outrun[k]
      <4>1. CASE f = n
        BY <4>1, <2>2, <2>5, <1>2, <2>1
      <4>2. CASE <<year, n - 1>> \in numbers[k]
        <5>1. n - 1 < e + outrun[k]
          BY <4>2, <2>3, <2>5
        <5> QED
          BY <5>1, <1>2, <2>1
      <4> QED
        BY <4>1, <4>2, <1>3
    <3>3. n + 1 <= e + outrun'[k]
      BY <3>1, <3>2, <2>1, <1>2
    <3>4. ASSUME NEW row \in numbers'[k], row[1] = year
          PROVE  row[2] < e + outrun'[k]
      <4>1. CASE row = <<year, n>>
        BY <4>1, <3>3, <2>1, <1>2, <3>1
      <4>2. CASE row \in numbers[k]
        <5>1. row[2] < e + outrun[k] /\ row[2] \in Nat
          BY <4>2, <3>4, <2>3, <2>5 DEF NumbersInv, NumbersTypeOK
        <5> QED
          BY <5>1, <3>1, <2>1, <1>2
      <4> QED
        BY <4>1, <4>2, <3>4, <1>5
    <3> QED
      BY <3>3, <3>4, <2>5, <1>8, <1>6
  <2> QED
    BY <2>4, <2>5
<1> QED
  BY <1>7, <1>9, <1>10, <1>11, <1>12 DEF NumbersInv

\* A new year begins with empty tables, and every counter starts anew.
LEMMA NewYearKeeps == ASSUME NumbersInv, NewYear PROVE NumbersInv'
<1>1. /\ year' = year + 1 /\ year \in Nat /\ year > 0
      /\ sequences' = sequences /\ numbers' = numbers /\ aligning' = aligning
      /\ outrun' = outrun /\ (AtWork' <=> AtWork)
  BY DEF NewYear, NumbersInv, NumbersTypeOK, AtWork
<1>2. \A k \in Series : sequences[k] \in Entry /\ outrun[k] \in Nat
  BY DEF NumbersInv, NumbersTypeOK
<1>3. aligning.year \in Nat /\ \A k \in Series : aligning.entries[k] \in Entry
  BY DEF NumbersInv, NumbersTypeOK, Seeding
<1>4. \A k \in Series : Next1(sequences[k], year') = 1
  BY <1>1, <1>2 DEF NumbersInv, Years, Next1, Entry
<1>5. AtWork => \A k \in Series : Next1(aligning.entries[k], year') = 1
  BY <1>1, <1>3 DEF NumbersInv, Years, Next1, Entry
<1>6. \A k \in Series : \A row \in numbers[k] : row[1] # year' /\ row[1] <= year'
  <2>1. \A k \in Series : \A row \in numbers[k] : row[1] \in Nat /\ row[1] <= year
    BY DEF NumbersInv, NumbersTypeOK, Years
  <2> QED
    BY <2>1, <1>1
<1>7. NumbersTypeOK'
  BY <1>1 DEF NumbersInv, NumbersTypeOK
<1>8. Years'
  <2>1. \A k \in Series : sequences[k].year <= year + 1
    BY <1>1, <1>2 DEF NumbersInv, Years, Entry
  <2>2. AtWork => aligning.year <= year + 1
    BY <1>1, <1>3 DEF NumbersInv, Years
  <2> QED
    BY <2>1, <2>2, <1>1, <1>6 DEF NumbersInv, Years
<1>9. Dense'
  BY <1>1, <1>4, <1>5 DEF Dense, DenseIn
<1>10. Copy'
  BY <1>1, <1>2, <1>4, <1>5, <1>6 DEF Copy
<1>11. BehindOnlyBySeed'
  BY <1>1, <1>6 DEF BehindOnlyBySeed
<1> QED
  BY <1>7, <1>8, <1>9, <1>10, <1>11 DEF NumbersInv

\* The seed's copy starts as the counters themselves.
LEMMA SeedReadKeeps == ASSUME NumbersInv, ReadSequences PROVE NumbersInv'
<1>1. /\ aligning' = [year |-> year, entries |-> sequences, looked |-> FALSE]
      /\ year' = year /\ sequences' = sequences /\ numbers' = numbers /\ outrun' = outrun
  BY DEF ReadSequences
<1>2. aligning'.year = year /\ aligning'.entries = sequences
  BY <1>1
<1>3. year \in Nat /\ \A k \in Series : sequences[k] \in Entry /\ outrun[k] \in Nat
  BY DEF NumbersInv, NumbersTypeOK
<1>4. NumbersTypeOK'
  BY <1>1 DEF NumbersInv, NumbersTypeOK, Seeding
<1>5. Years'
  BY <1>1, <1>2, <1>3 DEF NumbersInv, Years
<1>6. Dense'
  BY <1>1, <1>2 DEF NumbersInv, Dense, DenseIn
<1>7. Copy'
  <2>1. \A k \in Series : Next1(sequences[k], year) <= Next1(sequences[k], year) + outrun[k]
    BY <1>3, Next1Type
  <2> QED
    BY <2>1, <1>1, <1>2 DEF NumbersInv, Copy, BehindOnlyBySeed
<1>8. BehindOnlyBySeed'
  BY <1>1 DEF NumbersInv, BehindOnlyBySeed
<1> QED
  BY <1>4, <1>5, <1>6, <1>7, <1>8 DEF NumbersInv

\* Aligning an entry with its table raises it, or leaves it.
LEMMA SeedLookUpKeeps == ASSUME NumbersInv, LookUpNumbers PROVE NumbersInv'
<1> USE SeriesAssumption
<1>1. PICK found \in [Aligned -> 0..MaxNumber] :
        /\ \A k \in Aligned :
             \/ Highest(k, aligning.year, found[k])
             \/ found[k] = 0 /\ \A row \in numbers[k] : row[1] # aligning.year
        /\ aligning' = [aligning EXCEPT !.looked = TRUE,
             !.entries = [k \in Series |->
                IF k \in Aligned /\ found[k] > 0
                THEN [year |-> aligning.year, next |-> found[k] + 1] ELSE @[k]]]
  BY DEF LookUpNumbers
<1>2. /\ AtWork /\ year' = year /\ sequences' = sequences
      /\ numbers' = numbers /\ outrun' = outrun
  BY DEF LookUpNumbers
<1>3. /\ year \in Nat /\ aligning \in Seeding /\ aligning.year \in Nat
      /\ \A k \in Series : /\ sequences[k] \in Entry /\ outrun[k] \in Nat
                           /\ aligning.entries[k] \in Entry
  BY DEF NumbersInv, NumbersTypeOK, Seeding
<1>4. /\ aligning'.year = aligning.year
      /\ \A k \in Series : aligning'.entries[k] =
           IF k \in Aligned /\ found[k] > 0
           THEN [year |-> aligning.year, next |-> found[k] + 1] ELSE aligning.entries[k]
  BY <1>1, <1>3 DEF Seeding
<1>5. NumbersTypeOK'
  <2> DEFINE new == [k \in Series |->
                IF k \in Aligned /\ found[k] > 0
                THEN [year |-> aligning.year, next |-> found[k] + 1] ELSE aligning.entries[k]]
  <2>2. ASSUME NEW k \in Series PROVE new[k] \in Entry
    <3>1. CASE k \in Aligned /\ found[k] > 0
      <4>1. found[k] + 1 \in Nat \ {0}
        BY <3>1
      <4> QED
        BY <4>1, <3>1, <1>3 DEF Entry
    <3>2. CASE ~(k \in Aligned /\ found[k] > 0)
      BY <3>2, <1>3
    <3> QED
      BY <3>1, <3>2
  <2>3. new \in [Series -> Entry]
    BY <2>2
  <2>1. aligning' \in Seeding
    BY <1>1, <1>3, <2>3 DEF Seeding
  <2> QED
    BY <2>1, <1>2 DEF NumbersInv, NumbersTypeOK
<1>6. ASSUME NEW k \in Series
      PROVE  \/ Next1(aligning'.entries[k], year) = Next1(aligning.entries[k], year)
             \/ /\ aligning.year = year /\ found[k] \in Nat
                /\ Next1(aligning'.entries[k], year) = found[k] + 1
                /\ <<year, found[k]>> \in numbers[k]
                /\ \A row \in numbers[k] : row[1] = year => row[2] <= found[k]
  <2>1. CASE ~(k \in Aligned /\ found[k] > 0)
    BY <2>1, <1>4
  <2>2. CASE k \in Aligned /\ found[k] > 0
    <3>1. aligning'.entries[k] = [year |-> aligning.year, next |-> found[k] + 1]
      BY <2>2, <1>4
    <3>2. found[k] \in Nat /\ Highest(k, aligning.year, found[k])
      BY <2>2, <1>1
    <3>3. CASE aligning.year = year
      BY <3>1, <3>2, <3>3 DEF Next1, Highest
    <3>4. CASE aligning.year # year
      <4>1. aligning.entries[k].year # year
        BY <3>4, <1>2, <1>3 DEF NumbersInv, Years, Entry
      <4> QED
        BY <4>1, <3>1, <3>4 DEF Next1
    <3> QED
      BY <3>3, <3>4
  <2> QED
    BY <2>1, <2>2
<1>7. Years'
  <2>1. ASSUME NEW k \in Series PROVE aligning'.entries[k].year <= aligning'.year
    <3>1. CASE aligning'.entries[k] = aligning.entries[k]
      BY <3>1, <1>2, <1>4 DEF NumbersInv, Years
    <3>2. CASE aligning'.entries[k] = [year |-> aligning.year, next |-> found[k] + 1]
      BY <3>2, <1>3, <1>4
    <3> QED
      BY <3>1, <3>2, <1>4
  <2> QED
    BY <2>1, <1>2, <1>4 DEF NumbersInv, Years
<1>8. Dense'
  <2>1. ASSUME NEW k \in Series PROVE DenseIn(aligning.entries[k], numbers[k])'
    <3>1. CASE Next1(aligning'.entries[k], year) = Next1(aligning.entries[k], year)
      BY <3>1, <1>2 DEF NumbersInv, Dense, DenseIn
    <3>2. CASE /\ found[k] \in Nat /\ <<year, found[k]>> \in numbers[k]
               /\ Next1(aligning'.entries[k], year) = found[k] + 1
      <4>1. (found[k] + 1) - 1 = found[k]
        BY <3>2
      <4> QED
        BY <4>1, <3>2, <1>2 DEF DenseIn
    <3> QED
      BY <3>1, <3>2, <1>6
  <2>2. \A k \in Series : DenseIn(sequences[k], numbers[k])'
    BY <1>2 DEF NumbersInv, Dense, DenseIn
  <2> QED
    BY <2>1, <2>2 DEF Dense
<1>9. Copy'
  <2>1. ASSUME NEW k \in Series
        PROVE  /\ Next1(sequences[k], year) <= Next1(aligning'.entries[k], year) + outrun[k]
               /\ \A row \in numbers[k] :
                    row[1] = year => row[2] < Next1(aligning'.entries[k], year) + outrun[k]
    <3>1. CASE Next1(aligning'.entries[k], year) = Next1(aligning.entries[k], year)
      BY <3>1, <1>2 DEF NumbersInv, Copy
    <3>2. CASE /\ found[k] \in Nat
               /\ Next1(aligning'.entries[k], year) = found[k] + 1
               /\ \A row \in numbers[k] : row[1] = year => row[2] <= found[k]
      <4> DEFINE s == Next1(sequences[k], year)
      <4>1. s \in Nat /\ s > 0
        BY <1>3, Next1Type
      <4>2. s <= found[k] + 1
        <5>1. CASE s = 1
          BY <5>1, <3>2
        <5>2. CASE <<year, s - 1>> \in numbers[k]
          <6>1. s - 1 <= found[k]
            BY <5>2, <3>2
          <6> QED
            BY <6>1, <4>1, <3>2
        <5> QED
          BY <5>1, <5>2 DEF NumbersInv, Dense, DenseIn
      <4>3. \A row \in numbers[k] : row[2] \in Nat
        BY DEF NumbersInv, NumbersTypeOK
      <4>4. \A row \in numbers[k] : row[1] = year => row[2] < (found[k] + 1) + outrun[k]
        BY <4>3, <3>2, <1>3
      <4> QED
        BY <4>1, <4>2, <4>4, <3>2, <1>3
    <3> QED
      BY <3>1, <3>2, <1>6
  <2> QED
    BY <2>1, <1>2 DEF Copy
<1>10. BehindOnlyBySeed'
  BY <1>2 DEF NumbersInv, BehindOnlyBySeed
<1> QED
  BY <1>5, <1>7, <1>8, <1>9, <1>10 DEF NumbersInv

\* The seed writes its copy, or gives it up.
LEMMA SeedWriteKeeps == ASSUME NumbersInv, WriteSequences \/ AbandonSeed PROVE NumbersInv'
<1>1. /\ AtWork /\ ~AtWork' /\ aligning' = NoSeed
      /\ sequences' = sequences \/ sequences' = aligning.entries
      /\ year' = year /\ numbers' = numbers /\ outrun' = outrun
  BY DEF WriteSequences, AbandonSeed, AtWork
<1>2. year \in Nat /\ aligning.year \in Nat
      /\ \A k \in Series : aligning.entries[k] \in Entry
  BY DEF NumbersInv, NumbersTypeOK, Seeding
<1>3. NumbersTypeOK'
  BY <1>1, NoSeedType DEF NumbersInv, NumbersTypeOK, Seeding
<1>4. Years'
  <2>1. \A k \in Series : sequences'[k].year <= year
    BY <1>1, <1>2 DEF NumbersInv, Years, Entry
  <2> QED
    BY <2>1, <1>1 DEF NumbersInv, Years
<1>5. Dense'
  BY <1>1 DEF NumbersInv, Dense, DenseIn
<1>6. Copy'
  BY <1>1 DEF Copy
<1>7. BehindOnlyBySeed'
  BY <1>1 DEF NumbersInv, BehindOnlyBySeed, Copy
<1> QED
  BY <1>3, <1>4, <1>5, <1>6, <1>7 DEF NumbersInv

\* Every step keeps NumbersInv.
LEMMA NumbersStep == ASSUME NumbersInv, [NumbersNext]_numberVars PROVE NumbersInv'
<1>1. CASE \E k \in Series : CreateNumbered(k)
  BY <1>1, NumberedKeeps
<1>2. CASE NewYear
  BY <1>2, NewYearKeeps
<1>3. CASE ReadSequences
  BY <1>3, SeedReadKeeps
<1>4. CASE LookUpNumbers
  BY <1>4, SeedLookUpKeeps
<1>5. CASE WriteSequences \/ AbandonSeed
  BY <1>5, SeedWriteKeeps
<1>6. CASE UNCHANGED numberVars
  BY <1>6 DEF numberVars, NumbersInv, NumbersTypeOK, Years, Dense, DenseIn, Copy,
              BehindOnlyBySeed, AtWork, Next1
<1> QED
  BY <1>1, <1>2, <1>3, <1>4, <1>5, <1>6 DEF NumbersNext

\* The settings row, the tables and the seed's copy keep their types.
THEOREM NumbersTypeCorrect == NumbersSpec => []NumbersTypeOK
<1>1. NumbersInv => NumbersTypeOK
  BY DEF NumbersInv
<1> QED
  BY NumbersStart, NumbersStep, <1>1, PTL DEF NumbersSpec

\* nextInTx and the alignment of the seed: whatever the number of tries, a counter
\* is behind its table only by the numbers given while a seed was at work.
THEOREM CountersKeepUp == NumbersSpec => []BehindOnlyBySeed
<1>1. NumbersInv => BehindOnlyBySeed
  BY DEF NumbersInv
<1> QED
  BY NumbersStart, NumbersStep, <1>1, PTL DEF NumbersSpec

-----------------------------------------------------------------------------
(***************************************************************************)
(* Reception: DeskInv says what is in its rows, and that a second visit of *)
(* a day comes of a check-in that looked too early. Of the requests at     *)
(* work, Prepared says what their readings are still good for at their     *)
(* writes, and Ledger how often the work of an id was committed, with the  *)
(* commits that workers are still to make.                                 *)
(***************************************************************************)
Mark == [by: Id, at: Nat]
VisitRow == [by: Id, plate: Plate, customer: Phone, day: Nat, active: BOOLEAN,
             version: Nat, updatedAt: Nat, notes: SUBSET Mark, fuel: Mark, seen: Nat]

DeskTypeOK ==
  /\ now \in Nat
  /\ customers \subseteq Phone
  /\ vehicles \in [Plate -> customers \cup {Nobody}]
  /\ visits \in Seq(VisitRow)

\* What is in the rows of reception.
VisitOK(i) ==
  /\ visits[i].customer \in customers /\ vehicles[visits[i].plate] # Nobody
  /\ visits[i].seen < i
  /\ visits[i].day <= Day(now)
  /\ visits[i].updatedAt <= now
  /\ visits[i].fuel.at <= visits[i].updatedAt
  /\ \A n \in visits[i].notes : n.at <= visits[i].updatedAt

DeskInv ==
  /\ DeskTypeOK
  /\ \A i \in 1..Len(visits) : VisitOK(i)
  /\ SecondVisitNeedsOverlap

\* What no transaction takes back: owners, and the visits, each change of which
\* gives it a new version.
VisitGoesOn(i) ==
  /\ visits'[i].plate = visits[i].plate /\ visits'[i].day = visits[i].day
  /\ visits'[i].active => visits[i].active
  /\ visits'[i].version \in Nat /\ visits'[i].version >= visits[i].version
  /\ visits'[i].version = visits[i].version => visits'[i] = visits[i]

DeskGoesOn ==
  /\ now' \in Nat /\ now' >= now
  /\ customers \subseteq customers'
  /\ \A p \in Plate : vehicles[p] # Nobody => vehicles'[p] # Nobody
  /\ Len(visits') >= Len(visits)
  /\ \A i \in 1..Len(visits) : VisitGoesOn(i)

-----------------------------------------------------------------------------
\* Later ticks are not of earlier days.
LEMMA DayMonotone ==
  ASSUME NEW s \in Nat, NEW t \in Nat, s <= t
  PROVE  Day(s) \in Nat /\ Day(t) \in Nat /\ Day(s) <= Day(t)
<1>1. DayLength \in Nat /\ DayLength > 0
  BY ReceptionAssumption
<1> DEFINE d == DayLength
           q == s \div d
           r == t \div d
<1>2. /\ q \in Nat /\ r \in Nat
      /\ d * q <= s /\ t < d * (r + 1)
  BY <1>1
<1>3. q <= r
  <2> SUFFICES ASSUME q >= r + 1 PROVE FALSE
    BY <1>2
  <2>1. d * q >= d * (r + 1)
    <3> HIDE DEF q, r
    <3> QED BY <1>1, <1>2
  <2> QED
    BY <1>1, <1>2, <2>1
<1> QED
  BY <1>2, <1>3 DEF Day

\* The owner of an unregistered plate is no customer.
LEMMA NobodyIsNoPhone == Nobody \notin Phone
BY ReceptionAssumption

\* Visits that are changed where they stand, and by a new version each.
LEMMA VisitsChange ==
  ASSUME DeskInv, NEW i \in 1..Len(visits), NEW row \in VisitRow,
         visits' = [visits EXCEPT ![i] = row],
         row.plate = visits[i].plate, row.day = visits[i].day, row.seen = visits[i].seen,
         row.customer = visits[i].customer, row.active => visits[i].active,
         row.version = visits[i].version + 1, row.updatedAt = now,
         row.fuel.at <= now, \A n \in row.notes : n.at <= now,
         UNCHANGED <<now, customers, vehicles>>
  PROVE  DeskInv' /\ DeskGoesOn
<1>1. DeskTypeOK
  BY DEF DeskInv
<1>2. /\ visits' \in Seq(VisitRow) /\ Len(visits') = Len(visits)
      /\ \A j \in 1..Len(visits) : visits'[j] = IF j = i THEN row ELSE visits[j]
  BY <1>1 DEF DeskTypeOK
<1>3. DeskTypeOK'
  BY <1>1, <1>2 DEF DeskTypeOK
<1>4. \A j \in 1..Len(visits) : visits[j] \in VisitRow
  BY <1>1 DEF DeskTypeOK
<1>5. ASSUME NEW j \in 1..Len(visits)
      PROVE  /\ VisitOK(j)' /\ VisitGoesOn(j)
             /\ visits'[j].seen = visits[j].seen
  <2>1. CASE j = i
    <3>1. VisitOK(j) /\ visits'[j] = row /\ visits[j] \in VisitRow /\ now \in Nat
      BY <1>1, <1>2, <1>4, <2>1 DEF DeskInv, DeskTypeOK
    <3>2. Day(now)' = Day(now)
      BY DEF Day
    <3>3. VisitOK(j)'
      BY <2>1, <3>1, <3>2 DEF VisitOK
    <3>4. visits[j].version \in Nat /\ visits'[j].version = visits[j].version + 1
      BY <2>1, <3>1 DEF VisitRow
    <3> QED
      BY <2>1, <3>1, <3>3, <3>4 DEF VisitGoesOn
  <2>2. CASE j # i
    <3>1. VisitOK(j) /\ visits'[j] = visits[j]
      BY <1>2, <2>2 DEF DeskInv
    <3> QED
      BY <1>4, <3>1 DEF VisitOK, VisitGoesOn, VisitRow
  <2> QED
    BY <2>1, <2>2
<1>6. SecondVisitNeedsOverlap'
  BY <1>2, <1>5 DEF DeskInv, SecondVisitNeedsOverlap, VisitGoesOn
<1>7. DeskGoesOn
  BY <1>1, <1>2, <1>5 DEF DeskGoesOn, DeskTypeOK
<1> QED
  BY <1>2, <1>3, <1>5, <1>6, <1>7 DEF DeskInv

\* A step that leaves the visits alone, and takes no customer and no owner away, keeps
\* DeskInv.
LEMMA DeskStays ==
  ASSUME DeskInv, visits' = visits, DeskTypeOK', now' >= now, customers \subseteq customers',
         \A p \in Plate : vehicles[p] # Nobody => vehicles'[p] # Nobody
  PROVE  DeskInv' /\ DeskGoesOn
<1>1. DeskTypeOK
  BY DEF DeskInv
<1>2. \A j \in 1..Len(visits) : visits[j] \in VisitRow
  BY <1>1 DEF DeskTypeOK
<1>3. Day(now) \in Nat /\ Day(now') \in Nat /\ Day(now) <= Day(now')
  BY <1>1, DayMonotone DEF DeskTypeOK
<1>4. ASSUME NEW j \in 1..Len(visits) PROVE VisitOK(j)' /\ VisitGoesOn(j)
  <2>1. VisitOK(j) /\ visits[j] \in VisitRow
    BY <1>2 DEF DeskInv
  <2>2. visits[j].day <= Day(now')
    BY <1>3, <2>1 DEF VisitOK, VisitRow
  <2>3. visits[j].updatedAt <= now'
    BY <1>1, <2>1 DEF VisitOK, VisitRow, DeskTypeOK
  <2>4. Day(now)' = Day(now')
    BY DEF Day
  <2> QED
    BY <2>1, <2>2, <2>3, <2>4 DEF VisitOK, VisitGoesOn, VisitRow
<1>5. SecondVisitNeedsOverlap'
  BY DEF DeskInv, SecondVisitNeedsOverlap
<1> QED
  BY <1>1, <1>4, <1>5 DEF DeskInv, DeskGoesOn, DeskTypeOK

\* A check-in that is ready to commit: the customer and the vehicle it names are
\* there, and of the visits it saw none is in the workshop that is of today.
CheckInReady(form, seen) ==
  /\ seen \in 0..Len(visits)
  /\ ~form.newCustomer => form.customer \in customers
  /\ ~form.newVehicle =>
       /\ form.plate \in Plate /\ vehicles[form.plate] # Nobody
       /\ \A i \in 1..seen :
            visits[i].plate = form.plate /\ visits[i].active => visits[i].day < Day(now)

\* What a check-in has read stays good for its commit while the rows go on.
LEMMA ReadyStays ==
  ASSUME DeskInv, DeskGoesOn, NEW form, NEW seen, CheckInReady(form, seen)
  PROVE  CheckInReady(form, seen)'
<1>1. now \in Nat /\ Len(visits) \in Nat
  BY DEF DeskInv, DeskTypeOK
<1>2. Day(now) \in Nat /\ Day(now') \in Nat /\ Day(now) <= Day(now') /\ Day(now)' = Day(now')
  BY <1>1, DayMonotone DEF DeskGoesOn, Day
<1>3. \A i \in 1..Len(visits) : visits[i].day \in Nat
  <2>1. \A i \in 1..Len(visits) : visits[i] \in VisitRow
    BY DEF DeskInv, DeskTypeOK
  <2> QED
    BY <2>1 DEF VisitRow
<1>4. /\ seen \in 0..Len(visits')
      /\ \A i \in 1..seen : i \in 1..Len(visits)
  BY <1>1 DEF CheckInReady, DeskGoesOn, DeskInv, DeskTypeOK
<1>5. ASSUME ~form.newVehicle
      PROVE  /\ form.plate \in Plate /\ vehicles'[form.plate] # Nobody
             /\ \A i \in 1..seen :
                  visits'[i].plate = form.plate /\ visits'[i].active
                  => visits'[i].day < Day(now')
  <2>1. form.plate \in Plate /\ vehicles'[form.plate] # Nobody
    BY <1>5 DEF CheckInReady, DeskGoesOn
  <2>2. ASSUME NEW i \in 1..seen, visits'[i].plate = form.plate, visits'[i].active
        PROVE  visits'[i].day < Day(now')
    <3>1. i \in 1..Len(visits) /\ VisitGoesOn(i)
      BY <1>4 DEF DeskGoesOn
    <3>2. visits[i].day < Day(now) /\ visits'[i].day = visits[i].day /\ visits[i].day \in Nat
      BY <1>3, <1>5, <2>2, <3>1 DEF VisitGoesOn, CheckInReady
    <3> QED
      BY <1>2, <3>2
  <2> QED
    BY <2>1, <2>2
<1> QED
  BY <1>2, <1>4, <1>5 DEF CheckInReady, DeskGoesOn

\* The commit of a check-in.
LEMMA CommitKeeps ==
  ASSUME DeskInv, NEW by \in Id, NEW form, NEW seen, CheckInReady(form, seen),
         form.newCustomer \in BOOLEAN, form.newVehicle \in BOOLEAN,
         form.newCustomer => form.customer \in Phone,
         form.newVehicle => form.plate \in Plate,
         CommitCheckIn(by, form, seen)
  PROVE  DeskInv' /\ DeskGoesOn
<1> DEFINE new == NewVisit(by, form, seen)
           n == Len(visits)
<1>1. DeskTypeOK /\ n \in Nat
  BY DEF DeskInv, DeskTypeOK
<1>2. /\ ~Collides(form) /\ now' = now /\ visits' = Append(visits, new)
      /\ customers' = IF form.newCustomer THEN customers \cup {form.customer} ELSE customers
      /\ vehicles' = IF form.newVehicle THEN [vehicles EXCEPT ![form.plate] = form.customer]
                                        ELSE vehicles
  BY DEF CommitCheckIn
<1>3. form.customer \in customers' /\ form.customer \in Phone /\ form.plate \in Plate
      /\ seen \in Nat /\ seen <= n
  BY <1>1, <1>2 DEF CheckInReady, DeskTypeOK
<1>4. /\ customers' \subseteq Phone /\ customers \subseteq customers'
      /\ vehicles' \in [Plate -> customers' \cup {Nobody}]
      /\ \A p \in Plate : vehicles[p] # Nobody => vehicles'[p] # Nobody
      /\ vehicles'[form.plate] # Nobody
  BY <1>1, <1>2, <1>3, NobodyIsNoPhone DEF DeskTypeOK, CheckInReady
<1>5. /\ new \in VisitRow /\ new.plate = form.plate /\ new.customer = form.customer
      /\ new.day = Day(now) /\ new.seen = seen /\ new.updatedAt = now
      /\ new.fuel.at = now /\ \A m \in new.notes : m.at = now
  <2>1. Day(now) \in Nat
    BY <1>1, DayMonotone DEF DeskTypeOK
  <2>2. Entered(by) \in Mark /\ Entered(by).at = now
    BY <1>1 DEF Entered, Mark, DeskTypeOK
  <2> QED
    BY <1>1, <1>3, <2>1, <2>2 DEF NewVisit, VisitRow, DeskTypeOK
<1> HIDE DEF new
<1>6. /\ visits' \in Seq(VisitRow) /\ Len(visits') = n + 1 /\ visits'[n + 1] = new
      /\ \A j \in 1..n : visits'[j] = visits[j]
  BY <1>1, <1>2, <1>5 DEF DeskTypeOK
<1>7. DeskTypeOK'
  BY <1>1, <1>2, <1>4, <1>6 DEF DeskTypeOK
<1>8. Day(now)' = Day(now) /\ Day(now) \in Nat
  BY <1>1, <1>2, DayMonotone DEF Day, DeskTypeOK
<1>9. ASSUME NEW j \in 1..n PROVE VisitOK(j)' /\ VisitGoesOn(j)
  <2>1. VisitOK(j) /\ visits[j] \in VisitRow /\ visits'[j] = visits[j]
    BY <1>1, <1>6 DEF DeskInv, DeskTypeOK
  <2> QED
    BY <1>2, <1>4, <1>8, <2>1 DEF VisitOK, VisitGoesOn, VisitRow
<1>10. ASSUME NEW j \in Nat, j = n + 1 PROVE VisitOK(j)'
  <2>1. visits'[j] = new
    BY <1>6, <1>10
  <2>2. now' \in Nat
    BY <1>1, <1>2 DEF DeskTypeOK
  <2> QED
    BY <1>1, <1>2, <1>3, <1>4, <1>5, <1>8, <1>10, <2>1, <2>2 DEF VisitOK
<1>11. ASSUME NEW i \in 1..n, new.plate = visits[i].plate, visits[i].day = Day(now),
              visits[i].active
       PROVE  seen < i
  <2>1. ~form.newVehicle
    <3>1. vehicles[form.plate] # Nobody
      BY <1>5, <1>11 DEF DeskInv, VisitOK
    <3> QED
      BY <1>2, <3>1 DEF Collides
  <2> SUFFICES ASSUME i <= seen PROVE FALSE
    BY <1>1, <1>3
  <2>2. visits[i].day < Day(now)
    BY <1>1, <1>3, <1>5, <1>11, <2>1 DEF CheckInReady
  <2> QED
    BY <1>8, <1>11, <2>2
<1>12. SecondVisitNeedsOverlap'
  <2> SUFFICES ASSUME NEW i \in 1..(n + 1), NEW j \in 1..(n + 1), i < j,
                      visits'[i].plate = visits'[j].plate, visits'[i].day = visits'[j].day,
                      visits'[i].active
               PROVE  visits'[j].seen < i
    BY <1>6 DEF SecondVisitNeedsOverlap
  <2>1. i \in 1..n /\ visits'[i] = visits[i]
    BY <1>1, <1>6
  <2>2. CASE j \in 1..n
    BY <1>6, <2>1, <2>2 DEF DeskInv, SecondVisitNeedsOverlap
  <2>3. CASE j = n + 1
    BY <1>5, <1>6, <1>11, <2>1, <2>3
  <2> QED
    BY <1>1, <2>2, <2>3
<1> QED
  <2>1. \A j \in 1..Len(visits') : VisitOK(j)'
    <3> SUFFICES ASSUME NEW j \in 1..Len(visits') PROVE VisitOK(j)'
      OBVIOUS
    <3>1. j \in 1..n \/ (j \in Nat /\ j = n + 1)
      BY <1>1, <1>6
    <3> QED
      BY <1>9, <1>10, <3>1
  <2> QED
    BY <1>1, <1>2, <1>4, <1>6, <1>7, <1>9, <1>12, <2>1 DEF DeskInv, DeskGoesOn, DeskTypeOK

-----------------------------------------------------------------------------
Ats == {"look", "read", "write", "store"}

WorkerOK(r) ==
  \/ r = Free
  \/ /\ DOMAIN r = {"at", "batch", "pos", "ids", "got"}
     /\ r.at \in Ats /\ r.batch \in Batches /\ r.pos \in 1..Len(r.batch)

SyncTypeOK ==
  /\ DOMAIN worker = Worker /\ \A w \in Worker : WorkerOK(worker[w])
  /\ captured \in [Batches -> [at: Nat, versions: Seq(Nat)]]
  /\ DOMAIN answered = Id
  /\ made \in [Id -> Nat] /\ excuses \in [Id -> Nat]

\* An update that is ready to write: the version it read is not ahead of the
\* visit's; and as long as the two are the same, what it leaves out was there when
\* its batch was captured, and its own version is the visit's.
UpdateReady(op, i, got, since) ==
  /\ i \in 1..Len(visits)
  /\ got.version \in Nat /\ got.version <= visits[i].version
  /\ got.notes \subseteq Mark /\ \A n \in got.notes : n.at <= now
  /\ visits[i].version = got.version =>
       /\ visits[i].notes \subseteq got.notes \/ visits[i].updatedAt <= since.at
       /\ op.versioned => since.versions[i] = visits[i].version
       /\ op.fuel => visits[i].updatedAt <= since.at \/ visits[i].fuel.by = op.id

Ready(w) ==
  Busy(w, {"write"}) =>
    /\ Op(w).kind \in {"desk", "visit"} => CheckInReady(Form(w), worker[w].got)
    /\ Op(w).kind = "vehicle" => Resolved(w, Op(w).customer) \in customers
    /\ Op(w).kind = "update" =>
         UpdateReady(Op(w), Resolved(w, Op(w).visit), worker[w].got,
                     captured[worker[w].batch])

Prepared ==
  \A w \in Worker : worker[w] # Free => captured[worker[w].batch] # Unsent /\ Ready(w)

\* The commits of an id that may still come.
Writers(x) == {w \in Worker : Busy(w, {"read", "write"}) /\ Op(w).id = x}
Tended(x)  == \E w \in Worker : Busy(w, {"read", "write", "store"}) /\ Op(w).id = x

Ledger ==
  \A x \in Id :
    /\ made[x] + Cardinality(Writers(x)) <= 1 + excuses[x]
    /\ answered[x] = Nothing /\ ~Tended(x) => made[x] <= excuses[x]

SyncInv == DeskInv /\ SyncTypeOK /\ Prepared /\ Ledger

-----------------------------------------------------------------------------
\* A worker that is not free is at an operation of its batch.
LEMMA OpType ==
  ASSUME SyncTypeOK, NEW w \in Worker, worker[w] # Free
  PROVE  /\ Op(w) \in Operations /\ Op(w).id \in Id
         /\ worker[w].batch \in Batches /\ worker[w].at \in Ats
<1>1. worker[w].batch \in Batches /\ worker[w].pos \in 1..Len(worker[w].batch)
      /\ worker[w].at \in Ats
  BY DEF SyncTypeOK, WorkerOK
<1>2. Op(w) \in Operations
  BY <1>1 DEF Op, Operations
<1> QED
  BY <1>1, <1>2 DEF Id

\* A worker that is about something is not free.
LEMMA FreeIsIdle == \A w \in Worker, ats \in SUBSET Ats : Busy(w, ats) => worker[w] # Free
BY DEF Free, Busy, Ats

\* What the steps do to a worker.
LEMMA ToEffect ==
  ASSUME SyncTypeOK, NEW w \in Worker, worker[w] # Free, NEW at \in Ats, NEW got, To(w, at, got)
  PROVE  /\ DOMAIN worker' = Worker /\ \A v \in Worker : WorkerOK(worker'[v])
         /\ worker'[w] # Free
         /\ worker'[w].at = at /\ worker'[w].got = got /\ worker'[w].ids = worker[w].ids
         /\ worker'[w].batch = worker[w].batch /\ worker'[w].pos = worker[w].pos
         /\ \A v \in Worker \ {w} : worker'[v] = worker[v]
<1>1. DOMAIN worker = Worker /\ \A v \in Worker : WorkerOK(worker[v])
  BY DEF SyncTypeOK
<1>2. worker' = [worker EXCEPT ![w] = [[worker[w] EXCEPT !.at = at] EXCEPT !.got = got]]
  BY <1>1 DEF To
<1> DEFINE r == [[worker[w] EXCEPT !.at = at] EXCEPT !.got = got]
<1>3. DOMAIN worker[w] = {"at", "batch", "pos", "ids", "got"}
  BY <1>1 DEF WorkerOK
<1>4. /\ DOMAIN r = {"at", "batch", "pos", "ids", "got"}
      /\ r.at = at /\ r.got = got /\ r.ids = worker[w].ids
      /\ r.batch = worker[w].batch /\ r.pos = worker[w].pos
  BY <1>3
<1>5. r # Free
  <2>1. Free.at = "free" /\ "free" \notin Ats
    BY DEF Free, Ats
  <2> QED
    BY <1>4, <2>1
<1> HIDE DEF r
<1>6. worker' = [worker EXCEPT ![w] = r]
  BY <1>2 DEF r
<1>7. DOMAIN worker' = Worker /\ worker'[w] = r /\ \A v \in Worker \ {w} : worker'[v] = worker[v]
  BY <1>1, <1>6
<1>8. WorkerOK(r)
  BY <1>1, <1>4 DEF WorkerOK
<1> QED
  BY <1>1, <1>4, <1>5, <1>7, <1>8

\* A worker that is through with an operation is free or looks up the next one.
LEMMA LeaveEffect ==
  ASSUME SyncTypeOK, NEW w \in Worker, worker[w] # Free, NEW result,
         Throws(w) \/ Advance(w, result)
  PROVE  /\ DOMAIN worker' = Worker /\ \A v \in Worker : WorkerOK(worker'[v])
         /\ worker'[w].at \in {"free", "look"}
         /\ worker'[w] # Free => worker'[w].batch = worker[w].batch
         /\ \A v \in Worker \ {w} : worker'[v] = worker[v]
<1>1. DOMAIN worker = Worker /\ \A v \in Worker : WorkerOK(worker[v])
  BY DEF SyncTypeOK
<1>2. CASE worker' = [worker EXCEPT ![w] = Free]
  BY <1>1, <1>2 DEF WorkerOK, Free
<1>3. ASSUME NEW ids, worker[w].pos # Len(worker[w].batch),
             worker' = [worker EXCEPT ![w] =
               [worker[w] EXCEPT !.at = "look", !.pos = worker[w].pos + 1,
                                 !.got = Nothing, !.ids = ids]]
      PROVE  /\ DOMAIN worker' = Worker /\ \A v \in Worker : WorkerOK(worker'[v])
             /\ worker'[w].at \in {"free", "look"}
             /\ worker'[w].batch = worker[w].batch
             /\ \A v \in Worker \ {w} : worker'[v] = worker[v]
  <2> DEFINE r == [worker[w] EXCEPT !.at = "look", !.pos = worker[w].pos + 1,
                                    !.got = Nothing, !.ids = ids]
  <2>1. /\ DOMAIN worker[w] = {"at", "batch", "pos", "ids", "got"}
        /\ worker[w].batch \in Batches /\ worker[w].pos \in 1..Len(worker[w].batch)
    BY <1>1 DEF WorkerOK
  <2>2. /\ DOMAIN r = {"at", "batch", "pos", "ids", "got"}
        /\ r.at = "look" /\ r.batch = worker[w].batch /\ r.pos = worker[w].pos + 1
    BY <2>1
  <2>3. Len(worker[w].batch) \in Nat
    BY <2>1, SyncAssumption
  <2>4. r.pos \in 1..Len(worker[w].batch)
    BY <1>3, <2>1, <2>2, <2>3
  <2> HIDE DEF r
  <2>5. worker' = [worker EXCEPT ![w] = r]
    BY <1>3 DEF r
  <2>6. WorkerOK(r)
    BY <2>1, <2>2, <2>4 DEF WorkerOK, Ats
  <2> QED
    BY <1>1, <2>2, <2>5, <2>6
<1>4. CASE Advance(w, result)
  <2>1. CASE worker[w].pos = Len(worker[w].batch)
    BY <1>1, <1>2, <1>4, <2>1 DEF Advance
  <2>2. CASE worker[w].pos # Len(worker[w].batch)
    <3>1. \E ids : worker' = [worker EXCEPT ![w] =
               [worker[w] EXCEPT !.at = "look", !.pos = worker[w].pos + 1,
                                 !.got = Nothing, !.ids = ids]]
      BY <1>4, <2>2 DEF Advance
    <3> QED
      BY <1>3, <2>2, <3>1
  <2> QED
    BY <2>1, <2>2
<1> QED
  BY <1>2, <1>4 DEF Throws

-----------------------------------------------------------------------------
\* What an update has read stays good for its write, or its version is gone.
LEMMA UpdateReadyStays ==
  ASSUME DeskInv, DeskGoesOn, NEW op, NEW i, NEW got, NEW since,
         UpdateReady(op, i, got, since)
  PROVE  UpdateReady(op, i, got, since)'
<1>1. now \in Nat /\ now' \in Nat /\ now <= now' /\ Len(visits) \in Nat
  BY DEF DeskInv, DeskTypeOK, DeskGoesOn
<1>2. i \in 1..Len(visits) /\ i \in 1..Len(visits')
  BY <1>1 DEF UpdateReady, DeskGoesOn, DeskInv, DeskTypeOK
<1>3. VisitGoesOn(i) /\ visits[i] \in VisitRow
  BY <1>2 DEF DeskGoesOn, DeskInv, DeskTypeOK
<1>4. got.version \in Nat /\ got.version <= visits[i].version /\ visits[i].version \in Nat
  BY <1>3 DEF UpdateReady, VisitRow
<1>5. visits'[i].version \in Nat /\ visits'[i].version >= visits[i].version
      /\ (visits'[i].version = visits[i].version => visits'[i] = visits[i])
  BY <1>3 DEF VisitGoesOn
<1>6. got.version <= visits'[i].version
      /\ (visits'[i].version = got.version => visits'[i] = visits[i])
  BY <1>4, <1>5
<1>7. \A n \in got.notes : n.at <= now'
  BY <1>1 DEF UpdateReady, Mark
<1> QED
  BY <1>2, <1>4, <1>6, <1>7 DEF UpdateReady

\* A form with its ids resolved is a form.
LEMMA FormType ==
  ASSUME SyncTypeOK, NEW w \in Worker, worker[w] # Free, Op(w).kind \in {"desk", "visit"}
  PROVE  /\ Form(w).newCustomer \in BOOLEAN /\ Form(w).newVehicle \in BOOLEAN
         /\ Form(w).newCustomer => Form(w).customer \in Phone
         /\ Form(w).newVehicle => Form(w).plate \in Plate
<1>1. IsForm(Op(w))
  BY OpType, SyncAssumption
<1> QED
  BY <1>1 DEF Form, IsForm

\* A worker that is left alone stays ready, whatever goes on at the desk.
LEMMA ReadyKept ==
  ASSUME SyncInv, DeskGoesOn, NEW v \in Worker, worker'[v] = worker[v],
         worker[v] # Free,
         captured'[worker[v].batch] = captured[worker[v].batch]
  PROVE  Ready(v)'
<1>1. DeskInv /\ Ready(v)
  BY DEF SyncInv, Prepared
<1>2. /\ Op(v)' = Op(v) /\ \A ref : Resolved(v, ref)' = Resolved(v, ref)
      /\ Busy(v, {"write"})' = Busy(v, {"write"})
  BY DEF Op, Resolved, Busy
<1>3. Form(v)' = Form(v)
  BY <1>2 DEF Form
<1> SUFFICES ASSUME Busy(v, {"write"}) PROVE Ready(v)'
  BY <1>2 DEF Ready
<1>4. ASSUME Op(v).kind \in {"desk", "visit"}
      PROVE  CheckInReady(Form(v), worker[v].got)'
  <2> DEFINE form == Form(v)
             seen == worker[v].got
  <2>1. CheckInReady(form, seen)
    BY <1>1, <1>4 DEF Ready
  <2> QED
    BY <1>1, <1>3, <2>1, ReadyStays DEF CheckInReady
<1>5. ASSUME Op(v).kind = "vehicle"
      PROVE  Resolved(v, Op(v).customer) \in customers'
  BY <1>1, <1>5 DEF Ready, DeskGoesOn
<1>6. ASSUME Op(v).kind = "update"
      PROVE  UpdateReady(Op(v), Resolved(v, Op(v).visit), worker[v].got,
                         captured[worker[v].batch])'
  <2>1. UpdateReady(Op(v), Resolved(v, Op(v).visit), worker[v].got, captured[worker[v].batch])
    BY <1>1, <1>6 DEF Ready
  <2>2. PICK op, i, got, since :
          /\ op = Op(v) /\ i = Resolved(v, Op(v).visit) /\ got = worker[v].got
          /\ since = captured[worker[v].batch]
    OBVIOUS
  <2>3. UpdateReady(op, i, got, since)'
    BY <1>1, <2>1, <2>2, UpdateReadyStays
  <2>4. /\ op = Op(v)' /\ i = Resolved(v, Op(v).visit)' /\ got = worker'[v].got
        /\ since = captured'[worker'[v].batch]
    BY <1>2, <2>2
  <2> QED
    BY <2>3, <2>4 DEF UpdateReady
<1> QED
  BY <1>2, <1>3, <1>4, <1>5, <1>6 DEF Ready

\* So what goes on with one worker leaves the others prepared.
LEMMA PreparedKept ==
  ASSUME SyncInv, DeskGoesOn, NEW w \in Worker, captured' = captured,
         \A v \in Worker \ {w} : worker'[v] = worker[v],
         worker'[w] # Free => captured[worker'[w].batch] # Unsent /\ Ready(w)'
  PROVE  Prepared'
<1> SUFFICES ASSUME NEW v \in Worker, worker'[v] # Free
             PROVE  captured'[worker'[v].batch] # Unsent /\ Ready(v)'
  BY DEF Prepared
<1>1. CASE v = w
  BY <1>1
<1>2. CASE v # w
  BY <1>2, ReadyKept DEF SyncInv, Prepared
<1> QED
  BY <1>1, <1>2

\* A step that leaves the rows of reception alone takes nothing back.
LEMMA SyncGoesOn ==
  ASSUME DeskInv, UNCHANGED checkInVars
  PROVE  DeskInv' /\ DeskGoesOn
<1>1. visits' = visits /\ now' = now /\ customers' = customers /\ vehicles' = vehicles
  BY DEF checkInVars, rowVars
<1>2. DeskTypeOK' /\ now' >= now
  BY <1>1 DEF DeskInv, DeskTypeOK
<1> QED
  BY <1>1, <1>2, DeskStays

\* A reading that goes on to write is prepared for it.
LEMMA ReadPrepares ==
  ASSUME SyncInv, NEW w \in Worker, Busy(w, {"read"}), NEW got, To(w, "write", got),
         ReadCustomer(w) \/ ReadVehicle(w) \/ ReadCheckIn(w) \/ ReadUpdate(w) \/ ReadAttachment(w),
         UNCHANGED <<checkInVars, captured>>
  PROVE  Ready(w)'
<1>1. SyncTypeOK /\ DeskInv /\ worker[w] # Free /\ "write" \in Ats /\ "store" \in Ats
  BY FreeIsIdle DEF SyncInv, Ats
<1>2. /\ worker'[w].at = "write" /\ worker'[w].got = got /\ worker'[w].ids = worker[w].ids
      /\ worker'[w].batch = worker[w].batch /\ worker'[w].pos = worker[w].pos
  BY <1>1, ToEffect
<1>3. /\ Op(w)' = Op(w) /\ \A ref : Resolved(w, ref)' = Resolved(w, ref)
  BY <1>2 DEF Op, Resolved
<1>4. Form(w)' = Form(w)
  BY <1>3 DEF Form
<1>5. /\ visits' = visits /\ now' = now /\ customers' = customers /\ vehicles' = vehicles
      /\ Day(now)' = Day(now) /\ captured' = captured
  BY DEF checkInVars, rowVars, Day
\* It is the writing branch of the reading that was taken.
<1>6. ASSUME NEW status, NEW entity, Answers(w, status, entity) PROVE FALSE
  BY <1>1, <1>2, <1>6, ToEffect DEF Answers
<1>7. ~Throws(w)
  BY <1>1, <1>2, LeaveEffect
<1>8. ASSUME NEW other, To(w, "write", other) PROVE other = got
  BY <1>1, <1>2, <1>8, ToEffect
<1>9. ASSUME Op(w).kind \in {"desk", "visit"}
      PROVE  CheckInReady(Form(w), got)
  <2>1. ReadingOf(Form(w)) = "ok" /\ got = Len(visits)
    BY <1>6, <1>7, <1>8, <1>9 DEF ReadCustomer, ReadVehicle, ReadCheckIn, ReadUpdate, ReadAttachment
  <2>2. Form(w).newCustomer \in BOOLEAN /\ Form(w).newVehicle \in BOOLEAN
    BY <1>1, <1>9, FormType
  <2> DEFINE form == Form(w)
  <2>7. ReadingOf(form) = "ok" /\ form.newCustomer \in BOOLEAN /\ form.newVehicle \in BOOLEAN
    BY <2>1, <2>2
  <2> HIDE DEF form
  <2>3. ~form.newCustomer => form.customer \in customers
    BY <1>1, <2>7, NobodyIsNoPhone DEF ReadingOf, NamesBoth, DeskInv, DeskTypeOK
  <2>4. ~form.newVehicle =>
          /\ form.plate \in Plate /\ vehicles[form.plate] # Nobody
          /\ VisitsToday(form.plate) = {}
    BY <1>1, <2>7, NobodyIsNoPhone DEF ReadingOf, NamesBoth, DeskInv, DeskTypeOK
  <2>5. ASSUME NEW i \in 1..Len(visits), ~form.newVehicle,
               visits[i].plate = form.plate, visits[i].active
        PROVE  visits[i].day < Day(now)
    <3>1. visits[i].day # Day(now)
      BY <2>4, <2>5 DEF VisitsToday
    <3>2. visits[i].day <= Day(now) /\ visits[i] \in VisitRow /\ Day(now) \in Nat
      BY <1>1, DayMonotone DEF DeskInv, DeskTypeOK, VisitOK
    <3> QED
      BY <3>1, <3>2 DEF VisitRow
  <2>6. Len(visits) \in 0..Len(visits)
    BY <1>1 DEF DeskInv, DeskTypeOK
  <2> QED
    BY <2>1, <2>3, <2>4, <2>5, <2>6 DEF CheckInReady, form
<1>10. ASSUME Op(w).kind = "vehicle"
       PROVE  Resolved(w, Op(w).customer) \in customers
  BY <1>6, <1>7, <1>10 DEF ReadCustomer, ReadVehicle, ReadCheckIn, ReadUpdate, ReadAttachment
<1>11. ASSUME Op(w).kind = "update"
       PROVE  UpdateReady(Op(w), Resolved(w, Op(w).visit), got, captured[worker[w].batch])
  <2> DEFINE i == Resolved(w, Op(w).visit)
             since == captured[worker[w].batch]
  <2>1. /\ i \in 1..Len(visits) /\ ~MergeRefused(w, i)
        /\ got = [version |-> visits[i].version, notes |-> MergedNotes(w, visits[i])]
    BY <1>6, <1>7, <1>8, <1>11
    DEF ReadCustomer, ReadVehicle, ReadCheckIn, ReadUpdate, ReadAttachment
  <2>2. visits[i] \in VisitRow /\ VisitOK(i) /\ now \in Nat
    BY <1>1, <2>1 DEF DeskInv, DeskTypeOK
  <2>3. worker[w].batch \in Batches /\ Op(w).id \in Id
    BY <1>1, OpType
  <2>4. since.at \in Nat
    BY <1>1, <2>3 DEF SyncTypeOK
  <2>5. Entered(Op(w).id) \in Mark /\ Entered(Op(w).id).at = now
    BY <2>2, <2>3 DEF Entered, Mark
  <2> HIDE DEF i
  <2>6. /\ visits[i].version \in Nat /\ visits[i].updatedAt \in Nat
        /\ visits[i].notes \subseteq Mark
    BY <2>2 DEF VisitRow
  <2>7. Newer(w, visits[i]) \/ visits[i].updatedAt <= since.at
    BY <2>4, <2>6 DEF Newer
  <2>8. /\ MergedNotes(w, visits[i]) \subseteq visits[i].notes \cup {Entered(Op(w).id)}
        /\ visits[i].notes \subseteq MergedNotes(w, visits[i]) \/ ~Newer(w, visits[i])
    BY DEF MergedNotes
  <2>9. \A n \in visits[i].notes : n.at <= now
    BY <2>2, <2>6 DEF VisitOK, Mark
  <2>10. /\ got.version = visits[i].version /\ got.notes = MergedNotes(w, visits[i])
    BY <2>1
  <2>11. \A n \in got.notes : n.at <= now
    BY <2>2, <2>5, <2>8, <2>9, <2>10
  <2> QED
    BY <2>1, <2>5, <2>6, <2>7, <2>8, <2>10, <2>11 DEF UpdateReady, MergeRefused, i
<1> QED
  <2>1. ASSUME Op(w).kind \in {"desk", "visit"}
        PROVE  CheckInReady(Form(w), worker[w].got)'
    BY <1>2, <1>4, <1>5, <1>9, <2>1 DEF CheckInReady
  <2>2. ASSUME Op(w).kind = "update"
        PROVE  UpdateReady(Op(w), Resolved(w, Op(w).visit), worker[w].got,
                           captured[worker[w].batch])'
    BY <1>2, <1>3, <1>5, <1>11, <2>2 DEF UpdateReady
  <2> QED
    BY <1>2, <1>3, <1>5, <1>10, <2>1, <2>2 DEF Ready

-----------------------------------------------------------------------------
\* A visit whose changing parts are set.
SetIn(visit, notes, fuel, version, at, active) ==
  [[[[[visit EXCEPT !.notes = notes] EXCEPT !.fuel = fuel] EXCEPT !.version = version]
     EXCEPT !.updatedAt = at] EXCEPT !.active = active]

\* What an update makes of a visit is a visit.
LEMMA RowChange ==
  ASSUME NEW visit \in VisitRow,
         NEW notes \in SUBSET Mark, NEW fuel \in Mark, NEW active \in BOOLEAN,
         NEW version \in Nat, NEW at \in Nat
  PROVE  LET row == SetIn(visit, notes, fuel, version, at, active)
         IN  /\ row \in VisitRow /\ row.plate = visit.plate /\ row.day = visit.day
             /\ row.seen = visit.seen /\ row.customer = visit.customer
             /\ row.active = active /\ row.version = version
             /\ row.updatedAt = at /\ row.fuel = fuel /\ row.notes = notes
<1> DEFINE row == SetIn(visit, notes, fuel, version, at, active)
<1>1. [visit EXCEPT !.notes = notes] \in VisitRow
  BY DEF VisitRow
<1>2. \A v \in VisitRow : [v EXCEPT !.fuel = fuel] \in VisitRow
  BY DEF VisitRow
<1>3. \A v \in VisitRow : [v EXCEPT !.version = version] \in VisitRow
  BY DEF VisitRow
<1>4. \A v \in VisitRow : [v EXCEPT !.updatedAt = at] \in VisitRow
  BY DEF VisitRow
<1>5. \A v \in VisitRow : [v EXCEPT !.active = active] \in VisitRow
  BY DEF VisitRow
<1>6. row \in VisitRow
  BY <1>1, <1>2, <1>3, <1>4, <1>5 DEF SetIn
<1> QED
  BY <1>6 DEF VisitRow, SetIn

\* What goes on at the desk.
LEMMA WriteGoesOn ==
  ASSUME SyncInv, NEW w \in Worker, Write(w)
  PROVE  DeskInv' /\ DeskGoesOn
<1>1. /\ SyncTypeOK /\ DeskInv /\ DeskTypeOK /\ Ready(w) /\ worker[w] # Free
      /\ Busy(w, {"write"})
  BY FreeIsIdle DEF SyncInv, Prepared, Write, DeskInv, Ats
<1>2. Op(w) \in Operations /\ Op(w).id \in Id
  BY <1>1, OpType
<1>3. CASE WriteCustomer(w)
  <2>1. /\ customers' = customers \cup {Op(w).customer} /\ Op(w).kind = "customer"
        /\ UNCHANGED <<now, vehicles, visits, numberVars>>
    BY <1>3 DEF WriteCustomer
  <2>2. Op(w).customer \in Phone
    BY <1>2, <2>1, SyncAssumption
  <2>3. DeskTypeOK'
    BY <1>1, <2>1, <2>2 DEF DeskTypeOK
  <2>4. now' >= now
    BY <1>1, <2>1 DEF DeskTypeOK
  <2> QED
    BY <1>1, <2>1, <2>3, <2>4, DeskStays
<1>4. CASE WriteVehicle(w)
  <2> DEFINE owner == Resolved(w, Op(w).customer)
  <2>1. /\ vehicles' = [vehicles EXCEPT ![Op(w).plate] = owner]
        /\ UNCHANGED <<now, customers, visits, numberVars>> /\ Op(w).kind = "vehicle"
    BY <1>4 DEF WriteVehicle
  <2>2. owner \in customers
    BY <1>1, <2>1 DEF Ready
  <2> HIDE DEF owner
  <2>3. owner # Nobody
    BY <1>1, <2>2, NobodyIsNoPhone DEF DeskTypeOK
  <2>4. DeskTypeOK'
    BY <1>1, <2>1, <2>2 DEF DeskTypeOK
  <2>5. \A p \in Plate : vehicles[p] # Nobody => vehicles'[p] # Nobody
    BY <1>1, <2>1, <2>3 DEF DeskTypeOK
  <2>6. now' >= now
    BY <1>1, <2>1 DEF DeskTypeOK
  <2> QED
    BY <1>1, <2>1, <2>4, <2>5, <2>6, DeskStays
<1>5. CASE WriteCheckIn(w)
  <2>1. /\ Op(w).kind \in {"desk", "visit"}
        /\ CommitCheckIn(Op(w).id, Form(w), worker[w].got)
    BY <1>5 DEF WriteCheckIn
  <2>2. CheckInReady(Form(w), worker[w].got)
    BY <1>1, <2>1 DEF Ready
  <2>3. PICK form, seen : form = Form(w) /\ seen = worker[w].got
    OBVIOUS
  <2> QED
    BY <1>1, <1>2, <2>1, <2>2, <2>3, FormType, CommitKeeps
<1>6. CASE WriteUpdate(w)
  <2> DEFINE i == Resolved(w, Op(w).visit)
             notes == worker[w].got.notes
             fuel == IF Op(w).fuel THEN Entered(Op(w).id) ELSE visits[i].fuel
             row == [visits[i] EXCEPT !.notes = notes, !.fuel = fuel,
                                      !.version = visits[i].version + 1, !.updatedAt = now]
  <2>1. /\ Op(w).kind = "update" /\ UNCHANGED <<now, customers, vehicles, numberVars>>
        /\ visits' = [visits EXCEPT ![i].notes = notes,
              ![i].fuel = IF Op(w).fuel THEN Entered(Op(w).id) ELSE @,
              ![i].version = @ + 1, ![i].updatedAt = now]
    BY <1>6 DEF WriteUpdate
  <2>2. UpdateReady(Op(w), i, worker[w].got, captured[worker[w].batch])
    BY <1>1, <2>1 DEF Ready
  <2>3. i \in 1..Len(visits) /\ notes \subseteq Mark /\ \A n \in notes : n.at <= now
    BY <2>2 DEF UpdateReady
  <2>4. visits[i] \in VisitRow /\ VisitOK(i) /\ now \in Nat
    BY <1>1, <2>3 DEF DeskInv, DeskTypeOK
  <2>5. Entered(Op(w).id) \in Mark /\ Entered(Op(w).id).at = now
    BY <1>2, <2>4 DEF Entered, Mark
  <2>6. fuel \in Mark /\ fuel.at <= now
    BY <2>4, <2>5 DEF VisitRow, VisitOK, Mark
  <2> HIDE DEF i, notes
  <2>7. visits' = [visits EXCEPT ![i] = row]
    BY <1>1, <2>1, <2>3 DEF DeskTypeOK
  <2> HIDE DEF fuel
  <2>8. /\ row \in VisitRow /\ row.plate = visits[i].plate /\ row.day = visits[i].day
        /\ row.seen = visits[i].seen /\ row.customer = visits[i].customer
        /\ row.active = visits[i].active /\ row.version = visits[i].version + 1
        /\ row.updatedAt = now /\ row.fuel = fuel /\ row.notes = notes
    <3>1. /\ visits[i].version \in Nat /\ visits[i].version + 1 \in Nat
          /\ visits[i].active \in BOOLEAN
      BY <2>4 DEF VisitRow
    <3>2. row = SetIn(visits[i], notes, fuel, visits[i].version + 1, now, visits[i].active)
      BY <2>4 DEF VisitRow, SetIn
    <3> HIDE DEF row
    <3> QED
      BY <2>3, <2>4, <2>6, <3>1, <3>2, RowChange
  <2> HIDE DEF row
  <2>9. PICK j \in 1..Len(visits), r \in VisitRow : j = i /\ r = row
    BY <2>3, <2>8
  <2> QED
    BY <1>1, <2>1, <2>3, <2>6, <2>7, <2>8, <2>9, VisitsChange
<1>7. CASE WriteAttachment(w)
  BY <1>1, <1>7, SyncGoesOn DEF WriteAttachment
<1> QED
  BY <1>3, <1>4, <1>5, <1>6, <1>7 DEF Write

\* The workshop, the sale of a vehicle, the clock and the numbers keep DeskInv
\* and take nothing back.
LEMMA ReceptionGoesOn ==
  ASSUME DeskInv, ReceptionNext
  PROVE  DeskInv' /\ DeskGoesOn
<1>1. DeskTypeOK
  BY DEF DeskInv
<1>2. CASE Tick
  <2>1. now' = now + 1 /\ customers' = customers /\ vehicles' = vehicles /\ visits' = visits
    BY <1>2 DEF Tick, rowVars
  <2>2. DeskTypeOK' /\ now' >= now
    BY <1>1, <2>1 DEF DeskTypeOK
  <2> QED
    BY <2>1, <2>2, DeskStays
<1>3. ASSUME NEW i \in 1..Len(visits), NEW delivered \in BOOLEAN, MoveVisit(i, delivered)
      PROVE  DeskInv' /\ DeskGoesOn
  <2> DEFINE row == [visits[i] EXCEPT !.version = visits[i].version + 1, !.updatedAt = now,
                                      !.active = ~delivered]
  <2>1. /\ visits[i].active /\ UNCHANGED <<now, customers, vehicles>>
        /\ visits' = [visits EXCEPT ![i].version = @ + 1, ![i].updatedAt = now,
                                    ![i].active = ~delivered]
    BY <1>3 DEF MoveVisit
  <2>2. visits' = [visits EXCEPT ![i] = row]
    BY <1>1, <2>1 DEF DeskTypeOK
  <2>3. visits[i] \in VisitRow /\ VisitOK(i) /\ now \in Nat
    BY <1>1 DEF DeskInv, DeskTypeOK
  <2>4. PICK active \in BOOLEAN : row =
          [visits[i] EXCEPT !.version = visits[i].version + 1, !.updatedAt = now,
                            !.active = active]
    BY Zenon
  <2> HIDE DEF row
  <2>5. /\ row \in VisitRow /\ row.plate = visits[i].plate /\ row.day = visits[i].day
        /\ row.seen = visits[i].seen /\ row.customer = visits[i].customer
        /\ row.version = visits[i].version + 1 /\ row.updatedAt = now
        /\ row.fuel = visits[i].fuel /\ row.notes = visits[i].notes
    <3>1. /\ visits[i].version \in Nat /\ visits[i].version + 1 \in Nat
          /\ visits[i].notes \in SUBSET Mark /\ visits[i].fuel \in Mark
      BY <2>3 DEF VisitRow
    <3>2. row = SetIn(visits[i], visits[i].notes, visits[i].fuel, visits[i].version + 1, now, active)
      BY <2>3, <2>4 DEF VisitRow, SetIn
    <3> QED
      BY <2>3, <3>1, <3>2, RowChange
  <2>6. row.fuel.at <= now /\ \A n \in row.notes : n.at <= now
    BY <2>3, <2>5 DEF VisitOK, VisitRow, Mark
  <2>7. PICK r \in VisitRow : r = row
    BY <2>5
  <2> QED
    BY <2>1, <2>2, <2>5, <2>6, <2>7, VisitsChange
<1>4. ASSUME NEW p \in Plate, NEW c \in Phone, TransferVehicle(p, c)
      PROVE  DeskInv' /\ DeskGoesOn
  <2>1. /\ c \in customers /\ vehicles' = [vehicles EXCEPT ![p] = c]
        /\ now' = now /\ customers' = customers /\ visits' = visits
    BY <1>4 DEF TransferVehicle
  <2>2. DeskTypeOK' /\ now' >= now
    BY <1>1, <2>1 DEF DeskTypeOK
  <2>3. \A q \in Plate : vehicles[q] # Nobody => vehicles'[q] # Nobody
    BY <1>1, <2>1, NobodyIsNoPhone DEF DeskTypeOK
  <2> QED
    BY <2>1, <2>2, <2>3, DeskStays
<1>5. CASE UNCHANGED <<now, rowVars>>
  <2>1. visits' = visits /\ now' = now /\ customers' = customers /\ vehicles' = vehicles
    BY <1>5 DEF rowVars
  <2>2. DeskTypeOK' /\ now' >= now
    BY <1>1, <2>1 DEF DeskTypeOK
  <2> QED
    BY <2>1, <2>2, DeskStays
<1> QED
  BY <1>2, <1>3, <1>4, <1>5 DEF ReceptionNext

-----------------------------------------------------------------------------
\* The count of the commits that may come.
LEMMA CountOfWriters ==
  ASSUME NEW x
  PROVE  /\ IsFiniteSet(Writers(x)) /\ Cardinality(Writers(x)) \in Nat
         /\ \A w \in Writers(x) :
              /\ Cardinality(Writers(x)) >= 1
              /\ Cardinality(Writers(x) \ {w}) = Cardinality(Writers(x)) - 1
         /\ \A w \in Worker \ Writers(x) :
              Cardinality(Writers(x) \cup {w}) = Cardinality(Writers(x)) + 1
         /\ Tended(x) \/ Cardinality(Writers(x)) = 0
<1>1. IsFiniteSet(Writers(x))
  BY FS_Subset, SyncAssumption DEF Writers
<1>2. Cardinality(Writers(x)) \in Nat
  BY <1>1, FS_CardinalityType
<1>3. ASSUME NEW w \in Writers(x)
      PROVE  /\ Cardinality(Writers(x)) >= 1
             /\ Cardinality(Writers(x) \ {w}) = Cardinality(Writers(x)) - 1
  <2>1. IsFiniteSet(Writers(x) \ {w})
        /\ Cardinality(Writers(x) \ {w}) = Cardinality(Writers(x)) - 1
    BY <1>1, <1>3, FS_RemoveElement
  <2>2. Cardinality(Writers(x) \ {w}) \in Nat
    BY <2>1, FS_CardinalityType
  <2> QED
    BY <1>2, <2>1, <2>2
<1>4. \A w \in Worker \ Writers(x) :
        Cardinality(Writers(x) \cup {w}) = Cardinality(Writers(x)) + 1
  BY <1>1, FS_AddElement
<1>5. ASSUME ~Tended(x) PROVE Cardinality(Writers(x)) = 0
  <2>1. Writers(x) = {}
    BY <1>5 DEF Writers, Tended, Busy
  <2> QED
    BY <2>1, FS_EmptySet
<1> QED
  BY <1>1, <1>2, <1>3, <1>4, <1>5

Involved(w, x) == Busy(w, {"read", "write", "store"}) /\ Op(w).id = x

\* A worker concerns only the id that it is at work on.
LEMMA LedgerElsewhere ==
  ASSUME SyncInv, NEW w \in Worker, NEW x \in Id,
         \A v \in Worker \ {w} : worker'[v] = worker[v],
         ~Involved(w, x), ~Involved(w, x)',
         made'[x] = made[x], excuses'[x] = excuses[x], answered'[x] = answered[x]
  PROVE  /\ made'[x] + Cardinality(Writers(x)') <= 1 + excuses'[x]
         /\ answered'[x] = Nothing /\ ~Tended(x)' => made'[x] <= excuses'[x]
<1>1. \A ats : \A v \in Worker \ {w} : Busy(v, ats)' = Busy(v, ats) /\ Op(v)' = Op(v)
  BY DEF Busy, Op
<1>2. Writers(x)' = Writers(x)
  BY <1>1 DEF Writers, Involved, Busy
<1>3. Tended(x)' <=> Tended(x)
  BY <1>1 DEF Tended, Involved, Busy
<1> QED
  BY <1>2, <1>3 DEF SyncInv, Ledger

\* The worker leaves off reading or writing for id x: with an answer to store, or
\* with none; only with one can it have committed.
LEMMA LedgerLeave ==
  ASSUME SyncInv, NEW w \in Worker, Busy(w, {"read", "write"}),
         \A v \in Worker \ {w} : worker'[v] = worker[v],
         \/ worker'[w].at \in {"free", "look"} /\ made' = made
         \/ /\ worker'[w].at = "store" /\ Op(w)' = Op(w)
            /\ made' \in {made, [made EXCEPT ![Op(w).id] = @ + 1]},
         UNCHANGED <<excuses, answered>>
  PROVE  Ledger'
<1> DEFINE x == Op(w).id
<1>1. worker[w] # Free /\ SyncTypeOK
  BY FreeIsIdle DEF SyncInv, Ats
<1>2. x \in Id
  BY <1>1, OpType
<1>3. made \in [Id -> Nat] /\ excuses \in [Id -> Nat]
  BY <1>1 DEF SyncTypeOK
<1>4. \A ats : \A v \in Worker \ {w} : Busy(v, ats)' = Busy(v, ats) /\ Op(v)' = Op(v)
  BY DEF Busy, Op
<1>5. ASSUME NEW y \in Id, y # x
      PROVE  /\ made'[y] + Cardinality(Writers(y)') <= 1 + excuses'[y]
             /\ answered'[y] = Nothing /\ ~Tended(y)' => made'[y] <= excuses'[y]
  <2>1. ~Involved(w, y) /\ ~Involved(w, y)'
    BY <1>5 DEF Involved, Busy
  <2>2. made'[y] = made[y] /\ excuses'[y] = excuses[y] /\ answered'[y] = answered[y]
    BY <1>3, <1>5
  <2> QED
    BY <2>1, <2>2, LedgerElsewhere
<1>6. w \in Writers(x)
  BY DEF Writers
<1>8. ASSUME NEW i \in Id, i = x
      PROVE  /\ made'[i] + Cardinality(Writers(i)') <= 1 + excuses'[i]
             /\ answered'[i] = Nothing /\ ~Tended(i)' => made'[i] <= excuses'[i]
  <2>1. made[i] + Cardinality(Writers(i)) <= 1 + excuses[i]
        /\ made[i] \in Nat /\ excuses[i] \in Nat /\ excuses'[i] = excuses[i]
    BY <1>3 DEF SyncInv, Ledger
  <2>2. Writers(i)' = Writers(i) \ {w}
    <3>1. Writers(i)' = {v \in Worker : Busy(v, {"read", "write"})' /\ Op(v)'.id = i}
      BY DEF Writers
    <3> QED
      BY <1>4, <1>8, <3>1 DEF Writers, Busy
  <2>3. /\ Cardinality(Writers(i)') = Cardinality(Writers(i)) - 1
        /\ Cardinality(Writers(i)) \in Nat /\ Cardinality(Writers(i)) >= 1
    BY <1>6, <1>8, <2>2, CountOfWriters
  <2>4. CASE made' = made
    BY <2>1, <2>3, <2>4
  <2>5. CASE made' # made
    <3>1. Tended(i)'
      BY <1>8, <2>5 DEF Tended, Busy
    <3>2. made'[i] = made[i] + 1
      BY <1>3, <1>8, <2>5
    <3> QED
      BY <2>1, <2>3, <3>1, <3>2
  <2> QED
    BY <2>4, <2>5
<1> QED
  BY <1>2, <1>5, <1>8 DEF Ledger

\* A reading that goes on to write is counted already.
LEMMA LedgerStays ==
  ASSUME SyncInv, UNCHANGED <<made, excuses, answered>>,
         \/ worker' = worker
         \/ \E w \in Worker : /\ Busy(w, {"read"}) /\ Busy(w, {"write"})' /\ Op(w)' = Op(w)
                              /\ \A v \in Worker \ {w} : worker'[v] = worker[v]
         \/ \E w \in Worker : /\ ~Busy(w, {"read", "write", "store"})
                              /\ ~Busy(w, {"read", "write", "store"})'
                              /\ \A v \in Worker \ {w} : worker'[v] = worker[v]
  PROVE  Ledger'
<1>1. ASSUME NEW v \in Worker, NEW x
      PROVE  /\ (Busy(v, {"read", "write"}) /\ Op(v).id = x)'
                  <=> Busy(v, {"read", "write"}) /\ Op(v).id = x
             /\ (Busy(v, {"read", "write", "store"}) /\ Op(v).id = x)'
                  <=> Busy(v, {"read", "write", "store"}) /\ Op(v).id = x
  <2>1. CASE worker'[v] = worker[v]
    BY <2>1 DEF Busy, Op
  <2>2. CASE Busy(v, {"read"}) /\ Busy(v, {"write"})' /\ Op(v)' = Op(v)
    BY <2>2 DEF Busy
  <2>3. CASE ~Busy(v, {"read", "write", "store"}) /\ ~Busy(v, {"read", "write", "store"})'
    BY <2>3 DEF Busy
  <2> QED
    BY <2>1, <2>2, <2>3
<1>2. \A x : Writers(x)' = Writers(x) /\ (Tended(x)' <=> Tended(x))
  BY <1>1 DEF Writers, Tended
<1> QED
  BY <1>2 DEF SyncInv, Ledger

\* An attempt that finds no answer: what it may commit is excused, or nothing was
\* committed that is not.
LEMMA LedgerLookUp ==
  ASSUME SyncInv, NEW w \in Worker, Busy(w, {"look"}),
         answered[Op(w).id] = Nothing \/ Expired(Op(w).id),
         Busy(w, {"read"})', Op(w)' = Op(w),
         \A v \in Worker \ {w} : worker'[v] = worker[v],
         answered' = [answered EXCEPT ![Op(w).id] = Nothing],
         excuses' = [excuses EXCEPT ![Op(w).id] =
            IF answered[Op(w).id] # Nothing \/ AtHand(w, Op(w).id) THEN @ + 1 ELSE @],
         made' = made
  PROVE  Ledger'
<1> DEFINE x == Op(w).id
<1>1. worker[w] # Free /\ SyncTypeOK
  BY FreeIsIdle DEF SyncInv, Ats
<1>2. x \in Id
  BY <1>1, OpType
<1>3. made \in [Id -> Nat] /\ excuses \in [Id -> Nat] /\ DOMAIN answered = Id
  BY <1>1 DEF SyncTypeOK
<1>4. \A ats : \A v \in Worker \ {w} : Busy(v, ats)' = Busy(v, ats) /\ Op(v)' = Op(v)
  BY DEF Busy, Op
<1>5. ASSUME NEW y \in Id, y # x
      PROVE  /\ made'[y] + Cardinality(Writers(y)') <= 1 + excuses'[y]
             /\ answered'[y] = Nothing /\ ~Tended(y)' => made'[y] <= excuses'[y]
  <2>1. ~Involved(w, y) /\ ~Involved(w, y)'
    BY <1>5 DEF Involved, Busy
  <2>2. made'[y] = made[y] /\ excuses'[y] = excuses[y] /\ answered'[y] = answered[y]
    BY <1>3, <1>5
  <2> QED
    BY <2>1, <2>2, LedgerElsewhere
<1>6. ASSUME NEW i \in Id, i = x
      PROVE  /\ made'[i] + Cardinality(Writers(i)') <= 1 + excuses'[i]
             /\ answered'[i] = Nothing /\ ~Tended(i)' => made'[i] <= excuses'[i]
  <2>1. /\ made[i] + Cardinality(Writers(i)) <= 1 + excuses[i]
        /\ answered[i] = Nothing /\ ~Tended(i) => made[i] <= excuses[i]
        /\ made[i] \in Nat /\ excuses[i] \in Nat
    BY <1>3 DEF SyncInv, Ledger
  <2>2. w \in Worker \ Writers(i)
    BY DEF Writers, Busy
  <2>3. Writers(i)' = Writers(i) \cup {w}
    <3>1. Writers(i)' = {v \in Worker : Busy(v, {"read", "write"})' /\ Op(v)'.id = i}
      BY DEF Writers
    <3> QED
      BY <1>4, <1>6, <3>1 DEF Writers, Busy
  <2>4. /\ Cardinality(Writers(i)') = Cardinality(Writers(i)) + 1
        /\ Cardinality(Writers(i)) \in Nat
        /\ Tended(i) \/ Cardinality(Writers(i)) = 0
    BY <2>2, <2>3, CountOfWriters
  <2>5. Tended(i)'
    BY <1>6 DEF Tended, Busy
  <2>6. CASE answered[i] # Nothing \/ AtHand(w, i)
    <3>1. excuses'[i] = excuses[i] + 1
      BY <1>3, <1>6, <2>6
    <3> QED
      BY <2>1, <2>4, <2>5, <3>1
  <2>7. CASE answered[i] = Nothing /\ ~AtHand(w, i)
    <3>1. ~Tended(i)
      BY <2>7 DEF Tended, AtHand, Busy
    <3>2. excuses'[i] = excuses[i]
      BY <1>3, <1>6, <2>7
    <3> QED
      BY <2>1, <2>4, <2>5, <2>7, <3>1, <3>2
  <2> QED
    BY <2>6, <2>7
<1> QED
  BY <1>2, <1>5, <1>6 DEF Ledger

\* The answer is stored, or lost.
LEMMA LedgerStore ==
  ASSUME SyncInv, NEW w \in Worker, Busy(w, {"store"}),
         worker'[w].at \in {"free", "look"},
         \A v \in Worker \ {w} : worker'[v] = worker[v],
         made' = made,
         \/ /\ \E answer : answer # Nothing
                 /\ answered' = [answered EXCEPT ![Op(w).id] = answer]
            /\ excuses' = excuses
         \/ answered[Op(w).id] # Nothing /\ UNCHANGED <<answered, excuses>>
         \/ /\ answered' \in {answered, [answered EXCEPT ![Op(w).id] = Nothing]}
            /\ excuses' = [excuses EXCEPT ![Op(w).id] = @ + 1]
  PROVE  Ledger'
<1> DEFINE x == Op(w).id
<1>1. worker[w] # Free /\ SyncTypeOK
  BY FreeIsIdle DEF SyncInv, Ats
<1>2. x \in Id
  BY <1>1, OpType
<1>3. made \in [Id -> Nat] /\ excuses \in [Id -> Nat] /\ DOMAIN answered = Id
  BY <1>1 DEF SyncTypeOK
<1>4. \A ats : \A v \in Worker \ {w} : Busy(v, ats)' = Busy(v, ats) /\ Op(v)' = Op(v)
  BY DEF Busy, Op
<1>5. ASSUME NEW y \in Id, y # x
      PROVE  /\ made'[y] + Cardinality(Writers(y)') <= 1 + excuses'[y]
             /\ answered'[y] = Nothing /\ ~Tended(y)' => made'[y] <= excuses'[y]
  <2>1. ~Involved(w, y) /\ ~Involved(w, y)'
    BY <1>5 DEF Involved, Busy
  <2>2. made'[y] = made[y] /\ excuses'[y] = excuses[y] /\ answered'[y] = answered[y]
    BY <1>3, <1>5
  <2> QED
    BY <2>1, <2>2, LedgerElsewhere
<1>6. ASSUME NEW i \in Id, i = x
      PROVE  /\ made'[i] + Cardinality(Writers(i)') <= 1 + excuses'[i]
             /\ answered'[i] = Nothing /\ ~Tended(i)' => made'[i] <= excuses'[i]
  <2>1. /\ made[i] + Cardinality(Writers(i)) <= 1 + excuses[i]
        /\ made[i] \in Nat /\ excuses[i] \in Nat /\ Cardinality(Writers(i)) \in Nat
    BY <1>3, CountOfWriters DEF SyncInv, Ledger
  <2>2. Writers(i)' = Writers(i)
    <3>1. Writers(i)' = {v \in Worker : Busy(v, {"read", "write"})' /\ Op(v)'.id = i}
      BY DEF Writers
    <3> QED
      BY <1>4, <3>1 DEF Writers, Busy
  <2>3. \/ answered'[i] # Nothing /\ excuses'[i] = excuses[i]
        \/ excuses'[i] = excuses[i] + 1
    BY <1>3, <1>6
  <2> QED
    BY <2>1, <2>2, <2>3
<1> QED
  BY <1>2, <1>5, <1>6 DEF Ledger

-----------------------------------------------------------------------------
\* Each step of a worker.
SyncStepKeeps == SyncInv' /\ DeskGoesOn

\* A batch is put together on its device.
LEMMA CaptureKeeps ==
  ASSUME SyncInv, NEW b \in Batches, Capture(b) PROVE SyncStepKeeps
<1>1. /\ captured[b] = Unsent
      /\ captured' = [captured EXCEPT ![b] =
           [at |-> now, versions |-> [i \in 1..Len(visits) |-> visits[i].version]]]
      /\ UNCHANGED <<checkInVars, worker, answered, sent, made, excuses, crashes>>
  BY DEF Capture
<1>2. SyncTypeOK /\ DeskInv
  BY DEF SyncInv
<1>3. DeskInv' /\ DeskGoesOn
  BY <1>1, <1>2, SyncGoesOn
<1>4. SyncTypeOK'
  <2> DEFINE row == [at |-> now, versions |-> [i \in 1..Len(visits) |-> visits[i].version]]
  <2>1. Len(visits) \in Nat /\ now \in Nat
        /\ \A i \in 1..Len(visits) : visits[i] \in VisitRow
    BY <1>2 DEF DeskInv, DeskTypeOK
  <2>2. \A i \in 1..Len(visits) : visits[i].version \in Nat
    BY <2>1 DEF VisitRow
  <2>3. row \in [at: Nat, versions: Seq(Nat)]
    BY <2>1, <2>2
  <2> HIDE DEF row
  <2>4. captured' = [captured EXCEPT ![b] = row]
    BY <1>1 DEF row
  <2>5. captured' \in [Batches -> [at: Nat, versions: Seq(Nat)]]
    BY <1>2, <2>3, <2>4 DEF SyncTypeOK
  <2> QED
    BY <1>1, <1>2, <2>5 DEF SyncTypeOK
<1>5. Prepared'
  <2> SUFFICES ASSUME NEW w \in Worker, worker'[w] # Free
               PROVE  captured'[worker'[w].batch] # Unsent /\ Ready(w)'
    BY DEF Prepared
  <2>1. /\ worker[w] # Free /\ worker'[w] = worker[w]
        /\ captured[worker[w].batch] # Unsent /\ worker[w].batch \in Batches
    BY <1>1, <1>2, OpType DEF SyncInv, Prepared
  <2>2. captured'[worker[w].batch] = captured[worker[w].batch]
    BY <1>1, <1>2, <2>1 DEF SyncTypeOK
  <2> QED
    BY <1>3, <2>1, <2>2, ReadyKept
<1>6. Ledger'
  BY <1>1, LedgerStays
<1> QED
  BY <1>3, <1>4, <1>5, <1>6 DEF SyncInv, SyncStepKeeps

\* A worker takes up a batch.
LEMMA SendKeeps ==
  ASSUME SyncInv, NEW w \in Worker, NEW b \in Batches, Send(w, b) PROVE SyncStepKeeps
<1> DEFINE r == [at |-> "look", batch |-> b, pos |-> 1, ids |-> <<>>, got |-> Nothing]
<1>1. /\ worker[w] = Free /\ captured[b] # Unsent /\ worker' = [worker EXCEPT ![w] = r]
      /\ UNCHANGED <<checkInVars, answered, captured, made, excuses, crashes>>
  BY DEF Send
<1>2. SyncTypeOK /\ DeskInv
  BY DEF SyncInv
<1>3. DeskInv' /\ DeskGoesOn
  BY <1>1, <1>2, SyncGoesOn
<1>4. 1 \in 1..Len(b)
  <2>1. b \in Seq(Operations) /\ b # <<>>
    BY SyncAssumption
  <2> QED
    BY <2>1
<1>5. WorkerOK(r) /\ r.at = "look" /\ r.batch = b
  BY <1>4 DEF WorkerOK, Ats
<1> HIDE DEF r
<1>6. worker'[w] = r /\ \A v \in Worker \ {w} : worker'[v] = worker[v]
  BY <1>1, <1>2 DEF SyncTypeOK
<1>7. SyncTypeOK'
  BY <1>1, <1>2, <1>5, <1>6 DEF SyncTypeOK
<1>8. Ready(w)'
  BY <1>5, <1>6 DEF Ready, Busy
<1>9. Prepared'
  BY <1>1, <1>3, <1>5, <1>6, <1>8, PreparedKept
<1>10. ~Busy(w, {"read", "write", "store"}) /\ ~Busy(w, {"read", "write", "store"})'
  BY <1>1, <1>5, <1>6 DEF Busy, Free
<1>11. Ledger'
  BY <1>1, <1>6, <1>10, LedgerStays
<1> QED
  BY <1>3, <1>7, <1>9, <1>11 DEF SyncInv, SyncStepKeeps

\* A worker that is through with its operation.
LEMMA LeaveKeeps ==
  ASSUME SyncInv, NEW w \in Worker, worker[w] # Free, NEW result,
         Throws(w) \/ Advance(w, result), captured' = captured,
         DOMAIN answered' = Id, made' \in [Id -> Nat], excuses' \in [Id -> Nat], DeskGoesOn
  PROVE  SyncTypeOK' /\ Prepared'
<1>1. SyncTypeOK /\ worker[w].batch \in Batches /\ captured[worker[w].batch] # Unsent
  BY OpType DEF SyncInv, Prepared
<1>2. /\ DOMAIN worker' = Worker /\ \A v \in Worker : WorkerOK(worker'[v])
      /\ worker'[w].at \in {"free", "look"}
      /\ worker'[w] # Free => worker'[w].batch = worker[w].batch
      /\ \A v \in Worker \ {w} : worker'[v] = worker[v]
  BY <1>1, LeaveEffect
<1>3. SyncTypeOK'
  BY <1>1, <1>2 DEF SyncTypeOK
<1>4. Ready(w)'
  BY <1>2 DEF Ready, Busy
<1>5. Prepared'
  BY <1>1, <1>2, <1>4, PreparedKept
<1> QED
  BY <1>3, <1>5

\* A worker that goes on, not yet to write.
LEMMA ToKeeps ==
  ASSUME SyncInv, NEW w \in Worker, worker[w] # Free, NEW at \in Ats, NEW got,
         To(w, at, got), at # "write" \/ Ready(w)', captured' = captured,
         DOMAIN answered' = Id, made' \in [Id -> Nat], excuses' \in [Id -> Nat], DeskGoesOn
  PROVE  /\ SyncTypeOK' /\ Prepared' /\ worker'[w].at = at /\ Op(w)' = Op(w)
         /\ \A v \in Worker \ {w} : worker'[v] = worker[v]
<1>1. SyncTypeOK /\ worker[w].batch \in Batches /\ captured[worker[w].batch] # Unsent
  BY OpType DEF SyncInv, Prepared
<1>2. /\ DOMAIN worker' = Worker /\ \A v \in Worker : WorkerOK(worker'[v])
      /\ worker'[w].at = at
      /\ worker'[w].batch = worker[w].batch /\ worker'[w].pos = worker[w].pos
      /\ \A v \in Worker \ {w} : worker'[v] = worker[v]
  BY <1>1, ToEffect
<1>3. SyncTypeOK'
  BY <1>1, <1>2 DEF SyncTypeOK
<1>4. Ready(w)'
  BY <1>2 DEF Ready, Busy
<1>5. Prepared'
  BY <1>1, <1>2, <1>4, PreparedKept
<1>6. Op(w)' = Op(w)
  BY <1>2 DEF Op
<1> QED
  BY <1>2, <1>3, <1>5, <1>6

\* An id is looked up: its answer is given again, or its work begins.
LEMMA IdLookUpKeeps ==
  ASSUME SyncInv, NEW w \in Worker, LookUp(w) PROVE SyncStepKeeps
<1> DEFINE x == Op(w).id
<1>1. /\ Busy(w, {"look"}) /\ UNCHANGED <<checkInVars, captured, sent, made, crashes>>
      /\ worker[w] # Free /\ SyncTypeOK /\ DeskInv
  BY FreeIsIdle DEF LookUp, SyncInv, Ats
<1>2. x \in Id
  BY <1>1, OpType
<1>3. DeskInv' /\ DeskGoesOn
  BY <1>1, SyncGoesOn
<1>4. made \in [Id -> Nat] /\ excuses \in [Id -> Nat] /\ DOMAIN answered = Id
  BY <1>1 DEF SyncTypeOK
<1>5. CASE answered[x] = Nothing \/ Expired(x)
  <2>1. /\ To(w, "read", Nothing)
        /\ answered' = [answered EXCEPT ![x] = Nothing]
        /\ excuses' = [excuses EXCEPT ![x] =
             IF answered[x] # Nothing \/ AtHand(w, x) THEN @ + 1 ELSE @]
    BY <1>5 DEF LookUp
  <2>2. DOMAIN answered' = Id /\ made' \in [Id -> Nat] /\ excuses' \in [Id -> Nat]
    BY <1>1, <1>2, <1>4, <2>1
  <2>3. /\ SyncTypeOK' /\ Prepared' /\ worker'[w].at = "read" /\ Op(w)' = Op(w)
        /\ \A v \in Worker \ {w} : worker'[v] = worker[v]
    BY <1>1, <1>3, <2>1, <2>2, ToKeeps DEF Ats
  <2>4. Ledger'
    BY <1>1, <1>5, <2>1, <2>3, LedgerLookUp DEF Busy
  <2> QED
    BY <1>3, <2>3, <2>4 DEF SyncInv, SyncStepKeeps
<1>6. CASE ~(answered[x] = Nothing \/ Expired(x))
  <2>1. /\ UNCHANGED <<answered, excuses>>
        /\ \E result : Throws(w) \/ Advance(w, result)
    BY <1>6 DEF LookUp
  <2>2. SyncTypeOK' /\ Prepared'
    BY <1>1, <1>3, <1>4, <2>1, LeaveKeeps
  <2>3. /\ worker'[w].at \in {"free", "look"}
        /\ \A v \in Worker \ {w} : worker'[v] = worker[v]
    BY <1>1, <2>1, LeaveEffect
  <2>4. Ledger'
    BY <1>1, <2>1, <2>3, LedgerStays DEF Busy
  <2> QED
    BY <1>3, <2>2, <2>4 DEF SyncInv, SyncStepKeeps
<1> QED
  BY <1>5, <1>6

\* A handler reads: what it needs for its write is ready.
LEMMA ReadingKeeps ==
  ASSUME SyncInv, NEW w \in Worker, Read(w) PROVE SyncStepKeeps
<1>1. /\ Busy(w, {"read"}) /\ UNCHANGED <<checkInVars, captured, answered, made, excuses>>
      /\ worker[w] # Free /\ SyncTypeOK /\ DeskInv
  BY FreeIsIdle DEF Read, SyncInv, Ats
<1>2. DeskInv' /\ DeskGoesOn
  BY <1>1, SyncGoesOn
<1>3. DOMAIN answered' = Id /\ made' \in [Id -> Nat] /\ excuses' \in [Id -> Nat]
  BY <1>1 DEF SyncTypeOK
<1>4. \/ /\ ReadCustomer(w) \/ ReadVehicle(w) \/ ReadCheckIn(w) \/ ReadUpdate(w) \/ ReadAttachment(w)
         /\ \E got : To(w, "write", got)
      \/ Throws(w)
      \/ \E got : To(w, "store", got)
  BY DEF Read, ReadCustomer, ReadVehicle, ReadCheckIn, ReadUpdate, ReadAttachment,
         Forbidden, Malformed, Answers
<1>5. ASSUME NEW got, To(w, "write", got),
             ReadCustomer(w) \/ ReadVehicle(w) \/ ReadCheckIn(w) \/ ReadUpdate(w) \/ ReadAttachment(w)
      PROVE  SyncStepKeeps
  <2>1. Ready(w)'
    BY <1>1, <1>5, ReadPrepares
  <2>2. /\ SyncTypeOK' /\ Prepared' /\ worker'[w].at = "write" /\ Op(w)' = Op(w)
        /\ \A v \in Worker \ {w} : worker'[v] = worker[v]
    BY <1>1, <1>2, <1>3, <1>5, <2>1, ToKeeps DEF Ats
  <2>3. Ledger'
    BY <1>1, <2>2, LedgerStays DEF Busy
  <2> QED
    BY <1>2, <2>2, <2>3 DEF SyncInv, SyncStepKeeps
<1>6. ASSUME NEW got, To(w, "store", got)
      PROVE  SyncStepKeeps
  <2>1. /\ SyncTypeOK' /\ Prepared' /\ worker'[w].at = "store" /\ Op(w)' = Op(w)
        /\ \A v \in Worker \ {w} : worker'[v] = worker[v]
    BY <1>1, <1>2, <1>3, <1>6, ToKeeps DEF Ats
  <2>2. Ledger'
    BY <1>1, <2>1, LedgerLeave DEF Busy
  <2> QED
    BY <1>2, <2>1, <2>2 DEF SyncInv, SyncStepKeeps
<1>7. ASSUME Throws(w)
      PROVE  SyncStepKeeps
  <2>1. SyncTypeOK' /\ Prepared'
    BY <1>1, <1>2, <1>3, <1>7, LeaveKeeps
  <2>2. /\ worker'[w].at \in {"free", "look"}
        /\ \A v \in Worker \ {w} : worker'[v] = worker[v]
    BY <1>1, <1>7, LeaveEffect
  <2>3. Ledger'
    BY <1>1, <2>2, LedgerLeave DEF Busy
  <2> QED
    BY <1>2, <2>1, <2>3 DEF SyncInv, SyncStepKeeps
<1> QED
  BY <1>4, <1>5, <1>6, <1>7

\* A handler writes what it read for, and its id has one commit more and one writer less.
LEMMA WritingKeeps ==
  ASSUME SyncInv, NEW w \in Worker, Write(w)
  PROVE  SyncStepKeeps /\ \A v \in Worker \ {w} : worker'[v] = worker[v]
<1>1. /\ Busy(w, {"write"}) /\ UNCHANGED <<captured, answered, excuses>>
      /\ made' = [made EXCEPT ![Op(w).id] = @ + 1]
      /\ worker[w] # Free /\ SyncTypeOK
  BY FreeIsIdle DEF Write, SyncInv, Ats
<1>2. DeskInv' /\ DeskGoesOn
  BY WriteGoesOn
<1>3. DOMAIN answered' = Id /\ made' \in [Id -> Nat] /\ excuses' \in [Id -> Nat]
  BY <1>1, OpType DEF SyncTypeOK
<1>4. PICK got : To(w, "store", got)
  BY DEF Write, WriteCustomer, WriteVehicle, WriteCheckIn, WriteUpdate, WriteAttachment, Answers
<1>5. /\ SyncTypeOK' /\ Prepared' /\ worker'[w].at = "store" /\ Op(w)' = Op(w)
      /\ \A v \in Worker \ {w} : worker'[v] = worker[v]
  BY <1>1, <1>2, <1>3, <1>4, ToKeeps DEF Ats
<1>6. Ledger'
  BY <1>1, <1>5, LedgerLeave DEF Busy
<1> QED
  BY <1>2, <1>5, <1>6 DEF SyncInv, SyncStepKeeps

\* A write that is refused commits nothing.
LEMMA RefusedKeeps ==
  ASSUME SyncInv, NEW w \in Worker, Refused(w) PROVE SyncStepKeeps
<1>1. /\ Busy(w, {"write"}) /\ UNCHANGED <<checkInVars, captured, answered, made, excuses>>
      /\ worker[w] # Free /\ SyncTypeOK /\ DeskInv
  BY FreeIsIdle DEF Refused, SyncInv, Ats
<1>2. DeskInv' /\ DeskGoesOn
  BY <1>1, SyncGoesOn
<1>3. DOMAIN answered' = Id /\ made' \in [Id -> Nat] /\ excuses' \in [Id -> Nat]
  BY <1>1 DEF SyncTypeOK
<1>4. Throws(w) \/ \E got : To(w, "store", got)
  BY DEF Refused, Answers
<1>5. ASSUME NEW got, To(w, "store", got)
      PROVE  SyncStepKeeps
  <2>1. /\ SyncTypeOK' /\ Prepared' /\ worker'[w].at = "store" /\ Op(w)' = Op(w)
        /\ \A v \in Worker \ {w} : worker'[v] = worker[v]
    BY <1>1, <1>2, <1>3, <1>5, ToKeeps DEF Ats
  <2>2. Ledger'
    BY <1>1, <2>1, LedgerLeave DEF Busy
  <2> QED
    BY <1>2, <2>1, <2>2 DEF SyncInv, SyncStepKeeps
<1>6. ASSUME Throws(w)
      PROVE  SyncStepKeeps
  <2>1. SyncTypeOK' /\ Prepared'
    BY <1>1, <1>2, <1>3, <1>6, LeaveKeeps
  <2>2. /\ worker'[w].at \in {"free", "look"}
        /\ \A v \in Worker \ {w} : worker'[v] = worker[v]
    BY <1>1, <1>6, LeaveEffect
  <2>3. Ledger'
    BY <1>1, <2>2, LedgerLeave DEF Busy
  <2> QED
    BY <1>2, <2>1, <2>3 DEF SyncInv, SyncStepKeeps
<1> QED
  BY <1>4, <1>5, <1>6

\* An answer is stored, or the one that has expired is deleted.
LEMMA StoreKeeps ==
  ASSUME SyncInv, NEW w \in Worker, Store(w) PROVE SyncStepKeeps
<1> DEFINE x == Op(w).id
           answer == [op |-> Op(w), result |-> worker[w].got, at |-> now]
<1>1. /\ Busy(w, {"store"}) /\ UNCHANGED <<checkInVars, captured, made>>
      /\ worker[w] # Free /\ SyncTypeOK /\ DeskInv
      /\ Advance(w, worker[w].got)
  BY FreeIsIdle DEF Store, SyncInv, Ats
<1>2. DeskInv' /\ DeskGoesOn
  BY <1>1, SyncGoesOn
<1>3. x \in Id
  BY <1>1, OpType
<1>4. \/ answered' = [answered EXCEPT ![x] = answer] /\ excuses' = excuses
      \/ /\ answered' = [answered EXCEPT ![x] = Nothing]
         /\ excuses' = [excuses EXCEPT ![x] = @ + 1]
      \/ answered[x] # Nothing /\ UNCHANGED <<answered, excuses>>
  BY DEF Store
<1>5. answer # Nothing
  <2>1. DOMAIN answer = {"op", "result", "at"} /\ DOMAIN Nothing = {"op"}
    BY DEF Nothing
  <2> QED
    BY <2>1
<1> HIDE DEF answer
<1>6. DOMAIN answered' = Id /\ made' \in [Id -> Nat] /\ excuses' \in [Id -> Nat]
  <2>1. DOMAIN answered = Id /\ made \in [Id -> Nat] /\ excuses \in [Id -> Nat]
    BY <1>1 DEF SyncTypeOK
  <2>2. DOMAIN answered' = Id
    BY <1>4, <2>1
  <2>3. excuses' \in [Id -> Nat]
    BY <1>3, <1>4, <2>1
  <2> QED
    BY <1>1, <2>1, <2>2, <2>3
<1>7. SyncTypeOK' /\ Prepared'
  BY <1>1, <1>2, <1>6, LeaveKeeps
<1>8. /\ worker'[w].at \in {"free", "look"}
      /\ \A v \in Worker \ {w} : worker'[v] = worker[v]
  BY <1>1, LeaveEffect
<1>9. Ledger'
  BY <1>1, <1>4, <1>5, <1>8, LedgerStore
<1> QED
  BY <1>2, <1>7, <1>9 DEF SyncInv, SyncStepKeeps

\* A worker dies; one that has not stored its answer has its id excused.
LEMMA CrashKeeps ==
  ASSUME SyncInv, NEW w \in Worker, Crash(w) PROVE SyncStepKeeps
<1>1. /\ worker[w] # Free /\ UNCHANGED <<checkInVars, captured, answered, made>>
      /\ Throws(w) /\ SyncTypeOK /\ DeskInv
      /\ excuses' = IF Busy(w, {"store"}) THEN [excuses EXCEPT ![Op(w).id] = @ + 1] ELSE excuses
  BY DEF Crash, SyncInv, Throws
<1>2. DeskInv' /\ DeskGoesOn
  BY <1>1, SyncGoesOn
<1>3. Op(w).id \in Id /\ worker[w].at \in Ats
  BY <1>1, OpType
<1>4. DOMAIN answered' = Id /\ made' \in [Id -> Nat] /\ excuses' \in [Id -> Nat]
  BY <1>1, <1>3 DEF SyncTypeOK
<1>5. SyncTypeOK' /\ Prepared'
  BY <1>1, <1>2, <1>4, LeaveKeeps
<1>6. /\ worker'[w].at \in {"free", "look"}
      /\ \A v \in Worker \ {w} : worker'[v] = worker[v]
  BY <1>1, LeaveEffect
<1>7. Ledger'
  <2>1. CASE Busy(w, {"look"})
    BY <1>1, <1>6, <2>1, LedgerStays DEF Busy
  <2>2. CASE Busy(w, {"read", "write"})
    BY <1>1, <1>6, <2>2, LedgerLeave DEF Busy
  <2>3. CASE Busy(w, {"store"})
    BY <1>1, <1>6, <2>3, LedgerStore
  <2> QED
    BY <1>3, <2>1, <2>2, <2>3 DEF Busy, Ats
<1> QED
  BY <1>2, <1>5, <1>7 DEF SyncInv, SyncStepKeeps

\* A step without the workers.
LEMMA RestKeeps ==
  ASSUME SyncInv, UNCHANGED syncVars, DeskInv', DeskGoesOn PROVE SyncStepKeeps
<1>1. UNCHANGED <<worker, answered, captured, made, excuses>>
  BY DEF syncVars
<1>2. SyncTypeOK'
  BY <1>1 DEF SyncInv, SyncTypeOK
<1>3. Prepared'
  <2> SUFFICES ASSUME NEW w \in Worker, worker'[w] # Free
               PROVE  captured'[worker'[w].batch] # Unsent /\ Ready(w)'
    BY DEF Prepared
  <2> QED
    BY <1>1, ReadyKept DEF SyncInv, Prepared
<1>4. Ledger'
  BY <1>1, LedgerStays
<1> QED
  BY <1>2, <1>3, <1>4 DEF SyncInv, SyncStepKeeps

\* Every step keeps SyncInv and takes nothing back.
LEMMA SyncStep == ASSUME SyncInv, [Next]_vars PROVE SyncStepKeeps
<1>1. CASE SyncNext
  BY <1>1, CaptureKeeps, SendKeeps, IdLookUpKeeps, ReadingKeeps, WritingKeeps,
     RefusedKeeps, StoreKeeps, CrashKeeps DEF SyncNext
<1>2. CASE ReceptionNext
  BY <1>2, ReceptionGoesOn, RestKeeps DEF SyncInv, ReceptionNext
<1>3. CASE UNCHANGED vars
  BY <1>3, SyncGoesOn, RestKeeps DEF SyncInv, vars
<1> QED
  BY <1>1, <1>2, <1>3 DEF Next

\* Nobody is at work, and there are no visits.
LEMMA SyncStart == Init => SyncInv
<1> SUFFICES ASSUME Init PROVE SyncInv
  OBVIOUS
<1>1. /\ now = 1 /\ customers = {} /\ vehicles = [p \in Plate |-> Nobody] /\ visits = <<>>
  BY DEF Init, ReceptionInit
<1>2. /\ worker = [w \in Worker |-> Free] /\ answered = [x \in Id |-> Nothing]
      /\ made = [x \in Id |-> 0] /\ excuses = [x \in Id |-> 0]
      /\ captured = [b \in Batches |-> Unsent]
  BY DEF Init, SyncInit, QuietInit
<1>3. DeskInv
  BY <1>1 DEF DeskInv, DeskTypeOK, SecondVisitNeedsOverlap
<1>4. SyncTypeOK
  BY <1>2 DEF SyncTypeOK, WorkerOK, Unsent
<1>5. Prepared
  BY <1>2 DEF Prepared
<1>6. Ledger
  <2> SUFFICES ASSUME NEW x \in Id
               PROVE  /\ made[x] + Cardinality(Writers(x)) <= 1 + excuses[x]
                      /\ made[x] <= excuses[x]
    BY DEF Ledger
  <2>1. made[x] = 0 /\ excuses[x] = 0
    BY <1>2
  <2>2. ~Tended(x)
    BY <1>2 DEF Tended, Busy, Free
  <2>3. Cardinality(Writers(x)) = 0
    BY <2>2, CountOfWriters
  <2> QED
    BY <2>1, <2>3
<1> QED
  BY <1>3, <1>4, <1>5, <1>6 DEF SyncInv

\* SyncInv is an invariant of reception and its requests.
LEMMA SyncInvariant == Spec => []SyncInv
<1>1. SyncInv /\ [Next]_vars => SyncInv'
  BY SyncStep DEF SyncStepKeeps
<1> QED
  BY SyncStart, <1>1, PTL DEF Spec

-----------------------------------------------------------------------------
\* What the writing of an update takes away was there when its batch was captured.
LEMMA UpdateTakesOld ==
  ASSUME SyncInv, NEW w \in Worker, Write(w), NEW i \in 1..Len(visits),
         NEW n \in (visits[i].notes \ visits'[i].notes)
                     \cup (IF visits'[i].fuel.by = visits[i].fuel.by THEN {} ELSE {visits[i].fuel})
  PROVE  /\ n.at <= captured[worker[w].batch].at
         /\ Op(w).versioned => visits[i].version = captured[worker[w].batch].versions[i]
<1> DEFINE j == Resolved(w, Op(w).visit)
           got == worker[w].got
           since == captured[worker[w].batch]
<1>1. /\ SyncTypeOK /\ DeskInv /\ DeskTypeOK /\ Ready(w) /\ worker[w] # Free
      /\ Busy(w, {"write"})
  BY FreeIsIdle DEF SyncInv, Prepared, Write, DeskInv, Ats
<1>2. visits'[i] # visits[i]
  OBVIOUS
<1>3. Len(visits) \in Nat
  BY <1>1 DEF DeskTypeOK
<1>4. ~(visits' = visits)
  BY <1>2
<1>5. ~WriteCheckIn(w)
  <2> SUFFICES ASSUME NEW row, visits' = Append(visits, row) PROVE FALSE
    BY DEF WriteCheckIn, CommitCheckIn
  <2>1. visits'[i] = visits[i]
    BY <1>1 DEF DeskTypeOK
  <2> QED
    BY <1>2, <2>1
<1>6. WriteUpdate(w)
  BY <1>4, <1>5
  DEF Write, WriteCustomer, WriteVehicle, WriteAttachment, checkInVars, rowVars
<1>7. /\ Op(w).kind = "update" /\ visits[j].version = got.version
      /\ visits' = [visits EXCEPT ![j].notes = got.notes,
              ![j].fuel = IF Op(w).fuel THEN Entered(Op(w).id) ELSE @,
              ![j].version = @ + 1, ![j].updatedAt = now]
  BY <1>6 DEF WriteUpdate
<1>8. UpdateReady(Op(w), j, got, since)
  BY <1>1, <1>7 DEF Ready
<1>9. /\ j \in 1..Len(visits)
      /\ visits[j].notes \subseteq got.notes \/ visits[j].updatedAt <= since.at
      /\ Op(w).versioned => since.versions[j] = visits[j].version
      /\ Op(w).fuel => visits[j].updatedAt <= since.at \/ visits[j].fuel.by = Op(w).id
  BY <1>7, <1>8 DEF UpdateReady
<1> HIDE DEF j, got
<1>10. i = j
  BY <1>1, <1>2, <1>7, <1>9 DEF DeskTypeOK
<1>11. visits[i] \in VisitRow /\ VisitOK(i)
  BY <1>1 DEF DeskInv, DeskTypeOK
<1>12. /\ visits'[i].notes = got.notes
       /\ visits'[i].fuel = IF Op(w).fuel THEN Entered(Op(w).id) ELSE visits[i].fuel
  BY <1>1, <1>7, <1>9, <1>10, <1>11 DEF DeskTypeOK, VisitRow
<1>13. n.at <= visits[i].updatedAt /\ n \in Mark
  BY <1>11 DEF VisitOK, VisitRow
<1>14. visits[i].updatedAt <= since.at
  <2>1. CASE n \in visits[i].notes \ visits'[i].notes
    BY <1>9, <1>10, <1>12, <2>1
  <2>2. CASE visits'[i].fuel.by # visits[i].fuel.by
    BY <1>9, <1>10, <1>12, <2>2 DEF Entered
  <2> QED
    BY <2>1, <2>2
<1>15. since.at \in Nat
  BY <1>1, OpType DEF SyncTypeOK
<1>16. n.at \in Nat /\ visits[i].updatedAt \in Nat
  BY <1>11, <1>13 DEF VisitRow, Mark
<1> QED
  BY <1>9, <1>10, <1>13, <1>14, <1>15, <1>16

\* Work is counted by a handler's write only.
LEMMA OnlyWritesCommit ==
  ASSUME SyncInv, [Next]_vars, made' # made
  PROVE  \E w \in Worker : Write(w)
BY DEF Next, SyncNext, ReceptionNext, vars, syncVars, Capture, Send, LookUp, Read,
       Refused, Store, Crash

\* A write takes away older entries only: the step of LaterEntriesStay.
LEMMA LaterEntriesStep ==
  ASSUME SyncInv, [Next]_vars, NEW w \in Worker, NEW i \in 1..Len(visits),
         made' # made, worker'[w] # worker[w],
         NEW n \in (visits[i].notes \ visits'[i].notes)
                     \cup (IF visits'[i].fuel.by = visits[i].fuel.by THEN {} ELSE {visits[i].fuel})
  PROVE  /\ n.at <= captured[worker[w].batch].at
         /\ Op(w).versioned => visits[i].version = captured[worker[w].batch].versions[i]
<1>1. PICK v \in Worker : Write(v)
  BY OnlyWritesCommit
<1>2. v = w
  BY <1>1, WritingKeeps
<1> QED
  BY <1>1, <1>2, UpdateTakesOld

-----------------------------------------------------------------------------
\* checkIn, "Reject duplicate same-day check-in for same plate": whatever forms, batches,
\* sales and deliveries come in between, a vehicle has a second visit of a day beside one
\* that is still there only from a check-in that looked before the first was committed.
THEOREM SecondVisitsOverlap == Spec => []SecondVisitNeedsOverlap
<1>1. SyncInv => SecondVisitNeedsOverlap
  BY DEF SyncInv, DeskInv
<1> QED
  BY <1>1, SyncInvariant, PTL

\* processOne and beginOrReplay: for any batches, workers and crashes, the work of an id is
\* committed at most once more often than an attempt found no answer for a reason.
THEOREM AppliedOnceOrExcused == Spec => []AppliedOnce
<1>1. SyncInv => AppliedOnce
  <2> SUFFICES ASSUME SyncInv, NEW x \in Id PROVE made[x] <= 1 + excuses[x]
    BY DEF AppliedOnce
  <2>1. /\ made[x] + Cardinality(Writers(x)) <= 1 + excuses[x]
        /\ Cardinality(Writers(x)) \in Nat /\ made[x] \in Nat /\ excuses[x] \in Nat
    BY CountOfWriters DEF SyncInv, Ledger, SyncTypeOK
  <2> QED
    BY <2>1
<1> QED
  BY <1>1, SyncInvariant, PTL

\* mergeVisitCapture and the version asked for at the write: whoever writes between the
\* reading and the write of an update, it takes away no complaint or fuel reading entered
\* after its capture, and a versioned one only those of the version it names.
THEOREM LaterEntriesKept == Spec => LaterEntriesStay
<1> DEFINE Keeps == \A w \in Worker, i \in 1..Len(visits) :
       LET lost == (visits[i].notes \ visits'[i].notes)
                     \cup (IF visits'[i].fuel.by = visits[i].fuel.by THEN {} ELSE {visits[i].fuel})
       IN  made' # made /\ Busy(w, {"write"}) /\ worker'[w] # worker[w] =>
             \A n \in lost :
               /\ n.at <= captured[worker[w].batch].at
               /\ Op(w).versioned =>
                    visits[i].version = captured[worker[w].batch].versions[i]
<1>1. SyncInv /\ [Next]_vars => [Keeps]_vars
  <2> SUFFICES ASSUME SyncInv, [Next]_vars, NEW w \in Worker, NEW i \in 1..Len(visits),
                      made' # made, worker'[w] # worker[w],
                      NEW n \in (visits[i].notes \ visits'[i].notes)
                                  \cup (IF visits'[i].fuel.by = visits[i].fuel.by THEN {}
                                        ELSE {visits[i].fuel})
               PROVE  /\ n.at <= captured[worker[w].batch].at
                      /\ Op(w).versioned =>
                           visits[i].version = captured[worker[w].batch].versions[i]
    OBVIOUS
  <2> QED
    BY LaterEntriesStep
<1> HIDE DEF Keeps
<1>2. Spec => [][Keeps]_vars
  BY <1>1, SyncInvariant, PTL DEF Spec
<1> QED
  BY <1>2 DEF LaterEntriesStay, Keeps

-----------------------------------------------------------------------------
\* A check-in takes a number of the job tickets as CreateNumbered does; nothing else
\* that reception or its requests do touches the numbers but NumbersNext itself.
LEMMA NumbersGoOn == [Next]_vars => [NumbersNext]_numberVars
<1> SUFFICES ASSUME [Next]_vars PROVE [NumbersNext]_numberVars
  OBVIOUS
<1>1. ASSUME NEW w \in Worker, WriteCheckIn(w) PROVE NumbersNext
  BY <1>1, ReceptionAssumption DEF WriteCheckIn, CommitCheckIn, NumbersNext
<1>2. CASE \E w \in Worker : Write(w)
  BY <1>1, <1>2 DEF Write, WriteCustomer, WriteVehicle, WriteUpdate, WriteAttachment,
                    checkInVars
<1>3. CASE SyncNext /\ ~\E w \in Worker : Write(w)
  BY <1>3 DEF SyncNext, Capture, Send, LookUp, Read, Refused, Store, Crash, checkInVars
<1>4. CASE ReceptionNext
  BY <1>4 DEF ReceptionNext, Tick, MoveVisit, TransferVehicle
<1>5. CASE UNCHANGED vars
  BY <1>5 DEF vars, checkInVars
<1> QED
  BY <1>2, <1>3, <1>4, <1>5 DEF Next

\* Reception implements the numbers: whatever its requests do, in whatever order, is to
\* the settings row and the tables a behaviour of NumbersSpec.
THEOREM ReceptionImplementsNumbers == Spec => NumbersSpec
<1>1. Init => NumbersInit
  BY DEF Init
<1> QED
  BY <1>1, NumbersGoOn, PTL DEF Spec, NumbersSpec

\* The rows of reception keep their types, and refer to rows that are there.
THEOREM ReceptionTypeCorrect == Spec => []ReceptionTypeOK
<1>1. SyncInv => ReceptionTypeOK
  BY DEF SyncInv, DeskInv, DeskTypeOK, VisitOK, ReceptionTypeOK
<1> QED
  BY <1>1, SyncInvariant, PTL

-----------------------------------------------------------------------------
(***************************************************************************)
(* Sessions: SessionInv says of every source of a session (a token that is *)
(* exchanged, a code that is used) that no two requests went by at once    *)
(* that it opens one session at most, and none when it is spent.           *)
(***************************************************************************)
\* What a session can be opened by, and who by.
Sources == {Login} \cup {OfToken(t) : t \in Token} \cup {OfCode(n) : n \in Nat \ {0}}
Someone == Account \cup {"nobody"}

TokenRow == [owner: Someone, state: {"none", "live", "revoked", "expired"}, from: Sources]
UserRow  == [active: BOOLEAN, failed: Nat, locked: BOOLEAN, known: BOOLEAN]
CodeRow  == [code: Nat, attempts: Nat]
Steps == {"none", "verify", "rotate", "reuse", "expire", "count", "use", "drop",
          "issue", "ensure", "create"}
RequestRow == [step: Steps, who: Someone, from: Sources, read: Nat]

SessionsTypeOK ==
  /\ token \in [Token -> TokenRow]
  /\ account \in [Account -> UserRow]
  /\ otp \in [Customer -> CodeRow]
  /\ codes \in Nat
  /\ request \in [Request -> RequestRow]

\* A request's step tells the kind of source it goes by.
FitsStep(r) ==
  /\ r.step \in {"none", "verify"} => r.from = Login
  /\ r.step \in {"rotate", "reuse", "expire"} => \E t \in Token : r.from = OfToken(t)
  /\ r.step \in {"count", "use", "drop", "ensure", "create"} =>
       \E n \in Nat \ {0} : r.from = OfCode(n)

\* Tokens not issued come from nowhere, and codes not sent yet are nowhere.
NotYet ==
  /\ \A t \in Token : token[t].state = "none" => token[t].from = Login
  /\ \A c \in Customer : otp[c] = NoCode \/ otp[c].code # 0
  /\ \A n \in Nat : n > codes =>
       /\ \A c \in Customer : otp[c].code # n
       /\ \A q \in Request : request[q].from # OfCode(n)
       /\ \A t \in Token : token[t].from # OfCode(n)

\* Source x opens no session any more.
Spent(x) ==
  /\ \A t \in Token : x = OfToken(t) => token[t].state \in {"revoked", "expired"}
  /\ \A c \in Customer : x # OfCode(otp[c].code)

Opening == {"issue", "ensure", "create"}

\* What is true of a source that no two requests went by at once.
Alone(x) ==
  /\ \A p, q \in Request : request[p].from = x /\ request[q].from = x => p = q
  /\ \A s, t \in Token : token[s].from = x /\ token[t].from = x => s = t
  /\ \A t \in Token, q \in Request :
       token[t].from = x /\ request[q].from = x => request[q].step \in {"reuse", "expire"}
  /\ \A t \in Token : token[t].from = x => Spent(x)
  /\ \A q \in Request : request[q].from = x /\ request[q].step \in Opening => Spent(x)
  /\ \A c, d \in Customer : x = OfCode(otp[c].code) /\ x = OfCode(otp[d].code) => c = d
  /\ \A q \in Request, c \in Customer :
       request[q].from = x /\ x = OfCode(otp[c].code) => request[q].who = c

SessionInv ==
  /\ SessionsTypeOK
  /\ \A q \in Request : FitsStep(request[q])
  /\ NotYet
  /\ \A x \in Sources \ {Login} : x \notin shared => Alone(x)

-----------------------------------------------------------------------------
\* Tokens, codes and logins are told apart.
LEMMA SourceNames ==
  /\ \A t, n : OfToken(t) # OfCode(n) /\ OfToken(t) # Login /\ OfCode(n) # Login
  /\ \A s, t : OfToken(s) = OfToken(t) => s = t
  /\ \A m, n : OfCode(m) = OfCode(n) => m = n
  /\ \A n : OfCode(n)[2] = n
BY DEF OfToken, OfCode, Login

\* A session comes about only by two requests at once: the property, from what is
\* true of each source.
LEMMA AloneSuffices == SessionInv => SuccessorsNeedOverlap
<1> SUFFICES ASSUME SessionInv, NEW s \in Token, NEW t \in Token, s # t,
                    token[s].from = token[t].from, token[s].from # Login
             PROVE  token[s].from \in shared
  BY DEF SuccessorsNeedOverlap
<1>1. token[s].from \in Sources \ {Login}
  BY DEF SessionInv, SessionsTypeOK, TokenRow
<1> QED
  BY <1>1 DEF SessionInv, Alone

\* There are no sessions.
LEMMA InitSessions == SessionsInit => SessionInv
<1> SUFFICES ASSUME SessionsInit PROVE SessionInv
  OBVIOUS
<1>1. /\ \A t \in Token : token[t] = NoToken
      /\ \A c \in Customer : otp[c] = NoCode
      /\ \A q \in Request : request[q] = Done
      /\ codes = 0
  BY DEF SessionsInit
<1>2. SessionsTypeOK
  BY DEF SessionsInit, SessionsTypeOK, TokenRow, UserRow, CodeRow, RequestRow, Steps,
         NoToken, NoCode, Done, Sources, Someone
<1>3. \A q \in Request : FitsStep(request[q])
  BY <1>1 DEF FitsStep, Done
<1>4. NotYet
  BY <1>1, SourceNames DEF NotYet, NoToken, NoCode, Done
<1>5. ASSUME NEW x \in Sources \ {Login}
      PROVE  x \notin shared => Alone(x)
  <2>1. CASE \E n \in Nat \ {0} : x = OfCode(n)
    BY <1>1, <2>1, SourceNames DEF Alone, NoToken, NoCode, Done
  <2>2. CASE \E t \in Token : x = OfToken(t)
    BY <1>1, <2>2, SourceNames DEF Alone, NoToken, NoCode, Done
  <2> QED
    BY <2>1, <2>2 DEF Sources
<1> QED
  BY <1>2, <1>3, <1>4, <1>5 DEF SessionInv

-----------------------------------------------------------------------------
\* What the steps do to one request.
LEMMA OverEffect ==
  ASSUME SessionsTypeOK, NEW q \in Request, Over(q)
  PROVE  /\ request' \in [Request -> RequestRow]
         /\ request'[q] = Done
         /\ \A p \in Request \ {q} : request'[p] = request[p]
<1>1. Done \in RequestRow
  BY DEF Done, RequestRow, Steps, Someone, Sources
<1> QED
  BY <1>1 DEF Over, SessionsTypeOK

\* A request goes on to its next step.
LEMMA StepEffect ==
  ASSUME SessionsTypeOK, NEW q \in Request, NEW step \in Steps, Step(q, step)
  PROVE  /\ request' \in [Request -> RequestRow]
         /\ request'[q].step = step
         /\ request'[q].from = request[q].from /\ request'[q].who = request[q].who
         /\ \A p \in Request \ {q} : request'[p] = request[p]
BY DEF Step, SessionsTypeOK, RequestRow

-----------------------------------------------------------------------------
\* Most steps use sources up and open nothing: spent tokens stay spent, codes go,
\* and a request ends or goes on to open a session by a source that is spent.
TokensKept ==
  \A t \in Token :
    /\ token'[t].from = token[t].from
    /\ token'[t].state = "none" => token[t].state = "none"
    /\ token[t].state \in {"revoked", "expired"} => token'[t].state \in {"revoked", "expired"}

CodesKept == codes' = codes /\ \A c \in Customer : otp'[c] \in {otp[c], NoCode}

GoesOn(q) ==
  /\ request'[q].from = request[q].from /\ request'[q].who = request[q].who
  /\ request[q].step \notin {"reuse", "expire"}
  /\ request'[q].step \in Opening
  /\ request'[q].step \in {"ensure", "create"} => request[q].step \in {"use", "ensure"}
  /\ \/ request[q].from \in shared \cup {Login}
     \/ request[q].step \in Opening \/ Spent(request[q].from)'

QuietStep ==
  /\ TokensKept /\ CodesKept /\ shared' = shared
  /\ \A q \in Request : request'[q] \in {request[q], Done} \/ GoesOn(q)

\* No code that was sent is called 0.
LEMMA NoCodeName ==
  ASSUME NEW x \in Sources
  PROVE  x # OfCode(NoCode.code)
<1>1. NoCode.code = 0
  BY DEF NoCode
<1> QED
  BY <1>1, SourceNames DEF Sources

\* A source that is spent stays so when codes only go.
LEMMA SpentStays ==
  ASSUME NEW x \in Sources, Spent(x), TokensKept, CodesKept
  PROVE  Spent(x)'
BY NoCodeName DEF Spent, TokensKept, CodesKept

\* A step that opens no session and takes up no source keeps SessionInv.
LEMMA QuietKeeps ==
  ASSUME SessionInv, SessionsTypeOK', QuietStep
  PROVE  SessionInv'
<1>1. ASSUME NEW q \in Request
      PROVE  FitsStep(request'[q])
  <2>1. CASE request'[q] \in {request[q], Done}
    BY <2>1 DEF SessionInv, FitsStep, Done
  <2>2. CASE GoesOn(q)
    BY <2>2 DEF SessionInv, FitsStep, GoesOn, Opening
  <2> QED
    BY <2>1, <2>2 DEF QuietStep
<1>2. \A q \in Request : request'[q].from \in {request[q].from, Login}
  BY DEF QuietStep, GoesOn, Done
<1>3. NotYet'
  <2>1. \A t \in Token : token'[t].state = "none" => token'[t].from = Login
    BY DEF SessionInv, NotYet, QuietStep, TokensKept
  <2>2. \A c \in Customer : otp'[c] = NoCode \/ otp'[c].code # 0
    BY DEF SessionInv, NotYet, QuietStep, CodesKept
  <2>3. ASSUME NEW n \in Nat, n > codes
        PROVE  /\ \A c \in Customer : otp'[c].code # n
               /\ \A q \in Request : request'[q].from # OfCode(n)
               /\ \A t \in Token : token'[t].from # OfCode(n)
    <3>1. NoCode.code # n
      BY <2>3 DEF SessionInv, SessionsTypeOK, NoCode
    <3> QED
      BY <2>3, <3>1, <1>2, SourceNames
      DEF SessionInv, NotYet, QuietStep, CodesKept, TokensKept
  <2> QED
    BY <2>1, <2>2, <2>3 DEF NotYet, QuietStep, CodesKept
<1>4. ASSUME NEW x \in Sources \ {Login}, x \notin shared
      PROVE  Alone(x)'
  <2>1. Alone(x)
    BY <1>4 DEF SessionInv
  <2>2. \A q \in Request : request'[q].from = x =>
          /\ request[q].from = x
          /\ request'[q].who = request[q].who
          /\ request'[q] = request[q] \/ GoesOn(q)
    BY DEF QuietStep, GoesOn, Done
  <2>3. \A c \in Customer : x = OfCode(otp'[c].code) => x = OfCode(otp[c].code)
    BY NoCodeName DEF QuietStep, CodesKept
  <2>4. \A t \in Token : token'[t].from = token[t].from
    BY DEF QuietStep, TokensKept
  <2>5. Spent(x) => Spent(x)'
    BY SpentStays DEF QuietStep
  <2>6. ASSUME NEW q \in Request, request'[q].from = x, request'[q].step \in Opening
        PROVE  Spent(x)'
    BY <1>4, <2>1, <2>2, <2>5, <2>6 DEF Alone, GoesOn
  <2>7. ASSUME NEW t \in Token, NEW q \in Request, token'[t].from = x, request'[q].from = x
        PROVE  request'[q].step \in {"reuse", "expire"}
    <3>1. request[q].step \in {"reuse", "expire"} /\ request[q].from = x
      BY <2>1, <2>2, <2>4, <2>7 DEF Alone
    <3> QED
      BY <2>2, <2>7, <3>1 DEF GoesOn
  <2> QED
    BY <2>1, <2>2, <2>3, <2>4, <2>5, <2>6, <2>7 DEF Alone
<1> QED
  BY <1>1, <1>3, <1>4 DEF SessionInv, QuietStep

-----------------------------------------------------------------------------
\* A request sets out by source x: others that go by it share it from now on, and
\* one that is spent is not gone by but to report it.
LEMMA GoesByKeeps ==
  ASSUME SessionInv, NEW q \in Request, NEW step \in Steps \ Opening, NEW who \in Someone,
         NEW x \in Sources, NEW read \in Nat,
         GoesBy(q, step, who, x, read),
         FitsStep([step |-> step, who |-> who, from |-> x, read |-> read]),
         step \in {"reuse", "expire"} \/ x = Login \/ ~Spent(x),
         x \notin shared' => \A c \in Customer : x = OfCode(otp[c].code) => who = c,
         \A n \in Nat : n > codes => x # OfCode(n),
         UNCHANGED <<token, account, otp, codes>>
  PROVE  SessionInv'
<1> DEFINE r == [step |-> step, who |-> who, from |-> x, read |-> read]
<1>1. request[q] = Done /\ request' = [request EXCEPT ![q] = r]
  BY DEF GoesBy
<1>2. r \in RequestRow /\ r.from = x /\ r.who = who /\ r.step = step
  BY DEF RequestRow
<1> HIDE DEF r
<1>3. SessionsTypeOK'
  BY <1>1, <1>2 DEF SessionInv, SessionsTypeOK
<1>4. request'[q] = r /\ \A p \in Request \ {q} : request'[p] = request[p]
  BY <1>1 DEF SessionInv, SessionsTypeOK
<1>5. \A p \in Request : FitsStep(request'[p])
  BY <1>4 DEF SessionInv, r
<1>6. NotYet'
  BY <1>2, <1>4 DEF SessionInv, NotYet
<1>7. ASSUME NEW y \in Sources \ {Login}, y \notin shared'
      PROVE  Alone(y)'
  <2>1. Alone(y) /\ (Spent(y) <=> Spent(y)')
    BY <1>7 DEF SessionInv, GoesBy, Spent
  <2>2. CASE y # x
    BY <1>2, <1>4, <2>1, <2>2 DEF Alone
  <2>3. CASE y = x
    <3>1. \A p \in Request : request[p].from # x
      BY <1>7, <2>3 DEF GoesBy
    <3>2. \A p \in Request : request'[p].from = x => p = q
      BY <1>4, <3>1
    <3>3. \A t \in Token : token[t].from = x => step \in {"reuse", "expire"}
      BY <2>1, <2>3 DEF Alone
    <3>4. \A c \in Customer : x = OfCode(otp[c].code) => who = c
      BY <1>7, <2>3
    <3> QED
      BY <1>2, <1>4, <2>1, <2>3, <3>2, <3>3, <3>4 DEF Alone
  <2> QED
    BY <2>2, <2>3
<1> QED
  BY <1>3, <1>5, <1>6, <1>7 DEF SessionInv

-----------------------------------------------------------------------------
\* A session is opened: by a spent source, which is not gone by any more.
LEMMA IssueKeeps ==
  ASSUME SessionInv, NEW q \in Request, IssueTokens(q)
  PROVE  SessionInv'
<1> DEFINE x == request[q].from
<1>1. PICK t \in Token :
        /\ token[t].state = "none"
        /\ token' = [token EXCEPT ![t] = [owner |-> request[q].who, state |-> "live",
                                          from |-> x]]
  BY DEF IssueTokens
<1>2. request[q].step = "issue" /\ Over(q) /\ UNCHANGED <<account, otp, codes, shared>>
  BY DEF IssueTokens
<1>3. request[q] \in RequestRow
  BY DEF SessionInv, SessionsTypeOK
<1>4. x \in Sources
  BY <1>3 DEF RequestRow
<1>5. /\ request' \in [Request -> RequestRow] /\ request'[q] = Done
      /\ \A p \in Request \ {q} : request'[p] = request[p]
  BY <1>2, OverEffect DEF SessionInv
<1>6. token' \in [Token -> TokenRow]
  BY <1>1, <1>3 DEF SessionInv, SessionsTypeOK, TokenRow, RequestRow
<1>7. /\ token'[t].from = x /\ token'[t].state = "live"
      /\ \A u \in Token \ {t} : token'[u] = token[u]
  BY <1>1 DEF SessionInv, SessionsTypeOK
<1> HIDE DEF x
<1>8. SessionsTypeOK'
  BY <1>2, <1>5, <1>6 DEF SessionInv, SessionsTypeOK
<1>9. \A p \in Request : FitsStep(request'[p])
  BY <1>5 DEF SessionInv, FitsStep, Done
<1>10. NotYet'
  <2>1. \A n \in Nat : n > codes => x # OfCode(n)
    BY DEF SessionInv, NotYet, x
  <2>2. \A p \in Request : request'[p].from \in {request[p].from, Login}
    BY <1>5 DEF Done
  <2> QED
    BY <1>2, <1>7, <2>1, <2>2, SourceNames DEF SessionInv, NotYet
<1>11. ASSUME NEW y \in Sources \ {Login}, y \notin shared
       PROVE  Alone(y)'
  <2>1. Alone(y)
    BY <1>11 DEF SessionInv
  <2>2. token[t].from = Login /\ y # Login
    BY <1>1 DEF SessionInv, NotYet
  <2>3. \A p \in Request : request'[p].from = y => p # q /\ request'[p] = request[p]
    BY <1>5, <2>2 DEF Done
  <2>4. Spent(y) => Spent(y)'
    <3>1. Spent(y) => y # OfToken(t)
      BY <1>1 DEF Spent
    <3> QED
      BY <1>2, <1>7, <3>1 DEF Spent
  <2>5. CASE y # x
    <3>1. \A u \in Token : token'[u].from = y => u # t /\ token'[u] = token[u]
      BY <1>7, <2>5
    <3> QED
      BY <1>2, <2>1, <2>3, <2>4, <3>1 DEF Alone
  <2>6. CASE y = x
    <3>1. Spent(y)'
      BY <1>2, <2>1, <2>4, <2>6 DEF Alone, Opening, x
    <3>2. \A p \in Request : request'[p].from # y
      BY <2>1, <2>3, <2>6 DEF Alone, x
    <3>3. \A u \in Token : token[u].from # y
      BY <1>2, <2>1, <2>6 DEF Alone, x
    <3>4. \A u \in Token : token'[u].from = y => u = t
      BY <1>7, <3>3
    <3> QED
      BY <1>2, <2>1, <3>1, <3>2, <3>4 DEF Alone
  <2> QED
    BY <2>5, <2>6
<1> QED
  BY <1>2, <1>8, <1>9, <1>10, <1>11 DEF SessionInv

\* A wrong attempt writes its code back, which nobody else went by.
LEMMA CountKeeps ==
  ASSUME SessionInv, NEW q \in Request, CountAttempt(q)
  PROVE  SessionInv'
<1> DEFINE who == request[q].who
           row == [code |-> request[q].from[2], attempts |-> request[q].read + 1]
<1>1. /\ request[q].step = "count" /\ Over(q) /\ UNCHANGED <<token, account, codes, shared>>
      /\ otp' = [otp EXCEPT ![who] = row]
  BY DEF CountAttempt
<1>2. PICK n \in Nat \ {0} : request[q].from = OfCode(n)
  BY <1>1 DEF SessionInv, FitsStep
<1>3. row.code = n /\ row \in CodeRow
  <2>1. request[q].read \in Nat
    BY DEF SessionInv, SessionsTypeOK, RequestRow
  <2>2. request[q].from[2] = n
    BY <1>2, SourceNames
  <2> QED
    BY <2>1, <2>2 DEF CodeRow
<1> HIDE DEF row, who
<1>4. /\ request' \in [Request -> RequestRow] /\ request'[q] = Done
      /\ \A p \in Request \ {q} : request'[p] = request[p]
  BY <1>1, OverEffect DEF SessionInv
<1>5. /\ otp' \in [Customer -> CodeRow]
      /\ \A c \in Customer : otp'[c] = IF c = who THEN row ELSE otp[c]
  BY <1>1, <1>3 DEF SessionInv, SessionsTypeOK
<1>6. SessionsTypeOK'
  BY <1>1, <1>4, <1>5 DEF SessionInv, SessionsTypeOK
<1>7. \A p \in Request : FitsStep(request'[p])
  BY <1>4 DEF SessionInv, FitsStep, Done
<1>8. NotYet'
  <2>1. \A m \in Nat : m > codes => n # m
    BY <1>2 DEF SessionInv, NotYet
  <2>2. \A p \in Request : request'[p].from \in {request[p].from, Login}
    BY <1>4 DEF Done
  <2> QED
    BY <1>1, <1>3, <1>5, <2>1, <2>2, SourceNames DEF SessionInv, NotYet
<1>9. ASSUME NEW y \in Sources \ {Login}, y \notin shared
      PROVE  Alone(y)'
  <2>1. Alone(y)
    BY <1>9 DEF SessionInv
  <2>2. \A p \in Request : request'[p].from = y => p # q /\ request'[p] = request[p]
    BY <1>4 DEF Done
  <2>3. CASE y # OfCode(n)
    <3>1. \A c \in Customer : y = OfCode(otp'[c].code) => otp'[c] = otp[c]
      BY <1>3, <1>5, <2>3
    <3>2. Spent(y) => Spent(y)'
      BY <1>1, <3>1 DEF Spent
    <3> QED
      BY <1>1, <2>1, <2>2, <3>1, <3>2 DEF Alone
  <2>4. CASE y = OfCode(n)
    <3>1. \A p \in Request : request'[p].from # y
      BY <1>2, <2>1, <2>2, <2>4 DEF Alone
    <3>2. \A t \in Token : token'[t].from # y
      BY <1>1, <1>2, <2>1, <2>4 DEF Alone
    <3>3. \A c \in Customer : y = OfCode(otp'[c].code) => c = who
      BY <1>2, <1>5, <2>1, <2>4 DEF Alone, who
    <3> QED
      BY <3>1, <3>2, <3>3 DEF Alone
  <2> QED
    BY <2>3, <2>4
<1> QED
  BY <1>1, <1>6, <1>7, <1>8, <1>9 DEF SessionInv

\* A new code is nobody's source yet.
LEMMA RequestOtpKeeps ==
  ASSUME SessionInv, NEW c \in Customer, RequestOtp(c)
  PROVE  SessionInv'
<1>1. /\ codes' = codes + 1 /\ codes \in Nat
      /\ otp' = [otp EXCEPT ![c] = [code |-> codes + 1, attempts |-> 0]]
      /\ UNCHANGED <<token, account, request, shared>>
  BY DEF RequestOtp, SessionInv, SessionsTypeOK
<1>2. /\ otp' \in [Customer -> CodeRow] /\ otp'[c].code = codes + 1
      /\ \A d \in Customer \ {c} : otp'[d] = otp[d]
  BY <1>1 DEF SessionInv, SessionsTypeOK, CodeRow
<1>3. SessionsTypeOK'
  BY <1>1, <1>2 DEF SessionInv, SessionsTypeOK
<1>4. NotYet'
  <2>1. \A n \in Nat : n > codes + 1 => n > codes /\ n # codes + 1
    BY <1>1
  <2> QED
    BY <1>1, <1>2, <2>1 DEF SessionInv, NotYet
<1>5. ASSUME NEW y \in Sources \ {Login}, y \notin shared
      PROVE  Alone(y)'
  <2>1. Alone(y)
    BY <1>5 DEF SessionInv
  <2>2. codes + 1 \in Nat /\ codes + 1 > codes
    BY <1>1
  <2>3. /\ \A d \in Customer : otp[d].code # codes + 1
        /\ \A q \in Request : request[q].from # OfCode(codes + 1)
        /\ \A t \in Token : token[t].from # OfCode(codes + 1)
    BY <2>2 DEF SessionInv, NotYet
  <2>4. CASE y = OfCode(codes + 1)
    <3>1. \A d \in Customer : y = OfCode(otp'[d].code) => d = c
      BY <1>2, <2>3, <2>4, SourceNames
    <3> QED
      BY <1>1, <2>3, <2>4, <3>1 DEF Alone
  <2>5. CASE y # OfCode(codes + 1)
    <3>1. \A d \in Customer : y = OfCode(otp'[d].code) => otp'[d] = otp[d]
      BY <1>2, <2>5
    <3>2. Spent(y) => Spent(y)'
      BY <1>1, <3>1 DEF Spent
    <3> QED
      BY <1>1, <2>1, <3>1, <3>2 DEF Alone
  <2> QED
    BY <2>4, <2>5
<1> QED
  BY <1>1, <1>3, <1>4, <1>5 DEF SessionInv

-----------------------------------------------------------------------------
\* The readings of the handlers, by login, token and code.
LEMMA ReadersKeep ==
  ASSUME SessionInv, NEW q \in Request,
         \/ \E u \in Staff : FindUser(q, u)
         \/ \E t \in Token : FindToken(q, t) \/ FindSpentToken(q, t)
         \/ \E c \in Customer, right \in BOOLEAN : ReadCode(q, c, right)
  PROVE  SessionInv'
<1>1. ASSUME NEW u \in Staff, FindUser(q, u)
      PROVE  SessionInv'
  <2>1. u \in Someone /\ account[u].failed \in Nat /\ Login \in Sources
    BY DEF Someone, Account, SessionInv, SessionsTypeOK, UserRow, Sources
  <2>2. FitsStep([step |-> "verify", who |-> u, from |-> Login, read |-> account[u].failed])
    BY DEF FitsStep
  <2>3. GoesBy(q, "verify", u, Login, account[u].failed) /\ UNCHANGED <<token, account, otp, codes>>
    BY <1>1 DEF FindUser
  <2>4. "verify" \in Steps \ Opening
    BY DEF Steps, Opening
  <2> QED
    BY <2>1, <2>2, <2>3, <2>4, GoesByKeeps, SourceNames
<1>2. ASSUME NEW t \in Token, FindToken(q, t) \/ FindSpentToken(q, t)
      PROVE  SessionInv'
  <2>1. PICK step \in {"rotate", "reuse", "expire"} :
          /\ GoesBy(q, step, token[t].owner, OfToken(t), 0)
          /\ step = "rotate" => token[t].state = "live"
          /\ UNCHANGED <<token, account, otp, codes>>
    BY <1>2 DEF FindToken, FindSpentToken
  <2>2. token[t].owner \in Someone /\ OfToken(t) \in Sources
    BY DEF SessionInv, SessionsTypeOK, TokenRow, Sources
  <2>3. FitsStep([step |-> step, who |-> token[t].owner, from |-> OfToken(t), read |-> 0])
    BY DEF FitsStep
  <2>4. step \in {"reuse", "expire"} \/ ~Spent(OfToken(t))
    BY <2>1 DEF Spent
  <2>5. step \in Steps \ Opening /\ 0 \in Nat
    BY DEF Steps, Opening
  <2> QED
    BY <2>1, <2>2, <2>3, <2>4, <2>5, GoesByKeeps, SourceNames
<1>3. ASSUME NEW c \in Customer, NEW right \in BOOLEAN, ReadCode(q, c, right)
      PROVE  SessionInv'
  <2> DEFINE n == otp[c].code
  <2>1. PICK step \in {"drop", "use", "count"} :
          /\ GoesBy(q, step, c, OfCode(n), otp[c].attempts)
          /\ UNCHANGED <<token, account, otp, codes>>
    BY <1>3 DEF ReadCode
  <2>2. n \in Nat \ {0} /\ otp[c].attempts \in Nat /\ c \in Someone
    BY <1>3 DEF ReadCode, SessionInv, NotYet, SessionsTypeOK, CodeRow, Someone, Account
  <2>3. OfCode(n) \in Sources
    BY <2>2 DEF Sources
  <2>4. FitsStep([step |-> step, who |-> c, from |-> OfCode(n), read |-> otp[c].attempts])
    BY <2>2 DEF FitsStep
  <2>5. ~Spent(OfCode(n))
    BY DEF Spent
  <2>6. \A m \in Nat : m > codes => OfCode(n) # OfCode(m)
    BY SourceNames DEF SessionInv, NotYet
  <2>7. step \in Steps \ Opening
    BY DEF Steps, Opening
  <2>8. ASSUME OfCode(n) \notin shared', NEW d \in Customer, OfCode(n) = OfCode(otp[d].code)
        PROVE  c = d
    BY <2>1, <2>3, <2>8, SourceNames DEF SessionInv, Alone, GoesBy
  <2> QED
    BY <2>1, <2>2, <2>3, <2>4, <2>5, <2>6, <2>7, <2>8, GoesByKeeps, SourceNames
<1> QED
  BY <1>1, <1>2, <1>3

\* The steps of the handlers that open nothing.
LEMMA HandlersQuiet ==
  ASSUME SessionInv, NEW q \in Request,
         \/ WrongPassword(q) \/ RightPassword(q) \/ Rotate(q) \/ RevokeSpent(q)
         \/ DeleteCode(q) \/ EnsurePortalUser(q) \/ CreatePortalUser(q) \/ Dies(q)
  PROVE  SessionsTypeOK' /\ QuietStep
<1>1. SessionsTypeOK /\ FitsStep(request[q]) /\ request[q] \in RequestRow
  BY DEF SessionInv, SessionsTypeOK
<1>2. ASSUME Over(q), UNCHANGED <<token, otp, codes, shared>>, account' \in [Account -> UserRow]
      PROVE  SessionsTypeOK' /\ QuietStep
  BY <1>1, <1>2, OverEffect DEF SessionsTypeOK, QuietStep, TokensKept, CodesKept
<1>3. CASE WrongPassword(q)
  <2>1. /\ Over(q) /\ UNCHANGED <<token, otp, codes, shared>>
        /\ account' = [account EXCEPT ![request[q].who].failed = request[q].read + 1,
                         ![request[q].who].locked = request[q].read + 1 >= MaxFailed]
    BY <1>3 DEF WrongPassword
  <2>2. account' \in [Account -> UserRow]
    <3>1. request[q].read + 1 \in Nat /\ (request[q].read + 1 >= MaxFailed) \in BOOLEAN
      BY <1>1 DEF RequestRow
    <3> QED
      BY <1>1, <2>1, <3>1 DEF SessionsTypeOK, UserRow
  <2> QED
    BY <1>2, <2>1, <2>2
<1>4. CASE RightPassword(q)
  <2>1. account' \in [Account -> UserRow]
    BY <1>1, <1>4 DEF RightPassword, SessionsTypeOK, UserRow
  <2>2. GoesOn(q) /\ request' \in [Request -> RequestRow]
        /\ \A p \in Request \ {q} : request'[p] = request[p]
    BY <1>1, <1>4, StepEffect DEF RightPassword, GoesOn, Opening, Steps, FitsStep
  <2> QED
    BY <1>1, <1>4, <2>1, <2>2
    DEF RightPassword, SessionsTypeOK, QuietStep, TokensKept, CodesKept
<1>5. CASE Rotate(q)
  <2>1. /\ token' = [t \in Token |-> IF OfToken(t) = request[q].from
                                     THEN [token[t] EXCEPT !.state = "revoked"] ELSE token[t]]
        /\ Step(q, "issue") /\ UNCHANGED <<account, otp, codes, shared>>
        /\ request[q].step = "rotate"
    BY <1>5 DEF Rotate
  <2>2. token' \in [Token -> TokenRow] /\ TokensKept
    BY <1>1, <2>1 DEF SessionsTypeOK, TokenRow, TokensKept
  <2>3. /\ request' \in [Request -> RequestRow] /\ request'[q].step = "issue"
        /\ request'[q].from = request[q].from /\ request'[q].who = request[q].who
        /\ \A p \in Request \ {q} : request'[p] = request[p]
    BY <1>1, <2>1, StepEffect DEF Steps
  <2>4. Spent(request[q].from)'
    <3>1. PICK t \in Token : request[q].from = OfToken(t)
      BY <1>1, <2>1 DEF FitsStep
    <3>2. token'[t].state = "revoked"
      BY <1>1, <2>1, <3>1 DEF SessionsTypeOK, TokenRow
    <3> QED
      BY <3>1, <3>2, <2>3, SourceNames DEF Spent
  <2>5. GoesOn(q)
    BY <2>1, <2>3, <2>4 DEF GoesOn, Opening
  <2> QED
    BY <1>1, <2>1, <2>2, <2>3, <2>5 DEF SessionsTypeOK, QuietStep, CodesKept
<1>6. CASE RevokeSpent(q)
  <2>1. /\ token' = [t \in Token |->
             IF IF request[q].step = "expire" THEN OfToken(t) = request[q].from
                ELSE token[t].owner = request[q].who /\ token[t].state # "none"
             THEN [token[t] EXCEPT !.state = "revoked"] ELSE token[t]]
        /\ Over(q) /\ UNCHANGED <<account, otp, codes, shared>>
    BY <1>6 DEF RevokeSpent
  <2>2. token' \in [Token -> TokenRow] /\ TokensKept
    BY <1>1, <2>1 DEF SessionsTypeOK, TokenRow, TokensKept
  <2> QED
    BY <1>1, <2>1, <2>2, OverEffect DEF SessionsTypeOK, QuietStep, CodesKept
<1>7. CASE DeleteCode(q)
  <2>1. /\ request[q].step \in {"drop", "use"}
        /\ otp' = [otp EXCEPT ![request[q].who] = NoCode]
        /\ UNCHANGED <<token, account, codes, shared>>
        /\ IF request[q].step = "drop" THEN Over(q) ELSE Step(q, "ensure")
    BY <1>7 DEF DeleteCode
  <2>2. /\ otp' \in [Customer -> CodeRow] /\ CodesKept
        /\ \A c \in Customer : c = request[q].who => otp'[c] = NoCode
    BY <1>1, <2>1 DEF SessionsTypeOK, CodeRow, NoCode, CodesKept
  <2>3. CASE Over(q)
    BY <1>1, <2>1, <2>2, <2>3, OverEffect DEF SessionsTypeOK, QuietStep, TokensKept
  <2>4. CASE request[q].step = "use" /\ Step(q, "ensure")
    <3>1. /\ request' \in [Request -> RequestRow] /\ request'[q].step = "ensure"
          /\ request'[q].from = request[q].from /\ request'[q].who = request[q].who
          /\ \A p \in Request \ {q} : request'[p] = request[p]
      BY <1>1, <2>4, StepEffect DEF Steps
    <3>2. request[q].from \in shared \/ Spent(request[q].from)'
      <4> SUFFICES ASSUME request[q].from \notin shared
                   PROVE  Spent(request[q].from)'
        OBVIOUS
      <4>1. PICK n \in Nat \ {0} : request[q].from = OfCode(n)
        BY <1>1, <2>4 DEF FitsStep
      <4>2. request[q].from \in Sources \ {Login}
        BY <4>1, SourceNames DEF Sources
      <4>3. \A c \in Customer :
              request[q].from = OfCode(otp[c].code) => request[q].who = c
        BY <4>2 DEF SessionInv, Alone
      <4>4. \A c \in Customer : request[q].from # OfCode(otp'[c].code)
        BY <2>2, <4>2, <4>3, NoCodeName DEF CodesKept
      <4> QED
        BY <3>1, <4>1, <4>4, SourceNames DEF Spent
    <3>3. GoesOn(q)
      BY <2>4, <3>1, <3>2 DEF GoesOn, Opening
    <3> QED
      BY <1>1, <2>1, <2>2, <3>1, <3>3 DEF SessionsTypeOK, QuietStep, TokensKept
  <2> QED
    BY <2>1, <2>3, <2>4
<1>8. CASE EnsurePortalUser(q)
  <2>1. PICK step \in {"issue", "create"} : Step(q, step)
    BY <1>8 DEF EnsurePortalUser
  <2>2. request[q].step = "ensure" /\ UNCHANGED <<token, account, otp, codes, shared>>
    BY <1>8 DEF EnsurePortalUser
  <2>3. /\ request' \in [Request -> RequestRow] /\ request'[q].step = step
        /\ request'[q].from = request[q].from /\ request'[q].who = request[q].who
        /\ \A p \in Request \ {q} : request'[p] = request[p]
    BY <1>1, <2>1, StepEffect DEF Steps
  <2>4. GoesOn(q)
    BY <2>2, <2>3 DEF GoesOn, Opening
  <2> QED
    BY <1>1, <2>2, <2>3, <2>4 DEF SessionsTypeOK, QuietStep, TokensKept, CodesKept
<1>9. CASE CreatePortalUser(q)
  <2>1. /\ request[q].step = "create" /\ UNCHANGED <<token, otp, codes, shared>>
        /\ account' = [account EXCEPT ![request[q].who].known = TRUE]
        /\ Over(q) \/ Step(q, "issue")
    BY <1>9 DEF CreatePortalUser
  <2>2. account' \in [Account -> UserRow]
    BY <1>1, <2>1 DEF SessionsTypeOK, UserRow
  <2>3. CASE Step(q, "issue")
    <3>1. /\ request' \in [Request -> RequestRow] /\ request'[q].step = "issue"
          /\ request'[q].from = request[q].from /\ request'[q].who = request[q].who
          /\ \A p \in Request \ {q} : request'[p] = request[p]
      BY <1>1, <2>3, StepEffect DEF Steps
    <3>2. GoesOn(q)
      BY <2>1, <3>1 DEF GoesOn, Opening
    <3> QED
      BY <1>1, <2>1, <2>2, <3>1, <3>2 DEF SessionsTypeOK, QuietStep, TokensKept, CodesKept
  <2> QED
    BY <1>2, <2>1, <2>2, <2>3
<1>10. CASE Dies(q)
  BY <1>1, <1>2, <1>10 DEF Dies, SessionsTypeOK
<1> QED
  BY <1>3, <1>4, <1>5, <1>6, <1>7, <1>8, <1>9, <1>10

\* What happens to accounts, tokens and codes by themselves.
LEMMA RestQuiet ==
  ASSUME SessionInv,
         \/ \E u \in Staff : LockExpires(u) \/ UpdateStatus(u)
         \/ \E t \in Token : Logout(t) \/ TokenExpires(t)
         \/ \E c \in Customer : CodeExpires(c)
         \/ UNCHANGED sessionVars
  PROVE  SessionsTypeOK' /\ QuietStep
<1>1. SessionsTypeOK
  BY DEF SessionInv
<1>2. CASE \E u \in Staff : LockExpires(u) \/ UpdateStatus(u)
  <2>1. account' \in [Account -> UserRow]
    <3>1. PICK u \in Staff, active \in BOOLEAN, locked \in BOOLEAN :
            account' = [account EXCEPT ![u].active = active]
            \/ account' = [account EXCEPT ![u].locked = locked]
      BY <1>2, Zenon DEF LockExpires, UpdateStatus
    <3> QED
      BY <1>1, <3>1 DEF SessionsTypeOK, UserRow, Account
  <2>2. UNCHANGED <<token, otp, codes, request, shared>>
    BY <1>2 DEF LockExpires, UpdateStatus
  <2> QED
    BY <1>1, <2>1, <2>2 DEF SessionsTypeOK, QuietStep, TokensKept, CodesKept
<1>3. CASE \E t \in Token : Logout(t) \/ TokenExpires(t)
  BY <1>1, <1>3 DEF Logout, TokenExpires, SessionsTypeOK, TokenRow,
                    QuietStep, TokensKept, CodesKept
<1>4. CASE \E c \in Customer : CodeExpires(c)
  BY <1>1, <1>4 DEF CodeExpires, SessionsTypeOK, CodeRow, NoCode,
                    QuietStep, TokensKept, CodesKept
<1>5. CASE UNCHANGED sessionVars
  BY <1>1, <1>5 DEF sessionVars, SessionsTypeOK, QuietStep, TokensKept, CodesKept
<1> QED
  BY <1>2, <1>3, <1>4, <1>5

\* Every step keeps SessionInv.
LEMMA SessionStep == SessionInv /\ [SessionsNext]_sessionVars => SessionInv'
<1> SUFFICES ASSUME SessionInv, [SessionsNext]_sessionVars PROVE SessionInv'
  OBVIOUS
<1>1. ASSUME NEW q \in Request,
             \/ WrongPassword(q) \/ RightPassword(q) \/ Rotate(q) \/ RevokeSpent(q)
             \/ DeleteCode(q) \/ EnsurePortalUser(q) \/ CreatePortalUser(q) \/ Dies(q)
      PROVE  SessionInv'
  BY <1>1, HandlersQuiet, QuietKeeps
<1>2. ASSUME NEW q \in Request,
             \/ \E u \in Staff : FindUser(q, u)
             \/ \E t \in Token : FindToken(q, t) \/ FindSpentToken(q, t)
             \/ \E c \in Customer, right \in BOOLEAN : ReadCode(q, c, right)
      PROVE  SessionInv'
  BY <1>2, ReadersKeep
<1>3. ASSUME \/ \E u \in Staff : LockExpires(u) \/ UpdateStatus(u)
             \/ \E t \in Token : Logout(t) \/ TokenExpires(t)
             \/ \E c \in Customer : CodeExpires(c)
             \/ UNCHANGED sessionVars
      PROVE  SessionInv'
  BY <1>3, RestQuiet, QuietKeeps
<1> QED
  BY <1>1, <1>2, <1>3, IssueKeeps, CountKeeps, RequestOtpKeeps DEF SessionsNext

\* Every session that shares its token or its code with another one comes from
\* requests that went by it at once, whatever the number of requests.
THEOREM SuccessorsOverlap == SessionsSpec => []SuccessorsNeedOverlap
<1>1. SessionsSpec => []SessionInv
  BY InitSessions, SessionStep, PTL DEF SessionsSpec
<1> QED
  BY <1>1, AloneSuffices, PTL

-----------------------------------------------------------------------------
(***************************************************************************)
(* The cache of the dashboard: CacheInv says that what is stored, or about *)
(* to be, is as new as every invalidation that has passed its key, whether *)
(* done or under way.                                                      *)
(***************************************************************************)
\* Figures of a key, and a reader that has them.
ValueOK(v, k) ==
  DOMAIN v = {"of", "overtaken"} /\ v.of \in [BranchesOf(k) -> Nat] /\ v.overtaken \in BOOLEAN

ReaderOK(r) ==
  \/ r = Away
  \/ /\ DOMAIN r = {"key", "phase", "value"} /\ r.key \in Key
     /\ \/ r.phase = "compute" /\ r.value = NoEntry
        \/ r.phase = "set" /\ ValueOK(r.value, r.key)

SweepOK(s) ==
  \/ s = AtRest
  \/ /\ DOMAIN s = {"event", "as", "patterns", "unscanned", "found"}
     /\ s.event \in Scope /\ s.as \in [Branch -> Nat]
     /\ s.patterns \in {<<>>, <<Dash(All)>>}

CacheTypeOK ==
  /\ data \in [Branch -> Nat]
  /\ DOMAIN entry = Key /\ \A k \in Key : entry[k] = NoEntry \/ ValueOK(entry[k], k)
  /\ DOMAIN reader = Reader /\ \A r \in Reader : ReaderOK(reader[r])
  /\ DOMAIN sweep = Invalidator /\ \A i \in Invalidator : SweepOK(sweep[i])
  /\ floor \in [Key -> [Branch -> Nat]]

\* The figures of key k are as new as the bound, or their reader was overtaken.
Fresh(v, k, bound) ==
  v = NoEntry \/ v.overtaken \/ \A b \in BranchesOf(k) : v.of[b] >= bound[b]

\* The keys that an invalidation has yet to come to, and those it is about.
Ahead(s) == s.unscanned \cup (IF s.patterns = <<>> THEN {} ELSE Dash(All))
Concerns(event, k) == event \in BranchesOf(k) \cup {All}
Passed(s, k) == s # AtRest /\ Concerns(s.event, k) /\ k \notin Ahead(s)

\* Nothing is known of a future version.
NoneAhead ==
  /\ \A i \in Invalidator : sweep[i] # AtRest => \A b \in Branch : sweep[i].as[b] <= data[b]
  /\ \A k \in Key, b \in Branch : floor[k][b] <= data[b]

\* What is stored, and what is about to be, is as new as the last invalidation of its
\* key, and as any that is under way and has passed it; but for what a page has found
\* and is about to delete.
AboveFloor ==
  /\ \A k \in Key : Fresh(entry[k], k, floor[k])
  /\ \A r \in Reader : reader[r].phase = "set" =>
       Fresh(reader[r].value, reader[r].key, floor[reader[r].key])

AboveSweeps ==
  \A i \in Invalidator :
    /\ \A k \in Key :
         Passed(sweep[i], k) /\ k \notin sweep[i].found => Fresh(entry[k], k, sweep[i].as)
    /\ \A r \in Reader :
         reader[r].phase = "set" /\ Passed(sweep[i], reader[r].key)
         => Fresh(reader[r].value, reader[r].key, sweep[i].as)

CacheInv == CacheTypeOK /\ NoneAhead /\ AboveFloor /\ AboveSweeps

-----------------------------------------------------------------------------
\* A key is about branches.
LEMMA BranchesOfKeys == \A k \in Key : BranchesOf(k) \subseteq Branch
BY DEF Key, Scope, BranchesOf

\* The property, from what CacheInv says of the entries.
LEMMA FreshSuffices == CacheInv => StaleOnlyIfOvertaken
<1> SUFFICES ASSUME CacheInv, NEW k \in Key, entry[k] # NoEntry,
                    NEW b \in DOMAIN entry[k].of, entry[k].of[b] < floor[k][b]
             PROVE  entry[k].overtaken
  BY DEF StaleOnlyIfOvertaken, Stale
<1>1. entry[k].of \in [BranchesOf(k) -> Nat] /\ b \in BranchesOf(k)
  BY DEF CacheInv, CacheTypeOK, ValueOK
<1>2. floor[k][b] \in Nat
  BY <1>1, BranchesOfKeys DEF CacheInv, CacheTypeOK
<1>3. Fresh(entry[k], k, floor[k])
  BY DEF CacheInv, AboveFloor
<1> QED
  BY <1>1, <1>2, <1>3 DEF Fresh

\* Nothing is cached, nobody reads and nothing is invalidated.
LEMMA CacheStart == CacheInit => CacheInv
<1> SUFFICES ASSUME CacheInit PROVE CacheInv
  OBVIOUS
<1>1. CacheTypeOK
  BY DEF CacheInit, CacheTypeOK, ReaderOK, SweepOK
<1>2. \A i \in Invalidator : sweep[i] = AtRest
  BY DEF CacheInit
<1>3. \A r \in Reader : reader[r].phase = "get"
  BY DEF CacheInit, Away
<1>4. NoneAhead
  BY <1>2 DEF CacheInit, NoneAhead
<1>5. AboveFloor
  BY <1>3 DEF CacheInit, AboveFloor, Fresh
<1>6. AboveSweeps
  BY <1>2 DEF AboveSweeps, Passed
<1> QED
  BY <1>1, <1>4, <1>5, <1>6 DEF CacheInv

\* New data makes nothing older than it was held to be.
LEMMA ChangeKeeps ==
  ASSUME CacheInv, NEW b \in Branch, Change(b) PROVE CacheInv'
<1>1. /\ data' = [data EXCEPT ![b] = @ + 1] /\ data \in [Branch -> Nat]
      /\ UNCHANGED <<entry, reader, sweep, floor>>
  BY DEF Change, CacheInv, CacheTypeOK
<1>2. CacheTypeOK'
  BY <1>1 DEF CacheInv, CacheTypeOK
<1>3. NoneAhead'
  <2>1. \A c \in Branch : data'[c] \in Nat /\ data[c] \in Nat /\ data[c] <= data'[c]
    BY <1>1
  <2>2. ASSUME NEW i \in Invalidator, sweep[i] # AtRest, NEW c \in Branch
        PROVE  sweep[i].as[c] <= data'[c]
    <3>1. sweep[i].as[c] \in Nat /\ sweep[i].as[c] <= data[c]
      BY <2>2 DEF CacheInv, CacheTypeOK, SweepOK, NoneAhead
    <3> QED
      BY <2>1, <3>1
  <2>3. ASSUME NEW k \in Key, NEW c \in Branch
        PROVE  floor[k][c] <= data'[c]
    <3>1. floor[k][c] \in Nat /\ floor[k][c] <= data[c]
      BY DEF CacheInv, CacheTypeOK, NoneAhead
    <3> QED
      BY <2>1, <3>1
  <2> QED
    BY <1>1, <2>2, <2>3 DEF NoneAhead
<1>4. AboveFloor' /\ AboveSweeps'
  BY <1>1 DEF CacheInv, AboveFloor, AboveSweeps
<1> QED
  BY <1>2, <1>3, <1>4 DEF CacheInv

\* A step of one reader, which leaves it with figures that are fresh, if with any.
LEMMA ReaderKeeps ==
  ASSUME CacheInv, NEW r \in Reader, UNCHANGED <<data, entry, sweep, floor>>,
         DOMAIN reader' = Reader, ReaderOK(reader'[r]),
         \A p \in Reader \ {r} : reader'[p] = reader[p],
         reader'[r].phase = "set" =>
           /\ Fresh(reader'[r].value, reader'[r].key, floor[reader'[r].key])
           /\ \A i \in Invalidator : Passed(sweep[i], reader'[r].key) =>
                Fresh(reader'[r].value, reader'[r].key, sweep[i].as)
  PROVE  CacheInv'
<1>1. CacheTypeOK'
  BY DEF CacheInv, CacheTypeOK
<1>2. NoneAhead'
  BY DEF CacheInv, NoneAhead
<1>3. AboveFloor'
  BY DEF CacheInv, AboveFloor
<1>4. AboveSweeps'
  BY DEF CacheInv, AboveSweeps
<1> QED
  BY <1>1, <1>2, <1>3, <1>4 DEF CacheInv

\* A reader that finds no entry has no figures yet.
LEMMA GetKeeps ==
  ASSUME CacheInv, NEW r \in Reader, NEW k \in Key, Get(r, k) PROVE CacheInv'
<1>1. /\ reader[r] = Away /\ UNCHANGED <<data, entry, sweep, floor>>
      /\ reader' = [reader EXCEPT ![r].key = k, ![r].phase = "compute"]
      /\ DOMAIN reader = Reader
  BY DEF Get, CacheInv, CacheTypeOK
<1>2. /\ reader'[r] = [key |-> k, phase |-> "compute", value |-> NoEntry]
      /\ DOMAIN reader' = Reader
      /\ \A p \in Reader \ {r} : reader'[p] = reader[p]
  BY <1>1 DEF Away
<1>3. ReaderOK(reader'[r]) /\ reader'[r].phase = "compute"
  BY <1>2 DEF ReaderOK
<1> QED
  BY <1>1, <1>2, <1>3, ReaderKeeps

\* Figures that are computed now are as new as all there is.
LEMMA ComputeKeeps ==
  ASSUME CacheInv, NEW r \in Reader, Compute(r) PROVE CacheInv'
<1> DEFINE k == reader[r].key
<1>1. /\ reader[r].phase = "compute" /\ UNCHANGED <<data, entry, sweep, floor>>
      /\ reader' = [reader EXCEPT ![r].phase = "set", ![r].value.of = FiguresOf(k)]
      /\ DOMAIN reader = Reader /\ data \in [Branch -> Nat]
  BY DEF Compute, CacheInv, CacheTypeOK
<1>2. /\ DOMAIN reader[r] = {"key", "phase", "value"} /\ reader[r].key \in Key
      /\ reader[r].value = NoEntry
  BY <1>1 DEF CacheInv, CacheTypeOK, ReaderOK, Away
<1>3. FiguresOf(k) \in [BranchesOf(k) -> Nat] /\ \A b \in BranchesOf(k) : FiguresOf(k)[b] = data[b]
  BY <1>1, <1>2, BranchesOfKeys DEF FiguresOf
<1>4. /\ DOMAIN reader'[r] = {"key", "phase", "value"}
      /\ reader'[r].key = k /\ reader'[r].phase = "set"
      /\ reader'[r].value = [NoEntry EXCEPT !.of = FiguresOf(k)]
      /\ DOMAIN reader' = Reader
      /\ \A p \in Reader \ {r} : reader'[p] = reader[p]
  BY <1>1, <1>2
<1>5. ValueOK(reader'[r].value, k) /\ reader'[r].value.of = FiguresOf(k)
  BY <1>3, <1>4 DEF ValueOK, NoEntry
<1>6. ReaderOK(reader'[r])
  BY <1>2, <1>4, <1>5 DEF ReaderOK
<1>7. Fresh(reader'[r].value, k, floor[k])
  BY <1>1, <1>2, <1>3, <1>5, BranchesOfKeys DEF Fresh, CacheInv, NoneAhead, CacheTypeOK
<1>8. ASSUME NEW i \in Invalidator, sweep[i] # AtRest
      PROVE  Fresh(reader'[r].value, k, sweep[i].as)
  <2>1. \A b \in BranchesOf(k) : sweep[i].as[b] \in Nat /\ sweep[i].as[b] <= data[b]
    BY <1>2, <1>8, BranchesOfKeys DEF CacheInv, NoneAhead, CacheTypeOK, SweepOK
  <2> QED
    BY <1>1, <1>3, <1>5, <2>1 DEF Fresh
<1> QED
  BY <1>1, <1>4, <1>6, <1>7, <1>8, ReaderKeeps DEF Passed

\* What is stored is what the reader had.
LEMMA SetKeeps ==
  ASSUME CacheInv, NEW r \in Reader, SetJson(r) PROVE CacheInv'
<1> DEFINE k == reader[r].key
<1>1. /\ reader[r].phase = "set" /\ UNCHANGED <<data, sweep, floor>>
      /\ entry' = [entry EXCEPT ![k] = reader[r].value]
      /\ reader' = [reader EXCEPT ![r] = Away]
      /\ DOMAIN reader = Reader /\ DOMAIN entry = Key
  BY DEF SetJson, CacheInv, CacheTypeOK
<1>2. k \in Key /\ ValueOK(reader[r].value, k)
  BY <1>1 DEF CacheInv, CacheTypeOK, ReaderOK, Away
<1>3. /\ DOMAIN reader' = Reader /\ DOMAIN entry' = Key
      /\ reader'[r] = Away /\ \A p \in Reader \ {r} : reader'[p] = reader[p]
      /\ entry'[k] = reader[r].value /\ \A h \in Key \ {k} : entry'[h] = entry[h]
  BY <1>1, <1>2
<1>4. Away.phase = "get"
  BY DEF Away
<1>5. CacheTypeOK'
  BY <1>1, <1>2, <1>3 DEF CacheInv, CacheTypeOK, ReaderOK
<1>6. NoneAhead'
  BY <1>1 DEF CacheInv, NoneAhead
<1>7. AboveFloor'
  BY <1>1, <1>3, <1>4 DEF CacheInv, AboveFloor
<1>8. AboveSweeps'
  BY <1>1, <1>3, <1>4 DEF CacheInv, AboveSweeps
<1> QED
  BY <1>5, <1>6, <1>7, <1>8 DEF CacheInv

\* Entries that go.
LEMMA ExpireKeeps ==
  ASSUME CacheInv, NEW k \in Key, ExpireEntry(k) PROVE CacheInv'
<1>1. /\ UNCHANGED <<data, reader, sweep, floor>>
      /\ DOMAIN entry' = Key /\ \A h \in Key : entry'[h] \in {entry[h], NoEntry}
  BY DEF ExpireEntry, CacheInv, CacheTypeOK
<1>2. CacheTypeOK'
  BY <1>1 DEF CacheInv, CacheTypeOK
<1>3. NoneAhead' /\ AboveFloor' /\ AboveSweeps'
  BY <1>1 DEF CacheInv, NoneAhead, AboveFloor, AboveSweeps, Fresh
<1> QED
  BY <1>2, <1>3 DEF CacheInv

\* A step of one invalidation, after which what it has passed is fresh, but for what its
\* page has found.
LEMMA SweepKeeps ==
  ASSUME CacheInv, NEW i \in Invalidator, UNCHANGED <<data, entry, reader, floor>>,
         DOMAIN sweep' = Invalidator, SweepOK(sweep'[i]),
         \A j \in Invalidator \ {i} : sweep'[j] = sweep[j],
         sweep'[i] # AtRest => \A b \in Branch : sweep'[i].as[b] <= data[b],
         \A k \in Key : Passed(sweep'[i], k) /\ k \notin sweep'[i].found =>
           Fresh(entry[k], k, sweep'[i].as),
         \A r \in Reader : reader[r].phase = "set" /\ Passed(sweep'[i], reader[r].key) =>
           Fresh(reader[r].value, reader[r].key, sweep'[i].as)
  PROVE  CacheInv'
<1>1. CacheTypeOK'
  BY DEF CacheInv, CacheTypeOK
<1>2. NoneAhead'
  BY DEF CacheInv, NoneAhead
<1>3. AboveFloor'
  BY DEF CacheInv, AboveFloor
<1>4. AboveSweeps'
  BY DEF CacheInv, AboveSweeps
<1> QED
  BY <1>1, <1>2, <1>3, <1>4 DEF CacheInv

\* An invalidation is told of the newest data and has every key it is about ahead of it.
LEMMA InvalidateKeeps ==
  ASSUME CacheInv, NEW i \in Invalidator, NEW event \in Scope, InvalidateDashboard(i, event)
  PROVE  CacheInv'
<1> DEFINE p == Patterns(event)
           s == [event |-> event, as |-> data, patterns |-> Tail(p), unscanned |-> Head(p),
                 found |-> {}]
<1>1. /\ UNCHANGED <<data, entry, reader, floor>> /\ sweep' = [sweep EXCEPT ![i] = s]
      /\ DOMAIN sweep = Invalidator /\ data \in [Branch -> Nat]
  BY DEF InvalidateDashboard, CacheInv, CacheTypeOK
<1>2. /\ sweep'[i] = s /\ DOMAIN sweep' = Invalidator
      /\ \A j \in Invalidator \ {i} : sweep'[j] = sweep[j]
  BY <1>1
<1>3. CASE event = All
  <2>1. s.patterns = <<>> /\ s.unscanned = Key
    BY <1>3 DEF Patterns
  <2>2. SweepOK(s)
    BY <1>1, <2>1 DEF SweepOK
  <2>3. \A k \in Key : ~Passed(s, k)
    BY <2>1 DEF Passed, Ahead
  <2>4. \A r \in Reader : reader[r].phase = "set" => reader[r].key \in Key
    BY DEF CacheInv, CacheTypeOK, ReaderOK, Away
  <2>5. \A b \in Branch : s.as[b] <= data[b]
    BY <1>1
  <2> HIDE DEF s
  <2> QED
    BY <1>1, <1>2, <2>2, <2>3, <2>4, <2>5, SweepKeeps
<1>4. CASE event # All
  <2>1. s.patterns = <<Dash(All)>> /\ s.unscanned = Dash(event) /\ s.event = event
    BY <1>4 DEF Patterns
  <2>2. SweepOK(s)
    BY <1>1, <2>1 DEF SweepOK
  <2>3. \A k \in Key : ~Passed(s, k)
    <3> SUFFICES ASSUME NEW k \in Key, Concerns(event, k) PROVE k \in Ahead(s)
      BY <2>1 DEF Passed
    <3>1. k \in Scope \X Figures /\ k[1] \in {All, event}
      BY <1>4 DEF Concerns, BranchesOf, Key
    <3>2. k \in Dash(event) \cup Dash(All)
      BY <3>1 DEF Dash
    <3>3. s.patterns # <<>>
      BY <2>1
    <3> HIDE DEF s
    <3>4. Ahead(s) = Dash(event) \cup Dash(All)
      BY <2>1, <3>3 DEF Ahead
    <3> QED
      BY <3>2, <3>4
  <2>4. \A r \in Reader : reader[r].phase = "set" => reader[r].key \in Key
    BY DEF CacheInv, CacheTypeOK, ReaderOK, Away
  <2>5. \A b \in Branch : s.as[b] <= data[b]
    BY <1>1
  <2> HIDE DEF s
  <2> QED
    BY <1>1, <1>2, <2>2, <2>3, <2>4, <2>5, SweepKeeps
<1> QED
  BY <1>3, <1>4

\* What a page of SCAN passes is empty, or found, or about to be stored by a reader that
\* is overtaken unless its figures are new enough.
LEMMA ScanKeeps ==
  ASSUME CacheInv, NEW i \in Invalidator, NEW page \in SUBSET Key, Scan(i, page)
  PROVE  CacheInv'
<1>1. /\ UNCHANGED <<data, entry, floor>> /\ sweep[i].found = {}
      /\ page # {} /\ page \subseteq sweep[i].unscanned
      /\ sweep' = [sweep EXCEPT ![i].unscanned = @ \ page,
                                ![i].found = {k \in page : entry[k] # NoEntry}]
      /\ DOMAIN sweep = Invalidator
  BY DEF Scan, CacheInv, CacheTypeOK
<1>2. sweep[i] # AtRest
  BY <1>1 DEF AtRest
<1>3. /\ DOMAIN sweep[i] = {"event", "as", "patterns", "unscanned", "found"}
      /\ sweep[i].event \in Scope /\ sweep[i].as \in [Branch -> Nat]
      /\ sweep[i].patterns \in {<<>>, <<Dash(All)>>}
  BY <1>2 DEF CacheInv, CacheTypeOK, SweepOK
<1>4. /\ DOMAIN sweep' = Invalidator
      /\ \A j \in Invalidator \ {i} : sweep'[j] = sweep[j]
      /\ DOMAIN sweep'[i] = DOMAIN sweep[i]
      /\ sweep'[i].event = sweep[i].event /\ sweep'[i].as = sweep[i].as
      /\ sweep'[i].patterns = sweep[i].patterns
      /\ sweep'[i].unscanned = sweep[i].unscanned \ page
      /\ sweep'[i].found = {k \in page : entry[k] # NoEntry}
  BY <1>1, <1>3
<1>5. SweepOK(sweep'[i])
  BY <1>3, <1>4 DEF SweepOK
<1>6. \A k \in Key : Passed(sweep'[i], k) => Passed(sweep[i], k) \/ k \in page
  BY <1>2, <1>4 DEF Passed, Ahead
<1>7. ASSUME NEW r \in Reader
      PROVE  \/ reader'[r] = reader[r]
                /\ (reader[r].phase = "set" /\ reader[r].key \in page =>
                      \A b \in BranchesOf(reader[r].key) :
                        ~(reader[r].value.of[b] < sweep[i].as[b]))
             \/ reader[r].phase = "set"
                /\ reader'[r] = [reader[r] EXCEPT !.value.overtaken = TRUE]
  BY DEF Scan
<1>8. DOMAIN reader' = Reader
  BY DEF Scan
<1>9. ASSUME NEW r \in Reader, reader[r].phase = "set"
      PROVE  /\ reader[r].key \in Key /\ ValueOK(reader[r].value, reader[r].key)
             /\ DOMAIN reader[r] = {"key", "phase", "value"}
  BY <1>9 DEF CacheInv, CacheTypeOK, ReaderOK, Away
<1>10. ASSUME NEW r \in Reader
       PROVE  /\ reader'[r].phase = reader[r].phase /\ reader'[r].key = reader[r].key
              /\ \/ reader'[r] = reader[r]
                 \/ reader'[r].phase = "set" /\ reader'[r].value.overtaken
              /\ ReaderOK(reader'[r])
  <2>1. CASE reader'[r] = reader[r]
    BY <2>1 DEF CacheInv, CacheTypeOK
  <2>2. CASE /\ reader[r].phase = "set"
             /\ reader'[r] = [reader[r] EXCEPT !.value.overtaken = TRUE]
    <3>1. /\ DOMAIN reader'[r] = {"key", "phase", "value"}
          /\ reader'[r].phase = "set" /\ reader'[r].key = reader[r].key
          /\ reader'[r].value = [reader[r].value EXCEPT !.overtaken = TRUE]
      BY <2>2, <1>9
    <3>2. ValueOK(reader'[r].value, reader[r].key) /\ reader'[r].value.overtaken = TRUE
      BY <3>1, <2>2, <1>9 DEF ValueOK
    <3> QED
      BY <3>1, <3>2, <2>2, <1>9 DEF ReaderOK
  <2> QED
    BY <2>1, <2>2, <1>7
<1>11. CacheTypeOK'
  BY <1>1, <1>4, <1>5, <1>8, <1>10 DEF CacheInv, CacheTypeOK
<1>12. NoneAhead'
  BY <1>1, <1>2, <1>4 DEF CacheInv, NoneAhead
<1>13. \A bound : \A r \in Reader : Fresh(reader[r].value, reader[r].key, bound) =>
         Fresh(reader'[r].value, reader'[r].key, bound)
  BY <1>10 DEF Fresh
<1>14. AboveFloor'
  BY <1>1, <1>10, <1>13 DEF CacheInv, AboveFloor
<1>15. ASSUME NEW k \in Key, Passed(sweep'[i], k), k \notin sweep'[i].found
       PROVE  Fresh(entry[k], k, sweep'[i].as)
  <2>1. CASE Passed(sweep[i], k)
    BY <2>1, <1>1, <1>4 DEF CacheInv, AboveSweeps
  <2>2. CASE k \in page
    BY <2>2, <1>4, <1>15 DEF Fresh
  <2> QED
    BY <2>1, <2>2, <1>6, <1>15
<1>16. ASSUME NEW r \in Reader, reader'[r].phase = "set", Passed(sweep'[i], reader'[r].key)
       PROVE  Fresh(reader'[r].value, reader'[r].key, sweep'[i].as)
  <2>1. reader[r].phase = "set" /\ reader'[r].key = reader[r].key /\ reader[r].key \in Key
    BY <1>9, <1>10, <1>16
  <2>2. CASE Passed(sweep[i], reader[r].key)
    <3>1. Fresh(reader[r].value, reader[r].key, sweep[i].as)
      BY <2>1, <2>2 DEF CacheInv, AboveSweeps
    <3> QED
      BY <3>1, <1>4, <1>13
  <2>3. CASE reader[r].key \in page
    <3>1. CASE reader'[r].value.overtaken
      BY <3>1 DEF Fresh
    <3>2. CASE reader'[r] = reader[r] /\ ~reader'[r].value.overtaken
      <4>1. reader[r].value.of \in [BranchesOf(reader[r].key) -> Nat]
        BY <2>1, <1>9 DEF ValueOK
      <4>2. \A b \in BranchesOf(reader[r].key) :
              ~(reader[r].value.of[b] < sweep[i].as[b])
        <5>1. reader'[r] # [reader[r] EXCEPT !.value.overtaken = TRUE]
          <6>1. [reader[r] EXCEPT !.value.overtaken = TRUE].value.overtaken = TRUE
            BY <2>1, <1>9 DEF ValueOK
          <6> QED
            BY <6>1, <3>2
        <5> QED
          BY <5>1, <2>1, <2>3, <1>7
      <4>3. \A b \in BranchesOf(reader[r].key) :
              reader[r].value.of[b] \in Nat /\ sweep[i].as[b] \in Nat
        BY <4>1, <1>3, <2>1, BranchesOfKeys
      <4>4. \A b \in BranchesOf(reader[r].key) : reader[r].value.of[b] >= sweep[i].as[b]
        BY <4>2, <4>3
      <4> QED
        BY <4>4, <3>2, <1>4, <2>1 DEF Fresh
    <3> QED
      BY <3>1, <3>2, <1>10
  <2> QED
    BY <2>1, <2>2, <2>3, <1>6, <1>16
<1>17. AboveSweeps'
  BY <1>1, <1>4, <1>10, <1>13, <1>15, <1>16 DEF CacheInv, AboveSweeps
<1> QED
  BY <1>11, <1>12, <1>14, <1>17 DEF CacheInv

\* DEL leaves none of what its page found.
LEMMA DelKeeps ==
  ASSUME CacheInv, NEW i \in Invalidator, DelPage(i) PROVE CacheInv'
<1>1. /\ UNCHANGED <<data, reader, floor>> /\ sweep[i].found # {}
      /\ entry' = [k \in Key |-> IF k \in sweep[i].found THEN NoEntry ELSE entry[k]]
      /\ sweep' = [sweep EXCEPT ![i].found = {}]
      /\ DOMAIN sweep = Invalidator
  BY DEF DelPage, CacheInv, CacheTypeOK
<1>2. sweep[i] # AtRest
  BY <1>1 DEF AtRest
<1>3. /\ DOMAIN sweep[i] = {"event", "as", "patterns", "unscanned", "found"}
      /\ sweep[i].event \in Scope /\ sweep[i].as \in [Branch -> Nat]
      /\ sweep[i].patterns \in {<<>>, <<Dash(All)>>}
  BY <1>2 DEF CacheInv, CacheTypeOK, SweepOK
<1>4. /\ DOMAIN sweep' = Invalidator
      /\ \A j \in Invalidator \ {i} : sweep'[j] = sweep[j]
      /\ DOMAIN sweep'[i] = DOMAIN sweep[i]
      /\ sweep'[i].event = sweep[i].event /\ sweep'[i].as = sweep[i].as
      /\ sweep'[i].patterns = sweep[i].patterns
      /\ sweep'[i].unscanned = sweep[i].unscanned /\ sweep'[i].found = {}
  BY <1>1, <1>3
<1>5. SweepOK(sweep'[i])
  BY <1>3, <1>4 DEF SweepOK
<1>6. \A k \in Key : Passed(sweep'[i], k) => Passed(sweep[i], k)
  BY <1>2, <1>4 DEF Passed, Ahead
<1>7. /\ DOMAIN entry' = Key
      /\ \A k \in Key : /\ entry'[k] \in {entry[k], NoEntry}
                        /\ k \in sweep[i].found => entry'[k] = NoEntry
  BY <1>1
<1>8. CacheTypeOK'
  BY <1>1, <1>4, <1>5, <1>7 DEF CacheInv, CacheTypeOK
<1>9. NoneAhead'
  BY <1>1, <1>2, <1>4 DEF CacheInv, NoneAhead
<1>10. \A bound : \A k \in Key : Fresh(entry[k], k, bound) => Fresh(entry'[k], k, bound)
  BY <1>7 DEF Fresh
<1>11. AboveFloor'
  BY <1>1, <1>10 DEF CacheInv, AboveFloor
<1>12. \A k \in Key : Passed(sweep'[i], k) => Fresh(entry'[k], k, sweep'[i].as)
  <2> SUFFICES ASSUME NEW k \in Key, Passed(sweep'[i], k)
               PROVE  Fresh(entry'[k], k, sweep'[i].as)
    OBVIOUS
  <2>1. CASE k \in sweep[i].found
    BY <2>1, <1>7 DEF Fresh
  <2>2. CASE k \notin sweep[i].found
    BY <2>2, <1>4, <1>6, <1>10 DEF CacheInv, AboveSweeps
  <2> QED
    BY <2>1, <2>2
<1>13. \A r \in Reader : reader[r].phase = "set" => reader[r].key \in Key
  BY DEF CacheInv, CacheTypeOK, ReaderOK, Away
<1>14. AboveSweeps'
  BY <1>1, <1>4, <1>6, <1>10, <1>12, <1>13 DEF CacheInv, AboveSweeps
<1> QED
  BY <1>8, <1>9, <1>11, <1>14 DEF CacheInv

\* The entries of all branches were ahead all along.
LEMMA NextPatternKeeps ==
  ASSUME CacheInv, NEW i \in Invalidator, NextPattern(i) PROVE CacheInv'
<1>1. /\ UNCHANGED <<data, entry, reader, floor>>
      /\ sweep[i] # AtRest /\ sweep[i].unscanned = {} /\ sweep[i].found = {}
      /\ sweep[i].patterns # <<>>
      /\ sweep' = [sweep EXCEPT ![i].patterns = Tail(sweep[i].patterns),
                                ![i].unscanned = Head(sweep[i].patterns)]
      /\ DOMAIN sweep = Invalidator
  BY DEF NextPattern, Scanned, CacheInv, CacheTypeOK
<1>2. /\ DOMAIN sweep[i] = {"event", "as", "patterns", "unscanned", "found"}
      /\ sweep[i].event \in Scope /\ sweep[i].as \in [Branch -> Nat]
      /\ sweep[i].patterns = <<Dash(All)>>
  BY <1>1 DEF CacheInv, CacheTypeOK, SweepOK
<1>3. Tail(sweep[i].patterns) = <<>> /\ Head(sweep[i].patterns) = Dash(All)
  BY <1>2
<1>4. /\ DOMAIN sweep' = Invalidator
      /\ \A j \in Invalidator \ {i} : sweep'[j] = sweep[j]
      /\ DOMAIN sweep'[i] = DOMAIN sweep[i]
      /\ sweep'[i].event = sweep[i].event /\ sweep'[i].as = sweep[i].as
      /\ sweep'[i].patterns = <<>>
      /\ sweep'[i].unscanned = Dash(All) /\ sweep'[i].found = {}
  BY <1>1, <1>2, <1>3
<1>5. SweepOK(sweep'[i])
  BY <1>2, <1>4 DEF SweepOK
<1>6. \A k : Passed(sweep'[i], k) => Passed(sweep[i], k)
  BY <1>1, <1>2, <1>4 DEF Passed, Ahead
<1>7. \A b \in Branch : sweep'[i].as[b] <= data[b]
  BY <1>1, <1>4 DEF CacheInv, NoneAhead
<1>8. \A k \in Key : Passed(sweep'[i], k) => Fresh(entry[k], k, sweep'[i].as)
  BY <1>1, <1>4, <1>6 DEF CacheInv, AboveSweeps
<1>9. \A r \in Reader : reader[r].phase = "set" /\ Passed(sweep'[i], reader[r].key) =>
        Fresh(reader[r].value, reader[r].key, sweep'[i].as)
  BY <1>4, <1>6 DEF CacheInv, AboveSweeps
<1> QED
  BY <1>1, <1>4, <1>5, <1>7, <1>8, <1>9, SweepKeeps

\* An invalidation that is given up promises nothing.
LEMMA GiveUpKeeps ==
  ASSUME CacheInv, NEW i \in Invalidator, GiveUp(i) PROVE CacheInv'
<1>1. /\ UNCHANGED <<data, entry, reader, floor>>
      /\ DOMAIN sweep' = Invalidator /\ sweep'[i] = AtRest
      /\ \A j \in Invalidator \ {i} : sweep'[j] = sweep[j]
  BY DEF GiveUp, CacheInv, CacheTypeOK
<1>2. SweepOK(sweep'[i]) /\ \A k : ~Passed(sweep'[i], k)
  BY <1>1 DEF SweepOK, Passed
<1> QED
  BY <1>1, <1>2, SweepKeeps

\* When an invalidation is done it has passed every key it is about.
LEMMA InvalidatedKeeps ==
  ASSUME CacheInv, NEW i \in Invalidator, Invalidated(i) PROVE CacheInv'
<1>1. /\ UNCHANGED <<data, entry, reader>>
      /\ sweep[i] # AtRest /\ sweep[i].unscanned = {} /\ sweep[i].found = {}
      /\ sweep[i].patterns = <<>>
      /\ sweep' = [sweep EXCEPT ![i] = AtRest] /\ DOMAIN sweep = Invalidator
      /\ data \in [Branch -> Nat] /\ floor \in [Key -> [Branch -> Nat]]
  BY DEF Invalidated, Scanned, CacheInv, CacheTypeOK
<1>2. sweep[i].as \in [Branch -> Nat] /\ \A b \in Branch : sweep[i].as[b] <= data[b]
  BY <1>1 DEF CacheInv, CacheTypeOK, SweepOK, NoneAhead
<1>3. /\ DOMAIN sweep' = Invalidator /\ sweep'[i] = AtRest
      /\ \A j \in Invalidator \ {i} : sweep'[j] = sweep[j]
  BY <1>1
<1>4. floor' \in [Key -> [Branch -> Nat]]
  BY <1>1, <1>2 DEF Invalidated
<1>5. ASSUME NEW k \in Key, NEW b \in Branch
      PROVE  \/ floor'[k][b] = floor[k][b]
             \/ Concerns(sweep[i].event, k) /\ floor'[k][b] = sweep[i].as[b]
  BY DEF Invalidated, Concerns
<1>6. CacheTypeOK'
  BY <1>1, <1>3, <1>4 DEF CacheInv, CacheTypeOK, SweepOK
<1>7. NoneAhead'
  <2>1. \A k \in Key, b \in Branch : floor'[k][b] <= data[b]
    BY <1>2, <1>5 DEF CacheInv, NoneAhead
  <2>2. \A j \in Invalidator : sweep'[j] # AtRest => \A b \in Branch : sweep'[j].as[b] <= data[b]
    BY <1>3 DEF CacheInv, NoneAhead
  <2> QED
    BY <2>1, <2>2, <1>1 DEF NoneAhead
<1>8. \A k : Concerns(sweep[i].event, k) => Passed(sweep[i], k)
  BY <1>1 DEF Passed, Ahead
<1>9. ASSUME NEW v, NEW k \in Key, Fresh(v, k, floor[k]),
             Concerns(sweep[i].event, k) => Fresh(v, k, sweep[i].as)
      PROVE  Fresh(v, k, floor'[k])
  BY <1>5, <1>9, BranchesOfKeys DEF Fresh
<1>10. AboveFloor'
  <2>1. \A k \in Key : Fresh(entry[k], k, floor'[k])
    BY <1>1, <1>8, <1>9 DEF CacheInv, AboveFloor, AboveSweeps
  <2>2. ASSUME NEW r \in Reader, reader[r].phase = "set"
        PROVE  Fresh(reader[r].value, reader[r].key, floor'[reader[r].key])
    <3>1. reader[r].key \in Key
      BY <2>2 DEF CacheInv, CacheTypeOK, ReaderOK, Away
    <3>2. Fresh(reader[r].value, reader[r].key, floor[reader[r].key])
      BY <2>2 DEF CacheInv, AboveFloor
    <3>3. Concerns(sweep[i].event, reader[r].key) =>
            Fresh(reader[r].value, reader[r].key, sweep[i].as)
      BY <2>2, <1>8 DEF CacheInv, AboveSweeps
    <3> QED
      BY <3>1, <3>2, <3>3, <1>9
  <2> QED
    BY <2>1, <2>2, <1>1 DEF AboveFloor
<1>11. \A k : ~Passed(AtRest, k)
  BY DEF Passed
<1>12. AboveSweeps'
  BY <1>1, <1>3, <1>11 DEF CacheInv, AboveSweeps
<1> QED
  BY <1>6, <1>7, <1>10, <1>12 DEF CacheInv

\* Every step keeps CacheInv.
LEMMA CacheStep == ASSUME CacheInv, [CacheNext]_cacheVars PROVE CacheInv'
<1>1. CASE \E b \in Branch : Change(b)
  BY <1>1, ChangeKeeps
<1>2. CASE \E r \in Reader : Compute(r) \/ SetJson(r) \/ \E k \in Key : Get(r, k)
  BY <1>2, ComputeKeeps, SetKeeps, GetKeeps
<1>3. CASE \E k \in Key : ExpireEntry(k)
  BY <1>3, ExpireKeeps
<1>4. CASE \E i \in Invalidator, event \in Scope : InvalidateDashboard(i, event)
  BY <1>4, InvalidateKeeps
<1>5. CASE \E i \in Invalidator, page \in SUBSET Key : Scan(i, page)
  BY <1>5, ScanKeeps
<1>6. CASE \E i \in Invalidator : DelPage(i) \/ NextPattern(i) \/ Invalidated(i) \/ GiveUp(i)
  BY <1>6, DelKeeps, NextPatternKeeps, InvalidatedKeeps, GiveUpKeeps
<1>7. CASE UNCHANGED cacheVars
  BY <1>7 DEF cacheVars, CacheInv, CacheTypeOK, NoneAhead, AboveFloor, AboveSweeps
<1> QED
  BY <1>1, <1>2, <1>3, <1>4, <1>5, <1>6, <1>7 DEF CacheNext

\* The dashboard's cache: whatever the order of readers, changes, expiries and overlapping
\* invalidations, an entry older than what an invalidation cleared its key for was stored by
\* a reader that the invalidation overtook.
THEOREM StaleEntriesOvertaken == CacheSpec => []StaleOnlyIfOvertaken
BY CacheStart, CacheStep, FreshSuffices, PTL DEF CacheSpec
=============================================================================
