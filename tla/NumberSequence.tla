---------------------------- MODULE NumberSequence ----------------------------
(***************************************************************************)
(* The document numbers of an organisation: JT-2026-0001 and so on. One    *)
(* row of system_settings holds, for every series, the year and the number *)
(* to try next. nextInTx runs under an advisory lock that lasts as long as *)
(* the transaction that inserts the numbered row, so the two are one step. *)
(* The seed rewrites the same row without that lock: it reads the row,     *)
(* then the numbers of its own series, and writes.                         *)
(***************************************************************************)
EXTENDS Naturals, FiniteSets

CONSTANTS Series,      \* the series: JT, WO, INV, TZ, ...
          Checked,     \* those whose table isTaken looks into
          Aligned,     \* those the seed aligns with their tables
          MaxAttempts, \* how many numbers nextInTx tries, 50 in the code
          MaxNumber,   \* bound: the highest number of a year
          MaxYear      \* bound: the last year

ASSUME SeriesAssumption ==
  /\ Checked \subseteq Series /\ Aligned \subseteq Series
  /\ MaxAttempts \in Nat \ {0} /\ MaxNumber \in Nat /\ MaxYear \in Nat

VARIABLES year,       \* the year on the clock
          sequences,  \* system_settings.number_sequences
          numbers,    \* the numbers in each series' table, with their year
          aligning,   \* the seed's copy of sequences, while it is at work
          outrun      \* numbers given while a seed was at work, in all

numberVars == <<year, sequences, numbers, aligning, outrun>>

Entry == [year: Nat, next: Nat \ {0}]

\* The seed at work: the year it read, the entries it is going to write, and
\* whether it has looked up the numbers of its series.
Seeding == [year: Nat, entries: [Series -> Entry], looked: BOOLEAN]
NoSeed  == [year |-> 0, entries |-> [k \in Series |-> [year |-> 0, next |-> 1]], looked |-> FALSE]
AtWork  == aligning # NoSeed

NumbersInit ==
  /\ year = 1
  /\ sequences = [k \in Series |-> [year |-> 1, next |-> 1]]
  /\ numbers = [k \in Series |-> {}]
  /\ aligning = NoSeed
  /\ outrun = [k \in Series |-> 0]

\* The first number nextInTx tries in year y: an entry of another year starts anew.
Next1(entry, y) == IF entry.year = y THEN entry.next ELSE 1

\* nextInTx gives n: the first of its tries that the table has not. A series that
\* isTaken does not know gets its first try.
Gives(k, n) ==
  LET first == Next1(sequences[k], year)
  IN  /\ n >= first /\ n < first + MaxAttempts
      /\ \A m \in first..(n - 1) : k \in Checked /\ <<year, m>> \in numbers[k]

\* A transaction inserts a row with the number nextInTx gives it. Where that is
\* taken (after MaxAttempts tries, or never checked) the unique index refuses the
\* row and the transaction takes the new entry back: nothing has happened.
CreateNumbered(k) ==
  \E n \in 1..MaxNumber :
    /\ Gives(k, n)
    /\ <<year, n>> \notin numbers[k]
    /\ sequences' = [sequences EXCEPT ![k] = [year |-> year, next |-> n + 1]]
    /\ numbers' = [numbers EXCEPT ![k] = @ \cup {<<year, n>>}]
    /\ outrun' = [outrun EXCEPT ![k] = IF AtWork THEN @ + 1 ELSE @]
    /\ UNCHANGED <<year, aligning>>

NewYear ==
  /\ year < MaxYear
  /\ year' = year + 1
  /\ UNCHANGED <<sequences, numbers, aligning, outrun>>

\* seed.ts, "Align JT/Q/etc. next counters with existing documents": the row is
\* read, then the numbers of this year, then the row is written as a whole.
ReadSequences ==
  /\ ~AtWork
  /\ aligning' = [year |-> year, entries |-> sequences, looked |-> FALSE]
  /\ UNCHANGED <<year, sequences, numbers, outrun>>

\* n is the highest number of year y in the table of k.
Highest(k, y, n) ==
  /\ <<y, n>> \in numbers[k]
  /\ \A row \in numbers[k] : row[1] = y => row[2] <= n

\* A mutant of LookUpNumbers: the counter is set to the highest number itself.
LookUpNumbersShort ==
  /\ AtWork /\ ~aligning.looked
  /\ \E found \in [Aligned -> 0..MaxNumber] :
       /\ \A k \in Aligned :
            \/ Highest(k, aligning.year, found[k])
            \/ found[k] = 0 /\ \A row \in numbers[k] : row[1] # aligning.year
       /\ aligning' = [aligning EXCEPT !.looked = TRUE,
            !.entries = [k \in Series |->
               IF k \in Aligned /\ found[k] > 0
               THEN [year |-> aligning.year, next |-> found[k]] ELSE @[k]]]
  /\ UNCHANGED <<year, sequences, numbers, outrun>>

LookUpNumbers ==
  /\ AtWork /\ ~aligning.looked
  /\ \E found \in [Aligned -> 0..MaxNumber] :
       /\ \A k \in Aligned :
            \/ Highest(k, aligning.year, found[k])
            \/ found[k] = 0 /\ \A row \in numbers[k] : row[1] # aligning.year
       /\ aligning' = [aligning EXCEPT !.looked = TRUE,
            !.entries = [k \in Series |->
               IF k \in Aligned /\ found[k] > 0
               THEN [year |-> aligning.year, next |-> found[k] + 1] ELSE @[k]]]
  /\ UNCHANGED <<year, sequences, numbers, outrun>>

WriteSequences ==
  /\ AtWork /\ aligning.looked
  /\ sequences' = aligning.entries
  /\ aligning' = NoSeed
  /\ UNCHANGED <<year, numbers, outrun>>

\* The seed dies before it writes.
AbandonSeed ==
  /\ AtWork
  /\ aligning' = NoSeed
  /\ UNCHANGED <<year, sequences, numbers, outrun>>

NumbersNext ==
  \/ \E k \in Series : CreateNumbered(k)
  \/ NewYear \/ ReadSequences \/ LookUpNumbers \/ WriteSequences \/ AbandonSeed

NumbersSpec == NumbersInit /\ [][NumbersNext]_numberVars

-----------------------------------------------------------------------------
NumbersTypeOK ==
  /\ year \in Nat \ {0}
  /\ sequences \in [Series -> Entry]
  /\ numbers \in [Series -> SUBSET ((Nat \ {0}) \X (Nat \ {0}))]
  /\ aligning \in Seeding
  /\ outrun \in [Series -> Nat]

\* A counter falls behind its table only by the numbers given while a seed was
\* rewriting the settings. So a series whose table is never looked into still gets
\* a free number unless a seed ran at the same time, and one that is checked finds
\* a free number as long as such a seed was outrun by fewer than MaxAttempts.
BehindOnlyBySeed ==
  \A k \in Series : \A row \in numbers[k] :
    row[1] = year => row[2] < Next1(sequences[k], year) + outrun[k]
=============================================================================
