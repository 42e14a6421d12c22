------------------------------ MODULE DashCache ------------------------------
(***************************************************************************)
(* The dashboard's figures in redis-cache.service: a reader that finds no  *)
(* entry computes the figures and stores them for a while; the outbox      *)
(* dispatcher invalidates by pattern, first the entries of the branch and  *)
(* then those of all branches, page by page: SCAN, and DEL of what the     *)
(* page found. Neither waits for the other, so a reader may store figures  *)
(* that were computed before an invalidation that is already past its key. *)
(*                                                                         *)
(* The figures are the versions of the branches' data they were computed   *)
(* from.                                                                   *)
(***************************************************************************)
EXTENDS Naturals, Sequences

CONSTANTS Branch,
          Figures,      \* what is shown: summary, revenue-overview, ...
          Reader,
          Invalidator,  \* drains that may be at it at once
          MaxWrites     \* bound: changes of a branch's data

All   == "all"
Scope == Branch \cup {All}
Key   == Scope \X Figures

ASSUME DashCacheAssumption == All \notin Branch /\ MaxWrites \in Nat

VARIABLES data,      \* version of each branch's data
          owed,      \* events that invalidate, not dispatched yet: their branch, or All
          entry,     \* the cached figures
          reader,
          sweep,     \* what is left of an invalidation
          floor      \* per key, the data the last invalidation of it was told of

cacheVars == <<data, owed, entry, reader, sweep, floor>>

NoKey   == <<"none", "none">>
NoEntry == [of |-> <<>>, overtaken |-> FALSE]
Away    == [key |-> NoKey, phase |-> "get", value |-> NoEntry]
AtRest  == [event |-> "none", as |-> <<>>, patterns |-> <<>>, unscanned |-> {}, found |-> {}]

BranchesOf(key) == IF key[1] = All THEN Branch ELSE {key[1]}
FiguresOf(key)  == [b \in BranchesOf(key) |-> data[b]]

CacheInit ==
  /\ data = [b \in Branch |-> 0]
  /\ owed = {}
  /\ entry = [k \in Key |-> NoEntry]
  /\ reader = [r \in Reader |-> Away]
  /\ sweep = [i \in Invalidator |-> AtRest]
  /\ floor = [k \in Key |-> [b \in Branch |-> 0]]

\* Only some changes emit one of DASHBOARD_INVALIDATING_EVENTS, and not every
\* event names its branch.
Change(b) ==
  /\ data[b] < MaxWrites
  /\ data' = [data EXCEPT ![b] = @ + 1]
  /\ \E events \in {{}, {b}, {All}} : owed' = owed \cup events
  /\ UNCHANGED <<entry, reader, sweep, floor>>

-----------------------------------------------------------------------------
Get(r, key) ==
  /\ reader[r] = Away
  /\ entry[key] = NoEntry
  /\ reader' = [reader EXCEPT ![r].key = key, ![r].phase = "compute"]
  /\ UNCHANGED <<data, owed, entry, sweep, floor>>

Compute(r) ==
  /\ reader[r].phase = "compute"
  /\ reader' = [reader EXCEPT ![r].phase = "set", ![r].value.of = FiguresOf(reader[r].key)]
  /\ UNCHANGED <<data, owed, entry, sweep, floor>>

SetJson(r) ==
  /\ reader[r].phase = "set"
  /\ entry' = [entry EXCEPT ![reader[r].key] = reader[r].value]
  /\ reader' = [reader EXCEPT ![r] = Away]
  /\ UNCHANGED <<data, owed, sweep, floor>>

ExpireEntry(key) ==
  /\ entry[key] # NoEntry
  /\ entry' = [entry EXCEPT ![key] = NoEntry]
  /\ UNCHANGED <<data, owed, reader, sweep, floor>>

-----------------------------------------------------------------------------
Dash(s) == {s} \X Figures

\* Mutant: the entries of all branches are left alone.
BranchPattern(event) == IF event = All THEN <<Key>> ELSE <<Dash(event)>>

Patterns(event) == IF event = All THEN <<Key>> ELSE <<Dash(event), Dash(All)>>

InvalidateDashboard(i, event) ==
  /\ sweep[i] = AtRest
  /\ event \in owed
  /\ owed' = owed \ {event}
  /\ LET p == Patterns(event)
     IN sweep' = [sweep EXCEPT ![i] = [event |-> event, as |-> data,
                                       patterns |-> Tail(p), unscanned |-> Head(p),
                                       found |-> {}]]
  /\ UNCHANGED <<data, entry, reader, floor>>

\* A page of SCAN: what it passes and what it finds.
Scan(i, page) ==
  /\ sweep[i].found = {}
  /\ page # {} /\ page \subseteq sweep[i].unscanned
  /\ sweep' = [sweep EXCEPT ![i].unscanned = @ \ page,
                            ![i].found = {k \in page : entry[k] # NoEntry}]
  /\ reader' = [r \in Reader |->
                  IF /\ reader[r].phase = "set" /\ reader[r].key \in page
                     /\ \E b \in BranchesOf(reader[r].key) :
                          reader[r].value.of[b] < sweep[i].as[b]
                  THEN [reader[r] EXCEPT !.value.overtaken = TRUE] ELSE reader[r]]
  /\ UNCHANGED <<data, owed, entry, floor>>

DelPage(i) ==
  /\ sweep[i].found # {}
  /\ entry' = [k \in Key |-> IF k \in sweep[i].found THEN NoEntry ELSE entry[k]]
  /\ sweep' = [sweep EXCEPT ![i].found = {}]
  /\ UNCHANGED <<data, owed, reader, floor>>

Scanned(i) == sweep[i] # AtRest /\ sweep[i].unscanned = {} /\ sweep[i].found = {}

NextPattern(i) ==
  /\ Scanned(i) /\ sweep[i].patterns # <<>>
  /\ LET rest == sweep[i].patterns
     IN sweep' = [sweep EXCEPT ![i].patterns = Tail(rest), ![i].unscanned = Head(rest)]
  /\ UNCHANGED <<data, owed, entry, reader, floor>>

\* The figures the event is about are now no older than when it was taken up.
Invalidated(i) ==
  /\ Scanned(i) /\ sweep[i].patterns = <<>>
  /\ floor' = [k \in Key |->
                 IF sweep[i].event \in BranchesOf(k) \cup {All}
                 THEN [b \in Branch |-> IF sweep[i].as[b] > floor[k][b]
                                        THEN sweep[i].as[b] ELSE floor[k][b]]
                 ELSE floor[k]]
  /\ sweep' = [sweep EXCEPT ![i] = AtRest]
  /\ UNCHANGED <<data, owed, entry, reader>>

\* Redis fails: the dispatcher gives the event up.
GiveUp(i) ==
  /\ sweep[i] # AtRest
  /\ sweep' = [sweep EXCEPT ![i] = AtRest]
  /\ UNCHANGED <<data, owed, entry, reader, floor>>

CacheNext ==
  \/ \E b \in Branch : Change(b)
  \/ \E r \in Reader : Compute(r) \/ SetJson(r) \/ \E k \in Key : Get(r, k)
  \/ \E k \in Key : ExpireEntry(k)
  \/ \E i \in Invalidator :
       \/ \E event \in Scope : InvalidateDashboard(i, event)
       \/ \E page \in SUBSET Key : Scan(i, page)
       \/ DelPage(i) \/ NextPattern(i) \/ Invalidated(i) \/ GiveUp(i)

CacheSpec == CacheInit /\ [][CacheNext]_cacheVars

-----------------------------------------------------------------------------
Stale(k) == \E b \in DOMAIN entry[k].of : entry[k].of[b] < floor[k][b]

\* An entry that is older than what an invalidation already cleared its key for
\* was stored by a reader which that invalidation overtook between its reading
\* of the data and its writing of the entry; in no other order of readers,
\* changes, expiries and overlapping invalidations does one come about.
StaleOnlyIfOvertaken ==
  \A k \in Key : entry[k] # NoEntry /\ Stale(k) => entry[k].overtaken
=============================================================================
