------------------------------- MODULE Stock --------------------------------
(***************************************************************************)
(* The stock tables of the inventory schema and the two routines of        *)
(* StockService every caller goes through: applyMutation, which changes a  *)
(* balance under a row lock and writes its ledger row, and refreshAlert,   *)
(* which opens, relabels or closes the low-stock alert of that balance.    *)
(*                                                                         *)
(* A balance is locked FOR UPDATE from the first read to the commit, so    *)
(* the transaction that calls applyMutation is one step for that balance.  *)
(* Modules that model a caller EXTEND this one.                            *)
(***************************************************************************)
EXTENDS Integers, FiniteSets

CONSTANTS Warehouse,  \* warehouses of the organisation
          Part,       \* parts of the catalogue
          MinStock,   \* parts.min_stock, a function on Part
          AlertRow,   \* rows a balance can have in stock_alerts
          MaxOnHand   \* bound: no balance is raised above it

ASSUME StockAssumption ==
  /\ Warehouse # {} /\ Part # {}
  /\ MinStock \in [Part -> Nat]
  /\ AlertRow \subseteq Nat /\ IsFiniteSet(AlertRow)
  /\ MaxOnHand \in Nat

VARIABLES onHand,    \* stock_balances.on_hand
          reserved,  \* stock_balances.reserved
          stocked,   \* the (warehouse, part) pairs that have a balance row
          ledger,    \* the sum of inventory_transactions.qty per pair
          alert,     \* per pair, the level of each open alert row
          lowStock   \* pairs with an unpublished inventory.low_stock event

stockVars == <<onHand, reserved, stocked, ledger, alert, lowStock>>

Key == Warehouse \X Part

AlertState == {"closed", "low", "out"}

StockTypeOK ==
  /\ onHand   \in [Key -> Int]
  /\ reserved \in [Key -> Int]
  /\ stocked  \in SUBSET Key
  /\ ledger   \in [Key -> Int]
  /\ alert    \in [Key -> [AlertRow -> AlertState]]
  /\ lowStock \in SUBSET Key

StockInit ==
  /\ onHand   = [k \in Key |-> 0]
  /\ reserved = [k \in Key |-> 0]
  /\ stocked  = {}
  /\ ledger   = [k \in Key |-> 0]
  /\ alert    = [k \in Key |-> [a \in AlertRow |-> "closed"]]
  /\ lowStock = {}

\* A part is created together with its balance in the branch's default
\* warehouse; the other routines look the part up first.
Known(p) == \E w \in Warehouse : <<w, p>> \in stocked

-----------------------------------------------------------------------------
\* What assertConsistent accepts. Where a caller also passes requireAvailable
\* it asks for the amount it takes, which is this same condition.
Consistent(on, res) == 0 <= on /\ 0 <= res /\ res <= on

\* The signed quantity of the ledger row for a movement of delta.
LedgerQty(type, delta) ==
  IF type \in {"consume", "issue"} /\ delta > 0 THEN -delta ELSE delta

\* Mutant: the balance is changed without assertConsistent.
ApplyMutationUnchecked(k, dOnHand, dReserved, type) ==
  /\ onHand'   = [onHand EXCEPT ![k] = @ + dOnHand]
  /\ reserved' = [reserved EXCEPT ![k] = @ + dReserved]
  /\ ledger'   = [ledger EXCEPT ![k] = @ + LedgerQty(type, dOnHand)]
  /\ stocked'  = stocked \cup {k}

\* applyMutation on pair k. A movement that leaves the shelf alone (a hold or
\* its release) writes no ledger row.
ApplyMutation(k, dOnHand, dReserved, type) ==
  /\ Consistent(onHand[k] + dOnHand, reserved[k] + dReserved)
  /\ onHand'   = [onHand EXCEPT ![k] = @ + dOnHand]
  /\ reserved' = [reserved EXCEPT ![k] = @ + dReserved]
  /\ ledger'   = [ledger EXCEPT ![k] = @ + LedgerQty(type, dOnHand)]
  /\ stocked'  = stocked \cup {k}

-----------------------------------------------------------------------------
AlertLevel(on, res, min) ==
  CASE on - res <= 0                      -> "out"
    [] on - res > 0 /\ on - res < min     -> "low"
    [] on - res > 0 /\ ~(on - res < min)  -> "none"

OpenRows(rows) == {a \in AlertRow : rows[a] # "closed"}

NoRow == -1
NoLook == [row |-> -2, level |-> "none"]

\* What refreshAlert's findFirst can return: it has no order, so any open row
\* may be the one found.
Findable(rows) ==
  IF OpenRows(rows) = {} THEN {[row |-> NoRow, level |-> "closed"]}
  ELSE {[row |-> a, level |-> rows[a]] : a \in OpenRows(rows)}

\* Mutant: an alert is never closed.
UpdatedNeverCloses(row, seen, level) ==
  IF row = "closed" \/ level = "none" THEN row
  ELSE IF seen # level THEN level ELSE row

\* The row after an update by id: closing a row closed meanwhile, or setting
\* its level, leaves it closed; the level is written only if it differs from
\* the one read.
Updated(row, seen, level) ==
  IF row = "closed" \/ level = "none" THEN "closed"
  ELSE IF seen # level THEN level ELSE row

\* The row a create takes: the first that is closed and not in use. (A closed
\* row is never read again, so the model reuses it.)
FreshRow(rows, inUse) ==
  {a \in AlertRow \ (OpenRows(rows) \cup inUse) :
     \A b \in AlertRow \ (OpenRows(rows) \cup inUse) : a <= b}

\* The alert rows refreshAlert can leave for a pair after its findFirst
\* returned found: relabel or close that row, or create one.
Refreshed(rows, found, level, inUse) ==
  IF found.row # NoRow
    THEN {[rows EXCEPT ![found.row] = Updated(@, found.level, level)]}
    ELSE IF level = "none"
      THEN {rows}
      ELSE {[rows EXCEPT ![a] = level] : a \in FreshRow(rows, inUse)}

\* Mutant: an alert is created without looking for an open one.
NextRowsAlwaysCreate(rows, seen, level, inUse) ==
  Refreshed(rows, [row |-> NoRow, level |-> "closed"], level, inUse)

\* The rows a movement can leave: seen is what it found before, or NoLook when
\* nothing came between its findFirst and its write.
NextRows(rows, seen, level, inUse) ==
  UNION {Refreshed(rows, found, level, inUse) :
           found \in IF seen = NoLook THEN Findable(rows) ELSE {seen}}

\* The event refreshAlert emits: on every call that finds the pair low.
Announce(k, level) == IF level = "none" THEN {} ELSE {k}

\* refreshAlert after applyMutation in the same transaction, for pair k.
RefreshAlert(k, seen, inUse) ==
  LET level == AlertLevel(onHand'[k], reserved'[k], MinStock[k[2]])
  IN  /\ \E rows \in NextRows(alert[k], seen, level, inUse) :
           alert' = [alert EXCEPT ![k] = rows]
      /\ lowStock' = lowStock \cup Announce(k, level)

NoAlertRefresh == UNCHANGED <<alert, lowStock>>

-----------------------------------------------------------------------------
\* The outbox dispatcher publishes the pending event of pair k (the Outbox
\* side of the row is not modelled here).
PublishLowStock(k) ==
  /\ k \in lowStock
  /\ lowStock' = lowStock \ {k}
  /\ UNCHANGED <<onHand, reserved, stocked, ledger, alert>>
=============================================================================
