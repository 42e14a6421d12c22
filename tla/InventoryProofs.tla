--------------------------- MODULE InventoryProofs --------------------------
(***************************************************************************)
(* Theorems about module Inventory, for every set of warehouses, parts,    *)
(* work orders, clerks and quantities and every number of reservations.    *)
(*                                                                         *)
(* StockConsistent and LedgerAgrees are inductive together with            *)
(* UnstockedEmpty. NoPhantomHold needs to know what every release in       *)
(* flight has read (PendingCloseCovers), and that in turn that consumption *)
(* only lowers what a reservation holds (ConsumptionBounded). HoldMoves    *)
(* says by how much each step moves what is reserved and what is held of a *)
(* pair, AlertStep what it does to the pair's open alerts.                 *)
(***************************************************************************)
EXTENDS Inventory, TotalsProofs, FiniteSetTheorems

\* A pair without a balance row has nothing on the shelf, held or recorded.
UnstockedEmpty ==
  \A k \in Key \ stocked : onHand[k] = 0 /\ reserved[k] = 0 /\ ledger[k] = 0

USE StockAssumption, InventoryAssumption

-----------------------------------------------------------------------------
\* What a search for an open alert returns.
FoundType == [row: AlertRow \cup {NoRow}, level: AlertState]

\* A search finds a row of the table, or none.
LEMMA FindableType ==
  ASSUME NEW rows \in [AlertRow -> AlertState]
  PROVE  Findable(rows) \subseteq FoundType
BY DEF Findable, FoundType, OpenRows, AlertState

\* A row's level after an update by id.
LEMMA UpdatedType ==
  ASSUME NEW row \in AlertState, NEW seen, NEW level \in {"none", "low", "out"}
  PROVE  Updated(row, seen, level) \in AlertState
BY DEF Updated, AlertState

\* A refresh leaves rows of the right type, whatever it found.
LEMMA RefreshedType ==
  ASSUME NEW rows \in [AlertRow -> AlertState], NEW level \in {"none", "low", "out"},
         NEW found \in FoundType, NEW inUse,
         NEW next \in Refreshed(rows, found, level, inUse)
  PROVE  next \in [AlertRow -> AlertState]
<1>1. CASE found.row # NoRow
  <2>1. found.row \in AlertRow
    BY <1>1 DEF FoundType
  <2>2. Updated(rows[found.row], found.level, level) \in AlertState
    BY <2>1, UpdatedType
  <2>3. next = [rows EXCEPT ![found.row] = Updated(rows[found.row], found.level, level)]
    BY <1>1 DEF Refreshed
  <2> QED
    BY <2>1, <2>2, <2>3
<1>2. CASE found.row = NoRow /\ level = "none"
  BY <1>2 DEF Refreshed
<1>3. CASE found.row = NoRow /\ level # "none"
  BY <1>3 DEF Refreshed, FreshRow, AlertState
<1> QED
  BY <1>1, <1>2, <1>3

\* The same of a movement's refresh, whether it looked before or not.
LEMMA NextRowsType ==
  ASSUME NEW rows \in [AlertRow -> AlertState], NEW level \in {"none", "low", "out"},
         NEW seen \in {NoLook} \cup FoundType,
         NEW inUse, NEW next \in NextRows(rows, seen, level, inUse)
  PROVE  next \in [AlertRow -> AlertState]
<1>1. PICK found \in FoundType : next \in Refreshed(rows, found, level, inUse)
  BY FindableType DEF NextRows
<1> QED
  BY <1>1, RefreshedType

\* An alert level is one of three.
LEMMA AlertLevelType ==
  ASSUME NEW on \in Int, NEW res \in Int, NEW min \in Nat
  PROVE  AlertLevel(on, res, min) \in {"none", "low", "out"}
BY DEF AlertLevel

\* The minimum stock of a pair's part is a natural number.
LEMMA MinStockType ==
  ASSUME NEW k \in Key
  PROVE  MinStock[k[2]] \in Nat
BY DEF Key

\* A ledger row has the quantity of the movement when issues and consumptions
\* take stock away.
LEMMA LedgerQtyIsDelta ==
  ASSUME NEW type, NEW delta \in Int,
         type \notin {"consume", "issue"} \/ delta <= 0
  PROVE  LedgerQty(type, delta) = delta
BY DEF LedgerQty

\* What a refresh inside a mutating transaction leaves behind.
LEMMA RefreshAlertType ==
  ASSUME StockTypeOK, NEW k \in Key, NEW seen \in {NoLook} \cup FoundType,
         NEW inUse, RefreshAlert(k, seen, inUse),
         onHand' \in [Key -> Int], reserved' \in [Key -> Int]
  PROVE  /\ alert' \in [Key -> [AlertRow -> AlertState]]
         /\ lowStock' \in SUBSET Key
<1> DEFINE level == AlertLevel(onHand'[k], reserved'[k], MinStock[k[2]])
<1>1. level \in {"none", "low", "out"}
  <2>1. onHand'[k] \in Int /\ reserved'[k] \in Int
    OBVIOUS
  <2> QED
    BY <2>1, MinStockType, AlertLevelType
<1>2. PICK rows \in NextRows(alert[k], seen, level, inUse) :
        alert' = [alert EXCEPT ![k] = rows]
  BY DEF RefreshAlert
<1>3. rows \in [AlertRow -> AlertState]
  <2>1. alert[k] \in [AlertRow -> AlertState]
    BY DEF StockTypeOK
  <2> QED
    BY <2>1, <1>1, <1>2, NextRowsType
<1>4. lowStock' \in SUBSET Key
  BY DEF RefreshAlert, Announce, StockTypeOK
<1> QED
  BY <1>2, <1>3, <1>4 DEF StockTypeOK

\* What a mutation does to the balance and ledger of each pair.
LEMMA MutationEffect ==
  ASSUME StockTypeOK, NEW k \in Key, NEW dOn \in Int, NEW dRes \in Int, NEW type,
         type \notin {"consume", "issue"} \/ dOn <= 0,
         ApplyMutation(k, dOn, dRes, type)
  PROVE  /\ onHand' \in [Key -> Int] /\ reserved' \in [Key -> Int]
         /\ ledger' \in [Key -> Int] /\ stocked' \in SUBSET Key
         /\ k \in stocked' /\ stocked \subseteq stocked'
         /\ onHand'[k] = onHand[k] + dOn
         /\ reserved'[k] = reserved[k] + dRes
         /\ ledger'[k] = ledger[k] + dOn
         /\ Consistent(onHand'[k], reserved'[k])
         /\ \A x \in Key \ {k} : /\ onHand'[x] = onHand[x]
                                 /\ reserved'[x] = reserved[x]
                                 /\ ledger'[x] = ledger[x]
<1>1. LedgerQty(type, dOn) = dOn
  BY LedgerQtyIsDelta
<1> QED
  BY <1>1 DEF ApplyMutation, StockTypeOK

-----------------------------------------------------------------------------
\* Quantities are positive integers.
LEMMA QuantityType ==
  ASSUME NEW q \in Quantity
  PROVE  q \in Nat /\ q > 0 /\ -q \in Int
OBVIOUS

\* Every release in flight names a reservation.
LEMMA ClosingType ==
  ASSUME TypeOK, NEW c \in Clerk, closing[c] # NoClose
  PROVE  /\ closing[c].rsv \in Reservation
         /\ closing[c].remaining \in Int
         /\ closing[c].to \in {"released", "cancelled"}
         /\ rsv[closing[c].rsv].key \in Key
BY DEF TypeOK, NoClose

\* The fields of a reservation row have their types.
LEMMA RowType ==
  ASSUME TypeOK, NEW r \in Reservation
  PROVE  /\ rsv[r].key \in Key /\ rsv[r].wo \in WorkOrder
         /\ rsv[r].qty \in Nat /\ rsv[r].consumed \in Nat
         /\ rsv[r].status \in RowStatus
         /\ Remaining(r) \in Int
BY DEF TypeOK, Remaining

\* The part of TypeOK that is not about the stock tables.
RequestTypeOK ==
  /\ rsv \in [Reservation -> [status: RowStatus, key: Key, wo: WorkOrder,
                              qty: Nat, consumed: Nat]]
  /\ closing \in [Clerk -> {NoClose} \cup
                           [rsv: Reservation, remaining: Int,
                            to: {"released", "cancelled"}]]
ScanTypeOK ==
  /\ \E keys \in SUBSET Key : scanList \in [keys -> Int]
  /\ scanRow \in {NoScan} \cup [key: Key, available: Int,
                                row: AlertRow \cup {NoRow},
                                level: AlertState]

LookTypeOK == looked \in [Key -> {NoLook} \cup FoundType]

\* The type invariant is the conjunction of the four parts that steps touch
\* separately.
LEMMA TypeParts ==
  TypeOK <=> StockTypeOK /\ RequestTypeOK /\ ScanTypeOK /\ LookTypeOK
BY DEF TypeOK, RequestTypeOK, ScanTypeOK, LookTypeOK, FoundType

\* A step that leaves the scan alone leaves its variables well typed.
LEMMA ScanTypeUnchanged ==
  ASSUME ScanTypeOK, UNCHANGED scanVars
  PROVE  ScanTypeOK'
BY DEF ScanTypeOK, scanVars

\* A mutation followed by a refresh keeps the stock tables well typed.
LEMMA MutateRefreshType ==
  ASSUME StockTypeOK, NEW k \in Key, NEW dOn \in Int, NEW dRes \in Int, NEW type,
         type \notin {"consume", "issue"} \/ dOn <= 0, LookTypeOK,
         ApplyMutation(k, dOn, dRes, type), Refresh(k)
  PROVE  StockTypeOK'
<1>1. /\ onHand' \in [Key -> Int] /\ reserved' \in [Key -> Int]
      /\ ledger' \in [Key -> Int] /\ stocked' \in SUBSET Key
  BY MutationEffect
<1>2. /\ alert' \in [Key -> [AlertRow -> AlertState]]
      /\ lowStock' \in SUBSET Key
  BY <1>1, RefreshAlertType DEF Refresh, LookTypeOK
<1> QED
  BY <1>1, <1>2 DEF StockTypeOK

\* Every step keeps the types of the tables, the requests and the scan.
LEMMA TableTypeStep ==
  ASSUME TypeOK, [Next]_vars
  PROVE  StockTypeOK' /\ RequestTypeOK' /\ ScanTypeOK'
<1>0. StockTypeOK /\ RequestTypeOK /\ ScanTypeOK /\ LookTypeOK
  BY TypeParts
<1> USE <1>0
<1> DEFINE G == StockTypeOK' /\ RequestTypeOK' /\ ScanTypeOK'
<1>1. ASSUME NEW k \in Key, NEW q \in Quantity \cup {0}, CreatePart(k, q)
      PROVE  G
  <2>1. q \in Nat
    BY QuantityType
  <2> QED
    BY <1>1, <2>1, ScanTypeUnchanged
    DEF CreatePart, StockTypeOK, RequestTypeOK, reservationVars
<1>2. ASSUME NEW k \in Key, NEW q \in Quantity, Adjust(k, q) \/ Adjust(k, -q)
      PROVE  G
  <2>1. PICK d \in {q, -q} : Adjust(k, d)
    BY <1>2
  <2>2. d \in Int
    BY QuantityType
  <2>a. ApplyMutation(k, d, 0, "adjustment") /\ Refresh(k)
    BY <2>1 DEF Adjust
  <2>3. StockTypeOK'
    BY <2>2, <2>a, MutateRefreshType
  <2> QED
    BY <2>1, <2>3, ScanTypeUnchanged DEF Adjust, RequestTypeOK, reservationVars
<1>3. ASSUME NEW k \in Key, NEW q \in Quantity, PurchaseIn(k, q)
      PROVE  G
  <2>1. StockTypeOK'
    BY <1>3, QuantityType, MutateRefreshType DEF PurchaseIn
  <2> QED
    BY <1>3, <2>1, ScanTypeUnchanged DEF PurchaseIn, RequestTypeOK, reservationVars
<1>4. ASSUME NEW k \in Key, NEW q \in Quantity, DirectIssue(k, q)
      PROVE  G
  <2>1. -q \in Int /\ -q <= 0
    BY QuantityType
  <2>2. ApplyMutation(k, -q, 0, "issue") /\ UNCHANGED <<alert, lowStock>>
    BY <1>4 DEF DirectIssue, NoAlertRefresh
  <2>3. StockTypeOK'
    BY <2>1, <2>2, MutationEffect DEF StockTypeOK
  <2> QED
    BY <1>4, <2>3, ScanTypeUnchanged DEF DirectIssue, RequestTypeOK, reservationVars
<1>5. ASSUME NEW k \in Key, NEW to \in Warehouse, NEW q \in Quantity,
             Transfer(k[2], k[1], to, q)
      PROVE  G
  <2> DEFINE p == k[2]
             a == <<k[1], p>>
             b == <<to, p>>
             levelOf(x) == AlertLevel(onHand'[x], reserved[x], MinStock[p])
  <2>1. a \in Key /\ b \in Key /\ p \in Part
    BY DEF Key
  <2>2. q \in Nat /\ -q \in Int
    BY QuantityType
  <2>3. /\ LedgerQty("transfer_out", -q) = -q
        /\ LedgerQty("transfer_in", q) = q
    BY <2>2 DEF LedgerQty
  <2>4. /\ onHand' \in [Key -> Int] /\ ledger' \in [Key -> Int]
        /\ reserved' \in [Key -> Int] /\ stocked' \in SUBSET Key
    <3>1. /\ onHand'  = [onHand EXCEPT ![a] = @ - q, ![b] = @ + q]
          /\ ledger'  = [ledger EXCEPT ![a] = @ + (-q), ![b] = @ + q]
          /\ stocked' = stocked \cup {a, b}
          /\ reserved' = reserved
      BY <1>5, <2>3 DEF Transfer
    <3>2. /\ onHand \in [Key -> Int] /\ ledger \in [Key -> Int]
          /\ reserved \in [Key -> Int] /\ stocked \in SUBSET Key
      BY DEF StockTypeOK
    <3> HIDE DEF a, b
    <3> QED
      BY <3>1, <3>2, <2>1, <2>2
  <2>5. levelOf(a) \in {"none", "low", "out"} /\ levelOf(b) \in {"none", "low", "out"}
    <3>1. /\ onHand'[a] \in Int /\ reserved[a] \in Int
          /\ onHand'[b] \in Int /\ reserved[b] \in Int
          /\ MinStock[p] \in Nat
      BY <2>1, <2>4 DEF StockTypeOK
    <3> QED
      BY <3>1, AlertLevelType
  <2>6. PICK ra \in NextRows(alert[a], looked[a], levelOf(a), HeldByScan(a)),
             rb \in NextRows(alert[b], looked[b], levelOf(b), HeldByScan(b)) :
               alert' = [alert EXCEPT ![a] = ra, ![b] = rb]
    BY <1>5 DEF Transfer
  <2>7. ra \in [AlertRow -> AlertState] /\ rb \in [AlertRow -> AlertState]
    <3>1. /\ alert[a] \in [AlertRow -> AlertState]
          /\ alert[b] \in [AlertRow -> AlertState]
          /\ looked[a] \in {NoLook} \cup FoundType
          /\ looked[b] \in {NoLook} \cup FoundType
      BY <2>1 DEF StockTypeOK, LookTypeOK
    <3> QED
      BY <3>1, <2>5, <2>6, NextRowsType
  <2>8. alert' \in [Key -> [AlertRow -> AlertState]]
    BY <2>6, <2>7 DEF StockTypeOK
  <2>9. lowStock' \in SUBSET Key
    BY <1>5, <2>1 DEF Transfer, Announce, StockTypeOK
  <2> QED
    BY <1>5, <2>4, <2>8, <2>9, ScanTypeUnchanged
    DEF Transfer, StockTypeOK, RequestTypeOK, reservationVars
<1>6. ASSUME NEW r \in Reservation, NEW k \in Key, NEW w \in WorkOrder,
             NEW q \in Quantity, Reserve(r, k, w, q)
      PROVE  G
  <2>1. StockTypeOK'
    BY <1>6, QuantityType, MutateRefreshType DEF Reserve
  <2>2. RequestTypeOK'
    BY <1>6, QuantityType DEF Reserve, RequestTypeOK, RowStatus
  <2> QED
    BY <1>6, <2>1, <2>2, ScanTypeUnchanged DEF Reserve
<1>7. ASSUME NEW r \in Reservation, NEW q \in Quantity, Consume(r, q)
      PROVE  G
  <2>1. -q \in Int /\ -q <= 0 /\ q \in Nat
    BY QuantityType
  <2>2. rsv[r].key \in Key
    BY RowType
  <2>3. StockTypeOK'
    BY <1>7, <2>1, <2>2, MutateRefreshType DEF Consume
  <2>4. RequestTypeOK'
    <3> DEFINE status == IF q = Remaining(r) THEN "consumed" ELSE "active"
               row == [rsv[r] EXCEPT !.consumed = @ + q, !.status = status]
    <3>1. rsv' = [rsv EXCEPT ![r] = row] /\ closing' = closing
      BY <1>7 DEF Consume, RequestTypeOK
    <3>2. status \in RowStatus
      BY DEF RowStatus
    <3>3. row \in [status: RowStatus, key: Key, wo: WorkOrder, qty: Nat, consumed: Nat]
      <4> HIDE DEF status
      <4>1. rsv[r] \in [status: RowStatus, key: Key, wo: WorkOrder, qty: Nat, consumed: Nat]
        BY DEF RequestTypeOK
      <4>2. rsv[r].consumed + q \in Nat
        BY <2>1, <4>1
      <4> QED
        BY <3>2, <4>1, <4>2
    <3> HIDE DEF row
    <3> QED
      BY <3>1, <3>3 DEF RequestTypeOK
  <2> QED
    BY <1>7, <2>3, <2>4, ScanTypeUnchanged DEF Consume
<1>8. ASSUME NEW k \in Key, NEW q \in Quantity, ReturnToStock(k, q)
      PROVE  G
  <2>a. ApplyMutation(k, q, 0, "return") /\ Refresh(k)
    BY <1>8 DEF ReturnToStock
  <2>b. q \in Int
    BY QuantityType
  <2>1. StockTypeOK'
    BY <2>a, <2>b, MutateRefreshType
  <2>2. RequestTypeOK'
    BY <1>8, QuantityType DEF ReturnToStock, RequestTypeOK, Key
  <2> QED
    BY <1>8, <2>1, <2>2, ScanTypeUnchanged DEF ReturnToStock
<1>9. ASSUME NEW c \in Clerk, NEW r \in Reservation, NEW to \in {"released", "cancelled"},
             CloseRead(c, r, to)
      PROVE  G
  <2>1. Remaining(r) \in Int
    BY RowType
  <2>2. RequestTypeOK'
    BY <1>9, <2>1 DEF CloseRead, RequestTypeOK
  <2>3. StockTypeOK'
    BY <1>9 DEF CloseRead, StockTypeOK, stockVars
  <2> QED
    BY <1>9, <2>2, <2>3, ScanTypeUnchanged DEF CloseRead
<1>10. ASSUME NEW c \in Clerk, CloseCommit(c)
       PROVE  G
  <2> DEFINE r == closing[c].rsv
  <2>1. /\ r \in Reservation /\ rsv[r].key \in Key
        /\ -closing[c].remaining \in Int
        /\ closing[c].to \in {"released", "cancelled"}
    BY <1>10, ClosingType DEF CloseCommit
  <2>2. StockTypeOK'
    <3>1. /\ ApplyMutation(rsv[r].key, 0, -closing[c].remaining, "issue")
          /\ Refresh(rsv[r].key)
      BY <1>10 DEF CloseCommit
    <3> QED
      BY <3>1, <2>1, MutateRefreshType
  <2>3. RequestTypeOK'
    BY <1>10, <2>1 DEF CloseCommit, RequestTypeOK, RowStatus
  <2> QED
    BY <1>10, <2>2, <2>3, ScanTypeUnchanged DEF CloseCommit
<1>11. ASSUME NEW c \in Clerk, CloseAbort(c)
       PROVE  G
  <2>1. RequestTypeOK'
    BY <1>11 DEF CloseAbort, RequestTypeOK
  <2>2. StockTypeOK'
    BY <1>11 DEF CloseAbort, StockTypeOK, stockVars
  <2> QED
    BY <1>11, <2>1, <2>2, ScanTypeUnchanged DEF CloseAbort
<1>12. ASSUME ScanStart
       PROVE  G
  <2>1. StockTypeOK' /\ RequestTypeOK'
    BY <1>12 DEF ScanStart, StockTypeOK, stockVars, RequestTypeOK, reservationVars
  <2>2. ScanTypeOK'
    <3>1. PICK keys \in SUBSET stocked :
            scanList' = [k \in keys |-> onHand[k] - reserved[k]]
      BY <1>12 DEF ScanStart
    <3>2. keys \in SUBSET Key /\ scanList' \in [keys -> Int]
      BY <3>1 DEF StockTypeOK
    <3> QED
      BY <1>12, <3>2 DEF ScanStart, ScanTypeOK
  <2> QED
    BY <2>1, <2>2
<1>13. ASSUME NEW k \in Key, ScanFind(k)
       PROVE  G
  <2>1. StockTypeOK' /\ RequestTypeOK'
    BY <1>13 DEF ScanFind, StockTypeOK, stockVars, RequestTypeOK, reservationVars
  <2>2. PICK keys \in SUBSET Key : scanList \in [keys -> Int]
    BY DEF ScanTypeOK
  <2>3. k \in keys /\ scanList[k] \in Int
    BY <1>13, <2>2 DEF ScanFind
  <2>4. scanList' \in [keys \ {k} -> Int]
    BY <1>13, <2>2 DEF ScanFind
  <2>5. scanRow' \in [key: Key, available: Int, row: AlertRow \cup {NoRow},
                      level: AlertState]
    <3>1. alert[k] \in [AlertRow -> AlertState]
      BY DEF StockTypeOK
    <3>2. PICK found \in FoundType :
            scanRow' = [key |-> k, available |-> scanList[k], row |-> found.row,
                        level |-> found.level]
      BY <1>13, <3>1, FindableType DEF ScanFind
    <3> QED
      BY <2>3, <3>2 DEF FoundType
  <2>6. keys \ {k} \in SUBSET Key
    OBVIOUS
  <2> QED
    BY <2>1, <2>4, <2>5, <2>6 DEF ScanTypeOK
<1>14. ASSUME ScanWrite
       PROVE  G
  <2> DEFINE k == scanRow.key
             level == AlertLevel(scanRow.available, 0, MinStock[k[2]])
             found == [row |-> scanRow.row, level |-> scanRow.level]
  <2>1. k \in Key /\ scanRow.available \in Int /\ found \in FoundType
    BY <1>14 DEF ScanWrite, ScanTypeOK, FoundType
  <2>2. level \in {"none", "low", "out"}
    BY <2>1, MinStockType, AlertLevelType
  <2>3. alert' \in [Key -> [AlertRow -> AlertState]]
    <3>1. PICK rows \in Refreshed(alert[k], found, level, {looked[k].row}) :
            alert' = [alert EXCEPT ![k] = rows]
      BY <1>14 DEF ScanWrite
    <3>2. alert[k] \in [AlertRow -> AlertState]
      BY <2>1 DEF StockTypeOK
    <3> HIDE DEF level, found
    <3>3. rows \in [AlertRow -> AlertState]
      BY <2>1, <2>2, <3>1, <3>2, RefreshedType
    <3> QED
      BY <2>1, <3>1, <3>3 DEF StockTypeOK
  <2>4. lowStock' \in SUBSET Key
    BY <1>14, <2>1 DEF ScanWrite, Announce, StockTypeOK
  <2>5. StockTypeOK' /\ RequestTypeOK'
    BY <1>14, <2>3, <2>4 DEF ScanWrite, StockTypeOK, RequestTypeOK, reservationVars
  <2>6. ScanTypeOK'
    BY <1>14 DEF ScanWrite, ScanTypeOK
  <2> QED
    BY <2>5, <2>6
<1>15. ASSUME NEW k \in Key, LookUp(k) \/ LookDropped(k) \/ Publish(k)
       PROVE  G
  <2>1. StockTypeOK' /\ RequestTypeOK'
    BY <1>15 DEF LookUp, LookDropped, Publish, PublishLowStock, StockTypeOK,
                 stockVars, RequestTypeOK, reservationVars
  <2> QED
    BY <1>15, <2>1, ScanTypeUnchanged DEF LookUp, LookDropped, Publish
<1>16. CASE UNCHANGED vars
  BY <1>16, ScanTypeUnchanged
  DEF vars, stockVars, StockTypeOK, reservationVars, RequestTypeOK
<1> QED
  BY <1>1, <1>2, <1>3, <1>4, <1>5, <1>6, <1>7, <1>8, <1>9, <1>10, <1>11, <1>12,
     <1>13, <1>14, <1>15, <1>16
  DEF Next, MovementNext, ReservationNext, ScanNext

\* The movements, with the bounds on their inputs loosened.
LEMMA MovementCases ==
  ASSUME MovementNext
  PROVE  \E k \in Key, q \in Quantity \cup {0}, d \in Int, to \in Warehouse :
           \/ CreatePart(k, q) \/ Adjust(k, d) \/ PurchaseIn(k, q)
           \/ DirectIssue(k, q) \/ Transfer(k[2], k[1], to, q)
<1>1. PICK w \in Warehouse : TRUE
  OBVIOUS
<1>2. CASE \E k \in Key, q \in Quantity \cup {0} : CreatePart(k, q)
  <2>1. 0 \in Int
    OBVIOUS
  <2> QED
    BY <1>1, <1>2, <2>1
<1>3. CASE \E k \in Key, q \in Quantity :
             \/ Adjust(k, q) \/ Adjust(k, -q) \/ PurchaseIn(k, q) \/ DirectIssue(k, q)
             \/ \E to \in Warehouse : Transfer(k[2], k[1], to, q)
  <2>1. \A q \in Quantity : q \in Int /\ -q \in Int /\ q \in Quantity \cup {0}
    BY QuantityType
  <2> QED
    BY <1>1, <1>3, <2>1
<1> QED
  BY <1>2, <1>3 DEF MovementNext

\* A look that begins or ends keeps the type.
LEMMA LookTypeStep ==
  ASSUME TypeOK, [Next]_vars
  PROVE  LookTypeOK'
<1>0. LookTypeOK
  BY TypeParts
<1>1. ASSUME NEW k, looked' = [looked EXCEPT ![k] = NoLook]
      PROVE  LookTypeOK'
  BY <1>0, <1>1 DEF LookTypeOK
<1>2. ASSUME looked' = looked
      PROVE  LookTypeOK'
  BY <1>0, <1>2 DEF LookTypeOK
<1>3. CASE MovementNext
  <2>1. PICK k \in Key, q \in Quantity \cup {0}, d \in Int, to \in Warehouse :
          \/ CreatePart(k, q) \/ Adjust(k, d) \/ PurchaseIn(k, q)
          \/ DirectIssue(k, q) \/ Transfer(k[2], k[1], to, q)
    BY <1>3, MovementCases
  <2>2. CASE CreatePart(k, q) \/ DirectIssue(k, q)
    BY <1>2, <2>2 DEF CreatePart, DirectIssue
  <2>3. CASE Adjust(k, d) \/ PurchaseIn(k, q)
    BY <1>1, <2>3 DEF Adjust, PurchaseIn, Refresh
  <2>4. CASE Transfer(k[2], k[1], to, q)
    <3>1. looked' = [looked EXCEPT ![<<k[1], k[2]>>] = NoLook,
                                   ![<<to, k[2]>>] = NoLook]
      BY <2>4 DEF Transfer
    <3> QED
      BY <1>0, <3>1 DEF LookTypeOK
  <2> QED
    BY <2>1, <2>2, <2>3, <2>4
<1>4. CASE ReservationNext
  <2>1. ASSUME NEW r \in Reservation, NEW k \in Key, NEW w \in WorkOrder,
               NEW q \in Quantity, Reserve(r, k, w, q)
        PROVE  LookTypeOK'
    BY <1>1, <2>1 DEF Reserve, Refresh
  <2>2. ASSUME NEW r \in Reservation, NEW q \in Quantity, Consume(r, q)
        PROVE  LookTypeOK'
    BY <1>1, <2>2 DEF Consume, Refresh
  <2>3. ASSUME NEW k \in Key, NEW q \in Quantity, ReturnToStock(k, q)
        PROVE  LookTypeOK'
    BY <1>1, <2>3 DEF ReturnToStock, Refresh
  <2>4. ASSUME NEW c \in Clerk, CloseCommit(c)
        PROVE  LookTypeOK'
    BY <1>1, <2>4 DEF CloseCommit, Refresh
  <2>5. CASE \/ \E c \in Clerk, r \in Reservation, to \in {"released", "cancelled"} :
                  CloseRead(c, r, to)
             \/ \E c \in Clerk : CloseAbort(c)
    BY <1>2, <2>5 DEF CloseRead, CloseAbort
  <2> QED
    BY <1>4, <2>1, <2>2, <2>3, <2>4, <2>5 DEF ReservationNext
<1>5. CASE ScanNext
  BY <1>2, <1>5 DEF ScanNext, ScanStart, ScanFind, ScanWrite
<1>6. ASSUME NEW k \in Key, LookUp(k)
      PROVE  LookTypeOK'
  <2>1. PICK found \in Findable(alert[k]) : looked' = [looked EXCEPT ![k] = found]
    BY <1>6 DEF LookUp
  <2>2. alert[k] \in [AlertRow -> AlertState]
    BY DEF TypeOK, StockTypeOK
  <2>3. found \in FoundType
    BY <2>1, <2>2, FindableType
  <2> QED
    BY <1>0, <2>1, <2>3 DEF LookTypeOK
<1>7. ASSUME NEW k \in Key, LookDropped(k)
      PROVE  LookTypeOK'
  BY <1>1, <1>7 DEF LookDropped
<1>8. CASE (\E k \in Key : Publish(k)) \/ UNCHANGED vars
  BY <1>2, <1>8 DEF Publish, vars
<1> QED
  BY <1>3, <1>4, <1>5, <1>6, <1>7, <1>8 DEF Next

\* Every step keeps the types.
LEMMA TypeStep == TypeOK /\ [Next]_vars => TypeOK'
<1> SUFFICES ASSUME TypeOK, [Next]_vars
             PROVE  TypeOK'
  OBVIOUS
<1>1. StockTypeOK' /\ RequestTypeOK' /\ ScanTypeOK' /\ LookTypeOK'
  BY TableTypeStep, LookTypeStep
<1> QED
  BY <1>1 DEF TypeOK, StockTypeOK, RequestTypeOK, ScanTypeOK, LookTypeOK, FoundType

-----------------------------------------------------------------------------
\* What is invariant of the stock tables alone.
StockInv == StockConsistent /\ LedgerAgrees /\ UnstockedEmpty

\* A mutation of one balance keeps it.
LEMMA MutationStockInv ==
  ASSUME StockTypeOK, StockInv, NEW k \in Key, NEW dOn \in Int, NEW dRes \in Int,
         NEW type, type \notin {"consume", "issue"} \/ dOn <= 0,
         ApplyMutation(k, dOn, dRes, type)
  PROVE  StockInv'
<1>1. /\ k \in stocked' /\ stocked \subseteq stocked'
      /\ onHand'[k] = onHand[k] + dOn
      /\ ledger'[k] = ledger[k] + dOn
      /\ Consistent(onHand'[k], reserved'[k])
      /\ \A x \in Key \ {k} : /\ onHand'[x] = onHand[x]
                              /\ reserved'[x] = reserved[x]
                              /\ ledger'[x] = ledger[x]
  BY MutationEffect
<1>2. StockConsistent'
  BY <1>1 DEF StockInv, StockConsistent
<1>3. LedgerAgrees'
  BY <1>1 DEF StockInv, LedgerAgrees
<1>4. UnstockedEmpty'
  BY <1>1 DEF StockInv, UnstockedEmpty
<1> QED
  BY <1>2, <1>3, <1>4 DEF StockInv

\* Steps that leave the balances alone keep it.
LEMMA UnchangedStockInv ==
  ASSUME StockInv, UNCHANGED <<onHand, reserved, stocked, ledger>>
  PROVE  StockInv'
BY DEF StockInv, StockConsistent, LedgerAgrees, UnstockedEmpty

\* Every step keeps each balance consistent and equal to its ledger.
LEMMA StockStep == TypeOK /\ StockInv /\ [Next]_vars => StockInv'
<1> SUFFICES ASSUME TypeOK, StockTypeOK, StockInv, [Next]_vars
             PROVE  StockInv'
  BY TypeParts
<1>1. ASSUME NEW k \in Key, NEW q \in Quantity \cup {0}, CreatePart(k, q)
      PROVE  StockInv'
  <2>1. q \in Nat
    BY QuantityType
  <2>2. k \notin stocked
    BY <1>1 DEF CreatePart, Known, Key
  <2>3. reserved[k] = 0 /\ ledger[k] = 0
    BY <2>2 DEF StockInv, UnstockedEmpty
  <2>4. /\ onHand' = [onHand EXCEPT ![k] = q]
        /\ ledger' = [ledger EXCEPT ![k] = q]
        /\ reserved' = reserved
        /\ stocked' = stocked \cup {k}
    BY <1>1, <2>1, <2>3 DEF CreatePart, StockTypeOK
  <2>5. StockConsistent'
    BY <2>1, <2>3, <2>4 DEF StockInv, StockConsistent, Consistent, StockTypeOK
  <2>6. LedgerAgrees'
    BY <2>4 DEF StockInv, LedgerAgrees, StockTypeOK
  <2>7. UnstockedEmpty'
    BY <2>4 DEF StockInv, UnstockedEmpty, StockTypeOK
  <2> QED
    BY <2>5, <2>6, <2>7 DEF StockInv
<1>2. ASSUME NEW k \in Key, NEW q \in Quantity, Adjust(k, q) \/ Adjust(k, -q)
      PROVE  StockInv'
  <2>1. PICK d \in {q, -q} : Adjust(k, d)
    BY <1>2
  <2>2. d \in Int
    BY QuantityType
  <2>3. ApplyMutation(k, d, 0, "adjustment")
    BY <2>1 DEF Adjust
  <2> QED
    BY <2>2, <2>3, MutationStockInv
<1>3. ASSUME NEW k \in Key, NEW q \in Quantity, PurchaseIn(k, q)
      PROVE  StockInv'
  BY <1>3, QuantityType, MutationStockInv DEF PurchaseIn
<1>4. ASSUME NEW k \in Key, NEW q \in Quantity, DirectIssue(k, q)
      PROVE  StockInv'
  <2>1. -q \in Int /\ -q <= 0
    BY QuantityType
  <2> QED
    BY <1>4, <2>1, MutationStockInv DEF DirectIssue
<1>5. ASSUME NEW k \in Key, NEW to \in Warehouse, NEW q \in Quantity,
             Transfer(k[2], k[1], to, q)
      PROVE  StockInv'
  <2> DEFINE p == k[2]
             a == <<k[1], p>>
             b == <<to, p>>
  <2>1. a \in Key /\ b \in Key /\ a # b
    BY <1>5 DEF Key, Transfer
  <2>2. q \in Nat /\ -q \in Int
    BY QuantityType
  <2>3. /\ LedgerQty("transfer_out", -q) = -q
        /\ LedgerQty("transfer_in", q) = q
    BY <2>2 DEF LedgerQty
  <2>4. /\ onHand'  = [onHand EXCEPT ![a] = @ - q, ![b] = @ + q]
        /\ ledger'  = [ledger EXCEPT ![a] = @ + (-q), ![b] = @ + q]
        /\ stocked' = stocked \cup {a, b}
        /\ reserved' = reserved
        /\ Consistent(onHand[a] - q, reserved[a])
        /\ Consistent(onHand[b] + q, reserved[b])
    BY <1>5, <2>3 DEF Transfer
  <2> HIDE DEF a, b, p
  <2>5. /\ onHand'[a] = onHand[a] - q /\ ledger'[a] = ledger[a] - q
        /\ onHand'[b] = onHand[b] + q /\ ledger'[b] = ledger[b] + q
        /\ \A x \in Key \ {a, b} : onHand'[x] = onHand[x] /\ ledger'[x] = ledger[x]
    BY <2>1, <2>2, <2>4 DEF StockTypeOK
  <2>6. StockConsistent'
    BY <2>4, <2>5 DEF StockInv, StockConsistent
  <2>7. LedgerAgrees'
    BY <2>1, <2>5 DEF StockInv, LedgerAgrees
  <2>8. UnstockedEmpty'
    BY <2>4, <2>5 DEF StockInv, UnstockedEmpty
  <2> QED
    BY <2>6, <2>7, <2>8 DEF StockInv
<1>6. ASSUME NEW r \in Reservation, NEW k \in Key, NEW w \in WorkOrder,
             NEW q \in Quantity, Reserve(r, k, w, q)
      PROVE  StockInv'
  BY <1>6, QuantityType, MutationStockInv DEF Reserve
<1>7. ASSUME NEW r \in Reservation, NEW q \in Quantity, Consume(r, q)
      PROVE  StockInv'
  <2>1. -q \in Int /\ -q <= 0
    BY QuantityType
  <2>2. rsv[r].key \in Key
    BY RowType
  <2> QED
    BY <1>7, <2>1, <2>2, MutationStockInv DEF Consume
<1>8. ASSUME NEW k \in Key, NEW q \in Quantity, ReturnToStock(k, q)
      PROVE  StockInv'
  BY <1>8, QuantityType, MutationStockInv DEF ReturnToStock
<1>9. ASSUME NEW c \in Clerk, CloseCommit(c)
      PROVE  StockInv'
  <2>1. -closing[c].remaining \in Int /\ rsv[closing[c].rsv].key \in Key
    BY <1>9, ClosingType DEF CloseCommit
  <2>2. ApplyMutation(rsv[closing[c].rsv].key, 0, -closing[c].remaining, "issue")
    BY <1>9 DEF CloseCommit
  <2>3. 0 \in Int /\ 0 <= 0
    OBVIOUS
  <2> QED
    BY <2>1, <2>2, <2>3, MutationStockInv
<1>10. ASSUME \/ \E c \in Clerk, r \in Reservation, to \in {"released", "cancelled"} :
                   CloseRead(c, r, to)
              \/ \E c \in Clerk : CloseAbort(c)
              \/ ScanNext
              \/ \E k \in Key : LookUp(k) \/ LookDropped(k) \/ Publish(k)
              \/ UNCHANGED vars
       PROVE  StockInv'
  <2>1. UNCHANGED <<onHand, reserved, stocked, ledger>>
    BY <1>10 DEF CloseRead, CloseAbort, ScanNext, ScanStart, ScanFind, ScanWrite,
                 LookUp, LookDropped, Publish, PublishLowStock, vars, stockVars
  <2> QED
    BY <2>1, UnchangedStockInv
<1> QED
  BY <1>1, <1>2, <1>3, <1>4, <1>5, <1>6, <1>7, <1>8, <1>9, <1>10
  DEF Next, MovementNext, ReservationNext

-----------------------------------------------------------------------------
\* What is invariant of the reservations and of the releases in flight.
RequestInv == ConsumptionBounded /\ PendingCloseCovers

\* A step that keeps the rows and the releases in flight keeps it.
LEMMA UnchangedRequestInv ==
  ASSUME RequestInv, UNCHANGED <<rsv, closing>>
  PROVE  RequestInv'
BY DEF RequestInv, ConsumptionBounded, PendingCloseCovers, Remaining

\* What a reserve leaves in its row: all of q active and nothing consumed.
LEMMA ReserveRow ==
  ASSUME TypeOK, NEW r \in Reservation, NEW k \in Key, NEW w \in WorkOrder,
         NEW q \in Quantity, Reserve(r, k, w, q)
  PROVE  /\ rsv[r].status = "none"
         /\ rsv'[r].status = "active" /\ rsv'[r].key = k
         /\ rsv'[r].qty = q /\ rsv'[r].consumed = 0
         /\ \A i \in Reservation \ {r} : rsv'[i] = rsv[i]
         /\ UNCHANGED closing
BY DEF Reserve, TypeOK

\* What a consume leaves in its row.
LEMMA ConsumeRow ==
  ASSUME TypeOK, NEW r \in Reservation, NEW q \in Quantity, Consume(r, q)
  PROVE  /\ rsv[r].status = "active" /\ q <= Remaining(r)
         /\ rsv'[r].status = IF q = Remaining(r) THEN "consumed" ELSE "active"
         /\ rsv'[r].key = rsv[r].key
         /\ rsv'[r].qty = rsv[r].qty /\ rsv'[r].consumed = rsv[r].consumed + q
         /\ \A i \in Reservation \ {r} : rsv'[i] = rsv[i]
         /\ UNCHANGED closing
BY DEF Consume, TypeOK

\* What a committed release leaves in its row and in its clerk.
LEMMA CloseCommitRow ==
  ASSUME TypeOK, NEW c \in Clerk, CloseCommit(c), NEW r, r = closing[c].rsv
  PROVE  /\ r \in Reservation
         /\ rsv'[r].status = closing[c].to
         /\ closing[c].to \in {"released", "cancelled"}
         /\ rsv'[r].key = rsv[r].key
         /\ rsv'[r].qty = rsv[r].qty /\ rsv'[r].consumed = rsv[r].consumed
         /\ \A i \in Reservation \ {r} : rsv'[i] = rsv[i]
         /\ closing' = [closing EXCEPT ![c] = NoClose]
<1>1. r \in Reservation /\ closing[c].to \in {"released", "cancelled"}
  BY ClosingType DEF CloseCommit
<1>2. /\ rsv' = [rsv EXCEPT ![r].status = closing[c].to]
      /\ closing' = [closing EXCEPT ![c] = NoClose]
  BY DEF CloseCommit
<1> QED
  BY <1>1, <1>2 DEF TypeOK

\* Movements, returns, scans and publications touch no reservation row and no
\* release in flight.
LEMMA StepsThatKeepRows ==
  ASSUME \/ MovementNext
         \/ \E k \in Key, q \in Quantity : ReturnToStock(k, q)
         \/ ScanNext
         \/ \E k \in Key : LookUp(k) \/ LookDropped(k) \/ Publish(k)
         \/ UNCHANGED vars
  PROVE  UNCHANGED <<rsv, closing>>
<1>1. CASE MovementNext
  <2>1. \E k \in Key, q \in Quantity \cup {0}, d \in Int, to \in Warehouse :
          \/ CreatePart(k, q) \/ Adjust(k, d) \/ PurchaseIn(k, q)
          \/ DirectIssue(k, q) \/ Transfer(k[2], k[1], to, q)
    BY <1>1, MovementCases
  <2> QED
    BY <2>1 DEF CreatePart, Adjust, PurchaseIn, DirectIssue, Transfer,
                reservationVars
<1>2. CASE \E k \in Key, q \in Quantity : ReturnToStock(k, q)
  BY <1>2 DEF ReturnToStock
<1>3. CASE ScanNext
  BY <1>3 DEF ScanNext, ScanStart, ScanFind, ScanWrite, reservationVars
<1>4. CASE \/ \E k \in Key : LookUp(k) \/ LookDropped(k) \/ Publish(k)
           \/ UNCHANGED vars
  BY <1>4 DEF LookUp, LookDropped, Publish, vars, reservationVars
<1> QED
  BY <1>1, <1>2, <1>3, <1>4

\* Every step keeps consumption bounded and the releases in flight covering
\* what their reservations still hold.
LEMMA RequestStep == TypeOK /\ RequestInv /\ [Next]_vars => RequestInv'
<1> SUFFICES ASSUME TypeOK, RequestInv, [Next]_vars
             PROVE  RequestInv'
  OBVIOUS
<1> USE DEF Remaining
<1>1. ASSUME NEW r \in Reservation, NEW k \in Key, NEW w \in WorkOrder,
             NEW q \in Quantity, Reserve(r, k, w, q)
      PROVE  RequestInv'
  <2>1. q \in Nat /\ q > 0
    BY QuantityType
  <2>2. /\ rsv[r].status = "none"
        /\ rsv'[r].status = "active"
        /\ rsv'[r].qty = q /\ rsv'[r].consumed = 0
        /\ \A i \in Reservation \ {r} : rsv'[i] = rsv[i]
        /\ UNCHANGED closing
    BY <1>1, ReserveRow
  <2>3. ConsumptionBounded'
    BY <2>1, <2>2 DEF RequestInv, ConsumptionBounded
  <2>4. ASSUME NEW c \in Clerk, closing[c] # NoClose
        PROVE  closing[c].rsv \in Reservation \ {r}
    BY <2>2, <2>4, ClosingType DEF RequestInv, PendingCloseCovers
  <2>5. PendingCloseCovers'
    BY <2>2, <2>4 DEF RequestInv, PendingCloseCovers
  <2> QED
    BY <2>3, <2>5 DEF RequestInv
<1>2. ASSUME NEW r \in Reservation, NEW q \in Quantity, Consume(r, q)
      PROVE  RequestInv'
  <2>1. q \in Nat /\ q > 0
    BY QuantityType
  <2>2. /\ rsv[r].status = "active" /\ q <= Remaining(r)
        /\ rsv'[r].status = IF q = Remaining(r) THEN "consumed" ELSE "active"
        /\ rsv'[r].qty = rsv[r].qty /\ rsv'[r].consumed = rsv[r].consumed + q
        /\ \A i \in Reservation \ {r} : rsv'[i] = rsv[i]
        /\ UNCHANGED closing
    BY <1>2, ConsumeRow
  <2>3. rsv[r].qty \in Nat /\ rsv[r].consumed \in Nat
    BY RowType
  <2>4. ConsumptionBounded'
    BY <2>1, <2>2, <2>3 DEF RequestInv, ConsumptionBounded
  <2>5. ASSUME NEW c \in Clerk, closing'[c] # NoClose
        PROVE  /\ rsv'[closing'[c].rsv].status # "none"
               /\ 0 < closing'[c].remaining
               /\ Remaining(closing[c].rsv)' <= closing'[c].remaining
    <3>1. /\ closing[c].rsv \in Reservation /\ closing[c].remaining \in Int
          /\ closing'[c] = closing[c] /\ closing[c] # NoClose
      BY <2>2, <2>5, ClosingType
    <3>2. /\ rsv[closing[c].rsv].status # "none" /\ 0 < closing[c].remaining
          /\ Remaining(closing[c].rsv) <= closing[c].remaining
      BY <3>1 DEF RequestInv, PendingCloseCovers
    <3>3. CASE closing[c].rsv = r
      BY <2>1, <2>2, <2>3, <3>1, <3>2, <3>3
    <3>4. CASE closing[c].rsv # r
      BY <2>2, <3>1, <3>2, <3>4
    <3> QED
      BY <3>3, <3>4
  <2>6. PendingCloseCovers'
    BY <2>2, <2>5 DEF PendingCloseCovers
  <2> QED
    BY <2>4, <2>6 DEF RequestInv
<1>3. ASSUME NEW c \in Clerk, NEW r \in Reservation, NEW to \in {"released", "cancelled"},
             CloseRead(c, r, to)
      PROVE  RequestInv'
  <2>1. /\ rsv' = rsv
        /\ rsv[r].status = "active"
        /\ closing' = [closing EXCEPT ![c] = [rsv |-> r, remaining |-> Remaining(r),
                                              to |-> to]]
    BY <1>3 DEF CloseRead
  <2>2. Remaining(r) \in Int /\ 0 < Remaining(r)
    BY <2>1, RowType DEF RequestInv, ConsumptionBounded
  <2>3. PendingCloseCovers'
    <3>1. closing' \in [Clerk -> {NoClose} \cup
                           [rsv: Reservation, remaining: Int,
                            to: {"released", "cancelled"}]]
      BY <2>1, <2>2 DEF TypeOK
    <3>2. /\ closing'[c].rsv = r /\ closing'[c].remaining = Remaining(r)
          /\ \A d \in Clerk \ {c} : closing'[d] = closing[d]
      BY <2>1 DEF TypeOK
    <3> QED
      BY <2>1, <2>2, <3>2 DEF RequestInv, PendingCloseCovers
  <2>4. ConsumptionBounded'
    BY <2>1 DEF RequestInv, ConsumptionBounded
  <2> QED
    BY <2>3, <2>4 DEF RequestInv
<1>4. ASSUME NEW c \in Clerk, CloseCommit(c)
      PROVE  RequestInv'
  <2> DEFINE r == closing[c].rsv
  <2>1. /\ r \in Reservation
        /\ rsv'[r].status = closing[c].to
        /\ closing[c].to \in {"released", "cancelled"}
        /\ rsv'[r].qty = rsv[r].qty /\ rsv'[r].consumed = rsv[r].consumed
        /\ \A i \in Reservation \ {r} : rsv'[i] = rsv[i]
        /\ closing' = [closing EXCEPT ![c] = NoClose]
    BY <1>4, CloseCommitRow
  <2> HIDE DEF r
  <2>2. ConsumptionBounded'
    BY <2>1 DEF RequestInv, ConsumptionBounded
  <2>3. \A d \in Clerk : closing'[d] # NoClose => closing'[d] = closing[d]
    BY <2>1 DEF TypeOK
  <2>4. PendingCloseCovers'
    <3>1. ASSUME NEW d \in Clerk, closing'[d] # NoClose
          PROVE  /\ rsv'[closing'[d].rsv].status # "none"
                 /\ 0 < closing'[d].remaining
                 /\ Remaining(closing[d].rsv)' <= closing'[d].remaining
      <4>1. closing'[d] = closing[d] /\ closing[d] # NoClose
        BY <2>3, <3>1
      <4>2. closing[d].rsv \in Reservation
        BY <4>1, ClosingType
      <4> QED
        BY <2>1, <4>1, <4>2 DEF RequestInv, PendingCloseCovers
    <3> QED
      BY <2>3, <3>1 DEF PendingCloseCovers
  <2> QED
    BY <2>2, <2>4 DEF RequestInv
<1>5. ASSUME NEW c \in Clerk, CloseAbort(c)
      PROVE  RequestInv'
  <2>1. rsv' = rsv /\ closing' = [closing EXCEPT ![c] = NoClose]
    BY <1>5 DEF CloseAbort
  <2>2. \A d \in Clerk : closing'[d] # NoClose => closing'[d] = closing[d]
    BY <2>1 DEF TypeOK
  <2> QED
    BY <2>1, <2>2 DEF RequestInv, ConsumptionBounded, PendingCloseCovers
<1>6. ASSUME \/ MovementNext
             \/ \E k \in Key, q \in Quantity : ReturnToStock(k, q)
             \/ ScanNext
             \/ \E k \in Key : LookUp(k) \/ LookDropped(k) \/ Publish(k)
             \/ UNCHANGED vars
      PROVE  RequestInv'
  <2>1. UNCHANGED <<rsv, closing>>
    BY <1>6, StepsThatKeepRows
  <2> QED
    BY <2>1, UnchangedRequestInv
<1> QED
  BY <1>1, <1>2, <1>3, <1>4, <1>5, <1>6 DEF Next, ReservationNext

-----------------------------------------------------------------------------
\* HeldFor adds up integers.
LEMMA HeldVector ==
  ASSUME TypeOK, NEW k \in Key
  PROVE  /\ [r \in Reservation |-> HeldBy(r, k)] \in [1..MaxReservations -> Int]
         /\ HeldFor(k) \in Int
<1>1. \A r \in Reservation : HeldBy(r, k) \in Int
  BY RowType DEF HeldBy
<1>2. [r \in Reservation |-> HeldBy(r, k)] \in [1..MaxReservations -> Int]
  BY <1>1 DEF Reservation
<1> QED
  BY <1>2, SumToType DEF HeldFor

\* The same after a step.
LEMMA HeldAfter ==
  ASSUME TypeOK', NEW k \in Key
  PROVE  HeldFor(k)' \in Int
<1> DEFINE y == [i \in Reservation |-> HeldBy(i, k)']
<1>1. y \in [1..MaxReservations -> Int]
  <2>1. \A i \in Reservation : HeldBy(i, k)' \in Int
    BY DEF HeldBy, TypeOK, Remaining
  <2> QED
    BY <2>1 DEF Reservation
<1>2. HeldFor(k)' = SumTo(y, MaxReservations)
  BY DEF HeldFor
<1> HIDE DEF y
<1> QED
  BY <1>1, <1>2, SumToType

\* When one row changes, what is held of a pair changes by what that row holds.
LEMMA HeldUpdate ==
  ASSUME TypeOK, TypeOK', NEW k \in Key, NEW r \in Reservation,
         \A i \in Reservation \ {r} : rsv'[i] = rsv[i]
  PROVE  HeldFor(k)' = HeldFor(k) + (HeldBy(r, k)' - HeldBy(r, k))
<1> DEFINE x == [i \in Reservation |-> HeldBy(i, k)]
           y == [i \in Reservation |-> HeldBy(i, k)']
<1>1. x \in [1..MaxReservations -> Int] /\ y \in [1..MaxReservations -> Int]
  <2>1. \A i \in Reservation : HeldBy(i, k) \in Int
    BY RowType DEF HeldBy
  <2>2. \A i \in Reservation : HeldBy(i, k)' \in Int
    BY DEF HeldBy, TypeOK, Remaining
  <2> QED
    BY <2>1, <2>2 DEF Reservation
<1>2. \A i \in 1..MaxReservations : i # r => y[i] = x[i]
  BY DEF HeldBy, Remaining, Reservation
<1>3. MaxReservations \in Nat /\ r \in 1..MaxReservations
  BY DEF Reservation
<1>4. SumTo(y, MaxReservations) = SumTo(x, MaxReservations) + (y[r] - x[r])
  <2> HIDE DEF x, y
  <2> QED
    BY <1>1, <1>2, <1>3, SumToUpdate
<1>5. HeldFor(k)' = SumTo(y, MaxReservations) /\ HeldFor(k) = SumTo(x, MaxReservations)
  BY DEF HeldFor
<1> QED
  BY <1>4, <1>5

\* When no row changes, nothing held does.
LEMMA HeldUnchanged ==
  ASSUME rsv' = rsv, NEW k
  PROVE  HeldFor(k)' = HeldFor(k)
BY DEF HeldFor, HeldBy, Remaining

\* A release whose reservation is no longer what it read.
StaleClose(c) ==
  /\ closing[c] # NoClose /\ closing'[c] = NoClose
  /\ \/ rsv[closing[c].rsv].status # "active"
     \/ Remaining(closing[c].rsv) # closing[c].remaining

\* How a step moves what is reserved of pair x and what is held of it.
HoldMove(x) ==
  \/ reserved'[x] - reserved[x] = HeldFor(x)' - HeldFor(x)
  \/ /\ reserved'[x] - reserved[x] <= HeldFor(x)' - HeldFor(x)
     /\ \E c \in Clerk : StaleClose(c)

\* Every step moves both alike, but for a stale release, which takes more from
\* what is reserved than its reservation still holds.
LEMMA HoldMoves ==
  ASSUME TypeOK, TypeOK', RequestInv, [Next]_vars, NEW x \in Key
  PROVE  HoldMove(x)
<1>1. reserved[x] \in Int /\ HeldFor(x) \in Int
  BY HeldVector DEF TypeOK, StockTypeOK
<1>2. StockTypeOK
  BY TypeParts
<1>3. ASSUME NEW r \in Reservation, NEW k \in Key, NEW w \in WorkOrder,
             NEW q \in Quantity, Reserve(r, k, w, q)
      PROVE  HoldMove(x)
  <2>1. q \in Nat
    BY QuantityType
  <2>2. reserved'[x] = IF x = k THEN reserved[x] + q ELSE reserved[x]
    BY <1>2, <1>3, <2>1, MutationEffect DEF Reserve
  <2>3. HeldFor(x)' = HeldFor(x) + (HeldBy(r, x)' - HeldBy(r, x))
    BY <1>3, ReserveRow, HeldUpdate
  <2>4. HeldBy(r, x) = 0 /\ HeldBy(r, x)' = IF x = k THEN q ELSE 0
    BY <1>3, <2>1, ReserveRow DEF HeldBy, Remaining
  <2> QED
    BY <1>1, <2>1, <2>2, <2>3, <2>4 DEF HoldMove
<1>4. ASSUME NEW r \in Reservation, NEW q \in Quantity, Consume(r, q)
      PROVE  HoldMove(x)
  <2>1. q \in Nat /\ -q \in Int /\ -q <= 0
    BY QuantityType
  <2>2. /\ rsv[r].key \in Key /\ rsv[r].qty \in Nat /\ rsv[r].consumed \in Nat
    BY RowType
  <2>3. reserved'[x] = IF x = rsv[r].key THEN reserved[x] - q ELSE reserved[x]
    BY <1>1, <1>2, <1>4, <2>1, <2>2, MutationEffect DEF Consume
  <2>4. HeldFor(x)' = HeldFor(x) + (HeldBy(r, x)' - HeldBy(r, x))
    BY <1>4, ConsumeRow, HeldUpdate
  <2>5. HeldBy(r, x)' = IF x = rsv[r].key THEN HeldBy(r, x) - q ELSE HeldBy(r, x)
    BY <1>4, <2>1, <2>2, ConsumeRow DEF HeldBy, Remaining
  <2>6. HeldBy(r, x) \in Int
    BY <2>2 DEF HeldBy, Remaining
  <2> QED
    BY <1>1, <2>1, <2>3, <2>4, <2>5, <2>6 DEF HoldMove
<1>5. ASSUME NEW c \in Clerk, CloseCommit(c)
      PROVE  HoldMove(x)
  <2> DEFINE n == closing[c].remaining
  <2>1. PICK r \in Reservation : r = closing[c].rsv
    BY <1>5, ClosingType DEF CloseCommit
  <2>2. /\ n \in Int /\ -n \in Int /\ 0 < n /\ Remaining(r) <= n
        /\ rsv[r].key \in Key /\ rsv[r].qty \in Nat /\ rsv[r].consumed \in Nat
    BY <1>5, <2>1, ClosingType, RowType DEF CloseCommit, RequestInv, PendingCloseCovers
  <2>3. ApplyMutation(rsv[r].key, 0, -n, "issue")
    BY <1>5, <2>1 DEF CloseCommit
  <2>4. /\ rsv'[r].status \in {"released", "cancelled"}
        /\ \A i \in Reservation \ {r} : rsv'[i] = rsv[i]
    BY <1>5, <2>1, CloseCommitRow
  <2> HIDE DEF n
  <2>5. reserved'[x] = IF x = rsv[r].key THEN reserved[x] + (-n) ELSE reserved[x]
    BY <1>2, <2>2, <2>3, MutationEffect
  <2>6. HeldFor(x)' = HeldFor(x) + (HeldBy(r, x)' - HeldBy(r, x))
    BY <2>4, HeldUpdate
  <2>7. HeldBy(r, x)' = 0
    BY <2>4 DEF HeldBy
  <2>8. HeldBy(r, x) \in Int /\ HeldBy(r, x) <= IF x = rsv[r].key THEN n ELSE 0
    BY <2>2 DEF HeldBy, Remaining
  <2>9. CASE rsv[r].status = "active" /\ Remaining(r) = n
    <3>1. HeldBy(r, x) = IF x = rsv[r].key THEN n ELSE 0
      BY <2>9 DEF HeldBy
    <3> QED
      BY <1>1, <2>2, <2>5, <2>6, <2>7, <3>1 DEF HoldMove
  <2>10. CASE ~(rsv[r].status = "active" /\ Remaining(r) = n)
    <3>1. closing[c] # NoClose /\ closing'[c] = NoClose
      BY <1>5, <2>1, CloseCommitRow DEF CloseCommit, TypeOK
    <3>2. StaleClose(c)
      BY <2>1, <2>10, <3>1 DEF StaleClose, n
    <3>3. reserved'[x] - reserved[x] <= HeldFor(x)' - HeldFor(x)
      BY <1>1, <2>2, <2>5, <2>6, <2>7, <2>8
    <3> QED
      BY <3>2, <3>3 DEF HoldMove
  <2> QED
    BY <2>9, <2>10
<1>6. ASSUME reserved' = reserved, rsv' = rsv
      PROVE  HoldMove(x)
  BY <1>1, <1>6, HeldUnchanged DEF HoldMove
<1>7. ASSUME \/ MovementNext
             \/ \E k \in Key, q \in Quantity : ReturnToStock(k, q)
             \/ ScanNext
             \/ \E k \in Key : LookUp(k) \/ LookDropped(k) \/ Publish(k)
             \/ UNCHANGED vars
      PROVE  reserved' = reserved
  <2>1. ASSUME NEW k \in Key, NEW d \in Int, NEW type, ApplyMutation(k, d, 0, type)
        PROVE  reserved' = reserved
    BY <1>2, <2>1 DEF ApplyMutation, StockTypeOK
  <2>2. \A q \in Quantity : q \in Int /\ -q \in Int
    BY QuantityType
  <2>3. CASE MovementNext
    <3>1. PICK k \in Key, q \in Quantity \cup {0}, d \in Int, to \in Warehouse :
            \/ CreatePart(k, q) \/ Adjust(k, d) \/ PurchaseIn(k, q)
            \/ DirectIssue(k, q) \/ Transfer(k[2], k[1], to, q)
      BY <2>3, MovementCases
    <3>2. q \in Int /\ -q \in Int
      BY QuantityType
    <3> QED
      BY <2>1, <3>1, <3>2 DEF CreatePart, Adjust, PurchaseIn, DirectIssue, Transfer
  <2>4. CASE \E k \in Key, q \in Quantity : ReturnToStock(k, q)
    BY <2>1, <2>2, <2>4 DEF ReturnToStock
  <2>5. CASE \/ ScanNext
             \/ \E k \in Key : LookUp(k) \/ LookDropped(k) \/ Publish(k)
             \/ UNCHANGED vars
    BY <2>5 DEF ScanNext, ScanStart, ScanFind, ScanWrite, LookUp,
                LookDropped, Publish, PublishLowStock,
                vars, stockVars
  <2> QED
    BY <1>7, <2>3, <2>4, <2>5
<1>8. ASSUME \/ \E c \in Clerk, r \in Reservation, to \in {"released", "cancelled"} :
                  CloseRead(c, r, to)
             \/ \E c \in Clerk : CloseAbort(c)
      PROVE  reserved' = reserved /\ rsv' = rsv
  BY <1>8 DEF CloseRead, CloseAbort, stockVars
<1> QED
  BY <1>3, <1>4, <1>5, <1>6, <1>7, <1>8, StepsThatKeepRows DEF Next, ReservationNext

\* Every step keeps reserved below what the active reservations hold.
LEMMA HoldStep ==
  TypeOK /\ TypeOK' /\ RequestInv /\ NoPhantomHold /\ [Next]_vars => NoPhantomHold'
<1> SUFFICES ASSUME TypeOK, TypeOK', RequestInv, NoPhantomHold, [Next]_vars,
                    NEW x \in Key
             PROVE  reserved'[x] <= HeldFor(x)'
  BY DEF NoPhantomHold
<1>1. reserved[x] \in Int /\ HeldFor(x) \in Int /\ reserved[x] <= HeldFor(x)
  BY HeldVector DEF NoPhantomHold, TypeOK, StockTypeOK
<1>2. reserved'[x] \in Int /\ HeldFor(x)' \in Int
  BY HeldAfter DEF TypeOK, StockTypeOK
<1>3. reserved'[x] - reserved[x] <= HeldFor(x)' - HeldFor(x)
  BY <1>1, <1>2, HoldMoves DEF HoldMove
<1> QED
  BY <1>1, <1>2, <1>3

-----------------------------------------------------------------------------
\* The open alerts of pair k after a step: none is new, or there is one at most.
FewAlerts(k) ==
  \/ OpenRows(alert'[k]) \subseteq OpenRows(alert[k])
  \/ \E a \in AlertRow : OpenRows(alert'[k]) \subseteq {a}

\* Who adds an alert to others: a scan or a movement that found none before.
Overlap(k) ==
  \/ /\ scanRow # NoScan /\ scanRow' = NoScan
     /\ scanRow.key = k /\ scanRow.row = NoRow
  \/ looked[k].row = NoRow /\ looked'[k] = NoLook

\* A refresh that found an open row opens no other.
LEMMA RefreshedFew ==
  ASSUME NEW rows \in [AlertRow -> AlertState], NEW found \in FoundType,
         found.row # NoRow, NEW level, NEW inUse,
         NEW next \in Refreshed(rows, found, level, inUse)
  PROVE  OpenRows(next) \subseteq OpenRows(rows)
<1>1. next = [rows EXCEPT ![found.row] = Updated(@, found.level, level)]
  BY DEF Refreshed
<1>2. \A a \in AlertRow : next[a] # "closed" => rows[a] # "closed"
  BY <1>1 DEF Updated
<1> QED
  BY <1>2 DEF OpenRows

\* A movement that looks and writes without interruption, or found an open row
\* before, opens an alert only where none is open.
LEMMA NextRowsFew ==
  ASSUME NEW rows \in [AlertRow -> AlertState], NEW level, NEW inUse,
         NEW seen \in {NoLook} \cup FoundType, seen.row # NoRow,
         NEW next \in NextRows(rows, seen, level, inUse)
  PROVE  \/ OpenRows(next) \subseteq OpenRows(rows)
         \/ \E a \in AlertRow : OpenRows(next) \subseteq {a}
<1>1. PICK found \in FoundType :
        /\ next \in Refreshed(rows, found, level, inUse)
        /\ seen = NoLook => found \in Findable(rows)
        /\ seen # NoLook => found = seen
  BY FindableType DEF NextRows
<1>2. CASE found.row # NoRow
  BY <1>1, <1>2, RefreshedFew
<1>3. CASE found.row = NoRow
  <2>1. OpenRows(rows) = {}
    <3>1. found \in Findable(rows)
      BY <1>1, <1>3
    <3>2. NoRow \notin OpenRows(rows)
      BY DEF NoRow, OpenRows
    <3> QED
      BY <1>3, <3>1, <3>2 DEF Findable
  <2>2. \/ next = rows
        \/ \E a \in AlertRow : next = [rows EXCEPT ![a] = level]
    BY <1>1, <1>3 DEF Refreshed, FreshRow
  <2> QED
    BY <2>1, <2>2 DEF OpenRows
<1> QED
  BY <1>2, <1>3

\* The same of a movement's whole refresh, for every pair.
LEMMA RefreshFew ==
  ASSUME TypeOK, NEW k \in Key, Refresh(k)
  PROVE  \A x \in Key : FewAlerts(x) \/ Overlap(x)
<1>0. PICK level : \E rows \in NextRows(alert[k], looked[k], level, HeldByScan(k)) :
        alert' = [alert EXCEPT ![k] = rows]
  BY DEF Refresh, RefreshAlert
<1>1. PICK rows \in NextRows(alert[k], looked[k], level, HeldByScan(k)) :
        alert' = [alert EXCEPT ![k] = rows]
  BY <1>0
<1>2. /\ alert[k] \in [AlertRow -> AlertState]
      /\ alert \in [Key -> [AlertRow -> AlertState]]
      /\ looked \in [Key -> {NoLook} \cup FoundType]
      /\ looked[k] \in {NoLook} \cup FoundType
  BY TypeParts DEF StockTypeOK, LookTypeOK
<1>3. \A x \in Key : alert'[x] = IF x = k THEN rows ELSE alert[x]
  BY <1>1, <1>2
<1>4. looked'[k] = NoLook
  BY <1>2 DEF Refresh
<1>5. CASE looked[k].row = NoRow
  BY <1>3, <1>4, <1>5 DEF FewAlerts, Overlap
<1>6. CASE looked[k].row # NoRow
  <2>1. \/ OpenRows(rows) \subseteq OpenRows(alert[k])
        \/ \E a \in AlertRow : OpenRows(rows) \subseteq {a}
    BY <1>1, <1>2, <1>6, NextRowsFew
  <2> QED
    BY <1>3, <2>1 DEF FewAlerts
<1> QED
  BY <1>5, <1>6

\* Only the scan or a movement that found no open alert in an earlier step can
\* add one to others.
LEMMA AlertStep ==
  ASSUME TypeOK, [Next]_vars, NEW k \in Key
  PROVE  FewAlerts(k) \/ Overlap(k)
<1>1. CASE alert' = alert
  BY <1>1 DEF FewAlerts
<1>2. CASE MovementNext
  <2>1. PICK x \in Key, q \in Quantity \cup {0}, d \in Int, to \in Warehouse :
          \/ CreatePart(x, q) \/ Adjust(x, d) \/ PurchaseIn(x, q)
          \/ DirectIssue(x, q) \/ Transfer(x[2], x[1], to, q)
    BY <1>2, MovementCases
  <2>2. CASE CreatePart(x, q) \/ DirectIssue(x, q)
    BY <1>1, <2>2 DEF CreatePart, DirectIssue, NoAlertRefresh
  <2>3. CASE Adjust(x, d) \/ PurchaseIn(x, q)
    BY <2>3, RefreshFew DEF Adjust, PurchaseIn
  <2>4. CASE Transfer(x[2], x[1], to, q)
    <3> DEFINE a == <<x[1], x[2]>>
               b == <<to, x[2]>>
               levelOf(y) == AlertLevel(onHand'[y], reserved[y], MinStock[x[2]])
    <3>1. PICK ra \in NextRows(alert[a], looked[a], levelOf(a), HeldByScan(a)),
               rb \in NextRows(alert[b], looked[b], levelOf(b), HeldByScan(b)) :
                 alert' = [alert EXCEPT ![a] = ra, ![b] = rb]
      BY <2>4 DEF Transfer
    <3>2. a \in Key /\ b \in Key
      BY DEF Key
    <3>3. /\ alert \in [Key -> [AlertRow -> AlertState]]
          /\ looked \in [Key -> {NoLook} \cup FoundType]
      BY TypeParts DEF StockTypeOK, LookTypeOK
    <3>a. looked' = [looked EXCEPT ![a] = NoLook, ![b] = NoLook]
      BY <2>4 DEF Transfer
    <3> HIDE DEF a, b
    <3>4. alert'[k] = IF k = b THEN rb ELSE IF k = a THEN ra ELSE alert[k]
      BY <3>1, <3>2, <3>3
    <3>5. /\ alert[a] \in [AlertRow -> AlertState]
          /\ alert[b] \in [AlertRow -> AlertState]
          /\ looked[a] \in {NoLook} \cup FoundType
          /\ looked[b] \in {NoLook} \cup FoundType
          /\ looked'[a] = NoLook /\ looked'[b] = NoLook
      BY <3>2, <3>3, <3>a
    <3>6. /\ looked[a].row # NoRow =>
               \/ OpenRows(ra) \subseteq OpenRows(alert[a])
               \/ \E i \in AlertRow : OpenRows(ra) \subseteq {i}
          /\ looked[b].row # NoRow =>
               \/ OpenRows(rb) \subseteq OpenRows(alert[b])
               \/ \E i \in AlertRow : OpenRows(rb) \subseteq {i}
      BY <3>1, <3>5, NextRowsFew
    <3>7. CASE k = b
      BY <3>4, <3>5, <3>7, <3>6 DEF FewAlerts, Overlap
    <3>8. CASE k # b /\ k = a
      BY <3>4, <3>5, <3>8, <3>6 DEF FewAlerts, Overlap
    <3>9. CASE k # b /\ k # a
      BY <3>4, <3>9 DEF FewAlerts
    <3> QED
      BY <3>7, <3>8, <3>9
  <2> QED
    BY <2>1, <2>2, <2>3, <2>4
<1>3. CASE ReservationNext
  <2>1. ASSUME NEW r \in Reservation, NEW x \in Key, NEW w \in WorkOrder,
               NEW q \in Quantity, Reserve(r, x, w, q)
        PROVE  FewAlerts(k) \/ Overlap(k)
    BY <2>1, RefreshFew DEF Reserve
  <2>2. ASSUME NEW r \in Reservation, NEW q \in Quantity, Consume(r, q)
        PROVE  FewAlerts(k) \/ Overlap(k)
    BY <2>2, RowType, RefreshFew DEF Consume
  <2>3. ASSUME NEW c \in Clerk, CloseCommit(c)
        PROVE  FewAlerts(k) \/ Overlap(k)
    <3>1. /\ rsv[closing[c].rsv].key \in Key
          /\ Refresh(rsv[closing[c].rsv].key)
      BY <2>3, ClosingType DEF CloseCommit
    <3> QED
      BY <3>1, RefreshFew
  <2>4. ASSUME NEW x \in Key, NEW q \in Quantity, ReturnToStock(x, q)
        PROVE  FewAlerts(k) \/ Overlap(k)
    BY <2>4, RefreshFew DEF ReturnToStock
  <2>5. CASE \/ \E c \in Clerk, r \in Reservation, to \in {"released", "cancelled"} :
                  CloseRead(c, r, to)
             \/ \E c \in Clerk : CloseAbort(c)
    BY <1>1, <2>5 DEF CloseRead, CloseAbort, stockVars
  <2> QED
    BY <1>3, <2>1, <2>2, <2>3, <2>4, <2>5 DEF ReservationNext
<1>4. CASE ScanWrite
  <2> DEFINE x == scanRow.key
             found == [row |-> scanRow.row, level |-> scanRow.level]
  <2>1. /\ scanRow # NoScan /\ scanRow' = NoScan
    BY <1>4 DEF ScanWrite
  <2>2. PICK level : \E rows \in Refreshed(alert[x], found, level, {looked[x].row}) :
          alert' = [alert EXCEPT ![x] = rows]
    BY <1>4 DEF ScanWrite
  <2>3. PICK rows \in Refreshed(alert[x], found, level, {looked[x].row}) :
          alert' = [alert EXCEPT ![x] = rows]
    BY <2>2
  <2>4. x \in Key /\ found \in FoundType
    BY <2>1 DEF TypeOK, FoundType
  <2>5. alert \in [Key -> [AlertRow -> AlertState]]
    BY DEF TypeOK, StockTypeOK
  <2>6. CASE k # x
    BY <2>3, <2>5, <2>6 DEF FewAlerts
  <2>7. CASE k = x /\ scanRow.row = NoRow
    BY <2>1, <2>7 DEF Overlap
  <2>8. CASE k = x /\ scanRow.row # NoRow
    <3>1. found.row # NoRow /\ alert[x] \in [AlertRow -> AlertState] /\ alert'[x] = rows
      BY <2>3, <2>4, <2>5, <2>8
    <3> HIDE DEF found, x
    <3>2. OpenRows(rows) \subseteq OpenRows(alert[x])
      BY <2>3, <2>4, <3>1, RefreshedFew
    <3> QED
      BY <2>8, <3>1, <3>2 DEF FewAlerts
  <2> QED
    BY <2>6, <2>7, <2>8
<1>5. CASE \/ ScanStart
           \/ \E x \in Key : ScanFind(x) \/ LookUp(x) \/ LookDropped(x) \/ Publish(x)
           \/ UNCHANGED vars
  BY <1>1, <1>5 DEF ScanStart, ScanFind, LookUp, LookDropped, Publish,
                    PublishLowStock, vars, stockVars
<1> QED
  BY <1>2, <1>3, <1>4, <1>5 DEF Next, ScanNext

\* Open rows are rows of a finite table, so there are finitely many.
LEMMA FewAlertsCount ==
  ASSUME NEW k, FewAlerts(k)
  PROVE  ~(/\ Cardinality(OpenRows(alert'[k])) > 1
           /\ Cardinality(OpenRows(alert'[k])) > Cardinality(OpenRows(alert[k])))
<1> DEFINE before == OpenRows(alert[k])
           after  == OpenRows(alert'[k])
<1>1. IsFiniteSet(before) /\ IsFiniteSet(after)
  <2>1. before \in SUBSET AlertRow /\ after \in SUBSET AlertRow
    BY DEF OpenRows
  <2>2. IsFiniteSet(AlertRow)
    OBVIOUS
  <2> HIDE DEF before, after
  <2> QED
    BY <2>1, <2>2, FS_Subset
<1>2. after \subseteq before \/ \E a \in AlertRow : after \subseteq {a}
  BY DEF FewAlerts
<1> HIDE DEF before, after
<1>3. Cardinality(before) \in Nat /\ Cardinality(after) \in Nat
  BY <1>1, FS_CardinalityType
<1>4. CASE after \subseteq before
  <2>1. Cardinality(after) <= Cardinality(before)
    BY <1>1, <1>4, FS_Subset
  <2> QED
    BY <1>3, <2>1 DEF before, after
<1>5. ASSUME NEW a \in AlertRow, after \subseteq {a}
      PROVE  Cardinality(after) <= 1
  <2>1. IsFiniteSet({a}) /\ Cardinality({a}) = 1
    BY FS_Singleton
  <2>2. after \in SUBSET {a}
    BY <1>5
  <2>3. Cardinality(after) <= Cardinality({a})
    BY <2>1, <2>2, FS_Subset
  <2> QED
    BY <2>1, <2>3
<1> QED
  BY <1>2, <1>3, <1>4, <1>5 DEF before, after

-----------------------------------------------------------------------------
IInv == TypeOK /\ StockInv /\ RequestInv /\ NoPhantomHold

\* The inductive invariant holds initially: all balances and rows are empty.
LEMMA InitIInv == Init => IInv
<1> SUFFICES ASSUME Init PROVE IInv
  OBVIOUS
<1>1. /\ (CHOOSE k \in Key : TRUE) \in Key
      /\ (CHOOSE w \in WorkOrder : TRUE) \in WorkOrder
  <2>1. PICK house \in Warehouse, p \in Part : TRUE
    OBVIOUS
  <2>2. \E k \in Key : TRUE
    <3>1. <<house, p>> \in Key
      BY DEF Key
    <3> QED
      BY <3>1
  <2>3. \E w \in WorkOrder : TRUE
    OBVIOUS
  <2> QED
    BY <2>2, <2>3
<1>2. StockTypeOK
  BY DEF Init, StockInit, StockTypeOK, AlertState
<1>3. RequestTypeOK
  BY <1>1 DEF Init, RequestTypeOK, RowStatus, NoClose
<1>4. ScanTypeOK
  BY DEF Init, ScanTypeOK
<1>5. StockInv
  BY DEF Init, StockInit, StockInv, StockConsistent, Consistent, LedgerAgrees,
         UnstockedEmpty
<1>6. RequestInv
  BY DEF Init, RequestInv, ConsumptionBounded, PendingCloseCovers, Remaining
<1>7. NoPhantomHold
  <2>1. ASSUME NEW k \in Key
        PROVE  HeldFor(k) = 0
    <3> DEFINE x == [r \in Reservation |-> HeldBy(r, k)]
    <3>1. \A i \in 1..MaxReservations : x[i] = 0
      BY DEF Init, HeldBy, Reservation
    <3> HIDE DEF x
    <3>2. SumTo(x, MaxReservations) = 0
      BY <3>1, SumToZero
    <3> QED
      BY <3>2 DEF HeldFor, x
  <2> QED
    BY <2>1 DEF Init, StockInit, NoPhantomHold
<1>8. LookTypeOK
  BY DEF Init, LookTypeOK
<1> QED
  BY <1>2, <1>3, <1>4, <1>5, <1>6, <1>7, <1>8, TypeParts DEF IInv

\* Every step keeps the inductive invariant.
LEMMA StepIInv == IInv /\ [Next]_vars => IInv'
BY TypeStep, StockStep, RequestStep, HoldStep DEF IInv

\* The inductive invariant holds in every reachable state.
LEMMA IInvInvariant == Spec => []IInv
BY InitIInv, StepIInv, PTL DEF Spec

-----------------------------------------------------------------------------
\* Every variable keeps its type, for every instance of the model.
THEOREM TypeCorrect == Spec => []TypeOK
BY IInvInvariant, PTL DEF IInv

\* No interleaving of movements, reservations, stale releases and scans makes
\* a balance negative or promises more than is on the shelf.
THEOREM BalancesStayConsistent == Spec => []StockConsistent
BY IInvInvariant, PTL DEF IInv, StockInv

\* The ledger always explains the shelf.
THEOREM LedgerExplainsShelf == Spec => []LedgerAgrees
BY IInvInvariant, PTL DEF IInv, StockInv

\* Releases that act on a stale reading can lose holds but never leave stock
\* reserved for nobody.
THEOREM NoStockHeldForNobody == Spec => []NoPhantomHold
BY IInvInvariant, PTL DEF IInv

\* A reservation is never consumed beyond its quantity.
THEOREM ConsumptionStaysBounded == Spec => []ConsumptionBounded
BY IInvInvariant, PTL DEF IInv, RequestInv

\* A closed reservation stays closed and nothing more is consumed from it.
THEOREM ClosedReservationsStayClosed == Spec => ClosedStaysClosed
<1>1. TypeOK /\ [Next]_vars =>
        [\A r \in Reservation :
           rsv[r].status \notin {"none", "active"} =>
             /\ rsv'[r].status \notin {"none", "active"}
             /\ rsv'[r].consumed = rsv[r].consumed]_vars
  <2> SUFFICES ASSUME TypeOK, Next, NEW x \in Reservation,
                      rsv[x].status \notin {"none", "active"}
               PROVE  /\ rsv'[x].status \notin {"none", "active"}
                      /\ rsv'[x].consumed = rsv[x].consumed
    OBVIOUS
  <2>1. ASSUME NEW r \in Reservation, NEW k \in Key, NEW w \in WorkOrder,
               NEW q \in Quantity, Reserve(r, k, w, q)
        PROVE  rsv'[x] = rsv[x]
    BY <2>1, ReserveRow
  <2>2. ASSUME NEW r \in Reservation, NEW q \in Quantity, Consume(r, q)
        PROVE  rsv'[x] = rsv[x]
    BY <2>2, ConsumeRow
  <2>3. ASSUME NEW c \in Clerk, CloseCommit(c)
        PROVE  /\ rsv'[x].status \notin {"none", "active"}
               /\ rsv'[x].consumed = rsv[x].consumed
    BY <2>3, CloseCommitRow
  <2>4. ASSUME \/ \E c \in Clerk, r \in Reservation, to \in {"released", "cancelled"} :
                    CloseRead(c, r, to)
               \/ \E c \in Clerk : CloseAbort(c)
        PROVE  rsv' = rsv
    BY <2>4 DEF CloseRead, CloseAbort
  <2> QED
    BY <2>1, <2>2, <2>3, <2>4, StepsThatKeepRows DEF Next, ReservationNext
<1> QED
  BY <1>1, TypeCorrect, PTL DEF Spec, ClosedStaysClosed

\* What is reserved of a pair stops being what its active reservations hold only
\* in the step of a release whose reservation changed after it was read.
THEOREM HoldsDriftByStaleClose == Spec => HoldsDriftOnlyByStaleClose
<1>1. IInv /\ IInv' /\ [Next]_vars =>
        [\A k \in Key :
           reserved[k] = HeldFor(k) /\ reserved'[k] # HeldFor(k)' =>
             \E c \in Clerk :
               /\ closing[c] # NoClose /\ closing'[c] = NoClose
               /\ \/ rsv[closing[c].rsv].status # "active"
                  \/ Remaining(closing[c].rsv) # closing[c].remaining]_vars
  <2> SUFFICES ASSUME IInv, IInv', [Next]_vars, NEW k \in Key,
                      reserved[k] = HeldFor(k), reserved'[k] # HeldFor(k)'
               PROVE  \E c \in Clerk : StaleClose(c)
    BY DEF StaleClose
  <2>1. /\ reserved[k] \in Int /\ HeldFor(k) \in Int
        /\ reserved'[k] \in Int /\ HeldFor(k)' \in Int
    BY HeldVector, HeldAfter DEF IInv, TypeOK, StockTypeOK
  <2>2. HoldMove(k)
    BY HoldMoves DEF IInv
  <2> QED
    BY <2>1, <2>2 DEF HoldMove
<1> QED
  BY <1>1, IInvInvariant, PTL DEF Spec, HoldsDriftOnlyByStaleClose

\* A second open alert of a pair is only ever added by the scan or by a movement
\* that looked for an open one in an earlier step and found none.
THEOREM DuplicateAlertsOverlap == Spec => DuplicateAlertNeedsOverlap
<1>1. TypeOK /\ [Next]_vars =>
        [\A k \in Key :
           LET before == Cardinality(OpenRows(alert[k]))
               after  == Cardinality(OpenRows(alert'[k]))
           IN  after > 1 /\ after > before =>
                 \/ /\ scanRow # NoScan /\ scanRow' = NoScan
                    /\ scanRow.key = k /\ scanRow.row = NoRow
                 \/ looked[k].row = NoRow /\ looked'[k] = NoLook]_vars
  BY AlertStep, FewAlertsCount DEF Overlap
<1> QED
  BY <1>1, TypeCorrect, PTL DEF Spec, DuplicateAlertNeedsOverlap
=============================================================================
