----------------------------- MODULE Inventory ------------------------------
(***************************************************************************)
(* Stock movements and part reservations: InventoryService,                *)
(* ReservationService, PartsService.create and the nightly LowStockScan,   *)
(* over the tables of module Stock.                                        *)
(*                                                                         *)
(* Every routine runs in one database transaction that locks the balance   *)
(* it changes, so each is one action, with three exceptions that act on    *)
(* what was read before:                                                   *)
(*   - release and cancel read the reservation's status and remaining      *)
(*     quantity before their transaction begins (CloseRead, then           *)
(*     CloseCommit);                                                       *)
(*   - the scan reads all balances once, then refreshes each alert in a    *)
(*     transaction of its own that does not lock the balance (ScanStart,   *)
(*     then ScanFind and ScanWrite per pair);                              *)
(*   - because the scan does not lock the balance, it can commit between a *)
(*     movement's search for an open alert and its write (LookUp, then the *)
(*     movement).                                                          *)
(***************************************************************************)
EXTENDS Stock, Totals

CONSTANTS WorkOrder,        \* work orders parts are reserved for
          MaxReservations,  \* bound: rows of stock_reservations
          Clerk,            \* requests that may release at the same time
          Quantity,         \* quantities a request can ask for
          ScanTake,         \* balances one scan reads at most
          Overlapped        \* bound: pairs on which a scan may come between a
                            \* movement's search for an alert and its write

ASSUME InventoryAssumption ==
  /\ MaxReservations \in Nat
  /\ Quantity \subseteq Nat \ {0}
  /\ ScanTake \in Nat \ {0}
  /\ Overlapped \subseteq Key
  /\ WorkOrder # {}

VARIABLES rsv,       \* stock_reservations, by id
          closing,   \* per clerk, what a release has read and not committed
          scanList,  \* available quantity read by the scan, for pairs to do
          scanRow,   \* the pair the scan is on and the open row it found
          looked     \* per pair, the alert found by the movement that has it locked

reservationVars == <<rsv, closing>>
scanVars == <<scanList, scanRow>>
vars == <<stockVars, reservationVars, scanVars, looked>>

Reservation == 1..MaxReservations

NoClose == [rsv |-> 0, remaining |-> 0, to |-> "none"]
NoScan == [key |-> <<>>, available |-> 0, row |-> -1, level |-> "none"]

RowStatus == {"none", "active", "consumed", "released", "cancelled"}

TypeOK ==
  /\ StockTypeOK
  /\ rsv \in [Reservation -> [status: RowStatus, key: Key, wo: WorkOrder,
                              qty: Nat, consumed: Nat]]
  /\ closing \in [Clerk -> {NoClose} \cup
                           [rsv: Reservation, remaining: Int,
                            to: {"released", "cancelled"}]]
  /\ \E keys \in SUBSET Key : scanList \in [keys -> Int]
  /\ scanRow \in {NoScan} \cup [key: Key, available: Int,
                                row: AlertRow \cup {NoRow},
                                level: AlertState]
  /\ looked \in [Key -> {NoLook} \cup [row: AlertRow \cup {NoRow},
                                       level: AlertState]]

Init ==
  /\ StockInit
  /\ rsv = [r \in Reservation |->
              [status |-> "none", key |-> CHOOSE k \in Key : TRUE,
               wo |-> CHOOSE w \in WorkOrder : TRUE, qty |-> 0, consumed |-> 0]]
  /\ closing = [c \in Clerk |-> NoClose]
  /\ scanList = [k \in {} |-> 0]
  /\ scanRow = NoScan
  /\ looked = [k \in Key |-> NoLook]

\* Alert rows of pair k whose id the scan holds.
HeldByScan(k) == IF scanRow # NoScan /\ scanRow.key = k THEN {scanRow.row} ELSE {}

\* The refreshAlert of a movement on pair k, with what it found if it looked
\* in an earlier step.
Refresh(k) ==
  /\ RefreshAlert(k, looked[k], HeldByScan(k))
  /\ looked' = [looked EXCEPT ![k] = NoLook]

\* A movement that holds the lock of pair k runs refreshAlert's findFirst. Only
\* the scan writes an alert without that lock, so the step matters, and is
\* taken, only while the scan is on the pair.
LookUp(k) ==
  /\ k \in Overlapped
  /\ Known(k[2])
  /\ looked[k] = NoLook
  /\ scanRow # NoScan /\ scanRow.key = k
  /\ \E found \in Findable(alert[k]) : looked' = [looked EXCEPT ![k] = found]
  /\ UNCHANGED <<stockVars, reservationVars, scanVars>>

\* The transaction that looked is rolled back and gives up its lock.
LookDropped(k) ==
  /\ looked[k] # NoLook
  /\ looked' = [looked EXCEPT ![k] = NoLook]
  /\ UNCHANGED <<stockVars, reservationVars, scanVars>>

-----------------------------------------------------------------------------
\* PartsService.create: the part, its balance in the default warehouse and,
\* for a positive initial quantity, an adjustment row. No alert is refreshed.
CreatePart(k, q) ==
  /\ ~Known(k[2])
  /\ q <= MaxOnHand
  /\ onHand'  = [onHand EXCEPT ![k] = q]
  /\ ledger'  = [ledger EXCEPT ![k] = @ + q]
  /\ stocked' = stocked \cup {k}
  /\ UNCHANGED <<reserved, alert, lowStock, reservationVars, scanVars, looked>>

\* InventoryService.adjust: delta is any non-zero quantity.
Adjust(k, delta) ==
  /\ Known(k[2])
  /\ onHand[k] + delta <= MaxOnHand
  /\ ApplyMutation(k, delta, 0, "adjustment")
  /\ Refresh(k)
  /\ UNCHANGED <<reservationVars, scanVars>>

\* A goods receipt line: GoodsReceiptsService.receive puts q on the shelf.
PurchaseIn(k, q) ==
  /\ Known(k[2])
  /\ onHand[k] + q <= MaxOnHand
  /\ ApplyMutation(k, q, 0, "purchase_in")
  /\ Refresh(k)
  /\ UNCHANGED <<reservationVars, scanVars>>

\* A tire sale line, a cafe ingredient draw or a waste entry: the callers
\* outside the inventory module take stock and do not refresh the alert.
DirectIssue(k, q) ==
  /\ Known(k[2])
  /\ ApplyMutation(k, -q, 0, "issue")
  /\ looked[k] = NoLook
  /\ NoAlertRefresh
  /\ UNCHANGED <<reservationVars, scanVars, looked>>

\* Mutant: only the outgoing side of a transfer is written to the ledger.
TransferOneSided(p, from, to, q) ==
  LET a == <<from, p>>
      b == <<to, p>>
  IN  /\ Known(p) /\ from # to
      /\ onHand[b] + q <= MaxOnHand
      /\ Consistent(onHand[a] - q, reserved[a])
      /\ onHand'  = [onHand EXCEPT ![a] = @ - q, ![b] = @ + q]
      /\ ledger'  = [ledger EXCEPT ![a] = @ - q]
      /\ stocked' = stocked \cup {a, b}
      /\ NoAlertRefresh
      /\ UNCHANGED <<reserved, reservationVars, scanVars, looked>>

\* InventoryService.transfer: out of one warehouse and into another, both
\* balances locked in one transaction, both alerts refreshed at its end.
Transfer(p, from, to, q) ==
  LET a == <<from, p>>
      b == <<to, p>>
  IN  /\ Known(p) /\ from # to
      /\ onHand[b] + q <= MaxOnHand
      /\ Consistent(onHand[a] - q, reserved[a])
      /\ Consistent(onHand[b] + q, reserved[b])
      /\ onHand'  = [onHand EXCEPT ![a] = @ - q, ![b] = @ + q]
      /\ ledger'  = [ledger EXCEPT ![a] = @ + LedgerQty("transfer_out", -q),
                                   ![b] = @ + LedgerQty("transfer_in", q)]
      /\ stocked' = stocked \cup {a, b}
      /\ LET levelOf(k) == AlertLevel(onHand'[k], reserved[k], MinStock[p])
         IN  /\ \E ra \in NextRows(alert[a], looked[a], levelOf(a), HeldByScan(a)),
                   rb \in NextRows(alert[b], looked[b], levelOf(b), HeldByScan(b)) :
                   alert' = [alert EXCEPT ![a] = ra, ![b] = rb]
             /\ lowStock' = lowStock \cup Announce(a, levelOf(a))
                                     \cup Announce(b, levelOf(b))
      /\ looked' = [looked EXCEPT ![a] = NoLook, ![b] = NoLook]
      /\ UNCHANGED <<reserved, reservationVars, scanVars>>

-----------------------------------------------------------------------------
Remaining(r) == rsv[r].qty - rsv[r].consumed

\* ReservationService.reserve: hold q for work order w, in a new row r.
Reserve(r, k, w, q) ==
  /\ rsv[r].status = "none"
  /\ \A i \in Reservation : i < r => rsv[i].status # "none"
  /\ Known(k[2])
  /\ ApplyMutation(k, 0, q, "issue")
  /\ rsv' = [rsv EXCEPT ![r] = [status |-> "active", key |-> k, wo |-> w,
                                qty |-> q, consumed |-> 0]]
  /\ Refresh(k)
  /\ UNCHANGED <<closing, scanVars>>

\* Mutant: the quantity is not compared with what the reservation holds.
ConsumeUnbounded(r, q) ==
  /\ rsv[r].status = "active"
  /\ ApplyMutation(rsv[r].key, -q, -q, "consume")
  /\ rsv' = [rsv EXCEPT ![r].consumed = @ + q,
                        ![r].status = IF q = Remaining(r) THEN "consumed"
                                                          ELSE "active"]
  /\ Refresh(rsv[r].key)
  /\ UNCHANGED <<closing, scanVars>>

\* Mutant: consumption takes the stock and forgets the hold.
ConsumeKeepsHold(r, q) ==
  /\ rsv[r].status = "active"
  /\ q <= Remaining(r)
  /\ ApplyMutation(rsv[r].key, -q, 0, "consume")
  /\ rsv' = [rsv EXCEPT ![r].consumed = @ + q,
                        ![r].status = IF q = Remaining(r) THEN "consumed"
                                                          ELSE "active"]
  /\ Refresh(rsv[r].key)
  /\ UNCHANGED <<closing, scanVars>>

\* ReservationService.consume: the row is locked first, so its status and
\* remaining quantity are current.
Consume(r, q) ==
  /\ rsv[r].status = "active"
  /\ q <= Remaining(r)
  /\ ApplyMutation(rsv[r].key, -q, -q, "consume")
  /\ rsv' = [rsv EXCEPT ![r].consumed = @ + q,
                        ![r].status = IF q = Remaining(r) THEN "consumed"
                                                          ELSE "active"]
  /\ Refresh(rsv[r].key)
  /\ UNCHANGED <<closing, scanVars>>

\* ReservationService.returnToStock: nothing is compared with what the work
\* order consumed.
ReturnToStock(k, q) ==
  /\ Known(k[2])
  /\ onHand[k] + q <= MaxOnHand
  /\ ApplyMutation(k, q, 0, "return")
  /\ Refresh(k)
  /\ UNCHANGED <<rsv, closing, scanVars>>

\* closeReservation before its transaction: findOrFail and the status check.
CloseRead(c, r, to) ==
  /\ closing[c] = NoClose
  /\ rsv[r].status = "active"
  /\ closing' = [closing EXCEPT ![c] = [rsv |-> r, remaining |-> Remaining(r),
                                        to |-> to]]
  /\ UNCHANGED <<stockVars, rsv, scanVars, looked>>

\* Mutant: the status is set and the hold is kept.
CloseCommitKeepsHold(c) ==
  LET r == closing[c].rsv
  IN  /\ closing[c] # NoClose
      /\ rsv' = [rsv EXCEPT ![r].status = closing[c].to]
      /\ closing' = [closing EXCEPT ![c] = NoClose]
      /\ UNCHANGED <<stockVars, scanVars, looked>>

\* The transaction: give back the quantity read before, set the status. The
\* row is not read again.
CloseCommit(c) ==
  LET r == closing[c].rsv
      k == rsv[r].key
  IN  /\ closing[c] # NoClose
      /\ ApplyMutation(k, 0, -closing[c].remaining, "issue")
      /\ rsv' = [rsv EXCEPT ![r].status = closing[c].to]
      /\ Refresh(k)
      /\ closing' = [closing EXCEPT ![c] = NoClose]
      /\ UNCHANGED <<scanVars>>

\* The same transaction rolled back: assertConsistent finds the hold gone.
CloseAbort(c) ==
  LET k == rsv[closing[c].rsv].key
  IN  /\ closing[c] # NoClose
      /\ looked[k] = NoLook
      /\ ~Consistent(onHand[k], reserved[k] - closing[c].remaining)
      /\ closing' = [closing EXCEPT ![c] = NoClose]
      /\ UNCHANGED <<stockVars, rsv, scanVars, looked>>

-----------------------------------------------------------------------------
\* LowStockScanService.scan reads balances once: any ScanTake of them, since
\* the query has a limit and no order.
ScanStart ==
  /\ DOMAIN scanList = {} /\ scanRow = NoScan
  /\ \E keys \in SUBSET stocked :
       /\ Cardinality(keys) <= ScanTake
       /\ keys = stocked \/ Cardinality(keys) = ScanTake
       /\ scanList' = [k \in keys |-> onHand[k] - reserved[k]]
  /\ UNCHANGED <<stockVars, reservationVars, scanRow, looked>>

\* One pair's refreshAlert: its findFirst, with the quantity read earlier.
ScanFind(k) ==
  /\ scanRow = NoScan
  /\ k \in DOMAIN scanList
  /\ \E found \in Findable(alert[k]) :
       scanRow' = [key |-> k, available |-> scanList[k], row |-> found.row,
                   level |-> found.level]
  /\ scanList' = [x \in DOMAIN scanList \ {k} |-> scanList[x]]
  /\ UNCHANGED <<stockVars, reservationVars, looked>>

\* The rest of refreshAlert: create, relabel or close, and emit.
ScanWrite ==
  LET k     == scanRow.key
      level == AlertLevel(scanRow.available, 0, MinStock[k[2]])
      found == [row |-> scanRow.row, level |-> scanRow.level]
  IN  /\ scanRow # NoScan
      /\ \E rows \in Refreshed(alert[k], found, level, {looked[k].row}) :
           alert' = [alert EXCEPT ![k] = rows]
      /\ lowStock' = lowStock \cup Announce(k, level)
      /\ scanRow' = NoScan
      /\ UNCHANGED <<onHand, reserved, stocked, ledger, reservationVars, scanList,
                     looked>>

Publish(k) == PublishLowStock(k) /\ UNCHANGED <<reservationVars, scanVars, looked>>

-----------------------------------------------------------------------------
MovementNext ==
  \/ \E k \in Key, q \in Quantity \cup {0} : CreatePart(k, q)
  \/ \E k \in Key, q \in Quantity :
       \/ Adjust(k, q)
       \/ Adjust(k, -q)
       \/ PurchaseIn(k, q)
       \/ DirectIssue(k, q)
       \/ \E to \in Warehouse : Transfer(k[2], k[1], to, q)

ReservationNext ==
  \/ \E r \in Reservation, k \in Key, w \in WorkOrder, q \in Quantity :
       Reserve(r, k, w, q)
  \/ \E r \in Reservation, q \in Quantity : Consume(r, q)
  \/ \E k \in Key, q \in Quantity : ReturnToStock(k, q)
  \/ \E c \in Clerk, r \in Reservation, to \in {"released", "cancelled"} :
       CloseRead(c, r, to)
  \/ \E c \in Clerk : CloseCommit(c) \/ CloseAbort(c)

ScanNext == ScanStart \/ (\E k \in Key : ScanFind(k)) \/ ScanWrite

Next ==
  \/ MovementNext \/ ReservationNext \/ ScanNext
  \/ \E k \in Key : LookUp(k) \/ LookDropped(k) \/ Publish(k)

Spec == Init /\ [][Next]_vars

\* The scan is a repeated job and its loop is awaited pair by pair; requests
\* may never come.
FairSpec == Spec /\ WF_vars(ScanNext)

-----------------------------------------------------------------------------
\* What the reservations still hold of pair k: the sum of the remaining
\* quantities of its active rows.
HeldBy(r, k) == IF rsv[r].status = "active" /\ rsv[r].key = k
                THEN Remaining(r) ELSE 0
HeldFor(k) == SumTo([r \in Reservation |-> HeldBy(r, k)], MaxReservations)

\* No balance goes negative or promises more than is on the shelf, whatever
\* requests overlap (the CHECK constraints of stock_balances).
StockConsistent == \A k \in Key : Consistent(onHand[k], reserved[k])

\* The ledger explains the shelf: every routine that moves stock, whichever
\* movement type it uses, leaves on_hand equal to the sum of the ledger rows.
LedgerAgrees == \A k \in Key : onHand[k] = ledger[k]

\* No stock is held for nobody: reserved never exceeds what the active
\* reservations still hold, even when releases act on what they read before.
NoPhantomHold == \A k \in Key : reserved[k] <= HeldFor(k)

\* A release in flight never knows of less than its reservation still holds:
\* only consumption happens in between, and it lowers what is held.
PendingCloseCovers ==
  \A c \in Clerk : closing[c] # NoClose =>
    /\ rsv[closing[c].rsv].status # "none"
    /\ 0 < closing[c].remaining
    /\ Remaining(closing[c].rsv) <= closing[c].remaining

\* A reservation is never consumed beyond its quantity, is active only while
\* something of it remains and is consumed only when nothing does.
ConsumptionBounded ==
  \A r \in Reservation :
    /\ 0 <= Remaining(r)
    /\ rsv[r].status = "active" => 0 < Remaining(r)
    /\ rsv[r].status = "consumed" => Remaining(r) = 0

\* Once a reservation is consumed, released or cancelled it never becomes
\* active again and nothing more is consumed from it.
ClosedStaysClosed ==
  [][\A r \in Reservation :
       rsv[r].status \notin {"none", "active"} =>
         /\ rsv'[r].status \notin {"none", "active"}
         /\ rsv'[r].consumed = rsv[r].consumed]_vars

\* Only a release whose reservation changed after it was read can leave
\* reserved different from what the active reservations hold.
HoldsDriftOnlyByStaleClose ==
  [][\A k \in Key :
       reserved[k] = HeldFor(k) /\ reserved'[k] # HeldFor(k)' =>
         \E c \in Clerk :
           /\ closing[c] # NoClose /\ closing'[c] = NoClose
           /\ \/ rsv[closing[c].rsv].status # "active"
              \/ Remaining(closing[c].rsv) # closing[c].remaining]_vars

\* A second open alert for a pair is opened only by the scan or by a movement
\* that looked for one in an earlier step and found none, while the other
\* committed its own: never by one that looks and writes without interruption.
DuplicateAlertNeedsOverlap ==
  [][\A k \in Key :
       LET before == Cardinality(OpenRows(alert[k]))
           after  == Cardinality(OpenRows(alert'[k]))
       IN  after > 1 /\ after > before =>
             \/ /\ scanRow # NoScan /\ scanRow' = NoScan
                /\ scanRow.key = k /\ scanRow.row = NoRow
             \/ looked[k].row = NoRow /\ looked'[k] = NoLook]_vars

\* The alert of pair k says what its balance says.
AlertAccurate(k) ==
  LET level == AlertLevel(onHand[k], reserved[k], MinStock[k[2]])
  IN  IF level = "none" THEN OpenRows(alert[k]) = {}
      ELSE \E a \in AlertRow : alert[k][a] = level

\* Scans reach pair k again and again: every balance fits in one scan, or the
\* limited, unordered query returns this one infinitely often.
Scanned(k) ==
  \/ <>[](Cardinality(stocked) <= ScanTake)
  \/ []<><<ScanStart /\ k \in DOMAIN scanList'>>_vars

\* Once the balances stop changing, repeated scans that reach a pair leave its
\* alert open, closed or relabelled as its balance demands, whatever a scan
\* with a stale reading or a caller that skips refreshAlert left behind.
AlertsReconciled ==
  (<>[][FALSE]_<<onHand, reserved, stocked>>)
    => \A k \in Key : Scanned(k) => <>[](k \in stocked => AlertAccurate(k))

-----------------------------------------------------------------------------
\* What a test expects after concurrent reservations: reserved is exactly what
\* the successful ones hold.
ReservedIsHeld == \A k \in Key : reserved[k] = HeldFor(k)

=============================================================================
