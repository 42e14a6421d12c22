# Verification of the Procar Motors backend

The repository is a NestJS/Prisma/PostgreSQL backend for a group of car
workshops: customers bring vehicles, a visit is inspected, quoted, approved,
repaired, checked, invoiced and delivered; parts are reserved, consumed,
bought and received; and satellite applications (a tyre shop, a staff café, a
film shop) share the same stock, users and finance tables. Nothing in it
is a distributed protocol. What makes it hard is that every request is a
handler that reads rows, decides, and writes in a transaction at PostgreSQL's
default READ COMMITTED isolation, that many handlers decide on what they read
*before* the transaction, and that background jobs act on the same rows.

The project models that: database rows as TLA+ functions and records, one action
per atomic step of a handler (a transaction that locks or compares-and-sets what
it read is one step; a handler that reads before it locks is two), and checks
what must hold whatever the handlers interleave.

## 1. Inventory of the system

| component | state | operations | hard behaviour |
|---|---|---|---|
| Inventory (`modules/inventory`) | `stock_balances`, `inventory_transactions`, `stock_reservations`, `stock_alerts` | adjust, transfer, reserve, consume, return, release, cancel, refreshAlert | row locks, a release that acts on a stale reading, two balances in one transfer |
| Parts (`modules/parts`) | catalogue, initial balance | create, update, deactivate | initial stock |
| Low-stock scan (`infrastructure/jobs`) | none of its own | nightly scan | acts on a bulk reading without locks |
| Purchasing (`modules/purchasing`, `suppliers`) | purchase requests, orders, order items, goods receipts | create, submit, approve, reject, cancel; create from request; draft and receive a goods receipt | checks outside the transaction, blind writes inside it, overlapping receipts |
| Quotations (`modules/quotations`) | quotations, items, approvals | create, edit, send, approve, reject, request changes, new version, expire | approval racing edit, expiry and new version; approval creates the work order and the holds |
| Work orders, technician tasks, workshop board | `work_orders`, `technician_tasks` | create, assign, start, pause, complete, send to QC, additional issue, cancel; task start, pause, complete | the work order, its tasks, the visit and the quotation move together |
| Vehicle visits, job tickets, inspections | `vehicle_visits`, inspections, approvals | check-in, transition, deliver; inspection submit, items | optimistic versions; two check-ins of one vehicle; checks against quality control and payments read earlier |
| Quality control | `quality_checks` | create, edit items, pass, fail | failing creates rework, passing moves the visit |
| Invoices, payments, expenses | `invoices`, `payments`, `expenses` | create from quotation, issue, pay, cancel; expense create | compare-and-set on the paid amount; deliver reads payments before it commits |
| Domain events and outbox | `outbox_events` | emit (in the caller's transaction), drain, publish | at-least-once delivery, crash and time-out between side effect and commit |
| Notifications | `notifications`, preferences | dispatch an event, mark read | deduplication by a marker in the body |
| Job scheduler, job locks, reminders | BullMQ jobs, Redis keys | tryLock/unlock, process, remind | lock expiry, unlocking in two calls, sweeps that go on after one threw |
| Report export | one cache entry | export | none: one job writes one entry |
| Cache (Redis) | cached dashboards | getOrSet, invalidate | a fill that started before an invalidation |
| Idempotency keys | `idempotency_keys` | begin or replay, save | two requests with one key |
| Number sequences | one row of `system_settings` | next number | taken numbers, year rollover, the seed rewriting the row |
| Offline sync (`modules/sync`) | `sync_operations` | push, pull, conflict resolution | replays, conflicts, partial failure |
| Auth, portal auth (OTP) | users, refresh tokens, one-time codes | login, refresh, logout, OTP request/verify | rotation, reuse, lockout counters |
| Users, roles, applications, guards | `user_role`, `role_permission`, `user_app_access` | Roles screen, change of role, grant, revoke; the guards of every route | two statements per change, permissions the screen does not show |
| Seed scripts (`prisma`) | all of the above, and the settings | demo and production seed | find-then-create, reruns, crashes |
| TireZone, DailyCafe, UXB, integration | their orders, sessions, jobs and rolls over shared stock | sale, order, waste, stages, consumption | status checked before the transaction, unlocked readings of a roll |
| Customers, vehicles, services, taxes, branches, employees, settings, files | reference data | CRUD | uniqueness checks |
| Dashboard, reports, search, audit, health, realtime | none or append-only | read models, gateways | none that changes business state |

How they interact: a handler calls other services' `...InTx` methods inside its
own Prisma transaction (quotation approval creates a work order and reserves
parts; goods receipt mutates stock; failing quality control creates a task),
emits domain events into the outbox in the same transaction, and the outbox
dispatcher later turns them into notifications, cache invalidations and bus
messages. There is no shared memory between requests; everything they share is
in PostgreSQL or Redis.

`PROJECT.json` lists component by component what is modelled, what only partly,
and what stays out; section 7 gives the reasons in short.

### What makes each part correct

- **Stock**: a balance never goes negative nor promises more than the shelf has;
  the ledger explains the shelf; what is reserved is what live reservations hold;
  alerts end up saying what the balances say.
- **Purchasing**: every receipt is on the shelf once; no order claims goods that
  did not arrive; an order or a request is received only when everything came.
- **Workshop**: the visit moves along its table whoever moves it; a vehicle is
  handed over only after exactly one passed quality check; an approval leaves
  an order to do the work; a quotation is decided once and renewed once.
- **Billing**: an invoice's own record is the sum of its payments; it takes money
  only while due and never beyond what is owed; delivery found everything paid.
- **Shops**: goods and invoices agree; a line with warranty terms is billed once; a
  second invoice or a step backwards needs requests that overlapped.
- **Reception and sync**: a vehicle is in once a day; an operation is applied once;
  what others entered later is not overwritten.
- **Numbers**: a series goes on from its table, whatever rewrites its counter.
- **Outbox**: a published event has reached everyone; the bus hears of it at most
  once; repeats have one cause only; every event is settled in the end.
- **Jobs**: a job runs once at a time; what is due is reminded in the end. (Nobody should
  be reminded twice within the cooldown; section 5 shows that everybody is.)
- **Sessions**: a session or a code has one successor. **Cache**: figures are not
  older than what they were cleared for. **Installation**: what is seeded stays usable.

## 2. Modules

| module | models | state |
|---|---|---|
| `Totals` | sums over `1..n`, as a recursive function | |
| `Stock` | `stock.service`: balances, ledger, alerts, low-stock events | `onHand reserved stocked ledger alert lowStock` |
| `Inventory` (EXTENDS `Stock`) | `inventory.service`, `reservation.service`, the nightly scan | `rsv closing scanList scanRow looked` |
| `Purchasing` | purchase requests, purchase orders, goods receipts | `request order receipt shelved task` |
| `VisitRows` | the rows of one visit and what every clerk has read of them | `visit insp quote wo task qc reading` |
| `Inspections`, `Quotations`, `WorkOrders`, `QualityControl` (EXTEND `VisitRows`) | one service each, technician tasks in `WorkOrders` | the rows above |
| `Workshop` | the four composed, with the visit's own transitions, delivery and offline updates | the rows above |
| `Account` | abstract: what an invoice promises | `state amount owed` |
| `Billing` | invoices, payments, the payment gate of delivery | `invoice payment delivered reading` |
| `ShopDesk` | what the shops share: the people who serve, and the invoices | `serving billed` |
| `TireZone`, `Cafe`, `Uxb` (EXTEND `ShopDesk`) | one shop each, with the orders `integration.service` opens in them | orders, catalogue, warranties; cash sessions, pantry, waste; jobs, lines, rolls |
| `Shops` | the three composed | the rows above |
| `NumberSequence` | document numbers and the seed's alignment of them | `year sequences numbers aligning outrun` |
| `CheckIn` (EXTENDS `NumberSequence`) | reception: customers, vehicles, visits, tickets | `now customers vehicles visits` |
| `Sync` (EXTENDS `CheckIn`) | idempotency keys, offline batches, their retries and crashes | `answered worker made …` |
| `Outbox` | emit, drain and its workers, notification with its marker | `status note bus drain timeouts crashes` |
| `Jobs` | job locks, scheduled runs, the reminders | `lock run sent day …` |
| `DashCache` | cached figures, invalidation by pattern | `data owed entry reader sweep floor` |
| `Sessions` | logins, refresh tokens, one-time codes | `token account otp request …` |
| `Permissions`, `Routes` | which permission each role is seeded with, and which each route asks for | |
| `Installation` (EXTENDS both) | seed scripts, the Roles screen, roles and applications of users, the guards | `seeding known held roles app rows asked` |
| `TotalsProofs`, `InventoryProofs`, `PurchasingProofs`, `WorkshopProofs`, `BillingProofs`, `ShopsProofs` | theorems about the module of that name | |
| `PlatformProofs` | theorems about `NumberSequence`, `CheckIn`, `Sync`, `Sessions`, `DashCache` | |
| `BackgroundProofs` | theorems about `Outbox`, `Jobs`, `Installation` | |
| `MC*` | scenes and values for TLC: prices, minimum stock, recipients, batches, symmetry | |

### How state and actions correspond to the code

- A table is a function from ids to records; an id that is not in the table has a
  row with status `none`, and a new row takes the lowest free id.
- A routine whose transaction locks what it reads, or compares-and-sets the
  only thing it read, is **one action** (`Adjust`, `Consume`, `Issue`).
- A routine that reads first and writes later is **two or more actions**; between
  them the clerk keeps what was read (`closing` in `Inventory`, `task` in
  `Purchasing`, `reading` in `Workshop` and `Billing`, `serving` in the shops,
  `worker` in `Sync`, `request` in `Sessions`, `asked` in `Installation`). The write
  uses the reading exactly where the code uses its variable and looks again exactly
  where the code's `updateMany … where` does. Several handlers run in parallel by
  having several clerks.
- A transaction that only writes is one step, since the rows it wrote stay locked
  until it commits. Where a transaction reads without a lock after it began (goods
  receipts, orders for a request, the live order a quotation's approval looks for),
  that reading is a step of its own (`ReadOrder`, `CheckRequest`, `FindOrder`), and
  anyone may change what it read before the commit.
- A Prisma query with `include` is a statement for the row and one for its relation.
  They are two steps where what comes between them matters: the lines of a tyre
  order and of a film job (`ReadOrderLines`, `LookAtLines`, `ReadJobLines`). An edit
  that replaces lines deletes those it can see and inserts its own when it commits
  (`DeleteOrderItems`, then `SetOrderItems`): of two edits at once the lines of both
  remain. In between the deleted lines are locked (`Deleted`).
- A movement's search for an open alert and its write are one step, for both are under
  the lock of the balance, except that the scan takes no such lock: for the pairs of
  `Overlapped` the search can be a step of its own (`LookUp`), whose transaction may also be
  rolled back (`LookDropped`).
- `GiveUp` (`Abandon`, `Dies`, `RequestDies`, `RunDies`) is the refused comparison, the error
  and the vanished caller: nothing of the open transaction is left behind.
- The visit's `version` is one bit per reading: whether the pending write names
  the version it read. A write of the visit ends all routines whose write does
  (`Refused`), which is what the comparison would do when they came to it.
- `scanList`/`scanRow` are the scan's bulk reading, of at most `ScanTake` balances in no
  order (5000 in the code), and the alert row it found: the scan locks nothing, so its
  look and its write are separate.
- In `Outbox` a drain's transaction is `open` or `lost`. Notifications are written
  outside it, so a crash or a time-out frees the claimed rows and keeps them. After
  a time-out the worker goes on until its next write to the outbox is refused.
- In `Sync` a worker takes one operation of its batch at a time: look-up, readings,
  write and storing of the answer are separate steps, as they are separate
  transactions. `checkIn` locks the vehicle only for its second half, so its look
  for another visit of the day is a step of its own. A sender repeats what it got
  no answer to, also while the first attempt is at work.
- In `Jobs` the lock is one Redis key. It expires at any time (the instance's jobs
  may take longer than their lock), and it is given back by GET and DEL, two steps.
  The sweeps of a run go on when one of them throws, as those of `Promise.all` do.
- In `DashCache` a value is the versions of the data it was computed from; SCAN is
  taken page by page, any page of keys.
- In `Installation` a script is a sequence of sections, and a run can end between
  any two; rows of one section are independent upserts and are written together. A
  run of the production script finds any organization there is or makes one, and
  looks for the administrator's employee in that one; `rows` counts both. Roles and
  users are those of the first organization.
- `made`, `excuses`, `shared`, `excused`, `raced`, `crossed`, `edited`, `outrun`, `floor`,
  a visit's `seen` and an entry's `overtaken` record history for a property; no guard
  of an action asks for them.

Abstractions worth knowing: quantities and money are whole numbers; item lists
are a single value of `Content`; wording, technicians and timers are left
out. `waiting_parts` of an order and `sent` of a quotation have guards but
no writer in the code. In `Workshop` the answer of the payment gate is open (it is
`Billing`'s), the parts an approval reserves are left to `Inventory`, and the two
readings of creating a work order are taken together. `Billing` begins with approved
quotations and a visit ready for delivery. In `Outbox` routing and preferences
are the constant `Recipient`. In `Jobs` the search for a row's id in the payload of
earlier reminders is Prisma's `string_contains` without a path, which on PostgreSQL
matches only a payload that is a JSON string; the engine writes objects. In `Installation` two overlapping uses of the Roles
screen for one role are atomic, and the guard of branches and the age of a token's
claims are left out: `Admitted` goes by the rows as they are. In the shops amounts are left
out, a café order's total being a function of what was ordered (what the totals of a tyre
order are after overlapping edits is not asked); so are alignment and paint readings, and
an edit that names one product twice. Lengths of film are in thousandths of a metre, which
is what the columns hold, and requests are taken to give no finer ones. What is left of a
roll is computed in floating point and compared with zero before it is stored, so a
roll stored as empty may be called depleted or not (`ConsumeRoll`); one that the
same arithmetic refuses is a request that fails.

## 3. Runs

A module with too many tables for one state space is looked at in **scenes**: the run's
`scene` (`counter` in the shops) is chosen in the initial state and never changes, and says
which steps may be taken. The scenes of one run share no behaviour; they share a run
because they ask the same question of the same module, or are parts of the system that
share no row, as the parts desk and the shops do here, and purchasing and billing.

| run | question | instance |
|---|---|---|
| `goods` | at the *parts* desk: do balances, holds and reservations survive overlapping requests and a scan? In the shops (*tirezone*, *till* and *kitchen* of the café, *uxb*): do goods, invoices, cash and stages agree when two people serve at once? | 1 warehouse, 1 part, 2 pieces, no minimum stock, 2 reservations, 2 clerks; a tyre order over 2 products and 2 edits, 2 café orders and 2 cash sessions, a film job and a roll; 2 sellers |
| `inventory_stock` | are transfers, issues and returns fully recorded, and do repeated scans put every alert right? (liveness) | 2 warehouses, 1 part, no reservations; a scan reads 1 balance; on one pair it can come between a movement's search and its write |
| `inventory_holds` | is `reserved` exactly what reservations hold? — **violated** | as the *parts* desk |
| `office` | *receipts*, *requests*: overlapping receipts and cancellations of one order; a request from quotation to receipt with two competing orders for it. *invoices*: is money neither lost, invented nor taken for a dead invoice; does every invoice implement `Account`? | 2 parts, 2 orders, 2 receipts of up to 2 lines; 2 quotations (one over nothing), 2 invoices, 3 payments; 2 clerks |
| `purchasing_overlap` | do items record what arrived? — **violated** | 1 part, 2 receipts |
| `workshop` | *intake*: are stale writes of the visit all refused? *quotes*: edits, decisions, expiry, new versions and additional issues racing each other and the visit; *checks*: verdicts racing each other, rework, the technician and the visit | 2 inspections, 3 quotations, 1 order, 2 tasks, 2 checks, 2 clerks |
| `workshop_results` | does a completed inspection stay as it is? — **violated** | 1 inspection |
| `cafe_short` | is a barista never stopped by a stock count? — **violated** | 2 orders, 2 units of one ingredient |
| `sync_partial` | does every operation of a batch get an answer? — **violated** | a batch with a forbidden operation |
| `platform` | *desk*, *batch*, *update*, *numbers*: check-ins, batches and numbers under retries, overlaps and a crash; *staff*, *customer*: sessions; *figures*: cached figures while they are invalidated | 2 requests at a time; 3 sends, 1 crash, 2 days; 3 sessions, 1 code; 1 branch, 2 changes |
| `background` | *events*: notification at least once, announcement at most once, settling (liveness); *reminders*: overlapping, failing and crashing runs, every due subject reminded (liveness); *demo*, *production*, *roles*: seeds, run twice at once and cut short, while roles and applications are changed | 3 events for 2, 1 and 0 users, 2 drains of 2 rows, 1 fault; 2 runs, 2 sweeps, 2 days, 1 fault; 2 runners, 2 administrators |
| `reminders_again` | is nobody reminded again within the cooldown? — **violated** | 1 run at a time, 2 days |

Why the bounds are enough: every disagreement the code can have is between two
routines that hold readings of the same rows, so two clerks contain each pair
of routines in each order; a third routine runs between them because a clerk that has
finished begins anew. Two rows of a table are what a routine can confuse
(another version, another order for the request, another receipt for the order, a second
check). Two units tell "some" from "all" of a quantity, three units of money
allow a partial payment that is itself overtaken. Two invoices are one for each quotation,
or one drawn up again after a cancellation, or two that overlapping requests drew up
of one quotation. Two edits of a tyre order and a film job overlap each other, or come
between two readings of a completion; nothing is wasted at the *till*, where cash and
invoices are looked at, and no session is opened in the *kitchen*, where the pantry is.
Without a minimum stock an alert is open for a part that is out; alerts themselves
are what `inventory_stock` asks about. Scans that take one balance of two stand for
5000 of more: one of them may never be reached. Three events exceed what one claim
takes. Three sends are an attempt, its retry and another request between them; one
crash falls at every point of each. Two days are a day and the day after, which is
what a visit of the day, a warning and a cooldown can be wrong about. One
fault, a time-out or a crash, is taken at every point of each drain or run. In the
scene *quotes* the steps that touch quotations are taken; the order is there to be
approved for, cancelled and paused by an additional issue, and its start, pause
and completion, which leave the quotations alone, are in *checks*. The third
quotation is a new version of another, which lets two clerks renew the same one, each
with a row to write. The visit is kept out of statuses from which, in a scene, it could
only come back (`MCWorkshop` names them). A routine that
will insert a row begins only while one is free. Deadlock is checked in `inventory_stock`,
`workshop` and the violated runs beside them; elsewhere everything can be done: all rows
used, all sends sent, all clerks idle is the normal end there.

## 4. Fairness

`Inventory!FairSpec` is weakly fair to the scan only: BullMQ repeats it every
night, and its loop awaits one pair after the other. `AlertsReconciled` then says
that once the balances stop changing (requests may or may not come), repeated
scans leave the alert of a balance as it demands, provided that they reach it (`Scanned`):
there are no more balances than a scan takes, or its query, which has a limit and no
order, returns this one again and again. With more than 5000 balances nothing in the
code sees to that.

`Outbox!FairSpec` (in `background`, for its scene) is weakly fair to each worker: the
job is repeated every three seconds, and a drain that began goes on by itself. Crashes
and time-outs are bounded by constants, so they do not go on for ever.

`Jobs!JobsFair` is weakly fair to the schedule starting some run, to each run going on,
and to the expiry of the lock, which Redis carries out by itself and long before the
next night. It is not fair to days passing, failures or crashes. `RemindedInTheEnd`
says that what is due on the last day has been reminded within its cooldown in the end;
without the expiry a crashed run would keep it from ever happening.

Clerks, senders and administrators are never assumed to come back: everywhere else
only safety is claimed.

## 5. What the violated runs show

1. `inventory_holds`: releasing a reservation reads status and remaining quantity
   before its transaction and does not look again. Two releases of one
   reservation lower `reserved` twice, at the cost of another reservation's
   hold. `NoPhantomHold`, `HoldsDriftOnlyByStaleClose` and `StockConsistent` bound
   the damage: it is always in this direction, only by such a release, and never
   makes a balance inconsistent.
2. `purchasing_overlap`: `receive` reads an order's items without a lock and writes
   back what it read plus its line, although its comment says the items are
   re-locked. Of two overlapping receipts one quantity is lost, so an order can
   take more than was ordered. `LossOnlyByStaleOrRepeatedLine` shows the two
   ways it happens (the other is one part in two lines), `ReceivedArrived` and
   `ReceivedIsFulfilled` what remains true all the same.
3. `workshop_results`: results written after an inspection was completed reopen it;
   it can be completed again with a second quotation.
4. `cafe_short`: the comment on `depleteIngredients` says that it leaves `requireAvailable`
   out so that a barista is never blocked and a balance can go negative; but every movement
   goes through `assertConsistent`, which refuses a negative balance. An order the pantry
   cannot serve is rolled back whole. `GoodsAccounted` says that it takes nothing then.
5. `reminders_again`: the engine's comment says that it must not nag; its search for an
   earlier reminder asks for a substring of the whole payload, which never matches, since
   the payload is an object. Every nightly run reminds of everything that is due, without
   any overlap or fault, whatever the cooldown.
6. `sync_partial`: `applyOperation` returns its handlers' promises without awaiting
   them, so its `catch` never sees what they throw. An operation whose handler throws
   ends the batch, has no answer stored, and those after it are not tried; a retry
   meets the same error.

Other places where code and comment part, or that a maintainer may want to know,
without a run of their own:

- the scan's comment says that an alert's event is emitted only when the alert
  changes, while `refreshAlert` emits on every call (`Announce` is modelled that way);
- the comment on `dispatchOutboxEvent` calls it idempotent, which a time-out refutes
  (`RepeatsNeedTimeouts` says exactly when);
- `send to QC` accepts a paused order, which the order's table does not list
  (`OrderFollowsTable` names the exception);
- two overlapping check-ins give a vehicle two visits of a day, overlapping completions
  of a tyre order raise two invoices (for the same lines if no line has warranty terms, for
  different ones if an edit came between what they read), overlapping draws of a roll
  record one: `SecondVisitNeedsOverlap`, `InvoicesNeedOverlap`, `GoodsAccounted` say
  that nothing less leads there, and what still holds;
- a check-in that was applied but whose answer was lost in a crash is answered
  `conflict` when the device retries, though its visit exists, and operations of the
  batch that refer to it then throw;
- `seed.prod.ts` 173–178 leaves the rest of the permissions to an administrator on the
  Roles screen, which shows 13 resources and 6 actions: permissions beyond it (quality
  control, tasks, the board, assigning and completing orders, sending and
  rejecting quotations, services, the dashboard) can be given to nobody by that screen, so
  `WorkStaysPossible` is claimed for the demo's script only;
- `seed.prod.ts` 14 calls itself safe to run more than once because "everything is
  upserted"; the organization and the employee are looked for and created, so two
  runs at once create two (`DoublesNeedOverlap`). The demo's script adds
  an employee per demo user on each run, and leaves two landing applications when an
  administrator had chosen another.
- `seed-ecosystem.ts` writes stock balances without ledger rows, so `LedgerAgrees` does
  not hold of balances seeded by it.

## 6. What is proved

Every safety invariant and every action property the passing runs check is also a
theorem: TLAPS proves it for every value of the constants that satisfies the modules'
named assumptions. These say that bounds are naturals, sets of rows `1..n`, prices and
minimum stocks naturals, and null values not among the values they stand beside; what
else a proof needs is named below. The number of clerks, sellers, workers, rows, parts or
orders is open; where rows or people are counted (`AlertRow`, `Worker`, `Seller`) there
are finitely many.

- **`TotalsProofs`**: the sum over `1..n` is a natural for naturals, changes by
  the difference when one entry changes, and is zero for zeros. `SumTo` is a
  recursive function; the library's induction takes an operator, so induction is
  done by hand, from the well-foundedness of `<` on the naturals.
- **`InventoryProofs`**: types, `StockConsistent`, `LedgerAgrees`, `NoPhantomHold`,
  `ConsumptionBounded`, `ClosedStaysClosed`, `HoldsDriftOnlyByStaleClose`,
  `DuplicateAlertNeedsOverlap`. The inductive invariant `IInv` adds
  two things. `UnstockedEmpty`: a pair without a balance row has nothing, so
  `ensureBalance` may start it at zero. `PendingCloseCovers`: a release in flight
  never knows of *less* than its reservation still holds, because only consumption
  happens in between; hence it lowers `reserved` by at least the reservation's
  part of the sum, and `reserved` stays below what is held. This is why the
  defect of section 5 has one direction only. The two action properties classify all
  steps: every other step moves `reserved` and the sum of the holds alike (by the lemmas
  on sums), and an open alert is only added beside another by
  the scan, or by a movement whose search was an earlier step and found none.
- **`WorkshopProofs`**: types, `VisitFollowsTable`, `DeliveryAfterPass`,
  `CompletedOrderPassed`, `OneNextVersion`, `ApprovalHasOrder`, `StatusesFollowTables`.
  The strengthening for the visit is `Fresh`, a statement about
  readings: whoever moves the visit from a status it read will name the version, and
  then the status is still the one read. So only one verdict of the visit can pass,
  since passing moves the visit on and refuses all others. For the rows, `RowStep` says
  once, for all steps, what a step may do to quotations, orders and tasks. `Lineage`
  (a quotation is superseded exactly when it has a child, and has one at most) gives one
  next version; `Known` (what a pending routine read made it begin: the version it renews
  is there, the order it starts may be started) gives the tables of orders and tasks.
  `ApprovalHasOrder` speaks of the approving step, which leaves a live order, or
  the order that the approval found alive and that a cancellation reached first.
- **`BillingProofs`**: types, `PaymentsExplainInvoice`, `StatusFollowsMoney`,
  `DeliveryWasPaid`, and that `Billing` implements `Account`. `Inv` adds `Drawn`
  (no invoice that was not drawn has payments) and `ReadingsHold`: what a
  clerk read of an invoice that still has the status and amount read is still true,
  and an invoice seen paid is paid for good. The refinement maps each step to one
  of `Account` or to a stutter: `Pay` to `Receive`, `Cancel` to `Cancel`, all
  readings and deliveries to stutters.
- **`ShopsProofs`**: types, `GoodsAccounted`, `WarrantedLineSoldOnce`, `CashIsOfOwnSales`,
  `InvoicesNeedOverlap`, `StagesInOrder`. `ShopsInv` has a part per shop and one for what
  they share. `BillInv`: the invoices of a row and the requests that may still raise one
  (`Claimants`) are together no more than the sellers, because a request that raises
  one stops being a claimant and a new claimant finds no invoice. `Spent` (tyres): a
  line with warranty terms that was billed has its warranty as long as it is there, and no
  edit to come inserts it again, for its number is past; whoever bills lines read earlier
  needs them there and without a warranty, so invoices are `Apart`. `Explained`
  (film): no more left a roll than consumption records say, with those an edit deleted. A
  seller of one shop leaves the others `Aside`, so each action is looked at in one shop.
  Quantities that add up over rows are counted as sets of units (`SoldLines`,
  `DrawnUnits`): a sum is a cardinality, and the library knows those.
- **`PlatformProofs`**, four parts. *Numbers*: types and `BehindOnlyBySeed`, by `Copy` (the
  seed's copy of a counter is behind by no more than it was outrun) and `Dense` (a counter
  is at most one ahead of its table, so aligning it takes nothing away).
  *Reception and sync*: types, `SecondVisitNeedsOverlap`, `AppliedOnce`,
  `LaterEntriesStay`, and that `Spec` of `Sync` implements `NumbersSpec`, so what holds of
  numbers holds while requests retry, overlap and crash. `SyncInv` follows a request
  through its transactions: what a worker prepared refers to rows that are there
  (`Prepared`), and for every operation the number of times its work was committed, with
  those about to be, is bounded by the attempts that were excused (`Ledger`).
  *Sessions*: `SuccessorsNeedOverlap`. `Alone` says of a token or code that no two requests
  went by at once what a request and a session of it exclude: the other, and a source
  that still opens one. *Cache*: `StaleOnlyIfOvertaken`. What is stored or about to be
  is as new as the last invalidation of its key (`AboveFloor`), and as any that is under
  way and has passed the key (`AboveSweeps`), but for what a reader it overtook computed.
- **`BackgroundProofs`**, three parts. *Outbox*: types, `PublishedReachedAll`,
  `AnnouncedOnce`, `RepeatsNeedTimeouts`.
  `Locks` says that two open transactions have claimed no event in common and that what
  they claimed is still pending; `Told`, that what the bus is to hear of was published by
  one drain and is held by that drain alone. `Reached` follows a drain through its
  recipients: whoever it has gone past has a notification, which no loss of a transaction
  takes back. `Repeats` counts: the drains about to notify one user of one event are, but
  for one, drains whose transaction timed out (`PendingBound`, by the cardinality of
  their set), so notifications written or about to be are at most one more than time-outs.
  *Jobs*: `OverlapsNeedLostLocks`. The invariant says who holds the lock (`Holding`: a run
  under way that nothing excuses, and one about to delete it in time).
  *Installation*: types, `DoublesNeedOverlap`, `WorkStaysPossible`. `RowsInv`: a row that
  nobody looked for while another run was about to create it (`raced`) is there once at
  most, and one run at most is about to create it; for employees this is said of each
  organization. `PeopleInv`: a user no two requests changed at once has one role and one landing
  application, and nobody is about to add another (`Alone`). `GrantsInv`: what a section of
  the demo's script gave a role stays, but for what the Roles screen shows and an
  administrator took (`Given`). `WorkGoesOn` then compares, handler by handler, the
  permissions every route asks for with those grants (`Opens`); its one hypothesis is that
  all permissions a route asks for are followed, as they are in the run
  (`Known <- AllKnown`).
- **`PurchasingProofs`**: types, `ShelvedOnce`, `ReceivedArrived`, `ReceivedIsFulfilled`,
  `StatusesFollowTables`, `LossOnlyByStaleOrRepeatedLine`. The difficulty is what a stale
  reading is worth. `Reads` says that a quantity read is no more than has arrived by
  now, and it stays true because every step lets arrivals, rows and passed statuses only
  grow (`Grows`, proved once for all steps). `Writes` says that what a receipt writes is no
  more than has arrived plus its own lines (`LastQtyOfLines`: the last line of a part is at
  most all its lines), so when it commits, it still claims nothing that did not
  arrive; and `Exclusive` that no two clerks commit one receipt, which the row lock of its
  compare-and-set gives. The sums are those of `TotalsProofs`.

What the proofs changed in the model: the guards of a `CASE` in `Sync!ReadingOf`
overlapped, which leaves the value open where TLC quietly takes the first; sums over
rows in the shops became cardinalities; `Routes` merges functions with an operator
of its own, since that of the module `TLC` has no definition a prover could use; and
assumptions that were only in the configurations got names (`SyncAssumption`,
`SellerAssumption`, `ShopsAssumption`).

Only model-checked: liveness (`AlertsReconciled`, `EveryEventSettles`,
`RemindedInTheEnd`), since fairness speaks of ENABLED, which the prover does not treat.
`CompletedOrderPassed` is proved and asked by no run of its own. The statements of
section 5 are refuted by their runs.


## 7. Not modelled, and why

Modelled with gaps (`partly` in `PROJECT.json`): the parts a quotation's approval reserves
are not composed with `Inventory`; routing of notifications; the creation of users; the
guard of branches; edits of a customer's or vehicle's own fields, which no property
tells apart; the demo's business rows.

Left out: reference data (services, taxes, branches, employees, settings, suppliers,
the parts catalogue) are single-row writes no other routine decides on; dashboards,
reports, search and the board only read, and a report's export is one job that writes one
cache entry; audit and realtime only append or push; files are I/O around one row;
money arithmetic with its rounding is pure floating-point code that TLA+ cannot express
and unit tests cover; HTTP set-up, validation and configuration are wiring.

Worth doing next: `Inventory` composed with the approval; abstract specifications of the
outbox and of a job lock, with refinements like that of `Account`; the safety half of
the liveness arguments (what a settled outbox, a reconciled pair or a swept day is).
