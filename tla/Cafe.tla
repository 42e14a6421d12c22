--------------------------------- MODULE Cafe ---------------------------------
(***************************************************************************)
(* daily-cafe.service.ts, and the order integration.service.ts takes for a *)
(* customer who waits for a vehicle: orders that deplete ingredients, cash *)
(* sessions, waste.                                                        *)
(*                                                                         *)
(* An order draws units of each ingredient; their balances go through      *)
(* StockService, which refuses to take one below zero. An order's total is *)
(* a function of what was ordered, so the cash a session expects is kept   *)
(* as the set of orders that were summed.                                  *)
(***************************************************************************)
EXTENDS ShopDesk

CONSTANTS CafeOrder,
          Session,
          Ingredient,
          Recipe,     \* per ingredient, what one order of the menu draws
          Extra,      \* per ingredient, what its modifier adds
          Pantry,     \* per ingredient, the stock at first
          MaxWaste    \* bound: units logged as waste

ASSUME CafeAssumption ==
  /\ Recipe \in [Ingredient -> Nat] /\ Extra \in [Ingredient -> Nat]
  /\ Pantry \in [Ingredient -> Nat] /\ MaxWaste \in Nat

NoSession == "no session"

ASSUME NoSessionAssumption == NoSession \notin Session

VARIABLES cup,      \* dailycup.orders
          drawer,   \* dailycup.cash_sessions
          pantry,   \* per ingredient, stock on hand
          wasted,   \* per ingredient, what the waste log adds up to
          waiting   \* whether the visit's customer is still in the centre

cafeVars == <<cup, drawer, pantry, wasted, waiting>>

CafeTypeOK ==
  /\ \A o \in CafeOrder :
       /\ cup[o].status \in {"none", "open", "ready", "closed"}
       /\ cup[o].customer \in BOOLEAN
       /\ cup[o].session \in Session \cup {NoSession}
       /\ cup[o].drawn \in [Ingredient -> Nat]
       /\ cup[o].invoice \in 0..Len(billed[o])
  /\ \A s \in Session :
       /\ drawer[s].status \in {"none", "open", "closed"}
       /\ drawer[s].expected \subseteq CafeOrder
  /\ pantry \in [Ingredient -> Nat] /\ wasted \in [Ingredient -> 0..MaxWaste]
  /\ waiting \in BOOLEAN

Nothing == [i \in Ingredient |-> 0]

NoCup == [status |-> "none", customer |-> FALSE, session |-> NoSession,
          drawn |-> Nothing, invoice |-> 0]

CafeInit ==
  /\ cup = [o \in CafeOrder |-> NoCup]
  /\ drawer = [s \in Session |-> [status |-> "none", expected |-> {}]]
  /\ pantry = Pantry
  /\ wasted = Nothing
  /\ waiting = TRUE

-----------------------------------------------------------------------------
OpenSessions == {s \in Session : drawer[s].status = "open"}

\* openSession looks for an open one, then inserts.
ReadForOpening(c) ==
  /\ OpenSessions = {}
  /\ ReadRow(c, "opening", NoSession, {})
  /\ UNCHANGED <<billed, cafeVars>>

OpenSession(c, s) ==
  /\ Serving(c, "opening")
  /\ drawer[s].status = "none"
  /\ drawer' = [drawer EXCEPT ![s].status = "open"]
  /\ Done(c)
  /\ UNCHANGED <<billed, cup, pantry, wasted, waiting>>

ReadForClosing(c, s) ==
  /\ drawer[s].status = "open"
  /\ ReadRow(c, "closing", s, {})
  /\ UNCHANGED <<billed, cafeVars>>

ClosedIn(s) == {o \in CafeOrder : cup[o].session = s /\ cup[o].status = "closed"}

\* Mutant: every order of the session is summed.
SumSalesOfAll(c) ==
  LET s == serving[c].ref IN
  /\ Serving(c, "closing")
  /\ serving' = [serving EXCEPT ![c] = [op |-> "summed", ref |-> s,
                   saw |-> {o \in CafeOrder : cup[o].session = s}]]
  /\ UNCHANGED <<billed, cafeVars>>

\* closeSession: the sum of the session's closed orders, a query of its own.
SumSales(c) ==
  LET s == serving[c].ref IN
  /\ Serving(c, "closing")
  /\ serving' = [serving EXCEPT ![c] = [op |-> "summed", ref |-> s, saw |-> ClosedIn(s)]]
  /\ UNCHANGED <<billed, cafeVars>>

CloseSession(c) ==
  /\ Serving(c, "summed")
  /\ drawer' = [drawer EXCEPT ![serving[c].ref] =
                  [status |-> "closed", expected |-> serving[c].saw]]
  /\ Done(c)
  /\ UNCHANGED <<billed, cup, pantry, wasted, waiting>>

-----------------------------------------------------------------------------
\* createOrder: the session is looked up first, and is any open one.
ReadForOrder(c, s) ==
  /\ IF OpenSessions = {} THEN s = NoSession ELSE s \in OpenSessions
  /\ ReadRow(c, "order", s, {})
  /\ UNCHANGED <<billed, cafeVars>>

\* depleteIngredients: the recipe and the modifiers, added up per ingredient.
Draws(extras) ==
  [i \in Ingredient |-> Recipe[i] + IF i \in extras THEN Extra[i] ELSE 0]

InStock(draws) == \A i \in Ingredient : draws[i] <= pantry[i]

Take(draws) == pantry' = [i \in Ingredient |-> pantry[i] - draws[i]]

\* createOrder's transaction: number, order, lines, depletion, totals. When an
\* ingredient is short applyMutation throws, for the balance would go below zero,
\* and nothing of it is stored.
CreateOrder(c, o, customer, extras) ==
  LET draws == Draws(extras) IN
  /\ Serving(c, "order")
  /\ cup[o].status = "none"
  /\ InStock(draws)
  /\ Take(draws)
  /\ cup' = [cup EXCEPT ![o] = [status |-> "open", customer |-> customer,
               session |-> serving[c].ref, drawn |-> draws, invoice |-> 0]]
  /\ Done(c)
  /\ UNCHANGED <<billed, drawer, wasted, waiting>>

\* The visit is completed; Workshop models when.
CustomerLeaves ==
  /\ waiting
  /\ waiting' = FALSE
  /\ UNCHANGED <<deskVars, cup, drawer, pantry, wasted>>

ReadForLounge(c) ==
  /\ waiting
  /\ ReadRow(c, "lounge", NoSession, {})
  /\ UNCHANGED <<billed, cafeVars>>

\* orderFromCafe: an order for the visit's customer that belongs to no session
\* and depletes nothing.
OrderFromLounge(c, o) ==
  /\ Serving(c, "lounge")
  /\ cup[o].status = "none"
  /\ cup' = [cup EXCEPT ![o] = [status |-> "open", customer |-> TRUE,
               session |-> NoSession, drawn |-> Nothing, invoice |-> 0]]
  /\ Done(c)
  /\ UNCHANGED <<billed, drawer, pantry, wasted, waiting>>

\* Mutant: marking an order ready forgets its invoice.
MarkReadyAnew(o) ==
  /\ cup[o].status # "none"
  /\ cup' = [cup EXCEPT ![o].status = "ready", ![o].invoice = 0]
  /\ UNCHANGED <<deskVars, drawer, pantry, wasted, waiting>>

\* markReady asks only that the order exists.
MarkReady(o) ==
  /\ cup[o].status # "none"
  /\ cup' = [cup EXCEPT ![o].status = "ready"]
  /\ UNCHANGED <<deskVars, drawer, pantry, wasted, waiting>>

ReadForClose(c, o) ==
  /\ cup[o].status \in {"open", "ready"}
  /\ ReadRow(c, "close", o, [customer |-> cup[o].customer, invoice |-> cup[o].invoice])
  /\ UNCHANGED <<billed, cafeVars>>

\* closeOrder: an invoice if there is a customer and none was read.
CloseOrder(c) ==
  LET o == serving[c].ref
      saw == serving[c].saw
      bills == saw.customer /\ saw.invoice = 0
  IN
  /\ Serving(c, "close")
  /\ IF bills THEN RaiseInvoice(o, {o}) ELSE UNCHANGED billed
  /\ cup' = [cup EXCEPT ![o].status = "closed",
               ![o].invoice = IF bills THEN NewInvoice(o) ELSE saw.invoice]
  /\ Done(c)
  /\ UNCHANGED <<drawer, pantry, wasted, waiting>>

\* logWaste: the log and the stock movement, one transaction.
LogWaste(i) ==
  /\ pantry[i] > 0 /\ wasted[i] < MaxWaste
  /\ pantry' = [pantry EXCEPT ![i] = @ - 1]
  /\ wasted' = [wasted EXCEPT ![i] = @ + 1]
  /\ UNCHANGED <<deskVars, cup, drawer, waiting>>

CafeNext ==
  \/ \E c \in Seller : ReadForOpening(c) \/ SumSales(c) \/ CloseSession(c)
                        \/ ReadForLounge(c) \/ CloseOrder(c)
  \/ \E c \in Seller, s \in Session : OpenSession(c, s) \/ ReadForClosing(c, s)
  \/ \E c \in Seller, s \in Session \cup {NoSession} : ReadForOrder(c, s)
  \/ \E c \in Seller, o \in CafeOrder : ReadForClose(c, o) \/ OrderFromLounge(c, o)
  \/ \E c \in Seller, o \in CafeOrder, customer \in BOOLEAN, extras \in SUBSET Ingredient :
       CreateOrder(c, o, customer, extras)
  \/ \E o \in CafeOrder : MarkReady(o)
  \/ \E i \in Ingredient : LogWaste(i)
  \/ CustomerLeaves

-----------------------------------------------------------------------------
\* The units of an ingredient that are in orders: an order and the place of the unit.
DrawnUnits(i) == UNION {{o} \X (1..cup[o].drawn[i]) : o \in CafeOrder}

\* Every unit of an ingredient that left the pantry is in an order or in the
\* waste log; an order that could not be served whole has taken nothing.
PantryAgrees ==
  \A i \in Ingredient :
    Pantry[i] = pantry[i] + wasted[i] + Cardinality(DrawnUnits(i))

\* What is said of depleteIngredients: a barista must never be blocked by a stock
\* count. An order that is being taken can be stored, whatever the pantry holds.
BaristaNeverBlocked ==
  \A c \in Seller, o \in CafeOrder, customer \in BOOLEAN, extras \in SUBSET Ingredient :
    Serving(c, "order") /\ cup[o].status = "none" =>
      ENABLED CreateOrder(c, o, customer, extras)

\* The cash a session expects is that of its own orders, each of which has been
\* closed: opening a second session or closing one twice counts no sale twice.
CashIsOfOwnSales ==
  \A s \in Session : \A o \in drawer[s].expected :
    cup[o].session = s /\ cup[o].status \in {"ready", "closed"}
=============================================================================
