------------------------------ MODULE ShopsProofs ------------------------------
(***************************************************************************)
(* Proofs about the shops, for any rows, sellers, supplies and recipes.    *)
(* Each shop has an invariant of its own (TireInv, CafeInv, UxbInv), which *)
(* the steps of the other shops leave alone (Aside); BillInv, on the       *)
(* invoices of all, counts those that were raised for a row together with  *)
(* the requests that may still raise one.                                  *)
(***************************************************************************)
EXTENDS Shops, FiniteSetTheorems, TLAPS

\* A line of a tyre order, one that sells a tyre, and a line of a job: an edit's number,
\* and an item or a panel.
TireLine == (0..MaxRev) \X (Product \cup {Fitting})
ProductLine == (0..MaxRev) \X Product
JobLine  == (1..MaxEdits) \X Panel

Lines == SUBSET (TireLine \cup CafeOrder \cup JobLine)

DeskTypeOK == DOMAIN serving = Seller /\ billed \in [Sold -> Seq(Lines)]

TireOps == {"items", "replace", "completing", "complete", "cancel"}
CafeOps == {"opening", "closing", "summed", "order", "lounge", "close"}
JobOps  == {"jobItems", "replaceJob", "advancing", "advance", "invoicing", "invoice"}
UxbOps  == JobOps \cup {"consume"}

\* Request r raises an invoice for row x if it succeeds.
Bills(r, x) ==
  /\ r.ref = x
  /\ \/ r.op \in {"completing", "complete", "invoicing", "invoice"}
     \/ r.op = "close" /\ r.saw.customer /\ r.saw.invoice = 0

Claimants(x) == {c \in Seller : serving[c].op # "idle" /\ Bills(serving[c], x)}

BillInv == \A x \in Sold : Len(billed[x]) + Cardinality(Claimants(x)) <= Cardinality(Seller)

-----------------------------------------------------------------------------
(***************************************************************************)
(* The tyre shop.                                                          *)
(***************************************************************************)
TireRow == [status: {"none", "draft", "completed", "cancelled"}, customer: BOOLEAN,
            lines: SUBSET TireLine, rev: 0..MaxRev, covered: SUBSET ProductLine, invoice: Nat]

\* The lines to be billed were read in an earlier state, or in this one.
TireRequest(r) ==
  /\ r.op \in TireOps => r.ref \in TireOrder
  /\ r.op = "complete" => /\ r.saw.lines \subseteq TireLine
                          /\ \A l \in r.saw.lines : l[1] <= tire[r.ref].rev

\* A warranted line that was billed has its warranty as long as it is there; no edit
\* to come inserts it again, for its number is past.
Spent(o) ==
  \A i \in DOMAIN billed[o] : \A l \in WithTerms(billed[o][i]) :
    l \in TireLine /\ l[1] <= tire[o].rev /\ (l \in tire[o].lines => l \in tire[o].covered)

\* The invoices of an order bill different warranted lines.
Apart(o) ==
  \A i, k \in DOMAIN billed[o] :
    i # k => WithTerms(billed[o][i]) \cap WithTerms(billed[o][k]) = {}

TireInv ==
  /\ catalogue \subseteq Product /\ shelf \in [Product -> Nat]
  /\ tire \in [TireOrder -> TireRow]
  /\ \A c \in Seller : TireRequest(serving[c])
  /\ \A o \in TireOrder :
       /\ tire[o].invoice = Len(billed[o])
       /\ tire[o].status \in {"none", "draft"} => billed[o] = <<>>
       /\ \A l \in tire[o].lines : l[1] <= tire[o].rev
       /\ Spent(o) /\ Apart(o)
  /\ \A p \in Product :
       IsFiniteSet(SoldLines(p)) /\ shelf[p] + Cardinality(SoldLines(p)) = Supply[p]

-----------------------------------------------------------------------------
(***************************************************************************)
(* The café.                                                               *)
(***************************************************************************)
CupRow == [status: {"none", "open", "ready", "closed"}, customer: BOOLEAN,
           session: Session \cup {NoSession}, drawn: [Ingredient -> Nat], invoice: Nat]

\* Order o is a sale of session s.
Sale(o, s) == cup[o].session = s /\ cup[o].status \in {"ready", "closed"}

CafeRequest(r) ==
  /\ r.op = "closing" => r.ref \in Session
  /\ r.op = "summed" => /\ r.ref \in Session /\ r.saw \subseteq CafeOrder
                        /\ \A o \in r.saw : Sale(o, r.ref)
  /\ r.op = "order" => r.ref \in Session \cup {NoSession}
  /\ r.op = "close" => /\ r.ref \in CafeOrder /\ cup[r.ref].status # "none"
                       /\ r.saw.customer = cup[r.ref].customer
                       /\ r.saw.invoice \in 0..Len(billed[r.ref])

CafeInv ==
  /\ cup \in [CafeOrder -> CupRow]
  /\ drawer \in [Session -> [status: {"none", "open", "closed"}, expected: SUBSET CafeOrder]]
  /\ pantry \in [Ingredient -> Nat] /\ wasted \in [Ingredient -> 0..MaxWaste]
  /\ waiting \in BOOLEAN
  /\ \A c \in Seller : CafeRequest(serving[c])
  /\ \A s \in Session : \A o \in drawer[s].expected : Sale(o, s)
  /\ \A o \in CafeOrder :
       /\ cup[o].invoice \in 0..Len(billed[o])
       /\ cup[o].invoice = 0 => billed[o] = <<>>
       /\ ~cup[o].customer => billed[o] = <<>>
       /\ cup[o].status = "none" => billed[o] = <<>> /\ cup[o].drawn = Nothing
  /\ \A i \in Ingredient :
       /\ IsFiniteSet(DrawnUnits(i))
       /\ Pantry[i] = pantry[i] + wasted[i] + Cardinality(DrawnUnits(i))

-----------------------------------------------------------------------------
(***************************************************************************)
(* The film shop.                                                          *)
(***************************************************************************)
JobRow == [stage: Stage \cup {"none", "cancelled"}, lines: SUBSET JobLine, zones: SUBSET Panel,
           rev: 0..MaxEdits, invoice: Nat]
RollRow == [status: {"none", "open", "depleted"}, remaining: 0..RollLength]

\* What a roll that shows the given rest lacks is on records, or was on some.
Explained(r, remaining) == RollLength - remaining <= recorded[r]

UxbRequest(r) ==
  /\ r.op \in JobOps => r.ref \in Job
  /\ r.op = "invoice" => r.saw.lines \subseteq JobLine
  /\ r.op \in {"advancing", "advance"} =>
       r.saw.stage \in (Stage \cup {"cancelled"}) \ {"delivered"}
  /\ r.op = "consume" =>
       /\ r.ref \in Roll /\ roll[r.ref].status # "none"
       /\ r.saw.row.remaining \in 1..RollLength /\ r.saw.length \in 1..r.saw.row.remaining
       /\ r.saw.row.status = "open"
       /\ Explained(r.ref, r.saw.row.remaining)

UxbInv ==
  /\ job \in [Job -> JobRow] /\ roll \in [Roll -> RollRow] /\ recorded \in [Roll -> Nat]
  /\ \A c \in Seller : UxbRequest(serving[c])
  /\ \A j \in Job : job[j].invoice = Len(billed[j])
  /\ \A r \in Roll : roll[r].status # "none" =>
       /\ Explained(r, roll[r].remaining)
       /\ roll[r].status = "depleted" => roll[r].remaining = 0

ShopsInv == DeskTypeOK /\ BillInv /\ TireInv /\ CafeInv /\ UxbInv

-----------------------------------------------------------------------------
(***************************************************************************)
(* The desk.                                                               *)
(***************************************************************************)
\* What a step of one shop, whose requests have the given operations and whose rows
\* are the given ones, does at the desk.
Aside(ops, rows) ==
  /\ DeskTypeOK'
  /\ \A c \in Seller : serving'[c] = serving[c] \/ serving'[c].op \in ops \cup {"idle"}
  /\ \A x \in Sold \ rows : billed'[x] = billed[x]

\* Only seller c does something.
Alone(c) == DOMAIN serving' = Seller /\ \A d \in Seller \ {c} : serving'[d] = serving[d]

\* A request begins.
LEMMA ReadEffect ==
  ASSUME DeskTypeOK, NEW c \in Seller, NEW op, NEW ref, NEW row, ReadRow(c, op, ref, row)
  PROVE  /\ serving[c].op = "idle" /\ serving'[c] = [op |-> op, ref |-> ref, saw |-> row]
         /\ Alone(c)
BY DEF ReadRow, DeskTypeOK, Free, Alone

\* A request goes on.
LEMMA ReadOnEffect ==
  ASSUME DeskTypeOK, NEW c \in Seller, NEW op, NEW row, ReadOn(c, op, row)
  PROVE  serving'[c] = [op |-> op, ref |-> serving[c].ref, saw |-> row] /\ Alone(c)
BY DEF ReadOn, DeskTypeOK, Alone

\* A request ends.
LEMMA DoneEffect ==
  ASSUME DeskTypeOK, NEW c \in Seller, Done(c)
  PROVE  serving'[c] = Free /\ serving'[c].op = "idle" /\ Alone(c)
BY DEF Done, DeskTypeOK, Free, Alone

\* An invoice is raised.
LEMMA InvoiceEffect ==
  ASSUME DeskTypeOK, NEW x \in Sold, NEW lines \in Lines, RaiseInvoice(x, lines)
  PROVE  /\ billed' \in [Sold -> Seq(Lines)]
         /\ billed'[x] = Append(billed[x], lines)
         /\ Len(billed'[x]) = Len(billed[x]) + 1 /\ Len(billed[x]) \in Nat
         /\ DOMAIN billed'[x] = DOMAIN billed[x] \cup {Len(billed[x]) + 1}
         /\ \A i \in DOMAIN billed[x] : i # Len(billed[x]) + 1 /\ billed'[x][i] = billed[x][i]
         /\ billed'[x][Len(billed[x]) + 1] = lines
         /\ billed'[x] # <<>>
         /\ \A y \in Sold \ {x} : billed'[y] = billed[y]
<1>1. billed[x] \in Seq(Lines) /\ billed' = [billed EXCEPT ![x] = Append(billed[x], lines)]
  BY DEF DeskTypeOK, RaiseInvoice
<1>2. Append(billed[x], lines) \in Seq(Lines)
  BY <1>1
<1>3. billed' \in [Sold -> Seq(Lines)]
  BY <1>1, <1>2 DEF DeskTypeOK
<1>4. billed'[x] = Append(billed[x], lines) /\ \A y \in Sold \ {x} : billed'[y] = billed[y]
  BY <1>1 DEF DeskTypeOK
<1>5. Len(billed[x]) \in Nat /\ DOMAIN billed[x] = 1..Len(billed[x])
  BY <1>1
<1>6. /\ Len(Append(billed[x], lines)) = Len(billed[x]) + 1
      /\ Append(billed[x], lines)[Len(billed[x]) + 1] = lines
      /\ \A i \in 1..Len(billed[x]) : Append(billed[x], lines)[i] = billed[x][i]
  BY <1>1
<1>7. DOMAIN Append(billed[x], lines) = 1..(Len(billed[x]) + 1)
  BY <1>2, <1>6
<1>8. 1..(Len(billed[x]) + 1) = 1..Len(billed[x]) \cup {Len(billed[x]) + 1}
  BY <1>5
<1>9. Append(billed[x], lines) # <<>>
  BY <1>5, <1>6
<1> QED
  BY <1>3, <1>4, <1>5, <1>6, <1>7, <1>8, <1>9

\* A claim is given up when its invoice is raised, and none is made to a row that has
\* an invoice already: so there are never more than the requests at one time.
LEMMA ClaimsKept ==
  ASSUME DeskTypeOK, BillInv, NEW c \in Seller, Alone(c),
         billed' \in [Sold -> Seq(Lines)],
         \A x \in Sold :
           \/ /\ billed'[x] = billed[x]
              /\ \/ serving'[c].op = "idle" \/ ~Bills(serving'[c], x)
                 \/ billed[x] = <<>>
                 \/ serving[c].op # "idle" /\ Bills(serving[c], x)
           \/ /\ Len(billed'[x]) = Len(billed[x]) + 1
              /\ serving[c].op # "idle" /\ Bills(serving[c], x) /\ serving'[c].op = "idle"
  PROVE  BillInv'
<1> SUFFICES ASSUME NEW x \in Sold
             PROVE  Len(billed'[x]) + Cardinality(Claimants(x)') <= Cardinality(Seller)
  BY DEF BillInv
<1>1. /\ \A T \in SUBSET Seller : /\ IsFiniteSet(T) /\ Cardinality(T) \in Nat
                                  /\ Cardinality(T) <= Cardinality(Seller)
      /\ Cardinality(Seller) \in Nat
  BY SellerAssumption, FS_Subset, FS_CardinalityType
<1>2. Claimants(x) \in SUBSET Seller /\ Claimants(x)' \in SUBSET Seller
  BY DEF Claimants
<1>3. Len(billed[x]) \in Nat /\ Len(billed[x]) + Cardinality(Claimants(x)) <= Cardinality(Seller)
  BY DEF DeskTypeOK, BillInv
<1>4. CASE billed'[x] = billed[x] /\ billed[x] = <<>>
  BY <1>1, <1>2, <1>4
<1>5. CASE /\ billed'[x] = billed[x]
           /\ \/ serving'[c].op = "idle" \/ ~Bills(serving'[c], x)
              \/ serving[c].op # "idle" /\ Bills(serving[c], x)
  <2>1. Claimants(x)' \subseteq Claimants(x)
    BY <1>5 DEF Claimants, Bills, Alone
  <2>2. Cardinality(Claimants(x)') <= Cardinality(Claimants(x))
    BY <2>1, <1>1, <1>2, FS_Subset
  <2> QED
    BY <2>2, <1>1, <1>2, <1>3, <1>5
<1>6. CASE /\ Len(billed'[x]) = Len(billed[x]) + 1
           /\ serving[c].op # "idle" /\ Bills(serving[c], x) /\ serving'[c].op = "idle"
  <2>1. c \in Claimants(x)
    BY <1>6 DEF Claimants
  <2>2. Claimants(x)' \subseteq Claimants(x) \ {c}
    BY <1>6 DEF Claimants, Bills, Alone
  <2>3. /\ Cardinality(Claimants(x) \ {c}) = Cardinality(Claimants(x)) - 1
        /\ IsFiniteSet(Claimants(x) \ {c})
    BY <2>1, <1>1, <1>2, FS_RemoveElement
  <2>4. Cardinality(Claimants(x)') <= Cardinality(Claimants(x) \ {c})
    BY <2>2, <2>3, FS_Subset
  <2> QED
    BY <2>3, <2>4, <1>1, <1>2, <1>3, <1>6
<1> QED
  BY <1>4, <1>5, <1>6

\* A step that raises no invoice and in which nobody moves leaves the claims as they are.
LEMMA ClaimsStay ==
  ASSUME BillInv, UNCHANGED deskVars
  PROVE  BillInv'
BY DEF BillInv, deskVars, Claimants, Bills

-----------------------------------------------------------------------------
(***************************************************************************)
(* The steps of the tyre shop.                                             *)
(***************************************************************************)
TireKept == TireInv' /\ Aside(TireOps, TireOrder) /\ BillInv'

\* The orders are rows of the ledger, and of no other shop.
LEMMA TireRows == /\ TireOrder \subseteq Sold /\ CafeOrder \subseteq Sold /\ Job \subseteq Sold
                  /\ TireOrder \cap (CafeOrder \cup Job) = {}
                  /\ CafeOrder \cap (TireOrder \cup Job) = {}
                  /\ Job \cap (TireOrder \cup CafeOrder) = {}
BY ShopsAssumption DEF Sold

\* What the other shops do does not touch it.
LEMMA TireStays ==
  ASSUME TireInv, UNCHANGED tireVars, NEW ops, ops \cap TireOps = {}, NEW rows,
         rows \cap TireOrder = {}, Aside(ops, rows)
  PROVE  TireInv'
<1>1. /\ catalogue' = catalogue /\ shelf' = shelf /\ tire' = tire
      /\ \A o \in TireOrder : billed'[o] = billed[o]
  BY TireRows DEF tireVars, Aside
<1>2. \A c \in Seller : serving'[c] = serving[c] \/ serving'[c].op \notin TireOps
  BY DEF Aside, TireOps
<1>3. ASSUME NEW c \in Seller PROVE TireRequest(serving[c])'
  <2>1. CASE serving'[c] = serving[c]
    BY <2>1, <1>1 DEF TireInv, TireRequest
  <2>2. CASE serving'[c].op \notin TireOps
    BY <2>2 DEF TireRequest, TireOps
  <2> QED
    BY <2>1, <2>2, <1>2
<1>4. \A o \in TireOrder : (Spent(o) => Spent(o)') /\ (Apart(o) => Apart(o)')
  BY <1>1 DEF Spent, Apart
<1>5. \A p \in Product : SoldLines(p)' = SoldLines(p)
  BY <1>1 DEF SoldLines
<1> QED
  BY <1>1, <1>3, <1>4, <1>5 DEF TireInv

\* A step in which only seller c does something, and no invoice is raised: lines that
\* remain keep their warranties, and the others are of a later edit.
LEMMA TireStep1 ==
  ASSUME ShopsInv, NEW c \in Seller, Alone(c), UNCHANGED <<billed, shelf, catalogue>>,
         serving'[c].op \in TireOps \cup {"idle"}, TireRequest(serving[c])',
         tire' \in [TireOrder -> TireRow],
         \A o \in TireOrder :
           /\ tire'[o].invoice = tire[o].invoice /\ tire'[o].rev >= tire[o].rev
           /\ \A l \in tire'[o].lines :
                \/ l \in tire[o].lines /\ (l \in tire[o].covered => l \in tire'[o].covered)
                \/ l[1] > tire[o].rev /\ l[1] <= tire'[o].rev
           /\ tire'[o].status \in {"none", "draft"} => tire[o].status \in {"none", "draft"},
         \A x \in Sold : \/ serving'[c].op = "idle" \/ ~Bills(serving'[c], x)
                         \/ billed[x] = <<>>
                         \/ serving[c].op # "idle" /\ Bills(serving[c], x)
  PROVE  TireKept
<1> USE DEF ShopsInv
<1>1. /\ billed' = billed /\ shelf' = shelf /\ catalogue' = catalogue
      /\ \A d \in Seller \ {c} : serving'[d] = serving[d]
  BY DEF Alone
<1>2. ASSUME NEW o \in TireOrder
      PROVE  /\ tire[o].rev \in Nat /\ tire'[o].rev \in Nat
             /\ \A l \in TireLine : l[1] \in Nat
             /\ tire[o].lines \subseteq TireLine /\ tire'[o].lines \subseteq TireLine
  BY DEF TireInv, TireRow, TireLine
<1>3. ASSUME NEW d \in Seller PROVE TireRequest(serving[d])'
  <2>1. CASE d = c
    BY <2>1
  <2>2. CASE d # c
    <3>1. serving'[d] = serving[d] /\ TireRequest(serving[d])
      BY <2>2, <1>1 DEF TireInv
    <3>2. ASSUME serving[d].op = "complete"
          PROVE  \A l \in serving[d].saw.lines : l[1] <= tire'[serving[d].ref].rev
      <4>1. /\ serving[d].ref \in TireOrder /\ serving[d].saw.lines \subseteq TireLine
            /\ \A l \in serving[d].saw.lines : l[1] <= tire[serving[d].ref].rev
        BY <3>1, <3>2 DEF TireRequest, TireOps
      <4> QED
        BY <4>1, <1>2
    <3> QED
      BY <3>1, <3>2 DEF TireRequest
  <2> QED
    BY <2>1, <2>2
<1>4. ASSUME NEW o \in TireOrder
      PROVE  Spent(o)' /\ Apart(o)' /\ \A l \in tire'[o].lines : l[1] <= tire'[o].rev
  <2>1. /\ Spent(o) /\ Apart(o) /\ \A l \in tire[o].lines : l[1] <= tire[o].rev
    BY DEF TireInv
  <2>2. Apart(o)'
    BY <1>1, <2>1 DEF Apart
  <2>3. \A l \in tire'[o].lines : l[1] <= tire'[o].rev
    BY <1>2, <2>1
  <2>4. ASSUME NEW i \in DOMAIN billed[o], NEW l \in WithTerms(billed[o][i])
        PROVE  /\ l \in TireLine /\ l[1] <= tire'[o].rev
               /\ l \in tire'[o].lines => l \in tire'[o].covered
    <3>1. l \in TireLine /\ l[1] <= tire[o].rev /\ (l \in tire[o].lines => l \in tire[o].covered)
      BY <2>1 DEF Spent
    <3>2. CASE l \in tire'[o].lines
      <4>1. ~(l[1] > tire[o].rev)
        BY <3>1, <3>2, <1>2
      <4> QED
        BY <3>1, <3>2, <4>1, <2>3
    <3>3. CASE l \notin tire'[o].lines
      BY <3>1, <3>3, <1>2
    <3> QED
      BY <3>2, <3>3
  <2> QED
    BY <1>1, <2>2, <2>3, <2>4 DEF Spent
<1>5. \A p \in Product : SoldLines(p)' = SoldLines(p)
  BY <1>1 DEF SoldLines
<1>6. \A o \in TireOrder : /\ tire'[o].invoice = Len(billed'[o])
                           /\ tire'[o].status \in {"none", "draft"} => billed'[o] = <<>>
  BY <1>1 DEF TireInv
<1>7. TireInv'
  BY <1>1, <1>3, <1>4, <1>5, <1>6 DEF TireInv
<1>8. Aside(TireOps, TireOrder)
  BY <1>1 DEF Aside, DeskTypeOK, Alone
<1>9. BillInv'
  BY <1>1, ClaimsKept DEF DeskTypeOK
<1> QED
  BY <1>7, <1>8, <1>9 DEF TireKept

\* Orders are read to be edited, completed or cancelled, and then their lines.
LEMMA TireReads ==
  ASSUME ShopsInv, NEW c \in Seller,
         \/ \E o \in TireOrder : ReadForItems(c, o) \/ ReadForCompletion(c, o) \/ ReadForCancel(c, o)
         \/ DeleteOrderItems(c) \/ ReadOrderLines(c)
  PROVE  TireKept
<1>1. tire \in [TireOrder -> TireRow] /\ \A x \in TireOrder : tire[x] \in TireRow /\ tire[x].rev \in Nat
  BY DEF ShopsInv, TireInv, TireRow
<1>2. ASSUME NEW op \in TireOps, NEW o \in TireOrder, NEW row,
             serving'[c] = [op |-> op, ref |-> o, saw |-> row], Alone(c),
             UNCHANGED <<billed, tireVars>>,
             op = "complete" => row.lines = tire[o].lines,
             \/ op \notin {"completing", "complete"} \/ billed[o] = <<>>
             \/ serving[c].op = "completing" /\ serving[c].ref = o
      PROVE  TireKept
  <2>1. serving'[c].op = op /\ serving'[c].ref = o /\ serving'[c].saw = row
    BY <1>2
  <2>2. tire' = tire /\ UNCHANGED <<billed, shelf, catalogue>>
    BY <1>2 DEF tireVars
  <2>3. tire[o].lines \subseteq TireLine /\ \A l \in tire[o].lines : l[1] <= tire[o].rev
    BY <1>1 DEF TireRow, ShopsInv, TireInv
  <2>4. TireRequest(serving[c])'
    BY <1>2, <2>1, <2>2, <2>3 DEF TireRequest
  <2>5. ASSUME NEW x \in Sold
        PROVE  \/ serving'[c].op = "idle" \/ ~Bills(serving'[c], x)
               \/ billed[x] = <<>>
               \/ serving[c].op # "idle" /\ Bills(serving[c], x)
    <3>1. Bills(serving'[c], x) => op \in {"completing", "complete"} /\ x = o
      BY <2>1 DEF Bills, TireOps
    <3> QED
      BY <1>2, <3>1 DEF Bills
  <2> QED
    BY <1>1, <1>2, <2>1, <2>2, <2>4, <2>5, TireStep1
<1>3. ASSUME NEW op \in {"items", "completing", "cancel"}, NEW o \in TireOrder,
             ReadRow(c, op, o, NoLines), UNCHANGED <<billed, tireVars>>,
             op = "completing" => tire[o].status = "draft"
      PROVE  TireKept
  <2>1. /\ serving'[c] = [op |-> op, ref |-> o, saw |-> NoLines] /\ Alone(c)
        /\ op \in TireOps /\ op # "complete"
    BY <1>3, ReadEffect DEF ShopsInv, TireOps
  <2>2. op = "completing" => billed[o] = <<>>
    BY <1>3 DEF ShopsInv, TireInv
  <2> QED
    BY <1>2, <1>3, <2>1, <2>2
<1>4. ASSUME NEW o \in TireOrder, ReadForItems(c, o) PROVE TireKept
  BY <1>3, <1>4 DEF ReadForItems
<1>5. ASSUME NEW o \in TireOrder, ReadForCompletion(c, o) PROVE TireKept
  BY <1>3, <1>5 DEF ReadForCompletion, TireOpen
<1>6. ASSUME NEW o \in TireOrder, ReadForCancel(c, o) PROVE TireKept
  BY <1>3, <1>6 DEF ReadForCancel
<1>7. ASSUME NEW op \in {"replace", "complete"},
             ReadOn(c, op, [lines |-> tire[serving[c].ref].lines]),
             UNCHANGED <<billed, tireVars>>, serving[c].op \in TireOps,
             op = "complete" => serving[c].op = "completing"
      PROVE  TireKept
  <2>1. PICK o \in TireOrder : o = serving[c].ref
    BY <1>7 DEF ShopsInv, TireInv, TireRequest
  <2>2. PICK row : row = [lines |-> tire[o].lines]
    OBVIOUS
  <2>3. serving'[c] = [op |-> op, ref |-> o, saw |-> row] /\ Alone(c)
    BY <1>7, <2>1, <2>2, ReadOnEffect DEF ShopsInv
  <2>4. op \in TireOps /\ row.lines = tire[o].lines
    BY <2>2 DEF TireOps
  <2> QED
    BY <1>2, <1>7, <2>1, <2>3, <2>4
<1>8. CASE DeleteOrderItems(c)
  BY <1>7, <1>8 DEF DeleteOrderItems, Serving, TireOps
<1>9. CASE ReadOrderLines(c)
  BY <1>7, <1>9 DEF ReadOrderLines, Serving, TireOps
<1> QED
  BY <1>4, <1>5, <1>6, <1>8, <1>9

\* An edit commits: the lines it found are gone, with their warranties, and its own are in.
LEMMA ItemsKeep ==
  ASSUME ShopsInv, NEW c \in Seller, NEW items \in Basket, SetOrderItems(c, items)
  PROVE  TireKept
<1>0. PICK o \in TireOrder : o = serving[c].ref
  BY DEF SetOrderItems, Serving, ShopsInv, TireInv, TireRequest, TireOps
<1>1. PICK gone : o = serving[c].ref /\ gone = serving[c].saw.lines
  BY <1>0
<1> DEFINE lines == (tire[o].lines \ gone) \cup Inserted(tire[o].rev + 1, items)
           covered == tire[o].covered \ gone
           row == [tire[o] EXCEPT !.lines = lines, !.covered = covered, !.rev = tire[o].rev + 1]
<1>2. /\ tire[o].rev < MaxRev /\ Done(c) /\ UNCHANGED <<billed, shelf, catalogue>>
      /\ tire' = [tire EXCEPT
           ![o].lines = (@ \ gone) \cup Inserted(tire[o].rev + 1, items),
           ![o].covered = @ \ gone, ![o].rev = @ + 1]
  BY <1>1 DEF SetOrderItems
<1>3. tire \in [TireOrder -> TireRow] /\ items \subseteq Product \cup {Fitting}
  BY DEF ShopsInv, TireInv, Basket
<1>4. MaxRev \in Nat /\ \A x \in TireOrder : tire[x] \in TireRow /\ tire[x].rev \in 0..MaxRev
  BY <1>3, TireAssumption DEF TireRow
<1>5. tire[o].rev + 1 \in 0..MaxRev /\ tire[o].rev + 1 > tire[o].rev
  BY <1>2, <1>4
<1>6. /\ tire[o].lines \subseteq TireLine /\ tire[o].covered \subseteq ProductLine
      /\ \A l \in tire[o].lines : l[1] <= tire[o].rev
  BY <1>4 DEF TireRow, ShopsInv, TireInv
<1>7. /\ Inserted(tire[o].rev + 1, items) \subseteq TireLine
      /\ \A l \in Inserted(tire[o].rev + 1, items) : l[1] = tire[o].rev + 1
  BY <1>3, <1>5 DEF Inserted, TireLine
<1>8. lines \subseteq TireLine /\ covered \subseteq ProductLine
  BY <1>6, <1>7
<1>9. tire' = [tire EXCEPT ![o] = row]
  BY <1>2, <1>3
<1> HIDE DEF lines, covered
<1>10. /\ row \in TireRow /\ row.invoice = tire[o].invoice /\ row.status = tire[o].status
       /\ row.rev = tire[o].rev + 1 /\ row.lines = lines /\ row.covered = covered
  BY <1>4, <1>5, <1>8 DEF TireRow
<1> HIDE DEF row
<1>11. /\ tire' \in [TireOrder -> TireRow] /\ tire'[o] = row
       /\ \A x \in TireOrder \ {o} : tire'[x] = tire[x]
  BY <1>3, <1>9, <1>10
<1>12. Alone(c) /\ serving'[c].op = "idle"
  BY <1>2, DoneEffect DEF ShopsInv
<1>13. ASSUME NEW l \in lines
       PROVE  \/ l \in tire[o].lines /\ (l \in tire[o].covered => l \in covered)
              \/ l[1] > tire[o].rev /\ l[1] <= tire[o].rev + 1
  <2>1. CASE l \in tire[o].lines \ gone
    BY <2>1 DEF covered
  <2>2. CASE l \in Inserted(tire[o].rev + 1, items)
    BY <2>2, <1>4, <1>7
  <2> QED
    BY <2>1, <2>2 DEF lines
<1>14. ASSUME NEW x \in TireOrder
       PROVE  /\ tire'[x].invoice = tire[x].invoice /\ tire'[x].rev >= tire[x].rev
              /\ \A l \in tire'[x].lines :
                   \/ l \in tire[x].lines /\ (l \in tire[x].covered => l \in tire'[x].covered)
                   \/ l[1] > tire[x].rev /\ l[1] <= tire'[x].rev
              /\ tire'[x].status \in {"none", "draft"} => tire[x].status \in {"none", "draft"}
  <2>1. CASE x = o
    BY <2>1, <1>4, <1>10, <1>11, <1>13
  <2>2. CASE x # o
    BY <2>2, <1>4, <1>11
  <2> QED
    BY <2>1, <2>2
<1>15. TireRequest(serving[c])'
  BY <1>12 DEF TireRequest, TireOps
<1> QED
  BY <1>2, <1>11, <1>12, <1>14, <1>15, TireStep1

\* An order is cancelled.
LEMMA CancelKeeps ==
  ASSUME ShopsInv, NEW c \in Seller, CancelOrder(c)
  PROVE  TireKept
<1> DEFINE o == serving[c].ref
<1>1. /\ serving[c].op = "cancel" /\ tire' = [tire EXCEPT ![o].status = "cancelled"]
      /\ Done(c) /\ UNCHANGED <<billed, shelf, catalogue>>
  BY DEF CancelOrder, Serving
<1>2. o \in TireOrder /\ tire \in [TireOrder -> TireRow]
  BY <1>1 DEF ShopsInv, TireInv, TireRequest, TireOps
<1>3. \A x \in TireOrder : tire[x] \in TireRow /\ tire[x].rev \in Nat
  BY <1>2 DEF TireRow
<1>4. tire' \in [TireOrder -> TireRow]
  BY <1>1, <1>2 DEF TireRow
<1>5. Alone(c) /\ serving'[c].op = "idle"
  BY <1>1, DoneEffect DEF ShopsInv
<1>6. \A x \in TireOrder :
        /\ tire'[x].invoice = tire[x].invoice /\ tire'[x].rev = tire[x].rev
        /\ tire'[x].lines = tire[x].lines /\ tire'[x].covered = tire[x].covered
        /\ tire'[x].status \in {tire[x].status, "cancelled"}
  BY <1>1, <1>2, <1>3 DEF TireRow
<1>7. TireRequest(serving[c])'
  BY <1>5 DEF TireRequest, TireOps
<1> QED
  BY <1>1, <1>3, <1>4, <1>5, <1>6, <1>7, TireStep1

\* A product is registered, or an order is opened: nobody at the desk has to do with it.
LEMMA OpeningsKeep ==
  ASSUME ShopsInv,
         \/ \E p \in Product : RegisterProduct(p)
         \/ \E o \in TireOrder, customer \in BOOLEAN : OpenTireOrder(o, customer)
         \/ \E o \in TireOrder, p \in Product : RequestTires(o, {p})
         \/ \E o \in TireOrder : RequestTires(o, {})
  PROVE  TireKept
<1>0. /\ tire \in [TireOrder -> TireRow] /\ catalogue \subseteq Product
      /\ \A x \in TireOrder : tire[x] \in TireRow
  BY DEF ShopsInv, TireInv
<1> DEFINE Opened == /\ tire' \in [TireOrder -> TireRow]
                     /\ \A x \in TireOrder :
                          /\ tire'[x].invoice = tire[x].invoice /\ tire'[x].rev = tire[x].rev
                          /\ \/ tire'[x] = tire[x]
                             \/ /\ tire[x].status = "none"
                                /\ \A l \in tire'[x].lines : l[1] <= tire'[x].rev
<1>1. UNCHANGED <<serving, billed, shelf>> /\ catalogue' \subseteq Product /\ Opened
  <2>1. CASE \E p \in Product : RegisterProduct(p)
    <3>1. tire' = tire
      BY <2>1 DEF RegisterProduct
    <3>2. UNCHANGED <<serving, billed, shelf>> /\ catalogue' \subseteq Product
      BY <1>0, <2>1 DEF RegisterProduct, deskVars
    <3> QED
      BY <3>1, <3>2, <1>0
  <2>2. ASSUME NEW o \in TireOrder, NEW row \in TireRow, tire[o].status = "none",
               row.invoice = tire[o].invoice, row.rev = tire[o].rev,
               \A l \in row.lines : l[1] <= row.rev, tire' = [tire EXCEPT ![o] = row]
        PROVE  Opened
    <3>1. tire' \in [TireOrder -> TireRow]
      BY <1>0, <2>2
    <3>2. tire'[o] = row /\ \A x \in TireOrder \ {o} : tire'[x] = tire[x]
      BY <1>0, <2>2
    <3> QED
      BY <3>1, <3>2, <2>2
  <2>3. ASSUME NEW o \in TireOrder, NEW customer \in BOOLEAN, OpenTireOrder(o, customer)
        PROVE  Opened
    <3> DEFINE row == [tire[o] EXCEPT !.status = "draft", !.customer = customer]
    <3>1. row \in TireRow
      BY <1>0 DEF TireRow
    <3>2. /\ row.invoice = tire[o].invoice /\ row.rev = tire[o].rev
          /\ row.lines = tire[o].lines
      BY <1>0 DEF TireRow
    <3>3. tire' = [tire EXCEPT ![o] = row]
      BY <1>0, <2>3 DEF OpenTireOrder
    <3>4. tire[o].status = "none" /\ \A l \in tire[o].lines : l[1] <= tire[o].rev
      BY <2>3 DEF OpenTireOrder, ShopsInv, TireInv
    <3> HIDE DEF row, Opened
    <3> QED
      BY <3>1, <3>2, <3>3, <3>4, <2>2
  <2>4. ASSUME NEW o \in TireOrder, NEW chosen \in SUBSET Product, RequestTires(o, chosen)
        PROVE  Opened
    <3> DEFINE row == [tire[o] EXCEPT !.status = "draft", !.customer = TRUE,
                                      !.lines = Inserted(0, chosen)]
    <3>1. tire[o].rev \in 0..MaxRev /\ MaxRev \in Nat
      BY <1>0, TireAssumption DEF TireRow
    <3>2. /\ Inserted(0, chosen) \subseteq TireLine
          /\ \A l \in Inserted(0, chosen) : l[1] <= tire[o].rev
      BY <3>1 DEF Inserted, TireLine
    <3>3. row \in TireRow
      BY <1>0, <3>2 DEF TireRow
    <3>4. /\ row.invoice = tire[o].invoice /\ row.rev = tire[o].rev
          /\ row.lines = Inserted(0, chosen)
      BY <1>0 DEF TireRow
    <3>5. tire' = [tire EXCEPT ![o] = row]
      BY <1>0, <2>4 DEF RequestTires
    <3>6. tire[o].status = "none"
      BY <2>4 DEF RequestTires
    <3> HIDE DEF row, Opened
    <3> QED
      BY <3>2, <3>3, <3>4, <3>5, <3>6, <2>2
  <2>5. CASE \E o \in TireOrder, customer \in BOOLEAN : OpenTireOrder(o, customer)
    <3>1. UNCHANGED <<serving, billed, shelf, catalogue>>
      BY <2>5 DEF OpenTireOrder, deskVars
    <3> HIDE DEF Opened
    <3> QED
      BY <3>1, <2>3, <2>5, <1>0
  <2>6. CASE \/ \E o \in TireOrder, p \in Product : RequestTires(o, {p})
             \/ \E o \in TireOrder : RequestTires(o, {})
    <3>1. PICK o \in TireOrder, chosen \in SUBSET Product : RequestTires(o, chosen)
      BY <2>6
    <3>2. UNCHANGED <<serving, billed, shelf, catalogue>>
      BY <3>1 DEF RequestTires, deskVars
    <3> HIDE DEF Opened
    <3> QED
      BY <3>1, <3>2, <2>4, <1>0
  <2> HIDE DEF Opened
  <2> QED
    BY <2>1, <2>5, <2>6
<1>2. \A p \in Product : SoldLines(p)' = SoldLines(p)
  BY <1>1 DEF SoldLines
<1>3. \A c \in Seller : TireRequest(serving[c])'
  BY <1>1 DEF TireRequest, TireOps, ShopsInv, TireInv
<1>4. ASSUME NEW x \in TireOrder
      PROVE  /\ Spent(x)' /\ Apart(x)' /\ \A l \in tire'[x].lines : l[1] <= tire'[x].rev
             /\ tire'[x].invoice = Len(billed'[x])
             /\ tire'[x].status \in {"none", "draft"} => billed'[x] = <<>>
  <2>1. /\ Spent(x) /\ Apart(x) /\ \A l \in tire[x].lines : l[1] <= tire[x].rev
        /\ tire[x].invoice = Len(billed[x])
        /\ tire[x].status \in {"none", "draft"} => billed[x] = <<>>
    BY DEF ShopsInv, TireInv
  <2>2. CASE tire'[x] = tire[x]
    BY <1>1, <2>1, <2>2 DEF Spent, Apart
  <2>3. CASE tire[x].status = "none" /\ \A l \in tire'[x].lines : l[1] <= tire'[x].rev
    <3>1. billed'[x] = <<>> /\ DOMAIN billed'[x] = {}
      BY <1>1, <2>1, <2>3
    <3> QED
      BY <1>1, <2>1, <2>3, <3>1 DEF Spent, Apart
  <2> QED
    BY <1>1, <2>2, <2>3
<1>5. TireInv'
  BY <1>1, <1>2, <1>3, <1>4 DEF ShopsInv, TireInv
<1>6. Aside(TireOps, TireOrder)
  BY <1>1 DEF Aside, ShopsInv, DeskTypeOK
<1> QED
  BY <1>1, <1>5, <1>6, ClaimsStay DEF ShopsInv, TireKept, deskVars

\* There are finitely many lines.
LEMMA LinesFinite ==
  ASSUME NEW lines \in SUBSET TireLine
  PROVE  IsFiniteSet(lines) /\ Cardinality(lines) \in Nat
<1>1. IsFiniteSet(0..MaxRev)
  BY TireAssumption, FS_Interval
<1>2. IsFiniteSet(Product \cup {Fitting})
  BY TireAssumption, FS_Singleton, FS_Union
<1>3. IsFiniteSet(TireLine)
  BY <1>1, <1>2, FS_Product DEF TireLine
<1> QED
  BY <1>3, FS_Subset, FS_CardinalityType

\* What an invoice adds to the lines sold.
LEMMA SoldAdded ==
  ASSUME NEW o \in TireOrder, NEW n, NEW saw \in SUBSET TireLine, NEW p \in Product,
         n \notin DOMAIN billed[o], DOMAIN billed'[o] = DOMAIN billed[o] \cup {n},
         \A i \in DOMAIN billed[o] : billed'[o][i] = billed[o][i], billed'[o][n] = saw,
         \A x \in TireOrder \ {o} : billed'[x] = billed[x],
         IsFiniteSet(SoldLines(p))
  PROVE  /\ IsFiniteSet(SoldLines(p)')
         /\ Cardinality(SoldLines(p)') = Cardinality(SoldLines(p)) + Cardinality(Of(saw, p))
         /\ Cardinality(SoldLines(p)) \in Nat /\ Cardinality(Of(saw, p)) \in Nat
<1> DEFINE Added == {<<o, n>>} \X Of(saw, p)
<1>1. \A u : u \in SoldLines(p) <=>
              \E x \in TireOrder : \E i \in DOMAIN billed[x] :
                u \in {<<x, i>>} \X Of(billed[x][i], p)
  BY DEF SoldLines
<1>2. \A u : u \in SoldLines(p)' <=>
              \E x \in TireOrder : \E i \in DOMAIN billed'[x] :
                u \in {<<x, i>>} \X Of(billed'[x][i], p)
  BY DEF SoldLines, Of
<1>3. \A u : u \in Added <=> u \in {<<o, n>>} \X Of(billed'[o][n], p)
  OBVIOUS
<1>4. SoldLines(p)' = SoldLines(p) \cup Added
  <2>1. ASSUME NEW u \in SoldLines(p) PROVE u \in SoldLines(p)'
    <3>0. PICK x \in TireOrder : \E i \in DOMAIN billed[x] : u \in {<<x, i>>} \X Of(billed[x][i], p)
      BY <1>1
    <3>1. PICK i \in DOMAIN billed[x] : u \in {<<x, i>>} \X Of(billed[x][i], p)
      BY <3>0
    <3>2. i \in DOMAIN billed'[x] /\ billed'[x][i] = billed[x][i]
      OBVIOUS
    <3> QED
      BY <3>1, <3>2, <1>2
  <2>2. ASSUME NEW u \in Added PROVE u \in SoldLines(p)'
    <3>1. n \in DOMAIN billed'[o] /\ u \in {<<o, n>>} \X Of(billed'[o][n], p)
      BY <1>3
    <3> QED
      BY <3>1, <1>2
  <2>3. ASSUME NEW u \in SoldLines(p)' PROVE u \in SoldLines(p) \/ u \in Added
    <3>0. PICK x \in TireOrder : \E i \in DOMAIN billed'[x] : u \in {<<x, i>>} \X Of(billed'[x][i], p)
      BY <1>2
    <3>1. PICK i \in DOMAIN billed'[x] : u \in {<<x, i>>} \X Of(billed'[x][i], p)
      BY <3>0
    <3>2. CASE x = o /\ i = n
      BY <3>1, <3>2, <1>3
    <3>3. CASE ~(x = o /\ i = n)
      <4>1. i \in DOMAIN billed[x] /\ billed'[x][i] = billed[x][i]
        BY <3>3
      <4> QED
        BY <3>1, <4>1, <1>1
    <3> QED
      BY <3>2, <3>3
  <2> HIDE DEF Added
  <2> QED
    BY <2>1, <2>2, <2>3
<1>5. SoldLines(p) \cap Added = {}
  <2> SUFFICES ASSUME NEW u \in SoldLines(p), u \in Added PROVE FALSE
    OBVIOUS
  <2>0. PICK x \in TireOrder : \E i \in DOMAIN billed[x] : u \in {<<x, i>>} \X Of(billed[x][i], p)
    BY <1>1
  <2>1. PICK i \in DOMAIN billed[x] : u \in {<<x, i>>} \X Of(billed[x][i], p)
    BY <2>0
  <2>2. <<x, i>> = <<o, n>>
    BY <2>1
  <2> QED
    BY <2>2
<1>6. IsFiniteSet(Of(saw, p)) /\ Cardinality(Of(saw, p)) \in Nat
  BY LinesFinite DEF Of
<1>7. IsFiniteSet({<<o, n>>}) /\ Cardinality({<<o, n>>}) = 1
  BY FS_Singleton
<1>8. IsFiniteSet(Added) /\ Cardinality(Added) = Cardinality({<<o, n>>}) * Cardinality(Of(saw, p))
  BY <1>6, <1>7, FS_Product
<1> HIDE DEF Added
<1>9. Cardinality(Added) = Cardinality(Of(saw, p))
  <2>1. Cardinality(Added) = 1 * Cardinality(Of(saw, p))
    BY <1>7, <1>8
  <2> QED
    BY <2>1, <1>6
<1>10. /\ IsFiniteSet(SoldLines(p) \cup Added)
       /\ Cardinality(SoldLines(p) \cup Added) =
            Cardinality(SoldLines(p)) + Cardinality(Added) - Cardinality(SoldLines(p) \cap Added)
  BY <1>8, FS_Union
<1>11. Cardinality({}) = 0 /\ Cardinality(SoldLines(p)) \in Nat
  BY FS_EmptySet, FS_CardinalityType
<1>12. Cardinality(SoldLines(p)') =
         Cardinality(SoldLines(p)) + Cardinality(Of(saw, p)) - 0
  BY <1>4, <1>5, <1>9, <1>10, <1>11
<1> QED
  BY <1>4, <1>6, <1>10, <1>11, <1>12

\* An order is completed: its tyres leave the shelf and are billed; no invoice has billed
\* a line that gets a warranty, for the line is there and has none.
LEMMA CompletionKeeps ==
  ASSUME ShopsInv, NEW c \in Seller, CompleteOrder(c)
  PROVE  TireKept
<1>1. /\ serving[c].op = "complete" /\ DeskTypeOK /\ TireRequest(serving[c])
      /\ tire \in [TireOrder -> TireRow]
  BY DEF CompleteOrder, Serving, ShopsInv, TireInv
<1>2. PICK o \in TireOrder : o = serving[c].ref
  BY <1>1 DEF TireRequest, TireOps
<1>3. PICK saw \in SUBSET TireLine : saw = serving[c].saw.lines
  BY <1>1 DEF TireRequest
<1>4. \A l \in saw : l[1] <= tire[o].rev
  BY <1>1, <1>2, <1>3 DEF TireRequest
<1>5. /\ Done(c) /\ catalogue' = catalogue /\ RaiseInvoice(o, saw)
      /\ \A p \in Product : Cardinality(Of(saw, p)) <= shelf[p]
      /\ shelf' = [p \in Product |-> shelf[p] - Cardinality(Of(saw, p))]
      /\ WithTerms(saw) \subseteq tire[o].lines \ tire[o].covered
      /\ tire' = [tire EXCEPT ![o].status = "completed", ![o].invoice = Len(billed[o]) + 1,
                              ![o].covered = @ \cup WithTerms(saw)]
  BY <1>2, <1>3 DEF CompleteOrder, WarrantiesFit, NewInvoice, OnShelf, Issue
<1>6. o \in Sold /\ saw \in Lines /\ tire[o] \in TireRow /\ tire[o].covered \subseteq ProductLine
  BY <1>1, TireRows DEF TireRow, Lines
<1>7. PICK n \in Nat :
        /\ n = Len(billed[o]) + 1 /\ Len(billed[o]) \in Nat
        /\ billed' \in [Sold -> Seq(Lines)]
        /\ Len(billed'[o]) = n
        /\ DOMAIN billed'[o] = DOMAIN billed[o] \cup {n}
        /\ \A i \in DOMAIN billed[o] : i # n /\ billed'[o][i] = billed[o][i]
        /\ billed'[o][n] = saw /\ billed'[o] # <<>>
        /\ \A y \in Sold \ {o} : billed'[y] = billed[y]
  BY <1>1, <1>5, <1>6, InvoiceEffect
<1>8. serving'[c].op = "idle" /\ Alone(c)
  BY <1>1, <1>5, DoneEffect
<1> DEFINE new == [tire[o] EXCEPT !.status = "completed", !.invoice = n,
                                  !.covered = tire[o].covered \cup WithTerms(saw)]
<1>9. PICK row \in TireRow :
        /\ row.status = "completed" /\ row.invoice = n /\ row.rev = tire[o].rev
        /\ row.lines = tire[o].lines /\ row.covered = tire[o].covered \cup WithTerms(saw)
        /\ tire' = [tire EXCEPT ![o] = row]
  <2>1. WithTerms(saw) \subseteq ProductLine
    BY TireAssumption DEF WithTerms, TireLine, ProductLine
  <2>2. /\ new \in TireRow /\ new.status = "completed" /\ new.invoice = n
        /\ new.rev = tire[o].rev /\ new.lines = tire[o].lines
        /\ new.covered = tire[o].covered \cup WithTerms(saw)
    BY <2>1, <1>6, <1>7 DEF TireRow
  <2>3. tire' = [tire EXCEPT ![o] = new]
    BY <1>1, <1>5, <1>7
  <2> HIDE DEF new
  <2> QED
    BY <2>2, <2>3
<1>10. /\ tire' \in [TireOrder -> TireRow] /\ tire'[o] = row
       /\ \A x \in TireOrder \ {o} : tire'[x] = tire[x]
  BY <1>1, <1>9
<1>11. \A x \in TireOrder : tire'[x].rev = tire[x].rev /\ tire'[x].lines = tire[x].lines
  BY <1>9, <1>10
<1>12. \A d \in Seller : serving'[d] = serving[d] \/ (d = c /\ serving'[d].op = "idle")
  BY <1>8 DEF Alone
<1>13. ASSUME NEW d \in Seller PROVE TireRequest(serving[d])'
  <2>1. CASE serving'[d] = serving[d]
    BY <2>1, <1>11 DEF ShopsInv, TireInv, TireRequest, TireOps
  <2>2. CASE serving'[d].op = "idle"
    BY <2>2 DEF TireRequest, TireOps
  <2> QED
    BY <2>1, <2>2, <1>12
<1>14. Spent(o)' /\ Apart(o)'
  <2>1. Spent(o) /\ Apart(o)
    BY DEF ShopsInv, TireInv
  <2>2. ASSUME NEW i \in DOMAIN billed[o], NEW l \in WithTerms(billed[o][i])
        PROVE  /\ l \in TireLine /\ l[1] <= row.rev /\ (l \in row.lines => l \in row.covered)
               /\ l \notin WithTerms(saw)
    BY <2>1, <1>5, <1>9 DEF Spent
  <2>3. \A l \in WithTerms(saw) : l \in TireLine /\ l[1] <= row.rev /\ l \in row.covered
    BY <1>4, <1>9 DEF WithTerms
  <2>4. \A i \in DOMAIN billed'[o] :
          \/ i \in DOMAIN billed[o] /\ WithTerms(billed'[o][i]) = WithTerms(billed[o][i])
          \/ i = n /\ WithTerms(billed'[o][i]) = WithTerms(saw)
    BY <1>7
  <2>5. Spent(o)'
    BY <2>2, <2>3, <2>4, <1>10 DEF Spent, WithTerms
  <2>6. ASSUME NEW i \in DOMAIN billed'[o], NEW k \in DOMAIN billed'[o], i # k
        PROVE  WithTerms(billed'[o][i]) \cap WithTerms(billed'[o][k]) = {}
    <3>1. CASE i \in DOMAIN billed[o] /\ k \in DOMAIN billed[o]
      BY <2>1, <2>6, <3>1, <1>7 DEF Apart
    <3>2. CASE i = n
      BY <2>2, <2>4, <2>6, <3>2, <1>7
    <3>3. CASE k = n
      BY <2>2, <2>4, <2>6, <3>3, <1>7
    <3> QED
      BY <3>1, <3>2, <3>3, <1>7
  <2> QED
    BY <2>5, <2>6 DEF Apart, WithTerms
<1>15. ASSUME NEW x \in TireOrder
       PROVE  /\ tire'[x].invoice = Len(billed'[x])
              /\ tire'[x].status \in {"none", "draft"} => billed'[x] = <<>>
              /\ \A l \in tire'[x].lines : l[1] <= tire'[x].rev
              /\ Spent(x)' /\ Apart(x)'
  <2>1. CASE x = o
    BY <2>1, <1>7, <1>9, <1>10, <1>11, <1>14 DEF ShopsInv, TireInv
  <2>2. CASE x # o
    BY <2>2, <1>7, <1>10, TireRows DEF ShopsInv, TireInv, Spent, Apart
  <2> QED
    BY <2>1, <2>2
<1>16. ASSUME NEW p \in Product
       PROVE  /\ shelf'[p] \in Nat /\ IsFiniteSet(SoldLines(p)')
              /\ shelf'[p] + Cardinality(SoldLines(p)') = Supply[p]
  <2>1. /\ shelf[p] \in Nat /\ IsFiniteSet(SoldLines(p))
        /\ shelf[p] + Cardinality(SoldLines(p)) = Supply[p]
    BY DEF ShopsInv, TireInv
  <2>2. /\ IsFiniteSet(SoldLines(p)')
        /\ Cardinality(SoldLines(p)') = Cardinality(SoldLines(p)) + Cardinality(Of(saw, p))
        /\ Cardinality(SoldLines(p)) \in Nat /\ Cardinality(Of(saw, p)) \in Nat
    <3>1. /\ n \notin DOMAIN billed[o] /\ \A x \in TireOrder \ {o} : billed'[x] = billed[x]
          /\ DOMAIN billed'[o] = DOMAIN billed[o] \cup {n} /\ billed'[o][n] = saw
          /\ \A i \in DOMAIN billed[o] : billed'[o][i] = billed[o][i]
          /\ IsFiniteSet(SoldLines(p))
      BY <2>1, <1>7, TireRows
    <3> HIDE DEF new
    <3> QED
      BY <3>1, SoldAdded
  <2>3. /\ shelf'[p] = shelf[p] - Cardinality(Of(saw, p))
        /\ Cardinality(Of(saw, p)) <= shelf[p]
    BY <1>5
  <2> QED
    BY <2>1, <2>2, <2>3
<1>17. shelf' \in [Product -> Nat]
  BY <1>5, <1>16
<1>18. TireInv'
  <2>1. catalogue' \subseteq Product
    BY <1>5 DEF ShopsInv, TireInv
  <2> QED
    BY <2>1, <1>10, <1>13, <1>15, <1>16, <1>17 DEF TireInv
<1>19. Aside(TireOps, TireOrder)
  BY <1>7, <1>8, <1>12 DEF Aside, DeskTypeOK, Alone
<1>20. BillInv'
  <2>1. serving[c].op # "idle" /\ Bills(serving[c], o) /\ BillInv
    BY <1>1, <1>2 DEF Bills, ShopsInv
  <2>2. Len(billed'[o]) = Len(billed[o]) + 1
    BY <1>7
  <2> QED
    BY <2>1, <2>2, <1>1, <1>7, <1>8, ClaimsKept
<1> QED
  BY <1>18, <1>19, <1>20 DEF TireKept

\* Every step of the shop keeps its invariant and the ledger's, and leaves the other
\* shops' rows and requests alone.
LEMMA TireShopKept ==
  ASSUME ShopsInv, TireNext
  PROVE  TireKept
BY OpeningsKeep, TireReads, ItemsKeep, CancelKeeps, CompletionKeeps DEF TireNext

-----------------------------------------------------------------------------
(***************************************************************************)
(* Units: an index, and the place of a unit among those counted for it.    *)
(***************************************************************************)
Units(f) == UNION {{j} \X (1..f[j]) : j \in DOMAIN f}

\* More at one index: as many units more.
LEMMA UnitsGained ==
  ASSUME NEW J, NEW f \in [J -> Nat], NEW g \in [J -> Nat], NEW k \in J,
         \A j \in J \ {k} : g[j] = f[j], f[k] <= g[k], IsFiniteSet(Units(f))
  PROVE  /\ IsFiniteSet(Units(g))
         /\ Cardinality(Units(g)) = Cardinality(Units(f)) + (g[k] - f[k])
         /\ Cardinality(Units(f)) \in Nat
<1> DEFINE New == {k} \X ((f[k] + 1)..g[k])
<1>1. f[k] \in Nat /\ g[k] \in Nat
  OBVIOUS
<1>2. 1..g[k] = (1..f[k]) \cup ((f[k] + 1)..g[k])
  BY <1>1
<1>3. \A u : u \in Units(f) <=> \E j \in J : u \in {j} \X (1..f[j])
  BY DEF Units
<1>4. \A u : u \in Units(g) <=> \E j \in J : u \in {j} \X (1..g[j])
  BY DEF Units
<1>5. {k} \X (1..g[k]) = ({k} \X (1..f[k])) \cup New
  BY <1>2
<1>6. Units(g) = Units(f) \cup New
  <2>1. ASSUME NEW u PROVE u \in Units(g) <=> u \in Units(f) \cup New
    <3>1. ASSUME NEW j \in J, j # k PROVE u \in {j} \X (1..g[j]) <=> u \in {j} \X (1..f[j])
      BY <3>1
    <3> HIDE DEF New
    <3> QED
      BY <3>1, <1>3, <1>4, <1>5
  <2> QED
    BY <2>1
<1>7. Units(f) \cap New = {}
  <2> SUFFICES ASSUME NEW u, u \in Units(f), u \in New PROVE FALSE
    OBVIOUS
  <2>1. PICK j \in J : u \in {j} \X (1..f[j])
    BY <1>3
  <2>2. PICK i \in 1..f[j], m \in (f[k] + 1)..g[k] : u = <<j, i>> /\ u = <<k, m>>
    BY <2>1
  <2>3. j = k /\ i = m
    BY <2>2
  <2> QED
    BY <2>2, <2>3, <1>1
<1>8. IsFiniteSet(New) /\ Cardinality(New) = g[k] - f[k]
  <2>1. /\ IsFiniteSet((f[k] + 1)..g[k])
        /\ Cardinality((f[k] + 1)..g[k]) = IF f[k] + 1 > g[k] THEN 0 ELSE g[k] - (f[k] + 1) + 1
    <3>1. f[k] + 1 \in Int /\ g[k] \in Int
      BY <1>1
    <3>2. \A a, b \in Int : /\ IsFiniteSet(a..b)
                            /\ Cardinality(a..b) = IF a > b THEN 0 ELSE b - a + 1
      BY FS_Interval
    <3> QED
      BY <3>1, <3>2
  <2>2. Cardinality((f[k] + 1)..g[k]) = g[k] - f[k]
    BY <2>1, <1>1
  <2>3. IsFiniteSet({k}) /\ Cardinality({k}) = 1
    BY FS_Singleton
  <2>4. IsFiniteSet(New) /\ Cardinality(New) = Cardinality({k}) * Cardinality((f[k] + 1)..g[k])
    BY <2>1, <2>3, FS_Product
  <2> HIDE DEF New
  <2>5. Cardinality(New) = 1 * (g[k] - f[k])
    BY <2>2, <2>3, <2>4
  <2> QED
    BY <2>4, <2>5, <1>1
<1>9. /\ IsFiniteSet(Units(f) \cup New)
      /\ Cardinality(Units(f) \cup New) =
           Cardinality(Units(f)) + Cardinality(New) - Cardinality(Units(f) \cap New)
  BY <1>8, FS_Union
<1>10. Cardinality({}) = 0 /\ Cardinality(Units(f)) \in Nat
  BY FS_EmptySet, FS_CardinalityType
<1> HIDE DEF New
<1>11. Cardinality(Units(g)) = Cardinality(Units(f)) + (g[k] - f[k]) - 0
  BY <1>6, <1>7, <1>8, <1>9, <1>10
<1>12. \A a, b, d \in Nat : a + (b - d) - 0 = a + (b - d)
  OBVIOUS
<1> QED
  BY <1>1, <1>6, <1>9, <1>10, <1>11, <1>12

-----------------------------------------------------------------------------
(***************************************************************************)
(* The steps of the café.                                                  *)
(***************************************************************************)
CafeKept == CafeInv' /\ Aside(CafeOps, CafeOrder) /\ BillInv'

\* Orders are made once, keep their customer, session and what they drew, and are
\* never unmade; invoices are only added.
CupsKept ==
  /\ cup' \in [CafeOrder -> CupRow]
  /\ \A o \in CafeOrder :
       /\ cup[o].status # "none" =>
            /\ cup'[o].status # "none"
            /\ cup[o].status \in {"ready", "closed"} => cup'[o].status \in {"ready", "closed"}
            /\ cup'[o].session = cup[o].session /\ cup'[o].customer = cup[o].customer
       /\ Len(billed[o]) \in Nat /\ Len(billed'[o]) \in Nat /\ Len(billed[o]) <= Len(billed'[o])

\* Then what the requests and the drawers hold of them stays right.
LEMMA CafeRequestsKept ==
  ASSUME CafeInv, CupsKept,
         \A d \in Seller : serving'[d] = serving[d] \/ CafeRequest(serving[d])'
  PROVE  /\ \A d \in Seller : CafeRequest(serving[d])'
         /\ \A o \in CafeOrder, s \in Session : Sale(o, s) => Sale(o, s)'
<1>1. \A o \in CafeOrder : cup[o] \in CupRow
  BY DEF CafeInv
<1>2. ASSUME NEW o \in CafeOrder, NEW s \in Session, Sale(o, s) PROVE Sale(o, s)'
  BY <1>2 DEF Sale, CupsKept
<1>3. ASSUME NEW d \in Seller, serving'[d] = serving[d] PROVE CafeRequest(serving[d])'
  <2>1. CafeRequest(serving[d])
    BY DEF CafeInv
  <2>2. PICK r : r = serving[d]
    OBVIOUS
  <2>3. serving'[d] = r
    BY <1>3, <2>2
  <2>4. ASSUME r.op = "summed" PROVE \A o \in r.saw : Sale(o, r.ref)'
    BY <2>1, <2>2, <2>4, <1>2 DEF CafeRequest
  <2>5. ASSUME r.op = "close"
        PROVE  /\ r.ref \in CafeOrder /\ cup'[r.ref].status # "none"
               /\ r.saw.customer = cup'[r.ref].customer
               /\ r.saw.invoice \in 0..Len(billed'[r.ref])
    BY <2>1, <2>2, <2>5 DEF CafeRequest, CupsKept
  <2> QED
    BY <2>1, <2>2, <2>3, <2>4, <2>5 DEF CafeRequest, Sale
<1> QED
  BY <1>2, <1>3

\* What the other shops do does not touch it.
LEMMA CafeStays ==
  ASSUME DeskTypeOK, CafeInv, UNCHANGED cafeVars, NEW ops, ops \cap CafeOps = {}, NEW rows,
         rows \cap CafeOrder = {}, Aside(ops, rows)
  PROVE  CafeInv'
<1>1. /\ cup' = cup /\ drawer' = drawer /\ pantry' = pantry /\ wasted' = wasted
      /\ waiting' = waiting
      /\ \A o \in CafeOrder : billed'[o] = billed[o]
  BY TireRows DEF cafeVars, Aside
<1>2. \A c \in Seller : serving'[c] = serving[c] \/ serving'[c].op \notin CafeOps
  BY DEF Aside, CafeOps
<1>3. CupsKept
  BY <1>1, TireRows DEF CupsKept, CafeInv, DeskTypeOK
<1>4. \A c \in Seller : serving'[c] = serving[c] \/ CafeRequest(serving[c])'
  BY <1>2 DEF CafeRequest, CafeOps
<1>5. \A c \in Seller : CafeRequest(serving[c])'
  BY <1>3, <1>4, CafeRequestsKept
<1>6. \A i \in Ingredient : DrawnUnits(i)' = DrawnUnits(i)
  BY <1>1 DEF DrawnUnits
<1>7. \A s \in Session : \A o \in drawer[s].expected : Sale(o, s)'
  BY <1>1 DEF CafeInv, Sale
<1> QED
  BY <1>1, <1>5, <1>6, <1>7 DEF CafeInv

\* A step at the desk or a drawer: no order is touched, no invoice raised.
LEMMA DrawerKeeps ==
  ASSUME ShopsInv, NEW c \in Seller, Alone(c), UNCHANGED <<billed, cup, pantry, wasted, waiting>>,
         drawer' \in [Session -> [status: {"none", "open", "closed"}, expected: SUBSET CafeOrder]],
         \A s \in Session : \A o \in drawer'[s].expected : Sale(o, s),
         serving'[c].op \in CafeOps \cup {"idle"}, CafeRequest(serving[c])',
         \A x \in Sold : Bills(serving'[c], x) => billed[x] = <<>>
  PROVE  CafeKept
<1> USE DEF ShopsInv
<1>1. \A o \in CafeOrder : Len(billed[o]) \in Nat
  BY TireRows DEF DeskTypeOK
<1>2. CupsKept
  BY <1>1 DEF CupsKept, CafeInv
<1>3. \A d \in Seller : serving'[d] = serving[d] \/ CafeRequest(serving[d])'
  BY DEF Alone
<1>4. \A d \in Seller : CafeRequest(serving[d])'
  BY <1>2, <1>3, CafeRequestsKept
<1>5. \A i \in Ingredient : DrawnUnits(i)' = DrawnUnits(i)
  BY DEF DrawnUnits
<1>6. \A s \in Session : \A o \in drawer'[s].expected : Sale(o, s)'
  BY DEF Sale
<1>7. CafeInv'
  BY <1>4, <1>5, <1>6 DEF CafeInv
<1>8. Aside(CafeOps, CafeOrder)
  BY DEF Aside, DeskTypeOK, Alone
<1>9. BillInv'
  BY ClaimsKept DEF DeskTypeOK
<1> QED
  BY <1>7, <1>8, <1>9 DEF CafeKept

\* A session is looked up, opened, summed or closed, or a request begins.
LEMMA SessionsKeep ==
  ASSUME ShopsInv, NEW c \in Seller,
         \/ ReadForOpening(c) \/ SumSales(c) \/ CloseSession(c) \/ ReadForLounge(c)
         \/ \E s \in Session : OpenSession(c, s) \/ ReadForClosing(c, s)
         \/ \E s \in Session \cup {NoSession} : ReadForOrder(c, s)
         \/ \E o \in CafeOrder : ReadForClose(c, o)
  PROVE  CafeKept
<1>1. /\ DeskTypeOK /\ CafeRequest(serving[c])
      /\ cup \in [CafeOrder -> CupRow]
      /\ drawer \in [Session -> [status: {"none", "open", "closed"}, expected: SUBSET CafeOrder]]
      /\ \A s \in Session : \A o \in drawer[s].expected : Sale(o, s)
  BY DEF ShopsInv, CafeInv
<1>2. \A x : ~Bills([op |-> "idle"], x)
  BY DEF Bills
<1>3. ASSUME NEW op \in {"opening", "closing", "order", "lounge"},
             NEW ref \in Session \cup {NoSession}, op = "closing" => ref \in Session,
             ReadRow(c, op, ref, {}), UNCHANGED <<billed, cafeVars>>
      PROVE  CafeKept
  <2>0. PICK none : none = {}
    OBVIOUS
  <2>1. serving'[c] = [op |-> op, ref |-> ref, saw |-> none] /\ Alone(c)
    <3>1. ReadRow(c, op, ref, none)
      BY <1>3, <2>0
    <3> QED
      BY <1>1, <3>1, ReadEffect
  <2>2. CafeRequest(serving[c])' /\ serving'[c].op \in CafeOps
    BY <2>1, <1>3 DEF CafeRequest, CafeOps
  <2>3. \A x : ~Bills(serving'[c], x)
    BY <2>1 DEF Bills
  <2>4. UNCHANGED <<billed, cup, pantry, wasted, waiting, drawer>>
    BY <1>3 DEF cafeVars
  <2> QED
    BY <1>1, <2>1, <2>2, <2>3, <2>4, DrawerKeeps
<1>4. CASE ReadForOpening(c)
  BY <1>3, <1>4 DEF ReadForOpening
<1>5. CASE ReadForLounge(c)
  BY <1>3, <1>5 DEF ReadForLounge
<1>6. ASSUME NEW s \in Session, ReadForClosing(c, s) PROVE CafeKept
  BY <1>3, <1>6 DEF ReadForClosing
<1>7. ASSUME NEW s \in Session \cup {NoSession}, ReadForOrder(c, s) PROVE CafeKept
  BY <1>3, <1>7 DEF ReadForOrder
<1>8. CASE SumSales(c)
  <2>1. PICK s \in Session : s = serving[c].ref
    BY <1>1, <1>8 DEF SumSales, Serving, CafeRequest
  <2>2. /\ serving' = [serving EXCEPT ![c] = [op |-> "summed", ref |-> s, saw |-> ClosedIn(s)]]
        /\ UNCHANGED <<billed, cafeVars>>
    BY <2>1, <1>8 DEF SumSales
  <2>3. /\ serving'[c] = [op |-> "summed", ref |-> s, saw |-> ClosedIn(s)]
        /\ Alone(c)
    BY <1>1, <2>2 DEF Alone, DeskTypeOK
  <2>4. UNCHANGED <<billed, cup, pantry, wasted, waiting, drawer>>
    BY <2>2 DEF cafeVars
  <2>5. ClosedIn(s) \subseteq CafeOrder /\ \A o \in ClosedIn(s) : Sale(o, s)'
    BY <2>4 DEF ClosedIn, Sale
  <2>6. serving'[c].op = "summed" /\ serving'[c].ref = s /\ serving'[c].saw = ClosedIn(s)
    BY <2>3
  <2>7. CafeRequest(serving[c])' /\ serving'[c].op \in CafeOps
    BY <2>5, <2>6 DEF CafeRequest, CafeOps, Sale
  <2>8. \A x : ~Bills(serving'[c], x)
    BY <2>6 DEF Bills
  <2> QED
    BY <1>1, <2>3, <2>4, <2>7, <2>8, DrawerKeeps
<1>9. ASSUME NEW s \in Session, OpenSession(c, s) PROVE CafeKept
  <2>1. /\ drawer' = [drawer EXCEPT ![s].status = "open"] /\ Done(c)
        /\ UNCHANGED <<billed, cup, pantry, wasted, waiting>>
    BY <1>9 DEF OpenSession
  <2>2. serving'[c] = Free /\ serving'[c].op = "idle" /\ Alone(c)
    BY <1>1, <2>1, DoneEffect
  <2>3. /\ drawer' \in [Session -> [status: {"none", "open", "closed"}, expected: SUBSET CafeOrder]]
        /\ \A t \in Session : drawer'[t].expected = drawer[t].expected
    BY <1>1, <2>1
  <2>4. CafeRequest(serving[c])'
    BY <2>2 DEF CafeRequest
  <2> QED
    BY <1>1, <1>2, <2>1, <2>2, <2>3, <2>4, DrawerKeeps DEF Free
<1>10. CASE CloseSession(c)
  <2>1. PICK s \in Session, sum \in SUBSET CafeOrder : s = serving[c].ref /\ sum = serving[c].saw
    BY <1>1, <1>10 DEF CloseSession, Serving, CafeRequest
  <2>2. /\ drawer' = [drawer EXCEPT ![s] = [status |-> "closed", expected |-> sum]] /\ Done(c)
        /\ UNCHANGED <<billed, cup, pantry, wasted, waiting>>
        /\ \A o \in sum : Sale(o, s)
    BY <1>1, <2>1, <1>10 DEF CloseSession, Serving, CafeRequest
  <2>3. serving'[c] = Free /\ serving'[c].op = "idle" /\ Alone(c)
    BY <1>1, <2>2, DoneEffect
  <2>4. /\ drawer' \in [Session -> [status: {"none", "open", "closed"}, expected: SUBSET CafeOrder]]
        /\ \A t \in Session : drawer'[t].expected = IF t = s THEN sum ELSE drawer[t].expected
    BY <1>1, <2>2
  <2>5. CafeRequest(serving[c])'
    BY <2>3 DEF CafeRequest
  <2>6. \A t \in Session : \A o \in drawer'[t].expected : Sale(o, t)
    BY <1>1, <2>2, <2>4
  <2> QED
    BY <1>2, <2>2, <2>3, <2>4, <2>5, <2>6, DrawerKeeps DEF Free
<1>11. ASSUME NEW o \in CafeOrder, ReadForClose(c, o) PROVE CafeKept
  <2>1. PICK saw : saw = [customer |-> cup[o].customer, invoice |-> cup[o].invoice]
    OBVIOUS
  <2>2. /\ ReadRow(c, "close", o, saw) /\ UNCHANGED <<billed, cup, pantry, wasted, waiting, drawer>>
        /\ cup[o].status \in {"open", "ready"}
    BY <2>1, <1>11 DEF ReadForClose, cafeVars
  <2>3. serving'[c] = [op |-> "close", ref |-> o, saw |-> saw] /\ Alone(c)
    BY <1>1, <2>2, ReadEffect
  <2>4. serving'[c].op = "close" /\ serving'[c].ref = o /\ serving'[c].saw = saw
    BY <2>3
  <2>5. cup[o].invoice \in 0..Len(billed[o]) /\ (cup[o].invoice = 0 => billed[o] = <<>>)
    BY DEF ShopsInv, CafeInv
  <2>6. saw.customer = cup[o].customer /\ saw.invoice = cup[o].invoice
    BY <2>1
  <2>7. CafeRequest(serving[c])' /\ serving'[c].op \in CafeOps
    BY <2>2, <2>4, <2>5, <2>6 DEF CafeRequest, CafeOps
  <2>8. \A x : Bills(serving'[c], x) => billed[x] = <<>>
    BY <2>4, <2>5, <2>6 DEF Bills
  <2> QED
    BY <1>1, <2>2, <2>3, <2>7, <2>8, DrawerKeeps
<1> QED
  BY <1>4, <1>5, <1>6, <1>7, <1>8, <1>9, <1>10, <1>11

\* A new order, from the bar or the lounge, with what it draws taken from the pantry.
LEMMA NewCupKeeps ==
  ASSUME ShopsInv, NEW c \in Seller, Done(c), UNCHANGED <<billed, drawer, wasted, waiting>>,
         NEW o \in CafeOrder, cup[o].status = "none",
         NEW row \in CupRow, row.status = "open", row.invoice = 0,
         cup' = [cup EXCEPT ![o] = row],
         \A i \in Ingredient : row.drawn[i] <= pantry[i],
         pantry' = [i \in Ingredient |-> pantry[i] - row.drawn[i]]
  PROVE  CafeKept
<1> USE DEF ShopsInv
<1>1. serving'[c] = Free /\ serving'[c].op = "idle" /\ Alone(c)
  BY DoneEffect
<1>2. cup \in [CafeOrder -> CupRow] /\ \A x \in CafeOrder : cup[x] \in CupRow
  BY DEF CafeInv
<1>3. /\ cup' \in [CafeOrder -> CupRow] /\ cup'[o] = row
      /\ \A x \in CafeOrder \ {o} : cup'[x] = cup[x]
  BY <1>2
<1>4. \A x \in CafeOrder : Len(billed[x]) \in Nat
  BY TireRows DEF DeskTypeOK
<1>5. CupsKept
  <2>1. ASSUME NEW x \in CafeOrder, cup[x].status # "none" PROVE cup'[x] = cup[x]
    BY <2>1, <1>3
  <2> QED
    BY <2>1, <1>3, <1>4 DEF CupsKept
<1>6. \A d \in Seller : serving'[d] = serving[d] \/ CafeRequest(serving[d])'
  BY <1>1 DEF Alone, CafeRequest
<1>7. /\ \A d \in Seller : CafeRequest(serving[d])'
      /\ \A x \in CafeOrder, s \in Session : Sale(x, s) => Sale(x, s)'
  BY <1>5, <1>6, CafeRequestsKept
<1>8. ASSUME NEW i \in Ingredient
      PROVE  /\ IsFiniteSet(DrawnUnits(i)') /\ pantry'[i] \in Nat
             /\ Pantry[i] = pantry'[i] + wasted'[i] + Cardinality(DrawnUnits(i)')
  <2>1. PICK f \in [CafeOrder -> Nat] : f = [x \in CafeOrder |-> cup[x].drawn[i]]
    BY <1>2 DEF CupRow
  <2>2. PICK g \in [CafeOrder -> Nat] : g = [x \in CafeOrder |-> cup'[x].drawn[i]]
    <3>1. \A x \in CafeOrder : cup'[x] \in CupRow
      BY <1>3
    <3>2. \A x \in CafeOrder : cup'[x].drawn[i] \in Nat
      BY <3>1 DEF CupRow
    <3> QED
      BY <3>2
  <2>3. DrawnUnits(i) = Units(f) /\ DrawnUnits(i)' = Units(g)
    BY <2>1, <2>2 DEF DrawnUnits, Units
  <2>4. f[o] = 0
    BY <2>1 DEF CafeInv, Nothing
  <2>5. g[o] = row.drawn[i] /\ \A x \in CafeOrder \ {o} : g[x] = f[x]
    BY <2>1, <2>2, <1>3
  <2>6. IsFiniteSet(Units(f)) /\ f[o] <= g[o]
    <3>1. IsFiniteSet(DrawnUnits(i))
      BY DEF CafeInv
    <3>2. g[o] \in Nat
      OBVIOUS
    <3> QED
      BY <3>1, <3>2, <2>3, <2>4
  <2>7. /\ IsFiniteSet(Units(g)) /\ Cardinality(Units(g)) = Cardinality(Units(f)) + (g[o] - f[o])
        /\ Cardinality(Units(f)) \in Nat
    BY <2>5, <2>6, UnitsGained
  <2>8. /\ pantry[i] \in Nat /\ wasted[i] \in Nat /\ row.drawn[i] <= pantry[i]
        /\ pantry'[i] = pantry[i] - row.drawn[i] /\ wasted'[i] = wasted[i]
        /\ Pantry[i] = pantry[i] + wasted[i] + Cardinality(Units(f))
    BY <2>3, CafeAssumption DEF CafeInv
  <2> QED
    BY <2>3, <2>4, <2>5, <2>7, <2>8
<1>9. pantry' \in [Ingredient -> Nat]
  BY <1>8
<1>10. \A s \in Session : \A x \in drawer[s].expected : Sale(x, s)'
  BY <1>7 DEF CafeInv
<1>11. ASSUME NEW x \in CafeOrder
       PROVE  /\ cup'[x].invoice \in 0..Len(billed'[x])
              /\ cup'[x].invoice = 0 => billed'[x] = <<>>
              /\ ~cup'[x].customer => billed'[x] = <<>>
              /\ cup'[x].status = "none" => billed'[x] = <<>> /\ cup'[x].drawn = Nothing
  <2>1. CASE x = o
    BY <2>1, <1>3, <1>4 DEF CafeInv
  <2>2. CASE x # o
    BY <2>2, <1>3 DEF CafeInv
  <2> QED
    BY <2>1, <2>2
<1>12. CafeInv'
  BY <1>3, <1>7, <1>8, <1>9, <1>10, <1>11 DEF CafeInv
<1>13. Aside(CafeOps, CafeOrder)
  BY <1>1 DEF Aside, DeskTypeOK, Alone
<1>14. BillInv'
  BY <1>1, ClaimsKept DEF DeskTypeOK
<1> QED
  BY <1>12, <1>13, <1>14 DEF CafeKept

\* An order is made at the bar.
LEMMA CreateOrderKeeps ==
  ASSUME ShopsInv, NEW c \in Seller, NEW o \in CafeOrder, NEW customer \in BOOLEAN,
         NEW extras \in SUBSET Ingredient, CreateOrder(c, o, customer, extras)
  PROVE  CafeKept
<1>1. CafeRequest(serving[c]) /\ pantry \in [Ingredient -> Nat]
  BY DEF ShopsInv, CafeInv
<1>2. PICK s \in Session \cup {NoSession} : s = serving[c].ref
  BY <1>1 DEF CreateOrder, Serving, CafeRequest
<1>3. PICK draws \in [Ingredient -> Nat] : draws = Draws(extras)
  <2>1. \A i \in Ingredient : (IF i \in extras THEN Extra[i] ELSE 0) \in Nat /\ Recipe[i] \in Nat
    BY CafeAssumption
  <2>2. \A i \in Ingredient : Recipe[i] + (IF i \in extras THEN Extra[i] ELSE 0) \in Nat
    BY <2>1
  <2> QED
    BY <2>2 DEF Draws
<1>4. PICK row : row = [status |-> "open", customer |-> customer, session |-> s,
                        drawn |-> draws, invoice |-> 0]
  OBVIOUS
<1>5. row \in CupRow /\ row.status = "open" /\ row.invoice = 0 /\ row.drawn = draws
  BY <1>4 DEF CupRow
<1>6. /\ Done(c) /\ UNCHANGED <<billed, drawer, wasted, waiting>> /\ cup[o].status = "none"
      /\ cup' = [cup EXCEPT ![o] = row]
      /\ \A i \in Ingredient : row.drawn[i] <= pantry[i]
      /\ pantry' = [i \in Ingredient |-> pantry[i] - row.drawn[i]]
  BY <1>2, <1>3, <1>4, <1>5 DEF CreateOrder, InStock, Take
<1> QED
  BY <1>5, <1>6, NewCupKeeps

\* An order is taken in the lounge; it draws nothing.
LEMMA LoungeKeeps ==
  ASSUME ShopsInv, NEW c \in Seller, NEW o \in CafeOrder, OrderFromLounge(c, o)
  PROVE  CafeKept
<1>1. pantry \in [Ingredient -> Nat]
  BY DEF ShopsInv, CafeInv
<1>2. PICK row : row = [status |-> "open", customer |-> TRUE, session |-> NoSession,
                        drawn |-> Nothing, invoice |-> 0]
  OBVIOUS
<1>3. Nothing \in [Ingredient -> Nat]
  BY DEF Nothing
<1>4. row \in CupRow /\ row.status = "open" /\ row.invoice = 0 /\ row.drawn = Nothing
  BY <1>2, <1>3 DEF CupRow
<1>5. \A i \in Ingredient : Nothing[i] = 0 /\ pantry[i] \in Nat /\ pantry[i] - 0 = pantry[i]
  BY <1>1 DEF Nothing
<1>6. /\ Done(c) /\ UNCHANGED <<billed, drawer, wasted, waiting>> /\ cup[o].status = "none"
      /\ cup' = [cup EXCEPT ![o] = row] /\ pantry' = pantry
  BY <1>2 DEF OrderFromLounge
<1>7. /\ \A i \in Ingredient : row.drawn[i] <= pantry[i]
      /\ pantry' = [i \in Ingredient |-> pantry[i] - row.drawn[i]]
  BY <1>1, <1>4, <1>5, <1>6
<1> QED
  BY <1>4, <1>6, <1>7, NewCupKeeps

\* An order is closed, and billed if its customer is known and no invoice was seen.
LEMMA CloseKeeps ==
  ASSUME ShopsInv, NEW c \in Seller, CloseOrder(c)
  PROVE  CafeKept
<1> USE DEF ShopsInv
<1>1. serving[c].op = "close" /\ CafeRequest(serving[c])
  BY DEF CloseOrder, Serving, CafeInv
<1>2. PICK o \in CafeOrder, customer \in BOOLEAN, n \in Nat :
        /\ o = serving[c].ref /\ cup[o].status # "none"
        /\ customer = cup[o].customer /\ customer = serving[c].saw.customer
        /\ n = serving[c].saw.invoice /\ n \in 0..Len(billed[o])
  <2>1. cup[serving[c].ref].customer \in BOOLEAN
    BY <1>1 DEF CafeRequest, CafeInv, CupRow
  <2>2. Len(billed[serving[c].ref]) \in Nat
    BY <1>1, TireRows DEF CafeRequest, DeskTypeOK
  <2>3. serving[c].saw.invoice \in Nat
    BY <1>1, <2>2 DEF CafeRequest
  <2> QED
    BY <1>1, <2>1, <2>3 DEF CafeRequest
<1> DEFINE bills == customer /\ n = 0
<1>3. /\ Done(c) /\ UNCHANGED <<drawer, pantry, wasted, waiting>>
      /\ IF bills THEN RaiseInvoice(o, {o}) ELSE UNCHANGED billed
      /\ cup' = [cup EXCEPT ![o].status = "closed",
                   ![o].invoice = IF bills THEN Len(billed[o]) + 1 ELSE n]
  BY <1>2 DEF CloseOrder, NewInvoice
<1>4. o \in Sold /\ {o} \in Lines /\ Len(billed[o]) \in Nat
  BY TireRows DEF Lines, DeskTypeOK
<1>5. PICK m \in Nat : m = IF bills THEN Len(billed[o]) + 1 ELSE n
  BY <1>4
<1>6. /\ \A x \in Sold \ {o} : billed'[x] = billed[x]
      /\ billed' \in [Sold -> Seq(Lines)]
      /\ bills => Len(billed'[o]) = Len(billed[o]) + 1 /\ billed'[o] # <<>>
      /\ ~bills => billed'[o] = billed[o]
  <2>1. CASE bills
    BY <2>1, <1>3, <1>4, InvoiceEffect
  <2>2. CASE ~bills
    BY <2>2, <1>3 DEF DeskTypeOK
  <2> QED
    BY <2>1, <2>2
<1>7. serving'[c] = Free /\ serving'[c].op = "idle" /\ Alone(c)
  BY <1>3, DoneEffect
<1>8. cup \in [CafeOrder -> CupRow] /\ \A x \in CafeOrder : cup[x] \in CupRow
  BY DEF CafeInv
<1>9. PICK row \in CupRow :
        /\ row.status = "closed" /\ row.invoice = m /\ row.customer = customer
        /\ row.session = cup[o].session /\ row.drawn = cup[o].drawn
        /\ cup' = [cup EXCEPT ![o] = row]
  <2> DEFINE new == [cup[o] EXCEPT !.status = "closed", !.invoice = m]
  <2>1. /\ new \in CupRow /\ new.status = "closed" /\ new.invoice = m
        /\ new.customer = cup[o].customer
        /\ new.session = cup[o].session /\ new.drawn = cup[o].drawn
    BY <1>8 DEF CupRow
  <2>2. cup' = [cup EXCEPT ![o] = new]
    BY <1>3, <1>5, <1>8
  <2> HIDE DEF new
  <2> QED
    BY <2>1, <2>2, <1>2
<1>10. /\ cup' \in [CafeOrder -> CupRow] /\ cup'[o] = row
       /\ \A x \in CafeOrder \ {o} : cup'[x] = cup[x]
  BY <1>8, <1>9
<1>11. \A x \in CafeOrder : /\ Len(billed[x]) \in Nat /\ Len(billed'[x]) \in Nat
                            /\ Len(billed[x]) <= Len(billed'[x])
  <2>1. \A x \in CafeOrder : Len(billed[x]) \in Nat /\ Len(billed'[x]) \in Nat
    BY <1>6, TireRows DEF DeskTypeOK
  <2> HIDE DEF bills
  <2>2. Len(billed[o]) <= Len(billed'[o])
    BY <2>1, <1>6
  <2> QED
    BY <2>1, <2>2, <1>6, TireRows
<1>12. CupsKept
  <2>1. ASSUME NEW x \in CafeOrder, cup[x].status # "none"
        PROVE  /\ cup'[x].status # "none"
               /\ cup[x].status \in {"ready", "closed"} => cup'[x].status \in {"ready", "closed"}
               /\ cup'[x].session = cup[x].session /\ cup'[x].customer = cup[x].customer
    <3>1. CASE x = o
      BY <3>1, <1>2, <1>9, <1>10
    <3>2. CASE x # o
      BY <3>2, <2>1, <1>10
    <3> QED
      BY <3>1, <3>2
  <2> QED
    BY <2>1, <1>10, <1>11 DEF CupsKept
<1>13. \A d \in Seller : serving'[d] = serving[d] \/ CafeRequest(serving[d])'
  BY <1>7 DEF Alone, CafeRequest
<1>14. /\ \A d \in Seller : CafeRequest(serving[d])'
       /\ \A x \in CafeOrder, s \in Session : Sale(x, s) => Sale(x, s)'
  BY <1>12, <1>13, CafeRequestsKept
<1>15. \A x \in CafeOrder : cup'[x].drawn = cup[x].drawn
  BY <1>9, <1>10
<1>16. \A i \in Ingredient : DrawnUnits(i)' = DrawnUnits(i)
  BY <1>15 DEF DrawnUnits
<1>17. \A s \in Session : \A x \in drawer[s].expected : Sale(x, s)'
  BY <1>14 DEF CafeInv
<1>18. ASSUME NEW x \in CafeOrder
       PROVE  /\ cup'[x].invoice \in 0..Len(billed'[x])
              /\ cup'[x].invoice = 0 => billed'[x] = <<>>
              /\ ~cup'[x].customer => billed'[x] = <<>>
              /\ cup'[x].status = "none" => billed'[x] = <<>> /\ cup'[x].drawn = Nothing
  <2>1. CASE x = o /\ bills
    <3>1. cup'[x].invoice = Len(billed[o]) + 1 /\ cup'[x].status = "closed" /\ cup'[x].customer
      BY <2>1, <1>5, <1>9, <1>10
    <3> QED
      BY <3>1, <2>1, <1>4, <1>6
  <2>2. CASE x = o /\ ~bills
    <3>1. cup'[x].invoice = n /\ cup'[x].status = "closed" /\ cup'[x].customer = customer
      BY <2>2, <1>5, <1>9, <1>10
    <3>2. ~customer => billed[o] = <<>>
      BY <1>2 DEF CafeInv
    <3> QED
      BY <3>1, <3>2, <2>2, <1>2, <1>6
  <2>3. CASE x # o
    BY <2>3, <1>6, <1>10, TireRows DEF CafeInv
  <2> QED
    BY <2>1, <2>2, <2>3
<1>19. CafeInv'
  BY <1>3, <1>10, <1>14, <1>16, <1>17, <1>18 DEF CafeInv
<1>20. Aside(CafeOps, CafeOrder)
  BY <1>6, <1>7 DEF Aside, DeskTypeOK, Alone
<1>21. BillInv'
  <2>1. bills => serving[c].op # "idle" /\ Bills(serving[c], o)
    BY <1>1, <1>2 DEF Bills
  <2> HIDE DEF bills
  <2> QED
    BY <2>1, <1>6, <1>7, ClaimsKept
<1> QED
  BY <1>19, <1>20, <1>21 DEF CafeKept

\* An order is made ready, a unit is wasted, the customer leaves: nobody at the desk has
\* to do with it.
LEMMA AtTheBarKeeps ==
  ASSUME ShopsInv,
         \/ \E o \in CafeOrder : MarkReady(o)
         \/ \E i \in Ingredient : LogWaste(i)
         \/ CustomerLeaves
  PROVE  CafeKept
<1> USE DEF ShopsInv
<1>1. cup \in [CafeOrder -> CupRow] /\ \A x \in CafeOrder : cup[x] \in CupRow
  BY DEF CafeInv
<1>2. UNCHANGED <<deskVars, drawer>>
  BY DEF MarkReady, LogWaste, CustomerLeaves
<1>3. serving' = serving /\ billed' = billed /\ drawer' = drawer
  BY <1>2 DEF deskVars
<1>4. /\ cup' \in [CafeOrder -> CupRow]
      /\ \A x \in CafeOrder :
           /\ cup'[x].invoice = cup[x].invoice /\ cup'[x].customer = cup[x].customer
           /\ cup'[x].session = cup[x].session /\ cup'[x].drawn = cup[x].drawn
           /\ \/ cup'[x].status = cup[x].status
              \/ cup[x].status # "none" /\ cup'[x].status = "ready"
  <2>1. CASE cup' = cup
    BY <2>1, <1>1
  <2>2. ASSUME NEW o \in CafeOrder, MarkReady(o)
        PROVE  cup' = [cup EXCEPT ![o].status = "ready"] /\ cup[o].status # "none"
    BY <2>2 DEF MarkReady
  <2>3. CASE \E o \in CafeOrder : MarkReady(o)
    <3>1. PICK o \in CafeOrder : cup' = [cup EXCEPT ![o].status = "ready"] /\ cup[o].status # "none"
      BY <2>2, <2>3
    <3> DEFINE new == [cup[o] EXCEPT !.status = "ready"]
    <3>2. /\ new \in CupRow /\ new.status = "ready" /\ new.invoice = cup[o].invoice
          /\ new.customer = cup[o].customer /\ new.session = cup[o].session
          /\ new.drawn = cup[o].drawn
      BY <1>1 DEF CupRow
    <3>3. cup' = [cup EXCEPT ![o] = new]
      BY <3>1, <1>1
    <3> HIDE DEF new
    <3>4. /\ cup' \in [CafeOrder -> CupRow] /\ cup'[o] = new
          /\ \A x \in CafeOrder \ {o} : cup'[x] = cup[x]
      BY <3>2, <3>3, <1>1
    <3>5. ASSUME NEW x \in CafeOrder
          PROVE  /\ cup'[x].invoice = cup[x].invoice /\ cup'[x].customer = cup[x].customer
                 /\ cup'[x].session = cup[x].session /\ cup'[x].drawn = cup[x].drawn
                 /\ \/ cup'[x].status = cup[x].status
                    \/ cup[x].status # "none" /\ cup'[x].status = "ready"
      <4>1. CASE x = o
        BY <4>1, <3>1, <3>2, <3>4
      <4>2. CASE x # o
        BY <4>2, <3>4
      <4> QED
        BY <4>1, <4>2
    <3> QED
      BY <3>4, <3>5
  <2> QED
    BY <2>1, <2>3 DEF LogWaste, CustomerLeaves
<1>5. \A x \in CafeOrder : Len(billed[x]) \in Nat
  BY TireRows DEF DeskTypeOK
<1>6. CupsKept
  BY <1>3, <1>4, <1>5 DEF CupsKept
<1>7. /\ \A d \in Seller : CafeRequest(serving[d])'
      /\ \A x \in CafeOrder, s \in Session : Sale(x, s) => Sale(x, s)'
  BY <1>3, <1>6, CafeRequestsKept
<1>8. \A i \in Ingredient : DrawnUnits(i)' = DrawnUnits(i)
  BY <1>4 DEF DrawnUnits
<1>9. /\ pantry' \in [Ingredient -> Nat] /\ wasted' \in [Ingredient -> 0..MaxWaste]
      /\ waiting' \in BOOLEAN
      /\ \A i \in Ingredient : pantry'[i] + wasted'[i] = pantry[i] + wasted[i]
  <2>1. /\ pantry \in [Ingredient -> Nat] /\ wasted \in [Ingredient -> 0..MaxWaste]
        /\ waiting \in BOOLEAN /\ MaxWaste \in Nat
    BY CafeAssumption DEF CafeInv
  <2>2. ASSUME NEW i \in Ingredient, LogWaste(i)
        PROVE  /\ pantry[i] - 1 \in Nat /\ wasted[i] + 1 \in 0..MaxWaste
               /\ pantry' = [pantry EXCEPT ![i] = pantry[i] - 1]
               /\ wasted' = [wasted EXCEPT ![i] = wasted[i] + 1]
               /\ waiting' = waiting
    BY <2>1, <2>2 DEF LogWaste
  <2>3. CASE \E i \in Ingredient : LogWaste(i)
    BY <2>1, <2>2, <2>3
  <2>4. CASE \E o \in CafeOrder : MarkReady(o)
    BY <2>1, <2>4 DEF MarkReady
  <2>5. CASE CustomerLeaves
    BY <2>1, <2>5 DEF CustomerLeaves
  <2> QED
    BY <2>3, <2>4, <2>5
<1>10. ASSUME NEW i \in Ingredient
       PROVE  /\ IsFiniteSet(DrawnUnits(i)')
              /\ Pantry[i] = pantry'[i] + wasted'[i] + Cardinality(DrawnUnits(i)')
  <2>1. /\ IsFiniteSet(DrawnUnits(i))
        /\ Pantry[i] = pantry[i] + wasted[i] + Cardinality(DrawnUnits(i))
    BY DEF CafeInv
  <2> QED
    BY <2>1, <1>8, <1>9
<1>11. \A s \in Session : \A x \in drawer[s].expected : Sale(x, s)'
  BY <1>7 DEF CafeInv
<1>12. ASSUME NEW x \in CafeOrder
       PROVE  /\ cup'[x].invoice \in 0..Len(billed'[x])
              /\ cup'[x].invoice = 0 => billed'[x] = <<>>
              /\ ~cup'[x].customer => billed'[x] = <<>>
              /\ cup'[x].status = "none" => billed'[x] = <<>> /\ cup'[x].drawn = Nothing
  BY <1>3, <1>4 DEF CafeInv
<1>13. CafeInv'
  BY <1>3, <1>4, <1>7, <1>9, <1>10, <1>11, <1>12 DEF CafeInv
<1>14. Aside(CafeOps, CafeOrder)
  BY <1>3 DEF Aside, DeskTypeOK
<1>15. BillInv'
  BY <1>2, ClaimsStay
<1> QED
  BY <1>13, <1>14, <1>15 DEF CafeKept

\* Every step of the café keeps its invariant and the ledger's, and leaves the other
\* shops' rows and requests alone.
LEMMA CafeShopKept ==
  ASSUME ShopsInv, CafeNext
  PROVE  CafeKept
BY SessionsKeep, CreateOrderKeeps, LoungeKeeps, CloseKeeps, AtTheBarKeeps DEF CafeNext

-----------------------------------------------------------------------------
(***************************************************************************)
(* The steps of the film shop.                                             *)
(***************************************************************************)
UxbKept == UxbInv' /\ Aside(UxbOps, Job) /\ BillInv'

\* No record of film is lost without a trace, and no roll.
FilmKept ==
  \A r \in Roll :
    /\ roll[r].status # "none" => roll'[r].status # "none"
    /\ recorded[r] <= recorded'[r]

\* Then what the requests hold of the rolls stays right.
LEMMA UxbRequestsKept ==
  ASSUME UxbInv, FilmKept, recorded' \in [Roll -> Nat],
         \A d \in Seller : serving'[d] = serving[d] \/ UxbRequest(serving[d])'
  PROVE  /\ \A d \in Seller : UxbRequest(serving[d])'
         /\ \A r \in Roll, m \in 0..RollLength : Explained(r, m) => Explained(r, m)'
<1>1. RollLength \in Nat /\ \A m \in 1..RollLength : m \in 0..RollLength
  BY UxbAssumption
<1>2. \A r \in Roll : recorded[r] \in Nat /\ recorded'[r] \in Nat
  BY DEF UxbInv
<1>3. ASSUME NEW r \in Roll, NEW m \in 0..RollLength, Explained(r, m) PROVE Explained(r, m)'
  BY <1>1, <1>2, <1>3 DEF Explained, FilmKept
<1>4. ASSUME NEW d \in Seller, serving'[d] = serving[d] PROVE UxbRequest(serving[d])'
  <2>1. UxbRequest(serving[d])
    BY DEF UxbInv
  <2>2. PICK r : r = serving[d]
    OBVIOUS
  <2>3. serving'[d] = r
    BY <1>4, <2>2
  <2>4. ASSUME r.op = "consume"
        PROVE  roll'[r.ref].status # "none" /\ Explained(r.ref, r.saw.row.remaining)'
    <3>1. /\ r.ref \in Roll /\ roll[r.ref].status # "none"
          /\ r.saw.row.remaining \in 1..RollLength /\ Explained(r.ref, r.saw.row.remaining)
      BY <2>1, <2>2, <2>4 DEF UxbRequest
    <3> QED
      BY <3>1, <1>1, <1>3 DEF FilmKept
  <2> QED
    BY <2>1, <2>2, <2>3, <2>4 DEF UxbRequest, Explained
<1> QED
  BY <1>3, <1>4

\* What the other shops do does not touch it.
LEMMA UxbStays ==
  ASSUME UxbInv, UNCHANGED uxbVars, NEW ops, ops \cap UxbOps = {}, NEW rows,
         rows \cap Job = {}, Aside(ops, rows)
  PROVE  UxbInv'
<1>1. /\ job' = job /\ roll' = roll /\ recorded' = recorded
      /\ \A j \in Job : billed'[j] = billed[j]
  BY TireRows DEF uxbVars, Aside
<1>2. \A c \in Seller : serving'[c] = serving[c] \/ serving'[c].op \notin UxbOps
  BY DEF Aside, UxbOps, JobOps
<1>3. \A r \in Roll : recorded[r] \in Nat
  BY DEF UxbInv
<1>4. FilmKept
  BY <1>1, <1>3 DEF FilmKept
<1>5. \A c \in Seller : serving'[c] = serving[c] \/ UxbRequest(serving[c])'
  BY <1>2 DEF UxbRequest, UxbOps, JobOps
<1>6. recorded' \in [Roll -> Nat]
  BY <1>1 DEF UxbInv
<1>7. \A c \in Seller : UxbRequest(serving[c])'
  BY <1>4, <1>5, <1>6, UxbRequestsKept
<1> QED
  BY <1>1, <1>7 DEF UxbInv, Explained

\* The jobs' rows change, but not their invoices.
LEMMA JobsKeep ==
  ASSUME ShopsInv, UNCHANGED <<billed, roll, recorded>>, DOMAIN serving' = Seller,
         job' \in [Job -> JobRow],
         \A j \in Job : job'[j].invoice = job[j].invoice,
         \A d \in Seller :
           serving'[d] = serving[d]
             \/ (UxbRequest(serving[d])' /\ serving'[d].op \in UxbOps \cup {"idle"}),
         BillInv'
  PROVE  UxbKept
<1> USE DEF ShopsInv
<1>1. \A r \in Roll : recorded[r] \in Nat
  BY DEF UxbInv
<1>2. FilmKept
  BY <1>1 DEF FilmKept
<1>3. recorded' \in [Roll -> Nat]
  BY DEF UxbInv
<1>4. \A d \in Seller : UxbRequest(serving[d])'
  BY <1>2, <1>3, UxbRequestsKept
<1>5. UxbInv'
  BY <1>4 DEF UxbInv, Explained
<1>6. Aside(UxbOps, Job)
  BY DEF Aside, DeskTypeOK
<1> QED
  BY <1>5, <1>6 DEF UxbKept

\* A job, its lines or a roll are read.
LEMMA UxbReads ==
  ASSUME ShopsInv, NEW c \in Seller,
         \/ \E j \in Job : ReadForJobItems(c, j) \/ ReadForAdvance(c, j) \/ ReadForInvoice(c, j)
         \/ \E r \in Roll, length \in 1..RollLength : ReadRoll(c, r, length)
         \/ DeleteJobItems(c) \/ LookAtLines(c) \/ ReadJobLines(c)
  PROVE  UxbKept
<1> USE DEF ShopsInv
<1>1. /\ job \in [Job -> JobRow] /\ \A j \in Job : job[j] \in JobRow
      /\ roll \in [Roll -> RollRow] /\ recorded \in [Roll -> Nat]
      /\ UxbRequest(serving[c])
  BY DEF UxbInv
<1>2. ASSUME NEW op \in UxbOps, NEW ref, NEW row,
             serving'[c] = [op |-> op, ref |-> ref, saw |-> row], Alone(c),
             UNCHANGED <<billed, uxbVars>>, UxbRequest(serving[c])',
             \/ op \notin {"invoicing", "invoice"}
             \/ ref \in Job /\ job[ref].invoice = 0
             \/ serving[c].op = "invoicing" /\ serving[c].ref = ref
      PROVE  UxbKept
  <2>1. serving'[c].op = op /\ serving'[c].ref = ref
    BY <1>2
  <2>2. UNCHANGED <<billed, job, roll, recorded>>
    BY <1>2 DEF uxbVars
  <2>3. BillInv'
    <3>1. ASSUME NEW x \in Sold, Bills(serving'[c], x)
          PROVE  billed[x] = <<>> \/ (serving[c].op # "idle" /\ Bills(serving[c], x))
      <4>1. op \in {"invoicing", "invoice"} /\ x = ref
        BY <3>1, <2>1 DEF Bills, UxbOps, JobOps
      <4>2. CASE ref \in Job /\ job[ref].invoice = 0
        <5>1. Len(billed[ref]) = 0 /\ billed[ref] \in Seq(Lines)
          BY <4>2, TireRows DEF UxbInv, DeskTypeOK
        <5> QED
          BY <4>1, <5>1
      <4>3. CASE serving[c].op = "invoicing" /\ serving[c].ref = ref
        BY <4>1, <4>3 DEF Bills
      <4> QED
        BY <4>1, <4>2, <4>3, <1>2
    <3> QED
      BY <3>1, <1>2, <2>2, ClaimsKept DEF DeskTypeOK
  <2>4. DOMAIN serving' = Seller /\ \A d \in Seller \ {c} : serving'[d] = serving[d]
    BY <1>2 DEF Alone
  <2>5. ASSUME NEW d \in Seller
        PROVE  \/ serving'[d] = serving[d]
               \/ (UxbRequest(serving[d])' /\ serving'[d].op \in UxbOps \cup {"idle"})
    <3>1. CASE d = c
      BY <3>1, <2>1, <1>2
    <3>2. CASE d # c
      BY <3>2, <2>4
    <3> QED
      BY <3>1, <3>2
  <2>6. job' \in [Job -> JobRow]
    BY <1>1, <2>2
  <2> QED
    BY <2>2, <2>3, <2>4, <2>5, <2>6, JobsKeep
<1>3. ASSUME NEW op \in {"jobItems", "advancing", "invoicing"}, NEW j \in Job, NEW row,
             ReadRow(c, op, j, row), UNCHANGED <<billed, uxbVars>>,
             op = "advancing" => row.stage \in (Stage \cup {"cancelled"}) \ {"delivered"},
             op = "invoicing" => job[j].invoice = 0
      PROVE  UxbKept
  <2>1. serving'[c] = [op |-> op, ref |-> j, saw |-> row] /\ Alone(c)
    BY <1>3, ReadEffect
  <2>2. UxbRequest(serving[c])'
    BY <1>3, <2>1 DEF UxbRequest, JobOps
  <2> QED
    BY <1>2, <1>3, <2>1, <2>2 DEF UxbOps, JobOps
<1>4. ASSUME NEW j \in Job, ReadForJobItems(c, j) PROVE UxbKept
  BY <1>3, <1>4 DEF ReadForJobItems
<1>5. ASSUME NEW j \in Job, ReadForAdvance(c, j) PROVE UxbKept
  <2>1. PICK row : row = [stage |-> job[j].stage]
    OBVIOUS
  <2>2. /\ ReadRow(c, "advancing", j, row) /\ UNCHANGED <<billed, uxbVars>>
        /\ row.stage = job[j].stage /\ job[j].stage \notin {"none", "delivered"}
    BY <1>5, <2>1 DEF ReadForAdvance, Exists
  <2>3. job[j].stage \in Stage \cup {"none", "cancelled"}
    BY <1>1 DEF JobRow
  <2> QED
    BY <1>3, <2>2, <2>3
<1>6. ASSUME NEW j \in Job, ReadForInvoice(c, j) PROVE UxbKept
  BY <1>3, <1>6 DEF ReadForInvoice
<1>7. ASSUME NEW r \in Roll, NEW length \in 1..RollLength, ReadRoll(c, r, length)
      PROVE  UxbKept
  <2>1. PICK row : row = [row |-> roll[r], length |-> length]
    OBVIOUS
  <2>2. /\ ReadRow(c, "consume", r, row) /\ UNCHANGED <<billed, uxbVars>>
        /\ roll[r].status # "none" /\ length <= roll[r].remaining
    BY <2>1, <1>7 DEF ReadRoll
  <2>3. row.row = roll[r] /\ row.length = length
    BY <2>1
  <2>4. roll[r].remaining \in 0..RollLength /\ roll[r].status \in {"none", "open", "depleted"}
    BY <1>1 DEF RollRow
  <2>5. length \in 1..roll[r].remaining /\ roll[r].remaining \in 1..RollLength
    BY <2>2, <2>4, UxbAssumption
  <2>6. roll[r].status = "open" /\ Explained(r, roll[r].remaining)
    BY <2>2, <2>4, <2>5 DEF UxbInv
  <2>7. serving'[c] = [op |-> "consume", ref |-> r, saw |-> row] /\ Alone(c)
    BY <2>2, ReadEffect
  <2>8. Explained(r, roll[r].remaining)' /\ roll' = roll
    BY <2>2, <2>6 DEF Explained, uxbVars
  <2>9. UxbRequest(serving[c])'
    <3>1. /\ serving'[c].op = "consume" /\ serving'[c].ref = r
          /\ serving'[c].saw.row = roll[r] /\ serving'[c].saw.length = length
      BY <2>3, <2>7
    <3> QED
      BY <3>1, <2>2, <2>5, <2>6, <2>8 DEF UxbRequest, JobOps, Explained
  <2> QED
    BY <1>2, <2>2, <2>7, <2>9 DEF UxbOps
<1>8. ASSUME NEW op \in {"replaceJob", "advance", "invoice"}, NEW row, ReadOn(c, op, row),
             UNCHANGED <<billed, uxbVars>>, serving[c].op \in JobOps,
             op = "advance" => row.stage \in (Stage \cup {"cancelled"}) \ {"delivered"},
             op = "invoice" => serving[c].op = "invoicing" /\ row.lines \subseteq JobLine
      PROVE  UxbKept
  <2>1. PICK j \in Job : j = serving[c].ref
    BY <1>1, <1>8 DEF UxbRequest
  <2>2. serving'[c] = [op |-> op, ref |-> j, saw |-> row] /\ Alone(c)
    BY <1>8, <2>1, ReadOnEffect
  <2>3. UxbRequest(serving[c])'
    BY <1>8, <2>2 DEF UxbRequest, JobOps
  <2> QED
    BY <1>2, <1>8, <2>1, <2>2, <2>3 DEF UxbOps, JobOps
<1>9. CASE DeleteJobItems(c)
  <2>1. PICK row : row = [lines |-> job[serving[c].ref].lines]
    OBVIOUS
  <2>2. /\ serving[c].op = "jobItems" /\ ReadOn(c, "replaceJob", row)
        /\ UNCHANGED <<billed, uxbVars>>
    BY <1>9, <2>1 DEF DeleteJobItems, Serving
  <2> QED
    BY <2>2, <1>8 DEF JobOps
<1>10. CASE LookAtLines(c)
  <2>1. /\ serving[c].op = "advancing" /\ ReadOn(c, "advance", serving[c].saw)
        /\ UNCHANGED <<billed, uxbVars>>
    BY <1>10 DEF LookAtLines, Serving
  <2>2. serving[c].saw.stage \in (Stage \cup {"cancelled"}) \ {"delivered"}
    BY <1>1, <2>1 DEF UxbRequest
  <2> QED
    BY <2>1, <2>2, <1>8 DEF JobOps
<1>11. CASE ReadJobLines(c)
  <2>1. PICK row : row = [lines |-> job[serving[c].ref].lines]
    OBVIOUS
  <2>2. /\ serving[c].op = "invoicing" /\ ReadOn(c, "invoice", row)
        /\ UNCHANGED <<billed, uxbVars>> /\ row.lines = job[serving[c].ref].lines
    BY <1>11, <2>1 DEF ReadJobLines, Serving
  <2>3. serving[c].ref \in Job
    BY <1>1, <2>2 DEF UxbRequest, JobOps
  <2>4. row.lines \subseteq JobLine
    BY <1>1, <2>2, <2>3 DEF JobRow
  <2> QED
    BY <2>2, <2>4, <1>8 DEF JobOps
<1> QED
  BY <1>4, <1>5, <1>6, <1>7, <1>9, <1>10, <1>11

\* A request that ends leaves the claims of the others as they are.
LEMMA EndedClaims ==
  ASSUME DeskTypeOK, BillInv, NEW c \in Seller, Done(c), billed' = billed
  PROVE  /\ BillInv' /\ DOMAIN serving' = Seller
         /\ \A d \in Seller :
              serving'[d] = serving[d]
                \/ (UxbRequest(serving[d])' /\ serving'[d].op \in UxbOps \cup {"idle"})
<1>1. serving'[c] = Free /\ serving'[c].op = "idle" /\ Alone(c)
  BY DoneEffect
<1>2. BillInv'
  BY <1>1, ClaimsKept DEF DeskTypeOK
<1>3. UxbRequest(serving[c])'
  BY <1>1 DEF UxbRequest, JobOps
<1> QED
  BY <1>1, <1>2, <1>3 DEF Alone

\* The stages are in the order of the list.
LEMMA StageIndex ==
  /\ \A i \in 1..6 : Stages[i] \in Stage /\ IndexOf(Stages[i]) = i
  /\ \A s \in Stage : IndexOf(s) \in 1..6 /\ Stages[IndexOf(s)] = s
  /\ \A s : s \notin Stage => IndexOf(s) = 0
<1>1. \A i \in 1..6 : i = 1 \/ i = 2 \/ i = 3 \/ i = 4 \/ i = 5 \/ i = 6
  OBVIOUS
<1>2. /\ Stages[1] = "reception" /\ Stages[2] = "inspection" /\ Stages[3] = "in_progress"
      /\ Stages[4] = "quality" /\ Stages[5] = "ready" /\ Stages[6] = "delivered"
  BY DEF Stages
<1>3. \A i, k \in 1..6 : Stages[i] = Stages[k] => i = k
  BY <1>1, <1>2
<1>4. ASSUME NEW i \in 1..6 PROVE Stages[i] \in Stage /\ IndexOf(Stages[i]) = i
  BY <1>3 DEF Stage, IndexOf
<1> QED
  BY <1>4 DEF Stage, IndexOf

\* A request to advance asks for the stage after the one it read.
LEMMA NextStage ==
  ASSUME NEW s \in (Stage \cup {"cancelled"}) \ {"delivered"}
  PROVE  IndexOf(s) \in 0..5 /\ Stages[IndexOf(s) + 1] \in Stage
                             /\ IndexOf(Stages[IndexOf(s) + 1]) = IndexOf(s) + 1
<1>1. IndexOf(s) \in 0..6
  BY StageIndex
<1>2. IndexOf(s) # 6
  <2>1. Stages[6] = "delivered"
    BY DEF Stages
  <2> QED
    BY <2>1, StageIndex
<1>3. IndexOf(s) + 1 \in 1..6
  BY <1>1, <1>2
<1> QED
  BY <1>1, <1>2, <1>3, StageIndex

\* A step that changes the row of a job, other than its invoice.
LEMMA JobRowsMove ==
  ASSUME ShopsInv, NEW j \in Job, NEW row \in JobRow,
         row.invoice = job[j].invoice, job' = [job EXCEPT ![j] = row],
         UNCHANGED <<billed, roll, recorded>>,
         serving' = serving \/ \E c \in Seller : Done(c)
  PROVE  UxbKept
<1> USE DEF ShopsInv
<1>1. job \in [Job -> JobRow]
  BY DEF UxbInv
<1>2. /\ job' \in [Job -> JobRow]
      /\ \A i \in Job : job'[i].invoice = job[i].invoice
  BY <1>1
<1>3. CASE serving' = serving
  <2>1. BillInv'
    BY <1>3, ClaimsStay DEF deskVars
  <2>2. DOMAIN serving' = Seller
    BY <1>3 DEF DeskTypeOK
  <2> QED
    BY <2>1, <2>2, <1>2, <1>3, JobsKeep
<1>4. CASE \E c \in Seller : Done(c)
  BY <1>2, <1>4, EndedClaims, JobsKeep
<1> QED
  BY <1>3, <1>4

\* Jobs are opened, cancelled, advanced, and their zones marked.
LEMMA JobsMove ==
  ASSUME ShopsInv,
         \/ \E j \in Job : CreateJob(j) \/ CancelJob(j)
         \/ \E j \in Job, z \in Panel : SetZone(j, z)
         \/ \E c \in Seller : AdvanceJob(c)
  PROVE  UxbKept
<1>1. /\ job \in [Job -> JobRow] /\ \A j \in Job : job[j] \in JobRow
      /\ \A c \in Seller : UxbRequest(serving[c])
  BY DEF ShopsInv, UxbInv
<1>2. ASSUME NEW j \in Job, NEW stage \in Stage \cup {"cancelled"},
             job' = [job EXCEPT ![j].stage = stage], UNCHANGED <<billed, roll, recorded>>,
             serving' = serving \/ \E c \in Seller : Done(c)
      PROVE  UxbKept
  <2> DEFINE new == [job[j] EXCEPT !.stage = stage]
  <2>1. new \in JobRow /\ new.invoice = job[j].invoice
    BY <1>1 DEF JobRow
  <2>2. job' = [job EXCEPT ![j] = new]
    BY <1>1, <1>2
  <2> HIDE DEF new
  <2> QED
    BY <2>1, <2>2, <1>2, JobRowsMove
<1>3. ASSUME NEW j \in Job, CreateJob(j) PROVE UxbKept
  <2>1. "reception" \in Stage
    BY DEF Stage, Stages
  <2> QED
    BY <1>2, <1>3, <2>1 DEF CreateJob, deskVars
<1>4. ASSUME NEW j \in Job, CancelJob(j) PROVE UxbKept
  BY <1>2, <1>4 DEF CancelJob, deskVars
<1>5. ASSUME NEW j \in Job, NEW z \in Panel, SetZone(j, z) PROVE UxbKept
  <2> DEFINE new == [job[j] EXCEPT !.zones = job[j].zones \cup {z}]
  <2>1. new \in JobRow /\ new.invoice = job[j].invoice
    BY <1>1 DEF JobRow
  <2>2. job' = [job EXCEPT ![j] = new] /\ UNCHANGED <<billed, roll, recorded, serving>>
    BY <1>1, <1>5 DEF SetZone, deskVars
  <2> HIDE DEF new
  <2> QED
    BY <2>1, <2>2, JobRowsMove
<1>6. ASSUME NEW c \in Seller, AdvanceJob(c) PROVE UxbKept
  <2>1. /\ serving[c].ref \in Job
        /\ serving[c].saw.stage \in (Stage \cup {"cancelled"}) \ {"delivered"}
    BY <1>1, <1>6 DEF AdvanceJob, Serving, UxbRequest, JobOps
  <2>2. PICK j \in Job, stage \in Stage :
          j = serving[c].ref /\ stage = Stages[IndexOf(serving[c].saw.stage) + 1]
    BY <2>1, NextStage
  <2>3. /\ job' = [job EXCEPT ![j].stage = stage] /\ Done(c) /\ UNCHANGED <<billed, roll, recorded>>
    BY <2>2, <1>6 DEF AdvanceJob
  <2> QED
    BY <2>3, <1>2
<1> QED
  BY <1>3, <1>4, <1>5, <1>6

\* An edit commits: the lines it found are gone, and its own are in.
LEMMA JobItemsKeep ==
  ASSUME ShopsInv, NEW c \in Seller, NEW panels \in SUBSET Panel, SetJobItems(c, panels)
  PROVE  UxbKept
<1>1. /\ job \in [Job -> JobRow] /\ \A x \in Job : job[x] \in JobRow
      /\ UxbRequest(serving[c])
  BY DEF ShopsInv, UxbInv
<1>2. PICK j \in Job : j = serving[c].ref
  BY <1>1 DEF SetJobItems, Serving, UxbRequest, JobOps
<1>3. PICK gone : gone = serving[c].saw.lines
  OBVIOUS
<1> DEFINE lines == (job[j].lines \ gone) \cup Inserted(job[j].rev + 1, panels)
<1>4. /\ job[j].rev < MaxEdits /\ Done(c) /\ UNCHANGED <<billed, roll, recorded>>
      /\ job' = [job EXCEPT ![j].lines = (@ \ gone) \cup Inserted(job[j].rev + 1, panels),
                            ![j].zones = @ \cup panels, ![j].rev = @ + 1]
  BY <1>2, <1>3 DEF SetJobItems
<1>5. job[j].rev + 1 \in 1..MaxEdits
  BY <1>1, <1>4, UxbAssumption DEF JobRow
<1>6. lines \subseteq JobLine
  BY <1>1, <1>5 DEF JobRow, Inserted, JobLine
<1> DEFINE new == [job[j] EXCEPT !.lines = lines, !.zones = job[j].zones \cup panels,
                                 !.rev = job[j].rev + 1]
<1>7. job' = [job EXCEPT ![j] = new]
  BY <1>1, <1>4
<1> HIDE DEF lines
<1>8. new \in JobRow /\ new.invoice = job[j].invoice
  <2>1. job[j].rev + 1 \in 0..MaxEdits
    BY <1>5, UxbAssumption
  <2> QED
    BY <2>1, <1>1, <1>6 DEF JobRow
<1> HIDE DEF new
<1> QED
  BY <1>4, <1>7, <1>8, JobRowsMove

\* The lines that were read are billed.
LEMMA InvoiceJobKeeps ==
  ASSUME ShopsInv, NEW c \in Seller, InvoiceJob(c)
  PROVE  UxbKept
<1> USE DEF ShopsInv
<1>1. /\ job \in [Job -> JobRow] /\ \A x \in Job : job[x] \in JobRow
      /\ UxbRequest(serving[c]) /\ serving[c].op = "invoice"
  BY DEF UxbInv, InvoiceJob, Serving
<1>2. PICK j \in Job : j = serving[c].ref
  BY <1>1 DEF UxbRequest, JobOps
<1>3. PICK lines \in SUBSET JobLine : lines = serving[c].saw.lines
  BY <1>1 DEF UxbRequest
<1>4. /\ RaiseInvoice(j, lines) /\ Done(c) /\ UNCHANGED <<roll, recorded>>
      /\ job' = [job EXCEPT ![j].invoice = Len(billed[j]) + 1]
  BY <1>2, <1>3 DEF InvoiceJob, NewInvoice
<1>5. j \in Sold /\ lines \in Lines /\ Len(billed[j]) \in Nat
  BY TireRows DEF Lines, DeskTypeOK
<1>6. /\ billed' \in [Sold -> Seq(Lines)] /\ Len(billed'[j]) = Len(billed[j]) + 1
      /\ \A y \in Sold \ {j} : billed'[y] = billed[y]
  BY <1>4, <1>5, InvoiceEffect
<1>7. serving'[c] = Free /\ serving'[c].op = "idle" /\ Alone(c)
  BY <1>4, DoneEffect
<1>8. PICK n \in Nat : n = Len(billed[j]) + 1
  BY <1>5
<1> DEFINE new == [job[j] EXCEPT !.invoice = n]
<1>9. new \in JobRow /\ new.invoice = n /\ job' = [job EXCEPT ![j] = new]
  BY <1>1, <1>4, <1>8 DEF JobRow
<1> HIDE DEF new
<1>10. job' \in [Job -> JobRow] /\ job'[j] = new /\ \A x \in Job \ {j} : job'[x] = job[x]
  BY <1>1, <1>9
<1>11. FilmKept /\ recorded' \in [Roll -> Nat]
  BY <1>4 DEF FilmKept, UxbInv
<1>12. \A d \in Seller : serving'[d] = serving[d] \/ UxbRequest(serving[d])'
  BY <1>7 DEF Alone, UxbRequest, JobOps
<1>13. \A d \in Seller : UxbRequest(serving[d])'
  BY <1>11, <1>12, UxbRequestsKept
<1>14. ASSUME NEW x \in Job PROVE job'[x].invoice = Len(billed'[x])
  <2>1. CASE x = j
    BY <2>1, <1>6, <1>8, <1>9, <1>10
  <2>2. CASE x # j
    BY <2>2, <1>6, <1>10, TireRows DEF UxbInv
  <2> QED
    BY <2>1, <2>2
<1>15. UxbInv'
  BY <1>4, <1>10, <1>11, <1>13, <1>14 DEF UxbInv, Explained
<1>16. Aside(UxbOps, Job)
  BY <1>6, <1>7 DEF Aside, DeskTypeOK, Alone
<1>17. BillInv'
  <2>1. serving[c].op # "idle" /\ Bills(serving[c], j)
    BY <1>1, <1>2 DEF Bills
  <2> QED
    BY <2>1, <1>6, <1>7, ClaimsKept
<1> QED
  BY <1>15, <1>16, <1>17 DEF UxbKept

\* Film is used: what the roll shows less, its record shows more.
LEMMA ConsumeKeeps ==
  ASSUME ShopsInv, NEW c \in Seller, NEW j \in Job, ConsumeRoll(c, j)
  PROVE  UxbKept
<1> USE DEF ShopsInv
<1>1. /\ job \in [Job -> JobRow] /\ roll \in [Roll -> RollRow] /\ recorded \in [Roll -> Nat]
      /\ UxbRequest(serving[c]) /\ serving[c].op = "consume"
  BY DEF UxbInv, ConsumeRoll, Serving
<1>2. PICK q \in Roll : q = serving[c].ref
  BY <1>1 DEF UxbRequest
<1>3. PICK rest \in Nat, length \in Nat :
        /\ rest = serving[c].saw.row.remaining /\ length = serving[c].saw.length
        /\ rest <= RollLength /\ 1 <= length /\ length <= rest
        /\ serving[c].saw.row.status = "open" /\ Explained(q, rest)
  BY <1>1, <1>2, UxbAssumption DEF UxbRequest
<1> DEFINE left == rest - length
<1>4. PICK status \in {"open", "depleted"} :
        /\ status = "depleted" => left = 0
        /\ Done(c) /\ UNCHANGED <<billed, job>>
        /\ recorded' = [recorded EXCEPT ![q] = recorded[q] + length]
        /\ roll' = [roll EXCEPT ![q] = [status |-> status, remaining |-> left]]
  <2>1. PICK status \in {"open"} \cup IF left = 0 THEN {"depleted"} ELSE {} :
          roll' = [roll EXCEPT ![q] = [status |-> status, remaining |-> left]]
    BY <1>2, <1>3 DEF ConsumeRoll
  <2>2. status \in {"open", "depleted"} /\ (status = "depleted" => left = 0)
    <3> HIDE DEF left
    <3> QED
      BY <2>1
  <2>3. /\ Done(c) /\ UNCHANGED <<billed, job>>
        /\ recorded' = [recorded EXCEPT ![q] = recorded[q] + length]
    BY <1>1, <1>2, <1>3 DEF ConsumeRoll
  <2> HIDE DEF left
  <2> QED
    BY <2>1, <2>2, <2>3
<1>5. left \in 0..RollLength /\ RollLength \in Nat
  BY <1>3, UxbAssumption
<1>6. roll' \in [Roll -> RollRow] /\ roll'[q].remaining = left /\ roll'[q].status = status
      /\ \A r \in Roll \ {q} : roll'[r] = roll[r]
  <2> HIDE DEF left
  <2>1. [status |-> status, remaining |-> left] \in RollRow
    BY <1>5 DEF RollRow
  <2> QED
    BY <2>1, <1>1, <1>4
<1>7. /\ recorded' \in [Roll -> Nat] /\ recorded'[q] = recorded[q] + length
      /\ recorded[q] \in Nat /\ \A r \in Roll \ {q} : recorded'[r] = recorded[r]
      /\ \A r \in Roll : recorded[r] \in Nat
  <2>1. recorded[q] + length \in Nat
    BY <1>1, <1>3
  <2> QED
    BY <2>1, <1>1, <1>4
<1>8. FilmKept
  BY <1>3, <1>6, <1>7 DEF FilmKept
<1>9. BillInv' /\ DOMAIN serving' = Seller
      /\ \A d \in Seller :
           serving'[d] = serving[d]
             \/ (UxbRequest(serving[d])' /\ serving'[d].op \in UxbOps \cup {"idle"})
  BY <1>4, EndedClaims
<1>10. /\ \A d \in Seller : UxbRequest(serving[d])'
       /\ \A r \in Roll, m \in 0..RollLength : Explained(r, m) => Explained(r, m)'
  BY <1>7, <1>8, <1>9, UxbRequestsKept
<1>11. Explained(q, left)'
  BY <1>3, <1>5, <1>7 DEF Explained
<1>12. ASSUME NEW r \in Roll, roll'[r].status # "none"
       PROVE  /\ Explained(r, roll[r].remaining)'
              /\ roll'[r].status = "depleted" => roll'[r].remaining = 0
  <2> HIDE DEF left
  <2>1. CASE r = q
    BY <2>1, <1>4, <1>6, <1>11 DEF Explained
  <2>2. CASE r # q
    <3>1. roll'[r] = roll[r] /\ recorded'[r] = recorded[r]
      BY <2>2, <1>6, <1>7
    <3> QED
      BY <3>1, <1>12 DEF UxbInv, Explained
  <2> QED
    BY <2>1, <2>2
<1>13. \A x \in Job : job'[x].invoice = Len(billed'[x])
  BY <1>4 DEF UxbInv
<1>14. UxbInv'
  BY <1>1, <1>4, <1>6, <1>7, <1>10, <1>12, <1>13 DEF UxbInv
<1>15. Aside(UxbOps, Job)
  BY <1>4, <1>9 DEF Aside, DeskTypeOK
<1> QED
  BY <1>9, <1>14, <1>15 DEF UxbKept

\* A roll comes in whole.
LEMMA OpenRollKeeps ==
  ASSUME ShopsInv, NEW q \in Roll, OpenRoll(q)
  PROVE  UxbKept
<1> USE DEF ShopsInv
<1>1. /\ roll[q].status = "none" /\ roll \in [Roll -> RollRow] /\ RollLength \in Nat \ {0}
      /\ roll' = [roll EXCEPT ![q] = [status |-> "open", remaining |-> RollLength]]
      /\ UNCHANGED deskVars /\ job' = job /\ recorded' = recorded
      /\ recorded \in [Roll -> Nat]
  BY UxbAssumption DEF OpenRoll, UxbInv
<1>2. serving' = serving /\ billed' = billed
  BY <1>1 DEF deskVars
<1>3. [status |-> "open", remaining |-> RollLength] \in RollRow
  BY <1>1 DEF RollRow
<1>4. /\ roll' \in [Roll -> RollRow] /\ \A r \in Roll \ {q} : roll'[r] = roll[r]
      /\ roll'[q].status = "open" /\ roll'[q].remaining = RollLength
  BY <1>1, <1>3
<1>5. recorded' \in [Roll -> Nat] /\ \A r \in Roll : recorded[r] \in Nat
  BY <1>1
<1>6. FilmKept
  BY <1>1, <1>4, <1>5 DEF FilmKept
<1>7. \A d \in Seller : UxbRequest(serving[d])'
  BY <1>2, <1>5, <1>6, UxbRequestsKept
<1>8. ASSUME NEW r \in Roll, roll'[r].status # "none"
      PROVE  /\ Explained(r, roll[r].remaining)'
             /\ roll'[r].status = "depleted" => roll'[r].remaining = 0
  <2>1. CASE r = q
    BY <2>1, <1>1, <1>4, <1>5 DEF Explained
  <2>2. CASE r # q
    <3>1. roll'[r] = roll[r]
      BY <2>2, <1>4
    <3> QED
      BY <3>1, <1>1, <1>8 DEF Explained, UxbInv
  <2> QED
    BY <2>1, <2>2
<1>9. UxbInv'
  BY <1>1, <1>2, <1>4, <1>5, <1>7, <1>8 DEF UxbInv
<1>10. Aside(UxbOps, Job)
  BY <1>2 DEF Aside, DeskTypeOK
<1>11. BillInv'
  BY <1>1, ClaimsStay
<1> QED
  BY <1>9, <1>10, <1>11 DEF UxbKept

\* Every step of the film shop keeps its invariant and the ledger's, and leaves the other
\* shops' rows and requests alone.
LEMMA UxbShopKept ==
  ASSUME ShopsInv, UxbNext
  PROVE  UxbKept
BY UxbReads, JobsMove, JobItemsKeep, InvoiceJobKeeps, ConsumeKeeps, OpenRollKeeps DEF UxbNext

-----------------------------------------------------------------------------
(***************************************************************************)
(* The shops together.                                                     *)
(***************************************************************************)
\* The shops open with nothing sold.
LEMMA ShopsStart ==
  ASSUME ShopsInit
  PROVE  ShopsInv
<1>1. /\ serving = [c \in Seller |-> Free] /\ billed = [x \in Sold |-> <<>>]
      /\ TireInit /\ CafeInit /\ UxbInit
  BY DEF ShopsInit
<1>2. DOMAIN serving = Seller /\ \A c \in Seller : serving[c].op = "idle"
  BY <1>1 DEF Free
<1>3. billed \in [Sold -> Seq(Lines)] /\ \A x \in Sold : billed[x] = <<>> /\ Len(billed[x]) = 0
  BY <1>1
<1>4. BillInv
  <2>1. \A x \in Sold : Claimants(x) = {}
    BY <1>2 DEF Claimants
  <2>2. Cardinality({}) = 0 /\ Cardinality(Seller) \in Nat
    BY FS_EmptySet, SellerAssumption, FS_CardinalityType
  <2>3. ASSUME NEW x \in Sold PROVE Cardinality(Claimants(x)) = 0
    BY <2>1, <2>2, Zenon
  <2> QED
    BY <1>3, <2>2, <2>3 DEF BillInv
<1>5. TireInv
  <2>1. \A o \in TireOrder : billed[o] = <<>> /\ Len(billed[o]) = 0 /\ DOMAIN billed[o] = {}
    BY <1>3, TireRows
  <2>2. \A o \in TireOrder : Spent(o) /\ Apart(o)
    BY <2>1 DEF Spent, Apart
  <2>3. \A o \in TireOrder : tire[o].lines = {}
    BY <1>1 DEF TireInit, NoTireOrder
  <2>4. \A p \in Product : SoldLines(p) = {}
    BY <2>1 DEF SoldLines
  <2>5. \A p \in Product : /\ IsFiniteSet(SoldLines(p)) /\ Cardinality(SoldLines(p)) = 0
                           /\ Supply[p] \in Nat /\ shelf[p] = Supply[p]
    BY <1>1, <2>4, FS_EmptySet, TireAssumption DEF TireInit
  <2>6. tire \in [TireOrder -> TireRow]
    BY <1>1, TireAssumption DEF TireInit, NoTireOrder, TireRow
  <2>7. \A o \in TireOrder : tire[o].invoice = 0
    BY <1>1 DEF TireInit, NoTireOrder
  <2>8. catalogue \subseteq Product /\ shelf \in [Product -> Nat]
    BY <1>1, TireAssumption DEF TireInit
  <2>9. \A c \in Seller : TireRequest(serving[c])
    BY <1>2 DEF TireRequest, TireOps
  <2> QED
    BY <2>1, <2>2, <2>3, <2>5, <2>6, <2>7, <2>8, <2>9 DEF TireInv
<1>6. CafeInv
  <2>1. /\ cup = [o \in CafeOrder |-> NoCup]
        /\ drawer = [s \in Session |-> [status |-> "none", expected |-> {}]]
        /\ pantry = Pantry /\ wasted = Nothing /\ waiting = TRUE
    BY <1>1 DEF CafeInit
  <2>2. Nothing \in [Ingredient -> Nat] /\ \A i \in Ingredient : Nothing[i] = 0
    BY DEF Nothing
  <2>3. NoCup \in CupRow /\ NoCup.invoice = 0 /\ NoCup.status = "none" /\ NoCup.drawn = Nothing
    BY <2>2 DEF NoCup, CupRow
  <2>4. cup \in [CafeOrder -> CupRow] /\ \A o \in CafeOrder : cup[o] = NoCup
    BY <2>1, <2>3
  <2>5. /\ drawer \in [Session -> [status: {"none", "open", "closed"}, expected: SUBSET CafeOrder]]
        /\ \A s \in Session : drawer[s].expected = {}
    BY <2>1
  <2>6. /\ pantry \in [Ingredient -> Nat] /\ wasted \in [Ingredient -> 0..MaxWaste]
        /\ \A i \in Ingredient : wasted[i] = 0 /\ pantry[i] = Pantry[i] /\ Pantry[i] \in Nat
    BY <2>1, <2>2, CafeAssumption DEF Nothing
  <2>7. ASSUME NEW i \in Ingredient PROVE DrawnUnits(i) = {}
    <3>1. \A o \in CafeOrder : {o} \X (1..cup[o].drawn[i]) = {}
      BY <2>2, <2>3, <2>4
    <3> QED
      BY <3>1 DEF DrawnUnits
  <2>8. \A i \in Ingredient : /\ IsFiniteSet(DrawnUnits(i))
                              /\ Pantry[i] = pantry[i] + wasted[i] + Cardinality(DrawnUnits(i))
    BY <2>6, <2>7, FS_EmptySet
  <2>9. \A c \in Seller : CafeRequest(serving[c])
    BY <1>2 DEF CafeRequest
  <2>10. \A o \in CafeOrder : billed[o] = <<>> /\ Len(billed[o]) = 0
    BY <1>3, TireRows
  <2> QED
    BY <2>1, <2>3, <2>4, <2>5, <2>6, <2>8, <2>9, <2>10 DEF CafeInv
<1>7. UxbInv
  <2>1. PICK row : row = [stage |-> "none", lines |-> {}, zones |-> {}, rev |-> 0,
                          invoice |-> 0]
    OBVIOUS
  <2>2. /\ job = [j \in Job |-> row] /\ recorded = [r \in Roll |-> 0]
        /\ roll = [r \in Roll |-> [status |-> "none", remaining |-> 0]]
    BY <1>1, <2>1 DEF UxbInit
  <2>3. row \in JobRow /\ row.invoice = 0
    BY <2>1, UxbAssumption DEF JobRow
  <2>4. job \in [Job -> JobRow] /\ \A j \in Job : job[j] = row
    BY <2>2, <2>3
  <2>5. /\ roll \in [Roll -> RollRow] /\ recorded \in [Roll -> Nat]
        /\ \A r \in Roll : roll[r].status = "none"
    BY <2>2, UxbAssumption DEF RollRow
  <2>6. \A c \in Seller : UxbRequest(serving[c])
    BY <1>2 DEF UxbRequest, JobOps
  <2>7. \A j \in Job : job[j].invoice = Len(billed[j])
    BY <1>3, <2>3, <2>4, TireRows
  <2> QED
    BY <2>4, <2>5, <2>6, <2>7 DEF UxbInv
<1> QED
  BY <1>2, <1>3, <1>4, <1>5, <1>6, <1>7 DEF ShopsInv, DeskTypeOK

\* A step of one shop keeps the invariants of all, and so does a request given up.
LEMMA ShopsStep ==
  ASSUME ShopsInv, [ShopsNext]_shopVars
  PROVE  ShopsInv'
<1> USE DEF ShopsInv
<1>1. /\ TireOps \cap CafeOps = {} /\ TireOps \cap UxbOps = {} /\ CafeOps \cap UxbOps = {}
      /\ CafeOps \cap TireOps = {} /\ UxbOps \cap TireOps = {} /\ UxbOps \cap CafeOps = {}
  BY DEF TireOps, CafeOps, UxbOps, JobOps
<1>2. /\ TireOrder \cap CafeOrder = {} /\ TireOrder \cap Job = {} /\ CafeOrder \cap Job = {}
      /\ CafeOrder \cap TireOrder = {} /\ Job \cap TireOrder = {} /\ Job \cap CafeOrder = {}
  BY ShopsAssumption
<1>3. CASE TireStep
  <2>1. TireInv' /\ Aside(TireOps, TireOrder) /\ BillInv' /\ UNCHANGED <<cafeVars, uxbVars>>
    BY <1>3, TireShopKept DEF TireStep, TireKept
  <2>2. CafeInv' /\ UxbInv'
    BY <2>1, <1>1, <1>2, CafeStays, UxbStays
  <2> QED
    BY <2>1, <2>2 DEF Aside
<1>4. CASE CafeStep
  <2>1. CafeInv' /\ Aside(CafeOps, CafeOrder) /\ BillInv' /\ UNCHANGED <<tireVars, uxbVars>>
    BY <1>4, CafeShopKept DEF CafeStep, CafeKept
  <2>2. TireInv' /\ UxbInv'
    BY <2>1, <1>1, <1>2, TireStays, UxbStays
  <2> QED
    BY <2>1, <2>2 DEF Aside
<1>5. CASE UxbStep
  <2>1. UxbInv' /\ Aside(UxbOps, Job) /\ BillInv' /\ UNCHANGED <<tireVars, cafeVars>>
    BY <1>5, UxbShopKept DEF UxbStep, UxbKept
  <2>2. TireInv' /\ CafeInv'
    BY <2>1, <1>1, <1>2, TireStays, CafeStays
  <2> QED
    BY <2>1, <2>2 DEF Aside
<1>6. ASSUME Aside({}, {}), BillInv', UNCHANGED <<tireVars, cafeVars, uxbVars>>
      PROVE  ShopsInv'
  <2>1. PICK none : none = {}
    OBVIOUS
  <2>2. Aside(none, none) /\ \A S : none \cap S = {}
    BY <1>6, <2>1
  <2>3. TireInv' /\ CafeInv' /\ UxbInv'
    BY <1>6, <2>2, TireStays, CafeStays, UxbStays
  <2> QED
    BY <1>6, <2>3 DEF Aside
<1>7. CASE \E c \in Seller : Withdraw(c)
  <2>1. PICK c \in Seller : Done(c) /\ UNCHANGED <<billed, tireVars, cafeVars, uxbVars>>
    BY <1>7 DEF Withdraw
  <2>2. serving'[c] = Free /\ serving'[c].op = "idle" /\ Alone(c)
    BY <2>1, DoneEffect
  <2>3. BillInv'
    BY <2>1, <2>2, ClaimsKept DEF DeskTypeOK
  <2>4. Aside({}, {})
    BY <2>1, <2>2 DEF Aside, DeskTypeOK, Alone
  <2> QED
    BY <2>1, <2>3, <2>4, <1>6
<1>8. CASE UNCHANGED shopVars
  <2>1. UNCHANGED <<deskVars, tireVars, cafeVars, uxbVars>>
    BY <1>8 DEF shopVars
  <2>2. serving' = serving /\ billed' = billed
    BY <2>1 DEF deskVars
  <2>3. BillInv'
    BY <2>1, ClaimsStay
  <2>4. Aside({}, {})
    BY <2>2 DEF Aside, DeskTypeOK
  <2> QED
    BY <2>1, <2>3, <2>4, <1>6
<1> QED
  BY <1>3, <1>4, <1>5, <1>7, <1>8 DEF ShopsNext

\* The invariants hold in every reachable state.
LEMMA ShopsInvariant == ShopsSpec => []ShopsInv
<1> QED
  BY ShopsStart, ShopsStep, PTL DEF ShopsSpec

-----------------------------------------------------------------------------
\* Every row of every shop has its type, and refers to an invoice that was raised for it.
THEOREM ShopsTypeCorrect == ShopsSpec => [](TireTypeOK /\ CafeTypeOK /\ UxbTypeOK)
<1>1. ASSUME ShopsInv PROVE TireTypeOK /\ CafeTypeOK /\ UxbTypeOK
  <2> USE <1>1 DEF ShopsInv
  <2>1. \A x \in Sold : Len(billed[x]) \in Nat
    BY DEF DeskTypeOK
  <2>2. TireTypeOK
    BY <2>1, TireRows DEF TireInv, TireRow, TireTypeOK, TireLine, ProductLine
  <2>3. CafeTypeOK
    BY DEF CafeInv, CupRow, CafeTypeOK
  <2>4. UxbTypeOK
    <3>1. \A j \in Job : job[j] \in JobRow /\ job[j].invoice \in 0..Len(billed[j])
      BY <2>1, TireRows DEF UxbInv
    <3>2. \A r \in Roll : roll[r] \in RollRow
      BY DEF UxbInv
    <3> QED
      BY <3>1, <3>2 DEF UxbInv, JobRow, RollRow, UxbTypeOK, JobLine
  <2> QED
    BY <2>2, <2>3, <2>4
<1> QED
  BY <1>1, ShopsInvariant, PTL

\* The tyres that left the shelf are on invoices, the ingredients in orders or the waste
\* log, the film on consumption records or on some an edit deleted.
THEOREM GoodsAreAccounted == ShopsSpec => []GoodsAccounted
<1>1. ASSUME ShopsInv PROVE GoodsAccounted
  <2>1. ShelfMatchesInvoices
    BY <1>1 DEF ShopsInv, TireInv, ShelfMatchesInvoices
  <2>2. PantryAgrees
    BY <1>1 DEF ShopsInv, CafeInv, PantryAgrees
  <2>3. MaterialIsAccounted
    BY <1>1 DEF ShopsInv, UxbInv, Explained, MaterialIsAccounted
  <2> QED
    BY <2>1, <2>2, <2>3 DEF GoodsAccounted
<1> QED
  BY <1>1, ShopsInvariant, PTL

\* Completions of one order may overlap, and edits with them and with each other: a line
\* with warranty terms is billed once.
THEOREM WarrantedLinesSellOnce == ShopsSpec => []WarrantedLineSoldOnce
<1>1. ASSUME ShopsInv PROVE WarrantedLineSoldOnce
  BY <1>1 DEF ShopsInv, TireInv, Apart, WarrantedLineSoldOnce
<1> QED
  BY <1>1, ShopsInvariant, PTL

\* The sales a closed session was reckoned from are its own.
THEOREM CashIsOwn == ShopsSpec => []CashIsOfOwnSales
<1>1. ASSUME ShopsInv PROVE CashIsOfOwnSales
  BY <1>1 DEF ShopsInv, CafeInv, Sale, CashIsOfOwnSales
<1> QED
  BY <1>1, ShopsInvariant, PTL

\* A row has no more invoices than there were requests at one time, so one when they come
\* one after the other, and refers to one as soon as it has one.
THEOREM SecondInvoicesOverlap == ShopsSpec => []InvoicesNeedOverlap
<1>1. ASSUME ShopsInv PROVE InvoicesNeedOverlap
  <2> SUFFICES ASSUME NEW x \in Sold
               PROVE  /\ Len(billed[x]) <= Cardinality(Seller)
                      /\ InvoiceOf(x) = 0 <=> billed[x] = <<>>
    BY DEF InvoicesNeedOverlap
  <2> USE <1>1 DEF ShopsInv
  <2>1. /\ Len(billed[x]) \in Nat /\ Cardinality(Seller) \in Nat
        /\ Cardinality(Claimants(x)) \in Nat
        /\ Len(billed[x]) + Cardinality(Claimants(x)) <= Cardinality(Seller)
    <3>1. Claimants(x) \in SUBSET Seller
      BY DEF Claimants
    <3>2. IsFiniteSet(Claimants(x))
      BY <3>1, SellerAssumption, FS_Subset
    <3> QED
      BY <3>2, SellerAssumption, FS_CardinalityType DEF DeskTypeOK, BillInv
  <2>2. (Len(billed[x]) = 0) <=> (billed[x] = <<>>)
    BY DEF DeskTypeOK
  <2>3. CASE x \in TireOrder
    <3>1. InvoiceOf(x) = tire[x].invoice
      BY <2>3, ShopsAssumption DEF InvoiceOf
    <3>2. tire[x].invoice = Len(billed[x])
      BY <2>3 DEF TireInv
    <3> QED
      BY <3>1, <3>2, <2>1, <2>2
  <2>4. CASE x \in CafeOrder
    <3>1. InvoiceOf(x) = cup[x].invoice
      BY <2>4, ShopsAssumption DEF InvoiceOf
    <3>2. cup[x].invoice \in 0..Len(billed[x]) /\ (cup[x].invoice = 0 => billed[x] = <<>>)
      BY <2>4 DEF CafeInv
    <3> QED
      BY <3>1, <3>2, <2>1, <2>2
  <2>5. CASE x \in Job
    <3>1. InvoiceOf(x) = job[x].invoice
      BY <2>5, ShopsAssumption DEF InvoiceOf
    <3>2. job[x].invoice = Len(billed[x])
      BY <2>5 DEF UxbInv
    <3> QED
      BY <3>1, <3>2, <2>1, <2>2
  <2> QED
    BY <2>3, <2>4, <2>5 DEF Sold
<1> QED
  BY <1>1, ShopsInvariant, PTL

\* A job moves stage by stage, is cancelled or starts over, but for a request that read it
\* at another stage.
THEOREM StagesComeInOrder == ShopsSpec => StagesInOrder
<1> DEFINE InOrder == \A j \in Job :
       \/ IndexOf(job'[j].stage) \in {0, IndexOf(job[j].stage), IndexOf(job[j].stage) + 1}
       \/ \E c \in Seller : /\ Serving(c, "advance") /\ serving[c].ref = j
                           /\ serving[c].saw.stage # job[j].stage
<1>1. ASSUME ShopsInv, UxbNext PROVE InOrder
  <2> SUFFICES ASSUME NEW j \in Job,
                      job'[j].stage # job[j].stage,
                      \A c \in Seller : Serving(c, "advance") /\ serving[c].ref = j =>
                                          serving[c].saw.stage = job[j].stage
               PROVE  IndexOf(job'[j].stage) \in {0, IndexOf(job[j].stage) + 1}
    OBVIOUS
  <2>1. /\ job \in [Job -> JobRow] /\ \A x \in Job : job[x] \in JobRow
        /\ \A c \in Seller : UxbRequest(serving[c])
    BY <1>1 DEF ShopsInv, UxbInv
  <2>2. "none" \notin Stage /\ "cancelled" \notin Stage /\ IndexOf("reception") = 1
    <3>1. Stages[1] = "reception"
      BY DEF Stages
    <3>2. \A i \in 1..6 : i = 1 \/ i = 2 \/ i = 3 \/ i = 4 \/ i = 5 \/ i = 6
      OBVIOUS
    <3> QED
      BY <3>1, <3>2, StageIndex DEF Stage, Stages
  <2>3. ASSUME NEW x \in Job, CreateJob(x) PROVE IndexOf(job'[j].stage) = IndexOf(job[j].stage) + 1
    <3>1. /\ job[x].stage = "none" /\ job' = [job EXCEPT ![x].stage = "reception"]
      BY <2>3 DEF CreateJob
    <3>2. j = x /\ job'[j].stage = "reception"
      BY <3>1, <2>1 DEF JobRow
    <3> QED
      BY <3>1, <3>2, <2>2, StageIndex
  <2>4. ASSUME NEW x \in Job, CancelJob(x) PROVE IndexOf(job'[j].stage) = 0
    <3>1. job' = [job EXCEPT ![x].stage = "cancelled"]
      BY <2>4 DEF CancelJob
    <3>2. job'[j].stage = "cancelled"
      BY <3>1, <2>1 DEF JobRow
    <3> QED
      BY <3>2, <2>2, StageIndex
  <2>5. ASSUME NEW c \in Seller, AdvanceJob(c)
        PROVE  IndexOf(job'[j].stage) = IndexOf(job[j].stage) + 1
    <3>1. PICK x \in Job, s \in (Stage \cup {"cancelled"}) \ {"delivered"} :
            x = serving[c].ref /\ s = serving[c].saw.stage /\ Serving(c, "advance")
      BY <2>1, <2>5 DEF AdvanceJob, Serving, UxbRequest, JobOps
    <3>2. job' = [job EXCEPT ![x].stage = Stages[IndexOf(s) + 1]]
      BY <3>1, <2>5 DEF AdvanceJob
    <3>3. j = x /\ job'[j].stage = Stages[IndexOf(s) + 1]
      BY <3>2, <2>1 DEF JobRow
    <3>4. s = job[j].stage
      BY <3>1, <3>3
    <3> QED
      BY <3>3, <3>4, NextStage
  <2>6. ASSUME \/ \E x \in Job, z \in Panel : SetZone(x, z)
               \/ \E c \in Seller, panels \in SUBSET Panel : SetJobItems(c, panels)
               \/ \E c \in Seller : InvoiceJob(c)
        PROVE  FALSE
    <3>1. \A x \in Job, z \in Panel : SetZone(x, z) => job'[j].stage = job[j].stage
      BY <2>1 DEF SetZone, JobRow
    <3>2. ASSUME NEW c \in Seller, NEW panels \in SUBSET Panel, SetJobItems(c, panels)
          PROVE  job'[j].stage = job[j].stage
      <4>1. PICK x \in Job : x = serving[c].ref
        BY <2>1, <3>2 DEF SetJobItems, Serving, UxbRequest, JobOps
      <4>2. PICK lines : lines = (job[x].lines \ serving[c].saw.lines)
                                    \cup Inserted(job[x].rev + 1, panels)
        OBVIOUS
      <4> DEFINE new == [job[x] EXCEPT !.lines = lines, !.zones = job[x].zones \cup panels,
                                       !.rev = job[x].rev + 1]
      <4>3. job' = [job EXCEPT ![x] = new]
        BY <4>1, <4>2, <3>2, <2>1 DEF SetJobItems
      <4>4. new.stage = job[x].stage
        BY <2>1 DEF JobRow
      <4> HIDE DEF new
      <4> QED
        BY <4>3, <4>4, <2>1
    <3>3. \A c \in Seller : InvoiceJob(c) => job'[j].stage = job[j].stage
      BY <2>1 DEF InvoiceJob, JobRow
    <3> QED
      BY <2>6, <3>1, <3>2, <3>3
  <2>7. ASSUME \/ \E c \in Seller, x \in Job :
                    ReadForJobItems(c, x) \/ ReadForAdvance(c, x) \/ ReadForInvoice(c, x)
               \/ \E c \in Seller : DeleteJobItems(c) \/ LookAtLines(c) \/ ReadJobLines(c)
               \/ \E r \in Roll : OpenRoll(r)
               \/ \E c \in Seller, r \in Roll, length \in 1..RollLength : ReadRoll(c, r, length)
               \/ \E c \in Seller, x \in Job : ConsumeRoll(c, x)
        PROVE  FALSE
    <3>1. job' = job
      BY <2>7 DEF ReadForJobItems, ReadForAdvance, ReadForInvoice, OpenRoll, ReadRoll, uxbVars,
                  DeleteJobItems, LookAtLines, ReadJobLines, ConsumeRoll
    <3> QED
      BY <3>1
  <2> QED
    BY <1>1, <2>3, <2>4, <2>5, <2>6, <2>7 DEF UxbNext
<1>2. ASSUME UNCHANGED uxbVars PROVE InOrder
  BY <1>2 DEF uxbVars
<1>3. ASSUME ShopsInv, [ShopsNext]_shopVars PROVE [InOrder]_<<deskVars, uxbVars>>
  <2> HIDE DEF InOrder
  <2>1. \/ UxbNext \/ UNCHANGED uxbVars
    BY <1>3 DEF ShopsNext, TireStep, CafeStep, UxbStep, Withdraw, shopVars
  <2> QED
    BY <2>1, <1>1, <1>2, <1>3
<1> QED
  BY <1>3, ShopsInvariant, PTL DEF ShopsSpec, StagesInOrder
=============================================================================
