------------------------------- MODULE ShopDesk -------------------------------
(***************************************************************************)
(* What the tyre shop, the café and the film shop share: the people who    *)
(* serve, and the invoices the shops raise in the common ledger.           *)
(*                                                                         *)
(* A service method reads its row, checks it, and only then opens the      *)
(* transaction that writes. So a request is two steps: serving[c] holds    *)
(* the row as it was read until the write, or until the request fails. A   *)
(* row and its lines are two statements, also where one call reads both.   *)
(***************************************************************************)
EXTENDS Naturals, Sequences, FiniteSets

CONSTANT Seller  \* requests in progress at the same time

ASSUME SellerAssumption == IsFiniteSet(Seller)

VARIABLES serving,  \* per seller: the request and the row it read
          billed    \* per sold row, what each invoice raised for it bills

deskVars == <<serving, billed>>

Free == [op |-> "idle"]

Serving(c, op) == serving[c].op = op

\* A request of seller c for row ref, which reads row.
ReadRow(c, op, ref, row) ==
  /\ serving[c] = Free
  /\ serving' = [serving EXCEPT ![c] = [op |-> op, ref |-> ref, saw |-> row]]

\* Of a row whose lines are not read yet.
NoLines == [lines |-> {}]

\* The request of seller c goes on, for the same row.
ReadOn(c, op, row) ==
  serving' = [serving EXCEPT ![c] = [op |-> op, ref |-> @.ref, saw |-> row]]

Done(c) == serving' = [serving EXCEPT ![c] = Free]

\* What edit number n inserts for the given items. An edit deletes the lines its
\* deleteMany finds and inserts new ones; those of an edit that overlaps it are not
\* yet there to be found, so both edits' lines remain.
Inserted(n, items) == {n} \X items

\* The lines of row ref that edits in progress have deleted: whoever needs one of
\* them waits until its edit commits, or is rolled back.
Deleted(op, ref) ==
  UNION {serving[c].saw.lines : c \in {d \in Seller : Serving(d, op) /\ serving[d].ref = ref}}

\* The invoice a transaction inserts for row ref.
RaiseInvoice(ref, lines) == billed' = [billed EXCEPT ![ref] = Append(@, lines)]

\* The row's reference to that invoice: its place among the row's invoices.
NewInvoice(ref) == Len(billed[ref]) + 1
=============================================================================
