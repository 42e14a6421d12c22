\* Purchasing: a request, an order's two receipts. Billing: two invoices over two
\* quotations, three payments. Two requests at a time.
SPECIFICATION OfficeSpec
SYMMETRY ClerkSymmetry
CONSTANTS
  Scenes = {"receipts", "requests", "invoices"}
  p1 = p1
  Quotation = {q}
  Part = {p1, p2}
  MaxRequests = 1
  MaxOrders = 2
  MaxReceipts = 2
  MaxOrdered = 2
  MaxLines = 2
  Clerk = {c1, c2}
  q1 = q1
  q2 = q2
  Quote = {q1, q2}
  Price <- MCPrice
  MaxInvoices = 2
  MaxPayments = 3
  Cashier = {c1, c2}
INVARIANTS
  ShelvedOnce ReceivedArrived ReceivedIsFulfilled
  PaymentsExplainInvoice StatusFollowsMoney
PROPERTIES
  StatusesFollowTables LossOnlyByStaleOrRepeatedLine DeliveryWasPaid InvoicesAreAccounts
CHECK_DEADLOCK FALSE
