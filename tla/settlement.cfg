CONSTANTS
  i1 = i1
  i2 = i2
  r1 = r1
  r2 = r2
  Invoices = {i1, i2}
  Receipts = {r1, r2}
  Totals = {2}
  Amounts = {1, 3}
  Day <- SameDay
  MaxBalance = 3
  MaxFaults = 0
SPECIFICATION Spec
SYMMETRY SymReceipts
INVARIANTS
  OutstandingIsUnpaid
  ReceiptFullySplit
  VoidedHoldsNothing
  ConfirmedIsBooked
  WalletBalances
PROPERTIES
  ImplementsAccount
CHECK_DEADLOCK FALSE
