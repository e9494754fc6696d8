CONSTANTS
  i1 = i1
  i2 = i2
  r1 = r1
  r2 = r2
  Invoices = {i1}
  Receipts = {r1, r2}
  Totals = {2}
  Amounts = {1, 2}
  Day <- SameDay
  MaxBalance = 1
  MaxFaults = 1
SPECIFICATION Spec
INVARIANTS
  LedgerFollowsWallet
PROPERTIES
  ConfirmedGetsBooked
CHECK_DEADLOCK FALSE
