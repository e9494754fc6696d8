CONSTANTS
  i1 = i1
  i2 = i2
  r1 = r1
  r2 = r2
  c1 = c1
  c2 = c2
  Clients = {c1, c2}
  Invoices = {i1, i2}
  Receipts = {r1, r2}
  Bill = 2
  Amount <- Three
  Parts = {2}
  Days <- SameOrNext
SPECIFICATION Spec
SYMMETRY SymBoth
INVARIANTS
  RowsConsistent
  FifoDeadlockNeedsTie
  OutstandingIsUnpaid
  AllocationsFit
PROPERTIES
  ImplementsAccount
CHECK_DEADLOCK FALSE
