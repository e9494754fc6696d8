CONSTANTS
  i1 = i1
  i2 = i2
  r1 = r1
  r2 = r2
  c1 = c1
  c2 = c2
  Clients = {c1, c2}
  Invoices = {i1}
  Receipts = {r1}
  Bill = 7
  Amount <- Three
  Parts = {1}
  Days <- SameOrNext
SPECIFICATION Spec
SYMMETRY SymClients
PROPERTIES
  ConfirmedOnce
CHECK_DEADLOCK FALSE
