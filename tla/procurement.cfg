CONSTANTS
  c1 = c1
  c2 = c2
  o1 = o1
  o2 = o2
  s1 = s1
  p1 = p1
  p2 = p2
  g1 = g1
  g2 = g2
  Clients = {c1, c2}
  Orders = {o1, o2}
  Sheets = {s1}
  Purchases = {p1, p2}
  Receipts = {g1, g2}
  Quantities = {1, 2}
  MaxEdits = 1
  Overlaps <- Postings
  Users = {c1, c2}
  Payments = {g1, g2}
  PurchaseInvoices = {p1, p2}
  Rows = {o1, o2, s1}
  Amounts = {1, 2}
SPECIFICATION PurchasingSpec
SYMMETRY Sym
INVARIANTS
  PurchasedAsDemanded
  ReceivedAsPosted
  NeverOverpaid
PROPERTY LockedOrdersKeep
CONSTRAINT Focus
CHECK_DEADLOCK FALSE
