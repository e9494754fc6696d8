CONSTANTS
  c1 = c1
  c2 = c2
  i1 = i1
  i2 = i2
  i3 = i3
  o1 = o1
  Sessions = {c1, c2}
  Invoices = {i1, i2, i3}
  Orders = {o1}
  OrderOf <- OrderOfEach
  Amounts = {1, 2}
  Limits = {1, 2}
  Policies <- SomePolicies
  DefaultPolicy <- Default
  MaxGrants = 1
  MaxDied = 1
  Overlaps <- AllButTerms
SPECIFICATION CreditSpec
SYMMETRY Sym
INVARIANTS
  TermsStand
  OwedIsCached
PROPERTIES
  PostedOnTerms
CONSTRAINT Focus
CHECK_DEADLOCK FALSE
