CONSTANTS
  p1 = p1
  h1 = h1
  h2 = h2
  c1 = c1
  Intents = {p1}
  Handlers = {h1, h2}
  Clerks = {c1}
  Bill = 2
  MaxByHand = 1
  MaxFaults = 1
SPECIFICATION Spec
INVARIANTS
  OneReceiptInTurn
  ProcessedIsConfirmed
  InvoiceConserved
PROPERTY AdvanceIsReceipted
CONSTRAINT Focus
CHECK_DEADLOCK FALSE
