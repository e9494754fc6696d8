CONSTANTS
  c1 = c1
  c2 = c2
  o1 = o1
  o2 = o2
  t1 = t1
  i1 = i1
  i2 = i2
  Clients = {c1, c2}
  Orders = {o1, o2}
  Trips = {t1}
  Invoices = {i1, i2}
  Quantities = {2}
  MaxEdits = 1
  Answers <- DriverAnswers
  Overlaps <- TripRequests
SPECIFICATION Spec
SYMMETRY Sym
INVARIANTS
  HandledWithinLoaded
  OnTheRoadIsLoaded
  OneInvoicePerContext
  
CONSTRAINT Focus
CHECK_DEADLOCK FALSE
