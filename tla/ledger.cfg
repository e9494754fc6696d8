CONSTANTS
  c1 = c1
  c2 = c2
  shopA = shopA
  shopB = shopB
  Clients = {c1, c2}
  Documents = {"A1", "A2", "B1"}
  Owner <- ByShop
  Amount <- Movements
  Dates = {1, 2}
  Disciplines <- AllOrNothing
  Days = 2
  MaxStamps = 4
SPECIFICATION Spec
SYMMETRY SymClients
INVARIANTS
  OrderlyRunning
  OncePerDocument
CHECK_DEADLOCK FALSE
