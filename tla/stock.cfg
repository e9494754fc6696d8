CONSTANTS
  c1 = c1
  c2 = c2
  Clients = {c1, c2}
  Rows = {"b1", "b2", "b3"}
  Rank <- RowRank
  Documents = {"grn1", "grn2", "count1", "count2", "back1", "ret1", "trip1"}
  Kind <- DocKind
  Of <- DocRows
  Unnamed = {"count2"}
  Opening <- OpeningStock
  Quantities = {1, 3}
  Counts = {0, 2}
  Scenarios <- Meetings
  MaxReopened = 1
  MaxPostings = 2
SPECIFICATION Spec
SYMMETRY SymClients
INVARIANTS
  BatchesReconcile
  NoMoreThanCameIn
  MovedOnce
CHECK_DEADLOCK FALSE
