CONSTANTS
  c1 = c1
  c2 = c2
  Clients = {c1, c2}
  Invoices = {"i1"}
  Notes = {"cn1", "dn1", "dn0"}
  Kind <- KindOf
  Related <- RelatedTo
  Amount <- AmountOf
  InLedger <- LedgerFlag
  Bill = 2
  Parts = {1, 2}
  Disciplines <- AllDisciplines
SPECIFICATION Spec
SYMMETRY SymClients
CONSTRAINT Focus
INVARIANTS
  OwedCoversDocuments
  BooksFollowNotes
  ReversalsArePaired
CHECK_DEADLOCK FALSE
