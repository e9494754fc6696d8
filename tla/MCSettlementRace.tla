----------------------- MODULE MCSettlementRace -----------------------
(* Small instances of SettlementRace.                                    *)
EXTENDS SettlementRace, TLC

CONSTANTS i1, i2, r1, r2, c1, c2

\* The invoices are of one day, or i1 is the older.
SameOrNext == {[i \in Invoices |-> 1], [i \in Invoices |-> IF i = i1 THEN 1 ELSE 2]}
Three == [r \in Receipts |-> 3]
SymClients == Permutations(Clients)
SymBoth == Permutations(Clients) \cup Permutations(Receipts)
=======================================================================
