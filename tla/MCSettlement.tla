------------------------- MODULE MCSettlement -------------------------
(* Small instances of Settlement.                                        *)
EXTENDS Settlement, TLC

CONSTANTS i1, i2, r1, r2

\* The invoices are due and dated the same day: a plan takes them in any order.
SameDay == [i \in Invoices |-> 1]
SymReceipts == Permutations(Receipts)
=======================================================================
