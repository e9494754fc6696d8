------------------------- MODULE Receivables --------------------------
(* What a retailer's account promises: each invoice is billed for an     *)
(* amount, each receipt settles parts of invoices at once, and no        *)
(* invoice is ever settled beyond what it was billed.  What an invoice   *)
(* owes is computed, not stored; a bill changes only while nothing is    *)
(* settled on it, and a settlement is undone only as a whole.            *)
EXTENDS Money

CONSTANTS Invoices, Receipts

VARIABLES
  billed,    \* [Invoices -> Nat], 0 when not billed or no longer
  applied    \* [Receipts -> [Invoices -> Nat]], settled parts

account == <<billed, applied>>

None == [i \in Invoices |-> 0]
Settled(i) == Total([r \in Receipts |-> applied[r][i]], Receipts)
Owed(i) == billed[i] - Settled(i)

Init ==
  /\ billed = None
  /\ applied = [r \in Receipts |-> None]

\* Bills are issued, changed or withdrawn.
ChangeBills ==
  /\ billed' \in [Invoices -> Nat]
  /\ \A i \in Invoices : billed'[i] # billed[i] => Settled(i) = 0
  /\ UNCHANGED applied

\* A receipt that settles nothing settles parts of what is owed.
Settle(r) ==
  /\ applied[r] = None
  /\ applied'[r] \in [Invoices -> Nat]
  /\ \A i \in Invoices : applied'[r][i] <= Owed(i)
  /\ applied' = [applied EXCEPT ![r] = applied'[r]]
  /\ UNCHANGED billed

\* All that a receipt settled is owed again.
Undo(r) ==
  /\ applied' = [applied EXCEPT ![r] = None]
  /\ UNCHANGED billed

Next == ChangeBills \/ \E r \in Receipts : Settle(r) \/ Undo(r)

Spec == Init /\ [][Next]_account

\* No invoice is settled beyond its bill: a retailer never pays more for an
\* invoice than its grand total, whatever receipts share it.
NeverOverpaid == \A i \in Invoices : Settled(i) <= billed[i]
=======================================================================
