---------------------------- MODULE Money ----------------------------
(* Amounts of money and their totals.  The services keep rupees with two   *)
(* decimals and sum them with aggregate queries and Array.reduce; here an  *)
(* amount is a natural number of the smallest unit.                        *)
(*                                                                         *)
(* A total is the number of units in a disjoint union of the summands.     *)
(* It is the same number a fold would give, and its facts follow from      *)
(* those on cardinalities, where a recursive definition needs an induction.*)
EXTENDS Naturals, FiniteSets

\* The units of f[x], for each x in S, tagged with x.
Units(f, S) == UNION {{x} \X (1..f[x]) : x \in S}

\* The sum of f[x] over the x in S, f[x] \in Nat and S finite.
Total(f, S) == Cardinality(Units(f, S))

Least(a, b) == IF a <= b THEN a ELSE b

\* a - b, or 0 when b is larger.
Excess(a, b) == IF a <= b THEN 0 ELSE a - b

\* The orders in which a query sorted by day may return its rows: rows of the
\* same day come in any order, and not in the same one every time.
SortedBy(day) ==
  {by \in [DOMAIN day -> 1..Cardinality(DOMAIN day)] :
     \A i, j \in DOMAIN day :
       (day[i] < day[j] => by[i] < by[j]) /\ (by[i] = by[j] => i = j)}

\* First in, first out: the share of n each open account gets, which is what
\* the older ones leave of n, up to what the account owes.
FifoShares(n, owed, open, by) ==
  [i \in DOMAIN owed |->
     IF i \in open
     THEN Least(owed[i], Excess(n, Total(owed, {j \in open : by[j] < by[i]})))
     ELSE 0]
=======================================================================
