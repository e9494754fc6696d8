------------------------ MODULE MCCreditControl ------------------------
(* Small instances of CreditControl.                                     *)
EXTENDS CreditControl, TLC

CONSTANTS c1, c2, i1, i2, i3, o1

\* Two invoices for an order, one for none.
OrderOfEach == [i \in {i1, i2, i3} |-> IF i = i3 THEN "none" ELSE o1]
Default == [active |-> TRUE, manager |-> TRUE, block |-> FALSE, overdueOk |-> FALSE]
\* The default; credit withdrawn; credit that only warns.
SomePolicies ==
  {Default, [Default EXCEPT !.active = FALSE],
   [Default EXCEPT !.manager = FALSE, !.overdueOk = TRUE]}
\* One request at a time, or all but those that give the terms.
AllButTerms == {{}, {"look", "bill", "settle", "override"}}
\* Requests that overlap are about one invoice, which is on time, with no override
\* and none that dies.  In turn it is a payment, a cancellation or a revision that
\* dies, there are two invoices unless one is overdue, and overrides of the limit are for invoices on time;
\* one for what is overdue has no amount that matters and is for any order.
Focus ==
  LET drawn == {i \in Invoices : invoice[i].status # "none"}
      late  == {i \in Invoices : invoice[i].late}
  IN IF OneByOne
     THEN /\ Cardinality(drawn) <= (IF late = {} THEN 2 ELSE 1) /\ died \subseteq {"settle"}
          /\ grants = <<>> \/ died = {}
          /\ \A k \in DOMAIN grants :
               IF grants[k].type = "limit" THEN late = {} ELSE grants[k].amount = 1 /\ grants[k].order = "none"
     ELSE drawn \subseteq {i3} /\ late = {} /\ grants = <<>> /\ died = {}
Sym == Permutations(Sessions) \cup Permutations({i1, i2})
=======================================================================
