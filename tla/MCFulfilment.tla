------------------------ MODULE MCFulfilment ------------------------
(* Small instances of Fulfilment.                                        *)
EXTENDS Fulfilment, TLC

CONSTANTS c1, c2, o1, o2, t1, i1, i2

\* Nothing said; so much delivered; so much delivered and given back.
DriverAnswers ==
  {[delivered |-> 0, back |-> 0, given |-> FALSE, said |-> FALSE],
   [delivered |-> 1, back |-> 0, given |-> TRUE, said |-> FALSE],
   [delivered |-> 3, back |-> -1, given |-> TRUE, said |-> TRUE]}
\* One request at a time, or those that share a trip and its stops.
TripRequests ==
  {{}, {"load", "start", "dispatch", "complete", "stop"}}
\* Requests overlap about one order; in turn there are two, or one with invoices,
\* no more delivered than was ordered, a trip that has not left and an order that
\* keeps the status its stop gave it: billing looks at neither of the two.  An
\* order that is edited has at most one invoice; of two invoices at most one was
\* ever paid or rewritten by hand.
Focus ==
  LET known  == {o \in Orders : order[o].status # "none"}
      edited == {o \in Orders : order[o].edition > 0}
      billed == {i \in Invoices : invoice[i] # NoInvoice}
  IN
  \/ billed = {} /\ edited = {} /\ (InTurn \/ Cardinality(known) <= 1)
  \/ /\ InTurn /\ Cardinality(known) <= 1
     /\ edited # {} => Cardinality(billed) <= 1
     /\ Cardinality({i \in billed : invoice[i].touched}) <= 1
     /\ \A t \in Trips :
          /\ trip[t] \in {"none", "planned", "loaded"}
          /\ \A o \in DOMAIN stop[t] :
               /\ stop[t][o].delivered <= stop[t][o].ordered
               /\ stop[t][o].status # "pending" => order[o].status = MappedStatus[stop[t][o].status]
Sym == Permutations(Clients) \cup Permutations(Orders) \cup Permutations(Invoices)
=======================================================================
