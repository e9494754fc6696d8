------------------------- MODULE Fulfilment -------------------------
(* From approved orders to invoices: dispatch trips, their loading sheets *)
(* and stops, what drivers report, and the invoices drawn from it.  All   *)
(* orders are of one retailer on one route of one delivery cycle, so one  *)
(* trip is to take them; a stop is one order's.  Quantities are in        *)
(* thousandths, the precision roundQty keeps.                             *)
EXTENDS SalesOrders, Functions

CONSTANTS
  Trips, Invoices,   \* ids of trips and invoices: bounds on how many there are
  Answers            \* what a driver may state: the quantity delivered, the
                     \*   quantity given back, and which of them he did state

ASSUME FulfilmentAssumption ==
  /\ Answers \subseteq [delivered : Int, back : Int, given : BOOLEAN, said : BOOLEAN]
  /\ "none" \notin Trips /\ "none" \notin Invoices

VARIABLES
  trip,       \* status of each trip
  stop,       \* stops of each trip, by order
  invoice     \* invoices: status, what they are for, how much they bill, and
              \*   whether receipts, drafts or confirmed, have allocations to
              \*   them; and whether one had, or they were rewritten by hand,
              \*   since they last followed a delivery

vars == <<overlap, order, req, trip, stop, invoice>>

NoInvoice == [status |-> "none", order |-> "none", trip |-> "none", billed |-> 0,
              allocated |-> FALSE, touched |-> FALSE]
Tolerance == 1   \* 0.001 of a unit

Init ==
  /\ InitOrders
  /\ trip = [t \in Trips |-> "none"]
  /\ stop = [t \in Trips |-> <<>>]
  /\ invoice = [i \in Invoices |-> NoInvoice]

\* A request that can begin now becomes r; until then it has only read.
Serves(c, r) ==
  /\ Free(c, r.op) /\ Becomes(c, r)
  /\ UNCHANGED <<overlap, order, trip, stop, invoice>>
Ends(c) == Becomes(c, Idle)

\* An order's status moves on only from certain statuses.
Promote(os, from, to) ==
  [o \in Orders |-> IF o \in os /\ order[o].status \in from THEN [order[o] EXCEPT !.status = to] ELSE order[o]]

-----------------------------------------------------------------------
\* Dispatch.

\* One trip for a route and cycle, from the orders that are ready.
CreateTrip(c) ==
  LET ready == {o \in Orders : order[o].status \in {"approved", "packed"}} IN
  /\ \A t \in Trips : trip[t] \in {"none", "cancelled"}
  /\ ready # {}
  /\ Serves(c, [op |-> "createTrip", lines |->
       [o \in ready |-> [status |-> "pending", edition |-> order[o].edition, ordered |-> Wanted(o),
                         loaded |-> 0, delivered |-> 0, back |-> 0]]])

CommitTrip(c) ==
  /\ req[c].op = "createTrip"
  /\ \E t \in Trips :
       /\ trip[t] = "none"
       /\ trip' = [trip EXCEPT ![t] = "planned"]
       /\ stop' = [stop EXCEPT ![t] = req[c].lines]
  /\ Ends(c)
  /\ UNCHANGED <<overlap, order, invoice>>

GenerateLoadingSheet(c, t) ==
  /\ trip[t] = "planned"
  /\ Serves(c, [op |-> "load", trip |-> t, start |-> FALSE])

\* A mutant: the stops' items are left as they were planned.
CommitLoadingTripOnly(c) ==
  /\ req[c].op = "load"
  /\ trip' = [trip EXCEPT ![req[c].trip] = "loaded"]
  /\ order' = Promote(DOMAIN stop[req[c].trip], {"approved"}, "packed")
  /\ IF req[c].start THEN Becomes(c, [op |-> "start", trip |-> req[c].trip]) ELSE Ends(c)
  /\ UNCHANGED <<overlap, stop, invoice>>

\* The stock taken here is in Stock.
CommitLoading(c) ==
  /\ req[c].op = "load"
  /\ LET t == req[c].trip IN
     /\ trip' = [trip EXCEPT ![t] = "loaded"]
     /\ stop' = [stop EXCEPT ![t] = [o \in DOMAIN @ |-> [@[o] EXCEPT !.loaded = stop[t][o].ordered]]]
     /\ order' = Promote(DOMAIN stop[t], {"approved"}, "packed")
     /\ IF req[c].start THEN Becomes(c, [op |-> "start", trip |-> t]) ELSE Ends(c)
  /\ UNCHANGED <<overlap, invoice>>

\* Starting a planned trip loads it first.
Start(c, t) ==
  /\ trip[t] \notin {"none", "cancelled"}
  /\ IF trip[t] = "planned" THEN Serves(c, [op |-> "load", trip |-> t, start |-> TRUE])
                            ELSE Serves(c, [op |-> "start", trip |-> t])

CheckLoaded(c) ==
  /\ req[c].op = "start"
  /\ IF trip[req[c].trip] \in {"loaded", "dispatched", "in_transit"}
     THEN Becomes(c, [op |-> "dispatch", trip |-> req[c].trip]) ELSE Ends(c)
  /\ UNCHANGED <<overlap, order, trip, stop, invoice>>

CommitDispatch(c) ==
  /\ req[c].op = "dispatch"
  /\ trip' = [trip EXCEPT ![req[c].trip] = "dispatched"]
  /\ order' = Promote(DOMAIN stop[req[c].trip], {"approved", "packed"}, "dispatched")
  /\ Ends(c)
  /\ UNCHANGED <<overlap, stop, invoice>>

Complete(c, t) ==
  /\ trip[t] \notin {"none", "cancelled"}
  /\ \A o \in DOMAIN stop[t] : stop[t][o].status # "pending"
  /\ Serves(c, [op |-> "complete", trip |-> t])

CommitComplete(c) ==
  /\ req[c].op = "complete"
  /\ trip' = [trip EXCEPT ![req[c].trip] = "completed"]
  /\ Ends(c)
  /\ UNCHANGED <<overlap, order, stop, invoice>>

\* Loading that finds too little stock, and a start that credit control
\* refuses, leave nothing of the step behind.
Refused(c) ==
  /\ req[c].op \in {"load", "dispatch"}
  /\ Ends(c)
  /\ UNCHANGED <<overlap, order, trip, stop, invoice>>

-----------------------------------------------------------------------
\* Delivery.

\* A mutant: the fallback taken as it reads.
LoadedOrOrdered(s) == IF s.loaded = 0 THEN s.ordered ELSE s.loaded

\* loadedQty || orderedQty: a decimal is never falsy, so what was loaded, even 0.
LoadedQty(s) == s.loaded

\* What was delivered and what was given back, returned, damaged or refused, by
\* what the driver reports of a stop's item s.  A stop refused is as one failed.
Reported(s, status, a) ==
  CASE status = "delivered" /\ ~a.given    -> <<LoadedQty(s), 0>>
    [] status = "delivered" /\ a.given     -> <<a.delivered, IF a.said THEN a.back ELSE 0>>
    [] status = "partial" /\ a.said        -> <<a.delivered, a.back>>
    [] status = "partial" /\ ~a.said       ->
         <<a.delivered, IF LoadedQty(s) > a.delivered THEN LoadedQty(s) - a.delivered ELSE 0>>
    [] status = "failed"                   -> <<0, LoadedQty(s)>>
    [] status = "pending"                  -> <<s.delivered, s.back>>

\* The quantities are worked out from the item as it was read.
UpdateStopStatus(c, t, o, status, answer) ==
  /\ o \in DOMAIN stop[t] /\ trip[t] \notin {"completed", "reconciled", "cancelled"}
  /\ status = "partial" => answer.given
  /\ LET n == Reported(stop[t][o], status, answer) IN
     /\ n[1] + n[2] <= LoadedQty(stop[t][o]) + Tolerance
     /\ Serves(c, [op |-> "stop", trip |-> t, order |-> o, status |-> status, delivered |-> n[1], back |-> n[2]])

MappedStatus ==
  [delivered |-> "delivered", partial |-> "partial", failed |-> "cancelled"]

CommitStop(c) ==
  /\ req[c].op = "stop"
  /\ LET r == req[c] IN
     /\ stop' = [stop EXCEPT ![r.trip][r.order] =
          [@ EXCEPT !.status = r.status, !.delivered = r.delivered, !.back = r.back]]
     /\ IF r.status = "pending"
        THEN Ends(c) /\ UNCHANGED order
        ELSE /\ order' = [order EXCEPT ![r.order].status = MappedStatus[r.status]]
             /\ Becomes(c, [op |-> "findInvoices", trip |-> r.trip, order |-> r.order, status |-> r.status])
  /\ UNCHANGED <<overlap, trip, invoice>>

-----------------------------------------------------------------------
\* Invoices.

\* The quantity an invoice for an order, a trip or both bills: what the stops
\* of the order's items say was delivered, or the order's quantity if its items
\* have no stop; for a trip alone, what its stops say.
StopsOf(o, t) == {u \in Trips : o \in DOMAIN stop[u] /\ t \in {"none", u}}
Lines(o, t) ==
  IF o = "none"
  THEN LET taken == {p \in DOMAIN stop[t] : stop[t][p].delivered > 0}
       IN FoldFunctionOnSet(+, 0, [p \in taken |-> stop[t][p].delivered], taken)
  ELSE LET known == {u \in StopsOf(o, t) : stop[u][o].edition = order[o].edition}
       IN IF known = {} THEN Wanted(o)
          ELSE FoldFunctionOnSet(+, 0, [u \in known |-> stop[u][o].delivered], known)

Live(i) == invoice[i].status \in {"draft", "posted", "paid"}
Unpaid(i) == invoice[i].status \in {"draft", "posted"}
\* No money is bound to it: a paid invoice has allocations.
Unclaimed(i) == Unpaid(i) /\ ~invoice[i].allocated

\* A request about an invoice: what it will write, and the other invoices that
\* the delivery it is part of has yet to reach.
Bill(op, i, q, actual, todo, status) ==
  [op |-> op, invoice |-> i, qty |-> q, actual |-> actual, todo |-> todo, status |-> status]
Goes(c, todo, status) ==
  Becomes(c, IF todo = {} THEN Idle ELSE [op |-> "billing", todo |-> todo, status |-> status])

\* A request that has passed the guards of the invoice service.
Cancelling(i, todo, status) == Bill("cancelInvoice", i, 0, FALSE, todo, status)
Recomputing(i, todo, status) ==
  Bill(IF invoice[i].status = "draft" THEN "updateDraft" ELSE "revise",
       i, Lines(invoice[i].order, invoice[i].trip), TRUE, todo, status)
CanRecompute(i) == Unclaimed(i) /\ Lines(invoice[i].order, invoice[i].trip) > 0

\* A mutant: only posted invoices are looked for.
CreateInvoiceAgain(c, o, t, status) ==
  /\ o # "none" => order[o].status # "none"
  /\ t # "none" => trip[t] # "none"
  /\ {o, t} # {"none"}
  /\ ~\E i \in Invoices : invoice[i].status = "posted" /\ o \in {"none", invoice[i].order} /\ t \in {"none", invoice[i].trip}
  /\ Lines(o, t) > 0
  /\ Serves(c, [op |-> "createInvoice", order |-> o, trip |-> t, status |-> status, qty |-> Lines(o, t)])

CreateInvoice(c, o, t, status) ==
  /\ o # "none" => order[o].status # "none"
  /\ t # "none" => trip[t] # "none"
  /\ {o, t} # {"none"}
  /\ ~\E i \in Invoices : Live(i) /\ o \in {"none", invoice[i].order} /\ t \in {"none", invoice[i].trip}
  /\ Lines(o, t) > 0
  /\ Serves(c, [op |-> "createInvoice", order |-> o, trip |-> t, status |-> status, qty |-> Lines(o, t)])

CommitInvoice(c) ==
  /\ req[c].op = "createInvoice"
  /\ \E i \in Invoices :
       /\ invoice[i].status = "none"
       /\ invoice' = [invoice EXCEPT ![i] =
            [status |-> req[c].status, order |-> req[c].order, trip |-> req[c].trip,
             billed |-> req[c].qty, allocated |-> FALSE, touched |-> FALSE]]
  /\ Ends(c)
  /\ UNCHANGED <<overlap, order, trip, stop>>

\* Drafts are edited and deleted, and posted invoices replaced and cancelled,
\* only while no receipt, not even a draft, has anything allocated to them.
UpdateDraft(c, i, q) ==
  invoice[i].status = "draft" /\ Unclaimed(i) /\ Serves(c, Bill("updateDraft", i, q, FALSE, {}, "none"))
DeleteDraft(c, i) ==
  invoice[i].status = "draft" /\ Unclaimed(i) /\ Serves(c, Bill("deleteDraft", i, 0, FALSE, {}, "none"))
RevisePostedUnpaid(c, i, q) ==
  invoice[i].status = "posted" /\ Unclaimed(i) /\ Serves(c, Bill("revise", i, q, FALSE, {}, "none"))
RecomputeFromDelivery(c, i) ==
  CanRecompute(i) /\ Serves(c, Recomputing(i, {}, "none"))
Post(c, i) ==
  invoice[i].status = "draft" /\ Serves(c, Bill("postInvoice", i, 0, FALSE, {}, "none"))
Cancel(c, i) ==
  Unclaimed(i) /\ Serves(c, Cancelling(i, {}, "none"))

\* A commit finds its invoice, unless it has been deleted, and does not look at
\* it again.
Commit(c, op, changed) ==
  /\ req[c].op = op
  /\ invoice' = IF invoice[req[c].invoice].status = "deleted" THEN invoice ELSE changed
  /\ Goes(c, req[c].todo, req[c].status)
  /\ UNCHANGED <<overlap, order, trip, stop>>

CommitUpdateDraft(c) ==
  Commit(c, "updateDraft", [invoice EXCEPT ![req[c].invoice].billed = req[c].qty,
                                           ![req[c].invoice].touched = ~req[c].actual])
CommitDelete(c) == Commit(c, "deleteDraft", [invoice EXCEPT ![req[c].invoice].status = "deleted"])
CommitPost(c) == Commit(c, "postInvoice", [invoice EXCEPT ![req[c].invoice].status = "posted"])
CommitCancel(c) == Commit(c, "cancelInvoice", [invoice EXCEPT ![req[c].invoice].status = "cancelled"])

\* The replacement is for the same order and trip.
CommitRevise(c) ==
  \E j \in Invoices :
    /\ invoice[j].status = "none"
    /\ Commit(c, "revise", [invoice EXCEPT
         ![req[c].invoice].status = "cancelled",
         ![j] = [invoice[req[c].invoice] EXCEPT
                   !.status = "posted", !.billed = req[c].qty, !.allocated = FALSE,
                   !.touched = ~req[c].actual]])

\* A mutant: only the invoices of the trip are looked for.
FindInvoicesOfTrip(c) ==
  /\ req[c].op = "findInvoices"
  /\ Goes(c, {i \in Invoices : Unpaid(i) /\ invoice[i].trip = req[c].trip}, req[c].status)
  /\ UNCHANGED <<overlap, order, trip, stop, invoice>>

\* Once a stop is closed, the unpaid invoices of its order and of its trip follow:
\* cancelled if nothing was taken, and else drawn up again; one that cannot be
\* is left as it is, but cancelled if the delivery was partial.  Whatever the
\* invoice service refuses, because of an allocation say, is passed over.
FindInvoices(c) ==
  /\ req[c].op = "findInvoices"
  /\ Goes(c, {i \in Invoices : Unpaid(i) /\ (invoice[i].order = req[c].order \/ invoice[i].trip = req[c].trip)},
          req[c].status)
  /\ UNCHANGED <<overlap, order, trip, stop, invoice>>

FollowDelivery(c, i) ==
  /\ req[c].op = "billing" /\ i \in req[c].todo
  /\ LET rest == req[c].todo \ {i}
         st   == req[c].status
         gone == st = "failed"
     IN IF ~gone /\ CanRecompute(i) THEN Becomes(c, Recomputing(i, rest, st))
        ELSE IF (gone \/ st = "partial") /\ Unclaimed(i) THEN Becomes(c, Cancelling(i, rest, st))
        ELSE Goes(c, rest, st)
  /\ UNCHANGED <<overlap, order, trip, stop, invoice>>

\* Payments, which Settlement has in full: a draft receipt is allocated to an
\* invoice, or released from it; a confirmed one settles it in part or whole, and
\* its cancellation opens the invoice again, where others may be allocated still.
Allocate(i) ==
  /\ Unpaid(i) /\ (InTurn => Quiet)
  /\ invoice' = [invoice EXCEPT ![i].allocated = TRUE, ![i].touched = TRUE]
  /\ UNCHANGED <<overlap, order, req, trip, stop>>
Release(i) ==
  /\ Unpaid(i) /\ (InTurn => Quiet)
  /\ invoice' = [invoice EXCEPT ![i].allocated = FALSE]
  /\ UNCHANGED <<overlap, order, req, trip, stop>>
Pay(i) ==
  /\ Unpaid(i) /\ (InTurn => Quiet)
  /\ invoice' = [invoice EXCEPT ![i].status = "paid", ![i].allocated = TRUE, ![i].touched = TRUE]
  /\ UNCHANGED <<overlap, order, req, trip, stop>>
Unpay(i, left) ==
  /\ invoice[i].status = "paid" /\ (InTurn => Quiet)
  /\ invoice' = [invoice EXCEPT ![i].status = "posted", ![i].allocated = left]
  /\ UNCHANGED <<overlap, order, req, trip, stop>>

-----------------------------------------------------------------------
Dispatch(c) ==
  \/ CreateTrip(c) \/ CommitTrip(c) \/ CommitLoading(c) \/ CheckLoaded(c)
  \/ CommitDispatch(c) \/ CommitComplete(c) \/ Refused(c)
  \/ \E t \in Trips : GenerateLoadingSheet(c, t) \/ Start(c, t) \/ Complete(c, t)

Delivery(c) ==
  \/ \E t \in Trips, o \in Orders, a \in Answers,
        st \in {"pending", "delivered", "partial", "failed"} :
       UpdateStopStatus(c, t, o, st, a)
  \/ CommitStop(c) \/ FindInvoices(c)
  \/ \E i \in Invoices : FollowDelivery(c, i)

Billing(c) ==
  \/ \E o \in Orders \cup {"none"}, t \in Trips \cup {"none"}, st \in {"draft", "posted"} :
       CreateInvoice(c, o, t, st)
  \/ \E i \in Invoices :
       \/ \E q \in Quantities : UpdateDraft(c, i, q) \/ RevisePostedUnpaid(c, i, q)
       \/ DeleteDraft(c, i) \/ RecomputeFromDelivery(c, i) \/ Post(c, i) \/ Cancel(c, i)
  \/ CommitInvoice(c) \/ CommitUpdateDraft(c) \/ CommitDelete(c) \/ CommitPost(c)
  \/ CommitCancel(c) \/ CommitRevise(c)

Next ==
  \/ NextOrders({}) /\ UNCHANGED <<trip, stop, invoice>>
  \/ \E c \in Clients : Dispatch(c) \/ Delivery(c) \/ Billing(c)
  \/ \E i \in Invoices :
       Allocate(i) \/ Release(i) \/ Pay(i) \/ \E left \in BOOLEAN : Unpay(i, left)

Spec == Init /\ [][Next]_vars

-----------------------------------------------------------------------
\* Whatever overlaps, a stop never delivers and takes back more than the truck
\* was loaded with for it, but for the tolerance of the check.
HandledWithinLoaded ==
  \A t \in Trips : \A o \in DOMAIN stop[t] :
    stop[t][o].delivered + stop[t][o].back <= stop[t][o].loaded + Tolerance

\* Whatever overlaps, no trip is on the road, and none waits loaded, with a stop
\* that has not been loaded in full.
OnTheRoadIsLoaded ==
  \A t \in Trips : trip[t] \in {"loaded", "dispatched"} =>
    \A o \in DOMAIN stop[t] : stop[t][o].loaded = stop[t][o].ordered

\* Requests in turn: there is one invoice at a time for an order, a trip, or an
\* order on a trip, however often it is revised.
OneInvoicePerContext ==
  InTurn => \A i, j \in Invoices :
    Live(i) /\ Live(j) /\ invoice[i].order = invoice[j].order /\ invoice[i].trip = invoice[j].trip => i = j

\* Requests in turn: once a stop has been delivered, an unpaid invoice of its
\* order bills what was delivered, unless a receipt was allocated to it, which
\* bars it from following a delivery, or it was rewritten by hand, since it last
\* followed one; and unless the order was edited after the trip was made.
BilledAsDelivered ==
  InTurn /\ Quiet => \A i \in Invoices, t \in Trips :
    LET o == invoice[i].order IN
    /\ Unpaid(i) /\ ~invoice[i].touched /\ o \in DOMAIN stop[t]
    /\ stop[t][o].status \in {"delivered", "partial"} /\ stop[t][o].delivered > 0
    /\ stop[t][o].edition = order[o].edition
    => invoice[i].billed = stop[t][o].delivered
=======================================================================
