------------------------- MODULE SalesOrders -------------------------
(* Sales orders of one retailer: created, edited, recalculated, approved, *)
(* rejected, cancelled, duplicated.  A request reads its order, decides   *)
(* whether it may go on, and writes later in a transaction that does not  *)
(* look at the order again.  An order has one item; its id changes with   *)
(* every edit, because an edit deletes the items and creates new ones.    *)
EXTENDS Integers, FiniteSets

CONSTANTS
  Clients,      \* requests in flight at most
  Orders,
  Quantities,   \* quantities a user may order
  MaxEdits,     \* bound on the edits of one order
  Overlaps      \* sets of kinds of requests, one of which is chosen

ASSUME SalesOrdersAssumption ==
  /\ Quantities \subseteq Nat \ {0} /\ MaxEdits \in Nat
  /\ "none" \notin Orders

VARIABLES
  overlap,  \* the kinds of requests that the users send without waiting for
            \*   one another; nothing makes them wait
  order,    \* status, ordered and approved quantity (0 when null) of each
            \*   order, and which edition of its item this is
  req       \* what each client is doing

OrderStatus ==
  {"none", "pending", "approved", "packed", "dispatched", "delivered", "partial", "cancelled"}
Roles == {"retailer", "backoffice"}

Idle == [op |-> "none"]
InTurn == overlap = {}
Quiet == \A c \in Clients : req[c] = Idle
Free(c, op) ==
  /\ req[c] = Idle
  /\ \A d \in Clients : req[d] # Idle => {op, req[d].op} \subseteq overlap
Becomes(c, r) == req' = [req EXCEPT ![c] = r]

InitOrders ==
  /\ overlap \in Overlaps
  /\ order = [o \in Orders |-> [status |-> "none", ordered |-> 0, approved |-> 0, edition |-> 0]]
  /\ req = [c \in Clients |-> Idle]

\* approvedQty ?? orderedQty
Wanted(o) == IF order[o].approved # 0 THEN order[o].approved ELSE order[o].ordered

-----------------------------------------------------------------------
\* Requests in one transaction.
CreateOrder(c, o, q) ==
  /\ Free(c, "createOrder") /\ order[o].status = "none"
  /\ order' = [order EXCEPT ![o].status = "pending", ![o].ordered = q]
  /\ UNCHANGED <<overlap, req>>

DuplicateOrder(c, o, p) ==
  /\ order[p].status # "none"
  /\ CreateOrder(c, o, order[p].ordered)

\* A mutant: the lock of a consolidation is not looked at.
MutableUnlocked(o, role, force, locked) ==
  \/ force /\ role = "backoffice"
  \/ /\ order[o].status \notin {"dispatched", "delivered", "partial", "cancelled"}
     /\ role = "retailer" => order[o].status = "pending"

\* What an edit or a cancellation asks of the order it has read, unless the
\* back office forces it; locked is whether an approved consolidation has it.
Mutable(o, role, force, locked) ==
  \/ force /\ role = "backoffice"
  \/ /\ order[o].status \notin {"dispatched", "delivered", "partial", "cancelled"}
     /\ role = "retailer" => order[o].status = "pending"
     /\ ~locked

Begin(c, o, r) ==
  /\ Free(c, r.op) /\ order[o].status # "none"
  /\ Becomes(c, r)
  /\ UNCHANGED <<overlap, order>>

UpdateOrder(c, o, role, force, locked, q) ==
  /\ Mutable(o, role, force, locked) /\ order[o].edition < MaxEdits
  /\ Begin(c, o, [op |-> "updateOrder", order |-> o, status |-> order[o].status, qty |-> q, force |-> force])

\* Recalculation passes no force on to the update it makes of itself.
RecalculateOrder(c, o, role, locked) == UpdateOrder(c, o, role, FALSE, locked, order[o].ordered)

\* Only a cancelled order cannot be approved; the credit check may refuse, and
\* leaves nothing behind.
ApproveOrder(c, o) ==
  /\ order[o].status # "cancelled"
  /\ Begin(c, o, [op |-> "approveOrder", order |-> o, edition |-> order[o].edition, qty |-> order[o].ordered])

Drop(c, o, role, force, locked) ==
  /\ Mutable(o, role, force, locked)
  /\ Begin(c, o, [op |-> "cancelOrder", order |-> o, force |-> force])
RemoveOrder(c, o, role, locked) == Drop(c, o, role, FALSE, locked)
RejectOrder(c, o, force, locked) == Drop(c, o, "backoffice", force, locked)
CancelOrder(c, o, role, force, locked) == Drop(c, o, role, force, locked)

-----------------------------------------------------------------------
\* An edit keeps the status that is there, and approves the new quantity if
\* the status it had read was approved.
CommitUpdateOrder(c) ==
  /\ req[c].op = "updateOrder"
  /\ order' = [order EXCEPT
       ![req[c].order].ordered = req[c].qty,
       ![req[c].order].approved = IF req[c].status = "approved" THEN req[c].qty ELSE 0,
       ![req[c].order].edition = @ + 1]
  /\ Becomes(c, Idle)
  /\ UNCHANGED overlap

\* Approval writes the items it has read; if an edit has replaced them, they
\* are not there to update and the transaction fails.
CommitApproveOrder(c) ==
  /\ req[c].op = "approveOrder"
  /\ order' = IF order[req[c].order].edition = req[c].edition
              THEN [order EXCEPT ![req[c].order].status = "approved", ![req[c].order].approved = req[c].qty]
              ELSE order
  /\ Becomes(c, Idle)
  /\ UNCHANGED overlap

CommitCancelOrder(c) ==
  /\ req[c].op = "cancelOrder"
  /\ order' = [order EXCEPT ![req[c].order].status = "cancelled"]
  /\ Becomes(c, Idle)
  /\ UNCHANGED overlap

\* Requests about orders when the orders of lock are locked.
NextOrders(lock) == \E c \in Clients :
  \/ \E o \in Orders :
       \/ \E q \in Quantities : CreateOrder(c, o, q)
       \/ \E p \in Orders : DuplicateOrder(c, o, p)
       \/ \E role \in Roles, force \in BOOLEAN :
            \/ \E q \in Quantities : UpdateOrder(c, o, role, force, o \in lock, q)
            \/ CancelOrder(c, o, role, force, o \in lock)
       \/ \E role \in Roles : RecalculateOrder(c, o, role, o \in lock)
       \/ \E role \in Roles : RemoveOrder(c, o, role, o \in lock)
       \/ \E force \in BOOLEAN : RejectOrder(c, o, force, o \in lock)
       \/ ApproveOrder(c, o)
  \/ CommitUpdateOrder(c)
  \/ CommitApproveOrder(c)
  \/ CommitCancelOrder(c)
=======================================================================
