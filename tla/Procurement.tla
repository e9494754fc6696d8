------------------------- MODULE Procurement -------------------------
(* From orders to goods: the orders of one delivery cycle consolidated    *)
(* into a demand, purchase orders drawn from it or made by hand, and the  *)
(* goods receipts that fill them.  One variant, so a demand, a purchase   *)
(* order and a receipt have one item each.  What a receipt puts in stock  *)
(* is in Stock.                                                           *)
EXTENDS SalesOrders, Functions

CONSTANTS
  Sheets,      \* demand consolidations
  Purchases,   \* purchase orders
  Receipts     \* goods receipts: bounds on how many there are

ASSUME ProcurementAssumption ==
  /\ "none" \notin Sheets \cup Purchases
  /\ IsFiniteSet(Orders) /\ IsFiniteSet(Receipts)

VARIABLES
  sheet,     \* demand consolidations: status, source orders, their quantity, the
             \*   quantity to procure, and which edition of the item this is
  po,        \* purchase orders: status, demand they are linked to, quantity
             \*   ordered, of which for the demand, extra; edition of the item
  receipt,   \* goods receipts: status, purchase order, the item of a purchase
             \*   order that their own item refers to, quantity accepted
  unsynced   \* purchase orders left behind by a request that died after posting

procurement == <<overlap, order, req, sheet, po, receipt, unsynced>>

NoLine == [po |-> "none", edition |-> 0]
NoPurchase == [status |-> "none", sheet |-> "none", ordered |-> 0, demand |-> 0, extra |-> 0, edition |-> 0]

InitProcurement ==
  /\ InitOrders
  /\ sheet = [s \in Sheets |-> [status |-> "none", sources |-> {}, total |-> 0, final |-> 0, edition |-> 0]]
  /\ po = [p \in Purchases |-> NoPurchase]
  /\ receipt = [g \in Receipts |-> [status |-> "none", po |-> "none", line |-> NoLine, accepted |-> 0]]
  /\ unsynced = {}

\* A request that can begin now becomes r; until then it has only read.
Asks(c, r) ==
  /\ Free(c, r.op) /\ Becomes(c, r)
  /\ UNCHANGED <<overlap, order, sheet, po, receipt, unsynced>>
Finishes(c) == Becomes(c, Idle)

-----------------------------------------------------------------------
\* Demand consolidations.

Frozen == {"approved", "po_generated"}
Locked(o) == \E s \in Sheets : sheet[s].status \in Frozen /\ o \in sheet[s].sources

Demand(os) == FoldFunctionOnSet(+, 0, [o \in Orders |-> Wanted(o)], os)
Eligible(statuses) == {o \in Orders : order[o].status \in statuses}

\* A mutant: a consolidation that purchase orders were drawn from is not frozen.
MutableUntilApproved(s) == sheet[s].status \notin {"none", "approved"}
MutableSheet(s) == sheet[s].status \notin {"none"} \cup Frozen

CreateConsolidation(c, statuses) ==
  /\ \A s \in Sheets : sheet[s].status = "none"
  /\ Eligible(statuses) # {}
  /\ Asks(c, [op |-> "consolidate", sources |-> Eligible(statuses), total |-> Demand(Eligible(statuses))])

CommitConsolidation(c) ==
  /\ req[c].op = "consolidate"
  /\ \E s \in Sheets :
       /\ sheet[s].status = "none"
       /\ sheet' = [sheet EXCEPT ![s] =
            [status |-> "reviewed", sources |-> req[c].sources, total |-> req[c].total,
             final |-> req[c].total, edition |-> 0]]
  /\ Finishes(c)
  /\ UNCHANGED <<overlap, order, po, receipt, unsynced>>

Rebuild(c, s) ==
  LET os == Eligible({"approved"}) IN
  /\ MutableSheet(s) /\ sheet[s].edition < MaxEdits /\ os # {}
  /\ Asks(c, [op |-> "rebuild", sheet |-> s, sources |-> os, total |-> Demand(os)])

CommitRebuild(c) ==
  /\ req[c].op = "rebuild"
  /\ sheet' = [sheet EXCEPT ![req[c].sheet] =
       [status |-> "reviewed", sources |-> req[c].sources, total |-> req[c].total,
        final |-> req[c].total, edition |-> @.edition + 1]]
  /\ Finishes(c)
  /\ UNCHANGED <<overlap, order, po, receipt, unsynced>>

\* The quantity to procure is given, or is the approved one and a buffer.
UpdateItem(c, s, q, given) ==
  /\ MutableSheet(s)
  /\ Asks(c, [op |-> "updateItem", sheet |-> s, edition |-> sheet[s].edition,
                qty |-> IF given THEN q ELSE sheet[s].total + q])

CommitItem(c) ==
  /\ req[c].op = "updateItem"
  /\ sheet' = IF sheet[req[c].sheet].edition = req[c].edition
              THEN [sheet EXCEPT ![req[c].sheet].final = req[c].qty] ELSE sheet
  /\ Finishes(c)
  /\ UNCHANGED <<overlap, order, po, receipt, unsynced>>

ApproveConsolidation(c, s) ==
  /\ sheet[s].status \notin {"none", "po_generated"}
  /\ Asks(c, [op |-> "approveSheet", sheet |-> s])

CommitApproveConsolidation(c) ==
  /\ req[c].op = "approveSheet"
  /\ sheet' = [sheet EXCEPT ![req[c].sheet].status = "approved"]
  /\ Finishes(c)
  /\ UNCHANGED <<overlap, order, po, receipt, unsynced>>

-----------------------------------------------------------------------
\* Purchase orders.

Consolidated(s) == s # "none" => sheet[s].status # "none"
MutablePo(p) == po[p].status \in {"draft", "approved"}

\* By hand, in one transaction; a link to a consolidation is taken as it is.
CreatePurchase(c, p, s, q) ==
  /\ Free(c, "createPo") /\ po[p].status = "none"
  /\ Consolidated(s)
  /\ po' = [po EXCEPT ![p] = [NoPurchase EXCEPT !.status = "draft", !.sheet = s, !.ordered = q]]
  /\ UNCHANGED <<overlap, order, req, sheet, receipt, unsynced>>

CreateFromDemand(c, s, e) ==
  /\ sheet[s].status \in {"reviewed"} \cup Frozen
  /\ \A p \in Purchases : po[p].sheet = s => po[p].status \in {"none", "cancelled"}
  /\ sheet[s].final + e > 0
  /\ Asks(c, [op |-> "purchase", sheet |-> s, demand |-> sheet[s].final, extra |-> e])

CommitFromDemand(c) ==
  /\ req[c].op = "purchase"
  /\ \E p \in Purchases :
       /\ po[p].status = "none"
       /\ po' = [po EXCEPT ![p] =
            [status |-> "draft", sheet |-> req[c].sheet, ordered |-> req[c].demand + req[c].extra,
             demand |-> req[c].demand, extra |-> req[c].extra, edition |-> 0]]
  /\ sheet' = [sheet EXCEPT ![req[c].sheet].status = "po_generated"]
  /\ Finishes(c)
  /\ UNCHANGED <<overlap, order, receipt, unsynced>>

\* New items, when they are given (q # 0), are manual ones.
UpdatePurchase(c, p, s, q) ==
  /\ MutablePo(p) /\ Consolidated(s)
  /\ q # 0 => po[p].edition < MaxEdits
  /\ Asks(c, [op |-> "updatePo", po |-> p, sheet |-> s, qty |-> q])

CommitUpdatePurchase(c) ==
  /\ req[c].op = "updatePo"
  /\ po' = [po EXCEPT ![req[c].po] =
       IF req[c].qty = 0 THEN [@ EXCEPT !.sheet = req[c].sheet]
       ELSE [@ EXCEPT !.sheet = req[c].sheet, !.ordered = req[c].qty, !.demand = 0, !.extra = 0,
                      !.edition = po[req[c].po].edition + 1]]
  /\ Finishes(c)
  /\ UNCHANGED <<overlap, order, sheet, receipt, unsynced>>

\* The item is found again by its variant, so an edit in between does not stop it.
UpdateDemandExtras(c, p, e) ==
  /\ po[p].status = "draft" /\ po[p].sheet # "none"
  /\ Asks(c, [op |-> "extras", po |-> p, ordered |-> po[p].demand + e, extra |-> e])

CommitExtras(c) ==
  /\ req[c].op = "extras"
  /\ po' = [po EXCEPT ![req[c].po].ordered = req[c].ordered, ![req[c].po].extra = req[c].extra]
  /\ Finishes(c)
  /\ UNCHANGED <<overlap, order, sheet, receipt, unsynced>>

ApprovePurchase(c, p) ==
  MutablePo(p) /\ Asks(c, [op |-> "statusPo", po |-> p, status |-> "approved"])
CancelPurchase(c, p) ==
  /\ MutablePo(p)
  /\ \A g \in Receipts : receipt[g].po = p => receipt[g].status \notin {"approved", "posted"}
  /\ Asks(c, [op |-> "statusPo", po |-> p, status |-> "cancelled"])

\* An approval, a cancellation, or the end of a posted receipt.
CommitStatus(c) ==
  /\ req[c].op \in {"statusPo", "sync"}
  /\ po' = [po EXCEPT ![req[c].po].status = req[c].status]
  /\ unsynced' = IF req[c].op = "sync" THEN unsynced \ {req[c].po} ELSE unsynced
  /\ Finishes(c)
  /\ UNCHANGED <<overlap, order, sheet, receipt>>

-----------------------------------------------------------------------
\* Goods receipts.

LineOf(p) == IF p = "none" THEN NoLine ELSE [po |-> p, edition |-> po[p].edition]
Known(p) == p # "none" => po[p].status # "none"

\* Whatever the status of the purchase order.
CreateReceipt(c, g, p, a) ==
  /\ Free(c, "createReceipt") /\ receipt[g].status = "none" /\ Known(p)
  /\ receipt' = [receipt EXCEPT ![g] = [status |-> "draft", po |-> p, line |-> LineOf(p), accepted |-> a]]
  /\ UNCHANGED <<overlap, order, req, sheet, po, unsynced>>

\* The purchase order may change and the items stay.
UpdateReceipt(c, g, p, a, items) ==
  /\ receipt[g].status = "draft" /\ Known(p)
  /\ Asks(c, [op |-> "updateReceipt", receipt |-> g, po |-> p,
                line |-> IF items THEN LineOf(p) ELSE receipt[g].line,
                accepted |-> IF items THEN a ELSE receipt[g].accepted])

CommitReceipt(c) ==
  /\ req[c].op = "updateReceipt"
  /\ receipt' = [receipt EXCEPT ![req[c].receipt] =
       [@ EXCEPT !.po = req[c].po, !.line = req[c].line, !.accepted = req[c].accepted]]
  /\ Finishes(c)
  /\ UNCHANGED <<overlap, order, sheet, po, unsynced>>

ApproveReceipt(c, g) ==
  /\ receipt[g].status \in {"draft", "approved"}
  /\ Asks(c, [op |-> "approveReceipt", receipt |-> g])

CommitApproveReceipt(c) ==
  /\ req[c].op = "approveReceipt"
  /\ receipt' = [receipt EXCEPT ![req[c].receipt].status = "approved"]
  /\ Finishes(c)
  /\ UNCHANGED <<overlap, order, sheet, po, unsynced>>

PostReceipt(c, g) ==
  /\ receipt[g].status = "approved"
  /\ Asks(c, [op |-> "post", receipt |-> g, po |-> receipt[g].po])

CommitReceiptPosting(c) ==
  /\ req[c].op = "post"
  /\ receipt' = [receipt EXCEPT ![req[c].receipt].status = "posted"]
  /\ IF req[c].po = "none" THEN Finishes(c) ELSE Becomes(c, [op |-> "readReceipts", po |-> req[c].po])
  /\ UNCHANGED <<overlap, order, sheet, po, unsynced>>

\* What posted receipts have brought in for a purchase order's item.
Filling(p) == {g \in Receipts : receipt[g].status = "posted" /\ receipt[g].line = LineOf(p)}
Accepted(p) == FoldFunctionOnSet(+, 0, [g \in Receipts |-> receipt[g].accepted], Filling(p))

\* A mutant: the receipts are counted and not their quantities.
StatusByReceipts(p) == IF Filling(p) # {} THEN "received" ELSE "approved"
ReceivedStatus(p) ==
  IF Accepted(p) >= po[p].ordered THEN "received" ELSE IF Accepted(p) > 0 THEN "partial" ELSE "approved"

ReadReceipts(c) ==
  /\ req[c].op = "readReceipts"
  /\ Becomes(c, [op |-> "sync", po |-> req[c].po, status |-> ReceivedStatus(req[c].po)])
  /\ UNCHANGED <<overlap, order, sheet, po, receipt, unsynced>>

\* The posting and the status of the purchase order are not one transaction.
DieAfterPosting(c) ==
  /\ req[c].op \in {"readReceipts", "sync"}
  /\ unsynced' = unsynced \cup {req[c].po}
  /\ Finishes(c)
  /\ UNCHANGED <<overlap, order, sheet, po, receipt>>

-----------------------------------------------------------------------
Consolidate(c) ==
  \/ \E statuses \in {{"approved"}, {"pending", "approved"}} : CreateConsolidation(c, statuses)
  \/ \E s \in Sheets :
       \/ Rebuild(c, s) \/ ApproveConsolidation(c, s)
       \/ \E q \in Quantities, given \in BOOLEAN : UpdateItem(c, s, q, given)
  \/ CommitConsolidation(c) \/ CommitRebuild(c) \/ CommitItem(c) \/ CommitApproveConsolidation(c)

Purchase(c) ==
  \/ \E p \in Purchases :
       \/ \E s \in Sheets \cup {"none"} :
            \/ \E q \in Quantities : CreatePurchase(c, p, s, q)
            \/ \E q \in Quantities \cup {0} : UpdatePurchase(c, p, s, q)
       \/ \E e \in Quantities \cup {0} : UpdateDemandExtras(c, p, e)
       \/ ApprovePurchase(c, p) \/ CancelPurchase(c, p)
  \/ \E s \in Sheets, e \in Quantities \cup {0} : CreateFromDemand(c, s, e)
  \/ CommitFromDemand(c) \/ CommitUpdatePurchase(c) \/ CommitExtras(c) \/ CommitStatus(c)

Receive(c) ==
  \/ \E g \in Receipts :
       \/ \E p \in Purchases \cup {"none"}, a \in Quantities \cup {0} :
            \/ CreateReceipt(c, g, p, a)
            \/ \E items \in BOOLEAN : UpdateReceipt(c, g, p, a, items)
       \/ ApproveReceipt(c, g) \/ PostReceipt(c, g)
  \/ CommitReceipt(c) \/ CommitApproveReceipt(c) \/ CommitReceiptPosting(c)
  \/ ReadReceipts(c) \/ DieAfterPosting(c)

NextProcurement ==
  \/ NextOrders({o \in Orders : Locked(o)}) /\ UNCHANGED <<sheet, po, receipt, unsynced>>
  \/ \E c \in Clients : Consolidate(c) \/ Purchase(c) \/ Receive(c)

ProcurementSpec == InitProcurement /\ [][NextProcurement]_procurement

-----------------------------------------------------------------------
\* Requests in turn: while an approved consolidation holds an order, only the
\* back office, by force, changes what the order asks for or cancels it.
LockedOrdersKeep ==
  [][InTurn => \A o \in Orders :
       Locked(o) /\ ~(\E c \in Clients : req[c].op \in {"updateOrder", "cancelOrder"} /\ req[c].force)
       => Wanted(o)' = Wanted(o) /\ (order[o].status # "cancelled" => order'[o].status # "cancelled")]_procurement

\* Requests in turn: as long as a purchase order drawn from a demand stays linked
\* to it, the demand is the one it was drawn from, and it orders that and its extra.
PurchasedAsDemanded ==
  InTurn => \A p \in Purchases : po[p].demand # 0 /\ po[p].sheet # "none" =>
    /\ sheet[po[p].sheet].status = "po_generated" /\ sheet[po[p].sheet].final = po[p].demand
    /\ po[p].ordered = po[p].demand + po[p].extra

\* However postings overlap with one another, a purchase order is received only when
\* posted receipts have filled it; requests in turn, one that a receipt has put goods
\* in is received, at least in part, unless the process died before saying so.
PostingKinds == {"post", "readReceipts", "sync"}
ReceivedAsPosted ==
  overlap \subseteq PostingKinds => \A p \in Purchases :
    /\ po[p].status = "received" => Accepted(p) >= po[p].ordered
    /\ InTurn /\ Quiet /\ p \notin unsynced /\ (\E g \in Filling(p) : receipt[g].po = p /\ receipt[g].accepted > 0)
       => po[p].status \in {"partial", "received"}
=======================================================================
