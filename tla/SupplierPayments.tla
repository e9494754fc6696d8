------------------------ MODULE SupplierPayments ------------------------
(* Purchase invoices of one supplier, and the receipts for what it is paid. *)
(* A receipt is allocated to invoices row by row while it is a draft, and   *)
(* its confirmation or cancellation writes the status of those invoices.    *)
(* An invoice keeps no outstanding amount: what is left of it is worked out *)
(* from all its allocations, those of drafts included, each time.           *)
EXTENDS Money, Integers, Functions

CONSTANTS
  Clients,           \* requests in flight at most
  Receipts, PurchaseInvoices,
  Rows,              \* ids of allocations: a bound on how many there are
  Amounts            \* amounts a user may state, none of them zero

VARIABLES
  purchaseInvoice,   \* status and grand total of each
  receipt,           \* status, amount and unallocated amount of each
  allocation,        \* receipt, invoice and amount of each
  req                \* what each client is doing, and what it has read for it

vars == <<purchaseInvoice, receipt, allocation, req>>

NoRow == [receipt |-> "none", invoice |-> "none", amount |-> 0]
Idle == [op |-> "none", about |-> "none"]

RowsOf(r) == {a \in Rows : allocation[a].receipt = r}
RowsTo(i) == {a \in Rows : allocation[a].invoice = i}
Allocated(rows) == Total([a \in Rows |-> allocation[a].amount], rows)

Init ==
  /\ purchaseInvoice = [i \in PurchaseInvoices |-> [status |-> "none", total |-> 0]]
  /\ receipt = [r \in Receipts |-> [status |-> "none", amount |-> 0, unallocated |-> 0]]
  /\ allocation = [a \in Rows |-> NoRow]
  /\ req = [c \in Clients |-> Idle]

\* Requests about one receipt are sent in turn, and no invoice is edited while a
\* receipt is being confirmed; any others overlap.
Apart(r, s) ==
  /\ r.about = "none" \/ r.about # s.about
  /\ {r.op, s.op} # {"update", "confirm"}

\* A request has read what r says and begins; it goes on as r; it ends.
Begins(c, r) ==
  /\ req[c] = Idle /\ \A d \in Clients \ {c} : Apart(r, req[d])
  /\ req' = [req EXCEPT ![c] = r]
  /\ UNCHANGED <<purchaseInvoice, receipt, allocation>>
GoesOn(c, r) ==
  /\ req' = [req EXCEPT ![c] = r]
  /\ UNCHANGED <<purchaseInvoice, receipt, allocation>>
Ends(c) == req' = [req EXCEPT ![c] = Idle]

\* The database may abort a transaction that waits for another in a circle; it
\* leaves nothing behind.
Abort(c) == req[c] # Idle /\ GoesOn(c, Idle)

-----------------------------------------------------------------------
\* Purchase invoices.

CreateInvoice(i, n) ==
  /\ purchaseInvoice[i].status = "none"
  /\ purchaseInvoice' = [purchaseInvoice EXCEPT ![i] = [status |-> "draft", total |-> n]]
  /\ UNCHANGED <<receipt, allocation, req>>

UpdateInvoice(c, i, n) ==
  /\ purchaseInvoice[i].status = "draft"
  /\ Begins(c, [op |-> "update", about |-> "none", invoice |-> i, total |-> n])

CommitUpdate(c) ==
  /\ req[c].op = "update"
  /\ purchaseInvoice' = [purchaseInvoice EXCEPT ![req[c].invoice].total = req[c].total]
  /\ Ends(c)
  /\ UNCHANGED <<receipt, allocation>>

\* An invoice that is paid can still be approved or posted.
Mark(c, i, status) == Begins(c, [op |-> "mark", about |-> "none", invoice |-> i, status |-> status])
Approve(c, i) == purchaseInvoice[i].status \in {"draft", "paid"} /\ Mark(c, i, "approved")
Post(c, i) == purchaseInvoice[i].status \in {"draft", "approved", "paid"} /\ Mark(c, i, "posted")

CommitMark(c) ==
  /\ req[c].op = "mark"
  /\ purchaseInvoice' = [purchaseInvoice EXCEPT ![req[c].invoice].status = req[c].status]
  /\ Ends(c)
  /\ UNCHANGED <<receipt, allocation>>

-----------------------------------------------------------------------
\* Receipts.

CreateReceipt(r, n) ==
  /\ receipt[r].status = "none"
  /\ receipt' = [receipt EXCEPT ![r] = [status |-> "draft", amount |-> n, unallocated |-> n]]
  /\ UNCHANGED <<purchaseInvoice, allocation, req>>

\* What it asks of the receipt, the receipt keeps: only this request is about it.
CreateAllocation(c, r, i, n) ==
  /\ receipt[r].status = "draft" /\ purchaseInvoice[i].status # "none"
  /\ Allocated(RowsOf(r)) + n <= receipt[r].amount
  /\ Allocated(RowsTo(i)) + n <= purchaseInvoice[i].total
  /\ Begins(c, [op |-> "allocate", about |-> r, invoice |-> i, amount |-> n])

CommitAllocation(c) ==
  /\ req[c].op = "allocate"
  /\ LET r == req[c].about IN
     /\ \E a \in Rows :
          /\ allocation[a] = NoRow
          /\ allocation' = [allocation EXCEPT
               ![a] = [receipt |-> r, invoice |-> req[c].invoice, amount |-> req[c].amount]]
     /\ receipt' = [receipt EXCEPT ![r].unallocated =
          receipt[r].amount - (Allocated(RowsOf(r)) + req[c].amount)]
  /\ Ends(c)
  /\ UNCHANGED purchaseInvoice

\* The invoices a request will have written when it commits, as far as it has got.
Marked(c) ==
  [i \in PurchaseInvoices |->
     IF i \in DOMAIN req[c].marks THEN [purchaseInvoice[i] EXCEPT !.status = req[c].marks[i]]
                                  ELSE purchaseInvoice[i]]
\* The request deals with row a of those it has to do, of an invoice of which all
\* but left is accounted for.
DealsWith(c, a, left) ==
  LET i == allocation[a].invoice
      status == IF left <= 0 THEN "paid" ELSE "posted"
  IN GoesOn(c, [req[c] EXCEPT !.todo = @ \ {a},
                              !.marks = [j \in DOMAIN @ \cup {i} |-> IF j = i THEN status ELSE @[j]]])

Confirm(c, r) ==
  /\ receipt[r].status = "draft"
  /\ Begins(c, [op |-> "confirm", about |-> r, todo |-> RowsOf(r), marks |-> <<>>])

\* A mutant: only what is confirmed is counted.
LeftByConfirmed(r, i) ==
  purchaseInvoice[i].total -
    Allocated({a \in RowsTo(i) \ RowsOf(r) : receipt[allocation[a].receipt].status = "confirmed"})

\* What other receipts have left of an invoice, none of this receipt's rows being
\* counted: two of its rows to one invoice are each held against the same amount.
LeftByOthers(r, i) == purchaseInvoice[i].total - Allocated(RowsTo(i) \ RowsOf(r))

ConfirmRow(c, a) ==
  /\ req[c].op = "confirm" /\ a \in req[c].todo
  /\ LET left == LeftByOthers(req[c].about, allocation[a].invoice) IN
     IF allocation[a].amount <= left THEN DealsWith(c, a, left - allocation[a].amount)
                                     ELSE GoesOn(c, Idle)

CommitConfirm(c) ==
  /\ req[c].op = "confirm" /\ req[c].todo = {}
  /\ LET r == req[c].about IN
     receipt' = [receipt EXCEPT ![r].status = "confirmed",
                                ![r].unallocated = receipt[r].amount - Allocated(RowsOf(r))]
  /\ purchaseInvoice' = Marked(c)
  /\ Ends(c)
  /\ UNCHANGED allocation

\* A draft's cancellation leaves the invoices as they are.
Cancel(c, r) ==
  /\ receipt[r].status \in {"draft", "confirmed"}
  /\ Begins(c, [op |-> "cancel", about |-> r, marks |-> <<>>,
                todo |-> IF receipt[r].status = "confirmed" THEN RowsOf(r) ELSE {}])

\* Here the receipt's other rows to the invoice are counted.
CancelRow(c, a) ==
  /\ req[c].op = "cancel" /\ a \in req[c].todo
  /\ LET i == allocation[a].invoice IN
     DealsWith(c, a, purchaseInvoice[i].total - Allocated(RowsTo(i) \ {a}))

CommitCancel(c) ==
  /\ req[c].op = "cancel" /\ req[c].todo = {}
  /\ LET r == req[c].about IN
     /\ receipt' = [receipt EXCEPT ![r].status = "cancelled"]
     /\ allocation' = [a \in Rows |-> IF allocation[a].receipt = r THEN NoRow ELSE allocation[a]]
  /\ purchaseInvoice' = Marked(c)
  /\ Ends(c)

-----------------------------------------------------------------------
Invoicing ==
  \/ \E i \in PurchaseInvoices, n \in Amounts :
       CreateInvoice(i, n) \/ \E c \in Clients : UpdateInvoice(c, i, n)
  \/ \E c \in Clients :
       CommitUpdate(c) \/ CommitMark(c) \/ \E i \in PurchaseInvoices : Approve(c, i) \/ Post(c, i)

Paying ==
  \/ \E r \in Receipts, n \in Amounts :
       CreateReceipt(r, n) \/ \E c \in Clients, i \in PurchaseInvoices : CreateAllocation(c, r, i, n)
  \/ \E c \in Clients :
       \/ \E r \in Receipts : Confirm(c, r) \/ Cancel(c, r)
       \/ \E a \in Rows : ConfirmRow(c, a) \/ CancelRow(c, a)
       \/ CommitAllocation(c) \/ CommitConfirm(c) \/ CommitCancel(c)

Next == Invoicing \/ Paying \/ \E c \in Clients : Abort(c)

Spec == Init /\ [][Next]_vars

-----------------------------------------------------------------------
\* However allocations, confirmations and cancellations of different receipts
\* overlap, confirmed receipts pay no more of a purchase invoice than it bills,
\* unless one of them is allocated to it twice.  Two allocations made at the same
\* time may exceed it, and so may those of drafts once its total is lowered; each
\* confirmation holds its rows against all others, which were there before it or
\* will be held against its own.
NeverOverpaid ==
  \A i \in PurchaseInvoices :
    LET paid == {a \in RowsTo(i) : receipt[allocation[a].receipt].status = "confirmed"} IN
    (\A a, b \in paid : allocation[a].receipt = allocation[b].receipt => a = b)
    => Allocated(paid) <= purchaseInvoice[i].total
=======================================================================
