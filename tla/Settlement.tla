-------------------------- MODULE Settlement --------------------------
(* How one retailer's invoices are billed, paid, reopened and voided, and *)
(* what the services write to the wallet, the retailer ledger and the     *)
(* journal afterwards.                                                    *)
(*                                                                        *)
(* A request first commits one database transaction (or one update) and   *)
(* then makes, one after the other and outside any transaction, the calls *)
(* that keep the books: `todo` is the list of calls the running request   *)
(* still has to make.  Any of them may fail or the process may die        *)
(* between two of them (Fault): the rest is then never made.  Requests    *)
(* run one at a time here; SettlementRace interleaves them.               *)
EXTENDS Money, Integers, Sequences

CONSTANTS
  Invoices,      \* ids of sales invoice rows
  Receipts,      \* ids of payment receipt rows
  Totals,        \* grand totals an invoice may be billed with
  Amounts,       \* amounts of receipts, allocations and wallet adjustments
  Day,           \* day of each invoice: its due date, then its invoice date
  MaxBalance,    \* bound on the wallet balance a manual credit may reach
  MaxFaults      \* bound on the requests that stop half way

ASSUME SettlementAssumption ==
  /\ IsFiniteSet(Invoices) /\ IsFiniteSet(Receipts)
  /\ Invoices \cap Receipts = {}
  /\ Totals \subseteq Nat \ {0} /\ Amounts \subseteq Nat \ {0}
  /\ Day \in [Invoices -> Nat]
  /\ MaxBalance \in Nat /\ MaxFaults \in Nat

VARIABLES
  istatus, grandTotal, outstanding,                \* sales invoice rows
  rstatus, amount, unallocated, isAdvance, alloc,  \* receipts, allocations
  balance,                 \* availableBalance of the retailer's wallet
  credited, debited,       \* wallet transactions made for each receipt
  adjusted,                \* net of the manual wallet transactions
  ledger,                  \* retailer ledger entries, as <<kind, document>>
  vouchers, linked,        \* journal entries made for a document; its
                           \*   journalEntryId is set
  mirrors, voided,         \* reversing entries; the linked entry is reversed
  todo,                    \* calls the running request still has to make
  faults                   \* requests that stopped half way so far

invoiceVars == <<istatus, grandTotal, outstanding>>
receiptVars == <<rstatus, amount, unallocated, isAdvance, alloc>>
walletVars  == <<balance, credited, debited, adjusted>>
journalVars == <<vouchers, linked, mirrors, voided>>
bookVars    == <<walletVars, ledger, journalVars>>
vars == <<invoiceVars, receiptVars, bookVars, todo, faults>>

Documents == Invoices \cup Receipts
InvoiceStatus == {"absent", "draft", "posted", "partial_paid", "paid", "cancelled", "deleted"}
ReceiptStatus == {"absent", "draft", "confirmed", "cancelled"}
Live    == {"draft", "posted", "partial_paid", "paid"}
Payable == {"posted", "partial_paid"}
EntryKinds == {"invoice", "invoice_cancel", "receipt", "receipt_cancel"}
InvoiceMethods == {"postInvoiceDebit", "reverseInvoicePosting"}
ReceiptMethods == {"confirm", "postReceiptCredit", "reverseReceiptPosting",
                   "creditFromReceipt", "reverseReceiptAdvance"}
JournalMethods == {"createJournalEntry", "linkJournalEntry", "reverseJournalEntry",
                   "markReversed"}

\* A call still to be made: the service method, the document and an amount.
Call(method, doc, n) == [method |-> method, doc |-> doc, amount |-> n]
Calls ==
  [method : InvoiceMethods, doc : Invoices, amount : Nat]
    \cup [method : ReceiptMethods, doc : Receipts, amount : Nat]
    \cup [method : JournalMethods, doc : Documents, amount : Nat]
    \cup [method : {"updateBalance"}, doc : Receipts \cup {"wallet"}, amount : Nat]

Nothing == [i \in Invoices |-> 0]
Idle == todo = <<>>

\* Sum of the allocations on an invoice, whatever their receipt's status.
AllocatedTo(i) == Total([r \in Receipts |-> alloc[r][i]], Receipts)

\* What is left of a receipt that pays p.
Remaining(r, p) == amount[r] - Total(p, Invoices)

Init ==
  /\ istatus = [i \in Invoices |-> "absent"]
  /\ grandTotal = Nothing /\ outstanding = Nothing
  /\ rstatus = [r \in Receipts |-> "absent"]
  /\ amount = [r \in Receipts |-> 0] /\ unallocated = [r \in Receipts |-> 0]
  /\ isAdvance = [r \in Receipts |-> FALSE]
  /\ alloc = [r \in Receipts |-> Nothing]
  /\ balance = 0 /\ adjusted = 0
  /\ credited = [r \in Receipts |-> 0] /\ debited = [r \in Receipts |-> 0]
  /\ ledger = {}
  /\ vouchers = [d \in Documents |-> 0] /\ mirrors = [d \in Documents |-> 0]
  /\ linked = [d \in Documents |-> FALSE] /\ voided = [d \in Documents |-> FALSE]
  /\ todo = <<>> /\ faults = 0

-----------------------------------------------------------------------
(* Sales invoices                                                       *)

\* The calls that put a billed invoice on the books, and take it off.
BillCalls(i) == <<Call("postInvoiceDebit", i, 0), Call("createJournalEntry", i, 0)>>
VoidCalls(i) ==
  <<Call("reverseInvoicePosting", i, 0)>>
    \o (IF linked[i] THEN <<Call("reverseJournalEntry", i, 0)>> ELSE <<>>)

CreateInvoice(i, total, status) ==
  /\ Idle /\ istatus[i] = "absent"
  /\ istatus' = [istatus EXCEPT ![i] = status]
  /\ grandTotal' = [grandTotal EXCEPT ![i] = total]
  /\ outstanding' = [outstanding EXCEPT ![i] = total]
  /\ todo' = IF status = "posted" THEN BillCalls(i) ELSE <<>>
  /\ UNCHANGED <<receiptVars, bookVars, faults>>

DraftEditable(i) == istatus[i] = "draft" /\ AllocatedTo(i) = 0 /\ ~linked[i]

UpdateDraft(i, total) ==
  /\ Idle /\ DraftEditable(i)
  /\ grandTotal' = [grandTotal EXCEPT ![i] = total]
  /\ outstanding' = [outstanding EXCEPT ![i] = total]
  /\ UNCHANGED <<istatus, receiptVars, bookVars, todo, faults>>

DeleteDraft(i) ==
  /\ Idle /\ DraftEditable(i)
  /\ istatus' = [istatus EXCEPT ![i] = "deleted"]
  /\ grandTotal' = [grandTotal EXCEPT ![i] = 0]
  /\ outstanding' = [outstanding EXCEPT ![i] = 0]
  /\ UNCHANGED <<receiptVars, bookVars, todo, faults>>

\* The credit check before a draft is posted is taken to allow it.
PostDraft(i) ==
  /\ Idle /\ istatus[i] = "draft"
  /\ istatus' = [istatus EXCEPT ![i] = "posted"]
  /\ todo' = BillCalls(i)
  /\ UNCHANGED <<grandTotal, outstanding, receiptVars, bookVars, faults>>

\* Posting an invoice that is posted already repairs its books.
PostAgain(i) ==
  /\ Idle /\ istatus[i] \in {"posted", "partial_paid", "paid"}
  /\ todo' = (IF linked[i] THEN <<>> ELSE <<Call("createJournalEntry", i, 0)>>)
               \o <<Call("postInvoiceDebit", i, 0)>>
  /\ UNCHANGED <<invoiceVars, receiptVars, bookVars, faults>>

\* Mutant: the allocations of the invoice are not looked at.
CancelInvoiceUnchecked(i) ==
  /\ Idle /\ istatus[i] \in Live
  /\ istatus' = [istatus EXCEPT ![i] = "cancelled"]
  /\ outstanding' = [outstanding EXCEPT ![i] = 0]
  /\ todo' = VoidCalls(i)
  /\ UNCHANGED <<grandTotal, receiptVars, bookVars, faults>>

CancelInvoice(i) ==
  /\ Idle /\ istatus[i] \in Live
  /\ AllocatedTo(i) = 0
  /\ istatus' = [istatus EXCEPT ![i] = "cancelled"]
  /\ outstanding' = [outstanding EXCEPT ![i] = 0]
  /\ todo' = VoidCalls(i)
  /\ UNCHANGED <<grandTotal, receiptVars, bookVars, faults>>

\* A posted, unpaid invoice is cancelled and j takes its place.
RevisePostedUnpaid(i, j, total) ==
  /\ Idle /\ istatus[i] = "posted" /\ istatus[j] = "absent"
  /\ AllocatedTo(i) = 0
  /\ istatus' = [istatus EXCEPT ![i] = "cancelled", ![j] = "posted"]
  /\ grandTotal' = [grandTotal EXCEPT ![j] = total]
  /\ outstanding' = [outstanding EXCEPT ![i] = 0, ![j] = total]
  /\ todo' = VoidCalls(i) \o BillCalls(j)
  /\ UNCHANGED <<receiptVars, bookVars, faults>>

-----------------------------------------------------------------------
(* Payment receipts                                                     *)

\* The shares of n that the oldest of the selected invoices get, in the order
\* the query happened to return them.
FifoPlan(n, selected, by) ==
  FifoShares(n, outstanding,
             {i \in selected : istatus[i] \in Payable /\ outstanding[i] > 0}, by)

\* Manual allocations p fit a receipt of n: none exceeds its invoice.
FitsManually(p, n) ==
  /\ Total(p, Invoices) <= n
  /\ \A i \in Invoices : p[i] > 0 => istatus[i] # "deleted" /\ p[i] <= outstanding[i]

\* A draft receipt, its manual allocations and, on demand, its confirmation.
CreateReceipt(r, n, advance, p, confirm) ==
  /\ Idle /\ rstatus[r] = "absent"
  /\ FitsManually(p, n)
  /\ rstatus' = [rstatus EXCEPT ![r] = "draft"]
  /\ amount' = [amount EXCEPT ![r] = n]
  /\ isAdvance' = [isAdvance EXCEPT ![r] = advance]
  /\ alloc' = [alloc EXCEPT ![r] = p]
  /\ unallocated' = [unallocated EXCEPT ![r] = n - Total(p, Invoices)]
  /\ todo' = IF confirm THEN <<Call("confirm", r, 0)>> ELSE <<>>
  /\ UNCHANGED <<invoiceVars, bookVars, faults>>

\* Mutant: a confirmed receipt can still be allocated.
CreateAllocationAnytime(r, i, n) ==
  /\ Idle /\ rstatus[r] \in {"draft", "confirmed"}
  /\ n <= Remaining(r, alloc[r])
  /\ n <= outstanding[i]
  /\ alloc' = [alloc EXCEPT ![r][i] = @ + n]
  /\ unallocated' = [unallocated EXCEPT ![r] = Remaining(r, alloc[r]) - n]
  /\ UNCHANGED <<invoiceVars, rstatus, amount, isAdvance, bookVars, todo, faults>>

CreateAllocation(r, i, n) ==
  /\ Idle /\ rstatus[r] = "draft"
  /\ n <= Remaining(r, alloc[r])
  /\ n <= outstanding[i]
  /\ alloc' = [alloc EXCEPT ![r][i] = @ + n]
  /\ unallocated' = [unallocated EXCEPT ![r] = Remaining(r, alloc[r]) - n]
  /\ UNCHANGED <<invoiceVars, rstatus, amount, isAdvance, bookVars, todo, faults>>

\* Mutant: the unallocated amount is left as it was.
ReassignRowsOnly(r, p, advance) ==
  /\ alloc' = [alloc EXCEPT ![r] = p]
  /\ isAdvance' = [isAdvance EXCEPT ![r] = Remaining(r, p) > 0 /\ advance]
  /\ UNCHANGED <<invoiceVars, rstatus, amount, unallocated, bookVars, todo, faults>>

\* Replaces a draft's allocations.
Reassign(r, p, advance) ==
  /\ alloc' = [alloc EXCEPT ![r] = p]
  /\ unallocated' = [unallocated EXCEPT ![r] = Remaining(r, p)]
  /\ isAdvance' = [isAdvance EXCEPT ![r] = Remaining(r, p) > 0 /\ advance]
  /\ UNCHANGED <<invoiceVars, rstatus, amount, bookVars, todo, faults>>

AutoAllocateFifo(r, selected, advance, by) ==
  /\ Idle /\ rstatus[r] = "draft"
  /\ Reassign(r, FifoPlan(amount[r], selected, by), advance)

\* Each row is checked against its invoice alone, and an invoice may have
\* several rows: p, their sum, is only known to be 0 where nothing is owed.
Reallocate(r, p, advance) ==
  /\ Idle /\ rstatus[r] = "draft"
  /\ Total(p, Invoices) <= amount[r]
  /\ \A i \in Invoices : p[i] > 0 => outstanding[i] > 0
  /\ Reassign(r, p, advance)

\* What confirming a draft pays: its allocations if it has any, nothing if
\* it is an advance, the oldest invoices otherwise.
Payment(r, by) ==
  IF Total(alloc[r], Invoices) > 0 THEN alloc[r]
  ELSE IF isAdvance[r] THEN Nothing ELSE FifoPlan(amount[r], Invoices, by)

\* The rows a confirmation writes.
PayInvoices(r, p) ==
  /\ outstanding' = [i \in Invoices |-> outstanding[i] - p[i]]
  /\ istatus' = [i \in Invoices |->
       IF p[i] = 0 THEN istatus[i]
       ELSE IF outstanding[i] - p[i] <= 0 THEN "paid" ELSE "partial_paid"]
  /\ alloc' = [alloc EXCEPT ![r] = p]
  /\ rstatus' = [rstatus EXCEPT ![r] = "confirmed"]
  /\ unallocated' = [unallocated EXCEPT ![r] = Remaining(r, p)]
  /\ isAdvance' = [isAdvance EXCEPT ![r] = Remaining(r, p) > 0 \/ @]
  /\ UNCHANGED <<grandTotal, amount>>

\* Mutant: the ledger is written before the wallet.
ConfirmCallsLedgerFirst(r, remaining) ==
  <<Call("postReceiptCredit", r, 0)>>
    \o (IF remaining > 0 THEN <<Call("creditFromReceipt", r, remaining)>> ELSE <<>>)
    \o <<Call("createJournalEntry", r, 0)>>

\* Mutant: an advance is not credited to the wallet.
ConfirmCallsNoWallet(r, remaining) ==
  <<Call("postReceiptCredit", r, 0), Call("createJournalEntry", r, 0)>>

\* Mutant: a receipt that leaves an advance is not posted to the ledger.
ConfirmCallsAdvanceOnly(r, remaining) ==
  (IF remaining > 0 THEN <<Call("creditFromReceipt", r, remaining)>>
   ELSE <<Call("postReceiptCredit", r, 0)>>)
    \o <<Call("createJournalEntry", r, 0)>>

\* The calls that put a confirmed receipt on the books.
ConfirmCalls(r, remaining) ==
  (IF remaining > 0 THEN <<Call("creditFromReceipt", r, remaining)>> ELSE <<>>)
    \o <<Call("postReceiptCredit", r, 0), Call("createJournalEntry", r, 0)>>

\* confirm is a request of its own or the last call of createReceipt.
Confirming(r) == Idle \/ todo = <<Call("confirm", r, 0)>>

ConfirmDraft(r, by) ==
  /\ Confirming(r) /\ rstatus[r] = "draft"
  /\ \A i \in Invoices : Payment(r, by)[i] <= outstanding[i]
  /\ PayInvoices(r, Payment(r, by))
  /\ todo' = ConfirmCalls(r, Remaining(r, Payment(r, by)))
  /\ UNCHANGED <<bookVars, faults>>

\* An allocation exceeds what its invoice still owes: the receipt stays a draft.
ConfirmRefused(r) ==
  /\ todo = <<Call("confirm", r, 0)>>
  /\ \E i \in Invoices : alloc[r][i] > outstanding[i]
  /\ todo' = <<>>
  /\ UNCHANGED <<invoiceVars, receiptVars, bookVars, faults>>

\* Confirming again posts the journal entry if it is missing, nothing else.
ConfirmAgain(r) ==
  /\ Idle /\ rstatus[r] = "confirmed" /\ ~linked[r]
  /\ todo' = <<Call("createJournalEntry", r, 0)>>
  /\ UNCHANGED <<invoiceVars, receiptVars, bookVars, faults>>

CancelDraft(r) ==
  /\ Idle /\ rstatus[r] = "draft"
  /\ alloc' = [alloc EXCEPT ![r] = Nothing]
  /\ rstatus' = [rstatus EXCEPT ![r] = "cancelled"]
  /\ UNCHANGED <<invoiceVars, amount, unallocated, isAdvance, bookVars, todo, faults>>

\* Mutant: the invoices are not reopened.
ReopenInvoicesNot(r) ==
  /\ alloc' = [alloc EXCEPT ![r] = Nothing]
  /\ rstatus' = [rstatus EXCEPT ![r] = "cancelled"]
  /\ UNCHANGED <<outstanding, istatus, grandTotal, amount, unallocated, isAdvance>>

\* The rows the cancellation of a confirmed receipt writes.
ReopenInvoices(r) ==
  /\ outstanding' = [i \in Invoices |-> outstanding[i] + alloc[r][i]]
  /\ istatus' = [i \in Invoices |->
       IF alloc[r][i] = 0 THEN istatus[i]
       ELSE IF outstanding[i] + alloc[r][i] >= grandTotal[i] THEN "posted" ELSE "partial_paid"]
  /\ alloc' = [alloc EXCEPT ![r] = Nothing]
  /\ rstatus' = [rstatus EXCEPT ![r] = "cancelled"]
  /\ UNCHANGED <<grandTotal, amount, unallocated, isAdvance>>

\* The receipt as read before the transaction decides what is reversed.
CancelConfirmed(r) ==
  /\ Idle /\ rstatus[r] = "confirmed"
  /\ ReopenInvoices(r)
  /\ todo' = (IF unallocated[r] > 0
              THEN <<Call("reverseReceiptAdvance", r, unallocated[r])>> ELSE <<>>)
               \o <<Call("reverseReceiptPosting", r, 0)>>
               \o (IF linked[r] THEN <<Call("reverseJournalEntry", r, 0)>> ELSE <<>>)
  /\ UNCHANGED <<bookVars, faults>>

-----------------------------------------------------------------------
(* The advance wallet, the retailer ledger and the journal              *)

\* A manual debit or credit of the wallet; its balance is written next.
AdjustWallet(n, m) ==
  /\ Idle
  /\ balance + n - m \in 0..MaxBalance
  /\ adjusted' = adjusted + n - m
  /\ todo' = <<Call("updateBalance", "wallet", balance + n - m)>>
  /\ UNCHANGED <<invoiceVars, receiptVars, balance, credited, debited, ledger,
                 journalVars, faults>>

Due(method) == todo # <<>> /\ Head(todo).method = method
doc == Head(todo).doc
value == Head(todo).amount
Rest == Tail(todo)

\* Mutant: the new balance forgets the old one.
CreditFromReceiptAfresh ==
  /\ Due("creditFromReceipt")
  /\ \/ credited[doc] > 0 /\ todo' = Rest /\ UNCHANGED credited
     \/ /\ credited[doc] = 0
        /\ credited' = [credited EXCEPT ![doc] = value]
        /\ todo' = <<Call("updateBalance", doc, value)>> \o Rest
  /\ UNCHANGED <<invoiceVars, receiptVars, balance, debited, adjusted, ledger,
                 journalVars, faults>>

\* One advance_credit per receipt; the balance follows in a second write.
CreditFromReceipt ==
  /\ Due("creditFromReceipt")
  /\ \/ credited[doc] > 0 /\ todo' = Rest /\ UNCHANGED credited
     \/ /\ credited[doc] = 0
        /\ credited' = [credited EXCEPT ![doc] = value]
        /\ todo' = <<Call("updateBalance", doc, balance + value)>> \o Rest
  /\ UNCHANGED <<invoiceVars, receiptVars, balance, debited, adjusted, ledger,
                 journalVars, faults>>

ReverseReceiptAdvance ==
  /\ Due("reverseReceiptAdvance")
  /\ \/ debited[doc] > 0 /\ todo' = Rest /\ UNCHANGED debited
     \/ /\ debited[doc] = 0 /\ balance >= value
        /\ debited' = [debited EXCEPT ![doc] = value]
        /\ todo' = <<Call("updateBalance", doc, balance - value)>> \o Rest
  /\ UNCHANGED <<invoiceVars, receiptVars, balance, credited, adjusted, ledger,
                 journalVars, faults>>

\* The advance was spent meanwhile: the request ends with an error.
ReverseAdvanceRefused ==
  /\ Due("reverseReceiptAdvance")
  /\ debited[doc] = 0 /\ balance < value
  /\ todo' = <<>>
  /\ UNCHANGED <<invoiceVars, receiptVars, bookVars, faults>>

UpdateBalance ==
  /\ Due("updateBalance")
  /\ balance' = value
  /\ todo' = Rest
  /\ UNCHANGED <<invoiceVars, receiptVars, credited, debited, adjusted, ledger,
                 journalVars, faults>>

\* An entry is appended unless one of its kind exists for the document.
AppendEntry(method, kind) ==
  /\ Due(method)
  /\ ledger' = ledger \cup {<<kind, doc>>}
  /\ todo' = Rest
  /\ UNCHANGED <<invoiceVars, receiptVars, walletVars, journalVars, faults>>

PostInvoiceDebit == AppendEntry("postInvoiceDebit", "invoice")
ReverseInvoicePosting == AppendEntry("reverseInvoicePosting", "invoice_cancel")
PostReceiptCredit == AppendEntry("postReceiptCredit", "receipt")
ReverseReceiptPosting == AppendEntry("reverseReceiptPosting", "receipt_cancel")

\* postSalesInvoice and postPaymentReceipt: the entry is committed first and
\* the document's journalEntryId written after.
CreateJournalEntry ==
  /\ Due("createJournalEntry")
  /\ \/ linked[doc] /\ todo' = Rest /\ UNCHANGED vouchers
     \/ /\ ~linked[doc]
        /\ vouchers' = [vouchers EXCEPT ![doc] = @ + 1]
        /\ todo' = <<Call("linkJournalEntry", doc, 0)>> \o Rest
  /\ UNCHANGED <<invoiceVars, receiptVars, walletVars, ledger, linked, mirrors, voided, faults>>

LinkJournalEntry ==
  /\ Due("linkJournalEntry")
  /\ linked' = [linked EXCEPT ![doc] = TRUE]
  /\ todo' = Rest
  /\ UNCHANGED <<invoiceVars, receiptVars, walletVars, ledger, vouchers, mirrors, voided, faults>>

\* A mirrored entry is committed, then the original marked; an entry already
\* marked is refused.
ReverseJournalEntry ==
  /\ Due("reverseJournalEntry")
  /\ ~voided[doc]
  /\ mirrors' = [mirrors EXCEPT ![doc] = @ + 1]
  /\ todo' = <<Call("markReversed", doc, 0)>> \o Rest
  /\ UNCHANGED <<invoiceVars, receiptVars, walletVars, ledger, vouchers, linked, voided, faults>>

MarkReversed ==
  /\ Due("markReversed")
  /\ voided' = [voided EXCEPT ![doc] = TRUE]
  /\ todo' = Rest
  /\ UNCHANGED <<invoiceVars, receiptVars, walletVars, ledger, vouchers, linked, mirrors, faults>>

\* A call throws or the process dies: what is left is never done.
Fault ==
  /\ ~Idle /\ faults < MaxFaults
  /\ todo' = <<>>
  /\ faults' = faults + 1
  /\ UNCHANGED <<invoiceVars, receiptVars, bookVars>>

-----------------------------------------------------------------------
InvoiceRequest ==
  \E i \in Invoices :
    \/ \E total \in Totals :
         \/ \E status \in {"draft", "posted"} : CreateInvoice(i, total, status)
         \/ UpdateDraft(i, total)
         \/ \E j \in Invoices : RevisePostedUnpaid(i, j, total)
    \/ DeleteDraft(i) \/ PostDraft(i) \/ PostAgain(i) \/ CancelInvoice(i)

\* Allocations a caller may ask for: parts made of the amounts, or nothing.
Parts == [Invoices -> Amounts \cup {0}]

ReceiptRequest ==
  \E r \in Receipts :
    \/ \E n \in Amounts, advance, confirm \in BOOLEAN, p \in Parts :
         CreateReceipt(r, n, advance, p, confirm)
    \/ \E i \in Invoices, n \in Amounts : CreateAllocation(r, i, n)
    \/ \E selected \in SUBSET Invoices \ {{}}, advance \in BOOLEAN, by \in SortedBy(Day) :
         AutoAllocateFifo(r, selected, advance, by)
    \/ \E p \in Parts, advance \in BOOLEAN : Reallocate(r, p, advance)
    \/ \E by \in SortedBy(Day) : ConfirmDraft(r, by)
    \/ ConfirmAgain(r)
    \/ CancelDraft(r) \/ CancelConfirmed(r)

WalletRequest == \E n, m \in Amounts \cup {0} : n + m > 0 /\ AdjustWallet(n, m)

\* The calls a request makes after its transaction.
Bookkeeping ==
  \/ \E r \in Receipts :
       /\ todo # <<>>
       /\ ConfirmRefused(r) \/ \E by \in SortedBy(Day) : ConfirmDraft(r, by)
  \/ CreditFromReceipt \/ ReverseReceiptAdvance \/ ReverseAdvanceRefused \/ UpdateBalance
  \/ PostInvoiceDebit \/ ReverseInvoicePosting \/ PostReceiptCredit \/ ReverseReceiptPosting
  \/ CreateJournalEntry \/ LinkJournalEntry \/ ReverseJournalEntry \/ MarkReversed

Next == InvoiceRequest \/ ReceiptRequest \/ WalletRequest \/ Bookkeeping \/ Fault

\* The process runs a request's calls to its end; nobody has to call again.
Spec == Init /\ [][Next]_vars /\ WF_vars(Bookkeeping)
-----------------------------------------------------------------------
(* Properties                                                           *)

InvoiceTypeOK ==
  /\ istatus \in [Invoices -> InvoiceStatus]
  /\ grandTotal \in [Invoices -> Nat] /\ outstanding \in [Invoices -> Nat]

ReceiptTypeOK ==
  /\ rstatus \in [Receipts -> ReceiptStatus]
  /\ amount \in [Receipts -> Nat] /\ unallocated \in [Receipts -> Int]
  /\ isAdvance \in [Receipts -> BOOLEAN]
  /\ alloc \in [Receipts -> [Invoices -> Nat]]

BookTypeOK ==
  /\ balance \in Nat /\ adjusted \in Int
  /\ credited \in [Receipts -> Nat] /\ debited \in [Receipts -> Nat]
  /\ ledger \subseteq EntryKinds \X Documents
  /\ vouchers \in [Documents -> Nat] /\ mirrors \in [Documents -> Nat]
  /\ linked \in [Documents -> BOOLEAN] /\ voided \in [Documents -> BOOLEAN]

\* Rows, books and calls are of their kinds; no invoice owes less than nothing.
TypeOK ==
  /\ InvoiceTypeOK /\ ReceiptTypeOK /\ BookTypeOK
  /\ todo \in Seq(Calls) /\ faults \in 0..MaxFaults

\* What the confirmed receipts pay of an invoice.
PaidBy(r, i) == IF rstatus[r] = "confirmed" THEN alloc[r][i] ELSE 0
Paid(i) == Total([r \in Receipts |-> PaidBy(r, i)], Receipts)

\* An invoice owes its grand total less what confirmed receipts allocate to
\* it: confirm and cancel, which add to and subtract from outstandingAmount
\* instead of recomputing it, never make it drift.
OutstandingIsUnpaid ==
  \A i \in Invoices : istatus[i] \in Live => outstanding[i] + Paid(i) = grandTotal[i]

\* The status an invoice shows is the one its outstanding amount calls for,
\* although every writer derives it on its own.
StatusTracksOutstanding ==
  \A i \in Invoices :
    /\ istatus[i] \in {"draft", "posted"} => outstanding[i] = grandTotal[i]
    /\ istatus[i] = "partial_paid" => outstanding[i] \in 1..(grandTotal[i] - 1)
    /\ istatus[i] \notin {"draft", "posted", "partial_paid"} => outstanding[i] = 0

\* A draft or confirmed receipt is split into its allocations and its
\* unallocatedAmount, which each editing endpoint writes separately, and is
\* never allocated beyond its amount.
ReceiptFullySplit ==
  \A r \in Receipts : rstatus[r] \in {"draft", "confirmed"} =>
    /\ unallocated[r] + Total(alloc[r], Invoices) = amount[r]
    /\ unallocated[r] >= 0

\* A voided document holds no money: a cancelled receipt has no allocation,
\* and no receipt, draft or confirmed, points at a cancelled invoice.
VoidedHoldsNothing ==
  /\ \A r \in Receipts : rstatus[r] = "cancelled" => alloc[r] = Nothing
  /\ \A i \in Invoices : istatus[i] \in {"cancelled", "deleted"} => AllocatedTo(i) = 0

\* A credit in the retailer's ledger follows the wallet credit for the part
\* that paid no invoice, even when requests stop half way and are repeated.
LedgerFollowsWallet ==
  \A r \in Receipts :
    <<"receipt", r>> \in ledger => credited[r] = unallocated[r]

\* With no request half done, a confirmed receipt is in the ledger, in the
\* journal once, and in the wallet for its unallocated part.
ConfirmedIsBooked ==
  \A r \in Receipts : Idle /\ rstatus[r] = "confirmed" =>
    /\ <<"receipt", r>> \in ledger
    /\ linked[r] /\ vouchers[r] = 1
    /\ credited[r] = unallocated[r]

\* With no request half done, the wallet's balance is the sum of the
\* transactions that were recorded for it.
WalletBalances ==
  Idle => balance = Total(credited, Receipts) - Total(debited, Receipts) + adjusted

\* A confirmed receipt reaches the ledger and the journal in the end, by the
\* calls of the request that confirmed it, unless some request stops half way.
ConfirmedGetsBooked ==
  \A r \in Receipts :
    rstatus[r] = "confirmed" ~> \/ <<"receipt", r>> \in ledger /\ linked[r]
                                \/ faults > 0

\* The account the rows stand for: bills of the live invoices, settlements of
\* the confirmed receipts.
Billed == [i \in Invoices |-> IF istatus[i] \in Live THEN grandTotal[i] ELSE 0]
Applied == [r \in Receipts |-> IF rstatus[r] = "confirmed" THEN alloc[r] ELSE Nothing]
Account == INSTANCE Receivables WITH billed <- Billed, applied <- Applied

\* The rows implement the account: every request is a change of bills nothing
\* is settled on, the settlement or the undoing of one receipt, or nothing.
ImplementsAccount == Account!Spec
=======================================================================
