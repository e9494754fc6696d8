----------------------- MODULE SettlementProofs -----------------------
(* Theorems about Settlement for any finite sets of invoices and         *)
(* receipts, any amounts and any number of faults: the types and rows,   *)
(* the refinement of the account, how receipts are split, and what the   *)
(* wallet, the ledger and the journal say of them.                       *)
EXTENDS Settlement, MoneyTheorems, SequenceTheorems

-----------------------------------------------------------------------
(* Typing                                                               *)

\* What FIFO plans for an invoice is an amount.
LEMMA FifoPlanTyped ==
  ASSUME InvoiceTypeOK, NEW n \in Nat, NEW selected \in SUBSET Invoices, NEW by
  PROVE  FifoPlan(n, selected, by) \in [Invoices -> Nat]
<1> DEFINE open == {i \in selected : istatus[i] \in Payable /\ outstanding[i] > 0}
<1>1. open \subseteq Invoices /\ DOMAIN outstanding = Invoices
  BY DEF InvoiceTypeOK
<1>2. \A i \in Invoices : outstanding[i] \in Nat
  BY DEF InvoiceTypeOK
<1> QED
  BY <1>1, <1>2, SettlementAssumption, FifoTyped DEF FifoPlan

\* The total of a plan is an amount, and what it leaves of a receipt a number.
LEMMA PlanTotal ==
  ASSUME ReceiptTypeOK, NEW r \in Receipts, NEW p \in [Invoices -> Nat]
  PROVE  Total(p, Invoices) \in Nat /\ Remaining(r, p) \in Int
<1>1. Total(p, Invoices) \in Nat
  BY SettlementAssumption, TotalNat
<1> QED
  BY <1>1 DEF Remaining, ReceiptTypeOK

LEMMA PartsTyped == Amounts \subseteq Nat /\ Parts \subseteq [Invoices -> Nat]
<1>1. Amounts \cup {0} \subseteq Nat
  BY SettlementAssumption
<1>2. \A p \in Parts : p \in [Invoices -> Nat]
  BY <1>1 DEF Parts
<1> QED
  BY <1>1, <1>2

LEMMA NothingTyped == Nothing \in [Invoices -> Nat]
BY DEF Nothing

LEMMA PaymentTyped ==
  ASSUME InvoiceTypeOK, ReceiptTypeOK, NEW r \in Receipts, NEW by
  PROVE  Payment(r, by) \in [Invoices -> Nat]
<1>1. FifoPlan(amount[r], Invoices, by) \in [Invoices -> Nat]
  BY FifoPlanTyped DEF ReceiptTypeOK
<1> QED
  BY <1>1, NothingTyped DEF Payment, ReceiptTypeOK

\* The calls each action queues are calls.
LEMMA CallTyped ==
  /\ \A n \in Nat, i \in Invoices, m \in InvoiceMethods : Call(m, i, n) \in Calls
  /\ \A n \in Nat, r \in Receipts, m \in ReceiptMethods : Call(m, r, n) \in Calls
  /\ \A n \in Nat, d \in Documents, m \in JournalMethods : Call(m, d, n) \in Calls
  /\ \A n \in Nat, d \in Receipts \cup {"wallet"} : Call("updateBalance", d, n) \in Calls
BY DEF Call, Calls

\* Sequences of calls are built from one call at a time.
LEMMA QueueTyped ==
  /\ <<>> \in Seq(Calls)
  /\ \A c \in Calls : <<c>> \in Seq(Calls)
  /\ \A s, t \in Seq(Calls) : s \o t \in Seq(Calls)
<1>1. \A s, t \in Seq(Calls) : s \o t \in Seq(Calls)
  BY ConcatProperties
<1> QED
  BY <1>1

LEMMA BillCallsTyped ==
  ASSUME NEW i \in Invoices
  PROVE  BillCalls(i) \in Seq(Calls)
<1>1. Call("postInvoiceDebit", i, 0) \in Calls /\ Call("createJournalEntry", i, 0) \in Calls
  BY CallTyped DEF InvoiceMethods, JournalMethods, Documents
<1> QED
  BY <1>1 DEF BillCalls

LEMMA VoidCallsTyped ==
  ASSUME NEW i \in Invoices
  PROVE  VoidCalls(i) \in Seq(Calls)
<1>1. Call("reverseInvoicePosting", i, 0) \in Calls /\ Call("reverseJournalEntry", i, 0) \in Calls
  BY CallTyped DEF InvoiceMethods, JournalMethods, Documents
<1> QED
  BY <1>1, QueueTyped DEF VoidCalls

LEMMA ConfirmCallsTyped ==
  ASSUME NEW r \in Receipts, NEW n \in Int
  PROVE  ConfirmCalls(r, n) \in Seq(Calls)
<1>1. Call("postReceiptCredit", r, 0) \in Calls /\ Call("createJournalEntry", r, 0) \in Calls
  BY CallTyped DEF ReceiptMethods, JournalMethods, Documents
<1>2. n > 0 => Call("creditFromReceipt", r, n) \in Calls
  BY CallTyped DEF ReceiptMethods
<1>3. <<Call("postReceiptCredit", r, 0), Call("createJournalEntry", r, 0)>> \in Seq(Calls)
  BY <1>1
<1> QED
  BY <1>2, <1>3, QueueTyped DEF ConfirmCalls

\* The call that is due is typed, and so are those after it.
LEMMA DueTyped ==
  ASSUME todo \in Seq(Calls), todo # <<>>
  PROVE  Head(todo) \in Calls /\ Rest \in Seq(Calls) /\ value \in Nat
<1>1. Head(todo) \in Calls /\ Rest \in Seq(Calls)
  BY HeadTailProperties DEF Rest
<1> QED
  BY <1>1 DEF Calls, value

LEMMA DueDoc ==
  ASSUME NEW method, todo \in Seq(Calls), Due(method)
  PROVE  /\ method \in ReceiptMethods => doc \in Receipts
         /\ method \in InvoiceMethods => doc \in Invoices
         /\ method \in JournalMethods => doc \in Documents
<1>1. Head(todo) \in Calls
  BY DueTyped DEF Due
<1> QED
  BY <1>1 DEF Due, Calls, doc, ReceiptMethods, InvoiceMethods, JournalMethods
-----------------------------------------------------------------------
(* Type correctness: one lemma per group of actions.                     *)

LEMMA InvoiceRequestTypes ==
  ASSUME TypeOK, InvoiceRequest
  PROVE  TypeOK'
<1> USE DEF TypeOK, InvoiceTypeOK, InvoiceStatus, Live
<1>0. UNCHANGED <<receiptVars, bookVars, faults>> => (ReceiptTypeOK /\ BookTypeOK)'
  BY DEF receiptVars, bookVars, walletVars, journalVars, ReceiptTypeOK, BookTypeOK
<1>t. Totals \subseteq Nat
  BY SettlementAssumption
<1>1. ASSUME NEW i \in Invoices, NEW total \in Totals, NEW status \in {"draft", "posted"},
             CreateInvoice(i, total, status)
      PROVE  TypeOK'
  BY <1>0, <1>1, <1>t, BillCallsTyped, QueueTyped DEF CreateInvoice
<1>2. ASSUME NEW i \in Invoices, NEW total \in Totals, UpdateDraft(i, total)
      PROVE  TypeOK'
  BY <1>0, <1>2, <1>t DEF UpdateDraft
<1>3. ASSUME NEW i \in Invoices, NEW j \in Invoices, NEW total \in Totals,
             RevisePostedUnpaid(i, j, total)
      PROVE  TypeOK'
  BY <1>0, <1>3, <1>t, BillCallsTyped, VoidCallsTyped, QueueTyped DEF RevisePostedUnpaid
<1>4. ASSUME NEW i \in Invoices, DeleteDraft(i) PROVE TypeOK'
  BY <1>0, <1>4 DEF DeleteDraft
<1>5. ASSUME NEW i \in Invoices, PostDraft(i) PROVE TypeOK'
  BY <1>0, <1>5, BillCallsTyped DEF PostDraft
<1>6. ASSUME NEW i \in Invoices, PostAgain(i) PROVE TypeOK'
  <2>1. Call("postInvoiceDebit", i, 0) \in Calls /\ Call("createJournalEntry", i, 0) \in Calls
    BY CallTyped DEF InvoiceMethods, JournalMethods, Documents
  <2> QED
    BY <1>0, <1>6, <2>1, QueueTyped DEF PostAgain, invoiceVars
<1>7. ASSUME NEW i \in Invoices, CancelInvoice(i) PROVE TypeOK'
  BY <1>0, <1>7, VoidCallsTyped DEF CancelInvoice
<1> QED
  BY <1>1, <1>2, <1>3, <1>4, <1>5, <1>6, <1>7 DEF InvoiceRequest

\* What confirming and cancelling write, the invoices' rows included.
LEMMA PayInvoicesTypes ==
  ASSUME InvoiceTypeOK, ReceiptTypeOK, NEW r \in Receipts, NEW p \in [Invoices -> Nat],
         \A i \in Invoices : p[i] <= outstanding[i], PayInvoices(r, p)
  PROVE  (InvoiceTypeOK /\ ReceiptTypeOK)'
<1>1. \A i \in Invoices : outstanding[i] - p[i] \in Nat
  BY DEF InvoiceTypeOK
<1>2. InvoiceTypeOK'
  BY <1>1 DEF InvoiceTypeOK, PayInvoices, InvoiceStatus
<1>3. Remaining(r, p) \in Int
  BY PlanTotal
<1>4. ReceiptTypeOK'
  BY <1>3 DEF ReceiptTypeOK, PayInvoices, ReceiptStatus
<1> QED
  BY <1>2, <1>4

LEMMA ReopenInvoicesTypes ==
  ASSUME InvoiceTypeOK, ReceiptTypeOK, NEW r \in Receipts, ReopenInvoices(r)
  PROVE  (InvoiceTypeOK /\ ReceiptTypeOK)'
<1>1. \A i \in Invoices : outstanding[i] + alloc[r][i] \in Nat
  BY DEF InvoiceTypeOK, ReceiptTypeOK
<1>2. InvoiceTypeOK'
  BY <1>1 DEF InvoiceTypeOK, ReopenInvoices, InvoiceStatus
<1>3. ReceiptTypeOK'
  BY NothingTyped DEF ReceiptTypeOK, ReopenInvoices, ReceiptStatus
<1> QED
  BY <1>2, <1>3

LEMMA ConfirmDraftTypes ==
  ASSUME TypeOK, NEW r \in Receipts, NEW by \in SortedBy(Day), ConfirmDraft(r, by)
  PROVE  TypeOK'
<1>1. Payment(r, by) \in [Invoices -> Nat]
  BY PaymentTyped DEF TypeOK
<1>2. (InvoiceTypeOK /\ ReceiptTypeOK)'
  BY <1>1, PayInvoicesTypes DEF TypeOK, ConfirmDraft
<1>3. ConfirmCalls(r, Remaining(r, Payment(r, by))) \in Seq(Calls)
  BY <1>1, PlanTotal, ConfirmCallsTyped DEF TypeOK
<1>4. BookTypeOK'
  BY DEF ConfirmDraft, bookVars, walletVars, journalVars, BookTypeOK, TypeOK
<1> QED
  BY <1>2, <1>3, <1>4 DEF TypeOK, ConfirmDraft

LEMMA ReassignTypes ==
  ASSUME TypeOK, NEW r \in Receipts, NEW p \in [Invoices -> Nat], NEW advance \in BOOLEAN,
         Reassign(r, p, advance)
  PROVE  TypeOK'
<1>1. Remaining(r, p) \in Int
  BY PlanTotal DEF TypeOK
<1>2. ReceiptTypeOK'
  BY <1>1 DEF TypeOK, ReceiptTypeOK, Reassign
<1>3. BookTypeOK'
  BY DEF Reassign, bookVars, walletVars, journalVars, BookTypeOK, TypeOK
<1> QED
  BY <1>2, <1>3 DEF TypeOK, InvoiceTypeOK, Reassign, invoiceVars

LEMMA ReceiptRequestTypes ==
  ASSUME TypeOK, ReceiptRequest
  PROVE  TypeOK'
<1> USE DEF TypeOK
<1>0. /\ UNCHANGED invoiceVars => InvoiceTypeOK'
      /\ UNCHANGED bookVars => BookTypeOK'
  BY DEF invoiceVars, bookVars, walletVars, journalVars, InvoiceTypeOK, BookTypeOK
<1>1. ASSUME NEW r \in Receipts, NEW n \in Amounts, NEW advance \in BOOLEAN,
             NEW confirm \in BOOLEAN, NEW p \in Parts, CreateReceipt(r, n, advance, p, confirm)
      PROVE  TypeOK'
  <2>1. n \in Nat /\ p \in [Invoices -> Nat] /\ n - Total(p, Invoices) \in Int
    BY PartsTyped, PlanTotal
  <2>2. ReceiptTypeOK'
    BY <1>1, <2>1 DEF CreateReceipt, ReceiptTypeOK, ReceiptStatus
  <2>3. Call("confirm", r, 0) \in Calls
    BY CallTyped DEF ReceiptMethods
  <2> QED
    BY <1>0, <1>1, <2>2, <2>3, QueueTyped DEF CreateReceipt
<1>2. ASSUME NEW r \in Receipts, NEW i \in Invoices, NEW n \in Amounts,
             CreateAllocation(r, i, n)
      PROVE  TypeOK'
  <2>1. n \in Nat /\ Remaining(r, alloc[r]) \in Int
    BY PartsTyped, PlanTotal DEF ReceiptTypeOK
  <2>2. ReceiptTypeOK'
    BY <1>2, <2>1 DEF CreateAllocation, ReceiptTypeOK
  <2> QED
    BY <1>0, <1>2, <2>2 DEF CreateAllocation
<1>3. ASSUME NEW r \in Receipts, NEW selected \in SUBSET Invoices, NEW advance \in BOOLEAN,
             NEW by \in SortedBy(Day), AutoAllocateFifo(r, selected, advance, by)
      PROVE  TypeOK'
  <2>1. FifoPlan(amount[r], selected, by) \in [Invoices -> Nat]
    BY FifoPlanTyped DEF ReceiptTypeOK
  <2> QED
    BY <1>3, <2>1, ReassignTypes DEF AutoAllocateFifo
<1>4. ASSUME NEW r \in Receipts, NEW p \in Parts, NEW advance \in BOOLEAN,
             Reallocate(r, p, advance)
      PROVE  TypeOK'
  BY <1>4, PartsTyped, ReassignTypes DEF Reallocate
<1>5. ASSUME NEW r \in Receipts, NEW by \in SortedBy(Day), ConfirmDraft(r, by) PROVE TypeOK'
  BY <1>5, ConfirmDraftTypes
<1>6. ASSUME NEW r \in Receipts, ConfirmAgain(r) PROVE TypeOK'
  <2>1. Call("createJournalEntry", r, 0) \in Calls
    BY CallTyped DEF JournalMethods, Documents
  <2> QED
    BY <1>0, <1>6, <2>1, QueueTyped DEF ConfirmAgain, receiptVars, ReceiptTypeOK
<1>7. ASSUME NEW r \in Receipts, CancelDraft(r) PROVE TypeOK'
  <2>1. ReceiptTypeOK'
    BY <1>7, NothingTyped DEF CancelDraft, ReceiptTypeOK, ReceiptStatus
  <2> QED
    BY <1>0, <1>7, <2>1 DEF CancelDraft
<1>8. ASSUME NEW r \in Receipts, CancelConfirmed(r) PROVE TypeOK'
  <2>1. (InvoiceTypeOK /\ ReceiptTypeOK)'
    BY <1>8, ReopenInvoicesTypes DEF CancelConfirmed
  <2>2. /\ unallocated[r] > 0 => Call("reverseReceiptAdvance", r, unallocated[r]) \in Calls
        /\ Call("reverseReceiptPosting", r, 0) \in Calls
        /\ Call("reverseJournalEntry", r, 0) \in Calls
    BY CallTyped DEF ReceiptMethods, JournalMethods, Documents, ReceiptTypeOK
  <2>3. todo' \in Seq(Calls)
    BY <1>8, <2>2, QueueTyped DEF CancelConfirmed
  <2> QED
    BY <1>0, <1>8, <2>1, <2>3 DEF CancelConfirmed
<1> QED
  BY <1>1, <1>2, <1>3, <1>4, <1>5, <1>6, <1>7, <1>8 DEF ReceiptRequest

LEMMA BookkeepingTypes ==
  ASSUME TypeOK, Bookkeeping
  PROVE  TypeOK'
<1> USE DEF TypeOK
<1>0. UNCHANGED <<invoiceVars, receiptVars>> => (InvoiceTypeOK /\ ReceiptTypeOK)'
  BY DEF invoiceVars, receiptVars, InvoiceTypeOK, ReceiptTypeOK
<1>u. \A d \in Receipts, n \in Nat : <<Call("updateBalance", d, n)>> \in Seq(Calls)
  BY CallTyped, QueueTyped
<1>1. ASSUME NEW r \in Receipts, NEW by \in SortedBy(Day), ConfirmDraft(r, by) PROVE TypeOK'
  BY <1>1, ConfirmDraftTypes
<1>2. ASSUME NEW r \in Receipts, ConfirmRefused(r) PROVE TypeOK'
  BY <1>0, <1>2, QueueTyped DEF ConfirmRefused, bookVars, walletVars, journalVars, BookTypeOK
<1>3. ASSUME CreditFromReceipt PROVE TypeOK'
  <2>1. doc \in Receipts /\ value \in Nat /\ Rest \in Seq(Calls) /\ balance \in Nat
    BY <1>3, DueDoc, DueTyped DEF CreditFromReceipt, Due, ReceiptMethods, BookTypeOK
  <2>2. <<Call("updateBalance", doc, balance + value)>> \o Rest \in Seq(Calls)
    BY <1>u, <2>1, QueueTyped
  <2> QED
    BY <1>0, <1>3, <2>1, <2>2 DEF CreditFromReceipt, BookTypeOK, journalVars
<1>4. ASSUME ReverseReceiptAdvance PROVE TypeOK'
  <2>1. doc \in Receipts /\ value \in Nat /\ Rest \in Seq(Calls) /\ balance \in Nat
    BY <1>4, DueDoc, DueTyped DEF ReverseReceiptAdvance, Due, ReceiptMethods, BookTypeOK
  <2>2. balance >= value => <<Call("updateBalance", doc, balance - value)>> \o Rest \in Seq(Calls)
    BY <1>u, <2>1, QueueTyped
  <2> QED
    BY <1>0, <1>4, <2>1, <2>2 DEF ReverseReceiptAdvance, BookTypeOK, journalVars
<1>5. ASSUME ReverseAdvanceRefused PROVE TypeOK'
  BY <1>0, <1>5, QueueTyped DEF ReverseAdvanceRefused, bookVars, walletVars, journalVars, BookTypeOK
<1>6. ASSUME UpdateBalance PROVE TypeOK'
  <2>1. value \in Nat /\ Rest \in Seq(Calls)
    BY <1>6, DueTyped DEF UpdateBalance, Due
  <2> QED
    BY <1>0, <1>6, <2>1 DEF UpdateBalance, BookTypeOK, journalVars
<1>7. ASSUME NEW method \in ReceiptMethods \cup InvoiceMethods, NEW kind \in EntryKinds,
             AppendEntry(method, kind)
      PROVE  TypeOK'
  <2>1. doc \in Documents /\ Rest \in Seq(Calls)
    BY <1>7, DueDoc, DueTyped DEF AppendEntry, Due, Documents
  <2> QED
    BY <1>0, <1>7, <2>1 DEF AppendEntry, BookTypeOK, walletVars, journalVars
<1>8. ASSUME CreateJournalEntry PROVE TypeOK'
  <2>1. doc \in Documents /\ Rest \in Seq(Calls)
    BY <1>8, DueDoc, DueTyped DEF CreateJournalEntry, Due, JournalMethods
  <2>2. <<Call("linkJournalEntry", doc, 0)>> \o Rest \in Seq(Calls)
    BY <2>1, CallTyped, QueueTyped DEF JournalMethods
  <2>3. todo' \in Seq(Calls)
    BY <1>8, <2>1, <2>2 DEF CreateJournalEntry
  <2>4. vouchers' \in [Documents -> Nat]
    BY <1>8 DEF CreateJournalEntry, BookTypeOK
  <2> QED
    BY <1>0, <1>8, <2>3, <2>4 DEF CreateJournalEntry, BookTypeOK, walletVars
<1>9. ASSUME LinkJournalEntry PROVE TypeOK'
  <2>1. doc \in Documents /\ Rest \in Seq(Calls)
    BY <1>9, DueDoc, DueTyped DEF LinkJournalEntry, Due, JournalMethods
  <2> QED
    BY <1>0, <1>9, <2>1 DEF LinkJournalEntry, BookTypeOK, walletVars
<1>10. ASSUME ReverseJournalEntry PROVE TypeOK'
  <2>1. doc \in Documents /\ Rest \in Seq(Calls)
    BY <1>10, DueDoc, DueTyped DEF ReverseJournalEntry, Due, JournalMethods
  <2>2. <<Call("markReversed", doc, 0)>> \o Rest \in Seq(Calls)
    BY <2>1, CallTyped, QueueTyped DEF JournalMethods
  <2> QED
    BY <1>0, <1>10, <2>1, <2>2 DEF ReverseJournalEntry, BookTypeOK, walletVars
<1>11. ASSUME MarkReversed PROVE TypeOK'
  <2>1. doc \in Documents /\ Rest \in Seq(Calls)
    BY <1>11, DueDoc, DueTyped DEF MarkReversed, Due, JournalMethods
  <2> QED
    BY <1>0, <1>11, <2>1 DEF MarkReversed, BookTypeOK, walletVars
<1>12. PostInvoiceDebit \/ ReverseInvoicePosting \/ PostReceiptCredit \/ ReverseReceiptPosting
         => TypeOK'
  BY <1>7 DEF PostInvoiceDebit, ReverseInvoicePosting, PostReceiptCredit, ReverseReceiptPosting,
              ReceiptMethods, InvoiceMethods, EntryKinds
<1> QED
  BY <1>1, <1>2, <1>3, <1>4, <1>5, <1>6, <1>8, <1>9, <1>10, <1>11, <1>12 DEF Bookkeeping

LEMMA StepTypes ==
  ASSUME TypeOK, [Next]_vars
  PROVE  TypeOK'
<1>1. ASSUME WalletRequest PROVE TypeOK'
  <2>1. PICK n \in Amounts \cup {0}, m \in Amounts \cup {0} : AdjustWallet(n, m)
    BY <1>1 DEF WalletRequest
  <2>2. n \in Nat /\ m \in Nat /\ balance + n - m \in Nat
    BY <2>1, SettlementAssumption DEF AdjustWallet
  <2>3. <<Call("updateBalance", "wallet", balance + n - m)>> \in Seq(Calls)
    BY <2>2, CallTyped, QueueTyped
  <2> QED
    BY <2>1, <2>2, <2>3 DEF AdjustWallet, TypeOK, InvoiceTypeOK, ReceiptTypeOK, BookTypeOK,
                            invoiceVars, receiptVars, journalVars
<1>2. ASSUME Fault PROVE TypeOK'
  BY <1>2, QueueTyped, SettlementAssumption
     DEF Fault, TypeOK, InvoiceTypeOK, ReceiptTypeOK, BookTypeOK, invoiceVars, receiptVars,
         bookVars, walletVars, journalVars
<1>3. ASSUME UNCHANGED vars PROVE TypeOK'
  BY <1>3 DEF TypeOK, InvoiceTypeOK, ReceiptTypeOK, BookTypeOK, vars, invoiceVars, receiptVars,
              bookVars, walletVars, journalVars
<1> QED
  BY <1>1, <1>2, <1>3, InvoiceRequestTypes, ReceiptRequestTypes, BookkeepingTypes DEF Next

LEMMA InitTypes == Init => TypeOK
<1> SUFFICES ASSUME Init PROVE TypeOK
  OBVIOUS
<1>1. InvoiceTypeOK /\ ReceiptTypeOK
  BY NothingTyped DEF Init, InvoiceTypeOK, ReceiptTypeOK, InvoiceStatus, ReceiptStatus
<1>2. BookTypeOK
  BY DEF Init, BookTypeOK
<1> QED
  BY <1>1, <1>2, QueueTyped, SettlementAssumption DEF Init, TypeOK

\* Every row keeps its kind; in particular no confirmation, and no fault
\* between two writes, ever leaves an invoice owing less than nothing.
THEOREM TypeCorrect == Spec => []TypeOK
BY InitTypes, StepTypes, PTL DEF Spec
-----------------------------------------------------------------------
(* Conservation.  What confirmed receipts pay of an invoice is a total    *)
(* over all receipts; the lemmas say how it moves when one of them does.  *)

LEMMA PaidTyped ==
  ASSUME ReceiptTypeOK, NEW i \in Invoices
  PROVE  /\ Paid(i) \in Nat
         /\ \A r \in Receipts : PaidBy(r, i) \in Nat /\ PaidBy(r, i) <= Paid(i)
<1> DEFINE paid == [r \in Receipts |-> PaidBy(r, i)]
<1>1. \A r \in Receipts : paid[r] \in Nat
  BY DEF PaidBy, ReceiptTypeOK
<1>2. Total(paid, Receipts) \in Nat
  BY <1>1, SettlementAssumption, TotalNat
<1>3. \A r \in Receipts : paid[r] <= Total(paid, Receipts)
  BY <1>1, SettlementAssumption, TotalBounds
<1> QED
  BY <1>1, <1>2, <1>3 DEF Paid

\* Nothing allocated on an invoice, in total or by each receipt, is the same.
LEMMA UnallocatedIsUnpaid ==
  ASSUME ReceiptTypeOK, NEW i \in Invoices
  PROVE  /\ AllocatedTo(i) = 0 <=> \A r \in Receipts : alloc[r][i] = 0
         /\ AllocatedTo(i) = 0 => Paid(i) = 0
<1> DEFINE given == [r \in Receipts |-> alloc[r][i]]
<1>1. \A r \in Receipts : given[r] \in Nat
  BY DEF ReceiptTypeOK
<1>2. \A r \in Receipts : given[r] <= Total(given, Receipts)
  BY <1>1, SettlementAssumption, TotalBounds
<1>3. (\A r \in Receipts : given[r] = 0) => Total(given, Receipts) = 0
  BY TotalZero
<1>4. AllocatedTo(i) = 0 <=> \A r \in Receipts : alloc[r][i] = 0
  BY <1>1, <1>2, <1>3 DEF AllocatedTo
<1>5. ASSUME \A r \in Receipts : alloc[r][i] = 0 PROVE Paid(i) = 0
  <2> DEFINE paid == [r \in Receipts |-> PaidBy(r, i)]
  <2>1. \A r \in Receipts : paid[r] = 0
    BY <1>5 DEF PaidBy
  <2>2. Total(paid, Receipts) = 0
    BY <2>1, TotalZero
  <2> QED
    BY <2>2 DEF Paid
<1> QED
  BY <1>4, <1>5

\* A step that changes what one receipt pays moves what is paid by as much.
LEMMA PaidMoves ==
  ASSUME ReceiptTypeOK, ReceiptTypeOK', NEW i \in Invoices, NEW r \in Receipts,
         \A s \in Receipts \ {r} : PaidBy(s, i)' = PaidBy(s, i)
  PROVE  /\ Paid(i)' + PaidBy(r, i) = Paid(i) + PaidBy(r, i)'
         /\ Paid(i) \in Nat /\ Paid(i)' \in Nat
<1> DEFINE before == [s \in Receipts |-> PaidBy(s, i)]
           after == [s \in Receipts |-> PaidBy(s, i)']
<1>1. \A s \in Receipts : before[s] \in Nat
  BY DEF PaidBy, ReceiptTypeOK
<1>2. \A s \in Receipts : after[s] \in Nat
  BY DEF PaidBy, ReceiptTypeOK
<1>3. \A s \in Receipts \ {r} : before[s] = after[s]
  OBVIOUS
<1>4. Total(after, Receipts) + before[r] = Total(before, Receipts) + after[r]
  BY <1>1, <1>2, <1>3, SettlementAssumption, TotalMoves
<1>5. Paid(i) = Total(before, Receipts) /\ Paid(i)' = Total(after, Receipts)
  BY DEF Paid
<1>6. Total(before, Receipts) \in Nat /\ Total(after, Receipts) \in Nat
  BY <1>1, <1>2, SettlementAssumption, TotalNat
<1> QED
  BY <1>4, <1>5, <1>6

\* A step in which every receipt pays what it paid leaves what is paid.
LEMMA PaidKept ==
  ASSUME NEW i \in Invoices, \A r \in Receipts : PaidBy(r, i)' = PaidBy(r, i)
  PROVE  Paid(i)' = Paid(i)
<1> DEFINE before == [s \in Receipts |-> PaidBy(s, i)]
           after == [s \in Receipts |-> PaidBy(s, i)']
<1>1. before = after
  OBVIOUS
<1>2. Paid(i) = Total(before, Receipts) /\ Paid(i)' = Total(after, Receipts)
  BY DEF Paid
<1> QED
  BY <1>1, <1>2

\* Only live invoices are allocated to, whatever the status of the receipt:
\* the guard of cancelInvoice looks at rows of draft receipts too.
AllocatedIsLive ==
  \A r \in Receipts, i \in Invoices : alloc[r][i] > 0 => istatus[i] \in Live

CancelledIsFree ==
  \A r \in Receipts : rstatus[r] = "cancelled" => alloc[r] = Nothing

\* The inductive invariant: conservation needs the status to say which
\* invoices owe anything, and both need allocations to stay on live ones.
RowInv ==
  /\ InvoiceTypeOK /\ ReceiptTypeOK
  /\ OutstandingIsUnpaid /\ StatusTracksOutstanding
  /\ AllocatedIsLive /\ CancelledIsFree

LEMMA OwingIsLive ==
  ASSUME InvoiceTypeOK, StatusTracksOutstanding, NEW i \in Invoices, outstanding[i] > 0
  PROVE  istatus[i] \in Live
BY DEF InvoiceTypeOK, StatusTracksOutstanding, Live

LEMMA UnchangedRows ==
  ASSUME RowInv, UNCHANGED <<invoiceVars, receiptVars>>
  PROVE  RowInv'
<1>1. \A i \in Invoices : Paid(i)' = Paid(i)
  BY PaidKept DEF PaidBy, receiptVars
<1> QED
  BY <1>1 DEF RowInv, invoiceVars, receiptVars, InvoiceTypeOK, ReceiptTypeOK, AllocatedIsLive,
              OutstandingIsUnpaid, StatusTracksOutstanding, CancelledIsFree

\* Requests on invoices that no receipt is allocated to: the invoice is
\* billed afresh or stops being live.
LEMMA InvoiceRowsKept ==
  ASSUME RowInv, InvoiceTypeOK', UNCHANGED receiptVars,
         NEW changed \in SUBSET Invoices,
         \A i \in changed : \/ AllocatedTo(i) = 0
                            \/ istatus[i] \notin Live,
         \A i \in changed : \/ istatus'[i] \in {"draft", "posted"} /\ outstanding'[i] = grandTotal'[i]
                            \/ istatus'[i] \in {"cancelled", "deleted"} /\ outstanding'[i] = 0,
         \A i \in Invoices \ changed : /\ istatus'[i] = istatus[i]
                                       /\ outstanding'[i] = outstanding[i]
                                       /\ grandTotal'[i] = grandTotal[i]
  PROVE  RowInv'
<1>1. ReceiptTypeOK /\ ReceiptTypeOK'
  BY DEF RowInv, ReceiptTypeOK, receiptVars
<1>2. \A i \in Invoices : Paid(i)' = Paid(i)
  BY PaidKept DEF PaidBy, receiptVars
<1>3. ASSUME NEW i \in changed, NEW r \in Receipts PROVE alloc[r][i] = 0
  <2>1. AllocatedTo(i) = 0 => alloc[r][i] = 0
    BY <1>1, UnallocatedIsUnpaid
  <2>2. alloc[r][i] \in Nat
    BY <1>1 DEF ReceiptTypeOK
  <2> QED
    BY <2>1, <2>2 DEF RowInv, AllocatedIsLive
<1>4. \A i \in changed : Paid(i) = 0
  BY <1>1, <1>3, UnallocatedIsUnpaid
<1>5. OutstandingIsUnpaid'
  BY <1>2, <1>4 DEF RowInv, OutstandingIsUnpaid, InvoiceTypeOK, Live
<1>6. StatusTracksOutstanding'
  BY DEF RowInv, StatusTracksOutstanding
<1>7. AllocatedIsLive'
  BY <1>3 DEF RowInv, AllocatedIsLive, receiptVars
<1>8. CancelledIsFree'
  BY DEF RowInv, CancelledIsFree, receiptVars, Nothing
<1> QED
  BY <1>1, <1>5, <1>6, <1>7, <1>8 DEF RowInv

\* Requests on a receipt that is not confirmed, before or after: what it is
\* allocated to owes something, or it is cancelled and allocated to nothing.
LEMMA ReceiptRowsKept ==
  ASSUME RowInv, ReceiptTypeOK', UNCHANGED invoiceVars, NEW r \in Receipts,
         rstatus[r] # "confirmed", rstatus'[r] # "confirmed",
         rstatus'[r] = "cancelled" => alloc'[r] = Nothing,
         \A i \in Invoices : alloc'[r][i] > 0 => istatus[i] \in Live,
         \A s \in Receipts \ {r} : alloc'[s] = alloc[s] /\ rstatus'[s] = rstatus[s]
  PROVE  RowInv'
<1>1. \A i \in Invoices : Paid(i)' = Paid(i)
  <2>1. \A s \in Receipts, i \in Invoices : PaidBy(s, i)' = PaidBy(s, i)
    BY DEF PaidBy
  <2> QED
    BY <2>1, PaidKept
<1>2. InvoiceTypeOK' /\ StatusTracksOutstanding'
  BY DEF RowInv, InvoiceTypeOK, StatusTracksOutstanding, invoiceVars
<1>3. OutstandingIsUnpaid'
  BY <1>1 DEF RowInv, OutstandingIsUnpaid, invoiceVars
<1>4. AllocatedIsLive'
  BY DEF RowInv, AllocatedIsLive, invoiceVars
<1>5. CancelledIsFree'
  BY DEF RowInv, CancelledIsFree, Nothing
<1> QED
  BY <1>2, <1>3, <1>4, <1>5 DEF RowInv
LEMMA InvoiceRequestRows ==
  ASSUME TypeOK, RowInv, InvoiceRequest
  PROVE  RowInv'
<1>0. InvoiceTypeOK'
  BY InvoiceRequestTypes DEF TypeOK
<1> USE DEF RowInv, InvoiceTypeOK, Live
<1>1. ASSUME NEW i \in Invoices, NEW total \in Totals, NEW status \in {"draft", "posted"},
             CreateInvoice(i, total, status)
      PROVE  RowInv'
  BY <1>0, <1>1, InvoiceRowsKept, {i} \in SUBSET Invoices DEF CreateInvoice
<1>2. ASSUME NEW i \in Invoices, NEW total \in Totals, UpdateDraft(i, total)
      PROVE  RowInv'
  BY <1>0, <1>2, InvoiceRowsKept, {i} \in SUBSET Invoices DEF UpdateDraft, DraftEditable
<1>3. ASSUME NEW i \in Invoices, NEW j \in Invoices, NEW total \in Totals,
             RevisePostedUnpaid(i, j, total)
      PROVE  RowInv'
  BY <1>0, <1>3, InvoiceRowsKept, {i, j} \in SUBSET Invoices DEF RevisePostedUnpaid
<1>4. ASSUME NEW i \in Invoices, DeleteDraft(i) PROVE RowInv'
  BY <1>0, <1>4, InvoiceRowsKept, {i} \in SUBSET Invoices DEF DeleteDraft, DraftEditable
<1>5. ASSUME NEW i \in Invoices, PostDraft(i) PROVE RowInv'
  <2>1. /\ OutstandingIsUnpaid' /\ StatusTracksOutstanding'
    <3>1. \A j \in Invoices : Paid(j)' = Paid(j)
      BY <1>5, PaidKept DEF PaidBy, PostDraft, receiptVars
    <3> QED
      BY <1>5, <3>1 DEF PostDraft, OutstandingIsUnpaid, StatusTracksOutstanding
  <2> QED
    BY <1>0, <1>5, <2>1 DEF PostDraft, receiptVars, ReceiptTypeOK, AllocatedIsLive, CancelledIsFree
<1>6. ASSUME NEW i \in Invoices, PostAgain(i) PROVE RowInv'
  BY <1>6, UnchangedRows DEF PostAgain
<1>7. ASSUME NEW i \in Invoices, CancelInvoice(i) PROVE RowInv'
  BY <1>0, <1>7, InvoiceRowsKept, {i} \in SUBSET Invoices DEF CancelInvoice
<1> QED
  BY <1>1, <1>2, <1>3, <1>4, <1>5, <1>6, <1>7 DEF InvoiceRequest

\* Confirming moves what an invoice owes to what is paid of it.
LEMMA ConfirmDraftRows ==
  ASSUME TypeOK, RowInv, NEW r \in Receipts, NEW by \in SortedBy(Day), ConfirmDraft(r, by)
  PROVE  RowInv'
<1> DEFINE p == Payment(r, by)
<1>1. p \in [Invoices -> Nat] /\ \A i \in Invoices : p[i] <= outstanding[i]
  BY PaymentTyped DEF TypeOK, ConfirmDraft
<1>2. (InvoiceTypeOK /\ ReceiptTypeOK)'
  BY ConfirmDraftTypes DEF TypeOK
<1>3. rstatus[r] = "draft" /\ PayInvoices(r, p)
  BY DEF ConfirmDraft
<1> HIDE DEF p
<1>4. \A i \in Invoices : p[i] > 0 => istatus[i] \in Live
  BY <1>1, OwingIsLive DEF RowInv, InvoiceTypeOK
<1>5. ASSUME NEW i \in Invoices PROVE Paid(i)' = Paid(i) + p[i]
  <2>1. PaidBy(r, i) = 0 /\ PaidBy(r, i)' = p[i]
    BY <1>3 DEF PaidBy, PayInvoices, RowInv, ReceiptTypeOK
  <2>2. \A s \in Receipts \ {r} : PaidBy(s, i)' = PaidBy(s, i)
    BY <1>3 DEF PaidBy, PayInvoices, RowInv, ReceiptTypeOK
  <2>3. /\ Paid(i)' + PaidBy(r, i) = Paid(i) + PaidBy(r, i)'
        /\ Paid(i) \in Nat /\ Paid(i)' \in Nat
    BY <1>2, <2>2, PaidMoves DEF RowInv
  <2> QED
    BY <1>1, <2>1, <2>3
<1>6. OutstandingIsUnpaid'
  <2> SUFFICES ASSUME NEW i \in Invoices, istatus'[i] \in Live
               PROVE  outstanding'[i] + Paid(i)' = grandTotal'[i]
    BY DEF OutstandingIsUnpaid
  <2>1. istatus[i] \in Live
    BY <1>1, <1>3, <1>4 DEF PayInvoices, RowInv, InvoiceTypeOK
  <2>2. outstanding[i] + Paid(i) = grandTotal[i]
    BY <2>1 DEF RowInv, OutstandingIsUnpaid
  <2>3. outstanding'[i] = outstanding[i] - p[i] /\ grandTotal'[i] = grandTotal[i]
    BY <1>3 DEF PayInvoices
  <2>4. outstanding[i] \in Nat /\ p[i] \in Nat /\ Paid(i) \in Nat
    BY <1>1, PaidTyped DEF RowInv, InvoiceTypeOK
  <2> QED
    BY <1>5, <2>2, <2>3, <2>4
<1>7. StatusTracksOutstanding'
  <2>1. \A i \in Invoices : istatus[i] \in Live => outstanding[i] <= grandTotal[i]
    BY PaidTyped DEF RowInv, OutstandingIsUnpaid, InvoiceTypeOK
  <2> SUFFICES ASSUME NEW i \in Invoices
               PROVE  /\ istatus'[i] \in {"draft", "posted"} => outstanding'[i] = grandTotal'[i]
                      /\ istatus'[i] = "partial_paid" => outstanding'[i] \in 1..(grandTotal'[i] - 1)
                      /\ istatus'[i] \notin {"draft", "posted", "partial_paid"} => outstanding'[i] = 0
    BY DEF StatusTracksOutstanding
  <2>2. p[i] \in Nat /\ outstanding[i] \in Nat /\ grandTotal[i] \in Nat /\ p[i] <= outstanding[i]
    BY <1>1 DEF RowInv, InvoiceTypeOK
  <2>3. /\ outstanding'[i] = outstanding[i] - p[i]
        /\ grandTotal'[i] = grandTotal[i]
        /\ istatus'[i] = IF p[i] = 0 THEN istatus[i]
                         ELSE IF outstanding[i] - p[i] <= 0 THEN "paid" ELSE "partial_paid"
    BY <1>3 DEF PayInvoices
  <2>4. CASE p[i] = 0
    BY <2>2, <2>3, <2>4 DEF RowInv, StatusTracksOutstanding
  <2>5. CASE p[i] > 0
    BY <1>4, <2>1, <2>2, <2>3, <2>5
  <2> QED
    BY <2>2, <2>4, <2>5
<1>8. AllocatedIsLive'
  <2>1. \A i \in Invoices : istatus[i] \in Live => istatus'[i] \in Live
    BY <1>3 DEF PayInvoices, Live
  <2>2. ASSUME NEW s \in Receipts, NEW i \in Invoices, alloc'[s][i] > 0 PROVE istatus[i] \in Live
    BY <1>3, <1>4, <2>2 DEF PayInvoices, RowInv, AllocatedIsLive, ReceiptTypeOK
  <2> QED
    BY <2>1, <2>2 DEF AllocatedIsLive
<1>9. CancelledIsFree'
  BY <1>3 DEF PayInvoices, RowInv, CancelledIsFree, ReceiptTypeOK, Nothing
<1> QED
  BY <1>2, <1>6, <1>7, <1>8, <1>9 DEF RowInv
\* Cancelling moves it back; since nothing exceeds its grand total, the test
\* for a fully reopened invoice is exact.
LEMMA CancelConfirmedRows ==
  ASSUME TypeOK, RowInv, NEW r \in Receipts, CancelConfirmed(r)
  PROVE  RowInv'
<1>1. rstatus[r] = "confirmed" /\ ReopenInvoices(r)
  BY DEF CancelConfirmed
<1>2. (InvoiceTypeOK /\ ReceiptTypeOK)'
  BY <1>1, ReopenInvoicesTypes DEF TypeOK
<1>3. alloc[r] \in [Invoices -> Nat]
  BY DEF RowInv, ReceiptTypeOK
<1>4. \A i \in Invoices : alloc[r][i] > 0 => istatus[i] \in Live
  BY DEF RowInv, AllocatedIsLive
<1>5. ASSUME NEW i \in Invoices
      PROVE  Paid(i)' + alloc[r][i] = Paid(i) /\ Paid(i)' \in Nat /\ Paid(i) \in Nat
  <2>1. PaidBy(r, i) = alloc[r][i] /\ PaidBy(r, i)' = 0
    BY <1>1 DEF PaidBy, ReopenInvoices, RowInv, ReceiptTypeOK
  <2>2. \A s \in Receipts \ {r} : PaidBy(s, i)' = PaidBy(s, i)
    BY <1>1 DEF PaidBy, ReopenInvoices, RowInv, ReceiptTypeOK
  <2>3. /\ Paid(i)' + PaidBy(r, i) = Paid(i) + PaidBy(r, i)'
        /\ Paid(i) \in Nat /\ Paid(i)' \in Nat
    BY <1>2, <2>2, PaidMoves DEF RowInv
  <2> QED
    BY <2>1, <2>3
<1>6. ASSUME NEW i \in Invoices, istatus[i] \in Live
      PROVE  /\ outstanding[i] + alloc[r][i] + Paid(i)' = grandTotal[i]
             /\ outstanding[i] + alloc[r][i] <= grandTotal[i]
  <2>1. outstanding[i] + Paid(i) = grandTotal[i]
    BY <1>6 DEF RowInv, OutstandingIsUnpaid
  <2>2. outstanding[i] \in Nat /\ grandTotal[i] \in Nat /\ alloc[r][i] \in Nat
    BY <1>3 DEF RowInv, InvoiceTypeOK
  <2> QED
    BY <1>5, <2>1, <2>2
<1>r. ASSUME NEW i \in Invoices
      PROVE  /\ outstanding'[i] = outstanding[i] + alloc[r][i]
             /\ grandTotal'[i] = grandTotal[i]
             /\ istatus'[i] = IF alloc[r][i] = 0 THEN istatus[i]
                              ELSE IF outstanding[i] + alloc[r][i] >= grandTotal[i]
                                   THEN "posted" ELSE "partial_paid"
             /\ outstanding[i] \in Nat /\ grandTotal[i] \in Nat /\ alloc[r][i] \in Nat
  BY <1>1, <1>3 DEF ReopenInvoices, RowInv, InvoiceTypeOK
<1>l. \A i \in Invoices : istatus'[i] \in Live <=> istatus[i] \in Live
  BY <1>r, <1>4 DEF Live
<1>7. OutstandingIsUnpaid'
  BY <1>6, <1>r, <1>l DEF OutstandingIsUnpaid
<1>8. StatusTracksOutstanding'
  <2> SUFFICES ASSUME NEW i \in Invoices
               PROVE  /\ istatus'[i] \in {"draft", "posted"} => outstanding'[i] = grandTotal'[i]
                      /\ istatus'[i] = "partial_paid" => outstanding'[i] \in 1..(grandTotal'[i] - 1)
                      /\ istatus'[i] \notin {"draft", "posted", "partial_paid"} => outstanding'[i] = 0
    BY DEF StatusTracksOutstanding
  <2>1. CASE alloc[r][i] = 0
    BY <1>r, <2>1 DEF RowInv, StatusTracksOutstanding
  <2>2. CASE alloc[r][i] > 0
    <3>1. outstanding[i] + alloc[r][i] <= grandTotal[i]
      BY <1>4, <1>6, <2>2
    <3> QED
      BY <1>r, <2>2, <3>1
  <2> QED
    BY <1>r, <2>1, <2>2
<1>9. AllocatedIsLive'
  <2>1. \A s \in Receipts, i \in Invoices : alloc'[s][i] > 0 => alloc[s][i] > 0
    BY <1>1 DEF ReopenInvoices, RowInv, ReceiptTypeOK, Nothing
  <2> QED
    BY <1>l, <2>1 DEF RowInv, AllocatedIsLive
<1>10. CancelledIsFree'
  BY <1>1 DEF ReopenInvoices, RowInv, CancelledIsFree, ReceiptTypeOK, Nothing
<1> QED
  BY <1>2, <1>7, <1>8, <1>9, <1>10 DEF RowInv

LEMMA ReceiptRequestRows ==
  ASSUME TypeOK, RowInv, ReceiptRequest
  PROVE  RowInv'
<1>0. ReceiptTypeOK'
  BY ReceiptRequestTypes DEF TypeOK
<1> USE DEF RowInv, ReceiptTypeOK
<1>1. ASSUME NEW r \in Receipts, NEW n \in Amounts, NEW advance \in BOOLEAN,
             NEW confirm \in BOOLEAN, NEW p \in Parts, CreateReceipt(r, n, advance, p, confirm)
      PROVE  RowInv'
  <2>1. \A i \in Invoices : p[i] > 0 => istatus[i] \in Live
    BY <1>1, PartsTyped, OwingIsLive DEF CreateReceipt, FitsManually, InvoiceTypeOK
  <2> QED
    BY <1>0, <1>1, <2>1, ReceiptRowsKept DEF CreateReceipt
<1>2. ASSUME NEW r \in Receipts, NEW i \in Invoices, NEW n \in Amounts,
             CreateAllocation(r, i, n)
      PROVE  RowInv'
  <2>1. istatus[i] \in Live
    BY <1>2, OwingIsLive, SettlementAssumption DEF CreateAllocation, InvoiceTypeOK
  <2>2. \A j \in Invoices : alloc'[r][j] > 0 => istatus[j] \in Live
    BY <1>2, <2>1 DEF CreateAllocation, AllocatedIsLive
  <2> QED
    BY <1>0, <1>2, <2>2, ReceiptRowsKept DEF CreateAllocation
<1>3. ASSUME NEW r \in Receipts, NEW p, NEW advance, rstatus[r] = "draft",
             \A i \in Invoices : p[i] > 0 => istatus[i] \in Live, Reassign(r, p, advance)
      PROVE  RowInv'
  BY <1>0, <1>3, ReceiptRowsKept DEF Reassign
<1>4. ASSUME NEW r \in Receipts, NEW selected \in SUBSET Invoices, NEW advance \in BOOLEAN,
             NEW by \in SortedBy(Day), AutoAllocateFifo(r, selected, advance, by)
      PROVE  RowInv'
  <2>1. \A i \in Invoices : FifoPlan(amount[r], selected, by)[i] > 0 => istatus[i] \in Live
    <3>1. DOMAIN outstanding = Invoices
      BY DEF InvoiceTypeOK
    <3> QED
      BY <3>1 DEF FifoPlan, FifoShares, Payable, Live
  <2> QED
    BY <1>3, <1>4, <2>1 DEF AutoAllocateFifo
<1>5. ASSUME NEW r \in Receipts, NEW p \in Parts, NEW advance \in BOOLEAN,
             Reallocate(r, p, advance)
      PROVE  RowInv'
  BY <1>3, <1>5, OwingIsLive DEF Reallocate
<1>6. ASSUME NEW r \in Receipts, ConfirmAgain(r) PROVE RowInv'
  BY <1>6, UnchangedRows DEF ConfirmAgain
<1>7. ASSUME NEW r \in Receipts, CancelDraft(r) PROVE RowInv'
  BY <1>0, <1>7, ReceiptRowsKept DEF CancelDraft, Nothing
<1> QED
  BY <1>1, <1>2, <1>4, <1>5, <1>6, <1>7, ConfirmDraftRows, CancelConfirmedRows DEF ReceiptRequest
LEMMA BookkeepingRows ==
  ASSUME TypeOK, RowInv, Bookkeeping
  PROVE  RowInv'
<1>1. \/ UNCHANGED <<invoiceVars, receiptVars>>
      \/ \E r \in Receipts, by \in SortedBy(Day) : ConfirmDraft(r, by)
  BY DEF Bookkeeping, ConfirmRefused, CreditFromReceipt, ReverseReceiptAdvance,
         ReverseAdvanceRefused, UpdateBalance, PostInvoiceDebit, ReverseInvoicePosting,
         PostReceiptCredit, ReverseReceiptPosting, AppendEntry, CreateJournalEntry,
         LinkJournalEntry, ReverseJournalEntry, MarkReversed
<1> QED
  BY <1>1, UnchangedRows, ConfirmDraftRows

LEMMA StepRows ==
  ASSUME TypeOK, RowInv, [Next]_vars
  PROVE  RowInv'
<1>1. WalletRequest \/ Fault \/ UNCHANGED vars => UNCHANGED <<invoiceVars, receiptVars>>
  BY DEF WalletRequest, AdjustWallet, Fault, vars
<1> QED
  BY <1>1, InvoiceRequestRows, ReceiptRequestRows, BookkeepingRows, UnchangedRows DEF Next

LEMMA InitRows == Init => RowInv
<1> SUFFICES ASSUME Init PROVE RowInv
  OBVIOUS
<1>1. InvoiceTypeOK /\ ReceiptTypeOK
  BY InitTypes DEF TypeOK
<1>2. \A i \in Invoices : istatus[i] = "absent" /\ outstanding[i] = 0
  BY DEF Init, Nothing
<1>3. \A r \in Receipts, i \in Invoices : alloc[r][i] = 0
  BY DEF Init, Nothing
<1>4. \A r \in Receipts : rstatus[r] = "absent"
  BY DEF Init
<1> QED
  BY <1>1, <1>2, <1>3, <1>4 DEF RowInv, OutstandingIsUnpaid, StatusTracksOutstanding, AllocatedIsLive,
                          CancelledIsFree, Live

THEOREM RowsInvariant == Spec => [](TypeOK /\ RowInv)
<1>1. Init => TypeOK /\ RowInv
  BY InitTypes, InitRows
<1>2. TypeOK /\ RowInv /\ [Next]_vars => (TypeOK /\ RowInv)'
  BY StepTypes, StepRows
<1> QED
  BY <1>1, <1>2, PTL DEF Spec

\* What an invoice owes and what confirmed receipts allocate to it always add
\* up to its grand total, through confirmations, cancellations and faults.
THEOREM Conservation == Spec => []OutstandingIsUnpaid
BY RowsInvariant, PTL DEF RowInv

\* The status stored with an invoice is the one its amounts call for.
THEOREM StatusCorrect == Spec => []StatusTracksOutstanding
BY RowsInvariant, PTL DEF RowInv

\* Cancelled and deleted rows hold no money.
THEOREM VoidedCorrect == Spec => []VoidedHoldsNothing
<1>1. TypeOK /\ RowInv => VoidedHoldsNothing
  <2> SUFFICES ASSUME TypeOK, RowInv PROVE VoidedHoldsNothing
    OBVIOUS
  <2>1. ASSUME NEW i \in Invoices, istatus[i] \in {"cancelled", "deleted"}
        PROVE  AllocatedTo(i) = 0
    <3>1. \A r \in Receipts : alloc[r][i] = 0
      BY <2>1 DEF RowInv, AllocatedIsLive, Live, ReceiptTypeOK
    <3> QED
      BY <3>1, UnallocatedIsUnpaid DEF RowInv
  <2> QED
    BY <2>1 DEF VoidedHoldsNothing, RowInv, CancelledIsFree
<1> QED
  BY <1>1, RowsInvariant, PTL
-----------------------------------------------------------------------
(* Receipts are fully split.  The one fact that is not local to a row is  *)
(* FifoFits: the shares of a plan add up to no more than the receipt.     *)

\* A plan for n, over whatever invoices are selected, spends at most n.
LEMMA FifoPlanFits ==
  ASSUME InvoiceTypeOK, NEW n \in Nat, NEW selected \in SUBSET Invoices,
         NEW by \in SortedBy(Day)
  PROVE  Total(FifoPlan(n, selected, by), Invoices) <= n
<1> DEFINE open == {i \in selected : istatus[i] \in Payable /\ outstanding[i] > 0}
<1>1. open \in SUBSET Invoices /\ DOMAIN outstanding = Invoices
  BY DEF InvoiceTypeOK
<1>2. \A i \in Invoices : outstanding[i] \in Nat
  BY DEF InvoiceTypeOK
<1>3. Total(FifoShares(n, outstanding, open, by), Invoices) <= n
  <2>1. DOMAIN Day = Invoices /\ IsFiniteSet(Invoices)
    BY SettlementAssumption
  <2>2. /\ by \in [Invoices -> Nat]
        /\ \A i, j \in Invoices : by[i] = by[j] => i = j
    BY <2>1, OrderTyped
  <2> HIDE DEF open
  <2> QED
    BY <1>1, <1>2, <2>1, <2>2, FifoFits
<1> QED
  BY <1>3 DEF FifoPlan

\* What a confirmation pays is within the receipt.
LEMMA PaymentFits ==
  ASSUME TypeOK, ReceiptFullySplit, NEW r \in Receipts, rstatus[r] = "draft",
         NEW by \in SortedBy(Day)
  PROVE  Total(Payment(r, by), Invoices) <= amount[r]
<1>1. amount[r] \in Nat /\ unallocated[r] \in Int /\ alloc[r] \in [Invoices -> Nat]
  BY DEF TypeOK, ReceiptTypeOK
<1>2. Total(alloc[r], Invoices) \in Nat
  BY <1>1, SettlementAssumption, TotalNat
<1>3. Total(alloc[r], Invoices) <= amount[r]
  BY <1>1, <1>2 DEF ReceiptFullySplit
<1>4. Total(Nothing, Invoices) = 0
  BY TotalZero DEF Nothing
<1>5. Total(FifoPlan(amount[r], Invoices, by), Invoices) <= amount[r]
  BY <1>1, FifoPlanFits DEF TypeOK
<1> QED
  BY <1>1, <1>3, <1>4, <1>5 DEF Payment

\* The requests that write the split of one receipt.
LEMMA SplitKept ==
  ASSUME ReceiptTypeOK, ReceiptTypeOK', ReceiptFullySplit, NEW r \in Receipts,
         rstatus'[r] \in {"draft", "confirmed"} =>
           /\ unallocated'[r] + Total(alloc'[r], Invoices) = amount'[r]
           /\ unallocated'[r] >= 0,
         \A s \in Receipts \ {r} :
           /\ rstatus'[s] = rstatus[s] /\ unallocated'[s] = unallocated[s]
           /\ alloc'[s] = alloc[s] /\ amount'[s] = amount[s]
  PROVE  ReceiptFullySplit'
BY DEF ReceiptFullySplit

\* Whatever Remaining leaves makes the split exact.
LEMMA RemainingSplits ==
  ASSUME ReceiptTypeOK, NEW r \in Receipts, NEW p \in [Invoices -> Nat],
         Total(p, Invoices) <= amount[r]
  PROVE  /\ Remaining(r, p) + Total(p, Invoices) = amount[r]
         /\ Remaining(r, p) >= 0
<1>1. Total(p, Invoices) \in Nat /\ amount[r] \in Nat
  BY SettlementAssumption, TotalNat DEF ReceiptTypeOK
<1> QED
  BY <1>1 DEF Remaining

LEMMA ReassignSplits ==
  ASSUME TypeOK, TypeOK', ReceiptFullySplit, NEW r \in Receipts,
         NEW p \in [Invoices -> Nat], NEW advance,
         Total(p, Invoices) <= amount[r], Reassign(r, p, advance)
  PROVE  ReceiptFullySplit'
<1>1. Remaining(r, p) + Total(p, Invoices) = amount[r] /\ Remaining(r, p) >= 0
  BY RemainingSplits DEF TypeOK
<1>2. unallocated'[r] = Remaining(r, p) /\ alloc'[r] = p /\ amount'[r] = amount[r]
  BY DEF Reassign, TypeOK, ReceiptTypeOK
<1>3. \A s \in Receipts \ {r} :
        /\ rstatus'[s] = rstatus[s] /\ unallocated'[s] = unallocated[s]
        /\ alloc'[s] = alloc[s] /\ amount'[s] = amount[s]
  BY DEF Reassign, TypeOK, ReceiptTypeOK
<1> QED
  BY <1>1, <1>2, <1>3, SplitKept DEF TypeOK

LEMMA CreateReceiptSplits ==
  ASSUME TypeOK, TypeOK', ReceiptFullySplit, NEW r \in Receipts, NEW n \in Nat,
         NEW advance, NEW confirm, NEW p \in [Invoices -> Nat],
         CreateReceipt(r, n, advance, p, confirm)
  PROVE  ReceiptFullySplit'
<1>1. Total(p, Invoices) \in Nat /\ Total(p, Invoices) <= n
  BY SettlementAssumption, TotalNat DEF CreateReceipt, FitsManually
<1>2. unallocated'[r] = n - Total(p, Invoices) /\ alloc'[r] = p /\ amount'[r] = n
  BY DEF CreateReceipt, TypeOK, ReceiptTypeOK
<1>3. \A s \in Receipts \ {r} :
        /\ rstatus'[s] = rstatus[s] /\ unallocated'[s] = unallocated[s]
        /\ alloc'[s] = alloc[s] /\ amount'[s] = amount[s]
  BY DEF CreateReceipt, TypeOK, ReceiptTypeOK
<1>4. unallocated'[r] + Total(alloc'[r], Invoices) = amount'[r] /\ unallocated'[r] >= 0
  BY <1>1, <1>2
<1> QED
  BY <1>3, <1>4, SplitKept DEF TypeOK

\* A row added to a draft takes from what its other rows leave.
LEMMA CreateAllocationSplits ==
  ASSUME TypeOK, TypeOK', ReceiptFullySplit, NEW r \in Receipts, NEW i \in Invoices,
         NEW n \in Nat, CreateAllocation(r, i, n)
  PROVE  ReceiptFullySplit'
<1> DEFINE before == alloc[r]
           after == alloc'[r]
<1>1. before \in [Invoices -> Nat] /\ after \in [Invoices -> Nat] /\ amount[r] \in Nat
  BY DEF TypeOK, ReceiptTypeOK
<1>2. after = [before EXCEPT ![i] = @ + n]
  BY DEF CreateAllocation, TypeOK, ReceiptTypeOK
<1>3. after[i] = before[i] + n /\ \A j \in Invoices \ {i} : before[j] = after[j]
  BY <1>1, <1>2
<1> HIDE DEF before, after
<1>4. Total(after, Invoices) + before[i] = Total(before, Invoices) + after[i]
  BY <1>1, <1>3, SettlementAssumption, TotalMoves
<1>5. Total(before, Invoices) \in Nat /\ Total(after, Invoices) \in Nat
      /\ before[i] \in Nat
  BY <1>1, SettlementAssumption, TotalNat
<1>6. Total(after, Invoices) = Total(before, Invoices) + n
  BY <1>3, <1>4, <1>5
<1>7. /\ unallocated'[r] = amount[r] - Total(before, Invoices) - n
      /\ n <= amount[r] - Total(before, Invoices)
      /\ amount'[r] = amount[r]
  BY DEF CreateAllocation, TypeOK, ReceiptTypeOK, Remaining, before
<1>8. unallocated'[r] + Total(after, Invoices) = amount'[r] /\ unallocated'[r] >= 0
  BY <1>1, <1>5, <1>6, <1>7
<1>9. \A s \in Receipts \ {r} :
        /\ rstatus'[s] = rstatus[s] /\ unallocated'[s] = unallocated[s]
        /\ alloc'[s] = alloc[s] /\ amount'[s] = amount[s]
  BY DEF CreateAllocation, TypeOK, ReceiptTypeOK
<1> QED
  BY <1>8, <1>9, SplitKept DEF TypeOK, after

LEMMA ConfirmDraftSplits ==
  ASSUME TypeOK, TypeOK', ReceiptFullySplit, NEW r \in Receipts, NEW by \in SortedBy(Day), ConfirmDraft(r, by)
  PROVE  ReceiptFullySplit'
<1> DEFINE p == Payment(r, by)
<1>1. p \in [Invoices -> Nat] /\ Total(p, Invoices) <= amount[r]
  BY PaymentTyped, PaymentFits DEF TypeOK, ConfirmDraft
<1>2. PayInvoices(r, p)
  BY DEF ConfirmDraft
<1> HIDE DEF p
<1>3. Remaining(r, p) + Total(p, Invoices) = amount[r] /\ Remaining(r, p) >= 0
  BY <1>1, RemainingSplits DEF TypeOK
<1>4. unallocated'[r] = Remaining(r, p) /\ alloc'[r] = p /\ amount'[r] = amount[r]
  BY <1>2 DEF PayInvoices, TypeOK, ReceiptTypeOK
<1>5. \A s \in Receipts \ {r} :
        /\ rstatus'[s] = rstatus[s] /\ unallocated'[s] = unallocated[s]
        /\ alloc'[s] = alloc[s] /\ amount'[s] = amount[s]
  BY <1>2 DEF PayInvoices, TypeOK, ReceiptTypeOK
<1> QED
  BY <1>3, <1>4, <1>5, SplitKept DEF TypeOK

LEMMA StepSplits ==
  ASSUME TypeOK, ReceiptFullySplit, [Next]_vars
  PROVE  ReceiptFullySplit'
<1>t. TypeOK'
  BY StepTypes
<1>0. ASSUME UNCHANGED receiptVars PROVE ReceiptFullySplit'
  BY <1>0 DEF ReceiptFullySplit, receiptVars
<1>1. ASSUME NEW r \in Receipts, rstatus'[r] = "cancelled",
             rstatus' = [rstatus EXCEPT ![r] = "cancelled"],
             alloc' = [alloc EXCEPT ![r] = Nothing], UNCHANGED <<amount, unallocated>>
      PROVE  ReceiptFullySplit'
  BY <1>1, <1>t, SplitKept DEF TypeOK, ReceiptTypeOK
<1>2. ASSUME NEW r \in Receipts, CancelDraft(r) \/ CancelConfirmed(r)
      PROVE  ReceiptFullySplit'
  BY <1>1, <1>2 DEF CancelDraft, CancelConfirmed, ReopenInvoices, TypeOK, ReceiptTypeOK
<1>3. ASSUME NEW r \in Receipts, NEW selected \in SUBSET Invoices, NEW advance,
             NEW by \in SortedBy(Day), AutoAllocateFifo(r, selected, advance, by)
      PROVE  ReceiptFullySplit'
  <2>1. amount[r] \in Nat
    BY DEF TypeOK, ReceiptTypeOK
  <2>2. /\ FifoPlan(amount[r], selected, by) \in [Invoices -> Nat]
        /\ Total(FifoPlan(amount[r], selected, by), Invoices) <= amount[r]
    BY <2>1, FifoPlanTyped, FifoPlanFits DEF TypeOK
  <2> QED
    BY <1>3, <1>t, <2>2, ReassignSplits DEF AutoAllocateFifo
<1>4. ASSUME NEW r \in Receipts, NEW p \in Parts, NEW advance, Reallocate(r, p, advance)
      PROVE  ReceiptFullySplit'
  BY <1>4, <1>t, PartsTyped, ReassignSplits DEF Reallocate
<1>5. ASSUME ReceiptRequest PROVE ReceiptFullySplit'
  <2>1. ASSUME NEW r \in Receipts, NEW n \in Amounts, NEW advance, NEW confirm, NEW p \in Parts,
               CreateReceipt(r, n, advance, p, confirm)
        PROVE  ReceiptFullySplit'
    BY <1>t, <2>1, PartsTyped, CreateReceiptSplits
  <2>2. ASSUME NEW r \in Receipts, NEW i \in Invoices, NEW n \in Amounts, CreateAllocation(r, i, n)
        PROVE  ReceiptFullySplit'
    BY <1>t, <2>2, PartsTyped, CreateAllocationSplits
  <2>3. ASSUME NEW r \in Receipts, NEW by \in SortedBy(Day), ConfirmDraft(r, by) PROVE ReceiptFullySplit'
    BY <1>t, <2>3, ConfirmDraftSplits
  <2>4. ASSUME NEW r \in Receipts, ConfirmAgain(r) PROVE ReceiptFullySplit'
    BY <1>0, <2>4 DEF ConfirmAgain
  <2> QED
    BY <1>2, <1>3, <1>4, <1>5, <2>1, <2>2, <2>3, <2>4 DEF ReceiptRequest
<1>6. ASSUME Bookkeeping PROVE ReceiptFullySplit'
  <2>1. \/ UNCHANGED receiptVars
        \/ \E r \in Receipts, by \in SortedBy(Day) : ConfirmDraft(r, by)
    BY <1>6
       DEF Bookkeeping, ConfirmRefused, CreditFromReceipt, ReverseReceiptAdvance,
           ReverseAdvanceRefused, UpdateBalance, PostInvoiceDebit, ReverseInvoicePosting,
           PostReceiptCredit, ReverseReceiptPosting, AppendEntry, CreateJournalEntry,
           LinkJournalEntry, ReverseJournalEntry, MarkReversed
  <2> QED
    BY <1>0, <1>t, <2>1, ConfirmDraftSplits
<1>7. InvoiceRequest => UNCHANGED receiptVars
  BY DEF InvoiceRequest, CreateInvoice, UpdateDraft, DeleteDraft, PostDraft, PostAgain,
         CancelInvoice, RevisePostedUnpaid
<1>8. WalletRequest \/ Fault \/ UNCHANGED vars => UNCHANGED receiptVars
  BY DEF WalletRequest, AdjustWallet, Fault, vars
<1> QED
  BY <1>0, <1>5, <1>6, <1>7, <1>8 DEF Next

THEOREM SplitInvariant == Spec => [](TypeOK /\ ReceiptFullySplit)
<1>1. Init => TypeOK /\ ReceiptFullySplit
  BY InitTypes DEF Init, ReceiptFullySplit
<1>2. TypeOK /\ ReceiptFullySplit /\ [Next]_vars => (TypeOK /\ ReceiptFullySplit)'
  BY StepTypes, StepSplits
<1> QED
  BY <1>1, <1>2, PTL DEF Spec

\* The allocations and the unallocated part of a receipt that is not cancelled
\* make up its amount, whether a caller, FIFO or a confirmation split it.
THEOREM FullySplit == Spec => []ReceiptFullySplit
BY SplitInvariant, PTL
-----------------------------------------------------------------------
(* The books.  What the wallet, the ledger and the journal say of a       *)
(* receipt depends on the calls still queued, so the invariants relate    *)
(* each queued call to the rows and each confirmed receipt to its calls.  *)

\* Calls that only ever follow another; every other call is made first.
FollowUps == {"postInvoiceDebit", "reverseInvoicePosting", "postReceiptCredit",
              "reverseReceiptPosting", "createJournalEntry", "reverseJournalEntry"}

First(method, d) == todo # <<>> /\ todo[1].method = method /\ todo[1].doc = d
Queued(method, d) == \E k \in 1..Len(todo) : todo[k].method = method /\ todo[k].doc = d

\* A call is queued only for what the rows of its receipt still call for, and
\* the ledger's after the wallet's.
CallFits(k) ==
  LET c == todo[k] IN
  /\ k > 1 => c.method \in FollowUps
  /\ c.method = "creditFromReceipt" =>
       rstatus[c.doc] = "confirmed" /\ c.amount = unallocated[c.doc]
  /\ c.method = "postReceiptCredit" =>
       /\ rstatus[c.doc] = "confirmed"
       /\ \/ credited[c.doc] = unallocated[c.doc]
          \/ k > 1 /\ First("creditFromReceipt", c.doc)
  /\ c.method \in {"createJournalEntry", "linkJournalEntry"} /\ c.doc \in Receipts =>
       rstatus[c.doc] = "confirmed"
CallsFit == \A k \in 1..Len(todo) : CallFits(k)

\* Nothing is booked of a receipt before it is confirmed, and its advance is
\* credited as a whole or not at all.
Unbooked ==
  \A r \in Receipts :
    /\ rstatus[r] \in {"absent", "draft"} =>
         /\ credited[r] = 0 /\ <<"receipt", r>> \notin ledger
         /\ vouchers[r] = 0 /\ ~linked[r]
    /\ credited[r] \in {0, unallocated[r]}

BooksInv == CallsFit /\ Unbooked /\ LedgerFollowsWallet

\* The queue after its first call was made, or replaced by the write it leaves.
LEMMA QueueHead ==
  ASSUME todo \in Seq(Calls), todo # <<>>
  PROVE  /\ Len(todo) \in Nat /\ Len(todo) >= 1
         /\ Head(todo) = todo[1] /\ doc = todo[1].doc /\ value = todo[1].amount
         /\ \A k \in 1..Len(todo) : todo[k] \in Calls
<1>1. Len(todo) \in Nat /\ Len(todo) >= 1
  BY EmptySeq, LenProperties
<1>2. Head(todo) = todo[1]
  OBVIOUS
<1>3. \A k \in 1..Len(todo) : todo[k] \in Calls
  BY ElementOfSeq
<1> QED
  BY <1>1, <1>2, <1>3 DEF doc, value

LEMMA QueueShift ==
  ASSUME todo \in Seq(Calls), todo # <<>>, todo' = Rest
  PROVE  /\ Len(todo') \in Nat /\ Len(todo') = Len(todo) - 1
         /\ \A k \in 1..Len(todo') : todo'[k] = todo[k + 1] /\ k + 1 \in 2..Len(todo)
         /\ \A k \in 2..Len(todo) : todo[k] = todo'[k - 1] /\ k - 1 \in 1..Len(todo')
<1>1. /\ Rest \in Seq(Calls) /\ Len(Rest) = Len(todo) - 1
      /\ \A k \in 1..Len(Rest) : Rest[k] = todo[k + 1]
  BY HeadTailProperties DEF Rest
<1>2. Len(todo) \in Nat /\ Len(Rest) \in Nat
  BY <1>1, LenProperties
<1> QED
  BY <1>1, <1>2

LEMMA QueueSwap ==
  ASSUME todo \in Seq(Calls), todo # <<>>, NEW c \in Calls, todo' = <<c>> \o Rest
  PROVE  /\ Len(todo') \in Nat /\ Len(todo') = Len(todo)
         /\ todo'[1] = c /\ todo' # <<>>
         /\ \A k \in 2..Len(todo) : todo'[k] = todo[k]
<1>1. /\ Rest \in Seq(Calls) /\ Len(Rest) = Len(todo) - 1
      /\ \A k \in 1..Len(Rest) : Rest[k] = todo[k + 1]
  BY HeadTailProperties DEF Rest
<1>2. Len(todo) \in Nat /\ Len(Rest) \in Nat
  BY <1>1, LenProperties
<1>3. <<c>> \in Seq(Calls) /\ Len(<<c>>) = 1 /\ <<c>>[1] = c
  OBVIOUS
<1>4. /\ Len(todo') = 1 + Len(Rest)
      /\ \A k \in 1..(1 + Len(Rest)) : todo'[k] = IF k <= 1 THEN <<c>>[k] ELSE Rest[k - 1]
  <2>1. /\ Len(<<c>> \o Rest) = Len(<<c>>) + Len(Rest)
        /\ \A k \in 1..(Len(<<c>>) + Len(Rest)) :
             (<<c>> \o Rest)[k] = IF k <= Len(<<c>>) THEN <<c>>[k] ELSE Rest[k - Len(<<c>>)]
    BY <1>1, <1>3, ConcatProperties
  <2> QED
    BY <1>3, <2>1
<1>5. Len(todo') = Len(todo)
  BY <1>1, <1>2, <1>4
<1>6. todo'[1] = c
  BY <1>2, <1>3, <1>4
<1>7. ASSUME NEW k \in 2..Len(todo) PROVE todo'[k] = todo[k]
  <2>1. k \in 1..(1 + Len(Rest)) /\ ~(k <= 1) /\ k - 1 \in 1..Len(Rest) /\ k - 1 + 1 = k
    BY <1>1, <1>2
  <2> QED
    BY <1>1, <1>4, <2>1
<1>8. todo' # <<>>
  <2>1. Len(todo') # 0
    BY <1>2, <1>1, <1>5
  <2> QED
    BY <2>1
<1> QED
  BY <1>2, <1>5, <1>6, <1>7, <1>8

\* A service is called: the rows stay, and a credit is for all or nothing.
LEMMA CallMadeFits ==
  ASSUME TypeOK, CallsFit, todo # <<>>, UNCHANGED receiptVars,
         \A r \in Receipts : credited'[r] \in {credited[r], unallocated[r]},
         todo[1].method = "creditFromReceipt" => credited'[todo[1].doc] = unallocated[todo[1].doc],
         \/ todo' = Rest
         \/ \E c \in Calls :
              /\ todo' = <<c>> \o Rest
              /\ c.method \in {"updateBalance", "linkJournalEntry", "markReversed"}
              /\ c.method = "linkJournalEntry" /\ c.doc \in Receipts => rstatus[c.doc] = "confirmed"
  PROVE  CallsFit'
<1>q. todo \in Seq(Calls)
  BY DEF TypeOK
<1>d. \A k \in 1..Len(todo) : todo[k].method = "postReceiptCredit" => todo[k].doc \in Receipts
  <2>1. \A k \in 1..Len(todo) : todo[k] \in Calls
    BY <1>q, ElementOfSeq
  <2> QED
    BY <2>1 DEF Calls, InvoiceMethods, ReceiptMethods, JournalMethods
<1>l. Len(todo) \in Nat /\ Len(todo) >= 1
  BY <1>q, QueueHead
<1>s. ASSUME NEW k \in 2..Len(todo), NEW c, c = todo[k]
      PROVE  /\ c.method \in FollowUps
             /\ c.method = "postReceiptCredit" =>
                  rstatus'[c.doc] = "confirmed" /\ credited'[c.doc] = unallocated'[c.doc]
             /\ c.method = "createJournalEntry" /\ c.doc \in Receipts =>
                  rstatus'[c.doc] = "confirmed"
  <2>1. k \in 1..Len(todo) /\ k > 1
    BY <1>l
  <2>2. CallFits(k)
    BY <2>1 DEF CallsFit
  <2>3. c.method \in FollowUps
    BY <1>s, <2>1, <2>2 DEF CallFits
  <2>4. ASSUME c.method = "postReceiptCredit"
        PROVE  rstatus'[c.doc] = "confirmed" /\ credited'[c.doc] = unallocated'[c.doc]
    <3>1. /\ rstatus[c.doc] = "confirmed" /\ c.doc \in Receipts
          /\ credited[c.doc] = unallocated[c.doc] \/ First("creditFromReceipt", c.doc)
      BY <1>d, <1>s, <2>1, <2>2, <2>4 DEF CallFits
    <3> QED
      BY <3>1 DEF First, receiptVars
  <2>5. c.method = "createJournalEntry" /\ c.doc \in Receipts => rstatus'[c.doc] = "confirmed"
    BY <1>s, <2>2 DEF CallFits, receiptVars
  <2> QED
    BY <2>3, <2>4, <2>5
<1>1. ASSUME todo' = Rest PROVE CallsFit'
  <2> SUFFICES ASSUME NEW k \in 1..Len(todo') PROVE CallFits(k)'
    BY DEF CallsFit
  <2>1. k + 1 \in 2..Len(todo) /\ todo'[k] = todo[k + 1]
    BY <1>1, <1>q, QueueShift
  <2>2. /\ todo'[k].method \in FollowUps
        /\ todo'[k].method = "postReceiptCredit" =>
             /\ rstatus'[todo'[k].doc] = "confirmed"
             /\ credited'[todo'[k].doc] = unallocated'[todo'[k].doc]
        /\ todo'[k].method = "createJournalEntry" /\ todo'[k].doc \in Receipts =>
             rstatus'[todo'[k].doc] = "confirmed"
    BY <1>s, <2>1
  <2> QED
    BY <2>2 DEF CallFits, FollowUps
<1>2. ASSUME NEW c \in Calls, todo' = <<c>> \o Rest,
             c.method \in {"updateBalance", "linkJournalEntry", "markReversed"},
             c.method = "linkJournalEntry" /\ c.doc \in Receipts => rstatus[c.doc] = "confirmed"
      PROVE  CallsFit'
  <2>1. /\ Len(todo') = Len(todo) /\ todo'[1] = c
        /\ \A k \in 2..Len(todo) : todo'[k] = todo[k]
    BY <1>2, <1>q, QueueSwap
  <2> SUFFICES ASSUME NEW k \in 1..Len(todo') PROVE CallFits(k)'
    BY DEF CallsFit
  <2>2. CASE k = 1
    BY <1>2, <2>1, <2>2 DEF CallFits, receiptVars
  <2>3. CASE k # 1
    <3>1. k \in 2..Len(todo) /\ todo'[k] = todo[k]
      BY <1>l, <2>1, <2>3
    <3>2. /\ todo'[k].method \in FollowUps
          /\ todo'[k].method = "postReceiptCredit" =>
               /\ rstatus'[todo'[k].doc] = "confirmed"
               /\ credited'[todo'[k].doc] = unallocated'[todo'[k].doc]
          /\ todo'[k].method = "createJournalEntry" /\ todo'[k].doc \in Receipts =>
               rstatus'[todo'[k].doc] = "confirmed"
      BY <1>s, <3>1
    <3> QED
      BY <3>2 DEF CallFits, FollowUps
  <2> QED
    BY <2>2, <2>3
<1> QED
  BY <1>1, <1>2

\* A queue of calls of some kind is made of parts of that kind.
LEMMA QueueParts ==
  ASSUME NEW kind, NEW s \in Seq(kind), NEW t \in Seq(kind)
  PROVE  /\ s \o t \in Seq(kind)
         /\ \A k \in 1..Len(s \o t) : (s \o t)[k] \in kind
<1>1. s \o t \in Seq(kind)
  BY ConcatProperties
<1> QED
  BY <1>1, ElementOfSeq

\* What the queues of invoice requests and of cancellations hold.
InvoiceCalls ==
  {c \in Calls : /\ c.method \in {"postInvoiceDebit", "reverseInvoicePosting",
                                  "createJournalEntry", "reverseJournalEntry"}
                 /\ c.doc \in Invoices}
Reversals ==
  {c \in Calls : c.method \in {"reverseReceiptPosting", "reverseJournalEntry"}}

LEMMA InvoiceRequestQueues ==
  ASSUME TypeOK, InvoiceRequest
  PROVE  todo' \in Seq(InvoiceCalls)
<1>0. <<>> \in Seq(InvoiceCalls)
  OBVIOUS
<1>1. \A i \in Invoices :
        /\ <<Call("postInvoiceDebit", i, 0)>> \in Seq(InvoiceCalls)
        /\ <<Call("createJournalEntry", i, 0)>> \in Seq(InvoiceCalls)
        /\ <<Call("reverseInvoicePosting", i, 0)>> \in Seq(InvoiceCalls)
        /\ <<Call("reverseJournalEntry", i, 0)>> \in Seq(InvoiceCalls)
        /\ BillCalls(i) \in Seq(InvoiceCalls)
  <2> SUFFICES ASSUME NEW i \in Invoices
               PROVE  /\ Call("postInvoiceDebit", i, 0) \in InvoiceCalls
                      /\ Call("createJournalEntry", i, 0) \in InvoiceCalls
                      /\ Call("reverseInvoicePosting", i, 0) \in InvoiceCalls
                      /\ Call("reverseJournalEntry", i, 0) \in InvoiceCalls
    BY DEF BillCalls
  <2>1. /\ Call("postInvoiceDebit", i, 0) \in Calls /\ Call("createJournalEntry", i, 0) \in Calls
        /\ Call("reverseInvoicePosting", i, 0) \in Calls
        /\ Call("reverseJournalEntry", i, 0) \in Calls
    BY CallTyped DEF InvoiceMethods, JournalMethods, Documents
  <2> QED
    BY <2>1 DEF InvoiceCalls, Call
<1>2. \A i \in Invoices : VoidCalls(i) \in Seq(InvoiceCalls)
  BY <1>0, <1>1, QueueParts DEF VoidCalls
<1>3. ASSUME NEW i \in Invoices, NEW j \in Invoices
      PROVE  VoidCalls(i) \o BillCalls(j) \in Seq(InvoiceCalls)
  BY <1>1, <1>2, QueueParts
<1>4. ASSUME NEW i \in Invoices, PostAgain(i) PROVE todo' \in Seq(InvoiceCalls)
  BY <1>0, <1>1, <1>4, QueueParts DEF PostAgain
<1>5. ASSUME NEW i \in Invoices, NEW total, NEW status,
             \/ CreateInvoice(i, total, status) \/ UpdateDraft(i, total) \/ DeleteDraft(i)
             \/ PostDraft(i) \/ CancelInvoice(i)
      PROVE  todo' \in Seq(InvoiceCalls)
  BY <1>0, <1>1, <1>2, <1>5
     DEF CreateInvoice, UpdateDraft, DeleteDraft, PostDraft, CancelInvoice, Idle
<1>6. ASSUME NEW i \in Invoices, NEW j \in Invoices, NEW total, RevisePostedUnpaid(i, j, total)
      PROVE  todo' \in Seq(InvoiceCalls)
  BY <1>3, <1>6 DEF RevisePostedUnpaid
<1> QED
  BY <1>4, <1>5, <1>6 DEF InvoiceRequest

LEMMA InvoiceRequestFits ==
  ASSUME TypeOK, InvoiceRequest
  PROVE  CallsFit'
<1>1. \A k \in 1..Len(todo') : todo'[k] \in InvoiceCalls
  BY InvoiceRequestQueues, ElementOfSeq
<1>2. \A d \in Invoices : d \notin Receipts
  BY SettlementAssumption
<1> QED
  BY <1>1, <1>2 DEF CallsFit, CallFits, InvoiceCalls, FollowUps

\* The calls of a confirmation, one by one.
LEMMA ConfirmQueue ==
  ASSUME NEW r \in Receipts, NEW n \in Int
  PROVE  /\ n > 0 =>
              /\ Len(ConfirmCalls(r, n)) = 3
              /\ ConfirmCalls(r, n)[1] = Call("creditFromReceipt", r, n)
              /\ ConfirmCalls(r, n)[2] = Call("postReceiptCredit", r, 0)
              /\ ConfirmCalls(r, n)[3] = Call("createJournalEntry", r, 0)
         /\ ~(n > 0) =>
              /\ Len(ConfirmCalls(r, n)) = 2
              /\ ConfirmCalls(r, n)[1] = Call("postReceiptCredit", r, 0)
              /\ ConfirmCalls(r, n)[2] = Call("createJournalEntry", r, 0)
<1> DEFINE credit == Call("creditFromReceipt", r, n)
           post == Call("postReceiptCredit", r, 0)
           entry == Call("createJournalEntry", r, 0)
<1> HIDE DEF credit, post, entry
<1>1. <<post, entry>> \in Seq({credit, post, entry}) /\ <<credit>> \in Seq({credit, post, entry})
  OBVIOUS
<1>2. <<>> \o <<post, entry>> = <<post, entry>>
  BY <1>1, ConcatEmptySeq
<1>3. /\ Len(<<credit>> \o <<post, entry>>) = 3
      /\ \A k \in 1..3 : (<<credit>> \o <<post, entry>>)[k] =
                           IF k <= 1 THEN <<credit>>[k] ELSE <<post, entry>>[k - 1]
  <2>1. Len(<<credit>>) = 1 /\ Len(<<post, entry>>) = 2
    OBVIOUS
  <2>2. /\ Len(<<credit>> \o <<post, entry>>) = 1 + 2
        /\ \A k \in 1..(1 + 2) : (<<credit>> \o <<post, entry>>)[k] =
                           IF k <= 1 THEN <<credit>>[k] ELSE <<post, entry>>[k - 1]
    BY <1>1, <2>1, ConcatProperties
  <2> QED
    BY <2>2
<1>4. /\ (<<credit>> \o <<post, entry>>)[1] = credit
      /\ (<<credit>> \o <<post, entry>>)[2] = post
      /\ (<<credit>> \o <<post, entry>>)[3] = entry
  BY <1>3
<1>5. ConfirmCalls(r, n) = (IF n > 0 THEN <<credit>> ELSE <<>>) \o <<post, entry>>
  BY DEF ConfirmCalls, credit, post, entry
<1>6. n > 0 => ConfirmCalls(r, n) = <<credit>> \o <<post, entry>>
  BY <1>5
<1>7. ~(n > 0) => ConfirmCalls(r, n) = <<post, entry>>
  BY <1>2, <1>5
<1>8. /\ n > 0 => /\ Len(ConfirmCalls(r, n)) = 3
                  /\ ConfirmCalls(r, n)[1] = credit
                  /\ ConfirmCalls(r, n)[2] = post
                  /\ ConfirmCalls(r, n)[3] = entry
      /\ ~(n > 0) => /\ Len(ConfirmCalls(r, n)) = 2
                     /\ ConfirmCalls(r, n)[1] = post
                     /\ ConfirmCalls(r, n)[2] = entry
  BY <1>3, <1>4, <1>6, <1>7
<1> QED
  BY <1>8 DEF credit, post, entry

\* The queue of a cancellation: the wallet's call first, then reversals.
LEMMA CancelQueue ==
  ASSUME TypeOK, NEW r \in Receipts, CancelConfirmed(r)
  PROVE  /\ \A k \in 1..Len(todo') : k > 1 => todo'[k] \in Reversals
         /\ todo'[1] \in Reversals \/ todo'[1] = Call("reverseReceiptAdvance", r, unallocated[r])
         /\ todo' # <<>>
<1> DEFINE advance == Call("reverseReceiptAdvance", r, unallocated[r])
           posting == <<Call("reverseReceiptPosting", r, 0)>>
           entry == IF linked[r] THEN <<Call("reverseJournalEntry", r, 0)>> ELSE <<>>
           rest == posting \o entry
<1>1. Call("reverseReceiptPosting", r, 0) \in Reversals /\ Call("reverseJournalEntry", r, 0) \in Reversals
  <2>1. Call("reverseReceiptPosting", r, 0) \in Calls /\ Call("reverseJournalEntry", r, 0) \in Calls
    BY CallTyped DEF ReceiptMethods, JournalMethods, Documents
  <2> QED
    BY <2>1 DEF Reversals, Call
<1>2. posting \in Seq(Reversals) /\ entry \in Seq(Reversals) /\ posting # <<>>
  BY <1>1
<1>3. rest \in Seq(Reversals) /\ rest # <<>>
  BY <1>2, QueueParts, ConcatEqualIffEmpty
<1>4. /\ todo' = (IF unallocated[r] > 0 THEN <<advance>> ELSE <<>>) \o posting \o entry
  BY DEF CancelConfirmed
<1> HIDE DEF posting, entry
<1>5. CASE unallocated[r] > 0
  <2>1. advance \in Calls
    BY <1>5, CallTyped DEF ReceiptMethods, TypeOK, ReceiptTypeOK
  <2> HIDE DEF advance
  <2>2. posting \in Seq(Calls) /\ entry \in Seq(Calls) /\ <<advance>> \in Seq(Calls)
    <3>1. Reversals \subseteq Calls
      BY DEF Reversals
    <3>2. posting \in Seq(Calls) /\ entry \in Seq(Calls)
      BY <1>2, <3>1, SeqMonotonic
    <3> QED
      BY <2>1, <3>2
  <2>3. todo' = <<advance>> \o rest
    <3>1. todo' = (<<advance>> \o posting) \o entry
      BY <1>4, <1>5
    <3>2. (<<advance>> \o posting) \o entry = <<advance>> \o (posting \o entry)
      BY <2>2, ConcatAssociative
    <3> QED
      BY <3>1, <3>2
  <2>4. rest \in Seq(Calls)
    BY <2>2, QueueParts
  <2> HIDE DEF rest
  <2>l. Len(<<advance>>) = 1 /\ Len(rest) \in Nat
    BY <2>4, LenProperties
  <2>5. /\ Len(todo') = 1 + Len(rest)
        /\ \A k \in 1..(1 + Len(rest)) : todo'[k] = IF k <= 1 THEN <<advance>>[k] ELSE rest[k - 1]
    BY <2>2, <2>3, <2>4, <2>l, ConcatProperties
  <2>6. \A k \in 1..Len(rest) : rest[k] \in Reversals
    BY <1>3, ElementOfSeq
  <2>7. todo'[1] = advance
    BY <2>l, <2>5
  <2>8. todo' # <<>>
    BY <2>l, <2>5
  <2>9. ASSUME NEW k \in 1..Len(todo'), k > 1 PROVE todo'[k] \in Reversals
    <3>1. k - 1 \in 1..Len(rest) /\ ~(k <= 1) /\ k \in 1..(1 + Len(rest))
      BY <2>l, <2>5, <2>9
    <3> QED
      BY <2>5, <2>6, <3>1
  <2> QED
    BY <2>7, <2>8, <2>9 DEF advance
<1>6. CASE ~(unallocated[r] > 0)
  <2>1. <<>> \o posting = posting
    BY <1>2, ConcatEmptySeq
  <2>2. todo' = rest
    BY <1>4, <1>6, <2>1
  <2> HIDE DEF rest
  <2>3. Len(rest) \in Nat /\ Len(rest) >= 1
    BY <1>3, EmptySeq
  <2>4. \A k \in 1..Len(rest) : rest[k] \in Reversals
    BY <1>3, ElementOfSeq
  <2> QED
    BY <1>3, <2>2, <2>3, <2>4
<1> QED
  BY <1>5, <1>6

\* Requests that rewrite the row of a receipt nothing is booked of.
LEMMA RowsRewritten ==
  ASSUME Unbooked, LedgerFollowsWallet, UNCHANGED bookVars, NEW r \in Receipts,
         rstatus[r] \in {"absent", "draft"},
         \A s \in Receipts \ {r} : rstatus'[s] = rstatus[s] /\ unallocated'[s] = unallocated[s]
  PROVE  (Unbooked /\ LedgerFollowsWallet)'
BY DEF Unbooked, LedgerFollowsWallet, bookVars, walletVars, journalVars

\* A confirmation queues what its receipt still calls for; that the part left
\* is not negative is what makes the ledger's call right when none is credited.
LEMMA ConfirmDraftBooks ==
  ASSUME TypeOK, TypeOK', ReceiptFullySplit', BooksInv, NEW r \in Receipts, NEW by \in SortedBy(Day), ConfirmDraft(r, by)
  PROVE  BooksInv'
<1> DEFINE n == Remaining(r, Payment(r, by))
<1>1. /\ rstatus[r] = "draft" /\ rstatus'[r] = "confirmed" /\ unallocated'[r] = n
      /\ \A s \in Receipts \ {r} : rstatus'[s] = rstatus[s] /\ unallocated'[s] = unallocated[s]
      /\ UNCHANGED bookVars /\ todo' = ConfirmCalls(r, n)
  BY DEF ConfirmDraft, PayInvoices, TypeOK, ReceiptTypeOK
<1>2. n \in Int
  BY <1>1 DEF TypeOK, ReceiptTypeOK
<1> HIDE DEF n
<1>3. (Unbooked /\ LedgerFollowsWallet)'
  BY <1>1, RowsRewritten DEF BooksInv
<1>4. credited'[r] = 0 /\ n >= 0
  BY <1>1 DEF BooksInv, Unbooked, bookVars, walletVars, ReceiptFullySplit
<1>5. CASE n > 0
  <2>1. /\ Len(todo') = 3 /\ todo' # <<>>
        /\ todo'[1] = Call("creditFromReceipt", r, n)
        /\ todo'[2] = Call("postReceiptCredit", r, 0)
        /\ todo'[3] = Call("createJournalEntry", r, 0)
    BY <1>1, <1>2, <1>5, ConfirmQueue
  <2>2. CallFits(1)' /\ CallFits(2)' /\ CallFits(3)'
    BY <1>1, <2>1 DEF CallFits, Call, FollowUps, First
  <2> QED
    BY <1>3, <2>1, <2>2 DEF BooksInv, CallsFit
<1>6. CASE ~(n > 0)
  <2>1. /\ Len(todo') = 2
        /\ todo'[1] = Call("postReceiptCredit", r, 0)
        /\ todo'[2] = Call("createJournalEntry", r, 0)
    BY <1>1, <1>2, <1>6, ConfirmQueue
  <2>2. credited'[r] = unallocated'[r]
    BY <1>1, <1>2, <1>4, <1>6
  <2>3. CallFits(1)' /\ CallFits(2)'
    BY <1>1, <2>1, <2>2 DEF CallFits, Call, FollowUps
  <2> QED
    BY <1>3, <2>1, <2>3 DEF BooksInv, CallsFit
<1> QED
  BY <1>5, <1>6

LEMMA ReceiptRequestBooks ==
  ASSUME TypeOK, TypeOK', ReceiptFullySplit', BooksInv, ReceiptRequest
  PROVE  BooksInv'
<1>0. ASSUME todo' = <<>> PROVE CallsFit'
  BY <1>0 DEF CallsFit
<1>1. ASSUME NEW r \in Receipts, NEW n, NEW advance, NEW confirm, NEW p,
             CreateReceipt(r, n, advance, p, confirm)
      PROVE  BooksInv'
  <2>1. CallsFit'
    BY <1>1 DEF CreateReceipt, CallsFit, CallFits, Call
  <2>2. \A s \in Receipts \ {r} : rstatus'[s] = rstatus[s] /\ unallocated'[s] = unallocated[s]
    BY <1>1 DEF CreateReceipt, TypeOK, ReceiptTypeOK
  <2> QED
    BY <1>1, <2>1, <2>2, RowsRewritten DEF CreateReceipt, BooksInv
<1>2. ASSUME NEW r \in Receipts, NEW i, NEW n, CreateAllocation(r, i, n) PROVE BooksInv'
  <2>1. \A s \in Receipts \ {r} : rstatus'[s] = rstatus[s] /\ unallocated'[s] = unallocated[s]
    BY <1>2 DEF CreateAllocation, TypeOK, ReceiptTypeOK
  <2> QED
    BY <1>0, <1>2, <2>1, RowsRewritten DEF CreateAllocation, BooksInv, Idle
<1>3. ASSUME NEW r \in Receipts, NEW p, NEW advance, Idle, rstatus[r] = "draft",
             Reassign(r, p, advance)
      PROVE  BooksInv'
  <2>1. \A s \in Receipts \ {r} : rstatus'[s] = rstatus[s] /\ unallocated'[s] = unallocated[s]
    BY <1>3 DEF Reassign, TypeOK, ReceiptTypeOK
  <2> QED
    BY <1>0, <1>3, <2>1, RowsRewritten DEF Reassign, BooksInv, Idle
<1>4. ASSUME NEW r \in Receipts, NEW by \in SortedBy(Day), ConfirmDraft(r, by) PROVE BooksInv'
  BY <1>4, ConfirmDraftBooks
<1>5. ASSUME NEW r \in Receipts, ConfirmAgain(r) PROVE BooksInv'
  <2>1. CallsFit'
    BY <1>5 DEF ConfirmAgain, CallsFit, CallFits, Call, receiptVars
  <2> QED
    BY <1>5, <2>1 DEF ConfirmAgain, BooksInv, Unbooked, LedgerFollowsWallet, receiptVars, bookVars,
                      walletVars, journalVars
<1>6. ASSUME NEW r \in Receipts, CancelDraft(r) PROVE BooksInv'
  <2>1. \A s \in Receipts \ {r} : rstatus'[s] = rstatus[s] /\ unallocated'[s] = unallocated[s]
    BY <1>6 DEF CancelDraft, TypeOK, ReceiptTypeOK
  <2> QED
    BY <1>0, <1>6, <2>1, RowsRewritten DEF CancelDraft, BooksInv, Idle
<1>7. ASSUME NEW r \in Receipts, CancelConfirmed(r) PROVE BooksInv'
  <2>1. CallsFit'
    <3>1. \A k \in 1..Len(todo') :
            \/ todo'[k] \in Reversals
            \/ k = 1 /\ todo'[k] = Call("reverseReceiptAdvance", r, unallocated[r])
      <4>1. /\ \A k \in 1..Len(todo') : k > 1 => todo'[k] \in Reversals
            /\ todo'[1] \in Reversals \/ todo'[1] = Call("reverseReceiptAdvance", r, unallocated[r])
        BY <1>7, CancelQueue
      <4>2. Len(todo') \in Nat
        BY LenProperties DEF TypeOK
      <4> QED
        BY <4>1, <4>2
    <3> QED
      BY <3>1 DEF CallsFit, CallFits, Reversals, Call, FollowUps
  <2>2. \A s \in Receipts : unallocated'[s] = unallocated[s] /\ rstatus'[s] \in {rstatus[s], "cancelled"}
    BY <1>7 DEF CancelConfirmed, ReopenInvoices, TypeOK, ReceiptTypeOK
  <2> QED
    BY <1>7, <2>1, <2>2 DEF CancelConfirmed, BooksInv, Unbooked, LedgerFollowsWallet, bookVars,
                            walletVars, journalVars
<1> QED
  BY <1>1, <1>2, <1>3, <1>4, <1>5, <1>6, <1>7 DEF ReceiptRequest, AutoAllocateFifo, Reallocate

\* The calls: the wallet's comes first and the ledger's finds it made.
LEMMA BookkeepingBooks ==
  ASSUME TypeOK, TypeOK', ReceiptFullySplit', BooksInv, Bookkeeping
  PROVE  BooksInv'
<1>q. todo \in Seq(Calls)
  BY DEF TypeOK
<1>h. ASSUME todo # <<>>
      PROVE  /\ CallFits(1) /\ 1 \in 1..Len(todo) /\ Head(todo) = todo[1]
             /\ doc = todo[1].doc /\ value = todo[1].amount
  <2>1. 1 \in 1..Len(todo)
    BY <1>h, <1>q, QueueHead
  <2> QED
    BY <1>h, <1>q, <2>1, QueueHead DEF BooksInv, CallsFit
<1>k. ASSUME UNCHANGED <<receiptVars, credited, ledger, vouchers, linked>>
      PROVE  (Unbooked /\ LedgerFollowsWallet)'
  BY <1>k DEF BooksInv, Unbooked, LedgerFollowsWallet, receiptVars
<1>1. ASSUME NEW r \in Receipts, NEW by \in SortedBy(Day), ConfirmDraft(r, by) PROVE BooksInv'
  BY <1>1, ConfirmDraftBooks
<1>2. ASSUME NEW r \in Receipts, ConfirmRefused(r) PROVE BooksInv'
  BY <1>2 DEF ConfirmRefused, BooksInv, CallsFit, Unbooked, LedgerFollowsWallet, receiptVars,
              bookVars, walletVars, journalVars
<1>3. ASSUME CreditFromReceipt PROVE BooksInv'
  <2>1. /\ todo # <<>> /\ doc \in Receipts /\ todo[1].method = "creditFromReceipt"
    BY <1>3, <1>h, <1>q, DueDoc DEF CreditFromReceipt, Due, ReceiptMethods
  <2>2. rstatus[doc] = "confirmed" /\ value = unallocated[doc]
    BY <1>h, <2>1 DEF CallFits
  <2>3. /\ credited'[doc] = unallocated[doc]
        /\ \A r \in Receipts \ {doc} : credited'[r] = credited[r]
    <3>1. credited[doc] \in {0, unallocated[doc]}
      BY <2>1 DEF BooksInv, Unbooked
    <3> QED
      BY <1>3, <2>1, <2>2, <3>1 DEF CreditFromReceipt, TypeOK, BookTypeOK
  <2>4. \/ todo' = Rest
        \/ \E c \in Calls : todo' = <<c>> \o Rest /\ c.method = "updateBalance"
    <3>1. balance + value \in Nat
      BY <2>1, <1>q, DueTyped DEF TypeOK, BookTypeOK
    <3>2. Call("updateBalance", doc, balance + value) \in Calls
      BY <2>1, <3>1, CallTyped
    <3> QED
      BY <1>3, <3>2 DEF CreditFromReceipt, Call
  <2>5. CallsFit'
    BY <1>3, <1>h, <2>1, <2>3, <2>4, CallMadeFits DEF BooksInv, CreditFromReceipt
  <2>6. Unbooked'
    BY <1>3, <2>2, <2>3 DEF BooksInv, Unbooked, CreditFromReceipt, receiptVars, journalVars
  <2>7. LedgerFollowsWallet'
    BY <1>3, <2>3 DEF BooksInv, LedgerFollowsWallet, CreditFromReceipt, receiptVars
  <2> QED
    BY <2>5, <2>6, <2>7 DEF BooksInv
<1>4. ASSUME ReverseReceiptAdvance PROVE BooksInv'
  <2>1. /\ todo # <<>> /\ doc \in Receipts /\ todo[1].method = "reverseReceiptAdvance"
    BY <1>4, <1>h, <1>q, DueDoc DEF ReverseReceiptAdvance, Due, ReceiptMethods
  <2>2. \/ todo' = Rest
        \/ \E c \in Calls : todo' = <<c>> \o Rest /\ c.method = "updateBalance"
    <3>1. balance \in Nat /\ value \in Nat
      BY <2>1, <1>q, DueTyped DEF TypeOK, BookTypeOK
    <3>2. balance >= value => Call("updateBalance", doc, balance - value) \in Calls
      BY <2>1, <3>1, CallTyped
    <3> QED
      BY <1>4, <3>2 DEF ReverseReceiptAdvance, Call
  <2>3. CallsFit'
    BY <1>4, <2>1, <2>2, CallMadeFits DEF BooksInv, ReverseReceiptAdvance
  <2> QED
    BY <1>4, <1>k, <2>1, <2>3 DEF BooksInv, ReverseReceiptAdvance, journalVars
<1>5. ASSUME ReverseAdvanceRefused PROVE BooksInv'
  BY <1>5 DEF ReverseAdvanceRefused, BooksInv, CallsFit, Unbooked, LedgerFollowsWallet,
              receiptVars, bookVars, walletVars, journalVars
<1>6. ASSUME UpdateBalance PROVE BooksInv'
  <2>1. todo # <<>> /\ todo[1].method = "updateBalance"
    BY <1>6, <1>h DEF UpdateBalance, Due
  <2>2. CallsFit'
    BY <1>6, <2>1, CallMadeFits DEF BooksInv, UpdateBalance
  <2> QED
    BY <1>6, <2>2 DEF BooksInv, UpdateBalance, Unbooked, LedgerFollowsWallet, receiptVars, journalVars
<1>7. ASSUME NEW method, NEW kind, AppendEntry(method, kind), kind # "receipt",
             method # "creditFromReceipt"
      PROVE  BooksInv'
  <2>1. todo # <<>> /\ todo[1].method = method
    BY <1>7, <1>h DEF AppendEntry, Due
  <2>2. CallsFit'
    BY <1>7, <2>1, CallMadeFits DEF BooksInv, AppendEntry, walletVars
  <2>3. \A r \in Receipts : <<"receipt", r>> \in ledger' <=> <<"receipt", r>> \in ledger
    BY <1>7 DEF AppendEntry
  <2> QED
    BY <1>7, <2>2, <2>3 DEF BooksInv, AppendEntry, Unbooked, LedgerFollowsWallet, receiptVars,
                            walletVars, journalVars
<1>8. ASSUME PostReceiptCredit PROVE BooksInv'
  <2>1. /\ todo # <<>> /\ doc \in Receipts /\ todo[1].method = "postReceiptCredit"
    BY <1>8, <1>h, <1>q, DueDoc DEF PostReceiptCredit, AppendEntry, Due, ReceiptMethods
  <2>2. rstatus[doc] = "confirmed" /\ credited[doc] = unallocated[doc]
    BY <1>h, <2>1 DEF CallFits
  <2>3. CallsFit'
    BY <1>8, <2>1, CallMadeFits DEF BooksInv, PostReceiptCredit, AppendEntry, walletVars
  <2>4. \A r \in Receipts \ {doc} : <<"receipt", r>> \in ledger' <=> <<"receipt", r>> \in ledger
    BY <1>8 DEF PostReceiptCredit, AppendEntry
  <2> QED
    BY <1>8, <2>2, <2>3, <2>4
       DEF BooksInv, PostReceiptCredit, AppendEntry, Unbooked, LedgerFollowsWallet, receiptVars,
           walletVars, journalVars
<1>9. ASSUME CreateJournalEntry PROVE BooksInv'
  <2>1. /\ todo # <<>> /\ doc \in Documents /\ todo[1].method = "createJournalEntry"
    BY <1>9, <1>h, <1>q, DueDoc DEF CreateJournalEntry, Due, JournalMethods
  <2>2. doc \in Receipts => rstatus[doc] = "confirmed"
    BY <1>h, <2>1 DEF CallFits
  <2>3. Call("linkJournalEntry", doc, 0) \in Calls
    BY <2>1, CallTyped DEF JournalMethods
  <2>4. CallsFit'
    <3>1. \/ todo' = Rest
          \/ \E c \in Calls : todo' = <<c>> \o Rest /\ c.method = "linkJournalEntry" /\ c.doc = doc
      BY <1>9, <2>3 DEF CreateJournalEntry, Call
    <3> QED
      BY <1>9, <2>1, <2>2, <3>1, CallMadeFits DEF BooksInv, CreateJournalEntry, walletVars
  <2>5. \A r \in Receipts \ {doc} : vouchers'[r] = vouchers[r]
    BY <1>9 DEF CreateJournalEntry, TypeOK, BookTypeOK, Documents
  <2> QED
    BY <1>9, <2>2, <2>4, <2>5
       DEF BooksInv, CreateJournalEntry, Unbooked, LedgerFollowsWallet, receiptVars, walletVars
<1>10. ASSUME LinkJournalEntry PROVE BooksInv'
  <2>1. /\ todo # <<>> /\ doc \in Documents /\ todo[1].method = "linkJournalEntry"
    BY <1>10, <1>h, <1>q, DueDoc DEF LinkJournalEntry, Due, JournalMethods
  <2>2. doc \in Receipts => rstatus[doc] = "confirmed"
    BY <1>h, <2>1 DEF CallFits
  <2>3. CallsFit'
    BY <1>10, <2>1, CallMadeFits DEF BooksInv, LinkJournalEntry, walletVars
  <2>4. \A r \in Receipts \ {doc} : linked'[r] = linked[r]
    BY <1>10 DEF LinkJournalEntry, TypeOK, BookTypeOK, Documents
  <2> QED
    BY <1>10, <2>2, <2>3, <2>4
       DEF BooksInv, LinkJournalEntry, Unbooked, LedgerFollowsWallet, receiptVars, walletVars
<1>11. ASSUME ReverseJournalEntry \/ MarkReversed PROVE BooksInv'
  <2>1. /\ todo # <<>> /\ doc \in Documents
        /\ todo[1].method \in {"reverseJournalEntry", "markReversed"}
    BY <1>11, <1>h, <1>q, DueDoc DEF ReverseJournalEntry, MarkReversed, Due, JournalMethods
  <2>2. Call("markReversed", doc, 0) \in Calls
    BY <2>1, CallTyped DEF JournalMethods
  <2>3. \/ todo' = Rest
        \/ \E c \in Calls : todo' = <<c>> \o Rest /\ c.method = "markReversed"
    BY <1>11, <2>2 DEF ReverseJournalEntry, MarkReversed, Call
  <2>4. UNCHANGED <<receiptVars, walletVars, ledger, vouchers, linked>>
    BY <1>11 DEF ReverseJournalEntry, MarkReversed
  <2>5. CallsFit'
    BY <2>1, <2>3, <2>4, CallMadeFits DEF BooksInv, walletVars
  <2> QED
    BY <2>4, <2>5 DEF BooksInv, Unbooked, LedgerFollowsWallet, receiptVars, walletVars
<1>12. PostInvoiceDebit \/ ReverseInvoicePosting \/ ReverseReceiptPosting => BooksInv'
  BY <1>7 DEF PostInvoiceDebit, ReverseInvoicePosting, ReverseReceiptPosting
<1> QED
  BY <1>1, <1>2, <1>3, <1>4, <1>5, <1>6, <1>8, <1>9, <1>10, <1>11, <1>12 DEF Bookkeeping

LEMMA StepBooks ==
  ASSUME TypeOK, ReceiptFullySplit, BooksInv, [Next]_vars
  PROVE  BooksInv'
<1>t. TypeOK' /\ ReceiptFullySplit'
  BY StepTypes, StepSplits
<1>k. ASSUME UNCHANGED <<receiptVars, credited, ledger, journalVars>>
      PROVE  (Unbooked /\ LedgerFollowsWallet)'
  BY <1>k DEF BooksInv, Unbooked, LedgerFollowsWallet, receiptVars, journalVars
<1>1. ASSUME InvoiceRequest PROVE BooksInv'
  <2>1. UNCHANGED <<receiptVars, bookVars>>
    BY <1>1 DEF InvoiceRequest, CreateInvoice, UpdateDraft, DeleteDraft, PostDraft, PostAgain,
                CancelInvoice, RevisePostedUnpaid
  <2> QED
    BY <1>1, <1>k, <2>1, InvoiceRequestFits DEF BooksInv, bookVars, walletVars
<1>2. ASSUME WalletRequest PROVE BooksInv'
  <2>1. PICK n \in Amounts \cup {0}, m \in Amounts \cup {0} : AdjustWallet(n, m)
    BY <1>2 DEF WalletRequest
  <2>2. CallsFit'
    BY <2>1 DEF AdjustWallet, CallsFit, CallFits, Call
  <2> QED
    BY <1>k, <2>1, <2>2 DEF BooksInv, AdjustWallet
<1>3. ASSUME Fault PROVE BooksInv'
  BY <1>3, <1>k DEF Fault, BooksInv, CallsFit, bookVars, walletVars
<1>4. ASSUME UNCHANGED vars PROVE BooksInv'
  <2>1. CallsFit'
    BY <1>4 DEF BooksInv, CallsFit, CallFits, First, vars, receiptVars, bookVars, walletVars
  <2> QED
    BY <1>4, <1>k, <2>1 DEF BooksInv, vars, bookVars, walletVars
<1> QED
  BY <1>t, <1>1, <1>2, <1>3, <1>4, ReceiptRequestBooks, BookkeepingBooks DEF Next

THEOREM BooksInvariant == Spec => [](TypeOK /\ ReceiptFullySplit /\ BooksInv)
<1>1. Init => BooksInv
  BY DEF Init, BooksInv, CallsFit, Unbooked, LedgerFollowsWallet, Documents
<1>2. Init => TypeOK /\ ReceiptFullySplit /\ BooksInv
  BY <1>1, InitTypes DEF Init, ReceiptFullySplit
<1>3. TypeOK /\ ReceiptFullySplit /\ BooksInv /\ [Next]_vars
        => (TypeOK /\ ReceiptFullySplit /\ BooksInv)'
  BY StepTypes, StepSplits, StepBooks
<1> QED
  BY <1>2, <1>3, PTL DEF Spec

\* A credit in the retailer's ledger follows the wallet's for the part of the
\* receipt that paid no invoice, however many requests stop half way.
THEOREM LedgerAfterWallet == Spec => []LedgerFollowsWallet
BY BooksInvariant, PTL DEF BooksInv
-----------------------------------------------------------------------
(* Without a request that stopped half way the wallet balances and every  *)
(* confirmed receipt is booked once.  Both say what a queue, while it is   *)
(* worked off, still owes the books.                                      *)

\* The net of the wallet transactions recorded so far.
Recorded == Total(credited, Receipts) - Total(debited, Receipts) + adjusted

\* The balance is the net of the transactions, or is about to be written so.
WalletInv ==
  IF todo # <<>> /\ todo[1].method = "updateBalance"
  THEN todo[1].amount = Recorded
  ELSE balance = Recorded

\* A confirmed receipt is in each book or its call is queued.
Booked(r) ==
  /\ credited[r] = unallocated[r] \/ First("creditFromReceipt", r)
  /\ <<"receipt", r>> \in ledger \/ Queued("postReceiptCredit", r)
  /\ \/ linked[r] /\ vouchers[r] = 1
     \/ ~linked[r] /\ vouchers[r] = 0 /\ Queued("createJournalEntry", r)
     \/ ~linked[r] /\ vouchers[r] = 1 /\ First("linkJournalEntry", r)

\* A refused reversal drops no call that books a receipt.
ReversalAlone ==
  \A k \in 1..Len(todo) :
    todo[1].method = "reverseReceiptAdvance" =>
      todo[k].method \notin {"postReceiptCredit", "createJournalEntry"}

\* A confirmation is the only call of its queue.
ConfirmAlone == \A k \in 1..Len(todo) : todo[1].method = "confirm" => k = 1

BookedInv ==
  /\ \A r \in Receipts : rstatus[r] = "confirmed" => Booked(r)
  /\ \A r \in Receipts : First("linkJournalEntry", r) => vouchers[r] = 1 /\ ~linked[r]
  /\ ReversalAlone /\ ConfirmAlone

\* How the net moves with the transaction of one receipt.
LEMMA RecordedMoves ==
  ASSUME BookTypeOK, BookTypeOK', NEW r \in Receipts, UNCHANGED adjusted,
         \A s \in Receipts \ {r} : credited'[s] = credited[s] /\ debited'[s] = debited[s]
  PROVE  /\ Recorded' - Recorded = credited'[r] - credited[r] - (debited'[r] - debited[r])
         /\ Recorded \in Int /\ Recorded' \in Int
<1>1. /\ \A s \in Receipts : credited[s] \in Nat /\ debited[s] \in Nat
      /\ \A s \in Receipts : credited'[s] \in Nat /\ debited'[s] \in Nat
      /\ adjusted \in Int
  BY DEF BookTypeOK
<1>2. Total(credited', Receipts) + credited[r] = Total(credited, Receipts) + credited'[r]
  BY <1>1, SettlementAssumption, TotalMoves
<1>3. Total(debited', Receipts) + debited[r] = Total(debited, Receipts) + debited'[r]
  BY <1>1, SettlementAssumption, TotalMoves
<1>4. /\ Total(credited, Receipts) \in Nat /\ Total(credited', Receipts) \in Nat
      /\ Total(debited, Receipts) \in Nat /\ Total(debited', Receipts) \in Nat
  BY <1>1, SettlementAssumption, TotalNat
<1>5. /\ Recorded = Total(credited, Receipts) - Total(debited, Receipts) + adjusted
      /\ Recorded' = Total(credited', Receipts) - Total(debited', Receipts) + adjusted
  BY DEF Recorded
<1>6. /\ credited[r] \in Nat /\ credited'[r] \in Nat
      /\ debited[r] \in Nat /\ debited'[r] \in Nat /\ adjusted \in Int
  BY <1>1
<1> QED
  BY <1>2, <1>3, <1>4, <1>5, <1>6

LEMMA RecordedKept ==
  ASSUME UNCHANGED <<credited, debited, adjusted>>
  PROVE  Recorded' = Recorded
BY DEF Recorded

\* A step that neither finds nor leaves a balance to be written.
LEMMA WalletKept ==
  ASSUME WalletInv, UNCHANGED walletVars,
         todo = <<>> \/ todo[1].method # "updateBalance",
         todo' = <<>> \/ todo'[1].method # "updateBalance"
  PROVE  WalletInv'
<1>1. Recorded' = Recorded
  BY RecordedKept DEF walletVars
<1> QED
  BY <1>1 DEF WalletInv, walletVars

\* What is left of a queue does not start with a write of the balance.
LEMMA RestIsFollowUp ==
  ASSUME TypeOK, BooksInv, todo # <<>>, todo' = Rest
  PROVE  todo' = <<>> \/ todo'[1].method \in FollowUps
<1>1. todo \in Seq(Calls) /\ todo' \in Seq(Calls)
  BY DueTyped DEF TypeOK
<1>2. /\ Len(todo') \in Nat
      /\ \A k \in 1..Len(todo') : todo'[k] = todo[k + 1] /\ k + 1 \in 2..Len(todo)
  BY <1>1, QueueShift
<1>3. ASSUME todo' # <<>> PROVE todo'[1].method \in FollowUps
  <2>1. 1 \in 1..Len(todo')
    BY <1>1, <1>2, <1>3, EmptySeq
  <2>2. todo'[1] = todo[2] /\ 2 \in 2..Len(todo)
    BY <1>2, <2>1
  <2>3. 2 \in 1..Len(todo)
    BY <1>1, <2>2, LenProperties
  <2> QED
    BY <2>2, <2>3 DEF BooksInv, CallsFit, CallFits
<1> QED
  BY <1>3

LEMMA CallWallet ==
  ASSUME TypeOK, TypeOK', BooksInv, WalletInv,
         CreditFromReceipt \/ ReverseReceiptAdvance \/ UpdateBalance
  PROVE  WalletInv'
<1>q. todo \in Seq(Calls) /\ todo # <<>>
  BY DEF TypeOK, CreditFromReceipt, ReverseReceiptAdvance, UpdateBalance, Due
<1>h. Head(todo) = todo[1] /\ doc = todo[1].doc /\ value = todo[1].amount
  BY <1>q, QueueHead
<1>b. BookTypeOK /\ BookTypeOK' /\ balance \in Nat /\ value \in Nat
  BY <1>q, DueTyped DEF TypeOK, BookTypeOK
<1>1. ASSUME CreditFromReceipt PROVE WalletInv'
  <2>1. doc \in Receipts /\ todo[1].method = "creditFromReceipt"
    BY <1>1, <1>h, <1>q, DueDoc DEF CreditFromReceipt, Due, ReceiptMethods
  <2>2. balance = Recorded
    BY <2>1 DEF WalletInv
  <2>3. CASE credited[doc] > 0
    <3>1. todo' = Rest /\ UNCHANGED walletVars
      BY <1>1, <2>1, <2>3, <1>b DEF CreditFromReceipt, walletVars, BookTypeOK
    <3> QED
      BY <1>q, <2>1, <3>1, RestIsFollowUp, WalletKept DEF FollowUps
  <2>4. CASE ~(credited[doc] > 0)
    <3>1. /\ credited[doc] = 0 /\ credited' = [credited EXCEPT ![doc] = value]
          /\ todo' = <<Call("updateBalance", doc, balance + value)>> \o Rest
          /\ UNCHANGED <<balance, debited, adjusted>>
      BY <1>1, <2>4 DEF CreditFromReceipt
    <3>2. /\ credited'[doc] = value /\ debited'[doc] = debited[doc]
          /\ \A s \in Receipts \ {doc} : credited'[s] = credited[s] /\ debited'[s] = debited[s]
          /\ debited[doc] \in Nat
      BY <1>b, <2>1, <3>1 DEF BookTypeOK
    <3>3. /\ Recorded' - Recorded = credited'[doc] - credited[doc] - (debited'[doc] - debited[doc])
          /\ Recorded \in Int /\ Recorded' \in Int
      BY <1>b, <2>1, <3>1, <3>2, RecordedMoves
    <3>4. Recorded' = balance + value
      BY <1>b, <2>2, <3>1, <3>2, <3>3
    <3>5. Call("updateBalance", doc, balance + value) \in Calls
      BY <1>b, <2>1, CallTyped
    <3>6. todo'[1] = Call("updateBalance", doc, balance + value) /\ todo' # <<>>
      BY <1>q, <3>1, <3>5, QueueSwap
    <3> QED
      BY <3>4, <3>6 DEF WalletInv, Call
  <2> QED
    BY <2>3, <2>4
<1>2. ASSUME ReverseReceiptAdvance PROVE WalletInv'
  <2>1. doc \in Receipts /\ todo[1].method = "reverseReceiptAdvance"
    BY <1>2, <1>h, <1>q, DueDoc DEF ReverseReceiptAdvance, Due, ReceiptMethods
  <2>2. balance = Recorded
    BY <2>1 DEF WalletInv
  <2>3. CASE debited[doc] > 0
    <3>1. todo' = Rest /\ UNCHANGED walletVars
      BY <1>2, <2>1, <2>3, <1>b DEF ReverseReceiptAdvance, walletVars, BookTypeOK
    <3> QED
      BY <1>q, <2>1, <3>1, RestIsFollowUp, WalletKept DEF FollowUps
  <2>4. CASE ~(debited[doc] > 0)
    <3>1. /\ debited[doc] = 0 /\ debited' = [debited EXCEPT ![doc] = value] /\ balance >= value
          /\ todo' = <<Call("updateBalance", doc, balance - value)>> \o Rest
          /\ UNCHANGED <<balance, credited, adjusted>>
      BY <1>2, <2>4 DEF ReverseReceiptAdvance
    <3>2. /\ debited'[doc] = value /\ credited'[doc] = credited[doc]
          /\ \A s \in Receipts \ {doc} : credited'[s] = credited[s] /\ debited'[s] = debited[s]
          /\ credited[doc] \in Nat
      BY <1>b, <2>1, <3>1 DEF BookTypeOK
    <3>3. /\ Recorded' - Recorded = credited'[doc] - credited[doc] - (debited'[doc] - debited[doc])
          /\ Recorded \in Int /\ Recorded' \in Int
      BY <1>b, <2>1, <3>1, <3>2, RecordedMoves
    <3>4. Recorded' = balance - value
      BY <1>b, <2>2, <3>1, <3>2, <3>3
    <3>5. Call("updateBalance", doc, balance - value) \in Calls
      BY <1>b, <2>1, <3>1, CallTyped
    <3>6. todo'[1] = Call("updateBalance", doc, balance - value) /\ todo' # <<>>
      BY <1>q, <3>1, <3>5, QueueSwap
    <3> QED
      BY <3>4, <3>6 DEF WalletInv, Call
  <2> QED
    BY <2>3, <2>4
<1>3. ASSUME UpdateBalance PROVE WalletInv'
  <2>1. todo[1].method = "updateBalance" /\ balance' = todo[1].amount /\ todo' = Rest
    BY <1>3, <1>h DEF UpdateBalance, Due
  <2>2. balance' = Recorded
    BY <1>q, <2>1 DEF WalletInv
  <2>3. Recorded' = Recorded
    BY <1>3, RecordedKept DEF UpdateBalance
  <2>4. todo' = <<>> \/ todo'[1].method \in FollowUps
    BY <1>q, <2>1, RestIsFollowUp
  <2> QED
    BY <2>2, <2>3, <2>4 DEF WalletInv, FollowUps
<1> QED
  BY <1>1, <1>2, <1>3

LEMMA StepWallet ==
  ASSUME TypeOK, ReceiptFullySplit, BooksInv, WalletInv, [Next]_vars, faults' = 0
  PROVE  WalletInv'
<1>t. TypeOK'
  BY StepTypes
<1>i. ASSUME Idle, UNCHANGED walletVars, todo' = <<>> \/ todo'[1].method # "updateBalance"
      PROVE  WalletInv'
  BY <1>i, WalletKept DEF Idle
<1>1. ASSUME InvoiceRequest PROVE WalletInv'
  <2>1. Idle /\ UNCHANGED walletVars
    BY <1>1 DEF InvoiceRequest, CreateInvoice, UpdateDraft, DeleteDraft, DraftEditable, PostDraft,
                PostAgain, CancelInvoice, RevisePostedUnpaid, bookVars
  <2>2. todo' \in Seq(InvoiceCalls)
    BY <1>1, InvoiceRequestQueues
  <2>3. todo' = <<>> \/ todo'[1] \in InvoiceCalls
    <3>1. todo' # <<>> => 1 \in 1..Len(todo')
      BY <2>2, EmptySeq
    <3> QED
      BY <2>2, <3>1, ElementOfSeq
  <2> QED
    BY <1>i, <2>1, <2>3 DEF InvoiceCalls
<1>2. ASSUME NEW r \in Receipts, NEW by \in SortedBy(Day), ConfirmDraft(r, by) PROVE WalletInv'
  <2>1. unallocated'[r] = Remaining(r, Payment(r, by)) /\ unallocated'[r] \in Int
    BY <1>2, <1>t DEF ConfirmDraft, PayInvoices, TypeOK, ReceiptTypeOK
  <2>2. todo'[1].method \in {"creditFromReceipt", "postReceiptCredit"}
    <3> DEFINE n == Remaining(r, Payment(r, by))
    <3>1. todo' = ConfirmCalls(r, n) /\ n \in Int
      BY <1>2, <2>1 DEF ConfirmDraft
    <3> HIDE DEF n
    <3>2. \/ ConfirmCalls(r, n)[1] = Call("creditFromReceipt", r, n)
          \/ ConfirmCalls(r, n)[1] = Call("postReceiptCredit", r, 0)
      BY <3>1, ConfirmQueue
    <3> QED
      BY <3>1, <3>2 DEF Call
  <2>3. todo = <<>> \/ todo[1].method = "confirm"
    BY <1>2 DEF ConfirmDraft, Confirming, Idle, Call
  <2> QED
    BY <1>2, <2>2, <2>3, WalletKept DEF ConfirmDraft, bookVars
<1>3. ASSUME ReceiptRequest PROVE WalletInv'
  <2>1. ASSUME NEW r \in Receipts, NEW n, NEW advance, NEW confirm, NEW p,
               CreateReceipt(r, n, advance, p, confirm)
        PROVE  WalletInv'
    BY <1>i, <2>1 DEF CreateReceipt, Call, bookVars
  <2>2. ASSUME NEW r \in Receipts, NEW i, NEW n, CreateAllocation(r, i, n) PROVE WalletInv'
    BY <1>i, <2>2 DEF CreateAllocation, bookVars, Idle
  <2>3. ASSUME NEW r \in Receipts, NEW p, NEW advance, Idle, Reassign(r, p, advance)
        PROVE  WalletInv'
    BY <1>i, <2>3 DEF Reassign, bookVars, Idle
  <2>4. ASSUME NEW r \in Receipts, ConfirmAgain(r) \/ CancelDraft(r) PROVE WalletInv'
    BY <1>i, <2>4 DEF ConfirmAgain, CancelDraft, Call, bookVars, Idle
  <2>5. ASSUME NEW r \in Receipts, CancelConfirmed(r) PROVE WalletInv'
    <3>1. todo'[1] \in Reversals \/ todo'[1] = Call("reverseReceiptAdvance", r, unallocated[r])
      BY <2>5, CancelQueue
    <3>2. todo'[1].method # "updateBalance"
      BY <3>1 DEF Reversals, Call
    <3> QED
      BY <1>i, <2>5, <3>2 DEF CancelConfirmed, bookVars
  <2> QED
    BY <1>2, <1>3, <2>1, <2>2, <2>3, <2>4, <2>5 DEF ReceiptRequest, AutoAllocateFifo, Reallocate
<1>4. ASSUME WalletRequest PROVE WalletInv'
  <2>1. PICK n \in Amounts \cup {0}, m \in Amounts \cup {0} : AdjustWallet(n, m)
    BY <1>4 DEF WalletRequest
  <2>2. balance = Recorded /\ balance \in Nat /\ n \in Nat /\ m \in Nat
    BY <2>1, SettlementAssumption DEF AdjustWallet, Idle, WalletInv, TypeOK, BookTypeOK
  <2>3. Recorded' = balance + n - m
    <3>1. Total(credited, Receipts) \in Nat /\ Total(debited, Receipts) \in Nat /\ adjusted \in Int
      <4>1. \A r \in Receipts : credited[r] \in Nat /\ debited[r] \in Nat
        BY DEF TypeOK, BookTypeOK
      <4> QED
        BY <4>1, SettlementAssumption, TotalNat DEF TypeOK, BookTypeOK
    <3>2. Recorded' = Total(credited, Receipts) - Total(debited, Receipts) + (adjusted + n - m)
      BY <2>1 DEF AdjustWallet, Recorded
    <3>3. balance = Total(credited, Receipts) - Total(debited, Receipts) + adjusted
      BY <2>2 DEF Recorded
    <3> QED
      BY <2>2, <3>1, <3>2, <3>3
  <2>4. todo' = <<Call("updateBalance", "wallet", balance + n - m)>>
    BY <2>1 DEF AdjustWallet
  <2> QED
    BY <2>3, <2>4 DEF WalletInv, Call
<1>5. ASSUME Bookkeeping PROVE WalletInv'
  <2>1. ASSUME NEW r \in Receipts, ConfirmRefused(r) PROVE WalletInv'
    <3>1. todo[1].method = "confirm" /\ todo' = <<>> /\ UNCHANGED walletVars
      BY <2>1 DEF ConfirmRefused, Call, bookVars
    <3> QED
      BY <3>1, WalletKept
  <2>2. ASSUME ReverseAdvanceRefused PROVE WalletInv'
    <3>1. todo[1].method = "reverseReceiptAdvance" /\ todo' = <<>> /\ UNCHANGED walletVars
      BY <2>2, QueueHead DEF ReverseAdvanceRefused, Due, TypeOK, bookVars
    <3> QED
      BY <3>1, WalletKept
  <2>3. ASSUME NEW method \in FollowUps \cup {"linkJournalEntry", "markReversed"},
               Due(method), UNCHANGED walletVars,
               \/ todo' = Rest
               \/ \E c \in Calls : /\ todo' = <<c>> \o Rest
                                   /\ c.method \in {"linkJournalEntry", "markReversed"}
        PROVE  WalletInv'
    <3>1. todo # <<>> /\ todo[1].method = method /\ todo \in Seq(Calls)
      BY <2>3, QueueHead DEF Due, TypeOK
    <3>2. CASE todo' = Rest
      BY <2>3, <3>1, <3>2, RestIsFollowUp, WalletKept DEF FollowUps
    <3>3. ASSUME NEW c \in Calls, todo' = <<c>> \o Rest,
                 c.method \in {"linkJournalEntry", "markReversed"}
          PROVE  WalletInv'
      <4>1. todo'[1] = c
        BY <3>1, <3>3, QueueSwap
      <4> QED
        BY <2>3, <3>1, <3>3, <4>1, WalletKept DEF FollowUps
    <3> QED
      BY <2>3, <3>2, <3>3
  <2>4. ASSUME NEW method \in FollowUps, NEW kind, AppendEntry(method, kind) PROVE WalletInv'
    BY <2>3, <2>4 DEF AppendEntry
  <2>5. PostInvoiceDebit \/ ReverseInvoicePosting \/ PostReceiptCredit \/ ReverseReceiptPosting
          => WalletInv'
    BY <2>4 DEF PostInvoiceDebit, ReverseInvoicePosting, PostReceiptCredit, ReverseReceiptPosting,
                FollowUps
  <2>6. ASSUME CreateJournalEntry \/ ReverseJournalEntry PROVE WalletInv'
    <3>1. doc \in Documents
      BY <2>6, DueDoc DEF CreateJournalEntry, ReverseJournalEntry, TypeOK, JournalMethods
    <3>2. Call("linkJournalEntry", doc, 0) \in Calls /\ Call("markReversed", doc, 0) \in Calls
      BY <3>1, CallTyped DEF JournalMethods
    <3> QED
      BY <2>3, <2>6, <3>2 DEF CreateJournalEntry, ReverseJournalEntry, FollowUps, Call
  <2>7. ASSUME LinkJournalEntry \/ MarkReversed PROVE WalletInv'
    BY <2>3, <2>7 DEF LinkJournalEntry, MarkReversed
  <2> QED
    BY <1>2, <1>5, <1>t, <2>1, <2>2, <2>5, <2>6, <2>7, CallWallet DEF Bookkeeping
<1>6. ASSUME UNCHANGED vars PROVE WalletInv'
  <2>1. Recorded' = Recorded
    BY <1>6, RecordedKept DEF vars, bookVars, walletVars
  <2> QED
    BY <1>6, <2>1 DEF WalletInv, vars, bookVars, walletVars
<1>7. ~Fault
  BY DEF Fault, TypeOK
<1> QED
  BY <1>1, <1>3, <1>4, <1>5, <1>6, <1>7 DEF Next

\* A queued call stays queued until it is the one that is made.
LEMMA QueuedStays ==
  ASSUME TypeOK, todo # <<>>, NEW method, NEW d, Queued(method, d),
         todo[1].method # method \/ todo[1].doc # d,
         todo' = Rest \/ \E c \in Calls : todo' = <<c>> \o Rest
  PROVE  Queued(method, d)'
<1>q. todo \in Seq(Calls) /\ Len(todo) \in Nat
  BY LenProperties DEF TypeOK
<1>1. PICK k \in 1..Len(todo) : todo[k].method = method /\ todo[k].doc = d
  BY DEF Queued
<1>2. k \in 2..Len(todo)
  BY <1>1, <1>q
<1>3. CASE todo' = Rest
  <2>1. todo[k] = todo'[k - 1] /\ k - 1 \in 1..Len(todo')
    BY <1>2, <1>3, <1>q, QueueShift
  <2> QED
    BY <1>1, <2>1 DEF Queued
<1>4. ASSUME NEW c \in Calls, todo' = <<c>> \o Rest PROVE Queued(method, d)'
  <2>1. todo'[k] = todo[k] /\ Len(todo') = Len(todo)
    BY <1>2, <1>4, <1>q, QueueSwap
  <2> QED
    BY <1>1, <2>1 DEF Queued
<1> QED
  BY <1>3, <1>4

\* After a call, the first of the queue is one that follows others or a write
\* the call left to be made.
LEMMA NextFirst ==
  ASSUME TypeOK, BooksInv, todo # <<>>, NEW kinds,
         \/ todo' = Rest
         \/ \E c \in Calls : todo' = <<c>> \o Rest /\ c.method \in kinds
  PROVE  todo' = <<>> \/ todo'[1].method \in FollowUps \cup kinds
<1>1. CASE todo' = Rest
  BY <1>1, RestIsFollowUp
<1>2. ASSUME NEW c \in Calls, todo' = <<c>> \o Rest, c.method \in kinds
      PROVE  todo'[1].method \in kinds
  BY <1>2, QueueSwap DEF TypeOK
<1> QED
  BY <1>1, <1>2

\* Queues that start neither with a confirmation nor with a reversal.
LEMMA NeitherAlone ==
  ASSUME todo' = <<>> \/ todo'[1].method \notin {"confirm", "reverseReceiptAdvance"}
  PROVE  (ReversalAlone /\ ConfirmAlone)'
<1>1. todo' = <<>> => Len(todo') = 0
  OBVIOUS
<1> QED
  BY <1>1 DEF ReversalAlone, ConfirmAlone

\* Nothing is queued: each confirmed receipt is booked.
LEMMA IdleBooks ==
  ASSUME BookedInv, NEW r \in Receipts, rstatus[r] = "confirmed",
         todo = <<>> \/ \E d : todo = <<Call("confirm", d, 0)>>
  PROVE  credited[r] = unallocated[r] /\ <<"receipt", r>> \in ledger /\ linked[r] /\ vouchers[r] = 1
<1>1. /\ ~First("creditFromReceipt", r) /\ ~First("linkJournalEntry", r)
      /\ ~Queued("postReceiptCredit", r) /\ ~Queued("createJournalEntry", r)
  BY DEF First, Queued, Call
<1> QED
  BY <1>1 DEF BookedInv, Booked

\* A request that confirms nothing leaves what is booked.
LEMMA RequestBooked ==
  ASSUME BookedInv, Idle, UNCHANGED <<credited, ledger, vouchers, linked>>,
         \A s \in Receipts : rstatus'[s] = "confirmed" =>
           rstatus[s] = "confirmed" /\ unallocated'[s] = unallocated[s],
         todo' = <<>> \/ todo'[1].method # "linkJournalEntry",
         (ReversalAlone /\ ConfirmAlone)'
  PROVE  BookedInv'
BY IdleBooks DEF BookedInv, Booked, Idle, First

LEMMA ReceiptRequestBooked ==
  ASSUME TypeOK, TypeOK', ReceiptFullySplit', BooksInv, BookedInv,
         ReceiptRequest \/ \E r \in Receipts, by \in SortedBy(Day) : ConfirmDraft(r, by)
  PROVE  BookedInv'
<1>b. UNCHANGED bookVars => UNCHANGED <<credited, ledger, vouchers, linked>>
  BY DEF bookVars, walletVars, journalVars
<1>1. ASSUME NEW r \in Receipts, NEW n, NEW advance, NEW confirm, NEW p,
             CreateReceipt(r, n, advance, p, confirm)
      PROVE  BookedInv'
  <2>1. \A s \in Receipts : rstatus'[s] = "confirmed" =>
          rstatus[s] = "confirmed" /\ unallocated'[s] = unallocated[s]
    BY <1>1 DEF CreateReceipt, TypeOK, ReceiptTypeOK
  <2>2. (ReversalAlone /\ ConfirmAlone)' /\ (todo' = <<>> \/ todo'[1].method = "confirm")
    BY <1>1 DEF CreateReceipt, ReversalAlone, ConfirmAlone, Call
  <2> QED
    BY <1>1, <1>b, <2>1, <2>2, RequestBooked DEF CreateReceipt
<1>2. ASSUME NEW r \in Receipts, Idle, todo' = todo, rstatus[r] = "draft", UNCHANGED bookVars,
             rstatus'[r] \in {"draft", "cancelled"},
             \A s \in Receipts \ {r} : rstatus'[s] = rstatus[s] /\ unallocated'[s] = unallocated[s]
      PROVE  BookedInv'
  <2>1. (ReversalAlone /\ ConfirmAlone)'
    BY <1>2, NeitherAlone DEF Idle
  <2> QED
    BY <1>2, <1>b, <2>1, RequestBooked DEF Idle
<1>3. ASSUME NEW r \in Receipts, NEW i, NEW n, CreateAllocation(r, i, n) PROVE BookedInv'
  BY <1>2, <1>3 DEF CreateAllocation, TypeOK, ReceiptTypeOK
<1>4. ASSUME NEW r \in Receipts, NEW p, NEW advance, Idle, rstatus[r] = "draft",
             Reassign(r, p, advance)
      PROVE  BookedInv'
  BY <1>2, <1>4 DEF Reassign, TypeOK, ReceiptTypeOK
<1>5. ASSUME NEW r \in Receipts, CancelDraft(r) PROVE BookedInv'
  BY <1>2, <1>5 DEF CancelDraft, TypeOK, ReceiptTypeOK
<1>6. ASSUME NEW r \in Receipts, ConfirmAgain(r) PROVE BookedInv'
  <2>1. todo'[1].method = "createJournalEntry"
    BY <1>6 DEF ConfirmAgain, Call
  <2> QED
    BY <1>6, <1>b, <2>1, NeitherAlone, RequestBooked DEF ConfirmAgain, receiptVars
<1>7. ASSUME NEW r \in Receipts, CancelConfirmed(r) PROVE BookedInv'
  <2>1. /\ \A k \in 1..Len(todo') : k > 1 => todo'[k] \in Reversals
        /\ todo'[1] \in Reversals \/ todo'[1] = Call("reverseReceiptAdvance", r, unallocated[r])
    BY <1>7, CancelQueue
  <2>2. todo'[1].method \in {"reverseReceiptPosting", "reverseJournalEntry", "reverseReceiptAdvance"}
    BY <2>1 DEF Reversals, Call
  <2>l. Len(todo') \in Nat
    BY LenProperties DEF TypeOK
  <2>3. ReversalAlone'
    <3> SUFFICES ASSUME NEW k \in 1..Len(todo')
                 PROVE  todo'[k].method \notin {"postReceiptCredit", "createJournalEntry"}
      BY DEF ReversalAlone
    <3>1. CASE k = 1
      BY <2>2, <3>1
    <3>2. CASE k # 1
      <4>1. todo'[k] \in Reversals
        BY <2>1, <2>l, <3>2
      <4> QED
        BY <4>1 DEF Reversals
    <3> QED
      BY <3>1, <3>2
  <2>4. ConfirmAlone'
    BY <2>2 DEF ConfirmAlone
  <2>5. \A s \in Receipts : rstatus'[s] = "confirmed" =>
          rstatus[s] = "confirmed" /\ unallocated'[s] = unallocated[s]
    BY <1>7 DEF CancelConfirmed, ReopenInvoices, TypeOK, ReceiptTypeOK
  <2> QED
    BY <1>7, <1>b, <2>2, <2>3, <2>4, <2>5, RequestBooked DEF CancelConfirmed
<1>8. ASSUME NEW r \in Receipts, NEW by \in SortedBy(Day), ConfirmDraft(r, by) PROVE BookedInv'
  <2> DEFINE n == Remaining(r, Payment(r, by))
  <2>1. /\ rstatus[r] = "draft" /\ rstatus'[r] = "confirmed" /\ unallocated'[r] = n
        /\ \A s \in Receipts \ {r} : rstatus'[s] = rstatus[s] /\ unallocated'[s] = unallocated[s]
        /\ UNCHANGED bookVars /\ todo' = ConfirmCalls(r, n)
    BY <1>8 DEF ConfirmDraft, PayInvoices, TypeOK, ReceiptTypeOK
  <2>2. todo = <<>> \/ \E d : todo = <<Call("confirm", d, 0)>>
    BY <1>8 DEF ConfirmDraft, Confirming, Idle
  <2>3. n \in Int /\ n >= 0
    BY <2>1 DEF TypeOK, ReceiptTypeOK, ReceiptFullySplit
  <2> HIDE DEF n
  <2>4. /\ credited'[r] = 0 /\ vouchers'[r] = 0 /\ ~linked'[r]
    BY <2>1, <1>b DEF BooksInv, Unbooked
  <2>5. /\ n > 0 => todo'[1] = Call("creditFromReceipt", r, n) /\ todo' # <<>>
        /\ todo'[1] = Call("creditFromReceipt", r, n) \/ todo'[1] = Call("postReceiptCredit", r, 0)
        /\ Queued("postReceiptCredit", r)' /\ Queued("createJournalEntry", r)'
    <3>1. CASE n > 0
      <4>1. /\ Len(todo') = 3
            /\ todo'[1] = Call("creditFromReceipt", r, n)
            /\ todo'[2] = Call("postReceiptCredit", r, 0)
            /\ todo'[3] = Call("createJournalEntry", r, 0)
        BY <2>1, <2>3, <3>1, ConfirmQueue
      <4>2. 1 \in 1..Len(todo') /\ 2 \in 1..Len(todo') /\ 3 \in 1..Len(todo')
        BY <4>1
      <4>3. todo' # <<>>
        BY <4>1
      <4>4. /\ todo'[2].method = "postReceiptCredit" /\ todo'[2].doc = r
            /\ todo'[3].method = "createJournalEntry" /\ todo'[3].doc = r
        BY <4>1 DEF Call
      <4>5. Queued("postReceiptCredit", r)' /\ Queued("createJournalEntry", r)'
        BY <4>2, <4>4 DEF Queued
      <4> QED
        BY <4>1, <4>3, <4>5
    <3>2. CASE ~(n > 0)
      <4>1. /\ Len(todo') = 2
            /\ todo'[1] = Call("postReceiptCredit", r, 0)
            /\ todo'[2] = Call("createJournalEntry", r, 0)
        BY <2>1, <2>3, <3>2, ConfirmQueue
      <4> QED
        BY <3>2, <4>1 DEF Queued, Call
    <3> QED
      BY <3>1, <3>2
  <2>6. Booked(r)'
    <3>1. credited'[r] = unallocated'[r] \/ First("creditFromReceipt", r)'
      BY <2>1, <2>3, <2>4, <2>5 DEF First, Call
    <3> QED
      BY <2>4, <2>5, <3>1 DEF Booked
  <2>7. ASSUME NEW s \in Receipts \ {r}, rstatus'[s] = "confirmed" PROVE Booked(s)'
    BY <1>b, <2>1, <2>2, <2>7, IdleBooks DEF Booked
  <2>8. todo'[1].method \in {"creditFromReceipt", "postReceiptCredit"}
    BY <2>5 DEF Call
  <2> QED
    BY <2>6, <2>7, <2>8, NeitherAlone DEF BookedInv, First
<1> QED
  BY <1>1, <1>3, <1>4, <1>5, <1>6, <1>7, <1>8 DEF ReceiptRequest, AutoAllocateFifo, Reallocate

\* Calls that book no receipt.
LEMMA OtherCallBooked ==
  ASSUME TypeOK, BooksInv, BookedInv, todo # <<>>,
         todo[1].method \notin {"creditFromReceipt", "postReceiptCredit",
                                "createJournalEntry", "linkJournalEntry"},
         UNCHANGED <<receiptVars, credited, vouchers, linked>>, ledger \subseteq ledger',
         \/ todo' = Rest
         \/ \E c \in Calls :
              todo' = <<c>> \o Rest /\ c.method \in {"updateBalance", "markReversed"}
  PROVE  BookedInv'
<1>1. todo' = <<>> \/ todo'[1].method \in FollowUps \cup {"updateBalance", "markReversed"}
  BY NextFirst
<1>2. ASSUME NEW r \in Receipts, rstatus'[r] = "confirmed" PROVE Booked(r)'
  <2>1. Booked(r)
    BY <1>2 DEF BookedInv, receiptVars
  <2>2. ~First("creditFromReceipt", r) /\ ~First("linkJournalEntry", r)
    BY DEF First
  <2>3. /\ Queued("postReceiptCredit", r) => Queued("postReceiptCredit", r)'
        /\ Queued("createJournalEntry", r) => Queued("createJournalEntry", r)'
    BY QueuedStays
  <2> QED
    BY <2>1, <2>2, <2>3 DEF Booked, receiptVars
<1> QED
  BY <1>1, <1>2, NeitherAlone DEF BookedInv, First, FollowUps

LEMMA CallBooked ==
  ASSUME TypeOK, TypeOK', BooksInv, BookedInv,
         CreditFromReceipt \/ PostReceiptCredit \/ CreateJournalEntry \/ LinkJournalEntry
  PROVE  BookedInv'
<1>q. todo \in Seq(Calls) /\ todo # <<>>
  BY DEF TypeOK, CreditFromReceipt, PostReceiptCredit, AppendEntry, CreateJournalEntry,
         LinkJournalEntry, Due
<1>h. /\ Head(todo) = todo[1] /\ doc = todo[1].doc /\ value = todo[1].amount
      /\ Due(todo[1].method) /\ CallFits(1)
  BY <1>q, QueueHead DEF Due, BooksInv, CallsFit
<1>1. ASSUME CreditFromReceipt PROVE BookedInv'
  <2>1. doc \in Receipts /\ todo[1].method = "creditFromReceipt"
    BY <1>1, <1>h, <1>q, DueDoc DEF CreditFromReceipt, Due, ReceiptMethods
  <2>2. rstatus[doc] = "confirmed" /\ value = unallocated[doc]
    BY <1>h, <2>1 DEF CallFits
  <2>3. /\ credited'[doc] = unallocated[doc]
        /\ \A r \in Receipts \ {doc} : credited'[r] = credited[r]
    <3>1. credited[doc] \in {0, unallocated[doc]}
      BY <2>1 DEF BooksInv, Unbooked
    <3> QED
      BY <1>1, <2>1, <2>2, <3>1 DEF CreditFromReceipt, TypeOK, BookTypeOK
  <2>4. \/ todo' = Rest
        \/ \E c \in Calls : todo' = <<c>> \o Rest /\ c.method = "updateBalance"
    <3>1. balance + value \in Nat
      BY <2>1, <1>q, DueTyped DEF TypeOK, BookTypeOK
    <3>2. Call("updateBalance", doc, balance + value) \in Calls
      BY <2>1, <3>1, CallTyped
    <3> QED
      BY <1>1, <3>2 DEF CreditFromReceipt, Call
  <2>5. todo' = <<>> \/ todo'[1].method \in FollowUps \cup {"updateBalance"}
    BY <1>q, <2>4, NextFirst
  <2>6. UNCHANGED <<rstatus, unallocated, ledger, vouchers, linked>>
    BY <1>1 DEF CreditFromReceipt, receiptVars, journalVars
  <2>7. ASSUME NEW r \in Receipts, rstatus[r] = "confirmed" PROVE Booked(r)'
    <3>1. Booked(r)
      BY <2>7 DEF BookedInv
    <3>2. ~First("linkJournalEntry", r) /\ (r # doc => ~First("creditFromReceipt", r))
      BY <1>h, <2>1 DEF First
    <3>3. /\ Queued("postReceiptCredit", r) => Queued("postReceiptCredit", r)'
          /\ Queued("createJournalEntry", r) => Queued("createJournalEntry", r)'
      BY <1>q, <2>1, <2>4, QueuedStays
    <3> QED
      BY <2>3, <2>6, <3>1, <3>2, <3>3 DEF Booked
  <2> QED
    BY <2>5, <2>6, <2>7, NeitherAlone DEF BookedInv, First, FollowUps
<1>2. ASSUME PostReceiptCredit PROVE BookedInv'
  <2>1. /\ todo[1].method = "postReceiptCredit" /\ todo' = Rest
        /\ ledger' = ledger \cup {<<"receipt", doc>>}
        /\ UNCHANGED <<rstatus, unallocated, credited, vouchers, linked>>
    BY <1>2, <1>h DEF PostReceiptCredit, AppendEntry, Due, receiptVars, walletVars, journalVars
  <2>2. todo' = <<>> \/ todo'[1].method \in FollowUps
    BY <1>q, <2>1, RestIsFollowUp
  <2>3. ASSUME NEW r \in Receipts, rstatus[r] = "confirmed" PROVE Booked(r)'
    <3>1. Booked(r)
      BY <2>3 DEF BookedInv
    <3>2. ~First("linkJournalEntry", r) /\ ~First("creditFromReceipt", r)
      BY <2>1 DEF First
    <3>3. /\ Queued("postReceiptCredit", r) /\ r # doc => Queued("postReceiptCredit", r)'
          /\ Queued("createJournalEntry", r) => Queued("createJournalEntry", r)'
      BY <1>h, <1>q, <2>1, QueuedStays
    <3> QED
      BY <2>1, <3>1, <3>2, <3>3 DEF Booked
  <2> QED
    BY <2>1, <2>2, <2>3, NeitherAlone DEF BookedInv, First, FollowUps
<1>3. ASSUME CreateJournalEntry PROVE BookedInv'
  <2>1. /\ doc \in Documents /\ todo[1].method = "createJournalEntry"
        /\ UNCHANGED <<rstatus, unallocated, credited, ledger, linked>>
    BY <1>3, <1>h, <1>q, DueDoc
       DEF CreateJournalEntry, Due, JournalMethods, receiptVars, walletVars
  <2>2. Call("linkJournalEntry", doc, 0) \in Calls
    BY <2>1, CallTyped DEF JournalMethods
  <2>3. \/ todo' = Rest
        \/ \E c \in Calls : todo' = <<c>> \o Rest /\ c.method \in {"linkJournalEntry"}
    BY <1>3, <2>2 DEF CreateJournalEntry, Call
  <2>4. todo' = <<>> \/ todo'[1].method \in FollowUps \cup {"linkJournalEntry"}
    BY <1>q, <2>3, NextFirst
  <2>5. /\ linked[doc] => todo' = Rest /\ vouchers' = vouchers
        /\ ~linked[doc] => /\ vouchers'[doc] = vouchers[doc] + 1
                           /\ todo' = <<Call("linkJournalEntry", doc, 0)>> \o Rest
        /\ \A d \in Documents \ {doc} : vouchers'[d] = vouchers[d]
    BY <1>3, <2>1 DEF CreateJournalEntry, TypeOK, BookTypeOK
  <2>6. ~linked[doc] => todo' # <<>> /\ todo'[1] = Call("linkJournalEntry", doc, 0)
    BY <1>q, <2>2, <2>5, QueueSwap
  <2>7. ASSUME NEW r \in Receipts, rstatus[r] = "confirmed" PROVE Booked(r)'
    <3>1. Booked(r) /\ r \in Documents
      BY <2>7 DEF BookedInv, Documents
    <3>2. ~First("linkJournalEntry", r) /\ ~First("creditFromReceipt", r)
      BY <2>1 DEF First
    <3>3. /\ Queued("postReceiptCredit", r) => Queued("postReceiptCredit", r)'
          /\ Queued("createJournalEntry", r) /\ r # doc => Queued("createJournalEntry", r)'
      BY <1>h, <1>q, <2>1, <2>3, QueuedStays
    <3>4. CASE r # doc
      BY <2>1, <2>5, <3>1, <3>2, <3>3, <3>4 DEF Booked
    <3>5. CASE r = doc
      <4>1. CASE linked[doc]
        BY <2>1, <2>5, <3>1, <3>2, <3>3, <3>5, <4>1 DEF Booked
      <4>2. CASE ~linked[doc]
        <5>1. vouchers[doc] = 0
          BY <3>1, <3>2, <3>5, <4>2 DEF Booked
        <5>2. First("linkJournalEntry", r)' /\ vouchers'[r] = 1 /\ ~linked'[r]
          BY <2>1, <2>5, <2>6, <3>5, <4>2, <5>1 DEF First, Call
        <5> QED
          BY <2>1, <3>1, <3>2, <3>3, <5>2 DEF Booked
      <4> QED
        BY <4>1, <4>2
    <3> QED
      BY <3>4, <3>5
  <2>8. ASSUME NEW r \in Receipts, First("linkJournalEntry", r)' PROVE vouchers'[r] = 1 /\ ~linked'[r]
    <3>1. CASE linked[doc]
      <4>1. todo' = <<>> \/ todo'[1].method \in FollowUps
        BY <1>q, <2>5, <3>1, RestIsFollowUp
      <4> QED
        BY <2>8, <4>1 DEF First, FollowUps
    <3>2. CASE ~linked[doc]
      <4>1. r = doc
        BY <2>6, <2>8, <3>2 DEF First, Call
      <4>2. rstatus[r] = "confirmed"
        BY <1>h, <2>1, <4>1 DEF CallFits
      <4>3. Booked(r) /\ ~First("linkJournalEntry", r)
        BY <2>1, <4>2 DEF BookedInv, First
      <4>4. vouchers[doc] = 0
        BY <3>2, <4>1, <4>3 DEF Booked
      <4> QED
        BY <2>1, <2>5, <3>2, <4>1, <4>4
    <3> QED
      BY <3>1, <3>2
  <2> QED
    BY <2>1, <2>4, <2>7, <2>8, NeitherAlone DEF BookedInv, FollowUps
<1>4. ASSUME LinkJournalEntry PROVE BookedInv'
  <2>1. /\ doc \in Documents /\ todo[1].method = "linkJournalEntry" /\ todo' = Rest
        /\ linked' = [linked EXCEPT ![doc] = TRUE]
        /\ UNCHANGED <<rstatus, unallocated, credited, ledger, vouchers>>
    BY <1>4, <1>h, <1>q, DueDoc DEF LinkJournalEntry, Due, JournalMethods, receiptVars, walletVars
  <2>2. todo' = <<>> \/ todo'[1].method \in FollowUps
    BY <1>q, <2>1, RestIsFollowUp
  <2>3. linked'[doc] /\ \A d \in Documents \ {doc} : linked'[d] = linked[d]
    BY <2>1 DEF TypeOK, BookTypeOK
  <2>4. ASSUME NEW r \in Receipts, rstatus[r] = "confirmed" PROVE Booked(r)'
    <3>1. Booked(r) /\ r \in Documents
      BY <2>4 DEF BookedInv, Documents
    <3>2. ~First("creditFromReceipt", r) /\ (First("linkJournalEntry", r) <=> r = doc)
      BY <1>h, <1>q, <2>1 DEF First
    <3>3. /\ Queued("postReceiptCredit", r) => Queued("postReceiptCredit", r)'
          /\ Queued("createJournalEntry", r) => Queued("createJournalEntry", r)'
      BY <1>q, <2>1, QueuedStays
    <3>4. CASE r # doc
      BY <2>1, <2>3, <3>1, <3>2, <3>3, <3>4 DEF Booked
    <3>5. CASE r = doc
      <4>1. vouchers[r] = 1
        BY <3>2, <3>5 DEF BookedInv
      <4> QED
        BY <2>1, <2>3, <3>1, <3>2, <3>3, <3>5, <4>1 DEF Booked
    <3> QED
      BY <3>4, <3>5
  <2> QED
    BY <2>1, <2>2, <2>4, NeitherAlone DEF BookedInv, First, FollowUps
<1> QED
  BY <1>1, <1>2, <1>3, <1>4

LEMMA StepBooked ==
  ASSUME TypeOK, ReceiptFullySplit, BooksInv, BookedInv, [Next]_vars, faults' = 0
  PROVE  BookedInv'
<1>t. TypeOK' /\ ReceiptFullySplit'
  BY StepTypes, StepSplits
<1>1. ASSUME InvoiceRequest PROVE BookedInv'
  <2>1. Idle /\ UNCHANGED <<receiptVars, bookVars>>
    BY <1>1 DEF InvoiceRequest, CreateInvoice, UpdateDraft, DeleteDraft, DraftEditable, PostDraft,
                PostAgain, CancelInvoice, RevisePostedUnpaid
  <2>2. todo' \in Seq(InvoiceCalls)
    BY <1>1, InvoiceRequestQueues
  <2>3. todo' = <<>> \/ todo'[1] \in InvoiceCalls
    <3>1. todo' # <<>> => 1 \in 1..Len(todo')
      BY <2>2, EmptySeq
    <3> QED
      BY <2>2, <3>1, ElementOfSeq
  <2>4. todo' = <<>> \/ todo'[1].method \notin {"linkJournalEntry", "confirm", "reverseReceiptAdvance"}
    BY <2>3 DEF InvoiceCalls
  <2> QED
    BY <2>1, <2>4, NeitherAlone, RequestBooked DEF receiptVars, bookVars, walletVars, journalVars
<1>2. ASSUME WalletRequest PROVE BookedInv'
  <2>1. PICK n \in Amounts \cup {0}, m \in Amounts \cup {0} : AdjustWallet(n, m)
    BY <1>2 DEF WalletRequest
  <2>2. todo'[1].method = "updateBalance"
    BY <2>1 DEF AdjustWallet, Call
  <2> QED
    BY <2>1, <2>2, NeitherAlone, RequestBooked DEF AdjustWallet, receiptVars, journalVars
<1>3. ASSUME Bookkeeping PROVE BookedInv'
  <2>1. ASSUME NEW r \in Receipts, ConfirmRefused(r) PROVE BookedInv'
    <3>1. /\ todo = <<Call("confirm", r, 0)>> /\ todo' = <<>>
          /\ UNCHANGED <<rstatus, unallocated, credited, ledger, vouchers, linked>>
      BY <2>1 DEF ConfirmRefused, receiptVars, bookVars, walletVars, journalVars
    <3>2. \A s \in Receipts : rstatus'[s] = "confirmed" => Booked(s)'
      BY <3>1, IdleBooks DEF Booked
    <3> QED
      BY <3>1, <3>2, NeitherAlone DEF BookedInv, First
  <2>2. ASSUME ReverseAdvanceRefused PROVE BookedInv'
    <3>1. /\ todo # <<>> /\ todo[1].method = "reverseReceiptAdvance" /\ todo' = <<>>
          /\ UNCHANGED <<rstatus, unallocated, credited, ledger, vouchers, linked>>
      BY <2>2, QueueHead
         DEF ReverseAdvanceRefused, Due, TypeOK, receiptVars, bookVars, walletVars, journalVars
    <3>2. \A s \in Receipts : /\ ~First("creditFromReceipt", s) /\ ~First("linkJournalEntry", s)
                              /\ ~Queued("postReceiptCredit", s) /\ ~Queued("createJournalEntry", s)
      BY <3>1 DEF BookedInv, ReversalAlone, First, Queued
    <3>3. \A s \in Receipts : rstatus'[s] = "confirmed" => Booked(s)'
      BY <3>1, <3>2 DEF BookedInv, Booked
    <3> QED
      BY <3>1, <3>3, NeitherAlone DEF BookedInv, First
  <2>3. ASSUME ReverseReceiptAdvance \/ UpdateBalance \/ PostInvoiceDebit \/ ReverseInvoicePosting
               \/ ReverseReceiptPosting \/ ReverseJournalEntry \/ MarkReversed
        PROVE  BookedInv'
    <3>1. /\ todo # <<>>
          /\ todo[1].method \notin {"creditFromReceipt", "postReceiptCredit",
                                    "createJournalEntry", "linkJournalEntry"}
      BY <2>3, QueueHead
         DEF ReverseReceiptAdvance, UpdateBalance, PostInvoiceDebit, ReverseInvoicePosting,
             ReverseReceiptPosting, AppendEntry, ReverseJournalEntry, MarkReversed, Due, TypeOK
    <3>2. UNCHANGED <<receiptVars, credited, vouchers, linked>> /\ ledger \subseteq ledger'
      BY <2>3 DEF ReverseReceiptAdvance, UpdateBalance, PostInvoiceDebit, ReverseInvoicePosting,
             ReverseReceiptPosting, AppendEntry, ReverseJournalEntry, MarkReversed, walletVars,
             journalVars
    <3>3. \/ todo' = Rest
          \/ \E c \in Calls :
               todo' = <<c>> \o Rest /\ c.method \in {"updateBalance", "markReversed"}
      <4>1. ASSUME ReverseReceiptAdvance, todo' # Rest
            PROVE  \E c \in Calls : todo' = <<c>> \o Rest /\ c.method = "updateBalance"
        <5>1. doc \in Receipts /\ balance \in Nat /\ value \in Nat
          BY <4>1, DueDoc, DueTyped
             DEF ReverseReceiptAdvance, Due, ReceiptMethods, TypeOK, BookTypeOK
        <5>2. balance >= value => Call("updateBalance", doc, balance - value) \in Calls
          BY <5>1, CallTyped
        <5> QED
          BY <4>1, <5>2 DEF ReverseReceiptAdvance, Call
      <4>2. ASSUME ReverseJournalEntry
            PROVE  \E c \in Calls : todo' = <<c>> \o Rest /\ c.method = "markReversed"
        <5>1. doc \in Documents
          BY <4>2, DueDoc DEF ReverseJournalEntry, TypeOK, JournalMethods
        <5>2. Call("markReversed", doc, 0) \in Calls
          BY <5>1, CallTyped DEF JournalMethods
        <5> QED
          BY <4>2, <5>2 DEF ReverseJournalEntry, Call
      <4> QED
        BY <2>3, <4>1, <4>2 DEF UpdateBalance, PostInvoiceDebit, ReverseInvoicePosting,
             ReverseReceiptPosting, AppendEntry, MarkReversed
    <3> QED
      BY <3>1, <3>2, <3>3, OtherCallBooked
  <2> QED
    BY <1>3, <1>t, <2>1, <2>2, <2>3, CallBooked, ReceiptRequestBooked DEF Bookkeeping
<1>4. ASSUME UNCHANGED vars PROVE BookedInv'
  BY <1>4 DEF BookedInv, Booked, First, Queued, ReversalAlone, ConfirmAlone, vars, receiptVars,
              bookVars, walletVars, journalVars
<1>5. ~Fault
  BY DEF Fault, TypeOK
<1> QED
  BY <1>t, <1>1, <1>2, <1>3, <1>4, <1>5, ReceiptRequestBooked DEF Next

\* As long as no request has stopped half way.
UnbrokenInv ==
  /\ TypeOK /\ ReceiptFullySplit /\ BooksInv
  /\ faults = 0 => WalletInv /\ BookedInv

THEOREM UnbrokenInvariant == Spec => []UnbrokenInv
<1>1. ASSUME Init PROVE UnbrokenInv
  <2>1. TypeOK /\ ReceiptFullySplit /\ BooksInv
    BY <1>1, InitTypes
       DEF Init, ReceiptFullySplit, BooksInv, CallsFit, Unbooked, LedgerFollowsWallet, Documents
  <2>2. WalletInv
    <3>1. Total(credited, Receipts) = 0 /\ Total(debited, Receipts) = 0
      BY <1>1, TotalZero DEF Init
    <3> QED
      BY <1>1, <3>1 DEF Init, WalletInv, Recorded
  <2>3. BookedInv
    BY <1>1 DEF Init, BookedInv, First, ReversalAlone, ConfirmAlone
  <2> QED
    BY <2>1, <2>2, <2>3 DEF UnbrokenInv
<1>2. ASSUME UnbrokenInv, [Next]_vars PROVE UnbrokenInv'
  <2>1. TypeOK' /\ ReceiptFullySplit' /\ BooksInv'
    BY <1>2, StepTypes, StepSplits, StepBooks DEF UnbrokenInv
  <2>2. faults' = 0 => faults = 0
    <3>1. faults' = faults \/ faults' = faults + 1
      BY <1>2 DEF Next, InvoiceRequest, CreateInvoice, UpdateDraft, DeleteDraft, PostDraft,
         PostAgain, CancelInvoice, RevisePostedUnpaid, ReceiptRequest, CreateReceipt,
         CreateAllocation, AutoAllocateFifo, Reallocate, Reassign, ConfirmDraft, ConfirmAgain,
         CancelDraft, CancelConfirmed, WalletRequest, AdjustWallet, Bookkeeping, ConfirmRefused,
         CreditFromReceipt, ReverseReceiptAdvance, ReverseAdvanceRefused, UpdateBalance,
         PostInvoiceDebit, ReverseInvoicePosting, PostReceiptCredit, ReverseReceiptPosting,
         AppendEntry, CreateJournalEntry, LinkJournalEntry, ReverseJournalEntry, MarkReversed,
         Fault, vars
    <3> QED
      BY <1>2, <3>1 DEF UnbrokenInv, TypeOK
  <2> QED
    BY <1>2, <2>1, <2>2, StepWallet, StepBooked DEF UnbrokenInv
<1> QED
  BY <1>1, <1>2, PTL DEF Spec

\* Between two requests the wallet's balance, which each service reads and
\* writes back, is the net of the transactions recorded, unless one stopped.
THEOREM WalletAddsUp == Spec => [](faults = 0 => WalletBalances)
<1>1. UnbrokenInv => (faults = 0 => WalletBalances)
  BY DEF UnbrokenInv, WalletInv, WalletBalances, Recorded, Idle
<1> QED
  BY <1>1, UnbrokenInvariant, PTL

\* Between two requests a confirmed receipt is in the ledger, in the journal
\* exactly once and in the wallet for what paid no invoice, unless one stopped.
THEOREM ConfirmedBookedOnce == Spec => [](faults = 0 => ConfirmedIsBooked)
<1>1. UnbrokenInv => (faults = 0 => ConfirmedIsBooked)
  BY IdleBooks DEF UnbrokenInv, ConfirmedIsBooked, Idle
<1> QED
  BY <1>1, UnbrokenInvariant, PTL

-----------------------------------------------------------------------
(* The rows implement the account of Receivables.                        *)

LEMMA SettledIsPaid ==
  ASSUME NEW i \in Invoices
  PROVE  Account!Settled(i) = Paid(i)
<1>1. \A r \in Receipts : Applied[r][i] = PaidBy(r, i)
  BY DEF Applied, PaidBy, Nothing
<1>2. [r \in Receipts |-> Applied[r][i]] = [r \in Receipts |-> PaidBy(r, i)]
  BY <1>1
<1>3. ASSUME NEW f PROVE Account!Total(f, Receipts) = Total(f, Receipts)
  BY DEF Account!Total, Account!Units, Account!Cardinality, Total, Units, Cardinality
<1> QED
  BY <1>2, <1>3 DEF Account!Settled, Paid

\* An invoice request issues, changes or withdraws bills.
LEMMA InvoiceRequestBills ==
  ASSUME TypeOK, RowInv, InvoiceTypeOK', UNCHANGED receiptVars,
         \A i \in Invoices : \/ istatus'[i] = istatus[i] /\ grandTotal'[i] = grandTotal[i]
                             \/ AllocatedTo(i) = 0
                             \/ istatus[i] \notin Live
                             \/ grandTotal'[i] = grandTotal[i] /\ istatus[i] \in Live /\ istatus'[i] \in Live
  PROVE  Account!ChangeBills
<1>1. Billed' \in [Invoices -> Nat]
  BY DEF Billed, InvoiceTypeOK
<1>2. Applied' = Applied
  BY DEF Applied, receiptVars, Nothing
<1>3. ASSUME NEW i \in Invoices, Billed'[i] # Billed[i] PROVE Account!Settled(i) = 0
  <2>1. AllocatedTo(i) = 0 \/ istatus[i] \notin Live
    BY <1>3 DEF Billed
  <2>2. istatus[i] \notin Live => \A r \in Receipts : alloc[r][i] = 0
    BY DEF RowInv, AllocatedIsLive, ReceiptTypeOK
  <2>3. Paid(i) = 0
    BY <2>1, <2>2, UnallocatedIsUnpaid DEF RowInv
  <2> QED
    BY <2>3, SettledIsPaid
<1> QED
  BY <1>1, <1>2, <1>3 DEF Account!ChangeBills

LEMMA InvoiceRequestSteps ==
  ASSUME TypeOK, RowInv, InvoiceRequest
  PROVE  Account!ChangeBills
<1>0. InvoiceTypeOK'
  BY InvoiceRequestTypes DEF TypeOK
<1>t. InvoiceTypeOK
  BY DEF TypeOK
<1> USE DEF InvoiceTypeOK, Live
<1>1. ASSUME NEW i \in Invoices, NEW total \in Totals, NEW status \in {"draft", "posted"},
             CreateInvoice(i, total, status)
      PROVE  Account!ChangeBills
  BY <1>0, <1>t, <1>1, InvoiceRequestBills DEF CreateInvoice
<1>2. ASSUME NEW i \in Invoices, NEW total \in Totals, UpdateDraft(i, total)
      PROVE  Account!ChangeBills
  BY <1>0, <1>t, <1>2, InvoiceRequestBills DEF UpdateDraft, DraftEditable
<1>3. ASSUME NEW i \in Invoices, NEW j \in Invoices, NEW total \in Totals,
             RevisePostedUnpaid(i, j, total)
      PROVE  Account!ChangeBills
  BY <1>0, <1>t, <1>3, InvoiceRequestBills DEF RevisePostedUnpaid
<1>4. ASSUME NEW i \in Invoices, DeleteDraft(i) PROVE Account!ChangeBills
  BY <1>0, <1>t, <1>4, InvoiceRequestBills DEF DeleteDraft, DraftEditable
<1>5. ASSUME NEW i \in Invoices, PostDraft(i) PROVE Account!ChangeBills
  BY <1>0, <1>t, <1>5, InvoiceRequestBills DEF PostDraft
<1>6. ASSUME NEW i \in Invoices, PostAgain(i) PROVE Account!ChangeBills
  BY <1>0, <1>t, <1>6, InvoiceRequestBills DEF PostAgain, invoiceVars
<1>7. ASSUME NEW i \in Invoices, CancelInvoice(i) PROVE Account!ChangeBills
  BY <1>0, <1>t, <1>7, InvoiceRequestBills DEF CancelInvoice
<1> QED
  BY <1>1, <1>2, <1>3, <1>4, <1>5, <1>6, <1>7 DEF InvoiceRequest

\* Confirming settles what the invoices owe.
LEMMA ConfirmDraftSettles ==
  ASSUME TypeOK, RowInv, NEW r \in Receipts, NEW by \in SortedBy(Day), ConfirmDraft(r, by)
  PROVE  Account!Settle(r)
<1> DEFINE p == Payment(r, by)
<1>1. p \in [Invoices -> Nat] /\ \A i \in Invoices : p[i] <= outstanding[i]
  BY PaymentTyped DEF TypeOK, ConfirmDraft
<1>2. rstatus[r] = "draft" /\ PayInvoices(r, p)
  BY DEF ConfirmDraft
<1> HIDE DEF p
<1>3. \A i \in Invoices : p[i] > 0 => istatus[i] \in Live
  BY <1>1, OwingIsLive DEF RowInv, InvoiceTypeOK
<1>4. Billed' = Billed
  <2>1. \A i \in Invoices : (istatus'[i] \in Live <=> istatus[i] \in Live)
    BY <1>1, <1>2, <1>3 DEF PayInvoices, Live
  <2> QED
    BY <1>2, <2>1 DEF Billed, PayInvoices
<1>5. Applied[r] = Account!None
  BY <1>2 DEF Applied, Nothing, Account!None
<1>6. Applied' = [Applied EXCEPT ![r] = p] /\ Applied'[r] = p
  BY <1>2 DEF Applied, PayInvoices, RowInv, ReceiptTypeOK, Nothing
<1>7. ASSUME NEW i \in Invoices PROVE p[i] <= Account!Owed(i)
  <2>1. Account!Settled(i) = Paid(i)
    BY SettledIsPaid
  <2>2. p[i] \in Nat /\ outstanding[i] \in Nat /\ Paid(i) \in Nat /\ p[i] <= outstanding[i]
    BY <1>1, PaidTyped DEF RowInv, InvoiceTypeOK
  <2>3. CASE istatus[i] \in Live
    <3>1. Billed[i] = outstanding[i] + Paid(i)
      BY <2>3 DEF Billed, RowInv, OutstandingIsUnpaid
    <3> QED
      BY <2>1, <2>2, <3>1 DEF Account!Owed
  <2>4. CASE istatus[i] \notin Live
    <3>1. Billed[i] = 0 /\ p[i] = 0
      BY <1>3, <2>2, <2>4 DEF Billed
    <3>2. \A s \in Receipts : alloc[s][i] = 0
      BY <2>4 DEF RowInv, AllocatedIsLive, ReceiptTypeOK
    <3>3. Paid(i) = 0
      BY <3>2, UnallocatedIsUnpaid DEF RowInv
    <3> QED
      BY <2>1, <3>1, <3>3 DEF Account!Owed
  <2> QED
    BY <2>3, <2>4
<1> QED
  BY <1>1, <1>4, <1>5, <1>6, <1>7 DEF Account!Settle

\* Cancelling undoes all that the receipt settled.
LEMMA CancelConfirmedUndoes ==
  ASSUME TypeOK, RowInv, NEW r \in Receipts, CancelConfirmed(r)
  PROVE  Account!Undo(r)
<1>1. rstatus[r] = "confirmed" /\ ReopenInvoices(r)
  BY DEF CancelConfirmed
<1>2. Billed' = Billed
  <2>1. \A i \in Invoices : alloc[r][i] # 0 => istatus[i] \in Live
    BY DEF RowInv, AllocatedIsLive, ReceiptTypeOK
  <2>2. \A i \in Invoices : (istatus'[i] \in Live <=> istatus[i] \in Live)
    BY <1>1, <2>1 DEF ReopenInvoices, Live
  <2> QED
    BY <1>1, <2>2 DEF Billed, ReopenInvoices
<1>3. Applied' = [Applied EXCEPT ![r] = Account!None]
  BY <1>1 DEF Applied, ReopenInvoices, RowInv, ReceiptTypeOK, Nothing, Account!None
<1> QED
  BY <1>2, <1>3 DEF Account!Undo

\* The other requests on receipts touch only receipts that settle nothing.
LEMMA UnsettledStutters ==
  ASSUME RowInv, UNCHANGED invoiceVars, NEW r \in Receipts,
         rstatus[r] # "confirmed", rstatus'[r] # "confirmed",
         \A s \in Receipts \ {r} : alloc'[s] = alloc[s] /\ rstatus'[s] = rstatus[s]
  PROVE  UNCHANGED <<Billed, Applied>>
BY DEF Billed, Applied, invoiceVars, Nothing

LEMMA StepsMap ==
  ASSUME TypeOK, RowInv, [Next]_vars
  PROVE  [Account!Next]_(Account!account)
<1> DEFINE Mapped == [Account!Next]_(Account!account)
<1>a. UNCHANGED <<Billed, Applied>> => Mapped
  BY DEF Account!account
<1>1. UNCHANGED <<invoiceVars, receiptVars>> => Mapped
  BY <1>a DEF Billed, Applied, invoiceVars, receiptVars, Nothing
<1>2. ASSUME InvoiceRequest PROVE Mapped
  BY <1>2, InvoiceRequestSteps DEF Account!Next
<1>2a. ASSUME NEW r \in Receipts, NEW by \in SortedBy(Day), ConfirmDraft(r, by) PROVE Mapped
  BY <1>2a, ConfirmDraftSettles DEF Account!Next
<1>3. ASSUME NEW r \in Receipts, CancelConfirmed(r) PROVE Mapped
  BY <1>3, CancelConfirmedUndoes DEF Account!Next
<1>4. ASSUME NEW r \in Receipts, NEW n, NEW advance, NEW confirm, NEW p,
             CreateReceipt(r, n, advance, p, confirm)
      PROVE  Mapped
  BY <1>4, <1>a, UnsettledStutters DEF CreateReceipt, RowInv, ReceiptTypeOK
<1>5. ASSUME NEW r \in Receipts, NEW i, NEW n, CreateAllocation(r, i, n) PROVE Mapped
  BY <1>5, <1>a, UnsettledStutters DEF CreateAllocation, RowInv, ReceiptTypeOK
<1>6. ASSUME NEW r \in Receipts, NEW p, NEW advance, rstatus[r] = "draft", Reassign(r, p, advance)
      PROVE  Mapped
  BY <1>6, <1>a, UnsettledStutters DEF Reassign, RowInv, ReceiptTypeOK
<1>7. ASSUME NEW r \in Receipts, CancelDraft(r) PROVE Mapped
  BY <1>7, <1>a, UnsettledStutters DEF CancelDraft, RowInv, ReceiptTypeOK
<1>8. ASSUME ReceiptRequest PROVE Mapped
  BY <1>1, <1>2a, <1>3, <1>4, <1>5, <1>6, <1>7, <1>8
     DEF ReceiptRequest, AutoAllocateFifo, Reallocate, ConfirmAgain
<1>9. ASSUME Bookkeeping PROVE Mapped
  <2>1. \/ UNCHANGED <<invoiceVars, receiptVars>>
        \/ \E r \in Receipts, by \in SortedBy(Day) : ConfirmDraft(r, by)
    BY <1>9
       DEF Bookkeeping, ConfirmRefused, CreditFromReceipt, ReverseReceiptAdvance,
           ReverseAdvanceRefused, UpdateBalance, PostInvoiceDebit, ReverseInvoicePosting,
           PostReceiptCredit, ReverseReceiptPosting, AppendEntry, CreateJournalEntry,
           LinkJournalEntry, ReverseJournalEntry, MarkReversed
  <2> QED
    BY <1>1, <1>2a, <2>1
<1>10. WalletRequest \/ Fault \/ UNCHANGED vars => UNCHANGED <<invoiceVars, receiptVars>>
  BY DEF WalletRequest, AdjustWallet, Fault, vars
<1> QED
  BY <1>1, <1>2, <1>8, <1>9, <1>10 DEF Next

LEMMA InitMaps == Init => Account!Init
BY DEF Init, Account!Init, Billed, Applied, Live, Nothing, Account!None

\* Seen through its confirmed receipts and live invoices, the database is the
\* abstract account: no request overpays an invoice, changes a bill that is
\* partly settled, or undoes a settlement in part.
THEOREM RefinesAccount == Spec => ImplementsAccount
<1>1. Init => Account!Init
  BY InitMaps
<1>2. TypeOK /\ RowInv /\ [Next]_vars => [Account!Next]_(Account!account)
  BY StepsMap
<1> QED
  BY <1>1, <1>2, RowsInvariant, PTL DEF Spec, ImplementsAccount, Account!Spec

\* The account alone keeps every invoice settled within its bill.

LEMMA SettledIsTotal ==
  ASSUME NEW i
  PROVE  Account!Settled(i) = Total([r \in Receipts |-> Applied[r][i]], Receipts)
BY DEF Account!Settled, Account!Total, Account!Units, Account!Cardinality, Total, Units, Cardinality

AccountTypeOK ==
  /\ Billed \in [Invoices -> Nat]
  /\ Applied \in [Receipts -> [Invoices -> Nat]]

\* What is settled of an invoice moves with the part of the one receipt that
\* settles or is undone.
LEMMA SettledMoves ==
  ASSUME AccountTypeOK, AccountTypeOK', NEW i \in Invoices, NEW r \in Receipts,
         \A s \in Receipts \ {r} : Applied'[s] = Applied[s]
  PROVE  /\ Account!Settled(i)' + Applied[r][i] = Account!Settled(i) + Applied'[r][i]
         /\ Account!Settled(i) \in Nat /\ Account!Settled(i)' \in Nat
<1> DEFINE before == [s \in Receipts |-> Applied[s][i]]
           after == [s \in Receipts |-> Applied'[s][i]]
<1>1. \A s \in Receipts : before[s] \in Nat /\ after[s] \in Nat
  BY DEF AccountTypeOK
<1>2. \A s \in Receipts \ {r} : before[s] = after[s]
  OBVIOUS
<1>2a. IsFiniteSet(Receipts)
  BY SettlementAssumption
<1>3. Total(after, Receipts) + before[r] = Total(before, Receipts) + after[r]
  <2> HIDE DEF before, after
  <2> QED
    BY <1>1, <1>2, <1>2a, TotalMoves
<1>4. Total(before, Receipts) \in Nat /\ Total(after, Receipts) \in Nat
  BY <1>1, <1>2a, TotalNat
<1>5. Account!Settled(i) = Total(before, Receipts)
  BY SettledIsTotal
<1>6. Account!Settled(i)' = Total(after, Receipts)
  BY DEF Account!Settled, Account!Total, Account!Units, Account!Cardinality, Total, Units, Cardinality
<1> QED
  BY <1>3, <1>4, <1>5, <1>6

LEMMA AccountInit == Account!Init => AccountTypeOK /\ Account!NeverOverpaid
<1> SUFFICES ASSUME Account!Init PROVE AccountTypeOK /\ Account!NeverOverpaid
  OBVIOUS
<1>1. AccountTypeOK
  BY DEF Account!Init, AccountTypeOK, Account!None
<1>2. ASSUME NEW i \in Invoices PROVE Account!Settled(i) = 0
  <2> DEFINE parts == [r \in Receipts |-> Applied[r][i]]
  <2>1. \A r \in Receipts : parts[r] = 0
    BY DEF Account!Init, Account!None
  <2>2. Total(parts, Receipts) = 0
    BY <2>1, TotalZero
  <2> QED
    BY <2>2, SettledIsTotal
<1> QED
  BY <1>1, <1>2 DEF Account!NeverOverpaid, AccountTypeOK

LEMMA AccountStep ==
  ASSUME AccountTypeOK, Account!NeverOverpaid, [Account!Next]_(Account!account)
  PROVE  (AccountTypeOK /\ Account!NeverOverpaid)'
<1>1. ASSUME Account!ChangeBills PROVE (AccountTypeOK /\ Account!NeverOverpaid)'
  <2>1. ASSUME NEW i \in Invoices PROVE Account!Settled(i)' = Account!Settled(i)
    BY <1>1 DEF Account!ChangeBills, Account!Settled
  <2>2. AccountTypeOK'
    BY <1>1 DEF Account!ChangeBills, AccountTypeOK
  <2>3. ASSUME NEW i \in Invoices PROVE Account!Settled(i)' <= Billed'[i]
    <3>1. /\ Billed'[i] # Billed[i] => Account!Settled(i) = 0
          /\ Account!Settled(i) <= Billed[i] /\ Billed'[i] \in Nat
      BY <1>1, <2>2 DEF Account!ChangeBills, Account!NeverOverpaid, AccountTypeOK
    <3> QED
      BY <2>1, <3>1
  <2> QED
    BY <2>2, <2>3 DEF Account!NeverOverpaid
<1>2. ASSUME NEW r \in Receipts, Account!Settle(r) PROVE (AccountTypeOK /\ Account!NeverOverpaid)'
  <2>1. AccountTypeOK'
    BY <1>2 DEF Account!Settle, AccountTypeOK
  <2>2. \A s \in Receipts \ {r} : Applied'[s] = Applied[s]
    <3> DEFINE part == Applied'[r]
    <3>1. Applied' = [Applied EXCEPT ![r] = part]
      BY <1>2 DEF Account!Settle
    <3> HIDE DEF part
    <3> QED
      BY <3>1 DEF AccountTypeOK
  <2>3. ASSUME NEW i \in Invoices PROVE Account!Settled(i)' <= Billed'[i]
    <3>1. /\ Account!Settled(i)' + Applied[r][i] = Account!Settled(i) + Applied'[r][i]
          /\ Account!Settled(i) \in Nat /\ Account!Settled(i)' \in Nat
      BY <2>1, <2>2, SettledMoves
    <3>2. Applied[r][i] = 0
      BY <1>2 DEF Account!Settle, Account!None
    <3>3. Applied'[r][i] <= Account!Owed(i) /\ Billed' = Billed
      BY <1>2 DEF Account!Settle
    <3>4. Applied'[r][i] \in Nat /\ Billed[i] \in Nat
      BY <2>1 DEF AccountTypeOK
    <3> QED
      BY <3>1, <3>2, <3>3, <3>4 DEF Account!Owed
  <2> QED
    BY <2>1, <2>3 DEF Account!NeverOverpaid
<1>3. ASSUME NEW r \in Receipts, Account!Undo(r) PROVE (AccountTypeOK /\ Account!NeverOverpaid)'
  <2>1. AccountTypeOK'
    BY <1>3 DEF Account!Undo, AccountTypeOK, Account!None
  <2>2. ASSUME NEW i \in Invoices PROVE Account!Settled(i)' <= Billed'[i]
    <3>1. \A s \in Receipts \ {r} : Applied'[s] = Applied[s]
      BY <1>3 DEF Account!Undo, AccountTypeOK
    <3>2. /\ Account!Settled(i)' + Applied[r][i] = Account!Settled(i) + Applied'[r][i]
          /\ Account!Settled(i) \in Nat /\ Account!Settled(i)' \in Nat
      BY <2>1, <3>1, SettledMoves
    <3>3. Applied'[r][i] = 0 /\ Billed' = Billed
      BY <1>3 DEF Account!Undo, Account!None, AccountTypeOK
    <3>4. Applied[r][i] \in Nat /\ Billed[i] \in Nat /\ Account!Settled(i) <= Billed[i]
      BY DEF AccountTypeOK, Account!NeverOverpaid
    <3> QED
      BY <3>2, <3>3, <3>4
  <2> QED
    BY <2>1, <2>2 DEF Account!NeverOverpaid
<1>4. ASSUME UNCHANGED Account!account PROVE (AccountTypeOK /\ Account!NeverOverpaid)'
  <2>1. Billed' = Billed /\ Applied' = Applied
    BY <1>4 DEF Account!account
  <2>2. ASSUME NEW i \in Invoices PROVE Account!Settled(i)' = Account!Settled(i)
    BY <2>1 DEF Account!Settled
  <2> QED
    BY <2>1, <2>2 DEF AccountTypeOK, Account!NeverOverpaid
<1> QED
  BY <1>1, <1>2, <1>3, <1>4 DEF Account!Next

\* Whatever receipts share an invoice, no more is settled than was billed: the
\* account promises it, and the rows implement the account.
THEOREM AccountNeverOverpaid == Spec => []Account!NeverOverpaid
<1>1. AccountTypeOK /\ Account!NeverOverpaid /\ [Account!Next]_(Account!account)
        => (AccountTypeOK /\ Account!NeverOverpaid)'
  BY AccountStep
<1>2. Account!Spec => []Account!NeverOverpaid
  BY <1>1, AccountInit, PTL DEF Account!Spec
<1> QED
  BY <1>2, RefinesAccount, PTL DEF ImplementsAccount
=======================================================================
