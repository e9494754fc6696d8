---------------------- MODULE RetailerNotesProofs ----------------------
(* Proofs about RetailerNotes, for any invoices, notes, amounts and       *)
(* number of requests: whatever overlaps or dies, the status and the      *)
(* amount of an invoice come from one writer; when requests finish, every *)
(* reversal in the ledger has its posting; and when requests on one       *)
(* invoice take turns, it never owes less than its documents say, and the *)
(* ledger and the journal hold exactly the posted notes.                  *)
EXTENDS RetailerNotes, MoneyTheorems, TLAPS

Busy(c) == job[c].at # "idle"

\* A client that is not idle handles a note.
JobsMeant ==
  \A c \in Clients :
    /\ Busy(c) => job[c].note \in Notes /\ job[c].method \in {"post", "cancel"}
    /\ ~Busy(c) => job[c] = Idle

RowsInv == TypeOK /\ JobsMeant /\ RowsConsistent

LEMMA IdleJob ==
  /\ Idle \in Requests /\ Idle.at = "idle" /\ Idle.note = "none" /\ Idle.method = "none"
BY DEF Idle, Request, Requests, Steps

\* What a step of a request already begun does to its record.
LEMMA JobStep ==
  ASSUME TypeOK, JobsMeant, NEW c \in Clients, NEW j \in Requests,
         job' = [job EXCEPT ![c] = j],
         j = Idle \/ (j.at # "idle" /\ j.note \in Notes /\ j.method \in {"post", "cancel"})
  PROVE  job' \in [Clients -> Requests] /\ JobsMeant'
<1>1. job' \in [Clients -> Requests] /\ job'[c] = j /\ \A d \in Clients \ {c} : job'[d] = job[d]
  BY DEF TypeOK
<1> QED
  BY <1>1, IdleJob DEF JobsMeant, Busy

LEMMA ToStep ==
  ASSUME TypeOK, JobsMeant, NEW c \in Clients, Busy(c), NEW at \in Steps \ {"idle"}, To(c, at)
  PROVE  job' \in [Clients -> Requests] /\ JobsMeant'
<1> DEFINE j == [job[c] EXCEPT !.at = at]
<1>1. job[c] \in Requests /\ job[c].note \in Notes /\ job[c].method \in {"post", "cancel"}
  BY DEF TypeOK, JobsMeant
<1>2. j \in Requests /\ j.at = at /\ j.note = job[c].note /\ j.method = job[c].method
  BY <1>1 DEF Requests
<1>3. job' = [job EXCEPT ![c] = j]
  BY <1>1 DEF To, TypeOK
<1> HIDE DEF j
<1> QED
  BY <1>1, <1>2, <1>3, JobStep

LEMMA FinishStep ==
  ASSUME TypeOK, JobsMeant, NEW c \in Clients, Finish(c)
  PROVE  job' \in [Clients -> Requests] /\ JobsMeant'
BY IdleJob, JobStep DEF Finish

LEMMA BeginStep ==
  ASSUME TypeOK, JobsMeant, NEW c \in Clients, NEW n \in Notes, NEW m \in {"post", "cancel"},
         Begin(c, n, m)
  PROVE  job' \in [Clients -> Requests] /\ JobsMeant'
<1> DEFINE j == Request(m, n, "noted", nstatus[n] = "posted", applied[n], link[n], 0)
<1>1. applied[n] \in Nat /\ link[n] \in Nat
  BY DEF TypeOK
<1>2. j \in Requests /\ j.at = "noted" /\ j.note = n /\ j.method = m
  BY <1>1 DEF Request, Requests, Steps
<1>3. job' = [job EXCEPT ![c] = j]
  BY DEF Begin
<1> HIDE DEF j
<1> QED
  BY <1>2, <1>3, JobStep

LEMMA ReadStep ==
  ASSUME TypeOK, JobsMeant, NEW c \in Clients, ReadInvoice(c)
  PROVE  job' \in [Clients -> Requests] /\ JobsMeant'
<1>1. /\ job[c] \in Requests /\ job[c].note \in Notes /\ job[c].method \in {"post", "cancel"}
      /\ Related[job[c].note] \in Invoices \cup {"none"}
  BY NotesAssumption DEF ReadInvoice, TypeOK, JobsMeant, Busy
<1>2. PICK owed : owed = IF Related[job[c].note] = "none" THEN 0 ELSE outstanding[Related[job[c].note]]
  OBVIOUS
<1>3. owed \in Nat
  BY <1>1, <1>2 DEF TypeOK
<1>4. PICK j : j = [job[c] EXCEPT !.at = "ready", !.owed = owed]
  OBVIOUS
<1>5. "ready" \in Steps
  BY DEF Steps
<1>6. j \in Requests /\ j.at = "ready" /\ j.note = job[c].note /\ j.method = job[c].method
  BY <1>1, <1>3, <1>4, <1>5 DEF Requests
<1>7. job' = [job EXCEPT ![c] = j]
  BY <1>1, <1>2, <1>4 DEF ReadInvoice, TypeOK
<1> QED
  BY <1>1, <1>6, <1>7, JobStep

-----------------------------------------------------------------------
(* Invoice rows                                                         *)

InvoiceTypes ==
  /\ istatus \in [Invoices -> {"posted", "partial_paid", "paid", "cancelled"}]
  /\ outstanding \in [Invoices -> Nat] /\ taken \in [Invoices -> Nat]
  /\ voided \subseteq Invoices

LEMMA Statuses ==
  ASSUME NEW owed \in Nat
  PROVE  /\ StatusOf(owed) \in {"posted", "partial_paid", "paid"}
         /\ LowerStatus(owed) \in {"partial_paid", "paid"}
         /\ StatusOf(owed) = "paid" => owed = 0
         /\ StatusOf(owed) = "posted" => owed >= Bill
         /\ StatusOf(owed) = "partial_paid" => owed > 0
         /\ LowerStatus(owed) = "paid" => owed = 0
         /\ LowerStatus(owed) = "partial_paid" => owed > 0
BY NotesAssumption DEF StatusOf, LowerStatus

LEMMA WriteRow ==
  ASSUME InvoiceTypes, RowsConsistent, NEW i \in Invoices, NEW owed \in Nat,
         NEW status \in {StatusOf(owed), LowerStatus(owed)}, WriteInvoice(i, owed, status)
  PROVE  InvoiceTypes' /\ RowsConsistent'
<1>1. /\ status \in {"posted", "partial_paid", "paid"}
      /\ status = "paid" => owed = 0
      /\ status = "posted" => owed >= Bill
      /\ status = "partial_paid" => owed > 0
  BY Statuses
<1> QED
  BY <1>1 DEF WriteInvoice, InvoiceTypes, RowsConsistent

\* A posting takes no more than is owed.
LEMMA ShareTyped ==
  ASSUME NEW n \in Notes, NEW owed \in Nat
  PROVE  /\ Share(n, owed) \in Nat
         /\ Kind[n] = "credit" => owed - Share(n, owed) \in Nat
         /\ Share(n, owed) > 0 => Related[n] \in Invoices
         /\ Amount[n] \in Nat \ {0} /\ Related[n] \in Invoices \cup {"none"}
<1>1. Amount[n] \in Nat \ {0} /\ Related[n] \in Invoices \cup {"none"}
  BY NotesAssumption
<1>2. Share(n, owed) \in Nat
  BY <1>1 DEF Share, Least
<1>3. Kind[n] = "credit" => owed - Share(n, owed) \in Nat
  BY <1>1 DEF Share, Least
<1> QED
  BY <1>1, <1>2, <1>3 DEF Share

LEMMA UndoneTyped ==
  ASSUME NEW n \in Notes, NEW owed \in Nat, NEW back \in Nat
  PROVE  Undone(n, owed, back) \in Nat
BY DEF Undone, Excess

LEMMA RowsUnchanged ==
  ASSUME InvoiceTypes, RowsConsistent, UNCHANGED invoiceRows
  PROVE  InvoiceTypes' /\ RowsConsistent'
BY DEF InvoiceTypes, RowsConsistent, invoiceRows

LEMMA CommitPostRows ==
  ASSUME RowsInv, NEW c \in Clients, CommitPost(c)
  PROVE  InvoiceTypes' /\ RowsConsistent'
<1>1. PICK n, owed : n = job[c].note /\ owed = job[c].owed
  OBVIOUS
<1>2. n \in Notes /\ owed \in Nat
  BY <1>1 DEF RowsInv, TypeOK, JobsMeant, Busy, Requests, CommitPost
<1>3. InvoiceTypes /\ RowsConsistent
  BY DEF RowsInv, TypeOK, InvoiceTypes
<1>4. CASE Kind[n] = "credit" /\ ApplyCredit(n, owed)
  BY <1>2, <1>3, <1>4, ShareTyped, WriteRow, RowsUnchanged DEF ApplyCredit
<1>5. CASE Kind[n] = "debit" /\ ApplyDebit(n, owed)
  <2>1. owed + Amount[n] \in Nat
    BY <1>2, ShareTyped
  <2> QED
    BY <1>2, <1>3, <1>5, <2>1, ShareTyped, WriteRow, RowsUnchanged DEF ApplyDebit
<1> QED
  BY <1>1, <1>4, <1>5 DEF CommitPost

LEMMA RestoreRows ==
  ASSUME RowsInv, NEW n \in Notes, NEW was, NEW owed \in Nat, NEW back \in Nat,
         Restore(n, was, owed, back)
  PROVE  InvoiceTypes' /\ RowsConsistent'
<1>1. InvoiceTypes /\ RowsConsistent
  BY DEF RowsInv, TypeOK, InvoiceTypes
<1>2. Undone(n, owed, back) \in Nat /\ Related[n] \in Invoices \cup {"none"}
  BY UndoneTyped, ShareTyped
<1> QED
  BY <1>1, <1>2, WriteRow, RowsUnchanged DEF Restore

-----------------------------------------------------------------------
(* Rows stay consistent                                                 *)

LEMMA RowsStep ==
  ASSUME RowsInv, [Next]_vars
  PROVE  RowsInv'
<1> USE DEF RowsInv
<1>d. discipline' = discipline
  BY DEF Next, vars
<1> USE <1>d
<1>0. /\ InvoiceTypes
      /\ \A c \in Clients : job[c].at # "idle" => Busy(c)
  BY DEF TypeOK, InvoiceTypes, Busy
<1>t. ASSUME InvoiceTypes', UNCHANGED <<noteRows, books, job>>  PROVE TypeOK' /\ JobsMeant'
  BY <1>t DEF InvoiceTypes, TypeOK, JobsMeant, Busy, noteRows, books
<1>1. ASSUME NEW i \in Invoices, NEW a \in Parts, Pay(i, a) \/ TakeBack(i, a)  PROVE RowsInv'
  <2>1. a \in Nat
    BY NotesAssumption
  <2>2. CASE Pay(i, a)
    <3>1. outstanding[i] - a \in Nat
      BY <2>1, <2>2 DEF Pay, TypeOK
    <3>2. LowerStatus(outstanding[i] - a) \in {"partial_paid", "paid"}
      BY <3>1, Statuses
    <3>3. InvoiceTypes'
      BY <1>0, <2>1, <2>2, <3>1, <3>2 DEF Pay, InvoiceTypes
    <3>4. RowsConsistent'
      BY <2>2, <3>1, Statuses DEF Pay, RowsConsistent, TypeOK
    <3> QED
      BY <1>t, <2>2, <3>3, <3>4 DEF Pay
  <2>3. CASE TakeBack(i, a)
    <3>1. outstanding[i] + a \in Nat /\ taken[i] - a \in Nat
      BY <2>1, <2>3 DEF TakeBack, TypeOK
    <3>2. StatusOf(outstanding[i] + a) \in {"posted", "partial_paid", "paid"}
      BY <3>1, Statuses
    <3>3. InvoiceTypes'
      BY <1>0, <2>3, <3>1, <3>2 DEF TakeBack, InvoiceTypes
    <3>4. RowsConsistent'
      BY <2>3, <3>1, Statuses DEF TakeBack, RowsConsistent, TypeOK
    <3> QED
      BY <1>t, <2>3, <3>3, <3>4 DEF TakeBack
  <2> QED
    BY <1>1, <2>2, <2>3
<1>2. ASSUME NEW i \in Invoices, VoidInvoice(i)  PROVE RowsInv'
  <2>1. InvoiceTypes' /\ RowsConsistent'
    BY <1>0, <1>2 DEF VoidInvoice, InvoiceTypes, RowsConsistent
  <2> QED
    BY <1>t, <1>2, <2>1 DEF VoidInvoice
<1>3. ASSUME NEW n \in Notes, CreateNote(n) \/ CreatePosted(n)  PROVE RowsInv'
  BY <1>3, RowsUnchanged, <1>0
     DEF CreateNote, CreatePosted, TypeOK, InvoiceTypes, JobsMeant, Busy, books, invoiceRows
<1>4. ASSUME NEW c \in Clients, NEW n \in Notes, BeginPost(c, n) \/ BeginCancel(c, n)
      PROVE  RowsInv'
  <2>1. job' \in [Clients -> Requests] /\ JobsMeant'
    BY <1>4, BeginStep DEF BeginPost, BeginCancel
  <2>2. UNCHANGED <<invoiceRows, noteRows, books>>
    BY <1>4 DEF BeginPost, BeginCancel, Begin
  <2> QED
    BY <1>0, <2>1, <2>2, RowsUnchanged DEF TypeOK, noteRows, books, invoiceRows
<1>5. ASSUME NEW c \in Clients, ReadInvoice(c)  PROVE RowsInv'
  <2>1. job' \in [Clients -> Requests] /\ JobsMeant'
    BY <1>5, ReadStep
  <2> QED
    BY <1>0, <1>5, <2>1, RowsUnchanged DEF ReadInvoice, TypeOK, noteRows, books, invoiceRows
<1>6. ASSUME NEW c \in Clients, CommitPost(c)  PROVE RowsInv'
  <2>1. job' \in [Clients -> Requests] /\ JobsMeant'
    BY <1>0, <1>6, ToStep DEF CommitPost, Steps
  <2>2. InvoiceTypes' /\ RowsConsistent'
    BY <1>6, CommitPostRows
  <2>3. job[c].note \in Notes /\ Share(job[c].note, job[c].owed) \in Nat
    BY <1>6, ShareTyped DEF CommitPost, JobsMeant, Busy, TypeOK, Requests
  <2> QED
    BY <1>6, <2>1, <2>2, <2>3 DEF CommitPost, TypeOK, InvoiceTypes, books
<1>7. ASSUME NEW c \in Clients, CommitCancel(c)  PROVE RowsInv'
  <2>1. job' \in [Clients -> Requests] /\ JobsMeant'
    <3>1. CASE job[c].was
      BY <1>0, <1>7, <3>1, ToStep DEF CommitCancel, Steps
    <3>2. CASE ~job[c].was
      BY <1>7, <3>2, FinishStep DEF CommitCancel
    <3> QED
      BY <3>1, <3>2
  <2>2. job[c].note \in Notes /\ job[c].owed \in Nat /\ job[c].back \in Nat
    BY <1>7 DEF CommitCancel, JobsMeant, Busy, TypeOK, Requests
  <2>3. InvoiceTypes' /\ RowsConsistent'
    BY <1>7, <2>2, RestoreRows DEF CommitCancel
  <2> QED
    BY <1>7, <2>1, <2>3 DEF CommitCancel, TypeOK, InvoiceTypes, books
<1>8. ASSUME NEW c \in Clients, PostLedger(c)  PROVE RowsInv'
  <2>1. job' \in [Clients -> Requests] /\ JobsMeant'
    BY <1>0, <1>8, ToStep DEF PostLedger, Steps
  <2>2. job[c].note \in Notes
    BY <1>8 DEF PostLedger, JobsMeant, Busy
  <2>3. ledger' \subseteq Notes \X {"posted", "cancelled"}
    BY <1>8, <2>2 DEF PostLedger, TypeOK
  <2> QED
    BY <1>0, <1>8, <2>1, <2>3, RowsUnchanged DEF PostLedger, TypeOK, noteRows, invoiceRows
<1>9. ASSUME NEW c \in Clients, CreateJournalEntry(c)  PROVE RowsInv'
  <2>1. job[c] \in Requests /\ job[c].note \in Notes /\ job[c].method = "post"
    BY <1>9 DEF CreateJournalEntry, JobsMeant, Busy, TypeOK
  <2>2. PICK k : k = made[job[c].note] + 1
    OBVIOUS
  <2>3. k \in Nat
    BY <2>1, <2>2 DEF TypeOK
  <2>4. PICK j : j = [job[c] EXCEPT !.at = "journalled", !.entry = k]
    OBVIOUS
  <2>5. "journalled" \in Steps
    BY DEF Steps
  <2>6. j \in Requests /\ j.at = "journalled" /\ j.note = job[c].note /\ j.method = job[c].method
    BY <2>1, <2>3, <2>4, <2>5 DEF Requests
  <2>7. job' = [job EXCEPT ![c] = j]
    BY <1>9, <2>1, <2>2, <2>4 DEF CreateJournalEntry, TypeOK
  <2>8. job' \in [Clients -> Requests] /\ JobsMeant'
    BY <2>1, <2>6, <2>7, JobStep
  <2>9. made' \in [Notes -> Nat]
    BY <1>9, <2>2, <2>3 DEF CreateJournalEntry, TypeOK
  <2> QED
    BY <1>0, <1>9, <2>8, <2>9, RowsUnchanged DEF CreateJournalEntry, TypeOK, noteRows, invoiceRows
<1>10. ASSUME NEW c \in Clients, LinkJournalEntry(c)  PROVE RowsInv'
  <2>1. job' \in [Clients -> Requests] /\ JobsMeant'
    BY <1>10, FinishStep DEF LinkJournalEntry
  <2>2. job[c].entry \in Nat
    BY DEF TypeOK, Requests
  <2> QED
    BY <1>0, <1>10, <2>1, <2>2, RowsUnchanged DEF LinkJournalEntry, TypeOK, noteRows, invoiceRows
<1>11. ASSUME NEW c \in Clients, ReverseJournalEntry(c)  PROVE RowsInv'
  <2>1. job' \in [Clients -> Requests] /\ JobsMeant'
    BY <1>11, FinishStep DEF ReverseJournalEntry
  <2>2. job[c].entry \in Nat
    BY DEF TypeOK, Requests
  <2>3. reversed' \in [Notes -> SUBSET Nat]
    BY <1>11, <2>2 DEF ReverseJournalEntry, TypeOK
  <2> QED
    BY <1>0, <1>11, <2>1, <2>3, RowsUnchanged
       DEF ReverseJournalEntry, TypeOK, noteRows, invoiceRows
<1>12. ASSUME NEW c \in Clients, GiveUp(c)  PROVE RowsInv'
  <2>1. job' \in [Clients -> Requests] /\ JobsMeant'
    BY <1>12, FinishStep DEF GiveUp
  <2> QED
    BY <1>0, <1>12, <2>1, RowsUnchanged DEF GiveUp, TypeOK, noteRows, books, invoiceRows
<1>13. ASSUME UNCHANGED vars  PROVE RowsInv'
  BY <1>13, <1>0, <1>t, RowsUnchanged DEF vars
<1> QED
  BY <1>1, <1>2, <1>3, <1>4, <1>5, <1>6, <1>7, <1>8, <1>9, <1>10, <1>11, <1>12, <1>13 DEF Next, Act

LEMMA RowsStart == Init => RowsInv
BY NotesAssumption, IdleJob DEF Init, RowsInv, TypeOK, JobsMeant, RowsConsistent, Busy

\* Whatever requests overlap and whatever dies half way, an invoice is paid,
\* posted or paid in part exactly as its amount says, and a cancelled one owes
\* nothing.
THEOREM NotesKeepRowsConsistent == Spec => []RowsConsistent
<1>1. RowsInv => RowsConsistent
  BY DEF RowsInv
<1> QED
  BY <1>1, RowsStart, RowsStep, PTL DEF Spec

-----------------------------------------------------------------------
(* Reversals have their postings                                        *)

Posting(n) ==
  \E c \in Clients : job[c].note = n /\ job[c].method = "post" /\ job[c].at = "committed"

\* A posting of n is in the ledger or about to be.
Backed(n) == <<n, "posted">> \in ledger \/ Posting(n)

AllPaired == \A n \in Notes : Paired(n)

PairInv ==
  /\ RowsInv /\ AllPaired
  /\ \A n \in Notes : nstatus[n] = "posted" /\ InLedger[n] => Backed(n)
  /\ \A c \in Clients, n \in Notes :
       job[c].note = n /\ job[c].method = "cancel" /\ job[c].was /\ InLedger[n] => Backed(n)
  /\ \A c \in Clients :
       job[c].method = "cancel" /\ job[c].at \in {"committed", "ledgered"} => job[c].was
  /\ \A n \in Notes : <<n, "cancelled">> \in ledger => InLedger[n]

\* What is backed stays so as long as nothing dies.
LEMMA BackedStays ==
  ASSUME RowsInv, Alive, [Next]_vars, NEW n \in Notes, InLedger[n], Backed(n)
  PROVE  Backed(n)'
<1> USE DEF RowsInv
<1>1. ASSUME NEW c \in Clients, PostLedger(c)  PROVE Backed(n)'
  <2>1. /\ ledger \subseteq ledger' /\ \A d \in Clients \ {c} : job'[d] = job[d]
        /\ job[c].note = n /\ job[c].method = "post" => <<n, "posted">> \in ledger'
    BY <1>1 DEF PostLedger, To, TypeOK
  <2> QED
    BY <2>1 DEF Backed, Posting
<1>2. ASSUME NEW c \in Clients, job[c].at # "committed", UNCHANGED ledger,
             \A d \in Clients \ {c} : job'[d] = job[d]
      PROVE  Backed(n)'
  BY <1>2 DEF Backed, Posting
<1>3. ASSUME UNCHANGED <<ledger, job>>  PROVE Backed(n)'
  BY <1>3 DEF Backed, Posting
<1>4. ASSUME NEW c \in Clients, NEW m \in Notes, BeginPost(c, m) \/ BeginCancel(c, m)
      PROVE  Backed(n)'
  <2>1. /\ job[c].at # "committed" /\ UNCHANGED ledger
        /\ \A d \in Clients \ {c} : job'[d] = job[d]
    BY <1>4, IdleJob DEF BeginPost, BeginCancel, Begin, TypeOK, books
  <2> QED
    BY <1>2, <2>1
<1>5. ASSUME NEW c \in Clients,
             \/ ReadInvoice(c) \/ CommitPost(c) \/ CommitCancel(c)
             \/ CreateJournalEntry(c) \/ LinkJournalEntry(c) \/ ReverseJournalEntry(c)
      PROVE  Backed(n)'
  <2>1. /\ job[c].at # "committed" /\ UNCHANGED ledger
        /\ \A d \in Clients \ {c} : job'[d] = job[d]
    BY <1>5 DEF ReadInvoice, CommitPost, CommitCancel, CreateJournalEntry, LinkJournalEntry,
                ReverseJournalEntry, Finish, To, TypeOK, books
  <2> QED
    BY <1>2, <2>1
<1>6. ASSUME \/ \E i \in Invoices, a \in Parts : Pay(i, a) \/ TakeBack(i, a)
             \/ \E i \in Invoices : VoidInvoice(i)
             \/ \E m \in Notes : CreateNote(m) \/ CreatePosted(m)
             \/ UNCHANGED vars
      PROVE  Backed(n)'
  <2>1. UNCHANGED <<ledger, job>>
    BY <1>6 DEF Pay, TakeBack, VoidInvoice, CreateNote, CreatePosted, books, vars
  <2> QED
    BY <1>3, <2>1
<1>7. \A c \in Clients : ~GiveUp(c)
  BY DEF GiveUp
<1> QED
  BY <1>1, <1>4, <1>5, <1>6, <1>7 DEF Next, Act

\* What the steps of a request keep of its record and of the note's row.
LEMMA RecordStep ==
  ASSUME RowsInv, Drafted, [Next]_vars, NEW c \in Clients
  PROVE  \/ job'[c].method # "cancel"
         \/ /\ job'[c].at = "noted" /\ job'[c].note \in Notes
            /\ job'[c].was = (nstatus[job'[c].note] = "posted")
         \/ /\ job[c].method = "cancel" /\ job'[c].was = job[c].was
            /\ job'[c].note = job[c].note
            /\ \/ job'[c].at \notin {"committed", "ledgered"} \/ job[c].was
               \/ job[c].at \in {"committed", "ledgered"}
<1> USE DEF RowsInv
<1> DEFINE Kept(j, k) ==
      \/ k.method # "cancel"
      \/ k.at = "noted" /\ k.note \in Notes /\ k.was = (nstatus[k.note] = "posted")
      \/ /\ j.method = "cancel" /\ k.was = j.was /\ k.note = j.note
         /\ \/ k.at \notin {"committed", "ledgered"} \/ j.was
            \/ j.at \in {"committed", "ledgered"}
<1>0. \A j : Kept(j, j) /\ Kept(j, Idle)
  BY IdleJob
<1>1. ASSUME NEW d \in Clients, NEW n \in Notes, BeginPost(d, n) \/ BeginCancel(d, n)
      PROVE  Kept(job[c], job'[c])
  <2>1. CASE d = c
    <3>1. PICK m : job'[c] = Request(m, n, "noted", nstatus[n] = "posted", applied[n], link[n], 0)
      BY <1>1, <2>1 DEF BeginPost, BeginCancel, Begin, TypeOK
    <3> QED
      BY <3>1 DEF Request
  <2>2. CASE d # c
    <3>1. job'[c] = job[c]
      BY <1>1, <2>2 DEF BeginPost, BeginCancel, Begin, TypeOK
    <3> QED
      BY <1>0, <3>1
  <2> QED
    BY <2>1, <2>2
<1>2. ASSUME NEW d \in Clients,
             \/ ReadInvoice(d) \/ CommitPost(d) \/ PostLedger(d) \/ CreateJournalEntry(d)
      PROVE  Kept(job[c], job'[c])
  <2>1. job[c] \in Requests
    BY DEF TypeOK
  <2>2. CASE d = c
    BY <1>2, <2>1, <2>2
       DEF ReadInvoice, CommitPost, PostLedger, CreateJournalEntry, To, TypeOK, Requests
  <2>3. CASE d # c
    <3>1. job'[c] = job[c]
      BY <1>2, <2>3 DEF ReadInvoice, CommitPost, PostLedger, CreateJournalEntry, To, TypeOK
    <3> QED
      BY <1>0, <3>1
  <2> QED
    BY <2>2, <2>3
<1>3. ASSUME NEW d \in Clients,
             \/ LinkJournalEntry(d) \/ ReverseJournalEntry(d) \/ GiveUp(d)
      PROVE  Kept(job[c], job'[c])
  <2>1. job'[c] = Idle \/ job'[c] = job[c]
    BY <1>3 DEF LinkJournalEntry, ReverseJournalEntry, GiveUp, Finish, TypeOK
  <2> QED
    BY <1>0, <2>1
<1>4. ASSUME NEW d \in Clients, CommitCancel(d)  PROVE Kept(job[c], job'[c])
  <2>1. CASE d # c
    <3>1. job'[c] = job[c]
      BY <1>4, <2>1 DEF CommitCancel, Finish, To, TypeOK
    <3> QED
      BY <1>0, <3>1
  <2>2. CASE d = c /\ job[c].was
    <3>1. job[c] \in Requests /\ job[c].method = "cancel"
      BY <1>4, <2>2 DEF CommitCancel, TypeOK
    <3>2. To(c, "committed")
      BY <1>4, <2>2 DEF CommitCancel
    <3>3. job'[c].was = job[c].was /\ job'[c].note = job[c].note
      BY <3>1, <3>2 DEF To, TypeOK, Requests
    <3> QED
      BY <2>2, <3>1, <3>3
  <2>3. CASE d = c /\ ~job[c].was
    <3>1. job'[c] = Idle
      BY <1>4, <2>3 DEF CommitCancel, Finish, TypeOK
    <3> QED
      BY <1>0, <3>1
  <2> QED
    BY <2>1, <2>2, <2>3
<1>5. ASSUME \/ \E i \in Invoices, a \in Parts : Pay(i, a) \/ TakeBack(i, a)
             \/ \E i \in Invoices : VoidInvoice(i)
             \/ \E m \in Notes : CreateNote(m) \/ CreatePosted(m)
             \/ UNCHANGED vars
      PROVE  Kept(job[c], job'[c])
  <2>1. UNCHANGED job
    BY <1>5 DEF Pay, TakeBack, VoidInvoice, CreateNote, CreatePosted, vars
  <2> QED
    BY <1>0, <2>1
<1> QED
  BY <1>1, <1>2, <1>3, <1>4, <1>5 DEF Next, Act

\* A note becomes posted by a posting, which is then about to reach the ledger.
LEMMA PostedStep ==
  ASSUME RowsInv, Drafted, [Next]_vars, NEW n \in Notes, nstatus'[n] = "posted"
  PROVE  nstatus[n] = "posted" \/ Posting(n)'
<1> USE DEF RowsInv
<1>1. ASSUME NEW c \in Clients, CommitPost(c)  PROVE nstatus[n] = "posted" \/ Posting(n)'
  <2>1. job[c] \in Requests /\ job[c].note \in Notes /\ job[c].method = "post"
    BY <1>1 DEF CommitPost, JobsMeant, Busy, TypeOK
  <2>2. /\ nstatus'[n] # nstatus[n] => job[c].note = n
        /\ job'[c].note = job[c].note /\ job'[c].method = "post" /\ job'[c].at = "committed"
    BY <1>1, <2>1 DEF CommitPost, To, TypeOK, Requests
  <2> QED
    BY <2>2 DEF Posting
<1>2. ASSUME NEW c \in Clients, CommitCancel(c)  PROVE nstatus[n] = "posted"
  BY <1>2 DEF CommitCancel, TypeOK
<1>3. ASSUME NEW m \in Notes, CreateNote(m) \/ CreatePosted(m)  PROVE nstatus[n] = "posted"
  BY <1>3 DEF CreateNote, CreatePosted, TypeOK
<1>4. ASSUME UNCHANGED nstatus  PROVE nstatus[n] = "posted"
  BY <1>4
<1> QED
  BY <1>1, <1>2, <1>3, <1>4
     DEF Next, Act, Pay, TakeBack, VoidInvoice, BeginPost, BeginCancel, Begin, ReadInvoice, PostLedger,
         CreateJournalEntry, LinkJournalEntry, ReverseJournalEntry, GiveUp, vars, noteRows

\* A reversal enters the ledger by a cancellation of a note that was posted.
LEMMA ReversedStep ==
  ASSUME PairInv, [Next]_vars, NEW n \in Notes, <<n, "cancelled">> \in ledger'
  PROVE  InLedger[n] /\ Backed(n)
<1> USE DEF PairInv, RowsInv
<1>1. ASSUME NEW c \in Clients, PostLedger(c), <<n, "cancelled">> \notin ledger
      PROVE  InLedger[n] /\ Backed(n)
  <2>1. job[c].note = n /\ job[c].method # "post" /\ InLedger[n] /\ job[c].at = "committed"
    BY <1>1 DEF PostLedger
  <2>2. job[c].method = "cancel" /\ job[c].was
    BY <2>1 DEF JobsMeant, Busy
  <2> QED
    BY <2>1, <2>2
<1>2. ASSUME <<n, "cancelled">> \in ledger  PROVE InLedger[n] /\ Backed(n)
  BY <1>2 DEF AllPaired, Paired, Backed, Posting
<1>3. UNCHANGED ledger \/ \E c \in Clients : PostLedger(c)
  BY DEF Next, Act, Pay, TakeBack, VoidInvoice, CreateNote, CreatePosted, BeginPost, BeginCancel, Begin,
         ReadInvoice, CommitPost, CommitCancel, CreateJournalEntry, LinkJournalEntry,
         ReverseJournalEntry, GiveUp, vars, books
<1> QED
  BY <1>1, <1>2, <1>3

\* When credit notes are created as drafts and requests finish, no overlap
\* leaves a reversal in the ledger without the posting it reverses.
THEOREM ReversalsPaired == Spec => []ReversalsArePaired
<1>0. [Next]_vars => (Drafted' = Drafted) /\ (Alive' = Alive)
  BY DEF Next, vars, Drafted, Alive
<1>1. Init => (Drafted /\ Alive => PairInv)
  BY RowsStart, IdleJob DEF Init, PairInv, AllPaired, Paired
<1>2. (Drafted /\ Alive => PairInv) /\ [Next]_vars => (Drafted /\ Alive => PairInv)'
  <2> SUFFICES ASSUME PairInv, Drafted, Alive, [Next]_vars  PROVE PairInv'
    BY <1>0
  <2>0. RowsInv /\ RowsInv'
    BY RowsStep DEF PairInv
  <2>1. ASSUME NEW n \in Notes, nstatus'[n] = "posted", InLedger[n]  PROVE Backed(n)'
    <3>1. nstatus[n] = "posted" \/ Posting(n)'
      BY <2>0, <2>1, PostedStep
    <3>2. CASE nstatus[n] = "posted"
      BY <2>0, <2>1, <3>2, BackedStays DEF PairInv
    <3> QED
      BY <3>1, <3>2 DEF Backed
  <2>2. ASSUME NEW n \in Notes, <<n, "cancelled">> \in ledger'
        PROVE  InLedger[n] /\ Backed(n)'
    BY <2>0, <2>2, ReversedStep, BackedStays
  <2>3. ASSUME NEW c \in Clients, NEW n \in Notes, job'[c].note = n,
               job'[c].method = "cancel", job'[c].was, InLedger[n]
        PROVE  Backed(n)'
    <3>1. Backed(n)
      BY <2>0, <2>3, RecordStep DEF PairInv
    <3> QED
      BY <2>0, <2>3, <3>1, BackedStays
  <2>4. ASSUME NEW c \in Clients, job'[c].method = "cancel",
               job'[c].at \in {"committed", "ledgered"}
        PROVE  job'[c].was
    BY <2>0, <2>4, RecordStep DEF PairInv
  <2>5. AllPaired'
    BY <2>2 DEF AllPaired, Paired, Backed, Posting
  <2> QED
    BY <2>0, <2>1, <2>2, <2>3, <2>4, <2>5 DEF PairInv
<1>3. (Drafted /\ Alive => PairInv) => ReversalsArePaired
  BY DEF PairInv, AllPaired, ReversalsArePaired
<1> QED
  BY <1>1, <1>2, <1>3, PTL DEF Spec

-----------------------------------------------------------------------
(* Requests that take turns                                             *)

Alone ==
  \A c, d \in Clients : c # d /\ Busy(c) /\ Busy(d) => Separate(job[c].note, job[d].note)

\* What a request has read and not yet used is what the rows say.
NoteFresh(j) ==
  /\ nstatus[j.note] \in {"draft", "posted"} /\ j.back = applied[j.note]
  /\ j.was = (nstatus[j.note] = "posted") /\ (j.method = "post" => ~j.was)
InvoiceFresh(j) ==
  Related[j.note] \in Invoices => j.owed = outstanding[Related[j.note]]
Fresh ==
  \A c \in Clients :
    /\ job[c].at \in {"noted", "ready"} => NoteFresh(job[c])
    /\ job[c].at = "ready" => InvoiceFresh(job[c])

Unapplied == \A n \in Notes : nstatus[n] \in {"none", "draft"} => applied[n] = 0

TurnInv == RowsInv /\ Alone /\ Fresh /\ Unapplied

\* A step of one request: the others' records and their rows stay.
Others(c) ==
  \A d \in Clients \ {c} :
    /\ job'[d] = job[d]
    /\ Busy(d) => /\ nstatus'[job[d].note] = nstatus[job[d].note]
                  /\ applied'[job[d].note] = applied[job[d].note]
                  /\ Related[job[d].note] \in Invoices =>
                       outstanding'[Related[job[d].note]] = outstanding[Related[job[d].note]]

\* Then all that can go wrong is in that request.
LEMMA OwnStep ==
  ASSUME TurnInv, NEW c \in Clients, Others(c),
         job'[c].note = job[c].note \/ job'[c].at = "idle",
         Busy(c), job'[c].at \in {"noted", "ready"} => NoteFresh(job[c])',
         job'[c].at = "ready" => InvoiceFresh(job[c])'
  PROVE  Alone' /\ Fresh'
<1>1. \A d \in Clients \ {c} : job'[d] = job[d]
  BY DEF Others
<1>2. Alone'
  BY <1>1 DEF TurnInv, Alone, Busy, Separate
<1>3. ASSUME NEW d \in Clients \ {c}, job[d].at \in {"noted", "ready"}
      PROVE  NoteFresh(job[d])' /\ (job[d].at = "ready" => InvoiceFresh(job[d])')
  <2>1. Busy(d) /\ job'[d] = job[d]
    BY <1>1, <1>3 DEF Busy
  <2>2. NoteFresh(job[d]) /\ (job[d].at = "ready" => InvoiceFresh(job[d]))
    BY <1>3 DEF TurnInv, Fresh
  <2> QED
    BY <2>1, <2>2 DEF Others, NoteFresh, InvoiceFresh
<1>4. Fresh'
  BY <1>1, <1>3 DEF Fresh
<1> QED
  BY <1>2, <1>4

LEMMA WriteOthers ==
  ASSUME TurnInv, NEW c \in Clients, Busy(c), NEW n \in Notes, n = job[c].note,
         \A d \in Clients \ {c} : job'[d] = job[d],
         \A m \in Notes \ {n} : nstatus'[m] = nstatus[m] /\ applied'[m] = applied[m],
         \A i \in Invoices \ {Related[n]} : outstanding'[i] = outstanding[i]
  PROVE  Others(c)
<1> SUFFICES ASSUME NEW d \in Clients \ {c}, Busy(d)
             PROVE  /\ job[d].note \in Notes \ {n}
                    /\ Related[job[d].note] \in Invoices => Related[job[d].note] # Related[n]
  BY DEF Others
<1>1. Separate(job[c].note, job[d].note) /\ Separate(job[d].note, job[c].note)
  BY DEF TurnInv, Alone
<1>2. job[d].note \in Notes
  BY DEF TurnInv, RowsInv, JobsMeant
<1> QED
  BY <1>1, <1>2, NotesAssumption DEF Separate

\* A step on an invoice that no request in flight uses.
LEMMA FreeStep ==
  ASSUME TurnInv, Apart, NEW i \in Invoices, Free(i), UNCHANGED <<nstatus, applied, job>>,
         \A h \in Invoices \ {i} : outstanding'[h] = outstanding[h]
  PROVE  Alone' /\ Fresh' /\ Unapplied'
<1>1. \A d \in Clients : Busy(d) => Related[job[d].note] # i
  BY IdleJob DEF Free, InUse, Busy
<1>2. ASSUME NEW d \in Clients, job[d].at \in {"noted", "ready"}
      PROVE  NoteFresh(job[d])' /\ (job[d].at = "ready" => InvoiceFresh(job[d])')
  <2>1. NoteFresh(job[d]) /\ (job[d].at = "ready" => InvoiceFresh(job[d]))
    BY <1>2 DEF TurnInv, Fresh
  <2>2. Related[job[d].note] # i
    BY <1>1, <1>2 DEF Busy
  <2> QED
    BY <2>1, <2>2 DEF NoteFresh, InvoiceFresh
<1> QED
  BY <1>2 DEF TurnInv, Alone, Busy, Separate, Fresh, Unapplied

LEMMA BeginTurn ==
  ASSUME TurnInv, Apart, NEW c \in Clients, NEW n \in Notes,
         BeginPost(c, n) \/ BeginCancel(c, n)
  PROVE  Alone' /\ Fresh' /\ Unapplied'
<1>1. PICK m \in {"post", "cancel"} :
        Begin(c, n, m) /\ nstatus[n] \in {"draft", "posted"} /\ (m = "post" => nstatus[n] = "draft")
  BY DEF BeginPost, BeginCancel
<1>2. PICK j : j = Request(m, n, "noted", nstatus[n] = "posted", applied[n], link[n], 0)
  OBVIOUS
<1>3. /\ job'[c] = j /\ \A d \in Clients \ {c} : job'[d] = job[d]
      /\ UNCHANGED <<nstatus, applied, outstanding>>
      /\ j.note = n /\ j.method = m /\ j.at = "noted" /\ j.was = (nstatus[n] = "posted")
      /\ j.back = applied[n]
  BY <1>1, <1>2 DEF Begin, Request, TurnInv, RowsInv, TypeOK, invoiceRows, noteRows
<1>4. ASSUME NEW d \in Clients \ {c}, Busy(d)
      PROVE  Separate(n, job[d].note) /\ Separate(job[d].note, n)
  <2>1. /\ job[d].note # n
        /\ Related[n] # "none" => Related[job[d].note] # Related[n]
    BY <1>1, <1>4, IdleJob DEF Begin, InTurn, Separate, Busy
  <2> QED
    BY <2>1 DEF Separate
<1>5. Alone'
  BY <1>3, <1>4 DEF TurnInv, Alone, Busy, Separate
<1>6. ASSUME NEW d \in Clients \ {c}, job[d].at \in {"noted", "ready"}
      PROVE  NoteFresh(job[d])' /\ (job[d].at = "ready" => InvoiceFresh(job[d])')
  <2>1. NoteFresh(job[d]) /\ (job[d].at = "ready" => InvoiceFresh(job[d]))
    BY <1>6 DEF TurnInv, Fresh
  <2> QED
    BY <1>3, <2>1 DEF NoteFresh, InvoiceFresh
<1>7. NoteFresh(job[c])' /\ job'[c].at # "ready"
  BY <1>1, <1>3 DEF NoteFresh
<1>8. Fresh'
  BY <1>3, <1>6, <1>7 DEF Fresh
<1>9. Unapplied'
  BY <1>3 DEF TurnInv, Unapplied
<1> QED
  BY <1>5, <1>8, <1>9

\* The transactions: what they write, for the note n they handle.
LEMMA CommitWrites ==
  ASSUME TurnInv, NEW c \in Clients, CommitPost(c) \/ CommitCancel(c)
  PROVE  /\ job[c].note \in Notes /\ Busy(c) /\ job[c].at = "ready"
         /\ NoteFresh(job[c]) /\ InvoiceFresh(job[c])
         /\ \A d \in Clients \ {c} : job'[d] = job[d]
         /\ \A m \in Notes \ {job[c].note} : nstatus'[m] = nstatus[m] /\ applied'[m] = applied[m]
         /\ \A i \in Invoices \ {Related[job[c].note]} : outstanding'[i] = outstanding[i]
         /\ job'[c].at \in {"committed", "idle"}
         /\ job'[c].note = job[c].note \/ job'[c].at = "idle"
<1> USE DEF TurnInv, RowsInv
<1>1. PICK n : n = job[c].note
  OBVIOUS
<1>2. n \in Notes /\ Busy(c) /\ job[c].at = "ready" /\ job[c] \in Requests
  BY <1>1 DEF CommitPost, CommitCancel, JobsMeant, Busy, TypeOK
<1>3. NoteFresh(job[c]) /\ InvoiceFresh(job[c])
  BY <1>2 DEF Fresh
<1>4. \A owed, status : WriteInvoice(Related[n], owed, status) =>
        \A i \in Invoices \ {Related[n]} : outstanding'[i] = outstanding[i]
  BY DEF WriteInvoice, TypeOK
<1>5. UNCHANGED invoiceRows => \A i \in Invoices : outstanding'[i] = outstanding[i]
  BY DEF invoiceRows
<1>6. \A i \in Invoices \ {Related[n]} : outstanding'[i] = outstanding[i]
  BY <1>1, <1>4, <1>5 DEF CommitPost, CommitCancel, ApplyCredit, ApplyDebit, Restore
<1>7. /\ To(c, "committed") \/ Finish(c)
      /\ \A m \in Notes \ {n} : nstatus'[m] = nstatus[m] /\ applied'[m] = applied[m]
  BY <1>1 DEF CommitPost, CommitCancel, TypeOK
<1>8. /\ \A d \in Clients \ {c} : job'[d] = job[d]
      /\ (job'[c].at = "committed" /\ job'[c].note = n) \/ job'[c] = Idle
  BY <1>1, <1>2, <1>7 DEF To, Finish, TypeOK, Requests
<1> QED
  BY <1>1, <1>2, <1>3, <1>6, <1>7, <1>8, IdleJob

LEMMA TurnStep ==
  ASSUME TurnInv, Apart, [Next]_vars
  PROVE  TurnInv'
<1>0. RowsInv'
  BY RowsStep DEF TurnInv
<1> USE DEF TurnInv, RowsInv
<1>1. ASSUME NEW i \in Invoices, NEW a \in Parts, Pay(i, a) \/ TakeBack(i, a)
      PROVE  Alone' /\ Fresh' /\ Unapplied'
  <2>1. /\ Free(i) /\ UNCHANGED <<nstatus, applied, job>>
        /\ \A h \in Invoices \ {i} : outstanding'[h] = outstanding[h]
    BY <1>1 DEF Pay, TakeBack, TypeOK, noteRows
  <2> QED
    BY <2>1, FreeStep
<1>2. ASSUME NEW i \in Invoices, VoidInvoice(i)  PROVE Alone' /\ Fresh' /\ Unapplied'
  <2>1. /\ Free(i) /\ UNCHANGED <<nstatus, applied, job>>
        /\ \A h \in Invoices \ {i} : outstanding'[h] = outstanding[h]
    BY <1>2 DEF VoidInvoice, TypeOK, noteRows
  <2> QED
    BY <2>1, FreeStep
<1>3. ASSUME NEW n \in Notes, CreateNote(n) \/ CreatePosted(n)
      PROVE  Alone' /\ Fresh' /\ Unapplied'
  <2>1. /\ nstatus[n] = "none" /\ nstatus'[n] \in {"draft", "posted"}
        /\ \A m \in Notes \ {n} : nstatus'[m] = nstatus[m]
        /\ UNCHANGED <<applied, job, outstanding>>
    BY <1>3 DEF CreateNote, CreatePosted, TypeOK, invoiceRows
  <2>2. ASSUME NEW d \in Clients, job[d].at \in {"noted", "ready"}
        PROVE  NoteFresh(job[d])' /\ (job[d].at = "ready" => InvoiceFresh(job[d])')
    <3>1. NoteFresh(job[d]) /\ (job[d].at = "ready" => InvoiceFresh(job[d]))
      BY <2>2 DEF Fresh
    <3>2. job[d].note \in Notes \ {n}
      BY <2>1, <2>2, <3>1 DEF JobsMeant, Busy, NoteFresh
    <3> QED
      BY <2>1, <3>1, <3>2 DEF NoteFresh, InvoiceFresh
  <2> QED
    BY <2>1, <2>2 DEF Alone, Busy, Separate, Fresh, Unapplied
<1>4. ASSUME NEW c \in Clients, NEW n \in Notes, BeginPost(c, n) \/ BeginCancel(c, n)
      PROVE  Alone' /\ Fresh' /\ Unapplied'
  BY <1>4, BeginTurn
<1>5. ASSUME NEW c \in Clients, ReadInvoice(c)  PROVE Alone' /\ Fresh' /\ Unapplied'
  <2>1. PICK n : n = job[c].note
    OBVIOUS
  <2>2. n \in Notes /\ Busy(c) /\ job[c] \in Requests /\ NoteFresh(job[c])
    BY <1>5, <2>1 DEF ReadInvoice, JobsMeant, Busy, TypeOK, Fresh
  <2>3. /\ \A d \in Clients \ {c} : job'[d] = job[d]
        /\ UNCHANGED <<nstatus, applied, outstanding>>
        /\ job'[c].note = n /\ job'[c].was = job[c].was /\ job'[c].back = job[c].back
        /\ job'[c].method = job[c].method
        /\ Related[n] \in Invoices => job'[c].owed = outstanding[Related[n]]
    BY <1>5, <2>1, <2>2, NotesAssumption
       DEF ReadInvoice, TypeOK, Requests, invoiceRows, noteRows
  <2>4. Others(c)
    BY <2>3 DEF Others
  <2>5. NoteFresh(job[c])' /\ InvoiceFresh(job[c])'
    BY <2>1, <2>2, <2>3 DEF NoteFresh, InvoiceFresh
  <2>6. Alone' /\ Fresh'
    BY <2>1, <2>2, <2>3, <2>4, <2>5, OwnStep
  <2> QED
    BY <2>3, <2>6 DEF Unapplied
<1>6. ASSUME NEW c \in Clients, CommitPost(c) \/ CommitCancel(c)
      PROVE  Alone' /\ Fresh' /\ Unapplied'
  <2>1. Others(c)
    BY <1>6, CommitWrites, WriteOthers
  <2>2. Alone' /\ Fresh'
    BY <1>6, <2>1, CommitWrites, OwnStep
  <2>3. nstatus'[job[c].note] \in {"posted", "cancelled"}
    BY <1>6, CommitWrites DEF CommitPost, CommitCancel, TypeOK
  <2>4. Unapplied'
    BY <1>6, <2>3, CommitWrites DEF Unapplied
  <2> QED
    BY <2>2, <2>4
<1>7. ASSUME NEW c \in Clients,
             \/ PostLedger(c) \/ CreateJournalEntry(c) \/ LinkJournalEntry(c)
             \/ ReverseJournalEntry(c) \/ GiveUp(c)
      PROVE  Alone' /\ Fresh' /\ Unapplied'
  <2>1. UNCHANGED <<nstatus, applied, outstanding>>
    BY <1>7 DEF PostLedger, CreateJournalEntry, LinkJournalEntry, ReverseJournalEntry, GiveUp,
                noteRows, invoiceRows
  <2>2. job[c] \in Requests /\ Busy(c)
    BY <1>7, IdleJob
       DEF PostLedger, CreateJournalEntry, LinkJournalEntry, ReverseJournalEntry, GiveUp,
           JobsMeant, Busy, TypeOK
  <2>3. /\ \A d \in Clients \ {c} : job'[d] = job[d]
        /\ \/ job'[c] = Idle
           \/ job'[c].note = job[c].note /\ job'[c].at \in {"ledgered", "journalled"}
    BY <1>7, <2>2
       DEF PostLedger, CreateJournalEntry, LinkJournalEntry, ReverseJournalEntry, GiveUp, Finish, To,
           TypeOK, Requests
  <2>4. Others(c)
    BY <2>1, <2>3 DEF Others
  <2>5. Alone' /\ Fresh'
    BY <2>2, <2>3, <2>4, IdleJob, OwnStep
  <2> QED
    BY <2>1, <2>5 DEF Unapplied
<1>8. ASSUME UNCHANGED vars  PROVE Alone' /\ Fresh' /\ Unapplied'
  BY <1>8 DEF vars, noteRows, invoiceRows, Alone, Busy, Separate, Fresh, NoteFresh, InvoiceFresh,
              Unapplied
<1> QED
  BY <1>0, <1>1, <1>2, <1>3, <1>4, <1>5, <1>6, <1>7, <1>8 DEF Next, Act

-----------------------------------------------------------------------
(* What an invoice owes covers its documents                            *)

\* What a note contributes, and that totals move with it alone.
LEMMA EffectMoves ==
  ASSUME TypeOK, TypeOK', NEW n \in Notes, NEW i, NEW kind,
         \A m \in Notes \ {n} : nstatus'[m] = nstatus[m] /\ applied'[m] = applied[m]
  PROVE  /\ Total(Effect(i, kind), Notes) \in Nat /\ Total(Effect(i, kind)', Notes) \in Nat
         /\ Total(Effect(i, kind)', Notes) + Effect(i, kind)[n]
              = Total(Effect(i, kind), Notes) + Effect(i, kind)'[n]
<1>1. PICK f, g : f = Effect(i, kind) /\ g = Effect(i, kind)'
  OBVIOUS
<1>2. /\ \A m \in Notes : f[m] \in Nat /\ g[m] \in Nat
      /\ \A m \in Notes \ {n} : f[m] = g[m]
  BY <1>1 DEF Effect, TypeOK
<1>3. Total(f, Notes) \in Nat /\ Total(g, Notes) \in Nat
  BY <1>2, TotalNat, NotesAssumption
<1>4. Total(g, Notes) + f[n] = Total(f, Notes) + g[n]
  BY <1>2, TotalMoves, NotesAssumption
<1> QED
  BY <1>1, <1>3, <1>4

LEMMA EffectSame ==
  ASSUME UNCHANGED <<nstatus, applied>>, NEW i
  PROVE  Credited(i)' = Credited(i) /\ Debited(i)' = Debited(i)
BY DEF Credited, Debited, Effect

\* Both totals of an invoice when one note's contribution changes.
LEMMA CoverMoves ==
  ASSUME TypeOK, TypeOK', NEW n \in Notes, NEW i \in Invoices,
         \A m \in Notes \ {n} : nstatus'[m] = nstatus[m] /\ applied'[m] = applied[m],
         NEW cr \in Nat, NEW db \in Nat, NEW cr2 \in Nat, NEW db2 \in Nat,
         cr = Effect(i, "credit")[n], db = Effect(i, "debit")[n],
         cr2 = Effect(i, "credit")'[n], db2 = Effect(i, "debit")'[n],
         Covers(i), taken'[i] = taken[i],
         outstanding[i] + cr + db2 <= outstanding'[i] + cr2 + db
  PROVE  Covers(i)'
<1>1. /\ Credited(i) \in Nat /\ Credited(i)' \in Nat /\ Debited(i) \in Nat /\ Debited(i)' \in Nat
      /\ Credited(i)' + cr = Credited(i) + cr2
      /\ Debited(i)' + db = Debited(i) + db2
  BY EffectMoves DEF Credited, Debited
<1>2. /\ outstanding[i] \in Nat /\ outstanding'[i] \in Nat /\ taken[i] \in Nat /\ Bill \in Nat
  BY NotesAssumption DEF TypeOK
<1>3. Bill + Debited(i) <= outstanding[i] + taken[i] + Credited(i)
  BY DEF Covers
<1>4. Bill + Debited(i)' <= outstanding'[i] + taken[i] + Credited(i)'
  BY <1>1, <1>2, <1>3
<1> QED
  BY <1>4 DEF Covers

\* A posting takes from the invoice or adds to it what its note then accounts for.
LEMMA PostCovers ==
  ASSUME TurnInv, TypeOK', NEW c \in Clients, CommitPost(c), NEW i \in Invoices, Covers(i)
  PROVE  Covers(i)'
<1> USE DEF TurnInv, RowsInv
<1>1. PICK n, owed, share : n = job[c].note /\ owed = job[c].owed /\ share = Share(n, owed)
  OBVIOUS
<1>2. /\ n \in Notes /\ owed \in Nat /\ share \in Nat /\ nstatus[n] = "draft" /\ applied[n] = 0
      /\ Related[n] = i => owed = outstanding[i]
      /\ \A m \in Notes \ {n} : nstatus'[m] = nstatus[m] /\ applied'[m] = applied[m]
      /\ \A h \in Invoices \ {Related[n]} : outstanding'[h] = outstanding[h]
  <2>1. n \in Notes /\ NoteFresh(job[c]) /\ InvoiceFresh(job[c]) /\ job[c] \in Requests
    BY <1>1, CommitWrites DEF TypeOK
  <2>2. nstatus[n] = "draft" /\ applied[n] = 0
    BY <1>1, <2>1 DEF NoteFresh, CommitPost, Unapplied
  <2>3. owed \in Nat /\ share \in Nat
    BY <1>1, <2>1, ShareTyped DEF Requests
  <2> QED
    BY <1>1, <2>1, <2>2, <2>3, CommitWrites DEF InvoiceFresh
<1>3. nstatus'[n] = "posted" /\ applied'[n] = share /\ taken'[i] = taken[i]
  BY <1>1, <1>2
     DEF CommitPost, TypeOK, ApplyCredit, ApplyDebit, WriteInvoice, invoiceRows
<1>4. Effect(i, "credit")[n] = 0 /\ Effect(i, "debit")[n] = 0
  BY <1>2 DEF Effect
<1>5. /\ Effect(i, "credit")'[n] = IF Related[n] = i /\ Kind[n] = "credit" THEN share ELSE 0
      /\ Effect(i, "debit")'[n] = IF Related[n] = i /\ Kind[n] = "debit" THEN share ELSE 0
  BY <1>2, <1>3 DEF Effect
<1>6. outstanding[i] \in Nat /\ outstanding'[i] \in Nat
  BY DEF TypeOK
<1>7. CASE Related[n] # i
  BY <1>2, <1>3, <1>4, <1>5, <1>6, <1>7, CoverMoves
<1>8. CASE Related[n] = i /\ Kind[n] = "credit"
  <2>1. outstanding'[i] = outstanding[i] - share
    BY <1>1, <1>2, <1>6, <1>8 DEF CommitPost, ApplyCredit, WriteInvoice, TypeOK, invoiceRows
  <2> QED
    BY <1>2, <1>3, <1>4, <1>5, <1>6, <1>8, <2>1, CoverMoves
<1>9. CASE Related[n] = i /\ Kind[n] = "debit"
  <2>1. share = Amount[n]
    BY <1>1, <1>9, NotesAssumption DEF Share
  <2>2. outstanding'[i] = outstanding[i] + share
    BY <1>1, <1>2, <1>9, <2>1, NotesAssumption DEF CommitPost, ApplyDebit, WriteInvoice, TypeOK
  <2> QED
    BY <1>2, <1>3, <1>4, <1>5, <1>6, <1>9, <2>2, CoverMoves
<1> QED
  BY <1>2, <1>7, <1>8, <1>9, NotesAssumption

\* A cancellation gives back all a credit note took, and takes back no more
\* than a debit note added.
LEMMA CancelCovers ==
  ASSUME TurnInv, TypeOK', NEW c \in Clients, CommitCancel(c), NEW i \in Invoices, Covers(i)
  PROVE  Covers(i)'
<1> USE DEF TurnInv, RowsInv
<1>1. PICK n, owed, back, was :
        n = job[c].note /\ owed = job[c].owed /\ back = job[c].back /\ was = job[c].was
  OBVIOUS
<1>2. /\ n \in Notes /\ owed \in Nat /\ back \in Nat
      /\ was = (nstatus[n] = "posted") /\ applied[n] = back
      /\ Related[n] = i => owed = outstanding[i]
      /\ \A m \in Notes \ {n} : nstatus'[m] = nstatus[m] /\ applied'[m] = applied[m]
      /\ \A h \in Invoices \ {Related[n]} : outstanding'[h] = outstanding[h]
  <2>1. n \in Notes /\ NoteFresh(job[c]) /\ InvoiceFresh(job[c]) /\ job[c] \in Requests
    BY <1>1, CommitWrites DEF TypeOK
  <2>2. owed \in Nat /\ back \in Nat
    BY <1>1, <2>1 DEF Requests
  <2> QED
    BY <1>1, <2>1, <2>2, CommitWrites DEF InvoiceFresh, NoteFresh
<1>3. /\ Restore(n, was, owed, back) /\ nstatus'[n] = "cancelled" /\ taken'[i] = taken[i]
  BY <1>1, <1>2 DEF CommitCancel, TypeOK, Restore, WriteInvoice, invoiceRows
<1>4. /\ Effect(i, "credit")[n] = IF was /\ Related[n] = i /\ Kind[n] = "credit" THEN back ELSE 0
      /\ Effect(i, "debit")[n] = IF was /\ Related[n] = i /\ Kind[n] = "debit" THEN back ELSE 0
  BY <1>2 DEF Effect
<1>5. Effect(i, "credit")'[n] = 0 /\ Effect(i, "debit")'[n] = 0
  BY <1>2, <1>3 DEF Effect
<1>6. outstanding[i] \in Nat /\ outstanding'[i] \in Nat
  BY DEF TypeOK
<1>7. CASE Related[n] # i \/ ~was \/ back = 0
  <2>1. outstanding'[i] = outstanding[i]
    BY <1>2, <1>3, <1>7 DEF Restore, WriteInvoice, TypeOK, invoiceRows
  <2> QED
    BY <1>2, <1>3, <1>4, <1>5, <1>6, <1>7, <2>1, CoverMoves
<1>8. CASE Related[n] = i /\ was /\ back # 0 /\ Kind[n] = "credit"
  <2>1. outstanding'[i] = outstanding[i] + back
    BY <1>2, <1>3, <1>8, NotesAssumption DEF Restore, WriteInvoice, Undone, TypeOK
  <2> QED
    BY <1>2, <1>3, <1>4, <1>5, <1>6, <1>8, <2>1, CoverMoves
<1>9. CASE Related[n] = i /\ was /\ back # 0 /\ Kind[n] = "debit"
  <2>1. outstanding'[i] = Excess(outstanding[i], back)
    BY <1>2, <1>3, <1>9, NotesAssumption DEF Restore, WriteInvoice, Undone, TypeOK
  <2>2. outstanding[i] <= outstanding'[i] + back
    BY <1>2, <1>6, <2>1 DEF Excess
  <2> QED
    BY <1>2, <1>3, <1>4, <1>5, <1>6, <1>9, <2>2, CoverMoves
<1> QED
  BY <1>2, <1>7, <1>8, <1>9, NotesAssumption

\* The steps that leave the notes' rows alone, or only begin a note's.
LEMMA OtherCovers ==
  ASSUME TurnInv, TypeOK', [Next]_vars, NEW i \in Invoices, i \notin voided', Covers(i),
         \A c \in Clients : ~CommitPost(c) /\ ~CommitCancel(c)
  PROVE  Covers(i)'
<1> USE DEF TurnInv, RowsInv
<1>0. /\ outstanding[i] \in Nat /\ taken[i] \in Nat /\ Bill \in Nat
      /\ Credited(i) \in Nat /\ Debited(i) \in Nat
  <2>1. \A k : \A m \in Notes : Effect(i, k)[m] \in Nat
    BY DEF Effect, TypeOK
  <2>2. Credited(i) \in Nat /\ Debited(i) \in Nat
    BY <2>1, TotalNat, NotesAssumption DEF Credited, Debited
  <2> QED
    BY <2>2, NotesAssumption DEF TypeOK
<1>1. ASSUME NEW h \in Invoices, NEW a \in Parts, Pay(h, a) \/ TakeBack(h, a)
      PROVE  Covers(i)'
  <2>1. Credited(i)' = Credited(i) /\ Debited(i)' = Debited(i)
    BY <1>1, EffectSame DEF Pay, TakeBack, noteRows
  <2>2. a \in Nat
    BY NotesAssumption
  <2>3. outstanding'[i] + taken'[i] = outstanding[i] + taken[i]
    BY <1>0, <1>1, <2>2 DEF Pay, TakeBack, TypeOK
  <2>4. outstanding'[i] \in Nat /\ taken'[i] \in Nat
    BY DEF TypeOK
  <2>5. Bill + Debited(i) <= outstanding[i] + taken[i] + Credited(i)
    BY DEF Covers
  <2>6. Bill + Debited(i)' <= outstanding'[i] + taken'[i] + Credited(i)'
    BY <1>0, <2>1, <2>3, <2>4, <2>5
  <2> QED
    BY <2>6 DEF Covers
<1>2. ASSUME NEW h \in Invoices, VoidInvoice(h)  PROVE Covers(i)'
  <2>1. Credited(i)' = Credited(i) /\ Debited(i)' = Debited(i)
    BY <1>2, EffectSame DEF VoidInvoice, noteRows
  <2>2. i # h /\ outstanding'[i] = outstanding[i] /\ taken'[i] = taken[i]
    BY <1>2 DEF VoidInvoice, TypeOK
  <2> QED
    BY <2>1, <2>2 DEF Covers
<1>3. ASSUME NEW n \in Notes, CreateNote(n) \/ CreatePosted(n)  PROVE Covers(i)'
  <2>1. /\ nstatus[n] = "none" /\ applied[n] = 0 /\ applied'[n] = 0
        /\ \A m \in Notes \ {n} : nstatus'[m] = nstatus[m] /\ applied'[m] = applied[m]
        /\ UNCHANGED <<outstanding, taken>>
    BY <1>3 DEF CreateNote, CreatePosted, TypeOK, invoiceRows, Unapplied
  <2>2. /\ Effect(i, "credit")[n] = 0 /\ Effect(i, "credit")'[n] = 0
        /\ Effect(i, "debit")[n] = 0 /\ Effect(i, "debit")'[n] = 0
    BY <2>1 DEF Effect
  <2>3. /\ taken'[i] = taken[i] /\ 0 \in Nat
        /\ outstanding[i] + 0 + 0 <= outstanding'[i] + 0 + 0
    BY <1>0, <2>1
  <2> QED
    BY <2>1, <2>2, <2>3, CoverMoves
<1>4. ASSUME UNCHANGED <<invoiceRows, noteRows>>  PROVE Covers(i)'
  <2>1. Credited(i)' = Credited(i) /\ Debited(i)' = Debited(i)
    BY <1>4, EffectSame DEF noteRows
  <2> QED
    BY <1>4, <2>1 DEF Covers, invoiceRows
<1> QED
  BY <1>1, <1>2, <1>3, <1>4
     DEF Next, Act, BeginPost, BeginCancel, Begin, ReadInvoice, PostLedger, CreateJournalEntry,
         LinkJournalEntry, ReverseJournalEntry, GiveUp, vars

\* When the requests on one invoice take turns, an invoice that was not
\* cancelled never owes less than its bill and debit notes, less its receipts
\* and credit notes, however many notes there are and whatever dies.
THEOREM OwedIsCovered == Spec => []OwedCoversDocuments
<1> DEFINE AllCovered == \A i \in Invoices \ voided : Covers(i)
<1> DEFINE Inv == Apart => TurnInv /\ AllCovered
<1>0. [Next]_vars => (Apart' = Apart)
  BY DEF Next, vars, Apart
<1>1. Init => Inv
  <2> SUFFICES ASSUME Init  PROVE TurnInv /\ AllCovered
    OBVIOUS
  <2>1. TurnInv
    BY RowsStart, IdleJob DEF Init, TurnInv, Alone, Fresh, Unapplied, Busy
  <2>2. ASSUME NEW i \in Invoices  PROVE Covers(i)
    <3>1. \A k : \A m \in Notes : Effect(i, k)[m] = 0
      BY DEF Effect, Init
    <3>2. Credited(i) = 0 /\ Debited(i) = 0
      BY <3>1, TotalZero DEF Credited, Debited
    <3> QED
      BY <3>2, NotesAssumption DEF Covers, Init
  <2> QED
    BY <2>1, <2>2
<1>2. Inv /\ [Next]_vars => Inv'
  <2> SUFFICES ASSUME TurnInv, AllCovered, Apart, [Next]_vars  PROVE (TurnInv /\ AllCovered)'
    BY <1>0
  <2>1. TurnInv'
    BY TurnStep
  <2>2. TypeOK' /\ voided \subseteq voided'
    <3>1. voided \subseteq voided'
      BY DEF Next, Act, Pay, TakeBack, VoidInvoice, CreateNote, CreatePosted, BeginPost, BeginCancel, Begin,
             ReadInvoice, CommitPost, CommitCancel, ApplyCredit, ApplyDebit, Restore, WriteInvoice,
             PostLedger, CreateJournalEntry, LinkJournalEntry, ReverseJournalEntry, GiveUp, vars,
             invoiceRows
    <3> QED
      BY <2>1, <3>1 DEF TurnInv, RowsInv
  <2>3. ASSUME NEW i \in Invoices, i \notin voided'  PROVE Covers(i)'
    <3>1. Covers(i)
      BY <2>2, <2>3
    <3> QED
      BY <2>2, <2>3, <3>1, PostCovers, CancelCovers, OtherCovers
  <2> QED
    BY <2>1, <2>3
<1>3. Inv => OwedCoversDocuments
  BY DEF OwedCoversDocuments
<1> HIDE DEF Inv
<1> QED
  BY <1>1, <1>2, <1>3, PTL DEF Spec

-----------------------------------------------------------------------
(* The books of a note, while requests take turns and finish.            *)

\* What the books hold of a note: how it stands in the ledger, the journal
\* entries made and reversed, and the one its row points to.
Books(n, posted, cancelled, entries, undone, linked) ==
  /\ <<n, "posted">> \in ledger <=> posted /\ InLedger[n]
  /\ <<n, "cancelled">> \in ledger <=> cancelled /\ InLedger[n]
  /\ made[n] = entries /\ reversed[n] = undone /\ link[n] = linked

Unbooked(n) == Books(n, FALSE, FALSE, 0, {}, 0)
Booked(n)   == Books(n, TRUE, FALSE, 1, {}, 1)
Unmade(n)   == Books(n, TRUE, TRUE, 1, {1}, 1)

\* Nobody handles the note: its books follow its status.
QuietBooks(n) ==
  \/ nstatus[n] \in {"none", "draft"} /\ Unbooked(n)
  \/ nstatus[n] = "posted" /\ Booked(n)
  \/ nstatus[n] = "cancelled" /\ (Unbooked(n) \/ Unmade(n))

\* The request that handles it has done this much.
PostBooks(n, at, entry) ==
  \/ at \in {"noted", "ready"} /\ nstatus[n] = "draft" /\ Unbooked(n)
  \/ at = "committed" /\ nstatus[n] = "posted" /\ Unbooked(n)
  \/ at = "ledgered" /\ nstatus[n] = "posted" /\ Books(n, TRUE, FALSE, 0, {}, 0)
  \/ at = "journalled" /\ nstatus[n] = "posted" /\ Books(n, TRUE, FALSE, 1, {}, 0) /\ entry = 1

CancelBooks(n, at, was, entry) ==
  \/ at \in {"noted", "ready"} /\ nstatus[n] = "draft" /\ ~was /\ Unbooked(n)
  \/ at \in {"noted", "ready"} /\ nstatus[n] = "posted" /\ was /\ Booked(n) /\ entry = 1
  \/ at = "committed" /\ nstatus[n] = "cancelled" /\ Booked(n) /\ entry = 1
  \/ at = "ledgered" /\ nstatus[n] = "cancelled" /\ Books(n, TRUE, TRUE, 1, {}, 1) /\ entry = 1

RunningBooks(c) ==
  LET j == job[c] IN
  \/ j.method = "post" /\ PostBooks(j.note, j.at, j.entry)
  \/ j.method = "cancel" /\ CancelBooks(j.note, j.at, j.was, j.entry)

BooksInv ==
  /\ \A n \in Notes : Quiet(n) => QuietBooks(n)
  /\ \A c \in Clients : Busy(c) => RunningBooks(c)

\* A step leaves the books of a note alone.
SameBooks(m) ==
  /\ nstatus'[m] = nstatus[m] /\ made'[m] = made[m] /\ reversed'[m] = reversed[m]
  /\ link'[m] = link[m]
  /\ \A kind \in {"posted", "cancelled"} : <<m, kind>> \in ledger' <=> <<m, kind>> \in ledger

LEMMA BooksKept ==
  ASSUME NEW m \in Notes, SameBooks(m)
  PROVE  /\ \A p, q, k, u, e : Books(m, p, q, k, u, e)' <=> Books(m, p, q, k, u, e)
         /\ QuietBooks(m)' <=> QuietBooks(m)
         /\ \A at, entry : PostBooks(m, at, entry)' <=> PostBooks(m, at, entry)
         /\ \A at, was, entry : CancelBooks(m, at, was, entry)' <=> CancelBooks(m, at, was, entry)
BY DEF SameBooks, Books, QuietBooks, PostBooks, CancelBooks, Unbooked, Booked, Unmade

\* A step of one request on the note n.
LEMMA NoteStep ==
  ASSUME TurnInv, BooksInv, NEW c \in Clients, NEW n \in Notes,
         job[c].note \in {n, "none"},
         \A d \in Clients \ {c} : job'[d] = job[d] /\ (Busy(d) => job[d].note # n),
         \A m \in Notes \ {n} : SameBooks(m),
         \/ job'[c].note = n /\ RunningBooks(c)'
         \/ job'[c] = Idle /\ QuietBooks(n)'
  PROVE  BooksInv'
<1>0. n # "none" /\ \A d \in Clients : Busy(d) => job[d].note \in Notes
  BY NotesAssumption DEF TurnInv, RowsInv, JobsMeant
<1>1. ASSUME NEW m \in Notes, Quiet(m)' PROVE QuietBooks(m)'
  <2>1. CASE m = n
    BY <1>1, <2>1 DEF Quiet
  <2>2. CASE m # n
    <3>1. Quiet(m)
      BY <1>0, <1>1, <2>2, NotesAssumption DEF Quiet
    <3> QED
      BY <2>2, <3>1, BooksKept DEF BooksInv
  <2> QED
    BY <2>1, <2>2
<1>2. ASSUME NEW d \in Clients, Busy(d)' PROVE RunningBooks(d)'
  <2>1. CASE d = c
    BY <1>2, <2>1, IdleJob DEF Busy
  <2>2. CASE d # c
    <3>1. job'[d] = job[d] /\ Busy(d) /\ job[d].note \in Notes \ {n}
      BY <1>0, <1>2, <2>2 DEF Busy
    <3>2. RunningBooks(d)
      BY <3>1 DEF BooksInv
    <3>3. PICK m \in Notes : m = job[d].note /\ SameBooks(m)
      BY <3>1
    <3>4. \/ job[d].method = "post" /\ PostBooks(m, job[d].at, job[d].entry)
          \/ job[d].method = "cancel" /\ CancelBooks(m, job[d].at, job[d].was, job[d].entry)
      BY <3>2, <3>3 DEF RunningBooks
    <3>5. PICK at, was, entry : at = job[d].at /\ was = job[d].was /\ entry = job[d].entry
      OBVIOUS
    <3>6. \/ job[d].method = "post" /\ PostBooks(m, at, entry)'
          \/ job[d].method = "cancel" /\ CancelBooks(m, at, was, entry)'
      BY <3>3, <3>4, <3>5, BooksKept
    <3> QED
      BY <3>1, <3>3, <3>5, <3>6 DEF RunningBooks
  <2> QED
    BY <2>1, <2>2
<1> QED
  BY <1>1, <1>2 DEF BooksInv

\* A request begins on a note that nobody handles.
LEMMA BeginBooks ==
  ASSUME TurnInv, BooksInv, Apart, NEW c \in Clients, NEW n \in Notes,
         BeginPost(c, n) \/ BeginCancel(c, n)
  PROVE  BooksInv'
<1>1. /\ job[c] = Idle /\ \A d \in Clients : job[d] # Idle => Separate(job[d].note, n)
      /\ UNCHANGED <<nstatus, books>>
  BY DEF BeginPost, BeginCancel, Begin, InTurn, noteRows
<1>2. \A d \in Clients : job[d].note # n /\ job[c].note = "none"
  BY <1>1, IdleJob, NotesAssumption DEF Separate
<1>3. QuietBooks(n)
  BY <1>2 DEF BooksInv, Quiet
<1>4. \A m \in Notes : SameBooks(m)
  BY <1>1 DEF SameBooks, books
<1>5. PICK m \in {"post", "cancel"} :
        /\ job' = [job EXCEPT ![c] =
                    Request(m, n, "noted", nstatus[n] = "posted", applied[n], link[n], 0)]
        /\ m = "post" => nstatus[n] = "draft"
        /\ nstatus[n] \in {"draft", "posted"}
  BY DEF BeginPost, BeginCancel, Begin
<1>6. PICK was, entry : was = (nstatus[n] = "posted") /\ entry = link[n]
  OBVIOUS
<1>7. /\ job'[c].method = m /\ job'[c].note = n /\ job'[c].at = "noted"
      /\ job'[c].was = was /\ job'[c].entry = entry
      /\ \A d \in Clients \ {c} : job'[d] = job[d]
  BY <1>5, <1>6 DEF Request, TurnInv, RowsInv, TypeOK
<1>8. /\ m = "post" => PostBooks(n, "noted", entry)
      /\ m = "cancel" => CancelBooks(n, "noted", was, entry)
  BY <1>3, <1>5, <1>6 DEF QuietBooks, PostBooks, CancelBooks, Booked, Books
<1>9. /\ m = "post" => PostBooks(n, "noted", entry)'
      /\ m = "cancel" => CancelBooks(n, "noted", was, entry)'
  BY <1>4, <1>8, BooksKept
<1>10. RunningBooks(c)'
  BY <1>7, <1>9 DEF RunningBooks
<1> QED
  BY <1>2, <1>4, <1>7, <1>10, NoteStep

\* The note of a running request: nobody else handles it.
LEMMA OwnNote ==
  ASSUME TurnInv, BooksInv, NEW c \in Clients, Busy(c)
  PROVE  /\ job[c].note \in Notes /\ job[c] \in Requests /\ RunningBooks(c)
         /\ \A d \in Clients \ {c} : Busy(d) => job[d].note # job[c].note
BY DEF TurnInv, RowsInv, TypeOK, JobsMeant, Alone, Separate, BooksInv

\* What a step that goes on or ends leaves of the requests' records.
LEMMA ToRecords ==
  ASSUME TypeOK, NEW c \in Clients, NEW at, To(c, at)
  PROVE  /\ job'[c].method = job[c].method /\ job'[c].note = job[c].note
         /\ job'[c].was = job[c].was /\ job'[c].entry = job[c].entry /\ job'[c].at = at
         /\ \A d \in Clients \ {c} : job'[d] = job[d]
BY DEF TypeOK, To, Requests

LEMMA FinishRecords ==
  ASSUME TypeOK, NEW c \in Clients, Finish(c)
  PROVE  job'[c] = Idle /\ \A d \in Clients \ {c} : job'[d] = job[d]
BY DEF TypeOK, Finish

LEMMA ReadBooks ==
  ASSUME TurnInv, BooksInv, NEW c \in Clients, ReadInvoice(c)
  PROVE  BooksInv'
<1>1. Busy(c) /\ TypeOK /\ job[c].at = "noted"
  BY DEF ReadInvoice, Busy, TurnInv, RowsInv
<1>2. PICK n \in Notes : n = job[c].note
  BY <1>1, OwnNote
<1>3. /\ job'[c].method = job[c].method /\ job'[c].note = n /\ job'[c].at = "ready"
      /\ job'[c].was = job[c].was /\ job'[c].entry = job[c].entry
      /\ \A d \in Clients \ {c} : job'[d] = job[d]
  BY <1>1, <1>2 DEF ReadInvoice, TypeOK, Requests
<1>4. \A m \in Notes : SameBooks(m)
  BY DEF ReadInvoice, SameBooks, noteRows, books
<1>5. RunningBooks(c)'
  <2>1. PICK was, entry : was = job[c].was /\ entry = job[c].entry
    OBVIOUS
  <2>2. \/ job[c].method = "post" /\ PostBooks(n, "ready", entry)
        \/ job[c].method = "cancel" /\ CancelBooks(n, "ready", was, entry)
    BY <1>1, <1>2, <2>1, OwnNote DEF RunningBooks, PostBooks, CancelBooks
  <2>3. \/ job[c].method = "post" /\ PostBooks(n, "ready", entry)'
        \/ job[c].method = "cancel" /\ CancelBooks(n, "ready", was, entry)'
    BY <1>4, <2>2, BooksKept
  <2> QED
    BY <1>3, <2>1, <2>3 DEF RunningBooks
<1> QED
  BY <1>1, <1>2, <1>3, <1>4, <1>5, OwnNote, NoteStep

LEMMA CommitBooks ==
  ASSUME TurnInv, BooksInv, NEW c \in Clients, CommitPost(c) \/ CommitCancel(c)
  PROVE  BooksInv'
<1>1. Busy(c) /\ TypeOK /\ job[c].at = "ready" /\ UNCHANGED books
  BY DEF CommitPost, CommitCancel, Busy, TurnInv, RowsInv
<1>2. PICK n \in Notes : n = job[c].note
  BY <1>1, OwnNote
<1>3. ASSUME NEW p, NEW q, NEW k, NEW u, NEW e
      PROVE  Books(n, p, q, k, u, e)' <=> Books(n, p, q, k, u, e)
  BY <1>1 DEF Books, books
<1>4. \A m \in Notes \ {n} : SameBooks(m)
  BY <1>1, <1>2 DEF CommitPost, CommitCancel, SameBooks, TypeOK, books
<1>5. Unbooked(n)' <=> Unbooked(n)
  BY <1>3 DEF Unbooked
<1>6. Booked(n)' <=> Booked(n)
  BY <1>3 DEF Booked
<1>7. CASE CommitPost(c)
  <2>1. nstatus'[n] = "posted" /\ job[c].method = "post" /\ To(c, "committed")
    BY <1>1, <1>2, <1>7 DEF CommitPost, TypeOK
  <2>2. Unbooked(n)
    BY <1>1, <1>2, <2>1, OwnNote DEF RunningBooks, PostBooks
  <2>3. /\ job'[c].method = "post" /\ job'[c].note = n /\ job'[c].at = "committed"
        /\ \A d \in Clients \ {c} : job'[d] = job[d]
    BY <1>1, <1>2, <2>1, ToRecords
  <2>4. RunningBooks(c)'
    BY <1>5, <2>1, <2>2, <2>3 DEF RunningBooks, PostBooks
  <2> QED
    BY <1>1, <1>2, <1>4, <2>3, <2>4, OwnNote, NoteStep
<1>8. CASE CommitCancel(c)
  <2>1. /\ nstatus'[n] = "cancelled" /\ job[c].method = "cancel"
        /\ IF job[c].was THEN To(c, "committed") ELSE Finish(c)
    BY <1>1, <1>2, <1>8 DEF CommitCancel, TypeOK
  <2>2. IF job[c].was THEN Booked(n) /\ job[c].entry = 1 ELSE Unbooked(n)
    BY <1>1, <1>2, <2>1, OwnNote DEF RunningBooks, CancelBooks
  <2>3. CASE job[c].was
    <3>1. /\ job'[c].method = "cancel" /\ job'[c].note = n /\ job'[c].at = "committed"
          /\ job'[c].entry = 1 /\ \A d \in Clients \ {c} : job'[d] = job[d]
      BY <1>1, <1>2, <2>1, <2>2, <2>3, ToRecords
    <3>2. RunningBooks(c)'
      BY <1>6, <2>1, <2>2, <2>3, <3>1 DEF RunningBooks, CancelBooks
    <3> QED
      BY <1>1, <1>2, <1>4, <3>1, <3>2, OwnNote, NoteStep
  <2>4. CASE ~job[c].was
    <3>1. job'[c] = Idle /\ \A d \in Clients \ {c} : job'[d] = job[d]
      BY <1>1, <2>1, <2>4, FinishRecords
    <3>2. QuietBooks(n)'
      BY <1>5, <2>1, <2>2, <2>4 DEF QuietBooks
    <3> QED
      BY <1>1, <1>2, <1>4, <3>1, <3>2, OwnNote, NoteStep
  <2> QED
    BY <2>3, <2>4
<1> QED
  BY <1>7, <1>8

\* The ledger's row follows the note's.
LEMMA PostLedgerBooks ==
  ASSUME TurnInv, BooksInv, NEW c \in Clients, PostLedger(c)
  PROVE  BooksInv'
<1>1. /\ Busy(c) /\ TypeOK /\ job[c].at = "committed" /\ To(c, "ledgered")
      /\ UNCHANGED <<nstatus, link, made, reversed>>
  BY DEF PostLedger, Busy, TurnInv, RowsInv, noteRows
<1>2. PICK n \in Notes : n = job[c].note
  BY <1>1, OwnNote
<1>3. PICK kind : kind = IF job[c].method = "post" THEN "posted" ELSE "cancelled"
  OBVIOUS
<1>4. ledger' = IF InLedger[n] THEN ledger \cup {<<n, kind>>} ELSE ledger
  BY <1>2, <1>3 DEF PostLedger
<1>5. \A m \in Notes \ {n} : SameBooks(m)
  BY <1>1, <1>4 DEF SameBooks
<1>6. /\ job'[c].method = job[c].method /\ job'[c].note = n /\ job'[c].at = "ledgered"
      /\ job'[c].entry = job[c].entry /\ \A d \in Clients \ {c} : job'[d] = job[d]
  BY <1>1, <1>2, ToRecords
<1>7. CASE job[c].method = "post"
  <2>1. nstatus[n] = "posted" /\ Unbooked(n) /\ kind = "posted"
    BY <1>1, <1>2, <1>3, <1>7, OwnNote DEF RunningBooks, PostBooks
  <2>2. Books(n, TRUE, FALSE, 0, {}, 0)'
    BY <1>1, <1>4, <2>1, NotesAssumption DEF Unbooked, Books
  <2>3. RunningBooks(c)'
    BY <1>1, <1>6, <1>7, <2>1, <2>2 DEF RunningBooks, PostBooks
  <2> QED
    BY <1>1, <1>2, <1>5, <1>6, <2>3, OwnNote, NoteStep
<1>8. CASE job[c].method # "post"
  <2>1. /\ nstatus[n] = "cancelled" /\ Booked(n) /\ kind = "cancelled"
        /\ job[c].method = "cancel" /\ job[c].entry = 1
    BY <1>1, <1>2, <1>3, <1>8, OwnNote DEF RunningBooks, CancelBooks
  <2>2. Books(n, TRUE, TRUE, 1, {}, 1)'
    BY <1>1, <1>4, <2>1, NotesAssumption DEF Booked, Books
  <2>3. RunningBooks(c)'
    BY <1>1, <1>6, <2>1, <2>2 DEF RunningBooks, CancelBooks
  <2> QED
    BY <1>1, <1>2, <1>5, <1>6, <2>3, OwnNote, NoteStep
<1> QED
  BY <1>7, <1>8

\* The journal's entry follows the ledger's row, and the note's pointer the entry.
LEMMA JournalBooks ==
  ASSUME TurnInv, BooksInv, NEW c \in Clients,
         CreateJournalEntry(c) \/ LinkJournalEntry(c) \/ ReverseJournalEntry(c)
  PROVE  BooksInv'
<1>1. Busy(c) /\ TypeOK /\ UNCHANGED <<nstatus, ledger>>
  BY DEF CreateJournalEntry, LinkJournalEntry, ReverseJournalEntry, Busy, TurnInv, RowsInv, noteRows
<1>2. PICK n \in Notes : n = job[c].note
  BY <1>1, OwnNote
<1>3. CASE CreateJournalEntry(c)
  <2>1. /\ job[c].at = "ledgered" /\ job[c].method = "post" /\ UNCHANGED <<link, reversed>>
        /\ made'[n] = made[n] + 1 /\ \A m \in Notes \ {n} : made'[m] = made[m]
    BY <1>1, <1>2, <1>3 DEF CreateJournalEntry, TypeOK
  <2>2. nstatus[n] = "posted" /\ Books(n, TRUE, FALSE, 0, {}, 0)
    BY <1>1, <1>2, <2>1, OwnNote DEF RunningBooks, PostBooks
  <2>3. /\ job'[c].method = "post" /\ job'[c].note = n /\ job'[c].at = "journalled"
        /\ job'[c].entry = made[n] + 1 /\ \A d \in Clients \ {c} : job'[d] = job[d]
    BY <1>1, <1>2, <1>3 DEF CreateJournalEntry, TypeOK, Requests
  <2>4. made[n] = 0
    BY <2>2 DEF Books
  <2>5. Books(n, TRUE, FALSE, 1, {}, 0)' /\ job'[c].entry = 1
    BY <1>1, <2>1, <2>2, <2>3, <2>4 DEF Books
  <2>6. RunningBooks(c)'
    BY <1>1, <2>2, <2>3, <2>5 DEF RunningBooks, PostBooks
  <2>7. \A m \in Notes \ {n} : SameBooks(m)
    BY <1>1, <2>1 DEF SameBooks
  <2> QED
    BY <1>1, <1>2, <2>3, <2>6, <2>7, OwnNote, NoteStep
<1>4. CASE LinkJournalEntry(c)
  <2>1. /\ job[c].at = "journalled" /\ UNCHANGED <<made, reversed>> /\ Finish(c)
        /\ link'[n] = job[c].entry /\ \A m \in Notes \ {n} : link'[m] = link[m]
    BY <1>1, <1>2, <1>4 DEF LinkJournalEntry, TypeOK
  <2>2. nstatus[n] = "posted" /\ Books(n, TRUE, FALSE, 1, {}, 0) /\ job[c].entry = 1
    BY <1>1, <1>2, <2>1, OwnNote DEF RunningBooks, PostBooks, CancelBooks
  <2>3. Booked(n)'
    BY <1>1, <2>1, <2>2 DEF Booked, Books
  <2>4. QuietBooks(n)'
    BY <1>1, <2>2, <2>3 DEF QuietBooks
  <2>5. \A m \in Notes \ {n} : SameBooks(m)
    BY <1>1, <2>1 DEF SameBooks
  <2>6. job'[c] = Idle /\ \A d \in Clients \ {c} : job'[d] = job[d]
    BY <1>1, <2>1, FinishRecords
  <2> QED
    BY <1>1, <1>2, <2>4, <2>5, <2>6, OwnNote, NoteStep
<1>5. CASE ReverseJournalEntry(c)
  <2>1. /\ job[c].at = "ledgered" /\ job[c].method = "cancel" /\ UNCHANGED <<made, link>>
        /\ Finish(c)
    BY <1>5 DEF ReverseJournalEntry
  <2>2. nstatus[n] = "cancelled" /\ Books(n, TRUE, TRUE, 1, {}, 1) /\ job[c].entry = 1
    BY <1>1, <1>2, <2>1, OwnNote DEF RunningBooks, CancelBooks
  <2>3. reversed'[n] = reversed[n] \cup {1} /\ \A m \in Notes \ {n} : reversed'[m] = reversed[m]
    BY <1>1, <1>2, <1>5, <2>2 DEF ReverseJournalEntry, TypeOK
  <2>4. Unmade(n)'
    BY <1>1, <2>1, <2>2, <2>3 DEF Unmade, Books
  <2>5. QuietBooks(n)'
    BY <1>1, <2>2, <2>4 DEF QuietBooks
  <2>6. \A m \in Notes \ {n} : SameBooks(m)
    BY <1>1, <2>1, <2>3 DEF SameBooks
  <2>7. job'[c] = Idle /\ \A d \in Clients \ {c} : job'[d] = job[d]
    BY <1>1, <2>1, FinishRecords
  <2> QED
    BY <1>1, <1>2, <2>5, <2>6, <2>7, OwnNote, NoteStep
<1> QED
  BY <1>3, <1>4, <1>5

\* Steps on documents that no request in flight is about.
LEMMA DocumentBooks ==
  ASSUME TurnInv, BooksInv, Drafted,
         \/ \E i \in Invoices, a \in Parts : Pay(i, a) \/ TakeBack(i, a)
         \/ \E i \in Invoices : VoidInvoice(i)
         \/ \E n \in Notes : CreateNote(n) \/ CreatePosted(n)
         \/ UNCHANGED vars
  PROVE  BooksInv'
<1>1. CASE UNCHANGED <<nstatus, books, job>>
  BY <1>1 DEF BooksInv, Quiet, Busy, QuietBooks, RunningBooks, PostBooks, CancelBooks, Unbooked, Booked,
              Unmade, Books, books
<1>2. ASSUME NEW n \in Notes, CreateNote(n) PROVE BooksInv'
  <2>1. /\ nstatus[n] = "none" /\ nstatus'[n] = "draft" /\ UNCHANGED <<books, job>>
        /\ \A m \in Notes \ {n} : nstatus'[m] = nstatus[m]
    BY <1>2 DEF CreateNote, TurnInv, RowsInv, TypeOK
  <2>2. \A m \in Notes \ {n} : SameBooks(m)
    BY <2>1 DEF SameBooks, books
  <2>3. ASSUME NEW m \in Notes, Quiet(m)' PROVE QuietBooks(m)'
    <3>1. QuietBooks(m)
      BY <2>1, <2>3 DEF BooksInv, Quiet
    <3>2. m = n => Unbooked(m)' /\ nstatus'[m] = "draft"
      BY <2>1, <3>1 DEF QuietBooks, Unbooked, Books, books
    <3> QED
      BY <2>2, <3>1, <3>2, BooksKept DEF QuietBooks
  <2>4. ASSUME NEW c \in Clients, Busy(c)' PROVE RunningBooks(c)'
    <3>1. Busy(c) /\ job' = job
      BY <2>1, <2>4 DEF Busy
    <3>2. RunningBooks(c) /\ job[c].note \in Notes
      BY <3>1, OwnNote
    <3>3. job[c].note # n
      BY <2>1, <3>2 DEF RunningBooks, PostBooks, CancelBooks
    <3>4. PICK m \in Notes : m = job[c].note /\ SameBooks(m)
      BY <2>2, <3>2, <3>3
    <3>5. PICK at, was, entry : at = job[c].at /\ was = job[c].was /\ entry = job[c].entry
      OBVIOUS
    <3>6. \/ job[c].method = "post" /\ PostBooks(m, at, entry)'
          \/ job[c].method = "cancel" /\ CancelBooks(m, at, was, entry)'
      BY <3>2, <3>4, <3>5, BooksKept DEF RunningBooks
    <3> QED
      BY <3>1, <3>4, <3>5, <3>6 DEF RunningBooks
  <2> QED
    BY <2>3, <2>4 DEF BooksInv
<1> QED
  BY <1>1, <1>2 DEF Pay, TakeBack, VoidInvoice, CreatePosted, vars, noteRows, books

LEMMA StepBooks ==
  ASSUME TurnInv, BooksInv, Apart, Drafted, Alive, [Next]_vars
  PROVE  BooksInv'
BY DocumentBooks, BeginBooks, ReadBooks, CommitBooks, PostLedgerBooks, JournalBooks
   DEF Next, Act, GiveUp

\* When the requests on one invoice take turns, none dies and no note is created
\* as posted, the ledger and the journal hold each posted note once and no
\* other note, whatever was posted and cancelled before.
THEOREM BooksFollow == Spec => []BooksFollowNotes
<1> DEFINE Kept == Apart /\ Drafted /\ Alive
           Inv == Kept => TurnInv /\ BooksInv
<1>0. [Next]_vars => (Kept' <=> Kept)
  BY DEF Next, vars, Apart, Drafted, Alive
<1>1. Init => Inv
  <2> SUFFICES ASSUME Init PROVE TurnInv /\ BooksInv
    OBVIOUS
  <2>1. TurnInv
    BY RowsStart, IdleJob DEF Init, TurnInv, Alone, Fresh, Unapplied, Busy
  <2>2. BooksInv
    BY IdleJob DEF Init, BooksInv, Busy, QuietBooks, Unbooked, Books
  <2> QED
    BY <2>1, <2>2
<1>2. Inv /\ [Next]_vars => Inv'
  BY <1>0, TurnStep, StepBooks
<1>3. Inv => BooksFollowNotes
  <2> SUFFICES ASSUME TurnInv, BooksInv, NEW n \in Notes, Quiet(n)
               PROVE  /\ (<<n, "posted">> \in ledger /\ <<n, "cancelled">> \notin ledger)
                           <=> (nstatus[n] = "posted" /\ InLedger[n])
                      /\ Standing(n) = IF nstatus[n] = "posted" THEN {link[n]} ELSE {}
    BY DEF BooksFollowNotes
  <2>1. QuietBooks(n)
    BY DEF BooksInv
  <2>2. CASE Unbooked(n) /\ nstatus[n] # "posted"
    BY <2>2 DEF Unbooked, Books, Standing
  <2>3. CASE Booked(n) /\ nstatus[n] = "posted"
    BY <2>3 DEF Booked, Books, Standing
  <2>4. CASE Unmade(n) /\ nstatus[n] = "cancelled"
    BY <2>4 DEF Unmade, Books, Standing
  <2> QED
    BY <2>1, <2>2, <2>3, <2>4 DEF QuietBooks
<1> HIDE DEF Inv
<1> QED
  BY <1>1, <1>2, <1>3, PTL DEF Spec
=======================================================================
