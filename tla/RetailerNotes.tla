------------------------- MODULE RetailerNotes -------------------------
(* Credit and debit notes: the corrections of an invoice that money has   *)
(* already moved on.  Posting or cancelling a note reads the note, reads  *)
(* the invoice, writes both in a transaction as absolute values, and then *)
(* posts to the ledger and the journal in statements of their own.        *)
(* A request that pays or cancels the invoice is one step here, as are a  *)
(* ledger posting and a journal reversal, which Settlement and            *)
(* RetailerLedger take apart.                                             *)
EXTENDS Money, Integers

CONSTANTS
  Clients,       \* requests in flight at most
  Invoices,      \* posted sales invoices
  Notes,         \* ids of notes
  Kind,          \* "credit" or "debit", of each note
  Related,       \* invoice whose balance a note affects, or "none"
  Amount,        \* amount with tax of each note
  InLedger,      \* whether a note affects the ledger
  Bill,          \* grand total of every invoice
  Parts,         \* amounts receipts may take
  Disciplines    \* what callers may keep to, each a set: "apart" if requests
                 \*   in flight share no note and no invoice, "drafted" if no
                 \*   credit note is created as posted, "alive" if none dies

ASSUME NotesAssumption ==
  /\ IsFiniteSet(Notes) /\ "none" \notin Notes \cup Invoices
  /\ Kind \in [Notes -> {"credit", "debit"}]
  /\ Related \in [Notes -> Invoices \cup {"none"}]
  /\ Amount \in [Notes -> Nat \ {0}] /\ InLedger \in [Notes -> BOOLEAN]
  /\ Bill \in Nat \ {0} /\ Parts \subseteq Nat \ {0}
  /\ Disciplines \subseteq SUBSET {"apart", "drafted", "alive"}

VARIABLES
  istatus, outstanding,    \* invoice rows
  taken,                   \* what confirmed receipts allocate to each invoice
  voided,                  \* invoices that were cancelled (history)
  nstatus, applied,        \* note rows
  link,                    \* journal entry a note row points to, 0 if none
  made, reversed,          \* journal entries of a note, and those reversed
  ledger,                  \* postings and reversals of notes in the ledger
  job,                     \* the note request each client is handling
  discipline               \* what the callers keep to; nothing makes them

invoiceRows == <<istatus, outstanding, taken, voided>>
noteRows == <<nstatus, applied>>
books == <<link, made, reversed, ledger>>
vars == <<invoiceRows, noteRows, books, job, discipline>>

Steps == {"idle", "noted", "ready", "committed", "ledgered", "journalled"}

\* A request: what it does to which note, how far it is, and what it read:
\* whether the note was posted, its applied amount and journal entry, and
\* what the invoice owed.
Request(m, n, at, was, back, entry, owed) ==
  [method |-> m, note |-> n, at |-> at, was |-> was, back |-> back,
   entry |-> entry, owed |-> owed]
Requests ==
  [method : {"post", "cancel", "none"}, note : Notes \cup {"none"}, at : Steps,
   was : BOOLEAN, back : Nat, entry : Nat, owed : Nat]
Idle == Request("none", "none", "idle", FALSE, 0, 0, 0)

Init ==
  /\ istatus = [i \in Invoices |-> "posted"] /\ outstanding = [i \in Invoices |-> Bill]
  /\ taken = [i \in Invoices |-> 0] /\ voided = {}
  /\ nstatus = [n \in Notes |-> "none"] /\ applied = [n \in Notes |-> 0]
  /\ link = [n \in Notes |-> 0] /\ made = [n \in Notes |-> 0]
  /\ reversed = [n \in Notes |-> {}] /\ ledger = {}
  /\ job = [c \in Clients |-> Idle]
  /\ discipline \in Disciplines

-----------------------------------------------------------------------
(* Invoice rows                                                         *)

Apart   == "apart" \in discipline
Drafted == "drafted" \in discipline
Alive   == "alive" \in discipline

\* The status an amount calls for.
StatusOf(owed) ==
  IF owed = 0 THEN "paid" ELSE IF owed >= Bill THEN "posted" ELSE "partial_paid"
LowerStatus(owed) == IF owed = 0 THEN "paid" ELSE "partial_paid"

WriteInvoice(i, owed, status) ==
  /\ outstanding' = [outstanding EXCEPT ![i] = owed]
  /\ istatus' = [istatus EXCEPT ![i] = status]
  /\ UNCHANGED <<taken, voided>>

InUse(i) == \E c \in Clients : job[c] # Idle /\ Related[job[c].note] = i
Free(i) == Apart => ~InUse(i)

\* A receipt is confirmed, and one is cancelled.
Pay(i, a) ==
  /\ Free(i) /\ a <= outstanding[i]
  /\ outstanding' = [outstanding EXCEPT ![i] = @ - a]
  /\ istatus' = [istatus EXCEPT ![i] = LowerStatus(outstanding[i] - a)]
  /\ taken' = [taken EXCEPT ![i] = @ + a]
  /\ UNCHANGED <<voided, noteRows, books, job>>

TakeBack(i, a) ==
  /\ Free(i) /\ a <= taken[i]
  /\ outstanding' = [outstanding EXCEPT ![i] = @ + a]
  /\ istatus' = [istatus EXCEPT ![i] = StatusOf(outstanding[i] + a)]
  /\ taken' = [taken EXCEPT ![i] = @ - a]
  /\ UNCHANGED <<voided, noteRows, books, job>>

\* Cancelling an invoice asks for receipts, not for notes.
VoidInvoice(i) ==
  /\ Free(i) /\ istatus[i] # "cancelled" /\ taken[i] = 0
  /\ istatus' = [istatus EXCEPT ![i] = "cancelled"]
  /\ outstanding' = [outstanding EXCEPT ![i] = 0]
  /\ voided' = voided \cup {i}
  /\ UNCHANGED <<taken, noteRows, books, job>>

-----------------------------------------------------------------------
(* Notes                                                                *)

CreateNote(n) ==
  /\ nstatus[n] = "none"
  /\ nstatus' = [nstatus EXCEPT ![n] = "draft"]
  /\ UNCHANGED <<invoiceRows, applied, books, job>>

\* A credit note may be created as posted.  The post that follows finds it
\* posted and does nothing.
CreatePosted(n) ==
  /\ ~Drafted /\ Kind[n] = "credit" /\ nstatus[n] = "none"
  /\ nstatus' = [nstatus EXCEPT ![n] = "posted"]
  /\ UNCHANGED <<invoiceRows, applied, books, job>>

Separate(m, n) == m # n /\ (Related[n] # "none" => Related[m] # Related[n])
InTurn(n) == Apart => \A c \in Clients : job[c] # Idle => Separate(job[c].note, n)

Begin(c, n, method) ==
  /\ job[c] = Idle /\ InTurn(n)
  /\ job' = [job EXCEPT ![c] =
       Request(method, n, "noted", nstatus[n] = "posted", applied[n], link[n], 0)]
  /\ UNCHANGED <<invoiceRows, noteRows, books>>

\* A cancelled note is refused and a posted one left as it is.
BeginPost(c, n) == nstatus[n] = "draft" /\ Begin(c, n, "post")

\* A cancelled note is left as it is.
BeginCancel(c, n) == nstatus[n] \in {"draft", "posted"} /\ Begin(c, n, "cancel")

To(c, at) == job' = [job EXCEPT ![c].at = at]
Finish(c) == job' = [job EXCEPT ![c] = Idle]

ReadInvoice(c) ==
  /\ job[c].at = "noted"
  /\ LET i == Related[job[c].note]
     IN job' = [job EXCEPT ![c].at = "ready",
                           ![c].owed = IF i = "none" THEN 0 ELSE outstanding[i]]
  /\ UNCHANGED <<invoiceRows, noteRows, books>>

\* What posting a note takes from its invoice or adds to it.
Share(n, owed) ==
  IF Related[n] = "none" THEN 0
  ELSE IF Kind[n] = "credit" THEN Least(owed, Amount[n]) ELSE Amount[n]

ApplyCredit(n, owed) ==
  \/ Share(n, owed) = 0 /\ UNCHANGED invoiceRows
  \/ /\ Share(n, owed) > 0
     /\ WriteInvoice(Related[n], owed - Share(n, owed), LowerStatus(owed - Share(n, owed)))

ApplyDebit(n, owed) ==
  \/ Related[n] = "none" /\ UNCHANGED invoiceRows
  \/ /\ Related[n] # "none"
     /\ WriteInvoice(Related[n], owed + Amount[n], StatusOf(owed + Amount[n]))

\* The transaction of a posting, on what was read before it began.
CommitPost(c) ==
  /\ job[c].at = "ready" /\ job[c].method = "post"
  /\ LET n == job[c].note
     IN /\ \/ Kind[n] = "credit" /\ ApplyCredit(n, job[c].owed)
           \/ Kind[n] = "debit" /\ ApplyDebit(n, job[c].owed)
        /\ nstatus' = [nstatus EXCEPT ![n] = "posted"]
        /\ applied' = [applied EXCEPT ![n] = Share(n, job[c].owed)]
  /\ To(c, "committed")
  /\ UNCHANGED books

\* What the invoice owes without the note: a debit note takes back no more
\* than is still owed.
Undone(n, owed, back) == IF Kind[n] = "credit" THEN owed + back ELSE Excess(owed, back)

\* Mutant: the row is left alone.
RestoreNothing(n, was, owed, back) == UNCHANGED invoiceRows

Restore(n, was, owed, back) ==
  \/ /\ ~was \/ Related[n] = "none" \/ back = 0
     /\ UNCHANGED invoiceRows
  \/ /\ was /\ Related[n] # "none" /\ back > 0
     /\ WriteInvoice(Related[n], Undone(n, owed, back), StatusOf(Undone(n, owed, back)))

\* Mutant: the books follow for every note.
CommitCancelBooked(c) ==
  /\ job[c].at = "ready" /\ job[c].method = "cancel"
  /\ Restore(job[c].note, job[c].was, job[c].owed, job[c].back)
  /\ nstatus' = [nstatus EXCEPT ![job[c].note] = "cancelled"]
  /\ To(c, "committed")
  /\ UNCHANGED <<applied, books>>

\* The transaction of a cancellation.  The books follow if the note was posted.
CommitCancel(c) ==
  /\ job[c].at = "ready" /\ job[c].method = "cancel"
  /\ Restore(job[c].note, job[c].was, job[c].owed, job[c].back)
  /\ nstatus' = [nstatus EXCEPT ![job[c].note] = "cancelled"]
  /\ IF job[c].was THEN To(c, "committed") ELSE Finish(c)
  /\ UNCHANGED <<applied, books>>

-----------------------------------------------------------------------
(* Books                                                                *)

\* Mutant: every posting is taken for a reversal.
PostLedgerSwapped(c) ==
  /\ job[c].at = "committed"
  /\ ledger' = ledger \cup {<<job[c].note, "cancelled">>}
  /\ To(c, "ledgered")
  /\ UNCHANGED <<invoiceRows, noteRows, link, made, reversed>>

\* postCreditNote, postDebitNote and their reversals, each once for a note.
PostLedger(c) ==
  /\ job[c].at = "committed"
  /\ LET n == job[c].note
         kind == IF job[c].method = "post" THEN "posted" ELSE "cancelled"
     IN ledger' = IF InLedger[n] THEN ledger \cup {<<n, kind>>} ELSE ledger
  /\ To(c, "ledgered")
  /\ UNCHANGED <<invoiceRows, noteRows, link, made, reversed>>

CreateJournalEntry(c) ==
  /\ job[c].at = "ledgered" /\ job[c].method = "post"
  /\ LET n == job[c].note
     IN /\ made' = [made EXCEPT ![n] = @ + 1]
        /\ job' = [job EXCEPT ![c].at = "journalled", ![c].entry = made[n] + 1]
  /\ UNCHANGED <<invoiceRows, noteRows, link, reversed, ledger>>

LinkJournalEntry(c) ==
  /\ job[c].at = "journalled"
  /\ link' = [link EXCEPT ![job[c].note] = job[c].entry]
  /\ Finish(c)
  /\ UNCHANGED <<invoiceRows, noteRows, made, reversed, ledger>>

\* The entry the note row pointed to when it was read, if it pointed to one;
\* an entry that is reversed already is refused.
ReverseJournalEntry(c) ==
  /\ job[c].at = "ledgered" /\ job[c].method = "cancel"
  /\ reversed' = IF job[c].entry = 0 THEN reversed
                 ELSE [reversed EXCEPT ![job[c].note] = @ \cup {job[c].entry}]
  /\ Finish(c)
  /\ UNCHANGED <<invoiceRows, noteRows, link, made, ledger>>

\* A statement fails or the process dies.
GiveUp(c) ==
  /\ ~Alive /\ job[c] # Idle
  /\ Finish(c)
  /\ UNCHANGED <<invoiceRows, noteRows, books>>

Act ==
  \/ \E i \in Invoices, a \in Parts : Pay(i, a) \/ TakeBack(i, a)
  \/ \E i \in Invoices : VoidInvoice(i)
  \/ \E n \in Notes : CreateNote(n) \/ CreatePosted(n)
  \/ \E c \in Clients, n \in Notes : BeginPost(c, n) \/ BeginCancel(c, n)
  \/ \E c \in Clients :
       \/ ReadInvoice(c) \/ CommitPost(c) \/ CommitCancel(c) \/ PostLedger(c)
       \/ CreateJournalEntry(c) \/ LinkJournalEntry(c) \/ ReverseJournalEntry(c)
       \/ GiveUp(c)

Next == Act /\ UNCHANGED discipline

Spec == Init /\ [][Next]_vars

-----------------------------------------------------------------------
(* Properties                                                           *)

\* Rows, books and requests are of their kinds; no invoice owes less than nothing.
TypeOK ==
  /\ istatus \in [Invoices -> {"posted", "partial_paid", "paid", "cancelled"}]
  /\ outstanding \in [Invoices -> Nat] /\ taken \in [Invoices -> Nat]
  /\ voided \subseteq Invoices
  /\ nstatus \in [Notes -> {"none", "draft", "posted", "cancelled"}]
  /\ applied \in [Notes -> Nat] /\ link \in [Notes -> Nat] /\ made \in [Notes -> Nat]
  /\ reversed \in [Notes -> SUBSET Nat]
  /\ ledger \subseteq Notes \X {"posted", "cancelled"}
  /\ job \in [Clients -> Requests] /\ discipline \in Disciplines

\* What the posted notes of a kind have taken from an invoice or added to it.
Effect(i, kind) ==
  [n \in Notes |->
     IF nstatus[n] = "posted" /\ Related[n] = i /\ Kind[n] = kind THEN applied[n] ELSE 0]
Credited(i) == Total(Effect(i, "credit"), Notes)
Debited(i) == Total(Effect(i, "debit"), Notes)

Covers(i) == Bill + Debited(i) <= outstanding[i] + taken[i] + Credited(i)

\* Notes, payments and cancellations of one invoice in turn, whatever dies half
\* way: an invoice never owes less than its bill and its debit notes, less its
\* receipts and its credit notes.
OwedCoversDocuments == Apart => \A i \in Invoices \ voided : Covers(i)

\* The status and the amount of an invoice come from one writer, whatever
\* requests overlap: it is paid exactly if it owes nothing, and posted only if
\* it owes its whole bill.
RowsConsistent ==
  \A i \in Invoices :
    /\ istatus[i] = "paid" => outstanding[i] = 0
    /\ istatus[i] = "posted" => outstanding[i] >= Bill
    /\ istatus[i] = "partial_paid" => outstanding[i] > 0
    /\ istatus[i] = "cancelled" => outstanding[i] = 0

Quiet(n) == \A c \in Clients : job[c].note # n
Standing(n) == {k \in 1..made[n] : k \notin reversed[n]}

\* Requests that finish and take turns leave the books as the note says: the
\* ledger and the journal each count a posted note once and no other note.
BooksFollowNotes == Apart /\ Drafted /\ Alive =>
  \A n \in Notes : Quiet(n) =>
    /\ (<<n, "posted">> \in ledger /\ <<n, "cancelled">> \notin ledger)
         <=> (nstatus[n] = "posted" /\ InLedger[n])
    /\ Standing(n) = IF nstatus[n] = "posted" THEN {link[n]} ELSE {}

Paired(n) ==
  <<n, "cancelled">> \in ledger =>
    \/ <<n, "posted">> \in ledger
    \/ \E c \in Clients :
         job[c].note = n /\ job[c].method = "post" /\ job[c].at = "committed"

\* However requests overlap, a reversal in the ledger has its posting, or the
\* request that will make it is still running, if none dies half way.
ReversalsArePaired == Drafted /\ Alive => \A n \in Notes : Paired(n)
=======================================================================
