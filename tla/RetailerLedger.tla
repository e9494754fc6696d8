------------------------ MODULE RetailerLedger ------------------------
(* The retailer ledger: what posting an entry for a document does when    *)
(* several requests post at once.  A posting looks for the document's     *)
(* entry, reads the retailer's latest balance, counts the entries for the *)
(* next number and inserts, each in a statement of its own and without a  *)
(* transaction.  Settlement and RetailerNotes take a posting as one step. *)
EXTENDS Integers, Sequences, FiniteSets

CONSTANTS
  Clients,       \* requests that post at the same time
  Documents,     \* what is posted: a document and the kind of entry for it
  Owner,         \* retailer of each document
  Amount,        \* debit less credit of each document's entry
  Dates,         \* dates entries may have, which the callers choose
  Disciplines,   \* what callers may keep to, each a set: "apart" if postings
                 \*   for one retailer do not overlap, "forward" if none is
                 \*   dated before the retailer's last entry
  Days,          \* bound on the days that pass
  MaxStamps      \* bound on the entry times drawn

ASSUME LedgerAssumption ==
  /\ Amount \in [Documents -> Int] /\ "none" \notin Documents
  /\ Dates \subseteq Nat
  /\ Disciplines \subseteq SUBSET {"apart", "forward"}
  /\ Days \in Nat /\ MaxStamps \in Nat

VARIABLES
  entries,       \* ledger entries in the order they were inserted
  job,           \* what each client is posting
  today,         \* part of the entry number
  stamp,         \* entry times drawn so far
  discipline     \* what the callers keep to; nothing makes them

vars == <<entries, job, today, stamp, discipline>>

Entry == [doc : Documents, date : Dates, time : Nat, day : Nat, no : Nat, running : Int]
Steps == {"idle", "absent", "read", "numbered"}

\* A posting: its document and entry date, how far it is, the balance it
\* read, and the number and time its entry will have.
Posting(d, date, at, balance, day, no, time) ==
  [doc |-> d, date |-> date, at |-> at, balance |-> balance, day |-> day, no |-> no, time |-> time]
Job == [doc : Documents \cup {"none"}, date : Nat, at : Steps,
        balance : Int, day : Nat, no : Nat, time : Nat]
Idle == Posting("none", 0, "idle", 0, 0, 0, 0)

Busy(c) == job[c] # Idle
OwnerOf(k) == Owner[entries[k].doc]
EntriesOf(r) == {k \in DOMAIN entries : OwnerOf(k) = r}
Posted(d) == \E k \in DOMAIN entries : entries[k].doc = d

\* Entries are ordered by date, then by time.
Before(j, k) ==
  \/ entries[j].date < entries[k].date
  \/ entries[j].date = entries[k].date /\ entries[j].time < entries[k].time

\* The balance of the retailer's last entry in that order.
LatestBalance(r) ==
  IF EntriesOf(r) = {} THEN 0
  ELSE entries[CHOOSE k \in EntriesOf(r) :
                 \A j \in EntriesOf(r) \ {k} : Before(j, k)].running

Init ==
  /\ entries = <<>> /\ today = 1 /\ stamp = 0
  /\ job = [c \in Clients |-> Idle]
  /\ discipline \in Disciplines

-----------------------------------------------------------------------
Apart   == "apart" \in discipline
Forward == "forward" \in discipline
InTurn(r) == Apart => \A c \in Clients : Busy(c) => Owner[job[c].doc] # r
Dated(r, date) == Forward => \A k \in EntriesOf(r) : entries[k].date <= date

\* Mutant: the document's entry is not looked for.
LookUpNothing(c, d, date) ==
  /\ ~Busy(c)
  /\ InTurn(Owner[d]) /\ Dated(Owner[d], date)
  /\ job' = [job EXCEPT ![c] = Posting(d, date, "absent", 0, 0, 0, 0)]
  /\ UNCHANGED <<entries, today, stamp>>

\* post... and reverse...: a document that has its entry is left alone.
LookUp(c, d, date) ==
  /\ ~Busy(c) /\ ~Posted(d)
  /\ InTurn(Owner[d]) /\ Dated(Owner[d], date)
  /\ job' = [job EXCEPT ![c] = Posting(d, date, "absent", 0, 0, 0, 0)]
  /\ UNCHANGED <<entries, today, stamp>>

\* Mutant: the last entry is looked for among all retailers'.
ReadAnyBalance(c) ==
  /\ job[c].at = "absent"
  /\ job' = [job EXCEPT ![c].at = "read",
               ![c].balance = IF entries = <<>> THEN 0 ELSE entries[Len(entries)].running]
  /\ UNCHANGED <<entries, today, stamp>>

ReadBalance(c) ==
  /\ job[c].at = "absent"
  /\ job' = [job EXCEPT ![c].at = "read", ![c].balance = LatestBalance(Owner[job[c].doc])]
  /\ UNCHANGED <<entries, today, stamp>>

\* The number counts the entries of all retailers; the time is taken next.
DrawNumber(c) ==
  /\ job[c].at = "read" /\ stamp < MaxStamps
  /\ stamp' = stamp + 1
  /\ job' = [job EXCEPT ![c].at = "numbered", ![c].day = today,
               ![c].no = Len(entries) + 1, ![c].time = stamp + 1]
  /\ UNCHANGED <<entries, today>>

Unique(day, no) == \A k \in DOMAIN entries : <<entries[k].day, entries[k].no>> # <<day, no>>
EntryOf(j) ==
  [doc |-> j.doc, date |-> j.date, time |-> j.time, day |-> j.day, no |-> j.no,
   running |-> j.balance + Amount[j.doc]]
Finish(c) == job' = [job EXCEPT ![c] = Idle]

Insert(c) ==
  /\ job[c].at = "numbered" /\ Unique(job[c].day, job[c].no)
  /\ entries' = Append(entries, EntryOf(job[c]))
  /\ Finish(c)
  /\ UNCHANGED <<today, stamp>>

\* The number is taken, a statement fails or the process dies: the caller's
\* request ends with an error.
GiveUp(c) == Busy(c) /\ Finish(c) /\ UNCHANGED <<entries, today, stamp>>

Midnight == today < Days /\ today' = today + 1 /\ UNCHANGED <<entries, job, stamp>>

Act ==
  \/ \E c \in Clients :
       \/ \E d \in Documents, date \in Dates : LookUp(c, d, date)
       \/ ReadBalance(c) \/ DrawNumber(c) \/ Insert(c) \/ GiveUp(c)
  \/ Midnight

Next == Act /\ UNCHANGED discipline

Spec == Init /\ [][Next]_vars

-----------------------------------------------------------------------
(* Properties                                                           *)

\* Entries and postings are of their kinds.
TypeOK ==
  /\ entries \in Seq(Entry) /\ job \in [Clients -> Job]
  /\ today \in Nat /\ stamp \in Nat /\ discipline \in Disciplines

\* The retailer's first entry, and its entry posted just before k.
First(k) == \A j \in EntriesOf(OwnerOf(k)) : k <= j
JustBefore(j, k) ==
  /\ j \in EntriesOf(OwnerOf(k)) /\ j < k
  /\ \A i \in EntriesOf(OwnerOf(k)) : i < k => i <= j

\* The running balance is computed in posting sequence: every entry moves the
\* balance its retailer's previous entry left by its own amount.
RunningInSequence ==
  \A k \in DOMAIN entries :
    \/ First(k) /\ entries[k].running = Amount[entries[k].doc]
    \/ \E j \in DOMAIN entries :
         /\ JustBefore(j, k)
         /\ entries[k].running = entries[j].running + Amount[entries[k].doc]

\* It is, whatever happens to other retailers meanwhile and whoever dies half
\* way, when postings for one retailer neither overlap nor are dated back.
OrderlyRunning == Apart /\ Forward => RunningInSequence

\* When they do not overlap, a document gets one entry, however often its
\* posting dies half way and the request is repeated.
EntriesDiffer == \A j, k \in DOMAIN entries : entries[j].doc = entries[k].doc => j = k
OncePerDocument == Apart => EntriesDiffer

\* In any interleaving and whatever the dates, a balance comes from an entry
\* of the same retailer or from nothing: retailers' balances never mix.
BalancesNeverMix ==
  \A k \in DOMAIN entries :
    LET left == entries[k].running - Amount[entries[k].doc]
    IN left = 0 \/ \E j \in EntriesOf(OwnerOf(k)) : j < k /\ entries[j].running = left
=======================================================================
