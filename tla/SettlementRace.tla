------------------------ MODULE SettlementRace ------------------------
(* The transactions of Settlement, interleaved statement by statement.    *)
(* Every request reads rows, waits, and writes back values computed from  *)
(* what it read.  PostgreSQL runs the transactions at READ COMMITTED, its *)
(* default, and no query asks for more: a statement sees what was         *)
(* committed before it started; an UPDATE waits for the transaction that  *)
(* wrote the row last and then overwrites it.                             *)
EXTENDS Money, Integers

CONSTANTS
  Clients,       \* requests in flight at most
  Invoices,      \* ids of posted sales invoice rows
  Receipts,      \* ids of draft receipt rows, none an advance
  Bill,          \* grand total of every invoice
  Amount,        \* amount of each receipt
  Parts,         \* amounts a new allocation may have
  Days           \* the days the invoices may have: due date, then invoice date

ASSUME RaceAssumption ==
  /\ IsFiniteSet(Invoices) /\ IsFiniteSet(Receipts)
  /\ Invoices \cap Receipts = {}
  /\ Bill \in Nat \ {0}
  /\ Amount \in [Receipts -> Nat \ {0}]
  /\ Parts \subseteq Nat \ {0}
  /\ Days \subseteq [Invoices -> Nat]

VARIABLES
  apart,                   \* whether the users keep requests on the same
                           \*   document apart in time; nothing makes them
  day,                     \* the day of each invoice, by which plans are ordered
  istatus, outstanding,    \* committed invoice rows
  rstatus, alloc,          \* committed receipt rows and allocations
  req,                     \* what each client is doing
  seen,                    \* outstanding amounts each client has read
  work                     \* invoice rows each client has written, uncommitted

rows == <<istatus, outstanding, rstatus, alloc>>
vars == <<rows, req, seen, work, apart, day>>

Nothing == [i \in Invoices |-> 0]
Payable == {"posted", "partial_paid"}
InvoiceStatus == Payable \cup {"paid", "cancelled"}
ReceiptStatus == {"draft", "confirmed", "cancelled"}

\* A request: its operation and document, how far it is, whether the receipt
\* was confirmed when it was first read, what it pays (or gives back) of each
\* invoice, whether it chose that itself and in which order it got the
\* invoices, and the documents it uses.
Idle == [op |-> "none", doc |-> "none", at |-> "idle", was |-> FALSE,
         plan |-> Nothing, fifo |-> FALSE, by |-> Nothing, uses |-> {}]
RequestsOn(ops, docs) ==
  [op : ops, doc : docs, at : {"idle", "begun", "opened", "paying"}, was : BOOLEAN,
   plan : [Invoices -> Nat], fifo : BOOLEAN, by : [Invoices -> Nat],
   uses : SUBSET (Invoices \cup Receipts)]
Requests ==
  RequestsOn({"confirm", "cancel", "allocate"}, Receipts)
    \cup RequestsOn({"void"}, Invoices) \cup RequestsOn({"none"}, {"none"})

Unread == -1
Blank == [i \in Invoices |-> Unread]
NoRow == [status |-> "none", outstanding |-> 0]
Row == [status : InvoiceStatus, outstanding : Nat]
NoWork == [i \in Invoices |-> NoRow]

AllocatedTo(i) == Total([r \in Receipts |-> alloc[r][i]], Receipts)
Remaining(r) == Amount[r] - Total(alloc[r], Invoices)

Init ==
  /\ istatus = [i \in Invoices |-> "posted"] /\ outstanding = [i \in Invoices |-> Bill]
  /\ rstatus = [r \in Receipts |-> "draft"] /\ alloc = [r \in Receipts |-> Nothing]
  /\ req = [c \in Clients |-> Idle]
  /\ seen = [c \in Clients |-> Blank] /\ work = [c \in Clients |-> NoWork]
  /\ apart \in BOOLEAN /\ day \in Days

-----------------------------------------------------------------------
Started(op, d, was, plan, uses) ==
  [op |-> op, doc |-> d, at |-> "begun", was |-> was, plan |-> plan,
   fifo |-> FALSE, by |-> Nothing, uses |-> uses]

\* Kept apart, a new request waits for those it would meet.
Start(c, request) ==
  /\ req[c] = Idle
  /\ apart => \A d \in Clients : req[d].uses \cap request.uses = {}
  /\ req' = [req EXCEPT ![c] = request]
  /\ UNCHANGED <<rows, seen, work>>

\* The documents a confirmation or a cancellation of r will use.
Uses(r) ==
  {r} \cup (IF rstatus[r] = "draft" /\ alloc[r] = Nothing THEN Invoices
            ELSE {i \in Invoices : alloc[r][i] > 0})

\* The checks made before the transaction starts.
StartConfirm(c, r) ==
  rstatus[r] = "draft" /\ Start(c, Started("confirm", r, FALSE, Nothing, Uses(r)))
StartCancel(c, r) ==
  /\ rstatus[r] # "cancelled"
  /\ Start(c, Started("cancel", r, rstatus[r] = "confirmed", Nothing, Uses(r)))
StartAllocate(c, r, i, n) ==
  /\ rstatus[r] = "draft"
  /\ Start(c, Started("allocate", r, FALSE, [Nothing EXCEPT ![i] = n], {r, i}))
StartVoid(c, i) ==
  /\ istatus[i] # "cancelled" /\ AllocatedTo(i) = 0
  /\ Start(c, Started("void", i, FALSE, Nothing, {i}))

At(c, op, at) == req[c].op = op /\ req[c].at = at
Proceed(c, request) == req' = [req EXCEPT ![c] = request]

\* confirm reads the receipt again in its transaction; a receipt confirmed
\* meanwhile passes.
ReopenReceipt(c) ==
  /\ At(c, "confirm", "begun")
  /\ rstatus[req[c].doc] # "cancelled"
  /\ Proceed(c, [req[c] EXCEPT !.at = "opened"])
  /\ UNCHANGED <<rows, seen, work>>

\* The receipt has allocations: they are what is paid.
ReadAllocations(c) ==
  /\ At(c, "confirm", "opened")
  /\ alloc[req[c].doc] # Nothing
  /\ Proceed(c, [req[c] EXCEPT !.at = "paying", !.plan = alloc[req[c].doc]])
  /\ UNCHANGED <<rows, seen, work>>

\* Mutant: the query leaves the order of the invoices to the database.
PlanUnordered(c) ==
  /\ At(c, "confirm", "opened")
  /\ alloc[req[c].doc] = Nothing
  /\ \E by \in SortedBy(Nothing) :
     LET open == {i \in Invoices : istatus[i] \in Payable /\ outstanding[i] > 0}
         plan == FifoShares(Amount[req[c].doc], outstanding, open, by)
     IN /\ Proceed(c, [req[c] EXCEPT !.at = "paying", !.plan = plan, !.fifo = TRUE, !.by = by])
        /\ seen' = [seen EXCEPT ![c] =
                      [i \in Invoices |-> IF plan[i] > 0 THEN outstanding[i] ELSE Unread]]
  /\ UNCHANGED <<rows, work>>

\* It has none: the oldest invoices are, as one query reads them; those of one
\* day come in any order.
PlanFifo(c) ==
  /\ At(c, "confirm", "opened")
  /\ alloc[req[c].doc] = Nothing
  /\ \E by \in SortedBy(day) :
     LET open == {i \in Invoices : istatus[i] \in Payable /\ outstanding[i] > 0}
         plan == FifoShares(Amount[req[c].doc], outstanding, open, by)
     IN /\ Proceed(c, [req[c] EXCEPT !.at = "paying", !.plan = plan, !.fifo = TRUE, !.by = by])
        /\ seen' = [seen EXCEPT ![c] =
                      [i \in Invoices |-> IF plan[i] > 0 THEN outstanding[i] ELSE Unread]]
  /\ UNCHANGED <<rows, work>>

\* cancel reads the allocations before its transaction; they are given back
\* only if the receipt was confirmed when it was read.
ReadCancelled(c) ==
  /\ At(c, "cancel", "begun")
  /\ Proceed(c, [req[c] EXCEPT !.at = "paying",
                   !.plan = IF req[c].was THEN alloc[req[c].doc] ELSE Nothing])
  /\ UNCHANGED <<rows, seen, work>>

Walks(c) == req[c].op \in {"confirm", "cancel"} /\ req[c].at = "paying"
Written(c, i) == work[c][i] # NoRow
Planned(c) == {i \in Invoices : req[c].plan[i] > 0}
Locked(c, i) == \E d \in Clients \ {c} : Written(d, i)

\* Mutant: what an invoice still owes is not looked at.
ReadInvoiceUnchecked(c, i) ==
  /\ Walks(c) /\ i \in Planned(c)
  /\ \A j \in Invoices : seen[c][j] # Unread => Written(c, j)
  /\ seen[c][i] = Unread
  /\ seen' = [seen EXCEPT ![c][i] = outstanding[i]]
  /\ UNCHANGED <<rows, req, work>>

\* One invoice after the other is read and written.
ReadInvoice(c, i) ==
  /\ Walks(c) /\ i \in Planned(c)
  /\ \A j \in Invoices : seen[c][j] # Unread => Written(c, j)
  /\ seen[c][i] = Unread
  /\ req[c].op = "confirm" => req[c].plan[i] <= outstanding[i]
  /\ seen' = [seen EXCEPT ![c][i] = outstanding[i]]
  /\ UNCHANGED <<rows, req, work>>

PaidRow(left) == [status |-> IF left = 0 THEN "paid" ELSE "partial_paid", outstanding |-> left]
ReopenedRow(left) ==
  [status |-> IF left >= Bill THEN "posted" ELSE "partial_paid", outstanding |-> left]

\* The oldest invoice a first-in-first-out confirmation has yet to write.
InTurn(c, i) ==
  req[c].fifo => \A j \in Planned(c) : req[c].by[j] < req[c].by[i] => Written(c, j)

\* Mutant: the status is derived from the row as it is now.
WriteInvoiceLate(c, i) ==
  /\ Walks(c) /\ i \in Planned(c)
  /\ seen[c][i] # Unread /\ ~Written(c, i) /\ InTurn(c, i)
  /\ ~Locked(c, i)
  /\ work' = [work EXCEPT ![c][i] =
       IF req[c].op = "confirm"
       THEN [PaidRow(seen[c][i] - req[c].plan[i]) EXCEPT
               !.status = IF outstanding[i] <= req[c].plan[i] THEN "paid" ELSE "partial_paid"]
       ELSE ReopenedRow(seen[c][i] + req[c].plan[i])]
  /\ UNCHANGED <<rows, req, seen>>

\* The new row comes from what was read, however old, and waits for the
\* transaction that wrote the row before.
WriteInvoice(c, i) ==
  /\ Walks(c) /\ i \in Planned(c)
  /\ seen[c][i] # Unread /\ ~Written(c, i) /\ InTurn(c, i)
  /\ ~Locked(c, i)
  /\ work' = [work EXCEPT ![c][i] =
       IF req[c].op = "confirm" THEN PaidRow(seen[c][i] - req[c].plan[i])
       ELSE ReopenedRow(seen[c][i] + req[c].plan[i])]
  /\ UNCHANGED <<rows, req, seen>>

Finish(c) ==
  /\ req' = [req EXCEPT ![c] = Idle]
  /\ seen' = [seen EXCEPT ![c] = Blank]
  /\ work' = [work EXCEPT ![c] = NoWork]

\* What a client wrote becomes what everyone reads.
Install(c) ==
  /\ istatus' = [i \in Invoices |-> IF Written(c, i) THEN work[c][i].status ELSE istatus[i]]
  /\ outstanding' =
       [i \in Invoices |-> IF Written(c, i) THEN work[c][i].outstanding ELSE outstanding[i]]

AllWritten(c) == Walks(c) /\ \A i \in Planned(c) : Written(c, i)

CommitConfirm(c) ==
  /\ AllWritten(c) /\ req[c].op = "confirm"
  /\ Install(c)
  /\ rstatus' = [rstatus EXCEPT ![req[c].doc] = "confirmed"]
  /\ alloc' = IF req[c].fifo
              THEN [alloc EXCEPT ![req[c].doc] = [i \in Invoices |-> @[i] + req[c].plan[i]]]
              ELSE alloc
  /\ Finish(c)

CommitCancel(c) ==
  /\ AllWritten(c) /\ req[c].op = "cancel"
  /\ Install(c)
  /\ alloc' = [alloc EXCEPT ![req[c].doc] = Nothing]
  /\ rstatus' = [rstatus EXCEPT ![req[c].doc] = "cancelled"]
  /\ Finish(c)

\* Mutant: what is left of the receipt is not looked at.
CheckRoomOfInvoice(c) ==
  /\ At(c, "allocate", "begun")
  /\ \A i \in Planned(c) : req[c].plan[i] <= outstanding[i]
  /\ Proceed(c, [req[c] EXCEPT !.at = "paying"])
  /\ UNCHANGED <<rows, seen, work>>

\* createAllocation compares with the receipt and the invoice first and adds
\* its row afterwards.
CheckRoom(c) ==
  /\ At(c, "allocate", "begun")
  /\ Total(req[c].plan, Invoices) <= Remaining(req[c].doc)
  /\ \A i \in Planned(c) : req[c].plan[i] <= outstanding[i]
  /\ Proceed(c, [req[c] EXCEPT !.at = "paying"])
  /\ UNCHANGED <<rows, seen, work>>

CommitAllocate(c) ==
  /\ At(c, "allocate", "paying")
  /\ alloc' = [alloc EXCEPT ![req[c].doc] = [i \in Invoices |-> @[i] + req[c].plan[i]]]
  /\ UNCHANGED <<istatus, outstanding, rstatus>>
  /\ Finish(c)

CommitVoid(c) ==
  /\ At(c, "void", "begun")
  /\ ~Locked(c, req[c].doc)
  /\ istatus' = [istatus EXCEPT ![req[c].doc] = "cancelled"]
  /\ outstanding' = [outstanding EXCEPT ![req[c].doc] = 0]
  /\ UNCHANGED <<rstatus, alloc>>
  /\ Finish(c)

\* Mutant: the statements run outside a transaction.
AbortAutocommitted(c) ==
  /\ req[c] # Idle
  /\ Install(c)
  /\ UNCHANGED <<rstatus, alloc>>
  /\ Finish(c)

\* A check throws, the transaction times out or is the victim of a deadlock,
\* or the process dies: nothing of it stays.
Abort(c) ==
  /\ req[c] # Idle
  /\ UNCHANGED rows
  /\ Finish(c)

Act(c) ==
  \/ \E r \in Receipts :
       \/ StartConfirm(c, r) \/ StartCancel(c, r)
       \/ \E i \in Invoices, n \in Parts : StartAllocate(c, r, i, n)
  \/ \E i \in Invoices :
       StartVoid(c, i) \/ ReadInvoice(c, i) \/ WriteInvoice(c, i)
  \/ ReopenReceipt(c) \/ ReadAllocations(c) \/ PlanFifo(c) \/ ReadCancelled(c)
  \/ CommitConfirm(c) \/ CommitCancel(c)
  \/ CheckRoom(c) \/ CommitAllocate(c) \/ CommitVoid(c)
  \/ Abort(c)

Next == (\E c \in Clients : Act(c)) /\ UNCHANGED <<apart, day>>

Spec == Init /\ [][Next]_vars

-----------------------------------------------------------------------
(* Properties                                                           *)

\* Committed rows, requests and uncommitted rows are of their kinds: no
\* interleaving commits a negative outstanding amount.
TypeOK ==
  /\ apart \in BOOLEAN /\ day \in Days
  /\ istatus \in [Invoices -> InvoiceStatus] /\ outstanding \in [Invoices -> Nat]
  /\ rstatus \in [Receipts -> ReceiptStatus] /\ alloc \in [Receipts -> [Invoices -> Nat]]
  /\ req \in [Clients -> Requests]
  /\ seen \in [Clients -> [Invoices -> Nat \cup {Unread}]]
  /\ work \in [Clients -> [Invoices -> Row \cup {NoRow}]]

\* The status goes with the outstanding amount.
Consistent(status, left) ==
  /\ status = "posted" => left >= Bill
  /\ status = "partial_paid" => left > 0
  /\ status \in {"paid", "cancelled"} => left = 0

\* Whatever the interleaving, an invoice's status and its outstanding amount
\* come from the same writer: lost updates lose whole rows.
RowsConsistent == \A i \in Invoices : Consistent(istatus[i], outstanding[i])

\* c has to wait for d to write i, its next invoice.
WaitsFor(c, d, i) ==
  /\ Walks(c) /\ i \in Planned(c)
  /\ seen[c][i] # Unread /\ ~Written(c, i) /\ InTurn(c, i)
  /\ Written(d, i)

\* Two first-in-first-out confirmations wait for each other over invoices of
\* one day only: the order of the days keeps all others apart, and nothing
\* orders the invoices of a day.
FifoDeadlockNeedsTie ==
  \A c, d \in Clients, i, j \in Invoices :
    /\ c # d /\ req[c].fifo /\ req[d].fifo
    /\ WaitsFor(c, d, i) /\ WaitsFor(d, c, j)
    => day[i] = day[j]

PaidBy(r, i) == IF rstatus[r] = "confirmed" THEN alloc[r][i] ELSE 0
Paid(i) == Total([r \in Receipts |-> PaidBy(r, i)], Receipts)

\* Kept apart, an invoice owes its bill less what confirmed receipts allocate
\* to it, at every statement and after every abort.
OutstandingIsUnpaid ==
  apart => \A i \in Invoices : istatus[i] # "cancelled" => outstanding[i] + Paid(i) = Bill

\* Kept apart, the allocations of a receipt never exceed its amount, and an
\* invoice with allocations is never cancelled.
AllocationsFit ==
  apart => /\ \A r \in Receipts : Total(alloc[r], Invoices) <= Amount[r]
           /\ \A i \in Invoices : istatus[i] = "cancelled" => AllocatedTo(i) = 0

\* Confirming a receipt twice takes its money once: an invoice that stays
\* open owes less only when a receipt becomes confirmed.
ConfirmedOnce ==
  [][\A i \in Invoices :
       outstanding'[i] < outstanding[i] =>
         \/ istatus'[i] = "cancelled"
         \/ \E r \in Receipts : rstatus[r] # "confirmed" /\ rstatus'[r] = "confirmed"]_vars

\* The committed rows as the abstract account.
Billed == [i \in Invoices |-> IF istatus[i] = "cancelled" THEN 0 ELSE Bill]
Applied == [r \in Receipts |-> IF rstatus[r] = "confirmed" THEN alloc[r] ELSE Nothing]
Account == INSTANCE Receivables WITH billed <- Billed, applied <- Applied

\* Kept apart, each commit is one step of the abstract account, and no
\* statement before it and no abort changes it.
ImplementsAccount == [][apart => Account!Next]_Account!account
=======================================================================
