--------------------- MODULE SettlementRaceProofs ---------------------
(* What no interleaving of the requests can break: the types, the rows of *)
(* the invoices, and the order in which first-in-first-out confirmations  *)
(* lock them; and what requests that share no document keep between them: *)
(* the money, the allocations, and the steps of the abstract account.     *)
EXTENDS SettlementRace, MoneyTheorems, FiniteSetTheorems, TLAPS

\* A request that is not walking its invoices has read and written none.
ReadsOnlyWhilePaying ==
  \A c \in Clients : req[c].at # "paying" => seen[c] = Blank /\ work[c] = NoWork

\* A confirmation never goes on with less than it is going to take.
ReadCovers ==
  \A c \in Clients, i \in Invoices :
    req[c].op = "confirm" /\ seen[c][i] # Unread => req[c].plan[i] <= seen[c][i]

\* The uncommitted rows are consistent as well.
WorkConsistent ==
  \A c \in Clients, i \in Invoices :
    Written(c, i) => Consistent(work[c][i].status, work[c][i].outstanding)

\* A first-in-first-out confirmation has written a prefix of its plan.
WrittenInOrder ==
  \A c \in Clients : req[c].fifo =>
    \A i, j \in Invoices :
      Written(c, i) /\ j \in Planned(c) /\ req[c].by[j] < req[c].by[i] => Written(c, j)

\* The order a confirmation got its invoices in keeps the order of the days.
InDayOrder(q) ==
  q.fifo => \A i, j \in Invoices : day[i] < day[j] => q.by[i] < q.by[j]
PlansByDay == \A c \in Clients : InDayOrder(req[c])

RaceInv ==
  TypeOK /\ ReadsOnlyWhilePaying /\ ReadCovers /\ RowsConsistent /\ WorkConsistent
    /\ WrittenInOrder /\ PlansByDay

LEMMA Constants ==
  /\ Nothing \in [Invoices -> Nat]
  /\ Idle \in Requests
  /\ Blank \in [Invoices -> Nat \cup {Unread}]
  /\ NoWork \in [Invoices -> Row \cup {NoRow}]
  /\ \A i \in Invoices : Blank[i] = Unread /\ NoWork[i] = NoRow
  /\ Unread \notin Nat
BY DEF Nothing, Idle, Requests, RequestsOn, Blank, NoWork, Unread

LEMMA InitRace ==
  ASSUME Init
  PROVE  RaceInv
<1> USE Constants
<1>1. TypeOK
  BY RaceAssumption DEF Init, TypeOK, InvoiceStatus, Payable, ReceiptStatus
<1>2. ReadsOnlyWhilePaying /\ ReadCovers /\ WorkConsistent /\ WrittenInOrder /\ PlansByDay
  BY DEF Init, ReadsOnlyWhilePaying, ReadCovers, WorkConsistent, WrittenInOrder, Written,
         PlansByDay, InDayOrder, Idle
<1>3. RowsConsistent
  BY RaceAssumption DEF Init, RowsConsistent, Consistent
<1> QED
  BY <1>1, <1>2, <1>3 DEF RaceInv

\* A request that starts or goes on without reading or writing an invoice.
LEMMA Proceeding ==
  ASSUME RaceInv, NEW c \in Clients, NEW request \in Requests, InDayOrder(request),
         req' = [req EXCEPT ![c] = request],
         seen[c] = Blank, work[c] = NoWork, UNCHANGED <<rows, seen, work, apart, day>>
  PROVE  RaceInv'
<1> USE Constants
<1>1. TypeOK'
  BY DEF RaceInv, TypeOK, rows
<1>2. ReadsOnlyWhilePaying' /\ ReadCovers' /\ WorkConsistent' /\ WrittenInOrder'
  BY DEF RaceInv, TypeOK, ReadsOnlyWhilePaying, ReadCovers, WorkConsistent, WrittenInOrder,
         Written, Planned
<1>3. RowsConsistent'
  BY DEF RaceInv, RowsConsistent, rows
<1>4. PlansByDay'
  BY DEF RaceInv, TypeOK, PlansByDay, InDayOrder
<1> QED
  BY <1>1, <1>2, <1>3, <1>4 DEF RaceInv

LEMMA StartRace ==
  ASSUME RaceInv, UNCHANGED <<apart, day>>, NEW c \in Clients,
         \/ \E r \in Receipts :
              \/ StartConfirm(c, r) \/ StartCancel(c, r)
              \/ \E i \in Invoices, n \in Parts : StartAllocate(c, r, i, n)
         \/ \E i \in Invoices : StartVoid(c, i)
  PROVE  RaceInv'
<1> USE Constants
<1>1. ASSUME NEW request \in Requests, Start(c, request), ~request.fifo
      PROVE  RaceInv'
  <2>1. seen[c] = Blank /\ work[c] = NoWork
    BY <1>1 DEF Start, Idle, RaceInv, ReadsOnlyWhilePaying
  <2> QED
    BY <1>1, <2>1, Proceeding DEF Start, InDayOrder
<1>2. ASSUME NEW r \in Receipts
      PROVE  Uses(r) \in SUBSET (Invoices \cup Receipts)
  BY DEF Uses
<1>3. ASSUME NEW r \in Receipts, StartConfirm(c, r) PROVE RaceInv'
  <2>1. Started("confirm", r, FALSE, Nothing, Uses(r)) \in Requests
    BY <1>2 DEF Started, Requests, RequestsOn
  <2> QED
    BY <1>1, <1>3, <2>1 DEF StartConfirm, Started
<1>4. ASSUME NEW r \in Receipts, StartCancel(c, r) PROVE RaceInv'
  <2>1. (rstatus[r] = "confirmed") \in BOOLEAN
    OBVIOUS
  <2>2. Started("cancel", r, rstatus[r] = "confirmed", Nothing, Uses(r)) \in Requests
    BY <1>2, <2>1 DEF Started, Requests, RequestsOn
  <2> QED
    BY <1>1, <1>4, <2>2 DEF StartCancel, Started
<1>5. ASSUME NEW r \in Receipts, NEW i \in Invoices, NEW n \in Parts, StartAllocate(c, r, i, n)
      PROVE  RaceInv'
  <2>1. [Nothing EXCEPT ![i] = n] \in [Invoices -> Nat]
    BY RaceAssumption
  <2>2. Started("allocate", r, FALSE, [Nothing EXCEPT ![i] = n], {r, i}) \in Requests
    BY <2>1 DEF Started, Requests, RequestsOn
  <2> QED
    BY <1>1, <1>5, <2>2 DEF StartAllocate, Started
<1>6. ASSUME NEW i \in Invoices, StartVoid(c, i) PROVE RaceInv'
  <2>1. Started("void", i, FALSE, Nothing, {i}) \in Requests
    BY DEF Started, Requests, RequestsOn
  <2> QED
    BY <1>1, <1>6, <2>1 DEF StartVoid, Started
<1> QED
  BY <1>3, <1>4, <1>5, <1>6

LEMMA ReadRace ==
  ASSUME RaceInv, UNCHANGED <<apart, day>>, NEW c \in Clients,
         ReopenReceipt(c) \/ ReadAllocations(c) \/ ReadCancelled(c) \/ CheckRoom(c)
  PROVE  RaceInv'
<1> USE Constants
<1> DEFINE Moves(request) ==
      /\ req[c].at # "paying" /\ req' = [req EXCEPT ![c] = request]
      /\ UNCHANGED <<rows, seen, work>>
<1>1. ASSUME NEW request \in Requests, Moves(request),
             request.fifo = req[c].fifo, request.by = req[c].by
      PROVE  RaceInv'
  <2>1. seen[c] = Blank /\ work[c] = NoWork
    BY <1>1 DEF RaceInv, ReadsOnlyWhilePaying
  <2>2. InDayOrder(request)
    BY <1>1 DEF RaceInv, PlansByDay, InDayOrder
  <2> QED
    BY <1>1, <2>1, <2>2, Proceeding
<1>2. req[c] \in Requests
  BY DEF RaceInv, TypeOK
<1>3. CASE ReopenReceipt(c)
  <2>1. /\ [req[c] EXCEPT !.at = "opened"] \in Requests
        /\ [req[c] EXCEPT !.at = "opened"].fifo = req[c].fifo
        /\ [req[c] EXCEPT !.at = "opened"].by = req[c].by
    BY <1>2 DEF Requests, RequestsOn
  <2> QED
    BY <1>1, <1>3, <2>1 DEF ReopenReceipt, At, Proceed
<1>4. CASE ReadAllocations(c)
  <2>1. req[c].doc \in Receipts
    BY <1>2, <1>4 DEF ReadAllocations, At, Requests, RequestsOn
  <2>2. alloc[req[c].doc] \in [Invoices -> Nat]
    BY <2>1 DEF RaceInv, TypeOK
  <2>3. /\ [req[c] EXCEPT !.at = "paying", !.plan = alloc[req[c].doc]] \in Requests
        /\ [req[c] EXCEPT !.at = "paying", !.plan = alloc[req[c].doc]].fifo = req[c].fifo
        /\ [req[c] EXCEPT !.at = "paying", !.plan = alloc[req[c].doc]].by = req[c].by
    BY <1>2, <2>2 DEF Requests, RequestsOn
  <2> QED
    BY <1>1, <1>4, <2>3 DEF ReadAllocations, At, Proceed
<1>5. CASE ReadCancelled(c)
  <2> DEFINE back == IF req[c].was THEN alloc[req[c].doc] ELSE Nothing
  <2>1. req[c].doc \in Receipts
    BY <1>2, <1>5 DEF ReadCancelled, At, Requests, RequestsOn
  <2>2. back \in [Invoices -> Nat]
    BY <2>1 DEF RaceInv, TypeOK
  <2>3. /\ [req[c] EXCEPT !.at = "paying", !.plan = back] \in Requests
        /\ [req[c] EXCEPT !.at = "paying", !.plan = back].fifo = req[c].fifo
        /\ [req[c] EXCEPT !.at = "paying", !.plan = back].by = req[c].by
    BY <1>2, <2>2 DEF Requests, RequestsOn
  <2> QED
    BY <1>1, <1>5, <2>3 DEF ReadCancelled, At, Proceed
<1>6. CASE CheckRoom(c)
  <2>1. /\ [req[c] EXCEPT !.at = "paying"] \in Requests
        /\ [req[c] EXCEPT !.at = "paying"].fifo = req[c].fifo
        /\ [req[c] EXCEPT !.at = "paying"].by = req[c].by
    BY <1>2 DEF Requests, RequestsOn
  <2> QED
    BY <1>1, <1>6, <2>1 DEF CheckRoom, At, Proceed
<1> QED
  BY <1>3, <1>4, <1>5, <1>6

LEMMA DayOrders ==
  ASSUME RaceInv, NEW by \in SortedBy(day)
  PROVE  /\ by \in [Invoices -> Nat]
         /\ \A i, j \in Invoices : by[i] = by[j] => i = j
         /\ \A i, j \in Invoices : day[i] < day[j] => by[i] < by[j]
<1>1. DOMAIN day = Invoices /\ IsFiniteSet(Invoices)
  BY RaceAssumption DEF RaceInv, TypeOK
<1> QED
  BY <1>1, OrderTyped

LEMMA PlanRace ==
  ASSUME RaceInv, UNCHANGED <<apart, day>>, NEW c \in Clients, PlanFifo(c)
  PROVE  RaceInv'
<1> USE Constants
<1> DEFINE open == {i \in Invoices : istatus[i] \in Payable /\ outstanding[i] > 0}
           shares(by) == FifoShares(Amount[req[c].doc], outstanding, open, by)
<1>0. PICK by \in SortedBy(day) :
        /\ req' = [req EXCEPT ![c] = [req[c] EXCEPT !.at = "paying", !.plan = shares(by),
                                                   !.fifo = TRUE, !.by = by]]
        /\ seen' = [seen EXCEPT ![c] =
                      [i \in Invoices |-> IF shares(by)[i] > 0 THEN outstanding[i] ELSE Unread]]
  BY DEF PlanFifo, Proceed
<1> DEFINE plan == shares(by)
           read == [i \in Invoices |-> IF plan[i] > 0 THEN outstanding[i] ELSE Unread]
           request == [req[c] EXCEPT !.at = "paying", !.plan = plan, !.fifo = TRUE, !.by = by]
<1>o. /\ by \in [Invoices -> Nat]
      /\ \A i, j \in Invoices : day[i] < day[j] => by[i] < by[j]
  BY DayOrders
<1>1. req[c] \in Requests /\ req[c].op = "confirm" /\ req[c].at = "opened"
  BY DEF RaceInv, TypeOK, PlanFifo, At
<1>2. Amount[req[c].doc] \in Nat
  BY <1>1, RaceAssumption DEF Requests, RequestsOn
<1>3. outstanding \in [Invoices -> Nat]
  BY DEF RaceInv, TypeOK
<1>4. plan \in [Invoices -> Nat] /\ \A i \in Invoices : plan[i] <= outstanding[i]
  <2>1. open \in SUBSET Invoices
    OBVIOUS
  <2> HIDE DEF open
  <2> QED
    BY <1>2, <1>3, <2>1, FifoTyped, RaceAssumption
<1> HIDE DEF plan
<1>5. read \in [Invoices -> Nat \cup {Unread}]
  BY <1>3
<1>6. request \in Requests /\ request.plan = plan /\ request.at = "paying"
        /\ request.op = "confirm" /\ request.by = by
  BY <1>o, <1>1, <1>4 DEF Requests, RequestsOn
<1>7. seen[c] = Blank /\ work[c] = NoWork
  BY <1>1 DEF RaceInv, ReadsOnlyWhilePaying
<1>8. /\ req' = [req EXCEPT ![c] = request] /\ seen' = [seen EXCEPT ![c] = read]
      /\ UNCHANGED <<rows, work>>
  BY <1>0 DEF PlanFifo, plan
<1>9. \A i \in Invoices : read[i] # Unread => plan[i] <= read[i]
  BY <1>4
<1> HIDE DEF read, request
<1>10. TypeOK'
  BY <1>5, <1>6, <1>8 DEF RaceInv, TypeOK, rows
<1>11. req \in [Clients -> Requests] /\ seen \in [Clients -> [Invoices -> Nat \cup {Unread}]]
         /\ work \in [Clients -> [Invoices -> Row \cup {NoRow}]]
  BY DEF RaceInv, TypeOK
<1>12. ReadsOnlyWhilePaying'
  BY <1>6, <1>8, <1>11 DEF RaceInv, ReadsOnlyWhilePaying
<1>13. ReadCovers'
  BY <1>6, <1>8, <1>9, <1>11 DEF RaceInv, ReadCovers
<1>14. WorkConsistent' /\ RowsConsistent'
  BY <1>8 DEF RaceInv, WorkConsistent, RowsConsistent, Written, rows
<1>15. WrittenInOrder'
  BY <1>7, <1>8, <1>11 DEF RaceInv, WrittenInOrder, Written, Planned
<1>16. PlansByDay'
  BY <1>o, <1>6, <1>8, <1>11 DEF RaceInv, PlansByDay, InDayOrder
<1> QED
  BY <1>10, <1>12, <1>13, <1>14, <1>15, <1>16 DEF RaceInv

LEMMA ReadInvoiceRace ==
  ASSUME RaceInv, UNCHANGED <<apart, day>>, NEW c \in Clients, NEW i \in Invoices, ReadInvoice(c, i)
  PROVE  RaceInv'
<1>1. outstanding[i] \in Nat /\ req[c].at = "paying"
  BY DEF RaceInv, TypeOK, ReadInvoice, Walks
<1>2. TypeOK'
  BY <1>1 DEF RaceInv, TypeOK, ReadInvoice, rows
<1>3. ReadsOnlyWhilePaying'
  BY <1>1 DEF RaceInv, TypeOK, ReadsOnlyWhilePaying, ReadInvoice
<1>4. ReadCovers'
  BY DEF RaceInv, TypeOK, ReadCovers, ReadInvoice
<1>5. RowsConsistent' /\ WorkConsistent' /\ WrittenInOrder'
  BY DEF RaceInv, RowsConsistent, WorkConsistent, WrittenInOrder, Written, Planned,
         ReadInvoice, rows
<1>6. PlansByDay'
  BY DEF RaceInv, PlansByDay, InDayOrder, ReadInvoice
<1> QED
  BY <1>2, <1>3, <1>4, <1>5, <1>6 DEF RaceInv

LEMMA WriteRace ==
  ASSUME RaceInv, UNCHANGED <<apart, day>>, NEW c \in Clients, NEW i \in Invoices, WriteInvoice(c, i)
  PROVE  RaceInv'
<1> DEFINE taken == seen[c][i] - req[c].plan[i]
           given == seen[c][i] + req[c].plan[i]
           row == IF req[c].op = "confirm" THEN PaidRow(taken) ELSE ReopenedRow(given)
<1>1. req[c] \in Requests /\ req[c].at = "paying" /\ req[c].plan[i] \in Nat \ {0}
        /\ seen[c][i] \in Nat
  BY DEF RaceInv, TypeOK, WriteInvoice, Walks, Planned, Requests, RequestsOn
<1>2. req[c].op = "confirm" => taken \in Nat
  BY <1>1, Constants DEF RaceInv, ReadCovers
<1>3. given \in Nat \ {0}
  <2>1. \A m \in Nat, n \in Nat \ {0} : m + n \in Nat \ {0}
    OBVIOUS
  <2> QED
    BY <1>1, <2>1
<1>4. row \in Row /\ row # NoRow /\ Consistent(row.status, row.outstanding)
  BY <1>2, <1>3, RaceAssumption
     DEF PaidRow, ReopenedRow, Row, NoRow, Consistent, InvoiceStatus, Payable
<1>5. work' = [work EXCEPT ![c][i] = row] /\ UNCHANGED <<rows, req, seen>>
  BY DEF WriteInvoice
<1>6. \A j \in Invoices :
        req[c].fifo /\ j \in Planned(c) /\ req[c].by[j] < req[c].by[i] => Written(c, j)
  BY DEF WriteInvoice, InTurn
<1> HIDE DEF row
<1>7. work \in [Clients -> [Invoices -> Row \cup {NoRow}]]
  BY DEF RaceInv, TypeOK
<1>8. \A d \in Clients, j \in Invoices :
        work'[d][j] = IF d = c /\ j = i THEN row ELSE work[d][j]
  BY <1>5, <1>7
<1>9. TypeOK'
  BY <1>4, <1>5 DEF RaceInv, TypeOK, rows
<1>10. ReadsOnlyWhilePaying'
  BY <1>1, <1>5, <1>7 DEF RaceInv, ReadsOnlyWhilePaying
<1>11. ReadCovers' /\ RowsConsistent'
  BY <1>5 DEF RaceInv, ReadCovers, RowsConsistent, rows
<1>12. WorkConsistent'
  BY <1>4, <1>8 DEF RaceInv, WorkConsistent, Written
<1>13. WrittenInOrder'
  BY <1>4, <1>5, <1>6, <1>8 DEF RaceInv, WrittenInOrder, Written, Planned
<1>14. PlansByDay'
  BY <1>5 DEF RaceInv, PlansByDay, InDayOrder
<1> QED
  BY <1>9, <1>10, <1>11, <1>12, <1>13, <1>14 DEF RaceInv

\* A request that ends, with consistent invoice rows.
LEMMA Finishing ==
  ASSUME RaceInv, UNCHANGED <<apart, day>>, NEW c \in Clients, Finish(c),
         istatus' \in [Invoices -> InvoiceStatus], outstanding' \in [Invoices -> Nat],
         rstatus' \in [Receipts -> ReceiptStatus], alloc' \in [Receipts -> [Invoices -> Nat]],
         RowsConsistent'
  PROVE  RaceInv'
<1> USE Constants DEF Finish
<1>1. TypeOK'
  BY DEF RaceInv, TypeOK
<1>2. ReadsOnlyWhilePaying' /\ ReadCovers'
  BY DEF RaceInv, TypeOK, ReadsOnlyWhilePaying, ReadCovers
<1>3. WorkConsistent' /\ WrittenInOrder'
  BY DEF RaceInv, TypeOK, WorkConsistent, WrittenInOrder, Written, Planned
<1>4. PlansByDay'
  BY DEF RaceInv, TypeOK, PlansByDay, InDayOrder, Idle
<1> QED
  BY <1>1, <1>2, <1>3, <1>4 DEF RaceInv

LEMMA CommitRace ==
  ASSUME RaceInv, UNCHANGED <<apart, day>>, NEW c \in Clients,
         CommitConfirm(c) \/ CommitCancel(c) \/ CommitAllocate(c) \/ CommitVoid(c) \/ Abort(c)
  PROVE  RaceInv'
<1>1. req[c] \in Requests /\ TypeOK /\ RowsConsistent
  BY DEF RaceInv, TypeOK
<1>2. ASSUME Install(c)
      PROVE  /\ istatus' \in [Invoices -> InvoiceStatus] /\ outstanding' \in [Invoices -> Nat]
             /\ RowsConsistent'
  <2>1. \A i \in Invoices : Written(c, i) => work[c][i] \in Row
    BY <1>1 DEF TypeOK, Written
  <2>2. \A i \in Invoices : Written(c, i) => Consistent(work[c][i].status, work[c][i].outstanding)
    BY DEF RaceInv, WorkConsistent
  <2> QED
    BY <1>1, <1>2, <2>1, <2>2 DEF Install, TypeOK, RowsConsistent, Row
<1>3. ASSUME NEW r \in Receipts, NEW more \in [Invoices -> Nat],
             alloc' = [alloc EXCEPT ![r] = [i \in Invoices |-> @[i] + more[i]]]
      PROVE  alloc' \in [Receipts -> [Invoices -> Nat]]
  <2>1. [i \in Invoices |-> alloc[r][i] + more[i]] \in [Invoices -> Nat]
    BY <1>1 DEF TypeOK
  <2> QED
    BY <1>1, <1>3, <2>1 DEF TypeOK
<1>4. req[c].plan \in [Invoices -> Nat]
  BY <1>1 DEF Requests, RequestsOn
<1>5. CASE CommitConfirm(c)
  <2>1. req[c].doc \in Receipts
    BY <1>1, <1>5 DEF CommitConfirm, Requests, RequestsOn
  <2>2. alloc' \in [Receipts -> [Invoices -> Nat]]
    BY <1>1, <1>3, <1>4, <1>5, <2>1 DEF CommitConfirm, TypeOK
  <2>3. rstatus' \in [Receipts -> ReceiptStatus]
    BY <1>1, <1>5 DEF CommitConfirm, TypeOK, ReceiptStatus
  <2> QED
    BY <1>2, <1>5, <2>2, <2>3, Finishing DEF CommitConfirm
<1>6. CASE CommitCancel(c)
  <2>1. alloc' \in [Receipts -> [Invoices -> Nat]] /\ rstatus' \in [Receipts -> ReceiptStatus]
    BY <1>1, <1>6, Constants DEF CommitCancel, TypeOK, ReceiptStatus
  <2> QED
    BY <1>2, <1>6, <2>1, Finishing DEF CommitCancel
<1>7. CASE CommitAllocate(c)
  <2>1. req[c].doc \in Receipts
    BY <1>1, <1>7 DEF CommitAllocate, At, Requests, RequestsOn
  <2>2. alloc' \in [Receipts -> [Invoices -> Nat]]
    BY <1>3, <1>4, <1>7, <2>1 DEF CommitAllocate
  <2>3. RowsConsistent'
    BY <1>1, <1>7 DEF CommitAllocate, RowsConsistent
  <2> QED
    BY <1>1, <1>7, <2>2, <2>3, Finishing DEF CommitAllocate, TypeOK
<1>8. CASE CommitVoid(c)
  <2>1. RowsConsistent'
    BY <1>1, <1>8 DEF CommitVoid, RowsConsistent, Consistent, TypeOK
  <2> QED
    BY <1>1, <1>8, <2>1, Finishing DEF CommitVoid, TypeOK, InvoiceStatus
<1>9. CASE Abort(c)
  BY <1>1, <1>9, Finishing DEF Abort, rows, TypeOK, RowsConsistent
<1> QED
  BY <1>5, <1>6, <1>7, <1>8, <1>9

\* RaceInv is inductive.
THEOREM RaceInvariant == Spec => []RaceInv
<1>1. RaceInv /\ [Next]_vars => RaceInv'
  <2> SUFFICES ASSUME RaceInv, [Next]_vars PROVE RaceInv'
    OBVIOUS
  <2>1. CASE Next
    BY <2>1, StartRace, ReadRace, PlanRace, ReadInvoiceRace, WriteRace, CommitRace DEF Next, Act
  <2>2. CASE UNCHANGED vars
    BY <2>2 DEF vars, rows, RaceInv, TypeOK, ReadsOnlyWhilePaying, ReadCovers, RowsConsistent,
                WorkConsistent, WrittenInOrder, Written, Planned, PlansByDay, InDayOrder
  <2> QED
    BY <2>1, <2>2
<1> QED
  BY <1>1, InitRace, PTL DEF Spec

\* However requests interleave, no invoice owes less than nothing and every
\* row a request keeps until its commit is a possible row.
THEOREM RaceTypeCorrect == Spec => []TypeOK
BY RaceInvariant, PTL DEF RaceInv

\* However requests interleave, the status of an invoice is the one its
\* outstanding amount calls for.
THEOREM RowsStayConsistent == Spec => []RowsConsistent
BY RaceInvariant, PTL DEF RaceInv

\* Confirmations that chose their invoices first in, first out lock each
\* other out over invoices of one day only, for any invoices, days and amounts.
THEOREM FifoDeadlockIsATie == Spec => []FifoDeadlockNeedsTie
<1>1. RaceInv => FifoDeadlockNeedsTie
  <2> SUFFICES ASSUME RaceInv, NEW c \in Clients, NEW d \in Clients,
                      NEW i \in Invoices, NEW j \in Invoices,
                      req[c].fifo, req[d].fifo, WaitsFor(c, d, i), WaitsFor(d, c, j)
               PROVE  day[i] = day[j]
    BY DEF FifoDeadlockNeedsTie
  <2>1. /\ i \in Planned(c) /\ ~Written(c, i) /\ Written(d, i)
        /\ j \in Planned(d) /\ ~Written(d, j) /\ Written(c, j)
    BY DEF WaitsFor
  <2>2. ~(req[c].by[i] < req[c].by[j]) /\ ~(req[d].by[j] < req[d].by[i])
    BY <2>1 DEF RaceInv, WrittenInOrder
  <2>3. ~(day[i] < day[j]) /\ ~(day[j] < day[i])
    BY <2>2 DEF RaceInv, PlansByDay, InDayOrder
  <2>4. day[i] \in Nat /\ day[j] \in Nat
    BY RaceAssumption DEF RaceInv, TypeOK
  <2> QED
    BY <2>3, <2>4
<1> QED
  BY <1>1, RaceInvariant, PTL
-----------------------------------------------------------------------
(* Kept apart, a request meets nobody on the documents it uses.          *)

Disjoint == \A c, d \in Clients : c # d => req[c].uses \cap req[d].uses = {}

\* The documents a request uses are all that it is going to touch.
UsesCover(c) ==
  LET q == req[c] IN
  /\ q.op # "none" => q.doc \in q.uses
  /\ \A i \in Invoices : q.plan[i] # 0 => i \in q.uses
  /\ q.op \in {"confirm", "cancel"} => \A i \in Invoices : alloc[q.doc][i] # 0 => i \in q.uses
  /\ q.op = "confirm" /\ alloc[q.doc] = Nothing => Invoices \subseteq q.uses

\* What was checked before the transaction still holds.
ChecksHold(c) ==
  LET q == req[c] IN
  /\ q.op \in {"confirm", "allocate"} => rstatus[q.doc] = "draft"
  /\ q.op = "cancel" => q.was = (rstatus[q.doc] = "confirmed")
  /\ q.op = "allocate" => \E i \in Invoices : \A j \in Invoices \ {i} : q.plan[j] = 0
  /\ q.op = "void" => \A r \in Receipts : alloc[r][q.doc] = 0

\* The plan is still what the rows call for.
PlanCurrent(c) ==
  LET q == req[c] IN
  /\ q.fifo => q.at = "paying"
  /\ q.at = "paying" =>
       /\ q.op = "confirm" =>
            IF q.fifo THEN alloc[q.doc] = Nothing /\ Total(q.plan, Invoices) <= Amount[q.doc]
            ELSE q.plan = alloc[q.doc]
       /\ q.op = "cancel" => q.plan = (IF q.was THEN alloc[q.doc] ELSE Nothing)
       /\ q.op = "allocate" =>
            /\ Total(q.plan, Invoices) <= Remaining(q.doc)
            /\ \A i \in Planned(c) : q.plan[i] <= outstanding[i]

\* What was read is still so, and what was written comes from it.
ReadCurrent(c) ==
  \A i \in Invoices : seen[c][i] # Unread => i \in Planned(c) /\ seen[c][i] = outstanding[i]
WorkCurrent(c) ==
  \A i \in Invoices : Written(c, i) =>
    /\ seen[c][i] # Unread
    /\ work[c][i] = IF req[c].op = "confirm" THEN PaidRow(seen[c][i] - req[c].plan[i])
                    ELSE ReopenedRow(seen[c][i] + req[c].plan[i])

Held(c) ==
  UsesCover(c) /\ ChecksHold(c) /\ PlanCurrent(c) /\ ReadCurrent(c) /\ WorkCurrent(c)

ApartInv ==
  apart => Disjoint /\ \A c \in Clients : Held(c)

\* A step of c changes no row but those of the documents it uses.
OnlyUsed(c) ==
  /\ \A i \in Invoices \ req[c].uses :
       outstanding'[i] = outstanding[i] /\ \A r \in Receipts : alloc'[r][i] = alloc[r][i]
  /\ \A r \in Receipts \ req[c].uses : rstatus'[r] = rstatus[r] /\ alloc'[r] = alloc[r]

\* What holds of a request is not disturbed by a step of another.
LEMMA OthersHeld ==
  ASSUME RaceInv, NEW c \in Clients, NEW d \in Clients \ {c}, Disjoint, Held(d), OnlyUsed(c),
         req'[d] = req[d], seen'[d] = seen[d], work'[d] = work[d]
  PROVE  Held(d)'
<1> DEFINE q == req[d]
<1>1. q \in Requests /\ q.uses \cap req[c].uses = {}
  BY DEF RaceInv, TypeOK, Disjoint
<1>2. q.op # "none" => q.doc \in q.uses /\ q.doc \in Receipts \cup Invoices
  BY <1>1 DEF Held, UsesCover, Requests, RequestsOn
<1>3. q.op \in {"confirm", "cancel", "allocate"} =>
        q.doc \in Receipts /\ rstatus'[q.doc] = rstatus[q.doc] /\ alloc'[q.doc] = alloc[q.doc]
  BY <1>1, <1>2 DEF OnlyUsed, Requests, RequestsOn
<1>4. \A i \in Invoices : q.plan[i] # 0 => outstanding'[i] = outstanding[i]
  BY <1>1 DEF Held, UsesCover, OnlyUsed
<1>5. UsesCover(d)'
  BY <1>3 DEF Held, UsesCover
<1>6. ChecksHold(d)'
  <2>1. q.op = "void" => \A r \in Receipts : alloc'[r][q.doc] = alloc[r][q.doc]
    BY <1>1, <1>2 DEF OnlyUsed, Requests, RequestsOn
  <2> QED
    BY <1>3, <2>1 DEF Held, ChecksHold
<1>7. PlanCurrent(d)'
  BY <1>1, <1>3, <1>4 DEF Held, PlanCurrent, Remaining, Planned, Requests, RequestsOn
<1>8. ReadCurrent(d)'
  BY <1>4 DEF Held, ReadCurrent, Planned
<1>9. WorkCurrent(d)'
  BY DEF Held, WorkCurrent, Written
<1> QED
  BY <1>5, <1>6, <1>7, <1>8, <1>9 DEF Held

LEMMA FinishedHolds ==
  ASSUME RaceInv, NEW c \in Clients, Finish(c)
  PROVE  /\ Held(c)' /\ req'[c].uses = {}
         /\ \A d \in Clients \ {c} : req'[d] = req[d] /\ seen'[d] = seen[d] /\ work'[d] = work[d]
<1>1. req'[c] = Idle /\ seen'[c] = Blank /\ work'[c] = NoWork
  BY DEF RaceInv, TypeOK, Finish
<1>2. Held(c)'
  BY <1>1, Constants DEF Held, UsesCover, ChecksHold, PlanCurrent, ReadCurrent, WorkCurrent, Written,
                         Idle, Nothing
<1> QED
  BY <1>1, <1>2 DEF RaceInv, TypeOK, Finish, Idle

\* A step that leaves the documents of the others alone.
LEMMA StaysApart ==
  ASSUME RaceInv, ApartInv, apart, apart' = apart, NEW c \in Clients, OnlyUsed(c),
         \A d \in Clients \ {c} : req'[d] = req[d] /\ seen'[d] = seen[d] /\ work'[d] = work[d],
         req'[c].uses \subseteq req[c].uses, Held(c)'
  PROVE  ApartInv'
<1>1. Disjoint /\ \A d \in Clients : Held(d)
  BY DEF ApartInv
<1>2. Disjoint'
  BY <1>1 DEF Disjoint
<1>3. ASSUME NEW d \in Clients \ {c} PROVE Held(d)'
  BY <1>1, <1>3, OthersHeld
<1> QED
  BY <1>2, <1>3 DEF ApartInv

RowsAddUp == OutstandingIsUnpaid /\ AllocationsFit

\* A statement that writes no committed row.
LEMMA StatementApart ==
  ASSUME RaceInv, ApartInv, RowsAddUp, apart, apart' = apart, UNCHANGED rows,
         NEW c \in Clients,
         \A d \in Clients \ {c} : req'[d] = req[d] /\ seen'[d] = seen[d] /\ work'[d] = work[d],
         req'[c].uses \subseteq req[c].uses, Held(c)'
  PROVE  ApartInv' /\ RowsAddUp'
<1>1. OnlyUsed(c)
  BY DEF OnlyUsed, rows
<1>2. ApartInv'
  BY <1>1, StaysApart
<1>3. RowsAddUp'
  BY DEF RowsAddUp, OutstandingIsUnpaid, AllocationsFit, Paid, PaidBy, AllocatedTo, rows
<1> QED
  BY <1>2, <1>3

LEMMA ColumnZero ==
  ASSUME NEW a \in [Receipts -> [Invoices -> Nat]], NEW i \in Invoices
  PROVE  Total([r \in Receipts |-> a[r][i]], Receipts) = 0 <=> \A r \in Receipts : a[r][i] = 0
<1> DEFINE f == [r \in Receipts |-> a[r][i]]
<1>1. \A r \in Receipts : f[r] \in Nat
  OBVIOUS
<1>2. ASSUME NEW r \in Receipts PROVE f[r] <= Total(f, Receipts) /\ f[r] = a[r][i]
  <2> HIDE DEF f
  <2>1. f[r] <= Total(f, Receipts)
    BY <1>1, TotalBounds, RaceAssumption
  <2> QED
    BY <2>1 DEF f
<1>3. ASSUME \A r \in Receipts : a[r][i] = 0 PROVE Total(f, Receipts) = 0
  BY <1>3, TotalZero
<1> QED
  BY <1>1, <1>2, <1>3

LEMMA AllocatedZero ==
  ASSUME TypeOK, NEW i \in Invoices
  PROVE  AllocatedTo(i) = 0 <=> \A r \in Receipts : alloc[r][i] = 0
BY ColumnZero DEF TypeOK, AllocatedTo

\* A request starts only when nobody uses its documents.
LEMMA StartApart ==
  ASSUME RaceInv, ApartInv, RowsAddUp, apart, apart' = apart, NEW c \in Clients,
         \/ \E r \in Receipts :
              \/ StartConfirm(c, r) \/ StartCancel(c, r)
              \/ \E i \in Invoices, n \in Parts : StartAllocate(c, r, i, n)
         \/ \E i \in Invoices : StartVoid(c, i)
  PROVE  ApartInv' /\ RowsAddUp'
<1> USE Constants
<1>t. TypeOK /\ \A i \in Invoices : Nothing[i] = 0
  BY DEF RaceInv, Nothing
<1>1. ASSUME NEW request \in Requests, Start(c, request),
             \* a fresh request holds
             request.at = "begun", ~request.fifo,
             request.op # "none" => request.doc \in request.uses,
             \A i \in Invoices : request.plan[i] # 0 => i \in request.uses,
             request.op \in {"confirm", "cancel"} =>
               \A i \in Invoices : alloc[request.doc][i] # 0 => i \in request.uses,
             request.op = "confirm" /\ alloc[request.doc] = Nothing =>
               Invoices \subseteq request.uses,
             request.op \in {"confirm", "allocate"} => rstatus[request.doc] = "draft",
             request.op = "cancel" => request.was = (rstatus[request.doc] = "confirmed"),
             request.op = "allocate" =>
               \E i \in Invoices : \A j \in Invoices \ {i} : request.plan[j] = 0,
             request.op = "void" => \A r \in Receipts : alloc[r][request.doc] = 0
      PROVE  ApartInv' /\ RowsAddUp'
  <2>1. /\ req[c] = Idle /\ req' = [req EXCEPT ![c] = request]
        /\ \A d \in Clients : req[d].uses \cap request.uses = {}
        /\ UNCHANGED <<rows, seen, work>>
    BY <1>1 DEF Start
  <2>2. req'[c] = request /\ \A d \in Clients \ {c} : req'[d] = req[d]
    BY <2>1, <1>t DEF TypeOK
  <2>3. seen[c] = Blank /\ work[c] = NoWork
    BY <2>1 DEF Idle, RaceInv, ReadsOnlyWhilePaying
  <2>4. UsesCover(c)' /\ ChecksHold(c)'
    BY <1>1, <2>1, <2>2 DEF UsesCover, ChecksHold, rows
  <2>5. PlanCurrent(c)' /\ ReadCurrent(c)' /\ WorkCurrent(c)'
    BY <1>1, <2>1, <2>2, <2>3 DEF PlanCurrent, ReadCurrent, WorkCurrent, Written
  <2>6. Disjoint'
    BY <2>1, <2>2 DEF ApartInv, Disjoint
  <2>7. ASSUME NEW d \in Clients \ {c} PROVE Held(d)'
    <3>1. OnlyUsed(c)
      BY <2>1 DEF OnlyUsed, rows
    <3> QED
      BY <2>1, <2>2, <3>1, OthersHeld DEF ApartInv
  <2>8. RowsAddUp'
    BY <2>1 DEF RowsAddUp, OutstandingIsUnpaid, AllocationsFit, Paid, PaidBy, AllocatedTo, rows
  <2> QED
    BY <2>4, <2>5, <2>6, <2>7, <2>8 DEF ApartInv, Held
<1>2. ASSUME NEW r \in Receipts
      PROVE  /\ Uses(r) \in SUBSET (Invoices \cup Receipts) /\ r \in Uses(r)
             /\ \A i \in Invoices : alloc[r][i] # 0 => i \in Uses(r)
             /\ rstatus[r] = "draft" /\ alloc[r] = Nothing => Invoices \subseteq Uses(r)
  BY <1>t DEF Uses, TypeOK
<1>3. ASSUME NEW r \in Receipts, StartConfirm(c, r) PROVE ApartInv' /\ RowsAddUp'
  <2> DEFINE request == Started("confirm", r, FALSE, Nothing, Uses(r))
  <2>1. request \in Requests
    BY <1>2 DEF Started, Requests, RequestsOn
  <2>2. rstatus[r] = "draft" /\ Start(c, request)
    BY <1>3 DEF StartConfirm
  <2>3. /\ request.at = "begun" /\ ~request.fifo /\ request.op = "confirm" /\ request.doc = r
        /\ request.uses = Uses(r) /\ \A i \in Invoices : request.plan[i] = 0
    BY <1>t DEF Started
  <2> HIDE DEF request
  <2> QED
    BY <1>1, <1>2, <2>1, <2>2, <2>3
<1>4. ASSUME NEW r \in Receipts, StartCancel(c, r) PROVE ApartInv' /\ RowsAddUp'
  <2> DEFINE request == Started("cancel", r, rstatus[r] = "confirmed", Nothing, Uses(r))
  <2>0. (rstatus[r] = "confirmed") \in BOOLEAN
    OBVIOUS
  <2>1. request \in Requests
    BY <1>2, <2>0 DEF Started, Requests, RequestsOn
  <2>2. Start(c, request)
    BY <1>4 DEF StartCancel
  <2>3. /\ request.at = "begun" /\ ~request.fifo /\ request.op = "cancel" /\ request.doc = r
        /\ request.uses = Uses(r) /\ \A i \in Invoices : request.plan[i] = 0
    BY <1>t DEF Started
  <2>4. request.was = (rstatus[request.doc] = "confirmed")
    BY Zenon DEF Started
  <2> HIDE DEF request
  <2> QED
    BY <1>1, <1>2, <2>1, <2>2, <2>3, <2>4
<1>5. ASSUME NEW r \in Receipts, NEW i \in Invoices, NEW n \in Parts, StartAllocate(c, r, i, n)
      PROVE  ApartInv' /\ RowsAddUp'
  <2> DEFINE request == Started("allocate", r, FALSE, [Nothing EXCEPT ![i] = n], {r, i})
  <2>1. request \in Requests
    <3>1. [Nothing EXCEPT ![i] = n] \in [Invoices -> Nat]
      BY RaceAssumption
    <3> QED
      BY <3>1 DEF Started, Requests, RequestsOn
  <2>2. rstatus[r] = "draft" /\ Start(c, request)
    BY <1>5 DEF StartAllocate
  <2>3. /\ request.at = "begun" /\ ~request.fifo /\ request.op = "allocate" /\ request.doc = r
        /\ request.uses = {r, i} /\ \A j \in Invoices \ {i} : request.plan[j] = 0
    BY <1>t DEF Started, Nothing
  <2> HIDE DEF request
  <2> QED
    BY <1>1, <2>1, <2>2, <2>3
<1>6. ASSUME NEW i \in Invoices, StartVoid(c, i) PROVE ApartInv' /\ RowsAddUp'
  <2> DEFINE request == Started("void", i, FALSE, Nothing, {i})
  <2>1. request \in Requests
    BY DEF Started, Requests, RequestsOn
  <2>2. Start(c, request) /\ \A r \in Receipts : alloc[r][i] = 0
    BY <1>6, <1>t, AllocatedZero DEF StartVoid
  <2>3. /\ request.at = "begun" /\ ~request.fifo /\ request.op = "void" /\ request.doc = i
        /\ request.uses = {i} /\ \A j \in Invoices : request.plan[j] = 0
    BY <1>t DEF Started
  <2> HIDE DEF request
  <2> QED
    BY <1>1, <2>1, <2>2, <2>3
<1> QED
  BY <1>3, <1>4, <1>5, <1>6

\* Reads inside a transaction keep what holds of the request.
LEMMA ReadApart ==
  ASSUME RaceInv, ApartInv, RowsAddUp, apart, apart' = apart, NEW c \in Clients,
         \/ ReopenReceipt(c) \/ ReadAllocations(c) \/ PlanFifo(c) \/ ReadCancelled(c)
         \/ CheckRoom(c)
  PROVE  ApartInv' /\ RowsAddUp'
<1> USE Constants
<1> DEFINE q == req[c]
<1>t. /\ q \in Requests /\ req \in [Clients -> Requests] /\ Held(c)
      /\ seen \in [Clients -> [Invoices -> Nat \cup {Unread}]]
  BY DEF RaceInv, TypeOK, ApartInv
<1>b. seen[c] = Blank /\ work[c] = NoWork
  BY DEF RaceInv, ReadsOnlyWhilePaying, ReopenReceipt, ReadAllocations, PlanFifo, ReadCancelled,
         CheckRoom, At
<1>n. \A i \in Invoices : Nothing[i] = 0
  BY DEF Nothing
<1>1. ASSUME NEW request,
             req' = [req EXCEPT ![c] = request], UNCHANGED <<rows, work>>,
             \A d \in Clients \ {c} : seen'[d] = seen[d],
             request.op = q.op, request.doc = q.doc, request.uses = q.uses, request.was = q.was,
             \A i \in Invoices : request.plan[i] # 0 => i \in q.uses,
             q.op = "allocate" => request.plan = q.plan,
             PlanCurrent(c)', ReadCurrent(c)'
      PROVE  ApartInv' /\ RowsAddUp'
  <2>1. req'[c] = request /\ \A d \in Clients \ {c} : req'[d] = req[d]
    BY <1>1, <1>t
  <2>2. UsesCover(c)' /\ ChecksHold(c)'
    BY <1>1, <1>t, <2>1 DEF Held, UsesCover, ChecksHold, rows
  <2>3. WorkCurrent(c)'
    BY <1>1, <1>b DEF WorkCurrent, Written
  <2>4. Held(c)' /\ \A d \in Clients \ {c} : work'[d] = work[d]
    BY <1>1, <2>2, <2>3 DEF Held
  <2>5. UNCHANGED rows
    BY <1>1
  <2> QED
    BY <1>1, <2>1, <2>4, <2>5, StatementApart
<1>2. seen' = seen => ReadCurrent(c)'
  BY <1>b DEF ReadCurrent
<1>3. ASSUME ReopenReceipt(c) PROVE ApartInv' /\ RowsAddUp'
  <2> DEFINE request == [q EXCEPT !.at = "opened"]
  <2>1. /\ request.op = q.op /\ request.doc = q.doc /\ request.uses = q.uses
        /\ request.was = q.was /\ request.plan = q.plan /\ request.fifo = q.fifo
        /\ request.at = "opened" /\ q.at = "begun"
        /\ req' = [req EXCEPT ![c] = request] /\ UNCHANGED <<rows, seen, work>>
    BY <1>3, <1>t DEF ReopenReceipt, Proceed, Requests, RequestsOn, At
  <2> HIDE DEF request
  <2>2. PlanCurrent(c)'
    BY <1>t, <2>1 DEF Held, PlanCurrent
  <2>3. \A i \in Invoices : request.plan[i] # 0 => i \in q.uses
    BY <1>t, <2>1 DEF Held, UsesCover
  <2>4. ReadCurrent(c)' /\ seen' = seen
    BY <1>2, <2>1
  <2> HIDE DEF q
  <2> QED
    BY <1>1, <2>1, <2>2, <2>3, <2>4
<1>4. ASSUME ReadAllocations(c) PROVE ApartInv' /\ RowsAddUp'
  <2> DEFINE request == [q EXCEPT !.at = "paying", !.plan = alloc[q.doc]]
  <2>1. /\ request.op = q.op /\ request.doc = q.doc /\ request.uses = q.uses
        /\ request.was = q.was /\ request.plan = alloc[q.doc] /\ request.fifo = q.fifo
        /\ request.at = "paying" /\ q.at = "opened" /\ q.op = "confirm"
        /\ req' = [req EXCEPT ![c] = request] /\ UNCHANGED <<rows, seen, work>>
    BY <1>4, <1>t DEF ReadAllocations, Proceed, Requests, RequestsOn, At
  <2> HIDE DEF request
  <2>2. PlanCurrent(c)'
    BY <1>t, <2>1 DEF Held, PlanCurrent, rows
  <2>3. \A i \in Invoices : request.plan[i] # 0 => i \in q.uses
    BY <1>t, <2>1 DEF Held, UsesCover
  <2>4. ReadCurrent(c)' /\ seen' = seen
    BY <1>2, <2>1
  <2> HIDE DEF q
  <2> QED
    BY <1>1, <2>1, <2>2, <2>3, <2>4
<1>5. ASSUME ReadCancelled(c) PROVE ApartInv' /\ RowsAddUp'
  <2> DEFINE back == IF q.was THEN alloc[q.doc] ELSE Nothing
             request == [q EXCEPT !.at = "paying", !.plan = back]
  <2>1. /\ request.op = q.op /\ request.doc = q.doc /\ request.uses = q.uses
        /\ request.was = q.was /\ request.plan = back /\ request.fifo = q.fifo
        /\ request.at = "paying" /\ q.at = "begun" /\ q.op = "cancel"
        /\ req' = [req EXCEPT ![c] = request] /\ UNCHANGED <<rows, seen, work>>
    BY <1>5, <1>t DEF ReadCancelled, Proceed, Requests, RequestsOn, At
  <2> HIDE DEF request
  <2>2. PlanCurrent(c)'
    BY <1>t, <2>1 DEF Held, PlanCurrent, rows
  <2>3. \A i \in Invoices : request.plan[i] # 0 => i \in q.uses
    BY <1>t, <1>n, <2>1 DEF Held, UsesCover
  <2>4. ReadCurrent(c)' /\ seen' = seen
    BY <1>2, <2>1
  <2> HIDE DEF q, back
  <2> QED
    BY <1>1, <2>1, <2>2, <2>3, <2>4
<1>6. ASSUME CheckRoom(c) PROVE ApartInv' /\ RowsAddUp'
  <2> DEFINE request == [q EXCEPT !.at = "paying"]
  <2>1. /\ request.op = q.op /\ request.doc = q.doc /\ request.uses = q.uses
        /\ request.was = q.was /\ request.plan = q.plan /\ request.fifo = q.fifo
        /\ request.at = "paying" /\ q.at = "begun" /\ q.op = "allocate"
        /\ req' = [req EXCEPT ![c] = request] /\ UNCHANGED <<rows, seen, work>>
        /\ Total(q.plan, Invoices) <= Remaining(q.doc)
        /\ \A i \in Planned(c) : q.plan[i] <= outstanding[i]
    BY <1>6, <1>t DEF CheckRoom, Proceed, Requests, RequestsOn, At
  <2> HIDE DEF request
  <2>2. PlanCurrent(c)'
    BY <1>t, <2>1 DEF Held, PlanCurrent, rows, Remaining, Planned
  <2>3. \A i \in Invoices : request.plan[i] # 0 => i \in q.uses
    BY <1>t, <2>1 DEF Held, UsesCover
  <2>4. ReadCurrent(c)' /\ seen' = seen
    BY <1>2, <2>1
  <2> HIDE DEF q
  <2> QED
    BY <1>1, <2>1, <2>2, <2>3, <2>4
<1>7. ASSUME PlanFifo(c) PROVE ApartInv' /\ RowsAddUp'
  <2> DEFINE open == {i \in Invoices : istatus[i] \in Payable /\ outstanding[i] > 0}
             shares(by) == FifoShares(Amount[q.doc], outstanding, open, by)
  <2>0. PICK by \in SortedBy(day) :
          /\ req' = [req EXCEPT ![c] = [q EXCEPT !.at = "paying", !.plan = shares(by),
                                                !.fifo = TRUE, !.by = by]]
          /\ seen' = [seen EXCEPT ![c] =
                        [i \in Invoices |-> IF shares(by)[i] > 0 THEN outstanding[i] ELSE Unread]]
    BY <1>7 DEF PlanFifo, Proceed
  <2> DEFINE plan == shares(by)
             read == [i \in Invoices |-> IF plan[i] > 0 THEN outstanding[i] ELSE Unread]
             request == [q EXCEPT !.at = "paying", !.plan = plan, !.fifo = TRUE, !.by = by]
  <2>1. /\ request.op = q.op /\ request.doc = q.doc /\ request.uses = q.uses
        /\ request.was = q.was /\ request.plan = plan /\ request.fifo
        /\ request.at = "paying" /\ q.at = "opened" /\ q.op = "confirm"
        /\ alloc[q.doc] = Nothing /\ q.doc \in Receipts
        /\ req' = [req EXCEPT ![c] = request] /\ UNCHANGED <<rows, work>>
        /\ seen' = [seen EXCEPT ![c] = read]
    BY <1>7, <1>t, <2>0 DEF PlanFifo, Requests, RequestsOn, At
  <2>2. plan \in [Invoices -> Nat] /\ Total(plan, Invoices) <= Amount[q.doc]
    <3>1. open \in SUBSET Invoices
      OBVIOUS
    <3>2. Amount[q.doc] \in Nat
      BY <2>1, RaceAssumption
    <3>3. DOMAIN outstanding = Invoices /\ \A i \in Invoices : outstanding[i] \in Nat
      BY DEF RaceInv, TypeOK
    <3>4. /\ IsFiniteSet(Invoices) /\ by \in [Invoices -> Nat]
          /\ \A i, j \in Invoices : by[i] = by[j] => i = j
      BY DayOrders, RaceAssumption
    <3> HIDE DEF open, q
    <3>5. plan \in [Invoices -> Nat]
      BY <3>1, <3>2, <3>3, <3>4, FifoTyped
    <3>6. Total(plan, Invoices) <= Amount[q.doc]
      BY <3>1, <3>2, <3>3, <3>4, FifoFits
    <3> QED
      BY <3>5, <3>6
  <2> HIDE DEF plan, request
  <2>3. PlanCurrent(c)'
    BY <1>t, <2>1, <2>2 DEF PlanCurrent, rows
  <2>4. ReadCurrent(c)'
    BY <1>t, <2>1 DEF ReadCurrent, Planned, rows
  <2>5. \A i \in Invoices : i \in q.uses
    BY <1>t, <2>1 DEF Held, UsesCover
  <2> QED
    BY <1>1, <1>t, <2>1, <2>3, <2>4, <2>5
<1> QED
  BY <1>3, <1>4, <1>5, <1>6, <1>7

\* Reading and writing an invoice of the plan.
LEMMA WalkApart ==
  ASSUME RaceInv, ApartInv, RowsAddUp, apart, apart' = apart, NEW c \in Clients,
         NEW i \in Invoices, ReadInvoice(c, i) \/ WriteInvoice(c, i)
  PROVE  ApartInv' /\ RowsAddUp'
<1>t. /\ seen \in [Clients -> [Invoices -> Nat \cup {Unread}]] /\ Held(c)
      /\ work \in [Clients -> [Invoices -> Row \cup {NoRow}]]
      /\ i \in Planned(c) /\ UNCHANGED <<rows, req>>
  BY DEF RaceInv, TypeOK, ApartInv, ReadInvoice, WriteInvoice
<1>1. UsesCover(c)' /\ ChecksHold(c)' /\ PlanCurrent(c)'
  BY <1>t DEF Held, UsesCover, ChecksHold, PlanCurrent, Remaining, Planned, rows
<1>2. ReadCurrent(c)' /\ WorkCurrent(c)'
  <2>1. CASE ReadInvoice(c, i)
    <3>1. \A j \in Invoices : seen'[c][j] = IF j = i THEN outstanding[i] ELSE seen[c][j]
      BY <1>t, <2>1 DEF ReadInvoice
    <3>2. ~Written(c, i)
      BY <1>t, <2>1 DEF Held, WorkCurrent, ReadInvoice
    <3> QED
      BY <1>t, <2>1, <3>1, <3>2 DEF Held, ReadCurrent, WorkCurrent, Written, Planned, rows, ReadInvoice
  <2>2. CASE WriteInvoice(c, i)
    <3> DEFINE row == IF req[c].op = "confirm" THEN PaidRow(seen[c][i] - req[c].plan[i])
                      ELSE ReopenedRow(seen[c][i] + req[c].plan[i])
    <3>1. \A j \in Invoices : work'[c][j] = IF j = i THEN row ELSE work[c][j]
      BY <1>t, <2>2 DEF WriteInvoice
    <3>2. seen[c][i] # Unread /\ UNCHANGED <<rows, req, seen>>
      BY <2>2 DEF WriteInvoice
    <3> QED
      BY <1>t, <3>1, <3>2 DEF Held, ReadCurrent, WorkCurrent, Written, Planned, rows
  <2> QED
    BY <2>1, <2>2
<1>3. \A d \in Clients \ {c} : req'[d] = req[d] /\ seen'[d] = seen[d] /\ work'[d] = work[d]
  BY <1>t DEF ReadInvoice, WriteInvoice
<1>4. Held(c)' /\ req'[c].uses \subseteq req[c].uses /\ UNCHANGED rows
  BY <1>1, <1>2, <1>t DEF Held
<1> QED
  BY <1>3, <1>4, StatementApart

-----------------------------------------------------------------------
(* What a commit does to the rows.                                       *)

\* What confirmed receipts pay of an invoice, when one receipt changes.
LEMMA PaidMoves ==
  ASSUME TypeOK, TypeOK', NEW i \in Invoices, NEW r \in Receipts,
         \A s \in Receipts \ {r} : rstatus'[s] = rstatus[s] /\ alloc'[s][i] = alloc[s][i]
  PROVE  /\ Paid(i) \in Nat /\ Paid(i)' \in Nat /\ PaidBy(r, i) \in Nat /\ PaidBy(r, i)' \in Nat
         /\ Paid(i)' + PaidBy(r, i) = Paid(i) + PaidBy(r, i)'
<1> DEFINE f == [s \in Receipts |-> PaidBy(s, i)]
           g == [s \in Receipts |-> PaidBy(s, i)']
<1>1. \A s \in Receipts : f[s] \in Nat /\ g[s] \in Nat
  BY DEF PaidBy, TypeOK
<1>2. \A s \in Receipts \ {r} : f[s] = g[s]
  BY DEF PaidBy
<1>3. Paid(i) = Total(f, Receipts) /\ Paid(i)' = Total(g, Receipts)
        /\ f[r] = PaidBy(r, i) /\ g[r] = PaidBy(r, i)'
  BY DEF Paid
<1> HIDE DEF f, g
<1>4. Total(f, Receipts) \in Nat /\ Total(g, Receipts) \in Nat
  BY <1>1, TotalNat, RaceAssumption
<1>5. Total(g, Receipts) + f[r] = Total(f, Receipts) + g[r]
  BY <1>1, <1>2, TotalMoves, RaceAssumption
<1> QED
  BY <1>1, <1>3, <1>4, <1>5

LEMMA PaidSame ==
  ASSUME TypeOK, NEW i \in Invoices, \A s \in Receipts : PaidBy(s, i)' = PaidBy(s, i)
  PROVE  Paid(i)' = Paid(i)
<1> DEFINE f == [s \in Receipts |-> PaidBy(s, i)]
           g == [s \in Receipts |-> PaidBy(s, i)']
<1>1. \A s \in Receipts : f[s] = g[s]
  OBVIOUS
<1>2. Total(f, Receipts) = Total(g, Receipts)
  BY <1>1, TotalSame
<1> QED
  BY <1>2 DEF Paid

\* Every invoice of the plan is written from what it still owes.
LEMMA InstallMoves ==
  ASSUME RaceInv, RowsAddUp, apart, NEW c \in Clients, Held(c), AllWritten(c), Install(c),
         NEW i \in Invoices
  PROVE  LET q == req[c] IN
         /\ q.plan[i] \in Nat /\ outstanding[i] \in Nat
         /\ q.plan[i] # 0 => istatus[i] # "cancelled" /\ i \in q.uses
         /\ istatus'[i] = "cancelled" <=> istatus[i] = "cancelled"
         /\ q.op = "confirm" =>
              q.plan[i] <= outstanding[i] /\ outstanding'[i] = outstanding[i] - q.plan[i]
         /\ q.op = "cancel" => outstanding'[i] = outstanding[i] + q.plan[i]
<1> DEFINE q == req[c]
           n == q.plan[i]
<1>1. /\ q \in Requests /\ q.op \in {"confirm", "cancel"} /\ q.at = "paying"
      /\ TypeOK /\ Consistent(istatus[i], outstanding[i])
      /\ istatus[i] \in InvoiceStatus /\ outstanding[i] \in Nat
  BY DEF RaceInv, TypeOK, RowsConsistent, AllWritten, Walks
<1>2. n \in Nat /\ q.doc \in Receipts
  BY <1>1 DEF Requests, RequestsOn
<1>3. CASE n = 0
  <2>1. ~Written(c, i)
    BY <1>3 DEF Held, WorkCurrent, ReadCurrent, Planned
  <2> QED
    BY <1>1, <1>2, <1>3, <2>1 DEF Install
<1>4. CASE n # 0
  <2>1. i \in Planned(c) /\ Written(c, i)
    BY <1>2, <1>4 DEF AllWritten, Planned
  <2>2. seen[c][i] # Unread /\ seen[c][i] = outstanding[i]
    BY <2>1 DEF Held, WorkCurrent, ReadCurrent
  <2>3. work[c][i] = IF q.op = "confirm" THEN PaidRow(outstanding[i] - n)
                     ELSE ReopenedRow(outstanding[i] + n)
    BY <2>1, <2>2 DEF Held, WorkCurrent
  <2>4. istatus'[i] = work[c][i].status /\ outstanding'[i] = work[c][i].outstanding
    BY <2>1 DEF Install
  <2>5. istatus[i] # "cancelled"
    <3>1. CASE q.op = "confirm"
      <4>1. n <= outstanding[i]
        BY <2>2, <3>1 DEF RaceInv, ReadCovers
      <4> QED
        BY <1>1, <1>2, <1>4, <4>1 DEF Consistent
    <3>2. CASE q.op = "cancel"
      <4>1. alloc[q.doc][i] # 0
        BY <1>1, <1>4, <3>2 DEF Held, PlanCurrent, Nothing
      <4> QED
        BY <1>1, <1>2, <4>1, AllocatedZero DEF RowsAddUp, AllocationsFit
    <3> QED
      BY <1>1, <3>1, <3>2
  <2>6. work[c][i].status # "cancelled" /\ i \in q.uses
    BY <1>4, <2>3 DEF PaidRow, ReopenedRow, Held, UsesCover
  <2>7. q.op = "confirm" => n <= outstanding[i]
    BY <2>2 DEF RaceInv, ReadCovers
  <2>8. /\ q.op = "confirm" => outstanding'[i] = outstanding[i] - n
        /\ q.op = "cancel" => outstanding'[i] = outstanding[i] + n
    BY <2>3, <2>4 DEF PaidRow, ReopenedRow
  <2> QED
    BY <1>1, <1>2, <2>4, <2>5, <2>6, <2>7, <2>8
<1> QED
  BY <1>3, <1>4

\* The account's settled sums are those of the confirmed receipts, and what it
\* says an invoice owes is its outstanding amount.
LEMMA SettledIsPaid ==
  ASSUME NEW i \in Invoices
  PROVE  Account!Settled(i) = Paid(i)
<1>1. \A r \in Receipts : Applied[r][i] = PaidBy(r, i)
  BY DEF Applied, PaidBy, Nothing
<1>2. [r \in Receipts |-> Applied[r][i]] = [r \in Receipts |-> PaidBy(r, i)]
  BY <1>1
<1>3. ASSUME NEW f PROVE Account!Total(f, Receipts) = Total(f, Receipts)
  BY DEF Account!Total, Account!Units, Account!Cardinality, Total, Units, Cardinality
<1> QED
  BY <1>2, <1>3 DEF Account!Settled, Paid

LEMMA OwedIsOutstanding ==
  ASSUME RaceInv, RowsAddUp, apart, NEW i \in Invoices
  PROVE  Account!Owed(i) = IF istatus[i] = "cancelled" THEN 0 ELSE outstanding[i]
<1>1. Account!Settled(i) = Paid(i) /\ TypeOK
  BY SettledIsPaid DEF RaceInv
<1>2. CASE istatus[i] = "cancelled"
  <2>1. \A r \in Receipts : alloc[r][i] = 0
    BY <1>1, <1>2, AllocatedZero DEF RowsAddUp, AllocationsFit
  <2>2. \A r \in Receipts : [s \in Receipts |-> PaidBy(s, i)][r] = 0
    BY <2>1 DEF PaidBy
  <2>3. Paid(i) = 0
    BY <2>2, TotalZero DEF Paid
  <2> QED
    BY <1>1, <1>2, <2>3 DEF Account!Owed, Billed
<1>3. CASE istatus[i] # "cancelled"
  <2>1. outstanding[i] + Paid(i) = Bill
    BY <1>3 DEF RowsAddUp, OutstandingIsUnpaid
  <2>2. Paid(i) \in Nat
    <3> DEFINE f == [s \in Receipts |-> PaidBy(s, i)]
    <3>1. \A s \in Receipts : f[s] \in Nat
      BY <1>1 DEF PaidBy, TypeOK
    <3> HIDE DEF f
    <3>2. Total(f, Receipts) \in Nat
      BY <3>1, TotalNat, RaceAssumption
    <3> QED
      BY <3>2 DEF Paid, f
  <2>3. outstanding[i] \in Nat /\ Bill \in Nat
    BY <1>1, RaceAssumption DEF TypeOK
  <2> QED
    BY <1>1, <1>3, <2>1, <2>2, <2>3 DEF Account!Owed, Billed
<1> QED
  BY <1>2, <1>3

\* A confirmation settles what its invoices owe.
LEMMA ConfirmApart ==
  ASSUME RaceInv, TypeOK', ApartInv, RowsAddUp, apart, apart' = apart, NEW c \in Clients,
         CommitConfirm(c)
  PROVE  ApartInv' /\ RowsAddUp' /\ Account!Settle(req[c].doc)
<1> DEFINE q == req[c]
<1>1. /\ q \in Requests /\ q.op = "confirm" /\ q.at = "paying" /\ Held(c) /\ TypeOK
      /\ AllWritten(c) /\ Install(c) /\ Finish(c)
  BY DEF RaceInv, TypeOK, ApartInv, CommitConfirm, AllWritten, Walks
<1>p. PICK r \in Receipts, p \in [Invoices -> Nat] : q.doc = r /\ q.plan = p
  BY <1>1 DEF Requests, RequestsOn
<1>2. /\ rstatus[r] = "draft" /\ r \in q.uses
      /\ \A i \in Invoices : alloc[r][i] # 0 => i \in q.uses
  BY <1>1, <1>p DEF Held, UsesCover, ChecksHold
<1>3. \A i \in Invoices :
        /\ p[i] \in Nat /\ outstanding[i] \in Nat /\ p[i] <= outstanding[i]
        /\ p[i] # 0 => istatus[i] # "cancelled" /\ i \in q.uses
        /\ istatus'[i] = "cancelled" <=> istatus[i] = "cancelled"
        /\ outstanding'[i] = outstanding[i] - p[i]
  BY <1>1, <1>p, InstallMoves
<1>4. /\ rstatus'[r] = "confirmed" /\ alloc'[r] = p
      /\ \A s \in Receipts \ {r} : rstatus'[s] = rstatus[s] /\ alloc'[s] = alloc[s]
  <2>1. q.fifo => [i \in Invoices |-> alloc[r][i] + p[i]] = p
    BY <1>1, <1>p DEF Held, PlanCurrent, Nothing
  <2>2. ~q.fifo => alloc[r] = p
    BY <1>1, <1>p DEF Held, PlanCurrent
  <2> QED
    BY <1>1, <1>p, <1>2, <2>1, <2>2 DEF CommitConfirm, TypeOK
<1>5. OnlyUsed(c)
  <2>1. ASSUME NEW i \in Invoices \ q.uses PROVE p[i] = 0 /\ alloc[r][i] = 0
    BY <1>2, <1>3
  <2> QED
    BY <1>2, <1>3, <1>4, <2>1 DEF OnlyUsed
<1>6. ApartInv'
  BY <1>1, <1>5, FinishedHolds, StaysApart
<1>7. ASSUME NEW i \in Invoices, istatus'[i] # "cancelled" PROVE outstanding'[i] + Paid(i)' = Bill
  <2>1. /\ Paid(i) \in Nat /\ Paid(i)' \in Nat /\ PaidBy(r, i) \in Nat /\ PaidBy(r, i)' \in Nat
        /\ Paid(i)' + PaidBy(r, i) = Paid(i) + PaidBy(r, i)'
    BY <1>1, <1>2, <1>4, PaidMoves
  <2>2. PaidBy(r, i) = 0 /\ PaidBy(r, i)' = p[i]
    BY <1>2, <1>4 DEF PaidBy
  <2>3. outstanding[i] + Paid(i) = Bill
    BY <1>3, <1>7 DEF RowsAddUp, OutstandingIsUnpaid
  <2> QED
    BY <1>3, <2>1, <2>2, <2>3
<1>8. ASSUME NEW s \in Receipts PROVE Total(alloc'[s], Invoices) <= Amount[s]
  <2>1. s = r => Total(p, Invoices) <= Amount[r]
    BY <1>1, <1>p DEF Held, PlanCurrent, RowsAddUp, AllocationsFit
  <2> QED
    BY <1>4, <2>1 DEF RowsAddUp, AllocationsFit
<1>9. ASSUME NEW i \in Invoices, istatus'[i] = "cancelled" PROVE AllocatedTo(i)' = 0
  <2>1. istatus[i] = "cancelled" /\ p[i] = 0
    BY <1>3, <1>9
  <2>2. \A s \in Receipts : alloc[s][i] = 0
    BY <1>1, <2>1, AllocatedZero DEF RowsAddUp, AllocationsFit
  <2>3. \A s \in Receipts : alloc'[s][i] = 0
    BY <1>4, <2>1, <2>2
  <2> QED
    BY <2>3, ColumnZero DEF AllocatedTo, TypeOK
<1>10. RowsAddUp'
  BY <1>7, <1>8, <1>9 DEF RowsAddUp, OutstandingIsUnpaid, AllocationsFit
<1>11. Account!Settle(r)
  <2>1. Applied[r] = Account!None /\ Applied'[r] = p
    BY <1>2, <1>4 DEF Applied, Nothing, Account!None
  <2>2. Applied' = [Applied EXCEPT ![r] = p]
    BY <1>2, <1>4 DEF Applied
  <2>3. Billed' = Billed
    BY <1>3 DEF Billed
  <2>4. ASSUME NEW i \in Invoices PROVE p[i] <= Account!Owed(i)
    BY <1>3, OwedIsOutstanding
  <2> QED
    BY <1>2, <2>1, <2>2, <2>3, <2>4 DEF Account!Settle
<1> QED
  BY <1>p, <1>6, <1>10, <1>11

\* A cancellation gives back all that its receipt settled.
LEMMA CancelApart ==
  ASSUME RaceInv, TypeOK', ApartInv, RowsAddUp, apart, apart' = apart, NEW c \in Clients,
         CommitCancel(c)
  PROVE  ApartInv' /\ RowsAddUp' /\ Account!Undo(req[c].doc)
<1> DEFINE q == req[c]
<1>1. /\ q \in Requests /\ q.op = "cancel" /\ q.at = "paying" /\ Held(c) /\ TypeOK
      /\ AllWritten(c) /\ Install(c) /\ Finish(c)
  BY DEF RaceInv, TypeOK, ApartInv, CommitCancel, AllWritten, Walks
<1>p. PICK r \in Receipts, p \in [Invoices -> Nat] : q.doc = r /\ q.plan = p
  BY <1>1 DEF Requests, RequestsOn
<1>2. /\ r \in q.uses
      /\ \A i \in Invoices : alloc[r][i] # 0 => i \in q.uses
      /\ \A i \in Invoices : p[i] = PaidBy(r, i)
  <2>1. q.was = (rstatus[r] = "confirmed")
    BY <1>1, <1>p DEF Held, ChecksHold
  <2>2. p = (IF q.was THEN alloc[r] ELSE Nothing)
    BY <1>1, <1>p DEF Held, PlanCurrent
  <2>3. \A i \in Invoices : p[i] = PaidBy(r, i)
    BY <2>1, <2>2 DEF PaidBy, Nothing
  <2> QED
    BY <1>1, <1>p, <2>3 DEF Held, UsesCover
<1>3. \A i \in Invoices :
        /\ p[i] \in Nat /\ outstanding[i] \in Nat
        /\ p[i] # 0 => istatus[i] # "cancelled" /\ i \in q.uses
        /\ istatus'[i] = "cancelled" <=> istatus[i] = "cancelled"
        /\ outstanding'[i] = outstanding[i] + p[i]
  BY <1>1, <1>p, InstallMoves
<1>4. /\ rstatus'[r] = "cancelled" /\ alloc'[r] = Nothing
      /\ \A s \in Receipts \ {r} : rstatus'[s] = rstatus[s] /\ alloc'[s] = alloc[s]
  BY <1>1, <1>p, <1>2 DEF CommitCancel, TypeOK
<1>5. OnlyUsed(c)
  <2>1. ASSUME NEW i \in Invoices \ q.uses PROVE p[i] = 0 /\ alloc[r][i] = 0
    BY <1>2, <1>3
  <2>2. \A i \in Invoices : Nothing[i] = 0
    BY DEF Nothing
  <2> QED
    BY <1>2, <1>3, <1>4, <2>1, <2>2 DEF OnlyUsed
<1>6. ApartInv'
  BY <1>1, <1>5, FinishedHolds, StaysApart
<1>7. ASSUME NEW i \in Invoices, istatus'[i] # "cancelled" PROVE outstanding'[i] + Paid(i)' = Bill
  <2>1. /\ Paid(i) \in Nat /\ Paid(i)' \in Nat /\ PaidBy(r, i) \in Nat /\ PaidBy(r, i)' \in Nat
        /\ Paid(i)' + PaidBy(r, i) = Paid(i) + PaidBy(r, i)'
    BY <1>1, <1>2, <1>4, PaidMoves
  <2>2. PaidBy(r, i) = p[i] /\ PaidBy(r, i)' = 0
    BY <1>2, <1>4 DEF PaidBy
  <2>3. outstanding[i] + Paid(i) = Bill
    BY <1>3, <1>7 DEF RowsAddUp, OutstandingIsUnpaid
  <2> QED
    BY <1>3, <2>1, <2>2, <2>3
<1>8. ASSUME NEW s \in Receipts PROVE Total(alloc'[s], Invoices) <= Amount[s]
  <2>1. \A i \in Invoices : Nothing[i] = 0
    BY DEF Nothing
  <2>2. Total(Nothing, Invoices) = 0
    BY <2>1, TotalZero
  <2>3. 0 <= Amount[r]
    BY <1>2, RaceAssumption
  <2> QED
    BY <1>4, <2>2, <2>3 DEF RowsAddUp, AllocationsFit
<1>9. ASSUME NEW i \in Invoices, istatus'[i] = "cancelled" PROVE AllocatedTo(i)' = 0
  <2>1. istatus[i] = "cancelled"
    BY <1>3, <1>9
  <2>2. \A s \in Receipts : alloc[s][i] = 0
    BY <1>1, <2>1, AllocatedZero DEF RowsAddUp, AllocationsFit
  <2>3. \A s \in Receipts : alloc'[s][i] = 0
    BY <1>4, <2>2 DEF Nothing
  <2> QED
    BY <2>3, ColumnZero DEF AllocatedTo, TypeOK
<1>10. RowsAddUp'
  BY <1>7, <1>8, <1>9 DEF RowsAddUp, OutstandingIsUnpaid, AllocationsFit
<1>11. Account!Undo(r)
  <2>1. Applied' = [Applied EXCEPT ![r] = Account!None]
    BY <1>2, <1>4 DEF Applied, Nothing, Account!None
  <2>2. Billed' = Billed
    BY <1>3 DEF Billed
  <2> QED
    BY <2>1, <2>2 DEF Account!Undo
<1> QED
  BY <1>p, <1>6, <1>10, <1>11

\* A new allocation fits what is left of its receipt and settles nothing yet.
LEMMA AllocateApart ==
  ASSUME RaceInv, TypeOK', ApartInv, RowsAddUp, apart, apart' = apart, NEW c \in Clients,
         CommitAllocate(c)
  PROVE  ApartInv' /\ RowsAddUp' /\ UNCHANGED <<Billed, Applied>>
<1> DEFINE q == req[c]
<1>1. /\ q \in Requests /\ q.op = "allocate" /\ q.at = "paying" /\ Held(c) /\ TypeOK
      /\ Finish(c) /\ UNCHANGED <<istatus, outstanding, rstatus>>
  BY DEF RaceInv, TypeOK, ApartInv, CommitAllocate, At
<1>p. PICK r \in Receipts, p \in [Invoices -> Nat] : q.doc = r /\ q.plan = p
  BY <1>1 DEF Requests, RequestsOn
<1>2. /\ rstatus[r] = "draft" /\ r \in q.uses
      /\ \A i \in Invoices : p[i] # 0 => i \in q.uses /\ p[i] <= outstanding[i]
      /\ Total(p, Invoices) <= Remaining(r)
  BY <1>1, <1>p DEF Held, UsesCover, ChecksHold, PlanCurrent, Planned
<1>k. PICK k \in Invoices : \A j \in Invoices \ {k} : p[j] = 0
  BY <1>1, <1>p DEF Held, ChecksHold
<1>3. /\ alloc'[r] = [i \in Invoices |-> alloc[r][i] + p[i]]
      /\ \A s \in Receipts \ {r} : alloc'[s] = alloc[s]
  BY <1>1, <1>p DEF CommitAllocate, TypeOK
<1>4. \A i \in Invoices : alloc[r][i] \in Nat /\ alloc'[r][i] = alloc[r][i] + p[i]
  BY <1>1, <1>3 DEF TypeOK
<1>5. OnlyUsed(c)
  <2>1. ASSUME NEW i \in Invoices \ q.uses PROVE alloc'[r][i] = alloc[r][i]
    BY <1>2, <1>4
  <2> QED
    BY <1>1, <1>2, <1>3, <2>1 DEF OnlyUsed
<1>6. ApartInv'
  BY <1>1, <1>5, FinishedHolds, StaysApart
<1>7. OutstandingIsUnpaid'
  <2>1. \A s \in Receipts, i \in Invoices : PaidBy(s, i)' = PaidBy(s, i)
    BY <1>1, <1>2, <1>3 DEF PaidBy
  <2>2. \A i \in Invoices : Paid(i)' = Paid(i)
    BY <1>1, <2>1, PaidSame
  <2> QED
    BY <1>1, <2>2 DEF RowsAddUp, OutstandingIsUnpaid
<1>8. ASSUME NEW s \in Receipts PROVE Total(alloc'[s], Invoices) <= Amount[s]
  <2>1. CASE s = r
    <3> DEFINE f == alloc[r]
               g == alloc'[r]
    <3>1. \A i \in Invoices : f[i] \in Nat /\ g[i] \in Nat
      BY <1>4
    <3>2. \A i \in Invoices \ {k} : f[i] = g[i]
      BY <1>4, <1>k
    <3>3. g[k] = f[k] + p[k] /\ p[k] \in Nat /\ f[k] \in Nat
      BY <1>4
    <3>4. Total(p, Invoices) = p[k]
      <4>1. Total(p, Invoices) = p[k] + Total(p, Invoices \ {k})
        BY TotalSplit, RaceAssumption
      <4>2. Total(p, Invoices \ {k}) = 0
        BY <1>k, TotalZero
      <4> QED
        BY <3>3, <4>1, <4>2
    <3>5. p[k] <= Amount[r] - Total(f, Invoices) /\ Amount[r] \in Nat
      BY <1>2, <3>4, RaceAssumption DEF Remaining
    <3> HIDE DEF f, g
    <3>6. Total(f, Invoices) \in Nat /\ Total(g, Invoices) \in Nat
      BY <3>1, TotalNat, RaceAssumption
    <3>7. Total(g, Invoices) + f[k] = Total(f, Invoices) + g[k]
      BY <3>1, <3>2, TotalMoves, RaceAssumption
    <3>8. Total(g, Invoices) <= Amount[r]
      BY <3>3, <3>5, <3>6, <3>7
    <3> QED
      BY <2>1, <3>8 DEF g
  <2>2. CASE s # r
    BY <1>3, <2>2 DEF RowsAddUp, AllocationsFit
  <2> QED
    BY <2>1, <2>2
<1>9. ASSUME NEW i \in Invoices, istatus'[i] = "cancelled" PROVE AllocatedTo(i)' = 0
  <2>1. istatus[i] = "cancelled" /\ outstanding[i] = 0
    BY <1>1, <1>9 DEF RaceInv, RowsConsistent, Consistent
  <2>2. p[i] = 0
    BY <1>2, <2>1
  <2>3. \A s \in Receipts : alloc[s][i] = 0
    BY <1>1, <2>1, AllocatedZero DEF RowsAddUp, AllocationsFit
  <2>4. \A s \in Receipts : alloc'[s][i] = 0
    BY <1>3, <1>4, <2>2, <2>3
  <2> QED
    BY <2>4, ColumnZero DEF AllocatedTo, TypeOK
<1>10. RowsAddUp'
  BY <1>7, <1>8, <1>9 DEF RowsAddUp, AllocationsFit
<1>11. UNCHANGED <<Billed, Applied>>
  BY <1>1, <1>2, <1>3 DEF Billed, Applied, Nothing
<1> QED
  BY <1>6, <1>10, <1>11

\* Voiding an invoice withdraws a bill on which nothing is settled.
LEMMA VoidApart ==
  ASSUME RaceInv, TypeOK', ApartInv, RowsAddUp, apart, apart' = apart, NEW c \in Clients,
         CommitVoid(c)
  PROVE  ApartInv' /\ RowsAddUp' /\ Account!ChangeBills
<1> DEFINE q == req[c]
<1>1. /\ q \in Requests /\ q.op = "void" /\ Held(c) /\ TypeOK
      /\ Finish(c) /\ UNCHANGED <<rstatus, alloc>>
  BY DEF RaceInv, TypeOK, ApartInv, CommitVoid, At
<1>p. PICK k \in Invoices : q.doc = k
  BY <1>1 DEF Requests, RequestsOn
<1>2. k \in q.uses /\ \A s \in Receipts : alloc[s][k] = 0
  BY <1>1, <1>p DEF Held, UsesCover, ChecksHold
<1>3. /\ istatus'[k] = "cancelled" /\ outstanding'[k] = 0
      /\ \A i \in Invoices \ {k} : istatus'[i] = istatus[i] /\ outstanding'[i] = outstanding[i]
  BY <1>1, <1>p DEF CommitVoid, TypeOK
<1>4. OnlyUsed(c)
  BY <1>1, <1>2, <1>3 DEF OnlyUsed
<1>5. ApartInv'
  BY <1>1, <1>4, FinishedHolds, StaysApart
<1>6. \A i \in Invoices : Paid(i)' = Paid(i) /\ AllocatedTo(i)' = AllocatedTo(i)
  BY <1>1 DEF Paid, PaidBy, AllocatedTo
<1>7. AllocatedTo(k) = 0
  BY <1>1, <1>2, AllocatedZero
<1>8. RowsAddUp'
  BY <1>1, <1>3, <1>6, <1>7 DEF RowsAddUp, OutstandingIsUnpaid, AllocationsFit
<1>9. Account!ChangeBills
  <2>1. Billed' \in [Invoices -> Nat]
    BY RaceAssumption DEF Billed
  <2>2. Applied' = Applied
    BY <1>1 DEF Applied, Nothing
  <2>3. \A i \in Invoices \ {k} : Billed'[i] = Billed[i]
    BY <1>3 DEF Billed
  <2>4. Account!Settled(k) = 0
    <3>1. \A s \in Receipts : [t \in Receipts |-> PaidBy(t, k)][s] = 0
      BY <1>2 DEF PaidBy
    <3> QED
      BY <3>1, SettledIsPaid, TotalZero DEF Paid
  <2> QED
    BY <2>1, <2>2, <2>3, <2>4 DEF Account!ChangeBills
<1> QED
  BY <1>5, <1>8, <1>9

\* An abort leaves the rows as they were.
LEMMA AbortApart ==
  ASSUME RaceInv, ApartInv, RowsAddUp, apart, apart' = apart, NEW c \in Clients, Abort(c)
  PROVE  ApartInv' /\ RowsAddUp'
BY FinishedHolds, StatementApart DEF Abort

LEMMA InitApart == Init => ApartInv /\ RowsAddUp
<1> SUFFICES ASSUME Init PROVE ApartInv /\ RowsAddUp
  OBVIOUS
<1>1. RaceInv /\ TypeOK
  BY InitRace DEF RaceInv
<1>2. ASSUME NEW c \in Clients PROVE Held(c) /\ req[c].uses = {}
  BY Constants DEF Init, Held, UsesCover, ChecksHold, PlanCurrent, ReadCurrent, WorkCurrent,
                   Written, Idle, Nothing
<1>3. ApartInv
  BY <1>2 DEF ApartInv, Disjoint
<1>4. \A i \in Invoices : Nothing[i] = 0
  BY DEF Nothing
<1>5. ASSUME NEW i \in Invoices PROVE Paid(i) = 0
  <2>1. \A s \in Receipts : [t \in Receipts |-> PaidBy(t, i)][s] = 0
    BY DEF PaidBy, Init
  <2> QED
    BY <2>1, TotalZero DEF Paid
<1>6. Total(Nothing, Invoices) = 0
  BY <1>4, TotalZero
<1>7. OutstandingIsUnpaid
  BY <1>5, RaceAssumption DEF Init, OutstandingIsUnpaid
<1>8. AllocationsFit
  BY <1>6, RaceAssumption DEF Init, AllocationsFit
<1> QED
  BY <1>3, <1>7, <1>8 DEF RowsAddUp

\* A step of requests kept apart: the account changes only with a commit.
LEMMA StepApart ==
  ASSUME RaceInv, TypeOK', ApartInv, RowsAddUp, apart, Next
  PROVE  /\ ApartInv' /\ RowsAddUp'
         /\ Account!Next \/ UNCHANGED <<Billed, Applied>>
<1> DEFINE Good == /\ ApartInv' /\ RowsAddUp'
                   /\ Account!Next \/ UNCHANGED <<Billed, Applied>>
<1>1. PICK c \in Clients : Act(c) /\ apart' = apart
  BY DEF Next
<1>a. UNCHANGED rows => UNCHANGED <<Billed, Applied>>
  BY DEF rows, Billed, Applied, Nothing
<1>2. ASSUME \/ \E r \in Receipts :
                  \/ StartConfirm(c, r) \/ StartCancel(c, r)
                  \/ \E i \in Invoices, n \in Parts : StartAllocate(c, r, i, n)
             \/ \E i \in Invoices : StartVoid(c, i)
      PROVE  Good
  <2>1. UNCHANGED rows
    BY <1>2 DEF StartConfirm, StartCancel, StartAllocate, StartVoid, Start
  <2> QED
    BY <1>1, <1>a, <1>2, <2>1, StartApart
<1>3. ASSUME \/ ReopenReceipt(c) \/ ReadAllocations(c) \/ PlanFifo(c) \/ ReadCancelled(c)
             \/ CheckRoom(c)
      PROVE  Good
  <2>1. UNCHANGED rows
    BY <1>3 DEF ReopenReceipt, ReadAllocations, PlanFifo, ReadCancelled, CheckRoom
  <2> QED
    BY <1>1, <1>a, <1>3, <2>1, ReadApart
<1>4. ASSUME NEW i \in Invoices, ReadInvoice(c, i) \/ WriteInvoice(c, i) PROVE Good
  <2>1. UNCHANGED rows
    BY <1>4 DEF ReadInvoice, WriteInvoice
  <2> QED
    BY <1>1, <1>a, <1>4, <2>1, WalkApart
<1>5. ASSUME CommitConfirm(c) \/ CommitCancel(c) PROVE Good
  <2>1. req[c].doc \in Receipts
    BY <1>5 DEF RaceInv, TypeOK, CommitConfirm, CommitCancel, Requests, RequestsOn
  <2> QED
    BY <1>1, <1>5, <2>1, ConfirmApart, CancelApart DEF Account!Next
<1>6. ASSUME CommitAllocate(c) PROVE Good
  BY <1>1, <1>6, AllocateApart
<1>7. ASSUME CommitVoid(c) PROVE Good
  BY <1>1, <1>7, VoidApart DEF Account!Next
<1>8. ASSUME Abort(c) PROVE Good
  <2>1. UNCHANGED rows
    BY <1>8 DEF Abort
  <2> QED
    BY <1>1, <1>a, <1>8, <2>1, AbortApart
<1> QED
  BY <1>1, <1>2, <1>3, <1>4, <1>5, <1>6, <1>7, <1>8 DEF Act

\* What holds while users keep apart; without it, nothing is claimed of the sums.
ApartRaceInv == RaceInv /\ (apart => ApartInv /\ RowsAddUp)

LEMMA ApartStep == ApartRaceInv /\ RaceInv' /\ [Next]_vars => ApartRaceInv'
<1> SUFFICES ASSUME ApartRaceInv, RaceInv', [Next]_vars PROVE ApartRaceInv'
  OBVIOUS
<1>1. apart' = apart
  BY DEF Next, vars
<1>2. CASE apart /\ Next
  BY <1>1, <1>2, StepApart DEF ApartRaceInv, RaceInv
<1>3. CASE UNCHANGED vars
  BY <1>3 DEF ApartRaceInv, vars, rows, ApartInv, Disjoint, Held, UsesCover, ChecksHold,
              PlanCurrent, ReadCurrent, WorkCurrent, Written, Planned, Remaining, RowsAddUp,
              OutstandingIsUnpaid, AllocationsFit, Paid, PaidBy, AllocatedTo
<1>4. CASE ~apart
  BY <1>1, <1>4 DEF ApartRaceInv
<1> QED
  BY <1>2, <1>3, <1>4

\* ApartRaceInv is inductive.
THEOREM ApartInvariant == Spec => []ApartRaceInv
<1>1. Init => ApartRaceInv
  BY InitRace, InitApart DEF ApartRaceInv
<1> QED
  BY <1>1, ApartStep, RaceInvariant, PTL DEF Spec

\* For any number of requests, invoices and receipts: as long as requests on
\* the same documents are kept apart, an invoice owes its bill less what the
\* confirmed receipts paid, at every statement of every transaction.
THEOREM OutstandingStaysUnpaid == Spec => []OutstandingIsUnpaid
<1>1. ApartRaceInv => OutstandingIsUnpaid
  BY DEF ApartRaceInv, RowsAddUp, OutstandingIsUnpaid
<1> QED
  BY <1>1, ApartInvariant, PTL

\* Kept apart, no receipt is allocated beyond its amount, not even by a
\* first-in-first-out plan, and no invoice is voided under its allocations.
THEOREM AllocationsStayFit == Spec => []AllocationsFit
<1>1. ApartRaceInv => AllocationsFit
  BY DEF ApartRaceInv, RowsAddUp, AllocationsFit
<1> QED
  BY <1>1, ApartInvariant, PTL

\* Kept apart, transactions are atomic in the account's eyes: each commit is
\* one of its steps, and nothing before it or in an abort is.
THEOREM CommitsAreSteps == Spec => ImplementsAccount
<1>1. ApartRaceInv /\ RaceInv' /\ [Next]_vars => [apart => Account!Next]_(Account!account)
  <2> SUFFICES ASSUME ApartRaceInv, RaceInv', [Next]_vars, apart
               PROVE  Account!Next \/ UNCHANGED Account!account
    OBVIOUS
  <2>1. CASE Next
    BY <2>1, StepApart DEF ApartRaceInv, RaceInv, Account!account
  <2>2. CASE UNCHANGED vars
    BY <2>2 DEF vars, rows, Account!account, Billed, Applied, Nothing
  <2> QED
    BY <2>1, <2>2
<1> QED
  BY <1>1, ApartInvariant, RaceInvariant, PTL DEF Spec, ImplementsAccount
=======================================================================
