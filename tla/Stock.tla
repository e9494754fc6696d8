---------------------------- MODULE Stock ----------------------------
(* Inventory batches and the documents that move them: goods receipts,   *)
(* stock adjustments, supplier returns, sales returns and the loading    *)
(* sheets of dispatch trips, statement by statement.  Each posting reads *)
(* its document, opens a transaction, reads batches, and writes back     *)
(* absolute quantities with a movement row for each; only sales returns  *)
(* increment.  One product variant in one warehouse; a document has one  *)
(* item.  Quantities are in thousandths, the precision roundQty keeps.   *)
EXTENDS Money, Integers

CONSTANTS
  Clients,       \* requests in flight at most
  Rows,          \* ids of batch rows
  Rank,          \* order of the rows by expiry date, then creation
  Documents, Kind,
  Of,            \* rows a document's item may mean: those of its batch
                 \*   number, the batch it names, or all of the variant's
  Unnamed,       \* adjustments that name no batch
  Opening,       \* quantities of the rows there are at first
  Quantities,    \* quantities a user may enter
  Counts,        \* quantities a stock count may find
  Scenarios,     \* sets of documents in use, one of which is chosen
  MaxReopened, MaxPostings   \* bounds on what one document repeats

ASSUME StockAssumption ==
  /\ IsFiniteSet(Rows)
  /\ Rank \in [Rows -> Nat] /\ \A r, s \in Rows : Rank[r] = Rank[s] => r = s
  /\ Kind \in [Documents -> {"grn", "adjustment", "supplierReturn", "salesReturn", "loading"}]
  /\ Of \in [Documents -> SUBSET Rows] /\ Unnamed \subseteq Documents
  /\ \A d \in Documents : Kind[d] = "supplierReturn" => \E r \in Rows : Of[d] = {r}
  /\ DOMAIN Opening \subseteq Rows /\ \A r \in DOMAIN Opening : Opening[r] \in Nat
  /\ Quantities \subseteq Nat \ {0} /\ Counts \subseteq Nat
  /\ Scenarios \subseteq SUBSET Documents
  /\ "none" \notin Documents

VARIABLES
  apart,                      \* whether the users keep requests that touch the
                              \*   same document or batch apart; nothing makes them
  inUse,                      \* the scenario
  status, line,               \* documents and the quantity of their item: what
                              \*   it brings, or less than zero what it takes
  present, available,         \* batch rows and their available quantity
  qtyIn, qtyOut,              \* movement rows of each batch, added up
  postings, reopened,         \* how often a document moved stock, and was
                              \*   rejected after it had
  noted, dropped,             \* credit notes made for it, and how often its
                              \*   posting failed after it had made one
  returnsOn,                  \* supplier returns posted on each batch
  req                         \* what each client is doing

documents == <<status, line, postings, reopened, noted, dropped>>
batches == <<present, available, qtyIn, qtyOut, returnsOn>>
vars == <<apart, inUse, documents, batches, req>>

Status == {"absent", "draft", "approved", "posted", "rejected"}
Still == [r \in Rows |-> 0]

\* A request: what it does to which document, the quantity it read, how far
\* it is, the batch quantities it read, how it will change them, and the rows
\* it has written in its open transaction.
Request(op, d, n, at, seen, move, work) ==
  [op |-> op, doc |-> d, line |-> n, at |-> at, seen |-> seen, move |-> move, work |-> work]
Idle == Request("none", "none", 0, "idle", Still, Still, {})
Requests ==
  [op : {"none", "update", "approve", "post"}, doc : Documents \cup {"none"}, line : Int,
   at : {"idle", "begun", "moving", "noted"}, seen : [Rows -> Nat], move : [Rows -> Int], work : SUBSET Rows]

Init ==
  /\ apart \in BOOLEAN /\ inUse \in Scenarios
  /\ status = [d \in Documents |-> "absent"] /\ line = [d \in Documents |-> 0]
  /\ present = DOMAIN Opening
  /\ available = [r \in Rows |-> IF r \in DOMAIN Opening THEN Opening[r] ELSE 0]
  /\ qtyIn = available /\ qtyOut = Still
  /\ postings = [d \in Documents |-> 0] /\ reopened = [d \in Documents |-> 0]
  /\ noted = postings /\ dropped = postings
  /\ returnsOn = Still
  /\ req = [c \in Clients |-> Idle]

-----------------------------------------------------------------------
\* What the users keep to: no two requests in flight on one document, nor on
\* batches both may touch.
Meet(d, e) == d = e \/ Of[d] \cap Of[e] # {}
Clear(d) == apart => \A c \in Clients : req[c] # Idle => ~Meet(req[c].doc, d)

\* A batch can be named only when it is there.
NamesBatch(d) ==
  Kind[d] \in {"supplierReturn", "salesReturn"} \/ (Kind[d] = "adjustment" /\ d \notin Unnamed)

\* A document is entered as a draft.
Enter(d, kind, quantities) ==
  /\ Kind[d] = kind /\ status[d] = "absent" /\ d \in inUse /\ Clear(d)
  /\ NamesBatch(d) => Of[d] \cap present # {}
  /\ status' = [status EXCEPT ![d] = "draft"]
  /\ \E n \in quantities : line' = [line EXCEPT ![d] = n]
  /\ UNCHANGED <<apart, inUse, postings, reopened, noted, dropped, batches, req>>

\* An adjustment states what was counted, and stores the difference from what
\* the batches hold just then.
Differences(d) == {n - Total(available, Of[d] \cap present) : n \in Counts}
Taken == {-n : n \in Quantities}

CreateStockAdjustment(d) == Enter(d, "adjustment", Differences(d))
CreateGoodsReceipt(d) == Enter(d, "grn", Quantities)
CreateSupplierReturn(d) == Enter(d, "supplierReturn", Taken)
CreateSalesReturn(d) == Enter(d, "salesReturn", Quantities)
CreateTrip(d) == Enter(d, "loading", Taken)

\* Every other request first reads its document and checks its status; what it
\* writes, it writes later.
Begin(c, op, d, kind, states) ==
  /\ Kind[d] = kind /\ req[c] = Idle /\ Clear(d)
  /\ status[d] \in states
  /\ req' = [req EXCEPT ![c] = Request(op, d, line[d], "begun", Still, Still, {})]
  /\ UNCHANGED <<apart, inUse, documents, batches>>

UpdateStockAdjustment(c, d) == Begin(c, "update", d, "adjustment", {"draft"})
UpdateGoodsReceipt(c, d) == Begin(c, "update", d, "grn", {"draft"})
UpdateSupplierReturn(c, d) == Begin(c, "update", d, "supplierReturn", {"draft"})

ApproveStockAdjustment(c, d) == Begin(c, "approve", d, "adjustment", {"draft"})
ApproveGoodsReceipt(c, d) == Begin(c, "approve", d, "grn", {"draft", "approved"})
ApproveSupplierReturn(c, d) == Begin(c, "approve", d, "supplierReturn", {"draft"})

Repeatable(d) == postings[d] + dropped[d] < MaxPostings
\* Mutant: an adjustment that was posted is not refused.
PostStockAdjustmentAgain(c, d) ==
  Repeatable(d) /\ Begin(c, "post", d, "adjustment", {"approved", "posted"})

PostStockAdjustment(c, d) == Repeatable(d) /\ Begin(c, "post", d, "adjustment", {"approved"})
PostGoodsReceipt(c, d) == Repeatable(d) /\ Begin(c, "post", d, "grn", {"approved"})
PostSupplierReturn(c, d) == Repeatable(d) /\ Begin(c, "post", d, "supplierReturn", {"draft", "approved"})
ApproveSalesReturn(c, d) == Repeatable(d) /\ Begin(c, "post", d, "salesReturn", {"draft", "rejected"})
GenerateLoadingSheet(c, d) == Repeatable(d) /\ Begin(c, "post", d, "loading", {"draft"})

At(c, op, at) == req[c].op = op /\ req[c].at = at
Finish(c) == req' = [req EXCEPT ![c] = Idle]

CommitUpdate(c) ==
  /\ At(c, "update", "begun")
  /\ LET d == req[c].doc
         quantities == IF Kind[d] = "adjustment" THEN Differences(d)
                       ELSE IF Kind[d] = "grn" THEN Quantities ELSE Taken
     IN \E n \in quantities : line' = [line EXCEPT ![d] = n]
  /\ Finish(c)
  /\ UNCHANGED <<apart, inUse, status, postings, reopened, noted, dropped, batches>>

CommitApprove(c) ==
  /\ At(c, "approve", "begun")
  /\ status' = [status EXCEPT ![req[c].doc] = "approved"]
  /\ Finish(c)
  /\ UNCHANGED <<apart, inUse, line, postings, reopened, noted, dropped, batches>>

\* A sales return is rejected whatever its status.
RejectSalesReturn(d) ==
  /\ Kind[d] = "salesReturn" /\ status[d] # "absent" /\ Clear(d)
  /\ reopened[d] < MaxReopened
  /\ status' = [status EXCEPT ![d] = "rejected"]
  /\ reopened' = [reopened EXCEPT ![d] = IF status[d] = "posted" THEN @ + 1 ELSE @]
  /\ UNCHANGED <<apart, inUse, line, postings, noted, dropped, batches, req>>

-----------------------------------------------------------------------
\* Where what comes in goes: to the batch, or to a new row if there is none
\* yet.  Rows others are about to insert are theirs.
Inserted == UNION {req[c].work : c \in Clients}
Claimed == {r \in Rows : \E c \in Clients : req[c].move[r] # 0}
Destinations(d) ==
  LET found == IF d \in Unnamed THEN {} ELSE Of[d] \cap present
  IN IF found # {} THEN found ELSE Of[d] \ (present \cup Claimed)

\* A supplier return may ask for a thousandth more than the batch has.
Tolerance == 1

\* What goes out is taken from the batches that expire first.
TakeOldest(d, n) ==
  LET open == {r \in Of[d] \cap present : available[r] > 0}
      share == FifoShares(n, available, open, Rank)
  IN IF Total(available, open) < n THEN {} ELSE {[r \in Rows |-> -share[r]]}

\* A supplier return takes from the batch it names.
TakeNamed(d, n) == {[Still EXCEPT ![r] = -n] : r \in {s \in Of[d] \cap present : n <= available[s] + Tolerance}}
Add(d, n) == {[Still EXCEPT ![r] = n] : r \in Destinations(d)}

\* The ways to move n for document d; none, and the request is refused.
Moves(d, n) ==
  IF n = 0 THEN {Still}
  ELSE IF n > 0 THEN Add(d, n)
  ELSE IF Kind[d] = "supplierReturn" THEN TakeNamed(d, -n)
  ELSE TakeOldest(d, -n)

\* The batches are read in one query.
ReadBatches(c) ==
  /\ At(c, "post", "begun")
  /\ \E move \in Moves(req[c].doc, req[c].line) :
       req' = [req EXCEPT ![c] = [@ EXCEPT !.at = "moving", !.seen = available, !.move = move]]
  /\ UNCHANGED <<apart, inUse, documents, batches>>

\* What a request goes by once it has written r.
AsWritten(c, r) ==
  IF Kind[req[c].doc] = "salesReturn" THEN [req[c].seen EXCEPT ![r] = available[r]] ELSE req[c].seen

\* They are written one by one, oldest first.  A row another open transaction
\* has written is waited for, and then overwritten; only a sales return adds
\* to what it finds.
WriteBatch(c) ==
  /\ At(c, "post", "moving")
  /\ \E r \in Rows \ req[c].work :
       /\ req[c].move[r] # 0
       /\ \A s \in Rows : Rank[s] < Rank[r] /\ req[c].move[s] # 0 => s \in req[c].work
       /\ r \notin Inserted
       /\ req' = [req EXCEPT ![c].work = @ \cup {r}, ![c].seen = AsWritten(c, r)]
  /\ UNCHANGED <<apart, inUse, documents, batches>>

\* Mutant: a receipt overwrites what the batch held.
WrittenAfresh(c, r) ==
  LET left == req[c].seen[r] + req[c].move[r]
  IN IF left < 0 THEN 0 ELSE IF req[c].move[r] > 0 THEN req[c].move[r] ELSE left

\* What a written row holds.  Of a supplier return that took more than there
\* was, nothing is left.
Written(c, r) ==
  LET left == req[c].seen[r] + req[c].move[r] IN IF left < 0 THEN 0 ELSE left

AllWritten(c) == \A r \in Rows : req[c].move[r] # 0 => r \in req[c].work

\* The approval of a sales return makes a credit note before it commits, over a
\* connection of its own; that the note fails, or gives no credit, is passed over.
CreateCreditNote(c) ==
  /\ At(c, "post", "moving") /\ AllWritten(c)
  /\ Kind[req[c].doc] = "salesReturn"
  /\ noted' = [noted EXCEPT ![req[c].doc] = @ + 1]
  /\ req' = [req EXCEPT ![c].at = "noted"]
  /\ UNCHANGED <<apart, inUse, status, line, postings, reopened, dropped, batches>>

CommitPost(c) ==
  /\ (At(c, "post", "moving") /\ AllWritten(c)) \/ At(c, "post", "noted")
  /\ present' = present \cup req[c].work
  /\ available' = [r \in Rows |-> IF r \in req[c].work THEN Written(c, r) ELSE available[r]]
  /\ qtyIn' = [r \in Rows |-> qtyIn[r] + Excess(req[c].move[r], 0)]
  /\ qtyOut' = [r \in Rows |-> qtyOut[r] + Excess(0, req[c].move[r])]
  /\ returnsOn' = [r \in Rows |-> IF r \in req[c].work /\ Kind[req[c].doc] = "supplierReturn"
                                  THEN returnsOn[r] + 1 ELSE returnsOn[r]]
  /\ status' = [status EXCEPT ![req[c].doc] = "posted"]
  /\ postings' = [postings EXCEPT ![req[c].doc] = @ + 1]
  /\ Finish(c)
  /\ UNCHANGED <<apart, inUse, line, reopened, noted, dropped>>

\* Mutant: the rows it wrote were committed each by itself.
AbortAutocommitted(c) ==
  /\ req[c] # Idle
  /\ available' = [r \in Rows |-> IF r \in req[c].work THEN Written(c, r) ELSE available[r]]
  /\ Finish(c)
  /\ UNCHANGED <<apart, inUse, documents, present, qtyIn, qtyOut, returnsOn>>

\* A request is refused, or its transaction rolled back; a note it made stays.
Abort(c) ==
  /\ req[c] # Idle
  /\ dropped' = IF req[c].at = "noted" THEN [dropped EXCEPT ![req[c].doc] = @ + 1] ELSE dropped
  /\ Finish(c)
  /\ UNCHANGED <<apart, inUse, status, line, postings, reopened, noted, batches>>

Next ==
  \/ \E d \in Documents :
       \/ CreateStockAdjustment(d) \/ CreateGoodsReceipt(d) \/ CreateSupplierReturn(d)
       \/ CreateSalesReturn(d) \/ CreateTrip(d) \/ RejectSalesReturn(d)
  \/ \E c \in Clients, d \in Documents :
       \/ UpdateStockAdjustment(c, d) \/ UpdateGoodsReceipt(c, d) \/ UpdateSupplierReturn(c, d)
       \/ ApproveStockAdjustment(c, d) \/ ApproveGoodsReceipt(c, d) \/ ApproveSupplierReturn(c, d)
       \/ PostStockAdjustment(c, d) \/ PostGoodsReceipt(c, d) \/ PostSupplierReturn(c, d)
       \/ ApproveSalesReturn(c, d) \/ GenerateLoadingSheet(c, d)
  \/ \E c \in Clients : \/ CommitUpdate(c) \/ CommitApprove(c) \/ ReadBatches(c) \/ WriteBatch(c)
                        \/ CreateCreditNote(c) \/ CommitPost(c) \/ Abort(c)

Spec == Init /\ [][Next]_vars

-----------------------------------------------------------------------
TypeOK ==
  /\ apart \in BOOLEAN /\ inUse \in SUBSET Documents
  /\ status \in [Documents -> Status] /\ line \in [Documents -> Int]
  /\ present \in SUBSET Rows /\ available \in [Rows -> Nat] /\ qtyIn \in [Rows -> Nat] /\ qtyOut \in [Rows -> Nat]
  /\ postings \in [Documents -> Nat] /\ reopened \in [Documents -> Nat]
  /\ noted \in [Documents -> Nat] /\ dropped \in [Documents -> Nat]
  /\ returnsOn \in [Rows -> Nat]
  /\ req \in [Clients -> Requests]

\* A batch's available quantity is what its movements add up to, when requests
\* on the same batches are kept apart, but for the thousandth every supplier
\* return may have taken too much.
BatchesReconcile ==
  apart => \A r \in Rows : /\ qtyIn[r] <= available[r] + qtyOut[r]
                           /\ available[r] + qtyOut[r] <= qtyIn[r] + Tolerance * returnsOn[r]

\* However requests overlap and overwrite each other, a batch never has more
\* available than ever came in.
NoMoreThanCameIn == \A r \in Rows : available[r] <= qtyIn[r]

\* Requests on one document kept apart, it moves stock once, and once more
\* only after a sales return that had moved it was rejected; and it makes as
\* many credit notes at most, but for those of approvals that failed.
MovedOnce ==
  apart => \A d \in Documents : /\ postings[d] <= 1 + reopened[d]
                                /\ noted[d] <= 1 + reopened[d] + dropped[d]
=======================================================================
