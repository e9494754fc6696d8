-------------------------- MODULE StockProofs --------------------------
(* What holds of the batches and of the documents that move them for any  *)
(* number of clients, rows and documents: first under every interleaving, *)
(* then when requests that meet are kept apart.  Then the crates that go  *)
(* out and come back: what becomes of the entries made on a phone, for    *)
(* any number of entries, calls, requests and losses.                     *)
EXTENDS Stock, FieldEntries, MoneyTheorems, FiniteSetTheorems, TLAPS

Kinds == {"grn", "adjustment", "supplierReturn", "salesReturn", "loading"}
Moved(c) == req[c].at \in {"moving", "noted"}

\* A client rests or has a document; only a posting reads batches, and it
\* writes only rows that it is to change.
ShapeOK ==
  \A c \in Clients :
    /\ req[c] = Idle \/ (req[c].op # "none" /\ req[c].doc \in Documents)
    /\ IF Moved(c) THEN req[c].op = "post" ELSE req[c].work = {}
    /\ \A r \in req[c].work : req[c].move[r] # 0

\* What a posting has read came in some time.
SeenCameIn == \A c \in Clients : Moved(c) => \A r \in Rows : req[c].seen[r] <= qtyIn[r]

\* The actions by what they change.  No request begins on a posted document.
Entering ==
  \E d \in Documents, kind \in Kinds, quantities \in SUBSET Int : Enter(d, kind, quantities)
Beginning ==
  \E c \in Clients, d \in Documents, op \in {"update", "approve", "post"},
     kind \in Kinds, states \in SUBSET (Status \ {"posted"}) : Begin(c, op, d, kind, states)
Going(c) ==
  \/ CommitUpdate(c) \/ CommitApprove(c) \/ ReadBatches(c) \/ WriteBatch(c)
  \/ CreateCreditNote(c) \/ CommitPost(c) \/ Abort(c)

LEMMA StockConstants ==
  /\ Still \in [Rows -> Nat] /\ Still \in [Rows -> Int]
  /\ Idle \in Requests /\ Idle.op = "none" /\ Idle.at = "idle" /\ Idle.work = {}
  /\ Tolerance \in Nat
BY DEF Still, Idle, Request, Requests, Tolerance

\* An adjustment may be by any whole number.
LEMMA DifferencesTyped ==
  ASSUME TypeOK, NEW d \in Documents
  PROVE  Differences(d) \subseteq Int
<1>1. IsFiniteSet(Of[d] \cap present)
  <2>1. Of[d] \cap present \subseteq Rows
    BY DEF TypeOK
  <2> QED
    BY <2>1, StockAssumption, FS_Subset
<1> DEFINE held == Total(available, Of[d] \cap present)
<1>2. held \in Nat
  BY <1>1, TotalNat DEF TypeOK
<1>3. Counts \subseteq Nat
  BY StockAssumption
<1>4. Differences(d) = {n - held : n \in Counts}
  BY DEF Differences
<1> HIDE DEF held
<1> QED
  BY <1>2, <1>3, <1>4

LEMMA QuantitiesTyped == Quantities \subseteq Int /\ Taken \subseteq Int
BY StockAssumption DEF Taken

LEMMA StepsOfStock ==
  ASSUME TypeOK, Next
  PROVE  \/ Entering \/ Beginning
         \/ \E d \in Documents : RejectSalesReturn(d)
         \/ \E c \in Clients : Going(c)
<1>1. CASE \E d \in Documents :
             \/ CreateStockAdjustment(d) \/ CreateGoodsReceipt(d) \/ CreateSupplierReturn(d)
             \/ CreateSalesReturn(d) \/ CreateTrip(d)
  <2>1. PICK d \in Documents :
          \/ CreateStockAdjustment(d) \/ CreateGoodsReceipt(d) \/ CreateSupplierReturn(d)
          \/ CreateSalesReturn(d) \/ CreateTrip(d)
    BY <1>1
  <2>2. \E kind \in Kinds, quantities \in SUBSET Int : Enter(d, kind, quantities)
    BY <2>1, DifferencesTyped, QuantitiesTyped
       DEF Kinds, CreateStockAdjustment, CreateGoodsReceipt, CreateSupplierReturn,
           CreateSalesReturn, CreateTrip
  <2> QED
    BY <2>2 DEF Entering
<1>2. CASE \E c \in Clients, d \in Documents :
             \/ UpdateStockAdjustment(c, d) \/ UpdateGoodsReceipt(c, d) \/ UpdateSupplierReturn(c, d)
             \/ ApproveStockAdjustment(c, d) \/ ApproveGoodsReceipt(c, d) \/ ApproveSupplierReturn(c, d)
             \/ PostStockAdjustment(c, d) \/ PostGoodsReceipt(c, d) \/ PostSupplierReturn(c, d)
             \/ ApproveSalesReturn(c, d) \/ GenerateLoadingSheet(c, d)
  <2> DEFINE sets == SUBSET (Status \ {"posted"})
  <2>1. PICK c \in Clients, d \in Documents :
          \/ UpdateStockAdjustment(c, d) \/ UpdateGoodsReceipt(c, d) \/ UpdateSupplierReturn(c, d)
          \/ ApproveStockAdjustment(c, d) \/ ApproveGoodsReceipt(c, d) \/ ApproveSupplierReturn(c, d)
          \/ PostStockAdjustment(c, d) \/ PostGoodsReceipt(c, d) \/ PostSupplierReturn(c, d)
          \/ ApproveSalesReturn(c, d) \/ GenerateLoadingSheet(c, d)
    BY <1>2
  <2>2. /\ {"draft"} \in sets /\ {"approved"} \in sets
        /\ {"draft", "approved"} \in sets /\ {"draft", "rejected"} \in sets
    BY DEF Status
  <2>3. \E op \in {"update", "approve", "post"}, kind \in Kinds, states \in sets :
          Begin(c, op, d, kind, states)
    <3> HIDE DEF sets
    <3> QED
      BY <2>1, <2>2
         DEF Kinds, UpdateStockAdjustment, UpdateGoodsReceipt, UpdateSupplierReturn,
             ApproveStockAdjustment, ApproveGoodsReceipt, ApproveSupplierReturn,
             PostStockAdjustment, PostGoodsReceipt, PostSupplierReturn,
             ApproveSalesReturn, GenerateLoadingSheet
  <2> QED
    BY <2>3 DEF Beginning
<1> QED
  BY <1>1, <1>2 DEF Next, Going

\* The type invariant and the shape of the requests, action by action.
LEMMA TypedEntering ==
  ASSUME TypeOK, ShapeOK, Entering
  PROVE  TypeOK' /\ ShapeOK'
<1>1. PICK d \in Documents, kind \in Kinds, quantities \in SUBSET Int : Enter(d, kind, quantities)
  BY DEF Entering
<1>2. TypeOK'
  BY <1>1 DEF Enter, TypeOK, batches, Status
<1>3. UNCHANGED <<req, qtyIn>>
  BY <1>1 DEF Enter, batches
<1> QED
  BY <1>2, <1>3 DEF ShapeOK, Moved

LEMMA TypedBeginning ==
  ASSUME TypeOK, ShapeOK, Beginning
  PROVE  TypeOK' /\ ShapeOK'
<1>1. PICK c \in Clients, d \in Documents, op \in {"update", "approve", "post"},
          kind \in Kinds, states \in SUBSET (Status \ {"posted"}) : Begin(c, op, d, kind, states)
  BY DEF Beginning
<1> DEFINE r == Request(op, d, line[d], "begun", Still, Still, {})
<1>2. req' = [req EXCEPT ![c] = r]
  BY <1>1 DEF Begin
<1>3. r \in Requests
  BY StockConstants DEF TypeOK, Requests, Request
<1>4. TypeOK'
  BY <1>1, <1>2, <1>3 DEF Begin, TypeOK, documents, batches
<1>5. r.op # "none" /\ r.doc \in Documents /\ r.at = "begun" /\ r.work = {}
  BY DEF Request
<1> HIDE DEF r
<1>6. ShapeOK'
  BY <1>2, <1>5 DEF ShapeOK, TypeOK, Moved
<1> QED
  BY <1>4, <1>6

LEMMA TypedRejecting ==
  ASSUME TypeOK, ShapeOK, NEW d \in Documents, RejectSalesReturn(d)
  PROVE  TypeOK' /\ ShapeOK'
<1>1. TypeOK'
  BY DEF RejectSalesReturn, TypeOK, batches, Status
<1>2. UNCHANGED req
  BY DEF RejectSalesReturn
<1> QED
  BY <1>1, <1>2 DEF ShapeOK, Moved

\* A client that has come to rest.
LEMMA ShapeOfFinished ==
  ASSUME TypeOK, ShapeOK, NEW c \in Clients, Finish(c)
  PROVE  ShapeOK' /\ req' \in [Clients -> Requests]
<1> USE StockConstants
<1>1. req' = [req EXCEPT ![c] = Idle]
  BY DEF Finish
<1> QED
  BY <1>1 DEF ShapeOK, TypeOK, Moved

\* How a document may move n: it changes only its own rows, and takes no more
\* than there is, but for the thousandth of a supplier return.
Fits(d, move) ==
  /\ move \in [Rows -> Int]
  /\ \A r \in Rows : move[r] # 0 => r \in Of[d]
  /\ \A r \in Rows : /\ available[r] + move[r] + Tolerance >= 0
                     /\ Kind[d] # "supplierReturn" => available[r] + move[r] >= 0

LEMMA OldestFits ==
  ASSUME TypeOK, NEW d \in Documents, NEW n \in Nat, NEW move \in TakeOldest(d, n)
  PROVE  Fits(d, move)
<1> DEFINE open == {r \in Of[d] \cap present : available[r] > 0}
           share == FifoShares(n, available, open, Rank)
<1>1. IsFiniteSet(Rows) /\ DOMAIN available = Rows /\ \A r \in Rows : available[r] \in Nat
  BY StockAssumption DEF TypeOK
<1>2. open \in SUBSET Rows
  BY DEF TypeOK
<1>3. share \in [Rows -> Nat] /\ \A r \in Rows : share[r] <= available[r]
  <2> HIDE DEF open
  <2> QED
    BY <1>1, <1>2, FifoTyped
<1>4. \A r \in Rows : r \notin open => share[r] = 0
  BY <1>1 DEF FifoShares
<1>5. move = [r \in Rows |-> -share[r]]
  BY DEF TakeOldest
<1>6. \A r \in open : r \in Of[d]
  OBVIOUS
<1> HIDE DEF open, share
<1> QED
  BY <1>1, <1>3, <1>4, <1>5, <1>6, StockConstants DEF Fits

LEMMA MovesFit ==
  ASSUME TypeOK, NEW d \in Documents, NEW n \in Int, NEW move \in Moves(d, n)
  PROVE  Fits(d, move)
<1>1. CASE n = 0
  BY <1>1, StockConstants DEF Moves, Still, Fits, TypeOK
<1>2. CASE n > 0
  <2>1. PICK r \in Destinations(d) : move = [Still EXCEPT ![r] = n]
    BY <1>2 DEF Moves, Add
  <2>2. r \in Of[d] /\ r \in Rows
    BY StockAssumption DEF Destinations
  <2> QED
    BY <1>2, <2>1, <2>2, StockConstants DEF Still, Fits, TypeOK
<1>3. CASE n < 0 /\ Kind[d] = "supplierReturn"
  <2>1. PICK r \in Of[d] \cap present : -n <= available[r] + Tolerance /\ move = [Still EXCEPT ![r] = -(-n)]
    BY <1>3 DEF Moves, TakeNamed
  <2>2. r \in Rows
    BY <2>1 DEF TypeOK
  <2> QED
    BY <1>3, <2>1, <2>2, StockConstants DEF Still, Fits, TypeOK
<1>4. CASE n < 0 /\ Kind[d] # "supplierReturn"
  <2>1. move \in TakeOldest(d, -n) /\ -n \in Nat
    BY <1>4 DEF Moves
  <2> QED
    BY <2>1, OldestFits
<1> QED
  BY <1>1, <1>2, <1>3, <1>4

LEMMA TypedReading ==
  ASSUME TypeOK, ShapeOK, NEW c \in Clients, ReadBatches(c)
  PROVE  TypeOK' /\ ShapeOK'
<1>1. PICK move \in Moves(req[c].doc, req[c].line) :
        req' = [req EXCEPT ![c] = [@ EXCEPT !.at = "moving", !.seen = available, !.move = move]]
  BY DEF ReadBatches
<1>2. req[c].op = "post" /\ req[c].at = "begun" /\ req[c].doc \in Documents /\ req[c].line \in Int
  BY StockConstants DEF ReadBatches, At, ShapeOK, TypeOK, Requests
<1>3. move \in [Rows -> Int]
  BY <1>1, <1>2, MovesFit DEF Fits
<1> DEFINE new == [req[c] EXCEPT !.at = "moving", !.seen = available, !.move = move]
<1>4. /\ new \in Requests /\ new.op = "post" /\ new.doc = req[c].doc
      /\ new.at = "moving" /\ new.work = {}
  BY <1>2, <1>3 DEF TypeOK, Requests, ShapeOK, Moved
<1>5. req' = [req EXCEPT ![c] = new]
  BY <1>1
<1> HIDE DEF new
<1>6. TypeOK'
  BY <1>4, <1>5 DEF ReadBatches, TypeOK, documents, batches
<1>7. ShapeOK'
  BY <1>2, <1>4, <1>5 DEF ShapeOK, TypeOK, Moved
<1> QED
  BY <1>6, <1>7

LEMMA TypedWriting ==
  ASSUME TypeOK, ShapeOK, NEW c \in Clients, WriteBatch(c)
  PROVE  TypeOK' /\ ShapeOK'
<1>1. PICK r \in Rows :
        /\ req[c].move[r] # 0
        /\ req' = [req EXCEPT ![c].work = @ \cup {r}, ![c].seen = AsWritten(c, r)]
  BY DEF WriteBatch
<1> DEFINE new == [req[c] EXCEPT !.work = @ \cup {r}, !.seen = AsWritten(c, r)]
<1>2. req[c].op = "post" /\ req[c].at = "moving" /\ req[c].doc \in Documents
  BY StockConstants DEF WriteBatch, At, ShapeOK
<1>3. req[c] \in Requests
  BY DEF TypeOK
<1>4. AsWritten(c, r) \in [Rows -> Nat]
  BY <1>3 DEF TypeOK, Requests, AsWritten
<1>5. req' = [req EXCEPT ![c] = new]
  BY <1>1
<1>6. /\ new \in Requests /\ new.op = "post" /\ new.doc = req[c].doc /\ new.at = "moving"
      /\ new.move = req[c].move /\ new.work = req[c].work \cup {r}
  BY <1>2, <1>3, <1>4 DEF Requests
<1> HIDE DEF new
<1>7. TypeOK'
  BY <1>5, <1>6 DEF WriteBatch, TypeOK, documents, batches
<1>8. req'[c] = new /\ \A e \in Clients : e # c => req'[e] = req[e]
  BY <1>5 DEF TypeOK
<1>9. \A s \in new.work : new.move[s] # 0
  BY <1>1, <1>6 DEF ShapeOK
<1>10. ShapeOK'
  BY <1>2, <1>6, <1>8, <1>9 DEF ShapeOK, Moved
<1> QED
  BY <1>7, <1>10

LEMMA TypedNoting ==
  ASSUME TypeOK, ShapeOK, NEW c \in Clients, CreateCreditNote(c)
  PROVE  TypeOK' /\ ShapeOK'
<1>1. /\ req[c].op = "post" /\ req[c].doc \in Documents /\ Moved(c)
      /\ req' = [req EXCEPT ![c].at = "noted"]
  BY StockConstants DEF CreateCreditNote, At, ShapeOK, Moved
<1>2. noted' \in [Documents -> Nat]
  BY <1>1 DEF CreateCreditNote, TypeOK
<1>3. req' \in [Clients -> Requests]
  <2> DEFINE new == [req[c] EXCEPT !.at = "noted"]
  <2>1. new \in Requests
    BY DEF TypeOK, Requests
  <2>2. req' = [req EXCEPT ![c] = new]
    BY <1>1
  <2> HIDE DEF new
  <2> QED
    BY <2>1, <2>2 DEF TypeOK
<1>4. TypeOK'
  BY <1>2, <1>3 DEF CreateCreditNote, TypeOK, batches
<1>5. ShapeOK'
  BY <1>1 DEF ShapeOK, TypeOK, Requests, Moved
<1> QED
  BY <1>4, <1>5

LEMMA TypedCommitting ==
  ASSUME TypeOK, ShapeOK, NEW c \in Clients, CommitPost(c)
  PROVE  TypeOK' /\ ShapeOK'
<1>1. req[c].op = "post" /\ req[c].doc \in Documents /\ req[c] \in Requests
  BY StockConstants DEF CommitPost, At, ShapeOK, TypeOK
<1>2. Finish(c)
  BY DEF CommitPost
<1>3. ShapeOK' /\ req' \in [Clients -> Requests]
  BY <1>2, ShapeOfFinished
<1>4. \A r \in Rows : Written(c, r) \in Nat
  BY <1>1 DEF Written, Requests
<1>5. available' \in [Rows -> Nat]
  BY <1>4 DEF CommitPost, TypeOK
<1>6. \A r \in Rows : Excess(req[c].move[r], 0) \in Nat /\ Excess(0, req[c].move[r]) \in Nat
  BY <1>1 DEF Excess, Requests
<1>7. qtyIn' \in [Rows -> Nat] /\ qtyOut' \in [Rows -> Nat]
  BY <1>6 DEF CommitPost, TypeOK
<1>8. returnsOn' \in [Rows -> Nat]
  BY DEF CommitPost, TypeOK
<1>9. present' \in SUBSET Rows
  BY <1>1 DEF CommitPost, TypeOK, Requests
<1>10. status' \in [Documents -> Status] /\ postings' \in [Documents -> Nat]
  BY <1>1 DEF CommitPost, TypeOK, Status
<1> QED
  BY <1>3, <1>5, <1>7, <1>8, <1>9, <1>10 DEF CommitPost, TypeOK

LEMMA TypedFinishing ==
  ASSUME TypeOK, ShapeOK, NEW c \in Clients, CommitUpdate(c) \/ CommitApprove(c) \/ Abort(c)
  PROVE  TypeOK' /\ ShapeOK'
<1>1. Finish(c)
  BY DEF CommitUpdate, CommitApprove, Abort
<1>2. ShapeOK' /\ req' \in [Clients -> Requests]
  BY <1>1, ShapeOfFinished
<1>3. CASE CommitUpdate(c)
  <2>1. req[c].doc \in Documents
    BY <1>3, StockConstants DEF CommitUpdate, At, ShapeOK
  <2>2. line' \in [Documents -> Int]
    BY <1>3, <2>1, DifferencesTyped, QuantitiesTyped DEF CommitUpdate, TypeOK
  <2> QED
    BY <1>2, <1>3, <2>2 DEF CommitUpdate, TypeOK, batches
<1>4. CASE CommitApprove(c)
  BY <1>2, <1>4 DEF CommitApprove, TypeOK, batches, Status
<1>5. CASE Abort(c)
  <2>1. req[c].doc \in Documents
    BY <1>5 DEF Abort, ShapeOK
  <2>2. [dropped EXCEPT ![req[c].doc] = @ + 1] \in [Documents -> Nat]
    BY <2>1 DEF TypeOK
  <2>3. dropped' \in [Documents -> Nat]
    BY <1>5, <2>2 DEF Abort, TypeOK
  <2> QED
    BY <1>2, <1>5, <2>3 DEF Abort, TypeOK, batches
<1> QED
  BY <1>3, <1>4, <1>5

LEMMA TypedStep ==
  ASSUME TypeOK, ShapeOK, [Next]_vars
  PROVE  TypeOK' /\ ShapeOK'
<1>1. CASE UNCHANGED vars
  BY <1>1 DEF vars, documents, batches, TypeOK, ShapeOK, Moved
<1>2. CASE Entering
  BY <1>2, TypedEntering
<1>3. CASE Beginning
  BY <1>3, TypedBeginning
<1>4. ASSUME NEW d \in Documents, RejectSalesReturn(d) PROVE TypeOK' /\ ShapeOK'
  BY <1>4, TypedRejecting
<1>5. ASSUME NEW c \in Clients, Going(c) PROVE TypeOK' /\ ShapeOK'
  BY <1>5, TypedReading, TypedWriting, TypedNoting, TypedCommitting, TypedFinishing DEF Going
<1> QED
  BY <1>1, <1>2, <1>3, <1>4, <1>5, StepsOfStock

LEMMA InitOfStock ==
  ASSUME Init
  PROVE  TypeOK /\ ShapeOK
<1> USE StockConstants
<1>1. available \in [Rows -> Nat] /\ present \in SUBSET Rows
  BY StockAssumption DEF Init
<1>2. \A c \in Clients : req[c] = Idle /\ ~Moved(c)
  BY DEF Init, Moved
<1>3. ShapeOK
  BY <1>2 DEF ShapeOK
<1>4. inUse \in SUBSET Documents
  BY StockAssumption DEF Init
<1> QED
  BY <1>1, <1>3, <1>4 DEF Init, TypeOK, Status

\* Every row, document and request keeps its kind; in particular no batch ever
\* holds less than nothing.
THEOREM StockTypeCorrect == Spec => []TypeOK
<1>1. Init => TypeOK /\ ShapeOK
  BY InitOfStock
<1>2. TypeOK /\ ShapeOK /\ [Next]_vars => (TypeOK /\ ShapeOK)'
  BY TypedStep
<1> QED
  BY <1>1, <1>2, PTL DEF Spec

-----------------------------------------------------------------------
\* Every interleaving: what a request has read, and so what it writes, came in.

CameInInv == TypeOK /\ ShapeOK /\ SeenCameIn /\ NoMoreThanCameIn

\* Nothing moves, and what is read is there now.
LEMMA CameInQuietly ==
  ASSUME CameInInv, TypeOK', UNCHANGED <<available, qtyIn>>,
         \A c \in Clients : Moved(c)' =>
           \/ Moved(c) /\ req'[c].seen = req[c].seen
           \/ \A r \in Rows : req'[c].seen[r] <= qtyIn[r]
  PROVE  SeenCameIn' /\ NoMoreThanCameIn'
BY DEF CameInInv, SeenCameIn, NoMoreThanCameIn

LEMMA CameInCommitting ==
  ASSUME CameInInv, NEW c \in Clients, CommitPost(c), TypeOK'
  PROVE  SeenCameIn' /\ NoMoreThanCameIn'
<1>1. req[c] \in Requests /\ Moved(c)
  BY DEF CameInInv, TypeOK, CommitPost, At, Moved
<1>2. \A r \in Rows : /\ req[c].move[r] \in Int /\ req[c].seen[r] \in Nat
                      /\ req[c].seen[r] <= qtyIn[r] /\ qtyIn[r] \in Nat
                      /\ available[r] \in Nat /\ available[r] <= qtyIn[r]
  BY <1>1 DEF Requests, CameInInv, TypeOK, SeenCameIn, NoMoreThanCameIn
<1>3. \A r \in Rows : qtyIn'[r] = qtyIn[r] + Excess(req[c].move[r], 0)
  BY DEF CommitPost
<1>4. \A r \in Rows : /\ qtyIn[r] <= qtyIn'[r]
                      /\ Written(c, r) <= qtyIn'[r]
  BY <1>2, <1>3 DEF Excess, Written
<1>5. \A r \in Rows : available'[r] \in {available[r], Written(c, r)}
  BY DEF CommitPost
<1>6. NoMoreThanCameIn'
  BY <1>2, <1>4, <1>5 DEF NoMoreThanCameIn, TypeOK
<1>7. req' = [req EXCEPT ![c] = Idle]
  BY DEF CommitPost, Finish
<1>8. ASSUME NEW e \in Clients, Moved(e)', NEW r \in Rows PROVE req'[e].seen[r] <= qtyIn'[r]
  <2>1. e # c /\ req'[e] = req[e]
    BY <1>7, <1>8, StockConstants DEF CameInInv, TypeOK, Moved
  <2>2. req[e].seen[r] \in Nat /\ req[e].seen[r] <= qtyIn[r]
    BY <1>8, <2>1 DEF CameInInv, TypeOK, Requests, SeenCameIn, Moved
  <2> QED
    BY <1>2, <1>4, <2>1, <2>2 DEF TypeOK
<1> QED
  BY <1>6, <1>8 DEF SeenCameIn, Moved

LEMMA CameInStep ==
  ASSUME CameInInv, [Next]_vars
  PROVE  CameInInv'
<1>1. TypeOK' /\ ShapeOK'
  BY TypedStep DEF CameInInv
<1> SUFFICES SeenCameIn' /\ NoMoreThanCameIn'
  BY <1>1 DEF CameInInv
<1>2. CASE UNCHANGED vars
  BY <1>1, <1>2, CameInQuietly DEF vars, batches, Moved
<1>3. CASE Entering \/ \E d \in Documents : RejectSalesReturn(d)
  <2>1. UNCHANGED <<req, batches>>
    BY <1>3 DEF Entering, Enter, RejectSalesReturn
  <2> QED
    BY <1>1, <2>1, CameInQuietly DEF batches, Moved
<1>4. CASE Beginning
  <2>1. PICK c \in Clients, d \in Documents, op \in {"update", "approve", "post"},
            kind \in Kinds, states \in SUBSET (Status \ {"posted"}) : Begin(c, op, d, kind, states)
    BY <1>4 DEF Beginning
  <2> DEFINE r == Request(op, d, line[d], "begun", Still, Still, {})
  <2>2. req' = [req EXCEPT ![c] = r] /\ UNCHANGED <<available, qtyIn>>
    BY <2>1 DEF Begin, batches
  <2>3. r.at = "begun"
    BY DEF Request
  <2> HIDE DEF r
  <2> QED
    BY <1>1, <2>2, <2>3, CameInQuietly DEF Moved, CameInInv, TypeOK
<1>5. ASSUME NEW c \in Clients, Going(c) PROVE SeenCameIn' /\ NoMoreThanCameIn'
  <2>1. CASE CommitUpdate(c) \/ CommitApprove(c) \/ Abort(c)
    <3>1. req' = [req EXCEPT ![c] = Idle] /\ UNCHANGED <<available, qtyIn>>
      BY <2>1 DEF CommitUpdate, CommitApprove, Abort, Finish, batches
    <3> QED
      BY <1>1, <3>1, CameInQuietly, StockConstants DEF Moved, CameInInv, TypeOK
  <2>2. CASE ReadBatches(c)
    <3>1. PICK move \in Moves(req[c].doc, req[c].line) :
            req' = [req EXCEPT ![c] = [@ EXCEPT !.at = "moving", !.seen = available, !.move = move]]
      BY <2>2 DEF ReadBatches
    <3>2. req'[c].seen = available /\ \A e \in Clients : e # c => req'[e] = req[e]
      BY <3>1 DEF CameInInv, TypeOK, Requests
    <3>3. UNCHANGED <<available, qtyIn>>
      BY <2>2 DEF ReadBatches, batches
    <3> QED
      BY <1>1, <3>2, <3>3, CameInQuietly DEF Moved, CameInInv, NoMoreThanCameIn
  <2>3. CASE WriteBatch(c)
    <3>1. PICK r \in Rows :
            req' = [req EXCEPT ![c].work = @ \cup {r}, ![c].seen = AsWritten(c, r)]
      BY <2>3 DEF WriteBatch
    <3>2. req'[c].seen = AsWritten(c, r) /\ \A e \in Clients : e # c => req'[e] = req[e]
      BY <3>1 DEF CameInInv, TypeOK, Requests
    <3>3. UNCHANGED <<available, qtyIn>>
      BY <2>3 DEF WriteBatch, batches
    <3>4. Moved(c)
      BY <2>3 DEF WriteBatch, At, Moved
    <3>5. \A s \in Rows : AsWritten(c, r)[s] <= qtyIn[s]
      BY <3>4 DEF AsWritten, CameInInv, SeenCameIn, NoMoreThanCameIn, TypeOK, Requests
    <3> QED
      BY <1>1, <3>2, <3>3, <3>5, CameInQuietly DEF Moved
  <2>4. CASE CreateCreditNote(c)
    <3>1. req' = [req EXCEPT ![c].at = "noted"] /\ UNCHANGED <<available, qtyIn>> /\ Moved(c)
      BY <2>4 DEF CreateCreditNote, batches, At, Moved
    <3>2. req'[c].seen = req[c].seen /\ \A e \in Clients : e # c => req'[e] = req[e]
      BY <3>1 DEF CameInInv, TypeOK, Requests
    <3> QED
      BY <1>1, <3>1, <3>2, CameInQuietly DEF Moved
  <2>5. CASE CommitPost(c)
    BY <1>1, <2>5, CameInCommitting
  <2> QED
    BY <1>5, <2>1, <2>2, <2>3, <2>4, <2>5 DEF Going
<1> QED
  BY <1>2, <1>3, <1>4, <1>5, StepsOfStock DEF CameInInv

\* However any number of requests overlap and overwrite each other's batches, and
\* whichever are rolled back, a batch never has more available than came in.
THEOREM NothingFromNowhere == Spec => []NoMoreThanCameIn
<1>1. Init => CameInInv
  <2> SUFFICES ASSUME Init PROVE CameInInv
    OBVIOUS
  <2>1. TypeOK /\ ShapeOK
    BY InitOfStock
  <2>2. SeenCameIn
    BY StockConstants DEF Init, SeenCameIn, Moved
  <2>3. NoMoreThanCameIn
    BY <2>1 DEF Init, NoMoreThanCameIn, TypeOK
  <2> QED
    BY <2>1, <2>2, <2>3 DEF CameInInv
<1>2. CameInInv /\ [Next]_vars => CameInInv'
  BY CameInStep
<1>3. CameInInv => NoMoreThanCameIn
  BY DEF CameInInv
<1> QED
  BY <1>1, <1>2, <1>3, PTL DEF Spec

-----------------------------------------------------------------------
\* Requests that meet kept apart.

Busy(c) == req[c].op # "none"

\* No two requests in flight are on one document or on batches of both.
Separate ==
  apart => \A c, e \in Clients : c # e /\ Busy(c) /\ Busy(e) => ~Meet(req[c].doc, req[e].doc)

\* A posting still reads right: what it has read of its document's batches is
\* there, and what it will take fits.
Kept(c) ==
  Moved(c) => /\ Fits(req[c].doc, req[c].move)
              /\ \A r \in Of[req[c].doc] : req[c].seen[r] = available[r]
AllKept == apart => \A c \in Clients : Kept(c)

\* Once it has made its credit note, a posting has written all its batches.
NotedHasWritten == \A c \in Clients : req[c].at = "noted" => AllWritten(c)

ApartInv == TypeOK /\ ShapeOK /\ Separate /\ AllKept /\ NotedHasWritten

\* A request that goes on keeps its document or rests; the others do not notice.
LEMMA GoingOn ==
  ASSUME TypeOK, NEW c \in Clients, Going(c)
  PROVE  /\ \A e \in Clients : e # c => req'[e] = req[e]
         /\ Busy(c)' => Busy(c) /\ req'[c].doc = req[c].doc
         /\ apart' = apart
<1>1. CASE CommitUpdate(c) \/ CommitApprove(c) \/ Abort(c) \/ CommitPost(c)
  <2>1. req' = [req EXCEPT ![c] = Idle] /\ apart' = apart
    BY <1>1 DEF CommitUpdate, CommitApprove, Abort, CommitPost, Finish
  <2> QED
    BY <2>1, StockConstants DEF TypeOK, Busy
<1>2. CASE ReadBatches(c)
  <2>1. PICK move \in Moves(req[c].doc, req[c].line) :
          req' = [req EXCEPT ![c] = [@ EXCEPT !.at = "moving", !.seen = available, !.move = move]]
    BY <1>2 DEF ReadBatches
  <2>2. apart' = apart
    BY <1>2 DEF ReadBatches
  <2> QED
    BY <2>1, <2>2 DEF TypeOK, Requests, Busy
<1>3. CASE WriteBatch(c)
  <2>1. PICK r \in Rows :
          req' = [req EXCEPT ![c].work = @ \cup {r}, ![c].seen = AsWritten(c, r)]
    BY <1>3 DEF WriteBatch
  <2>2. apart' = apart
    BY <1>3 DEF WriteBatch
  <2> QED
    BY <2>1, <2>2 DEF TypeOK, Requests, Busy
<1>4. CASE CreateCreditNote(c)
  <2>1. req' = [req EXCEPT ![c].at = "noted"] /\ apart' = apart
    BY <1>4 DEF CreateCreditNote
  <2> QED
    BY <2>1 DEF TypeOK, Requests, Busy
<1> QED
  BY <1>1, <1>2, <1>3, <1>4 DEF Going

\* What a request that begins is, and whom it meets.
LEMMA BeginningOn ==
  ASSUME TypeOK, ShapeOK, Beginning
  PROVE  \E c \in Clients :
           /\ \A e \in Clients : e # c => req'[e] = req[e]
           /\ ~Busy(c) /\ req'[c].at = "begun" /\ req'[c].doc \in Documents
           /\ status[req'[c].doc] # "posted"
           /\ apart => \A e \in Clients : e # c /\ Busy(e) => ~Meet(req[e].doc, req'[c].doc)
           /\ UNCHANGED <<apart, inUse, documents, batches>>
<1>1. PICK c \in Clients, d \in Documents, op \in {"update", "approve", "post"},
          kind \in Kinds, states \in SUBSET (Status \ {"posted"}) : Begin(c, op, d, kind, states)
  BY DEF Beginning
<1> DEFINE r == Request(op, d, line[d], "begun", Still, Still, {})
<1>2. req' = [req EXCEPT ![c] = r] /\ UNCHANGED <<apart, inUse, documents, batches>>
  BY <1>1 DEF Begin
<1>3. r.at = "begun" /\ r.doc = d
  BY DEF Request
<1>4. req[c] = Idle /\ status[d] # "posted"
  BY <1>1 DEF Begin
<1>5. apart => \A e \in Clients : Busy(e) => ~Meet(req[e].doc, d)
  <2>1. \A e \in Clients : Busy(e) => req[e] # Idle
    BY StockConstants DEF Busy
  <2> QED
    BY <1>1, <2>1 DEF Begin, Clear
<1> HIDE DEF r
<1> QED
  BY <1>2, <1>3, <1>4, <1>5, StockConstants DEF TypeOK, Busy

LEMMA SeparateStep ==
  ASSUME TypeOK, ShapeOK, Separate, [Next]_vars
  PROVE  Separate'
<1>1. CASE UNCHANGED vars
  BY <1>1 DEF vars, Separate, Busy
<1>2. CASE Entering \/ \E d \in Documents : RejectSalesReturn(d)
  <2>1. UNCHANGED <<req, apart>>
    BY <1>2 DEF Entering, Enter, RejectSalesReturn
  <2> QED
    BY <2>1 DEF Separate, Busy
<1>3. CASE Beginning
  <2>1. PICK c \in Clients :
           /\ \A e \in Clients : e # c => req'[e] = req[e]
           /\ apart => \A e \in Clients : e # c /\ Busy(e) => ~Meet(req[e].doc, req'[c].doc)
           /\ apart' = apart
    BY <1>3, BeginningOn
  <2>2. \A d, e : Meet(d, e) <=> Meet(e, d)
    BY DEF Meet
  <2> QED
    BY <2>1, <2>2 DEF Separate, Busy
<1>4. ASSUME NEW c \in Clients, Going(c) PROVE Separate'
  BY <1>4, GoingOn DEF Separate, Busy
<1> QED
  BY <1>1, <1>2, <1>3, <1>4, StepsOfStock

\* A commit changes only rows of its own document, all of which it has written.
LEMMA CommitsItsOwn ==
  ASSUME ApartInv, apart, NEW c \in Clients, CommitPost(c)
  PROVE  /\ Moved(c) /\ Busy(c) /\ Kept(c) /\ AllWritten(c) /\ req[c] \in Requests
         /\ \A r \in Rows : r \in req[c].work <=> req[c].move[r] # 0
         /\ \A r \in Rows : req[c].move[r] # 0 => r \in Of[req[c].doc]
         /\ req[c].doc \in Documents
<1>1. Moved(c) /\ Busy(c) /\ AllWritten(c)
  BY DEF CommitPost, At, Moved, Busy, ApartInv, NotedHasWritten
<1>2. Kept(c) /\ req[c] \in Requests
  BY DEF ApartInv, AllKept, TypeOK
<1>3. req[c].work \subseteq Rows
  BY <1>2 DEF Requests
<1>4. req[c].doc \in Documents
  BY <1>1, StockConstants DEF ApartInv, ShapeOK, Busy
<1> QED
  BY <1>1, <1>2, <1>3, <1>4 DEF Kept, Fits, AllWritten, ApartInv, ShapeOK

\* Nothing is committed: who read right still does.
LEMMA KeptQuietly ==
  ASSUME ApartInv, UNCHANGED <<apart, available>>,
         \A e \in Clients : Moved(e)' =>
           \/ Kept(e)'
           \/ /\ Moved(e) /\ req'[e].doc = req[e].doc /\ req'[e].move = req[e].move
              /\ \A r \in Of[req[e].doc] : req'[e].seen[r] \in {req[e].seen[r], available[r]}
  PROVE  AllKept'
BY DEF ApartInv, AllKept, Kept, Moved, Fits

LEMMA KeptCommitting ==
  ASSUME ApartInv, NEW c \in Clients, CommitPost(c), TypeOK'
  PROVE  AllKept'
<1> SUFFICES ASSUME apart', NEW e \in Clients, Moved(e)'
             PROVE  /\ Fits(req[e].doc, req[e].move)'
                    /\ \A r \in Of[req'[e].doc] : req'[e].seen[r] = available'[r]
  BY DEF AllKept, Kept
<1>1. apart /\ req' = [req EXCEPT ![c] = Idle]
  BY DEF CommitPost, Finish
<1>2. e # c /\ req'[e] = req[e]
  BY <1>1, StockConstants DEF ApartInv, TypeOK, Moved
<1>3. Moved(e) /\ Busy(e) /\ Kept(e)
  BY <1>1, <1>2 DEF Moved, ApartInv, ShapeOK, Busy, AllKept
<1>4. /\ \A r \in Rows : r \in req[c].work => r \in Of[req[c].doc]
      /\ Busy(c)
  BY <1>1, CommitsItsOwn
<1>5. Of[req[c].doc] \cap Of[req[e].doc] = {}
  BY <1>1, <1>2, <1>3, <1>4 DEF ApartInv, Separate, Meet
<1>6. req[e].doc \in Documents /\ Of[req[e].doc] \subseteq Rows
  BY <1>3, StockConstants, StockAssumption DEF ApartInv, ShapeOK, Busy
<1>7. \A r \in Of[req[e].doc] : available'[r] = available[r]
  BY <1>4, <1>5, <1>6 DEF CommitPost
<1>8. \A r \in Rows : r \notin Of[req[e].doc] => req[e].move[r] = 0
  BY <1>3 DEF Kept, Fits
<1>9. \A r \in Rows : available'[r] \in Nat
  BY DEF TypeOK
<1>10. Fits(req[e].doc, req[e].move)'
  BY <1>2, <1>3, <1>7, <1>8, <1>9, StockConstants DEF Kept, Fits
<1> QED
  BY <1>2, <1>3, <1>6, <1>7, <1>10 DEF Kept

LEMMA ApartStep ==
  ASSUME ApartInv, [Next]_vars
  PROVE  ApartInv'
<1> USE DEF ApartInv
<1>1. TypeOK' /\ ShapeOK' /\ Separate'
  BY TypedStep, SeparateStep
<1> SUFFICES AllKept' /\ NotedHasWritten'
  BY <1>1
<1>2. CASE UNCHANGED <<req, apart, available>>
  <2>1. AllKept'
    BY <1>2, KeptQuietly DEF Moved
  <2> QED
    BY <1>2, <2>1 DEF NotedHasWritten, AllWritten
<1>3. CASE Beginning
  <2>1. PICK c \in Clients :
           /\ \A e \in Clients : e # c => req'[e] = req[e]
           /\ req'[c].at = "begun" /\ UNCHANGED <<apart, batches>>
    BY <1>3, BeginningOn
  <2>2. AllKept'
    BY <2>1, KeptQuietly DEF Moved, batches
  <2> QED
    BY <2>1, <2>2 DEF NotedHasWritten, AllWritten
<1>4. ASSUME NEW c \in Clients, Going(c) PROVE AllKept' /\ NotedHasWritten'
  <2>1. \A e \in Clients : e # c => req'[e] = req[e]
    BY <1>4, GoingOn
  <2>2. CASE CommitUpdate(c) \/ CommitApprove(c) \/ Abort(c) \/ CommitPost(c)
    <3>1. req'[c] = Idle
      BY <2>2 DEF CommitUpdate, CommitApprove, Abort, CommitPost, Finish, TypeOK
    <3>2. NotedHasWritten'
      BY <2>1, <3>1, StockConstants DEF NotedHasWritten, AllWritten
    <3>3. CASE ~CommitPost(c)
      <4>1. UNCHANGED <<apart, available>>
        BY <2>2, <3>3 DEF CommitUpdate, CommitApprove, Abort, batches
      <4> QED
        BY <2>1, <3>1, <3>2, <4>1, KeptQuietly, StockConstants DEF Moved
    <3> QED
      BY <1>1, <3>2, <3>3, KeptCommitting
  <2>3. CASE ReadBatches(c)
    <3>1. PICK move \in Moves(req[c].doc, req[c].line) :
            req' = [req EXCEPT ![c] = [@ EXCEPT !.at = "moving", !.seen = available, !.move = move]]
      BY <2>3 DEF ReadBatches
    <3>2. req[c].doc \in Documents /\ req[c].line \in Int
      BY <2>3, StockConstants DEF ReadBatches, At, ShapeOK, TypeOK, Requests
    <3>3. Fits(req[c].doc, move)
      BY <3>1, <3>2, MovesFit
    <3>4. /\ req'[c].at = "moving" /\ req'[c].doc = req[c].doc
          /\ req'[c].move = move /\ req'[c].seen = available
      BY <3>1 DEF TypeOK, Requests
    <3>5. UNCHANGED <<apart, available>>
      BY <2>3 DEF ReadBatches, batches
    <3>6. Kept(c)'
      BY <3>3, <3>4, <3>5 DEF Kept, Fits
    <3>7. AllKept'
      BY <2>1, <3>5, <3>6, KeptQuietly DEF Moved
    <3> QED
      BY <2>1, <3>4, <3>7 DEF NotedHasWritten, AllWritten
  <2>4. CASE WriteBatch(c)
    <3>1. PICK r \in Rows :
            req' = [req EXCEPT ![c].work = @ \cup {r}, ![c].seen = AsWritten(c, r)]
      BY <2>4 DEF WriteBatch
    <3>2. req[c] \in Requests /\ Moved(c) /\ req[c].at = "moving" /\ req[c].doc \in Documents
      BY <2>4, StockConstants DEF WriteBatch, At, Moved, TypeOK, ShapeOK
    <3>3. /\ req'[c].at = "moving" /\ req'[c].doc = req[c].doc /\ req'[c].move = req[c].move
          /\ req'[c].seen = AsWritten(c, r)
      BY <3>1, <3>2 DEF TypeOK, Requests
    <3>4. \A s \in Rows : AsWritten(c, r)[s] \in {req[c].seen[s], available[s]}
      BY <3>2 DEF AsWritten, Requests
    <3>5. Of[req[c].doc] \subseteq Rows
      BY <3>2, StockAssumption
    <3>6. UNCHANGED <<apart, available>>
      BY <2>4 DEF WriteBatch, batches
    <3>7. AllKept'
      BY <2>1, <3>2, <3>3, <3>4, <3>5, <3>6, KeptQuietly DEF Moved
    <3> QED
      BY <2>1, <3>3, <3>7 DEF NotedHasWritten, AllWritten
  <2>5. CASE CreateCreditNote(c)
    <3>1. /\ req' = [req EXCEPT ![c].at = "noted"] /\ UNCHANGED <<apart, available>>
          /\ Moved(c) /\ AllWritten(c)
      BY <2>5 DEF CreateCreditNote, batches, At, Moved
    <3>2. /\ req'[c].doc = req[c].doc /\ req'[c].move = req[c].move
          /\ req'[c].seen = req[c].seen /\ req'[c].work = req[c].work
      BY <3>1 DEF TypeOK, Requests
    <3>3. AllKept'
      BY <2>1, <3>1, <3>2, KeptQuietly DEF Moved
    <3>4. AllWritten(c)'
      BY <3>1, <3>2 DEF AllWritten
    <3> QED
      BY <2>1, <3>3, <3>4 DEF NotedHasWritten, AllWritten
  <2> QED
    BY <1>4, <2>2, <2>3, <2>4, <2>5 DEF Going
<1>5. CASE Entering \/ \E d \in Documents : RejectSalesReturn(d)
  BY <1>2, <1>5 DEF Entering, Enter, RejectSalesReturn, batches
<1>6. CASE UNCHANGED vars
  BY <1>2, <1>6 DEF vars, batches
<1> QED
  BY <1>3, <1>4, <1>5, <1>6, StepsOfStock

LEMMA InitOfApart ==
  ASSUME Init
  PROVE  ApartInv
<1>1. \A c \in Clients : req[c] = Idle
  BY DEF Init
<1> QED
  BY <1>1, InitOfStock, StockConstants DEF ApartInv, Separate, AllKept, Kept, NotedHasWritten, Busy, Moved

\* What the batches hold is changed only by a commit, that writes what it read
\* of each row and what it moves.
LEMMA ReconcileCommitting ==
  ASSUME ApartInv, BatchesReconcile, NEW c \in Clients, CommitPost(c)
  PROVE  BatchesReconcile'
<1> SUFFICES ASSUME apart', NEW r \in Rows
             PROVE  /\ qtyIn'[r] <= available'[r] + qtyOut'[r]
                    /\ available'[r] + qtyOut'[r] <= qtyIn'[r] + Tolerance * returnsOn'[r]
  BY DEF BatchesReconcile
<1>1. apart
  BY DEF CommitPost
<1>2. /\ req[c] \in Requests /\ Kept(c) /\ Moved(c)
      /\ r \in req[c].work <=> req[c].move[r] # 0
      /\ req[c].move[r] # 0 => r \in Of[req[c].doc]
  BY <1>1, CommitsItsOwn
<1> DEFINE move == req[c].move[r]
           left == req[c].seen[r] + move
           returned == r \in req[c].work /\ Kind[req[c].doc] = "supplierReturn"
<1>3. /\ move \in Int /\ available[r] \in Nat /\ qtyIn[r] \in Nat /\ qtyOut[r] \in Nat
      /\ returnsOn[r] \in Nat
  BY <1>2 DEF Requests, ApartInv, TypeOK
<1>4. /\ qtyIn[r] <= available[r] + qtyOut[r]
      /\ available[r] + qtyOut[r] <= qtyIn[r] + returnsOn[r]
  BY <1>1, <1>3 DEF BatchesReconcile, Tolerance
<1>5. Fits(req[c].doc, req[c].move) /\ \A s \in Of[req[c].doc] : req[c].seen[s] = available[s]
  BY <1>2 DEF Kept
<1>11. /\ available[r] + move + 1 >= 0
       /\ Kind[req[c].doc] = "supplierReturn" \/ available[r] + move >= 0
  BY <1>3, <1>5 DEF Fits, Tolerance
<1>12. move # 0 => left = available[r] + move /\ left + 1 >= 0 /\ (returned \/ left >= 0)
  BY <1>2, <1>3, <1>5, <1>11
<1>6. qtyIn'[r] = qtyIn[r] + Excess(move, 0) /\ qtyOut'[r] = qtyOut[r] + Excess(0, move)
  BY DEF CommitPost
<1>7. available'[r] = IF move # 0 THEN (IF left < 0 THEN 0 ELSE left) ELSE available[r]
  BY <1>2 DEF CommitPost, Written
<1>8. returnsOn'[r] = IF returned THEN returnsOn[r] + 1 ELSE returnsOn[r]
  BY DEF CommitPost
<1>9. CASE move = 0
  <2>1. ~returned
    BY <1>2, <1>9
  <2> QED
    BY <1>3, <1>4, <1>6, <1>7, <1>8, <1>9, <2>1 DEF Excess, Tolerance
<1>10. CASE move # 0
  <2>1. left \in Int
    BY <1>3, <1>12, <1>10
  <2> HIDE DEF left, move, returned
  <2>2. CASE left >= 0
    BY <1>3, <1>4, <1>12, <1>6, <1>7, <1>8, <1>10, <2>1, <2>2 DEF Excess, Tolerance
  <2>3. CASE left < 0
    <3>1. returned /\ left = -1 /\ move < 0
      BY <1>3, <1>12, <1>10, <2>1, <2>3
    <3> QED
      BY <1>3, <1>4, <1>12, <1>6, <1>7, <1>8, <1>10, <3>1 DEF Excess, Tolerance
  <2> QED
    BY <2>1, <2>2, <2>3
<1> QED
  BY <1>9, <1>10

LEMMA ReconcileStep ==
  ASSUME ApartInv, BatchesReconcile, [Next]_vars
  PROVE  BatchesReconcile'
<1>1. CASE UNCHANGED <<apart, batches>>
  BY <1>1 DEF BatchesReconcile, batches
<1>2. CASE Entering \/ (\E d \in Documents : RejectSalesReturn(d)) \/ UNCHANGED vars
  BY <1>1, <1>2 DEF Entering, Enter, RejectSalesReturn, vars
<1>3. CASE Beginning
  <2>1. UNCHANGED <<apart, batches>>
    BY <1>3, BeginningOn DEF ApartInv
  <2> QED
    BY <1>1, <2>1
<1>4. ASSUME NEW c \in Clients, Going(c) PROVE BatchesReconcile'
  <2>1. CASE CommitPost(c)
    BY <2>1, ReconcileCommitting
  <2>2. CASE ~CommitPost(c)
    <3>1. UNCHANGED <<apart, batches>>
      BY <1>4, <2>2
         DEF Going, CommitUpdate, CommitApprove, ReadBatches, WriteBatch, CreateCreditNote, Abort
    <3> QED
      BY <1>1, <3>1
  <2> QED
    BY <2>1, <2>2
<1> QED
  BY <1>2, <1>3, <1>4, StepsOfStock DEF ApartInv

\* When requests on the same batches are kept apart, every batch holds what its
\* movements add up to, but for the thousandth a supplier return may take too much:
\* the checks and reads before the transaction are then still true inside it.
THEOREM MovementsAddUp == Spec => []BatchesReconcile
<1>1. Init => ApartInv /\ BatchesReconcile
  <2> SUFFICES ASSUME Init PROVE BatchesReconcile
    BY InitOfApart
  <2>1. TypeOK
    BY InitOfStock
  <2> QED
    BY <2>1 DEF Init, BatchesReconcile, TypeOK, Tolerance, Still
<1>2. ApartInv /\ BatchesReconcile /\ [Next]_vars => (ApartInv /\ BatchesReconcile)'
  BY ApartStep, ReconcileStep
<1> QED
  BY <1>1, <1>2, PTL DEF Spec

-----------------------------------------------------------------------
\* How often a document moves stock.

\* A request in flight is on no posted document: it began on none, and no other
\* request on its document ran meanwhile.
NotPosted == apart => \A c \in Clients : Busy(c) => status[req[c].doc] # "posted"

Noting(d) == \E c \in Clients : req[c].at = "noted" /\ req[c].doc = d

\* A document has moved stock once more than it was reopened only when it is
\* posted, and made one more credit note only then or while a posting is at it.
CountedOnce ==
  apart => \A d \in Documents :
    /\ postings[d] <= reopened[d] + (IF status[d] = "posted" THEN 1 ELSE 0)
    /\ noted[d] <= reopened[d] + dropped[d] + (IF status[d] = "posted" \/ Noting(d) THEN 1 ELSE 0)

OnceInv == TypeOK /\ ShapeOK /\ Separate /\ NotPosted /\ CountedOnce

\* A request in flight is alone on its document.
LEMMA AloneOnDocument ==
  ASSUME TypeOK, ShapeOK, Separate, apart, NEW c \in Clients, Busy(c)
  PROVE  /\ \A e \in Clients : e # c /\ Busy(e) => req[e].doc # req[c].doc
         /\ \A e \in Clients : req[e].at = "noted" => Busy(e)
         /\ Noting(req[c].doc) <=> req[c].at = "noted"
<1>1. \A e \in Clients : e # c /\ Busy(e) => req[e].doc # req[c].doc
  BY DEF Separate, Meet
<1>2. \A e \in Clients : req[e].at = "noted" => Busy(e)
  BY DEF ShapeOK, Moved, Busy
<1> QED
  BY <1>1, <1>2 DEF Noting

\* No document becomes posted or reopened, and no note is made or lost.
LEMMA OnceQuietly ==
  ASSUME OnceInv, UNCHANGED <<apart, postings, reopened, noted, dropped>>,
         \A d \in Documents : /\ status'[d] = "posted" <=> status[d] = "posted"
                              /\ Noting(d) => Noting(d)'
  PROVE  CountedOnce'
BY DEF OnceInv, CountedOnce, TypeOK

LEMMA OnceRejecting ==
  ASSUME OnceInv, NEW d \in Documents, RejectSalesReturn(d)
  PROVE  NotPosted' /\ CountedOnce'
<1>1. /\ UNCHANGED <<apart, req, postings, noted, dropped>>
      /\ status' = [status EXCEPT ![d] = "rejected"]
      /\ reopened' = [reopened EXCEPT ![d] = IF status[d] = "posted" THEN reopened[d] + 1 ELSE reopened[d]]
  BY DEF RejectSalesReturn
<1>2. NotPosted'
  BY <1>1 DEF OnceInv, NotPosted, Busy, TypeOK
<1>3. \A e \in Documents : Noting(e)' <=> Noting(e)
  BY <1>1 DEF Noting
<1>4. ASSUME apart, NEW e \in Documents
      PROVE  /\ postings'[e] <= reopened'[e] + (IF status'[e] = "posted" THEN 1 ELSE 0)
             /\ noted'[e] <= reopened'[e] + dropped'[e] + (IF status'[e] = "posted" \/ Noting(e)' THEN 1 ELSE 0)
  <2>1. /\ postings[e] <= reopened[e] + (IF status[e] = "posted" THEN 1 ELSE 0)
        /\ noted[e] <= reopened[e] + dropped[e] + (IF status[e] = "posted" \/ Noting(e) THEN 1 ELSE 0)
    BY <1>4 DEF OnceInv, CountedOnce
  <2>2. /\ postings[e] \in Nat /\ reopened[e] \in Nat /\ noted[e] \in Nat /\ dropped[e] \in Nat
        /\ status \in [Documents -> Status] /\ reopened \in [Documents -> Nat]
    BY DEF OnceInv, TypeOK
  <2>3. CASE e # d
    BY <1>1, <1>3, <2>1, <2>2, <2>3
  <2>4. CASE e = d
    BY <1>1, <1>3, <2>1, <2>2, <2>4
  <2> QED
    BY <2>3, <2>4
<1> QED
  BY <1>1, <1>2, <1>4 DEF CountedOnce

LEMMA OnceCommitting ==
  ASSUME OnceInv, NEW c \in Clients, CommitPost(c)
  PROVE  NotPosted' /\ CountedOnce'
<1> DEFINE d == req[c].doc
<1>1. Busy(c) /\ d \in Documents
  BY StockConstants DEF CommitPost, At, Busy, OnceInv, ShapeOK
<1>2. /\ UNCHANGED <<apart, reopened, noted, dropped>>
      /\ status' = [status EXCEPT ![d] = "posted"]
      /\ postings' = [postings EXCEPT ![d] = postings[d] + 1]
      /\ req' = [req EXCEPT ![c] = Idle]
  BY DEF CommitPost, Finish
<1>3. apart => /\ status[d] # "posted"
               /\ \A e \in Clients : e # c /\ Busy(e) => req[e].doc # d
               /\ \A e \in Clients : req[e].at = "noted" => Busy(e)
  BY <1>1, AloneOnDocument DEF OnceInv, NotPosted
<1> HIDE DEF d
<1>4. \A e \in Clients : e # c => req'[e] = req[e]
  BY <1>2 DEF OnceInv, TypeOK
<1>5. req'[c].op = "none"
  BY <1>2, StockConstants DEF OnceInv, TypeOK
<1>6. NotPosted'
  BY <1>2, <1>3, <1>4, <1>5 DEF OnceInv, NotPosted, Busy, TypeOK
<1>7. ASSUME apart, NEW e \in Documents
      PROVE  /\ postings'[e] <= reopened'[e] + (IF status'[e] = "posted" THEN 1 ELSE 0)
             /\ noted'[e] <= reopened'[e] + dropped'[e] + (IF status'[e] = "posted" \/ Noting(e)' THEN 1 ELSE 0)
  <2>1. /\ postings[e] <= reopened[e] + (IF status[e] = "posted" THEN 1 ELSE 0)
        /\ noted[e] <= reopened[e] + dropped[e] + (IF status[e] = "posted" \/ Noting(e) THEN 1 ELSE 0)
    BY <1>7 DEF OnceInv, CountedOnce
  <2>2. /\ postings[e] \in Nat /\ reopened[e] \in Nat /\ noted[e] \in Nat /\ dropped[e] \in Nat
        /\ status \in [Documents -> Status] /\ postings \in [Documents -> Nat]
    BY DEF OnceInv, TypeOK
  <2>3. CASE e # d
    <3>1. Noting(e) => Noting(e)'
      BY <1>4, <2>3 DEF Noting, d
    <3>2. /\ postings'[e] = postings[e] /\ reopened'[e] = reopened[e] /\ noted'[e] = noted[e]
          /\ dropped'[e] = dropped[e] /\ status'[e] = status[e]
      BY <1>2, <2>2, <2>3
    <3> QED
      BY <2>1, <2>2, <3>1, <3>2
  <2>4. CASE e = d
    BY <1>2, <1>3, <1>7, <2>1, <2>2, <2>4
  <2> QED
    BY <2>3, <2>4
<1> QED
  BY <1>2, <1>6, <1>7 DEF CountedOnce

LEMMA OnceNoting ==
  ASSUME OnceInv, NEW c \in Clients, CreateCreditNote(c)
  PROVE  CountedOnce'
<1> DEFINE d == req[c].doc
<1>1. Busy(c) /\ d \in Documents /\ req[c].at # "noted"
  BY StockConstants DEF CreateCreditNote, At, Busy, OnceInv, ShapeOK
<1>2. /\ UNCHANGED <<apart, status, postings, reopened, dropped>>
      /\ noted' = [noted EXCEPT ![d] = noted[d] + 1]
      /\ req' = [req EXCEPT ![c].at = "noted"]
  BY DEF CreateCreditNote
<1>3. apart => status[d] # "posted" /\ ~Noting(d)
  BY <1>1, AloneOnDocument DEF OnceInv, NotPosted
<1>4. /\ \A e \in Clients : e # c => req'[e] = req[e]
      /\ req'[c].at = "noted" /\ req'[c].doc = d
  BY <1>2 DEF OnceInv, TypeOK, Requests
<1>5. \A e \in Documents : Noting(e) => Noting(e)'
  BY <1>1, <1>4 DEF Noting
<1>6. \E e \in Clients : req'[e].at = "noted" /\ req'[e].doc = d
  BY <1>4
<1> HIDE DEF d
<1>7. ASSUME apart, NEW e \in Documents
      PROVE  /\ postings'[e] <= reopened'[e] + (IF status'[e] = "posted" THEN 1 ELSE 0)
             /\ noted'[e] <= reopened'[e] + dropped'[e] + (IF status'[e] = "posted" \/ Noting(e)' THEN 1 ELSE 0)
  <2>1. /\ postings[e] <= reopened[e] + (IF status[e] = "posted" THEN 1 ELSE 0)
        /\ noted[e] <= reopened[e] + dropped[e] + (IF status[e] = "posted" \/ Noting(e) THEN 1 ELSE 0)
    BY <1>7 DEF OnceInv, CountedOnce
  <2>2. /\ postings[e] \in Nat /\ reopened[e] \in Nat /\ noted[e] \in Nat /\ dropped[e] \in Nat
        /\ noted \in [Documents -> Nat]
    BY DEF OnceInv, TypeOK
  <2>3. CASE e # d
    <3>1. noted'[e] = noted[e]
      BY <1>2, <2>2, <2>3
    <3> QED
      BY <1>2, <1>5, <2>1, <2>2, <3>1
  <2>4. CASE e = d
    <3>1. Noting(e)' /\ ~Noting(e)
      BY <1>3, <1>6, <1>7, <2>4 DEF Noting
    <3>2. noted'[e] = noted[e] + 1
      BY <1>2, <2>2, <2>4
    <3> QED
      BY <1>2, <1>3, <1>7, <2>1, <2>2, <2>4, <3>1, <3>2
  <2> QED
    BY <2>3, <2>4
<1> QED
  BY <1>2, <1>7 DEF CountedOnce

LEMMA OnceAborting ==
  ASSUME OnceInv, NEW c \in Clients, Abort(c), req[c].at = "noted"
  PROVE  CountedOnce'
<1> DEFINE d == req[c].doc
<1>1. Busy(c) /\ d \in Documents
  BY StockConstants DEF Abort, Busy, OnceInv, ShapeOK
<1>2. /\ UNCHANGED <<apart, status, postings, reopened, noted>>
      /\ dropped' = [dropped EXCEPT ![d] = dropped[d] + 1]
      /\ req' = [req EXCEPT ![c] = Idle]
  BY DEF Abort, Finish
<1>3. apart => status[d] # "posted"
  BY <1>1 DEF OnceInv, NotPosted
<1>4. \A e \in Clients : e # c => req'[e] = req[e]
  BY <1>2 DEF OnceInv, TypeOK
<1>5. \A e \in Documents : e # d /\ Noting(e) => Noting(e)'
  BY <1>4 DEF Noting
<1> HIDE DEF d
<1>6. ASSUME apart, NEW e \in Documents
      PROVE  /\ postings'[e] <= reopened'[e] + (IF status'[e] = "posted" THEN 1 ELSE 0)
             /\ noted'[e] <= reopened'[e] + dropped'[e] + (IF status'[e] = "posted" \/ Noting(e)' THEN 1 ELSE 0)
  <2>1. /\ postings[e] <= reopened[e] + (IF status[e] = "posted" THEN 1 ELSE 0)
        /\ noted[e] <= reopened[e] + dropped[e] + (IF status[e] = "posted" \/ Noting(e) THEN 1 ELSE 0)
    BY <1>6 DEF OnceInv, CountedOnce
  <2>2. /\ postings[e] \in Nat /\ reopened[e] \in Nat /\ noted[e] \in Nat /\ dropped[e] \in Nat
        /\ dropped \in [Documents -> Nat]
    BY DEF OnceInv, TypeOK
  <2>3. CASE e # d
    <3>1. dropped'[e] = dropped[e]
      BY <1>2, <2>2, <2>3
    <3> QED
      BY <1>2, <1>5, <2>1, <2>2, <2>3, <3>1
  <2>4. CASE e = d
    BY <1>2, <2>1, <2>2, <2>4
  <2> QED
    BY <2>3, <2>4
<1> QED
  BY <1>2, <1>6 DEF CountedOnce

\* What goes on without a commit of a posting makes no document posted.
LEMMA OnceGoing ==
  ASSUME OnceInv, NEW c \in Clients, Going(c), ~CommitPost(c)
  PROVE  NotPosted' /\ CountedOnce'
<1>1. /\ \A e \in Clients : e # c => req'[e] = req[e]
      /\ Busy(c)' => Busy(c) /\ req'[c].doc = req[c].doc
      /\ apart' = apart
  BY GoingOn DEF OnceInv
<1>2. CASE CommitApprove(c)
  <2>1. /\ Busy(c) /\ req[c].doc \in Documents /\ req[c].at = "begun"
        /\ status' = [status EXCEPT ![req[c].doc] = "approved"]
        /\ UNCHANGED <<postings, reopened, noted, dropped>>
    BY <1>2, StockConstants DEF CommitApprove, At, Busy, OnceInv, ShapeOK
  <2>2. \A d \in Documents : status'[d] = "posted" => status[d] = "posted"
    BY <2>1 DEF OnceInv, TypeOK
  <2>3. apart => \A d \in Documents : status'[d] = "posted" <=> status[d] = "posted"
    BY <2>1, <2>2 DEF OnceInv, TypeOK, NotPosted
  <2>4. \A d \in Documents : Noting(d) => Noting(d)'
    BY <1>1, <2>1 DEF Noting
  <2>5. NotPosted'
    <3>1. ASSUME apart, NEW e \in Clients, Busy(e)' PROVE status'[req'[e].doc] # "posted"
      <4>1. Busy(e) /\ req'[e].doc = req[e].doc
        BY <1>1, <3>1 DEF Busy
      <4>2. req[e].doc \in Documents
        BY <4>1, StockConstants DEF OnceInv, ShapeOK, Busy
      <4> QED
        BY <2>2, <3>1, <4>1, <4>2 DEF OnceInv, NotPosted
    <3> QED
      BY <1>1, <3>1 DEF NotPosted, Busy
  <2>6. CountedOnce'
    <3>1. CASE apart
      BY <1>1, <2>1, <2>3, <2>4, <3>1, OnceQuietly
    <3>2. CASE ~apart
      BY <1>1, <3>2 DEF CountedOnce
    <3> QED
      BY <3>1, <3>2
  <2> QED
    BY <2>5, <2>6
<1>3. CASE ~CommitApprove(c)
  <2>1. UNCHANGED <<status, postings, reopened>>
    BY <1>3 DEF Going, CommitUpdate, ReadBatches, WriteBatch, CreateCreditNote, Abort, documents
  <2>2. NotPosted'
    BY <1>1, <2>1 DEF OnceInv, NotPosted, Busy
  <2>3. CASE CreateCreditNote(c)
    BY <2>2, <2>3, OnceNoting
  <2>4. CASE Abort(c) /\ req[c].at = "noted"
    BY <2>2, <2>4, OnceAborting
  <2>5. CASE ~CreateCreditNote(c) /\ ~(Abort(c) /\ req[c].at = "noted")
    <3>1. UNCHANGED <<noted, dropped>> /\ req[c].at # "noted"
      BY <1>3, <2>5 DEF Going, CommitUpdate, ReadBatches, WriteBatch, Abort, At, documents
    <3>2. \A d \in Documents : Noting(d) => Noting(d)'
      BY <1>1, <3>1 DEF Noting
    <3> QED
      BY <1>1, <2>1, <2>2, <3>1, <3>2, OnceQuietly
  <2> QED
    BY <2>3, <2>4, <2>5
<1> QED
  BY <1>2, <1>3

LEMMA OnceStep ==
  ASSUME OnceInv, [Next]_vars
  PROVE  OnceInv'
<1>1. TypeOK' /\ ShapeOK' /\ Separate'
  BY TypedStep, SeparateStep DEF OnceInv
<1> SUFFICES NotPosted' /\ CountedOnce'
  BY <1>1 DEF OnceInv
<1>2. CASE UNCHANGED vars
  <2>1. NotPosted'
    BY <1>2 DEF vars, documents, OnceInv, NotPosted, Busy
  <2> QED
    BY <1>2, <2>1, OnceQuietly DEF vars, documents, Noting
<1>3. CASE Entering
  <2>1. PICK d \in Documents, kind \in Kinds, quantities \in SUBSET Int : Enter(d, kind, quantities)
    BY <1>3 DEF Entering
  <2>2. /\ status[d] = "absent" /\ status' = [status EXCEPT ![d] = "draft"]
        /\ UNCHANGED <<apart, req, postings, reopened, noted, dropped>>
    BY <2>1 DEF Enter
  <2>3. \A e \in Documents : status'[e] = "posted" <=> status[e] = "posted"
    BY <2>2 DEF OnceInv, TypeOK
  <2>4. NotPosted'
    <3>1. \A e \in Clients : Busy(e) => req[e].doc \in Documents
      BY StockConstants DEF OnceInv, ShapeOK, Busy
    <3> QED
      BY <2>2, <2>3, <3>1 DEF OnceInv, NotPosted, Busy
  <2> QED
    BY <2>2, <2>3, <2>4, OnceQuietly DEF Noting
<1>4. CASE Beginning
  <2>1. PICK c \in Clients :
           /\ \A e \in Clients : e # c => req'[e] = req[e]
           /\ ~Busy(c) /\ req'[c].at = "begun" /\ req'[c].doc \in Documents
           /\ status[req'[c].doc] # "posted"
           /\ UNCHANGED <<apart, documents>>
    BY <1>4, BeginningOn DEF OnceInv
  <2>2. NotPosted'
    BY <2>1 DEF OnceInv, NotPosted, Busy, documents
  <2>3. \A d \in Documents : Noting(d) => Noting(d)'
    BY <2>1 DEF Noting, OnceInv, ShapeOK, Moved, Busy
  <2> QED
    BY <2>1, <2>2, <2>3, OnceQuietly DEF documents
<1>5. ASSUME NEW d \in Documents, RejectSalesReturn(d) PROVE NotPosted' /\ CountedOnce'
  BY <1>5, OnceRejecting
<1>6. ASSUME NEW c \in Clients, Going(c) PROVE NotPosted' /\ CountedOnce'
  BY <1>6, OnceCommitting, OnceGoing
<1> QED
  BY <1>2, <1>3, <1>4, <1>5, <1>6, StepsOfStock DEF OnceInv

\* Requests on one document kept apart, every document moves stock once, and once
\* more only after a sales return was rejected; so with its credit notes, but for
\* those of approvals that failed after they had made one.
THEOREM StockMovesOnce == Spec => []MovedOnce
<1>1. Init => OnceInv
  <2> SUFFICES ASSUME Init PROVE OnceInv
    OBVIOUS
  <2>1. TypeOK /\ ShapeOK /\ Separate
    BY InitOfStock, InitOfApart DEF ApartInv
  <2>2. NotPosted
    BY StockConstants DEF Init, NotPosted, Busy
  <2>3. CountedOnce
    BY DEF Init, CountedOnce
  <2> QED
    BY <2>1, <2>2, <2>3 DEF OnceInv
<1>2. OnceInv /\ [Next]_vars => OnceInv'
  BY OnceStep
<1>3. OnceInv => MovedOnce
  <2> SUFFICES ASSUME OnceInv, apart, NEW d \in Documents
               PROVE  postings[d] <= 1 + reopened[d] /\ noted[d] <= 1 + reopened[d] + dropped[d]
    BY DEF MovedOnce
  <2>1. /\ postings[d] <= reopened[d] + (IF status[d] = "posted" THEN 1 ELSE 0)
        /\ noted[d] <= reopened[d] + dropped[d] + (IF status[d] = "posted" \/ Noting(d) THEN 1 ELSE 0)
    BY DEF OnceInv, CountedOnce
  <2>2. postings[d] \in Nat /\ reopened[d] \in Nat /\ noted[d] \in Nat /\ dropped[d] \in Nat
    BY DEF OnceInv, TypeOK
  <2> QED
    BY <2>1, <2>2
<1> QED
  BY <1>1, <1>2, <1>3, PTL DEF Spec

-----------------------------------------------------------------------
(* Entries on the phone: none is forgotten or recorded twice by a phone that *)
(* waits for the server, and the counters of a stop follow the transactions.  *)

In(e, s) == \E i \in 1..Len(s) : s[i] = e
Once(e, s) == \A i, j \in 1..Len(s) : s[i] = e /\ s[j] = e => i = j

Counters == [issued : Nat, received : Nat]
PhoneRow == [op : {"none", "call", "flush"}, todo : Seq(Entries), kept : Seq(Entries), waits : Handlers \cup {"none"}]
ServerRow == [entry : Entries \cup {"none"}, at : {"none", "arrived", "read", "recorded"}, seen : Counters]

\* A call has one entry to send, a flush some; a request has an entry.
RowOK(r) == (r.todo = <<>> \/ r.op = "none") => r = Rest
CallOK(r) == r.op = "call" => Len(r.todo) = 1
RequestOK(v) == v = Free \/ (v.entry \in Entries /\ v.at # "none")

FieldTyped ==
  /\ queue \in Seq(Entries) /\ thread \in [Threads -> PhoneRow] /\ handler \in [Handlers -> ServerRow]
  /\ stop \in Counters /\ ledger \in [Entries -> Nat] /\ losses \in Nat
  /\ \A t \in Threads : RowOK(thread[t]) /\ CallOK(thread[t])
  /\ \A h \in Handlers : RequestOK(handler[h])

\* A patient phone does one thing at a time, and the server too: what is waited for
\* is the first entry there is to send.
OneThing ==
  /\ \A t, u \in Threads : thread[t] # Rest /\ thread[u] # Rest => t = u
  /\ \A h, k \in Handlers : handler[h] # Free /\ handler[k] # Free => h = k
  /\ \A t \in Threads : thread[t].waits # "none" => handler[thread[t].waits].entry = Head(thread[t].todo)
  /\ \A h \in Handlers : handler[h].at = "recorded" => ledger[handler[h].entry] > 0

\* What was not recorded is held; a flush, which leaves the queue as it is until
\* it ends, has what the queue has.
Covers(r, e) ==
  r.op = "flush" =>
    /\ In(e, queue) /\ ledger[e] = 0 => (In(e, r.todo) \/ In(e, r.kept))
    /\ (In(e, r.todo) \/ In(e, r.kept)) => In(e, queue)
Covered ==
  /\ entered \subseteq Entries
  /\ \A e \in entered : ledger[e] = 0 => Held(e)
  /\ \A t \in Threads : \A e \in Entries : Covers(thread[t], e)

\* An entry nobody need be unsure of is in one place, and not in any but the
\* hands of the server once it was recorded.
Flushing == \E t \in Threads : thread[t].op = "flush"
Placed(r, e) ==
  /\ Once(e, r.todo) /\ Once(e, r.kept) /\ ~(In(e, r.todo) /\ In(e, r.kept))
  /\ r.op = "call" /\ In(e, r.todo) => ~In(e, queue)
  /\ In(e, r.kept) => ledger[e] = 0
  /\ In(e, r.todo) /\ ledger[e] # 0 => Head(r.todo) = e /\ r.waits # "none" /\ handler[r.waits].at = "recorded"
Sure(e) ==
  /\ ledger[e] <= 1
  /\ Once(e, queue)
  /\ ~Flushing /\ In(e, queue) => ledger[e] = 0
  /\ e \notin entered => ledger[e] = 0 /\ ~Held(e)
  /\ \A h \in Handlers : handler[h].entry = e =>
       /\ \E t \in Threads : thread[t].waits = h
       /\ handler[h].at # "recorded" => ledger[e] = 0
  /\ \A t \in Threads : Placed(thread[t], e)

PatientInv == patient => OneThing /\ Covered /\ \A e \in Entries \ unsure : Sure(e)

\* The two counters; what was recorded of their entries, and what a request that
\* has recorded one of them is still to count.
TwoCounters == {"issued", "received"}
OfKind(k) == IF k = "issued" THEN Issues ELSE Entries \ Issues
RecordedOf(k) == Total(ledger, OfKind(k))
Adds(v, k) == IF v.at = "recorded" /\ v.entry \in OfKind(k) THEN 1 ELSE 0
Reads(v) == v.at \in {"read", "recorded"}

\* No counter is ahead of what was recorded, nor will be; patient, what it misses
\* was lost, but for what the one request is to count.
NeverMore(k) ==
  /\ stop[k] <= RecordedOf(k)
  /\ \A h \in Handlers : Reads(handler[h]) => handler[h].seen[k] + Adds(handler[h], k) <= RecordedOf(k)
Missing(k) ==
  /\ ServerRests => RecordedOf(k) <= stop[k] + losses
  /\ \A h \in Handlers : handler[h] # Free =>
       /\ Reads(handler[h]) => handler[h].seen[k] = stop[k]
       /\ RecordedOf(k) <= stop[k] + losses + Adds(handler[h], k)
CountInv == \A k \in TwoCounters : NeverMore(k) /\ (patient => Missing(k))

\* An empty sequence, the rest of one, and one with an entry more.
LEMMA NothingIn == \A e : ~In(e, <<>>) /\ Once(e, <<>>)
BY DEF In, Once

LEMMA TailIn ==
  ASSUME NEW s \in Seq(Entries), s # <<>>
  PROVE  /\ Head(s) \in Entries /\ Tail(s) \in Seq(Entries) /\ (Len(s) = 1 => Tail(s) = <<>>)
         /\ \A e : In(e, s) <=> e = Head(s) \/ In(e, Tail(s))
         /\ \A e : Once(e, s) => Once(e, Tail(s)) /\ ~(e = Head(s) /\ In(e, Tail(s)))
<1>1. /\ Len(s) \in Nat /\ Len(s) >= 1 /\ Head(s) = s[1] /\ Head(s) \in Entries
      /\ Tail(s) \in Seq(Entries) /\ Len(Tail(s)) = Len(s) - 1
      /\ \A i \in 1..Len(s) - 1 : Tail(s)[i] = s[i + 1]
  OBVIOUS
<1>2. Len(s) = 1 => Tail(s) = <<>>
  <2> DEFINE u == Tail(s)
  <2>1. u \in Seq(Entries) /\ Len(u) = Len(s) - 1
    BY <1>1
  <2> HIDE DEF u
  <2>2. Len(s) = 1 => Len(u) = 0
    BY <1>1, <2>1
  <2>3. Len(u) = 0 => u = <<>>
    BY <2>1
  <2> QED
    BY <2>2, <2>3 DEF u
<1>3. ASSUME NEW e PROVE In(e, s) <=> e = Head(s) \/ In(e, Tail(s))
  <2>1. ASSUME NEW i \in 1..Len(s), s[i] = e, e # Head(s) PROVE In(e, Tail(s))
    <3>1. i - 1 \in 1..Len(Tail(s)) /\ Tail(s)[i - 1] = e
      BY <1>1, <2>1
    <3> QED
      BY <3>1 DEF In
  <2>2. ASSUME NEW i \in 1..Len(Tail(s)), Tail(s)[i] = e PROVE In(e, s)
    <3>1. i + 1 \in 1..Len(s) /\ s[i + 1] = e
      BY <1>1, <2>2
    <3> QED
      BY <3>1 DEF In
  <2>3. 1 \in 1..Len(s)
    BY <1>1
  <2> QED
    BY <1>1, <2>1, <2>2, <2>3 DEF In
<1>4. ASSUME NEW e, Once(e, s) PROVE Once(e, Tail(s)) /\ ~(e = Head(s) /\ In(e, Tail(s)))
  <2>1. \A i \in 1..Len(Tail(s)) : i + 1 \in 1..Len(s) /\ Tail(s)[i] = s[i + 1]
    BY <1>1
  <2>2. Once(e, Tail(s))
    BY <1>4, <2>1 DEF Once
  <2>3. ASSUME e = Head(s), NEW i \in 1..Len(Tail(s)), Tail(s)[i] = e PROVE FALSE
    <3>1. i + 1 = 1
      BY <1>1, <1>4, <2>1, <2>3 DEF Once
    <3> QED
      BY <3>1
  <2> QED
    BY <2>2, <2>3 DEF In
<1> QED
  BY <1>1, <1>2, <1>3, <1>4

LEMMA AppendIn ==
  ASSUME NEW s \in Seq(Entries), NEW x \in Entries
  PROVE  /\ Append(s, x) \in Seq(Entries)
         /\ \A e : In(e, Append(s, x)) <=> e = x \/ In(e, s)
         /\ \A e : Once(e, s) /\ (e = x => ~In(e, s)) => Once(e, Append(s, x))
<1>1. /\ Len(s) \in Nat /\ Append(s, x) \in Seq(Entries) /\ Len(Append(s, x)) = Len(s) + 1
      /\ Append(s, x)[Len(s) + 1] = x /\ \A i \in 1..Len(s) : Append(s, x)[i] = s[i]
  OBVIOUS
<1> DEFINE a == Append(s, x)
<1>2. /\ Len(a) = Len(s) + 1 /\ a[Len(s) + 1] = x /\ \A i \in 1..Len(s) : a[i] = s[i]
  BY <1>1
<1> HIDE DEF a
<1>3. ASSUME NEW e PROVE In(e, a) <=> e = x \/ In(e, s)
  <2>1. ASSUME NEW i \in 1..Len(a), a[i] = e PROVE e = x \/ In(e, s)
    <3>1. i = Len(s) + 1 \/ i \in 1..Len(s)
      BY <1>1, <1>2
    <3> QED
      BY <1>2, <2>1, <3>1 DEF In
  <2>2. ASSUME NEW i \in 1..Len(s), s[i] = e PROVE In(e, a)
    <3>1. i \in 1..Len(a) /\ a[i] = e
      BY <1>1, <1>2, <2>2
    <3> QED
      BY <3>1 DEF In
  <2>3. Len(s) + 1 \in 1..Len(a)
    BY <1>1, <1>2
  <2> QED
    BY <1>2, <2>1, <2>2, <2>3 DEF In
<1>4. ASSUME NEW e, Once(e, s), e = x => ~In(e, s) PROVE Once(e, a)
  <2> SUFFICES ASSUME NEW i \in 1..Len(a), NEW j \in 1..Len(a), a[i] = e, a[j] = e PROVE i = j
    BY DEF Once
  <2>1. (i = Len(s) + 1 \/ i \in 1..Len(s)) /\ (j = Len(s) + 1 \/ j \in 1..Len(s))
    BY <1>1, <1>2
  <2> QED
    BY <1>2, <1>4, <2>1 DEF In, Once
<1> QED
  BY <1>1, <1>3, <1>4 DEF a

-----------------------------------------------------------------------
\* What becomes of row o and queue q when the first entry of o fails, or not: row r
\* and queue p.
Resolved(o, q, fail, r, p) ==
  LET x == Head(o.todo)
      Goes1(e, s) == In(e, s) \/ (fail /\ e = x)
      Stays1(e, s) == Once(e, s) /\ (fail /\ e = x => ~In(e, s))
  IN /\ r \in PhoneRow /\ p \in Seq(Entries) /\ RowOK(r) /\ CallOK(r) /\ r.waits = "none"
     /\ r # Rest => r.op = "flush" /\ o.op = "flush" /\ p = q
     /\ o.op = "call" => /\ r = Rest
                         /\ \A e : In(e, o.todo) <=> e = x
                         /\ \A e : In(e, p) <=> Goes1(e, q)
                         /\ \A e : Stays1(e, q) => Once(e, p)
     /\ o.op = "flush" /\ r = Rest => /\ \A e : In(e, o.todo) <=> e = x
                                      /\ \A e : In(e, p) <=> Goes1(e, o.kept)
                                      /\ \A e : Stays1(e, o.kept) => Once(e, p)
     /\ o.op = "flush" /\ r # Rest => /\ \A e : In(e, o.todo) <=> e = x \/ In(e, r.todo)
                                      /\ \A e : Once(e, o.todo) => Once(e, r.todo) /\ ~(e = x /\ In(e, r.todo))
                                      /\ \A e : In(e, r.kept) <=> Goes1(e, o.kept)
                                      /\ \A e : Stays1(e, o.kept) => Once(e, r.kept)

\* A call ends, with its entry in the queue if it failed; a flush goes on, with the
\* entry kept if it failed, or ends and writes what it keeps.
LEMMA Resolves ==
  ASSUME FieldTyped, NEW t \in Threads, thread[t].todo # <<>>, NEW fail \in BOOLEAN,
         (fail /\ Fails(t)) \/ (~fail /\ Succeeds(t))
  PROVE  /\ thread[t].op \in {"call", "flush"} /\ Head(thread[t].todo) \in Entries
         /\ In(Head(thread[t].todo), thread[t].todo)
         /\ \E r : Goes(t, r) /\ Resolved(thread[t], queue, fail, r, queue')
<1> DEFINE o == thread[t]
           x == Head(o.todo)
<1>1. o \in PhoneRow /\ RowOK(o) /\ CallOK(o) /\ queue \in Seq(Entries)
  BY DEF FieldTyped
<1>2. o.op \in {"call", "flush"} /\ o.todo \in Seq(Entries) /\ o.kept \in Seq(Entries)
  BY <1>1 DEF PhoneRow, RowOK, Rest
<1>3. /\ x \in Entries /\ Tail(o.todo) \in Seq(Entries) /\ (Len(o.todo) = 1 => Tail(o.todo) = <<>>)
      /\ \A e : In(e, o.todo) <=> e = x \/ In(e, Tail(o.todo))
      /\ \A e : Once(e, o.todo) => Once(e, Tail(o.todo)) /\ ~(e = x /\ In(e, Tail(o.todo)))
  BY <1>2, TailIn
<1>4. Rest \in PhoneRow /\ RowOK(Rest) /\ CallOK(Rest) /\ Rest.waits = "none" /\ Rest.op = "none"
  BY DEF Rest, PhoneRow, RowOK, CallOK
<1> DEFINE grown(s) == IF fail THEN Append(s, x) ELSE s
<1>5. ASSUME NEW s \in Seq(Entries)
      PROVE  /\ grown(s) \in Seq(Entries)
             /\ \A e : In(e, grown(s)) <=> In(e, s) \/ (fail /\ e = x)
             /\ \A e : Once(e, s) /\ (fail /\ e = x => ~In(e, s)) => Once(e, grown(s))
  <2> HIDE DEF x
  <2> QED
    BY <1>3, AppendIn
<1>6. CASE o.op = "call"
  <2>1. queue' = grown(queue) /\ Goes(t, Rest)
    BY <1>6 DEF Fails, Succeeds
  <2>2. \A e : In(e, o.todo) <=> e = x
    BY <1>1, <1>3, <1>6, NothingIn DEF CallOK
  <2> HIDE DEF grown, x, o
  <2>3. Resolved(o, queue, fail, Rest, queue')
    BY <1>1, <1>4, <1>5, <1>6, <2>1, <2>2 DEF Resolved, x
  <2> QED
    BY <1>2, <1>3, <2>1, <2>3 DEF o, x
<1>7. CASE o.op = "flush"
  <2>1. FlushGoes(t, Tail(o.todo), grown(o.kept))
    BY <1>7 DEF Fails, Succeeds, Keep
  <2>2. CASE Tail(o.todo) = <<>>
    <3>1. queue' = grown(o.kept) /\ Goes(t, Rest)
      BY <2>1, <2>2 DEF FlushGoes
    <3>2. \A e : In(e, o.todo) <=> e = x
      BY <1>3, <2>2, NothingIn
    <3> HIDE DEF grown, x, o
    <3>3. Resolved(o, queue, fail, Rest, queue')
      BY <1>2, <1>4, <1>5, <1>7, <3>1, <3>2 DEF Resolved, x
    <3> QED
      BY <1>2, <1>3, <3>1, <3>3 DEF o, x
  <2>3. CASE Tail(o.todo) # <<>>
    <3> DEFINE r == [op |-> "flush", todo |-> Tail(o.todo), kept |-> grown(o.kept), waits |-> "none"]
    <3>0. [o EXCEPT !.todo = Tail(o.todo), !.kept = grown(o.kept), !.waits = "none"] = r
      <4> DEFINE a == [o EXCEPT !.todo = Tail(o.todo)]
                 b == [a EXCEPT !.kept = grown(o.kept)]
                 c == [b EXCEPT !.waits = "none"]
      <4>1. c = [o EXCEPT !.todo = Tail(o.todo), !.kept = grown(o.kept), !.waits = "none"]
        OBVIOUS
      <4> HIDE DEF grown
      <4>2. a = [op |-> "flush", todo |-> Tail(o.todo), kept |-> o.kept, waits |-> o.waits]
        <5>1. o \in PhoneRow /\ o.op = "flush"
          BY <1>1, <1>7
        <5> HIDE DEF o
        <5>2. o = [op |-> "flush", todo |-> o.todo, kept |-> o.kept, waits |-> o.waits]
          BY <5>1 DEF PhoneRow
        <5> DEFINE l == Tail(o.todo)
        <5> HIDE DEF l
        <5>3. [o EXCEPT !.todo = l] = [op |-> "flush", todo |-> l, kept |-> o.kept, waits |-> o.waits]
          BY <5>2
        <5> QED
          BY <5>3 DEF l
      <4> HIDE DEF a
      <4>3. b = [op |-> "flush", todo |-> Tail(o.todo), kept |-> grown(o.kept), waits |-> o.waits]
        BY <4>2
      <4> HIDE DEF b
      <4>4. c = r
        BY <4>3
      <4> QED
        BY <4>1, <4>4
    <3>1. queue' = queue /\ Goes(t, r)
      BY <2>1, <2>3, <3>0 DEF FlushGoes
    <3>2. grown(o.kept) \in Seq(Entries)
      BY <1>2, <1>5
    <3> HIDE DEF grown
    <3>3. r \in PhoneRow /\ RowOK(r) /\ CallOK(r) /\ r.waits = "none" /\ r # Rest /\ r.op = "flush"
          /\ r.todo = Tail(o.todo) /\ r.kept = grown(o.kept)
      BY <1>3, <2>3, <3>2 DEF PhoneRow, RowOK, CallOK, Rest
    <3> HIDE DEF r, x, o
    <3>4. Resolved(o, queue, fail, r, queue')
      BY <1>1, <1>2, <1>3, <1>5, <1>7, <3>1, <3>3 DEF Resolved, x
    <3> QED
      BY <1>2, <1>3, <3>1, <3>4 DEF o, x
  <2> QED
    BY <2>2, <2>3
<1> QED
  BY <1>2, <1>6, <1>7

-----------------------------------------------------------------------
\* A thread that rests and a handler that is free; what is held, before and after.
LEMMA FieldConstants ==
  /\ Rest \in PhoneRow /\ RowOK(Rest) /\ CallOK(Rest) /\ Rest.waits = "none" /\ Rest.op = "none" /\ Rest.todo = <<>>
  /\ Free \in ServerRow /\ RequestOK(Free) /\ Free.at = "none" /\ Free.entry = "none"
  /\ \A e : ~In(e, Rest.todo)
  /\ "none" \notin Entries /\ "none" \notin Handlers
BY FieldEntriesAssumption DEF Rest, Free, PhoneRow, ServerRow, Counters, RowOK, CallOK, RequestOK, In

LEMMA InDomain ==
  ASSUME NEW s \in Seq(Entries), NEW e
  PROVE  (\E i \in DOMAIN s : s[i] = e) <=> In(e, s)
<1>1. DOMAIN s = 1..Len(s)
  OBVIOUS
<1> QED
  BY <1>1 DEF In

LEMMA HeldIs ==
  ASSUME queue \in Seq(Entries), NEW e
  PROVE  (InQueue(e) <=> In(e, queue)) /\ (Held(e) <=> (In(e, queue) \/ \E t \in Threads : In(e, thread[t].todo)))
BY InDomain DEF Held, InQueue, UnderWay, In

LEMMA HeldNext ==
  ASSUME queue' \in Seq(Entries), NEW e
  PROVE  Held(e)' <=> (In(e, queue') \/ \E t \in Threads : In(e, thread'[t].todo))
<1>1. (\E i \in DOMAIN queue' : queue'[i] = e) <=> In(e, queue')
  BY InDomain
<1> QED
  BY <1>1 DEF Held, InQueue, UnderWay, In

\* An answer reaches whoever waits for it.
LEMMA Answered ==
  ASSUME FieldTyped, NEW h \in Handlers, NEW fail \in BOOLEAN,
         (fail /\ Answers(h, Fails)) \/ (~fail /\ Answers(h, Succeeds))
  PROVE  \/ (\A t \in Threads : thread[t].waits # h) /\ UNCHANGED <<queue, thread>>
         \/ \E t \in Threads : /\ thread[t].waits = h /\ thread[t].todo # <<>>
                               /\ (fail /\ Fails(t)) \/ (~fail /\ Succeeds(t))
<1>1. CASE Waiting(h) = {}
  BY <1>1 DEF Answers, Waiting
<1>2. CASE Waiting(h) # {}
  <2>1. PICK t \in Waiting(h) : TRUE
    BY <1>2
  <2>2. t \in Threads /\ thread[t].waits = h
    BY <2>1 DEF Waiting
  <2>3. thread[t].todo # <<>>
    BY <2>2, FieldConstants DEF FieldTyped, RowOK
  <2>4. (fail /\ Fails(t)) \/ (~fail /\ Succeeds(t))
    BY <1>2, <2>1 DEF Answers
  <2> QED
    BY <2>2, <2>3, <2>4
<1> QED
  BY <1>1, <1>2

\* Types are kept.
LEMMA TypedResolving ==
  ASSUME FieldTyped, NEW t \in Threads, thread[t].todo # <<>>, NEW fail \in BOOLEAN,
         (fail /\ Fails(t)) \/ (~fail /\ Succeeds(t))
  PROVE  /\ queue' \in Seq(Entries) /\ thread' \in [Threads -> PhoneRow]
         /\ \A u \in Threads : RowOK(thread'[u]) /\ CallOK(thread'[u])
<1>1. PICK r : Goes(t, r) /\ Resolved(thread[t], queue, fail, r, queue')
  BY Resolves
<1>2. thread \in [Threads -> PhoneRow] /\ \A u \in Threads : RowOK(thread[u]) /\ CallOK(thread[u])
  BY DEF FieldTyped
<1>3. r \in PhoneRow /\ queue' \in Seq(Entries) /\ RowOK(r) /\ CallOK(r)
  BY <1>1 DEF Resolved
<1> QED
  BY <1>1, <1>2, <1>3 DEF Goes

LEMMA TypedAnswering ==
  ASSUME FieldTyped, NEW h \in Handlers, NEW fail \in BOOLEAN,
         (fail /\ Answers(h, Fails)) \/ (~fail /\ Answers(h, Succeeds))
  PROVE  /\ queue' \in Seq(Entries) /\ thread' \in [Threads -> PhoneRow]
         /\ \A u \in Threads : RowOK(thread'[u]) /\ CallOK(thread'[u])
<1>1. CASE UNCHANGED <<queue, thread>>
  BY <1>1 DEF FieldTyped
<1>2. CASE \E t \in Threads : /\ thread[t].waits = h /\ thread[t].todo # <<>>
                              /\ (fail /\ Fails(t)) \/ (~fail /\ Succeeds(t))
  BY <1>2, TypedResolving
<1> QED
  BY <1>1, <1>2, Answered

LEMMA TypedFreeing ==
  ASSUME FieldTyped, NEW h \in Handlers, handler' = [handler EXCEPT ![h] = Free]
  PROVE  handler' \in [Handlers -> ServerRow] /\ \A k \in Handlers : RequestOK(handler'[k])
BY FieldConstants DEF FieldTyped

LEMMA TypedField ==
  ASSUME FieldTyped, [NextField]_field
  PROVE  FieldTyped'
<1> USE DEF FieldTyped
<1>1. ASSUME NEW t \in Threads, NEW e \in Entries, Execute(t, e) PROVE FieldTyped'
  <2>1. queue' \in Seq(Entries) /\ thread' \in [Threads -> PhoneRow]
        /\ \A u \in Threads : RowOK(thread'[u]) /\ CallOK(thread'[u])
    <3>1. CASE online
      <4> DEFINE r == [op |-> "call", todo |-> <<e>>, kept |-> <<>>, waits |-> "none"]
      <4>1. queue' = queue /\ thread' = [thread EXCEPT ![t] = r]
        BY <1>1, <3>1 DEF Execute, Goes, Rest
      <4>2. r \in PhoneRow /\ RowOK(r) /\ CallOK(r)
        BY DEF PhoneRow, RowOK, CallOK
      <4> HIDE DEF r
      <4> QED
        BY <4>1, <4>2
    <3>2. CASE ~online
      BY <1>1, <3>2, AppendIn DEF Execute
    <3> QED
      BY <3>1, <3>2
  <2> QED
    BY <1>1, <2>1 DEF Execute, server
<1>2. ASSUME NEW t \in Threads, Flush(t) PROVE FieldTyped'
  <2>1. thread' \in [Threads -> PhoneRow] /\ \A u \in Threads : RowOK(thread'[u]) /\ CallOK(thread'[u])
    <3>1. CASE online /\ queue # <<>>
      <4> DEFINE r == [op |-> "flush", todo |-> queue, kept |-> <<>>, waits |-> "none"]
      <4>1. thread' = [thread EXCEPT ![t] = r]
        BY <1>2, <3>1 DEF Flush, Goes, Rest
      <4>2. r \in PhoneRow /\ RowOK(r) /\ CallOK(r)
        BY <3>1 DEF PhoneRow, RowOK, CallOK
      <4> HIDE DEF r
      <4> QED
        BY <4>1, <4>2
    <3> QED
      BY <1>2, <3>1 DEF Flush
  <2> QED
    BY <1>2, <2>1 DEF Flush, server
<1>3. ASSUME NEW t \in Threads, Send(t) PROVE FieldTyped'
  <2>1. PICK h \in Handlers :
          /\ handler[h] = Free
          /\ handler' = [handler EXCEPT ![h] = [Free EXCEPT !.entry = Head(thread[t].todo), !.at = "arrived"]]
          /\ Goes(t, [thread[t] EXCEPT !.waits = h])
    BY <1>3 DEF Send
  <2> DEFINE v == [Free EXCEPT !.entry = Head(thread[t].todo), !.at = "arrived"]
             r == [thread[t] EXCEPT !.waits = h]
  <2>2. thread[t].todo # <<>> /\ Head(thread[t].todo) \in Entries
    BY <1>3, TailIn DEF Send, PhoneRow
  <2>3. v \in ServerRow /\ RequestOK(v)
    BY <2>2 DEF Free, ServerRow, Counters, RequestOK
  <2>4. r \in PhoneRow /\ r.todo = thread[t].todo /\ r.op = thread[t].op
    BY DEF PhoneRow
  <2>5. thread[t].op # "none"
    BY <2>2, FieldConstants DEF RowOK
  <2> HIDE DEF r, v
  <2>6. RowOK(r) /\ CallOK(r)
    BY <2>2, <2>4, <2>5 DEF RowOK, CallOK
  <2>7. handler' = [handler EXCEPT ![h] = v] /\ thread' = [thread EXCEPT ![t] = r]
    BY <2>1 DEF Goes, r, v
  <2>8. handler' \in [Handlers -> ServerRow] /\ \A k \in Handlers : RequestOK(handler'[k])
    BY <2>3, <2>7
  <2>9. thread' \in [Threads -> PhoneRow] /\ \A u \in Threads : RowOK(thread'[u]) /\ CallOK(thread'[u])
    BY <2>4, <2>6, <2>7
  <2> QED
    BY <1>3, <2>8, <2>9 DEF Send
<1>4. ASSUME NEW t \in Threads, SendOffline(t) PROVE FieldTyped'
  <2>1. thread[t].todo # <<>> /\ Fails(t) /\ UNCHANGED <<handler, stop, ledger, losses>>
    BY <1>4 DEF SendOffline, server
  <2> QED
    BY <2>1, TypedResolving
<1>5. ASSUME NEW t \in Threads, LoseAnswer(t) PROVE FieldTyped'
  <2>1. thread[t].waits # "none" /\ Fails(t) /\ losses' = losses + 1 /\ UNCHANGED <<handler, stop, ledger>>
    BY <1>5 DEF LoseAnswer, server
  <2>2. thread[t].todo # <<>>
    BY <2>1, FieldConstants DEF RowOK
  <2>3. /\ queue' \in Seq(Entries) /\ thread' \in [Threads -> PhoneRow]
        /\ \A u \in Threads : RowOK(thread'[u]) /\ CallOK(thread'[u])
    BY <2>1, <2>2, TypedResolving
  <2>4. losses' \in Nat
    BY <2>1
  <2> QED
    BY <2>1, <2>3, <2>4
<1>6. ASSUME NEW h \in Handlers, ReadStop(h) PROVE FieldTyped'
  <2> DEFINE a == [handler[h] EXCEPT !.at = "read"]
             v == [a EXCEPT !.seen = stop]
  <2>1. handler' = [handler EXCEPT ![h] = v] /\ UNCHANGED <<queue, thread, losses, stop, ledger>>
    BY <1>6 DEF ReadStop, phone
  <2>2. a \in ServerRow /\ a.entry = handler[h].entry /\ a.at = "read"
    BY DEF ServerRow
  <2> HIDE DEF a
  <2>3. v \in ServerRow /\ v.entry = handler[h].entry /\ v.at = "read"
    BY <2>2 DEF ServerRow
  <2>4. handler[h].entry \in Entries
    BY <1>6, FieldConstants DEF ReadStop, RequestOK
  <2> HIDE DEF v
  <2> QED
    BY <2>1, <2>3, <2>4 DEF RequestOK
<1>7. ASSUME NEW h \in Handlers, Record(h) PROVE FieldTyped'
  <2> DEFINE v == [handler[h] EXCEPT !.at = "recorded"]
  <2>1. /\ handler' = [handler EXCEPT ![h] = v] /\ UNCHANGED <<queue, thread, losses, stop>>
        /\ ledger' = [ledger EXCEPT ![handler[h].entry] = @ + 1]
    BY <1>7 DEF Record, phone
  <2>2. v \in ServerRow /\ v.entry = handler[h].entry /\ v.at = "recorded"
    BY DEF ServerRow
  <2>3. handler[h].entry \in Entries
    BY <1>7, FieldConstants DEF Record, RequestOK
  <2> HIDE DEF v
  <2>4. handler' \in [Handlers -> ServerRow] /\ \A k \in Handlers : RequestOK(handler'[k])
    BY <2>1, <2>2, <2>3 DEF RequestOK
  <2>5. ledger' \in [Entries -> Nat]
    BY <2>1, <2>3
  <2> QED
    BY <2>1, <2>4, <2>5
<1>8. ASSUME NEW h \in Handlers, WriteStop(h) PROVE FieldTyped'
  <2>1. Answers(h, Succeeds) /\ handler' = [handler EXCEPT ![h] = Free] /\ UNCHANGED <<losses, ledger>>
    BY <1>8 DEF WriteStop
  <2>2. stop' \in Counters
    <3>1. handler[h].seen \in Counters /\ stop' = Counted(handler[h].seen, handler[h].entry)
      BY <1>8 DEF WriteStop, ServerRow
    <3> QED
      BY <3>1 DEF Counted, Counters
  <2>3. /\ queue' \in Seq(Entries) /\ thread' \in [Threads -> PhoneRow]
        /\ \A u \in Threads : RowOK(thread'[u]) /\ CallOK(thread'[u])
    BY <2>1, TypedAnswering
  <2> QED
    BY <2>1, <2>2, <2>3, TypedFreeing
<1>9. ASSUME NEW h \in Handlers, Refuse(h) PROVE FieldTyped'
  <2>1. Answers(h, Fails) /\ handler' = [handler EXCEPT ![h] = Free] /\ UNCHANGED <<losses, stop, ledger>>
    BY <1>9 DEF Refuse
  <2>3. /\ queue' \in Seq(Entries) /\ thread' \in [Threads -> PhoneRow]
        /\ \A u \in Threads : RowOK(thread'[u]) /\ CallOK(thread'[u])
    BY <2>1, TypedAnswering
  <2> QED
    BY <2>1, <2>3, TypedFreeing
<1>10. ASSUME NEW h \in Handlers, DieRecorded(h) PROVE FieldTyped'
  <2>1. Answers(h, Fails) /\ handler' = [handler EXCEPT ![h] = Free] /\ losses' = losses + 1 /\ UNCHANGED <<stop, ledger>>
    BY <1>10 DEF DieRecorded
  <2>3. /\ queue' \in Seq(Entries) /\ thread' \in [Threads -> PhoneRow]
        /\ \A u \in Threads : RowOK(thread'[u]) /\ CallOK(thread'[u])
    BY <2>1, TypedAnswering
  <2>4. losses' \in Nat
    BY <2>1
  <2>5. handler' \in [Handlers -> ServerRow] /\ \A k \in Handlers : RequestOK(handler'[k])
    BY <2>1, TypedFreeing
  <2> QED
    BY <2>1, <2>3, <2>4, <2>5
<1>11. ASSUME GoOffline \/ GoOnline \/ (\E e \in Entries : Expire(e)) PROVE FieldTyped'
  BY <1>11 DEF GoOffline, GoOnline, Expire, server
<1>12. ASSUME Reload PROVE FieldTyped'
  BY <1>12, FieldConstants DEF Reload, server
<1>13. ASSUME UNCHANGED field PROVE FieldTyped'
  BY <1>13 DEF field
<1> QED
  BY <1>1, <1>2, <1>3, <1>4, <1>5, <1>6, <1>7, <1>8, <1>9, <1>10, <1>11, <1>12, <1>13 DEF NextField, Phone, Server

-----------------------------------------------------------------------
\* What a patient phone does: the invariant with its hypothesis discharged.
Patiently == OneThing /\ Covered /\ \A e \in Entries \ unsure : Sure(e)

\* The others rest.
LEMMA Alone ==
  ASSUME FieldTyped, OneThing, NEW t \in Threads, thread[t] # Rest, NEW r, Goes(t, r)
  PROVE  thread'[t] = r /\ \A u \in Threads : u # t => thread[u] = Rest /\ thread'[u] = Rest
BY DEF FieldTyped, OneThing, Goes

\* A call or a flush deals with its first entry.
LEMMA PatientResolving ==
  ASSUME FieldTyped, FieldTyped', patient, Patiently,
         NEW t \in Threads, thread[t].todo # <<>>, NEW fail \in BOOLEAN,
         (fail /\ Fails(t)) \/ (~fail /\ Succeeds(t)),
         ledger' = ledger, entered' = entered, unsure \subseteq unsure',
         \A k \in Handlers : handler'[k] = handler[k] \/ handler'[k] = Free,
         \A k \in Handlers : handler'[k] # Free /\ thread[t].waits = k => Head(thread[t].todo) \in unsure',
         fail => Head(thread[t].todo) \in unsure' \/ ledger[Head(thread[t].todo)] = 0,
         ~fail => ledger[Head(thread[t].todo)] > 0
  PROVE  Patiently'
<1> DEFINE o == thread[t]
           x == Head(o.todo)
<1>1. PICK r : Goes(t, r) /\ Resolved(o, queue, fail, r, queue')
  BY Resolves
<1>2. o.op \in {"call", "flush"} /\ x \in Entries /\ In(x, o.todo)
  BY Resolves
<1>3. o # Rest
  BY FieldConstants
<1>4. thread'[t] = r /\ \A u \in Threads : u # t => thread[u] = Rest /\ thread'[u] = Rest
  BY <1>1, <1>3, Alone DEF Patiently
<1>5. /\ r.waits = "none"
      /\ r # Rest => r.op = "flush" /\ o.op = "flush" /\ queue' = queue
      /\ o.op = "call" => /\ r = Rest
                          /\ \A e : In(e, o.todo) <=> e = x
                          /\ \A e : In(e, queue') <=> (In(e, queue) \/ (fail /\ e = x))
                          /\ \A e : Once(e, queue) /\ (fail /\ e = x => ~In(e, queue)) => Once(e, queue')
      /\ o.op = "flush" /\ r = Rest =>
           /\ \A e : In(e, o.todo) <=> e = x
           /\ \A e : In(e, queue') <=> (In(e, o.kept) \/ (fail /\ e = x))
           /\ \A e : Once(e, o.kept) /\ (fail /\ e = x => ~In(e, o.kept)) => Once(e, queue')
      /\ o.op = "flush" /\ r # Rest =>
           /\ \A e : In(e, o.todo) <=> (e = x \/ In(e, r.todo))
           /\ \A e : Once(e, o.todo) => Once(e, r.todo) /\ ~(e = x /\ In(e, r.todo))
           /\ \A e : In(e, r.kept) <=> (In(e, o.kept) \/ (fail /\ e = x))
           /\ \A e : Once(e, o.kept) /\ (fail /\ e = x => ~In(e, o.kept)) => Once(e, r.kept)
  BY <1>1 DEF Resolved
<1>6. queue \in Seq(Entries) /\ queue' \in Seq(Entries) /\ ledger \in [Entries -> Nat]
  BY DEF FieldTyped
<1>7. ASSUME NEW e PROVE /\ Held(e) <=> (In(e, queue) \/ In(e, o.todo))
                         /\ Held(e)' <=> (In(e, queue') \/ In(e, r.todo))
  BY <1>4, <1>6, HeldIs, HeldNext, FieldConstants
<1>8. /\ \A e \in entered : ledger[e] = 0 => Held(e)
      /\ \A e \in Entries : Covers(o, e)
  BY DEF Patiently, Covered
<1>9. \A e \in Entries \ unsure : Sure(e) /\ Placed(o, e)
  BY DEF Patiently, Sure
<1>10. \A k \in Handlers : handler'[k] # Free => handler'[k] = handler[k]
  OBVIOUS
<1>11. \A e : ~In(e, Rest.todo) /\ ~In(e, Rest.kept) /\ Once(e, Rest.todo) /\ Once(e, Rest.kept)
  BY NothingIn DEF Rest
<1>12. /\ fail => x \in unsure' \/ ledger[x] = 0
       /\ ~fail => ledger[x] > 0
       /\ \A k \in Handlers : handler'[k] # Free /\ o.waits = k => x \in unsure'
  OBVIOUS
<1>13. /\ \A k, l \in Handlers : handler[k] # Free /\ handler[l] # Free => k = l
       /\ o.waits # "none" => handler[o.waits].entry = x
       /\ \A k \in Handlers : handler[k].at = "recorded" => ledger[handler[k].entry] > 0
  BY DEF Patiently, OneThing
<1>14. Rest.op = "none" /\ Rest.waits = "none" /\ Free.entry = "none" /\ Free.at = "none" /\ "none" \notin Entries
  BY FieldConstants
<1> HIDE DEF o, x
<1>20. OneThing'
  <2>1. \A u, w \in Threads : thread'[u] # Rest /\ thread'[w] # Rest => u = w
    BY <1>4
  <2>2. \A k, l \in Handlers : handler'[k] # Free /\ handler'[l] # Free => k = l
    BY <1>10, <1>13
  <2>3. \A u \in Threads : thread'[u].waits = "none"
    BY <1>4, <1>5, <1>14
  <2>4. \A k \in Handlers : handler'[k].at = "recorded" => ledger'[handler'[k].entry] > 0
    BY <1>10, <1>13, <1>14
  <2> QED
    BY <2>1, <2>2, <2>3, <2>4 DEF OneThing
<1>21. ASSUME NEW e \in entered', ledger'[e] = 0 PROVE Held(e)'
  <2>1. In(e, queue) \/ In(e, o.todo)
    BY <1>7, <1>8, <1>21
  <2>2. e \in Entries
    <3>1. In(e, queue) => e \in Entries
      BY <1>6 DEF In
    <3>2. o.todo \in Seq(Entries)
      BY DEF FieldTyped, PhoneRow, o
    <3>3. In(e, o.todo) => e \in Entries
      BY <3>2 DEF In
    <3> QED
      BY <2>1, <3>1, <3>3
  <2>3. e = x => fail
    BY <1>2, <1>6, <1>12, <1>21
  <2>4. o.op = "flush" => In(e, queue) /\ (In(e, o.todo) \/ In(e, o.kept))
    BY <1>8, <1>21, <2>1, <2>2 DEF Covers
  <2> QED
    BY <1>2, <1>5, <1>7, <2>1, <2>3, <2>4
<1>22. ASSUME NEW e \in Entries PROVE Covers(r, e)'
  <2> SUFFICES ASSUME r.op = "flush"
               PROVE  /\ In(e, queue') /\ ledger'[e] = 0 => (In(e, r.todo) \/ In(e, r.kept))
                      /\ (In(e, r.todo) \/ In(e, r.kept)) => In(e, queue')
    BY DEF Covers
  <2>1. r # Rest /\ o.op = "flush"
    BY <1>5, <1>14
  <2>2. e = x /\ ledger[e] = 0 => fail
    BY <1>2, <1>6, <1>12
  <2> QED
    BY <1>2, <1>5, <1>8, <2>1, <2>2 DEF Covers
<1>23. Covered'
  <2>1. ASSUME NEW u \in Threads, NEW e \in Entries PROVE Covers(thread[u], e)'
    <3>1. CASE u = t
      BY <1>4, <1>22, <3>1 DEF Covers
    <3>2. CASE u # t
      BY <1>4, <1>14, <3>2 DEF Covers
    <3> QED
      BY <3>1, <3>2
  <2> QED
    BY <1>21, <2>1 DEF Covered, Patiently
<1>24. ASSUME NEW e \in Entries \ unsure' PROVE Sure(e)'
  <2>1. Sure(e) /\ Placed(o, e) /\ Covers(o, e)
    BY <1>8, <1>9, <1>24
  <2>2. /\ ledger[e] <= 1 /\ Once(e, queue) /\ (~Flushing /\ In(e, queue) => ledger[e] = 0)
        /\ e \notin entered => ledger[e] = 0 /\ ~Held(e)
    BY <2>1 DEF Sure
  <2>3. /\ Once(e, o.todo) /\ Once(e, o.kept) /\ ~(In(e, o.todo) /\ In(e, o.kept))
        /\ o.op = "call" /\ In(e, o.todo) => ~In(e, queue)
        /\ In(e, o.kept) => ledger[e] = 0
        /\ In(e, o.todo) /\ ledger[e] # 0 => x = e
    BY <2>1 DEF Placed, x
  <2>4. o.op = "flush" /\ (In(e, o.todo) \/ In(e, o.kept)) => In(e, queue)
    BY <2>1 DEF Covers
  <2>5. fail /\ e = x => ledger[e] = 0
    BY <1>12, <1>24
  <2>6. o.op = "call" => ~Flushing
    BY <1>4, <1>14 DEF Flushing, o
  <2>7. r # Rest => Flushing'
    BY <1>4, <1>5 DEF Flushing
  <2>8. Once(e, queue')
    BY <1>2, <1>5, <2>2, <2>3
  <2>9. ~Flushing' /\ In(e, queue') => ledger[e] = 0
    BY <1>2, <1>5, <2>2, <2>3, <2>5, <2>6, <2>7
  <2>10. e \notin entered => ~Held(e)'
    BY <1>2, <1>5, <1>7, <1>11, <2>2, <2>4
  <2>11. ASSUME NEW k \in Handlers, handler'[k].entry = e PROVE FALSE
    <3>1. handler'[k] # Free /\ handler[k].entry = e
      BY <1>10, <1>14, <2>11
    <3>2. PICK u \in Threads : thread[u].waits = k
      BY <2>1, <3>1 DEF Sure
    <3>3. u = t /\ o.waits = k
      BY <1>4, <1>14, <3>2, FieldConstants DEF o
    <3>4. x \in unsure' /\ e = x
      BY <1>12, <1>13, <3>1, <3>3, FieldConstants
    <3> QED
      BY <1>24, <3>4
  <2>12. ASSUME NEW u \in Threads PROVE Placed(thread[u], e)'
    <3>1. CASE thread'[u] = Rest
      BY <1>11, <1>14, <3>1 DEF Placed
    <3>2. CASE thread'[u] # Rest
      <4>1. thread'[u] = r /\ o.op = "flush" /\ r.op = "flush" /\ r # Rest
        BY <1>4, <1>5, <3>2
      <4>2. Once(e, r.todo) /\ Once(e, r.kept) /\ ~(In(e, r.todo) /\ In(e, r.kept)) /\ (In(e, r.kept) => ledger[e] = 0)
        BY <1>5, <2>3, <2>5, <4>1
      <4>3. In(e, r.todo) => ledger[e] = 0
        BY <1>5, <2>3, <4>1
      <4> QED
        BY <4>1, <4>2, <4>3 DEF Placed
    <3> QED
      BY <3>1, <3>2
  <2> QED
    BY <2>2, <2>8, <2>9, <2>10, <2>11, <2>12 DEF Sure
<1> QED
  BY <1>20, <1>23, <1>24 DEF Patiently

\* The server ends a request that nobody waits for any more.
LEMMA PatientFreeing ==
  ASSUME FieldTyped, Patiently, NEW h \in Handlers, \A t \in Threads : thread[t].waits # h,
         handler' = [handler EXCEPT ![h] = Free], UNCHANGED <<queue, thread, ledger, entered>>, unsure \subseteq unsure'
  PROVE  Patiently'
<1>1. \A k \in Handlers : handler'[k] = handler[k] \/ handler'[k] = Free
  BY DEF FieldTyped
<1>2. \A k \in Handlers : k # h => handler'[k] = handler[k]
  BY DEF FieldTyped
<1>3. Free.entry = "none" /\ Free.at = "none" /\ "none" \notin Entries
  BY FieldConstants
<1>4. \A t \in Threads : thread[t].waits # "none" => thread[t].waits \in Handlers \ {h}
  BY DEF FieldTyped, PhoneRow
<1>5. OneThing'
  <2>1. \A t, u \in Threads : thread'[t] # Rest /\ thread'[u] # Rest => t = u
    BY DEF Patiently, OneThing
  <2>2. \A k, l \in Handlers : handler'[k] # Free /\ handler'[l] # Free => k = l
    BY <1>1 DEF Patiently, OneThing
  <2>3. \A t \in Threads : thread'[t].waits # "none" => handler'[thread'[t].waits].entry = Head(thread'[t].todo)
    BY <1>2, <1>4 DEF Patiently, OneThing
  <2>4. \A k \in Handlers : handler'[k].at = "recorded" => ledger'[handler'[k].entry] > 0
    BY <1>1, <1>3 DEF Patiently, OneThing
  <2> QED
    BY <2>1, <2>2, <2>3, <2>4 DEF OneThing
<1>6. Covered'
  BY DEF Patiently, Covered, Covers, Held, InQueue, UnderWay
<1>7. ASSUME NEW e \in Entries \ unsure' PROVE Sure(e)'
  <2>1. Sure(e)
    BY <1>7 DEF Patiently
  <2>2. \A k \in Handlers : handler'[k].entry = e =>
          /\ \E t \in Threads : thread'[t].waits = k
          /\ handler'[k].at # "recorded" => ledger'[e] = 0
    BY <1>1, <1>3, <1>7, <2>1 DEF Sure
  <2>3. ASSUME NEW t \in Threads PROVE Placed(thread[t], e)'
    BY <1>2, <1>4, <2>1 DEF Sure, Placed
  <2>4. Held(e)' = Held(e) /\ Flushing' = Flushing
    BY DEF Held, InQueue, UnderWay, Flushing
  <2> QED
    BY <2>1, <2>2, <2>3, <2>4 DEF Sure
<1> QED
  BY <1>5, <1>6, <1>7 DEF Patiently

\* Answers, to whoever waits or to nobody.
LEMMA PatientAnswering ==
  ASSUME FieldTyped, FieldTyped', patient, Patiently,
         NEW h \in Handlers, NEW fail \in BOOLEAN,
         (fail /\ Answers(h, Fails)) \/ (~fail /\ Answers(h, Succeeds)),
         handler' = [handler EXCEPT ![h] = Free],
         ledger' = ledger, entered' = entered, unsure \subseteq unsure',
         fail => handler[h].entry \in unsure' \/ ledger[handler[h].entry] = 0
                 \/ handler[h].at # "recorded",
         handler[h] # Free, ~fail => ledger[handler[h].entry] > 0
  PROVE  Patiently'
<1>1. CASE (\A t \in Threads : thread[t].waits # h) /\ UNCHANGED <<queue, thread>>
  BY <1>1, PatientFreeing
<1>2. ASSUME NEW t \in Threads, thread[t].waits = h, thread[t].todo # <<>>,
             (fail /\ Fails(t)) \/ (~fail /\ Succeeds(t))
      PROVE  Patiently'
  <2> DEFINE x == Head(thread[t].todo)
  <2>1. x = handler[h].entry
    BY <1>2, FieldConstants DEF Patiently, OneThing
  <2>2. fail => x \in unsure' \/ ledger[x] = 0
    <3>1. CASE x \in unsure
      BY <3>1
    <3>2. CASE x \notin unsure
      <4>1. x \in Entries
        BY <1>2, Resolves
      <4>2. Sure(x)
        BY <3>2, <4>1 DEF Patiently
      <4> QED
        BY <2>1, <4>2 DEF Sure
    <3> QED
      BY <3>1, <3>2
  <2>3. ~fail => ledger[x] > 0
    BY <2>1
  <2>4. \A k \in Handlers : handler'[k] = handler[k] \/ handler'[k] = Free
    BY DEF FieldTyped
  <2>5. \A k \in Handlers : handler'[k] # Free /\ thread[t].waits = k => x \in unsure'
    BY <1>2 DEF FieldTyped
  <2> HIDE DEF x
  <2> QED
    BY <1>2, <2>2, <2>3, <2>4, <2>5, PatientResolving DEF x
<1> QED
  BY <1>1, <1>2, Answered

-----------------------------------------------------------------------
\* The phone begins something: it rests, and so does the server.
LEMMA PatientExecute ==
  ASSUME FieldTyped, FieldTyped', patient, Patiently, NEW t \in Threads, NEW x \in Entries, Execute(t, x)
  PROVE  Patiently'
<1>1. /\ \A h \in Handlers : handler'[h] = Free /\ handler[h] = Free
      /\ \A u \in Threads : thread[u] = Rest
      /\ x \notin entered /\ entered' = entered \cup {x}
      /\ UNCHANGED <<unsure, ledger>>
  BY DEF Execute, CanStart, ServerRests, server
<1>2. queue \in Seq(Entries) /\ queue' \in Seq(Entries) /\ ledger \in [Entries -> Nat]
  BY DEF FieldTyped
<1>3. ~Flushing
  BY <1>1, FieldConstants DEF Flushing
<1>4. /\ \A e : Held(e) <=> In(e, queue)
      /\ \A e : Held(e)' <=> (In(e, queue') \/ \E u \in Threads : In(e, thread'[u].todo))
  BY <1>1, <1>2, HeldIs, HeldNext, FieldConstants
<1>5. /\ \A e \in entered : ledger[e] = 0 => In(e, queue)
      /\ \A e \in Entries \ unsure : Sure(e)
  BY <1>4 DEF Patiently, Covered
<1>6. Free.entry = "none" /\ Free.at = "none" /\ "none" \notin Entries
  BY FieldConstants
<1>7. CASE online
  <2> DEFINE r == [op |-> "call", todo |-> <<x>>, kept |-> <<>>, waits |-> "none"]
  <2>1. queue' = queue /\ thread' = [thread EXCEPT ![t] = r]
    BY <1>7 DEF Execute, Goes, Rest
  <2>2. /\ r.op = "call" /\ r.waits = "none" /\ \A e : (In(e, r.todo) <=> e = x)
        /\ \A e : Once(e, r.todo) /\ Once(e, r.kept) /\ ~In(e, r.kept)
    BY DEF In, Once
  <2> HIDE DEF r
  <2>3. thread'[t] = r /\ \A u \in Threads : u # t => thread'[u] = Rest
    BY <1>1, <2>1 DEF FieldTyped
  <2>4. OneThing'
    BY <1>1, <1>6, <2>2, <2>3, FieldConstants DEF OneThing
  <2>5. Covered'
    <3>1. \A e \in entered' : ledger'[e] = 0 => Held(e)'
      BY <1>1, <1>4, <1>5, <2>1, <2>2, <2>3
    <3>2. \A u \in Threads : thread'[u].op # "flush"
      BY <2>2, <2>3, FieldConstants
    <3> QED
      BY <1>1, <3>1, <3>2 DEF Covered, Covers, Patiently
  <2>6. ASSUME NEW e \in Entries \ unsure' PROVE Sure(e)'
    <3>1. Sure(e)
      BY <1>1, <1>5, <2>6
    <3>2. /\ ledger'[e] <= 1 /\ Once(e, queue') /\ (In(e, queue') => ledger'[e] = 0)
          /\ e \notin entered' => ledger'[e] = 0 /\ ~Held(e)'
      <4>1. e # x /\ e \notin entered => \A u \in Threads : ~In(e, thread'[u].todo)
        BY <2>2, <2>3, FieldConstants
      <4> QED
        BY <1>1, <1>3, <1>4, <2>1, <3>1, <4>1 DEF Sure
    <3>3. e = x => ledger[e] = 0 /\ ~In(e, queue)
      BY <1>1, <1>4, <3>1 DEF Sure
    <3>4. ASSUME NEW u \in Threads PROVE Placed(thread[u], e)'
      <4>1. CASE u = t
        BY <1>1, <2>1, <2>2, <2>3, <3>3, <4>1 DEF Placed
      <4>2. CASE u # t
        BY <2>3, <4>2, NothingIn DEF Placed, Rest
      <4> QED
        BY <4>1, <4>2
    <3> QED
      BY <1>1, <1>6, <2>6, <3>2, <3>4 DEF Sure
  <2> QED
    BY <2>4, <2>5, <2>6 DEF Patiently
<1>8. CASE ~online
  <2>1. queue' = Append(queue, x) /\ thread' = thread
    BY <1>8 DEF Execute
  <2>2. /\ \A e : In(e, queue') <=> (e = x \/ In(e, queue))
        /\ \A e : Once(e, queue) /\ (e = x => ~In(e, queue)) => Once(e, queue')
    BY <1>2, <2>1, AppendIn
  <2>3. \A u \in Threads : thread'[u] = Rest
    BY <1>1, <2>1
  <2>4. OneThing'
    BY <1>1, <1>6, <2>3, FieldConstants DEF OneThing
  <2>5. Covered'
    BY <1>1, <1>4, <1>5, <2>2, <2>3, FieldConstants DEF Covered, Covers, Patiently
  <2>6. ASSUME NEW e \in Entries \ unsure' PROVE Sure(e)'
    <3>1. Sure(e)
      BY <1>1, <1>5, <2>6
    <3>2. e = x => ledger[e] = 0 /\ ~In(e, queue)
      BY <1>1, <1>4, <3>1 DEF Sure
    <3>3. \A u \in Threads : Placed(thread[u], e)'
      BY <2>3, NothingIn DEF Placed, Rest
    <3>4. /\ ledger'[e] <= 1 /\ Once(e, queue') /\ (In(e, queue') => ledger'[e] = 0)
          /\ e \notin entered' => ledger'[e] = 0 /\ ~Held(e)'
      BY <1>1, <1>3, <1>4, <2>2, <2>3, <3>1, <3>2, FieldConstants DEF Sure
    <3> QED
      BY <1>1, <1>6, <2>6, <3>3, <3>4 DEF Sure
  <2> QED
    BY <2>4, <2>5, <2>6 DEF Patiently
<1> QED
  BY <1>7, <1>8

LEMMA PatientFlush ==
  ASSUME FieldTyped, FieldTyped', patient, Patiently, NEW t \in Threads, Flush(t)
  PROVE  Patiently'
<1>1. /\ \A h \in Handlers : handler'[h] = Free
      /\ \A u \in Threads : thread[u] = Rest
      /\ UNCHANGED <<queue, unsure, ledger, entered>>
  BY DEF Flush, CanStart, ServerRests, server
<1>2. queue \in Seq(Entries) /\ queue' \in Seq(Entries) /\ ledger \in [Entries -> Nat]
  BY DEF FieldTyped
<1>3. ~Flushing
  BY <1>1, FieldConstants DEF Flushing
<1>4. /\ \A e : Held(e) <=> In(e, queue)
      /\ \A e : Held(e)' <=> (In(e, queue') \/ \E u \in Threads : In(e, thread'[u].todo))
  BY <1>1, <1>2, HeldIs, HeldNext, FieldConstants
<1>5. /\ \A e \in entered : ledger[e] = 0 => In(e, queue)
      /\ \A e \in Entries \ unsure : Sure(e)
  BY <1>4 DEF Patiently, Covered
<1>6. Free.entry = "none" /\ Free.at = "none" /\ "none" \notin Entries
  BY FieldConstants
<1>7. \A u \in Threads : \/ thread'[u] = Rest
                         \/ u = t /\ thread'[u] = [op |-> "flush", todo |-> queue, kept |-> <<>>, waits |-> "none"]
  BY <1>1 DEF Flush, Goes, Rest, FieldTyped
<1>8. ASSUME NEW u \in Threads
      PROVE  /\ thread'[u] # Rest => u = t
             /\ thread'[u].waits = "none" /\ thread'[u].op # "call"
             /\ \A e : (In(e, thread'[u].todo) => In(e, queue)) /\ ~In(e, thread'[u].kept)
             /\ \A e : thread'[u].op = "flush" /\ In(e, queue) => In(e, thread'[u].todo)
             /\ \A e : Once(e, queue) => Once(e, thread'[u].todo) /\ Once(e, thread'[u].kept)
  <2>1. CASE thread'[u] = Rest
    BY <2>1, NothingIn DEF Rest
  <2>2. CASE u = t /\ thread'[u] = [op |-> "flush", todo |-> queue, kept |-> <<>>, waits |-> "none"]
    BY <2>2, NothingIn
  <2> QED
    BY <1>7, <2>1, <2>2
<1>9. OneThing'
  BY <1>1, <1>6, <1>8 DEF OneThing
<1>10. Covered'
  BY <1>1, <1>4, <1>5, <1>8 DEF Covered, Covers, Patiently
<1>11. ASSUME NEW e \in Entries \ unsure' PROVE Sure(e)'
  <2>1. Sure(e)
    BY <1>1, <1>5, <1>11
  <2>2. In(e, queue) => ledger[e] = 0
    BY <1>3, <2>1 DEF Sure
  <2>3. \A u \in Threads : Placed(thread[u], e)'
    BY <1>1, <1>8, <2>1, <2>2 DEF Placed, Sure
  <2>4. e \notin entered' => ledger'[e] = 0 /\ ~Held(e)'
    BY <1>1, <1>4, <1>8, <2>1 DEF Sure
  <2> QED
    BY <1>1, <1>6, <1>11, <2>1, <2>2, <2>3, <2>4 DEF Sure
<1> QED
  BY <1>9, <1>10, <1>11 DEF Patiently


\* An entry is sent that was not recorded, unless its fate is unknown.
LEMMA PatientSend ==
  ASSUME FieldTyped, FieldTyped', patient, Patiently, NEW t \in Threads, Send(t)
  PROVE  Patiently'
<1> DEFINE o == thread[t]
           x == Head(o.todo)
<1>1. PICK h \in Handlers :
        /\ handler' = [handler EXCEPT ![h] = [Free EXCEPT !.entry = x, !.at = "arrived"]]
        /\ Goes(t, [o EXCEPT !.waits = h])
  BY DEF Send
<1>2. /\ o.todo # <<>> /\ o.waits = "none" /\ o \in PhoneRow /\ o # Rest
      /\ \A k \in Handlers : handler[k] = Free
      /\ UNCHANGED <<queue, entered, unsure, ledger>>
  BY FieldConstants DEF Send, ServerRests, FieldTyped
<1> DEFINE r == [o EXCEPT !.waits = h]
           v == [Free EXCEPT !.entry = x, !.at = "arrived"]
<1>3. r.op = o.op /\ r.todo = o.todo /\ r.kept = o.kept /\ r.waits = h
  BY <1>2 DEF PhoneRow
<1>4. v.entry = x /\ v.at = "arrived"
  BY DEF Free
<1>5. x \in Entries /\ In(x, o.todo)
  BY <1>2, TailIn DEF PhoneRow
<1>6. handler'[h] = v /\ \A k \in Handlers : k # h => handler'[k] = Free
  BY <1>1, <1>2 DEF FieldTyped
<1> HIDE DEF v
<1>7. thread'[t] = r /\ \A u \in Threads : u # t => thread[u] = Rest /\ thread'[u] = Rest
  <2> HIDE DEF r
  <2>1. Goes(t, r)
    BY <1>1 DEF r
  <2> HIDE DEF o
  <2>2. thread[t] # Rest
    BY <1>2 DEF o
  <2> QED
    BY <2>1, <2>2, Alone DEF Patiently
<1> HIDE DEF r
<1>8. Free.entry = "none" /\ Free.at = "none" /\ "none" \notin Entries /\ "none" \notin Handlers /\ Rest.waits = "none"
      /\ Rest.op = "none"
  BY FieldConstants
<1>9. ASSUME NEW u \in Threads
      PROVE  thread'[u].op = thread[u].op /\ thread'[u].todo = thread[u].todo /\ thread'[u].kept = thread[u].kept
  BY <1>3, <1>7
<1>10. queue \in Seq(Entries) /\ queue' \in Seq(Entries)
  BY DEF FieldTyped
<1>11. ASSUME NEW e PROVE Held(e)' <=> Held(e)
  BY <1>2, <1>9, <1>10, HeldIs, HeldNext
<1>12. OneThing'
  <2>1. \A u, w \in Threads : thread'[u] # Rest /\ thread'[w] # Rest => u = w
    BY <1>7
  <2>2. \A u \in Threads : thread'[u].waits # "none" => handler'[thread'[u].waits].entry = Head(thread'[u].todo)
    BY <1>3, <1>4, <1>6, <1>7, <1>8
  <2>3. \A k \in Handlers : handler'[k].at # "recorded"
    BY <1>4, <1>6, <1>8
  <2> QED
    BY <1>6, <2>1, <2>2, <2>3 DEF OneThing
<1>13. Covered'
  <2>1. ASSUME NEW u \in Threads, NEW e \in Entries PROVE Covers(thread[u], e)'
    BY <1>2, <1>9 DEF Patiently, Covered, Covers
  <2> QED
    BY <1>2, <1>11, <2>1 DEF Patiently, Covered
<1>14. ASSUME NEW e \in Entries \ unsure' PROVE Sure(e)'
  <2>1. Sure(e)
    BY <1>2, <1>14 DEF Patiently
  <2>2. ASSUME NEW u \in Threads, In(e, thread[u].todo) PROVE ledger[e] = 0
    <3>1. u = t
      BY <1>7, <2>2, FieldConstants
    <3> QED
      BY <1>2, <2>1, <2>2, <3>1 DEF Sure, Placed
  <2>3. ASSUME NEW u \in Threads PROVE Placed(thread[u], e)'
    BY <1>2, <1>9, <2>1, <2>2 DEF Sure, Placed
  <2>4. \A k \in Handlers : handler'[k].entry = e => /\ \E u \in Threads : thread'[u].waits = k
                                                     /\ ledger'[e] = 0
    <3>1. x = e => ledger[e] = 0
      BY <1>5, <2>2
    <3> QED
      BY <1>2, <1>3, <1>4, <1>6, <1>7, <1>8, <1>14, <3>1
  <2>5. Flushing' <=> Flushing
    BY <1>9 DEF Flushing
  <2> QED
    BY <1>2, <1>11, <2>1, <2>3, <2>4, <2>5 DEF Sure
<1> QED
  BY <1>12, <1>13, <1>14 DEF Patiently

\* The server reads the stop, or records the entry.
LEMMA PatientServing ==
  ASSUME FieldTyped, FieldTyped', patient, Patiently, NEW h \in Handlers, ReadStop(h) \/ Record(h)
  PROVE  Patiently'
<1> DEFINE x == handler[h].entry
           v == handler'[h]
<1>1. /\ UNCHANGED <<queue, thread, entered, unsure>>
      /\ \A k \in Handlers : k # h => handler'[k] = handler[k] /\ handler[k] = Free
      /\ x \in Entries /\ v.entry = x /\ handler[h].at \in {"arrived", "read"}
      /\ \A e \in Entries : e # x => ledger'[e] = ledger[e]
      /\ \/ v.at = "read" /\ ledger'[x] = ledger[x]
         \/ v.at = "recorded" /\ ledger'[x] = ledger[x] + 1
  <2>1. handler[h].at \in {"arrived", "read"}
    BY DEF ReadStop, Record
  <2>2. handler[h] # Free
    BY <2>1, FieldConstants
  <2>3. x \in Entries
    BY <2>2 DEF FieldTyped, RequestOK
  <2>4. \A k \in Handlers : k # h => handler'[k] = handler[k] /\ handler[k] = Free
    BY <2>2 DEF ReadStop, Record, FieldTyped, Patiently, OneThing
  <2>5. CASE ReadStop(h)
    BY <2>1, <2>3, <2>4, <2>5 DEF ReadStop, FieldTyped, ServerRow, phone
  <2>6. CASE Record(h)
    BY <2>1, <2>3, <2>4, <2>6 DEF Record, FieldTyped, ServerRow, phone
  <2> QED
    BY <2>5, <2>6
<1>2. ledger \in [Entries -> Nat] /\ ledger' \in [Entries -> Nat]
  BY DEF FieldTyped
<1>3. \A e \in Entries : ledger[e] > 0 => ledger'[e] > 0
  BY <1>1, <1>2
<1>4. \A e \in Entries : ledger'[e] = 0 => ledger[e] = 0
  BY <1>2, <1>3
<1>5. Free.entry = "none" /\ Free.at = "none" /\ "none" \notin Entries /\ "none" \notin Handlers
  BY FieldConstants
<1> HIDE DEF v, x
<1>6. ASSUME NEW e PROVE Held(e)' = Held(e)
  BY <1>1 DEF Held, InQueue, UnderWay
<1>7. OneThing'
  <2>1. \A k, l \in Handlers : handler'[k] # Free /\ handler'[l] # Free => k = l
    BY <1>1
  <2>2. \A k \in Handlers : handler'[k].entry = handler[k].entry
    BY <1>1 DEF v, x
  <2>3. \A t \in Threads : thread[t].waits # "none" => thread[t].waits \in Handlers
    BY DEF FieldTyped, PhoneRow
  <2>4. \A k \in Handlers : handler'[k].at = "recorded" => ledger'[handler'[k].entry] > 0
    BY <1>1, <1>2, <1>5 DEF v
  <2> QED
    BY <1>1, <2>1, <2>2, <2>3, <2>4 DEF Patiently, OneThing
<1>8. Covered'
  <2>1. \A e \in entered : ledger'[e] = 0 => Held(e)
    BY <1>4 DEF Patiently, Covered
  <2>2. ASSUME NEW t \in Threads, NEW e \in Entries PROVE Covers(thread[t], e)'
    BY <1>1, <1>4 DEF Patiently, Covered, Covers
  <2> QED
    BY <1>1, <1>6, <2>1, <2>2 DEF Covered, Patiently
<1>9. ASSUME NEW e \in Entries \ unsure' PROVE Sure(e)'
  <2>1. Sure(e)
    BY <1>1, <1>9 DEF Patiently
  <2>2. Flushing' = Flushing
    BY <1>1 DEF Flushing
  <2>3. CASE e = x
    <3>1. ledger[e] = 0 /\ \E t \in Threads : thread[t].waits = h
      BY <1>1, <2>1, <2>3 DEF Sure, x
    <3>2. PICK t \in Threads : thread[t].waits = h
      BY <3>1
    <3>3. /\ thread[t] # Rest /\ Head(thread[t].todo) = e /\ thread[t].todo # <<>> /\ thread[t] \in PhoneRow
          /\ thread[t].op # "none"
      BY <1>5, <2>3, <3>2, FieldConstants DEF Patiently, OneThing, x, FieldTyped, RowOK
    <3>4. In(e, thread[t].todo)
      BY <3>3, TailIn DEF PhoneRow
    <3>5. \A u \in Threads : u # t => thread[u] = Rest
      BY <3>3 DEF Patiently, OneThing
    <3>6. ~Flushing => ~In(e, queue)
      <4>1. ~Flushing => thread[t].op = "call"
        BY <3>3 DEF Flushing, PhoneRow
      <4> QED
        BY <2>1, <3>4, <4>1 DEF Sure, Placed
    <3>7. Held(e) /\ e \in entered
      BY <2>1, <3>4, HeldIs DEF FieldTyped, Sure
    <3>8. ASSUME NEW u \in Threads PROVE Placed(thread[u], e)'
      <4>1. CASE u = t
        <5>1. v.at = "recorded" \/ ledger'[e] = 0
          BY <1>1, <2>3, <3>1
        <5> QED
          BY <1>1, <1>5, <2>1, <3>2, <3>3, <3>4, <4>1, <5>1 DEF Sure, Placed, v
      <4>2. CASE u # t
        BY <1>1, <3>5, <4>2, NothingIn, FieldConstants DEF Placed, Rest
      <4> QED
        BY <4>1, <4>2
    <3>9. \A k \in Handlers : handler'[k].entry = e => k = h
      BY <1>1, <1>5, <1>9
    <3>10. v.at # "recorded" => ledger'[e] = 0
      BY <1>1, <2>3, <3>1
    <3>11. ledger'[e] <= 1
      BY <1>1, <2>3, <3>1
    <3> QED
      BY <1>1, <1>6, <2>1, <2>2, <3>2, <3>6, <3>7, <3>8, <3>9, <3>10, <3>11 DEF Sure, v
  <2>4. CASE e # x
    <3>1. \A k \in Handlers : handler'[k].entry # e
      BY <1>1, <1>5, <1>9, <2>4 DEF v
    <3>2. ledger'[e] = ledger[e]
      BY <1>1, <1>9, <2>4
    <3>3. ASSUME NEW u \in Threads PROVE Placed(thread[u], e)'
      <4>1. ASSUME In(e, thread[u].todo), ledger[e] # 0 PROVE FALSE
        <5>1. Placed(thread[u], e)
          BY <2>1 DEF Sure
        <5>2. Head(thread[u].todo) = e /\ thread[u].waits # "none" /\ handler[thread[u].waits].at = "recorded"
          BY <4>1, <5>1 DEF Placed
        <5>3. thread[u].waits \in Handlers
          BY <5>2 DEF FieldTyped, PhoneRow
        <5> QED
          BY <1>1, <1>5, <5>2, <5>3
      <4>2. Placed(thread[u], e)
        BY <2>1 DEF Sure
      <4> QED
        BY <1>1, <3>2, <4>1, <4>2 DEF Placed
    <3> QED
      BY <1>1, <1>6, <2>1, <2>2, <3>1, <3>2, <3>3 DEF Sure
  <2> QED
    BY <2>3, <2>4
<1> QED
  BY <1>7, <1>8, <1>9 DEF Patiently

\* Loading the page again ends what is under way.
LEMMA PatientReload ==
  ASSUME FieldTyped, FieldTyped', patient, Patiently, Reload
  PROVE  Patiently'
<1> DEFINE calls == {t \in Threads : thread[t].op = "call"}
           sent  == {Head(thread[t].todo) : t \in {u \in calls : thread[u].waits # "none"}}
           again == IF \E t \in Threads : thread[t].op = "flush" THEN {e \in Entries : InQueue(e)} ELSE {}
<1>1. /\ thread' = [t \in Threads |-> Rest]
      /\ entered' = entered \ {e \in Entries : ledger[e] = 0 /\ \E t \in calls : Head(thread[t].todo) = e}
      /\ unsure' = unsure \cup sent \cup again
      /\ UNCHANGED <<queue, handler, ledger>>
  BY DEF Reload, server
<1>2. queue \in Seq(Entries) /\ queue' \in Seq(Entries) /\ thread \in [Threads -> PhoneRow]
      /\ \A t \in Threads : CallOK(thread[t])
  BY DEF FieldTyped
<1>3. \A t \in Threads : thread'[t] = Rest
  BY <1>1
<1>4. \A e : Held(e)' <=> In(e, queue)
  BY <1>1, <1>2, <1>3, HeldNext, FieldConstants
<1>5. \A e : Held(e) <=> (In(e, queue) \/ \E t \in Threads : In(e, thread[t].todo))
  BY <1>2, HeldIs
<1>6. ASSUME NEW t \in Threads, NEW e, In(e, thread[t].todo)
      PROVE  e \in Entries /\ thread[t] # Rest /\ thread[t].op \in {"call", "flush"} /\ (thread[t].op = "call" => Head(thread[t].todo) = e)
  <2>1. thread[t].todo \in Seq(Entries) /\ thread[t].todo # <<>>
    BY <1>2, <1>6, NothingIn DEF PhoneRow
  <2>2. thread[t].op \in {"call", "flush"}
    BY <1>2, <2>1, FieldConstants DEF FieldTyped, RowOK, PhoneRow
  <2>3. e \in Entries
    BY <1>6, <2>1 DEF In
  <2>4. thread[t].op = "call" => Head(thread[t].todo) = e
    <3> DEFINE s == thread[t].todo
    <3>1. thread[t].op = "call" => Len(s) = 1
      BY <1>2 DEF CallOK
    <3>2. s \in Seq(Entries) /\ s # <<>> /\ In(e, s)
      BY <1>6, <2>1
    <3> HIDE DEF s
    <3>3. (Len(s) = 1 => Tail(s) = <<>>) /\ (e = Head(s) \/ In(e, Tail(s)))
      BY <3>2, TailIn
    <3>4. Len(s) = 1 => e = Head(s)
      BY <3>3, NothingIn
    <3> QED
      BY <3>1, <3>4 DEF s
  <2> QED
    BY <2>1, <2>2, <2>3, <2>4, FieldConstants
<1>7. ASSUME NEW t \in Threads, thread[t].op = "call" PROVE In(Head(thread[t].todo), thread[t].todo)
  <2>1. thread[t].todo # <<>>
    BY <1>7, FieldConstants DEF FieldTyped, RowOK
  <2> QED
    BY <1>2, <2>1, TailIn DEF PhoneRow
<1>8. Rest.op = "none" /\ Rest.waits = "none" /\ Free.entry = "none" /\ "none" \notin Entries
  BY FieldConstants
<1>9. \A e : e \in calls <=> e \in Threads /\ thread[e].op = "call"
  OBVIOUS
<1>10. \A t \in Threads : thread[t].op = "call" /\ thread[t].waits # "none" => Head(thread[t].todo) \in unsure'
  BY <1>1
<1>11. \A e \in Entries : Flushing /\ In(e, queue) => e \in unsure'
  BY <1>1, <1>2, HeldIs DEF Flushing
<1>12. unsure \subseteq unsure' /\ entered' \subseteq entered
  BY <1>1
<1>13. \A e \in entered' : ~(ledger[e] = 0 /\ e \in Entries /\ \E t \in Threads : thread[t].op = "call" /\ Head(thread[t].todo) = e)
  BY <1>1
<1>14. \A e \in entered : e \in entered' \/ (ledger[e] = 0 /\ \E t \in Threads : thread[t].op = "call" /\ Head(thread[t].todo) = e)
  BY <1>1
<1> HIDE DEF calls, sent, again
<1>15. OneThing'
  BY <1>1, <1>3, <1>8 DEF Patiently, OneThing
<1>16. Covered'
  <2>1. ASSUME NEW e \in entered', ledger'[e] = 0 PROVE Held(e)'
    <3>1. Held(e) /\ ledger[e] = 0
      BY <1>1, <1>12, <2>1 DEF Patiently, Covered
    <3>2. ASSUME NEW t \in Threads, In(e, thread[t].todo) PROVE In(e, queue)
      <4>1. thread[t].op = "flush"
        BY <1>6, <1>13, <2>1, <3>1, <3>2
      <4> QED
        BY <1>6, <3>2, <4>1 DEF Patiently, Covered, Covers
    <3> QED
      BY <1>4, <1>5, <3>1, <3>2
  <2>2. ASSUME NEW t \in Threads, NEW e \in Entries PROVE Covers(thread[t], e)'
    BY <1>3, <1>8 DEF Covers
  <2> QED
    BY <1>12, <2>1, <2>2 DEF Covered, Patiently
<1>17. ASSUME NEW e \in Entries \ unsure' PROVE Sure(e)'
  <2>1. Sure(e)
    BY <1>12, <1>17 DEF Patiently
  <2>2. In(e, queue) => ledger[e] = 0
    BY <1>11, <1>17, <2>1 DEF Sure
  <2>3. ASSUME NEW h \in Handlers, handler[h].entry = e PROVE FALSE
    <3>1. PICK t \in Threads : thread[t].waits = h
      BY <2>1, <2>3 DEF Sure
    <3>2. thread[t].waits # "none"
      BY <3>1, FieldConstants
    <3>3. thread[t].todo # <<>> /\ Head(thread[t].todo) = e
      BY <2>3, <3>1, <3>2, FieldConstants DEF Patiently, OneThing, FieldTyped, RowOK
    <3>4. In(e, thread[t].todo)
      BY <1>2, <3>3, TailIn DEF PhoneRow
    <3>5. CASE thread[t].op = "call"
      BY <1>10, <1>17, <3>2, <3>3, <3>5
    <3>6. CASE thread[t].op = "flush"
      BY <1>11, <1>17, <3>4, <3>6 DEF Patiently, Covered, Covers, Flushing
    <3> QED
      BY <1>6, <3>4, <3>5, <3>6
  <2>4. e \notin entered' => ledger[e] = 0 /\ ~In(e, queue)
    <3>1. CASE e \notin entered
      BY <1>5, <2>1, <3>1 DEF Sure
    <3>2. ASSUME NEW t \in Threads, ledger[e] = 0, thread[t].op = "call", Head(thread[t].todo) = e PROVE ~In(e, queue)
      BY <1>7, <2>1, <3>2 DEF Sure, Placed
    <3> QED
      BY <1>14, <3>1, <3>2
  <2>5. \A t \in Threads : Placed(thread[t], e)'
    BY <1>3, NothingIn DEF Placed, Rest
  <2> QED
    BY <1>1, <1>4, <2>1, <2>2, <2>3, <2>4, <2>5 DEF Sure
<1> QED
  BY <1>15, <1>16, <1>17 DEF Patiently

\* What a step does to a patient phone.
LEMMA PatientStep ==
  ASSUME FieldTyped, FieldTyped', PatientInv, [NextField]_field
  PROVE  PatientInv'
<1>1. patient' = patient
  BY DEF NextField, field, Phone, Server, Execute, Flush, Send, SendOffline, LoseAnswer, GoOffline, GoOnline,
         Reload, Expire, ReadStop, Record, WriteStop, Refuse, DieRecorded, phone
<1> SUFFICES ASSUME patient PROVE Patiently'
  BY <1>1 DEF PatientInv, Patiently
<1>2. Patiently
  BY DEF PatientInv, Patiently
<1>3. ASSUME NEW t \in Threads, NEW e \in Entries, Execute(t, e) PROVE Patiently'
  BY <1>2, <1>3, PatientExecute
<1>4. ASSUME NEW t \in Threads, Flush(t) PROVE Patiently'
  BY <1>2, <1>4, PatientFlush
<1>5. ASSUME NEW t \in Threads, Send(t) PROVE Patiently'
  BY <1>2, <1>5, PatientSend
<1>6. ASSUME NEW t \in Threads, SendOffline(t) PROVE Patiently'
  <2> DEFINE x == Head(thread[t].todo)
  <2>1. /\ thread[t].todo # <<>> /\ thread[t].waits = "none" /\ Fails(t)
        /\ UNCHANGED <<entered, unsure, ledger, handler>>
    BY <1>6 DEF SendOffline, server
  <2>2. x \in Entries /\ In(x, thread[t].todo)
    BY <2>1, Resolves
  <2>3. x \in unsure \/ ledger[x] = 0
    <3>1. CASE x \notin unsure
      <4>1. Placed(thread[t], x)
        BY <1>2, <2>2, <3>1 DEF Patiently, Sure
      <4> QED
        BY <2>1, <2>2, <4>1 DEF Placed
    <3> QED
      BY <3>1
  <2>4. \A k \in Handlers : thread[t].waits # k
    BY <2>1, FieldConstants
  <2> HIDE DEF x
  <2> QED
    BY <1>2, <2>1, <2>3, <2>4, PatientResolving DEF x
<1>7. ASSUME NEW t \in Threads, LoseAnswer(t) PROVE Patiently'
  <2> DEFINE x == Head(thread[t].todo)
  <2>1. /\ thread[t].waits # "none" /\ Fails(t) /\ unsure' = unsure \cup {x}
        /\ UNCHANGED <<entered, ledger, handler>>
    BY <1>7 DEF LoseAnswer, server
  <2>2. thread[t].todo # <<>>
    BY <2>1, FieldConstants DEF FieldTyped, RowOK
  <2>3. x \in unsure' /\ unsure \subseteq unsure'
    BY <2>1
  <2> HIDE DEF x
  <2> QED
    BY <1>2, <2>1, <2>2, <2>3, PatientResolving DEF x
<1>8. ASSUME NEW h \in Handlers, ReadStop(h) \/ Record(h) PROVE Patiently'
  BY <1>2, <1>8, PatientServing
<1>9. ASSUME NEW h \in Handlers, WriteStop(h) PROVE Patiently'
  <2>1. /\ Answers(h, Succeeds) /\ handler' = [handler EXCEPT ![h] = Free] /\ handler[h].at = "recorded"
        /\ UNCHANGED <<entered, unsure, ledger>>
    BY <1>9 DEF WriteStop
  <2>2. handler[h] # Free /\ ledger[handler[h].entry] > 0
    BY <1>2, <2>1, FieldConstants DEF Patiently, OneThing
  <2> QED
    BY <1>2, <2>1, <2>2, PatientAnswering
<1>10. ASSUME NEW h \in Handlers, Refuse(h) PROVE Patiently'
  <2>1. /\ Answers(h, Fails) /\ handler' = [handler EXCEPT ![h] = Free] /\ handler[h].at \in {"arrived", "read"}
        /\ UNCHANGED <<entered, unsure, ledger>>
    BY <1>10 DEF Refuse
  <2>2. handler[h] # Free /\ handler[h].at # "recorded"
    BY <2>1, FieldConstants
  <2> QED
    BY <1>2, <2>1, <2>2, PatientAnswering
<1>11. ASSUME NEW h \in Handlers, DieRecorded(h) PROVE Patiently'
  <2>1. /\ Answers(h, Fails) /\ handler' = [handler EXCEPT ![h] = Free] /\ handler[h].at = "recorded"
        /\ unsure' = unsure \cup {handler[h].entry} /\ UNCHANGED <<entered, ledger>>
    BY <1>11 DEF DieRecorded
  <2>2. handler[h] # Free /\ handler[h].entry \in unsure' /\ unsure \subseteq unsure'
    BY <2>1, FieldConstants
  <2> QED
    BY <1>2, <2>1, <2>2, PatientAnswering
<1>12. ASSUME Reload PROVE Patiently'
  BY <1>2, <1>12, PatientReload
<1>13. ASSUME GoOffline \/ GoOnline \/ (\E e \in Entries : Expire(e)) \/ UNCHANGED field PROVE Patiently'
  <2>1. UNCHANGED <<queue, thread, handler, entered, unsure, ledger>>
    BY <1>13 DEF GoOffline, GoOnline, Expire, server, field
  <2>2. OneThing' /\ Covered'
    BY <1>2, <2>1 DEF Patiently, OneThing, Covered, Covers, Held, InQueue, UnderWay
  <2>3. ASSUME NEW e \in Entries \ unsure PROVE Sure(e)'
    BY <1>2, <2>1, <2>3 DEF Patiently, Sure, Placed, Flushing, Held, InQueue, UnderWay
  <2> QED
    BY <2>1, <2>2, <2>3 DEF Patiently
<1> QED
  BY <1>3, <1>4, <1>5, <1>6, <1>7, <1>8, <1>9, <1>10, <1>11, <1>12, <1>13 DEF NextField, Phone, Server

-----------------------------------------------------------------------
\* The counters and what was recorded.
LEMMA RecordedTyped ==
  ASSUME FieldTyped, NEW k \in TwoCounters
  PROVE  /\ RecordedOf(k) \in Nat /\ stop[k] \in Nat
         /\ \A h \in Handlers : handler[h].seen[k] \in Nat /\ Adds(handler[h], k) \in Nat
<1>1. OfKind(k) \subseteq Entries /\ IsFiniteSet(OfKind(k))
  BY FieldEntriesAssumption, FS_Subset DEF OfKind
<1>2. RecordedOf(k) \in Nat
  BY <1>1, TotalNat DEF FieldTyped, RecordedOf
<1>3. \A s \in Counters : s[k] \in Nat
  BY DEF Counters, TwoCounters
<1>4. stop \in Counters /\ \A h \in Handlers : handler[h].seen \in Counters
  BY DEF FieldTyped, ServerRow
<1> QED
  BY <1>2, <1>3, <1>4 DEF Adds

LEMMA RecordedMoves ==
  ASSUME FieldTyped, NEW x \in Entries, ledger' = [ledger EXCEPT ![x] = @ + 1], NEW k \in TwoCounters
  PROVE  Total(ledger', OfKind(k)) = RecordedOf(k) + (IF x \in OfKind(k) THEN 1 ELSE 0)
<1>1. OfKind(k) \subseteq Entries /\ IsFiniteSet(OfKind(k))
  BY FieldEntriesAssumption, FS_Subset DEF OfKind
<1>2. ledger \in [Entries -> Nat] /\ ledger' \in [Entries -> Nat]
      /\ ledger'[x] = ledger[x] + 1 /\ \A e \in Entries : e # x => ledger'[e] = ledger[e]
  BY DEF FieldTyped
<1>3. CASE x \in OfKind(k)
  <2>1. Total(ledger', OfKind(k)) + ledger[x] = Total(ledger, OfKind(k)) + ledger'[x]
    <3> DEFINE S == OfKind(k)
    <3>1. /\ IsFiniteSet(S) /\ x \in S
          /\ \A e \in S : ledger[e] \in Nat /\ ledger'[e] \in Nat
          /\ \A e \in S \ {x} : ledger[e] = ledger'[e]
      BY <1>1, <1>2, <1>3
    <3> HIDE DEF S
    <3>2. PICK f, g : f = ledger /\ g = ledger'
      OBVIOUS
    <3>3. /\ \A e \in S : f[e] \in Nat
          /\ \A e \in S : g[e] \in Nat
          /\ \A e \in S \ {x} : f[e] = g[e]
      BY <3>1, <3>2
    <3>4. Total(g, S) + f[x] = Total(f, S) + g[x]
      BY <3>1, <3>3, TotalMoves
    <3> QED
      BY <3>2, <3>4 DEF S
  <2>2. Total(ledger, OfKind(k)) \in Nat /\ Total(ledger', OfKind(k)) \in Nat
    BY <1>1, <1>2, TotalNat
  <2> QED
    BY <1>2, <1>3, <2>1, <2>2 DEF RecordedOf
<1>4. CASE x \notin OfKind(k)
  <2>1. Total(ledger', OfKind(k)) = Total(ledger, OfKind(k))
    BY <1>1, <1>2, <1>4, TotalSame
  <2>2. Total(ledger, OfKind(k)) \in Nat
    BY <1>1, <1>2, TotalNat
  <2> QED
    BY <1>4, <2>1, <2>2 DEF RecordedOf
<1> QED
  BY <1>3, <1>4

\* Nothing happens to requests, stop and transactions.
LEMMA CountQuietly ==
  ASSUME FieldTyped, CountInv, UNCHANGED <<patient, handler, stop, ledger>>,
         losses' \in Nat, losses' >= losses
  PROVE  CountInv'
<1> SUFFICES ASSUME NEW k \in TwoCounters PROVE NeverMore(k)' /\ (patient => Missing(k)')
  BY DEF CountInv
<1>1. NeverMore(k) /\ (patient => Missing(k))
  BY DEF CountInv
<1>2. RecordedOf(k) \in Nat /\ stop[k] \in Nat /\ \A h \in Handlers : Adds(handler[h], k) \in Nat
  BY RecordedTyped
<1>3. RecordedOf(k)' = RecordedOf(k) /\ (ServerRests' <=> ServerRests)
  BY DEF RecordedOf, ServerRests
<1>4. losses \in Nat
  BY DEF FieldTyped
<1>5. NeverMore(k)'
  BY <1>1, <1>3 DEF NeverMore, Adds, Reads
<1>6. ASSUME patient PROVE Missing(k)'
  BY <1>1, <1>2, <1>3, <1>4, <1>6 DEF Missing, Adds, Reads
<1> QED
  BY <1>5, <1>6

\* A request ends without an update of the stop.
LEMMA CountFreeing ==
  ASSUME FieldTyped, PatientInv, CountInv, NEW h \in Handlers, handler[h] # Free,
         handler' = [handler EXCEPT ![h] = Free], UNCHANGED <<patient, stop, ledger>>,
         losses' \in Nat, losses' >= losses, handler[h].at = "recorded" => losses' = losses + 1
  PROVE  CountInv'
<1> SUFFICES ASSUME NEW k \in TwoCounters PROVE NeverMore(k)' /\ (patient => Missing(k)')
  BY DEF CountInv
<1>1. NeverMore(k) /\ (patient => Missing(k))
  BY DEF CountInv
<1>2. RecordedOf(k) \in Nat /\ stop[k] \in Nat /\ \A g \in Handlers : Adds(handler[g], k) \in Nat
  BY RecordedTyped
<1>3. RecordedOf(k)' = RecordedOf(k)
  BY DEF RecordedOf
<1>4. losses \in Nat
  BY DEF FieldTyped
<1>5. \A g \in Handlers : handler'[g] = handler[g] \/ handler'[g] = Free
  BY DEF FieldTyped
<1>6. ~Reads(Free)
  BY FieldConstants DEF Reads
<1>7. NeverMore(k)'
  <2>1. ASSUME NEW g \in Handlers, Reads(handler'[g]) PROVE handler'[g].seen[k] + Adds(handler'[g], k) <= RecordedOf(k)
    BY <1>1, <1>5, <1>6, <2>1 DEF NeverMore
  <2> QED
    BY <1>1, <1>3, <2>1 DEF NeverMore, Reads, Adds
<1>8. ASSUME patient PROVE Missing(k)'
  <2>1. \A g \in Handlers : handler'[g] = Free
    BY <1>5, <1>8 DEF PatientInv, OneThing, FieldTyped
  <2>2. RecordedOf(k) <= stop[k] + losses + Adds(handler[h], k)
    BY <1>1, <1>8 DEF Missing
  <2>3. RecordedOf(k) <= stop[k] + losses'
    BY <1>2, <1>4, <2>2 DEF Adds
  <2> QED
    BY <1>3, <2>1, <2>3 DEF Missing
<1> QED
  BY <1>7, <1>8

LEMMA CountStep ==
  ASSUME FieldTyped, FieldTyped', PatientInv, CountInv, [NextField]_field
  PROVE  CountInv'
<1>1. losses \in Nat /\ losses' \in Nat
  BY DEF FieldTyped
<1>2. ASSUME UNCHANGED <<patient, handler, stop, ledger>>, losses' = losses \/ losses' = losses + 1 PROVE CountInv'
  BY <1>1, <1>2, CountQuietly
<1>3. ASSUME NEW t \in Threads, NEW e \in Entries, Execute(t, e) PROVE CountInv'
  BY <1>2, <1>3 DEF Execute, server
<1>4. ASSUME NEW t \in Threads, Flush(t) \/ SendOffline(t) \/ LoseAnswer(t) PROVE CountInv'
  BY <1>2, <1>4 DEF Flush, SendOffline, LoseAnswer, server
<1>5. ASSUME GoOffline \/ GoOnline \/ Reload \/ (\E e \in Entries : Expire(e)) \/ UNCHANGED field PROVE CountInv'
  BY <1>2, <1>5 DEF GoOffline, GoOnline, Reload, Expire, field, server
<1>6. ASSUME NEW t \in Threads, Send(t) PROVE CountInv'
  <2>1. PICK h \in Handlers :
          handler' = [handler EXCEPT ![h] = [Free EXCEPT !.entry = Head(thread[t].todo), !.at = "arrived"]]
          /\ handler[h] = Free
    BY <1>6 DEF Send
  <2> DEFINE v == [Free EXCEPT !.entry = Head(thread[t].todo), !.at = "arrived"]
  <2>2. v.at = "arrived"
    BY DEF Free
  <2> HIDE DEF v
  <2>3. \A g \in Handlers : handler'[g] = handler[g] \/ (g = h /\ handler'[g] = v)
    BY <2>1 DEF FieldTyped, v
  <2>4. /\ UNCHANGED <<patient, stop, ledger, losses>>
        /\ patient => ServerRests
    BY <1>6 DEF Send
  <2> SUFFICES ASSUME NEW k \in TwoCounters PROVE NeverMore(k)' /\ (patient => Missing(k)')
    BY <2>4 DEF CountInv
  <2>5. NeverMore(k) /\ (patient => Missing(k))
    BY DEF CountInv
  <2>6. RecordedOf(k) \in Nat /\ stop[k] \in Nat
    BY RecordedTyped
  <2>7. RecordedOf(k)' = RecordedOf(k)
    BY <2>4 DEF RecordedOf
  <2>8. NeverMore(k)'
    <3>1. ASSUME NEW g \in Handlers, Reads(handler'[g]) PROVE handler'[g].seen[k] + Adds(handler'[g], k) <= RecordedOf(k)
      BY <2>2, <2>3, <2>5, <3>1 DEF NeverMore, Reads
    <3> QED
      BY <2>4, <2>5, <2>7, <3>1 DEF NeverMore, Reads, Adds
  <2>9. ASSUME patient PROVE Missing(k)'
    <3>1. ServerRests /\ RecordedOf(k) <= stop[k] + losses
      BY <2>4, <2>5, <2>9 DEF Missing
    <3>2. \A g \in Handlers : ~Reads(handler'[g]) /\ Adds(handler'[g], k) = 0
      BY <2>2, <2>3, <3>1, FieldConstants DEF ServerRests, Reads, Adds
    <3> QED
      BY <1>1, <2>4, <2>6, <2>7, <3>1, <3>2 DEF Missing, Reads, Adds
  <2> QED
    BY <2>8, <2>9
<1>7. ASSUME NEW h \in Handlers, ReadStop(h) PROVE CountInv'
  <2> DEFINE v == handler'[h]
  <2>1. /\ UNCHANGED <<patient, stop, ledger, losses>> /\ handler[h].at = "arrived"
        /\ \A g \in Handlers : g # h => handler'[g] = handler[g]
        /\ v.at = "read" /\ v.seen = stop
    BY <1>7 DEF ReadStop, FieldTyped, ServerRow, phone
  <2> HIDE DEF v
  <2> SUFFICES ASSUME NEW k \in TwoCounters PROVE NeverMore(k)' /\ (patient => Missing(k)')
    BY <2>1 DEF CountInv
  <2>2. NeverMore(k) /\ (patient => Missing(k))
    BY DEF CountInv
  <2>3. RecordedOf(k) \in Nat /\ stop[k] \in Nat
    BY RecordedTyped
  <2>4. RecordedOf(k)' = RecordedOf(k)
    BY <2>1 DEF RecordedOf
  <2>5. NeverMore(k)'
    <3>1. ASSUME NEW g \in Handlers, Reads(handler'[g]) PROVE handler'[g].seen[k] + Adds(handler'[g], k) <= RecordedOf(k)
      <4>1. CASE g = h
        BY <2>1, <2>2, <2>3, <4>1 DEF NeverMore, Adds, v
      <4>2. CASE g # h
        BY <2>1, <2>2, <3>1, <4>2 DEF NeverMore
      <4> QED
        BY <4>1, <4>2
    <3> QED
      BY <2>1, <2>2, <2>4, <3>1 DEF NeverMore, Reads, Adds
  <2>6. ASSUME patient PROVE Missing(k)'
    <3>1. handler[h] # Free /\ v # Free
      BY <2>1, FieldConstants
    <3>2. \A g \in Handlers : g # h => handler'[g] = Free
      BY <2>1, <2>6, <3>1 DEF PatientInv, OneThing
    <3>3. RecordedOf(k) <= stop[k] + losses
      BY <1>1, <2>1, <2>2, <2>3, <2>6, <3>1 DEF Missing, Adds
    <3>4. Adds(v, k) = 0
      BY <2>1 DEF Adds
    <3>5. ~ServerRests'
      BY <3>1 DEF ServerRests, v
    <3>6. ASSUME NEW g \in Handlers, handler'[g] # Free
          PROVE  handler'[g].seen[k] = stop[k] /\ RecordedOf(k) <= stop[k] + losses + Adds(handler'[g], k)
      BY <1>1, <2>1, <2>3, <3>2, <3>3, <3>4, <3>6 DEF v
    <3> QED
      BY <2>1, <2>4, <3>5, <3>6 DEF Missing, Reads, Adds
  <2> QED
    BY <2>5, <2>6
<1>8. ASSUME NEW h \in Handlers, Record(h) PROVE CountInv'
  <2> DEFINE v == handler'[h]
             x == handler[h].entry
  <2>1. /\ UNCHANGED <<patient, stop, losses>> /\ handler[h].at = "read"
        /\ \A g \in Handlers : g # h => handler'[g] = handler[g]
        /\ v.at = "recorded" /\ v.seen = handler[h].seen /\ v.entry = x
        /\ ledger' = [ledger EXCEPT ![x] = @ + 1]
    BY <1>8 DEF Record, FieldTyped, ServerRow, phone
  <2>2. x \in Entries
    BY <2>1, FieldConstants DEF FieldTyped, RequestOK
  <2> HIDE DEF v, x
  <2> SUFFICES ASSUME NEW k \in TwoCounters PROVE NeverMore(k)' /\ (patient => Missing(k)')
    BY <2>1 DEF CountInv
  <2>3. NeverMore(k) /\ (patient => Missing(k))
    BY DEF CountInv
  <2>4. RecordedOf(k) \in Nat /\ stop[k] \in Nat /\ \A g \in Handlers : handler[g].seen[k] \in Nat /\ Adds(handler[g], k) \in Nat
    BY RecordedTyped
  <2>5. RecordedOf(k)' = RecordedOf(k) + Adds(v, k)
    BY <2>1, <2>2, RecordedMoves DEF RecordedOf, Adds
  <2>6. Adds(v, k) \in Nat /\ Adds(handler[h], k) = 0
    BY <2>1 DEF Adds
  <2>7. NeverMore(k)'
    <3>1. ASSUME NEW g \in Handlers, Reads(handler'[g])
          PROVE  handler'[g].seen[k] + Adds(handler'[g], k) <= RecordedOf(k) + Adds(v, k)
      <4>1. CASE g = h
        <5>1. handler[h].seen[k] <= RecordedOf(k)
          BY <2>1, <2>3, <2>4, <2>6 DEF NeverMore, Reads
        <5> QED
          BY <2>1, <2>4, <2>6, <4>1, <5>1 DEF v
      <4>2. CASE g # h
        <5>1. handler[g].seen[k] + Adds(handler[g], k) <= RecordedOf(k)
          BY <2>1, <2>3, <3>1, <4>2 DEF NeverMore
        <5>2. handler[g].seen[k] \in Nat /\ Adds(handler[g], k) \in Nat
          BY <2>4
        <5> QED
          BY <2>1, <2>4, <2>6, <4>2, <5>1, <5>2
      <4> QED
        BY <4>1, <4>2
    <3>2. stop[k] <= RecordedOf(k) + Adds(v, k)
      BY <2>3, <2>4, <2>6 DEF NeverMore
    <3> QED
      BY <2>1, <2>5, <3>1, <3>2 DEF NeverMore, Reads, Adds
  <2>8. ASSUME patient PROVE Missing(k)'
    <3>1. handler[h] # Free /\ v # Free
      BY <2>1, FieldConstants
    <3>2. \A g \in Handlers : g # h => handler'[g] = Free
      BY <2>1, <2>8, <3>1 DEF PatientInv, OneThing
    <3>3. handler[h].seen[k] = stop[k] /\ RecordedOf(k) <= stop[k] + losses
      BY <1>1, <2>1, <2>3, <2>4, <2>6, <2>8, <3>1 DEF Missing, Reads
    <3>4. ~ServerRests'
      BY <3>1 DEF ServerRests, v
    <3>5. ASSUME NEW g \in Handlers, handler'[g] # Free
          PROVE  handler'[g].seen[k] = stop[k] /\ RecordedOf(k) + Adds(v, k) <= stop[k] + losses + Adds(handler'[g], k)
      <4>1. g = h
        BY <3>2, <3>5
      <4> QED
        BY <1>1, <2>1, <2>4, <2>6, <3>3, <4>1 DEF v
    <3> QED
      BY <2>1, <2>5, <3>4, <3>5 DEF Missing, Reads, Adds
  <2> QED
    BY <2>7, <2>8
<1>9. ASSUME NEW h \in Handlers, WriteStop(h) PROVE CountInv'
  <2> DEFINE x == handler[h].entry
             s == handler[h].seen
  <2>1. /\ UNCHANGED <<patient, ledger, losses>> /\ handler[h].at = "recorded"
        /\ handler' = [handler EXCEPT ![h] = Free]
        /\ stop' = Counted(s, x)
    BY <1>9 DEF WriteStop
  <2>2. x \in Entries /\ s \in Counters /\ handler[h] # Free
    BY <2>1, FieldConstants DEF FieldTyped, RequestOK, ServerRow
  <2>3. \A g \in Handlers : handler'[g] = handler[g] \/ handler'[g] = Free
    BY <2>1 DEF FieldTyped
  <2> SUFFICES ASSUME NEW k \in TwoCounters PROVE NeverMore(k)' /\ (patient => Missing(k)')
    BY <2>1 DEF CountInv
  <2>4. NeverMore(k) /\ (patient => Missing(k))
    BY DEF CountInv
  <2>5. RecordedOf(k) \in Nat /\ stop[k] \in Nat /\ s[k] \in Nat /\ Adds(handler[h], k) \in Nat
    BY RecordedTyped
  <2>6. stop'[k] = s[k] + Adds(handler[h], k)
    <3> HIDE DEF s, x
    <3>1. k = "issued" \/ k = "received"
      BY DEF TwoCounters
    <3>2. Adds(handler[h], k) = IF x \in OfKind(k) THEN 1 ELSE 0
      BY <2>1 DEF Adds, x
    <3>3. x \in OfKind(k) <=> (k = "issued" <=> x \in Issues)
      BY <2>2, FieldEntriesAssumption DEF OfKind
    <3>4. s = [issued |-> s.issued, received |-> s.received] /\ s.issued \in Nat /\ s.received \in Nat
      BY <2>2 DEF Counters
    <3>5. stop' = IF x \in Issues THEN [issued |-> s.issued + 1, received |-> s.received]
                                  ELSE [issued |-> s.issued, received |-> s.received + 1]
      BY <2>1, <3>4 DEF Counted
    <3>6. /\ stop'["issued"] = s["issued"] + (IF x \in Issues THEN 1 ELSE 0)
          /\ stop'["received"] = s["received"] + (IF x \in Issues THEN 0 ELSE 1)
      BY <3>4, <3>5
    <3> QED
      BY <3>1, <3>2, <3>3, <3>6
  <2>7. RecordedOf(k)' = RecordedOf(k)
    BY <2>1 DEF RecordedOf
  <2>8. s[k] + Adds(handler[h], k) <= RecordedOf(k)
    BY <2>1, <2>4 DEF NeverMore, Reads
  <2> HIDE DEF s, x
  <2>9. NeverMore(k)'
    <3>1. ASSUME NEW g \in Handlers, Reads(handler'[g]) PROVE handler'[g].seen[k] + Adds(handler'[g], k) <= RecordedOf(k)
      <4>1. handler'[g] = handler[g]
        BY <2>3, <3>1, FieldConstants DEF Reads
      <4> QED
        BY <2>4, <3>1, <4>1 DEF NeverMore
    <3> QED
      BY <2>6, <2>7, <2>8, <3>1 DEF NeverMore, Reads, Adds
  <2>10. ASSUME patient PROVE Missing(k)'
    <3>1. \A g \in Handlers : handler'[g] = Free
      BY <2>1, <2>2, <2>3, <2>10 DEF PatientInv, OneThing, FieldTyped
    <3>2. s[k] = stop[k] /\ RecordedOf(k) <= stop[k] + losses + Adds(handler[h], k)
      BY <2>1, <2>2, <2>4, <2>10 DEF Missing, Reads, s
    <3>3. RecordedOf(k) <= stop'[k] + losses
      BY <1>1, <2>5, <2>6, <3>2
    <3> QED
      BY <2>1, <2>7, <3>1, <3>3 DEF Missing
  <2> QED
    BY <2>9, <2>10
<1>10. ASSUME NEW h \in Handlers, Refuse(h) \/ DieRecorded(h) PROVE CountInv'
  <2>1. /\ handler' = [handler EXCEPT ![h] = Free] /\ UNCHANGED <<patient, stop, ledger>>
        /\ handler[h].at \in {"arrived", "read", "recorded"}
        /\ losses' >= losses /\ (handler[h].at = "recorded" => losses' = losses + 1)
    BY <1>1, <1>10 DEF Refuse, DieRecorded
  <2>2. handler[h] # Free
    BY <2>1, FieldConstants
  <2> QED
    BY <1>1, <2>1, <2>2, CountFreeing
<1> QED
  BY <1>3, <1>4, <1>5, <1>6, <1>7, <1>8, <1>9, <1>10 DEF NextField, Phone, Server

-----------------------------------------------------------------------
LEMMA InitOfField ==
  ASSUME InitField
  PROVE  FieldTyped /\ PatientInv /\ CountInv
<1> USE DEF InitField
<1>1. FieldTyped
  BY FieldEntriesAssumption, FieldConstants DEF FieldTyped, Counters
<1>2. /\ \A t \in Threads : thread[t] = Rest
      /\ \A h \in Handlers : handler[h] = Free
      /\ queue = <<>> /\ entered = {} /\ \A e \in Entries : ledger[e] = 0
  OBVIOUS
<1>3. \A e : ~Held(e)
  <2>1. queue \in Seq(Entries)
    BY <1>2
  <2> QED
    BY <1>2, <2>1, HeldIs, NothingIn, FieldConstants
<1>4. OneThing /\ Covered
  BY <1>2, FieldConstants DEF OneThing, Covered, Covers
<1>5. ASSUME NEW e \in Entries PROVE Sure(e)
  <2>1. \A t \in Threads : Placed(thread[t], e)
    BY <1>2, NothingIn DEF Placed, Rest
  <2>2. Once(e, queue) /\ ~In(e, queue)
    BY <1>2, NothingIn
  <2> QED
    BY <1>2, <1>3, <2>1, <2>2, FieldConstants DEF Sure
<1>6. CountInv
  <2> SUFFICES ASSUME NEW k \in TwoCounters PROVE NeverMore(k) /\ Missing(k)
    BY DEF CountInv
  <2>1. RecordedOf(k) = 0
    <3>1. \A e \in OfKind(k) : ledger[e] = 0
      BY <1>2, FieldEntriesAssumption DEF OfKind
    <3> QED
      BY <3>1, TotalZero DEF RecordedOf
  <2>2. stop[k] = 0 /\ losses = 0
    BY DEF TwoCounters
  <2> QED
    BY <1>2, <2>1, <2>2, FieldConstants DEF NeverMore, Missing, Reads
<1> QED
  BY <1>1, <1>4, <1>5, <1>6 DEF PatientInv

\* What is known of the entries at any time: their types, what a patient phone
\* and the server hold, and how far the counters are.
FieldInv == FieldTyped /\ PatientInv /\ CountInv

THEOREM FieldInvariant == FieldSpec => []FieldInv
<1>1. InitField => FieldInv
  BY InitOfField DEF FieldInv
<1>2. FieldInv /\ [NextField]_field => FieldInv'
  BY TypedField, PatientStep, CountStep DEF FieldInv
<1> QED
  BY <1>1, <1>2, PTL DEF FieldSpec

\* An entry the driver has made is recorded or still somewhere, whatever is lost,
\* as long as the phone waits for the server (the queue of the driver app).
THEOREM NothingForgotten == FieldSpec => []NotForgotten
<1>1. FieldInv => NotForgotten
  BY DEF FieldInv, PatientInv, Covered, NotForgotten
<1> QED
  BY <1>1, FieldInvariant, PTL

\* Nothing but an answer lost, a death after recording or a page loaded in the
\* middle of a flush makes a patient phone record an entry twice.
THEOREM RecordedTwiceKnowingly == FieldSpec => []TwiceOnlyIfUnsure
<1>1. ASSUME FieldInv PROVE TwiceOnlyIfUnsure
  <2>1. ledger \in [Entries -> Nat]
    BY <1>1 DEF FieldInv, FieldTyped
  <2>2. patient => \A e \in Entries \ unsure : ledger[e] <= 1
    BY <1>1 DEF FieldInv, PatientInv, Sure
  <2> QED
    BY <2>1, <2>2 DEF TwiceOnlyIfUnsure
<1> QED
  BY <1>1, FieldInvariant, PTL

\* However requests overlap, the counters of the stop are never ahead of the crate
\* transactions; of a patient phone they miss one at most for every loss.
THEOREM CountersNeverAhead == FieldSpec => []CountersFollow
<1>1. ASSUME FieldInv PROVE CountersFollow
  <2>1. ASSUME NEW es \in SUBSET Entries PROVE MapThenSumSet(LAMBDA e : ledger[e], es) = Total(ledger, es)
    <3>1. IsFiniteSet(es) /\ \A e \in es : ledger[e] \in Nat
      BY <1>1, FieldEntriesAssumption, FS_Subset DEF FieldInv, FieldTyped
    <3> QED
      BY <3>1, RecursionIsTotal DEF MapThenSumSet, MapThenFoldSet
  <2>2. \A k \in TwoCounters : /\ stop[k] <= RecordedOf(k)
                               /\ patient /\ ServerRests => RecordedOf(k) <= stop[k] + losses
    BY <1>1 DEF FieldInv, CountInv, NeverMore, Missing
  <2>3. /\ RecordedOf("issued") = MapThenSumSet(LAMBDA e : ledger[e], Issues)
        /\ RecordedOf("received") = MapThenSumSet(LAMBDA e : ledger[e], Entries \ Issues)
    <3>1. Issues \in SUBSET Entries /\ Entries \ Issues \in SUBSET Entries
      BY FieldEntriesAssumption
    <3>2. MapThenSumSet(LAMBDA e : ledger[e], Issues) = Total(ledger, Issues)
      BY <2>1, <3>1
    <3>3. MapThenSumSet(LAMBDA e : ledger[e], Entries \ Issues) = Total(ledger, Entries \ Issues)
      BY <2>1, <3>1
    <3> QED
      BY <3>2, <3>3 DEF RecordedOf, OfKind
  <2>4. stop.issued = stop["issued"] /\ stop.received = stop["received"]
    OBVIOUS
  <2>5. stop.issued <= RecordedOf("issued") /\ (patient /\ ServerRests => RecordedOf("issued") <= stop.issued + losses)
    BY <2>2, <2>4 DEF TwoCounters
  <2>6. stop.received <= RecordedOf("received") /\ (patient /\ ServerRests => RecordedOf("received") <= stop.received + losses)
    BY <2>2, <2>4 DEF TwoCounters
  <2> QED
    BY <2>3, <2>5, <2>6 DEF CountersFollow
<1> QED
  BY <1>1, FieldInvariant, PTL
=======================================================================
