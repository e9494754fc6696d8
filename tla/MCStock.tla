--------------------------- MODULE MCStock ---------------------------
(* Small instances of Stock.                                             *)
EXTENDS Stock, TLC

CONSTANTS c1, c2

RankOf == "b1" :> 1 @@ "b2" :> 2 @@ "b3" :> 3
RowRank == [r \in Rows |-> RankOf[r]]
KindOf == "grn1" :> "grn" @@ "grn2" :> "grn" @@ "count1" :> "adjustment" @@ "count2" :> "adjustment"
          @@ "back1" :> "supplierReturn" @@ "ret1" :> "salesReturn" @@ "trip1" :> "loading"
DocKind == [d \in Documents |-> KindOf[d]]
\* The receipts are of one lot that is not there yet.
RowsOf == "grn1" :> {"b2", "b3"} @@ "grn2" :> {"b2", "b3"} @@ "count1" :> {"b1"} @@ "count2" :> Rows
          @@ "back1" :> {"b1"} @@ "ret1" :> {"b1"} @@ "trip1" :> Rows
DocRows == [d \in Documents |-> RowsOf[d]]
OpeningStock == "b1" :> 2
\* Documents that can meet, two or three at a time.
Meetings == {{"grn1", "grn2"}, {"grn1", "trip1"}, {"count1", "ret1"}, {"count2", "trip1"},
             {"count1", "back1"}, {"grn1", "back1", "trip1"}}
SymClients == Permutations(Clients)
=======================================================================
