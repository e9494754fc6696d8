----------------------- MODULE MCRetailerLedger -----------------------
EXTENDS RetailerLedger, TLC

CONSTANTS c1, c2, shopA, shopB

\* Two retailers; no sum of amounts of one is a sum of amounts of the other.
TwoShops  == "A1" :> shopA @@ "A2" :> shopA @@ "A3" :> shopA @@ "B1" :> shopB
Moves     == "A1" :> 1 @@ "A2" :> 2 @@ "A3" :> -4 @@ "B1" :> 16
ByShop    == [d \in Documents |-> TwoShops[d]]
Movements == [d \in Documents |-> Moves[d]]
\* The callers keep to everything or to nothing; they only post in turn.
AllOrNothing == {{"apart", "forward"}, {}}
ApartOnly    == {{"apart"}}
SymClients == Permutations(Clients)
=======================================================================
