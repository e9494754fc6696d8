------------------------- MODULE FulfilmentProofs -------------------------
(* What holds for any number of orders, trips, invoices, consolidations,   *)
(* purchase orders and requests: of trips and stops, whichever requests    *)
(* overlap; when requests are in turn, of invoices, which follow what was  *)
(* delivered, and of purchase orders, which follow what was demanded; and  *)
(* of what a posted receipt says of its purchase order when others are     *)
(* posted at the same time.                                                *)
EXTENDS Fulfilment, Procurement, MoneyTheorems, TLAPS

StopStatus == {"pending", "delivered", "partial", "failed"}
TripStatus == {"none", "planned", "loaded", "dispatched", "completed"}
OrderRow == [status : OrderStatus, ordered : Nat, approved : Nat, edition : Nat]
Item == [status : StopStatus, edition : Nat, ordered : Nat, loaded : Nat, delivered : Int, back : Int]

\* The stops of a trip: items of orders, loaded in full or not at all.
Planned(lines) ==
  /\ DOMAIN lines \subseteq Orders /\ lines \in [DOMAIN lines -> Item]
  /\ \A o \in DOMAIN lines : lines[o].loaded \in {0, lines[o].ordered}
InFull(lines) == \A o \in DOMAIN lines : lines[o].loaded = lines[o].ordered
Within(lines) ==
  \A o \in DOMAIN lines : lines[o].delivered + lines[o].back <= lines[o].loaded + Tolerance

\* What a request in flight may rely on, of trips tr and their stops st as they
\* are now: its trip is there, loaded if it is to leave; and what a stop is about
\* to account for is within what is loaded now.
Sound(r, tr, st) ==
  /\ r.op \in {"updateOrder", "approveOrder", "cancelOrder"} => r.order \in Orders
  /\ r.op \in {"updateOrder", "approveOrder"} => r.qty \in Nat
  /\ r.op = "createTrip" => Planned(r.lines) /\ Within(r.lines)
  /\ r.op \in {"load", "start", "dispatch", "complete", "stop"} => r.trip \in Trips /\ tr[r.trip] # "none"
  /\ r.op = "dispatch" => InFull(st[r.trip])
  /\ r.op = "stop" =>
       /\ r.order \in DOMAIN st[r.trip] /\ r.status \in StopStatus
       /\ r.delivered \in Int /\ r.back \in Int
       /\ r.delivered + r.back <= st[r.trip][r.order].loaded + Tolerance

OrdersOK == order \in [Orders -> OrderRow]
TripsOK == trip \in [Trips -> TripStatus]
StopsOK ==
  /\ DOMAIN stop = Trips
  /\ \A t \in Trips : Planned(stop[t]) /\ Within(stop[t])
  /\ \A t \in Trips : trip[t] = "none" => DOMAIN stop[t] = {}
  /\ \A t \in Trips : trip[t] \in {"loaded", "dispatched"} => InFull(stop[t])
RequestsOK == DOMAIN req = Clients /\ \A c \in Clients : Sound(req[c], trip, stop)

RoadInv == OrdersOK /\ TripsOK /\ StopsOK /\ RequestsOK

-----------------------------------------------------------------------
\* The steps by what they change.

\* A request is begun or goes on; rows stay as they are.
Asking ==
  /\ UNCHANGED <<order, trip, stop>>
  /\ \E c \in Clients : \E r : req' = [req EXCEPT ![c] = r] /\ Sound(r, trip, stop)
\* Orders change, and the request that changed them ends.
Ordering ==
  /\ order' \in [Orders -> OrderRow] /\ UNCHANGED <<trip, stop>>
  /\ UNCHANGED req \/ \E c \in Clients : req' = [req EXCEPT ![c] = Idle]
Elsewhere == UNCHANGED <<order, req, trip, stop>>

LEMMA IdleSound == \A tr, st : Sound(Idle, tr, st)
BY DEF Idle, Sound

\* Trips only go on, and stops are only loaded: who relied on them still may.
Grown(tr, st, tr2, st2) ==
  \A t \in Trips : tr[t] # "none" =>
    /\ tr2[t] # "none" /\ DOMAIN st2[t] = DOMAIN st[t]
    /\ InFull(st[t]) => InFull(st2[t])
    /\ \A o \in DOMAIN st[t] : st[t][o].loaded <= st2[t][o].loaded

LEMMA SoundWhenGrown ==
  ASSUME NEW r, NEW tr, NEW st, NEW tr2, NEW st2,
         Grown(tr, st, tr2, st2), Sound(r, tr, st),
         \A t \in Trips : \A o \in DOMAIN st[t] : st[t][o].loaded \in Nat /\ st2[t][o].loaded \in Nat
  PROVE  Sound(r, tr2, st2)
<1>1. CASE r.op # "stop"
  BY <1>1 DEF Sound, Grown
<1>2. CASE r.op = "stop"
  <2>1. /\ r.trip \in Trips /\ tr[r.trip] # "none" /\ r.order \in DOMAIN st[r.trip]
        /\ r.status \in StopStatus /\ r.delivered \in Int /\ r.back \in Int
        /\ r.delivered + r.back <= st[r.trip][r.order].loaded + Tolerance
    BY <1>2 DEF Sound
  <2>2. /\ tr2[r.trip] # "none" /\ r.order \in DOMAIN st2[r.trip]
        /\ st[r.trip][r.order].loaded <= st2[r.trip][r.order].loaded
    BY <2>1 DEF Grown
  <2>3. st[r.trip][r.order].loaded \in Nat /\ st2[r.trip][r.order].loaded \in Nat
    BY <2>1
  <2>4. r.delivered + r.back <= st2[r.trip][r.order].loaded + Tolerance
    BY <2>1, <2>2, <2>3 DEF Tolerance
  <2> QED
    BY <1>2, <2>1, <2>2, <2>4 DEF Sound
<1> QED
  BY <1>1, <1>2

LEMMA AskingKeeps ==
  ASSUME RoadInv, Asking
  PROVE  RoadInv'
<1>0. PICK c \in Clients : \E r : req' = [req EXCEPT ![c] = r] /\ Sound(r, trip, stop)
  BY DEF Asking
<1>1. PICK r : req' = [req EXCEPT ![c] = r] /\ Sound(r, trip, stop)
  BY <1>0
<1>2. UNCHANGED <<order, trip, stop>>
  BY DEF Asking
<1>3. RequestsOK'
  BY <1>1, <1>2 DEF RoadInv, RequestsOK
<1> QED
  BY <1>2, <1>3 DEF RoadInv, OrdersOK, TripsOK, StopsOK

LEMMA OrderingKeeps ==
  ASSUME RoadInv, Ordering \/ Elsewhere
  PROVE  RoadInv'
<1>1. UNCHANGED <<trip, stop>> /\ OrdersOK'
  BY DEF Ordering, Elsewhere, RoadInv, OrdersOK
<1>2. RequestsOK'
  BY <1>1, IdleSound DEF Ordering, Elsewhere, RoadInv, RequestsOK
<1> QED
  BY <1>1, <1>2 DEF RoadInv, TripsOK, StopsOK

LEMMA LoadedTyped ==
  ASSUME NEW lines, Planned(lines), NEW o \in DOMAIN lines
  PROVE  /\ lines[o] \in Item /\ lines[o].loaded \in Nat /\ lines[o].ordered \in Nat
         /\ lines[o].delivered \in Int /\ lines[o].back \in Int
BY DEF Planned, Item

\* A step that changes trips or stops keeps the invariant if they only go on.
LEMMA MovingKeeps ==
  ASSUME RoadInv, OrdersOK', TripsOK', StopsOK', Grown(trip, stop, trip', stop'),
         NEW c \in Clients, NEW r, req' = [req EXCEPT ![c] = r], Sound(r, trip', stop')
  PROVE  RoadInv'
<1>1. \A t \in Trips : \A o \in DOMAIN stop[t] : stop[t][o].loaded \in Nat
  BY LoadedTyped DEF RoadInv, StopsOK
<1>2. \A t \in Trips : \A o \in DOMAIN stop'[t] : stop'[t][o].loaded \in Nat
  <2>1. \A t \in Trips : Planned(stop'[t])
    BY DEF StopsOK, Planned, Within
  <2> QED
    BY <2>1, LoadedTyped
<1>3. \A t \in Trips : trip[t] = "none" => DOMAIN stop[t] = {}
  BY DEF RoadInv, StopsOK
<1>4. \A t \in Trips : \A o \in DOMAIN stop[t] : stop'[t][o].loaded \in Nat
  BY <1>2, <1>3 DEF Grown
<1>5. ASSUME NEW d \in Clients PROVE Sound(req[d], trip', stop')
  BY <1>1, <1>4, SoundWhenGrown DEF RoadInv, RequestsOK
<1>6. \A d \in Clients : Sound(req'[d], trip', stop')
  BY <1>5 DEF RoadInv, RequestsOK
<1>7. DOMAIN req' = Clients
  BY DEF RoadInv, RequestsOK
<1>8. RequestsOK'
  BY <1>6, <1>7 DEF RequestsOK, Sound, Planned, Within, InFull
<1> QED
  BY <1>8 DEF RoadInv

\* An order's status moves on to a status of orders.
LEMMA PromoteTyped ==
  ASSUME OrdersOK, NEW os, NEW from, NEW to \in OrderStatus
  PROVE  Promote(os, from, to) \in [Orders -> OrderRow]
BY DEF OrdersOK, OrderRow, Promote

LEMMA CommitTripKeeps ==
  ASSUME RoadInv, NEW c \in Clients, CommitTrip(c)
  PROVE  RoadInv'
<1>1. PICK t \in Trips :
        /\ trip[t] = "none" /\ trip' = [trip EXCEPT ![t] = "planned"]
        /\ stop' = [stop EXCEPT ![t] = req[c].lines]
  BY DEF CommitTrip
<1>2. req' = [req EXCEPT ![c] = Idle] /\ OrdersOK' /\ req[c].op = "createTrip"
  BY DEF CommitTrip, Ends, Becomes, RoadInv, OrdersOK
<1>3. Planned(req[c].lines) /\ Within(req[c].lines)
  BY <1>2 DEF RoadInv, RequestsOK, Sound
<1> DEFINE lines == req[c].lines
<1> HIDE DEF lines
<1>4. TripsOK'
  BY <1>1 DEF RoadInv, TripsOK, TripStatus
<1>5. /\ stop'[t] = lines /\ trip'[t] = "planned" /\ DOMAIN stop' = Trips
      /\ \A u \in Trips : u # t => stop'[u] = stop[u] /\ trip'[u] = trip[u]
  BY <1>1 DEF RoadInv, StopsOK, TripsOK, lines
<1>6. \A u \in Trips : Planned(stop'[u]) /\ Within(stop'[u])
  BY <1>3, <1>5 DEF RoadInv, StopsOK, lines
<1>7. StopsOK'
  BY <1>5, <1>6 DEF RoadInv, StopsOK, Planned, Within, InFull
<1>8. Grown(trip, stop, trip', stop')
  <2>1. \A u \in Trips : \A o \in DOMAIN stop[u] : stop[u][o].loaded <= stop[u][o].loaded
    BY LoadedTyped DEF RoadInv, StopsOK
  <2> QED
    BY <1>1, <1>5, <2>1 DEF Grown
<1> QED
  BY <1>2, <1>4, <1>7, <1>8, IdleSound, MovingKeeps

\* A request about a trip relies on it.
LEMMA TripOfRequest ==
  ASSUME RoadInv, NEW c \in Clients, req[c].op \in {"load", "start", "dispatch", "complete", "stop"}
  PROVE  req[c].trip \in Trips /\ trip[req[c].trip] # "none" /\ Sound(req[c], trip, stop)
BY DEF RoadInv, RequestsOK, Sound

LEMMA CommitLoadingKeeps ==
  ASSUME RoadInv, NEW c \in Clients, CommitLoading(c)
  PROVE  RoadInv'
<1> DEFINE t == req[c].trip
           full == [o \in DOMAIN stop[t] |-> [stop[t][o] EXCEPT !.loaded = stop[t][o].ordered]]
           next == IF req[c].start THEN [op |-> "start", trip |-> t] ELSE Idle
<1>1. t \in Trips /\ trip[t] # "none"
  BY TripOfRequest DEF CommitLoading
<1>2. /\ trip' = [trip EXCEPT ![t] = "loaded"]
      /\ stop' = [stop EXCEPT ![t] = full]
      /\ order' = Promote(DOMAIN stop[t], {"approved"}, "packed")
  BY DEF CommitLoading
<1>3. req' = [req EXCEPT ![c] = next]
  BY DEF CommitLoading, Becomes, Ends
<1>4. OrdersOK'
  <2>1. Promote(DOMAIN stop[t], {"approved"}, "packed") \in [Orders -> OrderRow]
    BY PromoteTyped DEF RoadInv, OrderStatus
  <2> QED
    BY <1>2, <2>1 DEF OrdersOK
<1>5. Planned(stop[t]) /\ Within(stop[t])
  BY <1>1 DEF RoadInv, StopsOK
<1>6. ASSUME NEW o \in DOMAIN stop[t]
      PROVE  /\ full[o] \in Item /\ full[o].loaded = stop[t][o].ordered /\ full[o].ordered = stop[t][o].ordered
             /\ full[o].delivered = stop[t][o].delivered /\ full[o].back = stop[t][o].back
             /\ stop[t][o].loaded <= full[o].loaded
  <2>1. stop[t][o] \in Item /\ stop[t][o].loaded \in {0, stop[t][o].ordered}
    BY <1>5, LoadedTyped DEF Planned
  <2> QED
    BY <2>1 DEF Item
<1>7. Planned(full) /\ InFull(full) /\ DOMAIN full = DOMAIN stop[t]
  <2>1. DOMAIN full = DOMAIN stop[t] /\ full \in [DOMAIN full -> Item]
    BY <1>6
  <2> HIDE DEF full
  <2> QED
    BY <1>5, <1>6, <2>1 DEF Planned, InFull
<1>8. Within(full)
  <2>1. ASSUME NEW o \in DOMAIN stop[t]
        PROVE  full[o].delivered + full[o].back <= full[o].loaded + Tolerance
    <3>1. /\ stop[t][o].loaded \in Nat /\ stop[t][o].delivered \in Int /\ stop[t][o].back \in Int
          /\ stop[t][o].ordered \in Nat
      BY <1>5, LoadedTyped
    <3>2. stop[t][o].delivered + stop[t][o].back <= stop[t][o].loaded + Tolerance
      BY <1>5 DEF Within
    <3> HIDE DEF full
    <3> QED
      BY <1>6, <3>1, <3>2 DEF Tolerance
  <2> QED
    BY <1>7, <2>1 DEF Within
<1> HIDE DEF full
<1>9. TripsOK'
  BY <1>2 DEF RoadInv, TripsOK, TripStatus
<1> HIDE DEF t
<1>10. /\ stop'[t] = full /\ trip'[t] = "loaded" /\ DOMAIN stop' = Trips
       /\ \A u \in Trips : u # t => stop'[u] = stop[u] /\ trip'[u] = trip[u]
  BY <1>1, <1>2 DEF RoadInv, StopsOK, TripsOK
<1>11. \A u \in Trips : Planned(stop'[u]) /\ Within(stop'[u])
  BY <1>7, <1>8, <1>10 DEF RoadInv, StopsOK
<1>12. \A u \in Trips : trip'[u] \in {"loaded", "dispatched"} => InFull(stop'[u])
  BY <1>7, <1>10 DEF RoadInv, StopsOK
<1>13. \A u \in Trips : trip'[u] = "none" => DOMAIN stop'[u] = {}
  BY <1>10 DEF RoadInv, StopsOK
<1>14. StopsOK'
  BY <1>10, <1>11, <1>12, <1>13 DEF StopsOK, Planned, Within, InFull
<1>15. Grown(trip, stop, trip', stop')
  <2>1. \A u \in Trips : \A o \in DOMAIN stop[u] : stop[u][o].loaded <= stop[u][o].loaded
    BY LoadedTyped DEF RoadInv, StopsOK
  <2> QED
    BY <1>6, <1>7, <1>10, <2>1 DEF Grown
<1>16. Sound(next, trip', stop')
  BY <1>1, <1>10, IdleSound DEF Sound
<1> QED
  BY <1>3, <1>4, <1>9, <1>14, <1>15, <1>16, MovingKeeps

\* A trip that goes on as it is loaded.
LEMMA TripGoesOn ==
  ASSUME RoadInv, NEW c \in Clients, NEW t \in Trips, trip[t] # "none",
         NEW st \in {"dispatched", "completed"}, st = "dispatched" => InFull(stop[t]),
         trip' = [trip EXCEPT ![t] = st], stop' = stop, OrdersOK', req' = [req EXCEPT ![c] = Idle]
  PROVE  RoadInv'
<1>1. TripsOK'
  BY DEF RoadInv, TripsOK, TripStatus
<1>2. trip'[t] = st /\ \A u \in Trips : u # t => trip'[u] = trip[u]
  BY DEF RoadInv, TripsOK
<1>3. \A u \in Trips : trip'[u] \in {"loaded", "dispatched"} => InFull(stop[u])
  BY <1>2 DEF RoadInv, StopsOK
<1>4. StopsOK'
  BY <1>2, <1>3 DEF RoadInv, StopsOK, Planned, Within, InFull
<1>5. Grown(trip, stop, trip', stop')
  <2>1. \A u \in Trips : \A o \in DOMAIN stop[u] : stop[u][o].loaded <= stop[u][o].loaded
    BY LoadedTyped DEF RoadInv, StopsOK
  <2> QED
    BY <1>2, <2>1 DEF Grown
<1> QED
  BY <1>1, <1>4, <1>5, IdleSound, MovingKeeps

LEMMA CommitDispatchKeeps ==
  ASSUME RoadInv, NEW c \in Clients, CommitDispatch(c) \/ CommitComplete(c)
  PROVE  RoadInv'
<1>1. req[c].trip \in Trips /\ trip[req[c].trip] # "none" /\ Sound(req[c], trip, stop)
  BY TripOfRequest DEF CommitDispatch, CommitComplete
<1>2. req' = [req EXCEPT ![c] = Idle] /\ stop' = stop
  BY DEF CommitDispatch, CommitComplete, Ends, Becomes
<1>3. CASE CommitDispatch(c)
  <2>1. InFull(stop[req[c].trip])
    BY <1>1, <1>3 DEF CommitDispatch, Sound
  <2>2. Promote(DOMAIN stop[req[c].trip], {"approved", "packed"}, "dispatched") \in [Orders -> OrderRow]
    BY PromoteTyped DEF RoadInv, OrderStatus
  <2>3. OrdersOK'
    BY <1>3, <2>2 DEF CommitDispatch, OrdersOK
  <2>4. trip' = [trip EXCEPT ![req[c].trip] = "dispatched"]
    BY <1>3 DEF CommitDispatch
  <2> QED
    BY <1>1, <1>2, <2>1, <2>3, <2>4, TripGoesOn
<1>4. CASE CommitComplete(c)
  <2>1. OrdersOK' /\ trip' = [trip EXCEPT ![req[c].trip] = "completed"]
    BY <1>4 DEF CommitComplete, RoadInv, OrdersOK
  <2> QED
    BY <1>1, <1>2, <2>1, TripGoesOn
<1> QED
  BY <1>3, <1>4


\* A stop's item accounts for no more than is loaded now, whatever was read.
LEMMA CommitStopKeeps ==
  ASSUME RoadInv, NEW c \in Clients, CommitStop(c)
  PROVE  RoadInv'
<1> DEFINE t == req[c].trip
           p == req[c].order
           item == [stop[t][p] EXCEPT !.status = req[c].status, !.delivered = req[c].delivered, !.back = req[c].back]
<1>1. /\ t \in Trips /\ trip[t] # "none" /\ p \in DOMAIN stop[t] /\ req[c].status \in StopStatus
      /\ req[c].delivered \in Int /\ req[c].back \in Int
      /\ req[c].delivered + req[c].back <= stop[t][p].loaded + Tolerance
  BY TripOfRequest DEF CommitStop, Sound
<1>2. Planned(stop[t]) /\ Within(stop[t]) /\ DOMAIN stop = Trips
  BY <1>1 DEF RoadInv, StopsOK
<1>3. stop[t][p] \in Item /\ p \in Orders
  BY <1>1, <1>2, LoadedTyped DEF Planned
<1>4. /\ item \in Item /\ item.loaded = stop[t][p].loaded /\ item.ordered = stop[t][p].ordered
      /\ item.delivered + item.back <= item.loaded + Tolerance
  BY <1>1, <1>3 DEF Item
<1>5. stop' = [stop EXCEPT ![t] = [stop[t] EXCEPT ![p] = item]] /\ trip' = trip
  BY <1>1, <1>2 DEF CommitStop
<1>6. OrdersOK'
  <2>1. CASE req[c].status = "pending"
    BY <2>1 DEF CommitStop, RoadInv, OrdersOK
  <2>2. CASE req[c].status # "pending"
    <3>1. order' = [order EXCEPT ![p].status = MappedStatus[req[c].status]]
      BY <2>2 DEF CommitStop
    <3>2. MappedStatus[req[c].status] \in OrderStatus
      BY <1>1, <2>2 DEF StopStatus, MappedStatus, OrderStatus
    <3> QED
      BY <1>3, <3>1, <3>2 DEF RoadInv, OrdersOK, OrderRow
  <2> QED
    BY <2>1, <2>2
<1> DEFINE r == IF req[c].status = "pending" THEN Idle
                ELSE [op |-> "findInvoices", trip |-> t, order |-> p, status |-> req[c].status]
<1>7. req' = [req EXCEPT ![c] = r]
  BY DEF CommitStop, Ends, Becomes
<1>8. Sound(r, trip', stop')
  BY DEF Idle, Sound
<1> HIDE DEF r
<1> HIDE DEF t, p, item
<1> DEFINE lines == [stop[t] EXCEPT ![p] = item]
<1>9. /\ DOMAIN lines = DOMAIN stop[t] /\ lines[p] = item
      /\ \A o \in DOMAIN stop[t] : o # p => lines[o] = stop[t][o]
  BY <1>1
<1>10. lines \in [DOMAIN lines -> Item]
  BY <1>2, <1>4 DEF Planned
<1>11. /\ stop'[t] = lines /\ DOMAIN stop' = Trips
       /\ \A u \in Trips : u # t => stop'[u] = stop[u]
  BY <1>1, <1>2, <1>5
<1> HIDE DEF lines
<1>12. Planned(lines) /\ Within(lines)
  BY <1>2, <1>4, <1>9, <1>10 DEF Planned, Within
<1>13. InFull(stop[t]) => InFull(lines)
  BY <1>4, <1>9 DEF InFull
<1>14. \A o \in DOMAIN stop[t] : stop[t][o].loaded <= lines[o].loaded
  BY <1>2, <1>4, <1>9, LoadedTyped
<1>15. StopsOK'
  <2>1. \A u \in Trips : Planned(stop'[u]) /\ Within(stop'[u])
    BY <1>11, <1>12 DEF RoadInv, StopsOK
  <2>2. \A u \in Trips : trip[u] \in {"loaded", "dispatched"} => InFull(stop'[u])
    BY <1>11, <1>13 DEF RoadInv, StopsOK
  <2>3. \A u \in Trips : trip[u] = "none" => DOMAIN stop'[u] = {}
    BY <1>1, <1>11 DEF RoadInv, StopsOK
  <2> QED
    BY <1>5, <1>11, <2>1, <2>2, <2>3 DEF StopsOK, Planned, Within, InFull
<1>16. Grown(trip, stop, trip', stop')
  <2>1. \A u \in Trips : \A o \in DOMAIN stop[u] : stop[u][o].loaded <= stop[u][o].loaded
    BY LoadedTyped DEF RoadInv, StopsOK
  <2> QED
    BY <1>5, <1>9, <1>11, <1>13, <1>14, <2>1 DEF Grown
<1>17. TripsOK'
  BY <1>5 DEF RoadInv, TripsOK
<1> QED
  BY <1>6, <1>7, <1>8, <1>15, <1>16, <1>17, MovingKeeps

-----------------------------------------------------------------------
\* Which step is which.

Billed == {"none", "findInvoices", "billing", "createInvoice", "updateDraft", "deleteDraft",
           "revise", "postInvoice", "cancelInvoice"}

\* Requests about invoices rely on nothing of trips and stops.
LEMMA BilledAsks ==
  ASSUME NEW c \in Clients, NEW r, r.op \in Billed, Becomes(c, r), UNCHANGED <<order, trip, stop>>
  PROVE  Asking
<1>1. Sound(r, trip, stop)
  BY DEF Billed, Sound
<1> QED
  BY <1>1 DEF Asking, Becomes

LEMMA Wants ==
  ASSUME OrdersOK, NEW o \in Orders
  PROVE  order[o] \in OrderRow /\ Wanted(o) \in Nat
BY DEF OrdersOK, OrderRow, Wanted

LEMMA AsksOfOrders ==
  ASSUME OrdersOK, UNCHANGED <<trip, stop>>, NEW c \in Clients, NEW o \in Orders,
         NEW role, NEW force, NEW locked, NEW q \in Nat,
         \/ UpdateOrder(c, o, role, force, locked, q)
         \/ RecalculateOrder(c, o, role, locked)
         \/ ApproveOrder(c, o)
         \/ Drop(c, o, role, force, locked)
  PROVE  Asking
<1>1. order[o] \in OrderRow
  BY Wants
<1>2. ASSUME NEW f, NEW n \in Nat, UpdateOrder(c, o, role, f, locked, n)
      PROVE  Asking
  <2> DEFINE r == [op |-> "updateOrder", order |-> o, status |-> order[o].status, qty |-> n, force |-> f]
  <2>1. Becomes(c, r) /\ UNCHANGED order
    BY <1>2 DEF UpdateOrder, Begin
  <2>2. Sound(r, trip, stop)
    BY DEF Sound
  <2> QED
    BY <2>1, <2>2 DEF Asking, Becomes
<1>3. CASE RecalculateOrder(c, o, role, locked)
  BY <1>1, <1>2, <1>3 DEF RecalculateOrder, OrderRow
<1>4. CASE ApproveOrder(c, o)
  <2> DEFINE r == [op |-> "approveOrder", order |-> o, edition |-> order[o].edition, qty |-> order[o].ordered]
  <2>1. Becomes(c, r) /\ UNCHANGED order
    BY <1>4 DEF ApproveOrder, Begin
  <2>2. Sound(r, trip, stop)
    BY <1>1 DEF Sound, OrderRow
  <2> QED
    BY <2>1, <2>2 DEF Asking, Becomes
<1>5. CASE Drop(c, o, role, force, locked)
  <2> DEFINE r == [op |-> "cancelOrder", order |-> o, force |-> force]
  <2>1. Becomes(c, r) /\ UNCHANGED order
    BY <1>5 DEF Drop, Begin
  <2>2. Sound(r, trip, stop)
    BY DEF Sound
  <2> QED
    BY <2>1, <2>2 DEF Asking, Becomes
<1> QED
  BY <1>2, <1>3, <1>4, <1>5

LEMMA OrdersChange ==
  ASSUME RoadInv, UNCHANGED <<trip, stop>>, NEW c \in Clients,
         \/ \E o \in Orders, q \in Nat : CreateOrder(c, o, q)
         \/ CommitUpdateOrder(c) \/ CommitApproveOrder(c) \/ CommitCancelOrder(c)
  PROVE  Ordering
<1>1. Sound(req[c], trip, stop) /\ OrdersOK
  BY DEF RoadInv, RequestsOK
<1>2. CASE \E o \in Orders, q \in Nat : CreateOrder(c, o, q)
  BY <1>1, <1>2 DEF CreateOrder, Ordering, OrdersOK, OrderRow, OrderStatus
<1>3. CASE CommitUpdateOrder(c)
  <2>1. req[c].order \in Orders /\ req[c].qty \in Nat
    BY <1>1, <1>3 DEF CommitUpdateOrder, Sound
  <2> DEFINE n == IF req[c].status = "approved" THEN req[c].qty ELSE 0
  <2>2. n \in Nat
    BY <2>1
  <2>3. order' = [order EXCEPT ![req[c].order].ordered = req[c].qty, ![req[c].order].approved = n,
                               ![req[c].order].edition = @ + 1]
    BY <1>3 DEF CommitUpdateOrder
  <2> HIDE DEF n
  <2>4. order' \in [Orders -> OrderRow]
    BY <1>1, <2>1, <2>2, <2>3 DEF OrdersOK, OrderRow
  <2> QED
    BY <1>3, <2>4 DEF CommitUpdateOrder, Becomes, Ordering
<1>4. CASE CommitApproveOrder(c)
  <2>1. req[c].order \in Orders /\ req[c].qty \in Nat
    BY <1>1, <1>4 DEF CommitApproveOrder, Sound
  <2>2. [order EXCEPT ![req[c].order].status = "approved", ![req[c].order].approved = req[c].qty] \in [Orders -> OrderRow]
    BY <1>1, <2>1 DEF OrdersOK, OrderRow, OrderStatus
  <2> QED
    BY <1>1, <1>4, <2>2 DEF CommitApproveOrder, Becomes, Ordering, OrdersOK
<1>5. CASE CommitCancelOrder(c)
  <2>1. req[c].order \in Orders
    BY <1>1, <1>5 DEF CommitCancelOrder, Sound
  <2>2. order' \in [Orders -> OrderRow]
    BY <1>1, <1>5, <2>1 DEF CommitCancelOrder, OrdersOK, OrderRow, OrderStatus
  <2> QED
    BY <1>5, <2>2 DEF CommitCancelOrder, Becomes, Ordering
<1> QED
  BY <1>2, <1>3, <1>4, <1>5

LEMMA OrdersStep ==
  ASSUME RoadInv, NextOrders({}), UNCHANGED <<trip, stop>>
  PROVE  Asking \/ Ordering
<1>1. PICK c \in Clients :
        \/ \E o \in Orders :
             \/ \E q \in Quantities : CreateOrder(c, o, q)
             \/ \E p \in Orders : DuplicateOrder(c, o, p)
             \/ \E role \in Roles, force \in BOOLEAN :
                  \/ \E q \in Quantities : UpdateOrder(c, o, role, force, o \in {}, q)
                  \/ CancelOrder(c, o, role, force, o \in {})
             \/ \E role \in Roles : RecalculateOrder(c, o, role, o \in {})
             \/ \E role \in Roles : RemoveOrder(c, o, role, o \in {})
             \/ \E force \in BOOLEAN : RejectOrder(c, o, force, o \in {})
             \/ ApproveOrder(c, o)
        \/ CommitUpdateOrder(c)
        \/ CommitApproveOrder(c)
        \/ CommitCancelOrder(c)
  BY DEF NextOrders
<1>2. OrdersOK /\ Quantities \subseteq Nat /\ 0 \in Nat
  BY SalesOrdersAssumption DEF RoadInv
<1>3. CASE CommitUpdateOrder(c) \/ CommitApproveOrder(c) \/ CommitCancelOrder(c)
  BY <1>3, OrdersChange
<1>4. ASSUME NEW o \in Orders, NEW q \in Quantities, CreateOrder(c, o, q)
      PROVE  Ordering
  BY <1>2, <1>4, OrdersChange
<1>5. ASSUME NEW o \in Orders, NEW p \in Orders, DuplicateOrder(c, o, p)
      PROVE  Ordering
  <2>1. order[p].ordered \in Nat
    BY <1>2, Wants DEF OrderRow
  <2> QED
    BY <1>5, <2>1, OrdersChange DEF DuplicateOrder
<1>6. ASSUME NEW o \in Orders, NEW role, NEW force, NEW q \in Quantities,
             \/ UpdateOrder(c, o, role, force, o \in {}, q)
             \/ CancelOrder(c, o, role, force, o \in {})
      PROVE  Asking
  BY <1>2, <1>6, AsksOfOrders DEF CancelOrder
<1>7. ASSUME NEW o \in Orders, NEW role, NEW force,
             \/ CancelOrder(c, o, role, force, o \in {})
             \/ RecalculateOrder(c, o, role, o \in {})
             \/ RemoveOrder(c, o, role, o \in {})
             \/ RejectOrder(c, o, force, o \in {})
             \/ ApproveOrder(c, o)
      PROVE  Asking
  BY <1>2, <1>7, AsksOfOrders DEF CancelOrder, RemoveOrder, RejectOrder
<1> QED
  BY <1>1, <1>3, <1>4, <1>5, <1>6, <1>7

LEMMA CreateTripAsks ==
  ASSUME RoadInv, NEW c \in Clients, CreateTrip(c)
  PROVE  Asking
<1> DEFINE ready == {o \in Orders : order[o].status \in {"approved", "packed"}}
           line(o) == [status |-> "pending", edition |-> order[o].edition, ordered |-> Wanted(o),
                       loaded |-> 0, delivered |-> 0, back |-> 0]
           lines == [o \in ready |-> line(o)]
           r == [op |-> "createTrip", lines |-> lines]
<1>1. Becomes(c, r) /\ UNCHANGED <<order, trip, stop>>
  BY DEF CreateTrip, Serves
<1>2. ASSUME NEW o \in ready
      PROVE  /\ line(o) \in Item /\ line(o).loaded = 0
             /\ line(o).delivered + line(o).back <= line(o).loaded + Tolerance
  <2>1. Wanted(o) \in Nat /\ order[o].edition \in Nat
    BY Wants DEF RoadInv, OrderRow
  <2> QED
    BY <2>1 DEF Item, StopStatus, Tolerance
<1> HIDE DEF line
<1>3. /\ DOMAIN lines = ready /\ lines \in [DOMAIN lines -> Item]
      /\ \A o \in ready : lines[o] = line(o)
  BY <1>2
<1>4. ready \subseteq Orders
  OBVIOUS
<1> HIDE DEF ready, lines
<1>5. Planned(lines) /\ Within(lines)
  BY <1>2, <1>3, <1>4 DEF Planned, Within
<1>6. Sound(r, trip, stop)
  BY <1>5 DEF Sound
<1> QED
  BY <1>1, <1>6 DEF Asking, Becomes

\* A request about a trip that is there.
LEMMA TripAsks ==
  ASSUME NEW c \in Clients, NEW r, Becomes(c, r), UNCHANGED <<order, trip, stop>>,
         r.op \in {"load", "start", "dispatch", "complete"}, r.trip \in Trips, trip[r.trip] # "none",
         r.op = "dispatch" => InFull(stop[r.trip])
  PROVE  Asking
<1>1. Sound(r, trip, stop)
  BY DEF Sound
<1> QED
  BY <1>1 DEF Asking, Becomes

LEMMA TripsAsk ==
  ASSUME RoadInv, NEW c \in Clients,
         \/ CheckLoaded(c) \/ Refused(c)
         \/ \E t \in Trips : GenerateLoadingSheet(c, t) \/ Start(c, t) \/ Complete(c, t)
  PROVE  Asking
<1>1. CASE Refused(c)
  BY <1>1, BilledAsks DEF Refused, Ends, Idle, Billed
<1>2. CASE CheckLoaded(c)
  <2>1. req[c].trip \in Trips /\ trip[req[c].trip] # "none"
    BY <1>2, TripOfRequest DEF CheckLoaded
  <2>2. CASE trip[req[c].trip] \in {"loaded", "dispatched", "in_transit"}
    <3>1. InFull(stop[req[c].trip])
      BY <2>1, <2>2 DEF RoadInv, StopsOK, TripsOK, TripStatus
    <3> QED
      BY <1>2, <2>1, <2>2, <3>1, TripAsks DEF CheckLoaded
  <2>3. CASE trip[req[c].trip] \notin {"loaded", "dispatched", "in_transit"}
    BY <1>2, <2>3, BilledAsks DEF CheckLoaded, Ends, Idle, Billed
  <2> QED
    BY <2>2, <2>3
<1>3. ASSUME NEW t \in Trips, GenerateLoadingSheet(c, t) \/ Start(c, t) \/ Complete(c, t)
      PROVE  Asking
  <2>1. CASE GenerateLoadingSheet(c, t)
    BY <2>1, TripAsks DEF GenerateLoadingSheet, Serves
  <2>2. CASE Start(c, t) /\ trip[t] = "planned"
    BY <2>2, TripAsks DEF Start, Serves
  <2>3. CASE Start(c, t) /\ trip[t] # "planned"
    BY <2>3, TripAsks DEF Start, Serves
  <2>4. CASE Complete(c, t)
    BY <2>4, TripAsks DEF Complete, Serves
  <2> QED
    BY <1>3, <2>1, <2>2, <2>3, <2>4
<1> QED
  BY <1>1, <1>2, <1>3

\* What a driver reports, in numbers.
LEMMA ReportedTyped ==
  ASSUME NEW s \in Item, NEW st \in StopStatus, NEW a \in Answers
  PROVE  Reported(s, st, a) \in Int \X Int
<1>1. a.delivered \in Int /\ a.back \in Int /\ a.given \in BOOLEAN /\ a.said \in BOOLEAN
  BY FulfilmentAssumption
<1>2. s.loaded \in Nat /\ s.delivered \in Int /\ s.back \in Int
  BY DEF Item
<1> QED
  BY <1>1, <1>2 DEF Reported, LoadedQty, StopStatus

LEMMA StopAsks ==
  ASSUME RoadInv, NEW c \in Clients, NEW t \in Trips, NEW o \in Orders, NEW st \in StopStatus,
         NEW a \in Answers, UpdateStopStatus(c, t, o, st, a)
  PROVE  Asking
<1> DEFINE n == Reported(stop[t][o], st, a)
           r == [op |-> "stop", trip |-> t, order |-> o, status |-> st, delivered |-> n[1], back |-> n[2]]
<1>1. o \in DOMAIN stop[t] /\ n[1] + n[2] <= stop[t][o].loaded + Tolerance
  BY DEF UpdateStopStatus, LoadedQty
<1>2. Becomes(c, r) /\ UNCHANGED <<order, trip, stop>>
  BY DEF UpdateStopStatus, Serves
<1>3. trip[t] # "none" /\ stop[t][o] \in Item
  BY <1>1, LoadedTyped DEF RoadInv, StopsOK
<1>4. n[1] \in Int /\ n[2] \in Int
  BY <1>3, ReportedTyped
<1> HIDE DEF n
<1>5. Sound(r, trip, stop)
  BY <1>1, <1>3, <1>4 DEF Sound
<1> QED
  BY <1>2, <1>5 DEF Asking, Becomes

LEMMA GoesAsks ==
  ASSUME NEW c \in Clients, NEW todo, NEW st, Goes(c, todo, st), UNCHANGED <<order, trip, stop>>
  PROVE  Asking
BY BilledAsks DEF Goes, Idle, Billed

\* A request about an invoice.
LEMMA BillAsks ==
  ASSUME NEW c \in Clients, NEW op \in Billed, NEW i, NEW q, NEW actual, NEW todo, NEW st,
         Becomes(c, Bill(op, i, q, actual, todo, st)), UNCHANGED <<order, trip, stop>>
  PROVE  Asking
<1>1. Bill(op, i, q, actual, todo, st).op \in Billed
  BY DEF Bill
<1> QED
  BY <1>1, BilledAsks

LEMMA FollowAsks ==
  ASSUME NEW c \in Clients, FindInvoices(c) \/ \E i \in Invoices : FollowDelivery(c, i)
  PROVE  Asking
<1>1. CASE FindInvoices(c)
  BY <1>1, GoesAsks DEF FindInvoices
<1>2. ASSUME NEW i \in Invoices, FollowDelivery(c, i)
      PROVE  Asking
  <2> DEFINE rest == req[c].todo \ {i}
             st   == req[c].status
  <2>1. UNCHANGED <<order, trip, stop>>
    BY <1>2 DEF FollowDelivery
  <2>2. \/ Becomes(c, Recomputing(i, rest, st))
        \/ Becomes(c, Cancelling(i, rest, st))
        \/ Goes(c, rest, st)
    BY <1>2 DEF FollowDelivery
  <2>3. CASE Becomes(c, Recomputing(i, rest, st))
    BY <2>1, <2>3, BillAsks DEF Recomputing, Billed
  <2>4. CASE Becomes(c, Cancelling(i, rest, st))
    BY <2>1, <2>4, BillAsks DEF Cancelling, Billed
  <2>5. CASE Goes(c, rest, st)
    BY <2>1, <2>5, GoesAsks
  <2> QED
    BY <2>2, <2>3, <2>4, <2>5
<1> QED
  BY <1>1, <1>2

LEMMA BillingAsks ==
  ASSUME NEW c \in Clients, Billing(c)
  PROVE  Asking
<1>1. ASSUME NEW o, NEW t, NEW st, CreateInvoice(c, o, t, st)
      PROVE  Asking
  BY <1>1, BilledAsks DEF CreateInvoice, Serves, Billed
<1>2. ASSUME NEW i, NEW q,
             \/ UpdateDraft(c, i, q) \/ RevisePostedUnpaid(c, i, q) \/ DeleteDraft(c, i)
             \/ RecomputeFromDelivery(c, i) \/ Post(c, i) \/ Cancel(c, i)
      PROVE  Asking
  <2>1. CASE UpdateDraft(c, i, q) \/ RevisePostedUnpaid(c, i, q) \/ DeleteDraft(c, i) \/ Post(c, i)
    BY <2>1, BillAsks DEF UpdateDraft, RevisePostedUnpaid, DeleteDraft, Post, Serves, Billed
  <2>2. CASE RecomputeFromDelivery(c, i)
    BY <2>2, BillAsks DEF RecomputeFromDelivery, Recomputing, Serves, Billed
  <2>3. CASE Cancel(c, i)
    BY <2>3, BillAsks DEF Cancel, Cancelling, Serves, Billed
  <2> QED
    BY <1>2, <2>1, <2>2, <2>3
<1>3. CASE CommitInvoice(c)
  BY <1>3, BilledAsks DEF CommitInvoice, Ends, Idle, Billed
<1>4. ASSUME NEW op, NEW changed, Commit(c, op, changed)
      PROVE  Asking
  BY <1>4, GoesAsks DEF Commit
<1>5. CASE CommitUpdateDraft(c) \/ CommitDelete(c) \/ CommitPost(c) \/ CommitCancel(c) \/ CommitRevise(c)
  BY <1>4, <1>5 DEF CommitUpdateDraft, CommitDelete, CommitPost, CommitCancel, CommitRevise
<1> QED
  BY <1>1, <1>2, <1>3, <1>5 DEF Billing

-----------------------------------------------------------------------
\* The invariant.

LEMMA RoadInit ==
  ASSUME Init
  PROVE  RoadInv
<1>1. OrdersOK
  BY DEF Init, InitOrders, OrdersOK, OrderRow, OrderStatus
<1>2. TripsOK
  BY DEF Init, TripsOK, TripStatus
<1>3. DOMAIN stop = Trips /\ \A t \in Trips : DOMAIN stop[t] = {} /\ stop[t] \in [{} -> Item]
  BY DEF Init
<1>4. StopsOK
  BY <1>3 DEF Init, StopsOK, Planned, Within, InFull
<1>5. RequestsOK
  BY IdleSound DEF Init, InitOrders, RequestsOK
<1> QED
  BY <1>1, <1>2, <1>4, <1>5 DEF RoadInv

LEMMA RoadStep ==
  ASSUME RoadInv, [Next]_vars
  PROVE  RoadInv'
<1>1. CASE UNCHANGED vars
  BY <1>1, OrderingKeeps DEF vars, Elsewhere
<1>2. CASE NextOrders({}) /\ UNCHANGED <<trip, stop, invoice>>
  BY <1>2, OrdersStep, AskingKeeps, OrderingKeeps
<1>3. ASSUME NEW c \in Clients, Dispatch(c)
      PROVE  RoadInv'
  <2>1. CASE CreateTrip(c)
    BY <2>1, CreateTripAsks, AskingKeeps
  <2>2. CASE CommitTrip(c)
    BY <2>2, CommitTripKeeps
  <2>3. CASE CommitLoading(c)
    BY <2>3, CommitLoadingKeeps
  <2>4. CASE CommitDispatch(c) \/ CommitComplete(c)
    BY <2>4, CommitDispatchKeeps
  <2>5. CASE \/ CheckLoaded(c) \/ Refused(c)
             \/ \E t \in Trips : GenerateLoadingSheet(c, t) \/ Start(c, t) \/ Complete(c, t)
    BY <2>5, TripsAsk, AskingKeeps
  <2> QED
    BY <1>3, <2>1, <2>2, <2>3, <2>4, <2>5 DEF Dispatch
<1>4. ASSUME NEW c \in Clients, Delivery(c)
      PROVE  RoadInv'
  <2>1. ASSUME NEW t \in Trips, NEW o \in Orders, NEW a \in Answers,
               NEW st \in {"pending", "delivered", "partial", "failed"}, UpdateStopStatus(c, t, o, st, a)
        PROVE  RoadInv'
    BY <2>1, StopAsks, AskingKeeps DEF StopStatus
  <2>2. CASE CommitStop(c)
    BY <2>2, CommitStopKeeps
  <2>3. CASE FindInvoices(c) \/ \E i \in Invoices : FollowDelivery(c, i)
    BY <2>3, FollowAsks, AskingKeeps
  <2> QED
    BY <1>4, <2>1, <2>2, <2>3 DEF Delivery
<1>5. ASSUME NEW c \in Clients, Billing(c)
      PROVE  RoadInv'
  BY <1>5, BillingAsks, AskingKeeps
<1>6. ASSUME NEW i \in Invoices, Allocate(i) \/ Release(i) \/ Pay(i) \/ \E left \in BOOLEAN : Unpay(i, left)
      PROVE  RoadInv'
  BY <1>6, OrderingKeeps DEF Allocate, Release, Pay, Unpay, Elsewhere
<1> QED
  BY <1>1, <1>2, <1>3, <1>4, <1>5, <1>6 DEF Next

LEMMA RoadInvariant == Spec => []RoadInv
<1>1. Init => RoadInv
  BY RoadInit
<1>2. RoadInv /\ [Next]_vars => RoadInv'
  BY RoadStep
<1> QED
  BY <1>1, <1>2, PTL DEF Spec

\* Whatever overlaps and however often trips are loaded, started and reported
\* on, what a stop accounts for is within what the truck was loaded with for it
\* (deliveries.service: updateStopStatus, against generateLoadingSheet).
THEOREM HandledStaysWithinLoaded == Spec => []HandledWithinLoaded
<1>1. RoadInv => HandledWithinLoaded
  BY DEF RoadInv, StopsOK, Within, HandledWithinLoaded
<1> QED
  BY <1>1, RoadInvariant, PTL

\* Whatever overlaps, a trip that waits loaded or is on the road has had every
\* stop loaded in full: a start that loads the trip first, and one that finds it
\* loaded, both leave after the loading (dispatch.service: start).
THEOREM RoadIsLoaded == Spec => []OnTheRoadIsLoaded
<1>1. RoadInv => OnTheRoadIsLoaded
  BY DEF RoadInv, StopsOK, InFull, OnTheRoadIsLoaded
<1> QED
  BY <1>1, RoadInvariant, PTL

-----------------------------------------------------------------------
(* Requests in turn: the invoices follow what was delivered.             *)

\* One request is in flight at a time.
TurnsTaken == \A c, d \in Clients : req[c] # Idle /\ req[d] # Idle => c = d

\* An invoice is for an order, a trip that is there, or both; payments and what
\* is allocated to it mark it.
RowOK(v) ==
  /\ v = [status |-> v.status, order |-> v.order, trip |-> v.trip, billed |-> v.billed,
          allocated |-> v.allocated, touched |-> v.touched]
  /\ v.order \in Orders \cup {"none"} /\ v.trip \in Trips \cup {"none"}
  /\ v.allocated \in BOOLEAN /\ v.touched \in BOOLEAN
  /\ v.status = "paid" \/ v.allocated => v.touched
  /\ v.trip # "none" => trip[v.trip] # "none"
InvoicesOK == DOMAIN invoice = Invoices /\ \A i \in Invoices : RowOK(invoice[i])

\* There is one trip, and its items are of editions their orders have had.
OneTrip == \A t, u \in Trips : trip[t] # "none" /\ trip[u] # "none" => t = u
EditionsOK == \A t \in Trips : \A o \in DOMAIN stop[t] : stop[t][o].edition <= order[o].edition

OneLive ==
  \A i, j \in Invoices :
    Live(i) /\ Live(j) /\ invoice[i].order = invoice[j].order /\ invoice[i].trip = invoice[j].trip => i = j

\* What was delivered of the order's item is what q bills.
Bills(o, q) ==
  \A t \in Trips :
    /\ o \in DOMAIN stop[t] /\ stop[t][o].status \in {"delivered", "partial"}
    /\ stop[t][o].delivered > 0 /\ stop[t][o].edition = order[o].edition
    => q = stop[t][o].delivered
Right(v) == v.status \in {"draft", "posted"} /\ ~v.touched => Bills(v.order, v.billed)

\* What a request has read still holds.
AboutInvoice == {"updateDraft", "deleteDraft", "revise", "postInvoice", "cancelInvoice"}
Meant(r) ==
  /\ r.op = "createTrip" =>
       /\ \A t \in Trips : trip[t] = "none"
       /\ \A o \in DOMAIN r.lines :
            r.lines[o].status = "pending" /\ r.lines[o].edition <= order[o].edition
  /\ r.op \in AboutInvoice => r.invoice \in Invoices /\ Unpaid(r.invoice)
  /\ r.op \in {"updateDraft", "revise"} =>
       /\ r.actual \in BOOLEAN /\ (r.actual => Bills(invoice[r.invoice].order, r.qty))
       /\ ~invoice[r.invoice].allocated
  /\ r.op = "createInvoice" =>
       /\ r.order \in Orders \cup {"none"} /\ r.trip \in Trips \cup {"none"}
       /\ r.trip # "none" => trip[r.trip] # "none"
       /\ r.status \in {"draft", "posted"}
       /\ \A i \in Invoices : ~(Live(i) /\ invoice[i].order = r.order /\ invoice[i].trip = r.trip)
       /\ Bills(r.order, r.qty)
RequestsMeant == \A c \in Clients : Meant(req[c])

\* The request has yet to bring the invoice up to date.
Due(r, i) ==
  \/ r.op = "findInvoices" /\ invoice[i].order = r.order
  \/ r.op \in AboutInvoice \cup {"billing"} /\ i \in r.todo
  \/ r.op \in {"updateDraft", "revise", "cancelInvoice"} /\ i = r.invoice
Waiting == {i \in Invoices : \E c \in Clients : Due(req[c], i)}
BilledOK == \A i \in Invoices : i \in Waiting \/ Right(invoice[i])

BillInv ==
  /\ TurnsTaken /\ InvoicesOK /\ OneTrip /\ EditionsOK /\ OneLive /\ BilledOK /\ RequestsMeant
BooksInTurn == InTurn => BillInv

-----------------------------------------------------------------------
\* What an invoice for an order bills.

\* The sum over one index: the fold's function on the subsets of one element.
LEMMA SumOfOne ==
  ASSUME NEW f, NEW x
  PROVE  FoldFunctionOnSet(+, 0, f, {x}) = f[x] + 0
<1> DEFINE S == {x}
           body(it) == [s \in SUBSET S |->
                          IF s = {} THEN 0 ELSE LET y == CHOOSE z \in s : TRUE IN f[y] + it[s \ {y}]]
           it == CHOOSE g : g = body(g)
           sum == [s \in SUBSET S |-> IF s = {} THEN 0 ELSE f[x] + 0]
<1>1. FoldFunctionOnSet(+, 0, f, {x}) = it[{x}]
  BY DEF FoldFunctionOnSet, MapThenFoldSet
<1>2. \A s \in SUBSET S : s # {} => s = S /\ (CHOOSE z \in s : TRUE) = x /\ s \ {x} = {}
  <2>1. ASSUME NEW s \in SUBSET S, s # {} PROVE s = S
    BY <2>1
  <2>2. (CHOOSE z \in S : TRUE) \in S
    <3>1. \E z \in S : TRUE
      OBVIOUS
    <3> QED
      BY <3>1
  <2> QED
    BY <2>1, <2>2
<1>3. {} \in SUBSET S /\ S \in SUBSET S
  OBVIOUS
<1>4. sum = body(sum)
  <2>1. ASSUME NEW s \in SUBSET S, s # {}
        PROVE  f[CHOOSE z \in s : TRUE] + sum[s \ {CHOOSE z \in s : TRUE}] = f[x] + 0
    <3>1. (CHOOSE z \in s : TRUE) = x /\ s \ {x} = {}
      BY <1>2, <2>1
    <3>2. sum[{}] = 0
      BY <1>3
    <3> QED
      BY <3>1, <3>2
  <2> QED
    BY <2>1
<1>5. it = body(it)
  <2> HIDE DEF body, sum
  <2>1. \E g : g = body(g)
    BY <1>4
  <2> QED
    BY <2>1
<1>6. it[S] = f[x] + it[{}] /\ it[{}] = 0
  <2> HIDE DEF it
  <2>1. it[S] = f[CHOOSE z \in S : TRUE] + it[S \ {CHOOSE z \in S : TRUE}]
    BY <1>3, <1>5
  <2>2. it[{}] = 0
    BY <1>3, <1>5
  <2>3. (CHOOSE z \in S : TRUE) = x /\ S \ {x} = {}
    BY <1>2, <1>3
  <2> HIDE DEF S
  <2> QED
    BY <2>1, <2>2, <2>3
<1> QED
  BY <1>1, <1>6

\* Of an order's item that a stop took, it bills what the stop delivered.
LEMMA LinesOf ==
  ASSUME RoadInv, OneTrip, NEW t \in Trips \cup {"none"}, t # "none" => trip[t] # "none",
         NEW u \in Trips, NEW o \in DOMAIN stop[u], stop[u][o].edition = order[o].edition
  PROVE  o \in Orders /\ Lines(o, t) = stop[u][o].delivered /\ stop[u][o].delivered \in Int
<1>1. Planned(stop[u]) /\ trip[u] # "none"
  BY DEF RoadInv, StopsOK
<1>2. o \in Orders /\ stop[u][o].delivered \in Int
  BY <1>1, LoadedTyped DEF Planned
<1>3. \A w \in Trips : o \in DOMAIN stop[w] => w = u
  BY <1>1 DEF RoadInv, StopsOK, OneTrip
<1>4. t \in {"none", u}
  BY <1>1 DEF OneTrip
<1> DEFINE known == {w \in StopsOf(o, t) : stop[w][o].edition = order[o].edition}
           f == [w \in known |-> stop[w][o].delivered]
<1>5. known = {u}
  BY <1>3, <1>4 DEF StopsOf
<1>6. Lines(o, t) = FoldFunctionOnSet(+, 0, f, known)
  BY <1>2, <1>5, SalesOrdersAssumption DEF Lines
<1>7. f[u] = stop[u][o].delivered
  BY <1>5
<1> HIDE DEF known, f
<1> DEFINE sum == FoldFunctionOnSet(+, 0, f, {u})
<1>8. sum = f[u] + 0
  BY SumOfOne
<1>9. Lines(o, t) = sum
  BY <1>5, <1>6, Zenon
<1> HIDE DEF sum
<1> QED
  BY <1>2, <1>7, <1>8, <1>9

LEMMA LinesBill ==
  ASSUME RoadInv, OneTrip, NEW o, NEW t \in Trips \cup {"none"}, t # "none" => trip[t] # "none"
  PROVE  Bills(o, Lines(o, t))
BY LinesOf DEF Bills

\* An invoice that cannot be drawn up again bills nothing that was delivered.
LEMMA NothingToBill ==
  ASSUME RoadInv, OneTrip, NEW o, NEW t \in Trips \cup {"none"}, t # "none" => trip[t] # "none",
         ~(Lines(o, t) > 0), NEW q
  PROVE  Bills(o, q)
<1> SUFFICES ASSUME NEW u \in Trips, o \in DOMAIN stop[u], stop[u][o].delivered > 0,
                    stop[u][o].edition = order[o].edition
             PROVE  FALSE
  BY DEF Bills
<1>1. Lines(o, t) = stop[u][o].delivered
  BY LinesOf
<1> QED
  BY <1>1

-----------------------------------------------------------------------
\* A step in turn is one request's, the others being idle.

Alone(c, r) == req'[c] = r /\ \A d \in Clients : d # c => req[d] = Idle /\ req'[d] = Idle

LEMMA TakesTurn ==
  ASSUME RoadInv, InTurn, TurnsTaken, NEW c \in Clients, NEW r, Becomes(c, r),
         req[c].op # "none" \/ \E op : Free(c, op)
  PROVE  Alone(c, r)
<1>1. \A d \in Clients : d # c => req[d] = Idle
  BY DEF TurnsTaken, Free, InTurn, Idle
<1>2. DOMAIN req = Clients
  BY DEF RoadInv, RequestsOK
<1> QED
  BY <1>1, <1>2 DEF Becomes, Alone

LEMMA IdleMeans == Meant(Idle) /\ \A i : ~Due(Idle, i)
BY DEF Meant, Idle, Due, AboutInvoice

LEMMA IdleMeansThen == Meant(Idle)' /\ \A i : ~Due(Idle, i)'
BY DEF Meant, Idle, Due, AboutInvoice

LEMMA AloneKeeps ==
  ASSUME NEW c \in Clients, NEW r, Alone(c, r), Meant(r)'
  PROVE  TurnsTaken' /\ RequestsMeant'
<1>1. \A d \in Clients : Meant(req[d])'
  <2> SUFFICES ASSUME NEW d \in Clients PROVE Meant(req[d])'
    OBVIOUS
  <2>1. CASE d = c
    BY <2>1 DEF Alone, Meant, Unpaid, Live, Bills
  <2>2. CASE d # c
    BY <2>2, IdleMeansThen DEF Alone, Meant, Unpaid, Live, Bills
  <2> QED
    BY <2>1, <2>2
<1> QED
  BY <1>1 DEF Alone, TurnsTaken, RequestsMeant

LEMMA AlonePending ==
  ASSUME NEW c \in Clients, NEW r, Alone(c, r), NEW i \in Invoices
  PROVE  (i \in Waiting <=> Due(req[c], i)) /\ (Due(r, i)' => i \in Waiting')
<1>1. i \in Waiting <=> Due(req[c], i)
  BY IdleMeans DEF Alone, Waiting
<1>2. Due(r, i)' => i \in Waiting'
  BY DEF Alone, Waiting, Due
<1> QED
  BY <1>1, <1>2

-----------------------------------------------------------------------
\* Steps by what they do to the invoices.

\* A request is begun or goes on: what it had yet to do, it still has to.
LEMMA AskingBills ==
  ASSUME BillInv, NEW c \in Clients, NEW r, Alone(c, r), UNCHANGED <<order, trip, stop, invoice>>,
         Meant(r), \A i \in Invoices : Due(req[c], i) => Due(r, i) \/ Right(invoice[i])
  PROVE  BillInv'
<1>1. Meant(r)'
  BY DEF Meant, Unpaid, Live, Bills
<1>2. TurnsTaken' /\ RequestsMeant'
  BY <1>1, AloneKeeps
<1>3. ASSUME NEW i \in Invoices PROVE (i \in Waiting \/ Right(invoice[i]))'
  <2>1. Due(r, i) => Due(r, i)'
    BY DEF Due
  <2>2. Right(invoice[i]) => Right(invoice[i])'
    BY DEF Right, Bills
  <2> QED
    BY <2>1, <2>2, AlonePending DEF BillInv, BilledOK
<1>4. BilledOK'
  BY <1>3 DEF BilledOK
<1>5. InvoicesOK' /\ OneTrip' /\ EditionsOK' /\ OneLive'
  BY DEF BillInv, InvoicesOK, RowOK, OneTrip, EditionsOK, OneLive, Live
<1> QED
  BY <1>2, <1>4, <1>5 DEF BillInv

\* A request that is about nothing an invoice waits for begins, goes on or ends.
LEMMA PassingBills ==
  ASSUME BillInv, NEW c \in Clients, NEW r, Alone(c, r), UNCHANGED <<order, trip, stop, invoice>>,
         req[c].op \in {"none", "load", "start", "dispatch"}, Meant(r)
  PROVE  BillInv'
<1>1. \A i \in Invoices : ~Due(req[c], i)
  BY DEF Due, AboutInvoice
<1> QED
  BY <1>1, AskingBills

\* Orders are edited, trips and stops go on: a bill stays right unless the
\* request has yet to bring its invoice up to date.
LEMMA MovingBills ==
  ASSUME BillInv, NEW c \in Clients, NEW r, Alone(c, r), invoice' = invoice,
         OneTrip', EditionsOK', \A t \in Trips : trip[t] # "none" => trip'[t] # "none",
         Meant(r)', \A i \in Invoices : ~Due(req[c], i),
         \A i \in Invoices : Due(r, i)' \/ (Right(invoice[i]) => Right(invoice[i])')
  PROVE  BillInv'
<1>1. TurnsTaken' /\ RequestsMeant'
  BY AloneKeeps
<1>2. ASSUME NEW i \in Invoices PROVE (i \in Waiting \/ Right(invoice[i]))'
  BY AlonePending DEF BillInv, BilledOK
<1>3. BilledOK'
  BY <1>2 DEF BilledOK
<1>4. InvoicesOK' /\ OneLive'
  BY DEF BillInv, InvoicesOK, RowOK, OneLive, Live
<1> QED
  BY <1>1, <1>3, <1>4 DEF BillInv

\* One invoice is written, which was unpaid or paid before.
LEMMA WritingBills ==
  ASSUME BillInv, UNCHANGED <<order, trip, stop>>, TurnsTaken', RequestsMeant',
         NEW i \in Invoices, Live(i), DOMAIN invoice' = Invoices,
         \A j \in Invoices : j # i => invoice'[j] = invoice[j],
         NEW v, invoice'[i] = v, RowOK(v), v.order = invoice[i].order, v.trip = invoice[i].trip,
         \A j \in Invoices : j \in Waiting /\ j # i => j \in Waiting',
         Right(v) \/ i \in Waiting'
  PROVE  BillInv'
<1>1. OneTrip' /\ EditionsOK'
  BY DEF BillInv, OneTrip, EditionsOK
<1>2. InvoicesOK'
  BY DEF BillInv, InvoicesOK, RowOK
<1>3. OneLive'
  BY DEF BillInv, OneLive, Live
<1>4. ASSUME NEW j \in Invoices PROVE (j \in Waiting \/ Right(invoice[j]))'
  <2>1. \A w : Right(w) => Right(w)'
    BY DEF Right, Bills
  <2>2. CASE j = i
    BY <2>1, <2>2
  <2>3. CASE j # i
    BY <2>1, <2>3 DEF BillInv, BilledOK
  <2> QED
    BY <2>2, <2>3
<1>5. BilledOK'
  BY <1>4 DEF BilledOK
<1> QED
  BY <1>1, <1>2, <1>3, <1>5 DEF BillInv

\* One invoice is drawn up, where there was none or in the place of another.
LEMMA DrawingBills ==
  ASSUME BillInv, UNCHANGED <<order, trip, stop>>, TurnsTaken', RequestsMeant',
         NEW i \in Invoices, ~Live(i), DOMAIN invoice' = Invoices, NEW v, invoice'[i] = v,
         InvoicesOK', Right(v),
         \A j \in Invoices : j # i => invoice'[j] = invoice[j] \/ invoice'[j].status = "cancelled",
         \A j \in Invoices : j # i /\ Live(j) /\ invoice[j].order = v.order /\ invoice[j].trip = v.trip
                              => invoice'[j].status = "cancelled",
         \A j \in Invoices : j # i /\ j \in Waiting => j \in Waiting' \/ invoice'[j].status = "cancelled"
  PROVE  BillInv'
<1>1. OneTrip' /\ EditionsOK'
  BY DEF BillInv, OneTrip, EditionsOK
<1>2. OneLive'
  <2>1. ASSUME NEW j \in Invoices, j # i, Live(j)'
        PROVE  invoice'[j] = invoice[j] /\ Live(j) /\ (invoice[j].order # v.order \/ invoice[j].trip # v.trip)
    BY <2>1 DEF Live
  <2> QED
    BY <2>1 DEF BillInv, OneLive, Live
<1>3. ASSUME NEW j \in Invoices PROVE (j \in Waiting \/ Right(invoice[j]))'
  <2>1. \A w : Right(w) => Right(w)'
    BY DEF Right, Bills
  <2>2. invoice'[j].status = "cancelled" => Right(invoice[j])'
    BY DEF Right
  <2>3. CASE j = i
    BY <2>1, <2>3
  <2>4. CASE j # i
    BY <2>1, <2>2, <2>4 DEF BillInv, BilledOK
  <2> QED
    BY <2>3, <2>4
<1>4. BilledOK'
  BY <1>3 DEF BilledOK
<1> QED
  BY <1>1, <1>2, <1>4 DEF BillInv

\* Orders are edited and stops go on: each is as it was, has yet to be taken, or
\* is what the request is about to follow in its invoices.
LEMMA GrowingBills ==
  ASSUME RoadInv, RoadInv', BillInv, NEW c \in Clients, NEW r, Alone(c, r), invoice' = invoice,
         OneTrip', \A t \in Trips : trip[t] # "none" => trip'[t] # "none",
         Meant(r)', \A i \in Invoices : ~Due(req[c], i),
         \A o \in Orders : order[o].edition <= order'[o].edition,
         \A t \in Trips : \A o \in DOMAIN stop'[t] :
           \/ stop'[t][o].status = "pending" /\ stop'[t][o].edition <= order'[o].edition
           \/ /\ o \in DOMAIN stop[t] /\ stop'[t][o].edition = stop[t][o].edition
              /\ \/ /\ stop'[t][o].status = stop[t][o].status
                    /\ stop'[t][o].delivered = stop[t][o].delivered
                 \/ \A i \in Invoices : invoice[i].order = o => Due(r, i)'
  PROVE  BillInv'
<1>1. ASSUME NEW o \in Orders PROVE order[o].edition \in Nat /\ order'[o].edition \in Nat
  BY DEF RoadInv, OrdersOK, OrderRow
<1>2. ASSUME NEW t \in Trips, NEW o \in DOMAIN stop[t]
      PROVE  o \in Orders /\ stop[t][o].edition \in Nat /\ stop[t][o].edition <= order[o].edition
  <2>1. Planned(stop[t])
    BY DEF RoadInv, StopsOK
  <2>2. o \in Orders /\ stop[t][o] \in Item
    BY <2>1, LoadedTyped DEF Planned
  <2> QED
    BY <2>2 DEF Item, BillInv, EditionsOK
<1>3. EditionsOK'
  <2> SUFFICES ASSUME NEW t \in Trips, NEW o \in DOMAIN stop'[t]
               PROVE  stop'[t][o].edition <= order'[o].edition
    BY DEF EditionsOK
  <2>1. CASE stop'[t][o].edition <= order'[o].edition
    BY <2>1
  <2>2. CASE o \in DOMAIN stop[t] /\ stop'[t][o].edition = stop[t][o].edition
    BY <1>1, <1>2, <2>2
  <2> QED
    BY <2>1, <2>2
<1>4. ASSUME NEW i \in Invoices, ~Due(r, i)', Right(invoice[i])
      PROVE  Right(invoice[i])'
  <2> DEFINE o == invoice[i].order
             q == invoice[i].billed
  <2> SUFFICES ASSUME Bills(o, q),
                      NEW t \in Trips, o \in DOMAIN stop'[t], stop'[t][o].status \in {"delivered", "partial"},
                      stop'[t][o].delivered > 0, stop'[t][o].edition = order'[o].edition
               PROVE  q = stop'[t][o].delivered
    BY <1>4 DEF Right, Bills
  <2>1. /\ o \in DOMAIN stop[t] /\ stop'[t][o].edition = stop[t][o].edition
        /\ stop'[t][o].status = stop[t][o].status /\ stop'[t][o].delivered = stop[t][o].delivered
    BY <1>4
  <2> HIDE DEF o, q
  <2>2. /\ o \in Orders /\ stop[t][o].edition \in Nat /\ stop[t][o].edition <= order[o].edition
        /\ order[o].edition \in Nat /\ order[o].edition <= order'[o].edition
    BY <1>1, <1>2, <2>1
  <2>3. stop[t][o].edition = order'[o].edition
    BY <2>1
  <2>4. stop[t][o].edition = order[o].edition
    BY <2>2, <2>3
  <2> QED
    BY <2>1, <2>4 DEF Bills
<1> QED
  BY <1>3, <1>4, MovingBills

-----------------------------------------------------------------------
\* Orders.

LEMMA OrderAskingBills ==
  ASSUME RoadInv, BillInv, InTurn, UNCHANGED <<trip, stop, invoice>>, NEW c \in Clients, NEW o, NEW r,
         r.op \in {"updateOrder", "approveOrder", "cancelOrder"}, Begin(c, o, r)
  PROVE  BillInv'
<1>1. Alone(c, r)
  BY TakesTurn DEF Begin, BillInv
<1>2. Meant(r)
  BY DEF Meant, AboutInvoice
<1> QED
  BY <1>1, <1>2, PassingBills DEF Begin, Free, Idle

\* Orders change, trips, stops and invoices do not.
LEMMA OrderChangingBills ==
  ASSUME RoadInv, RoadInv', BillInv, UNCHANGED <<trip, stop, invoice>>,
         NEW c \in Clients, Alone(c, Idle), \A i \in Invoices : ~Due(req[c], i),
         \A o \in Orders : order[o].edition <= order'[o].edition
  PROVE  BillInv'
<1>1. OneTrip'
  BY DEF BillInv, OneTrip
<1> QED
  BY <1>1, IdleMeansThen, GrowingBills

LEMMA OrderCommitsBill ==
  ASSUME RoadInv, RoadInv', BillInv, InTurn, UNCHANGED <<trip, stop, invoice>>, NEW c \in Clients,
         CommitUpdateOrder(c) \/ CommitApproveOrder(c) \/ CommitCancelOrder(c)
  PROVE  BillInv'
<1>1. req[c].op \in {"updateOrder", "approveOrder", "cancelOrder"} /\ Becomes(c, Idle)
  BY DEF CommitUpdateOrder, CommitApproveOrder, CommitCancelOrder
<1>2. Alone(c, Idle)
  BY <1>1, TakesTurn DEF BillInv
<1>3. \A i \in Invoices : ~Due(req[c], i)
  BY <1>1 DEF Due, AboutInvoice
<1>4. req[c].order \in Orders
  BY <1>1 DEF RoadInv, RequestsOK, Sound
<1>5. ASSUME NEW o \in Orders PROVE order[o].edition <= order'[o].edition
  <2>1. order \in [Orders -> OrderRow] /\ order[o].edition \in Nat
    BY DEF RoadInv, OrdersOK, OrderRow
  <2>2. CASE CommitUpdateOrder(c)
    <3>1. order'[o].edition = IF o = req[c].order THEN order[o].edition + 1 ELSE order[o].edition
      BY <1>4, <2>1, <2>2 DEF CommitUpdateOrder, OrderRow
    <3> QED
      BY <2>1, <3>1
  <2>3. CASE CommitApproveOrder(c)
    <3>1. order'[o].edition = order[o].edition
      BY <1>4, <2>1, <2>3 DEF CommitApproveOrder, OrderRow
    <3> QED
      BY <2>1, <3>1
  <2>4. CASE CommitCancelOrder(c)
    <3>1. order'[o].edition = order[o].edition
      BY <1>4, <2>1, <2>4 DEF CommitCancelOrder, OrderRow
    <3> QED
      BY <2>1, <3>1
  <2> QED
    BY <2>2, <2>3, <2>4
<1> QED
  BY <1>2, <1>3, <1>5, OrderChangingBills

LEMMA CreateOrderBills ==
  ASSUME RoadInv, RoadInv', BillInv, InTurn, UNCHANGED <<trip, stop, invoice>>, NEW c \in Clients,
         NEW p \in Orders, NEW q, CreateOrder(c, p, q)
  PROVE  BillInv'
<1>1. Alone(c, Idle)
  BY DEF CreateOrder, Free, InTurn, Alone
<1>2. \A i \in Invoices : ~Due(req[c], i)
  BY IdleMeans DEF CreateOrder, Free
<1>3. ASSUME NEW o \in Orders PROVE order[o].edition <= order'[o].edition
  <2>1. order \in [Orders -> OrderRow] /\ order[o].edition \in Nat
    BY DEF RoadInv, OrdersOK, OrderRow
  <2>2. order'[o].edition = order[o].edition
    BY <2>1 DEF CreateOrder, OrderRow
  <2> QED
    BY <2>1, <2>2
<1> QED
  BY <1>1, <1>2, <1>3, OrderChangingBills

LEMMA OrdersBill ==
  ASSUME RoadInv, RoadInv', BillInv, InTurn, NextOrders({}), UNCHANGED <<trip, stop, invoice>>
  PROVE  BillInv'
<1>1. PICK c \in Clients :
        \/ \E o \in Orders :
             \/ \E q \in Quantities : CreateOrder(c, o, q)
             \/ \E p \in Orders : DuplicateOrder(c, o, p)
             \/ \E role \in Roles, force \in BOOLEAN :
                  \/ \E q \in Quantities : UpdateOrder(c, o, role, force, o \in {}, q)
                  \/ CancelOrder(c, o, role, force, o \in {})
             \/ \E role \in Roles : RecalculateOrder(c, o, role, o \in {})
             \/ \E role \in Roles : RemoveOrder(c, o, role, o \in {})
             \/ \E force \in BOOLEAN : RejectOrder(c, o, force, o \in {})
             \/ ApproveOrder(c, o)
        \/ CommitUpdateOrder(c) \/ CommitApproveOrder(c) \/ CommitCancelOrder(c)
  BY DEF NextOrders
<1>2. ASSUME NEW o \in Orders, NEW role, NEW force, NEW locked, NEW q,
             UpdateOrder(c, o, role, force, locked, q)
      PROVE  BillInv'
  BY <1>2, OrderAskingBills DEF UpdateOrder
<1>3. ASSUME NEW o \in Orders, NEW role, NEW force, NEW locked, Drop(c, o, role, force, locked)
      PROVE  BillInv'
  BY <1>3, OrderAskingBills DEF Drop
<1>4. ASSUME NEW o \in Orders, NEW role, NEW locked, RecalculateOrder(c, o, role, locked)
      PROVE  BillInv'
  <2>1. RecalculateOrder(c, o, role, locked) <=> UpdateOrder(c, o, role, FALSE, locked, order[o].ordered)
    BY DEF RecalculateOrder
  <2>2. PICK q : q = order[o].ordered
    OBVIOUS
  <2> QED
    BY <1>2, <1>4, <2>1, <2>2
<1>5. ASSUME NEW o \in Orders, ApproveOrder(c, o)
      PROVE  BillInv'
  BY <1>5, OrderAskingBills DEF ApproveOrder
<1>6. ASSUME NEW o \in Orders, NEW p \in Orders, DuplicateOrder(c, o, p)
      PROVE  BillInv'
  <2>1. PICK q : q = order[p].ordered
    OBVIOUS
  <2> QED
    BY <1>6, <2>1, CreateOrderBills DEF DuplicateOrder
<1>7. CASE CommitUpdateOrder(c) \/ CommitApproveOrder(c) \/ CommitCancelOrder(c)
  BY <1>7, OrderCommitsBill
<1> QED
  BY <1>1, <1>2, <1>3, <1>4, <1>5, <1>6, <1>7, CreateOrderBills DEF CancelOrder, RemoveOrder, RejectOrder

-----------------------------------------------------------------------
\* Dispatch and delivery.

LEMMA CreateTripBills ==
  ASSUME RoadInv, BillInv, InTurn, NEW c \in Clients, CreateTrip(c)
  PROVE  BillInv'
<1> DEFINE ready == {o \in Orders : order[o].status \in {"approved", "packed"}}
           lines == [o \in ready |->
                       [status |-> "pending", edition |-> order[o].edition, ordered |-> Wanted(o),
                        loaded |-> 0, delivered |-> 0, back |-> 0]]
<1>1. PICK r : r = [op |-> "createTrip", lines |-> lines]
  OBVIOUS
<1>2. /\ Free(c, "createTrip") /\ Becomes(c, r) /\ UNCHANGED <<order, trip, stop, invoice>>
      /\ \A t \in Trips : trip[t] \in {"none", "cancelled"}
  BY <1>1 DEF CreateTrip, Serves
<1>3. Alone(c, r)
  BY <1>2, TakesTurn DEF BillInv
<1>4. \A t \in Trips : trip[t] = "none"
  BY <1>2 DEF RoadInv, TripsOK, TripStatus
<1>5. \A o \in Orders : order[o].edition \in Nat
  BY DEF RoadInv, OrdersOK, OrderRow
<1>6. \A o \in DOMAIN r.lines : r.lines[o].status = "pending" /\ r.lines[o].edition <= order[o].edition
  BY <1>1, <1>5
<1>7. Meant(r)
  BY <1>1, <1>4, <1>6 DEF Meant, AboutInvoice
<1> QED
  BY <1>2, <1>3, <1>7, PassingBills DEF Free, Idle

LEMMA CommitTripBills ==
  ASSUME RoadInv, RoadInv', BillInv, InTurn, NEW c \in Clients, CommitTrip(c)
  PROVE  BillInv'
<1>1. PICK t \in Trips : trip' = [trip EXCEPT ![t] = "planned"] /\ stop' = [stop EXCEPT ![t] = req[c].lines]
  BY DEF CommitTrip
<1>2. /\ req[c].op = "createTrip" /\ Becomes(c, Idle) /\ UNCHANGED <<order, invoice>>
  BY DEF CommitTrip, Ends
<1>3. Alone(c, Idle)
  BY <1>2, TakesTurn DEF BillInv
<1>4. /\ \A u \in Trips : trip[u] = "none"
      /\ \A o \in DOMAIN req[c].lines :
           req[c].lines[o].status = "pending" /\ req[c].lines[o].edition <= order[o].edition
  BY <1>2 DEF BillInv, RequestsMeant, Meant
<1>5. /\ DOMAIN stop = Trips /\ DOMAIN trip = Trips
      /\ \A u \in Trips : DOMAIN stop[u] = {}
  BY <1>4 DEF RoadInv, StopsOK, TripsOK
<1>6. stop'[t] = req[c].lines /\ \A u \in Trips : u # t => stop'[u] = stop[u] /\ trip'[u] = "none"
  BY <1>1, <1>4, <1>5
<1>7. OneTrip' /\ \A u \in Trips : trip[u] # "none" => trip'[u] # "none"
  BY <1>4, <1>6 DEF OneTrip
<1>8. ASSUME NEW u \in Trips, NEW o \in DOMAIN stop'[u]
      PROVE  stop'[u][o].status = "pending" /\ stop'[u][o].edition <= order'[o].edition
  <2>1. u = t
    BY <1>5, <1>6
  <2> QED
    BY <1>2, <1>4, <1>6, <2>1
<1>9. \A i \in Invoices : ~Due(req[c], i)
  BY <1>2 DEF Due, AboutInvoice
<1>10. \A o \in Orders : order[o].edition <= order'[o].edition
  BY <1>2 DEF RoadInv, OrdersOK, OrderRow
<1> QED
  BY <1>2, <1>3, <1>7, <1>8, <1>9, <1>10, IdleMeansThen, GrowingBills

\* Orders move on with their trip, and their items stay what they were.
LEMMA TripGoingBills ==
  ASSUME RoadInv, RoadInv', BillInv, invoice' = invoice, NEW c \in Clients, NEW r, Alone(c, r),
         r.op \in {"none", "start"}, req[c].op \in {"load", "dispatch", "complete"},
         NEW t \in Trips, trip[t] # "none", NEW st, st # "none", trip' = [trip EXCEPT ![t] = st],
         \A o \in Orders : order'[o].edition = order[o].edition,
         \A u \in Trips : DOMAIN stop'[u] = DOMAIN stop[u] /\ \A o \in DOMAIN stop[u] :
           /\ stop'[u][o].edition = stop[u][o].edition /\ stop'[u][o].status = stop[u][o].status
           /\ stop'[u][o].delivered = stop[u][o].delivered
  PROVE  BillInv'
<1>1. trip'[t] = st /\ \A u \in Trips : u # t => trip'[u] = trip[u]
  BY DEF RoadInv, TripsOK
<1>2. OneTrip'
  <2> SUFFICES ASSUME NEW u \in Trips, NEW w \in Trips, trip'[u] # "none", trip'[w] # "none" PROVE u = w
    BY DEF OneTrip
  <2>1. trip[u] # "none" /\ trip[w] # "none"
    BY <1>1
  <2> QED
    BY <2>1 DEF BillInv, OneTrip
<1>3. Meant(r)'
  BY DEF Meant, AboutInvoice
<1>4. \A i \in Invoices : ~Due(req[c], i)
  BY DEF Due, AboutInvoice
<1>5. \A o \in Orders : order[o].edition <= order'[o].edition
  BY DEF RoadInv, OrdersOK, OrderRow
<1> QED
  BY <1>1, <1>2, <1>3, <1>4, <1>5, GrowingBills

LEMMA PromoteEditions ==
  ASSUME RoadInv, NEW os, NEW from, NEW to, NEW o \in Orders
  PROVE  Promote(os, from, to)[o].edition = order[o].edition
BY DEF RoadInv, OrdersOK, OrderRow, Promote

LEMMA TripCommitsBill ==
  ASSUME RoadInv, RoadInv', BillInv, InTurn, NEW c \in Clients,
         CommitLoading(c) \/ CommitDispatch(c) \/ CommitComplete(c)
  PROVE  BillInv'
<1>1. PICK t : t = req[c].trip
  OBVIOUS
<1>2. req[c].op \in {"load", "dispatch", "complete"} /\ invoice' = invoice
  BY DEF CommitLoading, CommitDispatch, CommitComplete
<1>3. t \in Trips /\ trip[t] # "none" /\ DOMAIN stop = Trips
  BY <1>1, <1>2, TripOfRequest DEF RoadInv, StopsOK
<1>4. CASE CommitLoading(c)
  <2>1. PICK r : r = IF req[c].start THEN [op |-> "start", trip |-> t] ELSE Idle
    OBVIOUS
  <2>2. Becomes(c, r) /\ r.op \in {"none", "start"}
    BY <1>1, <1>4, <2>1 DEF CommitLoading, Ends, Idle
  <2>3. Alone(c, r)
    BY <1>2, <2>2, TakesTurn DEF BillInv
  <2>4. trip' = [trip EXCEPT ![t] = "loaded"] /\ order' = Promote(DOMAIN stop[t], {"approved"}, "packed")
    BY <1>1, <1>4 DEF CommitLoading
  <2>5. \A o \in Orders : order'[o].edition = order[o].edition
    BY <2>4, PromoteEditions
  <2>6. stop' = [stop EXCEPT ![t] = [o \in DOMAIN stop[t] |-> [stop[t][o] EXCEPT !.loaded = stop[t][o].ordered]]]
    BY <1>1, <1>4 DEF CommitLoading
  <2>7. ASSUME NEW u \in Trips
        PROVE  DOMAIN stop'[u] = DOMAIN stop[u] /\ \A o \in DOMAIN stop[u] :
                 /\ stop'[u][o].edition = stop[u][o].edition /\ stop'[u][o].status = stop[u][o].status
                 /\ stop'[u][o].delivered = stop[u][o].delivered
    <3>1. CASE u = t
      <4>1. stop'[u] = [o \in DOMAIN stop[t] |-> [stop[t][o] EXCEPT !.loaded = stop[t][o].ordered]]
        BY <1>3, <2>6, <3>1
      <4>2. \A o \in DOMAIN stop[t] : stop[t][o] \in Item
        BY <1>3, LoadedTyped DEF RoadInv, StopsOK
      <4> QED
        BY <3>1, <4>1, <4>2 DEF Item
    <3>2. CASE u # t
      BY <1>3, <2>6, <3>2
    <3> QED
      BY <3>1, <3>2
  <2> QED
    BY <1>2, <1>3, <2>2, <2>3, <2>4, <2>5, <2>7, TripGoingBills
<1>5. CASE CommitDispatch(c) \/ CommitComplete(c)
  <2>1. PICK st \in {"dispatched", "completed"} : trip' = [trip EXCEPT ![t] = st]
    BY <1>1, <1>5 DEF CommitDispatch, CommitComplete
  <2>2. Becomes(c, Idle) /\ stop' = stop
    BY <1>5 DEF CommitDispatch, CommitComplete, Ends
  <2>3. Alone(c, Idle)
    BY <1>2, <2>2, TakesTurn DEF BillInv
  <2>4. \A o \in Orders : order'[o].edition = order[o].edition
    BY <1>5, PromoteEditions DEF CommitDispatch, CommitComplete
  <2> QED
    BY <1>2, <1>3, <2>1, <2>2, <2>3, <2>4, TripGoingBills DEF Idle
<1> QED
  BY <1>4, <1>5

\* A stop that closes is followed by a look for the invoices of its order.
LEMMA CommitStopBills ==
  ASSUME RoadInv, RoadInv', BillInv, InTurn, NEW c \in Clients, CommitStop(c)
  PROVE  BillInv'
<1>1. PICK t, p, st : t = req[c].trip /\ p = req[c].order /\ st = req[c].status
  OBVIOUS
<1>2. PICK r : r = IF st = "pending" THEN Idle
                   ELSE [op |-> "findInvoices", trip |-> t, order |-> p, status |-> st]
  OBVIOUS
<1>3. req[c].op = "stop" /\ UNCHANGED <<trip, invoice>> /\ Becomes(c, r)
  BY <1>1, <1>2 DEF CommitStop, Ends
<1>4. t \in Trips /\ trip[t] # "none" /\ p \in DOMAIN stop[t] /\ st \in StopStatus
  BY <1>1, <1>3, TripOfRequest DEF Sound
<1>5. Alone(c, r)
  BY <1>3, TakesTurn DEF BillInv
<1>6. ASSUME NEW o \in Orders PROVE order'[o].edition = order[o].edition /\ order[o].edition \in Nat
  <2>1. order \in [Orders -> OrderRow] /\ order[o].edition \in Nat
    BY DEF RoadInv, OrdersOK, OrderRow
  <2>2. order' = order \/ order' = [order EXCEPT ![p].status = MappedStatus[st]]
    BY <1>1 DEF CommitStop
  <2> QED
    BY <2>1, <2>2 DEF OrderRow
<1>7. PICK a, b : stop' = [stop EXCEPT ![t][p] = [@ EXCEPT !.status = st, !.delivered = a, !.back = b]]
  BY <1>1 DEF CommitStop
<1>8. \A u \in Trips : Planned(stop[u]) /\ DOMAIN stop = Trips
  BY DEF RoadInv, StopsOK
<1>9. ASSUME NEW u \in Trips, NEW o \in DOMAIN stop'[u]
      PROVE  /\ o \in DOMAIN stop[u] /\ o \in Orders /\ stop'[u][o].edition = stop[u][o].edition
             /\ IF u = t /\ o = p THEN stop'[u][o].status = st ELSE stop'[u][o] = stop[u][o]
  <2>1. o \in DOMAIN stop[u]
    BY <1>4, <1>7, <1>8
  <2>2. stop[u][o] \in Item /\ o \in Orders
    BY <1>8, <2>1, LoadedTyped DEF Planned
  <2> QED
    BY <1>4, <1>7, <1>8, <2>1, <2>2 DEF Item
<1>10. Meant(r)' /\ \A i \in Invoices : ~Due(req[c], i)
  BY <1>2, <1>3, IdleMeansThen DEF Meant, Due, AboutInvoice
<1>11. ASSUME NEW u \in Trips, NEW o \in DOMAIN stop'[u]
       PROVE  \/ stop'[u][o].status = "pending" /\ stop'[u][o].edition <= order'[o].edition
              \/ /\ o \in DOMAIN stop[u] /\ stop'[u][o].edition = stop[u][o].edition
                 /\ \/ /\ stop'[u][o].status = stop[u][o].status
                       /\ stop'[u][o].delivered = stop[u][o].delivered
                    \/ \A i \in Invoices : invoice[i].order = o => Due(r, i)'
  <2>1. CASE u # t \/ o # p
    BY <1>9, <2>1
  <2>2. CASE u = t /\ o = p /\ st = "pending"
    <3>1. stop[u][o].edition <= order[o].edition
      BY <1>9 DEF BillInv, EditionsOK
    <3> QED
      BY <1>6, <1>9, <2>2, <3>1
  <2>3. CASE u = t /\ o = p /\ st # "pending"
    <3>1. \A i \in Invoices : invoice[i].order = o => Due(r, i)'
      BY <1>2, <1>3, <2>3 DEF Due
    <3> QED
      BY <1>9, <3>1
  <2> QED
    BY <2>1, <2>2, <2>3
<1>12. OneTrip' /\ \A u \in Trips : trip[u] # "none" => trip'[u] # "none"
  BY <1>3 DEF BillInv, OneTrip
<1>13. \A o \in Orders : order[o].edition <= order'[o].edition
  BY <1>6
<1> QED
  BY <1>3, <1>5, <1>10, <1>11, <1>12, <1>13, GrowingBills

LEMMA TripAskingBills ==
  ASSUME RoadInv, BillInv, InTurn, NEW c \in Clients,
         \/ CheckLoaded(c) \/ Refused(c)
         \/ \E t \in Trips : GenerateLoadingSheet(c, t) \/ Start(c, t) \/ Complete(c, t)
         \/ \E t \in Trips, o \in Orders, a \in Answers, st \in StopStatus : UpdateStopStatus(c, t, o, st, a)
  PROVE  BillInv'
<1>1. ASSUME NEW r, r.op \in {"none", "load", "start", "dispatch", "complete", "stop"}, Becomes(c, r),
             UNCHANGED <<order, trip, stop, invoice>>,
             req[c].op \in {"load", "start", "dispatch"} \/ \E op : Free(c, op)
      PROVE  BillInv'
  <2>1. Alone(c, r)
    BY <1>1, TakesTurn DEF BillInv
  <2>2. Meant(r)
    BY <1>1 DEF Meant, AboutInvoice
  <2>3. req[c].op \in {"none", "load", "start", "dispatch"}
    BY <1>1 DEF Free, Idle
  <2> QED
    BY <1>1, <2>1, <2>2, <2>3, PassingBills
<1>2. ASSUME NEW r, r.op \in {"load", "start", "complete", "stop"}, Serves(c, r)
      PROVE  BillInv'
  BY <1>1, <1>2 DEF Serves
<1>3. CASE CheckLoaded(c)
  <2>1. \/ Becomes(c, [op |-> "dispatch", trip |-> req[c].trip])
        \/ Becomes(c, Idle)
    BY <1>3 DEF CheckLoaded, Ends
  <2>2. PICK r : r.op \in {"dispatch", "none"} /\ Becomes(c, r)
    BY <2>1 DEF Idle
  <2> QED
    BY <1>1, <1>3, <2>2 DEF CheckLoaded
<1>4. CASE Refused(c)
  BY <1>1, <1>4 DEF Refused, Ends, Idle
<1>5. ASSUME NEW t \in Trips, GenerateLoadingSheet(c, t) \/ Start(c, t) \/ Complete(c, t)
      PROVE  BillInv'
  BY <1>2, <1>5 DEF GenerateLoadingSheet, Start, Complete
<1>6. ASSUME NEW t \in Trips, NEW o \in Orders, NEW a \in Answers, NEW st \in StopStatus,
             UpdateStopStatus(c, t, o, st, a)
      PROVE  BillInv'
  <2>1. PICK r : r.op = "stop" /\ Serves(c, r)
    BY <1>6 DEF UpdateStopStatus
  <2> QED
    BY <1>2, <2>1
<1> QED
  BY <1>3, <1>4, <1>5, <1>6

-----------------------------------------------------------------------
\* Billing: requests.

\* A request about an invoice begins, or one goes on to the next invoice.
LEMMA InvoiceAskingBills ==
  ASSUME RoadInv, BillInv, InTurn, NEW c \in Clients, NEW r, Becomes(c, r), Meant(r),
         UNCHANGED <<order, trip, stop, invoice>>,
         \/ \E op : Free(c, op)
         \/ /\ req[c].op \in {"findInvoices", "billing"}
            /\ \A i \in Invoices : Due(req[c], i) => Due(r, i) \/ Right(invoice[i])
  PROVE  BillInv'
<1>1. Alone(c, r)
  BY TakesTurn DEF BillInv
<1>2. \A i \in Invoices : Due(req[c], i) => Due(r, i) \/ Right(invoice[i])
  BY IdleMeans DEF Free
<1> QED
  BY <1>1, <1>2, AskingBills

LEMMA BillMeant ==
  ASSUME NEW op \in AboutInvoice, NEW i \in Invoices, Unpaid(i), NEW q, NEW actual \in BOOLEAN,
         NEW todo, NEW st, actual => Bills(invoice[i].order, q),
         op \in {"updateDraft", "revise"} => ~invoice[i].allocated
  PROVE  Meant(Bill(op, i, q, actual, todo, st))
BY DEF Meant, Bill, AboutInvoice

LEMMA RecomputingMeant ==
  ASSUME RoadInv, BillInv, NEW i \in Invoices, Unclaimed(i), NEW todo, NEW st
  PROVE  Meant(Recomputing(i, todo, st)) /\ Meant(Cancelling(i, todo, st))
<1>1. RowOK(invoice[i])
  BY DEF BillInv, InvoicesOK
<1>2. Bills(invoice[i].order, Lines(invoice[i].order, invoice[i].trip))
  BY <1>1, LinesBill DEF BillInv, RowOK
<1>3. PICK q : q = Lines(invoice[i].order, invoice[i].trip)
  OBVIOUS
<1>4. PICK op \in AboutInvoice : Recomputing(i, todo, st) = Bill(op, i, q, TRUE, todo, st)
  BY <1>3 DEF Recomputing, AboutInvoice
<1>5. Unpaid(i) /\ ~invoice[i].allocated
  BY DEF Unclaimed
<1> QED
  BY <1>2, <1>3, <1>4, <1>5, BillMeant DEF Cancelling, AboutInvoice

LEMMA InvoicesAskedFor ==
  ASSUME RoadInv, BillInv, InTurn, NEW c \in Clients, NEW i \in Invoices, NEW n,
         \/ UpdateDraft(c, i, n) \/ RevisePostedUnpaid(c, i, n) \/ DeleteDraft(c, i)
         \/ RecomputeFromDelivery(c, i) \/ Post(c, i) \/ Cancel(c, i)
  PROVE  BillInv'
<1>1. Unpaid(i) /\ (Post(c, i) \/ Unclaimed(i))
  BY DEF UpdateDraft, RevisePostedUnpaid, DeleteDraft, RecomputeFromDelivery, CanRecompute, Post, Cancel,
         Unpaid, Unclaimed
<1>2. ASSUME NEW r, Serves(c, r), Meant(r)
      PROVE  BillInv'
  BY <1>2, InvoiceAskingBills DEF Serves
<1>3. CASE RecomputeFromDelivery(c, i)
  <2>1. PICK r : r = Recomputing(i, {}, "none")
    OBVIOUS
  <2> QED
    BY <1>2, <1>3, <2>1, RecomputingMeant DEF RecomputeFromDelivery, CanRecompute
<1>4. CASE Cancel(c, i)
  <2>1. PICK r : r = Cancelling(i, {}, "none")
    OBVIOUS
  <2> QED
    BY <1>2, <1>4, <2>1, RecomputingMeant DEF Cancel
<1>5. CASE UpdateDraft(c, i, n) \/ RevisePostedUnpaid(c, i, n) \/ DeleteDraft(c, i) \/ Post(c, i)
  <2>1. ASSUME NEW op \in AboutInvoice, NEW q, Serves(c, Bill(op, i, q, FALSE, {}, "none")),
               op \in {"updateDraft", "revise"} => ~invoice[i].allocated
        PROVE  BillInv'
    BY <1>1, <1>2, <2>1, BillMeant
  <2> QED
    BY <1>5, <2>1 DEF UpdateDraft, RevisePostedUnpaid, DeleteDraft, Post, Unclaimed, AboutInvoice
<1> QED
  BY <1>3, <1>4, <1>5

LEMMA CreateInvoiceBills ==
  ASSUME RoadInv, BillInv, InTurn, NEW c \in Clients, NEW o \in Orders \cup {"none"},
         NEW t \in Trips \cup {"none"}, NEW st \in {"draft", "posted"}, CreateInvoice(c, o, t, st)
  PROVE  BillInv'
<1>1. PICK q : q = Lines(o, t)
  OBVIOUS
<1>2. PICK r : r = [op |-> "createInvoice", order |-> o, trip |-> t, status |-> st, qty |-> q]
  OBVIOUS
<1>3. Serves(c, r) /\ (t # "none" => trip[t] # "none")
  BY <1>1, <1>2 DEF CreateInvoice
<1>4. Bills(o, q)
  BY <1>1, <1>3, LinesBill DEF BillInv
<1>5. \A i \in Invoices : ~(Live(i) /\ invoice[i].order = o /\ invoice[i].trip = t)
  BY DEF CreateInvoice
<1>6. Meant(r)
  BY <1>2, <1>3, <1>4, <1>5 DEF Meant, AboutInvoice
<1> QED
  BY <1>3, <1>6, InvoiceAskingBills DEF Serves

\* The request that Goes on with the invoices of todo.
LEMMA GoesMeans ==
  ASSUME NEW c \in Clients, NEW todo, NEW st, Goes(c, todo, st)
  PROVE  \E r : /\ Becomes(c, r) /\ Meant(r) /\ Meant(r)' /\ r.op \in {"none", "billing"}
                /\ \A i : i \in todo => Due(r, i) /\ Due(r, i)'
<1>1. PICK r : r = IF todo = {} THEN Idle ELSE [op |-> "billing", todo |-> todo, status |-> st]
  OBVIOUS
<1>2. Becomes(c, r) /\ r.op \in {"none", "billing"}
  BY <1>1 DEF Goes, Idle
<1>3. Meant(r) /\ Meant(r)'
  BY <1>2 DEF Meant, AboutInvoice
<1>4. \A i : i \in todo => Due(r, i) /\ Due(r, i)'
  BY <1>1 DEF Due
<1> QED
  BY <1>2, <1>3, <1>4

LEMMA FindInvoicesBills ==
  ASSUME RoadInv, BillInv, InTurn, NEW c \in Clients, FindInvoices(c)
  PROVE  BillInv'
<1>1. PICK todo, st : /\ Goes(c, todo, st)
                      /\ \A i \in Invoices : Unpaid(i) /\ invoice[i].order = req[c].order => i \in todo
  BY DEF FindInvoices
<1>2. PICK r : Becomes(c, r) /\ Meant(r) /\ \A i : i \in todo => Due(r, i)
  BY <1>1, GoesMeans
<1>3. ASSUME NEW i \in Invoices, Due(req[c], i) PROVE Due(r, i) \/ Right(invoice[i])
  BY <1>1, <1>2, <1>3 DEF FindInvoices, Due, AboutInvoice, Right, Unpaid
<1> QED
  BY <1>2, <1>3, InvoiceAskingBills DEF FindInvoices

\* An invoice left as it is was not unpaid, has something allocated to it, or has
\* nothing to bill that was delivered.
LEMMA FollowDeliveryBills ==
  ASSUME RoadInv, BillInv, InTurn, NEW c \in Clients, NEW i \in Invoices, FollowDelivery(c, i)
  PROVE  BillInv'
<1>1. PICK rest, st : rest = req[c].todo \ {i} /\ st = req[c].status
  OBVIOUS
<1>2. req[c].op = "billing" /\ UNCHANGED <<order, trip, stop, invoice>>
  BY DEF FollowDelivery
<1>3. \A j : Due(req[c], j) => j = i \/ j \in rest
  BY <1>1, <1>2 DEF Due, AboutInvoice
<1>4. ASSUME NEW r, Becomes(c, r), Meant(r), \A j : j \in rest => Due(r, j), Due(r, i) \/ Right(invoice[i])
      PROVE  BillInv'
  BY <1>2, <1>3, <1>4, InvoiceAskingBills
<1>5. \/ Unclaimed(i) /\ Becomes(c, Recomputing(i, rest, st))
      \/ Unclaimed(i) /\ Becomes(c, Cancelling(i, rest, st))
      \/ ~(CanRecompute(i) /\ st # "failed") /\ ~(Unclaimed(i) /\ st = "failed") /\ Goes(c, rest, st)
  BY <1>1 DEF FollowDelivery, CanRecompute
<1>6. CASE Unclaimed(i) /\ Becomes(c, Recomputing(i, rest, st))
  <2>1. PICK r : r = Recomputing(i, rest, st)
    OBVIOUS
  <2>2. \A j : j = i \/ j \in rest => Due(r, j)
    BY <2>1 DEF Recomputing, Bill, Due, AboutInvoice
  <2> QED
    BY <1>4, <1>6, <2>1, <2>2, RecomputingMeant
<1>7. CASE Unclaimed(i) /\ Becomes(c, Cancelling(i, rest, st))
  <2>1. PICK r : r = Cancelling(i, rest, st)
    OBVIOUS
  <2>2. \A j : j = i \/ j \in rest => Due(r, j)
    BY <2>1 DEF Cancelling, Bill, Due, AboutInvoice
  <2> QED
    BY <1>4, <1>7, <2>1, <2>2, RecomputingMeant
<1>8. CASE ~(CanRecompute(i) /\ st # "failed") /\ ~(Unclaimed(i) /\ st = "failed") /\ Goes(c, rest, st)
  <2>1. PICK r : Becomes(c, r) /\ Meant(r) /\ \A j : j \in rest => Due(r, j)
    BY <1>8, GoesMeans
  <2>2. Right(invoice[i])
    <3>1. CASE ~Unpaid(i)
      BY <3>1 DEF Unpaid, Right
    <3>2. CASE invoice[i].allocated
      BY <3>2 DEF BillInv, InvoicesOK, RowOK, Right
    <3>3. CASE Unclaimed(i)
      <4>1. ~(Lines(invoice[i].order, invoice[i].trip) > 0)
        BY <1>8, <3>3 DEF CanRecompute
      <4>2. RowOK(invoice[i])
        BY DEF BillInv, InvoicesOK
      <4>3. Bills(invoice[i].order, invoice[i].billed)
        BY <4>1, <4>2, NothingToBill DEF BillInv, RowOK
      <4> QED
        BY <4>3 DEF Right
    <3> QED
      BY <3>1, <3>2, <3>3 DEF Unclaimed
  <2> QED
    BY <1>4, <2>1, <2>2
<1> QED
  BY <1>5, <1>6, <1>7, <1>8

-----------------------------------------------------------------------
\* Billing: commits.

LEMMA CommitInvoiceBills ==
  ASSUME RoadInv, BillInv, InTurn, NEW c \in Clients, CommitInvoice(c)
  PROVE  BillInv'
<1>1. PICK r : r = req[c]
  OBVIOUS
<1>2. r.op = "createInvoice" /\ Becomes(c, Idle) /\ UNCHANGED <<order, trip, stop>>
  BY <1>1 DEF CommitInvoice, Ends
<1>3. PICK v : v = [status |-> r.status, order |-> r.order, trip |-> r.trip, billed |-> r.qty,
                   allocated |-> FALSE, touched |-> FALSE]
  OBVIOUS
<1>4. PICK i \in Invoices : invoice[i].status = "none" /\ invoice' = [invoice EXCEPT ![i] = v]
  BY <1>1, <1>3 DEF CommitInvoice
<1>5. Meant(r) /\ Alone(c, Idle)
  BY <1>1, <1>2, TakesTurn DEF BillInv, RequestsMeant
<1>6. TurnsTaken' /\ RequestsMeant'
  BY <1>5, AloneKeeps, IdleMeansThen
<1>7. DOMAIN invoice' = Invoices /\ invoice'[i] = v /\ \A j \in Invoices : j # i => invoice'[j] = invoice[j]
  BY <1>4 DEF BillInv, InvoicesOK
<1>8. /\ RowOK(v) /\ Right(v)
      /\ \A j \in Invoices : ~(Live(j) /\ invoice[j].order = v.order /\ invoice[j].trip = v.trip)
  BY <1>2, <1>3, <1>5 DEF Meant, RowOK, Right
<1>9. \A j \in Invoices : j \notin Waiting
  BY <1>1, <1>2, <1>5, AlonePending DEF Due, AboutInvoice
<1>10. ~Live(i)
  BY <1>4 DEF Live
<1>11. InvoicesOK'
  BY <1>2, <1>7, <1>8 DEF BillInv, InvoicesOK, RowOK
<1> QED
  BY <1>2, <1>6, <1>7, <1>8, <1>9, <1>10, <1>11, DrawingBills

\* A commit finds its invoice unpaid, and what was due stays so but for it.
LEMMA CommitFinds ==
  ASSUME RoadInv, BillInv, InTurn, NEW c \in Clients, NEW op \in AboutInvoice, req[c].op = op,
         Goes(c, req[c].todo, req[c].status)
  PROVE  /\ req[c].invoice \in Invoices /\ Unpaid(req[c].invoice) /\ Meant(req[c])
         /\ TurnsTaken' /\ RequestsMeant'
         /\ \A j \in Waiting : j \in Waiting' \/ (op \in {"updateDraft", "revise", "cancelInvoice"} /\ j = req[c].invoice)
<1>1. PICK todo, st : todo = req[c].todo /\ st = req[c].status
  OBVIOUS
<1>2. PICK r : Becomes(c, r) /\ Meant(r)' /\ \A j : j \in todo => Due(r, j)'
  BY <1>1, GoesMeans
<1>3. Alone(c, r)
  BY <1>2, TakesTurn DEF BillInv, AboutInvoice
<1>4. Meant(req[c])
  BY DEF BillInv, RequestsMeant
<1>5. req[c].invoice \in Invoices /\ Unpaid(req[c].invoice)
  BY <1>4 DEF Meant
<1>6. ASSUME NEW j \in Waiting, ~(op \in {"updateDraft", "revise", "cancelInvoice"} /\ j = req[c].invoice)
      PROVE  j \in Waiting'
  <2>1. j \in Invoices
    BY DEF Waiting
  <2>2. Due(req[c], j)
    BY <1>3, <2>1, AlonePending
  <2>3. j \in todo
    BY <1>1, <1>6, <2>2 DEF Due, AboutInvoice
  <2>4. Due(r, j)'
    BY <1>2, <2>3
  <2> QED
    BY <1>3, <2>1, <2>4, AlonePending
<1>7. TurnsTaken' /\ RequestsMeant'
  BY <1>2, <1>3, AloneKeeps
<1> QED
  BY <1>4, <1>5, <1>6, <1>7

\* The status of an invoice alone changes.
LEMMA StatusBills ==
  ASSUME BillInv, UNCHANGED <<order, trip, stop>>, TurnsTaken', RequestsMeant',
         NEW i \in Invoices, Live(i), NEW st, invoice' = [invoice EXCEPT ![i].status = st],
         st = "paid" => invoice[i].touched,
         \A j \in Invoices : j \in Waiting /\ j # i => j \in Waiting',
         i \in Waiting' \/ st \notin {"draft", "posted"} \/ invoice[i].touched \/ (Unpaid(i) /\ i \notin Waiting)
  PROVE  BillInv'
<1>1. RowOK(invoice[i]) /\ DOMAIN invoice = Invoices
  BY DEF BillInv, InvoicesOK
<1>2. PICK v : v = [invoice[i] EXCEPT !.status = st]
  OBVIOUS
<1>3. v = [status |-> st, order |-> invoice[i].order, trip |-> invoice[i].trip,
           billed |-> invoice[i].billed, allocated |-> invoice[i].allocated, touched |-> invoice[i].touched]
  BY <1>1, <1>2 DEF RowOK
<1>4. /\ DOMAIN invoice' = Invoices /\ invoice'[i] = v
      /\ \A j \in Invoices : j # i => invoice'[j] = invoice[j]
  BY <1>1, <1>2
<1>5. RowOK(v)
  BY <1>1, <1>3 DEF RowOK
<1>6. Right(v) \/ i \in Waiting'
  <2>1. CASE st \notin {"draft", "posted"} \/ invoice[i].touched
    BY <1>3, <2>1 DEF Right
  <2>2. CASE Unpaid(i) /\ i \notin Waiting
    BY <1>3, <2>2 DEF BillInv, BilledOK, Right, Unpaid
  <2> QED
    BY <2>1, <2>2
<1> QED
  BY <1>3, <1>4, <1>5, <1>6, WritingBills

LEMMA StatusCommitsBill ==
  ASSUME RoadInv, BillInv, InTurn, NEW c \in Clients, CommitDelete(c) \/ CommitPost(c) \/ CommitCancel(c)
  PROVE  BillInv'
<1>1. PICK i, op, st :
        /\ i = req[c].invoice /\ op = req[c].op
        /\ \/ op = "postInvoice" /\ st = "posted"
           \/ op = "deleteDraft" /\ st = "deleted"
           \/ op = "cancelInvoice" /\ st = "cancelled"
        /\ invoice' = IF invoice[i].status = "deleted" THEN invoice ELSE [invoice EXCEPT ![i].status = st]
        /\ Goes(c, req[c].todo, req[c].status) /\ UNCHANGED <<order, trip, stop>>
  BY DEF CommitDelete, CommitPost, CommitCancel, Commit
<1>2. op \in AboutInvoice
  BY <1>1 DEF AboutInvoice
<1>3. /\ i \in Invoices /\ Unpaid(i) /\ TurnsTaken' /\ RequestsMeant'
      /\ \A j \in Waiting : j \in Waiting' \/ (op = "cancelInvoice" /\ j = i)
  BY <1>1, <1>2, CommitFinds
<1>4. Live(i) /\ invoice' = [invoice EXCEPT ![i].status = st]
  BY <1>1, <1>3 DEF Unpaid, Live
<1>5. \A j \in Invoices : j \in Waiting /\ j # i => j \in Waiting'
  BY <1>3
<1>6. st # "paid" /\ (i \in Waiting' \/ st \notin {"draft", "posted"} \/ (Unpaid(i) /\ i \notin Waiting))
  BY <1>1, <1>3
<1> QED
  BY <1>1, <1>3, <1>4, <1>5, <1>6, StatusBills

LEMMA UnpayMarks ==
  ASSUME NEW i \in Invoices, InvoicesOK, NEW left \in BOOLEAN, Unpay(i, left)
  PROVE  \E v : /\ invoice' = [invoice EXCEPT ![i] = v] /\ RowOK(v)
                /\ v.order = invoice[i].order /\ v.trip = invoice[i].trip /\ v.billed = invoice[i].billed
                /\ v.touched
<1>1. RowOK(invoice[i]) /\ DOMAIN invoice = Invoices
  BY DEF InvoicesOK
<1>2. PICK v : v = [invoice[i] EXCEPT !.status = "posted", !.allocated = left]
  OBVIOUS
<1>3. v = [status |-> "posted", order |-> invoice[i].order, trip |-> invoice[i].trip,
           billed |-> invoice[i].billed, allocated |-> left, touched |-> invoice[i].touched]
  BY <1>1, <1>2 DEF RowOK
<1>4. invoice' = [invoice EXCEPT ![i] = v]
  BY <1>1, <1>2 DEF Unpay
<1>5. invoice[i].touched
  BY <1>1 DEF Unpay, RowOK
<1>6. RowOK(v)
  BY <1>1, <1>3, <1>5 DEF RowOK
<1>7. /\ v.order = invoice[i].order /\ v.trip = invoice[i].trip /\ v.billed = invoice[i].billed
      /\ v.touched
  BY <1>3, <1>5
<1> QED
  BY <1>4, <1>6, <1>7

\* What payments do to an invoice's row.
LEMMA PaymentsMark ==
  ASSUME NEW i \in Invoices, InvoicesOK,
         Allocate(i) \/ Release(i) \/ Pay(i) \/ \E left \in BOOLEAN : Unpay(i, left)
  PROVE  \E v : /\ invoice' = [invoice EXCEPT ![i] = v] /\ RowOK(v)
                /\ v.order = invoice[i].order /\ v.trip = invoice[i].trip /\ v.billed = invoice[i].billed
                /\ v.touched \/ (Unpaid(i) /\ ~invoice[i].touched)
<1>1. RowOK(invoice[i]) /\ DOMAIN invoice = Invoices
  BY DEF InvoicesOK
<1>2. CASE Allocate(i)
  <2>1. PICK v : v = [invoice[i] EXCEPT !.allocated = TRUE, !.touched = TRUE]
    OBVIOUS
  <2>2. v = [status |-> invoice[i].status, order |-> invoice[i].order, trip |-> invoice[i].trip,
             billed |-> invoice[i].billed, allocated |-> TRUE, touched |-> TRUE]
    BY <1>1, <2>1 DEF RowOK
  <2>3. invoice' = [invoice EXCEPT ![i] = v]
    BY <1>1, <1>2, <2>1 DEF Allocate
  <2>4. RowOK(v)
    BY <1>1, <2>2 DEF RowOK
  <2>5. /\ v.order = invoice[i].order /\ v.trip = invoice[i].trip /\ v.billed = invoice[i].billed
        /\ v.touched
    BY <2>2
  <2> QED
    BY <2>3, <2>4, <2>5
<1>3. CASE Release(i)
  <2>1. PICK v : v = [invoice[i] EXCEPT !.allocated = FALSE]
    OBVIOUS
  <2>2. v = [status |-> invoice[i].status, order |-> invoice[i].order, trip |-> invoice[i].trip,
             billed |-> invoice[i].billed, allocated |-> FALSE, touched |-> invoice[i].touched]
    BY <1>1, <2>1 DEF RowOK
  <2>3. invoice' = [invoice EXCEPT ![i] = v] /\ Unpaid(i)
    BY <1>1, <1>3, <2>1 DEF Release
  <2>4. RowOK(v)
    BY <1>1, <2>2 DEF RowOK
  <2>5. /\ v.order = invoice[i].order /\ v.trip = invoice[i].trip /\ v.billed = invoice[i].billed
        /\ v.touched \/ ~invoice[i].touched
    BY <1>1, <2>2 DEF RowOK
  <2> QED
    BY <2>3, <2>4, <2>5
<1>4. CASE Pay(i)
  <2>1. PICK v : v = [invoice[i] EXCEPT !.status = "paid", !.allocated = TRUE, !.touched = TRUE]
    OBVIOUS
  <2>2. v = [status |-> "paid", order |-> invoice[i].order, trip |-> invoice[i].trip,
             billed |-> invoice[i].billed, allocated |-> TRUE, touched |-> TRUE]
    BY <1>1, <2>1 DEF RowOK
  <2>3. invoice' = [invoice EXCEPT ![i] = v]
    BY <1>1, <1>4, <2>1 DEF Pay
  <2>4. RowOK(v)
    BY <1>1, <2>2 DEF RowOK
  <2>5. /\ v.order = invoice[i].order /\ v.trip = invoice[i].trip /\ v.billed = invoice[i].billed
        /\ v.touched
    BY <2>2
  <2> QED
    BY <2>3, <2>4, <2>5
<1> QED
  BY <1>2, <1>3, <1>4, UnpayMarks

LEMMA PaymentsBill ==
  ASSUME BillInv, InTurn, NEW i \in Invoices,
         Allocate(i) \/ Release(i) \/ Pay(i) \/ \E left \in BOOLEAN : Unpay(i, left)
  PROVE  BillInv'
<1>1. Quiet /\ UNCHANGED <<order, req, trip, stop>> /\ Live(i)
  BY DEF Allocate, Release, Pay, Unpay, Unpaid, Live
<1>2. TurnsTaken' /\ RequestsMeant'
  BY <1>1, IdleMeansThen DEF Quiet, TurnsTaken, RequestsMeant, Meant, Unpaid, Live, Bills
<1>3. \A j : j \notin Waiting
  BY <1>1, IdleMeans DEF Quiet, Waiting
<1>4. PICK v : /\ invoice' = [invoice EXCEPT ![i] = v] /\ RowOK(v)
               /\ v.order = invoice[i].order /\ v.trip = invoice[i].trip /\ v.billed = invoice[i].billed
               /\ v.touched \/ (Unpaid(i) /\ ~invoice[i].touched)
  BY PaymentsMark DEF BillInv
<1>5. DOMAIN invoice' = Invoices /\ invoice'[i] = v /\ \A j \in Invoices : j # i => invoice'[j] = invoice[j]
  BY <1>4 DEF BillInv, InvoicesOK
<1>6. Right(v)
  BY <1>3, <1>4 DEF BillInv, BilledOK, Right, Unpaid
<1> QED
  BY <1>1, <1>2, <1>3, <1>4, <1>5, <1>6, WritingBills

LEMMA CommitUpdateDraftBills ==
  ASSUME RoadInv, BillInv, InTurn, NEW c \in Clients, CommitUpdateDraft(c)
  PROVE  BillInv'
<1>1. PICK i, q, a : i = req[c].invoice /\ q = req[c].qty /\ a = req[c].actual
  OBVIOUS
<1>2. /\ req[c].op = "updateDraft" /\ Goes(c, req[c].todo, req[c].status) /\ UNCHANGED <<order, trip, stop>>
      /\ invoice' = IF invoice[i].status = "deleted" THEN invoice
                    ELSE [invoice EXCEPT ![i].billed = q, ![i].touched = ~a]
  BY <1>1 DEF CommitUpdateDraft, Commit
<1>3. /\ i \in Invoices /\ Unpaid(i) /\ Meant(req[c]) /\ TurnsTaken' /\ RequestsMeant'
      /\ \A j \in Waiting : j \in Waiting' \/ j = i
  BY <1>1, <1>2, CommitFinds DEF AboutInvoice
<1>4. a \in BOOLEAN /\ (a => Bills(invoice[i].order, q)) /\ ~invoice[i].allocated
  BY <1>1, <1>2, <1>3 DEF Meant
<1>5. RowOK(invoice[i]) /\ DOMAIN invoice = Invoices
  BY <1>3 DEF BillInv, InvoicesOK
<1>6. PICK v : v = [invoice[i] EXCEPT !.billed = q, !.touched = ~a]
  OBVIOUS
<1>7. v = [status |-> invoice[i].status, order |-> invoice[i].order, trip |-> invoice[i].trip,
           billed |-> q, allocated |-> invoice[i].allocated, touched |-> ~a]
  BY <1>5, <1>6 DEF RowOK
<1>8. Live(i) /\ invoice' = [invoice EXCEPT ![i].billed = q, ![i].touched = ~a]
  BY <1>2, <1>3 DEF Unpaid, Live
<1>9. /\ DOMAIN invoice' = Invoices /\ invoice'[i] = v
      /\ \A j \in Invoices : j # i => invoice'[j] = invoice[j]
  BY <1>3, <1>5, <1>6, <1>8
<1>10. RowOK(v) /\ Right(v)
  BY <1>3, <1>4, <1>5, <1>7 DEF RowOK, Right, Unpaid
<1>11. \A j \in Invoices : j \in Waiting /\ j # i => j \in Waiting'
  BY <1>3
<1>12. v.order = invoice[i].order /\ v.trip = invoice[i].trip
  BY <1>7
<1> QED
  BY <1>2, <1>3, <1>8, <1>9, <1>10, <1>11, <1>12, WritingBills

\* The replacement takes the place of the invoice that is cancelled.
LEMMA CommitReviseBills ==
  ASSUME RoadInv, BillInv, InTurn, NEW c \in Clients, CommitRevise(c)
  PROVE  BillInv'
<1>1. PICK i, q, a : i = req[c].invoice /\ q = req[c].qty /\ a = req[c].actual
  OBVIOUS
<1>2. PICK v : v = [invoice[i] EXCEPT !.status = "posted", !.billed = q, !.allocated = FALSE, !.touched = ~a]
  OBVIOUS
<1>3. PICK k \in Invoices :
        /\ invoice[k].status = "none"
        /\ invoice' = IF invoice[i].status = "deleted" THEN invoice
                      ELSE [invoice EXCEPT ![i].status = "cancelled", ![k] = v]
        /\ req[c].op = "revise" /\ Goes(c, req[c].todo, req[c].status) /\ UNCHANGED <<order, trip, stop>>
  BY <1>1, <1>2 DEF CommitRevise, Commit
<1>4. /\ i \in Invoices /\ Unpaid(i) /\ Meant(req[c]) /\ TurnsTaken' /\ RequestsMeant'
      /\ \A j \in Waiting : j \in Waiting' \/ j = i
  BY <1>1, <1>3, CommitFinds DEF AboutInvoice
<1>5. a \in BOOLEAN /\ (a => Bills(invoice[i].order, q))
  BY <1>1, <1>3, <1>4 DEF Meant
<1>6. RowOK(invoice[i]) /\ DOMAIN invoice = Invoices
  BY <1>4 DEF BillInv, InvoicesOK
<1>7. v = [status |-> "posted", order |-> invoice[i].order, trip |-> invoice[i].trip,
           billed |-> q, allocated |-> FALSE, touched |-> ~a]
  BY <1>2, <1>6 DEF RowOK
<1>8. i # k /\ ~Live(k) /\ Live(i) /\ invoice' = [invoice EXCEPT ![i].status = "cancelled", ![k] = v]
  BY <1>3, <1>4 DEF Unpaid, Live
<1>9. PICK w : w = [invoice[i] EXCEPT !.status = "cancelled"]
  OBVIOUS
<1>10. w = [status |-> "cancelled", order |-> invoice[i].order, trip |-> invoice[i].trip,
            billed |-> invoice[i].billed, allocated |-> invoice[i].allocated,
            touched |-> invoice[i].touched]
  BY <1>6, <1>9 DEF RowOK
<1>11. /\ DOMAIN invoice' = Invoices /\ invoice'[k] = v /\ invoice'[i] = w
       /\ \A j \in Invoices : j # i /\ j # k => invoice'[j] = invoice[j]
  BY <1>4, <1>6, <1>8, <1>9
<1>12. RowOK(v) /\ Right(v) /\ RowOK(w)
  BY <1>3, <1>5, <1>6, <1>7, <1>10 DEF RowOK, Right
<1>13. InvoicesOK'
  BY <1>3, <1>11, <1>12 DEF BillInv, InvoicesOK, RowOK
<1>14. invoice'[i].status = "cancelled" /\ \A j \in Invoices : j # i /\ j # k => invoice'[j] = invoice[j]
  BY <1>10, <1>11
<1>15. \A j \in Invoices : Live(j) /\ invoice[j].order = v.order /\ invoice[j].trip = v.trip => j = i
  BY <1>4, <1>7, <1>8 DEF BillInv, OneLive
<1>16. \A j \in Invoices : j # k /\ j \in Waiting => j \in Waiting' \/ invoice'[j].status = "cancelled"
  BY <1>4, <1>14
<1> QED
  BY <1>3, <1>4, <1>8, <1>11, <1>12, <1>13, <1>14, <1>15, <1>16, DrawingBills

-----------------------------------------------------------------------
LEMMA BillInit ==
  ASSUME Init
  PROVE  BillInv
<1>1. TurnsTaken /\ RequestsMeant
  BY IdleMeans DEF Init, InitOrders, TurnsTaken, RequestsMeant
<1>2. DOMAIN invoice = Invoices /\ \A i \in Invoices : invoice[i] = NoInvoice
  BY DEF Init
<1>3. InvoicesOK
  <2>1. RowOK(NoInvoice)
    BY DEF RowOK, NoInvoice
  <2> QED
    BY <1>2, <2>1 DEF InvoicesOK
<1>4. OneLive /\ BilledOK
  BY <1>2 DEF OneLive, Live, BilledOK, Right, NoInvoice
<1>5. OneTrip /\ EditionsOK
  BY DEF Init, OneTrip, EditionsOK
<1> QED
  BY <1>1, <1>3, <1>4, <1>5 DEF BillInv

LEMMA OverlapStays ==
  ASSUME [Next]_vars
  PROVE  overlap' = overlap
<1>1. CASE UNCHANGED vars
  BY <1>1 DEF vars
<1>2. CASE NextOrders({})
  <2>1. ASSUME NEW c, NEW o, NEW q, CreateOrder(c, o, q)
        PROVE  overlap' = overlap
    BY <2>1 DEF CreateOrder
  <2>2. ASSUME NEW c, NEW o, NEW role, NEW force, NEW locked, NEW q,
               UpdateOrder(c, o, role, force, locked, q) \/ Drop(c, o, role, force, locked)
        PROVE  overlap' = overlap
    BY <2>2 DEF UpdateOrder, Drop, Begin
  <2>3. ASSUME NEW c, \/ CommitUpdateOrder(c) \/ CommitApproveOrder(c) \/ CommitCancelOrder(c)
                      \/ \E o \in Orders : \/ ApproveOrder(c, o)
                                            \/ \E p \in Orders : DuplicateOrder(c, o, p)
                                            \/ \E role, locked : RecalculateOrder(c, o, role, locked)
        PROVE  overlap' = overlap
    BY <2>3 DEF ApproveOrder, Begin, CommitUpdateOrder, CommitApproveOrder, CommitCancelOrder,
                DuplicateOrder, CreateOrder, RecalculateOrder, UpdateOrder
  <2> QED
    BY <1>2, <2>1, <2>2, <2>3 DEF NextOrders, CancelOrder, RemoveOrder, RejectOrder
<1>3. ASSUME NEW c \in Clients, Dispatch(c)
      PROVE  overlap' = overlap
  BY <1>3 DEF Dispatch, Serves, CreateTrip, CommitTrip, CommitLoading, CheckLoaded, CommitDispatch,
              CommitComplete, Refused, GenerateLoadingSheet, Start, Complete
<1>4. ASSUME NEW c \in Clients, Delivery(c)
      PROVE  overlap' = overlap
  <2>1. ASSUME NEW t, NEW o, NEW a, NEW st, UpdateStopStatus(c, t, o, st, a)
        PROVE  overlap' = overlap
    BY <2>1 DEF UpdateStopStatus, Serves
  <2>2. CASE CommitStop(c) \/ FindInvoices(c) \/ \E i \in Invoices : FollowDelivery(c, i)
    BY <2>2 DEF CommitStop, FindInvoices, FollowDelivery
  <2> QED
    BY <1>4, <2>1, <2>2 DEF Delivery
<1>5. ASSUME NEW c \in Clients, Billing(c)
      PROVE  overlap' = overlap
  BY <1>5 DEF Billing, Serves, CreateInvoice, UpdateDraft, RevisePostedUnpaid, DeleteDraft,
              RecomputeFromDelivery, Post, Cancel, CommitInvoice, Commit, CommitUpdateDraft, CommitDelete,
              CommitPost, CommitCancel, CommitRevise
<1>6. ASSUME NEW i \in Invoices, Allocate(i) \/ Release(i) \/ Pay(i) \/ \E left \in BOOLEAN : Unpay(i, left)
      PROVE  overlap' = overlap
  BY <1>6 DEF Allocate, Release, Pay, Unpay
<1> QED
  BY <1>1, <1>2, <1>3, <1>4, <1>5, <1>6 DEF Next

LEMMA BillStep ==
  ASSUME RoadInv, RoadInv', InTurn, BillInv, [Next]_vars
  PROVE  BillInv'
<1>1. CASE UNCHANGED vars
  BY <1>1 DEF vars, BillInv, TurnsTaken, InvoicesOK, RowOK, OneTrip, EditionsOK, OneLive, Live, BilledOK,
              Waiting, Due, Right, Bills, RequestsMeant, Meant, Unpaid
<1>2. CASE NextOrders({}) /\ UNCHANGED <<trip, stop, invoice>>
  BY <1>2, OrdersBill
<1>3. ASSUME NEW c \in Clients, Dispatch(c)
      PROVE  BillInv'
  BY <1>3, CreateTripBills, CommitTripBills, TripCommitsBill, TripAskingBills DEF Dispatch
<1>4. ASSUME NEW c \in Clients, Delivery(c)
      PROVE  BillInv'
  BY <1>4, TripAskingBills, CommitStopBills, FindInvoicesBills, FollowDeliveryBills DEF Delivery, StopStatus
<1>5. ASSUME NEW c \in Clients, Billing(c)
      PROVE  BillInv'
  <2>1. ASSUME NEW o \in Orders \cup {"none"}, NEW t \in Trips \cup {"none"}, NEW st \in {"draft", "posted"},
               CreateInvoice(c, o, t, st)
        PROVE  BillInv'
    BY <2>1, CreateInvoiceBills
  <2>2. ASSUME NEW i \in Invoices, NEW q,
               \/ UpdateDraft(c, i, q) \/ RevisePostedUnpaid(c, i, q) \/ DeleteDraft(c, i)
               \/ RecomputeFromDelivery(c, i) \/ Post(c, i) \/ Cancel(c, i)
        PROVE  BillInv'
    BY <2>2, InvoicesAskedFor
  <2>3. CASE CommitInvoice(c)
    BY <2>3, CommitInvoiceBills
  <2>4. CASE CommitUpdateDraft(c)
    BY <2>4, CommitUpdateDraftBills
  <2>5. CASE CommitDelete(c) \/ CommitPost(c) \/ CommitCancel(c)
    BY <2>5, StatusCommitsBill
  <2>6. CASE CommitRevise(c)
    BY <2>6, CommitReviseBills
  <2> QED
    BY <1>5, <2>1, <2>2, <2>3, <2>4, <2>5, <2>6 DEF Billing
<1>6. ASSUME NEW i \in Invoices, Allocate(i) \/ Release(i) \/ Pay(i) \/ \E left \in BOOLEAN : Unpay(i, left)
      PROVE  BillInv'
  BY <1>6, PaymentsBill
<1> QED
  BY <1>1, <1>2, <1>3, <1>4, <1>5, <1>6 DEF Next

\* Requests in turn, every invoice is for one order, trip or both, and right or
\* about to be brought up to date by the request in flight.
THEOREM BillsInTurn == Spec => []BooksInTurn
<1>1. Init => BooksInTurn
  BY BillInit DEF BooksInTurn
<1>2. RoadInv /\ RoadInv' /\ BooksInTurn /\ [Next]_vars => BooksInTurn'
  BY BillStep, OverlapStays DEF BooksInTurn, InTurn
<1> QED
  BY <1>1, <1>2, RoadInvariant, PTL DEF Spec

\* Requests in turn, however often invoices are drafted, posted, revised, paid and
\* cancelled, there is one at a time for an order, a trip or both
\* (sales-invoices.service: createInvoice against revisePostedUnpaidInvoice).
THEOREM OneInvoiceAtATime == Spec => []OneInvoicePerContext
<1>1. BooksInTurn => OneInvoicePerContext
  BY DEF BooksInTurn, BillInv, OneLive, OneInvoicePerContext
<1> QED
  BY <1>1, BillsInTurn, PTL

\* Requests in turn, an unpaid invoice bills what the stop of its order's item
\* delivered, in whichever order deliveries are reported, corrected, billed,
\* revised and followed (deliveries.service: updateStopStatus, with
\* sales-invoices.service: calculateInvoiceLines).
THEOREM BilledIsDelivered == Spec => []BilledAsDelivered
<1>1. BooksInTurn => BilledAsDelivered
  <2> SUFFICES ASSUME BooksInTurn, InTurn, Quiet, NEW i \in Invoices, Unpaid(i), ~invoice[i].touched
               PROVE  Bills(invoice[i].order, invoice[i].billed)
    BY DEF BilledAsDelivered, Bills
  <2>1. i \notin Waiting
    BY IdleMeans DEF Waiting, Quiet
  <2> QED
    BY <2>1 DEF BooksInTurn, BillInv, BilledOK, Right, Unpaid
<1> QED
  BY <1>1, BillsInTurn, PTL

-----------------------------------------------------------------------
(* Procurement, requests in turn: what is bought is what was demanded, and *)
(* an order that an approved consolidation holds stays as it is.           *)

Ordered == {o \in Orders : order[o].status # "none"}

\* A consolidation and a purchase order, as far as what is bought depends on them.
SheetRow(v) ==
  /\ v = [status |-> v.status, sources |-> v.sources, total |-> v.total, final |-> v.final, edition |-> v.edition]
  /\ v.sources \in SUBSET Ordered
PoRow(v) ==
  v = [status |-> v.status, sheet |-> v.sheet, ordered |-> v.ordered, demand |-> v.demand,
       extra |-> v.extra, edition |-> v.edition]

\* There is one consolidation at most.
SheetsOK ==
  /\ DOMAIN sheet = Sheets /\ \A s \in Sheets : SheetRow(sheet[s])
  /\ \A s, t \in Sheets : sheet[s].status # "none" /\ sheet[t].status # "none" => s = t

\* What was approved of an order is what it asks for.
AskedOK ==
  /\ order \in [Orders -> OrderRow]
  /\ \A o \in Orders : order[o].approved \in {0, order[o].ordered}
  /\ \A o \in Orders : order[o].status = "none" => order[o].approved = 0

\* What a purchase order was drawn from, whatever it is linked to now, is there and
\* as it was then; what it is linked to is there.
Drawn(q) == \E s \in Sheets : sheet[s].status = "po_generated" /\ sheet[s].final = q
There(s) == s # "none" => s \in Sheets /\ sheet[s].status # "none"
PoWell(v) ==
  /\ PoRow(v) /\ There(v.sheet)
  /\ v.demand # 0 => v.ordered = v.demand + v.extra /\ Drawn(v.demand)
BoughtOK == DOMAIN po = Purchases /\ \A p \in Purchases : PoWell(po[p])

\* What a request has read still is so when it writes.
Current(r) ==
  /\ r.op \in {"updateOrder", "approveOrder", "cancelOrder"} => r.order \in Ordered
  /\ r.op \in {"updateOrder", "approveOrder"} => r.qty \in Nat
  /\ r.op \in {"updateOrder", "cancelOrder"} => r.force \/ ~Locked(r.order)
  /\ r.op = "approveOrder" => r.qty = order[r.order].ordered
  /\ r.op = "consolidate" => \A s \in Sheets : sheet[s].status = "none"
  /\ r.op \in {"consolidate", "rebuild"} => r.sources \in SUBSET Ordered
  /\ r.op \in {"rebuild", "updateItem"} => r.sheet \in Sheets /\ MutableSheet(r.sheet)
  /\ r.op = "approveSheet" => r.sheet \in Sheets /\ sheet[r.sheet].status \notin {"none", "po_generated"}
  /\ r.op = "purchase" => r.sheet \in Sheets /\ There(r.sheet) /\ r.demand = sheet[r.sheet].final
  /\ r.op = "updatePo" => There(r.sheet)
  /\ r.op = "extras" => r.ordered = po[r.po].demand + r.extra
RequestsCurrent == DOMAIN req = Clients /\ \A c \in Clients : Current(req[c])

Buying == TurnsTaken /\ RequestsCurrent /\ SheetsOK /\ AskedOK /\ BoughtOK
BuyInv == InTurn => Buying

LEMMA IdleCurrent == Current(Idle) /\ Current(Idle)'
BY DEF Current, Idle

\* In turn, a request that moves on is alone.
LEMMA BuyersTurn ==
  ASSUME Buying, InTurn, NEW c \in Clients, NEW r, Becomes(c, r), req[c].op # "none" \/ \E op : Free(c, op)
  PROVE  Alone(c, r) /\ DOMAIN req' = Clients
<1>1. \A d \in Clients : d # c => req[d] = Idle
  BY DEF Buying, TurnsTaken, Free, InTurn, Idle
<1>2. DOMAIN req = Clients
  BY DEF Buying, RequestsCurrent
<1> QED
  BY <1>1, <1>2 DEF Becomes, Alone

LEMMA BuyersAlone ==
  ASSUME NEW c \in Clients, NEW r, Alone(c, r), DOMAIN req' = Clients, Current(r)'
  PROVE  TurnsTaken' /\ RequestsCurrent'
<1>1. ASSUME NEW d \in Clients PROVE Current(req[d])'
  <2>1. CASE d = c
    <3>1. req'[d] = r
      BY <2>1 DEF Alone
    <3> QED
      BY <3>1 DEF Current, Locked, MutableSheet, There, Ordered
  <2>2. CASE d # c
    <3>1. req'[d] = Idle
      BY <2>2 DEF Alone
    <3> QED
      BY <3>1 DEF Idle, Current
  <2> QED
    BY <2>1, <2>2
<1>2. RequestsCurrent'
  BY <1>1 DEF RequestsCurrent
<1> QED
  BY <1>2 DEF Alone, TurnsTaken

\* A request is over, or was over at once.
LEMMA BuyersRest ==
  ASSUME Buying, InTurn, NEW c \in Clients,
         \/ req[c].op # "none" /\ Becomes(c, Idle)
         \/ (\E op : Free(c, op)) /\ req' = req
  PROVE  TurnsTaken' /\ RequestsCurrent' /\ \A d \in Clients : d # c => req[d] = Idle
<1>1. CASE req[c].op # "none" /\ Becomes(c, Idle)
  <2>1. Alone(c, Idle) /\ DOMAIN req' = Clients
    BY <1>1, BuyersTurn
  <2> QED
    BY <2>1, IdleCurrent, BuyersAlone DEF Alone
<1>2. CASE (\E op : Free(c, op)) /\ req' = req
  <2>1. \A d \in Clients : req[d] = Idle
    BY <1>2 DEF Free, InTurn
  <2>2. Alone(c, Idle) /\ DOMAIN req' = Clients
    BY <1>2, <2>1 DEF Alone, Buying, RequestsCurrent
  <2> QED
    BY <2>2, IdleCurrent, BuyersAlone DEF Alone
<1> QED
  BY <1>1, <1>2

\* A request has read, and nothing was written.
LEMMA BuyersRead ==
  ASSUME Buying, InTurn, NEW c \in Clients, NEW r, Becomes(c, r), req[c].op # "none" \/ \E op : Free(c, op),
         UNCHANGED <<order, sheet, po>>, Current(r)
  PROVE  Buying'
<1>1. Alone(c, r) /\ DOMAIN req' = Clients
  BY BuyersTurn
<1>2. Current(r)'
  BY DEF Current, Locked, MutableSheet, There, Ordered
<1>3. TurnsTaken' /\ RequestsCurrent'
  BY <1>1, <1>2, BuyersAlone
<1>4. SheetsOK' /\ AskedOK' /\ BoughtOK'
  BY DEF Buying, SheetsOK, SheetRow, Ordered, AskedOK, BoughtOK, PoWell, PoRow, There, Drawn
<1> QED
  BY <1>3, <1>4 DEF Buying

LEMMA RequestEnds ==
  ASSUME Buying, InTurn, NEW c \in Clients,
         \/ req[c].op # "none" /\ Becomes(c, Idle)
         \/ (\E op : Free(c, op)) /\ req' = req,
         UNCHANGED <<order, sheet, po>>
  PROVE  Buying'
<1>1. TurnsTaken' /\ RequestsCurrent'
  BY BuyersRest
<1>2. SheetsOK' /\ AskedOK' /\ BoughtOK'
  BY DEF Buying, SheetsOK, SheetRow, Ordered, AskedOK, BoughtOK, PoWell, PoRow, There, Drawn
<1> QED
  BY <1>1, <1>2 DEF Buying

-----------------------------------------------------------------------
\* One order, consolidation or purchase order is written.

LEMMA OrderWritten ==
  ASSUME Buying, TurnsTaken', RequestsCurrent', UNCHANGED <<sheet, po>>,
         NEW o, order' \in [Orders -> OrderRow], \A p \in Orders : p # o => order'[p] = order[p],
         order'[o].status # "none", order'[o].approved \in {0, order'[o].ordered}
  PROVE  Buying'
<1>3. AskedOK'
  BY DEF Buying, AskedOK
<1>4. Ordered \subseteq Ordered'
  BY DEF Ordered
<1>5. SheetsOK'
  BY <1>4 DEF Buying, SheetsOK, SheetRow
<1>6. BoughtOK'
  BY DEF Buying, BoughtOK, PoWell, PoRow, There, Drawn
<1> QED
  BY <1>3, <1>5, <1>6 DEF Buying

\* A consolidation is there from now on, the only one, and the quantity to procure
\* stays what it is once purchase orders were drawn.
LEMMA SheetWritten ==
  ASSUME Buying, TurnsTaken', RequestsCurrent', order' = order,
         NEW s \in Sheets, NEW v, sheet' = [sheet EXCEPT ![s] = v], SheetRow(v), v.status # "none",
         sheet[s].status # "none" \/ \A t \in Sheets : sheet[t].status = "none",
         sheet[s].status = "po_generated" => v.status = "po_generated" /\ v.final = sheet[s].final
  PROVE  /\ SheetsOK' /\ AskedOK'
         /\ \A q : There(q) => There(q)'
         /\ \A q : Drawn(q) => Drawn(q)'
         /\ po' = po => Buying'
<1>1. DOMAIN sheet = Sheets /\ Ordered' = Ordered
  BY DEF Buying, SheetsOK, Ordered
<1>2. DOMAIN sheet' = Sheets /\ sheet'[s] = v /\ \A t \in Sheets : t # s => sheet'[t] = sheet[t]
  BY <1>1
<1>3. SheetsOK'
  <2>1. ASSUME NEW t \in Sheets PROVE SheetRow(sheet[t])'
    <3>1. SheetRow(sheet[t]) /\ sheet'[t] \in {v, sheet[t]}
      BY <1>2 DEF Buying, SheetsOK
    <3> QED
      BY <1>1, <3>1 DEF SheetRow
  <2>2. \A t, u \in Sheets : sheet'[t].status # "none" /\ sheet'[u].status # "none" => t = u
    BY <1>2 DEF Buying, SheetsOK
  <2> QED
    BY <1>2, <2>1, <2>2 DEF SheetsOK
<1>4. AskedOK'
  BY DEF Buying, AskedOK
<1>5. ASSUME NEW q, There(q) PROVE There(q)'
  BY <1>2, <1>5 DEF There
<1>6. ASSUME NEW q, Drawn(q) PROVE Drawn(q)'
  <2>1. PICK t \in Sheets : sheet[t].status = "po_generated" /\ sheet[t].final = q
    BY <1>6 DEF Drawn
  <2>2. sheet'[t].status = "po_generated" /\ sheet'[t].final = q
    BY <1>2, <2>1
  <2> QED
    BY <2>2 DEF Drawn
<1>7. ASSUME po' = po PROVE BoughtOK'
  <2>1. ASSUME NEW p \in Purchases PROVE PoWell(po[p])'
    <3>1. PICK q, d : q = po[p].sheet /\ d = po[p].demand
      OBVIOUS
    <3>2. There(q) /\ (d # 0 => Drawn(d)) /\ PoRow(po[p])
      BY <3>1 DEF Buying, BoughtOK, PoWell
    <3>3. There(q)' /\ (d # 0 => Drawn(d)')
      BY <1>5, <1>6, <3>2
    <3>4. There(po[p].sheet)' /\ (d # 0 => Drawn(po[p].demand)')
      BY <1>7, <3>1, <3>3 DEF There, Drawn
    <3> QED
      BY <1>7, <3>1, <3>2, <3>4 DEF Buying, BoughtOK, PoWell, PoRow
  <2> QED
    BY <1>7, <2>1 DEF Buying, BoughtOK
<1> QED
  BY <1>3, <1>4, <1>5, <1>6, <1>7 DEF Buying

LEMMA PurchasesWritten ==
  ASSUME Buying, TurnsTaken', RequestsCurrent', UNCHANGED <<order, sheet>>, DOMAIN po' = Purchases,
         \A q \in Purchases : po'[q] = po[q] \/ PoWell(po'[q])
  PROVE  Buying'
<1>1. \A q \in Purchases : PoWell(po'[q])
  BY DEF Buying, BoughtOK, PoWell
<1>2. BoughtOK'
  BY <1>1 DEF BoughtOK, PoWell, PoRow, There, Drawn
<1>3. SheetsOK' /\ AskedOK'
  BY DEF Buying, SheetsOK, SheetRow, Ordered, AskedOK
<1> QED
  BY <1>2, <1>3 DEF Buying

-----------------------------------------------------------------------
\* The steps.

LEMMA OrderRequestBegins ==
  ASSUME Buying, InTurn, NEW c \in Clients, NEW o \in Orders, NEW r, Begin(c, o, r), UNCHANGED <<sheet, po>>,
         r.order = o, r.op \in {"updateOrder", "approveOrder", "cancelOrder"},
         r.op \in {"updateOrder", "approveOrder"} => r.qty \in Nat,
         r.op \in {"updateOrder", "cancelOrder"} => r.force \/ ~Locked(o),
         r.op = "approveOrder" => r.qty = order[o].ordered
  PROVE  Buying'
<1>1. Free(c, r.op) /\ Becomes(c, r) /\ order' = order
  BY DEF Begin
<1>2. Current(r)
  BY DEF Current, Begin, Ordered
<1> QED
  BY <1>1, <1>2, BuyersRead

LEMMA OrderRequests ==
  ASSUME Buying, InTurn, NEW c \in Clients, NEW o \in Orders, UNCHANGED <<sheet, po>>, NEW role, NEW force,
         NEW locked, Locked(o) => locked
  PROVE  /\ \A q \in Nat : UpdateOrder(c, o, role, force, locked, q) => Buying'
         /\ Drop(c, o, role, force, locked) => Buying'
         /\ ApproveOrder(c, o) => Buying'
         /\ RecalculateOrder(c, o, role, locked) => Buying'
<1>1. order[o].ordered \in Nat
  BY DEF Buying, AskedOK, OrderRow
<1>2. ASSUME NEW f, Mutable(o, role, f, locked) PROVE f \/ ~Locked(o)
  BY <1>2 DEF Mutable
<1>3. ASSUME NEW f, NEW q \in Nat, UpdateOrder(c, o, role, f, locked, q) PROVE Buying'
  <2> DEFINE r == [op |-> "updateOrder", order |-> o, status |-> order[o].status, qty |-> q, force |-> f]
  <2>1. Begin(c, o, r) /\ (f \/ ~Locked(o))
    BY <1>2, <1>3 DEF UpdateOrder
  <2>2. r.op = "updateOrder" /\ r.order = o /\ r.qty = q /\ r.force = f
    OBVIOUS
  <2> HIDE DEF r
  <2> QED
    BY <2>1, <2>2, OrderRequestBegins
<1>4. ASSUME Drop(c, o, role, force, locked) PROVE Buying'
  <2> DEFINE r == [op |-> "cancelOrder", order |-> o, force |-> force]
  <2>1. Begin(c, o, r) /\ (force \/ ~Locked(o))
    BY <1>2, <1>4 DEF Drop
  <2>2. r.op = "cancelOrder" /\ r.order = o /\ r.force = force
    OBVIOUS
  <2> HIDE DEF r
  <2> QED
    BY <2>1, <2>2, OrderRequestBegins
<1>5. ASSUME ApproveOrder(c, o) PROVE Buying'
  <2> DEFINE r == [op |-> "approveOrder", order |-> o, edition |-> order[o].edition, qty |-> order[o].ordered]
  <2>1. Begin(c, o, r)
    BY <1>5 DEF ApproveOrder
  <2>2. r.op = "approveOrder" /\ r.order = o /\ r.qty = order[o].ordered
    OBVIOUS
  <2> HIDE DEF r
  <2> QED
    BY <1>1, <2>1, <2>2, OrderRequestBegins
<1> QED
  BY <1>1, <1>3, <1>4, <1>5 DEF RecalculateOrder

LEMMA OrderCommits ==
  ASSUME Buying, InTurn, NEW c \in Clients, UNCHANGED <<sheet, po>>,
         CommitUpdateOrder(c) \/ CommitApproveOrder(c) \/ CommitCancelOrder(c)
  PROVE  Buying'
<1> DEFINE o == req[c].order
<1>1. o \in Orders /\ order[o].status # "none" /\ Current(req[c]) /\ Becomes(c, Idle) /\ req[c].op # "none"
  BY DEF CommitUpdateOrder, CommitApproveOrder, CommitCancelOrder, Buying, RequestsCurrent, Current, Ordered
<1>2. order \in [Orders -> OrderRow] /\ order[o] \in OrderRow /\ order[o].approved \in {0, order[o].ordered}
  BY <1>1 DEF Buying, AskedOK
<1>3. TurnsTaken' /\ RequestsCurrent'
  BY <1>1, BuyersRest
<1>4. CASE CommitUpdateOrder(c)
  <2>1. req[c].qty \in Nat
    BY <1>1, <1>4 DEF CommitUpdateOrder, Current
  <2>2. /\ order' \in [Orders -> OrderRow] /\ \A p \in Orders : p # o => order'[p] = order[p]
        /\ order'[o].status = order[o].status /\ order'[o].approved \in {0, order'[o].ordered}
    BY <1>1, <1>2, <1>4, <2>1 DEF CommitUpdateOrder, OrderRow
  <2> QED
    BY <1>1, <1>3, <2>2, OrderWritten
<1>5. CASE CommitApproveOrder(c)
  <2>1. req[c].qty = order[o].ordered
    BY <1>1, <1>5 DEF CommitApproveOrder, Current
  <2>2. "approved" \in OrderStatus
    BY DEF OrderStatus
  <2>3. /\ order' \in [Orders -> OrderRow] /\ \A p \in Orders : p # o => order'[p] = order[p]
        /\ order'[o].status # "none" /\ order'[o].approved \in {0, order'[o].ordered}
    BY <1>1, <1>2, <1>5, <2>1, <2>2 DEF CommitApproveOrder, OrderRow
  <2> QED
    BY <1>3, <2>3, OrderWritten
<1>6. CASE CommitCancelOrder(c)
  <2>1. "cancelled" \in OrderStatus
    BY DEF OrderStatus
  <2>2. /\ order' \in [Orders -> OrderRow] /\ \A p \in Orders : p # o => order'[p] = order[p]
        /\ order'[o].status # "none" /\ order'[o].approved \in {0, order'[o].ordered}
    BY <1>1, <1>2, <1>6, <2>1 DEF CommitCancelOrder, OrderRow
  <2> QED
    BY <1>3, <2>2, OrderWritten
<1> QED
  BY <1>4, <1>5, <1>6

LEMMA OrderComes ==
  ASSUME Buying, InTurn, NEW c \in Clients, NEW o \in Orders, NEW q \in Nat, CreateOrder(c, o, q),
         UNCHANGED <<sheet, po>>
  PROVE  Buying'
<1>1. order \in [Orders -> OrderRow] /\ order[o] \in OrderRow /\ order[o].approved \in {0, order[o].ordered}
  BY DEF Buying, AskedOK
<1>2. TurnsTaken' /\ RequestsCurrent'
  BY BuyersRest DEF CreateOrder
<1>3. order[o].approved = 0
  BY DEF CreateOrder, Buying, AskedOK
<1>4. "pending" \in OrderStatus
  BY DEF OrderStatus
<1>5. /\ order' \in [Orders -> OrderRow] /\ \A p \in Orders : p # o => order'[p] = order[p]
      /\ order'[o].status # "none" /\ order'[o].approved = 0
  BY <1>1, <1>3, <1>4 DEF CreateOrder, OrderRow
<1> QED
  BY <1>2, <1>5, OrderWritten

LEMMA OrdersBought ==
  ASSUME Buying, InTurn, NextOrders({o \in Orders : Locked(o)}), UNCHANGED <<sheet, po>>
  PROVE  Buying'
<1> DEFINE lock == {o \in Orders : Locked(o)}
<1>1. \A o \in Orders : Locked(o) => o \in lock
  OBVIOUS
<1>2. Quantities \subseteq Nat /\ \A o \in Orders : order[o].ordered \in Nat
  BY SalesOrdersAssumption DEF Buying, AskedOK, OrderRow
<1>3. ASSUME NEW c \in Clients, NEW o \in Orders, NEW q \in Quantities, CreateOrder(c, o, q) PROVE Buying'
  BY <1>2, <1>3, OrderComes
<1>4. ASSUME NEW c \in Clients, NEW o \in Orders, NEW p \in Orders, DuplicateOrder(c, o, p) PROVE Buying'
  BY <1>2, <1>4, OrderComes DEF DuplicateOrder
<1> HIDE DEF lock
<1>5. ASSUME NEW c \in Clients, NEW o \in Orders, NEW role, NEW force, NEW q \in Quantities,
             UpdateOrder(c, o, role, force, o \in lock, q)
      PROVE  Buying'
  BY <1>1, <1>2, <1>5, OrderRequests
<1>6. ASSUME NEW c \in Clients, NEW o \in Orders, NEW role, NEW force, Drop(c, o, role, force, o \in lock)
      PROVE  Buying'
  BY <1>1, <1>6, OrderRequests
<1>7. ASSUME NEW c \in Clients, NEW o \in Orders, NEW role, RecalculateOrder(c, o, role, o \in lock) PROVE Buying'
  BY <1>1, <1>7, OrderRequests
<1>8. ASSUME NEW c \in Clients, NEW o \in Orders, ApproveOrder(c, o) PROVE Buying'
  BY <1>8, OrderRequests
<1>9. NextOrders(lock)
  BY DEF lock
<1> QED
  BY <1>3, <1>4, <1>5, <1>6, <1>7, <1>8, <1>9, OrderCommits DEF NextOrders, CancelOrder, RemoveOrder, RejectOrder

\* A request about consolidations, purchase orders or receipts has read.
LEMMA OfficeReads ==
  ASSUME Buying, InTurn, NEW c \in Clients, NEW r, Asks(c, r), Current(r)
  PROVE  Buying'
<1>1. Free(c, r.op) /\ Becomes(c, r) /\ UNCHANGED <<order, sheet, po>>
  BY DEF Asks
<1> QED
  BY <1>1, BuyersRead

LEMMA SheetRequests ==
  ASSUME Buying, InTurn, NEW c \in Clients
  PROVE  /\ \A statuses \in SUBSET (OrderStatus \ {"none"}) : CreateConsolidation(c, statuses) => Buying'
         /\ \A s \in Sheets : Rebuild(c, s) \/ ApproveConsolidation(c, s) => Buying'
         /\ \A s \in Sheets : \A q, given : UpdateItem(c, s, q, given) => Buying'
<1>1. \A statuses \in SUBSET (OrderStatus \ {"none"}) : Eligible(statuses) \in SUBSET Ordered
  BY DEF Eligible, Ordered
<1>2. ASSUME NEW statuses \in SUBSET (OrderStatus \ {"none"}), CreateConsolidation(c, statuses) PROVE Buying'
  <2> DEFINE r == [op |-> "consolidate", sources |-> Eligible(statuses), total |-> Demand(Eligible(statuses))]
  <2>1. Asks(c, r) /\ \A s \in Sheets : sheet[s].status = "none"
    BY <1>2 DEF CreateConsolidation
  <2>2. r.op = "consolidate" /\ r.sources \in SUBSET Ordered
    BY <1>1
  <2> HIDE DEF r
  <2> QED
    BY <2>1, <2>2, OfficeReads DEF Current
<1>3. ASSUME NEW s \in Sheets, Rebuild(c, s) PROVE Buying'
  <2> DEFINE os == Eligible({"approved"})
             r == [op |-> "rebuild", sheet |-> s, sources |-> os, total |-> Demand(os)]
  <2>1. Asks(c, r) /\ MutableSheet(s)
    BY <1>3 DEF Rebuild
  <2>2. os \in SUBSET Ordered
    BY <1>1 DEF OrderStatus
  <2> HIDE DEF os
  <2>3. r.op = "rebuild" /\ r.sheet = s /\ r.sources = os
    OBVIOUS
  <2> HIDE DEF r
  <2> QED
    BY <2>1, <2>2, <2>3, OfficeReads DEF Current
<1>4. ASSUME NEW s \in Sheets, ApproveConsolidation(c, s) PROVE Buying'
  <2> DEFINE r == [op |-> "approveSheet", sheet |-> s]
  <2>1. Asks(c, r) /\ sheet[s].status \notin {"none", "po_generated"} /\ r.op = "approveSheet" /\ r.sheet = s
    BY <1>4 DEF ApproveConsolidation
  <2> HIDE DEF r
  <2> QED
    BY <2>1, OfficeReads DEF Current
<1>5. ASSUME NEW s \in Sheets, NEW q, NEW given, UpdateItem(c, s, q, given) PROVE Buying'
  <2> DEFINE n == IF given THEN q ELSE sheet[s].total + q
             r == [op |-> "updateItem", sheet |-> s, edition |-> sheet[s].edition, qty |-> n]
  <2>1. Asks(c, r) /\ MutableSheet(s)
    BY <1>5 DEF UpdateItem
  <2> HIDE DEF n
  <2>2. r.op = "updateItem" /\ r.sheet = s
    OBVIOUS
  <2> HIDE DEF r
  <2> QED
    BY <2>1, <2>2, OfficeReads DEF Current
<1> QED
  BY <1>2, <1>3, <1>4, <1>5

LEMMA SheetCommits ==
  ASSUME Buying, InTurn, NEW c \in Clients,
         CommitConsolidation(c) \/ CommitRebuild(c) \/ CommitItem(c) \/ CommitApproveConsolidation(c)
  PROVE  Buying'
<1>1. Becomes(c, Idle) /\ req[c].op # "none" /\ Current(req[c]) /\ UNCHANGED <<order, po>>
  BY DEF CommitConsolidation, CommitRebuild, CommitItem, CommitApproveConsolidation, Finishes,
         Buying, RequestsCurrent
<1>2. TurnsTaken' /\ RequestsCurrent'
  BY <1>1, BuyersRest
<1>3. DOMAIN sheet = Sheets /\ \A s \in Sheets : SheetRow(sheet[s])
  BY DEF Buying, SheetsOK
<1>4. CASE CommitConsolidation(c)
  <2> DEFINE v == [status |-> "reviewed", sources |-> req[c].sources, total |-> req[c].total,
                   final |-> req[c].total, edition |-> 0]
  <2>1. PICK s \in Sheets : sheet' = [sheet EXCEPT ![s] = v]
    BY <1>4 DEF CommitConsolidation
  <2>2. SheetRow(v) /\ v.status = "reviewed" /\ \A t \in Sheets : sheet[t].status = "none"
    BY <1>1, <1>4 DEF CommitConsolidation, Current, SheetRow
  <2> HIDE DEF v
  <2> QED
    BY <1>1, <1>2, <2>1, <2>2, SheetWritten
<1> DEFINE s == req[c].sheet
<1>5. CASE CommitRebuild(c)
  <2> DEFINE v == [status |-> "reviewed", sources |-> req[c].sources, total |-> req[c].total,
                   final |-> req[c].total, edition |-> sheet[s].edition + 1]
  <2>1. s \in Sheets /\ MutableSheet(s) /\ req[c].sources \in SUBSET Ordered
    BY <1>1, <1>5 DEF CommitRebuild, Current
  <2>2. sheet' = [sheet EXCEPT ![s] = v]
    BY <1>5, <2>1 DEF CommitRebuild
  <2>3. SheetRow(v) /\ v.status = "reviewed"
    BY <2>1 DEF SheetRow
  <2>4. sheet[s].status \notin {"none", "po_generated"}
    BY <2>1 DEF MutableSheet, Frozen
  <2> HIDE DEF v, s
  <2> QED
    BY <1>1, <1>2, <2>1, <2>2, <2>3, <2>4, SheetWritten
<1>6. CASE CommitItem(c)
  <2> DEFINE v == [status |-> sheet[s].status, sources |-> sheet[s].sources, total |-> sheet[s].total,
                   final |-> req[c].qty, edition |-> sheet[s].edition]
  <2>1. s \in Sheets /\ MutableSheet(s) /\ SheetRow(sheet[s])
    BY <1>1, <1>3, <1>6 DEF CommitItem, Current
  <2>2. SheetRow(v) /\ v.status = sheet[s].status
    BY <2>1 DEF SheetRow
  <2>3. [sheet[s] EXCEPT !.final = req[c].qty] = v
    BY <2>1 DEF SheetRow
  <2>4. sheet' = [sheet EXCEPT ![s] = v] \/ sheet' = sheet
    BY <1>6, <2>3 DEF CommitItem
  <2>5. sheet[s].status \notin {"none", "po_generated"}
    BY <2>1 DEF MutableSheet, Frozen
  <2> HIDE DEF v, s
  <2>6. CASE sheet' = sheet
    BY <1>1, <2>6, RequestEnds
  <2>7. CASE sheet' = [sheet EXCEPT ![s] = v]
    BY <1>1, <1>2, <2>1, <2>2, <2>5, <2>7, SheetWritten
  <2> QED
    BY <2>4, <2>6, <2>7
<1>7. CASE CommitApproveConsolidation(c)
  <2> DEFINE v == [status |-> "approved", sources |-> sheet[s].sources, total |-> sheet[s].total,
                   final |-> sheet[s].final, edition |-> sheet[s].edition]
  <2>1. s \in Sheets /\ sheet[s].status \notin {"none", "po_generated"} /\ SheetRow(sheet[s])
    BY <1>1, <1>3, <1>7 DEF CommitApproveConsolidation, Current
  <2>2. SheetRow(v) /\ v.status = "approved"
    BY <2>1 DEF SheetRow
  <2>3. [sheet[s] EXCEPT !.status = "approved"] = v
    BY <2>1 DEF SheetRow
  <2>4. sheet' = [sheet EXCEPT ![s] = v]
    BY <1>7, <2>3 DEF CommitApproveConsolidation
  <2> HIDE DEF v, s
  <2> QED
    BY <1>1, <1>2, <2>1, <2>2, <2>4, SheetWritten
<1> QED
  BY <1>4, <1>5, <1>6, <1>7

-----------------------------------------------------------------------
LEMMA PurchaseRequests ==
  ASSUME Buying, InTurn, NEW c \in Clients
  PROVE  /\ \A s \in Sheets : \A e : CreateFromDemand(c, s, e) => Buying'
         /\ \A p \in Purchases : \A s \in Sheets \cup {"none"} : \A q : UpdatePurchase(c, p, s, q) => Buying'
         /\ \A p \in Purchases : \A e : UpdateDemandExtras(c, p, e) => Buying'
         /\ \A p \in Purchases : ApprovePurchase(c, p) \/ CancelPurchase(c, p) => Buying'
<1>1. ASSUME NEW s \in Sheets, NEW e, CreateFromDemand(c, s, e) PROVE Buying'
  <2> DEFINE r == [op |-> "purchase", sheet |-> s, demand |-> sheet[s].final, extra |-> e]
  <2>1. Asks(c, r) /\ There(s)
    BY <1>1 DEF CreateFromDemand, There, Frozen
  <2>2. r.op = "purchase" /\ r.sheet = s /\ r.demand = sheet[s].final
    OBVIOUS
  <2> HIDE DEF r
  <2> QED
    BY <2>1, <2>2, OfficeReads DEF Current
<1>2. ASSUME NEW p \in Purchases, NEW s \in Sheets \cup {"none"}, NEW q, UpdatePurchase(c, p, s, q) PROVE Buying'
  <2> DEFINE r == [op |-> "updatePo", po |-> p, sheet |-> s, qty |-> q]
  <2>1. Asks(c, r) /\ There(s)
    BY <1>2 DEF UpdatePurchase, Consolidated, There
  <2>2. r.op = "updatePo" /\ r.sheet = s
    OBVIOUS
  <2> HIDE DEF r
  <2> QED
    BY <2>1, <2>2, OfficeReads DEF Current
<1>3. ASSUME NEW p \in Purchases, NEW e, UpdateDemandExtras(c, p, e) PROVE Buying'
  <2> DEFINE r == [op |-> "extras", po |-> p, ordered |-> po[p].demand + e, extra |-> e]
  <2>1. Asks(c, r) /\ r.op = "extras" /\ r.po = p /\ r.extra = e /\ r.ordered = po[p].demand + e
    BY <1>3 DEF UpdateDemandExtras
  <2> HIDE DEF r
  <2> QED
    BY <2>1, OfficeReads DEF Current
<1>4. ASSUME NEW p \in Purchases, NEW st, Asks(c, [op |-> "statusPo", po |-> p, status |-> st]) PROVE Buying'
  <2> DEFINE r == [op |-> "statusPo", po |-> p, status |-> st]
  <2>1. Asks(c, r) /\ r.op = "statusPo"
    BY <1>4
  <2> HIDE DEF r
  <2> QED
    BY <2>1, OfficeReads DEF Current
<1> QED
  BY <1>1, <1>2, <1>3, <1>4 DEF ApprovePurchase, CancelPurchase

LEMMA PurchaseComes ==
  ASSUME Buying, InTurn, NEW c \in Clients, NEW p \in Purchases, NEW s \in Sheets \cup {"none"}, NEW q,
         CreatePurchase(c, p, s, q)
  PROVE  Buying'
<1> DEFINE v == [status |-> "draft", sheet |-> s, ordered |-> q, demand |-> 0, extra |-> 0, edition |-> 0]
<1>1. TurnsTaken' /\ RequestsCurrent'
  BY BuyersRest DEF CreatePurchase
<1>2. [NoPurchase EXCEPT !.status = "draft", !.sheet = s, !.ordered = q] = v
  <2> DEFINE a == [status |-> "draft", sheet |-> "none", ordered |-> 0, demand |-> 0, extra |-> 0, edition |-> 0]
             b == [status |-> "draft", sheet |-> s, ordered |-> 0, demand |-> 0, extra |-> 0, edition |-> 0]
  <2>1. [NoPurchase EXCEPT !.status = "draft"] = a
    BY DEF NoPurchase
  <2>2. [a EXCEPT !.sheet = s] = b
    OBVIOUS
  <2>3. [b EXCEPT !.ordered = q] = v
    OBVIOUS
  <2> HIDE DEF a, b, v
  <2> QED
    BY <2>1, <2>2, <2>3
<1>3. po' = [po EXCEPT ![p] = v] /\ UNCHANGED <<order, sheet>> /\ There(s)
  BY <1>2 DEF CreatePurchase, Consolidated, There
<1>4. PoRow(v) /\ v.sheet = s /\ v.demand = 0
  BY DEF PoRow
<1> HIDE DEF v
<1>5. PoWell(v)
  BY <1>3, <1>4 DEF PoWell
<1>6. DOMAIN po' = Purchases /\ \A d \in Purchases : po'[d] \in {v, po[d]}
  BY <1>3 DEF Buying, BoughtOK
<1> QED
  BY <1>1, <1>3, <1>5, <1>6, PurchasesWritten

\* A field of a purchase order is written.
LEMMA PoEdited ==
  ASSUME NEW v, PoRow(v), NEW x
  PROVE  /\ \A w : w = [v EXCEPT !.status = x] =>
              /\ PoRow(w) /\ w.sheet = v.sheet /\ w.ordered = v.ordered
              /\ w.demand = v.demand /\ w.extra = v.extra
         /\ \A w : w = [v EXCEPT !.sheet = x] =>
              /\ PoRow(w) /\ w.sheet = x /\ w.ordered = v.ordered
              /\ w.demand = v.demand /\ w.extra = v.extra
         /\ \A w : w = [v EXCEPT !.ordered = x] =>
              /\ PoRow(w) /\ w.sheet = v.sheet /\ w.ordered = x
              /\ w.demand = v.demand /\ w.extra = v.extra
         /\ \A w : w = [v EXCEPT !.demand = x] =>
              /\ PoRow(w) /\ w.sheet = v.sheet /\ w.ordered = v.ordered
              /\ w.demand = x /\ w.extra = v.extra
         /\ \A w : w = [v EXCEPT !.extra = x] =>
              /\ PoRow(w) /\ w.sheet = v.sheet /\ w.ordered = v.ordered
              /\ w.demand = v.demand /\ w.extra = x
         /\ \A w : w = [v EXCEPT !.edition = x] =>
              /\ PoRow(w) /\ w.sheet = v.sheet /\ w.ordered = v.ordered
              /\ w.demand = v.demand /\ w.extra = v.extra
<1> USE DEF PoRow
<1>1. \A w : w = [v EXCEPT !.status = x] =>
        w = [status |-> x, sheet |-> v.sheet, ordered |-> v.ordered, demand |-> v.demand,
             extra |-> v.extra, edition |-> v.edition]
  OBVIOUS
<1>2. \A w : w = [v EXCEPT !.sheet = x] =>
        w = [status |-> v.status, sheet |-> x, ordered |-> v.ordered, demand |-> v.demand,
             extra |-> v.extra, edition |-> v.edition]
  OBVIOUS
<1>3. \A w : w = [v EXCEPT !.ordered = x] =>
        w = [status |-> v.status, sheet |-> v.sheet, ordered |-> x, demand |-> v.demand,
             extra |-> v.extra, edition |-> v.edition]
  OBVIOUS
<1>4. \A w : w = [v EXCEPT !.demand = x] =>
        w = [status |-> v.status, sheet |-> v.sheet, ordered |-> v.ordered, demand |-> x,
             extra |-> v.extra, edition |-> v.edition]
  OBVIOUS
<1>5. \A w : w = [v EXCEPT !.extra = x] =>
        w = [status |-> v.status, sheet |-> v.sheet, ordered |-> v.ordered, demand |-> v.demand,
             extra |-> x, edition |-> v.edition]
  OBVIOUS
<1>6. \A w : w = [v EXCEPT !.edition = x] =>
        w = [status |-> v.status, sheet |-> v.sheet, ordered |-> v.ordered, demand |-> v.demand,
             extra |-> v.extra, edition |-> x]
  OBVIOUS
<1> QED
  BY <1>1, <1>2, <1>3, <1>4, <1>5, <1>6

LEMMA PurchaseCommits ==
  ASSUME Buying, InTurn, NEW c \in Clients,
         CommitUpdatePurchase(c) \/ CommitExtras(c) \/ CommitStatus(c)
  PROVE  Buying'
<1>1. Becomes(c, Idle) /\ req[c].op # "none" /\ Current(req[c]) /\ UNCHANGED <<order, sheet>>
  BY DEF CommitUpdatePurchase, CommitExtras, CommitStatus, Finishes, Buying, RequestsCurrent
<1>2. TurnsTaken' /\ RequestsCurrent'
  BY <1>1, BuyersRest
<1>3. DOMAIN po = Purchases /\ \A p \in Purchases : PoWell(po[p])
  BY DEF Buying, BoughtOK
<1>4. DOMAIN po' = Purchases /\ \A p \in Purchases : p # req[c].po => po'[p] = po[p]
  BY <1>3 DEF CommitUpdatePurchase, CommitExtras, CommitStatus
<1>5. ASSUME NEW p \in Purchases, p = req[c].po PROVE PoWell(po'[p])
  <2>1. PoRow(po[p]) /\ There(po[p].sheet)
    BY <1>3 DEF PoWell
  <2>2. CASE CommitUpdatePurchase(c)
    <3>1. There(req[c].sheet)
      BY <1>1, <2>2 DEF CommitUpdatePurchase, Current
    <3>2. CASE req[c].qty = 0
      <4>1. po'[p] = [po[p] EXCEPT !.sheet = req[c].sheet]
        BY <1>3, <1>5, <2>2, <3>2 DEF CommitUpdatePurchase
      <4> QED
        BY <1>3, <2>1, <3>1, <4>1, PoEdited DEF PoWell
    <3>3. CASE req[c].qty # 0
      <4>1. po'[p] = [po[p] EXCEPT !.sheet = req[c].sheet, !.ordered = req[c].qty, !.demand = 0, !.extra = 0,
                                   !.edition = po[req[c].po].edition + 1]
        BY <1>3, <1>5, <2>2, <3>3 DEF CommitUpdatePurchase
      <4> DEFINE v1 == [po[p] EXCEPT !.sheet = req[c].sheet]
                 v2 == [v1 EXCEPT !.ordered = req[c].qty]
                 v3 == [v2 EXCEPT !.demand = 0]
                 v4 == [v3 EXCEPT !.extra = 0]
                 v5 == [v4 EXCEPT !.edition = po[req[c].po].edition + 1]
      <4>2. po'[p] = v5
        BY <4>1
      <4>3. PoRow(v1) /\ v1.sheet = req[c].sheet
        BY <2>1, PoEdited
      <4> HIDE DEF v1
      <4>4. PoRow(v2) /\ v2.sheet = req[c].sheet
        BY <4>3, PoEdited
      <4> HIDE DEF v2
      <4>5. PoRow(v3) /\ v3.sheet = req[c].sheet /\ v3.demand = 0
        BY <4>4, PoEdited
      <4> HIDE DEF v3
      <4>6. PoRow(v4) /\ v4.sheet = req[c].sheet /\ v4.demand = 0
        BY <4>5, PoEdited
      <4> HIDE DEF v4
      <4>7. PoRow(v5) /\ v5.sheet = req[c].sheet /\ v5.demand = 0
        BY <4>6, PoEdited
      <4> HIDE DEF v5
      <4> QED
        BY <3>1, <4>2, <4>7 DEF PoWell
    <3> QED
      BY <3>2, <3>3
  <2>3. CASE CommitExtras(c)
    <3> DEFINE v1 == [po[p] EXCEPT !.ordered = req[c].ordered]
               v2 == [v1 EXCEPT !.extra = req[c].extra]
    <3>1. po'[p] = v2
      BY <1>3, <1>5, <2>3 DEF CommitExtras
    <3>2. req[c].ordered = po[p].demand + req[c].extra
      BY <1>1, <1>5, <2>3 DEF CommitExtras, Current
    <3>3. PoRow(v1) /\ v1.sheet = po[p].sheet /\ v1.ordered = req[c].ordered /\ v1.demand = po[p].demand
      BY <2>1, PoEdited
    <3> HIDE DEF v1
    <3>4. PoRow(v2) /\ v2.sheet = po[p].sheet /\ v2.ordered = req[c].ordered
          /\ v2.demand = po[p].demand /\ v2.extra = req[c].extra
      BY <3>3, PoEdited
    <3> HIDE DEF v2
    <3> QED
      BY <1>3, <2>1, <3>1, <3>2, <3>4 DEF PoWell
  <2>4. CASE CommitStatus(c)
    <3>1. po'[p] = [po[p] EXCEPT !.status = req[c].status]
      BY <1>3, <1>5, <2>4 DEF CommitStatus
    <3> QED
      BY <1>3, <2>1, <3>1, PoEdited DEF PoWell
  <2> QED
    BY <2>2, <2>3, <2>4
<1> QED
  BY <1>1, <1>2, <1>4, <1>5, PurchasesWritten

LEMMA DemandPurchased ==
  ASSUME Buying, InTurn, NEW c \in Clients, CommitFromDemand(c)
  PROVE  Buying'
<1> DEFINE s == req[c].sheet
           v == [status |-> "po_generated", sources |-> sheet[s].sources, total |-> sheet[s].total,
                 final |-> sheet[s].final, edition |-> sheet[s].edition]
           w == [status |-> "draft", sheet |-> s, ordered |-> req[c].demand + req[c].extra,
                 demand |-> req[c].demand, extra |-> req[c].extra, edition |-> 0]
<1>1. Becomes(c, Idle) /\ req[c].op = "purchase" /\ Current(req[c]) /\ order' = order
  BY DEF CommitFromDemand, Finishes, Buying, RequestsCurrent
<1>2. TurnsTaken' /\ RequestsCurrent'
  BY <1>1, BuyersRest
<1>3. s \in Sheets /\ There(s) /\ req[c].demand = sheet[s].final
  BY <1>1 DEF Current
<1>4. s # "none" /\ sheet[s].status # "none" /\ SheetRow(sheet[s])
  BY <1>3, ProcurementAssumption DEF There, Buying, SheetsOK
<1>5. [sheet[s] EXCEPT !.status = "po_generated"] = v
  BY <1>4 DEF SheetRow
<1>6. sheet' = [sheet EXCEPT ![s] = v]
  BY <1>5 DEF CommitFromDemand
<1>7. SheetRow(v) /\ v.status = "po_generated" /\ v.final = sheet[s].final
  BY <1>4 DEF SheetRow
<1>8. PICK p \in Purchases : po' = [po EXCEPT ![p] = w]
  BY DEF CommitFromDemand
<1>9. PoRow(w) /\ w.sheet = s /\ w.ordered = w.demand + w.extra /\ w.demand = sheet[s].final
  BY <1>3 DEF PoRow
<1>10. DOMAIN sheet = Sheets
  BY DEF Buying, SheetsOK
<1> HIDE DEF v, w
<1>11. sheet'[s].status = "po_generated" /\ sheet'[s].final = w.demand
  BY <1>3, <1>6, <1>7, <1>9, <1>10
<1> HIDE DEF s
<1>12. /\ SheetsOK' /\ AskedOK'
       /\ \A q : There(q) => There(q)'
       /\ \A q : Drawn(q) => Drawn(q)'
  BY <1>1, <1>2, <1>3, <1>4, <1>6, <1>7, SheetWritten
<1>13. DOMAIN po' = Purchases /\ \A q \in Purchases : po'[q] \in {w, po[q]}
  BY <1>8 DEF Buying, BoughtOK
<1>14. \A q : There(q)' <=> (q # "none" => q \in Sheets /\ sheet'[q].status # "none")
  BY DEF There
<1>15. \A q : Drawn(q)' <=> \E t \in Sheets : sheet'[t].status = "po_generated" /\ sheet'[t].final = q
  BY DEF Drawn
<1>16. ASSUME NEW q \in Purchases
       PROVE  /\ PoRow(po'[q])
              /\ po'[q].sheet # "none" => po'[q].sheet \in Sheets /\ sheet'[po'[q].sheet].status # "none"
              /\ po'[q].demand # 0 =>
                   /\ po'[q].ordered = po'[q].demand + po'[q].extra
                   /\ \E t \in Sheets : sheet'[t].status = "po_generated" /\ sheet'[t].final = po'[q].demand
  <2>1. CASE po'[q] = w
    BY <1>3, <1>9, <1>11, <2>1
  <2>2. CASE po'[q] = po[q]
    <3>1. PICK a, d : a = po[q].sheet /\ d = po[q].demand
      OBVIOUS
    <3>2. PoRow(po[q]) /\ There(a) /\ (d # 0 => po[q].ordered = po[q].demand + po[q].extra /\ Drawn(d))
      BY <3>1 DEF Buying, BoughtOK, PoWell
    <3>3. There(a)' /\ (d # 0 => Drawn(d)')
      BY <1>12, <3>2
    <3> QED
      BY <1>14, <1>15, <2>2, <3>1, <3>2, <3>3
  <2> QED
    BY <1>13, <2>1, <2>2
<1>17. BoughtOK'
  BY <1>13, <1>16 DEF BoughtOK, PoWell, PoRow, There, Drawn
<1> QED
  BY <1>2, <1>12, <1>17 DEF Buying

LEMMA DemandsBought ==
  ASSUME Buying, InTurn, NEW c \in Clients, Consolidate(c) \/ Purchase(c)
  PROVE  Buying'
<1>1. {"approved"} \in SUBSET (OrderStatus \ {"none"}) /\ {"pending", "approved"} \in SUBSET (OrderStatus \ {"none"})
  BY DEF OrderStatus
<1>2. CASE Consolidate(c)
  BY <1>1, <1>2, SheetRequests, SheetCommits DEF Consolidate
<1>3. CASE Purchase(c)
  BY <1>3, PurchaseRequests, PurchaseComes, PurchaseCommits, DemandPurchased DEF Purchase
<1> QED
  BY <1>2, <1>3

LEMMA ReceiptsBought ==
  ASSUME Buying, InTurn, NEW c \in Clients, Receive(c)
  PROVE  Buying'
<1>1. ASSUME NEW r, Asks(c, r), r.op \in {"updateReceipt", "approveReceipt", "post"} PROVE Buying'
  <2>1. Current(r)
    BY <1>1 DEF Current
  <2> QED
    BY <1>1, <2>1, OfficeReads
<1>2. ASSUME NEW g \in Receipts, NEW p, NEW a, CreateReceipt(c, g, p, a) PROVE Buying'
  BY <1>2, RequestEnds DEF CreateReceipt
<1>3. ASSUME NEW g \in Receipts, NEW p, NEW a, NEW items, UpdateReceipt(c, g, p, a, items) PROVE Buying'
  <2>1. PICK r : Asks(c, r) /\ r.op = "updateReceipt"
    BY <1>3 DEF UpdateReceipt
  <2> QED
    BY <1>1, <2>1
<1>4. ASSUME NEW g \in Receipts, ApproveReceipt(c, g) \/ PostReceipt(c, g) PROVE Buying'
  <2>1. PICK r : Asks(c, r) /\ r.op \in {"approveReceipt", "post"}
    BY <1>4 DEF ApproveReceipt, PostReceipt
  <2> QED
    BY <1>1, <2>1
<1>5. CASE CommitReceipt(c) \/ CommitApproveReceipt(c) \/ DieAfterPosting(c)
  BY <1>5, RequestEnds DEF CommitReceipt, CommitApproveReceipt, DieAfterPosting, Finishes
<1>6. CASE CommitReceiptPosting(c)
  <2>1. CASE Becomes(c, Idle)
    BY <1>6, <2>1, RequestEnds DEF CommitReceiptPosting
  <2>2. CASE Becomes(c, [op |-> "readReceipts", po |-> req[c].po])
    <3>1. Current([op |-> "readReceipts", po |-> req[c].po])
      BY DEF Current
    <3> QED
      BY <1>6, <2>2, <3>1, BuyersRead DEF CommitReceiptPosting
  <2> QED
    BY <1>6, <2>1, <2>2 DEF CommitReceiptPosting, Finishes
<1>7. CASE ReadReceipts(c)
  <2>1. PICK r : Becomes(c, r) /\ r.op = "sync"
    BY <1>7 DEF ReadReceipts
  <2>2. Current(r)
    BY <2>1 DEF Current
  <2> QED
    BY <1>7, <2>1, <2>2, BuyersRead DEF ReadReceipts
<1> QED
  BY <1>2, <1>3, <1>4, <1>5, <1>6, <1>7 DEF Receive

LEMMA BuyingStep ==
  ASSUME Buying, InTurn, NextProcurement
  PROVE  Buying'
BY OrdersBought, DemandsBought, ReceiptsBought DEF NextProcurement

LEMMA BuyingInit == InitProcurement => Buying
<1> SUFFICES ASSUME InitProcurement PROVE Buying
  OBVIOUS
<1>1. /\ order = [o \in Orders |-> [status |-> "none", ordered |-> 0, approved |-> 0, edition |-> 0]]
      /\ req = [c \in Clients |-> Idle]
      /\ sheet = [s \in Sheets |-> [status |-> "none", sources |-> {}, total |-> 0, final |-> 0, edition |-> 0]]
      /\ po = [p \in Purchases |-> NoPurchase]
  BY DEF InitProcurement, InitOrders
<1>2. TurnsTaken /\ RequestsCurrent
  BY <1>1, IdleCurrent DEF TurnsTaken, RequestsCurrent
<1>3. SheetsOK
  BY <1>1 DEF SheetsOK, SheetRow
<1>4. AskedOK
  BY <1>1 DEF AskedOK, OrderRow, OrderStatus
<1>5. BoughtOK
  BY <1>1 DEF BoughtOK, PoWell, PoRow, There, NoPurchase
<1> QED
  BY <1>2, <1>3, <1>4, <1>5 DEF Buying

\* A request about an order reads, or writes orders in one of four ways.
LEMMA OrderSteps ==
  ASSUME NEW lock, NextOrders(lock)
  PROVE  /\ overlap' = overlap
         /\ \/ order' = order
            \/ \E c \in Clients : \E p, q : CreateOrder(c, p, q)
            \/ \E c \in Clients : CommitUpdateOrder(c) \/ CommitApproveOrder(c) \/ CommitCancelOrder(c)
<1> DEFINE Does == /\ overlap' = overlap
                   /\ \/ order' = order
                      \/ \E c \in Clients : \E p, q : CreateOrder(c, p, q)
                      \/ \E c \in Clients : CommitUpdateOrder(c) \/ CommitApproveOrder(c) \/ CommitCancelOrder(c)
<1>1. ASSUME NEW c \in Clients, NEW p, NEW r, Begin(c, p, r) PROVE Does
  BY <1>1 DEF Begin
<1>2. ASSUME NEW c \in Clients, NEW p, NEW q, CreateOrder(c, p, q) PROVE Does
  <2>1. overlap' = overlap
    BY <1>2 DEF CreateOrder
  <2> QED
    BY <1>2, <2>1
<1>3. ASSUME NEW c \in Clients, CommitUpdateOrder(c) \/ CommitApproveOrder(c) \/ CommitCancelOrder(c) PROVE Does
  <2>1. overlap' = overlap
    BY <1>3 DEF CommitUpdateOrder, CommitApproveOrder, CommitCancelOrder
  <2> QED
    BY <1>3, <2>1
<1> HIDE DEF Does
<1>4. ASSUME NEW c \in Clients, NEW p, NEW role, NEW force, NEW locked,
             \/ \E q : UpdateOrder(c, p, role, force, locked, q)
             \/ Drop(c, p, role, force, locked) \/ RecalculateOrder(c, p, role, locked) \/ ApproveOrder(c, p)
      PROVE  Does
  <2>1. \E r : Begin(c, p, r)
    BY <1>4 DEF UpdateOrder, Drop, RecalculateOrder, ApproveOrder
  <2> QED
    BY <1>1, <2>1
<1>5. PICK c \in Clients :
        \/ \E o \in Orders :
             \/ \E q \in Quantities : CreateOrder(c, o, q)
             \/ \E p \in Orders : DuplicateOrder(c, o, p)
             \/ \E role \in Roles, force \in BOOLEAN :
                  \/ \E q \in Quantities : UpdateOrder(c, o, role, force, o \in lock, q)
                  \/ CancelOrder(c, o, role, force, o \in lock)
             \/ \E role \in Roles : RecalculateOrder(c, o, role, o \in lock)
             \/ \E role \in Roles : RemoveOrder(c, o, role, o \in lock)
             \/ \E force \in BOOLEAN : RejectOrder(c, o, force, o \in lock)
             \/ ApproveOrder(c, o)
        \/ CommitUpdateOrder(c)
        \/ CommitApproveOrder(c)
        \/ CommitCancelOrder(c)
  BY DEF NextOrders
<1>6. Does
  BY <1>2, <1>3, <1>4, <1>5 DEF DuplicateOrder, CancelOrder, RemoveOrder, RejectOrder
<1> QED
  BY <1>6 DEF Does

LEMMA TurnsStayOrNot == [NextProcurement]_procurement => (InTurn' <=> InTurn)
<1> SUFFICES ASSUME [NextProcurement]_procurement PROVE overlap' = overlap
  BY DEF InTurn
<1>1. CASE procurement' = procurement
  BY <1>1 DEF procurement
<1>2. CASE NextOrders({o \in Orders : Locked(o)})
  BY <1>2, OrderSteps
<1>3. ASSUME NEW c \in Clients, Consolidate(c) PROVE overlap' = overlap
  BY <1>3 DEF Consolidate, CreateConsolidation, Rebuild, ApproveConsolidation, UpdateItem, CommitConsolidation,
       CommitRebuild, CommitItem, CommitApproveConsolidation, Asks
<1>4. ASSUME NEW c \in Clients, Purchase(c) PROVE overlap' = overlap
  BY <1>4 DEF Purchase, CreatePurchase, UpdatePurchase, UpdateDemandExtras, ApprovePurchase, CancelPurchase,
       CreateFromDemand, CommitFromDemand, CommitUpdatePurchase, CommitExtras, CommitStatus, Asks
<1>5. ASSUME NEW c \in Clients, Receive(c) PROVE overlap' = overlap
  BY <1>5 DEF Receive, CreateReceipt, UpdateReceipt, ApproveReceipt, PostReceipt, CommitReceipt,
       CommitApproveReceipt, CommitReceiptPosting, ReadReceipts, DieAfterPosting, Asks
<1> QED
  BY <1>1, <1>2, <1>3, <1>4, <1>5 DEF NextProcurement

\* Nothing that a request has read is out of date when it writes, and purchase
\* orders are what the one consolidation was approved for.
THEOREM BuyInvariant == ProcurementSpec => []BuyInv
<1>1. InitProcurement => BuyInv
  BY BuyingInit DEF BuyInv
<1>2. BuyInv /\ [NextProcurement]_procurement => BuyInv'
  <2> SUFFICES ASSUME BuyInv, [NextProcurement]_procurement, InTurn PROVE Buying'
    BY TurnsStayOrNot DEF BuyInv
  <2>1. Buying
    BY DEF BuyInv
  <2>2. CASE procurement' = procurement
    <3>1. order' = order /\ sheet' = sheet /\ po' = po /\ req' = req
      BY <2>2 DEF procurement
    <3> QED
      BY <2>1, <3>1 DEF Buying, TurnsTaken, RequestsCurrent, Current, Locked, MutableSheet, There, Ordered,
           SheetsOK, SheetRow, AskedOK, BoughtOK, PoWell, PoRow, Drawn
  <2> QED
    BY <2>1, <2>2, BuyingStep
<1> QED
  BY <1>1, <1>2, PTL DEF ProcurementSpec

\* Requests in turn, however often a demand is rebuilt, edited, approved and drawn
\* from and purchase orders are edited and linked anew, one that is linked to the
\* demand it was drawn from orders that demand and its extra (purchase-orders.service:
\* createFromDemand, against demand-consolidations.service: assertMutableConsolidation).
THEOREM BoughtAsDemanded == ProcurementSpec => []PurchasedAsDemanded
<1>1. BuyInv => PurchasedAsDemanded
  <2> SUFFICES ASSUME Buying, NEW p \in Purchases, po[p].demand # 0, po[p].sheet # "none"
               PROVE  /\ sheet[po[p].sheet].status = "po_generated" /\ sheet[po[p].sheet].final = po[p].demand
                      /\ po[p].ordered = po[p].demand + po[p].extra
    BY DEF BuyInv, PurchasedAsDemanded
  <2>1. /\ po[p].sheet \in Sheets /\ sheet[po[p].sheet].status # "none"
        /\ po[p].ordered = po[p].demand + po[p].extra /\ Drawn(po[p].demand)
    BY DEF Buying, BoughtOK, PoWell, There
  <2>2. PICK s \in Sheets : sheet[s].status = "po_generated" /\ sheet[s].final = po[p].demand
    BY <2>1 DEF Drawn
  <2>3. s = po[p].sheet
    BY <2>1, <2>2 DEF Buying, SheetsOK
  <2> QED
    BY <2>1, <2>2, <2>3
<1> QED
  BY <1>1, BuyInvariant, PTL

-----------------------------------------------------------------------
\* In turn, an order asks for what it orders: it keeps asking for that while it
\* keeps what it orders.
LEMMA WantedIsOrdered == AskedOK => \A o \in Orders : Wanted(o) = order[o].ordered
BY DEF AskedOK, Wanted

Kept(o) == order'[o].ordered = order[o].ordered /\ (order[o].status # "cancelled" => order'[o].status # "cancelled")

LEMMA LockedKept ==
  ASSUME Buying, InTurn, NEW lock, NextOrders(lock), NEW o \in Orders, Locked(o),
         ~(\E c \in Clients : req[c].op \in {"updateOrder", "cancelOrder"} /\ req[c].force)
  PROVE  Kept(o)
<1>1. order[o].status # "none"
  BY DEF Locked, Buying, SheetsOK, SheetRow, Ordered
<1>2. order \in [Orders -> OrderRow] /\ order[o] \in OrderRow
  BY DEF Buying, AskedOK
<1>3. \A c \in Clients : Current(req[c])
  BY DEF Buying, RequestsCurrent
<1>4. ASSUME NEW c \in Clients, NEW p, NEW q, CreateOrder(c, p, q) PROVE Kept(o)
  BY <1>1, <1>2, <1>4 DEF CreateOrder, Kept
<1>5. ASSUME order' = order PROVE Kept(o)
  BY <1>5 DEF Kept
<1>6. ASSUME NEW c \in Clients, CommitUpdateOrder(c) \/ CommitCancelOrder(c) PROVE Kept(o)
  <2>1. req[c].order # o
    BY <1>3, <1>6 DEF CommitUpdateOrder, CommitCancelOrder, Current
  <2>2. order'[o] = order[o]
    BY <1>2, <1>6, <2>1 DEF CommitUpdateOrder, CommitCancelOrder
  <2> QED
    BY <2>2 DEF Kept
<1>7. ASSUME NEW c \in Clients, CommitApproveOrder(c) PROVE Kept(o)
  BY <1>2, <1>7 DEF CommitApproveOrder, Kept, OrderRow
<1> QED
  BY <1>4, <1>5, <1>6, <1>7, OrderSteps

LEMMA OfficeKeeps ==
  ASSUME NEW c \in Clients, Consolidate(c) \/ Purchase(c) \/ Receive(c)
  PROVE  order' = order
<1>1. CASE Consolidate(c)
  BY <1>1 DEF Consolidate, CreateConsolidation, Rebuild, ApproveConsolidation, UpdateItem, CommitConsolidation,
       CommitRebuild, CommitItem, CommitApproveConsolidation, Asks
<1>2. CASE Purchase(c)
  BY <1>2 DEF Purchase, CreatePurchase, UpdatePurchase, UpdateDemandExtras, ApprovePurchase, CancelPurchase,
       CreateFromDemand, CommitFromDemand, CommitUpdatePurchase, CommitExtras, CommitStatus, Asks
<1>3. CASE Receive(c)
  BY <1>3 DEF Receive, CreateReceipt, UpdateReceipt, ApproveReceipt, PostReceipt, CommitReceipt,
       CommitApproveReceipt, CommitReceiptPosting, ReadReceipts, DieAfterPosting, Asks
<1> QED
  BY <1>1, <1>2, <1>3

\* Requests in turn: an order that an approved consolidation holds asks for what
\* it asked for, and is not cancelled, unless the back office forces it
\* (sales-orders.service: ensureOrderMutable).
THEOREM LocksHold == ProcurementSpec => LockedOrdersKeep
<1> DEFINE Forced == \E c \in Clients : req[c].op \in {"updateOrder", "cancelOrder"} /\ req[c].force
           Stays == InTurn => \A o \in Orders :
             Locked(o) /\ ~Forced => Wanted(o)' = Wanted(o) /\ (order[o].status # "cancelled" => order'[o].status # "cancelled")
<1>1. BuyInv /\ [NextProcurement]_procurement => [Stays]_procurement
  <2> SUFFICES ASSUME BuyInv, NextProcurement, InTurn, NEW o \in Orders, Locked(o), ~Forced
               PROVE  Wanted(o)' = Wanted(o) /\ (order[o].status # "cancelled" => order'[o].status # "cancelled")
    OBVIOUS
  <2>1. Buying /\ Buying'
    BY BuyingStep DEF BuyInv
  <2>2. Kept(o)
    <3>1. CASE NextOrders({d \in Orders : Locked(d)})
      BY <2>1, <3>1, LockedKept
    <3>2. CASE \E c \in Clients : Consolidate(c) \/ Purchase(c) \/ Receive(c)
      BY <3>2, OfficeKeeps DEF Kept
    <3> QED
      BY <3>1, <3>2 DEF NextProcurement
  <2>3. Wanted(o) = order[o].ordered
    BY <2>1, WantedIsOrdered DEF Buying
  <2>4. Wanted(o)' = order'[o].ordered
    <3>1. AskedOK'
      BY <2>1 DEF Buying
    <3> QED
      BY <3>1 DEF AskedOK, Wanted
  <2> QED
    BY <2>2, <2>3, <2>4 DEF Kept
<1> QED
  BY <1>1, BuyInvariant, PTL DEF ProcurementSpec, LockedOrdersKeep

-----------------------------------------------------------------------
(* Procurement, whatever overlaps: rows and requests are of their kinds.   *)

SheetKind ==
  [status : {"none", "reviewed", "approved", "po_generated"}, sources : SUBSET Orders,
   total : Nat, final : Nat, edition : Nat]
PoKind ==
  [status : {"none", "draft", "approved", "cancelled", "partial", "received"}, sheet : Sheets \cup {"none"},
   ordered : Nat, demand : Nat, extra : Nat, edition : Nat]
LineKind == [po : Purchases \cup {"none"}, edition : Nat]
ReceiptKind ==
  [status : {"none", "draft", "approved", "posted"}, po : Purchases \cup {"none"}, line : LineKind, accepted : Nat]

Wellformed(r) ==
  /\ r.op \in {"updateOrder", "approveOrder", "cancelOrder"} => r.order \in Orders
  /\ r.op \in {"updateOrder", "approveOrder"} => r.qty \in Nat
  /\ r.op \in {"consolidate", "rebuild"} => r.sources \in SUBSET Orders /\ r.total \in Nat
  /\ r.op \in {"rebuild", "updateItem", "approveSheet", "purchase"} => r.sheet \in Sheets
  /\ r.op = "updateItem" => r.qty \in Nat
  /\ r.op = "purchase" => r.demand \in Nat /\ r.extra \in Nat
  /\ r.op \in {"updatePo", "extras", "statusPo", "readReceipts", "sync"} => r.po \in Purchases
  /\ r.op = "updatePo" => r.sheet \in Sheets \cup {"none"} /\ r.qty \in Nat
  /\ r.op = "extras" => r.ordered \in Nat /\ r.extra \in Nat
  /\ r.op = "statusPo" => r.status \in {"approved", "cancelled"}
  /\ r.op = "sync" => r.status \in {"approved", "partial", "received"}
  /\ r.op \in {"updateReceipt", "approveReceipt", "post"} => r.receipt \in Receipts
  /\ r.op \in {"updateReceipt", "post"} => r.po \in Purchases \cup {"none"}
  /\ r.op = "updateReceipt" => r.line \in LineKind /\ r.accepted \in Nat

RequestsWell == DOMAIN req = Clients /\ \A c \in Clients : Wellformed(req[c])
OfficeTyped ==
  /\ order \in [Orders -> OrderRow] /\ sheet \in [Sheets -> SheetKind]
  /\ po \in [Purchases -> PoKind] /\ receipt \in [Receipts -> ReceiptKind]
  /\ RequestsWell

LEMMA IdleWellformed == Wellformed(Idle)
BY DEF Wellformed, Idle

LEMMA WellBecomes ==
  ASSUME OfficeTyped, NEW c \in Clients, NEW r, Becomes(c, r), Wellformed(r)
  PROVE  RequestsWell'
<1>1. \A d \in Clients : req'[d] \in {r, req[d]}
  BY DEF Becomes, OfficeTyped, RequestsWell
<1>2. \A d \in Clients : Wellformed(req'[d])
  BY <1>1 DEF OfficeTyped, RequestsWell
<1>3. DOMAIN req' = Clients
  BY DEF Becomes, OfficeTyped, RequestsWell
<1> QED
  BY <1>2, <1>3 DEF RequestsWell, Wellformed

\* A request has read; a request ends.
LEMMA WellAsks ==
  ASSUME OfficeTyped, NEW c \in Clients, NEW r, Becomes(c, r), Wellformed(r), UNCHANGED <<order, sheet, po, receipt>>
  PROVE  OfficeTyped'
BY WellBecomes DEF OfficeTyped

LEMMA WellEnds ==
  ASSUME OfficeTyped, NEW c \in Clients, Becomes(c, Idle)
  PROVE  RequestsWell'
BY IdleWellformed, WellBecomes

-----------------------------------------------------------------------
\* Orders.

LEMMA OrderAsksWell ==
  ASSUME OfficeTyped, UNCHANGED <<sheet, po, receipt>>, NEW c \in Clients, NEW o \in Orders, NEW role, NEW force, NEW locked,
         \/ \E q \in Nat : UpdateOrder(c, o, role, force, locked, q)
         \/ ApproveOrder(c, o) \/ Drop(c, o, role, force, locked)
  PROVE  OfficeTyped'
<1>1. order[o].ordered \in Nat
  BY DEF OfficeTyped, OrderRow
<1>2. ASSUME NEW q \in Nat, UpdateOrder(c, o, role, force, locked, q) PROVE OfficeTyped'
  <2>1. PICK r : r = [op |-> "updateOrder", order |-> o, status |-> order[o].status, qty |-> q, force |-> force]
    OBVIOUS
  <2>2. Becomes(c, r) /\ order' = order
    BY <1>2, <2>1 DEF UpdateOrder, Begin
  <2>3. Wellformed(r)
    BY <2>1 DEF Wellformed
  <2> QED
    BY <2>2, <2>3, WellAsks
<1>3. CASE ApproveOrder(c, o)
  <2>1. PICK r : r = [op |-> "approveOrder", order |-> o, edition |-> order[o].edition, qty |-> order[o].ordered]
    OBVIOUS
  <2>2. Becomes(c, r) /\ order' = order
    BY <1>3, <2>1 DEF ApproveOrder, Begin
  <2>3. Wellformed(r)
    BY <1>1, <2>1 DEF Wellformed
  <2> QED
    BY <2>2, <2>3, WellAsks
<1>4. CASE Drop(c, o, role, force, locked)
  <2>1. PICK r : r = [op |-> "cancelOrder", order |-> o, force |-> force]
    OBVIOUS
  <2>2. Becomes(c, r) /\ order' = order
    BY <1>4, <2>1 DEF Drop, Begin
  <2>3. Wellformed(r)
    BY <2>1 DEF Wellformed
  <2> QED
    BY <2>2, <2>3, WellAsks
<1> QED
  BY <1>2, <1>3, <1>4

LEMMA OrderCommitsWell ==
  ASSUME OfficeTyped, UNCHANGED <<sheet, po, receipt>>, NEW c \in Clients,
         CommitUpdateOrder(c) \/ CommitApproveOrder(c) \/ CommitCancelOrder(c)
  PROVE  OfficeTyped'
<1>1. RequestsWell' /\ Wellformed(req[c]) /\ order \in [Orders -> OrderRow]
  BY WellEnds DEF CommitUpdateOrder, CommitApproveOrder, CommitCancelOrder, OfficeTyped, RequestsWell
<1>2. CASE CommitUpdateOrder(c)
  <2>1. req[c].order \in Orders /\ req[c].qty \in Nat
    BY <1>1, <1>2 DEF CommitUpdateOrder, Wellformed
  <2>2. PICK n \in Nat : n = IF req[c].status = "approved" THEN req[c].qty ELSE 0
    BY <2>1
  <2>3. order' = [order EXCEPT ![req[c].order].ordered = req[c].qty, ![req[c].order].approved = n,
                               ![req[c].order].edition = @ + 1]
    BY <1>2, <2>2 DEF CommitUpdateOrder
  <2>4. order' \in [Orders -> OrderRow]
    BY <1>1, <2>1, <2>2, <2>3 DEF OrderRow
  <2> QED
    BY <1>1, <2>4 DEF OfficeTyped
<1>3. CASE CommitApproveOrder(c)
  <2>1. req[c].order \in Orders /\ req[c].qty \in Nat
    BY <1>1, <1>3 DEF CommitApproveOrder, Wellformed
  <2>2. [order EXCEPT ![req[c].order].status = "approved", ![req[c].order].approved = req[c].qty] \in [Orders -> OrderRow]
    BY <1>1, <2>1 DEF OrderRow, OrderStatus
  <2>3. order' \in [Orders -> OrderRow]
    BY <1>1, <1>3, <2>2 DEF CommitApproveOrder
  <2> QED
    BY <1>1, <2>3 DEF OfficeTyped
<1>4. CASE CommitCancelOrder(c)
  <2>1. req[c].order \in Orders
    BY <1>1, <1>4 DEF CommitCancelOrder, Wellformed
  <2>2. order' \in [Orders -> OrderRow]
    BY <1>1, <1>4, <2>1 DEF CommitCancelOrder, OrderRow, OrderStatus
  <2> QED
    BY <1>1, <2>2 DEF OfficeTyped
<1> QED
  BY <1>2, <1>3, <1>4

LEMMA OrderComesWell ==
  ASSUME OfficeTyped, UNCHANGED <<sheet, po, receipt>>, NEW c \in Clients, NEW o \in Orders, NEW q \in Nat, CreateOrder(c, o, q)
  PROVE  OfficeTyped'
<1>1. order' = [order EXCEPT ![o].status = "pending", ![o].ordered = q] /\ req' = req
  BY DEF CreateOrder
<1>2. order' \in [Orders -> OrderRow]
  BY <1>1 DEF OfficeTyped, OrderRow, OrderStatus
<1> QED
  BY <1>1, <1>2 DEF OfficeTyped, RequestsWell

LEMMA OrdersWell ==
  ASSUME OfficeTyped, NEW lock, NextOrders(lock), UNCHANGED <<sheet, po, receipt>>
  PROVE  OfficeTyped'
<1>1. Quantities \subseteq Nat /\ \A o \in Orders : order[o].ordered \in Nat
  BY SalesOrdersAssumption DEF OfficeTyped, OrderRow
<1>2. ASSUME NEW c \in Clients, NEW o \in Orders, NEW p \in Orders, DuplicateOrder(c, o, p) PROVE OfficeTyped'
  BY <1>1, <1>2, OrderComesWell DEF DuplicateOrder
<1>3. ASSUME NEW c \in Clients, NEW o \in Orders, NEW q \in Quantities, CreateOrder(c, o, q) PROVE OfficeTyped'
  BY <1>1, <1>3, OrderComesWell
<1>4. ASSUME NEW c \in Clients, NEW o \in Orders, NEW role, NEW force, NEW locked, NEW q \in Quantities,
             UpdateOrder(c, o, role, force, locked, q) PROVE OfficeTyped'
  BY <1>1, <1>4, OrderAsksWell
<1>5. ASSUME NEW c \in Clients, NEW o \in Orders, NEW role, NEW force, NEW locked,
             Drop(c, o, role, force, locked) \/ ApproveOrder(c, o) PROVE OfficeTyped'
  BY <1>5, OrderAsksWell
<1>6. ASSUME NEW c \in Clients, NEW o \in Orders, NEW role, NEW locked, RecalculateOrder(c, o, role, locked) PROVE OfficeTyped'
  BY <1>1, <1>6, OrderAsksWell DEF RecalculateOrder
<1> QED
  BY <1>2, <1>3, <1>4, <1>5, <1>6, OrderCommitsWell DEF NextOrders, CancelOrder, RemoveOrder, RejectOrder

-----------------------------------------------------------------------
\* Consolidations.

LEMMA DemandIsWell ==
  ASSUME OfficeTyped, NEW os \in SUBSET Orders
  PROVE  Demand(os) \in Nat
<1>1. PICK f : f = [o \in Orders |-> Wanted(o)]
  OBVIOUS
<1>2. \A o \in os : f[o] \in Nat
  BY <1>1 DEF OfficeTyped, OrderRow, Wanted
<1>3. IsFiniteSet(os)
  BY ProcurementAssumption, FS_Subset
<1>4. FoldFunctionOnSet(+, 0, f, os) \in Nat
  BY <1>2, <1>3, SumIsTotal, TotalNat
<1> QED
  BY <1>1, <1>4 DEF Demand

LEMMA SheetAsksWell ==
  ASSUME OfficeTyped, NEW c \in Clients,
         \/ \E statuses : CreateConsolidation(c, statuses)
         \/ \E s \in Sheets :
              Rebuild(c, s) \/ ApproveConsolidation(c, s) \/ \E q \in Nat, given \in BOOLEAN : UpdateItem(c, s, q, given)
  PROVE  OfficeTyped'
<1>1. \A statuses : Eligible(statuses) \in SUBSET Orders
  BY DEF Eligible
<1>2. ASSUME NEW r, Asks(c, r), Wellformed(r) PROVE OfficeTyped'
  BY <1>2, WellAsks DEF Asks
<1>3. ASSUME NEW statuses, CreateConsolidation(c, statuses) PROVE OfficeTyped'
  <2>1. PICK os : os = Eligible(statuses)
    OBVIOUS
  <2>2. PICK n : n = Demand(os)
    OBVIOUS
  <2>3. PICK r : r = [op |-> "consolidate", sources |-> os, total |-> n]
    OBVIOUS
  <2>4. os \in SUBSET Orders /\ n \in Nat
    BY <1>1, <2>1, <2>2, DemandIsWell
  <2>5. Wellformed(r)
    BY <2>3, <2>4 DEF Wellformed
  <2>6. Asks(c, r)
    BY <1>3, <2>1, <2>2, <2>3 DEF CreateConsolidation
  <2> QED
    BY <1>2, <2>5, <2>6
<1>4. ASSUME NEW s \in Sheets, Rebuild(c, s) PROVE OfficeTyped'
  <2>1. PICK os : os = Eligible({"approved"})
    OBVIOUS
  <2>2. PICK n : n = Demand(os)
    OBVIOUS
  <2>3. PICK r : r = [op |-> "rebuild", sheet |-> s, sources |-> os, total |-> n]
    OBVIOUS
  <2>4. os \in SUBSET Orders /\ n \in Nat
    BY <1>1, <2>1, <2>2, DemandIsWell
  <2>5. Wellformed(r)
    BY <2>3, <2>4 DEF Wellformed
  <2>6. Asks(c, r)
    BY <1>4, <2>1, <2>2, <2>3 DEF Rebuild
  <2> QED
    BY <1>2, <2>5, <2>6
<1>5. ASSUME NEW s \in Sheets, ApproveConsolidation(c, s) PROVE OfficeTyped'
  <2>1. PICK r : r = [op |-> "approveSheet", sheet |-> s]
    OBVIOUS
  <2>2. Wellformed(r)
    BY <2>1 DEF Wellformed
  <2> QED
    BY <1>2, <1>5, <2>1, <2>2 DEF ApproveConsolidation
<1>6. ASSUME NEW s \in Sheets, NEW q \in Nat, NEW given \in BOOLEAN, UpdateItem(c, s, q, given) PROVE OfficeTyped'
  <2>1. PICK n : n = IF given THEN q ELSE sheet[s].total + q
    OBVIOUS
  <2>2. n \in Nat
    BY <2>1 DEF OfficeTyped, SheetKind
  <2>3. PICK r : r = [op |-> "updateItem", sheet |-> s, edition |-> sheet[s].edition, qty |-> n]
    OBVIOUS
  <2>4. Wellformed(r)
    BY <2>2, <2>3 DEF Wellformed
  <2> QED
    BY <1>2, <1>6, <2>1, <2>3, <2>4 DEF UpdateItem
<1> QED
  BY <1>3, <1>4, <1>5, <1>6

LEMMA SheetCommitsWell ==
  ASSUME OfficeTyped, NEW c \in Clients,
         CommitConsolidation(c) \/ CommitRebuild(c) \/ CommitItem(c) \/ CommitApproveConsolidation(c)
  PROVE  OfficeTyped'
<1>1. /\ RequestsWell' /\ Wellformed(req[c]) /\ sheet \in [Sheets -> SheetKind]
      /\ UNCHANGED <<order, po, receipt>>
  BY WellEnds DEF CommitConsolidation, CommitRebuild, CommitItem, CommitApproveConsolidation, Finishes, OfficeTyped, RequestsWell
<1>2. CASE CommitConsolidation(c)
  <2>1. req[c].sources \in SUBSET Orders /\ req[c].total \in Nat
    BY <1>1, <1>2 DEF CommitConsolidation, Wellformed
  <2>2. sheet' \in [Sheets -> SheetKind]
    BY <1>1, <1>2, <2>1 DEF CommitConsolidation, SheetKind
  <2> QED
    BY <1>1, <2>2 DEF OfficeTyped
<1>3. CASE CommitRebuild(c)
  <2>1. req[c].sources \in SUBSET Orders /\ req[c].total \in Nat /\ req[c].sheet \in Sheets
    BY <1>1, <1>3 DEF CommitRebuild, Wellformed
  <2>2. sheet' \in [Sheets -> SheetKind]
    BY <1>1, <1>3, <2>1 DEF CommitRebuild, SheetKind
  <2> QED
    BY <1>1, <2>2 DEF OfficeTyped
<1>4. CASE CommitItem(c)
  <2>1. req[c].qty \in Nat /\ req[c].sheet \in Sheets
    BY <1>1, <1>4 DEF CommitItem, Wellformed
  <2>2. sheet' \in [Sheets -> SheetKind]
    BY <1>1, <1>4, <2>1 DEF CommitItem, SheetKind
  <2> QED
    BY <1>1, <2>2 DEF OfficeTyped
<1>5. CASE CommitApproveConsolidation(c)
  <2>1. req[c].sheet \in Sheets
    BY <1>1, <1>5 DEF CommitApproveConsolidation, Wellformed
  <2>2. sheet' \in [Sheets -> SheetKind]
    BY <1>1, <1>5, <2>1 DEF CommitApproveConsolidation, SheetKind
  <2> QED
    BY <1>1, <2>2 DEF OfficeTyped
<1> QED
  BY <1>2, <1>3, <1>4, <1>5

-----------------------------------------------------------------------
\* Purchase orders.

LEMMA PurchaseAsksWell ==
  ASSUME OfficeTyped, NEW c \in Clients, NEW e \in Nat, NEW s \in Sheets \cup {"none"}, NEW p \in Purchases,
         UpdatePurchase(c, p, s, e) \/ UpdateDemandExtras(c, p, e) \/ ApprovePurchase(c, p) \/ CancelPurchase(c, p)
  PROVE  OfficeTyped'
<1>1. po[p].demand \in Nat
  BY DEF OfficeTyped, PoKind
<1>2. ASSUME NEW r, Asks(c, r), Wellformed(r) PROVE OfficeTyped'
  BY <1>2, WellAsks DEF Asks
<1>3. CASE UpdatePurchase(c, p, s, e)
  <2>1. PICK r : r = [op |-> "updatePo", po |-> p, sheet |-> s, qty |-> e]
    OBVIOUS
  <2>2. Wellformed(r)
    BY <2>1 DEF Wellformed
  <2> QED
    BY <1>2, <1>3, <2>1, <2>2 DEF UpdatePurchase
<1>4. CASE UpdateDemandExtras(c, p, e)
  <2>1. PICK n \in Nat : n = po[p].demand + e
    BY <1>1
  <2>2. PICK r : r = [op |-> "extras", po |-> p, ordered |-> n, extra |-> e]
    OBVIOUS
  <2>3. Wellformed(r)
    BY <2>2 DEF Wellformed
  <2> QED
    BY <1>2, <1>4, <2>1, <2>2, <2>3 DEF UpdateDemandExtras
<1>5. ASSUME NEW st \in {"approved", "cancelled"}, Asks(c, [op |-> "statusPo", po |-> p, status |-> st]) PROVE OfficeTyped'
  <2>1. PICK r : r = [op |-> "statusPo", po |-> p, status |-> st]
    OBVIOUS
  <2>2. Wellformed(r)
    BY <2>1 DEF Wellformed
  <2> QED
    BY <1>2, <1>5, <2>1, <2>2
<1> QED
  BY <1>3, <1>4, <1>5 DEF ApprovePurchase, CancelPurchase

LEMMA DemandAsksWell ==
  ASSUME OfficeTyped, NEW c \in Clients, NEW e \in Nat, NEW s \in Sheets, CreateFromDemand(c, s, e)
  PROVE  OfficeTyped'
<1>1. PICK d \in Nat : d = sheet[s].final
  BY DEF OfficeTyped, SheetKind
<1>2. PICK r : r = [op |-> "purchase", sheet |-> s, demand |-> d, extra |-> e]
  OBVIOUS
<1>3. Wellformed(r)
  BY <1>2 DEF Wellformed
<1>4. Becomes(c, r) /\ UNCHANGED <<order, sheet, po, receipt>>
  BY <1>1, <1>2 DEF CreateFromDemand, Asks
<1> QED
  BY <1>3, <1>4, WellAsks

LEMMA PurchaseComesWell ==
  ASSUME OfficeTyped, NEW c \in Clients, NEW q \in Nat, NEW s \in Sheets \cup {"none"}, NEW p \in Purchases,
         CreatePurchase(c, p, s, q)
  PROVE  OfficeTyped'
<1>1. PICK v : v = [NoPurchase EXCEPT !.status = "draft", !.sheet = s, !.ordered = q]
  OBVIOUS
<1>2. po' = [po EXCEPT ![p] = v] /\ UNCHANGED <<order, req, sheet, receipt>>
  BY <1>1 DEF CreatePurchase
<1>3. v \in PoKind
  BY <1>1 DEF NoPurchase, PoKind
<1> QED
  BY <1>2, <1>3 DEF OfficeTyped, RequestsWell

LEMMA PurchaseCommitsWell ==
  ASSUME OfficeTyped, NEW c \in Clients,
         CommitFromDemand(c) \/ CommitUpdatePurchase(c) \/ CommitExtras(c) \/ CommitStatus(c)
  PROVE  OfficeTyped'
<1>1. /\ RequestsWell' /\ Wellformed(req[c]) /\ po \in [Purchases -> PoKind] /\ sheet \in [Sheets -> SheetKind]
      /\ UNCHANGED <<order, receipt>>
  BY WellEnds DEF CommitFromDemand, CommitUpdatePurchase, CommitExtras, CommitStatus, Finishes, OfficeTyped, RequestsWell
<1>2. CASE CommitFromDemand(c)
  <2>1. req[c].sheet \in Sheets /\ req[c].demand \in Nat /\ req[c].extra \in Nat
    BY <1>1, <1>2 DEF CommitFromDemand, Wellformed
  <2>2. PICK v : v = [status |-> "draft", sheet |-> req[c].sheet, ordered |-> req[c].demand + req[c].extra,
                      demand |-> req[c].demand, extra |-> req[c].extra, edition |-> 0]
    OBVIOUS
  <2>3. v \in PoKind
    BY <2>1, <2>2 DEF PoKind
  <2>4. po' \in [Purchases -> PoKind]
    BY <1>1, <1>2, <2>2, <2>3 DEF CommitFromDemand
  <2>5. sheet' \in [Sheets -> SheetKind]
    BY <1>1, <1>2, <2>1 DEF CommitFromDemand, SheetKind
  <2> QED
    BY <1>1, <2>4, <2>5 DEF OfficeTyped
<1>3. CASE CommitUpdatePurchase(c)
  <2>1. req[c].po \in Purchases /\ req[c].sheet \in Sheets \cup {"none"} /\ req[c].qty \in Nat
    BY <1>1, <1>3 DEF CommitUpdatePurchase, Wellformed
  <2>2. PICK v : v = po[req[c].po]
    OBVIOUS
  <2>3. v \in PoKind
    BY <1>1, <2>1, <2>2
  <2>4. PICK w : w = IF req[c].qty = 0 THEN [v EXCEPT !.sheet = req[c].sheet]
                     ELSE [v EXCEPT !.sheet = req[c].sheet, !.ordered = req[c].qty, !.demand = 0, !.extra = 0,
                                    !.edition = v.edition + 1]
    OBVIOUS
  <2>5. w \in PoKind
    <3>1. PICK w1 : w1 = [v EXCEPT !.sheet = req[c].sheet]
      OBVIOUS
    <3>2. PICK w2 : w2 = [w1 EXCEPT !.ordered = req[c].qty, !.demand = 0]
      OBVIOUS
    <3>3. w1 \in PoKind
      BY <2>1, <2>3, <3>1 DEF PoKind
    <3>4. w2 \in PoKind
      BY <2>1, <3>2, <3>3 DEF PoKind
    <3>5. v.edition + 1 \in Nat
      BY <2>3 DEF PoKind
    <3>6. [w2 EXCEPT !.extra = 0, !.edition = v.edition + 1] \in PoKind
      BY <3>4, <3>5 DEF PoKind
    <3>7. w \in {w1, [w2 EXCEPT !.extra = 0, !.edition = v.edition + 1]}
      BY <2>4, <3>1, <3>2
    <3> QED
      BY <3>3, <3>6, <3>7
  <2>6. po' = [po EXCEPT ![req[c].po] = w]
    BY <1>1, <1>3, <2>1, <2>2, <2>4 DEF CommitUpdatePurchase
  <2> QED
    BY <1>1, <1>3, <2>1, <2>5, <2>6 DEF OfficeTyped, CommitUpdatePurchase
<1>4. CASE CommitExtras(c)
  <2>1. req[c].po \in Purchases /\ req[c].ordered \in Nat /\ req[c].extra \in Nat
    BY <1>1, <1>4 DEF CommitExtras, Wellformed
  <2>2. PICK v, w : v = po[req[c].po] /\ w = [v EXCEPT !.ordered = req[c].ordered, !.extra = req[c].extra]
    OBVIOUS
  <2>3. w \in PoKind
    BY <1>1, <2>1, <2>2 DEF PoKind
  <2>4. po' = [po EXCEPT ![req[c].po] = w]
    BY <1>1, <1>4, <2>1, <2>2 DEF CommitExtras
  <2> QED
    BY <1>1, <1>4, <2>1, <2>3, <2>4 DEF OfficeTyped, CommitExtras
<1>5. CASE CommitStatus(c)
  <2>1. req[c].po \in Purchases /\ req[c].status \in {"approved", "cancelled", "partial", "received"}
    BY <1>1, <1>5 DEF CommitStatus, Wellformed
  <2>2. po' \in [Purchases -> PoKind]
    BY <1>1, <1>5, <2>1 DEF CommitStatus, PoKind
  <2> QED
    BY <1>1, <1>5, <2>2 DEF OfficeTyped, CommitStatus
<1> QED
  BY <1>2, <1>3, <1>4, <1>5

-----------------------------------------------------------------------
\* Goods receipts.

LEMMA LineWell ==
  ASSUME OfficeTyped, NEW p \in Purchases \cup {"none"}
  PROVE  LineOf(p) \in LineKind
BY DEF LineOf, NoLine, LineKind, OfficeTyped, PoKind

LEMMA ReceiptAsksWell ==
  ASSUME OfficeTyped, NEW c \in Clients, NEW g \in Receipts, NEW p \in Purchases \cup {"none"}, NEW a \in Nat, NEW items \in BOOLEAN,
         UpdateReceipt(c, g, p, a, items) \/ ApproveReceipt(c, g) \/ PostReceipt(c, g)
  PROVE  OfficeTyped'
<1>1. receipt[g] \in ReceiptKind
  BY DEF OfficeTyped
<1>2. ASSUME NEW r, Asks(c, r), Wellformed(r) PROVE OfficeTyped'
  BY <1>2, WellAsks DEF Asks
<1>3. CASE UpdateReceipt(c, g, p, a, items)
  <2>1. PICK l, n : /\ l = IF items THEN LineOf(p) ELSE receipt[g].line
                    /\ n = IF items THEN a ELSE receipt[g].accepted
    OBVIOUS
  <2>2. l \in LineKind /\ n \in Nat
    BY <1>1, <2>1, LineWell DEF ReceiptKind
  <2>3. PICK r : r = [op |-> "updateReceipt", receipt |-> g, po |-> p, line |-> l, accepted |-> n]
    OBVIOUS
  <2>4. Wellformed(r)
    BY <2>2, <2>3 DEF Wellformed
  <2> QED
    BY <1>2, <1>3, <2>1, <2>3, <2>4 DEF UpdateReceipt
<1>4. CASE ApproveReceipt(c, g)
  <2>1. PICK r : r = [op |-> "approveReceipt", receipt |-> g]
    OBVIOUS
  <2>2. Wellformed(r)
    BY <2>1 DEF Wellformed
  <2> QED
    BY <1>2, <1>4, <2>1, <2>2 DEF ApproveReceipt
<1>5. CASE PostReceipt(c, g)
  <2>1. PICK q \in Purchases \cup {"none"} : q = receipt[g].po
    BY <1>1 DEF ReceiptKind
  <2>2. PICK r : r = [op |-> "post", receipt |-> g, po |-> q]
    OBVIOUS
  <2>3. Wellformed(r)
    BY <2>2 DEF Wellformed
  <2> QED
    BY <1>2, <1>5, <2>1, <2>2, <2>3 DEF PostReceipt
<1> QED
  BY <1>3, <1>4, <1>5

LEMMA ReceiptComesWell ==
  ASSUME OfficeTyped, NEW c \in Clients, NEW g \in Receipts, NEW p \in Purchases \cup {"none"}, NEW a \in Nat,
         CreateReceipt(c, g, p, a)
  PROVE  OfficeTyped'
<1>1. PICK v : v = [status |-> "draft", po |-> p, line |-> LineOf(p), accepted |-> a]
  OBVIOUS
<1>2. receipt' = [receipt EXCEPT ![g] = v] /\ UNCHANGED <<order, req, sheet, po>>
  BY <1>1 DEF CreateReceipt
<1>3. v \in ReceiptKind
  BY <1>1, LineWell DEF ReceiptKind
<1> QED
  BY <1>2, <1>3 DEF OfficeTyped, RequestsWell

LEMMA ReceivedStatusWell == ASSUME NEW p PROVE ReceivedStatus(p) \in {"approved", "partial", "received"}
BY DEF ReceivedStatus

LEMMA ReceiptCommitsWell ==
  ASSUME OfficeTyped, NEW c \in Clients,
         \/ CommitReceipt(c) \/ CommitApproveReceipt(c) \/ CommitReceiptPosting(c)
         \/ ReadReceipts(c) \/ DieAfterPosting(c)
  PROVE  OfficeTyped'
<1>1. Wellformed(req[c]) /\ receipt \in [Receipts -> ReceiptKind]
  BY DEF OfficeTyped, RequestsWell
<1>2. CASE CommitReceipt(c)
  <2>1. /\ req[c].receipt \in Receipts /\ req[c].po \in Purchases \cup {"none"}
        /\ req[c].line \in LineKind /\ req[c].accepted \in Nat
    BY <1>1, <1>2 DEF CommitReceipt, Wellformed
  <2>2. PICK v : v = receipt[req[c].receipt]
    OBVIOUS
  <2>3. PICK w : w = [v EXCEPT !.po = req[c].po, !.line = req[c].line, !.accepted = req[c].accepted]
    OBVIOUS
  <2>4. w \in ReceiptKind
    BY <1>1, <2>1, <2>2, <2>3 DEF ReceiptKind
  <2>5. receipt' = [receipt EXCEPT ![req[c].receipt] = w]
    BY <1>1, <1>2, <2>1, <2>2, <2>3 DEF CommitReceipt
  <2> QED
    BY <1>1, <1>2, <2>4, <2>5, WellEnds DEF OfficeTyped, CommitReceipt, Finishes
<1>3. CASE CommitApproveReceipt(c)
  <2>1. req[c].receipt \in Receipts
    BY <1>1, <1>3 DEF CommitApproveReceipt, Wellformed
  <2>2. receipt' \in [Receipts -> ReceiptKind]
    BY <1>1, <1>3, <2>1 DEF CommitApproveReceipt, ReceiptKind
  <2> QED
    BY <1>3, <2>2, WellEnds DEF OfficeTyped, CommitApproveReceipt, Finishes
<1>4. CASE CommitReceiptPosting(c)
  <2>1. req[c].receipt \in Receipts /\ req[c].po \in Purchases \cup {"none"}
    BY <1>1, <1>4 DEF CommitReceiptPosting, Wellformed
  <2>2. receipt' \in [Receipts -> ReceiptKind]
    BY <1>1, <1>4, <2>1 DEF CommitReceiptPosting, ReceiptKind
  <2>3. RequestsWell'
    <3>1. CASE req[c].po = "none"
      BY <1>4, <3>1, WellEnds DEF CommitReceiptPosting, Finishes
    <3>2. CASE req[c].po # "none"
      <4>1. PICK r : r = [op |-> "readReceipts", po |-> req[c].po]
        OBVIOUS
      <4>2. Wellformed(r)
        BY <2>1, <3>2, <4>1 DEF Wellformed
      <4> QED
        BY <1>4, <3>2, <4>1, <4>2, WellBecomes DEF CommitReceiptPosting
    <3> QED
      BY <3>1, <3>2
  <2> QED
    BY <1>4, <2>2, <2>3 DEF OfficeTyped, CommitReceiptPosting
<1>5. CASE ReadReceipts(c)
  <2>1. req[c].po \in Purchases
    BY <1>1, <1>5 DEF ReadReceipts, Wellformed
  <2>2. PICK st \in {"approved", "partial", "received"} : st = ReceivedStatus(req[c].po)
    BY ReceivedStatusWell
  <2>3. PICK r : r = [op |-> "sync", po |-> req[c].po, status |-> st]
    OBVIOUS
  <2>4. Wellformed(r)
    BY <2>1, <2>3 DEF Wellformed
  <2> QED
    BY <1>5, <2>2, <2>3, <2>4, WellAsks DEF ReadReceipts
<1>6. CASE DieAfterPosting(c)
  BY <1>6, WellEnds DEF DieAfterPosting, Finishes, OfficeTyped
<1> QED
  BY <1>2, <1>3, <1>4, <1>5, <1>6

-----------------------------------------------------------------------
LEMMA OfficeInit == InitProcurement => OfficeTyped
BY IdleWellformed DEF InitProcurement, InitOrders, OfficeTyped, RequestsWell, OrderRow, OrderStatus, SheetKind, PoKind,
   NoPurchase, ReceiptKind, LineKind, NoLine

LEMMA OfficeStep == OfficeTyped /\ [NextProcurement]_procurement => OfficeTyped'
<1> SUFFICES ASSUME OfficeTyped, [NextProcurement]_procurement PROVE OfficeTyped'
  OBVIOUS
<1>1. Quantities \subseteq Nat /\ Quantities \cup {0} \subseteq Nat
  BY SalesOrdersAssumption
<1>2. CASE NextOrders({o \in Orders : Locked(o)}) /\ UNCHANGED <<sheet, po, receipt, unsynced>>
  BY <1>2, OrdersWell
<1>3. ASSUME NEW c \in Clients, Consolidate(c) PROVE OfficeTyped'
  BY <1>1, <1>3, SheetAsksWell, SheetCommitsWell DEF Consolidate
<1>4. ASSUME NEW c \in Clients, Purchase(c) PROVE OfficeTyped'
  BY <1>1, <1>4, DemandAsksWell, PurchaseAsksWell, PurchaseComesWell, PurchaseCommitsWell DEF Purchase
<1>5. ASSUME NEW c \in Clients, Receive(c) PROVE OfficeTyped'
  BY <1>1, <1>5, ReceiptAsksWell, ReceiptComesWell, ReceiptCommitsWell DEF Receive
<1>6. CASE UNCHANGED procurement
  BY <1>6 DEF procurement, OfficeTyped, RequestsWell
<1> QED
  BY <1>2, <1>3, <1>4, <1>5, <1>6 DEF NextProcurement

-----------------------------------------------------------------------
(* Procurement: what a posting says of its purchase order is so, however  *)
(* postings overlap with one another.                                     *)

\* What the posted receipts v have brought in for the item l.
Fill(v, l) == {g \in Receipts : v[g].status = "posted" /\ v[g].line = l}
AcceptedOf(v, l) == FoldFunctionOnSet(+, 0, [g \in Receipts |-> v[g].accepted], Fill(v, l))

\* The item that a purchase order has now, of the purchase orders b.
LineAt(b, p) == [po |-> p, edition |-> b[p].edition]

\* The item that a line refers to is there, or was.
LineThere(b, l) == l.po # "none" => b[l.po].status # "none" /\ l.edition <= b[l.po].edition

\* What a request has read of purchase orders b and receipts v still holds when it
\* writes, turns being taken or not.
Status(n, m) == IF n >= m THEN "received" ELSE IF n > 0 THEN "partial" ELSE "approved"
Holds(b, v, turns, r) ==
  /\ r.op = "updateReceipt" => v[r.receipt].status = "draft" /\ LineThere(b, r.line)
  /\ r.op = "approveReceipt" => v[r.receipt].status # "posted"
  /\ r.op \in {"updatePo", "statusPo", "extras"} => b[r.po].status \in {"draft", "approved"}
  /\ r.op = "post" => v[r.receipt].po = r.po
  /\ r.op = "sync" /\ r.status = "received" => AcceptedOf(v, LineAt(b, r.po)) >= b[r.po].ordered
  /\ r.op = "sync" /\ turns = {} => r.status = Status(AcceptedOf(v, LineAt(b, r.po)), b[r.po].ordered)

\* Only postings overlap with one another.
Company ==
  \A c, d \in Clients : req[c] # Idle /\ req[d] # Idle /\ c # d =>
    ~InTurn /\ {req[c].op, req[d].op} \subseteq PostingKinds

Brought(p) == \E g \in Filling(p) : receipt[g].po = p /\ receipt[g].accepted > 0
Telling(p) == \E c \in Clients : req[c].op \in {"readReceipts", "sync"} /\ req[c].po = p
Filled == \A p \in Purchases : po[p].status = "received" => Accepted(p) >= po[p].ordered
Told ==
  InTurn => \A p \in Purchases :
    Brought(p) => p \in unsynced \/ Telling(p) \/ po[p].status \in {"partial", "received"}

PostInv ==
  /\ OfficeTyped /\ Company
  /\ \A g \in Receipts : LineThere(po, receipt[g].line)
  /\ \A c \in Clients : Holds(po, receipt, overlap, req[c])
  /\ Filled /\ Told
PostingInv == OfficeTyped /\ (overlap \subseteq PostingKinds => PostInv)

LEMMA AcceptedIs ==
  /\ \A p : Accepted(p) = AcceptedOf(receipt, LineOf(p))
  /\ \A p : Accepted(p)' = AcceptedOf(receipt', LineOf(p)')
<1>1. \A p : Accepted(p) = AcceptedOf(receipt, LineOf(p))
  BY DEF Accepted, AcceptedOf, Filling, Fill
<1>2. (\A p : Accepted(p) = AcceptedOf(receipt, LineOf(p)))'
  BY <1>1, PTL
<1> QED
  BY <1>1, <1>2

LEMMA AcceptedTotal ==
  ASSUME NEW v \in [Receipts -> ReceiptKind], NEW l
  PROVE  /\ IsFiniteSet(Fill(v, l)) /\ AcceptedOf(v, l) \in Nat
         /\ AcceptedOf(v, l) = Total([g \in Receipts |-> v[g].accepted], Fill(v, l))
<1>1. PICK f : f = [g \in Receipts |-> v[g].accepted]
  OBVIOUS
<1>2. IsFiniteSet(Fill(v, l))
  BY ProcurementAssumption, FS_Subset DEF Fill
<1>3. \A g \in Fill(v, l) : f[g] \in Nat
  BY <1>1 DEF Fill, ReceiptKind
<1>4. FoldFunctionOnSet(+, 0, f, Fill(v, l)) = Total(f, Fill(v, l)) /\ Total(f, Fill(v, l)) \in Nat
  BY <1>2, <1>3, SumIsTotal, TotalNat
<1> QED
  BY <1>1, <1>2, <1>4 DEF AcceptedOf

\* Receipts that are posted stay as they are: what they brought in is still there.
LEMMA AcceptedGrows ==
  ASSUME NEW v \in [Receipts -> ReceiptKind], NEW w \in [Receipts -> ReceiptKind], NEW l,
         \A g \in Receipts : v[g].status = "posted" => w[g] = v[g]
  PROVE  AcceptedOf(v, l) <= AcceptedOf(w, l)
<1>1. PICK S, T : S = Fill(w, l) /\ T = Fill(v, l)
  OBVIOUS
<1>2. PICK f, h : f = [g \in Receipts |-> v[g].accepted] /\ h = [g \in Receipts |-> w[g].accepted]
  OBVIOUS
<1>3. /\ T \subseteq S /\ \A g \in T : f[g] = h[g]
      /\ \A g \in S : h[g] \in Nat
  BY <1>1, <1>2 DEF Fill, ReceiptKind
<1>4. IsFiniteSet(S) /\ AcceptedOf(v, l) = Total(f, T) /\ AcceptedOf(w, l) = Total(h, S)
  BY <1>1, <1>2, AcceptedTotal
<1>5. Total(f, T) = Total(h, T)
  BY <1>3, TotalSame
<1>6. Total(h, S) \in Nat
  BY <1>3, <1>4, TotalNat
<1>7. CASE T = S
  BY <1>4, <1>5, <1>6, <1>7
<1>8. ASSUME NEW g \in S \ T PROVE AcceptedOf(v, l) <= AcceptedOf(w, l)
  <2>1. Total(h, T) \in Nat /\ Total(h, T) + h[g] <= Total(h, S)
    BY <1>3, <1>4, TotalGrows
  <2>2. h[g] \in Nat
    BY <1>3
  <2> QED
    BY <1>4, <1>5, <1>6, <2>1, <2>2
<1> QED
  BY <1>3, <1>7, <1>8

\* A posted receipt with something in it counts.
LEMMA AcceptedCounts ==
  ASSUME OfficeTyped, NEW p, Brought(p)
  PROVE  Accepted(p) > 0
<1>1. PICK g \in Receipts : receipt[g].status = "posted" /\ receipt[g].line = LineOf(p) /\ receipt[g].accepted > 0
  BY DEF Brought, Filling
<1>2. PICK S, f : S = Fill(receipt, LineOf(p)) /\ f = [h \in Receipts |-> receipt[h].accepted]
  OBVIOUS
<1>3. receipt \in [Receipts -> ReceiptKind]
  BY DEF OfficeTyped
<1>4. IsFiniteSet(S) /\ Accepted(p) = Total(f, S) /\ Accepted(p) \in Nat
  BY <1>2, <1>3, AcceptedIs, AcceptedTotal
<1>5. g \in S /\ \A h \in S : f[h] \in Nat
  BY <1>1, <1>2, <1>3 DEF Fill, ReceiptKind
<1>6. f[g] <= Total(f, S)
  BY <1>4, <1>5, TotalBounds
<1>7. f[g] \in Nat /\ f[g] > 0
  BY <1>1, <1>2, <1>5
<1> QED
  BY <1>4, <1>6, <1>7

\* A step that leaves posted receipts and the item of a purchase order alone.
PostedStay == \A g \in Receipts : receipt[g].status = "posted" => receipt'[g] = receipt[g]
PostedBefore == \A g \in Receipts : receipt'[g].status = "posted" => receipt'[g] = receipt[g]

LEMMA AcceptedKept ==
  ASSUME OfficeTyped, OfficeTyped', PostedStay, NEW p \in Purchases, po'[p].edition = po[p].edition
  PROVE  /\ Accepted(p) \in Nat /\ Accepted(p)' \in Nat /\ Accepted(p) <= Accepted(p)'
         /\ LineOf(p)' = LineOf(p)
<1>1. LineOf(p)' = LineOf(p)
  BY DEF LineOf, NoLine
<1>2. receipt \in [Receipts -> ReceiptKind] /\ receipt' \in [Receipts -> ReceiptKind]
  BY DEF OfficeTyped
<1>3. Accepted(p) = AcceptedOf(receipt, LineOf(p)) /\ Accepted(p)' = AcceptedOf(receipt', LineOf(p))
  BY <1>1, AcceptedIs
<1>4. AcceptedOf(receipt, LineOf(p)) <= AcceptedOf(receipt', LineOf(p))
  BY <1>2, AcceptedGrows DEF PostedStay
<1> QED
  BY <1>1, <1>2, <1>3, <1>4, AcceptedTotal

LEMMA BroughtKept ==
  ASSUME PostedBefore, NEW p \in Purchases, po'[p].edition = po[p].edition, Brought(p)'
  PROVE  Brought(p)
<1>1. LineOf(p)' = LineOf(p)
  BY DEF LineOf, NoLine
<1>2. PICK g \in Receipts : /\ receipt'[g].status = "posted" /\ receipt'[g].line = LineOf(p)
                            /\ receipt'[g].po = p /\ receipt'[g].accepted > 0
  BY <1>1 DEF Brought, Filling
<1>3. receipt'[g] = receipt[g]
  BY <1>2 DEF PostedBefore
<1> QED
  BY <1>2, <1>3 DEF Brought, Filling

LEMMA LineIs == \A p \in Purchases : LineOf(p) = LineAt(po, p)
BY ProcurementAssumption DEF LineOf, LineAt

LEMMA StatusIs ==
  ASSUME NEW p \in Purchases
  PROVE  /\ Accepted(p) = AcceptedOf(receipt, LineAt(po, p))
         /\ ReceivedStatus(p) = Status(AcceptedOf(receipt, LineAt(po, p)), po[p].ordered)
BY AcceptedIs, LineIs DEF ReceivedStatus, Status

-----------------------------------------------------------------------
\* Requests begin, move on and end.

LEMMA CompanyGoes ==
  ASSUME PostInv, NEW c \in Clients, NEW r, Becomes(c, r), UNCHANGED overlap,
         r # Idle => req[c] # Idle /\ r.op \in PostingKinds
  PROVE  Company'
<1>1. \A d \in Clients : req'[d] = IF d = c THEN r ELSE req[d]
  BY DEF Becomes, PostInv, OfficeTyped, RequestsWell
<1> QED
  BY <1>1 DEF Company, PostInv, InTurn

LEMMA CompanyComes ==
  ASSUME PostInv, overlap \subseteq PostingKinds, NEW c \in Clients, NEW r, Free(c, r.op), Becomes(c, r), UNCHANGED overlap
  PROVE  Company'
<1>1. \A d \in Clients : req'[d] = IF d = c THEN r ELSE req[d]
  BY DEF Becomes, PostInv, OfficeTyped, RequestsWell
<1>2. \A d \in Clients : req[d] # Idle => ~InTurn /\ r.op \in PostingKinds /\ req[d].op \in PostingKinds
  BY DEF Free, InTurn
<1> QED
  BY <1>1, <1>2 DEF Company, PostInv, InTurn

\* Purchase orders and receipts stay as they are, and so does who tells of them.
LEMMA FilledStays ==
  ASSUME PostInv, UNCHANGED <<po, receipt>>
  PROVE  Filled' /\ \A g \in Receipts : LineThere(po', receipt'[g].line)
<1>1. \A p \in Purchases : Accepted(p)' = Accepted(p)
  <2>1. \A p \in Purchases : LineOf(p)' = LineOf(p)
    BY DEF LineOf, NoLine
  <2> QED
    BY <2>1, AcceptedIs
<1> QED
  BY <1>1 DEF PostInv, Filled

LEMMA ToldStays ==
  ASSUME PostInv, UNCHANGED <<overlap, po, unsynced>>, PostedBefore, \A p : Telling(p) => Telling(p)'
  PROVE  Told'
<1>1. \A p \in Purchases : Brought(p)' => Brought(p)
  BY BroughtKept
<1> QED
  BY <1>1 DEF PostInv, Told, InTurn

\* A request that is not a posting tells of none.
LEMMA TellingStays ==
  ASSUME PostInv, NEW c \in Clients, NEW r, Becomes(c, r), req[c].op \notin {"readReceipts", "sync"}
  PROVE  \A p : Telling(p) => Telling(p)'
<1>1. \A d \in Clients : d # c => req'[d] = req[d]
  BY DEF Becomes, PostInv, OfficeTyped, RequestsWell
<1> QED
  BY <1>1 DEF Telling

LEMMA PostAsks ==
  ASSUME PostInv, OfficeTyped', overlap \subseteq PostingKinds, NEW c \in Clients, NEW r, Free(c, r.op), Becomes(c, r),
         Holds(po, receipt, overlap, r), UNCHANGED <<overlap, po, receipt, unsynced>>
  PROVE  PostInv'
<1>1. \A d \in Clients : req'[d] \in {r, req[d]}
  BY DEF Becomes, PostInv, OfficeTyped, RequestsWell
<1>2. \A d \in Clients : Holds(po', receipt', overlap', req'[d])
  BY <1>1 DEF PostInv
<1>3. \A p : Telling(p) => Telling(p)'
  BY TellingStays DEF Free, Idle
<1>4. Told'
  BY <1>3, ToldStays DEF PostedBefore
<1> QED
  BY <1>2, <1>4, CompanyComes, FilledStays DEF PostInv

\* A request that is not a posting is alone; when it ends, nobody is busy.
LEMMA AloneEnds ==
  ASSUME PostInv, NEW c \in Clients, req[c].op \notin PostingKinds \cup {"none"}, Becomes(c, Idle), UNCHANGED overlap
  PROVE  /\ Company' /\ \A d \in Clients : Holds(po', receipt', overlap', req'[d])
         /\ \A d \in Clients : req[d].op \notin {"readReceipts", "sync"}
<1>1. \A d \in Clients : d # c => req[d] = Idle
  BY DEF PostInv, Company, Idle
<1>2. \A d \in Clients : req'[d] = Idle
  BY <1>1 DEF Becomes, PostInv, OfficeTyped, RequestsWell
<1> QED
  BY <1>1, <1>2, CompanyGoes DEF Holds, Idle, PostingKinds

\* A request that leaves purchase orders and receipts alone ends.
LEMMA PostEnds ==
  ASSUME PostInv, OfficeTyped', NEW c \in Clients, req[c].op \notin PostingKinds \cup {"none"}, Becomes(c, Idle),
         UNCHANGED <<overlap, po, receipt, unsynced>>
  PROVE  PostInv'
<1>1. \A p : ~Telling(p)
  BY AloneEnds DEF Telling
<1>2. Told'
  BY <1>1, ToldStays DEF PostedBefore
<1> QED
  BY <1>2, AloneEnds, FilledStays DEF PostInv

LEMMA PostSame ==
  ASSUME PostInv, OfficeTyped', UNCHANGED <<overlap, req, po, receipt, unsynced>>
  PROVE  PostInv'
<1>1. \A p : Telling(p) => Telling(p)'
  BY DEF Telling
<1>2. Told'
  BY <1>1, ToldStays DEF PostedBefore
<1>3. Company'
  BY DEF PostInv, Company, InTurn
<1> QED
  BY <1>2, <1>3, FilledStays DEF PostInv

-----------------------------------------------------------------------
\* Orders and consolidations leave purchase orders and receipts alone.

LEMMA OrdersPost ==
  ASSUME PostInv, OfficeTyped', overlap \subseteq PostingKinds, NEW lock, NextOrders(lock), UNCHANGED <<po, receipt, unsynced>>
  PROVE  PostInv'
<1>1. ASSUME NEW c \in Clients, NEW o \in Orders, NEW r, Begin(c, o, r),
             r.op \in {"updateOrder", "approveOrder", "cancelOrder"} PROVE PostInv'
  <2>1. Holds(po, receipt, overlap, r)
    BY <1>1 DEF Holds
  <2> QED
    BY <1>1, <2>1, PostAsks DEF Begin
<1>2. ASSUME NEW c \in Clients, NEW o \in Orders, NEW q, CreateOrder(c, o, q) PROVE PostInv'
  BY <1>2, PostSame DEF CreateOrder
<1>3. ASSUME NEW c \in Clients, NEW o \in Orders, NEW role, NEW force, NEW locked, NEW q, UpdateOrder(c, o, role, force, locked, q)
      PROVE PostInv'
  <2>1. PICK r : r = [op |-> "updateOrder", order |-> o, status |-> order[o].status, qty |-> q, force |-> force]
    OBVIOUS
  <2> QED
    BY <1>1, <1>3, <2>1 DEF UpdateOrder
<1>4. ASSUME NEW c \in Clients, NEW o \in Orders, ApproveOrder(c, o) PROVE PostInv'
  <2>1. PICK r : r = [op |-> "approveOrder", order |-> o, edition |-> order[o].edition, qty |-> order[o].ordered]
    OBVIOUS
  <2> QED
    BY <1>1, <1>4, <2>1 DEF ApproveOrder
<1>5. ASSUME NEW c \in Clients, NEW o \in Orders, NEW role, NEW force, NEW locked, Drop(c, o, role, force, locked) PROVE PostInv'
  <2>1. PICK r : r = [op |-> "cancelOrder", order |-> o, force |-> force]
    OBVIOUS
  <2> QED
    BY <1>1, <1>5, <2>1 DEF Drop
<1>6. ASSUME NEW c \in Clients, CommitUpdateOrder(c) \/ CommitApproveOrder(c) \/ CommitCancelOrder(c) PROVE PostInv'
  <2>1. req[c].op \notin PostingKinds \cup {"none"} /\ Becomes(c, Idle) /\ overlap' = overlap
    BY <1>6 DEF CommitUpdateOrder, CommitApproveOrder, CommitCancelOrder, PostingKinds
  <2> QED
    BY <2>1, PostEnds
<1>7. ASSUME NEW c \in Clients, NEW o \in Orders, NEW p \in Orders, DuplicateOrder(c, o, p) PROVE PostInv'
  BY <1>2, <1>7 DEF DuplicateOrder
<1>8. ASSUME NEW c \in Clients, NEW o \in Orders, NEW role, NEW locked, RecalculateOrder(c, o, role, locked) PROVE PostInv'
  BY <1>3, <1>8 DEF RecalculateOrder
<1> QED
  BY <1>2, <1>3, <1>4, <1>5, <1>6, <1>7, <1>8 DEF NextOrders, CancelOrder, RemoveOrder, RejectOrder

LEMMA AsksPosts ==
  ASSUME PostInv, OfficeTyped', overlap \subseteq PostingKinds, NEW c \in Clients, NEW r, Asks(c, r), Holds(po, receipt, overlap, r)
  PROVE  PostInv'
BY PostAsks DEF Asks

LEMMA SheetsPost ==
  ASSUME PostInv, OfficeTyped', overlap \subseteq PostingKinds, NEW c \in Clients, Consolidate(c)
  PROVE  PostInv'
<1>1. ASSUME NEW r, Asks(c, r), r.op \in {"consolidate", "rebuild", "updateItem", "approveSheet"} PROVE PostInv'
  BY <1>1, AsksPosts DEF Holds
<1>2. ASSUME NEW statuses, CreateConsolidation(c, statuses) PROVE PostInv'
  <2>1. PICK r : r = [op |-> "consolidate", sources |-> Eligible(statuses), total |-> Demand(Eligible(statuses))]
    OBVIOUS
  <2> QED
    BY <1>1, <1>2, <2>1 DEF CreateConsolidation
<1>3. ASSUME NEW s \in Sheets, Rebuild(c, s) PROVE PostInv'
  <2>1. PICK os : os = Eligible({"approved"})
    OBVIOUS
  <2>2. PICK r : r = [op |-> "rebuild", sheet |-> s, sources |-> os, total |-> Demand(os)]
    OBVIOUS
  <2> QED
    BY <1>1, <1>3, <2>1, <2>2 DEF Rebuild
<1>4. ASSUME NEW s \in Sheets, ApproveConsolidation(c, s) PROVE PostInv'
  <2>1. PICK r : r = [op |-> "approveSheet", sheet |-> s]
    OBVIOUS
  <2> QED
    BY <1>1, <1>4, <2>1 DEF ApproveConsolidation
<1>5. ASSUME NEW s \in Sheets, NEW q, NEW given, UpdateItem(c, s, q, given) PROVE PostInv'
  <2>1. PICK n : n = IF given THEN q ELSE sheet[s].total + q
    OBVIOUS
  <2>2. PICK r : r = [op |-> "updateItem", sheet |-> s, edition |-> sheet[s].edition, qty |-> n]
    OBVIOUS
  <2> QED
    BY <1>1, <1>5, <2>1, <2>2 DEF UpdateItem
<1>6. ASSUME CommitConsolidation(c) \/ CommitRebuild(c) \/ CommitItem(c) \/ CommitApproveConsolidation(c) PROVE PostInv'
  <2>1. /\ req[c].op \notin PostingKinds \cup {"none"} /\ Becomes(c, Idle)
        /\ UNCHANGED <<overlap, po, receipt, unsynced>>
    BY <1>6 DEF CommitConsolidation, CommitRebuild, CommitItem, CommitApproveConsolidation, Finishes, PostingKinds
  <2> QED
    BY <2>1, PostEnds
<1> QED
  BY <1>2, <1>3, <1>4, <1>5, <1>6 DEF Consolidate

-----------------------------------------------------------------------
\* Purchase orders.

LEMMA PurchaseAsksPost ==
  ASSUME PostInv, OfficeTyped', overlap \subseteq PostingKinds, NEW c \in Clients, NEW p \in Purchases, NEW s, NEW e,
         UpdatePurchase(c, p, s, e) \/ UpdateDemandExtras(c, p, e) \/ ApprovePurchase(c, p) \/ CancelPurchase(c, p)
  PROVE  PostInv'
<1>1. CASE UpdatePurchase(c, p, s, e)
  <2>1. PICK r : r = [op |-> "updatePo", po |-> p, sheet |-> s, qty |-> e]
    OBVIOUS
  <2>2. Holds(po, receipt, overlap, r)
    BY <1>1, <2>1 DEF Holds, UpdatePurchase, MutablePo
  <2> QED
    BY <1>1, <2>1, <2>2, AsksPosts DEF UpdatePurchase
<1>2. CASE UpdateDemandExtras(c, p, e)
  <2>1. PICK r : r = [op |-> "extras", po |-> p, ordered |-> po[p].demand + e, extra |-> e]
    OBVIOUS
  <2>2. Holds(po, receipt, overlap, r)
    BY <1>2, <2>1 DEF Holds, UpdateDemandExtras
  <2> QED
    BY <1>2, <2>1, <2>2, AsksPosts DEF UpdateDemandExtras
<1>3. ASSUME NEW st, MutablePo(p), Asks(c, [op |-> "statusPo", po |-> p, status |-> st]) PROVE PostInv'
  <2>1. PICK r : r = [op |-> "statusPo", po |-> p, status |-> st]
    OBVIOUS
  <2>2. Holds(po, receipt, overlap, r)
    BY <1>3, <2>1 DEF Holds, MutablePo
  <2> QED
    BY <1>3, <2>1, <2>2, AsksPosts
<1> QED
  BY <1>1, <1>2, <1>3 DEF ApprovePurchase, CancelPurchase

LEMMA DemandAsksPost ==
  ASSUME PostInv, OfficeTyped', overlap \subseteq PostingKinds, NEW c \in Clients, NEW s, NEW e, CreateFromDemand(c, s, e)
  PROVE  PostInv'
<1>1. PICK r : r = [op |-> "purchase", sheet |-> s, demand |-> sheet[s].final, extra |-> e]
  OBVIOUS
<1>2. Holds(po, receipt, overlap, r)
  BY <1>1 DEF Holds
<1> QED
  BY <1>1, <1>2, AsksPosts DEF CreateFromDemand

\* One purchase order becomes w while no posting tells of any.
LEMMA OrderMoves ==
  ASSUME PostInv, OfficeTyped', \A d \in Clients : req[d].op \notin {"readReceipts", "sync"},
         UNCHANGED <<overlap, receipt, unsynced>>, NEW q \in Purchases, NEW w, po' = [po EXCEPT ![q] = w],
         w.status \notin {"none", "received"},
         \/ po[q].status = "none"
         \/ w.edition > po[q].edition
         \/ w.edition = po[q].edition /\ po[q].status \in {"draft", "approved"}
  PROVE  Filled' /\ Told' /\ \A g \in Receipts : LineThere(po', receipt'[g].line)
<1>1. /\ po \in [Purchases -> PoKind] /\ receipt \in [Receipts -> ReceiptKind]
      /\ \A p \in Purchases : po'[p] = IF p = q THEN w ELSE po[p]
      /\ w \in PoKind
  BY DEF PostInv, OfficeTyped
<1>2. \A p \in Purchases : po[p].edition \in Nat
  BY <1>1 DEF PoKind
<1>3. w.edition \in Nat
  BY <1>1 DEF PoKind
<1>4. ASSUME NEW g \in Receipts, receipt[g].line.po # "none" PROVE
        /\ receipt[g].line.po \in Purchases /\ receipt[g].line.edition \in Nat
        /\ po[receipt[g].line.po].status # "none" /\ receipt[g].line.edition <= po[receipt[g].line.po].edition
  BY <1>1, <1>4 DEF PostInv, LineThere, ReceiptKind, LineKind
<1>5. \A g \in Receipts : LineThere(po', receipt'[g].line)
  BY <1>1, <1>2, <1>3, <1>4 DEF LineThere
<1>6. Filled'
  <2>1. ASSUME NEW p \in Purchases, po'[p].status = "received" PROVE Accepted(p)' >= po'[p].ordered
    <3>1. po'[p] = po[p]
      BY <1>1, <2>1
    <3>2. Accepted(p) \in Nat /\ Accepted(p)' \in Nat /\ Accepted(p) <= Accepted(p)'
      BY <3>1, AcceptedKept DEF PostInv, PostedStay
    <3>3. Accepted(p) >= po[p].ordered /\ po[p].ordered \in Nat
      BY <1>1, <2>1, <3>1 DEF PostInv, Filled, PoKind
    <3> QED
      BY <3>1, <3>2, <3>3
  <2> QED
    BY <2>1 DEF Filled
<1>7. ASSUME NEW p \in Purchases, InTurn, Brought(p)' PROVE p \in unsynced \/ po'[p].status \in {"partial", "received"}
  <2>1. ASSUME po'[p].edition = po[p].edition, po[p].status # "none"
        PROVE  p \in unsynced \/ po[p].status \in {"partial", "received"}
    <3>1. Brought(p)
      BY <1>7, <2>1, BroughtKept DEF PostedBefore
    <3> QED
      BY <1>7, <3>1 DEF PostInv, Told, Telling
  <2>2. PICK g \in Receipts : receipt[g].line = [po |-> p, edition |-> po'[p].edition]
    BY <1>7, ProcurementAssumption DEF Brought, Filling, LineOf
  <2>3. po[p].status # "none" /\ po'[p].edition <= po[p].edition
    BY <1>4, <2>2, ProcurementAssumption
  <2> QED
    BY <1>1, <1>2, <1>3, <2>1, <2>3
<1>8. Told'
  BY <1>7 DEF Told, InTurn
<1> QED
  BY <1>5, <1>6, <1>8

LEMMA PurchaseComesPost ==
  ASSUME PostInv, OfficeTyped', overlap \subseteq PostingKinds, NEW c \in Clients, NEW p \in Purchases, NEW s, NEW n,
         CreatePurchase(c, p, s, n)
  PROVE  PostInv'
<1>1. PICK w : w = [NoPurchase EXCEPT !.status = "draft", !.sheet = s, !.ordered = n]
  OBVIOUS
<1>2. /\ po' = [po EXCEPT ![p] = w] /\ UNCHANGED <<overlap, req, receipt, unsynced>>
      /\ po[p].status = "none" /\ w.status = "draft"
  BY <1>1 DEF CreatePurchase, NoPurchase
<1>3. \A d \in Clients : req[d] = Idle
  BY DEF CreatePurchase, Free, PostingKinds
<1>4. Filled' /\ Told' /\ \A g \in Receipts : LineThere(po', receipt'[g].line)
  <2>1. \A d \in Clients : req[d].op \notin {"readReceipts", "sync"}
    BY <1>3 DEF Idle
  <2>2. w.status \notin {"none", "received"}
    BY <1>2
  <2> QED
    BY <1>2, <2>1, <2>2, OrderMoves
<1>5. Company' /\ \A d \in Clients : Holds(po', receipt', overlap', req'[d])
  BY <1>2, <1>3 DEF Company, Holds, Idle
<1> QED
  BY <1>4, <1>5 DEF PostInv

LEMMA PurchaseCommitsPost ==
  ASSUME PostInv, OfficeTyped', NEW c \in Clients,
         \/ CommitFromDemand(c) \/ CommitUpdatePurchase(c) \/ CommitExtras(c)
         \/ CommitStatus(c) /\ req[c].op = "statusPo"
  PROVE  PostInv'
<1>1. /\ req[c].op \in {"purchase", "updatePo", "extras", "statusPo"} /\ Becomes(c, Idle)
      /\ UNCHANGED <<overlap, receipt, unsynced>>
  BY DEF CommitFromDemand, CommitUpdatePurchase, CommitExtras, CommitStatus, Finishes
<1>2. /\ Company' /\ \A d \in Clients : Holds(po', receipt', overlap', req'[d])
      /\ \A d \in Clients : req[d].op \notin {"readReceipts", "sync"}
  BY <1>1, AloneEnds DEF PostingKinds
<1>3. /\ Wellformed(req[c]) /\ Holds(po, receipt, overlap, req[c])
      /\ po \in [Purchases -> PoKind] /\ \A p \in Purchases : po[p].edition \in Nat
  BY DEF PostInv, OfficeTyped, RequestsWell, PoKind
<1>4. ASSUME NEW q \in Purchases, NEW w, po' = [po EXCEPT ![q] = w], w.status \notin {"none", "received"},
             \/ po[q].status = "none"
             \/ w.edition > po[q].edition
             \/ w.edition = po[q].edition /\ po[q].status \in {"draft", "approved"}
      PROVE PostInv'
  BY <1>1, <1>2, <1>4, OrderMoves DEF PostInv
<1>5. CASE CommitFromDemand(c)
  <2>1. PICK w : w = [status |-> "draft", sheet |-> req[c].sheet, ordered |-> req[c].demand + req[c].extra,
                      demand |-> req[c].demand, extra |-> req[c].extra, edition |-> 0]
    OBVIOUS
  <2>2. PICK p \in Purchases : po[p].status = "none" /\ po' = [po EXCEPT ![p] = w]
    BY <1>5, <2>1 DEF CommitFromDemand
  <2> QED
    BY <1>4, <2>1, <2>2
<1>6. ASSUME req[c].op \in {"updatePo", "extras", "statusPo"}
      PROVE  req[c].po \in Purchases /\ po[req[c].po].status \in {"draft", "approved"}
  BY <1>3, <1>6 DEF Wellformed, Holds
<1>7. CASE CommitUpdatePurchase(c)
  <2>1. req[c].po \in Purchases /\ po[req[c].po].status \in {"draft", "approved"}
    BY <1>6, <1>7 DEF CommitUpdatePurchase
  <2>2. PICK v : v = po[req[c].po]
    OBVIOUS
  <2>3. PICK w : w = IF req[c].qty = 0 THEN [v EXCEPT !.sheet = req[c].sheet]
                     ELSE [v EXCEPT !.sheet = req[c].sheet, !.ordered = req[c].qty, !.demand = 0, !.extra = 0,
                                    !.edition = v.edition + 1]
    OBVIOUS
  <2>4. v \in PoKind
    BY <1>3, <2>1, <2>2
  <2>5. w.status = v.status /\ w.edition = IF req[c].qty = 0 THEN v.edition ELSE v.edition + 1
    BY <2>3, <2>4 DEF PoKind
  <2>6. po' = [po EXCEPT ![req[c].po] = w]
    BY <1>3, <1>7, <2>1, <2>2, <2>3 DEF CommitUpdatePurchase
  <2>7. v.edition \in Nat
    BY <2>4 DEF PoKind
  <2>8. w.status \notin {"none", "received"}
    BY <2>1, <2>2, <2>5
  <2>9. w.edition > po[req[c].po].edition \/ w.edition = po[req[c].po].edition
    BY <2>2, <2>5, <2>7
  <2> QED
    BY <1>4, <2>1, <2>6, <2>8, <2>9
<1>8. CASE CommitExtras(c)
  <2>1. req[c].po \in Purchases /\ po[req[c].po].status \in {"draft", "approved"}
    BY <1>6, <1>8 DEF CommitExtras
  <2>2. PICK w : w = [po[req[c].po] EXCEPT !.ordered = req[c].ordered, !.extra = req[c].extra]
    OBVIOUS
  <2>3. w.status = po[req[c].po].status /\ w.edition = po[req[c].po].edition
    BY <1>3, <2>1, <2>2 DEF PoKind
  <2>4. po' = [po EXCEPT ![req[c].po] = w]
    BY <1>3, <1>8, <2>1, <2>2 DEF CommitExtras
  <2> QED
    BY <1>4, <2>1, <2>3, <2>4
<1>9. CASE CommitStatus(c) /\ req[c].op = "statusPo"
  <2>1. req[c].po \in Purchases /\ po[req[c].po].status \in {"draft", "approved"} /\ req[c].status \in {"approved", "cancelled"}
    BY <1>3, <1>6, <1>9 DEF Wellformed
  <2>2. PICK w : w = [po[req[c].po] EXCEPT !.status = req[c].status]
    OBVIOUS
  <2>3. w.status = req[c].status /\ w.edition = po[req[c].po].edition
    BY <1>3, <2>1, <2>2 DEF PoKind
  <2>4. po' = [po EXCEPT ![req[c].po] = w]
    BY <1>3, <1>9, <2>1, <2>2 DEF CommitStatus
  <2> QED
    BY <1>4, <2>1, <2>3, <2>4
<1> QED
  BY <1>5, <1>7, <1>8, <1>9

-----------------------------------------------------------------------
\* Receipts.

LEMMA FilledGrows ==
  ASSUME PostInv, OfficeTyped', PostedStay, po' = po
  PROVE  Filled'
<1>1. ASSUME NEW p \in Purchases, po[p].status = "received" PROVE Accepted(p)' >= po[p].ordered
  <2>1. Accepted(p) \in Nat /\ Accepted(p)' \in Nat /\ Accepted(p) <= Accepted(p)'
    BY AcceptedKept DEF PostInv
  <2>2. Accepted(p) >= po[p].ordered /\ po[p].ordered \in Nat
    BY <1>1 DEF PostInv, Filled, OfficeTyped, PoKind
  <2> QED
    BY <2>1, <2>2
<1> QED
  BY <1>1 DEF Filled

LEMMA ReceiptAsksPost ==
  ASSUME PostInv, OfficeTyped', overlap \subseteq PostingKinds, NEW c \in Clients, NEW g \in Receipts,
         NEW p \in Purchases \cup {"none"}, NEW a, NEW items \in BOOLEAN,
         UpdateReceipt(c, g, p, a, items) \/ ApproveReceipt(c, g) \/ PostReceipt(c, g)
  PROVE  PostInv'
<1>1. CASE UpdateReceipt(c, g, p, a, items)
  <2>1. PICK l, n : /\ l = IF items THEN LineOf(p) ELSE receipt[g].line
                    /\ n = IF items THEN a ELSE receipt[g].accepted
    OBVIOUS
  <2>2. PICK r : r = [op |-> "updateReceipt", receipt |-> g, po |-> p, line |-> l, accepted |-> n]
    OBVIOUS
  <2>3. LineThere(po, LineOf(p))
    <3>1. p \in Purchases => po[p].edition \in Nat /\ po[p].status # "none"
      BY <1>1, ProcurementAssumption DEF UpdateReceipt, Known, PostInv, OfficeTyped, PoKind
    <3> QED
      BY <3>1, ProcurementAssumption DEF LineThere, LineOf, NoLine
  <2>4. LineThere(po, l)
    BY <2>1, <2>3 DEF PostInv
  <2>5. Holds(po, receipt, overlap, r)
    BY <1>1, <2>2, <2>4 DEF Holds, UpdateReceipt
  <2> QED
    BY <1>1, <2>1, <2>2, <2>5, AsksPosts DEF UpdateReceipt
<1>2. CASE ApproveReceipt(c, g)
  <2>1. PICK r : r = [op |-> "approveReceipt", receipt |-> g]
    OBVIOUS
  <2>2. Holds(po, receipt, overlap, r)
    BY <1>2, <2>1 DEF Holds, ApproveReceipt
  <2> QED
    BY <1>2, <2>1, <2>2, AsksPosts DEF ApproveReceipt
<1>3. CASE PostReceipt(c, g)
  <2>1. PICK r : r = [op |-> "post", receipt |-> g, po |-> receipt[g].po]
    OBVIOUS
  <2>2. Holds(po, receipt, overlap, r)
    BY <1>3, <2>1 DEF Holds, PostReceipt
  <2> QED
    BY <1>3, <2>1, <2>2, AsksPosts DEF PostReceipt
<1> QED
  BY <1>1, <1>2, <1>3

\* A receipt that is not posted becomes w, that is not posted, while no posting tells of any.
LEMMA ReceiptMoves ==
  ASSUME PostInv, OfficeTyped', \A d \in Clients : req[d].op \notin {"readReceipts", "sync"},
         UNCHANGED <<overlap, po, unsynced>>, NEW g \in Receipts, NEW w, receipt' = [receipt EXCEPT ![g] = w],
         receipt[g].status # "posted", w.status # "posted", LineThere(po, w.line)
  PROVE  Filled' /\ Told' /\ \A h \in Receipts : LineThere(po', receipt'[h].line)
<1>1. \A h \in Receipts : receipt'[h] = IF h = g THEN w ELSE receipt[h]
  BY DEF PostInv, OfficeTyped
<1>2. PostedStay /\ PostedBefore
  BY <1>1 DEF PostedStay, PostedBefore
<1>3. \A p : Telling(p) => Telling(p)'
  BY DEF Telling
<1> QED
  BY <1>1, <1>2, <1>3, FilledGrows, ToldStays DEF PostInv

LEMMA ReceiptComesPost ==
  ASSUME PostInv, OfficeTyped', overlap \subseteq PostingKinds, NEW c \in Clients, NEW g \in Receipts,
         NEW p \in Purchases \cup {"none"}, NEW a, CreateReceipt(c, g, p, a)
  PROVE  PostInv'
<1>1. PICK w : w = [status |-> "draft", po |-> p, line |-> LineOf(p), accepted |-> a]
  OBVIOUS
<1>2. /\ receipt' = [receipt EXCEPT ![g] = w] /\ UNCHANGED <<overlap, req, po, unsynced>>
      /\ receipt[g].status # "posted" /\ w.status # "posted"
  BY <1>1 DEF CreateReceipt
<1>3. \A d \in Clients : req[d] = Idle
  BY DEF CreateReceipt, Free, PostingKinds
<1>4. LineThere(po, LineOf(p))
  <2>1. p \in Purchases => po[p].edition \in Nat /\ po[p].status # "none"
    BY ProcurementAssumption DEF CreateReceipt, Known, PostInv, OfficeTyped, PoKind
  <2> QED
    BY <2>1, ProcurementAssumption DEF LineThere, LineOf, NoLine
<1>5. \A d \in Clients : req[d].op \notin {"readReceipts", "sync"}
  BY <1>3 DEF Idle
<1>6. Filled' /\ Told' /\ \A h \in Receipts : LineThere(po', receipt'[h].line)
  <2>1. LineThere(po, w.line)
    BY <1>1, <1>4
  <2> QED
    BY <1>2, <1>5, <2>1, ReceiptMoves
<1>7. Company' /\ \A d \in Clients : Holds(po', receipt', overlap', req'[d])
  BY <1>2, <1>3 DEF Company, Holds, Idle
<1> QED
  BY <1>6, <1>7 DEF PostInv

LEMMA ReceiptCommitsPost ==
  ASSUME PostInv, OfficeTyped', NEW c \in Clients, CommitReceipt(c) \/ CommitApproveReceipt(c)
  PROVE  PostInv'
<1>1. /\ req[c].op \in {"updateReceipt", "approveReceipt"} /\ Becomes(c, Idle)
      /\ UNCHANGED <<overlap, po, unsynced>>
  BY DEF CommitReceipt, CommitApproveReceipt, Finishes
<1>2. /\ Company' /\ \A d \in Clients : Holds(po', receipt', overlap', req'[d])
      /\ \A d \in Clients : req[d].op \notin {"readReceipts", "sync"}
  BY <1>1, AloneEnds DEF PostingKinds
<1>3. /\ req[c].receipt \in Receipts /\ Holds(po, receipt, overlap, req[c])
      /\ receipt[req[c].receipt] \in ReceiptKind
      /\ LineThere(po, receipt[req[c].receipt].line)
  <2>1. Wellformed(req[c]) /\ Holds(po, receipt, overlap, req[c])
    BY DEF PostInv, OfficeTyped, RequestsWell
  <2>2. req[c].receipt \in Receipts
    BY <1>1, <2>1 DEF Wellformed
  <2> QED
    BY <2>1, <2>2 DEF PostInv, OfficeTyped
<1>4. PICK v : v = receipt[req[c].receipt]
  OBVIOUS
<1>5. CASE CommitReceipt(c)
  <2>1. PICK w : w = [v EXCEPT !.po = req[c].po, !.line = req[c].line, !.accepted = req[c].accepted]
    OBVIOUS
  <2>2. v.status = "draft" /\ LineThere(po, req[c].line)
    BY <1>3, <1>4, <1>5 DEF CommitReceipt, Holds
  <2>3. w.status = v.status /\ w.line = req[c].line
    BY <1>3, <1>4, <2>1 DEF ReceiptKind
  <2>4. receipt' = [receipt EXCEPT ![req[c].receipt] = w]
    BY <1>3, <1>4, <1>5, <2>1 DEF CommitReceipt, PostInv, OfficeTyped
  <2>5. w.status # "posted" /\ v.status # "posted" /\ LineThere(po, w.line)
    BY <2>2, <2>3
  <2> QED
    BY <1>1, <1>2, <1>3, <1>4, <2>4, <2>5, ReceiptMoves DEF PostInv
<1>6. CASE CommitApproveReceipt(c)
  <2>1. PICK w : w = [v EXCEPT !.status = "approved"]
    OBVIOUS
  <2>2. v.status # "posted"
    BY <1>3, <1>4, <1>6 DEF CommitApproveReceipt, Holds
  <2>3. w.status = "approved" /\ w.line = v.line
    BY <1>3, <1>4, <2>1 DEF ReceiptKind
  <2>4. receipt' = [receipt EXCEPT ![req[c].receipt] = w]
    BY <1>3, <1>4, <1>6, <2>1 DEF CommitApproveReceipt, PostInv, OfficeTyped
  <2>5. w.status # "posted" /\ LineThere(po, w.line)
    BY <1>3, <1>4, <2>3
  <2> QED
    BY <1>1, <1>2, <1>3, <1>4, <2>2, <2>4, <2>5, ReceiptMoves DEF PostInv
<1> QED
  BY <1>5, <1>6

-----------------------------------------------------------------------
\* Postings, that may overlap with one another.

\* Posted receipts grow and purchase orders ask for what they did: what the
\* others have read holds.
LEMMA OthersHold ==
  ASSUME PostInv, OfficeTyped', NEW c \in Clients, req[c].op \in PostingKinds, PostedStay,
         \A g \in Receipts : receipt'[g].po = receipt[g].po,
         \A p \in Purchases : po'[p].edition = po[p].edition /\ po'[p].ordered = po[p].ordered,
         NEW d \in Clients, d # c, req'[d] = req[d], UNCHANGED overlap
  PROVE  Holds(po', receipt', overlap', req'[d])
<1>1. CASE req[d] = Idle
  BY <1>1 DEF Holds, Idle
<1>2. CASE req[d] # Idle
  <2>1. PICK r : r = req[d]
    OBVIOUS
  <2>2. r.op \in PostingKinds /\ overlap # {}
    <3>1. req[c] # Idle
      BY DEF Idle, PostingKinds
    <3> QED
      BY <1>2, <2>1, <3>1 DEF PostInv, Company, InTurn
  <2>3. Wellformed(r) /\ Holds(po, receipt, overlap, r)
    BY <2>1 DEF PostInv, OfficeTyped, RequestsWell
  <2>4. ASSUME r.op = "sync", r.status = "received"
        PROVE  AcceptedOf(receipt', LineAt(po', r.po)) >= po'[r.po].ordered
    <3>1. r.po \in Purchases
      BY <2>3, <2>4 DEF Wellformed
    <3>2. LineAt(po', r.po) = LineAt(po, r.po)
      BY <3>1 DEF LineAt
    <3>3. PICK l : l = LineAt(po, r.po)
      OBVIOUS
    <3>4. AcceptedOf(receipt, l) >= po[r.po].ordered /\ po[r.po].ordered \in Nat
      BY <2>3, <2>4, <3>1, <3>3 DEF Holds, PostInv, OfficeTyped, PoKind
    <3>5. receipt \in [Receipts -> ReceiptKind] /\ receipt' \in [Receipts -> ReceiptKind]
      BY DEF PostInv, OfficeTyped
    <3>6. AcceptedOf(receipt, l) <= AcceptedOf(receipt', l)
      BY <3>5, AcceptedGrows DEF PostedStay
    <3>7. AcceptedOf(receipt, l) \in Nat /\ AcceptedOf(receipt', l) \in Nat
      BY <3>5, AcceptedTotal
    <3> QED
      BY <3>1, <3>2, <3>3, <3>4, <3>6, <3>7
  <2>5. r.op = "post" => receipt'[r.receipt].po = r.po
    BY <2>3 DEF Wellformed, Holds
  <2> QED
    BY <2>1, <2>2, <2>4, <2>5 DEF Holds, PostingKinds
<1> QED
  BY <1>1, <1>2

LEMMA PostingPosts ==
  ASSUME PostInv, OfficeTyped', NEW c \in Clients, CommitReceiptPosting(c)
  PROVE  PostInv'
<1>1. /\ req[c].op = "post" /\ UNCHANGED <<overlap, po, unsynced>>
  BY DEF CommitReceiptPosting
<1>2. PICK g \in Receipts : g = req[c].receipt
  BY <1>1 DEF PostInv, OfficeTyped, RequestsWell, Wellformed
<1>3. PICK v, w : v = receipt[g] /\ w = [v EXCEPT !.status = "posted"]
  OBVIOUS
<1>4. /\ receipt \in [Receipts -> ReceiptKind] /\ v \in ReceiptKind
      /\ receipt' = [receipt EXCEPT ![g] = w] /\ v.po = req[c].po
  <2>1. Holds(po, receipt, overlap, req[c]) /\ receipt \in [Receipts -> ReceiptKind]
    BY DEF PostInv, OfficeTyped
  <2> QED
    BY <1>1, <1>2, <1>3, <2>1 DEF Holds, CommitReceiptPosting
<1>5. w.status = "posted" /\ w.po = v.po /\ w.line = v.line /\ w.accepted = v.accepted /\ (v.status = "posted" => w = v)
  BY <1>3, <1>4 DEF ReceiptKind
<1>6. \A h \in Receipts : receipt'[h] = IF h = g THEN w ELSE receipt[h]
  BY <1>4
<1>7. PostedStay /\ \A h \in Receipts : receipt'[h].po = receipt[h].po /\ receipt'[h].line = receipt[h].line
  BY <1>3, <1>5, <1>6 DEF PostedStay
<1>8. PICK n : n = IF req[c].po = "none" THEN Idle ELSE [op |-> "readReceipts", po |-> req[c].po]
  OBVIOUS
<1>9. Becomes(c, n)
  BY <1>8 DEF CommitReceiptPosting, Finishes
<1>10. Company'
  <2>1. req[c] # Idle /\ (n # Idle => n.op \in PostingKinds)
    BY <1>1, <1>8 DEF Idle, PostingKinds
  <2> QED
    BY <1>1, <1>9, <2>1, CompanyGoes
<1>11. \A d \in Clients : req'[d] = IF d = c THEN n ELSE req[d]
  BY <1>9 DEF Becomes, PostInv, OfficeTyped, RequestsWell
<1>12. ASSUME NEW d \in Clients PROVE Holds(po', receipt', overlap', req'[d])
  <2>1. CASE d = c
    <3>1. req'[d].op \in {"none", "readReceipts"}
      BY <1>8, <1>11, <2>1 DEF Idle
    <3> QED
      BY <3>1 DEF Holds
  <2>2. CASE d # c
    BY <1>1, <1>7, <1>11, <2>2, OthersHold DEF PostingKinds
  <2> QED
    BY <2>1, <2>2
<1>13. Told'
  <2>1. ASSUME NEW p \in Purchases, InTurn, Brought(p)'
        PROVE  p \in unsynced \/ Telling(p)' \/ po[p].status \in {"partial", "received"}
    <3>1. LineOf(p)' = LineOf(p)
      BY <1>1 DEF LineOf, NoLine
    <3>2. PICK h \in Receipts : /\ receipt'[h].status = "posted" /\ receipt'[h].line = LineOf(p)
                                /\ receipt'[h].po = p /\ receipt'[h].accepted > 0
      BY <2>1, <3>1 DEF Brought, Filling
    <3>3. CASE h = g
      <4>1. n.op = "readReceipts" /\ n.po = p
        BY <1>4, <1>5, <1>6, <1>8, <3>2, <3>3, ProcurementAssumption
      <4> QED
        BY <1>11, <4>1 DEF Telling
    <3>4. CASE h # g
      <4>1. Brought(p)
        BY <1>6, <3>2, <3>4 DEF Brought, Filling
      <4>2. Telling(p) => Telling(p)'
        BY <1>1, <1>9, TellingStays
      <4> QED
        BY <2>1, <4>1, <4>2 DEF PostInv, Told
    <3> QED
      BY <3>3, <3>4
  <2> QED
    BY <1>1, <2>1 DEF Told, InTurn
<1>14. Filled'
  BY <1>1, <1>7, FilledGrows
<1>15. \A h \in Receipts : LineThere(po', receipt'[h].line)
  BY <1>1, <1>7 DEF PostInv
<1> QED
  BY <1>10, <1>12, <1>13, <1>14, <1>15 DEF PostInv

LEMMA ReadingPosts ==
  ASSUME PostInv, OfficeTyped', NEW c \in Clients, ReadReceipts(c)
  PROVE  PostInv'
<1>1. req[c].op = "readReceipts" /\ UNCHANGED <<overlap, po, receipt, unsynced>>
  BY DEF ReadReceipts
<1>2. PICK p \in Purchases : p = req[c].po
  BY <1>1 DEF PostInv, OfficeTyped, RequestsWell, Wellformed
<1>3. PICK n : n = [op |-> "sync", po |-> p, status |-> ReceivedStatus(p)]
  OBVIOUS
<1>4. Becomes(c, n)
  BY <1>2, <1>3 DEF ReadReceipts
<1>5. \A d \in Clients : req'[d] = IF d = c THEN n ELSE req[d]
  BY <1>4 DEF Becomes, PostInv, OfficeTyped, RequestsWell
<1>6. Holds(po, receipt, overlap, n)
  BY <1>3, StatusIs DEF Holds, Status
<1>7. \A d \in Clients : Holds(po', receipt', overlap', req'[d])
  BY <1>1, <1>5, <1>6 DEF PostInv
<1>8. Company'
  BY <1>1, <1>3, <1>4, CompanyGoes DEF Idle, PostingKinds
<1>9. \A q : Telling(q) => Telling(q)'
  BY <1>2, <1>3, <1>5 DEF Telling
<1>10. Told'
  BY <1>1, <1>9, ToldStays DEF PostedBefore
<1> QED
  BY <1>1, <1>7, <1>8, <1>10, FilledStays DEF PostInv

LEMMA SyncPosts ==
  ASSUME PostInv, OfficeTyped', NEW c \in Clients, CommitStatus(c), req[c].op = "sync"
  PROVE  PostInv'
<1>1. /\ UNCHANGED <<overlap, receipt>> /\ Becomes(c, Idle)
      /\ unsynced' = unsynced \ {req[c].po}
  BY DEF CommitStatus, Finishes
<1>2. PICK q \in Purchases : q = req[c].po
  BY DEF PostInv, OfficeTyped, RequestsWell, Wellformed
<1>3. PICK st : st = req[c].status
  OBVIOUS
<1>4. /\ Holds(po, receipt, overlap, req[c]) /\ po \in [Purchases -> PoKind] /\ st \in {"approved", "partial", "received"}
  BY <1>3 DEF PostInv, OfficeTyped, RequestsWell, Wellformed
<1>5. PICK w : w = [po[q] EXCEPT !.status = st]
  OBVIOUS
<1>6. po' = [po EXCEPT ![q] = w]
  BY <1>2, <1>3, <1>4, <1>5 DEF CommitStatus
<1>7. w.status = st /\ w.edition = po[q].edition /\ w.ordered = po[q].ordered
  BY <1>4, <1>5 DEF PoKind
<1>8. \A p \in Purchases : po'[p] = IF p = q THEN w ELSE po[p]
  BY <1>4, <1>6
<1>9. \A p \in Purchases : po'[p].edition = po[p].edition /\ po'[p].ordered = po[p].ordered
  BY <1>7, <1>8
<1>10. \A d \in Clients : req'[d] = IF d = c THEN Idle ELSE req[d]
  BY <1>1 DEF Becomes, PostInv, OfficeTyped, RequestsWell
<1>11. PostedStay /\ PostedBefore
  BY <1>1 DEF PostedStay, PostedBefore
<1>12. Company'
  BY <1>1, CompanyGoes
<1>13. ASSUME NEW d \in Clients PROVE Holds(po', receipt', overlap', req'[d])
  <2>1. CASE d = c
    BY <1>10, <2>1 DEF Holds, Idle
  <2>2. CASE d # c
    BY <1>1, <1>9, <1>10, <1>11, <2>2, OthersHold DEF PostingKinds
  <2> QED
    BY <2>1, <2>2
<1>14. \A p \in Purchases : /\ Accepted(p) \in Nat /\ Accepted(p)' \in Nat /\ Accepted(p) <= Accepted(p)'
                            /\ po[p].ordered \in Nat
  BY <1>4, <1>9, <1>11, AcceptedKept DEF PostInv, PoKind
<1>15. st = "received" => Accepted(q) >= po[q].ordered
  BY <1>2, <1>3, <1>4, StatusIs DEF Holds
<1>16. Filled'
  <2>1. ASSUME NEW p \in Purchases, po'[p].status = "received" PROVE Accepted(p) >= po[p].ordered
    <3>1. CASE p = q
      BY <1>7, <1>8, <1>15, <2>1, <3>1
    <3>2. CASE p # q
      BY <1>8, <2>1, <3>2 DEF PostInv, Filled
    <3> QED
      BY <3>1, <3>2
  <2>2. \A p \in Purchases : po'[p].status = "received" => Accepted(p)' >= po'[p].ordered
    BY <1>9, <1>14, <2>1
  <2> QED
    BY <2>2 DEF Filled
<1>17. Told'
  <2>1. ASSUME NEW p \in Purchases, InTurn, Brought(p)'
        PROVE  p \in unsynced' \/ Telling(p)' \/ po'[p].status \in {"partial", "received"}
    <3>1. Brought(p)
      BY <1>9, <1>11, <2>1, BroughtKept
    <3>2. CASE p = q
      <4>1. Accepted(q) > 0
        BY <3>1, <3>2, AcceptedCounts DEF PostInv
      <4>2. st = ReceivedStatus(q)
        BY <1>2, <1>3, <1>4, <2>1, StatusIs DEF Holds, InTurn
      <4>3. st \in {"partial", "received"}
        BY <4>1, <4>2 DEF ReceivedStatus
      <4> QED
        BY <1>7, <1>8, <3>2, <4>3
    <3>3. CASE p # q
      <4>1. Telling(p) => Telling(p)'
        BY <1>2, <1>10, <3>3 DEF Telling
      <4>2. p \in unsynced \/ Telling(p) \/ po[p].status \in {"partial", "received"}
        BY <2>1, <3>1 DEF PostInv, Told
      <4> QED
        BY <1>1, <1>2, <1>8, <3>3, <4>1, <4>2
    <3> QED
      BY <3>2, <3>3
  <2> QED
    BY <1>1, <2>1 DEF Told, InTurn
<1>18. \A h \in Receipts : LineThere(po', receipt'[h].line)
  <2>1. ASSUME NEW h \in Receipts, receipt[h].line.po # "none"
        PROVE  LineThere(po', receipt[h].line)
    <3>1. receipt[h].line.po \in Purchases
      BY <2>1 DEF PostInv, OfficeTyped, ReceiptKind, LineKind
    <3>2. LineThere(po, receipt[h].line)
      BY DEF PostInv
    <3> QED
      BY <1>4, <1>7, <1>8, <3>1, <3>2 DEF LineThere
  <2> QED
    BY <1>1, <2>1 DEF LineThere
<1> QED
  BY <1>12, <1>13, <1>16, <1>17, <1>18 DEF PostInv

LEMMA DyingPosts ==
  ASSUME PostInv, OfficeTyped', NEW c \in Clients, DieAfterPosting(c)
  PROVE  PostInv'
<1>1. /\ UNCHANGED <<overlap, po, receipt>> /\ Becomes(c, Idle)
      /\ unsynced' = unsynced \cup {req[c].po}
  BY DEF DieAfterPosting, Finishes
<1>2. \A d \in Clients : req'[d] = IF d = c THEN Idle ELSE req[d]
  BY <1>1 DEF Becomes, PostInv, OfficeTyped, RequestsWell
<1>3. \A d \in Clients : Holds(po', receipt', overlap', req'[d])
  <2>1. Holds(po, receipt, overlap, Idle)
    BY DEF Holds, Idle
  <2> QED
    BY <1>1, <1>2, <2>1 DEF PostInv
<1>4. Company'
  BY <1>1, CompanyGoes
<1>5. Told'
  <2>1. \A p \in Purchases : Brought(p)' => Brought(p)
    BY <1>1, BroughtKept DEF PostedBefore
  <2>2. \A p \in Purchases : Telling(p) => Telling(p)' \/ p \in unsynced'
    BY <1>1, <1>2 DEF Telling
  <2>3. InTurn' => InTurn
    BY <1>1 DEF InTurn
  <2> QED
    BY <1>1, <2>1, <2>2, <2>3 DEF PostInv, Told
<1> QED
  BY <1>1, <1>3, <1>4, <1>5, FilledStays DEF PostInv

-----------------------------------------------------------------------
LEMMA PostingInit == InitProcurement => PostInv
<1> SUFFICES ASSUME InitProcurement PROVE PostInv
  OBVIOUS
<1>1. OfficeTyped
  BY OfficeInit
<1>2. Company /\ \A c \in Clients : Holds(po, receipt, overlap, req[c])
  BY DEF InitProcurement, InitOrders, Company, Holds, Idle
<1>3. Filled
  BY DEF InitProcurement, Filled, NoPurchase
<1>4. \A p : ~Brought(p)
  BY DEF InitProcurement, Brought, Filling
<1>5. \A g \in Receipts : LineThere(po, receipt[g].line)
  BY DEF InitProcurement, NoLine, LineThere
<1> QED
  BY <1>1, <1>2, <1>3, <1>4, <1>5 DEF PostInv, Told

LEMMA PostingStep == PostInv /\ overlap \subseteq PostingKinds /\ [NextProcurement]_procurement => PostInv'
<1> SUFFICES ASSUME PostInv, overlap \subseteq PostingKinds, [NextProcurement]_procurement PROVE PostInv'
  OBVIOUS
<1>1. OfficeTyped'
  BY OfficeStep DEF PostInv
<1>2. CASE NextOrders({o \in Orders : Locked(o)}) /\ UNCHANGED <<sheet, po, receipt, unsynced>>
  BY <1>1, <1>2, OrdersPost
<1>3. ASSUME NEW c \in Clients, Consolidate(c) PROVE PostInv'
  BY <1>1, <1>3, SheetsPost
<1>4. ASSUME NEW c \in Clients, Purchase(c) PROVE PostInv'
  <2>1. CASE CommitStatus(c)
    <3>1. req[c].op \in {"statusPo", "sync"}
      BY <2>1 DEF CommitStatus
    <3> QED
      BY <1>1, <2>1, <3>1, PurchaseCommitsPost, SyncPosts
  <2> QED
    BY <1>1, <1>4, <2>1, PurchaseAsksPost, DemandAsksPost, PurchaseComesPost, PurchaseCommitsPost DEF Purchase
<1>5. ASSUME NEW c \in Clients, Receive(c) PROVE PostInv'
  BY <1>1, <1>5, ReceiptAsksPost, ReceiptComesPost, ReceiptCommitsPost, PostingPosts, ReadingPosts, DyingPosts DEF Receive
<1>6. CASE UNCHANGED procurement
  BY <1>1, <1>6, PostSame DEF procurement
<1> QED
  BY <1>2, <1>3, <1>4, <1>5, <1>6 DEF NextProcurement

\* The requests that overlap are chosen once.
LEMMA OverlapsChosenOnce == [NextProcurement]_procurement => overlap' = overlap
<1>1. \A c, r : Asks(c, r) => overlap' = overlap
  BY DEF Asks
<1>2. \A c, o, r : Begin(c, o, r) => overlap' = overlap
  BY DEF Begin
<1>3. ASSUME NEW lock, NextOrders(lock) PROVE overlap' = overlap
  <2>1. \A c, o, q : CreateOrder(c, o, q) => overlap' = overlap
    BY DEF CreateOrder
  <2>2. \A c, o, role, force, locked, q : UpdateOrder(c, o, role, force, locked, q) => overlap' = overlap
    BY <1>2 DEF UpdateOrder
  <2>3. \A c, o, role, force, locked : Drop(c, o, role, force, locked) => overlap' = overlap
    BY <1>2 DEF Drop
  <2>4. \A c, o : ApproveOrder(c, o) => overlap' = overlap
    BY <1>2 DEF ApproveOrder
  <2>5. \A c : CommitUpdateOrder(c) \/ CommitApproveOrder(c) \/ CommitCancelOrder(c) => overlap' = overlap
    BY DEF CommitUpdateOrder, CommitApproveOrder, CommitCancelOrder
  <2> QED
    BY <1>3, <2>1, <2>2, <2>3, <2>4, <2>5 DEF NextOrders, DuplicateOrder, CancelOrder, RecalculateOrder, RemoveOrder, RejectOrder
<1>4. \A c : Consolidate(c) => overlap' = overlap
  BY <1>1 DEF Consolidate, CreateConsolidation, Rebuild, ApproveConsolidation, UpdateItem, CommitConsolidation, CommitRebuild,
     CommitItem, CommitApproveConsolidation
<1>5. ASSUME NEW c, Purchase(c) PROVE overlap' = overlap
  <2>1. \A p, s, q : CreatePurchase(c, p, s, q) \/ UpdatePurchase(c, p, s, q) => overlap' = overlap
    BY <1>1 DEF CreatePurchase, UpdatePurchase
  <2>2. \A p, e : UpdateDemandExtras(c, p, e) \/ CreateFromDemand(c, p, e) => overlap' = overlap
    BY <1>1 DEF UpdateDemandExtras, CreateFromDemand
  <2>3. \A p : ApprovePurchase(c, p) \/ CancelPurchase(c, p) => overlap' = overlap
    BY <1>1 DEF ApprovePurchase, CancelPurchase
  <2>4. CommitFromDemand(c) \/ CommitUpdatePurchase(c) \/ CommitExtras(c) \/ CommitStatus(c) => overlap' = overlap
    BY DEF CommitFromDemand, CommitUpdatePurchase, CommitExtras, CommitStatus
  <2> QED
    BY <1>5, <2>1, <2>2, <2>3, <2>4 DEF Purchase
<1>6. ASSUME NEW c, Receive(c) PROVE overlap' = overlap
  <2>1. \A g, p, a : CreateReceipt(c, g, p, a) => overlap' = overlap
    BY DEF CreateReceipt
  <2>2. \A g, p, a, items : UpdateReceipt(c, g, p, a, items) => overlap' = overlap
    BY <1>1 DEF UpdateReceipt
  <2>3. \A g : ApproveReceipt(c, g) \/ PostReceipt(c, g) => overlap' = overlap
    BY <1>1 DEF ApproveReceipt, PostReceipt
  <2>4. \/ CommitReceipt(c) \/ CommitApproveReceipt(c) \/ CommitReceiptPosting(c)
        \/ ReadReceipts(c) \/ DieAfterPosting(c)
        => overlap' = overlap
    BY DEF CommitReceipt, CommitApproveReceipt, CommitReceiptPosting, ReadReceipts, DieAfterPosting
  <2> QED
    BY <1>6, <2>1, <2>2, <2>3, <2>4 DEF Receive
<1> QED
  BY <1>3, <1>4, <1>5, <1>6 DEF NextProcurement, procurement

\* Procurement's rows and requests are of their kinds, and what a posting says of
\* its purchase order is so.
THEOREM ProcurementInvariant == ProcurementSpec => []PostingInv
<1>1. InitProcurement => PostingInv
  BY OfficeInit, PostingInit DEF PostingInv
<1>2. PostingInv /\ [NextProcurement]_procurement => PostingInv'
  BY OfficeStep, PostingStep, OverlapsChosenOnce DEF PostingInv
<1> QED
  BY <1>1, <1>2, PTL DEF ProcurementSpec

\* However postings overlap with one another, a purchase order is received only when
\* posted receipts have filled it; requests in turn, one that a receipt has put goods
\* in is received, at least in part, unless the process died before saying so.
THEOREM ReceivedAsPostedAlways == ProcurementSpec => []ReceivedAsPosted
<1>1. PostInv => ReceivedAsPosted
  <2>1. Quiet => \A p : ~Telling(p)
    BY DEF Quiet, Telling, Idle
  <2> QED
    BY <2>1 DEF ReceivedAsPosted, PostInv, Filled, Told, Brought
<1>2. PostingInv => ReceivedAsPosted
  BY <1>1 DEF PostingInv, ReceivedAsPosted
<1> QED
  BY <1>2, ProcurementInvariant, PTL
=============================================================================
