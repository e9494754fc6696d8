------------------------ MODULE MCProcurement ------------------------
(* Small instances of Purchasing: Procurement and SupplierPayments.    *)
EXTENDS Purchasing, TLC

CONSTANTS c1, c2, o1, o2, s1, p1, p2, g1, g2

\* One request at a time, or postings of receipts that do not wait for one another.
Postings == {{}, {"post", "readReceipts", "sync"}}
\* One edit in all, of an order, a demand or a purchase order.  Two orders until
\* something is bought, then one; receipts of one purchase order made by hand,
\* those that overlap of its own item and with no death in between; two purchase
\* orders, one cancelled or of no demand, for an order and a demand as they came.
Edits ==
  LET o == {x \in Orders : order[x].edition > 0}
      s == {x \in Sheets : sheet[x].edition > 0}
      p == {x \in Purchases : po[x].edition > 0}
  IN Cardinality(o) + Cardinality(s) + Cardinality(p)
Focus ==
  LET known  == {o \in Orders : order[o].status # "none"}
      bought == {p \in Purchases : po[p].status # "none"}
      came   == {g \in Receipts : receipt[g].status # "none"}
      billed == {i \in PurchaseInvoices : purchaseInvoice[i].status # "none"}
      used   == {a \in Rows : allocation[a] # Supplier!NoRow}
  IN /\ \/ \A x \in Payments : payment[x].status = "none"
           /\ \A i \in PurchaseInvoices : purchaseInvoice[i].status = "none"
        \/ /\ InTurn /\ Quiet /\ known = {} /\ bought = {} /\ came = {}
           /\ Cardinality(billed) = 2 =>
                /\ Cardinality(used) <= 2
                /\ \A i \in billed : purchaseInvoice[i].total = 1
                /\ \A u \in Users : paying[u].op \notin {"update", "mark"}
     /\ Edits <= 1
     /\ bought # {} => Cardinality(known) <= 1
     /\ came # {} => known = {} /\ Cardinality(bought) <= 1
     /\ Cardinality(bought) = 2 =>
          /\ Edits = 0 /\ \A o \in known : order[o].ordered = 2
          /\ \A s \in Sheets : sheet[s].final = sheet[s].total
          /\ \E p \in bought : po[p].status = "cancelled" \/ po[p].sheet = "none"
     /\ ~InTurn => /\ known = {} /\ unsynced = {} /\ Edits = 0
                   /\ \A g \in came : \E p \in bought : receipt[g].po = p
\* The same model values stand for users, receipts, invoices and rows of the second
\* part, so that one small group of permutations serves both.
Sym == Permutations(Clients) \cup Permutations(Orders) \cup Permutations(Purchases) \cup Permutations(Receipts)
=======================================================================
