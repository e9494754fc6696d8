------------------------ MODULE MCRetailerNotes ------------------------
EXTENDS RetailerNotes, TLC

CONSTANTS c1, c2

\* Which notes there are: credit notes cn..., debit notes dn..., the last one
\* without an invoice.
NoteKind == "cn1" :> "credit" @@ "cn2" :> "credit" @@ "dn1" :> "debit" @@ "dn0" :> "debit"
NoteSize == "cn1" :> 1 @@ "cn2" :> 2 @@ "dn1" :> 1 @@ "dn0" :> 2
KindOf == [n \in Notes |-> NoteKind[n]]
AmountOf == [n \in Notes |-> NoteSize[n]]
RelatedTo == [n \in Notes |-> IF n = "dn0" THEN "none" ELSE "i1"]
LedgerFlag == [n \in Notes |-> n # "dn0"]
\* Requests in turn that may die, requests in turn that do not, and requests that
\* overlap but do not die.
AllDisciplines == {{"apart"}, {"apart", "drafted", "alive"}, {"drafted", "alive"}}

\* What overlaps are requests of the two notes of the invoice; nothing is paid meanwhile.
Focus == "apart" \in discipline \/ (nstatus["dn0"] = "none" /\ \A i \in Invoices : taken[i] = 0)

SymClients == Permutations(Clients)
=======================================================================
