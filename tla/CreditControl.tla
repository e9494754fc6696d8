------------------------- MODULE CreditControl -------------------------
(* The credit of one retailer: what it owes is read off its invoices and  *)
(* cached, its limit is kept in two rows that every refresh of the cache  *)
(* writes back, and invoices are drawn up and posted when the cached      *)
(* figures allow it.  What happens to invoices otherwise, which Settlement *)
(* and Fulfilment have in full, is one step here.                         *)
EXTENDS Integers, FiniteSets, Functions, SequencesExt

CONSTANTS
  Sessions,
  Invoices, Orders,
  OrderOf,     \* the order an invoice is for, or "none"
  Amounts,     \* what an invoice bills, a receipt pays or an override grants
  Limits,      \* credit limits
  Policies,    \* what the back office may agree on besides the limit
  DefaultPolicy,
  MaxGrants, MaxDied,   \* bounds on overrides in force, on requests that die
  Overlaps     \* sets of kinds of requests, one of which is chosen

ASSUME CreditAssumption ==
  /\ IsFiniteSet(Invoices) /\ "none" \notin Invoices \cup Orders
  /\ OrderOf \in [Invoices -> Orders \cup {"none"}]
  /\ Amounts \subseteq Nat \ {0} /\ Limits \subseteq Nat
  /\ DefaultPolicy \in Policies
  /\ Policies \subseteq [active : BOOLEAN, manager : BOOLEAN, block : BOOLEAN, overdueOk : BOOLEAN]

VARIABLES
  overlap,   \* the kinds of requests that are sent without waiting for one another
  invoice,   \* status ("posted" with or without payments), total, what is owed
             \*   of it, whether its due date has passed
  limit,     \* the limit in the retailer's own row
  profile,   \* the credit profile, once made: limit, policy, cached debt
  metric,    \* the payment metric: cached debt, and whether some is overdue
  grants,    \* overrides in force, the latest first
  agreed,    \* the terms last given by the back office
  req,       \* what each client is doing, and the steps it has left
  died       \* kinds of the requests that died half way

rows == <<invoice, limit, profile, metric, grants, agreed>>
credit == <<overlap, rows, req, died>>

Absent == [status |-> "none", total |-> 0, owed |-> 0, late |-> FALSE]
AtRest == [op |-> "none"]
Terms == {"upsertProfile", "updateSettings"}

InitCredit ==
  /\ overlap \in Overlaps
  /\ invoice = [i \in Invoices |-> Absent]
  /\ limit \in Limits
  /\ profile = [made |-> FALSE, limit |-> 0, policy |-> DefaultPolicy, owed |-> 0]
  /\ metric = [made |-> FALSE, owed |-> 0, late |-> FALSE]
  /\ grants = <<>>
  /\ agreed = [limit |-> limit, policy |-> DefaultPolicy]
  /\ req = [c \in Sessions |-> AtRest]
  /\ died = {}

OneByOne == overlap = {}
Quiet == \A c \in Sessions : req[c] = AtRest
Free(c, op) ==
  /\ req[c] = AtRest
  /\ \A d \in Sessions : req[d] # AtRest => {op, req[d].op} \subseteq overlap

\* Drafts are not owed yet; an invoice is overdue as soon as it is drawn up.
Owed ==
  LET live == {i \in Invoices : invoice[i].status = "posted"}
  IN FoldFunctionOnSet(+, 0, [i \in live |-> invoice[i].owed], live)
Late == \E i \in Invoices :
  invoice[i].status \in {"draft", "posted"} /\ invoice[i].owed > 0 /\ invoice[i].late

-----------------------------------------------------------------------
\* A request is the steps it has left to take.
Refresh == <<"read", "cacheProfile", "cacheMetric">>

\* A request begins with r, which has its steps, or is over when it has none.
Becomes(c, r) == req' = [req EXCEPT ![c] = IF r.todo = <<>> THEN AtRest ELSE r]
Begins(c, r) == Free(c, r.op) /\ Becomes(c, r)
At(c, step) == req[c] # AtRest /\ Head(req[c].todo) = step
Goes(c) == Becomes(c, [req[c] EXCEPT !.todo = Tail(@)])
Asks(op, todo) ==
  [op |-> op, todo |-> todo, invoice |-> "none", order |-> "none", amount |-> 0, status |-> "none",
   policy |-> DefaultPolicy, limit |-> 0, owed |-> 0, late |-> FALSE]

\* A profile's limit stands before the retailer's own.
Read(c) ==
  /\ At(c, "read")
  /\ Becomes(c, [req[c] EXCEPT !.todo = Tail(@), !.owed = Owed, !.late = Late,
                               !.limit = IF profile.made THEN profile.limit ELSE limit])
  /\ UNCHANGED <<overlap, rows, died>>

\* The limit that was read is written with the debt.
CacheProfile(c) ==
  /\ At(c, "cacheProfile")
  /\ profile' = [profile EXCEPT !.made = TRUE, !.limit = req[c].limit, !.owed = req[c].owed]
  /\ Goes(c)
  /\ UNCHANGED <<overlap, invoice, limit, metric, grants, agreed, died>>

CacheMetric(c) ==
  /\ At(c, "cacheMetric")
  /\ metric' = [made |-> TRUE, owed |-> req[c].owed, late |-> req[c].late]
  /\ Goes(c)
  /\ UNCHANGED <<overlap, invoice, limit, profile, grants, agreed, died>>

-----------------------------------------------------------------------
\* The overrides of a type that serve a request for order o: those for that order
\* and those for none; one for an order serves every request that names none.
Serving(type, o) == {k \in DOMAIN grants : grants[k].type = type /\ ("none" \in {o, grants[k].order} \/ grants[k].order = o)}

\* Of the overrides of the limit only the latest counts.
Covered(over, o) ==
  \E k \in Serving("limit", o) : (\A j \in Serving("limit", o) : k <= j) /\ grants[k].amount >= over

\* A mutant: what the transaction itself adds is forgotten.
AllowedSoFar(n, o) ==
  LET over == metric.owed - profile.limit
  IN /\ profile.policy.active
     /\ metric.late => profile.policy.overdueOk \/ Serving("overdue", o) # {}
     /\ over > 0 => \/ Covered(over, o)
                    \/ ~profile.policy.manager /\ ~profile.policy.block

Allowed(n, o) ==
  LET over == metric.owed + n - profile.limit
  IN /\ profile.policy.active
     /\ metric.late => profile.policy.overdueOk \/ Serving("overdue", o) # {}
     /\ over > 0 => \/ Covered(over, o)
                    \/ ~profile.policy.manager /\ ~profile.policy.block

\* A request that is not allowed ends with an error.
Decide(c) ==
  /\ At(c, "decide")
  /\ IF Allowed(req[c].amount, req[c].order) THEN Goes(c) ELSE Becomes(c, Asks(req[c].op, <<>>))
  /\ UNCHANGED <<overlap, rows, died>>

\* Views of the credit, approvals of orders and starts of trips: whatever they
\* come to, here they refresh.
Look(c) ==
  /\ Begins(c, Asks("look", Refresh))
  /\ UNCHANGED <<overlap, rows, died>>

CreateInvoice(c, o, n, status) ==
  /\ Begins(c, [Asks("bill", Refresh \o <<"decide", "create">> \o IF status = "posted" THEN Refresh ELSE <<>>)
                  EXCEPT !.order = o, !.amount = n, !.status = status])
  /\ UNCHANGED <<overlap, rows, died>>

CommitCreate(c) ==
  /\ At(c, "create")
  /\ \E i \in Invoices :
       /\ invoice[i].status = "none" /\ OrderOf[i] = req[c].order
       /\ invoice' = [invoice EXCEPT ![i] =
            [status |-> req[c].status, total |-> req[c].amount, owed |-> req[c].amount, late |-> FALSE]]
  /\ Goes(c)
  /\ UNCHANGED <<overlap, limit, profile, metric, grants, agreed, died>>

Post(c, i) ==
  /\ invoice[i].status \in {"draft", "posted"}
  /\ Begins(c, IF invoice[i].status = "posted" THEN Asks("bill", Refresh)
               ELSE [Asks("bill", Refresh \o <<"decide", "post">> \o Refresh)
                       EXCEPT !.invoice = i, !.order = OrderOf[i], !.amount = invoice[i].owed, !.status = "posted"])
  /\ UNCHANGED <<overlap, rows, died>>

CommitPost(c) ==
  /\ At(c, "post")
  /\ invoice' = [invoice EXCEPT ![req[c].invoice].status = "posted"]
  /\ Goes(c)
  /\ UNCHANGED <<overlap, limit, profile, metric, grants, agreed, died>>

-----------------------------------------------------------------------
\* What else changes the debt, each with a refresh after it.

Changes(c, becomes) ==
  /\ invoice' = becomes
  /\ Begins(c, Asks("settle", Refresh))
  /\ UNCHANGED <<overlap, limit, profile, metric, grants, agreed, died>>

\* A receipt is confirmed; a draft that is paid counts as posted.
Pay(c, i, n) ==
  /\ invoice[i].status \in {"draft", "posted"} /\ n <= invoice[i].owed
  /\ Changes(c, [invoice EXCEPT ![i].owed = @ - n, ![i].status = "posted"])

\* A receipt is cancelled.
Unpay(c, i, n) ==
  /\ invoice[i].status = "posted" /\ invoice[i].owed + n <= invoice[i].total
  /\ Changes(c, [invoice EXCEPT ![i].owed = @ + n])

\* A mutant: a cancelled invoice is not refreshed for.
CancelUnrefreshed(c, i) ==
  /\ invoice[i].status \in {"draft", "posted"} /\ invoice[i].owed = invoice[i].total
  /\ req[c] = AtRest /\ (OneByOne => Quiet)
  /\ invoice' = [invoice EXCEPT ![i].status = "cancelled", ![i].owed = 0]
  /\ UNCHANGED <<overlap, limit, profile, metric, grants, agreed, req, died>>

Cancel(c, i) ==
  /\ invoice[i].status \in {"draft", "posted"} /\ invoice[i].owed = invoice[i].total
  /\ Changes(c, [invoice EXCEPT ![i].status = "cancelled", ![i].owed = 0])

\* An unpaid invoice is replaced by one that bills n, whatever the credit.
Revise(c, i, j, n) ==
  /\ invoice[i].status = "posted" /\ invoice[i].owed = invoice[i].total
  /\ invoice[j].status = "none" /\ OrderOf[j] = OrderOf[i]
  /\ Changes(c, [invoice EXCEPT
       ![i].status = "cancelled", ![i].owed = 0,
       ![j] = [status |-> "posted", total |-> n, owed |-> n, late |-> FALSE]])

-----------------------------------------------------------------------
\* Terms.

UpsertCreditProfile(c, l, p) ==
  /\ Begins(c, [Asks("upsertProfile", Refresh \o <<"setLimit", "setProfile">> \o Refresh)
                  EXCEPT !.amount = l, !.policy = p])
  /\ UNCHANGED <<overlap, rows, died>>

\* The settings of a retailer leave the policy as it is, and refresh nothing.
UpdateCreditSettings(c, l) ==
  /\ Begins(c, [Asks("updateSettings", <<"setLimit", "setProfile">>) EXCEPT !.amount = l])
  /\ UNCHANGED <<overlap, rows, died>>

SetLimit(c) ==
  /\ At(c, "setLimit")
  /\ limit' = req[c].amount
  /\ agreed' = [limit |-> req[c].amount,
                policy |-> IF req[c].op = "upsertProfile" THEN req[c].policy ELSE agreed.policy]
  /\ Goes(c)
  /\ UNCHANGED <<overlap, invoice, profile, metric, grants, died>>

\* A mutant: the policy is updated and the limit left to the retailer's row.
SetPolicyOnly(c) ==
  /\ At(c, "setProfile")
  /\ profile' = [profile EXCEPT !.policy = IF req[c].op = "upsertProfile" THEN req[c].policy ELSE @]
  /\ Goes(c)
  /\ UNCHANGED <<overlap, invoice, limit, metric, grants, agreed, died>>

SetProfile(c) ==
  /\ At(c, "setProfile")
  /\ profile' = [profile EXCEPT !.made = TRUE, !.limit = req[c].amount,
                                !.policy = IF req[c].op = "upsertProfile" THEN req[c].policy ELSE @]
  /\ Goes(c)
  /\ UNCHANGED <<overlap, invoice, limit, metric, grants, agreed, died>>

CreateCreditOverride(c, type, n, o) ==
  /\ Free(c, "override") /\ Len(grants) < MaxGrants
  /\ grants' = <<[type |-> type, amount |-> n, order |-> o]>> \o grants
  /\ UNCHANGED <<overlap, invoice, limit, profile, metric, agreed, req, died>>

\* Time passes: an override expires, an invoice falls overdue.
Expire(k) ==
  /\ OneByOne => Quiet
  /\ grants' = RemoveAt(grants, k)
  /\ UNCHANGED <<overlap, invoice, limit, profile, metric, agreed, req, died>>

FallDue(i) ==
  /\ OneByOne => Quiet
  /\ invoice[i].status \in {"draft", "posted"} /\ ~invoice[i].late
  /\ invoice' = [invoice EXCEPT ![i].late = TRUE]
  /\ UNCHANGED <<overlap, limit, profile, metric, grants, agreed, req, died>>

\* A request dies between two of its steps.
Die(c) ==
  /\ req[c] # AtRest /\ Cardinality(died) < MaxDied
  /\ died' = died \cup {req[c].op}
  /\ req' = [req EXCEPT ![c] = AtRest]
  /\ UNCHANGED <<overlap, rows>>

-----------------------------------------------------------------------
Checking(c) ==
  \/ Read(c) \/ CacheProfile(c) \/ CacheMetric(c) \/ Decide(c) \/ Look(c)
  \/ \E o \in Orders \cup {"none"}, n \in Amounts, st \in {"draft", "posted"} : CreateInvoice(c, o, n, st)
  \/ \E i \in Invoices : Post(c, i)
  \/ CommitCreate(c) \/ CommitPost(c)

Changing(c) ==
  \E i \in Invoices :
    \/ \E n \in Amounts : Pay(c, i, n) \/ Unpay(c, i, n)
    \/ \E j \in Invoices, n \in Amounts : Revise(c, i, j, n)
    \/ Cancel(c, i)

Agreeing(c) ==
  \/ \E l \in Limits : \E p \in Policies : UpsertCreditProfile(c, l, p)
  \/ \E l \in Limits : UpdateCreditSettings(c, l)
  \/ SetLimit(c) \/ SetProfile(c)
  \/ \E type \in {"limit", "overdue"}, n \in Amounts, o \in Orders \cup {"none"} :
       CreateCreditOverride(c, type, n, o)

NextCredit ==
  \/ \E c \in Sessions : Checking(c) \/ Changing(c) \/ Agreeing(c) \/ Die(c)
  \/ \E k \in DOMAIN grants : Expire(k)
  \/ \E i \in Invoices : FallDue(i)

CreditSpec == InitCredit /\ [][NextCredit]_credit

-----------------------------------------------------------------------
\* What the code keeps while the terms are not given by two requests at once, or
\* while others are under way, and no request that gives them dies.
TermsAlone == (overlap \cup died) \cap Terms = {}

\* Overlapping checks and refreshes, which all write a limit back, never bring
\* back one that was replaced: the terms in force are those last given
\* (payment-metrics.service: refreshRetailerMetrics).
TermsStand ==
  TermsAlone /\ (\A c \in Sessions : req[c].op \notin Terms) =>
    /\ limit = agreed.limit
    /\ profile.made => profile.limit = agreed.limit /\ profile.policy = agreed.policy

\* Requests one by one: at rest the cached debt is what the invoices owe, after any
\* sequence of postings, payments, revisions and cancellations, unless a request
\* died before its refresh.
OwedIsCached ==
  OneByOne /\ Quiet /\ died = {} =>
    /\ profile.made => profile.owed = Owed
    /\ metric.made => metric.owed = Owed

\* An invoice is drawn up or posted by a check only on the terms last given: while
\* credit is active; and, requests one by one, within the limit and an override, and
\* not while something is overdue, unless the terms are lenient.  Requests that
\* died before refreshing the figures make no difference to the next check.
PostedOnTerms ==
  [][\A c \in Sessions : (TermsAlone /\ (CommitCreate(c) \/ CommitPost(c))) =>
       /\ agreed.policy.active
       /\ OneByOne /\ req[c].status = "posted" =>
            /\ Late => agreed.policy.overdueOk \/ \E k \in DOMAIN grants : grants[k].type = "overdue"
            /\ Owed' > agreed.limit =>
                 \/ ~agreed.policy.manager /\ ~agreed.policy.block
                 \/ \E k \in DOMAIN grants :
                      grants[k].type = "limit" /\ grants[k].amount >= Owed' - agreed.limit]_credit
=======================================================================
