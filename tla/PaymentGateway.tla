------------------------ MODULE PaymentGateway ------------------------
(* Online payments of one retailer: payment intents, the webhooks a       *)
(* gateway delivers about them - late, twice, out of order, to several    *)
(* handlers at once - and the receipt each captured payment becomes,      *)
(* while the back office receives, confirms and cancels receipts that     *)
(* pay the same invoice.  handleWebhook is a chain of awaits without a    *)
(* transaction around them, and confirm and cancel read before and inside *)
(* theirs: every await is a step.  A transaction sees what was committed  *)
(* before each of its statements; its one write of the invoice is one     *)
(* step with its commit, since a row written waits for its last writer.   *)
EXTENDS Money, Integers, Sequences

CONSTANTS
  Intents,       \* ids of payment intents
  Handlers,      \* webhook deliveries handled at the same time
  Clerks,        \* back office users with a request under way
  Bill,          \* grand total of the invoice
  MaxByHand,     \* bound on receipts that come from no intent
  MaxFaults      \* bound on handlers that die half way

ASSUME GatewayAssumption ==
  /\ Bill \in Nat
  /\ MaxByHand \in Nat /\ MaxFaults \in Nat
  /\ "hand" \notin Intents
  /\ Handlers \cap Clerks = {}

VARIABLES
  apart,         \* whether deliveries for one intent do not overlap, which is up
                 \*   to the gateway
  status,        \* status of each intent
  target,        \* what each intent pays of the invoice, 0 for an advance
  byRetailer,    \* intents a retailer user created: their webhooks act as that user
  captured,      \* the payments the gateway has taken
  receipts,      \* receipts in order of their numbers
  outstanding,   \* what the invoice owes
  hook,          \* what each handler is doing
  job,           \* the confirmation or cancellation each actor has under way
  crossed,       \* whether one was committed although another was committed
                 \*   since it first looked at its receipt
  handled,       \* intents of which a success is stored as processed
  faults         \* handlers that died so far

chosen == <<apart, target, byRetailer>>
intentVars == <<status, captured>>
books == <<receipts, outstanding, crossed>>
vars == <<chosen, intentVars, books, hook, job, handled, faults>>

Actors == Handlers \cup Clerks
Outcomes == {"success", "failed", "pending"}

\* A delivery: its intent and outcome, how far its handler is, and the
\* receipt number it drew.
Free == [intent |-> "hand", outcome |-> "pending", at |-> "done", no |-> 0]

\* A confirmation or a cancellation: its receipt, how far it is, the status
\* the receipt was cancelled in, what it takes from the invoice or gives back,
\* whether it chose that itself, what the invoice owed when it was read, and
\* whether another one was committed meanwhile.
Task(op, no, at) == [op |-> op, no |-> no, at |-> at, was |-> "draft", plan |-> 0, fifo |-> FALSE,
                     seen |-> 0, late |-> FALSE]
Rest == Task("none", 0, "rest")
Reading == {"begun", "opened", "planned", "paying"}

ReceiptsOf(i) == {n \in DOMAIN receipts : receipts[n].intent = i}

\* A draft receipt: what it pays of the invoice, and what it may take of it if
\* that is nothing: its amount, unless it is an advance.
Draft(i, amount, pays) ==
  [intent |-> i, status |-> "draft", amount |-> amount, pays |-> pays]

Init ==
  /\ apart \in BOOLEAN /\ target = [i \in Intents |-> 0] /\ byRetailer = {}
  /\ status = [i \in Intents |-> "absent"] /\ captured = {}
  /\ receipts = <<>> /\ outstanding = Bill /\ crossed = FALSE
  /\ hook = [h \in Handlers |-> Free] /\ job = [a \in Actors |-> Rest]
  /\ handled = {} /\ faults = 0

-----------------------------------------------------------------------
(* Intents, and what the gateway and the back office do around them     *)

\* The targets must be payable when the intent is created.
CreateIntent(i, n, creators) ==
  /\ status[i] = "absent" /\ n <= outstanding
  /\ target' = [target EXCEPT ![i] = n]
  /\ byRetailer' = byRetailer \cup creators
  /\ status' = [status EXCEPT ![i] = "initiated"]
  /\ UNCHANGED <<captured, books, hook, job, handled, faults>>

CancelIntent(i) ==
  /\ status[i] = "initiated"
  /\ status' = [status EXCEPT ![i] = "cancelled"]
  /\ UNCHANGED <<captured, books, hook, job, handled, faults>>

ExpireIntent(i) ==
  /\ status[i] \in {"initiated", "failed"}
  /\ status' = [status EXCEPT ![i] = "expired"]
  /\ UNCHANGED <<captured, books, hook, job, handled, faults>>

\* The gateway takes the money: closing the intent here does not stop it.
Capture(i) ==
  /\ status[i] # "absent"
  /\ captured' = captured \cup {i}
  /\ UNCHANGED <<status, books, hook, job, handled, faults>>

\* Any other receipt of the organization, allocated to the invoice or left to
\* its confirmation to allocate.
ReceiveByHand(n, allocated) ==
  /\ Cardinality(ReceiptsOf("hand")) < MaxByHand
  /\ allocated => n <= outstanding
  /\ receipts' = Append(receipts, Draft("hand", n, IF allocated THEN n ELSE 0))
  /\ UNCHANGED <<intentVars, outstanding, crossed, hook, job, handled, faults>>

-----------------------------------------------------------------------
(* confirm and cancel, one after the other or at the same time          *)

At(a, op, at) == job[a].op = op /\ job[a].at = at
Receipt(a) == receipts[job[a].no]
Begun(op, n) == Task(op, n, "called")
Closing(a) == Task("confirm", job[a].no, "closing")
Move(a, j) ==
  /\ job' = [job EXCEPT ![a] = j]
  /\ UNCHANGED <<intentVars, books, hook, handled, faults>>

\* The back office confirms or cancels a receipt.
Request(c, op, n) == job[c] = Rest /\ Move(c, Begun(op, n))

\* What a handler called comes back: the webhook is stored as processed.
Return(a) ==
  /\ job' = [job EXCEPT ![a] = Rest]
  /\ IF a \in Handlers
     THEN /\ handled' = handled \cup {hook[a].intent}
          /\ hook' = [hook EXCEPT ![a] = Free]
     ELSE UNCHANGED <<handled, hook>>
  /\ UNCHANGED <<intentVars, books, faults>>

\* Or throws: it is stored as failed and the gateway gets an error.
Throw(a) ==
  /\ job' = [job EXCEPT ![a] = Rest]
  /\ hook' = [h \in Handlers |-> IF h = a THEN Free ELSE hook[h]]
  /\ UNCHANGED <<intentVars, books, handled, faults>>

\* Mutant: a confirmed receipt is confirmed again.
LookAtAnyReceipt(a) ==
  /\ At(a, "confirm", "called") /\ Receipt(a).status # "cancelled"
  /\ Move(a, [job[a] EXCEPT !.at = "begun"])

\* Before its transaction confirm looks at the receipt.
LookAtDraft(a) ==
  /\ At(a, "confirm", "called") /\ Receipt(a).status = "draft"
  /\ Move(a, [job[a] EXCEPT !.at = "begun"])

\* Another handler or a user was faster: only the books remain to be kept.
ConfirmAgain(a) ==
  /\ At(a, "confirm", "called") /\ Receipt(a).status = "confirmed"
  /\ Move(a, Closing(a))

\* The transaction looks again, and lets a confirmed receipt pass.
ReopenReceipt(a) ==
  /\ At(a, "confirm", "begun") /\ Receipt(a).status # "cancelled"
  /\ Move(a, [job[a] EXCEPT !.at = "opened"])

ConfirmRefused(a) ==
  /\ At(a, "confirm", "called") \/ At(a, "confirm", "begun")
  /\ Receipt(a).status = "cancelled"
  /\ Throw(a)

ReadAllocations(a) ==
  /\ At(a, "confirm", "opened") /\ Receipt(a).pays > 0
  /\ Move(a, [job[a] EXCEPT !.at = "planned", !.plan = Receipt(a).pays])

\* Without allocations the open invoice is read and paid from, unless the
\* receipt is an advance.
PlanFifo(a) ==
  /\ At(a, "confirm", "opened") /\ Receipt(a).pays = 0
  /\ Move(a, [job[a] EXCEPT !.at = "paying", !.fifo = TRUE, !.seen = outstanding,
                            !.plan = Least(Receipt(a).amount, outstanding)])

\* cancel reads the receipt and then the allocations; they are given back only
\* if the receipt was confirmed.
LookAtReceipt(a) ==
  /\ At(a, "cancel", "called") /\ Receipt(a).status # "cancelled"
  /\ Move(a, [job[a] EXCEPT !.at = "begun", !.was = Receipt(a).status])

CancelRefused(a) ==
  At(a, "cancel", "called") /\ Receipt(a).status = "cancelled" /\ Throw(a)

ReadCancelled(a) ==
  /\ At(a, "cancel", "begun")
  /\ LET back == IF job[a].was = "confirmed" THEN Receipt(a).pays ELSE 0
     IN Move(a, [job[a] EXCEPT !.at = IF back > 0 THEN "planned" ELSE "paying",
                               !.was = "draft", !.plan = back])

ReadInvoice(a) ==
  /\ job[a].at = "planned"
  /\ job[a].op = "confirm" => job[a].plan <= outstanding
  /\ Move(a, [job[a] EXCEPT !.at = "paying", !.seen = outstanding])

AllocationExceeds(a) ==
  At(a, "confirm", "planned") /\ job[a].plan > outstanding /\ Throw(a)

\* Every other actor that has begun to read is late from now on.
Commit(a, j) ==
  /\ job' = [b \in Actors |->
       IF b = a THEN j
       ELSE IF job[b].at \in Reading THEN [job[b] EXCEPT !.late = TRUE] ELSE job[b]]
  /\ crossed' = (crossed \/ job[a].late)
  /\ UNCHANGED <<intentVars, hook, handled, faults>>

\* The new amount comes from the one read, however old.
CommitConfirm(a) ==
  /\ At(a, "confirm", "paying")
  /\ outstanding' = IF job[a].plan > 0 THEN job[a].seen - job[a].plan ELSE outstanding
  /\ receipts' = [receipts EXCEPT
       ![job[a].no].status = "confirmed",
       ![job[a].no].pays = IF job[a].fifo THEN @ + job[a].plan ELSE @]
  /\ Commit(a, Closing(a))

CommitCancel(a) ==
  /\ At(a, "cancel", "paying")
  /\ outstanding' = IF job[a].plan > 0 THEN job[a].seen + job[a].plan ELSE outstanding
  /\ receipts' = [receipts EXCEPT ![job[a].no].status = "cancelled", ![job[a].no].pays = 0]
  /\ Commit(a, Rest)

\* The wallet, the ledger and the journal are written after the transaction,
\* and any of these calls may fail.
CloseConfirm(a) == At(a, "confirm", "closing") /\ Return(a)
CloseFails(a) == At(a, "confirm", "closing") /\ Throw(a)

Settle(a) ==
  \/ LookAtDraft(a) \/ ConfirmAgain(a) \/ ReopenReceipt(a) \/ ConfirmRefused(a)
  \/ ReadAllocations(a) \/ PlanFifo(a) \/ ReadInvoice(a) \/ AllocationExceeds(a)
  \/ LookAtReceipt(a) \/ CancelRefused(a) \/ ReadCancelled(a)
  \/ CommitConfirm(a) \/ CommitCancel(a) \/ CloseConfirm(a) \/ CloseFails(a)

-----------------------------------------------------------------------
(* handleWebhook; reprocessWebhook runs it again on a stored payload     *)

Working(h, at) == hook[h].at = at
Go(h, at, n) == hook' = [hook EXCEPT ![h].at = at, ![h].no = n]
Release(h) == hook' = [hook EXCEPT ![h] = Free]

\* A delivery is stored.  A payment that was taken is reported as often as
\* the gateway likes; reports of failed attempts may come at any time.
Deliver(h, i, outcome) ==
  /\ Working(h, "done") /\ status[i] # "absent"
  /\ outcome = "success" => i \in captured
  /\ apart => \A g \in Handlers : hook[g].intent # i
  /\ hook' = [hook EXCEPT ![h] = [intent |-> i, outcome |-> outcome, at |-> "stored", no |-> 0]]
  /\ UNCHANGED <<intentVars, books, job, handled, faults>>

MarkSuccess(h) ==
  /\ Working(h, "stored") /\ hook[h].outcome = "success"
  /\ status' = [status EXCEPT ![hook[h].intent] = "success"]
  /\ Go(h, "marked", 0)
  /\ UNCHANGED <<captured, books, job, handled, faults>>

MarkFailure(h) ==
  /\ Working(h, "stored") /\ hook[h].outcome = "failed"
  /\ status' = [status EXCEPT ![hook[h].intent] = "failed"]
  /\ Go(h, "closing", 0)
  /\ UNCHANGED <<captured, books, job, handled, faults>>

\* The webhook is stored as processed.
Process(h) ==
  /\ handled' = IF hook[h].outcome = "success" THEN handled \cup {hook[h].intent} ELSE handled
  /\ Release(h)
  /\ UNCHANGED <<intentVars, books, job, faults>>

\* It is stored as failed and the gateway is answered with an error.
Fail(h) ==
  /\ Release(h)
  /\ UNCHANGED <<intentVars, books, job, handled, faults>>

ProcessPending(h) == Working(h, "stored") /\ hook[h].outcome = "pending" /\ Process(h)
ProcessFailure(h) == Working(h, "closing") /\ Process(h)

\* Mutant: the receipts there are already are not looked at.
FindNoReceipt(h) ==
  /\ Working(h, "marked")
  /\ Go(h, "checked", 0)
  /\ UNCHANGED <<intentVars, books, job, handled, faults>>

FindNone(h) ==
  /\ Working(h, "marked") /\ ReceiptsOf(hook[h].intent) = {}
  /\ Go(h, "checked", 0)
  /\ UNCHANGED <<intentVars, books, job, handled, faults>>

FindConfirmed(h, n) ==
  /\ Working(h, "marked") /\ n \in ReceiptsOf(hook[h].intent)
  /\ receipts[n].status = "confirmed"
  /\ Process(h)

\* Mutant: a draft is taken for the receipt it is going to be.
FindDraftDone(h, n) ==
  /\ Working(h, "marked") /\ n \in ReceiptsOf(hook[h].intent)
  /\ receipts[n].status # "confirmed"
  /\ Process(h)

\* Mutant: a draft left by a handler that died is not confirmed.
FindDraftIgnored(h, n) ==
  /\ Working(h, "marked") /\ n \in ReceiptsOf(hook[h].intent)
  /\ receipts[n].status # "confirmed"
  /\ Fail(h)

\* Confirming acts as the intent's creator, who may be a retailer user.
FindUnconfirmed(h, n) ==
  /\ Working(h, "marked") /\ n \in ReceiptsOf(hook[h].intent)
  /\ receipts[n].status # "confirmed"
  /\ hook[h].intent \notin byRetailer
  /\ Go(h, "confirming", 0)
  /\ job' = [job EXCEPT ![h] = Begun("confirm", n)]
  /\ UNCHANGED <<intentVars, books, handled, faults>>

FindUnconfirmable(h, n) ==
  /\ Working(h, "marked") /\ n \in ReceiptsOf(hook[h].intent)
  /\ receipts[n].status # "confirmed"
  /\ hook[h].intent \in byRetailer
  /\ Fail(h)

\* The receipt number is the number of receipts and one.
DrawNumber(h) ==
  /\ Working(h, "checked")
  /\ Go(h, "numbered", Len(receipts) + 1)
  /\ UNCHANGED <<intentVars, books, job, handled, faults>>

\* Numbers are unique and the invoice must still owe the target.
Creatable(h) == hook[h].no = Len(receipts) + 1 /\ target[hook[h].intent] <= outstanding

\* A retailer user's receipt stays a draft.
CreateReceipt(h) ==
  /\ Working(h, "numbered") /\ Creatable(h)
  /\ LET i == hook[h].intent
     IN /\ receipts' = Append(receipts, Draft(i, target[i], target[i]))
        /\ IF i \in byRetailer
           THEN handled' = handled \cup {i} /\ Release(h) /\ UNCHANGED job
           ELSE /\ Go(h, "confirming", 0)
                /\ job' = [job EXCEPT ![h] = Begun("confirm", hook[h].no)]
                /\ UNCHANGED handled
  /\ UNCHANGED <<intentVars, outstanding, crossed, faults>>

CreateFails(h) == Working(h, "numbered") /\ ~Creatable(h) /\ Fail(h)

\* The process dies and its transaction with it: the webhook stays pending and
\* nobody looks at it again.
Die(h) ==
  /\ ~Working(h, "done") /\ faults < MaxFaults
  /\ faults' = faults + 1
  /\ Release(h) /\ job' = [job EXCEPT ![h] = Rest]
  /\ UNCHANGED <<intentVars, books, handled>>

-----------------------------------------------------------------------
Handle(h) ==
  \/ MarkSuccess(h) \/ MarkFailure(h) \/ ProcessPending(h) \/ ProcessFailure(h)
  \/ FindNone(h) \/ DrawNumber(h) \/ CreateReceipt(h) \/ CreateFails(h)
  \/ \E n \in DOMAIN receipts :
       FindConfirmed(h, n) \/ FindUnconfirmed(h, n) \/ FindUnconfirmable(h, n)
  \/ Settle(h)

BackOffice ==
  \/ \E n \in 1..Bill, allocated \in BOOLEAN : ReceiveByHand(n, allocated)
  \/ \E c \in Clerks :
       \/ \E op \in {"confirm", "cancel"}, n \in DOMAIN receipts : Request(c, op, n)
       \/ Settle(c)

Act ==
  \/ \E i \in Intents :
       \/ CancelIntent(i) \/ ExpireIntent(i) \/ Capture(i)
       \/ \E h \in Handlers, outcome \in Outcomes : Deliver(h, i, outcome)
  \/ BackOffice
  \/ \E h \in Handlers : Handle(h) \/ Die(h)

Next ==
  \/ Act /\ UNCHANGED chosen
  \/ /\ \E i \in Intents, n \in 0..Bill :
          CreateIntent(i, n, {i}) \/ CreateIntent(i, n, {})
     /\ UNCHANGED apart

Unanswered(i) == i \in captured /\ i \notin handled

Report(i) ==
  /\ Unanswered(i) /\ \E h \in Handlers : Deliver(h, i, "success")
  /\ UNCHANGED chosen

\* A handler runs to its end unless it dies, and the gateway reports a
\* payment again until a report of it was processed.
Fairness ==
  /\ \A h \in Handlers : WF_vars(Handle(h) /\ UNCHANGED chosen)
  /\ \A i \in Intents : SF_vars(Report(i))

Spec == Init /\ [][Next]_vars /\ Fairness

-----------------------------------------------------------------------
(* Properties                                                           *)

\* A receipt of i is or was confirmed, or was cancelled as a draft.
Settled(i) == \E n \in ReceiptsOf(i) : receipts[n].status # "draft"

\* An intent becomes one receipt.
OneReceiptPerIntent == \A i \in Intents : Cardinality(ReceiptsOf(i)) <= 1

\* Deliveries handled one after the other, however often and in whatever
\* order, and a crash between any two awaits, never make a second receipt.
OneReceiptInTurn == apart => OneReceiptPerIntent

\* A success that is stored as processed has left a receipt that was
\* confirmed, unless a retailer user opened the intent.
ProcessedIsConfirmed ==
  \A i \in Intents \ byRetailer :
    i \in handled => Settled(i)

\* The invoice owes its bill less what the confirmed receipts pay of it, however
\* confirmations and cancellations overlap, fail and are repeated, until one is
\* committed although another was committed since it first looked: only then is
\* money lost or taken twice.
InvoiceConserved ==
  crossed \/
    outstanding
      + Total([n \in DOMAIN receipts |->
                 IF receipts[n].status = "confirmed" THEN receipts[n].pays ELSE 0],
              DOMAIN receipts) = Bill

\* A payment on account that was taken ends up in a confirmed receipt, as
\* long as the gateway repeats its report until it is accepted.
AdvanceIsReceipted ==
  \A i \in Intents :
    i \in captured /\ target[i] = 0 /\ i \notin byRetailer ~> Settled(i)
=======================================================================
