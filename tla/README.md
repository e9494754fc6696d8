# Verification of the dairy distributor ERP

TLA+ models of the server in `src/backend` (NestJS, Prisma, PostgreSQL): what its
services do to the rows they share, statement by statement where that matters,
checked with TLC on small instances and, for the properties that matter most,
proved with TLAPS for every value of the constants.

- [1. The system](#1-the-system): its parts, their state, how they interact, what is hard
- [2. The modules](#2-the-modules): what models what
- [3. The runs](#3-the-runs): what TLC checks, in which bounds, under which fairness
- [4. The proofs](#4-the-proofs): what is proved, from what, and how
- [5. Where the code and its documents disagree](#5-where-the-code-and-its-documents-disagree)
- [6. What is not modelled](#6-what-is-not-modelled)
- [7. Plan](#7-plan)

`PROJECT.json` lists the components, the runs, the definitions with the source lines
they stand for, the hazards and the theorems.

## 1. The system

One server process (or several) serves a back office, delivery staff and retailers.
All state of record is in PostgreSQL; a service method reads rows, awaits, computes,
and writes rows back. Three facts shape everything below:

* **READ COMMITTED, no locks.** No query takes a row lock and no transaction asks for a
  stronger isolation level. A service reads a row, awaits, and writes back an
  *absolute* value (`outstandingAmount: newOutstanding`), so of two overlapping
  requests one update is lost.
* **Guards before transactions.** Most methods check a status in a query of their own and
  open the transaction afterwards.
* **Books outside the transaction.** A receipt's or note's transaction covers its own rows.
  The wallet, the retailer ledger, the journal and the metrics are written by
  awaits after the commit; nothing repeats them when the process dies in between.

### Components

| part | state | operations | must hold |
|---|---|---|---|
| receipts and allocations (`operations/payments/payments.service.ts`) | receipts, allocations, invoice balances | create (manual, FIFO), allocate, reallocate, auto-allocate, confirm, cancel, delivery-stop collection | money is conserved: bill = owed + confirmed allocations; a receipt is fully split; a receipt acts once |
| sales invoices (`sales-invoices`) | invoice rows, versions | create, edit, post, cancel, delete, revise, recompute from a delivery | status follows the balance; a void invoice holds no money |
| advance wallet (`advance-wallet.service.ts`) | balance and transactions of a retailer | credit from a receipt, reverse, adjust | balance = sum of transactions; never negative |
| retailer ledger (`retailer-ledger.service.ts`) | append-only entries with running balances | post and reverse invoice, receipt, note | one entry per document and kind; balances in sequence; per retailer |
| journal (`finance/accounting`) | journal entries | post invoice / receipt / note, reverse | one entry per document; reversals only of what was entered |
| payment intents and webhooks | intents, stored webhooks | open, cancel, expire; handle an event | a payment taken becomes exactly one confirmed receipt |
| credit and debit notes | notes, their applied amounts | create, post, cancel | applied once, undone once, in books and invoice alike |
| metrics, credit control | cached debt, a limit kept in two rows, credit profiles, overrides | refresh, check, set terms, override | invoices are drawn up on the terms last given; the cache follows the rows |
| inventory, goods receipts, supplier and sales returns | batches, stock movements, documents | enter, edit, approve, post, restock, reject | batches reconcile with movements; nothing from nowhere; moved once |
| sales orders | orders and their items | create, duplicate, edit, recalculate, approve, reject, cancel, remove | what was bought for an order stays asked for |
| demand consolidations, purchase orders | consolidations with the quantity to procure, orders | build, rebuild, edit, approve, order, cancel, receive | what is bought is what was demanded; status follows receipts |
| dispatch, delivery | trips, loading sheets, stops | create, load, start, report, complete | no trip leaves unloaded; delivered and taken back <= loaded; invoices follow deliveries |
| crates and the drivers' offline queue | crate transactions, counters of a stop; the queue in the phone's local storage | enter, queue, flush, record, count | an entry is recorded or still held; counted no more than recorded |
| purchase invoices (`purchase-invoices`) and the receipts that pay them | status and total of an invoice; allocations, from which what is left of it is worked out | create, edit, approve, post; allocate, confirm, cancel | confirmed receipts pay no more than is billed |
| claims, proofs of delivery | single rows | create, approve, ... | (nothing reads them) |
| auth and sessions | users, sessions; one-time codes in memory | log in, refresh, reset | a token serves once |
| master data, settings, users, roles, lookups, reports, dashboard, files, notifications, ai, sync, the rest of the frontend | single rows or none | create / read / update | (no interaction to model) |

### How they interact

Everything meets in the invoice balance and in the books. `confirm` of a receipt reduces
`outstandingAmount` of its invoices; `cancel` restores it; notes reduce, raise and restore
it; cancelling and revising an invoice resets it. Receipts paid to suppliers write the status of purchase
invoices, which keep no balance. Each then calls, in a fixed order, the
wallet, the ledger, the journal and the metrics. A gateway webhook marks an intent and then
makes a receipt *through the same service*. Every change of the debt refreshes the cached metrics that
decide on the next invoice. Orders are consolidated into a demand, bought, received into batches,
loaded on trips out of those batches, and delivered; what a stop reports recomputes or cancels
the invoices of its order and trip. An approved sales return restocks and creates a credit note.
Drivers report from phones that lose their connection, through a queue that is sent later.

### What is hard

The hazards are listed in `PROJECT.json` at their lines. In short: overlapping requests that
lose updates or act twice; statuses checked too early; requests that die between the commit
and the books, and retries that do not make up for it; duplicated, delayed and reordered
webhooks; ledger entries dated back; a clamp at zero; long legal sequences of receipts, notes,
cancellations and revisions that must keep the sums right; stock that several postings write
back as absolute quantities; orders edited after they were consolidated, loaded or billed; a
refresh that writes a limit back while it is changed; queued requests sent twice or given up.

## 2. The modules

| module | about |
|---|---|
| `Money` | totals over finite index sets, and first-in-first-out shares |
| `Receivables` | the *abstract* account: bills, settlements made and undone as a whole, nothing settled beyond its bill |
| `Settlement` | receipts, allocations, invoices, wallet, ledger and journal; requests one at a time, faults between their calls |
| `SettlementRace` | the same transactions interleaved statement by statement |
| `PaymentGateway` | intents, deliveries of webhooks, the receipts they become, and the confirmations and cancellations around them, await by await |
| `SupplierPayments` | purchase invoices, and receipts allocated to them row by row |
| `Purchasing` | `Procurement` and `SupplierPayments` side by side |
| `RetailerLedger` | one ledger posting taken apart: look up, read the balance, draw a number, insert |
| `RetailerNotes` | credit and debit notes against invoices that are paid and cancelled meanwhile |
| `CreditControl` | the cached debt and limit of a retailer, and the invoices drawn up when they allow it |
| `Stock` | batches and the documents that move them, statement by statement |
| `SalesOrders` | orders of a retailer; extended by the next two |
| `Fulfilment` | orders to trips, stops, what drivers report, and the invoices drawn from it |
| `Procurement` | orders to consolidated demand, purchase orders and goods receipts |
| `FieldEntries` | the phone's offline queue and the crate entries the server makes of it |
| `MC...` | values of the constants and symmetry for TLC |
| `...Proofs`, `MoneyTheorems` | theorems |

### How they compose

`Settlement` refines `Receivables`: its rows are mapped to bills and settlements
(`Account == INSTANCE Receivables WITH billed <- Billed, applied <- Applied`), checked as the
property `ImplementsAccount` and proved as `RefinesAccount`. `SettlementRace` has the same
mapping and implements the account when requests in flight use different documents
(run `race`). `RetailerLedger` takes apart what `Settlement` and
`RetailerNotes` treat as one step, the appending of an entry. `SalesOrders` is not a specification of its
own: its actions take as parameters which orders are locked, and `Fulfilment` and
`Procurement` extend it with what becomes of the orders (`NextOrders({})` on a delivery cycle nobody
consolidated, `NextOrders` of the locked orders in `Procurement`). `Stock` has the batches behind the
loading sheets of `Fulfilment` and the receipts of `Procurement`, which leave them out; `CreditControl` has
the decision behind the refusals of `Fulfilment`. `Purchasing` puts `Procurement` and `SupplierPayments` together: a purchase
invoice may name a goods receipt of its supplier, whatever its status, and neither is written for the other, so their steps only interleave.

### `Settlement`

A request first commits one transaction (or one update) and then makes calls. An action is the
whole transaction; it also sets `todo`, the sequence of calls the request still has to make, in
the order of the source. The calls are actions of their own: `PostReceiptCredit` is
`postReceiptCredit` with its look-up of an earlier entry, `CreditFromReceipt` and
`UpdateBalance` are the two statements of a wallet posting, `CreateJournalEntry` and
`LinkJournalEntry` the two of a journal entry. `ReverseAdvanceRefused` is the wallet's
refusal, after which the rest of the request is not run. `Fault` drops what is left of `todo`:
the process died, or a call threw.

| variables | code |
|---|---|
| `istatus`, `grandTotal`, `outstanding` | `SalesInvoice.status`, `.grandTotal`, `.outstandingAmount` (`absent` and `deleted`: no such row) |
| `rstatus`, `amount`, `unallocated`, `isAdvance`, `alloc` | `PaymentReceipt` and its `PaymentAllocation` rows, added up per invoice |
| `balance`, `credited`, `debited`, `adjusted` | the wallet's balance, and its transactions by receipt or by hand |
| `ledger` | ledger entries as `<<kind, document>>` |
| `vouchers`, `linked`, `mirrors`, `voided` | journal entries of a document, its `journalEntryId`, reversing entries, the mark on the reversed one |

`confirmed` receipts of a retailer, staff collections at a delivery stop and gateway receipts all
go through `CreateReceipt` with its `confirm` flag, as they go through `createReceiptInternal`.
Abstracted: amounts are natural numbers of a small set (rounding to paise is exact on them);
all receipts are of one retailer; metrics and notifications are left out. A first-in-first-out plan takes
invoices by due date and invoice date, both of which are days (`Day`), so it may take those of one day in any order:
`SortedBy` is the set of orders the database may return. The branches of these methods for receipts paid to
suppliers, which share no row with the others, are in `SupplierPayments`.

### `SettlementRace`

A request is `begun` (it read what it checks before the transaction), `opened`, `paying`. `seen`
holds what it read, `work` the invoice rows it wrote and did not commit. Reading and
writing an invoice are separate steps; a write waits while another open transaction has
written the row (`work`), and overwrites it afterwards: READ COMMITTED. `apart`, chosen at
first and never changed, is the assumption that requests in flight use different documents.
Nothing in the code enforces it: some properties are claimed only under it, others for both values.
`day` says which invoices are older and which are of one day, and each first-in-first-out plan picks an order of
its own among the latter; `WaitsFor` is a request whose next row another has written.
`race_confirm_twice` shows what happens without. Left out: `reallocate` and
`autoAllocateFifo` (their statements are those of creating and of confirming) and the books.

### `PaymentGateway`

The gateway is external: it may deliver a captured payment any number of times, at any
time, to several handlers at once, in any order, and reports failed attempts too. A
handler is a chain of steps, `stored`, `marked`, `checked`, `numbered`, `confirming`, `closing`, one
for every commit of `handleWebhook` and
`createConfirmedGatewayReceiptForIntent`. Handlers may die anywhere (`MaxFaults`).
`target` and `byRetailer` are chosen when an intent is created: what it pays of the invoice, and
whether a retailer opened it, whose receipts the code does not confirm. `apart` says whether the
deliveries for one intent are handled one after the other, which is up to the gateway.

Confirming and cancelling a receipt is a `job` of an actor, a handler or a user of the back office (`Clerks`), and a
step for every await: `confirm` looks at the status before its transaction (`LookAtDraft`, `ConfirmAgain`), looks
again inside and there lets a confirmed receipt pass (`ReopenReceipt`), reads allocations and the invoice or plans
(`ReadAllocations`, `ReadInvoice`, `PlanFifo`), and commits an *absolute* amount worked out from what it
read (`CommitConfirm`); `cancel` likewise. The update of the invoice and the commit are one step, because the row written
is locked until then and nothing else is written to it. Nothing stops two actors from settling one receipt, or two
receipts of one invoice, at once: money is lost then. `late` marks a job during which another was committed, and
`crossed` that a late one has committed, which is what `InvoiceConserved` leaves out: short of that, whatever overlaps, fails, dies
or is repeated, the books are right. The violation run `race_confirm_twice` shows what happens otherwise.

### `SupplierPayments`

One supplier. A purchase invoice keeps no balance; what is left of it is its total less all its
allocations, those of drafts included. `CreateAllocation`, `Confirm` and `Cancel` read and decide; `ConfirmRow` and
`CancelRow` go through the allocations of the receipt, each reading the others again, and note the status that the commit
will write (`marks`). `Abort` is a transaction that fails or a process that dies.
What callers keep to, `Apart`: requests about one receipt are sent in turn, and no invoice is edited while a receipt is being
confirmed. What the code does and `NeverOverpaid` has to leave out: two rows of one receipt to one invoice
are each held against the same amount when it is confirmed, and may together exceed it. An invoice that is paid can
still be approved and posted, and counts a draft of another receipt as paid. Apart from these methods nothing decides on the status.
Left out: the journal entry after a confirmation, which is as in `Settlement`.

### `RetailerLedger`

A posting is four statements: look for an entry of the document, read the last balance, count the
entries for the next number, insert. Numbers are unique in the schema, so an insert with
a number taken meanwhile fails. Entry times are distinct (`stamp`). `discipline`, chosen
among `Disciplines` at first, is what the callers keep to: `"apart"` if postings for one retailer do not
overlap, `"forward"` if none is dated before the retailer's last entry. The code makes them do neither.

### `RetailerNotes`

A note request reads the note, reads the invoice, commits a transaction that writes both, posts to the
ledger, makes a journal entry and links it (or reverses the entry it read at first).
Step by step these are `Begin...`, `ReadInvoice`, `CommitPost` / `CommitCancel`, `PostLedger`,
`CreateJournalEntry`, `LinkJournalEntry`, `ReverseJournalEntry`, `Finish`. Payments of the invoice
and its cancellation are one step each; a ledger posting and a journal reversal are too. `discipline` is
again what callers keep to: `"apart"` if requests in flight share no note and no invoice, `"drafted"` if no
credit note is created as `posted`, which the DTO allows, `"alive"` if no request dies half way.

### `Stock`

One variant in one warehouse, so a document has one item. A posting begins by reading its document
(`Begin`, outside the transaction), reads the batches (`ReadBatches`), writes each back as an absolute
quantity with its movement (`WriteBatch`; a written row is locked until the end) and commits
(`CommitPost`) or rolls back (`Abort`). An approved sales return increments instead, and makes its credit
note over a connection of its own inside the transaction (`CreateCreditNote`), so the note survives a rollback
(`dropped`). `Of` says which rows a document may mean, `Rank` the order in which goods leave.
Quantities are in thousandths. A supplier return may exceed its batch by one and is clamped at zero, hence
the tolerance in `BatchesReconcile`. Rejecting a sales return looks at no status, so it can be approved and
restocked again (`reopened`). `apart` says that users keep requests on the same document or batch apart.
Batch status, values and warehouses are left out.

### `SalesOrders`, `Fulfilment`

A request that reads before it writes is two actions: `UpdateOrder` reads and decides, `CommitUpdateOrder`
is the transaction, which does not look again. `overlap` is the set of kinds of requests users send without
waiting for one another, `{}` if they wait for each (`InTurn`). Reads that follow one another without a write in
between are one step.

| variables | code |
|---|---|
| `order` | `SalesOrder.status`, ordered and approved quantity, and the edition of its items, which an edit deletes and creates anew |
| `trip`, `stop` | `DispatchTrip.status`; stops with ordered, loaded, delivered and returned quantity of their item |
| `invoice` | status, order and trip it is for, quantity billed, whether a receipt, be it a draft, has something allocated to it (`allocated`), and whether one had or it was rewritten by hand since it last followed a delivery (`touched`, a history) |

The report of a stop (`UpdateStopStatus`) reads, `CommitStop` writes stop, order and quantities, and `FindInvoices`,
`FollowDelivery` go through the invoices of the order and trip one by one. An invoice with an allocation is
refused by `assertDraftEditable`, `assertPostedUnpaidRevisable` and `cancel` alike (`Unclaimed`); the delivery passes the refusal over, and
the invoice keeps billing what it billed, which is why `BilledAsDelivered` is about invoices nothing was allocated to. `Allocate`,
`Release`, `Pay` and `Unpay` are what `Settlement` has in full. `assertDraftEditable` also refuses drafts with a
journal entry; only posting makes one. A stop that was refused
is as one that failed. Left out: prices, challan numbers, vehicles and drivers, crates, proofs of delivery, invoices of
custom items, changes of route; a refusal for credit or stock is `Refused`.
What the code does and the properties leave out: an order edited after its trip was made is billed as ordered
(`sales-invoices.service.ts:1224` finds no stop item); a stop that fails cancels the trip's invoices of that
retailer; a delivery of nothing leaves the invoice; a trip is completed whatever its status.

### `Procurement`

A consolidation is created from eligible orders, rebuilt, its item edited, approved; purchase orders are made by
hand or drawn from it, edited, given extras, approved, cancelled; receipts of them are created at any status,
edited, approved, posted. The status of a purchase order is computed after the posting's transaction
(`ReadReceipts`, then the write), and a request may die before it (`DieAfterPosting`, `unsynced`). An item keeps the
`edition` it had, and a receipt may refer to an item that is no longer there. Suppliers, prices and taxes are left out.

### `FieldEntries`

`thread`s of the phone call the server directly or flush the queue: `Execute`, `Send`, `Succeeds`, `Fails`,
`SendOffline`. `handler`s of the server read the stop, record the entry and write the counters back, three steps.
An answer may be lost (`LoseAnswer`), the page reloaded (`Reload`: what was under way is lost, the queue is
not), the process die after recording (`DieRecorded`). A queued entry keeps the access token of the moment it was
made; when it has expired the server refuses it at every flush (`expired`). The other kinds of queued
requests behave alike on the phone; what the server does with them is in `Fulfilment` and `Settlement`.

### `CreditControl`

A request is the list of steps it has left (`todo`): read the limit and the invoices, write the credit profile
*with the limit that was read*, write the metric, decide, draw up or post the invoice, refresh again. `Die`
drops the rest. `agreed` is a history: the terms the back office gave last. Payments, cancelled receipts, cancellations
and revisions, which `Settlement` has in full, are one step with a refresh after it; notes act on the debt alike.
Approvals of orders, starts of trips and views are `Look`: whatever they come to, here they refresh.
Of the overrides of the limit only the latest counts (`Covered`), and one for an order serves requests that name
none (`Serving`). `OneByOne` says that requests wait for each other.
Days, risk levels, warnings and `availableCredit` are left out: nothing decides on them. A cancelled receipt, a
revision and a draft that is paid directly raise the debt without a check; the code does so, and `PostedOnTerms`
speaks only of checks.

## 3. The runs

Passing runs, 2 workers, one to three minutes each:

| run | asks | distinct states |
|---|---|---|
| `settlement` | row and book invariants, and the refinement of the account, with no request dying | 1.5 M |
| `settlement_faults` | what stays true when requests die between their calls; a confirmed receipt reaches ledger and journal | 1.2 M |
| `race` | requests on different documents conserve money and implement the account; whatever overlaps, rows are consistent, and first-in-first-out confirmations wait for each other only over invoices of one day | 2.9 M |
| `gateway` | duplicates, reordering, crashes: one receipt for deliveries in turn, processed payments are confirmed, a captured advance at last becomes a confirmed receipt; a handler and a user settle receipts of one invoice await by await, and it is conserved until one commits over another | 1.0 M |
| `ledger` | balances continue each other, one entry per document | 1.4 M |
| `notes` | invoices never owe less than their documents say; ledger and journal hold exactly the posted notes; reversals are of what was posted | 1.0 M |
| `stock` | batches agree with their movements, documents move stock once; overlapping, nothing comes from nowhere | 0.6 M |
| `fulfilment` | overlapping: no stop handles more than was loaded, no trip leaves unloaded; in turn: one invoice per context, billed as delivered | 0.7 M |
| `procurement` | what is bought is what was demanded, locked orders keep, received only when filled; confirmed receipts never pay more than a purchase invoice bills, whatever overlaps | 0.5 M |
| `field` | entries are not forgotten, recorded twice only if their fate was unknown, counted as recorded, at last synced | 24 k |
| `credit` | invoices are drawn up on the terms last given, the cache is what is owed; overlapping, no refresh brings a replaced limit back | 1.3 M |

`race_confirm_twice` is a violation run; see section 5.

**Assumptions on callers.** `apart`, `patient`, `discipline` and `overlap` are variables that are chosen at first and never
change, so one run covers callers that keep to something and callers that do not, and each property names what it
needs: `OutstandingIsUnpaid` of `SettlementRace` is claimed under `apart`, `RowsConsistent` always;
`BilledAsDelivered` for requests in turn, `HandledWithinLoaded` always. Nothing in the code enforces the
assumptions; without them these properties fail, which is what section 5 describes.

**Bounds.** In `settlement`, two invoices and two receipts with amounts 1 and 3 against a bill of 2 give
receipts that fall short, that pay one invoice and a part of the next, and that leave an advance; the
wallet bound lets one advance be spent and the next reversal be refused. `settlement_faults` has one invoice,
and amounts 1 and 2, because a fault is about one document's calls. Two requests in flight are enough
for every lost update, since each is a pair of a read and a write around another's write. `gateway` has one
intent that competes with a receipt by hand for the invoice, and two handlers, for a delivery and its
duplicate, or a handler and a user, who between them confirm and cancel the receipt of the intent and the one by
hand: the two actors and two receipts that every lost update needs. `race` has invoices of one day and of two. Ledger amounts are chosen so that no sum of one retailer's is a sum of the other's. `notes` has a
credit note and a debit note on one invoice and a debit note on none. `stock` chooses among `Meetings`, the
two or three documents that can meet: two receipts of one lot that is not there yet, a receipt and a loading
sheet, a count and a return, and so on. `fulfilment` has two orders, a trip, two invoices and a driver who says
nothing, delivers a part, or delivers too much and states a return below zero. `procurement` has two
orders, one consolidation, two purchase orders and two receipts, and on the other side two receipts and either one purchase invoice
of 1 or 2 that is edited, with three allocations, or two of 1 with two, so that receipts compete for an invoice, one is allocated to it twice, and
each pays two. `field` has an issue and a return of a crate,
two things under way on either side and one loss. `credit` has up to two invoices, three policies, two limits, one
override and one request that dies.
The constants that only bound a run are `MaxBalance`, `MaxFaults`, `MaxByHand`, `Days`, `MaxStamps`, `MaxReopened`,
`MaxPostings`, `MaxEdits`, `MaxLosses`, `MaxGrants`, `MaxDied`.

**Focus.** Six MC modules also state a `CONSTRAINT Focus` that keeps a run to the combinations that matter, with
the reason beside it: requests that overlap do so about one order, invoice or document; in turn there is more
of everything, but one edit, or one loss, or one death at a time. Beyond the focus, states repeat
what was reached with fewer documents: a request that died leaves rows from which the next one starts, and two
faults about different documents do not meet. `MCFulfilment` keeps a trip from leaving once there are invoices, because billing
looks at the stop and never at the trip's status. `MCPaymentGateway` has a handler and a user, or two handlers: fairness
asks nothing of the user, and one handler is enough for what it asks of the gateway, so the fair behaviours in focus are fair ones of
the specification. `MCProcurement` moves one of its two parts, the other being as it was at first.

**Deadlock** is not checked: ids are finite and never reused, so every model
stops when all documents are in a final state. That two requests wait for each other only in one case is a property,
`FifoDeadlockNeedsTie`; PostgreSQL then aborts one of them, which is `Abort`.

**Fairness.** `Settlement`: weak fairness of `Bookkeeping`, the calls of a request that has committed, because
the process runs an `async` method to its end unless it dies, which is `Fault`; nobody has to send another
request. `PaymentGateway`: weak fairness of a handler's steps for the same reason, and strong fairness of
redelivery, which is the gateway's promise (external): it repeats a webhook that was not
answered. `FieldEntries`: weak fairness of the browser's `online` event, of the phone's and the server's steps; strong fairness of a flush
that is due and, entry by entry, of sending, reading, recording and refusing it, because the connection that these
need comes and goes: the entry is tried again at every flush, and some flush must meet a connection that holds.
`QueuedIsSynced` assumes that the connection breaks and returns for ever (`[]<>~online`), since the page flushes only when it returns, and
that the entry's token has not run out. Nothing is assumed about users, and the other modules state no liveness.

## 4. The proofs

`tlapm` checks the theorems for every value of the constants that satisfies the named assumptions: about 17,000
obligations in eight modules. An assumption on callers is a hypothesis inside the property (`apart => ...`),
so each theorem is about every behaviour of its module.

| theorem | states |
|---|---|
| `MoneyTheorems!TotalMoves`, `FifoFits`, `SumIsTotal` | how a total moves with a summand; first-in-first-out shares never exceed what is handed out; a sum taken by recursion is the total |
| `SettlementProofs!TypeCorrect`, `Conservation`, `VoidedCorrect`, `StatusCorrect` | `TypeOK`, `OutstandingIsUnpaid`, `VoidedHoldsNothing`, `StatusTracksOutstanding` |
| `SettlementProofs!FullySplit` | `ReceiptFullySplit`, whatever dies |
| `SettlementProofs!LedgerAfterWallet` | `LedgerFollowsWallet`, whatever dies |
| `SettlementProofs!WalletAddsUp`, `ConfirmedBookedOnce` | `WalletBalances`, `ConfirmedIsBooked`: while no request has died half way |
| `SettlementProofs!RefinesAccount`, `AccountNeverOverpaid` | every step of the service is a step of the abstract account, and hence never overpays |
| `SettlementRaceProofs!RaceTypeCorrect`, `RowsStayConsistent`, `FifoDeadlockIsATie` | under any interleaving |
| `SettlementRaceProofs!OutstandingStaysUnpaid`, `AllocationsStayFit`, `CommitsAreSteps` | `OutstandingIsUnpaid`, `AllocationsFit`, `ImplementsAccount`: when requests in flight share no document |
| `PaymentGatewayProofs!OneReceiptEach` | `OneReceiptInTurn`: when deliveries for one intent do not overlap |
| `PaymentGatewayProofs!AcceptedIsConfirmed`, `InvoiceKeepsItsBooks` | `ProcessedIsConfirmed`, whatever overlaps; `InvoiceConserved`, until a settlement is committed over another |
| `RetailerLedgerProofs!BalancesApart` | with no assumption on the callers |
| `RetailerLedgerProofs!PostedOnce` | `OncePerDocument`: when postings for one retailer are apart |
| `RetailerLedgerProofs!BalancesInSequence` | `OrderlyRunning`: when they are apart and dated forward |
| `RetailerLedgerProofs!CreditInvariant`, `TermsStandAlways` | `TermsStand` of `CreditControl`: when terms are given alone, whatever else overlaps or dies |
| `RetailerLedgerProofs!OwedIsCachedAlways` | `OwedIsCached`: requests one by one, while none has died |
| `RetailerLedgerProofs!PostedOnTermsAlways` | `PostedOnTerms`: an action property, whatever died before |
| `RetailerNotesProofs!NotesKeepRowsConsistent` | with no assumption on the callers |
| `RetailerNotesProofs!ReversalsPaired` | when notes are drafted and requests stay alive, any interleaving |
| `RetailerNotesProofs!OwedIsCovered` | `OwedCoversDocuments`: when requests are apart, whatever dies |
| `RetailerNotesProofs!BooksFollow` | `BooksFollowNotes`: apart, drafted and alive |
| `StockProofs!StockTypeCorrect`, `NothingFromNowhere` | `TypeOK`, `NoMoreThanCameIn`: under any interleaving |
| `StockProofs!MovementsAddUp`, `StockMovesOnce` | `BatchesReconcile`, `MovedOnce`: when requests that meet are apart |
| `StockProofs!FieldInvariant`, `NothingForgotten`, `RecordedTwiceKnowingly`, `CountersNeverAhead` | `NotForgotten`, `TwiceOnlyIfUnsure`, `CountersFollow` of `FieldEntries` |
| `FulfilmentProofs!HandledStaysWithinLoaded`, `RoadIsLoaded` | `HandledWithinLoaded`, `OnTheRoadIsLoaded`: whatever overlaps |
| `FulfilmentProofs!BillsInTurn`, `OneInvoiceAtATime`, `BilledIsDelivered` | `OneInvoicePerContext`, `BilledAsDelivered`: requests in turn, the latter of invoices to which nothing was allocated |
| `FulfilmentProofs!BuyInvariant`, `BoughtAsDemanded`, `LocksHold` | `PurchasedAsDemanded`, `LockedOrdersKeep` of `Procurement`: requests in turn |
| `FulfilmentProofs!ProcurementInvariant`, `ReceivedAsPostedAlways` | `ReceivedAsPosted` of `Procurement`: when at most postings overlap, whatever dies |

Every inductive invariant below was checked by TLC on the run of its module before it was proved.

*Totals.* `Total` is the cardinality of a disjoint union, not a recursion: `TotalMoves`, `TotalSplit`
and `TotalBounds` follow from the library's facts about cardinality. `FifoFits` embeds the units of
all shares into the places `1..n`, each share behind those of older invoices. Where a module sums with the
library's folds, `SumIsTotal` brings the sum back to a total: the induction scheme takes an operator and
cannot be instantiated, so a subset on which the two differ is taken to have as few elements as possible
(`LeastSubset`), and removing one of them gives a smaller.

*`Settlement`, rows.* `OutstandingIsUnpaid` is not inductive by itself: a cancelled receipt gives back to an invoice
that must still be live, cancelling an invoice zeroes a balance that nothing may be paid on, and a
receipt that is confirmed may pay only what is owed. `RowInv` joins what each writer needs of the others:
`OutstandingIsUnpaid`, `StatusTracksOutstanding`, that confirmed allocations lie on live
invoices, and that a voided document holds nothing. There is one lemma per group of actions.

*`Settlement`, books.* The wallet, the ledger and the journal are written by calls after the commit, so the invariants
are about the queue. `BooksInv` says what each call still to be made may assume of its document (`CallFits`)
and that nothing is booked of a receipt before it is confirmed; it survives deaths, and
`LedgerAfterWallet` follows. `UnbrokenInv` adds what the queue still owes the books: the balance is the
net of the transactions or the call in front is about to write it so (`WalletInv`), and a confirmed receipt is
in each book or its call is queued (`Booked`). This holds only under `faults = 0`, and no weaker
hypothesis would do: a death between the wallet's transaction and its balance really leaves them apart, which
confirming again does not mend.

*Refinement.* With `RowInv`, requests on invoices map to `ChangeBills`, a confirmation to `Settle`, a
cancellation to `Undo`, everything else to a stutter (`StepsMap`). `NeverOverpaid` is invariant under the steps of
the account alone (`AccountStep`), so `AccountNeverOverpaid` is a theorem about the service.

*`SettlementRace`.* `RaceInv` adds to the types that a request holds reads only while it pays, that
what it read covers what it pays, that every uncommitted row is consistent, and that rows are written in
the order of their days. The last says when there can be a deadlock: of two requests that wait for each other,
each waits for an invoice no older than any it has written, hence the two invoices are of one day; nothing orders those, and
two plans may take them in opposite orders.
`ApartInv` says that requests in flight use different documents and what each holds: its reads are the
committed rows still, and each row it has written is the committed one plus what it allocates (`Held`). A step changes
no committed row outside the documents of its request (`OnlyUsed`), so `Held` of the others is not disturbed,
and a commit publishes all its rows at once: a single step of the account.

*`PaymentGateway`.* A handler of a webhook is a sequence of awaits. `HooksMeant` says of every
handler what the step it has reached may take for granted when its await returns: the event is about an intent, it
draws up and confirms only for a success, and what it is to confirm is a receipt of that intent. Receipts only grow in
number, and one that is no draft never is a draft again (`Grown`), so this outlives the steps of others. `InTurn` is for deliveries that do not
overlap: one handler per intent, and no receipt of it while the handler is on its way to draw one.
`JobsMeant` says of every confirmation and cancellation that, as long as it is not late, what it has read is still so
(`Current`): a draft to confirm is a draft, the plan is what the receipt pays, the amount seen is what the invoice owes. A commit makes every
other reader late, so it has to establish nothing about them, and one that is not late itself moves the invoice by what
its receipt's summand moves (`TotalMoves`).

*`RetailerLedger`.* `MixInv` says that a balance in the hand of a request is one some prefix of its own
retailer's entries had; `OnceInv` that at most one request is at work on a document; `SequenceInv` that the
balance in hand still is the retailer's last, because nobody else may append and the new entry becomes the
last in date order.

*`CreditControl`* (in `RetailerLedgerProofs`). `CreditInv` has three parts. `Shapes`: the list of steps a request has left is ordered
as its kind orders it (a cache is written after a read, a decision taken after both caches are written, the profile set right
after the limit) and what posts an invoice still has a refresh before it. This is preserved by taking the tail of the list
(`GoesOn`) and holds of the few lists requests begin with (`ShapedBill`, `ShapedUpsert`). `TermsInv`: while terms are given alone, what was agreed on is
in force except between the two writes that give it, and every limit in the hand of a request is the one agreed on; this
is why writing it back is harmless, and it needs nothing of the requests that overlap. `TurnInv`, for requests one by one: what a request
read still is so, a cache holds what is owed or the request under way will write it, and an invoice about to be
posted still is the draft that was checked. What is owed is a fold over the posted invoices; `OwedMore` moves it
through `SumIsTotal`.

*`RetailerNotes`.* `RowsInv` is inductive for any interleaving because each writer computes status and
amount together. `PairInv` records for every request what must have happened to its note. `TurnInv` says
that a request's reads are still current at its commit (`Alone`, `Fresh`) and that a draft has nothing
applied (`Unapplied`), from which each commit keeps `OwedCoversDocuments`. `BooksInv` is in two parts: what the books
hold of a note nobody is at work on (`QuietBooks`), and of one in hand, step by step, which entries the request has
made by now (`RunningBooks`); a request that ends turns the second into the first.

*`Stock`.* `CameInInv` is about any interleaving: what a request read of a batch, and what it will write, never exceed
what has come in by now, since movements only add up. `ApartInv` says of requests kept apart that no two share a
row or document (`Separate`), that what a request read is still there (`AllKept`) and that only what is written is
noted; `OnceInv` that a document about to be posted has not been (`NotPosted`) and that postings are counted
by rejections (`CountedOnce`).

*`FieldEntries`* (in `StockProofs`). `FieldInv` has three parts. Patient, phone and server have one thing in hand
(`OneThing`), every entry made is recorded, queued or held by a call, a flush included (`Covered`), and an entry whose fate is
known is in one place and recorded at most once (`Sure`). Of the counters, `NeverMore` needs no patience: what
a request read plus what it is to add never exceeds what was recorded, because it records before it counts and
recording only adds. `Missing` says that a patient phone's counters miss no more than was lost.

*`Fulfilment`.* `RoadInv` has the rows' types and says of every request in flight that it is `Sound` about what it
read: what it will write of a stop stays within what that stop was loaded with, and a trip it is about to
dispatch is loaded in full. It is inductive with no assumption on overlap because stops are only
ever loaded further and trips only go on (`Grown`), so that what was once read stays true enough
(`SoundWhenGrown`); there is one lemma per kind of change, and each action is shown to be of one kind.
`BillInv` is for requests in turn: one at a time (`TurnsTaken`), what it read is what is there
(`RequestsMeant`), a route has one trip in a cycle (`OneTrip`), a stop's item is of an edition its order has had
(`EditionsOK`), a context has one live invoice (`OneLive`), and an unpaid invoice bills what the stop of its order's
present edition delivered, unless it is one of those the request in hand is still to go through (`BilledOK`, `Waiting`).

*`Procurement`* (in `FulfilmentProofs`). `BuyInv`, again in turn: what a request has read still is so (`RequestsCurrent`), there is one
consolidation in a cycle (`SheetsOK`), what was approved of an order is what it asks for (`AskedOK`), and a
purchase order with a demand orders it and its extra, from a consolidation that stays as it was when the order was
drawn from it (`BoughtOK`). `LocksHold` is an action property: under `BuyInv` no step but a forced one changes a locked order.
`PostInv` is for requests of which only postings overlap: no other request has company (`Company`), what a request read
holds when it writes (`Holds`), in particular a purchase order about to be called received is filled, a received one is
(`Filled`), and of one that was brought something either its status says so, a posting in flight will, or the process
died (`Told`). Postings that overlap can repeat or overtake one another; it stays true because what is posted is never
changed again, so that `Accepted`, a fold over posted receipts, only grows (`AcceptedGrows`), while every writer that may lower a
status or change an item is alone. That a line never refers to a later item than the purchase order has (`LineThere`) is why an
edit unfills it.

*Only model-checked:* liveness (`ConfirmedGetsBooked`, `AdvanceIsReceipted`, `QueuedIsSynced`), which is beyond the
provers. Also `NeverOverpaid` of
`SupplierPayments`, whose module has no proofs. Every other invariant and action property of the passing runs is proved.

## 5. Where the code and its documents disagree

`race_confirm_twice` is a violation run with one property, `ConfirmedOnce`: two confirmations of one receipt in flight
take its money twice, although the blueprint calls the confirmation idempotent. `PROJECT.json` quotes the sentence and the code.

The passing runs show the rest by what their properties have to assume, and each such assumption is a place
where the code relies on its users:

* `apart`, `crossed`, `InTurn`, `OneByOne`: requests that overlap lose money, allocate a receipt twice, make two receipts of one payment, move a
  document's stock twice, bill an order twice, or undo a change of the credit limit.
* `"alive"`, `faults`, `died`, `unsynced`, `unsure`: a request that died leaves the books, the cached debt, or the status of a
  purchase order behind, and confirming again does not make up for it.
* A receipt cancelled after its advance was spent stays in the ledger and the journal; `ConfirmedIsBooked` speaks of confirmed receipts.
* `"forward"`: an entry dated back drops out of the running balances that follow.
* `"drafted"`: a credit note created as posted is never applied and never reaches the ledger.
* Invoices that were ever `voided` are left out of `OwedCoversDocuments`, because a note brings them back; and the property is an inequality, because
  cancelling a debit note clamps at zero.
* `reopened`, `dropped`: a rejected sales return is restocked again, and its credit note outlives a failed approval.
* Orders edited after the trip was made, and invoices to which a receipt was allocated, be it a draft, are left out of `BilledAsDelivered`:
  they keep billing what was ordered.
* Invoices of one day are left out of `FifoDeadlockNeedsTie`: confirmations may deadlock over them.
* A receipt allocated twice to one purchase invoice is left out of `NeverOverpaid`.
* `expired`: an entry queued on a phone keeps its access token and is refused for ever once it has run out, although
  `frontend/OFFLINE_PWA_ENHANCEMENTS.md:31` has the queue flushed automatically when the connection returns.

## 6. What is not modelled

* *Nothing interacts:* master data (but for the credit settings), settings, users, roles, organization, lookups, reports, dashboard,
  audit trail, notifications, files, ai, sync, configuration and guards; claims and proofs of
  delivery, which are rows of a few statuses that no other code reads; payment analytics (read only) and reminders (a stub).
* *Office transactions of crates* recompute a daily snapshot from the rows, which drivers' entries never update; single requests, with nothing to relate.
* *Sessions:* tokens are rotated in single updates and touch no business row. Only that an access token runs out is used.
* *The journal's reports and manual entries*, which no other part reads.
* *The frontend*, a Next.js client of pages and forms that holds no state of record, except its offline queue.

That is most of the repository by lines: the frontend, seeds, query and report code, controllers, DTOs and documents
outweigh the services that change shared state, whose state changes the modules cover. Document
numbers appear only where a collision changes what happens (`PaymentGateway`, `RetailerLedger`). Request
validation, roles, texts, prices, taxes and rounding of money are abstracted: amounts are positive and exact.

## 7. Plan

Done: money (`Settlement`, `SettlementRace`, `PaymentGateway`, `SupplierPayments`, `RetailerLedger`, `RetailerNotes`, `CreditControl`), goods
(`Stock`, `Procurement`, `Fulfilment`) and field work (`FieldEntries`). All of it is proved but liveness and `SupplierPayments`. Left, in
this order:

1. Larger instances: two trips and two retailers in `Fulfilment`, two consolidations in `Procurement`.
2. `Crates` and `Sessions`, should their code come to relate more than one row.
