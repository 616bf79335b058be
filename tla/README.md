# Cantero: TLA+ models of money, stock and seats

Cantero is a construction-company ERP: a NestJS API (`apps/api`) on PostgreSQL
through Prisma, with BullMQ workers, web, mobile and desktop clients and Stripe.
This directory holds TLA+ models of the parts of the API in which several
requests, queue workers and external services touch the same state, the TLC
configurations that check them on small instances, and TLAPS proofs of the most
important properties for instances of every size.

Source paths below are relative to `apps/api/src/` unless they begin with
`apps/` or `packages/`.

## 1. Inventory

| Part | State | Operations | Interacts with | What is hard | What makes it correct |
|---|---|---|---|---|---|
| Invoice numbering (`finance/invoice-numbering.ts`) | the company's invoice rows, unique (companyId, number) | `createInvoiceWithNumber` | every creator of invoices: requests, the void's Storno, the recurring job | numbers come from a live count; three kinds of transaction around it | numbers gapless and in order; retries end; a failed retry loop means real contention |
| Serializable transactions (`common/prisma/serializable-transaction.ts`) | none of its own | `runSerializable` | numbering, ledger, invoices, stock | retry after a conflict, limit | every request ends; nothing of a failed attempt stays |
| GoBD ledger (`common/gobd/`) | hash-chained rows, sequence per company | `append`, `verifyChain`, `list` | invoices, vendor bills, expenses append in their own transaction | concurrent appends, jsonb key order, tampering | one linear chain that verifies; manipulation is located |
| Webhook outbox (`common/webhooks/outbox.*`) | `OutboxEvent` rows, `WebhookDelivery` rows | `enqueue`, `process`, `processOne` | business transactions write; workers deliver | several pollers, stale batches, crashes, partial failure | exclusive claims, no lost and no repeated delivery, every event closed |
| Webhook endpoints (`common/webhooks/webhooks.service.ts`) | endpoints, secrets | create, update, delete, `deliverToEndpoint`, `notifyChat` | outbox | endpoints change while rows are retried | see outbox |
| Invoices (`finance/invoices.service.ts`) | `Invoice`, `InvoiceLine`, `Payment` | generate, `send`, `update`, `void`, `recordPayment`, `chargeLateFee` | ledger, outbox, numbering, tax, Stripe | handlers decide on a read made before their transaction | a lock is final, one Storno, money credited once, journal complete, status follows the balance |
| Progress billing (`finance/progress-billing.ts`, `generateProgressInvoice`, `releaseRetainage`) | draws and releases of an estimate | draw, release | invoices (send, void, late fee) | read and create are not in one transaction; rounding | no slice billed twice, release capped |
| Client payments (`billing/billing.service.ts`) | Stripe's sessions and PaymentIntents | `createInvoiceCheckoutSession`, webhooks | `recordPayment` | events late, repeated, out of order | see invoices |
| Tax (`tax/`) | rates, certificates | `recalculateInvoiceTax` | invoices | rewrites an invoice others are working on | posted invoices keep their tax |
| Recurring invoices, autopay (`finance/recurring-invoices.service.ts`, `finance/client-payment-methods.service.ts`) | schedules, saved payment methods | `runDuePass`, `generateInvoice`, `attemptAutopay`, `chargeOffSession` | numbering, invoices, Stripe | crash between generation and charge; two passes at once | one invoice per period, one charge per invoice |
| Vendor bills, expenses (`materials/vendor-bills.service.ts`, `team/expenses.service.ts`) | bills, expenses, receipts | create, upload, approve, void/reject, schedule, pay | ledger, outbox, file storage | a decision on an earlier read, written unconditionally; a file hashed before the transaction | what the ledger vouches for is what the row says |
| Stock (`materials/stock*.ts`, `inventory-costing.ts`, `purchase-orders.service.ts`, `lot-tracking.ts`) | levels, averages, FIFO layers, transfers, counts, orders, lots | movements, transfers, booking of counts and orders | job costing | documents booked in many transactions; costs blended and rounded on the road | quantity and value conserved, documents booked once |
| Idempotency (`common/idempotency/`, `apps/web/lib/offline-queue.ts`) | answers in the server's memory; the queue in IndexedDB | interceptor; submit, flush, retry, discard | every offline mutation | retry while the first attempt runs, restart, several tabs | a mutation is applied once, none is lost, order kept |
| Subscription and seats (`billing/billing.service.ts`, `company/invites.service.ts`, `company/company.service.ts`, SCIM) | `Subscription`, seats, members, invites | checkout, seats, plan, webhooks; invite, accept, provision, remove | Stripe | the last seat; reservations; events out of order | seats not oversold, Stripe bills what is used, status follows Stripe |
| Reminders (`invoice-reminders/`, …) | reminder counters | repeated jobs | mail | crash between mail and counter | cadence kept |
| Estimates, change orders; auth, SSO, SCIM; projects, safety, fleet, … | single rows | CRUD and approvals | — | little shared state across steps | — |
| Clients (`apps/web`, `apps/mobile`, `apps/desktop`), `packages/shared` | UI state, input schemas | — | API | offline queue only | — |

`PROJECT.json` lists the same parts with their status, and under `hazards` the
places in the code where something can go wrong that a test would hardly reach.

## 2. Modules

| Module | Models | Runs | Proofs |
|---|---|---|---|
| `InvoiceNumbering` | `createInvoiceWithNumber`, `runSerializable` around it | `numbering` | `RetryProofs` |
| `GobdLedger` | `GobdLedgerService`, `runSerializable` | `gobd_ledger` | `GobdLedgerProofs` |
| `TamperEvidentLog` | abstract: what the ledger promises | as a property of `gobd_ledger` | the refinement, in `GobdLedgerProofs` |
| `Outbox` | `OutboxService`, `OutboxProcessor`, delivery in `WebhooksService` | `outbox`, `outbox_crash` | `OutboxProofs` |
| `Invoices` | `InvoicesService`, `recalculateInvoiceTax`, the Stripe handlers of `BillingService` | `invoices_races`, `invoices_sequential` | `InvoicesProofs` |
| `ProgressBilling` | `calculateProgressDraw`, `generateProgressInvoice`, `releaseRetainage` | `progress_billing` | `AmountsProofs` |
| `RecurringInvoices` | `RecurringInvoicesService`, `ClientPaymentMethodsService`, the PaymentIntent webhook | `recurring` | `RecurringInvoicesProofs` |
| `LockedDocuments` | `VendorBillsService`, `ExpensesService` | `documents` | `LockedDocumentsProofs` |
| `OfflineMutations` | `IdempotencyInterceptor`, `IdempotencyService`, the offline queue of the web client | `offline` | `RetryProofs` |
| `Stock` | `StockService`, `StockTransfersService`, costing, booking of counts and orders | `stock` | `AmountsProofs` |
| `Seats` | seats, invites, provisioning, the subscription in `BillingService` | `seats` | `SeatsProofs` |

`Sums` holds the sum of a sequence of amounts, as a recursive function, for
`Invoices`, `ProgressBilling` and `Stock`. Each `MC…` module and its `.cfg` instantiate one
module of the table for TLC.

The modules divide one system between them. `Invoices` appends to a ledger and
an outbox and hands out identities; how a row gets its number, how ledger rows
chain and how outbox rows are delivered are the three modules above it, each of
which treats the business transaction as a request that writes its rows. The
step in which `Invoices` commits is justified by what those modules show:
numbers stay gapless when commits are retried, and ledger rows of two commits
never interleave. `LockedDocuments` and `RecurringInvoices` rest on the same
three modules. `RecurringInvoices` has its own short version of sending an
invoice and recording a payment: what it asks of them (a draft is sent once, a
charge is credited once) is what `Invoices` shows of the full handlers.

Definitions with a suffix (`Claimable_ignoresProcessing`) are plausible bugs.
Each stands before the definition it distorts; `PROJECT.json` under `mutants`
names the property that notices when it takes that definition's place.

### InvoiceNumbering

State: the numbers committed so far, and for each creator the number its open
transaction has inserted, its place in the loop and its two attempt counters.
`CountInvoices` is the count and the computation of the number, `CreateDirect`
and `InsertInTransaction` the create statement, `NumberClash` the catch block,
`WriteConflict` one round of `runSerializable`, `Abort` any other error or the
death of the process. PostgreSQL's unique index is external: an insert of a
number that is committed fails, an insert of one that is pending in another
transaction waits (`InsertBlocked`). In a recurring job the clash ends the job,
because count, create and retry share one interactive transaction and a failed
statement aborts it.

### GobdLedger

State: the committed rows, and for each request the snapshot its transaction
reads (`base`) and that snapshot with its own rows (`view`). `Begin`,
`AppendRow`, `Commit`, `WriteConflict` and `Error` are one pass of
`runSerializable`; a request appends one row, or two when it is a void.
`Serializable` says which commits PostgreSQL refuses: two transactions that read
the same last row and insert after it. SHA-256 is a constructor (injective), a
payload is its fields with a key order that jsonb does not keep, so that
`canonicalize` has something to do. `Tamper` is the manipulation `verifyChain`
exists to find. Deleting the newest row leaves no trace in the chain and is
excluded there, as is a deletion while a request is under way.

### Outbox

State: `status`, `attempts`, `due` and the delivery records in the database;
for each worker the rest of its batch with the attempts AS READ, the row it is
at, the endpoints left. The claim is the conditional update; `Finish` is the
chat post and the final update. `Post` and `RecordDelivery` are two steps, since
the process can die between them; the record may fail to be saved, which the
code reports and swallows. Time is the flag `due`; the order of endpoints, which
the query leaves open, is any order. `Throw` is the death of a worker or an
exception that ends its job.

### Invoices

State: invoices, payments, outbox events, ledger entries, Stripe's charges, what
each handler has read, the day. A handler that reads before its transaction is
two steps, `Begin…` with the checks and a commit; `chargeLateFee`, which reads
inside its transaction, is one. Two more are one step although the code takes
several, because nothing in between matters: `recalculateInvoiceTax` uses of the
invoice only the subtotal, which never changes; `createInvoiceCheckoutSession`
only opens a session, and one opened later is like one not used yet. Amounts are
whole units, tax is an amount rather than a rate, the late fee is proportional
to principal and days; invoice lines are represented by their sums. The Stripe
side (`Charge`, `ClientPays`) is external: a session is open, processing, paid
or failed, and a paid one's event can arrive any number of times, including as
the synchronous confirmation of an autopay charge.

### ProgressBilling

State: draws and releases, and what each handler has read. Amounts are cents and
percentages whole, so that `Round` is exactly `round2` (half a cent up) without
floating point. `releaseRetainage` reads draws and releases by two queries at
once; both are one read here. Sending, voiding and late fees are those of
`Invoices` in one step each. Voiding a draw takes it out of `Live`; its Storno
has no estimate and does not count.

### TamperEvidentLog

The ledger without transactions, numbers and hashes: a request writes all its
entries at once and once only, an entry can be overwritten or taken out, and the
log can tell. `GobdLedger` implements it with the payloads as `log`, the requests
that have committed as `written`, and the verdict of `verifyChain` as `valid`.
The refinement says what the invariants do not: no request's rows are split,
repeated after a retry or left behind by one that failed, and the verdict changes
only in the step that manipulates the table.

### RecurringInvoices

State: one template, its invoices, announced events, Stripe's PaymentIntents,
payments, the saved card, and for each worker the row it read at the start of its
pass. `RunDuePass` and `GenerateNow` read; `GenerateInvoice` is the transaction
with the (template, period) index, the event and the new `nextRunDate`; the steps
of `attemptAutopay` follow one by one: send, charge, record. `ChargeOffSession`
may lose its answer, after which the request may be repeated with the same
idempotency key. `Webhook` credits a charge that has succeeded, and may be
delivered again. Stripe keeps an idempotency key for good here (24 hours there):
no repetition comes later than that. Periods are days, the frequency is a number
of days.

### LockedDocuments

State: bills, expenses, the files in storage, ledger and outbox, and what each
handler has read. Every operation is a read with its checks and a write. What the
write looks at again differs, and the model keeps the difference: `approve` of an
expense updates only a row that still has the status and the receipt it was read
with; `reject`, `markPaid`, `void` and `schedulePayment` write unconditionally.
The ghost `stale` collects the documents that were changed between a handler's
read and its unconditional write, so that the properties can say exactly what
such a write can undo.

### OfflineMutations

State: the queue in IndexedDB with the time each item was queued (`createdAt`,
of which only the order matters), the lock on flushing, each tab's call, the
requests on the wire, and at the server what was applied and the cached
answers. The wire may lose a request or its answer, the server may restart or
its answers expire, a tab may be closed at any step. The interceptor looks for
an answer when a request arrives and stores one when the handler has finished;
the ghosts `raced` and `forgotten` are the mutations of which a second attempt
arrived in between, or after the answer was gone.

### Stock

State: levels and averages per warehouse, the table of FIFO layers (oldest first,
each row with its warehouse), trucks, documents and their bookings. Movements and
transfers are transactions of one step each (`runSerializable`); a stock count or an
order is booked before its status is written, so it has a step for either and may
die in between. Quantities are whole numbers, a cost is a whole number of the
smallest amounts of its column, and a blended cost is rounded to them (`Round4`).
`ConsumeLayer` is the loop body of `calculateFifoConsumption`, `FifoLoop` the loop as
a recursive function, and `OldestFirst`, a part of `ValuationHolds`, compares what it
takes, at which cost, and what it leaves with the list of the single units in the
warehouse, cut after the quantity. The ghost `value` keeps what was bought, what was
used up, the dearest unit bought and how many units travelled at a blended cost.

### Seats

State: seats, status and members of a company, its invites, the subscription at
Stripe, events under way, and for each handler what it has read. `SeatAvailable`
is the check in the SERIALIZABLE transaction of an accept or a provisioning;
creating an invite checks outside of one. `updateSeats` and `changePlan` read,
tell Stripe and write, in three steps that may die. Events of the subscription
arrive in any order and any number of times. The ghost `note` remembers what
would excuse a difference: a reduction on an outdated count, calls that
overlapped, an event that came after a later one.

## 3. What the runs show

| Run | Instance | Shown |
|---|---|---|
| `numbering` | four creators (two direct, a Storno, a recurring job), two attempts in each loop | `GaplessInOrder`; `ClashMeansOthersWon`: an exhausted loop lost to that many invoices; `EveryRequestEnds` |
| `outbox` | two workers, an endpoint switched off and on, one death | `ExclusiveClaim`; `DeliveredReachedAll`; `NoRedelivery` after a recorded success; `StaleBatchCost`: at most one retry and one chat post per other worker; `ClosedUnlessWorkerDies` |
| `outbox_crash` | one worker that dies once | `EventuallyClosed` violated: the row stays "processing" |
| `gobd_ledger` | three requests, four rows, two attempts, one manipulation | `VerifyChainIsExact`; `TamperEvident`, the refinement; `EveryRequestEnds` |
| `invoices_races` | two overlapping handlers, every operation, one charge | `CreditedOnce`, `OneStorno`, `Journalled` |
| `invoices_sequential` | one handler at a time that may die, Storno of a Storno, fees over two days, two charges | `BooksAgree`: paid means covered, a Storno negates, one event per payment; `FeeOncePerDay`; `VoidStaysVoid`; `ChargeIsCredited` unless the invoice is void |
| `progress_billing` | one request at a time; three draws, two releases | `DisjointSlices`; `OverbillingIsRounding`: at most half a cent per draw; `ReleaseCapped` |
| `recurring` | two workers, two periods, an edit, one death or lost answer | `OncePerPeriod`; `FollowUpKept`: events match, no draft is forgotten unless something failed; `MoneyTakenOnce`; `ChargeIsCredited`; `DueIsGenerated` |
| `documents` | three handlers on a bill and an expense with two receipts | `VouchedReceipt`; `ExpenseBooked`; `BillJournal` |
| `offline` | two mutations, two calls at a time, three requests on the wire, two troubles | `AppliedOnce` but for two known cases; `QueueIsFaithful`: nothing lost, order kept; `QueueDrains` |
| `stock` | two warehouses, three movements, a document, two handlers | `LevelsAddUp`; `ValuationHolds`: fifo uses up the oldest units, value is kept up to rounding, no unit is above the dearest bought; `BookedOnce` but for overlaps and deaths |
| `seats` | three people, up to three seats, an invite, four requests, three events, one death | `SeatsNotOversold`; `InviteHonoured`; `BilledSeats`; `StatusFollowsStripe`; `PaidIsLinked` |

`outbox_crash` is violated by what the code does against what comments say of it;
`findings` in `PROJECT.json` quotes the lines.

### What the code does not guard against

Some properties hold only with a restriction the code does not enforce. Where it
matters the restriction is part of the property or of the instance, and it is
this:

- **A decision on a row read before the transaction.** A payment checked before a
  void and written after it brings the void invoice back
  (`finance/invoices.service.ts:562`, against "Cannot record a payment against a
  void invoice", line 491); two draws computed from the same last draw bill the
  same slice (line 184, against `finance/progress-billing.ts:10`). So
  `invoices_sequential` and `progress_billing` have one handler. With two, TLC
  refutes `VoidStaysVoid` and `DisjointSlices`, and likewise `PaidIsCovered` and
  `StornoNegates` (a late fee in between) and `ReleaseCapped` (two releases).
- **Unconditional writes.** `reject` of an expense, `markPaid` and `void` of a
  bill overwrite what came in since their read; `ExpenseBooked` and `BillJournal`
  except the documents in `stale`, and hold of all others.
- **Tax after posting.** `recalculateInvoiceTax` does not look at `lockedAt`
  (`tax/tax.service.ts:128`, against `apps/api/prisma/schema.prisma:3421`). It is
  an operation of `invoices_races`, and left out of `invoices_sequential`, whose
  `PaidIsCovered` it would refute.
- **A clash of numbers in the recurring job** aborts its transaction at the first
  clash, so it does not get the retries `finance/invoice-numbering.ts:8` speaks
  of. Nothing is lost by it: the next pass finds the template due (`DueIsGenerated`).
- **Autopay that fails or dies** leaves a draft or a sent invoice that no later
  pass takes up. `FollowUpKept` says that nothing else leaves one.
- **Idempotency** is a memory of one process, filled when the handler has
  finished: `AppliedOnce` excepts a second attempt that arrives before that, or
  after a restart or expiry, and nothing else.
- **A truck that takes more than the FIFO layers cover** travels at the cost of
  the part that was covered, so value is not kept then (`ValueIsKept` excepts it).
- **Counts and orders** write their status after their movements: two calls at
  once, or a death in between, book them again; nothing else does.
- **Seats.** Two invites created at once for the last seat reserve one too many,
  and a reduction counts members before it writes: `InviteHonoured` and
  `SeatsNotOversold` except exactly these. Two Checkout sessions for one balance
  can both be paid. A late event overwrites the status of a newer one.

Two more behaviours of the models have no property: a late fee charged on a
release invoice counts as retainage released, so that much of the retainage stays
unreleasable; and a worker with a stale batch posts an event to chat a second
time, which `ChatPerWorker` only bounds.

### Bounds

Attempt limits are 2 or 3 instead of 5, 8 and 10: the first attempt, a retry and
the last one are then all different cases or meet in one, and every loop is
exhausted. Two workers or handlers are enough for a lost update or a stale read;
the numbering run has four creators because an exhausted loop needs two others
to win. One invoice and its Storno suffice in `Invoices`, since no handler
touches two other invoices; `MaxVoidable = 2` lets the Storno be voided too. A
contract of 10 cents drawn in quarters has every slice rounded. Recurring
invoices need two periods for a gap or a repetition, and two workers for a
race. Stock has quantities 1 and 2 at costs 1 and 4, so that a quantity ends
inside a layer and a blended cost is rounded; three movements are enough to
receive twice and issue across both, or to over-issue and receive. Seats go from
one to three with three people, so that the last seat, a full company and a
reduction below the members all happen. Three requests on the wire hold a first
attempt, its retry and one of another mutation. `MaxDrafts`,
`MaxManual`, `MaxDay`, `MaxFails`, `MaxThrows`, `MaxDraws`, `MaxReleases` and
`MaxFees`, `MaxInvoices`, `MaxEdits`, `MaxFiles`, `MaxTroubles`, `MaxMoves`,
`MaxEvents` and `MaxRequests` bound how often something happens; the proofs do not
depend on their values. Handlers, charges and workers are interchangeable, hence the symmetry in
the safety runs; it is not used with liveness.

When all requests have ended or the company is quiet nothing need happen; the MC
modules add a step that changes nothing for those states, so that deadlock is
checked everywhere else.

### Fairness

- Numbering, ledger, invoices, progress billing: weak fairness of the steps of a
  request that has begun. A Node process runs on what it has awaited, and a
  transaction gets an answer. No request has to arrive and nothing has to fail.
- Ledger: a transaction that can no longer commit is told so (the database
  answers with a conflict).
- Outbox: weak fairness of each worker (BullMQ repeats the poll job, and a
  started job goes on) and of time running out on a backoff.
- Invoices: strong fairness of the delivery of a settled charge's event that has
  no payment yet: Stripe repeats an event until it is answered with success, and
  a delivery fails while the invoice cannot take a payment, so it is not enabled
  all the time.
- Recurring invoices: weak fairness of a worker that has begun, of the due pass
  (a repeated job) and of the webhook of a charge that is not credited.
- Offline: weak fairness of the steps of a call in the browser and of the server,
  and of a flush when something is queued (opening the app starts one, and so does
  coming online again). Connections need not stay up: `MaxTroubles` bounds how
  often something goes wrong, as a network that never works drains no queue.
- Seats: weak fairness of the handling of an event (Stripe repeats it). Stock and
  documents have safety properties only and no fairness.

## 4. What is proved

The theorems hold for any sets and limits allowed by the `ASSUME`s in the
modules (limits positive, amounts natural numbers, model values distinct, finitely many
outbox workers and at least one).

- **InvoiceNumbering.** `NumberingTypeCorrect`, `NumbersGaplessInOrder`,
  `ClashesAreOthersSuccess`. `RetryProofs` has the two components that repeat an
  attempt, which is why this module calls its specification `NumSpec`. That the table is gapless is not inductive: a
  creator works with a number from an old count. The invariant adds that such a
  number is at most one past the last row and no less than its attempt, that an
  inserted and uncommitted number is exactly the next one, and that at most one
  transaction holds one. Then a number that is not taken is the next number.
- **GobdLedger.** `LedgerIsLinear`, `VerifyChainExact` (from `VerifyChainAccepts`
  and `TamperingDetected`), `TypeCorrect`, and the refinement
  `JournalIsTamperEvident`. The invariant speaks of the open transactions: what
  each sees is a good chain that begins with its snapshot (`ChainsGood`,
  `Prefix`), ending with its own rows (`OwnRows`). Commit requires the snapshot
  still to be the table, so that the new table is what the transaction saw, and
  the entries it adds are those of one step of the abstract log. Of a table that
  was tampered with it says where the chain breaks (`TamperedBroken`): the rows
  before fit, that one does not, and rows appended later come after it.
- **Outbox.** `TypeCorrect`, `ClaimsExclusive`, `DeliveredMeansReached`,
  `RecordedDeliveryNotRepeated`, `ClosedRowsStayClosed`. The key is that a worker
  at a row has it in "processing" (`ClaimHeld`); with it the delivery record a
  worker has looked at is current when it posts (`PostIsNew`), and an endpoint of
  a pass without failures is still to come, in progress or reached
  (`PassCoversSteady`). `StaleBatchesCostLittle` counts the workers that
  still hold the row as it was before the limit: the row's attempts and their number
  together never exceed what the property allows (`RetriesLeftOver`), and likewise
  the chat posts and the workers that hold it without an attempt (`ChatsLeftOver`).
- **Invoices.** `StripeMoneyCreditedOnce`, `LockAndStatusAgree`,
  `AtMostOneStorno`, `JournalMatchesInvoices`, for every interleaving. A handler
  between read and write relies on things that cannot change meanwhile
  (`StillTrue`: a locked invoice stays locked, a paid charge stays as it is); a
  Storno corrects an invoice that exists. None of this depends on amounts, so the
  proof leaves open which values amounts are (`RowOver(A)`). About the amounts:
  `TypeCorrect`, `NoDayChargedTwice` and `EveryPaymentAnnounced`, again for every
  interleaving. `chargeLateFee` reads inside its transaction, so that an accrual
  starts where the last one ended and the principal is never more than the largest
  one (`FeeInv`; `Bounded` says that `Subtotals` and `Taxes` have a largest member,
  without which the property says nothing). An event is appended in the step that
  appends its payment, so the n-th announcement is of the n-th payment. For one
  request at a time (`Serial`): `VoidIsFinal`, as what a handler read is then still
  so when it writes (`CurrentInv`), and `TheBooksAgree`, which also needs that no
  tax is recalculated (`NoTax`). Both hypotheses are necessary, see section 3, and
  both hold of the instance `invoices_sequential`. `BookInv` adds that a
  Storno is locked and has no due date, so that nothing is charged on it, and that
  what it corrects is void, so that its total stays as it was negated; payments only
  accumulate, so that an invoice once covered stays covered.
- **ProgressBilling.** `TypeCorrect` for every interleaving, which includes that
  retainage never exceeds its draw. For one request at a time (`Serial`), which is
  necessary (section 3): `NoSliceBilledTwice`, `BilledWhatIsReported` and
  `ReleasesAreCapped`. A handler about to draw starts at or above every draw that
  counts; draws that count follow one another (`InOrder`) and each costs its share
  but for half a cent (`Priced`), so they add up to no more than the last
  percentage and half a cent each (`BilledUpTo`). A handler about to release takes
  no more than is left (`Affordable`), with the late fees on releases counted as
  the code counts them (`FeesOnTop`). A void takes an invoice out of a sum, which
  can only lower it (`TotalMonotone`).
- **Stock.** `StockLevelsAddUp`, `StockValuationHolds` and `DocumentsBookedOnce`, for
  any warehouses, quantities and costs and any number of movements, trucks, documents
  and calls that may die (`StockInv`; `AmountsProofs` has the two components whose
  properties are about sums, which is why this module calls its specification
  `StockSpec`). For the value: after every row of the loop, what is left in the table
  and what was used up together are worth the rows so far, and what was used up costs
  no more than the dearest unit each (`FifoIs`, by induction over the rows). The same
  induction compares the loop with the list of units (`LoopAgrees`): after every row,
  what is still wanted, what was paid and what is left are those of a cut through the
  units of the rows so far; a row adds its units to the end, and the cut falls before
  them (`RowNotNeeded`) or among them (`RowNeeded`). A rounded
  quotient times its divisor is off by at most half the divisor (`Round4Is`), which is
  the half of the smallest amount per unit that `ValueIsKept` allows; a truck that
  leaves, arrives or turns back changes one term of the sums over the transfers
  (`TruckLeaves`, `TruckStops`). That nothing is valued above the dearest unit bought
  (`Within`) needs layers and trucks as well as averages, since each becomes one of
  the others. For the documents `DocumentOk` says that of one that is not excused at
  most one call is under way, that it is not booked before that call books it, and
  that an open one that nobody is at is not booked; and that what was opened has
  something to book, so that booking it is a receipt or an issue of at least one unit.
- **LockedDocuments.** `ReceiptsVouched`, `ExpensesBookedOnce`, `BillsJournalled`,
  for any documents and any number of overlapping handlers that may die. A handler
  may rely on little between its read and its write (`Held`: the status it was let
  through with, and that a locked bill stays locked); beside that, an expense that
  is not decided has no entry in the ledger (`Fresh`), so the conditional update of
  `approve` makes the first and only one.
- **RecurringInvoices.** `PeriodsInvoicedOnce`, `FollowUpsKept`,
  `AutopayTakesMoneyOnce`, for any number of workers, edits, days and failures. A
  worker acts on a row it read long ago; the invariant (`JobHolds`) is that the
  period of such a row is the template's next one or has its invoice, so that the
  unique index lets exactly the current row through. For the money it adds that the
  key of an intent is its invoice (`KeyIsInvoice`) and that a worker about to
  credit has an intent of its invoice that has succeeded, which nothing changes.
- **OfflineMutations.** `MutationsAppliedOnce` and `QueueFaithful`, for any number of
  mutations, tabs, requests and failures. For the first, of a mutation that was
  neither raced nor forgotten at most one attempt is at the handler and, once it has
  committed, that attempt or the cache still knows of it (`Once`), so a later one
  finds the answer; a success on the wire is of something applied (`Successes`). For
  the second, each call has its attempt to itself (`Attached`) and takes an item out
  of the queue only when it was applied (`Resend`). A flush works on the list it read
  at its start while other tabs queue, retry and discard: the invariant says that
  whatever is queued now is in its list, in its hands, or younger than both
  (`Before`), so that it never passes over one that still waits. The list is a set
  from which the oldest is taken; that there is one is the smallest member of a set
  of natural numbers.
- **Seats.** `SeatsNeverOversold`, `InvitesHonoured`, `SeatsBilledAsHeld`, for any
  number of people, invites, handlers and seats. The invariant counts members and
  pending invites together (`Reserved`), which the check inside each joining
  transaction restores; says that a used invite leaves its person a member, or
  noted as removed, for whoever accepts it second (`Uses`); and follows a change of
  seats through its three steps (`Billing`: before Stripe is told it bills the
  row's seats, afterwards those the handler is about to write). It uses that the
  account is active only once the subscription is linked. `StatusFollows` follows
  the events (`Following`): each that Stripe sent is under way or handled, or older
  than one that was, and what a completed checkout retrieved before it saves is the
  state at Stripe unless later events were sent.

Sums. The library's induction theorems take an operator as a parameter, which the
provers cannot instantiate. The sums here are recursive functions, and induction is
done on a SET of numbers: `SetInduction` follows from the fact that a set of natural
numbers that is not empty has a smallest member (`WFMin`, `NatLessThanWellFounded`).
From it come the facts the proofs use: a sum of natural numbers is one
(`TotalNat`), grows with its parts (`TotalMonotone`) and with an append
(`TotalAppend`), and changes by what one of its terms changes by (`TotalChange`). The
loop over the layers is treated in the same way.

Model-checked only: all liveness (`EveryRequestEnds`, `ClosedUnlessWorkerDies`,
`ChargeIsCredited`, `DueIsGenerated`, `QueueDrains`, `PaidIsLinked`), which the
prover cannot reason about. Every safety property of a passing run is stated by a
theorem.

## 5. Not modelled

Installments (a plan no other code reads), settlement in foreign currency (a
conversion before the payment), PDFs, mail and audit log entries (fire and
forget, after the commit), reports and exports (read only), webhook signatures
and URL checks, backoff times, and the parts marked `not_modelled` in
`PROJECT.json` with their reasons. Floating point is not modelled: amounts that
are rounded are whole cents. Of the stock, lots and serial units, partial
shipments, supplier returns, kits and bins are left out; of the subscription, the
customer portal and a second subscription of one company; of accounts, sign-in,
sessions, roles and SSO. Reminders send mail and then count it: nothing in the
system can tell whether a mail went out twice. Most of the repository's lines are
user interface, input schemas, reports and modules that validate a request and
write one row; they keep no state between steps that a model would say anything
about.

## 6. Plan

Done, in the order of importance: numbering, ledger, outbox, invoice life cycle
with payments, progress billing; then recurring invoices, bills and expenses, the
offline queue, stock, seats and subscription, and the ledger's refinement of an
abstract log.

1. An abstract outbox (each event is handed to each endpoint at least once,
   recorded at most once) that `Outbox` refines.
2. Lots and serial units beside the levels of `Stock`, and partial shipments.
3. The approval of estimates and change orders, from which the invoices start.
