------------------------- MODULE RecurringInvoices -------------------------
(***************************************************************************)
(* One recurring invoice template, its schedule and autopay:               *)
(* RecurringInvoicesService (finance/recurring-invoices.service.ts), the   *)
(* charge of ClientPaymentMethodsService and the webhook of BillingService *)
(* that settles it.                                                        *)
(*                                                                         *)
(* Every handler works from the template row it read at its start and does *)
(* each database transaction and each call to Stripe as a step of its own, *)
(* so that passes, manual generations, edits, webhooks and deaths of the   *)
(* process fall between any two of them. Dates are day numbers, a          *)
(* frequency is a number of days, an invoice bills one unit: autopay       *)
(* charges the whole of it. Numbers come from InvoiceNumbering; what else  *)
(* people do to an invoice (module Invoices) is a step each here.          *)
(***************************************************************************)
EXTENDS Integers, Sequences, FiniteSets

CONSTANTS
    Workers,        \* jobs, requests and webhook deliveries in progress at one time
    Changes,        \* the edits a user may make of the template: records of Change
    Start,          \* the nextRunDate the template is created with
    Frequency,      \* its frequency
    MaxInvoices,    \* bound: invoices generated
    MaxDay,         \* bound: days that pass
    MaxEdits,       \* bound: what people do to the template, the card and the invoices
    MaxFails,       \* bound: handlers that die or whose call throws, answers lost
    Keep            \* a field an edit leaves alone (undefined in the input)

NoEnd == 0
NoIntent == 0

Change == [active : BOOLEAN \union {Keep}, autopay : BOOLEAN \union {Keep},
           end : Nat \union {Keep}, frequency : (Nat \ {0}) \union {Keep}]

ASSUME RecurringAssumption ==
    /\ Changes \subseteq Change
    /\ Keep \notin BOOLEAN \union Nat
    /\ Start \in Nat \ {0} /\ Frequency \in Nat \ {0}
    /\ MaxInvoices \in Nat /\ MaxDay \in Nat /\ MaxEdits \in Nat /\ MaxFails \in Nat

VARIABLES
    tmpl,       \* the RecurringInvoice row
    card,       \* the client has a usable saved payment method
    inv,        \* the invoices generated, in commit order
    outbox,     \* the invoice.recurring_generated events: the invoice of each
    intents,    \* Stripe's PaymentIntents, in the order they were made (external)
    payments,   \* the Payment rows
    job,        \* what each worker does and what it has read
    today, edits, fails

template == <<tmpl, card>>
books == <<inv, outbox, payments>>
vars == <<template, books, intents, job, today, edits, fails>>

-----------------------------------------------------------------------------
Template == [exists : BOOLEAN, active : BOOLEAN, autopay : BOOLEAN, next : Nat \ {0},
             end : Nat, frequency : Nat \ {0}]
Invoice == [period : Nat \ {0}, step : Nat \ {0}, autopay : BOOLEAN,
            status : {"draft", "sent", "paid", "void"}]
Intent == [invoice : Nat \ {0}, key : Nat \ {0}, state : {"succeeded", "processing", "failed"}]
Payment == [invoice : Nat \ {0}, intent : Nat]

NewTemplate == [exists |-> TRUE, active |-> TRUE, autopay |-> FALSE, next |-> Start,
                end |-> NoEnd, frequency |-> Frequency]

NoChange == [active |-> Keep, autopay |-> Keep, end |-> Keep, frequency |-> Keep]

Idle == [pc |-> "idle", row |-> NewTemplate, invoice |-> 0, intent |-> NoIntent, change |-> NoChange]

Places == {"idle", "due", "manual", "send", "sendTx", "charge", "stripe", "reply",
           "record", "credit", "edit", "forget"}
Job == [pc : Places, row : Template, invoice : Nat, intent : Nat, change : Change]

\* A template, with a card and autopay or without.
Init ==
    /\ card \in BOOLEAN
    /\ \E autopay \in {FALSE, card} : tmpl = [NewTemplate EXCEPT !.autopay = autopay]
    /\ inv = <<>> /\ outbox = <<>> /\ intents = <<>> /\ payments = <<>>
    /\ job = [w \in Workers |-> Idle]
    /\ today = 0 /\ edits = 0 /\ fails = 0

At(w, pc) == job[w].pc = pc
Goto(w, pc) == job' = [job EXCEPT ![w].pc = pc]
Finish(w) == job' = [job EXCEPT ![w] = Idle]

-----------------------------------------------------------------------------
(***************************************************************************)
(* The schedule: runDuePass, generateNow, generateInvoice.                 *)
(***************************************************************************)

\* Due only the day after.
RunDuePass_strictly(w) ==
    /\ At(w, "idle") /\ Len(inv) < MaxInvoices
    /\ tmpl.exists /\ tmpl.active /\ tmpl.next < today
    /\ job' = [job EXCEPT ![w] = [Idle EXCEPT !.pc = "due", !.row = tmpl]]
    /\ UNCHANGED <<template, books, intents, today, edits, fails>>

\* runDuePass: the query for due templates, whose rows the pass then works on.
RunDuePass(w) ==
    /\ At(w, "idle") /\ Len(inv) < MaxInvoices
    /\ tmpl.exists /\ tmpl.active /\ tmpl.next <= today
    /\ job' = [job EXCEPT ![w] = [Idle EXCEPT !.pc = "due", !.row = tmpl]]
    /\ UNCHANGED <<template, books, intents, today, edits, fails>>

\* generateNow: findOrThrow, whether the template is active or due or not.
GenerateNow(w) ==
    /\ At(w, "idle") /\ Len(inv) < MaxInvoices
    /\ tmpl.exists
    /\ job' = [job EXCEPT ![w] = [Idle EXCEPT !.pc = "manual", !.row = tmpl]]
    /\ UNCHANGED <<template, books, intents, today, edits, fails>>

Ended(row) == row.end # NoEnd /\ row.next > row.end

\* The pass retires a template whose row says it is over.
StopEnded(w) ==
    /\ At(w, "due") /\ Ended(job[w].row)
    /\ tmpl' = IF tmpl.exists THEN [tmpl EXCEPT !.active = FALSE] ELSE tmpl
    /\ Finish(w)
    /\ UNCHANGED <<card, books, intents, today, edits, fails>>

Generating(w) == At(w, "manual") \/ (At(w, "due") /\ ~Ended(job[w].row))

\* No unique index on the billing period.
PeriodTaken_never(period) == FALSE

\* @@unique([recurringInvoiceId, recurringBillingPeriod])
PeriodTaken(period) == \E i \in 1..Len(inv) : inv[i].period = period

\* The event is enqueued before the insert, outside the transaction.
GenerateInvoice_eventFirst(w) ==
    LET row == job[w].row IN
    /\ Generating(w) /\ tmpl.exists
    /\ outbox' = Append(outbox, Len(inv) + 1)
    /\ IF PeriodTaken(row.next) THEN Finish(w) /\ UNCHANGED <<inv, tmpl>>
       ELSE /\ inv' = Append(inv, [period |-> row.next, step |-> row.frequency,
                                   autopay |-> row.autopay, status |-> "draft"])
            /\ tmpl' = [tmpl EXCEPT !.next = row.next + row.frequency]
            /\ job' = [job EXCEPT ![w] = IF row.autopay
                                           THEN [Idle EXCEPT !.pc = "send", !.invoice = Len(inv) + 1]
                                           ELSE Idle]
    /\ UNCHANGED <<card, payments, intents, today, edits, fails>>

\* Autopay is tried by the scheduled pass only, not after a click.
GenerateInvoice_passPays(w) ==
    LET row == job[w].row IN
    /\ Generating(w)
    /\ tmpl.exists /\ ~PeriodTaken(row.next)
    /\ inv' = Append(inv, [period |-> row.next, step |-> row.frequency,
                           autopay |-> row.autopay, status |-> "draft"])
    /\ tmpl' = [tmpl EXCEPT !.next = row.next + row.frequency]
    /\ outbox' = Append(outbox, Len(inv) + 1)
    /\ job' = [job EXCEPT ![w] = IF row.autopay /\ At(w, "due")
                                   THEN [Idle EXCEPT !.pc = "send", !.invoice = Len(inv) + 1]
                                   ELSE Idle]
    /\ UNCHANGED <<card, payments, intents, today, edits, fails>>

\* The transaction of generateInvoice: the invoice, the schedule moved on by the
\* row's frequency, the event. With autopay on in the row, the invoice is sent and
\* charged next.
GenerateInvoice(w) ==
    LET row == job[w].row IN
    /\ Generating(w)
    /\ tmpl.exists /\ ~PeriodTaken(row.next)
    /\ inv' = Append(inv, [period |-> row.next, step |-> row.frequency,
                           autopay |-> row.autopay, status |-> "draft"])
    /\ tmpl' = [tmpl EXCEPT !.next = row.next + row.frequency]
    /\ outbox' = Append(outbox, Len(inv) + 1)
    /\ job' = [job EXCEPT ![w] = IF row.autopay
                                   THEN [Idle EXCEPT !.pc = "send", !.invoice = Len(inv) + 1]
                                   ELSE Idle]
    /\ UNCHANGED <<card, payments, intents, today, edits, fails>>

\* isBillingPeriodClash: another attempt has this period; or the template is gone
\* and its foreign key fails. Nothing is written, nothing is charged.
AlreadyGenerated(w) ==
    /\ Generating(w)
    /\ ~tmpl.exists \/ PeriodTaken(job[w].row.next)
    /\ Finish(w)
    /\ UNCHANGED <<template, books, intents, today, edits, fails>>

-----------------------------------------------------------------------------
(***************************************************************************)
(* attemptAutopay: send, chargeOffSession, recordPayment.                  *)
(***************************************************************************)

\* invoices.send: refused (and autopay with it) unless the invoice is a draft.
SendCheck(w) ==
    /\ At(w, "send")
    /\ IF inv[job[w].invoice].status = "draft" THEN Goto(w, "sendTx") ELSE Finish(w)
    /\ UNCHANGED <<template, books, intents, today, edits, fails>>

\* Its transaction writes the status without looking at it again.
SendTx(w) ==
    /\ At(w, "sendTx")
    /\ inv' = [inv EXCEPT ![job[w].invoice].status = "sent"]
    /\ Goto(w, "charge")
    /\ UNCHANGED <<template, outbox, payments, intents, today, edits, fails>>

\* chargeOffSession reads the client; hasUsablePaymentMethod decides.
ChargeOffSession(w) ==
    /\ At(w, "charge")
    /\ IF card THEN Goto(w, "stripe") ELSE Finish(w)
    /\ UNCHANGED <<template, books, intents, today, edits, fails>>

\* A key that is new with every request.
IdempotencyKey_fresh(i) == Len(intents) + 1

\* `autopay-${invoiceId}`
IdempotencyKey(i) == i

\* Stripe gets the request: it charges, or answers as it did to the same key.
StripeCharges(w, state) ==
    LET key == IdempotencyKey(job[w].invoice)
        same == {k \in 1..Len(intents) : intents[k].key = key}
    IN  /\ At(w, "stripe")
        /\ IF same # {}
             THEN /\ job' = [job EXCEPT ![w].pc = "reply", ![w].intent = CHOOSE k \in same : TRUE]
                  /\ UNCHANGED intents
             ELSE /\ intents' = Append(intents, [invoice |-> job[w].invoice, key |-> key,
                                                 state |-> state])
                  /\ job' = [job EXCEPT ![w].pc = "reply", ![w].intent = Len(intents) + 1]
        /\ UNCHANGED <<template, books, today, edits, fails>>

\* The connection is lost before the answer; the Stripe client asks again.
ReplyLost(w) ==
    /\ At(w, "reply") /\ fails < MaxFails
    /\ fails' = fails + 1
    /\ Goto(w, "stripe")
    /\ UNCHANGED <<template, books, intents, today, edits>>

\* Back in attemptAutopay: only money in hand is recorded.
ReplyArrives(w) ==
    /\ At(w, "reply")
    /\ IF intents[job[w].intent].state = "succeeded" THEN Goto(w, "record") ELSE Finish(w)
    /\ UNCHANGED <<template, books, intents, today, edits, fails>>

\* Stripe settles a bank debit, or it bounces.
Settle(k, state) ==
    /\ intents[k].state = "processing"
    /\ intents' = [intents EXCEPT ![k].state = state]
    /\ UNCHANGED <<template, books, job, today, edits, fails>>

\* The payment is stored without looking for one with the same Stripe id.
Recorded_unseen(k) == FALSE

\* payment.findUnique({ where: { stripeCheckoutSessionId } })
Recorded(k) == \E i \in 1..Len(payments) : payments[i].intent = k

\* The webhook payment_intent.succeeded (handleAutopayPaymentIntent), delivered
\* again until it is answered with success, and once more when that answer is lost.
\* A delivery for an invoice that is void by then is refused without effect, so it
\* is left out.
Webhook(w, k) ==
    /\ At(w, "idle")
    /\ intents[k].state = "succeeded"
    /\ inv[intents[k].invoice].status # "void"
    /\ IF Recorded(k) THEN fails < MaxFails /\ fails' = fails + 1 ELSE UNCHANGED fails
    /\ job' = [job EXCEPT ![w] = [Idle EXCEPT !.pc = "record", !.invoice = intents[k].invoice,
                                              !.intent = k]]
    /\ UNCHANGED <<template, books, intents, today, edits>>

\* An invoice that is already paid takes no payment.
RecordCheck_paidToo(w) ==
    /\ At(w, "record")
    /\ IF inv[job[w].invoice].status # "sent" THEN Finish(w) ELSE Goto(w, "credit")
    /\ UNCHANGED <<template, books, intents, today, edits, fails>>

\* recordPayment's checks.
RecordCheck(w) ==
    /\ At(w, "record")
    /\ IF inv[job[w].invoice].status \in {"draft", "void"} THEN Finish(w) ELSE Goto(w, "credit")
    /\ UNCHANGED <<template, books, intents, today, edits, fails>>

\* recordPaymentTx: one payment per Stripe id; it covers the whole invoice.
RecordPaymentTx(w) ==
    LET i == job[w].invoice
        k == job[w].intent
    IN  /\ At(w, "credit")
        /\ payments' = IF Recorded(k) THEN payments
                       ELSE Append(payments, [invoice |-> i, intent |-> k])
        /\ inv' = [inv EXCEPT ![i].status = "paid"]
        /\ Finish(w)
        /\ UNCHANGED <<template, outbox, intents, today, edits, fails>>

-----------------------------------------------------------------------------
(***************************************************************************)
(* Edits of the template, the client's card.                               *)
(***************************************************************************)

EditStarts == edits < MaxEdits /\ edits' = edits + 1

\* update (and setActive, an update of one field): autopay needs a usable card.
UpdateCheck(w, change) ==
    /\ At(w, "idle") /\ tmpl.exists /\ EditStarts
    /\ change.autopay = TRUE => card
    /\ job' = [job EXCEPT ![w] = [Idle EXCEPT !.pc = "edit", !.change = change]]
    /\ UNCHANGED <<template, books, intents, today, fails>>

New(field, change) == IF change = Keep THEN field ELSE change

\* Its write; the schedule is not touched.
UpdateWrite(w) ==
    LET change == job[w].change IN
    /\ At(w, "edit")
    /\ tmpl' = IF tmpl.exists
                 THEN [tmpl EXCEPT !.active = New(@, change.active),
                                   !.autopay = New(@, change.autopay),
                                   !.end = New(@, change.end),
                                   !.frequency = New(@, change.frequency)]
                 ELSE tmpl
    /\ Finish(w)
    /\ UNCHANGED <<card, books, intents, today, edits, fails>>

\* delete: the invoices stay, without a template.
Delete ==
    /\ tmpl.exists /\ EditStarts
    /\ tmpl' = [tmpl EXCEPT !.exists = FALSE]
    /\ UNCHANGED <<card, books, intents, job, today, fails>>

\* handleSetupSessionCompleted: the client has saved a card.
SaveCard ==
    /\ ~card /\ EditStarts
    /\ card' = TRUE
    /\ UNCHANGED <<tmpl, books, intents, job, today, fails>>

\* removePaymentMethod: first the client, then the templates that relied on it.
RemoveCard(w) ==
    /\ At(w, "idle") /\ card /\ EditStarts
    /\ card' = FALSE
    /\ Goto(w, "forget")
    /\ UNCHANGED <<tmpl, books, intents, today, fails>>

TurnAutopayOff(w) ==
    /\ At(w, "forget")
    /\ tmpl' = [tmpl EXCEPT !.autopay = FALSE]
    /\ Finish(w)
    /\ UNCHANGED <<card, books, intents, today, edits, fails>>

-----------------------------------------------------------------------------
\* What people do to an invoice meanwhile, as in module Invoices.
PersonActs(i, before, after) ==
    /\ inv[i].status \in before /\ EditStarts
    /\ inv' = [inv EXCEPT ![i].status = after]
    /\ UNCHANGED <<template, outbox, payments, intents, job, today, fails>>

SendByHand(i) == PersonActs(i, {"draft"}, "sent")
VoidByHand(i) == PersonActs(i, {"sent", "paid"}, "void")

PayByHand(i) ==
    /\ inv[i].status = "sent" /\ EditStarts
    /\ inv' = [inv EXCEPT ![i].status = "paid"]
    /\ payments' = Append(payments, [invoice |-> i, intent |-> NoIntent])
    /\ UNCHANGED <<template, outbox, intents, job, today, fails>>

\* The process dies, or a call throws (a number clash or a database error, a PDF
\* that cannot be made after send, Stripe out of reach): the handler ends there.
Fail(w) ==
    /\ ~At(w, "idle") /\ fails < MaxFails
    /\ fails' = fails + 1
    /\ Finish(w)
    /\ UNCHANGED <<template, books, intents, today, edits>>

Day ==
    /\ today < MaxDay
    /\ today' = today + 1
    /\ UNCHANGED <<template, books, intents, job, edits, fails>>

\* What a worker does once it has started something.
Work(w) ==
    \/ StopEnded(w) \/ GenerateInvoice(w) \/ AlreadyGenerated(w)
    \/ SendCheck(w) \/ SendTx(w) \/ ChargeOffSession(w)
    \/ \E state \in {"succeeded", "processing", "failed"} : StripeCharges(w, state)
    \/ ReplyArrives(w) \/ RecordCheck(w) \/ RecordPaymentTx(w)
    \/ UpdateWrite(w) \/ TurnAutopayOff(w)

Next ==
    \/ \E w \in Workers :
         \/ RunDuePass(w) \/ GenerateNow(w) \/ Work(w) \/ ReplyLost(w) \/ Fail(w)
         \/ \E k \in 1..Len(intents) : Webhook(w, k)
         \/ \E change \in Changes : UpdateCheck(w, change)
         \/ RemoveCard(w)
    \/ \E k \in 1..Len(intents), state \in {"succeeded", "failed"} : Settle(k, state)
    \/ \E i \in 1..Len(inv) : SendByHand(i) \/ VoidByHand(i) \/ PayByHand(i)
    \/ Delete \/ SaveCard \/ Day

\* Handlers run on, the due pass is run again and again (an hourly job), and
\* Stripe delivers an event until it is taken. Nobody has to do anything by hand.
Fairness ==
    /\ \A w \in Workers : WF_vars(Work(w))
    /\ WF_vars(\E w \in Workers : RunDuePass(w))
    /\ \A k \in 1..MaxInvoices : WF_vars(k <= Len(intents) /\ \E w \in Workers : Webhook(w, k))

Spec == Init /\ [][Next]_vars /\ Fairness

-----------------------------------------------------------------------------
(***************************************************************************)
(* Properties.                                                             *)
(***************************************************************************)

TypeOK ==
    /\ tmpl \in Template /\ card \in BOOLEAN
    /\ inv \in Seq(Invoice) /\ outbox \in Seq(Nat)
    /\ intents \in Seq(Intent) /\ payments \in Seq(Payment)
    /\ job \in [Workers -> Job]
    /\ today \in 0..MaxDay /\ edits \in 0..MaxEdits /\ fails \in 0..MaxFails
    /\ \A k \in 1..Len(intents) : intents[k].invoice <= Len(inv)

\* "a crash or a second concurrent pass between the two can never produce two
\* invoices for the same period", and no period is left out either: the invoices
\* follow each other by the frequency they were made with, and the schedule
\* stands right behind the last one, whichever passes, clicks, edits and deaths
\* overlapped.
OncePerPeriod ==
    LET n == Len(inv) IN
    /\ \A i \in 1..n :
         inv[i].period = IF i = 1 THEN Start ELSE inv[i - 1].period + inv[i - 1].step
    /\ tmpl.next = IF n = 0 THEN Start ELSE inv[n].period + inv[n].step

\* Each invoice is announced by exactly one invoice.recurring_generated event, in
\* order, and nothing else is: an attempt that lost the period says nothing.
EventPerInvoice == outbox = [i \in 1..Len(inv) |-> i]

\* "One autopay charge per invoice": however the answer was lost and asked for
\* again, Stripe takes money for an invoice once at most.
ChargedOnce ==
    \A k, l \in 1..Len(intents) : intents[k].invoice = intents[l].invoice => k = l

\* The synchronous answer and the webhook of one charge credit it once, to the
\* invoice it was made for, and only when the money has arrived.
CreditedOnceSettled ==
    /\ \A i, j \in 1..Len(payments) :
         payments[i].intent = payments[j].intent => i = j \/ payments[i].intent = NoIntent
    /\ \A i \in 1..Len(payments) : payments[i].intent # NoIntent =>
         /\ payments[i].intent \in 1..Len(intents)
         /\ intents[payments[i].intent].state = "succeeded"
         /\ intents[payments[i].intent].invoice = payments[i].invoice

Handling(i) == \E w \in Workers : job[w].pc \in {"send", "sendTx"} /\ job[w].invoice = i

\* An invoice generated for autopay stays behind as a draft only if its handler
\* died or a call of its threw: the clash path, which takes no further action,
\* never leaves one to nobody.
DraftLeftOnlyByFailure ==
    fails = 0 => \A i \in 1..Len(inv) :
        inv[i].autopay /\ inv[i].status = "draft" => Handling(i)

\* An invoice and what follows from it stay together: every invoice is announced once
\* and in order, by the attempt that won the period, and an autopay invoice is left a
\* draft by nobody but a handler that died or failed.
FollowUpKept == TypeOK /\ EventPerInvoice /\ DraftLeftOnlyByFailure

\* "One autopay charge per invoice": Stripe takes the money once, and it is credited
\* once, to its invoice and only when it has arrived, although the synchronous answer
\* may be lost and the webhook comes as well.
MoneyTakenOnce == ChargedOnce /\ CreditedOnceSettled

VoidedAfterCharge(k) == k <= Len(intents) /\ inv[intents[k].invoice].status = "void"

\* Money taken is credited in the end, by the handler that charged or by the
\* webhook, unless the invoice is void by then.
ChargeIsCredited ==
    \A k \in 1..MaxInvoices :
        (k <= Len(intents) /\ intents[k].state = "succeeded")
            ~> (Recorded(k) \/ VoidedAfterCharge(k))

\* A period that comes due is invoiced, unless the template is paused, over or
\* deleted meanwhile.
DueIsGenerated ==
    \A p \in 1..MaxDay :
        (tmpl.exists /\ tmpl.active /\ tmpl.next = p /\ p <= today /\ Len(inv) < MaxInvoices)
            ~> (PeriodTaken(p) \/ ~tmpl.active \/ ~tmpl.exists)

=============================================================================
