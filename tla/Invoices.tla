------------------------------ MODULE Invoices ------------------------------
(***************************************************************************)
(* The life of a company's invoices and the money paid on them:            *)
(* InvoicesService (finance/invoices.service.ts), the tax recalculation of *)
(* TaxService and the Stripe side of BillingService.                       *)
(*                                                                         *)
(* Most handlers READ the invoice, decide on what they read, and only then *)
(* open the transaction that writes. Here each of them is two steps: a     *)
(* Begin step that takes the snapshot and makes the checks, and a commit   *)
(* step that writes, with anything another request does in between.        *)
(* A runSerializable transaction is one atomic step: that is what          *)
(* SERIALIZABLE with retries gives. Fail stands for the transaction giving *)
(* up (409) and for the process dying before it.                           *)
(*                                                                         *)
(* Amounts are whole units, dates are day numbers, invoice lines are their *)
(* sum. Numbers are handed out as module InvoiceNumbering says, ledger     *)
(* rows chained as in GobdLedger, outbox rows delivered as in Outbox.      *)
(***************************************************************************)
EXTENDS Integers, Sequences, FiniteSetsExt, Sums

CONSTANTS
    Handlers,       \* requests and webhook deliveries in progress at one time
    Charges,        \* Stripe Checkout sessions and PaymentIntents
    NoCharge,       \* a payment typed in by hand has none
    Ops,            \* the operations used in this instance, of AllOps
    Subtotals,      \* what a new invoice may bill, before tax
    Taxes,          \* what tax may come to
    Amounts,        \* what a user may type in as a payment
    Terms,          \* payment terms in days
    LateFeeRate,    \* late fee per unit of principal and day overdue
    MaxDrafts,      \* bound: invoices created as drafts
    MaxVoidable,    \* bound: only the first so many invoices are ever voided
    MaxManual,      \* bound: payments typed in by hand
    MaxDay,         \* bound: days that pass
    MaxFails        \* bound: handlers that die or give up

AllOps == {"send", "update", "void", "pay", "checkout", "lateFee", "tax"}

ASSUME InvoicesAssumption ==
    /\ Ops \subseteq AllOps
    /\ Subtotals \subseteq Nat /\ Taxes \subseteq Nat /\ Amounts \subseteq Nat \ {0}
    /\ Terms \in Nat /\ LateFeeRate \in Nat
    /\ MaxDrafts \in Nat /\ MaxVoidable \in Nat /\ MaxManual \in Nat
    /\ MaxDay \in Nat /\ MaxFails \in Nat
    /\ NoCharge \notin Charges

VARIABLES
    inv,        \* the Invoice rows, in the order they were created
    payments,   \* the Payment rows
    outbox,     \* the OutboxEvent rows these services enqueue
    ledger,     \* the GobdLedgerEntry rows
    charge,     \* what Stripe knows of each charge (external)
    req,        \* what each handler is doing and what it has read
    today,
    fails

rows == <<inv, payments, outbox, ledger>>
vars == <<rows, charge, req, today, fails>>

-----------------------------------------------------------------------------
NoDate == -1
Dates == Nat \union {NoDate}

Invoice == [status : {"draft", "sent", "paid", "void"}, subtotal : Int, tax : Int, total : Int,
            dueDate : Dates, lateFees : Nat, lastAccrual : Dates, locked : BOOLEAN, corrects : Nat]
Payment == [invoice : Nat, amount : Nat, charge : Charges \union {NoCharge}]
Event == [event : {"invoice.sent", "invoice.payment_recorded"}, invoice : Nat, amount : Nat]
Entry == [event : {"invoice.locked", "invoice.voided", "invoice.correction_issued"},
          invoice : Nat, total : Int]
Charge == [state : {"none", "open", "processing", "paid", "failed"}, invoice : Nat, amount : Nat]

Draft(subtotal, tax) ==
    [status |-> "draft", subtotal |-> subtotal, tax |-> tax, total |-> subtotal + tax,
     dueDate |-> NoDate, lateFees |-> 0, lastAccrual |-> NoDate, locked |-> FALSE, corrects |-> 0]

\* A handler that is doing nothing; the other fields are then not looked at.
Idle == [op |-> "none", invoice |-> 0, seen |-> Draft(0, 0), charge |-> NoCharge, amount |-> 0,
         dueDate |-> NoDate]
Request == [op : {"none", "send", "update", "void", "pay"}, invoice : Nat, seen : Invoice,
            charge : Charges \union {NoCharge}, amount : Nat, dueDate : Dates]

Ids == 1..Len(inv)

Init ==
    /\ inv = <<>> /\ payments = <<>> /\ outbox = <<>> /\ ledger = <<>>
    /\ charge = [c \in Charges |-> [state |-> "none", invoice |-> 0, amount |-> 0]]
    /\ req = [h \in Handlers |-> Idle]
    /\ today = 0
    /\ fails = 0

\* payment.aggregate _sum.amount
PaidSum(i) ==
    Total([k \in 1..Len(payments) |-> IF payments[k].invoice = i THEN payments[k].amount ELSE 0])

EnqueueEvent(event, i, amount) ==
    outbox' = Append(outbox, [event |-> event, invoice |-> i, amount |-> amount])

LedgerRow(event, i, total) == [event |-> event, invoice |-> i, total |-> total]

\* A free handler takes up operation op.
Start(h, op) ==
    /\ op \in Ops
    /\ req[h].op = "none"

\* What it keeps of invoice i as it is now (findOrThrow) and of its input.
Reading(op, i, c, amount, date) ==
    [op |-> op, invoice |-> i, seen |-> inv[i], charge |-> c, amount |-> amount, dueDate |-> date]

Ready(h, op) == req[h].op = op
Done(h) == req' = [req EXCEPT ![h] = Idle]

-----------------------------------------------------------------------------
(***************************************************************************)
(* Creating a draft: generateFromEstimate (and, with their own amounts,    *)
(* progress draws, retainage releases and recurring templates).            *)
(***************************************************************************)
GenerateFromEstimate(subtotal, tax) ==
    /\ Cardinality({i \in Ids : inv[i].corrects = 0}) < MaxDrafts
    /\ inv' = Append(inv, Draft(subtotal, tax))
    /\ UNCHANGED <<payments, outbox, ledger, charge, req, today, fails>>

-----------------------------------------------------------------------------
(***************************************************************************)
(* send: locks the invoice (Festschreibung).                               *)
(***************************************************************************)

Sendable(i) == inv[i].status = "draft"

BeginSend(h, i) ==
    /\ Start(h, "send")
    /\ Sendable(i)
    /\ req' = [req EXCEPT ![h] = Reading("send", i, NoCharge, 0,
                 IF inv[i].dueDate = NoDate THEN today + Terms ELSE inv[i].dueDate)]
    /\ UNCHANGED <<rows, charge, today, fails>>

Sent(row, date) == [row EXCEPT !.status = "sent", !.dueDate = date, !.locked = TRUE]

CommitSend(h) ==
    LET i == req[h].invoice
    IN  /\ Ready(h, "send")
        /\ inv' = [inv EXCEPT ![i] = Sent(@, req[h].dueDate)]
        /\ EnqueueEvent("invoice.sent", i, 0)
        /\ ledger' = Append(ledger, LedgerRow("invoice.locked", i, req[h].seen.total))
        /\ Done(h)
        /\ UNCHANGED <<payments, charge, today, fails>>

-----------------------------------------------------------------------------
(***************************************************************************)
(* update: the due date of an invoice that is not locked.                  *)
(***************************************************************************)
BeginUpdate(h, i, date) ==
    /\ Start(h, "update")
    /\ ~inv[i].locked
    /\ req' = [req EXCEPT ![h] = Reading("update", i, NoCharge, 0, date)]
    /\ UNCHANGED <<rows, charge, today, fails>>

CommitUpdate(h) ==
    /\ Ready(h, "update")
    /\ inv' = [inv EXCEPT ![req[h].invoice].dueDate = req[h].dueDate]
    /\ Done(h)
    /\ UNCHANGED <<payments, outbox, ledger, charge, today, fails>>

-----------------------------------------------------------------------------
(***************************************************************************)
(* void: marks the invoice void and issues the Storno that negates it.     *)
(***************************************************************************)
BeginVoid(h, i) ==
    /\ Start(h, "void")
    /\ i <= MaxVoidable
    /\ inv[i].locked
    /\ inv[i].status # "void"
    /\ req' = [req EXCEPT ![h] = Reading("void", i, NoCharge, 0, NoDate)]
    /\ UNCHANGED <<rows, charge, today, fails>>

\* The Storno leaves out the late fees added to the invoice.
Storno_withoutFees(i, seen) ==
    [status |-> "sent", subtotal |-> -seen.subtotal, tax |-> -seen.tax,
     total |-> -(seen.subtotal + seen.tax),
     dueDate |-> NoDate, lateFees |-> 0, lastAccrual |-> NoDate, locked |-> TRUE, corrects |-> i]

Storno(i, seen) ==
    [status |-> "sent", subtotal |-> -seen.subtotal, tax |-> -seen.tax, total |-> -seen.total,
     dueDate |-> NoDate, lateFees |-> 0, lastAccrual |-> NoDate, locked |-> TRUE, corrects |-> i]

\* The unique index on correctsInvoiceId is missing.
Corrected_noIndex(i) == FALSE

\* The unique index on correctsInvoiceId already has i.
Corrected(i) == \E j \in Ids : inv[j].corrects = i

\* Only the Storno is journalled.
VoidEntries_noVoided(i, storno, total) ==
    << LedgerRow("invoice.correction_issued", storno, -total) >>

VoidEntries(i, storno, total) ==
    << LedgerRow("invoice.voided", i, 0), LedgerRow("invoice.correction_issued", storno, -total) >>

CommitVoid(h) ==
    LET i == req[h].invoice
        seen == req[h].seen
    IN  /\ Ready(h, "void")
        /\ ~Corrected(i)
        /\ inv' = Append([inv EXCEPT ![i].status = "void"], Storno(i, seen))
        /\ ledger' = ledger \o VoidEntries(i, Len(inv) + 1, seen.total)
        /\ Done(h)
        /\ UNCHANGED <<payments, outbox, charge, today, fails>>

\* A second void of the same invoice fails on that index and is rolled back.
VoidRejected(h) ==
    /\ Ready(h, "void")
    /\ Corrected(req[h].invoice)
    /\ Done(h)
    /\ UNCHANGED <<rows, charge, today, fails>>

-----------------------------------------------------------------------------
(***************************************************************************)
(* recordPayment.                                                          *)
(***************************************************************************)

\* A payment is only taken while the invoice is open.
Payable_openOnly(i) == inv[i].status = "sent"

\* The status void is forgotten.
Payable_evenVoid(i) == inv[i].status # "draft"

Payable(i) == inv[i].status \notin {"draft", "void"}

\* Payments by hand, recorded or being recorded.
Manual == Cardinality({k \in 1..Len(payments) : payments[k].charge = NoCharge})
          + Cardinality({h \in Handlers : req[h].op = "pay" /\ req[h].charge = NoCharge})

\* A user records a payment.
BeginPayment(h, i, amount) ==
    /\ Start(h, "pay")
    /\ Payable(i)
    /\ Manual < MaxManual
    /\ req' = [req EXCEPT ![h] = Reading("pay", i, NoCharge, amount, NoDate)]
    /\ UNCHANGED <<rows, charge, today, fails>>

\* payment_status = "paid" (Checkout), payment_intent.succeeded (autopay).
Settled(c) == charge[c].state = "paid"

\* Stripe delivers, or delivers again, the event of charge c: recordInvoicePayment
\* or handleAutopayPaymentIntent. An event of an unsettled charge changes nothing.
BeginWebhook(h, c) ==
    /\ req[h].op = "none"
    /\ Settled(c)
    /\ Payable(charge[c].invoice)
    /\ req' = [req EXCEPT ![h] = Reading("pay", charge[c].invoice, c, charge[c].amount, NoDate)]
    /\ UNCHANGED <<rows, charge, today, fails>>

\* Redeliveries are not recognised.
Duplicate_unnoticed(c) == FALSE

\* A payment with this Stripe id exists (payment.findUnique).
Duplicate(c) == c # NoCharge /\ \E k \in 1..Len(payments) : payments[k].charge = c

\* Any payment at all makes the invoice paid.
StatusFor_anyPayment(paid, total) == IF paid > 0 THEN "paid" ELSE "sent"

StatusFor(paid, total) == IF paid >= total THEN "paid" ELSE "sent"

PaymentOf(r) == [invoice |-> r.invoice, amount |-> r.amount, charge |-> r.charge]
EventOf(r) == [event |-> "invoice.payment_recorded", invoice |-> r.invoice, amount |-> r.amount]

\* The payment and its event, unless the charge has its payment already.
Recorded(r) == IF Duplicate(r.charge) THEN payments ELSE Append(payments, PaymentOf(r))

\* The event is enqueued for a redelivery too.
Announced_again(r) == Append(outbox, EventOf(r))

Announced(r) == IF Duplicate(r.charge) THEN outbox ELSE Append(outbox, EventOf(r))

\* recordPaymentTx: the payment, its event, and the status derived from what is
\* then paid and from the total that was READ. A redelivery derives the status
\* again too. The insert that loses a race to the unique index on the Stripe id
\* is run again and then takes the duplicate's way: this step, later.
CommitPayment(h) ==
    LET r == req[h]
        paid == PaidSum(r.invoice) + (IF Duplicate(r.charge) THEN 0 ELSE r.amount)
    IN  /\ Ready(h, "pay")
        /\ payments' = Recorded(r)
        /\ outbox' = Announced(r)
        /\ inv' = [inv EXCEPT ![r.invoice].status = StatusFor(paid, r.seen.total)]
        /\ Done(h)
        /\ UNCHANGED <<ledger, charge, today, fails>>

-----------------------------------------------------------------------------
(***************************************************************************)
(* chargeLateFee: reads and writes in one serializable transaction.        *)
(***************************************************************************)

\* calculateLateFee
LateFee(outstanding, days) ==
    IF outstanding <= 0 \/ days <= 0 THEN 0 ELSE outstanding * days * LateFeeRate

\* computeLateFeeAccrued
Accrued(i) ==
    LET row == inv[i]
        start == IF row.lastAccrual = NoDate THEN row.dueDate ELSE row.lastAccrual
    IN  IF row.status # "sent" \/ row.dueDate = NoDate THEN 0
        ELSE LateFee(row.total - row.lateFees - PaidSum(i), today - start)

\* The accrual clock is not reset.
ChargeLateFee_clockRuns(h, i) ==
    /\ Start(h, "lateFee")
    /\ Accrued(i) > 0
    /\ inv' = [inv EXCEPT ![i].total = @ + Accrued(i), ![i].lateFees = @ + Accrued(i)]
    /\ UNCHANGED <<payments, outbox, ledger, charge, req, today, fails>>

ChargeLateFee(h, i) ==
    /\ Start(h, "lateFee")
    /\ Accrued(i) > 0
    /\ inv' = [inv EXCEPT ![i].total = @ + Accrued(i), ![i].lateFees = @ + Accrued(i),
                          ![i].lastAccrual = today]
    /\ UNCHANGED <<payments, outbox, ledger, charge, req, today, fails>>

-----------------------------------------------------------------------------
(***************************************************************************)
(* TaxService.recalculateInvoiceTax. Of the invoice it uses only the       *)
(* subtotal, which never changes, so reading and writing are one step. The *)
(* new total leaves out late fees charged before, as the code does.        *)
(***************************************************************************)
TaxOn(subtotal, tax) == IF subtotal < 0 THEN -tax ELSE tax

RecalculateTax(h, i, tax) ==
    /\ Start(h, "tax")
    /\ inv' = [inv EXCEPT ![i].tax = TaxOn(inv[i].subtotal, tax),
                          ![i].total = inv[i].subtotal + TaxOn(inv[i].subtotal, tax)]
    /\ UNCHANGED <<payments, outbox, ledger, charge, req, today, fails>>

-----------------------------------------------------------------------------
(***************************************************************************)
(* Stripe (external) and the session createInvoiceCheckoutSession opens.   *)
(* It is one step, at the time of its reads: a session opened later is as  *)
(* one that nobody has used yet.                                           *)
(***************************************************************************)

Balance(i) == inv[i].total - PaidSum(i)

CreateCheckout(h, c, i, requested) ==
    /\ Start(h, "checkout")
    /\ charge[c].state = "none"
    /\ inv[i].status = "sent"
    /\ Balance(i) > 0
    /\ charge' = [charge EXCEPT ![c] = [state |-> "open", invoice |-> i,
                    amount |-> IF requested < Balance(i) THEN requested ELSE Balance(i)]]
    /\ UNCHANGED <<rows, req, today, fails>>

\* The client pays by card, or by a method that settles (or not) days later.
ClientPays(c) ==
    /\ charge[c].state \in {"open", "processing"}
    /\ \E s \in {"processing", "paid", "failed"} :
          /\ s # charge[c].state
          /\ charge' = [charge EXCEPT ![c].state = s]
    /\ UNCHANGED <<rows, req, today, fails>>

-----------------------------------------------------------------------------
DayPasses ==
    /\ today < MaxDay
    /\ today' = today + 1
    /\ UNCHANGED <<rows, charge, req, fails>>

Fail(h) ==
    /\ req[h].op # "none"
    /\ fails < MaxFails
    /\ fails' = fails + 1
    /\ Done(h)
    /\ UNCHANGED <<rows, charge, today>>

Commit(h) ==
    \/ CommitSend(h) \/ CommitUpdate(h) \/ CommitVoid(h) \/ VoidRejected(h) \/ CommitPayment(h)

Next ==
    \/ \E s \in Subtotals, x \in Taxes : GenerateFromEstimate(s, x)
    \/ \E h \in Handlers :
          \/ \E i \in Ids :
                \/ BeginSend(h, i) \/ BeginVoid(h, i)
                \/ \E d \in {NoDate, MaxDay} : BeginUpdate(h, i, d)
                \/ \E a \in Amounts : BeginPayment(h, i, a)
                \/ ChargeLateFee(h, i)
                \/ \E x \in Taxes : RecalculateTax(h, i, x)
                \/ \E c \in Charges, a \in Amounts : CreateCheckout(h, c, i, a)
          \/ \E c \in Charges : BeginWebhook(h, c)
          \/ Commit(h)
          \/ Fail(h)
    \/ \E c \in Charges : ClientPays(c)
    \/ DayPasses

\* A handler that has read goes on to write; Stripe redelivers an event until
\* it is answered with success.
Fairness ==
    /\ \A h \in Handlers : WF_vars(Commit(h))
    /\ \A c \in Charges : SF_vars(~Duplicate(c) /\ \E h \in Handlers : BeginWebhook(h, c))

Spec == Init /\ [][Next]_vars /\ Fairness

-----------------------------------------------------------------------------
(***************************************************************************)
(* Properties that hold however requests interleave.                       *)
(***************************************************************************)

TypeOK ==
    /\ inv \in Seq(Invoice)
    /\ payments \in Seq(Payment)
    /\ outbox \in Seq(Event)
    /\ ledger \in Seq(Entry)
    /\ charge \in [Charges -> Charge]
    /\ req \in [Handlers -> Request]
    /\ today \in Nat
    /\ fails \in Nat
    /\ \A h \in Handlers : req[h].op # "none" => req[h].invoice \in Ids
    /\ \A c \in Charges : charge[c].state # "none" => charge[c].invoice \in Ids

\* Stripe's money is credited once: however often an event is delivered, and
\* however a delivery races the synchronous confirmation of the same charge,
\* there is at most one payment for it, for its amount, on its invoice, and
\* only after the money has arrived (recordPaymentTx, recordInvoicePayment).
CreditedOnce ==
    /\ \A j, k \in 1..Len(payments) :
          payments[j].charge = payments[k].charge /\ payments[j].charge # NoCharge => j = k
    /\ \A k \in 1..Len(payments) : payments[k].charge # NoCharge =>
          /\ charge[payments[k].charge].state = "paid"
          /\ charge[payments[k].charge].amount = payments[k].amount
          /\ charge[payments[k].charge].invoice = payments[k].invoice

\* Festschreibung and status go together: an invoice is a draft exactly until
\* it is locked, although send, void and recordPayment all write a status they
\* decided on from an earlier read.
DraftIffUnlocked == \A i \in Ids : inv[i].status = "draft" <=> ~inv[i].locked

\* An invoice is corrected by at most one Storno, and a void invoice by one.
OneStorno ==
    /\ \A i, j \in Ids : inv[i].corrects = inv[j].corrects /\ inv[i].corrects # 0 => i = j
    /\ \A i \in Ids : inv[i].status = "void" => \E j \in Ids : inv[j].corrects = i

OnlyLockedInJournal ==
    \A k \in 1..Len(ledger) : ledger[k].invoice \in Ids /\ inv[ledger[k].invoice].locked

LockedInJournal ==
    \A i \in Ids : inv[i].locked =>
        \E k \in 1..Len(ledger) :
            /\ ledger[k].invoice = i
            /\ ledger[k].event \in {"invoice.locked", "invoice.correction_issued"}

CorrectedInJournal ==
    \A i, s \in Ids : inv[s].corrects = i =>
        \E j, k \in 1..Len(ledger) :
            /\ j < k
            /\ ledger[j].invoice = i /\ ledger[j].event # "invoice.voided"
            /\ ledger[k].invoice = i /\ ledger[k].event = "invoice.voided"

\* Only locked invoices are in the journal, every locked one is, and one that
\* was corrected has its "voided" row, after the row that locked it.
Journalled == OnlyLockedInJournal /\ LockedInJournal /\ CorrectedInJournal

\* chargeLateFee never bills a day twice: all the late fees of an invoice are at
\* most one fee, on the largest principal, for each day up to the last charge.
FeeOncePerDay ==
    LET MaxPrincipal == Max(Subtotals) + Max(Taxes)
    IN  \A i \in Ids : inv[i].lateFees <=
            IF inv[i].lastAccrual = NoDate THEN 0
            ELSE MaxPrincipal * LateFeeRate * inv[i].lastAccrual

\* Money that has arrived is credited in the end, unless the invoice has been
\* voided: the process may die in any delivery, Stripe delivers again.
ChargeIsCredited ==
    \A c \in Charges :
        Settled(c) ~> (Duplicate(c) \/ \E i \in Ids : charge[c].invoice = i /\ inv[i].status = "void")

-----------------------------------------------------------------------------
(***************************************************************************)
(* Properties the repository states that hold when requests come one at a  *)
(* time and no posted invoice's tax is recalculated, but not when requests *)
(* overlap.                                                                *)
(***************************************************************************)

\* "Cannot record a payment against a void invoice", "Only a draft invoice can
\* be sent": a void invoice stays void.
VoidStaysVoid == [][\A i \in Ids : inv[i].status = "void" => inv'[i].status = "void"]_inv

\* recordPayment "re-derives invoice status from the running balance".
PaidIsCovered == \A i \in Ids : inv[i].status = "paid" => PaidSum(i) >= inv[i].total

\* The Storno carries "the exact negation" of the invoice it corrects.
StornoNegates ==
    \A i, j \in Ids : inv[j].corrects = i => inv[j].total = -inv[i].total

\* The events of payments, and the payment the event at m is of: the first event
\* of the first payment, and so on.
Announcements == {m \in 1..Len(outbox) : outbox[m].event = "invoice.payment_recorded"}
PaymentAt(m) == payments[Cardinality({l \in Announcements : l <= m})]

EventPerPayment ==
    /\ Cardinality(Announcements) = Len(payments)
    /\ \A m \in Announcements : /\ outbox[m].invoice = PaymentAt(m).invoice
                                 /\ outbox[m].amount = PaymentAt(m).amount

\* What the tables say of one invoice agrees: a paid one is covered by its payments
\* (recordPayment "re-derives invoice status from the running balance"), a Storno
\* negates what its invoice stood at when it was voided, late fees and all, and
\* integrations hear of every payment once and in order, redelivered or not.
BooksAgree == TypeOK /\ PaidIsCovered /\ StornoNegates /\ EventPerPayment

=============================================================================
