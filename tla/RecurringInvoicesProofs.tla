---------------------- MODULE RecurringInvoicesProofs ----------------------
(***************************************************************************)
(* The schedule and the money of recurring invoices for any number of      *)
(* workers, edits, days and failures.                                      *)
(*                                                                         *)
(* Workers act on a template row they read some time ago. What saves them  *)
(* is that such a row is either current or names a period that has its     *)
(* invoice (JobHolds), so that the unique index turns every outdated row   *)
(* away; and that an intent, once it has succeeded, stays what it is.      *)
(***************************************************************************)
EXTENDS RecurringInvoices, TLAPS

Generate == {"due", "manual"}
OnInvoice == {"send", "sendTx", "charge", "stripe", "reply", "record", "credit"}
OnIntent == {"reply", "record", "credit"}
WithMoney == {"record", "credit"}

\* What worker w may rely on at its place.
JobHolds(w) ==
    /\ job[w].pc \in Generate =>
          job[w].row.next = tmpl.next \/ PeriodTaken(job[w].row.next)
    /\ job[w].pc \in OnInvoice => job[w].invoice \in 1..Len(inv)
    /\ job[w].pc \in OnIntent => /\ job[w].intent \in 1..Len(intents)
                                 /\ intents[job[w].intent].invoice = job[w].invoice
    /\ job[w].pc \in WithMoney => intents[job[w].intent].state = "succeeded"

JobsHold == \A w \in Workers : JobHolds(w)

\* The key of an intent is its invoice.
KeyIsInvoice == \A k \in 1..Len(intents) : intents[k].key = intents[k].invoice

IInv ==
    /\ TypeOK /\ JobsHold
    /\ OncePerPeriod /\ EventPerInvoice /\ DraftLeftOnlyByFailure
    /\ KeyIsInvoice /\ ChargedOnce /\ CreditedOnceSettled

\* The steps between which a worker may rest on what it knows: nothing that others
\* rely on is taken back.
Grown ==
    /\ \A p : PeriodTaken(p) => PeriodTaken(p)'
    /\ \A p : p = tmpl.next => tmpl'.next = p \/ PeriodTaken(p)'
    /\ Len(inv) \in Nat /\ Len(inv') \in Nat /\ Len(inv) <= Len(inv')
    /\ Len(intents) \in Nat /\ Len(intents') \in Nat /\ Len(intents) <= Len(intents')
    /\ \A k \in 1..Len(intents) :
          /\ intents'[k].invoice = intents[k].invoice
          /\ intents[k].state = "succeeded" => intents'[k].state = "succeeded"

\* A step that at most changes the status of invoices.
SameInvoices ==
    /\ inv' \in Seq(Invoice) /\ Len(inv') = Len(inv)
    /\ \A i \in 1..Len(inv) :
          /\ inv'[i].period = inv[i].period /\ inv'[i].step = inv[i].step
          /\ inv'[i].autopay = inv[i].autopay
          /\ inv'[i].status = "draft" => inv[i].status = "draft"

-----------------------------------------------------------------------------
(***************************************************************************)
(* Frames.                                                                 *)
(***************************************************************************)

LEMMA IdleJob == Idle \in Job /\ NewTemplate \in Template
<1>1. NewTemplate \in Template
  BY RecurringAssumption DEF NewTemplate, Template, NoEnd
<1>2. NoChange \in Change
  BY DEF NoChange, Change
<1> QED BY <1>1, <1>2 DEF Idle, Job, Places, NoIntent

LEMMA Lengths == TypeOK => Len(inv) \in Nat /\ Len(intents) \in Nat /\ Len(payments) \in Nat
  BY DEF TypeOK

\* The books unchanged, nothing is taken back.
LEMMA GrownBySame ==
    ASSUME TypeOK, SameInvoices, UNCHANGED intents, tmpl'.next = tmpl.next
    PROVE  Grown
<1>1. \A p : PeriodTaken(p) => PeriodTaken(p)'
  BY Lengths DEF SameInvoices, PeriodTaken
<1> QED BY <1>1, Lengths DEF Grown, SameInvoices

LEMMA UnchangedInvoices == TypeOK /\ inv' = inv => SameInvoices
  BY DEF TypeOK, SameInvoices

\* One invoice gets a status other than draft.
LEMMA StatusWritten ==
    ASSUME TypeOK, NEW i, NEW s \in {"sent", "paid", "void"}, inv' = [inv EXCEPT ![i].status = s]
    PROVE  SameInvoices
<1>1. Len(inv) \in Nat /\ inv \in [1..Len(inv) -> Invoice]
  BY DEF TypeOK
<1>2. inv' \in [1..Len(inv) -> Invoice]
  BY <1>1 DEF Invoice
<1>3. inv' \in Seq(Invoice) /\ Len(inv') = Len(inv)
  BY <1>1, <1>2
<1>4. ASSUME NEW j \in 1..Len(inv)
      PROVE  /\ inv'[j].period = inv[j].period /\ inv'[j].step = inv[j].step
             /\ inv'[j].autopay = inv[j].autopay
             /\ inv'[j].status = "draft" => inv[j].status = "draft"
  BY <1>1 DEF Invoice
<1> QED BY <1>3, <1>4 DEF SameInvoices

\* A worker that does nothing keeps what it relies on.
LEMMA OthersHold ==
    ASSUME JobsHold, Grown, NEW v \in Workers, job'[v] = job[v]
    PROVE  JobHolds(v)'
<1>1. JobHolds(v) /\ job'[v] = job[v]
  BY DEF JobsHold
<1>2. (job[v].pc \in Generate => job[v].row.next = tmpl.next \/ PeriodTaken(job[v].row.next))'
  <2>1. PICK n : n = job[v].row.next
    OBVIOUS
  <2>2. job[v].pc \in Generate => n = tmpl.next \/ PeriodTaken(n)
    BY <1>1, <2>1 DEF JobHolds
  <2>3. job[v].pc \in Generate => n = tmpl'.next \/ PeriodTaken(n)'
    BY <2>2 DEF Grown
  <2>4. n = job'[v].row.next
    BY <1>1, <2>1
  <2> QED BY <1>1, <2>3, <2>4
<1>3. job'[v].pc \in OnInvoice => job'[v].invoice \in 1..Len(inv')
  BY <1>1 DEF JobHolds, Grown
<1>4. job'[v].pc \in OnIntent => /\ job'[v].intent \in 1..Len(intents')
                                 /\ intents'[job'[v].intent].invoice = job'[v].invoice
  BY <1>1 DEF JobHolds, Grown
<1>5. job'[v].pc \in WithMoney => intents'[job'[v].intent].state = "succeeded"
  BY <1>1 DEF JobHolds, Grown, WithMoney, OnIntent
<1> QED BY <1>2, <1>3, <1>4, <1>5 DEF JobHolds

\* A worker moves on, with a job that is right for its new place.
LEMMA JobMoved ==
    ASSUME TypeOK, JobsHold, Grown, NEW w \in Workers, NEW j \in Job,
           job' = [job EXCEPT ![w] = j], JobHolds(w)'
    PROVE  job' \in [Workers -> Job] /\ JobsHold'
<1>1. job' \in [Workers -> Job]
  BY DEF TypeOK
<1>2. ASSUME NEW v \in Workers, v # w
      PROVE  JobHolds(v)'
  <2>1. job'[v] = job[v]
    BY <1>2 DEF TypeOK
  <2> QED BY <2>1, OthersHold
<1> QED BY <1>1, <1>2 DEF JobsHold

\* A worker that is through relies on nothing.
LEMMA JobFinished ==
    ASSUME TypeOK, JobsHold, Grown, NEW w \in Workers, Finish(w)
    PROVE  job' \in [Workers -> Job] /\ JobsHold'
<1>1. job' = [job EXCEPT ![w] = Idle]
  BY DEF Finish
<1>2. job'[w].pc = "idle"
  BY <1>1 DEF TypeOK, Idle
<1>3. JobHolds(w)'
  BY <1>2 DEF JobHolds, OnInvoice, OnIntent, WithMoney, Generate
<1> QED BY <1>1, <1>3, IdleJob, JobMoved

\* Nobody works.
LEMMA JobsSame ==
    ASSUME TypeOK, JobsHold, Grown, job' = job
    PROVE  job' \in [Workers -> Job] /\ JobsHold'
  BY OthersHold DEF JobsHold, TypeOK

\* The step changes neither periods nor the schedule.
LEMMA ScheduleKept ==
    ASSUME TypeOK, OncePerPeriod, SameInvoices, tmpl'.next = tmpl.next
    PROVE  OncePerPeriod'
  BY Lengths DEF OncePerPeriod, SameInvoices

LEMMA EventsKept ==
    ASSUME EventPerInvoice, SameInvoices, outbox' = outbox
    PROVE  EventPerInvoice'
  BY DEF EventPerInvoice, SameInvoices

\* Whoever has a draft in hand keeps it, or it is no draft any more.
LEMMA DraftsKept ==
    ASSUME TypeOK, DraftLeftOnlyByFailure, SameInvoices, fails' = 0 => fails = 0,
           \A i \in 1..Len(inv) : Handling(i) /\ inv'[i].status = "draft" /\ fails' = 0 => Handling(i)'
    PROVE  DraftLeftOnlyByFailure'
  BY DEF DraftLeftOnlyByFailure, SameInvoices

\* The money is as it was.
LEMMA MoneyKept ==
    ASSUME KeyIsInvoice, ChargedOnce, CreditedOnceSettled, UNCHANGED <<intents, payments>>
    PROVE  KeyIsInvoice' /\ ChargedOnce' /\ CreditedOnceSettled'
  BY DEF KeyIsInvoice, ChargedOnce, CreditedOnceSettled

\* Before the first pass the invariant holds.
LEMMA InitIInv == Init => IInv
<1> SUFFICES ASSUME Init PROVE IInv
  OBVIOUS
<1>1. TypeOK
  <2>1. tmpl \in Template
    BY IdleJob DEF Init, Template
  <2>2. job \in [Workers -> Job]
    BY IdleJob DEF Init
  <2> QED BY <2>1, <2>2, RecurringAssumption DEF Init, TypeOK
<1>2. JobsHold
  BY DEF Init, JobsHold, JobHolds, Idle, OnInvoice, OnIntent, WithMoney, Generate
<1>3. OncePerPeriod
  BY DEF Init, OncePerPeriod, NewTemplate
<1>4. EventPerInvoice /\ DraftLeftOnlyByFailure
  BY DEF Init, EventPerInvoice, DraftLeftOnlyByFailure
<1>5. KeyIsInvoice /\ ChargedOnce /\ CreditedOnceSettled
  BY DEF Init, KeyIsInvoice, ChargedOnce, CreditedOnceSettled
<1> QED BY <1>1, <1>2, <1>3, <1>4, <1>5 DEF IInv

-----------------------------------------------------------------------------
(***************************************************************************)
(* Steps that leave the books alone.                                       *)
(***************************************************************************)

CountersOK == today \in 0..MaxDay /\ edits \in 0..MaxEdits /\ fails \in 0..MaxFails

\* A worker that is not sending anything stops handling nothing.
LEMMA HandlersKept ==
    ASSUME TypeOK, NEW w \in Workers, NEW j, job' = [job EXCEPT ![w] = j],
           job[w].pc \notin {"send", "sendTx"}
    PROVE  \A i : Handling(i) => Handling(i)'
<1> SUFFICES ASSUME NEW i, Handling(i) PROVE Handling(i)'
  OBVIOUS
<1>1. PICK v \in Workers : job[v].pc \in {"send", "sendTx"} /\ job[v].invoice = i
  BY DEF Handling
<1>2. job'[v] = job[v]
  BY <1>1 DEF TypeOK
<1> QED BY <1>1, <1>2 DEF Handling

\* The books as they were, the schedule as it was, and the workers all right.
LEMMA QuietStep ==
    ASSUME IInv, UNCHANGED <<inv, outbox, payments, intents>>,
           tmpl' \in Template, tmpl'.next = tmpl.next, card' \in BOOLEAN, CountersOK',
           fails' = 0 => fails = 0,
           job' \in [Workers -> Job], JobsHold',
           \A i \in 1..Len(inv) : Handling(i) /\ inv[i].status = "draft" /\ fails' = 0 => Handling(i)'
    PROVE  IInv'
<1>1. SameInvoices
  BY UnchangedInvoices DEF IInv
<1>2. TypeOK'
  BY DEF IInv, TypeOK, CountersOK
<1>3. OncePerPeriod'
  BY <1>1, ScheduleKept DEF IInv
<1>4. EventPerInvoice'
  BY <1>1, EventsKept DEF IInv
<1>5. DraftLeftOnlyByFailure'
  BY <1>1, DraftsKept DEF IInv
<1>6. KeyIsInvoice' /\ ChargedOnce' /\ CreditedOnceSettled'
  BY MoneyKept DEF IInv
<1> QED BY <1>2, <1>3, <1>4, <1>5, <1>6 DEF IInv

\* In such a step nothing is taken back.
LEMMA QuietGrown ==
    ASSUME IInv, UNCHANGED <<inv, intents>>, tmpl'.next = tmpl.next
    PROVE  Grown
  BY UnchangedInvoices, GrownBySame DEF IInv

\* A worker starts something or moves on to its next place.
LEMMA MovesOn ==
    ASSUME IInv, NEW w \in Workers, NEW j \in Job, job' = [job EXCEPT ![w] = j],
           UNCHANGED <<inv, outbox, payments, intents, tmpl>>, card' \in BOOLEAN, CountersOK',
           fails' = 0 => fails = 0,
           job[w].pc \notin {"send", "sendTx"}, JobHolds(w)'
    PROVE  IInv'
<1>1. Grown
  BY QuietGrown
<1>2. job' \in [Workers -> Job] /\ JobsHold'
  BY <1>1, JobMoved DEF IInv
<1>3. \A i : Handling(i) => Handling(i)'
  BY HandlersKept DEF IInv
<1>4. tmpl' \in Template
  BY DEF IInv, TypeOK
<1> QED BY <1>2, <1>3, <1>4, QuietStep

\* A worker ends, and writes at most to the template's other fields.
LEMMA Ends ==
    ASSUME IInv, NEW w \in Workers, Finish(w),
           UNCHANGED <<inv, outbox, payments, intents, card>>,
           tmpl' \in Template, tmpl'.next = tmpl.next, CountersOK', fails' = 0 => fails = 0,
           \/ job[w].pc \notin {"send", "sendTx"}
           \/ inv[job[w].invoice].status # "draft"
           \/ fails' # 0
    PROVE  IInv'
<1>1. Grown
  BY QuietGrown
<1>2. job' \in [Workers -> Job] /\ JobsHold'
  BY <1>1, JobFinished DEF IInv
<1>3. ASSUME NEW i \in 1..Len(inv), Handling(i), inv[i].status = "draft", fails' = 0
      PROVE  Handling(i)'
  <2>1. PICK v \in Workers : job[v].pc \in {"send", "sendTx"} /\ job[v].invoice = i
    BY <1>3 DEF Handling
  <2>2. v # w
    BY <1>3, <2>1
  <2>3. job'[v] = job[v]
    BY <2>2 DEF Finish, IInv, TypeOK
  <2> QED BY <2>1, <2>3 DEF Handling
<1>4. card' \in BOOLEAN
  BY DEF IInv, TypeOK
<1> QED BY <1>2, <1>3, <1>4, QuietStep

LEMMA CountersNow == IInv => CountersOK /\ card \in BOOLEAN /\ tmpl \in Template
  BY DEF IInv, TypeOK, CountersOK

LEMMA StartIInv ==
    ASSUME IInv, NEW w \in Workers, RunDuePass(w) \/ GenerateNow(w)
    PROVE  IInv'
<1>1. PICK pc \in Generate : job' = [job EXCEPT ![w] = [Idle EXCEPT !.pc = pc, !.row = tmpl]]
  BY DEF RunDuePass, GenerateNow, Generate
<1> DEFINE j == [Idle EXCEPT !.pc = pc, !.row = tmpl]
<1>2. UNCHANGED <<inv, outbox, payments, intents, tmpl, card, today, edits, fails>> /\ job[w].pc = "idle"
  BY DEF RunDuePass, GenerateNow, template, books, At
<1>3. j \in Job
  BY IdleJob, CountersNow DEF Job, Places, Generate, Idle
<1>4. job'[w] = j
  BY <1>1 DEF IInv, TypeOK
<1>5. JobHolds(w)'
  BY <1>1, <1>2, <1>4 DEF JobHolds, Idle, Generate, OnInvoice, OnIntent, WithMoney
<1> QED BY <1>1, <1>2, <1>3, <1>5, MovesOn, CountersNow DEF CountersOK

LEMMA WebhookIInv ==
    ASSUME IInv, NEW w \in Workers, NEW k \in 1..Len(intents), Webhook(w, k)
    PROVE  IInv'
<1> DEFINE j == [Idle EXCEPT !.pc = "record", !.invoice = intents[k].invoice, !.intent = k]
<1>1. UNCHANGED <<inv, outbox, payments, intents, tmpl, card, today, edits>> /\ job[w].pc = "idle"
  BY DEF Webhook, template, books, At
<1>2. fails' \in 0..MaxFails /\ (fails' = 0 => fails = 0)
  <2>1. fails \in 0..MaxFails
    BY DEF IInv, TypeOK
  <2>2. fails' = fails \/ (fails < MaxFails /\ fails' = fails + 1)
    BY DEF Webhook
  <2> QED BY <2>1, <2>2, RecurringAssumption
<1>3. k \in Nat /\ intents[k] \in Intent /\ intents[k].invoice \in 1..Len(inv) /\ intents[k].invoice \in Nat
  <2>1. k \in Nat /\ intents[k] \in Intent /\ intents[k].invoice <= Len(inv) /\ Len(inv) \in Nat
    BY DEF IInv, TypeOK
  <2> QED BY <2>1 DEF Intent
<1>4. j \in Job
  BY <1>3, IdleJob DEF Job, Places, Idle
<1>5. job' = [job EXCEPT ![w] = j] /\ job'[w] = j
  BY DEF Webhook, IInv, TypeOK
<1>6. j.pc = "record" /\ j.invoice = intents[k].invoice /\ j.intent = k
  BY DEF Idle
<1>7. intents[k].state = "succeeded"
  BY DEF Webhook
<1>8. JobHolds(w)'
  BY <1>1, <1>3, <1>5, <1>6, <1>7 DEF JobHolds, Generate, OnInvoice, OnIntent, WithMoney
<1>9. CountersOK'
  BY <1>1, <1>2, CountersNow DEF CountersOK
<1> QED BY <1>1, <1>2, <1>4, <1>5, <1>8, <1>9, MovesOn, CountersNow

\* A worker goes to another place with what it has.
LEMMA Goes ==
    ASSUME TypeOK, NEW w \in Workers, NEW pc \in Places, Goto(w, pc)
    PROVE  /\ [job[w] EXCEPT !.pc = pc] \in Job
           /\ job' = [job EXCEPT ![w] = [job[w] EXCEPT !.pc = pc]]
           /\ job'[w].pc = pc /\ job'[w].invoice = job[w].invoice /\ job'[w].intent = job[w].intent
           /\ \A v \in Workers : v # w => job'[v] = job[v]
<1>1. job[w] \in Job /\ job \in [Workers -> Job]
  BY DEF TypeOK
<1>2. job' = [job EXCEPT ![w] = [job[w] EXCEPT !.pc = pc]]
  BY DEF Goto
<1> QED BY <1>1, <1>2 DEF Job

LEMMA SendCheckIInv == ASSUME IInv, NEW w \in Workers, SendCheck(w) PROVE IInv'
<1>1. /\ UNCHANGED <<inv, outbox, payments, intents, tmpl, card, today, edits, fails>>
      /\ job[w].pc = "send"
  BY DEF SendCheck, template, books, At
<1>2. CountersOK' /\ tmpl' \in Template /\ card' \in BOOLEAN
  BY <1>1, CountersNow DEF CountersOK
<1>3. CASE Finish(w) /\ inv[job[w].invoice].status # "draft"
  BY <1>1, <1>2, <1>3, Ends
<1>4. CASE Goto(w, "sendTx")
  <2>1. Grown
    BY <1>1, QuietGrown
  <2>2. /\ [job[w] EXCEPT !.pc = "sendTx"] \in Job
        /\ job' = [job EXCEPT ![w] = [job[w] EXCEPT !.pc = "sendTx"]]
        /\ job'[w].pc = "sendTx" /\ job'[w].invoice = job[w].invoice
        /\ \A v \in Workers : v # w => job'[v] = job[v]
    BY <1>4, Goes DEF IInv, Places
  <2>3. JobHolds(w)'
    BY <1>1, <2>2 DEF IInv, JobsHold, JobHolds, Generate, OnInvoice, OnIntent, WithMoney
  <2>4. job' \in [Workers -> Job] /\ JobsHold'
    BY <2>1, <2>2, <2>3, JobMoved DEF IInv
  <2>5. ASSUME NEW i \in 1..Len(inv), Handling(i)
        PROVE  Handling(i)'
    <3>1. PICK v \in Workers : job[v].pc \in {"send", "sendTx"} /\ job[v].invoice = i
      BY <2>5 DEF Handling
    <3>2. job'[v].pc \in {"send", "sendTx"} /\ job'[v].invoice = i
      BY <2>2, <3>1
    <3> QED BY <3>2 DEF Handling
  <2> QED BY <1>1, <1>2, <2>4, <2>5, QuietStep
<1> QED BY <1>3, <1>4 DEF SendCheck

\* The other places at which a worker only decides whether it goes on.
LEMMA DecideIInv ==
    ASSUME IInv, NEW w \in Workers, ChargeOffSession(w) \/ ReplyArrives(w) \/ RecordCheck(w)
    PROVE  IInv'
<1>1. /\ UNCHANGED <<inv, outbox, payments, intents, tmpl, card, today, edits, fails>>
      /\ job[w].pc \in {"charge", "reply", "record"}
  BY DEF ChargeOffSession, ReplyArrives, RecordCheck, template, books, At
<1>2. CountersOK' /\ tmpl' \in Template /\ card' \in BOOLEAN
  BY <1>1, CountersNow DEF CountersOK
<1>3. CASE Finish(w)
  BY <1>1, <1>2, <1>3, Ends
<1>4. ASSUME NEW pc \in {"stripe", "record", "credit"}, Goto(w, pc),
             pc = "stripe" => job[w].pc = "charge",
             pc = "record" => job[w].pc = "reply" /\ intents[job[w].intent].state = "succeeded",
             pc = "credit" => job[w].pc = "record"
      PROVE  IInv'
  <2>1. /\ [job[w] EXCEPT !.pc = pc] \in Job
        /\ job' = [job EXCEPT ![w] = [job[w] EXCEPT !.pc = pc]]
        /\ job'[w].pc = pc /\ job'[w].invoice = job[w].invoice /\ job'[w].intent = job[w].intent
    BY <1>4, Goes DEF IInv, Places
  <2>2. JobHolds(w)
    BY DEF IInv, JobsHold
  <2>3. JobHolds(w)'
    BY <1>1, <1>4, <2>1, <2>2 DEF JobHolds, Generate, OnInvoice, OnIntent, WithMoney
  <2> QED BY <1>1, <1>2, <2>1, <2>3, MovesOn
<1>5. CASE ChargeOffSession(w)
  BY <1>3, <1>4, <1>5 DEF ChargeOffSession, At
<1>6. CASE ReplyArrives(w)
  BY <1>3, <1>4, <1>6 DEF ReplyArrives, At
<1>7. CASE RecordCheck(w)
  BY <1>3, <1>4, <1>7 DEF RecordCheck, At
<1> QED BY <1>5, <1>6, <1>7

LEMMA ReplyLostIInv == ASSUME IInv, NEW w \in Workers, ReplyLost(w) PROVE IInv'
<1>1. /\ UNCHANGED <<inv, outbox, payments, intents, tmpl, card, today, edits>>
      /\ job[w].pc = "reply" /\ Goto(w, "stripe") /\ fails < MaxFails /\ fails' = fails + 1
  BY DEF ReplyLost, template, books, At
<1>2. CountersOK' /\ fails' # 0 /\ card' \in BOOLEAN
  BY <1>1, CountersNow, RecurringAssumption DEF CountersOK
<1>3. /\ [job[w] EXCEPT !.pc = "stripe"] \in Job
      /\ job' = [job EXCEPT ![w] = [job[w] EXCEPT !.pc = "stripe"]]
      /\ job'[w].pc = "stripe" /\ job'[w].invoice = job[w].invoice
  BY <1>1, Goes DEF IInv, Places
<1>4. JobHolds(w)
  BY DEF IInv, JobsHold
<1>5. JobHolds(w)'
  BY <1>1, <1>3, <1>4 DEF JobHolds, Generate, OnInvoice, OnIntent, WithMoney
<1> QED BY <1>1, <1>2, <1>3, <1>5, MovesOn

LEMMA FailIInv == ASSUME IInv, NEW w \in Workers, Fail(w) PROVE IInv'
<1>1. /\ UNCHANGED <<inv, outbox, payments, intents, tmpl, card, today, edits>>
      /\ Finish(w) /\ fails < MaxFails /\ fails' = fails + 1
  BY DEF Fail, template, books
<1>2. CountersOK' /\ fails' # 0 /\ tmpl' \in Template
  BY <1>1, CountersNow, RecurringAssumption DEF CountersOK
<1> QED BY <1>1, <1>2, Ends

LEMMA AlreadyGeneratedIInv == ASSUME IInv, NEW w \in Workers, AlreadyGenerated(w) PROVE IInv'
<1>1. /\ UNCHANGED <<inv, outbox, payments, intents, tmpl, card, today, edits, fails>>
      /\ Finish(w) /\ job[w].pc \in Generate
  BY DEF AlreadyGenerated, Generating, At, Generate, template, books
<1>2. CountersOK' /\ tmpl' \in Template
  BY <1>1, CountersNow DEF CountersOK
<1> QED BY <1>1, <1>2, Ends DEF Generate

\* The template with fields an edit changes or keeps.
LEMMA EditedTemplate ==
    ASSUME tmpl \in Template, NEW change \in Change,
           tmpl' = [tmpl EXCEPT !.active = New(@, change.active),
                                !.autopay = New(@, change.autopay),
                                !.end = New(@, change.end),
                                !.frequency = New(@, change.frequency)]
    PROVE  tmpl' \in Template /\ tmpl'.next = tmpl.next
<1>1. New(tmpl.active, change.active) \in BOOLEAN
  BY DEF New, Template, Change
<1>2. New(tmpl.autopay, change.autopay) \in BOOLEAN
  BY DEF New, Template, Change
<1>3. New(tmpl.end, change.end) \in Nat
  BY DEF New, Template, Change
<1>4. New(tmpl.frequency, change.frequency) \in Nat \ {0}
  BY DEF New, Template, Change
<1> QED BY <1>1, <1>2, <1>3, <1>4 DEF Template

LEMMA TemplateWrittenIInv ==
    ASSUME IInv, NEW w \in Workers, StopEnded(w) \/ UpdateWrite(w) \/ TurnAutopayOff(w)
    PROVE  IInv'
<1>1. /\ UNCHANGED <<inv, outbox, payments, intents, card, today, edits, fails>>
      /\ Finish(w) /\ job[w].pc \in {"due", "edit", "forget"}
  BY DEF StopEnded, UpdateWrite, TurnAutopayOff, books, At
<1>2. CountersOK' /\ tmpl \in Template
  BY <1>1, CountersNow DEF CountersOK
<1>3. tmpl' \in Template /\ tmpl'.next = tmpl.next
  <2>1. CASE StopEnded(w)
    BY <1>2, <2>1 DEF StopEnded, Template
  <2>2. CASE TurnAutopayOff(w)
    BY <1>2, <2>2 DEF TurnAutopayOff, Template
  <2>3. CASE UpdateWrite(w)
    <3>1. job[w].change \in Change
      BY DEF IInv, TypeOK, Job
    <3> QED BY <1>2, <2>3, <3>1, EditedTemplate DEF UpdateWrite
  <2> QED BY <2>1, <2>2, <2>3
<1> QED BY <1>1, <1>2, <1>3, Ends

LEMMA EditCounted ==
    ASSUME IInv, EditStarts, UNCHANGED <<today, fails>>
    PROVE  CountersOK'
  BY CountersNow, RecurringAssumption DEF EditStarts, CountersOK

LEMMA UpdateCheckIInv ==
    ASSUME IInv, NEW w \in Workers, NEW change \in Changes, UpdateCheck(w, change)
    PROVE  IInv'
<1> DEFINE j == [Idle EXCEPT !.pc = "edit", !.change = change]
<1>1. /\ UNCHANGED <<inv, outbox, payments, intents, tmpl, card, today, fails>>
      /\ job[w].pc = "idle" /\ job' = [job EXCEPT ![w] = j] /\ EditStarts
  BY DEF UpdateCheck, template, books, At
<1>2. CountersOK' /\ card' \in BOOLEAN
  BY <1>1, EditCounted, CountersNow
<1>3. j \in Job
  BY IdleJob, RecurringAssumption DEF Job, Places, Idle
<1>4. job'[w].pc = "edit"
  BY <1>1 DEF IInv, TypeOK, Idle
<1>5. JobHolds(w)'
  BY <1>4 DEF JobHolds, Generate, OnInvoice, OnIntent, WithMoney
<1> QED BY <1>1, <1>2, <1>3, <1>5, MovesOn

LEMMA RemoveCardIInv == ASSUME IInv, NEW w \in Workers, RemoveCard(w) PROVE IInv'
<1>1. /\ UNCHANGED <<inv, outbox, payments, intents, tmpl, today, fails>>
      /\ job[w].pc = "idle" /\ Goto(w, "forget") /\ EditStarts /\ card' = FALSE
  BY DEF RemoveCard, books, At
<1>2. CountersOK' /\ card' \in BOOLEAN
  BY <1>1, EditCounted
<1>3. /\ [job[w] EXCEPT !.pc = "forget"] \in Job
      /\ job' = [job EXCEPT ![w] = [job[w] EXCEPT !.pc = "forget"]]
      /\ job'[w].pc = "forget"
  BY <1>1, Goes DEF IInv, Places
<1>4. JobHolds(w)'
  BY <1>3 DEF JobHolds, Generate, OnInvoice, OnIntent, WithMoney
<1> QED BY <1>1, <1>2, <1>3, <1>4, MovesOn

\* Steps in which no worker moves.
LEMMA SurroundingsIInv == ASSUME IInv, Delete \/ SaveCard \/ Day PROVE IInv'
<1>1. UNCHANGED <<inv, outbox, payments, intents, job, fails>>
  BY DEF Delete, SaveCard, Day, template, books
<1>2. CountersOK'
  <2>1. CASE Day
    BY <2>1, CountersNow, RecurringAssumption DEF Day, CountersOK
  <2>2. CASE Delete \/ SaveCard
    BY <2>2, EditCounted DEF Delete, SaveCard
  <2> QED BY <2>1, <2>2
<1>3. tmpl' \in Template /\ tmpl'.next = tmpl.next
  BY CountersNow DEF Delete, SaveCard, Day, template, Template
<1>4. card' \in BOOLEAN
  BY CountersNow DEF Delete, SaveCard, Day, template
<1>5. Grown
  BY <1>1, <1>3, QuietGrown
<1>6. job' \in [Workers -> Job] /\ JobsHold'
  BY <1>1, <1>5, JobsSame DEF IInv
<1>7. \A i \in 1..Len(inv) : Handling(i) => Handling(i)'
  BY <1>1 DEF Handling
<1> QED BY <1>1, <1>2, <1>3, <1>4, <1>6, <1>7, QuietStep

-----------------------------------------------------------------------------
(***************************************************************************)
(* Steps that write an invoice or a payment.                               *)
(***************************************************************************)

\* A step that changes the status of invoices and adds payments.
LEMMA BooksStep ==
    ASSUME IInv, SameInvoices, UNCHANGED <<outbox, intents, tmpl, card>>, CountersOK',
           fails' = fails, payments' \in Seq(Payment), CreditedOnceSettled',
           job' \in [Workers -> Job], JobsHold',
           \A i \in 1..Len(inv) : Handling(i) /\ inv'[i].status = "draft" => Handling(i)'
    PROVE  IInv'
<1>1. TypeOK'
  BY DEF IInv, TypeOK, CountersOK, SameInvoices
<1>2. OncePerPeriod'
  BY ScheduleKept DEF IInv
<1>3. EventPerInvoice'
  BY EventsKept DEF IInv
<1>4. DraftLeftOnlyByFailure'
  BY DraftsKept DEF IInv
<1>5. KeyIsInvoice' /\ ChargedOnce'
  BY DEF IInv, KeyIsInvoice, ChargedOnce
<1> QED BY <1>1, <1>2, <1>3, <1>4, <1>5 DEF IInv

LEMMA SendTxIInv == ASSUME IInv, NEW w \in Workers, SendTx(w) PROVE IInv'
<1>1. /\ UNCHANGED <<outbox, payments, intents, tmpl, card, today, edits, fails>>
      /\ job[w].pc = "sendTx" /\ Goto(w, "charge")
      /\ inv' = [inv EXCEPT ![job[w].invoice].status = "sent"]
  BY DEF SendTx, template, At
<1>2. SameInvoices
  BY <1>1, StatusWritten DEF IInv
<1>3. Grown
  BY <1>1, <1>2, GrownBySame DEF IInv
<1>4. /\ [job[w] EXCEPT !.pc = "charge"] \in Job
      /\ job' = [job EXCEPT ![w] = [job[w] EXCEPT !.pc = "charge"]]
      /\ job'[w].pc = "charge" /\ job'[w].invoice = job[w].invoice
      /\ \A v \in Workers : v # w => job'[v] = job[v]
  BY <1>1, Goes DEF IInv, Places
<1>5. job[w].invoice \in 1..Len(inv)
  BY <1>1 DEF IInv, JobsHold, JobHolds, OnInvoice
<1>6. JobHolds(w)'
  BY <1>2, <1>4, <1>5 DEF JobHolds, Generate, OnInvoice, OnIntent, WithMoney, SameInvoices
<1>7. job' \in [Workers -> Job] /\ JobsHold'
  BY <1>3, <1>4, <1>6, JobMoved DEF IInv
<1>8. inv'[job[w].invoice].status = "sent"
  BY <1>1, <1>5 DEF IInv, TypeOK, Invoice
<1>9. ASSUME NEW i \in 1..Len(inv), Handling(i), inv'[i].status = "draft"
      PROVE  Handling(i)'
  <2>1. PICK v \in Workers : job[v].pc \in {"send", "sendTx"} /\ job[v].invoice = i
    BY <1>9 DEF Handling
  <2>2. v # w
    BY <1>8, <1>9, <2>1
  <2> QED BY <1>4, <2>1, <2>2 DEF Handling
<1>10. CountersOK' /\ payments' \in Seq(Payment) /\ CreditedOnceSettled'
  BY <1>1, CountersNow, MoneyKept DEF CountersOK, IInv, TypeOK
<1> QED BY <1>1, <1>2, <1>7, <1>9, <1>10, BooksStep

\* Nobody's job changes, so nobody stops handling an invoice.
LEMMA ByHand ==
    ASSUME IInv, SameInvoices, UNCHANGED <<outbox, intents, tmpl, card, job, today, fails>>,
           EditStarts, payments' \in Seq(Payment), CreditedOnceSettled'
    PROVE  IInv'
<1>1. Grown
  BY GrownBySame DEF IInv
<1>2. job' \in [Workers -> Job] /\ JobsHold'
  BY <1>1, JobsSame DEF IInv
<1>3. \A i \in 1..Len(inv) : Handling(i) => Handling(i)'
  BY DEF Handling
<1>4. CountersOK'
  BY EditCounted
<1> QED BY <1>2, <1>3, <1>4, BooksStep

LEMMA PersonIInv ==
    ASSUME IInv, NEW i \in 1..Len(inv), SendByHand(i) \/ VoidByHand(i)
    PROVE  IInv'
<1>1. PICK s \in {"sent", "void"} : inv' = [inv EXCEPT ![i].status = s]
  BY DEF SendByHand, VoidByHand, PersonActs
<1>2. /\ UNCHANGED <<outbox, intents, tmpl, card, job, today, fails, payments>>
      /\ EditStarts
  BY DEF SendByHand, VoidByHand, PersonActs, template
<1>3. SameInvoices
  BY <1>1, StatusWritten DEF IInv
<1>4. payments' \in Seq(Payment) /\ CreditedOnceSettled'
  BY <1>2, MoneyKept DEF IInv, TypeOK
<1> QED BY <1>2, <1>3, <1>4, ByHand

\* A further payment, which is by hand or the first of its intent.
LEMMA PaymentAdded ==
    ASSUME IInv, UNCHANGED intents, NEW p \in Payment, payments' = Append(payments, p),
           p.intent # NoIntent =>
               /\ ~Recorded(p.intent)
               /\ p.intent \in 1..Len(intents)
               /\ intents[p.intent].state = "succeeded"
               /\ intents[p.intent].invoice = p.invoice
    PROVE  payments' \in Seq(Payment) /\ CreditedOnceSettled'
<1>1. payments \in Seq(Payment) /\ Len(payments) \in Nat
  BY DEF IInv, TypeOK
<1>2. /\ payments' \in Seq(Payment) /\ Len(payments') = Len(payments) + 1
      /\ \A i \in 1..Len(payments) : payments'[i] = payments[i]
      /\ payments'[Len(payments) + 1] = p
  BY <1>1
<1>3. \A i \in 1..Len(payments) : p.intent = payments[i].intent => p.intent = NoIntent
  BY DEF Recorded
<1>4. ASSUME NEW i \in 1..Len(payments'), NEW j \in 1..Len(payments'),
             payments'[i].intent = payments'[j].intent
      PROVE  i = j \/ payments'[i].intent = NoIntent
  <2>1. CASE i \in 1..Len(payments) /\ j \in 1..Len(payments)
    BY <1>2, <1>4, <2>1 DEF IInv, CreditedOnceSettled
  <2>2. CASE i = Len(payments) + 1 \/ j = Len(payments) + 1
    BY <1>1, <1>2, <1>3, <1>4, <2>2
  <2> QED BY <1>1, <1>2, <2>1, <2>2
<1>5. ASSUME NEW i \in 1..Len(payments'), payments'[i].intent # NoIntent
      PROVE  /\ payments'[i].intent \in 1..Len(intents)
             /\ intents[payments'[i].intent].state = "succeeded"
             /\ intents[payments'[i].intent].invoice = payments'[i].invoice
  <2>1. CASE i \in 1..Len(payments)
    BY <1>2, <1>5, <2>1 DEF IInv, CreditedOnceSettled
  <2>2. CASE i = Len(payments) + 1
    BY <1>2, <1>5, <2>2
  <2> QED BY <1>1, <1>2, <2>1, <2>2
<1> QED BY <1>2, <1>4, <1>5 DEF CreditedOnceSettled

LEMMA PayByHandIInv == ASSUME IInv, NEW i \in 1..Len(inv), PayByHand(i) PROVE IInv'
<1> DEFINE p == [invoice |-> i, intent |-> NoIntent]
<1>1. /\ UNCHANGED <<outbox, intents, tmpl, card, job, today, fails>> /\ EditStarts
      /\ inv' = [inv EXCEPT ![i].status = "paid"] /\ payments' = Append(payments, p)
  BY DEF PayByHand, template
<1>2. SameInvoices
  BY <1>1, StatusWritten DEF IInv
<1>3. p \in Payment
  BY Lengths DEF Payment, NoIntent, IInv
<1>4. payments' \in Seq(Payment) /\ CreditedOnceSettled'
  BY <1>1, <1>3, PaymentAdded
<1> QED BY <1>1, <1>2, <1>4, ByHand

LEMMA RecordPaymentTxIInv == ASSUME IInv, NEW w \in Workers, RecordPaymentTx(w) PROVE IInv'
<1> DEFINE i == job[w].invoice
<1> DEFINE k == job[w].intent
<1> DEFINE p == [invoice |-> i, intent |-> k]
<1>1. /\ UNCHANGED <<outbox, intents, tmpl, card, today, edits, fails>>
      /\ job[w].pc = "credit" /\ Finish(w)
      /\ inv' = [inv EXCEPT ![i].status = "paid"]
      /\ payments' = IF Recorded(k) THEN payments ELSE Append(payments, p)
  BY DEF RecordPaymentTx, template, At
<1>2. SameInvoices
  BY <1>1, StatusWritten DEF IInv
<1>3. Grown
  BY <1>1, <1>2, GrownBySame DEF IInv
<1>4. job' \in [Workers -> Job] /\ JobsHold'
  BY <1>1, <1>3, JobFinished DEF IInv
<1>5. /\ i \in 1..Len(inv) /\ k \in 1..Len(intents)
      /\ intents[k].invoice = i /\ intents[k].state = "succeeded"
  BY <1>1 DEF IInv, JobsHold, JobHolds, OnInvoice, OnIntent, WithMoney
<1>6. p \in Payment
  BY <1>5, Lengths DEF Payment, IInv
<1>7. payments' \in Seq(Payment) /\ CreditedOnceSettled'
  <2>1. CASE Recorded(k)
    BY <1>1, <2>1, MoneyKept DEF IInv, TypeOK
  <2>2. CASE ~Recorded(k)
    BY <1>1, <1>5, <1>6, <2>2, PaymentAdded
  <2> QED BY <2>1, <2>2
<1>8. \A n : Handling(n) => Handling(n)'
  BY <1>1, HandlersKept DEF Finish, IInv
<1>9. CountersOK'
  BY <1>1, CountersNow DEF CountersOK
<1> QED BY <1>1, <1>2, <1>4, <1>7, <1>8, <1>9, BooksStep

-----------------------------------------------------------------------------
(***************************************************************************)
(* Stripe: an intent is made, an intent is settled.                        *)
(***************************************************************************)

\* Intents are only added, and what has succeeded stays.
LEMMA IntentsGrown ==
    ASSUME IInv, UNCHANGED <<inv, tmpl>>, intents' \in Seq(Intent), Len(intents) <= Len(intents'),
           \A k \in 1..Len(intents) :
              /\ intents'[k].invoice = intents[k].invoice
              /\ intents[k].state = "succeeded" => intents'[k].state = "succeeded"
    PROVE  Grown
<1>1. \A p : PeriodTaken(p) => PeriodTaken(p)'
  BY DEF PeriodTaken
<1>2. Len(inv) \in Nat /\ Len(intents) \in Nat /\ Len(intents') \in Nat
  BY Lengths DEF IInv
<1> QED BY <1>1, <1>2 DEF Grown

LEMMA IntentsStep ==
    ASSUME IInv, UNCHANGED <<inv, outbox, payments, tmpl, card, today, edits, fails>>,
           Grown, intents' \in Seq(Intent), KeyIsInvoice', ChargedOnce',
           \A k \in 1..Len(intents') : intents'[k].invoice <= Len(inv),
           job' \in [Workers -> Job], JobsHold',
           \A i : Handling(i) => Handling(i)'
    PROVE  IInv'
<1>1. SameInvoices
  BY UnchangedInvoices DEF IInv
<1>2. TypeOK'
  BY DEF IInv, TypeOK
<1>3. OncePerPeriod'
  BY <1>1, ScheduleKept DEF IInv
<1>4. EventPerInvoice'
  BY <1>1, EventsKept DEF IInv
<1>5. DraftLeftOnlyByFailure'
  BY <1>1, DraftsKept DEF IInv
<1>6. CreditedOnceSettled'
  <2>1. \A i, j \in 1..Len(payments) :
           payments[i].intent = payments[j].intent => i = j \/ payments[i].intent = NoIntent
    BY DEF IInv, CreditedOnceSettled
  <2>2. ASSUME NEW i \in 1..Len(payments), payments[i].intent # NoIntent
        PROVE  /\ payments[i].intent \in 1..Len(intents')
               /\ intents'[payments[i].intent].state = "succeeded"
               /\ intents'[payments[i].intent].invoice = payments[i].invoice
    <3>1. /\ payments[i].intent \in 1..Len(intents)
          /\ intents[payments[i].intent].state = "succeeded"
          /\ intents[payments[i].intent].invoice = payments[i].invoice
      BY <2>2 DEF IInv, CreditedOnceSettled
    <3> QED BY <3>1 DEF Grown
  <2> QED BY <2>1, <2>2 DEF CreditedOnceSettled
<1> QED BY <1>2, <1>3, <1>4, <1>5, <1>6 DEF IInv

LEMMA SettleIInv ==
    ASSUME IInv, NEW k \in 1..Len(intents), NEW state \in {"succeeded", "failed"}, Settle(k, state)
    PROVE  IInv'
<1>1. /\ UNCHANGED <<inv, outbox, payments, tmpl, card, job, today, edits, fails>>
      /\ intents[k].state = "processing" /\ intents' = [intents EXCEPT ![k].state = state]
  BY DEF Settle, template, books
<1>2. Len(intents) \in Nat /\ intents \in [1..Len(intents) -> Intent]
  BY DEF IInv, TypeOK
<1>3. intents' \in [1..Len(intents) -> Intent]
  BY <1>1, <1>2 DEF Intent
<1>4. intents' \in Seq(Intent) /\ Len(intents') = Len(intents)
  BY <1>2, <1>3
<1>5. \A l \in 1..Len(intents) :
         /\ intents'[l].invoice = intents[l].invoice /\ intents'[l].key = intents[l].key
         /\ intents[l].state = "succeeded" => intents'[l].state = "succeeded"
  BY <1>1, <1>2 DEF Intent
<1>6. Grown
  BY <1>1, <1>2, <1>4, <1>5, IntentsGrown
<1>7. KeyIsInvoice' /\ ChargedOnce'
  BY <1>4, <1>5 DEF IInv, KeyIsInvoice, ChargedOnce
<1>8. \A l \in 1..Len(intents') : intents'[l].invoice <= Len(inv)
  BY <1>4, <1>5 DEF IInv, TypeOK
<1>9. job' \in [Workers -> Job] /\ JobsHold'
  BY <1>1, <1>6, JobsSame DEF IInv
<1>10. \A i : Handling(i) => Handling(i)'
  BY <1>1 DEF Handling
<1> QED BY <1>1, <1>4, <1>6, <1>7, <1>8, <1>9, <1>10, IntentsStep

\* The answer to a request names an intent that was made for its invoice.
LEMMA Answered ==
    ASSUME IInv, Grown, NEW w \in Workers, job[w].pc = "stripe", NEW k \in 1..Len(intents'),
           UNCHANGED inv, job' = [job EXCEPT ![w].pc = "reply", ![w].intent = k],
           intents'[k].invoice = job[w].invoice
    PROVE  /\ job' \in [Workers -> Job] /\ JobsHold'
           /\ \A i : Handling(i) => Handling(i)'
<1>1. job[w] \in Job /\ job \in [Workers -> Job] /\ k \in Nat
  BY DEF IInv, TypeOK, Grown
<1>2. PICK j : j = [job[w] EXCEPT !.pc = "reply", !.intent = k]
  OBVIOUS
<1>3. j \in Job /\ j.pc = "reply" /\ j.intent = k /\ j.invoice = job[w].invoice
  BY <1>1, <1>2 DEF Job, Places
<1>4. job' = [job EXCEPT ![w] = j] /\ job'[w] = j
  BY <1>1, <1>2
<1>5. job[w].invoice \in 1..Len(inv)
  BY DEF IInv, JobsHold, JobHolds, OnInvoice
<1>6. JobHolds(w)'
  BY <1>3, <1>4, <1>5 DEF JobHolds, Generate, OnInvoice, OnIntent, WithMoney
<1> QED BY <1>3, <1>4, <1>6, JobMoved, HandlersKept DEF IInv

LEMMA StripeChargesIInv ==
    ASSUME IInv, NEW w \in Workers, NEW state \in {"succeeded", "processing", "failed"},
           StripeCharges(w, state)
    PROVE  IInv'
<1>1. PICK i : i = job[w].invoice
  OBVIOUS
<1>2. PICK n : n = Len(intents)
  OBVIOUS
<1>3. PICK same : same = {k \in 1..n : intents[k].key = i}
  OBVIOUS
<1>4. /\ UNCHANGED <<inv, outbox, payments, tmpl, card, today, edits, fails>>
      /\ job[w].pc = "stripe"
      /\ IF same # {}
           THEN /\ job' = [job EXCEPT ![w].pc = "reply", ![w].intent = CHOOSE k \in same : TRUE]
                /\ UNCHANGED intents
           ELSE /\ intents' = Append(intents, [invoice |-> i, key |-> i, state |-> state])
                /\ job' = [job EXCEPT ![w].pc = "reply", ![w].intent = n + 1]
  BY <1>1, <1>2, <1>3 DEF StripeCharges, IdempotencyKey, template, books, At
<1>5. intents \in Seq(Intent) /\ n \in Nat /\ Len(inv) \in Nat
  BY <1>2 DEF IInv, TypeOK
<1>6. i \in 1..Len(inv)
  BY <1>1, <1>4 DEF IInv, JobsHold, JobHolds, OnInvoice
<1>7. CASE same # {}
  <2>1. PICK k : k = CHOOSE l \in same : TRUE
    OBVIOUS
  <2>2. k \in same
    BY <1>7, <2>1
  <2>3. k \in 1..Len(intents') /\ intents'[k].invoice = i /\ UNCHANGED intents
    BY <1>2, <1>3, <1>4, <1>7, <2>2 DEF IInv, KeyIsInvoice
  <2>4. intents' \in Seq(Intent) /\ Grown
    BY <1>2, <1>4, <1>5, <2>3, QuietGrown
  <2>5. job' = [job EXCEPT ![w].pc = "reply", ![w].intent = k]
    BY <1>4, <1>7, <2>1
  <2>6. /\ job' \in [Workers -> Job] /\ JobsHold'
        /\ \A l : Handling(l) => Handling(l)'
    BY <1>1, <1>4, <2>3, <2>4, <2>5, Answered
  <2>7. KeyIsInvoice' /\ ChargedOnce' /\ \A l \in 1..Len(intents') : intents'[l].invoice <= Len(inv)
    BY <2>3 DEF IInv, KeyIsInvoice, ChargedOnce, TypeOK
  <2> QED BY <1>4, <2>4, <2>6, <2>7, IntentsStep
<1>8. CASE same = {}
  <2>1. PICK c : c = [invoice |-> i, key |-> i, state |-> state]
    OBVIOUS
  <2>2. c \in Intent /\ c.invoice = i /\ c.key = i
    BY <1>5, <1>6, <2>1 DEF Intent
  <2>3. intents' = Append(intents, c) /\ job' = [job EXCEPT ![w].pc = "reply", ![w].intent = n + 1]
    BY <1>4, <1>8, <2>1
  <2>4. /\ intents' \in Seq(Intent) /\ Len(intents') = n + 1
        /\ \A l \in 1..n : intents'[l] = intents[l]
        /\ intents'[n + 1] = c
    BY <1>2, <1>5, <2>2, <2>3
  <2>5. Grown
    BY <1>2, <1>4, <1>5, <2>4, IntentsGrown
  <2>6. n + 1 \in 1..Len(intents') /\ intents'[n + 1].invoice = job[w].invoice
    BY <1>1, <1>5, <2>2, <2>4
  <2>7. /\ job' \in [Workers -> Job] /\ JobsHold'
        /\ \A l : Handling(l) => Handling(l)'
    BY <1>4, <2>3, <2>5, <2>6, Answered
  <2>8. \A l \in 1..n : intents[l].key = intents[l].invoice /\ intents[l].invoice # i
    BY <1>2, <1>3, <1>8 DEF IInv, KeyIsInvoice
  <2>9. \A l \in 1..Len(intents') : l \in 1..n \/ l = n + 1
    BY <1>5, <2>4
  <2>10. KeyIsInvoice'
    BY <2>2, <2>4, <2>8, <2>9 DEF KeyIsInvoice
  <2>11. ChargedOnce'
    <3> SUFFICES ASSUME NEW k \in 1..Len(intents'), NEW l \in 1..Len(intents'),
                        intents'[k].invoice = intents'[l].invoice
                 PROVE  k = l
      BY DEF ChargedOnce
    <3>1. CASE k \in 1..n /\ l \in 1..n
      BY <1>2, <2>4, <3>1 DEF IInv, ChargedOnce
    <3>2. CASE k = n + 1 \/ l = n + 1
      BY <2>2, <2>4, <2>8, <2>9, <3>2
    <3> QED BY <2>9, <3>1, <3>2
  <2>12. \A l \in 1..Len(intents') : intents'[l].invoice <= Len(inv)
    <3>1. \A l \in 1..n : intents[l].invoice <= Len(inv)
      BY <1>2 DEF IInv, TypeOK
    <3>2. i <= Len(inv)
      BY <1>5, <1>6
    <3> QED BY <2>2, <2>4, <2>9, <3>1, <3>2
  <2> QED BY <1>4, <2>4, <2>5, <2>7, <2>10, <2>11, <2>12, IntentsStep
<1> QED BY <1>7, <1>8

-----------------------------------------------------------------------------
(***************************************************************************)
(* generateInvoice.                                                        *)
(***************************************************************************)

LEMMA GenerateInvoiceIInv == ASSUME IInv, NEW w \in Workers, GenerateInvoice(w) PROVE IInv'
<1>1. PICK row : row = job[w].row
  OBVIOUS
<1>2. PICK n : n = Len(inv)
  OBVIOUS
<1>3. PICK x : x = [period |-> row.next, step |-> row.frequency, autopay |-> row.autopay,
                    status |-> "draft"]
  OBVIOUS
<1>4. PICK j : j = IF row.autopay THEN [Idle EXCEPT !.pc = "send", !.invoice = n + 1] ELSE Idle
  OBVIOUS
<1>5. /\ UNCHANGED <<card, payments, intents, today, edits, fails>>
      /\ job[w].pc \in Generate /\ ~PeriodTaken(row.next)
      /\ inv' = Append(inv, x) /\ outbox' = Append(outbox, n + 1)
      /\ tmpl' = [tmpl EXCEPT !.next = row.next + row.frequency]
      /\ job' = [job EXCEPT ![w] = j]
  BY <1>1, <1>2, <1>3, <1>4 DEF GenerateInvoice, Generating, At, Generate
<1>6. row \in Template /\ tmpl \in Template /\ inv \in Seq(Invoice) /\ n \in Nat /\ outbox \in Seq(Nat)
  BY <1>1, <1>2 DEF IInv, TypeOK, Job
<1>7. row.next = tmpl.next
  BY <1>1, <1>5 DEF IInv, JobsHold, JobHolds
<1>8. /\ x \in Invoice /\ x.period = row.next /\ x.step = row.frequency /\ x.autopay = row.autopay
  BY <1>3, <1>6 DEF Invoice, Template
<1>9. /\ inv' \in Seq(Invoice) /\ Len(inv') = n + 1
      /\ \A i \in 1..n : inv'[i] = inv[i]
      /\ inv'[n + 1] = x
  BY <1>2, <1>5, <1>6, <1>8
<1>10. row.next \in Nat /\ row.frequency \in Nat /\ row.next + row.frequency \in Nat \ {0}
  BY <1>6 DEF Template
<1>11. tmpl' \in Template /\ tmpl'.next = row.next + row.frequency
  BY <1>5, <1>6, <1>10 DEF Template
<1>12. Grown
  <2>1. \A p : PeriodTaken(p) => PeriodTaken(p)'
    BY <1>2, <1>6, <1>9 DEF PeriodTaken
  <2>2. \A p : p = tmpl.next => PeriodTaken(p)'
    BY <1>6, <1>7, <1>8, <1>9 DEF PeriodTaken
  <2> QED BY <1>2, <1>5, <1>6, <1>9, <2>1, <2>2, Lengths DEF Grown, IInv
<1>13. /\ j \in Job
       /\ j.pc \in {"send", "idle"}
       /\ row.autopay => j.pc = "send"
       /\ j.pc = "send" => j.invoice = n + 1
  <2>1. CASE row.autopay
    <3>1. j = [Idle EXCEPT !.pc = "send", !.invoice = n + 1]
      BY <1>4, <2>1
    <3>2. j \in Job /\ j.pc = "send" /\ j.invoice = n + 1
      <4>1. PICK m \in Nat : m = n + 1
        BY <1>6
      <4>2. j = [Idle EXCEPT !.pc = "send", !.invoice = m]
        BY <3>1, <4>1
      <4> QED BY <4>1, <4>2, IdleJob DEF Job, Places
    <3> QED BY <3>2
  <2>2. CASE ~row.autopay
    <3>1. j = Idle
      BY <1>4, <2>2
    <3> QED BY <2>2, <3>1, IdleJob DEF Idle
  <2> QED BY <2>1, <2>2
<1>14. job'[w] = j
  BY <1>5 DEF IInv, TypeOK
<1>15. JobHolds(w)'
  BY <1>6, <1>9, <1>13, <1>14 DEF JobHolds, Generate, OnInvoice, OnIntent, WithMoney
<1>16. job' \in [Workers -> Job] /\ JobsHold'
  BY <1>5, <1>12, <1>13, <1>15, JobMoved DEF IInv
<1>17. TypeOK'
  <2>1. outbox' \in Seq(Nat)
    BY <1>5, <1>6
  <2>2. ASSUME NEW k \in 1..Len(intents)
        PROVE  intents[k].invoice <= Len(inv')
    <3>1. intents[k] \in Intent /\ intents[k].invoice <= n
      BY <1>2 DEF IInv, TypeOK
    <3> QED BY <1>6, <1>9, <3>1 DEF Intent
  <2>3. card \in BOOLEAN /\ intents \in Seq(Intent) /\ payments \in Seq(Payment)
    BY DEF IInv, TypeOK
  <2>4. today \in 0..MaxDay /\ edits \in 0..MaxEdits /\ fails \in 0..MaxFails
    BY DEF IInv, TypeOK
  <2> QED BY <1>5, <1>9, <1>11, <1>16, <2>1, <2>2, <2>3, <2>4 DEF TypeOK
<1>18. OncePerPeriod'
  <2>1. \A i \in 1..n : inv[i].period = IF i = 1 THEN Start ELSE inv[i - 1].period + inv[i - 1].step
    BY <1>2 DEF IInv, OncePerPeriod
  <2>2. tmpl.next = IF n = 0 THEN Start ELSE inv[n].period + inv[n].step
    BY <1>2 DEF IInv, OncePerPeriod
  <2>3. ASSUME NEW i \in 1..Len(inv')
        PROVE  inv'[i].period = IF i = 1 THEN Start ELSE inv'[i - 1].period + inv'[i - 1].step
    <3>1. CASE i \in 1..n
      <4>1. CASE i = 1
        BY <1>9, <2>1, <3>1, <4>1
      <4>2. CASE i # 1
        <5>1. i - 1 \in 1..n
          BY <1>6, <3>1, <4>2
        <5> QED BY <1>9, <2>1, <3>1, <4>2, <5>1
      <4> QED BY <4>1, <4>2
    <3>2. CASE i = n + 1
      <4>1. CASE n = 0
        BY <1>7, <1>8, <1>9, <2>2, <3>2, <4>1
      <4>2. CASE n # 0
        <5>1. n \in 1..n /\ i - 1 = n /\ i # 1
          BY <1>6, <3>2, <4>2
        <5> QED BY <1>7, <1>8, <1>9, <2>2, <3>2, <4>2, <5>1
      <4> QED BY <4>1, <4>2
    <3> QED BY <1>6, <1>9, <3>1, <3>2
  <2>4. tmpl'.next = IF Len(inv') = 0 THEN Start ELSE inv'[Len(inv')].period + inv'[Len(inv')].step
    BY <1>6, <1>8, <1>9, <1>11
  <2> QED BY <2>3, <2>4 DEF OncePerPeriod
<1>19. EventPerInvoice'
  <2>1. Len(outbox) = n /\ \A i \in 1..n : outbox[i] = i
    BY <1>2, <1>6 DEF IInv, EventPerInvoice
  <2>2. /\ outbox' \in Seq(Nat) /\ Len(outbox') = n + 1
        /\ \A i \in 1..(n + 1) : outbox'[i] = i
    BY <1>5, <1>6, <2>1
  <2>3. outbox' = [i \in 1..(n + 1) |-> i]
    BY <1>6, <2>2
  <2> QED BY <1>9, <2>3 DEF EventPerInvoice
<1>20. DraftLeftOnlyByFailure'
  <2> SUFFICES ASSUME fails' = 0, NEW i \in 1..Len(inv'), inv'[i].autopay, inv'[i].status = "draft"
               PROVE  Handling(i)'
    BY DEF DraftLeftOnlyByFailure
  <2>1. CASE i \in 1..n
    <3>1. Handling(i)
      BY <1>2, <1>5, <1>9, <2>1 DEF IInv, DraftLeftOnlyByFailure
    <3>2. job[w].pc \notin {"send", "sendTx"}
      BY <1>5 DEF Generate
    <3> QED BY <1>5, <3>1, <3>2, HandlersKept DEF IInv
  <2>2. CASE i = n + 1
    <3>1. job'[w].pc = "send" /\ job'[w].invoice = i
      BY <1>8, <1>9, <1>13, <1>14, <2>2
    <3> QED BY <3>1 DEF Handling
  <2> QED BY <1>6, <1>9, <2>1, <2>2
<1>21. KeyIsInvoice' /\ ChargedOnce' /\ CreditedOnceSettled'
  BY <1>5, MoneyKept DEF IInv
<1> QED BY <1>16, <1>17, <1>18, <1>19, <1>20, <1>21 DEF IInv

-----------------------------------------------------------------------------
LEMMA WorkIInv == ASSUME IInv, NEW w \in Workers, Work(w) PROVE IInv'
  BY TemplateWrittenIInv, GenerateInvoiceIInv, AlreadyGeneratedIInv, SendCheckIInv, SendTxIInv,
     DecideIInv, StripeChargesIInv, RecordPaymentTxIInv DEF Work

LEMMA StutterIInv == ASSUME IInv, UNCHANGED vars PROVE IInv'
  BY DEF vars, template, books, IInv, TypeOK, JobsHold, JobHolds, PeriodTaken, OncePerPeriod,
         EventPerInvoice, DraftLeftOnlyByFailure, Handling, KeyIsInvoice, ChargedOnce,
         CreditedOnceSettled

LEMMA NextIInv == IInv /\ [Next]_vars => IInv'
<1> SUFFICES ASSUME IInv, [Next]_vars PROVE IInv'
  OBVIOUS
<1>1. ASSUME NEW w \in Workers,
             \/ RunDuePass(w) \/ GenerateNow(w) \/ Work(w) \/ ReplyLost(w) \/ Fail(w)
             \/ \E k \in 1..Len(intents) : Webhook(w, k)
             \/ \E change \in Changes : UpdateCheck(w, change)
             \/ RemoveCard(w)
      PROVE  IInv'
  BY <1>1, StartIInv, WorkIInv, ReplyLostIInv, FailIInv, WebhookIInv, UpdateCheckIInv, RemoveCardIInv
<1>2. CASE \E k \in 1..Len(intents), state \in {"succeeded", "failed"} : Settle(k, state)
  BY <1>2, SettleIInv
<1>3. CASE \E i \in 1..Len(inv) : SendByHand(i) \/ VoidByHand(i) \/ PayByHand(i)
  BY <1>3, PersonIInv, PayByHandIInv
<1>4. CASE Delete \/ SaveCard \/ Day
  BY <1>4, SurroundingsIInv
<1>5. CASE UNCHANGED vars
  BY <1>5, StutterIInv
<1> QED BY <1>1, <1>2, <1>3, <1>4, <1>5 DEF Next

LEMMA IInvAlways == Spec => []IInv
  BY InitIInv, NextIInv, PTL DEF Spec

\* Whatever number of passes, clicks, edits, webhooks and deaths overlap, no period is
\* invoiced twice and none is left out: generateInvoice and its unique index keep the
\* invoices and the schedule in step.
THEOREM PeriodsInvoicedOnce == Spec => []OncePerPeriod
<1>1. IInv => OncePerPeriod
  BY DEF IInv
<1> QED BY <1>1, IInvAlways, PTL

\* Every invoice has exactly its event, in order, and without a failure no autopay
\* invoice is left behind as a draft by generateInvoice and attemptAutopay.
THEOREM FollowUpsKept == Spec => []FollowUpKept
<1>1. IInv => FollowUpKept
  BY DEF IInv, FollowUpKept
<1> QED BY <1>1, IInvAlways, PTL

\* chargeOffSession takes the money of an invoice once, however many answers are lost,
\* and the answer and the webhook together credit it once, when it has arrived.
THEOREM AutopayTakesMoneyOnce == Spec => []MoneyTakenOnce
<1>1. IInv => MoneyTakenOnce
  BY DEF IInv, MoneyTakenOnce
<1> QED BY <1>1, IInvAlways, PTL

=============================================================================
