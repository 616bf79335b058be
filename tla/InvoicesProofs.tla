--------------------------- MODULE InvoicesProofs ---------------------------
(***************************************************************************)
(* Safety of the invoice life cycle for any number of handlers, charges,   *)
(* invoices and payments, and for any amounts.                             *)
(*                                                                         *)
(* The first part (lock, Storno, journal, Stripe) does not depend on what  *)
(* an amount is and leaves amounts open: RowOver(A) is an invoice whose    *)
(* amounts and dates are in some set A. What counts is the standing of an  *)
(* invoice (its status, its lock and what it corrects) and that a handler  *)
(* between its read and its write still relies on something that cannot    *)
(* change: an invoice once locked stays locked, and a charge once paid     *)
(* stays as it is.                                                         *)
(*                                                                         *)
(* The later parts are about the amounts: types, late fees, one event per  *)
(* payment, and the books of a company that handles one request at a time. *)
(***************************************************************************)
EXTENDS Invoices, FiniteSetTheorems, WellFoundedInduction, TLAPS

RowOver(A) == [status : {"draft", "sent", "paid", "void"}, subtotal : A, tax : A, total : A,
               dueDate : A, lateFees : A, lastAccrual : A, locked : BOOLEAN, corrects : Nat]
PaymentOver(A) == [invoice : Nat, amount : A, charge : Charges \union {NoCharge}]
EntryOver(A) == [event : {"invoice.locked", "invoice.voided", "invoice.correction_issued"},
                 invoice : Nat, total : A]
ChargeOver(A) == [state : {"none", "open", "processing", "paid", "failed"}, invoice : Nat,
                  amount : A]
RequestOver(A) == [op : {"none", "send", "update", "void", "pay"}, invoice : Nat,
                   seen : RowOver(A), charge : Charges \union {NoCharge}, amount : A, dueDate : A]

ShapeOver(A) ==
    /\ inv \in Seq(RowOver(A))
    /\ payments \in Seq(PaymentOver(A))
    /\ ledger \in Seq(EntryOver(A))
    /\ charge \in [Charges -> ChargeOver(A)]
    /\ req \in [Handlers -> RequestOver(A)]

Shape == \E A : ShapeOver(A)

\* A handler is at an invoice that exists.
AtInvoice == \A h \in Handlers : req[h].op # "none" => req[h].invoice \in Ids

\* A charge is for an invoice that exists.
ChargesPlaced == \A c \in Charges : charge[c].state # "none" => charge[c].invoice \in Ids

\* What handler h found when it read is still so when it writes.
StillTrue(h) ==
    LET r == req[h]
    IN  /\ r.op \in {"void", "pay"} => inv[r.invoice].locked
        /\ r.op = "pay" /\ r.charge # NoCharge =>
              /\ charge[r.charge].state = "paid"
              /\ charge[r.charge].amount = r.amount
              /\ charge[r.charge].invoice = r.invoice

\* Nothing corrects an invoice that does not exist yet.
CorrectsExisting == \A j \in Ids : inv[j].corrects <= Len(inv)

Standing == DraftIffUnlocked /\ OneStorno /\ CorrectsExisting

IInv ==
    /\ Shape
    /\ AtInvoice
    /\ ChargesPlaced
    /\ \A h \in Handlers : StillTrue(h)
    /\ Standing
    /\ CreditedOnce
    /\ Journalled

-----------------------------------------------------------------------------
\* The sets of rows and requests grow with the set of amounts.
LEMMA ShapeWidens ==
    ASSUME NEW A, NEW B, A \subseteq B, ShapeOver(A)
    PROVE  ShapeOver(B)
<1>1. RowOver(A) \subseteq RowOver(B)
  BY DEF RowOver
<1>2. /\ PaymentOver(A) \subseteq PaymentOver(B)
      /\ EntryOver(A) \subseteq EntryOver(B)
      /\ ChargeOver(A) \subseteq ChargeOver(B)
  BY DEF PaymentOver, EntryOver, ChargeOver
<1>3. RequestOver(A) \subseteq RequestOver(B)
  BY <1>1 DEF RequestOver
<1>4. Seq(RowOver(A)) \subseteq Seq(RowOver(B))
  BY <1>1
<1>5. /\ Seq(PaymentOver(A)) \subseteq Seq(PaymentOver(B))
      /\ Seq(EntryOver(A)) \subseteq Seq(EntryOver(B))
  BY <1>2
<1> QED
  BY <1>2, <1>3, <1>4, <1>5 DEF ShapeOver

\* A handler takes up an operation: nothing but its request changes.
LEMMA ReadingShape ==
    ASSUME NEW A, ShapeOver(A), NEW h \in Handlers, NEW i \in Ids,
           NEW op \in {"send", "update", "void", "pay"}, NEW c \in Charges \union {NoCharge},
           NEW amount \in A, NEW date \in A,
           req' = [req EXCEPT ![h] = Reading(op, i, c, amount, date)],
           UNCHANGED <<rows, charge>>
    PROVE  ShapeOver(A)'
<1>1. inv[i] \in RowOver(A) /\ i \in Nat
  BY DEF ShapeOver, Ids
<1>2. Reading(op, i, c, amount, date) \in RequestOver(A)
  BY <1>1 DEF Reading, RequestOver
<1> QED
  BY <1>2 DEF ShapeOver, rows

\* A handler that has ended is idle.
LEMMA DoneShape ==
    ASSUME NEW A, ShapeOver(A), NEW h \in Handlers, Done(h), 0 \in A, NoDate \in A
    PROVE  req' \in [Handlers -> RequestOver(A)]
<1>1. Draft(0, 0) \in RowOver(A)
  BY DEF Draft, RowOver
<1>2. Idle \in RequestOver(A)
  BY <1>1 DEF Idle, RequestOver
<1> QED
  BY <1>2 DEF Done, ShapeOver

\* An invoice row is replaced by another row.
LEMMA RowReplaced ==
    ASSUME NEW A, inv \in Seq(RowOver(A)), NEW i \in Ids, NEW row \in RowOver(A),
           inv' = [inv EXCEPT ![i] = row]
    PROVE  /\ inv' \in Seq(RowOver(A))
           /\ Len(inv') = Len(inv)
           /\ \A j \in Ids : inv'[j] = IF j = i THEN row ELSE inv[j]
BY DEF Ids

\* An invoice row is added.
LEMMA RowAppended ==
    ASSUME NEW A, inv \in Seq(RowOver(A)), NEW row \in RowOver(A), inv' = Append(inv, row)
    PROVE  /\ inv' \in Seq(RowOver(A))
           /\ Len(inv') = Len(inv) + 1
           /\ \A j \in Ids : inv'[j] = inv[j]
           /\ inv'[Len(inv) + 1] = row
BY DEF Ids

\* The rows that the actions write.
LEMMA RowsWritten ==
    ASSUME NEW A, NEW row \in RowOver(A), NEW x \in A, NEW y \in A, NEW z \in A
    PROVE  /\ \A s \in {"draft", "sent", "paid", "void"} :
                 [row EXCEPT !.status = s] \in RowOver(A)
           /\ Sent(row, x) \in RowOver(A)
           /\ [row EXCEPT !.dueDate = x] \in RowOver(A)
           /\ [row EXCEPT !.total = x, !.lateFees = y, !.lastAccrual = z] \in RowOver(A)
           /\ [row EXCEPT !.tax = x, !.total = y] \in RowOver(A)
BY DEF RowOver, Sent

-----------------------------------------------------------------------------
(***************************************************************************)
(* What each action does to the standing of the invoices.                  *)
(***************************************************************************)
SameStanding ==
    /\ Len(inv') = Len(inv)
    /\ \A j \in Ids : /\ inv'[j].status = inv[j].status
                       /\ inv'[j].locked = inv[j].locked
                       /\ inv'[j].corrects = inv[j].corrects

\* Any further amounts and dates may be added to A.
LEMMA ShapeGrows ==
    ASSUME NEW A, NEW x, NEW y, NEW z, ShapeOver(A)
    PROVE  ShapeOver(A \union {x, y, z, 0, NoDate})
BY ShapeWidens

\* generateFromEstimate adds a draft.
LEMMA GenerateEffect ==
    ASSUME Shape, NEW s \in Subtotals, NEW x \in Taxes, GenerateFromEstimate(s, x)
    PROVE  /\ Shape'
           /\ Len(inv') = Len(inv) + 1
           /\ \A j \in Ids : inv'[j] = inv[j]
           /\ inv'[Len(inv) + 1] = Draft(s, x)
<1>1. PICK A0 : ShapeOver(A0)
  BY DEF Shape
<1> DEFINE A == A0 \union {s, x, s + x, 0, NoDate}
<1>2. ShapeOver(A)
  BY <1>1, ShapeGrows
<1>3. Draft(s, x) \in RowOver(A)
  BY DEF Draft, RowOver
<1>4. inv' = Append(inv, Draft(s, x)) /\ inv \in Seq(RowOver(A))
  BY <1>2 DEF GenerateFromEstimate, ShapeOver
<1> HIDE DEF A
<1>5. ShapeOver(A)'
  BY <1>2, <1>3, <1>4, RowAppended DEF ShapeOver, GenerateFromEstimate
<1> QED
  BY <1>3, <1>4, <1>5, RowAppended DEF Shape

\* send rewrites one row and journals it.
LEMMA SendEffect ==
    ASSUME Shape, AtInvoice, NEW h \in Handlers, CommitSend(h)
    PROVE  LET i == req[h].invoice
           IN  /\ Shape'
               /\ i \in Ids
               /\ Len(inv') = Len(inv)
               /\ \A j \in Ids : inv'[j] = IF j = i THEN Sent(inv[i], req[h].dueDate) ELSE inv[j]
               /\ ledger' = Append(ledger, LedgerRow("invoice.locked", i, req[h].seen.total))
<1> DEFINE i == req[h].invoice
           entry == LedgerRow("invoice.locked", i, req[h].seen.total)
<1>1. PICK A0 : ShapeOver(A0)
  BY DEF Shape
<1> DEFINE A == A0 \union {0, 0, 0, 0, NoDate}
<1>2. ShapeOver(A) /\ 0 \in A /\ NoDate \in A
  BY <1>1, ShapeGrows
<1> HIDE DEF A
<1>3. i \in Ids /\ req[h] \in RequestOver(A) /\ inv[i] \in RowOver(A) /\ i \in Nat
  BY <1>2 DEF CommitSend, Ready, AtInvoice, ShapeOver, Ids
<1>4. req[h].dueDate \in A /\ req[h].seen.total \in A
  BY <1>3 DEF RequestOver, RowOver
<1>5. Sent(inv[i], req[h].dueDate) \in RowOver(A)
  BY <1>3, <1>4, RowsWritten
<1>6. inv' = [inv EXCEPT ![i] = Sent(inv[i], req[h].dueDate)] /\ inv \in Seq(RowOver(A))
  BY <1>2 DEF CommitSend, ShapeOver
<1>7. entry \in EntryOver(A)
  BY <1>3, <1>4 DEF LedgerRow, EntryOver
<1>8. ledger' = Append(ledger, entry) /\ ledger' \in Seq(EntryOver(A))
  BY <1>2, <1>7 DEF CommitSend, ShapeOver
<1>9. req' \in [Handlers -> RequestOver(A)]
  BY <1>2, DoneShape DEF CommitSend
<1>10. inv' \in Seq(RowOver(A)) /\ Len(inv') = Len(inv)
       /\ \A j \in Ids : inv'[j] = IF j = i THEN Sent(inv[i], req[h].dueDate) ELSE inv[j]
  BY <1>3, <1>5, <1>6, RowReplaced
<1>11. ShapeOver(A)'
  BY <1>2, <1>8, <1>9, <1>10 DEF ShapeOver, CommitSend
<1> QED
  BY <1>3, <1>8, <1>10, <1>11 DEF Shape

\* update changes a date only.
LEMMA UpdateEffect ==
    ASSUME Shape, AtInvoice, NEW h \in Handlers, CommitUpdate(h)
    PROVE  Shape' /\ SameStanding
<1> DEFINE i == req[h].invoice
           row == [inv[i] EXCEPT !.dueDate = req[h].dueDate]
<1>1. PICK A0 : ShapeOver(A0)
  BY DEF Shape
<1> DEFINE A == A0 \union {0, 0, 0, 0, NoDate}
<1>2. ShapeOver(A) /\ 0 \in A /\ NoDate \in A
  BY <1>1, ShapeGrows
<1> HIDE DEF A
<1>3. i \in Ids /\ req[h] \in RequestOver(A) /\ inv[i] \in RowOver(A)
  BY <1>2 DEF CommitUpdate, Ready, AtInvoice, ShapeOver, Ids
<1>4. row \in RowOver(A)
  BY <1>3, RowsWritten DEF RequestOver
<1>5. inv' = [inv EXCEPT ![i] = row] /\ inv \in Seq(RowOver(A))
  BY <1>2 DEF CommitUpdate, ShapeOver
<1>6. inv' \in Seq(RowOver(A)) /\ Len(inv') = Len(inv)
      /\ \A j \in Ids : inv'[j] = IF j = i THEN row ELSE inv[j]
  BY <1>3, <1>4, <1>5, RowReplaced
<1>7. req' \in [Handlers -> RequestOver(A)]
  BY <1>2, DoneShape DEF CommitUpdate
<1>8. ShapeOver(A)'
  BY <1>2, <1>6, <1>7 DEF ShapeOver, CommitUpdate
<1>9. row.status = inv[i].status /\ row.locked = inv[i].locked /\ row.corrects = inv[i].corrects
  BY <1>3 DEF RowOver
<1> QED
  BY <1>6, <1>8, <1>9 DEF Shape, SameStanding

\* chargeLateFee changes amounts and a date only.
LEMMA LateFeeEffect ==
    ASSUME Shape, NEW h \in Handlers, NEW i \in Ids, ChargeLateFee(h, i)
    PROVE  Shape' /\ SameStanding
<1> DEFINE total == inv[i].total + Accrued(i)
           fees == inv[i].lateFees + Accrued(i)
           row == [inv[i] EXCEPT !.total = total, !.lateFees = fees, !.lastAccrual = today]
<1>1. PICK A0 : ShapeOver(A0)
  BY DEF Shape
<1>a. PICK A : A = A0 \union {total, fees, today, 0, NoDate}
  OBVIOUS
<1>2. ShapeOver(A)
  BY <1>a, <1>1, ShapeGrows
<1>3. inv[i] \in RowOver(A)
  BY <1>2 DEF ShapeOver, Ids
<1>4. row \in RowOver(A)
  BY <1>a, <1>3, RowsWritten
<1>5. inv' = [inv EXCEPT ![i] = row] /\ inv \in Seq(RowOver(A))
  BY <1>2, <1>3 DEF ChargeLateFee, ShapeOver, RowOver
<1>6. row.status = inv[i].status /\ row.locked = inv[i].locked /\ row.corrects = inv[i].corrects
  BY <1>3 DEF RowOver
<1> HIDE DEF row
<1>7. inv' \in Seq(RowOver(A)) /\ Len(inv') = Len(inv)
      /\ \A j \in Ids : inv'[j] = IF j = i THEN row ELSE inv[j]
  BY <1>4, <1>5, RowReplaced
<1>8. ShapeOver(A)'
  BY <1>2, <1>7 DEF ShapeOver, ChargeLateFee
<1> QED
  BY <1>6, <1>7, <1>8 DEF Shape, SameStanding

\* recalculateInvoiceTax changes amounts only.
LEMMA TaxEffect ==
    ASSUME Shape, NEW h \in Handlers, NEW i \in Ids, NEW x \in Taxes, RecalculateTax(h, i, x)
    PROVE  Shape' /\ SameStanding
<1> DEFINE tax == TaxOn(inv[i].subtotal, x)
           total == inv[i].subtotal + tax
           row == [inv[i] EXCEPT !.tax = tax, !.total = total]
<1>1. PICK A0 : ShapeOver(A0)
  BY DEF Shape
<1>a. PICK A : A = A0 \union {tax, total, total, 0, NoDate}
  OBVIOUS
<1>2. ShapeOver(A)
  BY <1>a, <1>1, ShapeGrows
<1>3. inv[i] \in RowOver(A)
  BY <1>2 DEF ShapeOver, Ids
<1>4. row \in RowOver(A)
  BY <1>a, <1>3, RowsWritten
<1>5. inv' = [inv EXCEPT ![i] = row] /\ inv \in Seq(RowOver(A))
  BY <1>2, <1>3 DEF RecalculateTax, ShapeOver, RowOver
<1>6. row.status = inv[i].status /\ row.locked = inv[i].locked /\ row.corrects = inv[i].corrects
  BY <1>3 DEF RowOver
<1> HIDE DEF row
<1>7. inv' \in Seq(RowOver(A)) /\ Len(inv') = Len(inv)
      /\ \A j \in Ids : inv'[j] = IF j = i THEN row ELSE inv[j]
  BY <1>4, <1>5, RowReplaced
<1>8. ShapeOver(A)'
  BY <1>2, <1>7 DEF ShapeOver, RecalculateTax
<1> QED
  BY <1>6, <1>7, <1>8 DEF Shape, SameStanding

\* void marks one row, adds the Storno and journals both.
LEMMA VoidEffect ==
    ASSUME Shape, AtInvoice, NEW h \in Handlers, CommitVoid(h)
    PROVE  LET i == req[h].invoice
               n == Len(inv) + 1
           IN  /\ Shape'
               /\ i \in Ids
               /\ Len(inv') = n
               /\ \A j \in Ids : inv'[j] = IF j = i THEN [inv[i] EXCEPT !.status = "void"] ELSE inv[j]
               /\ inv'[n] = Storno(i, req[h].seen)
               /\ Len(ledger') = Len(ledger) + 2
               /\ \A k \in 1..Len(ledger) : ledger'[k] = ledger[k]
               /\ ledger'[Len(ledger) + 1] = LedgerRow("invoice.voided", i, 0)
               /\ ledger'[Len(ledger) + 2] =
                     LedgerRow("invoice.correction_issued", n, -req[h].seen.total)
<1> DEFINE i == req[h].invoice
           n == Len(inv) + 1
           seen == req[h].seen
           row == [inv[i] EXCEPT !.status = "void"]
           marked == [inv EXCEPT ![i] = row]
           storno == Storno(i, seen)
           entry1 == LedgerRow("invoice.voided", i, 0)
           entry2 == LedgerRow("invoice.correction_issued", n, -seen.total)
<1>1. PICK A0 : ShapeOver(A0)
  BY DEF Shape
<1>a. PICK A : A = A0 \union {-seen.subtotal, -seen.tax, -seen.total, 0, NoDate}
  OBVIOUS
<1>2. ShapeOver(A) /\ 0 \in A /\ NoDate \in A
      /\ -seen.subtotal \in A /\ -seen.tax \in A /\ -seen.total \in A
  BY <1>a, <1>1, ShapeGrows
<1>3. i \in Ids /\ i \in Nat /\ n \in Nat /\ inv[i] \in RowOver(A) /\ inv \in Seq(RowOver(A))
  BY <1>2 DEF CommitVoid, Ready, AtInvoice, ShapeOver, Ids
<1>4. row \in RowOver(A)
  BY <1>3, RowsWritten, <1>2
<1>5. storno \in RowOver(A)
  BY <1>2, <1>3 DEF Storno, RowOver
<1>6. inv' = Append(marked, storno)
  BY <1>3 DEF CommitVoid
<1>7. marked \in Seq(RowOver(A)) /\ Len(marked) = Len(inv)
      /\ \A j \in Ids : marked[j] = IF j = i THEN row ELSE inv[j]
  BY <1>3, <1>4 DEF Ids
<1> HIDE DEF marked, storno, row
<1>8. inv' \in Seq(RowOver(A)) /\ Len(inv') = n /\ inv'[n] = storno
      /\ \A j \in Ids : inv'[j] = IF j = i THEN row ELSE inv[j]
  BY <1>3, <1>5, <1>6, <1>7 DEF Ids
<1>9. entry1 \in EntryOver(A) /\ entry2 \in EntryOver(A)
  BY <1>2, <1>3 DEF LedgerRow, EntryOver
<1>10. ledger' = ledger \o <<entry1, entry2>> /\ ledger \in Seq(EntryOver(A))
  BY <1>2 DEF CommitVoid, VoidEntries, ShapeOver
<1> HIDE DEF entry1, entry2
<1>11. ledger' \in Seq(EntryOver(A)) /\ Len(ledger') = Len(ledger) + 2
       /\ (\A k \in 1..Len(ledger) : ledger'[k] = ledger[k])
       /\ ledger'[Len(ledger) + 1] = entry1 /\ ledger'[Len(ledger) + 2] = entry2
  BY <1>9, <1>10
<1>12. req' \in [Handlers -> RequestOver(A)]
  BY <1>2, DoneShape DEF CommitVoid
<1>13. ShapeOver(A)'
  BY <1>2, <1>8, <1>11, <1>12 DEF ShapeOver, CommitVoid
<1> QED
  BY <1>3, <1>8, <1>11, <1>13 DEF Shape, marked, storno, row, entry1, entry2

\* recordPayment derives the status of one row and adds at most one payment.
LEMMA PaymentEffect ==
    ASSUME Shape, AtInvoice, NEW h \in Handlers, CommitPayment(h)
    PROVE  LET i == req[h].invoice
           IN  /\ Shape'
               /\ i \in Ids
               /\ Len(inv') = Len(inv)
               /\ \A j \in Ids : j # i => inv'[j] = inv[j]
               /\ inv'[i].status \in {"paid", "sent"}
               /\ inv'[i].locked = inv[i].locked /\ inv'[i].corrects = inv[i].corrects
               /\ payments' = Recorded(req[h])
<1> DEFINE r == req[h]
           i == r.invoice
           paid == PaidSum(i) + (IF Duplicate(r.charge) THEN 0 ELSE r.amount)
           s == StatusFor(paid, r.seen.total)
           row == [inv[i] EXCEPT !.status = s]
<1>1. PICK A0 : ShapeOver(A0)
  BY DEF Shape
<1> DEFINE A == A0 \union {0, 0, 0, 0, NoDate}
<1>2. ShapeOver(A) /\ 0 \in A /\ NoDate \in A
  BY <1>1, ShapeGrows
<1> HIDE DEF A
<1>3. i \in Ids /\ i \in Nat /\ inv[i] \in RowOver(A) /\ inv \in Seq(RowOver(A))
      /\ req[h] \in RequestOver(A)
  BY <1>2 DEF CommitPayment, Ready, AtInvoice, ShapeOver, Ids
<1>4. s \in {"paid", "sent"}
  BY DEF StatusFor
<1> HIDE DEF s
<1>5. row \in RowOver(A)
  BY <1>2, <1>3, <1>4, RowsWritten
<1>6. inv' = [inv EXCEPT ![i] = row]
  BY DEF CommitPayment, s
<1>7. inv' \in Seq(RowOver(A)) /\ Len(inv') = Len(inv)
      /\ \A j \in Ids : inv'[j] = IF j = i THEN row ELSE inv[j]
  BY <1>3, <1>5, <1>6, RowReplaced
<1>8. row.status = s /\ row.locked = inv[i].locked /\ row.corrects = inv[i].corrects
  BY <1>3 DEF RowOver
<1>9. PaymentOf(r) \in PaymentOver(A)
  BY <1>3 DEF PaymentOf, PaymentOver, RequestOver
<1>10. payments' = Recorded(r) /\ payments' \in Seq(PaymentOver(A))
  BY <1>2, <1>9 DEF CommitPayment, Recorded, ShapeOver
<1>11. req' \in [Handlers -> RequestOver(A)]
  BY <1>2, DoneShape DEF CommitPayment
<1>12. ShapeOver(A)'
  BY <1>2, <1>7, <1>10, <1>11 DEF ShapeOver, CommitPayment
<1> HIDE DEF row
<1> QED
  BY <1>3, <1>4, <1>7, <1>8, <1>10, <1>12 DEF Shape

-----------------------------------------------------------------------------
(***************************************************************************)
(* The invariant is kept.                                                  *)
(***************************************************************************)

\* Invoices do not go away, and a locked one stays locked.
LocksKept == /\ Len(inv) <= Len(inv')
             /\ \A j \in Ids : inv[j].locked => inv'[j].locked

\* A charge that has been paid does not change any more.
PaidKept == \A c \in Charges : charge[c].state = "paid" => charge'[c] = charge[c]

\* Handlers go on with what they had read, end, or have just read.
ReadsKept == \A h \in Handlers : req'[h] = req[h] \/ req'[h].op = "none" \/ StillTrue(h)'

\* What a handler read stays true while others write.
LEMMA StillTrueKept ==
    ASSUME IInv, LocksKept, PaidKept, ReadsKept, NEW h \in Handlers
    PROVE  StillTrue(h)'
<1>1. PICK A : ShapeOver(A)
  BY DEF IInv, Shape
<1>2. CASE req'[h] = req[h]
  <2>1. req[h] \in RequestOver(A)
    BY <1>1 DEF ShapeOver
  <2>2. StillTrue(h) /\ (req[h].op # "none" => req[h].invoice \in Ids)
    BY DEF IInv, AtInvoice
  <2>3. req[h].op \in {"void", "pay"} => inv'[req[h].invoice].locked
    BY <2>2 DEF StillTrue, LocksKept
  <2>4. req[h].op = "pay" /\ req[h].charge # NoCharge => charge'[req[h].charge] = charge[req[h].charge]
    BY <2>1, <2>2 DEF StillTrue, PaidKept, RequestOver
  <2> QED
    BY <1>2, <2>2, <2>3, <2>4 DEF StillTrue
<1>3. CASE req'[h].op = "none"
  BY <1>3 DEF StillTrue
<1> QED
  BY <1>2, <1>3 DEF ReadsKept

\* Tables have lengths.
LEMMA IdsNumbers ==
    ASSUME Shape
    PROVE  Len(inv) \in Nat /\ Len(ledger) \in Nat /\ Len(payments) \in Nat
BY DEF Shape, ShapeOver

\* Most steps leave the standing of every invoice alone.
LEMMA StandingKept ==
    ASSUME IInv, SameStanding
    PROVE  Standing' /\ LocksKept /\ (ledger' = ledger => Journalled')
<1>1. Ids' = Ids /\ Len(inv') = Len(inv) /\ Len(inv) \in Nat
  BY IdsNumbers DEF SameStanding, Ids, IInv
<1>2. LocksKept
  BY <1>1 DEF SameStanding, LocksKept
<1>3. Standing'
  <2>1. DraftIffUnlocked'
    BY <1>1 DEF IInv, Standing, DraftIffUnlocked, SameStanding
  <2>2. OneStorno'
    BY <1>1 DEF IInv, Standing, OneStorno, SameStanding
  <2>3. CorrectsExisting'
    BY <1>1 DEF IInv, Standing, CorrectsExisting, SameStanding
  <2> QED
    BY <2>1, <2>2, <2>3 DEF Standing
<1>4. ASSUME ledger' = ledger PROVE Journalled'
  BY <1>1, <1>4 DEF IInv, Journalled, OnlyLockedInJournal, LockedInJournal, CorrectedInJournal,
                    SameStanding
<1> QED
  BY <1>2, <1>3, <1>4

\* Steps that record no payment keep CreditedOnce.
LEMMA CreditedKept ==
    ASSUME IInv, PaidKept, payments' = payments
    PROVE  CreditedOnce'
<1>1. PICK A : ShapeOver(A)
  BY DEF IInv, Shape
<1>2. \A k \in 1..Len(payments) : payments[k].charge \in Charges \union {NoCharge}
  <2>1. \A k \in 1..Len(payments) : payments[k] \in PaymentOver(A)
    BY <1>1 DEF ShapeOver
  <2> QED
    BY <2>1 DEF PaymentOver
<1>3. CreditedOnce
  BY DEF IInv
<1> QED
  BY <1>2, <1>3 DEF CreditedOnce, PaidKept

\* A step that leaves the standing, the payments and the journal alone.
LEMMA QuietStep ==
    ASSUME IInv, Shape', AtInvoice', ChargesPlaced', SameStanding, PaidKept, ReadsKept,
           payments' = payments, ledger' = ledger
    PROVE  IInv'
BY StandingKept, CreditedKept, StillTrueKept DEF IInv

\* Unchanged rows have the same standing.
LEMMA SameRows ==
    ASSUME inv' = inv
    PROVE  SameStanding /\ Ids' = Ids
BY DEF SameStanding, Ids

\* A step that changes nothing the invariant speaks of.
LEMMA IdleStep ==
    ASSUME IInv, UNCHANGED <<inv, payments, ledger, charge, req>>
    PROVE  IInv'
<1>1. PICK A : ShapeOver(A)
  BY DEF IInv, Shape
<1>2. ShapeOver(A)'
  BY <1>1 DEF ShapeOver
<1>3. SameStanding /\ Ids' = Ids
  BY SameRows
<1>4. PaidKept /\ ReadsKept
  BY DEF PaidKept, ReadsKept
<1>5. AtInvoice' /\ ChargesPlaced'
  BY <1>3 DEF AtInvoice, ChargesPlaced, IInv
<1> QED
  BY <1>2, <1>3, <1>4, <1>5, QuietStep DEF Shape

\* A handler that reads invoice i takes up operation op.
LEMMA ReadStep ==
    ASSUME IInv, NEW h \in Handlers, NEW i \in Ids, NEW op \in {"send", "update", "void", "pay"},
           NEW c \in Charges \union {NoCharge}, NEW amount, NEW date,
           req' = [req EXCEPT ![h] = Reading(op, i, c, amount, date)],
           UNCHANGED <<rows, charge>>,
           op \in {"void", "pay"} => inv[i].locked,
           c # NoCharge => charge[c].state = "paid" /\ charge[c].amount = amount
                           /\ charge[c].invoice = i
    PROVE  IInv'
<1>1. PICK A0 : ShapeOver(A0)
  BY DEF IInv, Shape
<1> DEFINE A == A0 \union {amount, date, 0, 0, NoDate}
<1>2. ShapeOver(A) /\ amount \in A /\ date \in A
  BY <1>1, ShapeGrows
<1> HIDE DEF A
<1>3. Shape'
  BY <1>2, ReadingShape DEF Shape
<1>4. SameStanding /\ Ids' = Ids /\ payments' = payments /\ ledger' = ledger /\ inv' = inv
  BY SameRows DEF rows
<1>5. req' = [g \in Handlers |-> IF g = h THEN Reading(op, i, c, amount, date) ELSE req[g]]
  BY <1>2 DEF ShapeOver
<1>6. AtInvoice'
  BY <1>4, <1>5 DEF AtInvoice, IInv, Reading
<1>7. ChargesPlaced' /\ PaidKept
  BY <1>4 DEF ChargesPlaced, IInv, PaidKept
<1>8. StillTrue(h)'
  BY <1>4, <1>5 DEF StillTrue, Reading
<1>9. ReadsKept
  BY <1>5, <1>8 DEF ReadsKept
<1> QED
  BY <1>3, <1>4, <1>6, <1>7, <1>9, QuietStep

\* A handler ends without writing.
LEMMA EndStep ==
    ASSUME IInv, NEW h \in Handlers, Done(h), UNCHANGED <<rows, charge>>
    PROVE  IInv'
<1>1. PICK A0 : ShapeOver(A0)
  BY DEF IInv, Shape
<1> DEFINE A == A0 \union {0, 0, 0, 0, NoDate}
<1>2. ShapeOver(A) /\ 0 \in A /\ NoDate \in A
  BY <1>1, ShapeGrows
<1> HIDE DEF A
<1>3. ShapeOver(A)'
  BY <1>2, DoneShape DEF ShapeOver, rows
<1>4. SameStanding /\ Ids' = Ids /\ payments' = payments /\ ledger' = ledger
  BY SameRows DEF rows
<1>5. req' = [g \in Handlers |-> IF g = h THEN Idle ELSE req[g]]
  BY <1>2 DEF ShapeOver, Done
<1>6. AtInvoice' /\ ReadsKept
  BY <1>4, <1>5 DEF AtInvoice, IInv, Idle, ReadsKept
<1>7. ChargesPlaced' /\ PaidKept
  BY <1>4 DEF ChargesPlaced, IInv, PaidKept
<1> QED
  BY <1>3, <1>4, <1>6, <1>7, QuietStep DEF Shape

\* A charge that is not paid yet changes.
LEMMA ChargeStep ==
    ASSUME IInv, NEW c \in Charges, charge[c].state # "paid",
           NEW state \in {"open", "processing", "paid", "failed"}, NEW i \in Ids, NEW amount,
           charge' = [charge EXCEPT ![c] = [state |-> state, invoice |-> i, amount |-> amount]],
           UNCHANGED <<rows, req>>
    PROVE  IInv'
<1>1. PICK A0 : ShapeOver(A0)
  BY DEF IInv, Shape
<1> DEFINE A == A0 \union {amount, 0, 0, 0, NoDate}
<1>2. ShapeOver(A) /\ amount \in A
  BY <1>1, ShapeGrows
<1> HIDE DEF A
<1>3. [state |-> state, invoice |-> i, amount |-> amount] \in ChargeOver(A)
  BY <1>2, IdsNumbers DEF ChargeOver, Ids, IInv
<1>4. ShapeOver(A)'
  BY <1>2, <1>3 DEF ShapeOver, rows
<1>5. SameStanding /\ Ids' = Ids /\ payments' = payments /\ ledger' = ledger
  BY SameRows DEF rows
<1>6. charge' = [d \in Charges |-> IF d = c THEN [state |-> state, invoice |-> i, amount |-> amount]
                                   ELSE charge[d]]
  BY <1>2 DEF ShapeOver
<1>7. AtInvoice' /\ ReadsKept
  BY <1>5 DEF AtInvoice, IInv, ReadsKept
<1>8. ChargesPlaced' /\ PaidKept
  BY <1>5, <1>6 DEF ChargesPlaced, IInv, PaidKept
<1> QED
  BY <1>4, <1>5, <1>7, <1>8, QuietStep DEF Shape

\* chargeLateFee keeps the invariant.
LEMMA LateFeeStep ==
    ASSUME IInv, NEW h \in Handlers, NEW i \in Ids, ChargeLateFee(h, i)
    PROVE  IInv'
<1>1. Shape' /\ SameStanding
  BY LateFeeEffect DEF IInv
<1>2. UNCHANGED <<payments, ledger, charge, req>> /\ Ids' = Ids
  BY <1>1 DEF ChargeLateFee, SameStanding, Ids
<1>3. AtInvoice' /\ ReadsKept /\ ChargesPlaced' /\ PaidKept
  BY <1>2 DEF AtInvoice, IInv, ReadsKept, ChargesPlaced, PaidKept
<1> QED
  BY <1>1, <1>2, <1>3, QuietStep

\* recalculateInvoiceTax keeps the invariant.
LEMMA TaxStep ==
    ASSUME IInv, NEW h \in Handlers, NEW i \in Ids, NEW x \in Taxes, RecalculateTax(h, i, x)
    PROVE  IInv'
<1>1. Shape' /\ SameStanding
  BY TaxEffect DEF IInv
<1>2. UNCHANGED <<payments, ledger, charge, req>> /\ Ids' = Ids
  BY <1>1 DEF RecalculateTax, SameStanding, Ids
<1>3. AtInvoice' /\ ReadsKept /\ ChargesPlaced' /\ PaidKept
  BY <1>2 DEF AtInvoice, IInv, ReadsKept, ChargesPlaced, PaidKept
<1> QED
  BY <1>1, <1>2, <1>3, QuietStep

\* What a handler that ends with a commit leaves behind.
LEMMA DoneRequests ==
    ASSUME IInv, NEW h \in Handlers, Done(h), Len(inv) <= Len(inv'), Len(inv') \in Nat
    PROVE  AtInvoice' /\ ReadsKept
<1>1. PICK A : ShapeOver(A)
  BY DEF IInv, Shape
<1>2. req' = [g \in Handlers |-> IF g = h THEN Idle ELSE req[g]]
  BY <1>1 DEF ShapeOver, Done
<1>3. \A i \in Ids : i \in Ids'
  BY IdsNumbers DEF Ids, IInv
<1> QED
  BY <1>2, <1>3 DEF AtInvoice, IInv, Idle, ReadsKept

\* update keeps the invariant.
LEMMA UpdateStep ==
    ASSUME IInv, NEW h \in Handlers, CommitUpdate(h)
    PROVE  IInv'
<1>1. Shape' /\ SameStanding
  BY UpdateEffect DEF IInv
<1>2. UNCHANGED <<payments, ledger, charge>> /\ Ids' = Ids /\ Len(inv') = Len(inv)
  BY <1>1 DEF CommitUpdate, SameStanding, Ids
<1>3. AtInvoice' /\ ReadsKept
  BY <1>2, DoneRequests, IdsNumbers DEF CommitUpdate, IInv
<1>4. ChargesPlaced' /\ PaidKept
  BY <1>2 DEF IInv, ChargesPlaced, PaidKept
<1> QED
  BY <1>1, <1>2, <1>3, <1>4, QuietStep

\* A new draft is unlocked, corrects nothing and is not journalled.
LEMMA GenerateStep ==
    ASSUME IInv, NEW s \in Subtotals, NEW x \in Taxes, GenerateFromEstimate(s, x)
    PROVE  IInv'
<1> DEFINE n == Len(inv) + 1
<1>1. /\ Shape' /\ Len(inv') = n
      /\ \A j \in Ids : inv'[j] = inv[j]
      /\ inv'[n] = Draft(s, x)
  BY GenerateEffect DEF IInv
<1>2. Ids' = Ids \union {n} /\ n \notin Ids /\ Len(inv) \in Nat
  BY <1>1, IdsNumbers DEF Ids, IInv
<1>3. inv'[n].status = "draft" /\ inv'[n].locked = FALSE /\ inv'[n].corrects = 0
  BY <1>1 DEF Draft
<1>4. UNCHANGED <<payments, ledger, charge, req>>
  BY DEF GenerateFromEstimate
<1>5. LocksKept /\ PaidKept /\ ReadsKept
  BY <1>1, <1>2, <1>4 DEF LocksKept, PaidKept, ReadsKept
<1>6. AtInvoice' /\ ChargesPlaced'
  BY <1>2, <1>4 DEF AtInvoice, ChargesPlaced, IInv
<1>7. DraftIffUnlocked'
  BY <1>1, <1>2, <1>3 DEF DraftIffUnlocked, IInv, Standing
<1>8. CorrectsExisting'
  <2>1. \A j \in Ids : inv[j].corrects <= Len(inv) /\ inv[j].corrects \in Nat
    <3>1. PICK A : inv \in Seq(RowOver(A))
      BY DEF IInv, Shape, ShapeOver
    <3>2. \A j \in Ids : inv[j] \in RowOver(A)
      BY <3>1 DEF Ids
    <3> QED
      BY <3>2 DEF RowOver, IInv, Standing, CorrectsExisting
  <2> QED
    BY <2>1, <1>1, <1>2, <1>3 DEF CorrectsExisting
<1>9. OneStorno'
  BY <1>1, <1>2, <1>3 DEF OneStorno, IInv, Standing
<1>10. Journalled'
  <2>1. OnlyLockedInJournal'
    BY <1>1, <1>2, <1>4 DEF OnlyLockedInJournal, Journalled, IInv
  <2>2. LockedInJournal'
    BY <1>1, <1>2, <1>3, <1>4 DEF LockedInJournal, Journalled, IInv
  <2>3. ASSUME NEW i \in Ids', NEW t \in Ids', inv'[t].corrects = i
        PROVE  t \in Ids /\ i \in Ids /\ inv[t].corrects = i
    BY <2>3, <1>1, <1>2, <1>3 DEF IInv, Standing, CorrectsExisting, Ids
  <2>4. CorrectedInJournal'
    BY <2>3, <1>4 DEF CorrectedInJournal, Journalled, IInv
  <2> QED
    BY <2>1, <2>2, <2>4 DEF Journalled
<1>11. CreditedOnce'
  BY <1>4, <1>5, CreditedKept
<1> QED
  BY <1>1, <1>5, <1>6, <1>7, <1>8, <1>9, <1>10, <1>11, StillTrueKept DEF IInv, Standing

\* send locks and journals in one transaction.
LEMMA SendStep ==
    ASSUME IInv, NEW h \in Handlers, CommitSend(h)
    PROVE  IInv'
<1> DEFINE i == req[h].invoice
           m == Len(ledger) + 1
<1>1. /\ Shape' /\ i \in Ids /\ Len(inv') = Len(inv)
      /\ \A j \in Ids : inv'[j] = IF j = i THEN Sent(inv[i], req[h].dueDate) ELSE inv[j]
      /\ ledger' = Append(ledger, LedgerRow("invoice.locked", i, req[h].seen.total))
  BY SendEffect DEF IInv
<1>2. Ids' = Ids /\ Len(inv) \in Nat
  BY <1>1, IdsNumbers DEF Ids, IInv
<1>3. inv'[i].status = "sent" /\ inv'[i].locked = TRUE /\ inv'[i].corrects = inv[i].corrects
  <2>1. PICK A : inv \in Seq(RowOver(A))
    BY DEF IInv, Shape, ShapeOver
  <2>2. inv[i] \in RowOver(A)
    BY <1>1, <2>1 DEF Ids
  <2> QED
    BY <1>1, <2>2 DEF Sent, RowOver
<1>4. \A j \in Ids : j # i => inv'[j] = inv[j]
  BY <1>1
<1>5. /\ Len(ledger') = m /\ Len(ledger) \in Nat
      /\ \A k \in 1..Len(ledger) : ledger'[k] = ledger[k]
      /\ ledger'[m].invoice = i /\ ledger'[m].event = "invoice.locked"
  <2>1. PICK A : ledger \in Seq(EntryOver(A))
    BY DEF IInv, Shape, ShapeOver
  <2> QED
    BY <1>1, <2>1 DEF LedgerRow
<1> HIDE DEF i, m
<1>6. UNCHANGED <<payments, charge>>
  BY DEF CommitSend
<1>7. LocksKept /\ PaidKept
  BY <1>1, <1>2, <1>3, <1>4, <1>6 DEF LocksKept, PaidKept
<1>8. AtInvoice' /\ ReadsKept
  BY <1>1, <1>2, DoneRequests DEF CommitSend
<1>9. ChargesPlaced'
  BY <1>2, <1>6 DEF ChargesPlaced, IInv
<1>10. Standing'
  <2>1. DraftIffUnlocked'
    BY <1>1, <1>2, <1>3, <1>4 DEF DraftIffUnlocked, IInv, Standing
  <2>2. \A j \in Ids : inv'[j].corrects = inv[j].corrects
    BY <1>3, <1>4
  <2>3. \A j \in Ids : inv'[j].status = "void" => inv[j].status = "void"
    BY <1>3, <1>4
  <2>4. OneStorno' /\ CorrectsExisting'
    BY <1>1, <1>2, <2>2, <2>3 DEF OneStorno, CorrectsExisting, IInv, Standing
  <2> QED
    BY <2>1, <2>4 DEF Standing
<1>11. Journalled'
  <2> USE DEF IInv, Journalled
  <2>1. OnlyLockedInJournal'
    <3>1. ASSUME NEW k \in 1..m PROVE ledger'[k].invoice \in Ids /\ inv'[ledger'[k].invoice].locked
      <4>1. CASE k = m
        BY <4>1, <1>1, <1>3, <1>5
      <4>2. CASE k # m
        <5>1. k \in 1..Len(ledger)
          BY <4>2, <1>5 DEF m
        <5>2. ledger[k].invoice \in Ids /\ inv[ledger[k].invoice].locked
          BY <5>1 DEF OnlyLockedInJournal
        <5> QED
          BY <5>1, <5>2, <1>3, <1>4, <1>5
      <4> QED
        BY <4>1, <4>2
    <3> QED
      BY <3>1, <1>2, <1>5 DEF OnlyLockedInJournal
  <2>2. LockedInJournal'
    <3>1. ASSUME NEW j \in Ids, inv'[j].locked
          PROVE  \E k \in 1..m :
                    /\ ledger'[k].invoice = j
                    /\ ledger'[k].event \in {"invoice.locked", "invoice.correction_issued"}
      <4>1. CASE j = i
        BY <4>1, <1>5 DEF m
      <4>2. CASE j # i
        <5>1. PICK k \in 1..Len(ledger) :
                    /\ ledger[k].invoice = j
                    /\ ledger[k].event \in {"invoice.locked", "invoice.correction_issued"}
          BY <4>2, <3>1, <1>4 DEF LockedInJournal
        <5> QED
          BY <5>1, <1>5 DEF m
      <4> QED
        BY <4>1, <4>2
    <3> QED
      BY <3>1, <1>2, <1>5 DEF LockedInJournal
  <2>3. CorrectedInJournal'
    <3>1. ASSUME NEW a \in Ids, NEW t \in Ids, inv'[t].corrects = a
          PROVE  \E j, k \in 1..m :
                    /\ j < k
                    /\ ledger'[j].invoice = a /\ ledger'[j].event # "invoice.voided"
                    /\ ledger'[k].invoice = a /\ ledger'[k].event = "invoice.voided"
      <4>1. inv[t].corrects = a
        BY <3>1, <1>3, <1>4
      <4>2. PICK j, k \in 1..Len(ledger) :
                    /\ j < k
                    /\ ledger[j].invoice = a /\ ledger[j].event # "invoice.voided"
                    /\ ledger[k].invoice = a /\ ledger[k].event = "invoice.voided"
        BY <4>1 DEF CorrectedInJournal
      <4>3. j \in 1..m /\ k \in 1..m /\ ledger'[j] = ledger[j] /\ ledger'[k] = ledger[k]
        BY <1>5 DEF m
      <4> QED
        BY <4>2, <4>3
    <3> QED
      BY <3>1, <1>2, <1>5 DEF CorrectedInJournal
  <2> QED
    BY <2>1, <2>2, <2>3
<1>12. CreditedOnce'
  BY <1>6, <1>7, CreditedKept
<1> QED
  BY <1>1, <1>7, <1>8, <1>9, <1>10, <1>11, <1>12, StillTrueKept DEF IInv

\* recordPayment: only a locked invoice is paid, and a duplicate adds no payment.
LEMMA PaymentStep ==
    ASSUME IInv, NEW h \in Handlers, CommitPayment(h)
    PROVE  IInv'
<1> DEFINE r == req[h]
           i == r.invoice
<1>1. /\ Shape' /\ i \in Ids /\ Len(inv') = Len(inv)
      /\ \A j \in Ids : j # i => inv'[j] = inv[j]
      /\ inv'[i].status \in {"paid", "sent"}
      /\ inv'[i].locked = inv[i].locked /\ inv'[i].corrects = inv[i].corrects
      /\ payments' = Recorded(r)
  BY PaymentEffect DEF IInv
<1>2. Ids' = Ids /\ Len(inv) \in Nat
  BY <1>1, IdsNumbers DEF Ids, IInv
<1>3. UNCHANGED <<ledger, charge>> /\ r.op = "pay"
  BY DEF CommitPayment, Ready
<1>4. StillTrue(h) /\ inv[i].locked
  BY <1>3 DEF IInv, StillTrue
<1> HIDE DEF i
<1>5. \A j \in Ids : inv'[j].locked = inv[j].locked /\ inv'[j].corrects = inv[j].corrects
  BY <1>1
<1>6. LocksKept /\ PaidKept
  BY <1>1, <1>2, <1>3, <1>5 DEF LocksKept, PaidKept
<1>7. AtInvoice' /\ ReadsKept
  BY <1>1, <1>2, DoneRequests DEF CommitPayment
<1>8. ChargesPlaced'
  BY <1>2, <1>3 DEF ChargesPlaced, IInv
<1>9. Standing'
  <2>1. DraftIffUnlocked'
    <3>1. inv[i].status # "draft" /\ inv'[i].status # "draft"
      BY <1>1, <1>4 DEF IInv, Standing, DraftIffUnlocked
    <3> QED
      BY <1>1, <1>2, <1>4, <3>1 DEF DraftIffUnlocked, IInv, Standing
  <2>2. \A j \in Ids : inv'[j].status = "void" => inv[j].status = "void"
    BY <1>1
  <2>3. OneStorno' /\ CorrectsExisting'
    BY <1>1, <1>2, <1>5, <2>2 DEF OneStorno, CorrectsExisting, IInv, Standing
  <2> QED
    BY <2>1, <2>3 DEF Standing
<1>10. Journalled'
  BY <1>2, <1>3, <1>5 DEF IInv, Journalled, OnlyLockedInJournal, LockedInJournal,
                          CorrectedInJournal
<1>11. CreditedOnce'
  <2>1. CASE Duplicate(r.charge)
    <3>1. payments' = payments
      BY <2>1, <1>1 DEF Recorded
    <3> QED
      BY <3>1, <1>6, CreditedKept
  <2>2. CASE ~Duplicate(r.charge)
    <3> DEFINE m == Len(payments) + 1
    <3>1. PICK A : payments \in Seq(PaymentOver(A)) /\ r \in RequestOver(A)
      BY DEF IInv, Shape, ShapeOver
    <3>2. payments' = Append(payments, PaymentOf(r))
      BY <2>2, <1>1 DEF Recorded
    <3>3. /\ Len(payments') = m /\ Len(payments) \in Nat
          /\ \A k \in 1..Len(payments) : payments'[k] = payments[k]
          /\ payments'[m].charge = r.charge /\ payments'[m].amount = r.amount
          /\ payments'[m].invoice = r.invoice
      BY <3>1, <3>2 DEF PaymentOf
    <3>4. \A k \in 1..m : k = m \/ k \in 1..Len(payments)
      BY <3>3
    <3>5. \A k \in 1..Len(payments) : r.charge # NoCharge => payments[k].charge # r.charge
      BY <2>2 DEF Duplicate
    <3>6. r.charge # NoCharge => /\ charge[r.charge].state = "paid"
                                 /\ charge[r.charge].amount = r.amount
                                 /\ charge[r.charge].invoice = r.invoice
      BY <1>3, <1>4 DEF StillTrue
    <3>7. CreditedOnce
      BY DEF IInv
    <3> HIDE DEF m
    <3>8. \A j, k \in 1..m :
             payments'[j].charge = payments'[k].charge /\ payments'[j].charge # NoCharge => j = k
      BY <3>3, <3>4, <3>5, <3>7 DEF CreditedOnce
    <3>9. \A k \in 1..m : payments'[k].charge # NoCharge =>
             /\ charge[payments'[k].charge].state = "paid"
             /\ charge[payments'[k].charge].amount = payments'[k].amount
             /\ charge[payments'[k].charge].invoice = payments'[k].invoice
      BY <3>3, <3>4, <3>6, <3>7 DEF CreditedOnce
    <3> QED
      BY <3>3, <3>8, <3>9, <1>3 DEF CreditedOnce
  <2> QED
    BY <2>1, <2>2
<1> QED
  BY <1>1, <1>6, <1>7, <1>8, <1>9, <1>10, <1>11, StillTrueKept DEF IInv

\* void: the invoice was locked, and the index keeps a second Storno out.
LEMMA VoidStep ==
    ASSUME IInv, NEW h \in Handlers, CommitVoid(h)
    PROVE  IInv'
<1> DEFINE i == req[h].invoice
           n == Len(inv) + 1
           m == Len(ledger)
<1>1. /\ Shape' /\ i \in Ids /\ Len(inv') = n
      /\ \A j \in Ids : inv'[j] = IF j = i THEN [inv[i] EXCEPT !.status = "void"] ELSE inv[j]
      /\ inv'[n] = Storno(i, req[h].seen)
      /\ Len(ledger') = m + 2
      /\ \A k \in 1..m : ledger'[k] = ledger[k]
      /\ ledger'[m + 1] = LedgerRow("invoice.voided", i, 0)
      /\ ledger'[m + 2] = LedgerRow("invoice.correction_issued", n, -req[h].seen.total)
  BY VoidEffect DEF IInv
<1>2. Ids' = Ids \union {n} /\ n \notin Ids /\ Len(inv) \in Nat /\ m \in Nat /\ i # 0
  BY <1>1, IdsNumbers DEF Ids, IInv
<1>3. inv'[n].status = "sent" /\ inv'[n].locked = TRUE /\ inv'[n].corrects = i
  BY <1>1 DEF Storno
<1>4. inv'[i].status = "void" /\ inv'[i].locked = inv[i].locked /\ inv'[i].corrects = inv[i].corrects
  <2>1. PICK A : inv \in Seq(RowOver(A))
    BY DEF IInv, Shape, ShapeOver
  <2>2. inv[i] \in RowOver(A)
    BY <1>1, <2>1 DEF Ids
  <2> QED
    BY <1>1, <2>2 DEF RowOver
<1>5. \A j \in Ids : j # i => inv'[j] = inv[j]
  BY <1>1
<1>6. /\ ledger'[m + 1].invoice = i /\ ledger'[m + 1].event = "invoice.voided"
      /\ ledger'[m + 2].invoice = n /\ ledger'[m + 2].event = "invoice.correction_issued"
  BY <1>1 DEF LedgerRow
<1>7. inv[i].locked /\ ~Corrected(i)
  BY DEF IInv, StillTrue, CommitVoid, Ready
<1>8. UNCHANGED <<payments, charge>>
  BY DEF CommitVoid
<1>9. \A j \in Ids : inv'[j].locked = inv[j].locked /\ inv'[j].corrects = inv[j].corrects
  BY <1>4, <1>5
<1> HIDE DEF i
<1>10. LocksKept /\ PaidKept
  BY <1>1, <1>2, <1>8, <1>9 DEF LocksKept, PaidKept
<1>11. AtInvoice' /\ ReadsKept
  <2>1. Len(inv) <= Len(inv') /\ Len(inv') \in Nat /\ Done(h)
    BY <1>1, <1>2 DEF CommitVoid
  <2> QED
    BY <2>1, DoneRequests
<1>12. ChargesPlaced'
  BY <1>2, <1>8 DEF ChargesPlaced, IInv
<1>13. Standing'
  <2>1. DraftIffUnlocked'
    <3>1. inv[i].status # "draft" /\ inv'[i].status # "draft" /\ inv'[n].status # "draft"
      BY <1>1, <1>3, <1>4, <1>7 DEF IInv, Standing, DraftIffUnlocked
    <3>2. inv'[i].locked /\ inv'[n].locked
      BY <1>3, <1>4, <1>7
    <3>3. \A j \in Ids : j # i => (inv'[j].status = "draft" <=> ~inv'[j].locked)
      BY <1>5 DEF IInv, Standing, DraftIffUnlocked
    <3> QED
      BY <1>2, <3>1, <3>2, <3>3 DEF DraftIffUnlocked
  <2>2. \A j, k \in Ids' :
           inv'[j].corrects = inv'[k].corrects /\ inv'[j].corrects # 0 => j = k
    BY <1>2, <1>3, <1>7, <1>9 DEF OneStorno, IInv, Standing, Corrected
  <2>3. \A j \in Ids' : inv'[j].status = "void" => \E k \in Ids' : inv'[k].corrects = j
    BY <1>2, <1>3, <1>5, <1>9 DEF OneStorno, IInv, Standing
  <2>4. CorrectsExisting'
    <3>1. \A j \in Ids : inv[j].corrects <= Len(inv) /\ inv[j].corrects \in Nat
      <4>1. PICK A : inv \in Seq(RowOver(A))
        BY DEF IInv, Shape, ShapeOver
      <4>2. \A j \in Ids : inv[j] \in RowOver(A)
        BY <4>1 DEF Ids
      <4> QED
        BY <4>2 DEF RowOver, IInv, Standing, CorrectsExisting
    <3>2. i \in Nat /\ i <= Len(inv)
      BY <1>1, <1>2 DEF Ids
    <3> QED
      BY <3>1, <3>2, <1>1, <1>2, <1>3, <1>9 DEF CorrectsExisting
  <2> QED
    BY <2>1, <2>2, <2>3, <2>4 DEF Standing, OneStorno
<1>14. Journalled'
  <2> USE DEF IInv, Journalled
  <2>1. \A k \in 1..(m + 2) : k = m + 2 \/ k = m + 1 \/ k \in 1..m
    BY <1>2
  <2>2. m + 1 \in 1..(m + 2) /\ m + 2 \in 1..(m + 2) /\ \A k \in 1..m : k \in 1..(m + 2) /\ k < m + 1
    BY <1>2
  <2>3. OnlyLockedInJournal'
    <3>1. ASSUME NEW k \in 1..(m + 2)
          PROVE  ledger'[k].invoice \in Ids' /\ inv'[ledger'[k].invoice].locked
      <4>1. CASE k = m + 2
        BY <4>1, <1>2, <1>3, <1>6
      <4>2. CASE k = m + 1
        BY <4>2, <1>1, <1>2, <1>6, <1>7, <1>9
      <4>3. CASE k \in 1..m
        <5>1. ledger[k].invoice \in Ids /\ inv[ledger[k].invoice].locked
          BY <4>3 DEF OnlyLockedInJournal
        <5> QED
          BY <4>3, <5>1, <1>1, <1>2, <1>9
      <4> QED
        BY <4>1, <4>2, <4>3, <2>1
    <3> QED
      BY <3>1, <1>1 DEF OnlyLockedInJournal
  <2>4. LockedInJournal'
    <3>1. ASSUME NEW j \in Ids', inv'[j].locked
          PROVE  \E k \in 1..(m + 2) :
                    /\ ledger'[k].invoice = j
                    /\ ledger'[k].event \in {"invoice.locked", "invoice.correction_issued"}
      <4>1. CASE j = n
        BY <4>1, <1>6, <2>2
      <4>2. CASE j \in Ids
        <5>1. PICK k \in 1..m :
                    /\ ledger[k].invoice = j
                    /\ ledger[k].event \in {"invoice.locked", "invoice.correction_issued"}
          BY <4>2, <3>1, <1>9 DEF LockedInJournal
        <5> QED
          BY <5>1, <1>1, <2>2
      <4> QED
        BY <4>1, <4>2, <1>2
    <3> QED
      BY <3>1, <1>1 DEF LockedInJournal
  <2>5. CorrectedInJournal'
    <3>1. ASSUME NEW a \in Ids', NEW t \in Ids', inv'[t].corrects = a
          PROVE  \E j, k \in 1..(m + 2) :
                    /\ j < k
                    /\ ledger'[j].invoice = a /\ ledger'[j].event # "invoice.voided"
                    /\ ledger'[k].invoice = a /\ ledger'[k].event = "invoice.voided"
      <4>1. CASE t = n
        <5>1. a = i
          BY <4>1, <3>1, <1>3
        <5>2. PICK j \in 1..m :
                    /\ ledger[j].invoice = i
                    /\ ledger[j].event \in {"invoice.locked", "invoice.correction_issued"}
          BY <1>1, <1>7 DEF LockedInJournal
        <5>3. ledger'[j] = ledger[j] /\ j \in 1..(m + 2) /\ j < m + 1 /\ m + 1 \in 1..(m + 2)
          BY <1>1, <2>2
        <5>4. ledger'[j].invoice = a /\ ledger'[j].event # "invoice.voided"
          BY <5>1, <5>2, <5>3
        <5>5. ledger'[m + 1].invoice = a /\ ledger'[m + 1].event = "invoice.voided"
          BY <5>1, <1>6
        <5> QED
          BY <5>3, <5>4, <5>5
      <4>2. CASE t \in Ids
        <5>1. inv[t].corrects = a /\ a \in Ids
          BY <4>2, <3>1, <1>1, <1>2, <1>9 DEF Standing, CorrectsExisting, Ids
        <5>2. PICK j, k \in 1..m :
                    /\ j < k
                    /\ ledger[j].invoice = a /\ ledger[j].event # "invoice.voided"
                    /\ ledger[k].invoice = a /\ ledger[k].event = "invoice.voided"
          BY <4>2, <5>1 DEF CorrectedInJournal
        <5>3. j \in 1..(m + 2) /\ k \in 1..(m + 2) /\ ledger'[j] = ledger[j] /\ ledger'[k] = ledger[k]
          BY <1>1, <2>2
        <5> QED
          BY <5>2, <5>3
      <4> QED
        BY <4>1, <4>2, <1>2
    <3> QED
      BY <3>1, <1>1 DEF CorrectedInJournal
  <2> QED
    BY <2>3, <2>4, <2>5
<1>15. CreditedOnce'
  BY <1>8, <1>10, CreditedKept
<1> QED
  BY <1>1, <1>10, <1>11, <1>12, <1>13, <1>14, <1>15, StillTrueKept DEF IInv

-----------------------------------------------------------------------------
\* The invariant holds in an empty database.
LEMMA InitIInv == Init => IInv
<1> SUFFICES ASSUME Init PROVE IInv
  OBVIOUS
<1> USE DEF Init
<1>1. Shape
  <2> DEFINE A == {0, NoDate}
  <2>1. Draft(0, 0) \in RowOver(A)
    BY DEF Draft, RowOver
  <2>2. Idle \in RequestOver(A)
    BY <2>1 DEF Idle, RequestOver
  <2>3. [state |-> "none", invoice |-> 0, amount |-> 0] \in ChargeOver(A)
    BY DEF ChargeOver
  <2> HIDE DEF A
  <2>4. inv \in Seq(RowOver(A)) /\ payments \in Seq(PaymentOver(A)) /\ ledger \in Seq(EntryOver(A))
    OBVIOUS
  <2>5. charge \in [Charges -> ChargeOver(A)]
    BY <2>3
  <2>6. req \in [Handlers -> RequestOver(A)]
    BY <2>2
  <2> QED
    BY <2>4, <2>5, <2>6 DEF Shape, ShapeOver
<1>2. Ids = {} /\ 1..Len(payments) = {} /\ 1..Len(ledger) = {}
  BY DEF Ids
<1>3. \A h \in Handlers : req[h].op = "none"
  BY DEF Idle
<1>4. AtInvoice /\ ChargesPlaced /\ \A h \in Handlers : StillTrue(h)
  BY <1>3 DEF AtInvoice, ChargesPlaced, StillTrue
<1>5. Standing /\ CreditedOnce /\ Journalled
  BY <1>2 DEF Standing, DraftIffUnlocked, OneStorno, CorrectsExisting, CreditedOnce, Journalled,
              OnlyLockedInJournal, LockedInJournal, CorrectedInJournal
<1> QED
  BY <1>1, <1>4, <1>5 DEF IInv

\* Every step of every handler keeps the invariant.
LEMMA NextIInv == IInv /\ [Next]_vars => IInv'
<1> SUFFICES ASSUME IInv, [Next]_vars PROVE IInv'
  OBVIOUS
<1>1. CASE UNCHANGED vars
  BY <1>1, IdleStep DEF vars, rows
<1>2. ASSUME NEW s \in Subtotals, NEW x \in Taxes, GenerateFromEstimate(s, x) PROVE IInv'
  BY <1>2, GenerateStep
<1>3. ASSUME NEW h \in Handlers, NEW i \in Ids, BeginSend(h, i) PROVE IInv'
  <2>1. PICK date : date = IF inv[i].dueDate = NoDate THEN today + Terms ELSE inv[i].dueDate
    OBVIOUS
  <2> QED
    BY <1>3, <2>1, ReadStep DEF BeginSend
<1>4. ASSUME NEW h \in Handlers, NEW i \in Ids, BeginVoid(h, i) PROVE IInv'
  BY <1>4, ReadStep DEF BeginVoid
<1>5. ASSUME NEW h \in Handlers, NEW i \in Ids, NEW d \in {NoDate, MaxDay}, BeginUpdate(h, i, d)
      PROVE  IInv'
  BY <1>5, ReadStep DEF BeginUpdate
<1>6. ASSUME NEW h \in Handlers, NEW i \in Ids, NEW a \in Amounts, BeginPayment(h, i, a)
      PROVE  IInv'
  <2>1. inv[i].locked
    BY <1>6 DEF BeginPayment, Payable, IInv, Standing, DraftIffUnlocked
  <2> QED
    BY <1>6, <2>1, ReadStep DEF BeginPayment
<1>7. ASSUME NEW h \in Handlers, NEW c \in Charges, BeginWebhook(h, c) PROVE IInv'
  <2>1. PICK i, amount : i = charge[c].invoice /\ amount = charge[c].amount
    OBVIOUS
  <2>2. i \in Ids /\ charge[c].state = "paid"
    BY <1>7, <2>1 DEF BeginWebhook, Settled, IInv, ChargesPlaced
  <2>3. inv[i].locked
    BY <1>7, <2>1, <2>2 DEF BeginWebhook, Payable, IInv, Standing, DraftIffUnlocked
  <2>4. req' = [req EXCEPT ![h] = Reading("pay", i, c, amount, NoDate)] /\ UNCHANGED <<rows, charge>>
    BY <1>7, <2>1 DEF BeginWebhook
  <2> QED
    BY <2>1, <2>2, <2>3, <2>4, ReadStep
<1>8. ASSUME NEW h \in Handlers, Commit(h) PROVE IInv'
  <2>1. CASE VoidRejected(h)
    BY <2>1, EndStep DEF VoidRejected
  <2> QED
    BY <1>8, <2>1, SendStep, UpdateStep, VoidStep, PaymentStep DEF Commit
<1>9. ASSUME NEW h \in Handlers, Fail(h) PROVE IInv'
  BY <1>9, EndStep DEF Fail
<1>10. ASSUME NEW h \in Handlers, NEW i \in Ids, ChargeLateFee(h, i) PROVE IInv'
  BY <1>10, LateFeeStep
<1>11. ASSUME NEW h \in Handlers, NEW i \in Ids, NEW x \in Taxes, RecalculateTax(h, i, x) PROVE IInv'
  BY <1>11, TaxStep
<1>12. ASSUME NEW h \in Handlers, NEW c \in Charges, NEW i \in Ids, NEW a \in Amounts,
              CreateCheckout(h, c, i, a)
       PROVE  IInv'
  <2>1. PICK amount : amount = IF a < Balance(i) THEN a ELSE Balance(i)
    OBVIOUS
  <2>2. charge[c].state # "paid" /\ UNCHANGED <<rows, req>>
        /\ charge' = [charge EXCEPT ![c] = [state |-> "open", invoice |-> i, amount |-> amount]]
    BY <1>12, <2>1 DEF CreateCheckout
  <2> QED
    BY <2>2, ChargeStep
<1>13. ASSUME NEW c \in Charges, ClientPays(c) PROVE IInv'
  <2>1. PICK t \in {"processing", "paid", "failed"} : charge' = [charge EXCEPT ![c].state = t]
    BY <1>13 DEF ClientPays
  <2>2. PICK i, amount : i = charge[c].invoice /\ amount = charge[c].amount
    OBVIOUS
  <2>3. PICK A : charge \in [Charges -> ChargeOver(A)]
    BY DEF IInv, Shape, ShapeOver
  <2>4. charge' = [charge EXCEPT ![c] = [state |-> t, invoice |-> i, amount |-> amount]]
    <3>1. charge[c] \in ChargeOver(A)
      BY <2>3
    <3>2. [charge[c] EXCEPT !.state = t] = [state |-> t, invoice |-> i, amount |-> amount]
      BY <3>1, <2>2 DEF ChargeOver
    <3>3. charge' = [charge EXCEPT ![c] = [charge[c] EXCEPT !.state = t]]
      BY <2>1
    <3> QED
      BY <3>2, <3>3
  <2>5. charge[c].state # "paid" /\ charge[c].state # "none" /\ UNCHANGED <<rows, req>>
    BY <1>13 DEF ClientPays
  <2>6. i \in Ids
    BY <2>2, <2>5 DEF IInv, ChargesPlaced
  <2> QED
    BY <2>4, <2>5, <2>6, ChargeStep
<1>14. CASE DayPasses
  BY <1>14, IdleStep DEF DayPasses, rows
<1> QED
  BY <1>1, <1>2, <1>3, <1>4, <1>5, <1>6, <1>7, <1>8, <1>9, <1>10, <1>11, <1>12, <1>13, <1>14
     DEF Next

\* The invariant holds throughout every behaviour of send, update, void,
\* recordPayment, chargeLateFee, recalculateInvoiceTax and the Stripe webhooks.
THEOREM Inductive == Spec => []IInv
BY InitIInv, NextIInv, PTL DEF Spec

\* However often Stripe delivers the event of a charge, and whatever requests
\* it races, at most one payment is recorded for it, of its amount and on its
\* invoice, and only after the money arrived (recordPaymentTx).
THEOREM StripeMoneyCreditedOnce == Spec => []CreditedOnce
<1>1. IInv => CreditedOnce
  BY DEF IInv
<1> QED
  BY <1>1, Inductive, PTL

\* An invoice is a draft exactly until it is locked, although send, void and
\* recordPayment write statuses they decided on from an earlier read.
THEOREM LockAndStatusAgree == Spec => []DraftIffUnlocked
<1>1. IInv => DraftIffUnlocked
  BY DEF IInv, Standing
<1> QED
  BY <1>1, Inductive, PTL

\* However voids race, no invoice gets two Stornos, and a void one has one.
THEOREM AtMostOneStorno == Spec => []OneStorno
<1>1. IInv => OneStorno
  BY DEF IInv, Standing
<1> QED
  BY <1>1, Inductive, PTL

\* The journal and the invoices agree: exactly the locked invoices are in it,
\* and the voiding of a corrected one follows its locking.
THEOREM JournalMatchesInvoices == Spec => []Journalled
<1>1. IInv => Journalled
  BY DEF IInv
<1> QED
  BY <1>1, Inductive, PTL

-----------------------------------------------------------------------------
(***************************************************************************)
(* Sums, as in AmountsProofs.                                              *)
(***************************************************************************)

\* Induction on the naturals, for sets.
LEMMA SetInduction ==
    ASSUME NEW T, 0 \in T, \A n \in Nat : n \in T => n + 1 \in T
    PROVE  Nat \subseteq T
<1> SUFFICES ASSUME Nat \ T # {} PROVE FALSE  OBVIOUS
<1>1. PICK R : R = OpToRel(<, Nat)
  OBVIOUS
<1>2. IsWellFoundedOn(R, Nat)
  BY <1>1, NatLessThanWellFounded
<1>3. PICK x \in Nat \ T : \A y \in Nat \ T : ~(<<y, x>> \in R)
  <2>1. PICK B : B = Nat \ T
    OBVIOUS
  <2>2. B \subseteq Nat /\ B # {}
    BY <2>1
  <2>3. \E x \in B : \A y \in B : ~(<<y, x>> \in R)
    BY <1>2, <2>2, WFMin
  <2> QED BY <2>1, <2>3
<1>4. \A y \in Nat : y < x => <<y, x>> \in R
  BY <1>1 DEF OpToRel
<1>5. x - 1 \in Nat /\ x - 1 < x /\ x - 1 + 1 = x
  OBVIOUS
<1>6. x - 1 \in T
  BY <1>3, <1>4, <1>5
<1> QED BY <1>5, <1>6

\* A recursive function unfolds.
LEMMA PartialSumsUnfold ==
    ASSUME NEW f, Len(f) \in Nat
    PROVE  PartialSums(f) = [n \in 0..Len(f) |->
              IF n = 0 THEN 0 ELSE PartialSums(f)[n - 1] + f[n]]
<1> DEFINE Is(g, m) == g = [n \in 0..m |-> IF n = 0 THEN 0 ELSE g[n - 1] + f[n]]
             T == {m \in Nat : \E g : Is(g, m)}
<1>1. 0 \in T
  <2> DEFINE g == [n \in 0..0 |-> 0]
  <2>1. Is(g, 0)
    OBVIOUS
  <2> QED BY <2>1
<1>2. ASSUME NEW m \in T PROVE m + 1 \in T
  <2>1. PICK g : Is(g, m)
    OBVIOUS
  <2> DEFINE h == [n \in 0..(m + 1) |-> IF n = m + 1 THEN g[m] + f[m + 1] ELSE g[n]]
               u == [n \in 0..(m + 1) |-> IF n = 0 THEN 0 ELSE h[n - 1] + f[n]]
  <2>2. m \in Nat /\ DOMAIN g = 0..m
    BY <2>1
  <2>3. ASSUME NEW n \in 0..(m + 1) PROVE h[n] = IF n = 0 THEN 0 ELSE h[n - 1] + f[n]
    <3>1. CASE n = 0
      BY <2>1, <2>2, <3>1
    <3>2. CASE n \in 1..m
      <4>1. n \in 0..m /\ n - 1 \in 0..m /\ n # m + 1 /\ n - 1 # m + 1 /\ n - 1 \in 0..(m + 1)
        BY <2>2, <3>2
      <4>2. g[n] = g[n - 1] + f[n]
        BY <2>1, <3>2, <4>1
      <4> QED BY <4>1, <4>2, <3>2
    <3>3. CASE n = m + 1
      <4>1. n - 1 = m /\ m # m + 1 /\ m \in 0..(m + 1) /\ n # 0
        BY <2>2, <3>3
      <4> QED BY <4>1, <3>3
    <3> QED BY <2>2, <3>1, <3>2, <3>3
  <2>4. h = u
    <3>1. \A n \in 0..(m + 1) : u[n] = IF n = 0 THEN 0 ELSE h[n - 1] + f[n]
      OBVIOUS
    <3>2. \A n \in 0..(m + 1) : h[n] = u[n]
      BY <2>3, <3>1
    <3>3. h = [n \in 0..(m + 1) |-> h[n]] /\ u = [n \in 0..(m + 1) |-> u[n]]
      OBVIOUS
    <3> HIDE DEF h, u
    <3> QED BY <3>2, <3>3
  <2>5. Is(h, m + 1)
    BY <2>4
  <2> HIDE DEF h, u
  <2>6. \E x : Is(x, m + 1)
    BY <2>5
  <2> QED BY <2>2, <2>6
<1>3. Nat \subseteq T
  <2> HIDE DEF T
  <2> QED BY <1>1, <1>2, SetInduction
<1>4. \E g : Is(g, Len(f))
  BY <1>3
<1>5. PartialSums(f) = CHOOSE g : Is(g, Len(f))
  BY DEF PartialSums
<1>6. Is(PartialSums(f), Len(f))
  <2> HIDE DEF Is
  <2> QED BY <1>4, <1>5
<1> QED BY <1>6

\* The sums of whole numbers are whole numbers, one element at a time.
LEMMA PartialSumsStep ==
    ASSUME NEW f, Len(f) \in Nat
    PROVE  /\ PartialSums(f)[0] = 0
           /\ \A n \in 1..Len(f) : PartialSums(f)[n] = PartialSums(f)[n - 1] + f[n]
<1> DEFINE s == PartialSums(f)
<1>1. s = [n \in 0..Len(f) |-> IF n = 0 THEN 0 ELSE s[n - 1] + f[n]]
  BY PartialSumsUnfold
<1> HIDE DEF s
<1>2. s[0] = 0
  BY <1>1
<1>3. \A n \in 1..Len(f) : s[n] = s[n - 1] + f[n]
  BY <1>1
<1> QED BY <1>2, <1>3 DEF s

LEMMA TotalNat ==
    ASSUME NEW f \in Seq(Nat)
    PROVE  /\ Total(f) \in Nat
           /\ \A n \in 0..Len(f) : PartialSums(f)[n] \in Nat
<1> DEFINE s == PartialSums(f)
             T == {n \in Nat : n <= Len(f) => s[n] \in Nat}
<1>1. Len(f) \in Nat /\ \A n \in 1..Len(f) : f[n] \in Nat
  OBVIOUS
<1>2. s[0] = 0 /\ \A n \in 1..Len(f) : s[n] = s[n - 1] + f[n]
  BY <1>1, PartialSumsStep
<1> HIDE DEF s
<1>3. 0 \in T
  BY <1>2
<1>4. ASSUME NEW n \in Nat, n \in T PROVE n + 1 \in T
  <2> SUFFICES ASSUME n + 1 <= Len(f) PROVE s[n + 1] \in Nat
    OBVIOUS
  <2>1. s[n] \in Nat /\ n + 1 \in 1..Len(f) /\ n + 1 - 1 = n
    BY <1>1, <1>4
  <2>2. s[n + 1] = s[n] + f[n + 1]
    BY <1>2, <2>1
  <2> QED BY <1>1, <2>1, <2>2
<1>5. Nat \subseteq T
  <2> HIDE DEF T
  <2> QED BY <1>3, <1>4, SetInduction
<1> QED BY <1>1, <1>5 DEF Total, s

\* Sequences that agree up to n have the same sums up to n.
LEMMA TotalMonotone ==
    ASSUME NEW f \in Seq(Nat), NEW g \in Seq(Nat), NEW m \in Nat, m <= Len(f), m <= Len(g),
           \A k \in 1..m : f[k] <= g[k]
    PROVE  PartialSums(f)[m] <= PartialSums(g)[m]
<1> DEFINE s == PartialSums(f)
             t == PartialSums(g)
             T == {n \in Nat : n <= m => s[n] <= t[n]}
<1>1. /\ Len(f) \in Nat /\ \A n \in 1..Len(f) : f[n] \in Nat
      /\ Len(g) \in Nat /\ \A n \in 1..Len(g) : g[n] \in Nat
  OBVIOUS
<1>2. s[0] = 0 /\ \A n \in 1..Len(f) : s[n] = s[n - 1] + f[n]
  BY <1>1, PartialSumsStep
<1>3. t[0] = 0 /\ \A n \in 1..Len(g) : t[n] = t[n - 1] + g[n]
  BY <1>1, PartialSumsStep
<1>4. /\ \A n \in 0..Len(f) : s[n] \in Nat
      /\ \A n \in 0..Len(g) : t[n] \in Nat
  BY TotalNat
<1> HIDE DEF s, t
<1>5. 0 \in T
  BY <1>2, <1>3
<1>6. ASSUME NEW n \in Nat, n \in T PROVE n + 1 \in T
  <2> SUFFICES ASSUME n + 1 <= m PROVE s[n + 1] <= t[n + 1]
    OBVIOUS
  <2>1. /\ s[n] <= t[n] /\ n + 1 \in 1..m /\ n + 1 - 1 = n
        /\ n + 1 \in 1..Len(f) /\ n + 1 \in 1..Len(g) /\ n \in 0..Len(f) /\ n \in 0..Len(g)
    BY <1>1, <1>6
  <2>2. s[n + 1] = s[n] + f[n + 1] /\ t[n + 1] = t[n] + g[n + 1]
    BY <1>2, <1>3, <2>1
  <2>3. f[n + 1] <= g[n + 1] /\ f[n + 1] \in Nat /\ g[n + 1] \in Nat /\ s[n] \in Nat /\ t[n] \in Nat
    BY <1>1, <1>4, <2>1
  <2>4. \A a, b, c, d \in Nat : a <= b /\ c <= d => a + c <= b + d
    OBVIOUS
  <2>5. s[n] + f[n + 1] <= t[n] + g[n + 1]
    BY <2>1, <2>3, <2>4
  <2> QED BY <2>2, <2>5
<1>7. Nat \subseteq T
  <2> HIDE DEF T
  <2> QED BY <1>5, <1>6, SetInduction
<1> QED BY <1>7 DEF s, t

\* One more element.
LEMMA TotalAppend ==
    ASSUME NEW f \in Seq(Nat), NEW g \in Seq(Nat), Len(g) = Len(f) + 1,
           \A k \in 1..Len(f) : f[k] = g[k]
    PROVE  Total(g) = Total(f) + g[Len(g)]
<1>1. Len(f) \in Nat /\ Len(f) <= Len(g) /\ Len(g) \in 1..Len(g) /\ Len(g) - 1 = Len(f)
      /\ Len(f) \in 0..Len(f) /\ Len(f) \in 0..Len(g)
  OBVIOUS
<1>2. \A k \in 1..Len(f) : f[k] <= g[k] /\ g[k] <= f[k]
  OBVIOUS
<1>a. PICK m \in Nat : m = Len(f)
  BY <1>1
<1>b. m <= Len(f) /\ m <= Len(g) /\ \A k \in 1..m : f[k] <= g[k] /\ g[k] <= f[k]
  BY <1>a, <1>1, <1>2
<1>c. PartialSums(f)[m] <= PartialSums(g)[m]
  BY <1>b, TotalMonotone
<1>d. PartialSums(g)[m] <= PartialSums(f)[m]
  BY <1>b, TotalMonotone
<1>3. PartialSums(f)[Len(f)] <= PartialSums(g)[Len(f)]
  BY <1>a, <1>c
<1>4. PartialSums(g)[Len(f)] <= PartialSums(f)[Len(f)]
  BY <1>a, <1>d
<1>5. PartialSums(f)[Len(f)] \in Nat /\ PartialSums(g)[Len(f)] \in Nat
  BY <1>1, TotalNat
<1>6. PartialSums(f)[Len(f)] = PartialSums(g)[Len(f)]
  BY <1>3, <1>4, <1>5
<1>7. PartialSums(g)[Len(g)] = PartialSums(g)[Len(f)] + g[Len(g)]
  BY <1>1, PartialSumsStep
<1> QED BY <1>6, <1>7 DEF Total

\* Their totals are whole amounts.
LEMMA TotalsNat == ASSUME NEW f \in Seq(Nat) PROVE Total(f) \in Nat
<1>1. Len(f) \in 0..Len(f)
  OBVIOUS
<1> QED BY <1>1, TotalNat DEF Total

\* What was paid on an invoice, as a sequence of amounts.
PaidOn(paid, i) == [k \in 1..Len(paid) |-> IF paid[k].invoice = i THEN paid[k].amount ELSE 0]

LEMMA PaidOnTyped ==
    ASSUME NEW paid \in Seq(Payment), NEW i
    PROVE  PaidOn(paid, i) \in Seq(Nat) /\ Len(PaidOn(paid, i)) = Len(paid)
<1>1. PICK n \in Nat : n = Len(paid)
  OBVIOUS
<1>2. \A k \in 1..n : paid[k] \in Payment
  BY <1>1
<1>3. \A k \in 1..n : paid[k].amount \in Nat
  BY <1>2 DEF Payment
<1>4. PaidOn(paid, i) \in [1..n -> Nat]
  BY <1>1, <1>3 DEF PaidOn
<1>5. ASSUME NEW f \in [1..n -> Nat] PROVE f \in Seq(Nat) /\ Len(f) = n
  OBVIOUS
<1> QED BY <1>1, <1>4, <1>5

\* It is a whole amount.
LEMMA PaidNat == ASSUME payments \in Seq(Payment), NEW i PROVE PaidSum(i) \in Nat
<1>1. PaidSum(i) = Total(PaidOn(payments, i))
  BY DEF PaidSum, PaidOn
<1> QED BY <1>1, PaidOnTyped, TotalsNat

-----------------------------------------------------------------------------
(***************************************************************************)
(* Types.                                                                  *)
(***************************************************************************)

\* Handlers and charges are at invoices that exist, and these do not go away.
LEMMA PlacesKept ==
    ASSUME TypeOK, Ids \subseteq Ids',
           \A h \in Handlers : \/ req'[h].op = "none" \/ req'[h].invoice \in Ids
                               \/ req'[h] = req[h],
           \A c \in Charges : \/ charge'[c].invoice \in Ids
                              \/ charge'[c] = charge[c]
    PROVE  /\ \A h \in Handlers : req'[h].op # "none" => req'[h].invoice \in Ids'
           /\ \A c \in Charges : charge'[c].state # "none" => charge'[c].invoice \in Ids'
BY DEF TypeOK

LEMMA DraftTyped == ASSUME NEW s \in Nat, NEW x \in Nat PROVE Draft(s, x) \in Invoice
<1>1. s + x \in Int /\ s \in Int /\ x \in Int /\ NoDate \in Dates /\ 0 \in Nat
  BY DEF NoDate, Dates
<1> QED BY <1>1 DEF Draft, Invoice

LEMMA IdleTyped == Idle \in Request /\ Idle.op = "none"
<1>1. Draft(0, 0) \in Invoice /\ NoDate \in Dates
  BY DraftTyped DEF Dates
<1> QED BY <1>1 DEF Idle, Request

\* An invoice row is rewritten, or added.
LEMMA TypedReplace ==
    ASSUME inv \in Seq(Invoice), NEW i \in Ids, NEW row \in Invoice, inv' = [inv EXCEPT ![i] = row]
    PROVE  /\ inv' \in Seq(Invoice) /\ Len(inv') = Len(inv) /\ Ids' = Ids
           /\ \A j \in Ids : inv'[j] = IF j = i THEN row ELSE inv[j]
BY DEF Ids

LEMMA TypedAppend ==
    ASSUME inv \in Seq(Invoice), NEW row \in Invoice, inv' = Append(inv, row)
    PROVE  /\ inv' \in Seq(Invoice) /\ Len(inv) \in Nat /\ Len(inv') = Len(inv) + 1
           /\ Ids' = Ids \union {Len(inv) + 1} /\ Len(inv) + 1 \notin Ids
           /\ \A j \in Ids : inv'[j] = inv[j]
           /\ inv'[Len(inv) + 1] = row
<1>1. Len(inv) \in Nat /\ Len(inv') = Len(inv) + 1 /\ inv' \in Seq(Invoice)
  OBVIOUS
<1>2. 1..(Len(inv) + 1) = (1..Len(inv)) \union {Len(inv) + 1} /\ Len(inv) + 1 \notin 1..Len(inv)
  BY <1>1
<1>3. inv'[Len(inv) + 1] = row /\ \A j \in 1..Len(inv) : inv'[j] = inv[j]
  BY <1>1
<1> QED BY <1>1, <1>2, <1>3 DEF Ids

\* The rows that the actions write.
LEMMA TypedRows ==
    ASSUME NEW row \in Invoice
    PROVE  /\ \A s \in {"draft", "sent", "paid", "void"} : [row EXCEPT !.status = s] \in Invoice
           /\ \A d \in Dates : Sent(row, d) \in Invoice /\ [row EXCEPT !.dueDate = d] \in Invoice
           /\ \A t \in Int, f \in Nat, d \in Dates :
                 [row EXCEPT !.total = t, !.lateFees = f, !.lastAccrual = d] \in Invoice
           /\ \A x, t \in Int : [row EXCEPT !.tax = x, !.total = t] \in Invoice
           /\ \A i \in Nat : Storno(i, row) \in Invoice
<1>1. \A s \in {"draft", "sent", "paid", "void"} : [row EXCEPT !.status = s] \in Invoice
  BY DEF Invoice
<1>2. \A d \in Dates : Sent(row, d) \in Invoice /\ [row EXCEPT !.dueDate = d] \in Invoice
  BY DEF Invoice, Sent
<1>3. \A t \in Int, f \in Nat, d \in Dates :
        [row EXCEPT !.total = t, !.lateFees = f, !.lastAccrual = d] \in Invoice
  BY DEF Invoice
<1>4. \A x, t \in Int : [row EXCEPT !.tax = x, !.total = t] \in Invoice
  BY DEF Invoice
<1>5. ASSUME NEW i \in Nat PROVE Storno(i, row) \in Invoice
  <2>1. -row.subtotal \in Int /\ -row.tax \in Int /\ -row.total \in Int /\ NoDate \in Dates
    BY DEF Invoice, Dates
  <2> QED BY <2>1 DEF Storno, Invoice
<1> QED BY <1>1, <1>2, <1>3, <1>4, <1>5

\* A late fee is a whole amount.
LEMMA AccruedInt == ASSUME TypeOK, NEW i \in Ids PROVE Accrued(i) \in Int
<1>1. inv[i] \in Invoice /\ PaidSum(i) \in Nat /\ today \in Nat
  BY PaidNat DEF TypeOK, Ids
<1>2. PICK start : start = IF inv[i].lastAccrual = NoDate THEN inv[i].dueDate ELSE inv[i].lastAccrual
  OBVIOUS
<1>3. start \in Int /\ inv[i].total \in Int /\ inv[i].lateFees \in Int
  BY <1>1, <1>2 DEF Invoice, Dates, NoDate
<1>4. PICK a, d \in Int : a = inv[i].total - inv[i].lateFees - PaidSum(i) /\ d = today - start
  BY <1>1, <1>3
<1>5. LateFee(a, d) \in Int
  <2>1. \A x, y, z \in Int : x * y * z \in Int
    OBVIOUS
  <2>2. a * d * LateFeeRate \in Int
    BY <2>1, InvoicesAssumption
  <2> QED BY <2>2 DEF LateFee
<1> QED BY <1>2, <1>4, <1>5 DEF Accrued

\* A handler has read: nothing but its request changes.
LEMMA ReadTyped ==
    ASSUME TypeOK, NEW h \in Handlers, NEW i \in Ids, NEW op \in {"send", "update", "void", "pay"},
           NEW c \in Charges \union {NoCharge}, NEW amount \in Nat, NEW date \in Dates,
           req' = [req EXCEPT ![h] = Reading(op, i, c, amount, date)],
           UNCHANGED <<rows, charge, today, fails>>
    PROVE  TypeOK'
<1>1. inv[i] \in Invoice /\ i \in Nat
  BY DEF TypeOK, Ids
<1>2. Reading(op, i, c, amount, date) \in Request /\ Reading(op, i, c, amount, date).invoice = i
  BY <1>1 DEF Reading, Request
<1>3. /\ inv' = inv /\ payments' = payments /\ outbox' = outbox /\ ledger' = ledger
      /\ charge' = charge /\ today' = today /\ fails' = fails /\ Ids' = Ids
  BY DEF rows, Ids
<1>4. req' \in [Handlers -> Request]
  BY <1>2 DEF TypeOK
<1>5. \A g \in Handlers : req'[g].invoice \in Ids \/ req'[g] = req[g]
  BY <1>2 DEF TypeOK
<1> QED BY <1>3, <1>4, <1>5, PlacesKept DEF TypeOK

\* A handler has ended.
LEMMA DoneTyped ==
    ASSUME TypeOK, NEW h \in Handlers, Done(h)
    PROVE  /\ req' \in [Handlers -> Request]
           /\ \A g \in Handlers : req'[g].op = "none" \/ req'[g] = req[g]
BY IdleTyped DEF TypeOK, Done

\* An invoice row is rewritten and a handler ends, or none does.
LEMMA RewriteTyped ==
    ASSUME TypeOK, NEW i \in Ids, NEW row \in Invoice, inv' = [inv EXCEPT ![i] = row],
           payments' \in Seq(Payment), outbox' \in Seq(Event), ledger' \in Seq(Entry),
           req' \in [Handlers -> Request],
           \A g \in Handlers : req'[g].op = "none" \/ req'[g] = req[g],
           UNCHANGED <<charge, today, fails>>
    PROVE  TypeOK'
<1>1. inv' \in Seq(Invoice) /\ Ids' = Ids
  BY TypedReplace DEF TypeOK
<1>2. charge' = charge /\ today' = today /\ fails' = fails
  OBVIOUS
<1>3. /\ \A h \in Handlers : req'[h].op # "none" => req'[h].invoice \in Ids'
      /\ \A c \in Charges : charge'[c].state # "none" => charge'[c].invoice \in Ids'
  BY <1>1, <1>2, PlacesKept
<1> QED BY <1>1, <1>2, <1>3 DEF TypeOK

LEMMA GenerateTyped ==
    ASSUME TypeOK, NEW s \in Subtotals, NEW x \in Taxes, GenerateFromEstimate(s, x)
    PROVE  TypeOK'
<1>1. Draft(s, x) \in Invoice
  BY DraftTyped, InvoicesAssumption
<1>2. inv' \in Seq(Invoice) /\ Ids \subseteq Ids'
  BY <1>1, TypedAppend DEF GenerateFromEstimate, TypeOK
<1>3. /\ payments' = payments /\ outbox' = outbox /\ ledger' = ledger
      /\ charge' = charge /\ req' = req /\ today' = today /\ fails' = fails
  BY DEF GenerateFromEstimate
<1> QED BY <1>2, <1>3, PlacesKept DEF TypeOK

\* Row i is rewritten, and no other.
Rewritten(i, row) ==
    /\ i \in Ids /\ row \in Invoice /\ inv' = [inv EXCEPT ![i] = row]
    /\ inv' \in Seq(Invoice) /\ Len(inv') = Len(inv) /\ Ids' = Ids
    /\ \A j \in Ids : inv'[j] = IF j = i THEN row ELSE inv[j]

\* The row that each of the actions rewrites, and how.
LEMMA SendRow ==
    ASSUME TypeOK, NEW h \in Handlers, CommitSend(h), NEW i, i = req[h].invoice
    PROVE  Rewritten(i, Sent(inv[i], req[h].dueDate))
<1>1. i \in Ids /\ inv[i] \in Invoice /\ req[h] \in Request
  BY DEF TypeOK, Ids, CommitSend, Ready
<1>2. PICK row \in Invoice : row = Sent(inv[i], req[h].dueDate)
  BY <1>1, TypedRows DEF Request
<1>3. inv' = [inv EXCEPT ![i] = row]
  BY <1>2 DEF CommitSend
<1>4. Rewritten(i, row)
  BY <1>1, <1>3, TypedReplace DEF Rewritten, TypeOK
<1> QED BY <1>2, <1>4

LEMMA UpdateRow ==
    ASSUME TypeOK, NEW h \in Handlers, CommitUpdate(h), NEW i, i = req[h].invoice
    PROVE  Rewritten(i, [inv[i] EXCEPT !.dueDate = req[h].dueDate])
<1>1. i \in Ids /\ inv[i] \in Invoice /\ req[h] \in Request
  BY DEF TypeOK, Ids, CommitUpdate, Ready
<1>2. PICK row \in Invoice : row = [inv[i] EXCEPT !.dueDate = req[h].dueDate]
  BY <1>1, TypedRows DEF Request
<1>3. inv' = [inv EXCEPT ![i] = row]
  BY <1>2 DEF CommitUpdate
<1>4. Rewritten(i, row)
  BY <1>1, <1>3, TypedReplace DEF Rewritten, TypeOK
<1> QED BY <1>2, <1>4

LEMMA PaymentRow ==
    ASSUME TypeOK, NEW h \in Handlers, CommitPayment(h), NEW i, i = req[h].invoice
    PROVE  LET paid == PaidSum(i) + (IF Duplicate(req[h].charge) THEN 0 ELSE req[h].amount)
           IN  Rewritten(i, [inv[i] EXCEPT !.status = StatusFor(paid, req[h].seen.total)])
<1>1. i \in Ids /\ inv[i] \in Invoice /\ req[h] \in Request
  BY DEF TypeOK, Ids, CommitPayment, Ready
<1>2. PICK s : s = StatusFor(PaidSum(i) + (IF Duplicate(req[h].charge) THEN 0 ELSE req[h].amount),
                             req[h].seen.total)
  OBVIOUS
<1>3. s \in {"paid", "sent"}
  BY <1>2 DEF StatusFor
<1>4. PICK row \in Invoice : row = [inv[i] EXCEPT !.status = s]
  BY <1>1, <1>3, TypedRows
<1>5. inv' = [inv EXCEPT ![i] = row]
  BY <1>2, <1>4 DEF CommitPayment
<1>6. Rewritten(i, row)
  BY <1>1, <1>5, TypedReplace DEF Rewritten, TypeOK
<1> QED BY <1>2, <1>4, <1>6

LEMMA LateFeeRow ==
    ASSUME TypeOK, NEW h \in Handlers, NEW i \in Ids, ChargeLateFee(h, i)
    PROVE  \E fee \in Nat :
              /\ fee = Accrued(i)
              /\ Rewritten(i, [inv[i] EXCEPT !.total = inv[i].total + fee,
                                 !.lateFees = inv[i].lateFees + fee, !.lastAccrual = today])
<1>1. PICK fee \in Nat : fee = Accrued(i)
  BY AccruedInt DEF ChargeLateFee
<1>2. inv[i] \in Invoice
  BY DEF TypeOK, Ids
<1>3. PICK t \in Int, f \in Nat : t = inv[i].total + fee /\ f = inv[i].lateFees + fee
  BY <1>2 DEF Invoice
<1>4. PICK row : row = [inv[i] EXCEPT !.total = t, !.lateFees = f, !.lastAccrual = today]
  OBVIOUS
<1>5. row \in Invoice
  BY <1>2, <1>3, <1>4, TypedRows DEF TypeOK, Dates
<1>6. inv' = [inv EXCEPT ![i] = row]
  BY <1>1, <1>2, <1>3, <1>4 DEF ChargeLateFee, Invoice
<1>7. Rewritten(i, row)
  BY <1>5, <1>6, TypedReplace DEF Rewritten, TypeOK
<1> QED BY <1>1, <1>3, <1>4, <1>7

LEMMA TaxRow ==
    ASSUME TypeOK, NEW h \in Handlers, NEW i \in Ids, NEW x \in Taxes, RecalculateTax(h, i, x)
    PROVE  LET y == TaxOn(inv[i].subtotal, x)
           IN  Rewritten(i, [inv[i] EXCEPT !.tax = y, !.total = inv[i].subtotal + y])
<1>1. inv[i] \in Invoice
  BY DEF TypeOK, Ids
<1>2. PICK y \in Int : y = TaxOn(inv[i].subtotal, x)
  BY <1>1, InvoicesAssumption DEF TaxOn, Invoice
<1>3. PICK t \in Int : t = inv[i].subtotal + y
  BY <1>1 DEF Invoice
<1>4. PICK row \in Invoice : row = [inv[i] EXCEPT !.tax = y, !.total = t]
  BY <1>1, TypedRows
<1>5. inv' = [inv EXCEPT ![i] = row]
  BY <1>1, <1>2, <1>3, <1>4 DEF RecalculateTax, Invoice
<1>6. Rewritten(i, row)
  BY <1>5, TypedReplace DEF Rewritten, TypeOK
<1> QED BY <1>2, <1>3, <1>4, <1>6

LEMMA SendTyped == ASSUME TypeOK, NEW h \in Handlers, CommitSend(h) PROVE TypeOK'
<1>1. PICK i : i = req[h].invoice
  OBVIOUS
<1>2. PICK row : Rewritten(i, row)
  BY <1>1, SendRow
<1>3. i \in Nat /\ req[h].seen.total \in Int
  <2>1. req[h] \in Request /\ i \in Nat
    BY <1>2 DEF TypeOK, Rewritten, Ids
  <2> QED BY <2>1 DEF Request, Invoice
<1>4. ledger' \in Seq(Entry)
  <2>1. LedgerRow("invoice.locked", i, req[h].seen.total) \in Entry
    BY <1>3 DEF LedgerRow, Entry
  <2> QED BY <1>1, <2>1 DEF CommitSend, TypeOK
<1>5. outbox' \in Seq(Event)
  <2>1. [event |-> "invoice.sent", invoice |-> i, amount |-> 0] \in Event
    BY <1>3 DEF Event
  <2> QED BY <1>1, <2>1 DEF CommitSend, EnqueueEvent, TypeOK
<1>6. payments' \in Seq(Payment) /\ UNCHANGED <<charge, today, fails>> /\ Done(h)
  BY DEF CommitSend, TypeOK
<1> QED BY <1>2, <1>4, <1>5, <1>6, DoneTyped, RewriteTyped DEF Rewritten

LEMMA UpdateTyped == ASSUME TypeOK, NEW h \in Handlers, CommitUpdate(h) PROVE TypeOK'
<1>1. PICK i, row : Rewritten(i, row)
  BY UpdateRow
<1>2. /\ payments' \in Seq(Payment) /\ outbox' \in Seq(Event) /\ ledger' \in Seq(Entry)
      /\ UNCHANGED <<charge, today, fails>> /\ Done(h)
  BY DEF CommitUpdate, TypeOK
<1> QED BY <1>1, <1>2, DoneTyped, RewriteTyped DEF Rewritten

LEMMA LateFeeTyped ==
    ASSUME TypeOK, NEW h \in Handlers, NEW i \in Ids, ChargeLateFee(h, i)
    PROVE  TypeOK'
<1>1. PICK row : Rewritten(i, row)
  BY LateFeeRow
<1>2. /\ payments' \in Seq(Payment) /\ outbox' \in Seq(Event) /\ ledger' \in Seq(Entry)
      /\ UNCHANGED <<charge, today, fails>> /\ req' = req /\ req \in [Handlers -> Request]
  BY DEF ChargeLateFee, TypeOK
<1> QED BY <1>1, <1>2, RewriteTyped DEF Rewritten

LEMMA TaxTyped ==
    ASSUME TypeOK, NEW h \in Handlers, NEW i \in Ids, NEW x \in Taxes, RecalculateTax(h, i, x)
    PROVE  TypeOK'
<1>1. PICK row : Rewritten(i, row)
  BY TaxRow
<1>2. /\ payments' \in Seq(Payment) /\ outbox' \in Seq(Event) /\ ledger' \in Seq(Entry)
      /\ UNCHANGED <<charge, today, fails>> /\ req' = req /\ req \in [Handlers -> Request]
  BY DEF RecalculateTax, TypeOK
<1> QED BY <1>1, <1>2, RewriteTyped DEF Rewritten

LEMMA PaymentTyped == ASSUME TypeOK, NEW h \in Handlers, CommitPayment(h) PROVE TypeOK'
<1>1. PICK i, row : Rewritten(i, row)
  BY PaymentRow
<1>2. PICK r \in Request : r = req[h]
  BY DEF TypeOK
<1>3. PaymentOf(r) \in Payment /\ EventOf(r) \in Event
  BY DEF Request, PaymentOf, EventOf, Payment, Event
<1>4. payments' \in Seq(Payment) /\ outbox' \in Seq(Event)
  BY <1>2, <1>3 DEF CommitPayment, Recorded, Announced, TypeOK
<1>5. ledger' \in Seq(Entry) /\ UNCHANGED <<charge, today, fails>> /\ Done(h)
  BY DEF CommitPayment, TypeOK
<1> QED BY <1>1, <1>4, <1>5, DoneTyped, RewriteTyped DEF Rewritten

\* What void does to the invoices.
LEMMA VoidRows ==
    ASSUME TypeOK, NEW h \in Handlers, CommitVoid(h), NEW i, i = req[h].invoice
    PROVE  /\ i \in Ids /\ i \in Nat /\ inv' \in Seq(Invoice)
           /\ Len(inv) \in Nat /\ Len(inv') = Len(inv) + 1
           /\ Ids' = Ids \union {Len(inv) + 1} /\ Len(inv) + 1 \notin Ids
           /\ \A j \in Ids : inv'[j] = IF j = i THEN [inv[i] EXCEPT !.status = "void"] ELSE inv[j]
           /\ inv'[Len(inv) + 1] = Storno(i, req[h].seen)
<1>1. i \in Ids /\ inv[i] \in Invoice /\ req[h] \in Request /\ i \in Nat
  BY DEF TypeOK, Ids, CommitVoid, Ready
<1>2. PICK row \in Invoice : row = [inv[i] EXCEPT !.status = "void"]
  BY <1>1, TypedRows
<1>3. PICK storno \in Invoice : storno = Storno(i, req[h].seen)
  BY <1>1, TypedRows DEF Request
<1>a. PICK marked : marked = [inv EXCEPT ![i] = row]
  OBVIOUS
<1>b. inv \in Seq(Invoice)
  BY DEF TypeOK
<1>4. /\ marked \in Seq(Invoice) /\ Len(marked) = Len(inv)
      /\ \A j \in Ids : marked[j] = IF j = i THEN row ELSE inv[j]
  BY <1>a, <1>b, <1>1 DEF Ids
<1>5. inv' = Append(marked, storno)
  BY <1>a, <1>2, <1>3 DEF CommitVoid
<1>6. /\ Len(inv) \in Nat /\ Len(inv') = Len(inv) + 1 /\ inv' \in Seq(Invoice)
      /\ inv'[Len(inv) + 1] = storno /\ \A j \in 1..Len(inv) : inv'[j] = marked[j]
  BY <1>b, <1>4, <1>5
<1>7. 1..(Len(inv) + 1) = (1..Len(inv)) \union {Len(inv) + 1} /\ Len(inv) + 1 \notin 1..Len(inv)
  BY <1>6
<1> QED BY <1>1, <1>2, <1>3, <1>4, <1>6, <1>7 DEF Ids

LEMMA VoidTyped == ASSUME TypeOK, NEW h \in Handlers, CommitVoid(h) PROVE TypeOK'
<1>1. PICK i, n : i = req[h].invoice /\ n = Len(inv) + 1
  OBVIOUS
<1>a. inv' \in Seq(Invoice) /\ Ids \subseteq Ids' /\ i \in Nat /\ Len(inv) \in Nat
  BY <1>1, VoidRows
<1>2. inv' \in Seq(Invoice) /\ Ids \subseteq Ids' /\ i \in Nat /\ n \in Nat
  BY <1>1, <1>a
<1>3. req[h].seen.total \in Int
  <2>1. req[h] \in Request
    BY DEF TypeOK
  <2> QED BY <2>1 DEF Request, Invoice
<1>4. PICK e, f \in Entry : VoidEntries(i, n, req[h].seen.total) = <<e, f>>
  <2>1. -req[h].seen.total \in Int
    BY <1>3
  <2>2. /\ LedgerRow("invoice.voided", i, 0) \in Entry
        /\ LedgerRow("invoice.correction_issued", n, -req[h].seen.total) \in Entry
    BY <1>2, <2>1 DEF LedgerRow, Entry
  <2> QED BY <2>2 DEF VoidEntries
<1>5. ledger' = ledger \o <<e, f>>
  BY <1>1, <1>4 DEF CommitVoid
<1>6. ledger' \in Seq(Entry)
  BY <1>5 DEF TypeOK
<1>7. /\ payments' = payments /\ outbox' = outbox /\ charge' = charge /\ today' = today
      /\ fails' = fails /\ Done(h)
  BY DEF CommitVoid
<1>8. /\ req' \in [Handlers -> Request]
      /\ \A g \in Handlers : req'[g].op = "none" \/ req'[g] = req[g]
  BY <1>7, DoneTyped
<1> QED BY <1>2, <1>6, <1>7, <1>8, PlacesKept DEF TypeOK

\* Only a charge changes.
LEMMA ChargeTyped ==
    ASSUME TypeOK, NEW c \in Charges, NEW row \in Charge, row.invoice \in Ids,
           charge' = [charge EXCEPT ![c] = row], UNCHANGED <<rows, req, today, fails>>
    PROVE  TypeOK'
<1>1. /\ inv' = inv /\ payments' = payments /\ outbox' = outbox /\ ledger' = ledger /\ req' = req
      /\ today' = today /\ fails' = fails /\ Ids' = Ids
  BY DEF rows, Ids
<1>2. charge' \in [Charges -> Charge] /\ \A d \in Charges : charge'[d].invoice \in Ids \/ charge'[d] = charge[d]
  BY DEF TypeOK
<1> QED BY <1>1, <1>2, PlacesKept DEF TypeOK

\* Every step keeps the types.
LEMMA NextTyped == TypeOK /\ [Next]_vars => TypeOK'
<1> SUFFICES ASSUME TypeOK, [Next]_vars PROVE TypeOK'
  OBVIOUS
<1>0. NoDate \in Dates /\ MaxDay \in Dates
  BY InvoicesAssumption DEF Dates
<1>1. CASE UNCHANGED vars
  BY <1>1 DEF vars, rows, TypeOK, Ids
<1>2. ASSUME NEW s \in Subtotals, NEW x \in Taxes, GenerateFromEstimate(s, x) PROVE TypeOK'
  BY <1>2, GenerateTyped
<1>3. ASSUME NEW h \in Handlers, NEW i \in Ids, BeginSend(h, i) PROVE TypeOK'
  <2>1. inv[i] \in Invoice
    BY DEF TypeOK, Ids
  <2>a. today + Terms \in Nat
    BY InvoicesAssumption DEF TypeOK
  <2>b. inv[i].dueDate \in Dates /\ today + Terms \in Dates
    BY <2>1, <2>a DEF Invoice, Dates
  <2>2. PICK date \in Dates : date = IF inv[i].dueDate = NoDate THEN today + Terms ELSE inv[i].dueDate
    BY <2>b
  <2> QED BY <1>3, <2>2, ReadTyped DEF BeginSend
<1>4. ASSUME NEW h \in Handlers, NEW i \in Ids, BeginVoid(h, i) PROVE TypeOK'
  BY <1>0, <1>4, ReadTyped DEF BeginVoid
<1>5. ASSUME NEW h \in Handlers, NEW i \in Ids, NEW d \in {NoDate, MaxDay}, BeginUpdate(h, i, d)
      PROVE  TypeOK'
  BY <1>0, <1>5, ReadTyped DEF BeginUpdate
<1>6. ASSUME NEW h \in Handlers, NEW i \in Ids, NEW a \in Amounts, BeginPayment(h, i, a)
      PROVE  TypeOK'
  <2>1. a \in Nat
    BY InvoicesAssumption
  <2> QED BY <1>0, <1>6, <2>1, ReadTyped DEF BeginPayment
<1>7. ASSUME NEW h \in Handlers, NEW c \in Charges, BeginWebhook(h, c) PROVE TypeOK'
  <2>1. charge[c] \in Charge /\ charge[c].state = "paid" /\ charge[c].invoice \in Ids
    BY <1>7 DEF BeginWebhook, Settled, TypeOK
  <2>2. charge[c].amount \in Nat
    BY <2>1 DEF Charge
  <2>3. /\ req' = [req EXCEPT ![h] = Reading("pay", charge[c].invoice, c, charge[c].amount, NoDate)]
        /\ UNCHANGED <<rows, charge, today, fails>>
    BY <1>7 DEF BeginWebhook
  <2> QED BY <1>0, <2>1, <2>2, <2>3, ReadTyped
<1>8. ASSUME NEW h \in Handlers, Done(h), UNCHANGED <<rows, charge, today>>, fails' \in Nat
      PROVE  TypeOK'
  <2>1. /\ inv' = inv /\ payments' = payments /\ outbox' = outbox /\ ledger' = ledger
        /\ charge' = charge /\ today' = today /\ Ids' = Ids
    BY <1>8 DEF rows, Ids
  <2>2. /\ req' \in [Handlers -> Request]
        /\ \A g \in Handlers : req'[g].op = "none" \/ req'[g] = req[g]
    BY <1>8, DoneTyped
  <2> QED BY <1>8, <2>1, <2>2, PlacesKept DEF TypeOK
<1>9. ASSUME NEW h \in Handlers, Commit(h) PROVE TypeOK'
  <2>1. CASE VoidRejected(h)
    BY <1>8, <2>1 DEF VoidRejected, TypeOK
  <2> QED
    BY <1>9, <2>1, SendTyped, UpdateTyped, VoidTyped, PaymentTyped DEF Commit
<1>10. ASSUME NEW h \in Handlers, Fail(h) PROVE TypeOK'
  BY <1>8, <1>10 DEF Fail, TypeOK
<1>11. ASSUME NEW h \in Handlers, NEW i \in Ids, ChargeLateFee(h, i) PROVE TypeOK'
  BY <1>11, LateFeeTyped
<1>12. ASSUME NEW h \in Handlers, NEW i \in Ids, NEW x \in Taxes, RecalculateTax(h, i, x) PROVE TypeOK'
  BY <1>12, TaxTyped
<1>13. ASSUME NEW h \in Handlers, NEW c \in Charges, NEW i \in Ids, NEW a \in Amounts,
              CreateCheckout(h, c, i, a)
       PROVE  TypeOK'
  <2>1. inv[i] \in Invoice /\ PaidSum(i) \in Nat
    BY PaidNat DEF TypeOK, Ids
  <2>2. Balance(i) \in Int /\ Balance(i) > 0
    BY <1>13, <2>1 DEF Balance, Invoice, CreateCheckout
  <2>3. PICK amount \in Nat : amount = IF a < Balance(i) THEN a ELSE Balance(i)
    BY <2>2, InvoicesAssumption
  <2>4. PICK row : row = [state |-> "open", invoice |-> i, amount |-> amount]
    OBVIOUS
  <2>5. row \in Charge /\ row.invoice \in Ids
    BY <2>4 DEF Charge, Ids
  <2>6. charge' = [charge EXCEPT ![c] = row] /\ UNCHANGED <<rows, req, today, fails>>
    BY <1>13, <2>3, <2>4 DEF CreateCheckout
  <2> QED BY <2>5, <2>6, ChargeTyped
<1>14. ASSUME NEW c \in Charges, ClientPays(c) PROVE TypeOK'
  <2>1. PICK t \in {"processing", "paid", "failed"} : charge' = [charge EXCEPT ![c].state = t]
    BY <1>14 DEF ClientPays
  <2>2. charge[c] \in Charge /\ charge[c].invoice \in Ids
    BY <1>14 DEF ClientPays, TypeOK
  <2>3. PICK row : row = [charge[c] EXCEPT !.state = t]
    OBVIOUS
  <2>4. row \in Charge /\ row.invoice = charge[c].invoice
    BY <2>2, <2>3 DEF Charge
  <2>5. charge' = [charge EXCEPT ![c] = row] /\ UNCHANGED <<rows, req, today, fails>>
    BY <1>14, <2>1, <2>3 DEF ClientPays
  <2> QED BY <2>2, <2>4, <2>5, ChargeTyped
<1>15. CASE DayPasses
  BY <1>15 DEF DayPasses, rows, TypeOK, Ids
<1> QED
  BY <1>1, <1>2, <1>3, <1>4, <1>5, <1>6, <1>7, <1>9, <1>10, <1>11, <1>12, <1>13, <1>14, <1>15
     DEF Next

LEMMA InitTyped == Init => TypeOK
<1> SUFFICES ASSUME Init PROVE TypeOK
  OBVIOUS
<1>1. req \in [Handlers -> Request] /\ \A h \in Handlers : req[h].op = "none"
  BY IdleTyped DEF Init
<1>2. charge \in [Charges -> Charge] /\ \A c \in Charges : charge[c].state = "none"
  BY DEF Init, Charge
<1> QED BY <1>1, <1>2 DEF Init, TypeOK

\* Amounts, dates and references stay well formed however requests interleave:
\* totals and fees are whole amounts, and handlers and charges are at invoices
\* that exist (invoices.service.ts, billing.service.ts).
THEOREM TypeCorrect == Spec => []TypeOK
BY InitTyped, NextTyped, PTL DEF Spec

-----------------------------------------------------------------------------
(***************************************************************************)
(* What a step does to the invoices and to the handlers.                   *)
(***************************************************************************)
LEMMA StepsOfInvoices ==
    ASSUME [Next]_vars
    PROVE  \/ UNCHANGED inv
           \/ \E s \in Subtotals, x \in Taxes : GenerateFromEstimate(s, x)
           \/ \E h \in Handlers : \/ CommitSend(h) \/ CommitUpdate(h)
                                  \/ CommitVoid(h) \/ CommitPayment(h)
           \/ \E h \in Handlers, i \in Ids : ChargeLateFee(h, i)
           \/ \E h \in Handlers, i \in Ids, x \in Taxes : RecalculateTax(h, i, x)
<1>1. CASE UNCHANGED vars
  BY <1>1 DEF vars, rows
<1>2. CASE Next
  <2>1. ASSUME NEW h \in Handlers
        PROVE  /\ \A i : BeginSend(h, i) \/ BeginVoid(h, i) => UNCHANGED inv
               /\ \A i, d : BeginUpdate(h, i, d) \/ BeginPayment(h, i, d) => UNCHANGED inv
               /\ \A c, i, a : CreateCheckout(h, c, i, a) => UNCHANGED inv
               /\ \A c : BeginWebhook(h, c) => UNCHANGED inv
               /\ Fail(h) \/ VoidRejected(h) => UNCHANGED inv
    BY DEF BeginSend, BeginVoid, BeginUpdate, BeginPayment, CreateCheckout, BeginWebhook, Fail,
           VoidRejected, rows
  <2>2. DayPasses \/ (\E c \in Charges : ClientPays(c)) => UNCHANGED inv
    BY DEF DayPasses, ClientPays, rows
  <2> QED BY <1>2, <2>1, <2>2 DEF Next, Commit
<1> QED BY <1>1, <1>2

\* Handler h has read invoice i, and the checks of its operation held.
JustRead(h) ==
    LET r == req'[h]
    IN  /\ UNCHANGED rows
        /\ req[h].op = "none"
        /\ r.invoice \in Ids /\ r.seen = inv[r.invoice]
        /\ r.op \in {"send", "update", "void", "pay"}
        /\ r.op = "send" => r.seen.status = "draft"
        /\ r.op = "update" => ~r.seen.locked
        /\ r.op = "void" => r.seen.locked /\ r.seen.status # "void"
        /\ r.op = "pay" => r.seen.status \notin {"draft", "void"}

LEMMA ReadingIs ==
    ASSUME TypeOK, NEW h \in Handlers, NEW op \in {"send", "update", "void", "pay"}, NEW i \in Ids,
           NEW c, NEW a, NEW d, req[h].op = "none", UNCHANGED rows,
           req' = [req EXCEPT ![h] = Reading(op, i, c, a, d)],
           op = "send" => inv[i].status = "draft",
           op = "update" => ~inv[i].locked,
           op = "void" => inv[i].locked /\ inv[i].status # "void",
           op = "pay" => inv[i].status \notin {"draft", "void"},
           NEW g \in Handlers
    PROVE  req'[g] = req[g] \/ JustRead(g)
<1>1. CASE g # h
  BY <1>1 DEF TypeOK
<1>2. CASE g = h
  <2>1. req'[g] = Reading(op, i, c, a, d)
    BY <1>2 DEF TypeOK
  <2>2. req'[g].op = op /\ req'[g].invoice = i /\ req'[g].seen = inv[i]
    BY <2>1 DEF Reading
  <2> QED BY <1>2, <2>2 DEF JustRead
<1> QED BY <1>1, <1>2

\* A handler goes on as it was, ends, or has just read.
LEMMA StepsOfHandlers ==
    ASSUME TypeOK, [Next]_vars, NEW g \in Handlers
    PROVE  req'[g] = req[g] \/ req'[g].op = "none" \/ JustRead(g)
<1>1. CASE UNCHANGED vars
  BY <1>1 DEF vars
<1>2. CASE UNCHANGED req
  BY <1>2
<1>3. ASSUME NEW h \in Handlers, Done(h) PROVE req'[g] = req[g] \/ req'[g].op = "none"
  BY <1>3, DoneTyped
<1>4. ASSUME NEW h \in Handlers, NEW i \in Ids, BeginSend(h, i) PROVE req'[g] = req[g] \/ JustRead(g)
  <2>1. PICK d : req' = [req EXCEPT ![h] = Reading("send", i, NoCharge, 0, d)]
    BY <1>4 DEF BeginSend
  <2>2. inv[i].status = "draft" /\ req[h].op = "none" /\ UNCHANGED rows
    BY <1>4 DEF BeginSend, Start, Sendable
  <2> QED BY <2>1, <2>2, ReadingIs
<1>5. ASSUME NEW h \in Handlers, NEW i \in Ids, BeginVoid(h, i) PROVE req'[g] = req[g] \/ JustRead(g)
  <2>1. /\ inv[i].locked /\ inv[i].status # "void" /\ req[h].op = "none" /\ UNCHANGED rows
        /\ req' = [req EXCEPT ![h] = Reading("void", i, NoCharge, 0, NoDate)]
    BY <1>5 DEF BeginVoid, Start
  <2> QED BY <2>1, ReadingIs
<1>6. ASSUME NEW h \in Handlers, NEW i \in Ids, NEW d, BeginUpdate(h, i, d)
      PROVE  req'[g] = req[g] \/ JustRead(g)
  <2>1. /\ ~inv[i].locked /\ req[h].op = "none" /\ UNCHANGED rows
        /\ req' = [req EXCEPT ![h] = Reading("update", i, NoCharge, 0, d)]
    BY <1>6 DEF BeginUpdate, Start
  <2> QED BY <2>1, ReadingIs
<1>7. ASSUME NEW h \in Handlers, NEW i \in Ids, NEW a, BeginPayment(h, i, a)
      PROVE  req'[g] = req[g] \/ JustRead(g)
  <2>1. /\ inv[i].status \notin {"draft", "void"} /\ req[h].op = "none" /\ UNCHANGED rows
        /\ req' = [req EXCEPT ![h] = Reading("pay", i, NoCharge, a, NoDate)]
    BY <1>7 DEF BeginPayment, Start, Payable
  <2> QED BY <2>1, ReadingIs
<1>8. ASSUME NEW h \in Handlers, NEW c \in Charges, BeginWebhook(h, c)
      PROVE  req'[g] = req[g] \/ JustRead(g)
  <2>1. PICK i : i = charge[c].invoice
    OBVIOUS
  <2>2. i \in Ids
    BY <1>8, <2>1 DEF BeginWebhook, Settled, TypeOK
  <2>3. req' = [req EXCEPT ![h] = Reading("pay", i, c, charge[c].amount, NoDate)]
    BY <1>8, <2>1 DEF BeginWebhook
  <2>4. inv[i].status \notin {"draft", "void"} /\ req[h].op = "none" /\ UNCHANGED rows
    BY <1>8, <2>1 DEF BeginWebhook, Payable
  <2> QED BY <2>2, <2>3, <2>4, ReadingIs
<1>9. ASSUME NEW h \in Handlers, Commit(h) \/ Fail(h) PROVE Done(h)
  BY <1>9 DEF Commit, CommitSend, CommitUpdate, CommitVoid, VoidRejected, CommitPayment, Fail
<1>10. CASE Next
  <2>1. \A s, x : GenerateFromEstimate(s, x) => UNCHANGED req
    BY DEF GenerateFromEstimate
  <2>2. /\ \A h, i : ChargeLateFee(h, i) => UNCHANGED req
        /\ \A h, i, x : RecalculateTax(h, i, x) => UNCHANGED req
        /\ \A h, c, i, a : CreateCheckout(h, c, i, a) => UNCHANGED req
    BY DEF ChargeLateFee, RecalculateTax, CreateCheckout
  <2>3. DayPasses \/ (\E c \in Charges : ClientPays(c)) => UNCHANGED req
    BY DEF DayPasses, ClientPays
  <2> QED BY <1>2, <1>3, <1>4, <1>5, <1>6, <1>7, <1>8, <1>9, <1>10, <2>1, <2>2, <2>3 DEF Next
<1> QED BY <1>1, <1>10

-----------------------------------------------------------------------------
(***************************************************************************)
(* Late fees, however requests interleave.                                 *)
(***************************************************************************)

\* There is a largest subtotal and a largest tax.
Bounded ==
    /\ \E s \in Subtotals : \A t \in Subtotals : t <= s
    /\ \E x \in Taxes : \A y \in Taxes : y <= x

Principal == Max(Subtotals) + Max(Taxes)

\* A Storno is locked and is never due; the principal of any other invoice is what
\* it bills; and the fees are at most one for each day up to the last charge.
FeeRow(row) ==
    /\ row.corrects # 0 => row.locked /\ row.dueDate = NoDate
    /\ row.corrects = 0 => row.subtotal \in Subtotals /\ row.total - row.lateFees <= Principal
    /\ row.lateFees <= IF row.lastAccrual = NoDate THEN 0
                       ELSE Principal * LateFeeRate * row.lastAccrual

FeeRows == \A j \in Ids : FeeRow(inv[j])

\* No handler is about to send or to date a Storno.
OriginalsEdited ==
    \A h \in Handlers : req[h].op \in {"send", "update"} => inv[req[h].invoice].corrects = 0

FeeInv == IInv /\ TypeOK /\ FeeRows /\ OriginalsEdited

LEMMA MaxIs ==
    ASSUME NEW S \in SUBSET Nat, \E s \in S : \A t \in S : t <= s
    PROVE  Max(S) \in S /\ \A t \in S : t <= Max(S)
<1>1. \E s \in S : \A t \in S : s >= t
  OBVIOUS
<1>2. Max(S) \in S /\ \A t \in S : Max(S) >= t
  BY <1>1 DEF Max
<1> QED BY <1>2

LEMMA PrincipalIs ==
    ASSUME Bounded
    PROVE  Principal \in Nat /\ \A s \in Subtotals, x \in Taxes : s + x <= Principal
<1>1. /\ Max(Subtotals) \in Subtotals /\ \A s \in Subtotals : s <= Max(Subtotals)
      /\ Max(Taxes) \in Taxes /\ \A x \in Taxes : x <= Max(Taxes)
  BY MaxIs, InvoicesAssumption DEF Bounded
<1>2. PICK a, b \in Nat : a = Max(Subtotals) /\ b = Max(Taxes)
  BY <1>1, InvoicesAssumption
<1>3. \A s \in Subtotals, x \in Taxes : s \in Nat /\ x \in Nat /\ s <= a /\ x <= b
  BY <1>1, <1>2, InvoicesAssumption
<1> QED BY <1>2, <1>3 DEF Principal

\* The fee for the days since the last charge, on top of those for the days before.
LEMMA FeeForDays ==
    ASSUME NEW P \in Nat, NEW R \in Nat, NEW a \in Nat, NEW f \in Nat, NEW start \in Nat,
           NEW now \in Nat, a <= P, start < now, f <= P * R * start
    PROVE  f + a * (now - start) * R <= P * R * now
<1>1. PICK d \in Nat : d = now - start
  OBVIOUS
<1>2. \A x, y, z \in Nat : x <= y => x * z <= y * z
  OBVIOUS
<1>3. \A x, y \in Nat : x * y \in Nat
  OBVIOUS
<1>4. PICK q \in Nat : q = P * R
  BY <1>3
<1>5. a * d \in Nat /\ P * d \in Nat /\ a * d <= P * d
  BY <1>2, <1>3
<1>6. a * d * R \in Nat /\ P * d * R \in Nat /\ a * d * R <= P * d * R
  BY <1>2, <1>3, <1>5
<1>7. P * d * R = q * d
  BY <1>4
<1>8. now = start + d
  BY <1>1
<1>9. q * now = q * start + q * d
  BY <1>8
<1>10. q * start \in Nat /\ q * d \in Nat
  BY <1>3
<1>11. f + a * d * R <= q * now
  BY <1>4, <1>6, <1>7, <1>9, <1>10
<1> QED BY <1>1, <1>4, <1>11

\* The rows that the actions write keep to it.
LEMMA FeeRowsWritten ==
    ASSUME Bounded, NEW row \in Invoice, FeeRow(row)
    PROVE  /\ \A s : FeeRow([row EXCEPT !.status = s])
           /\ row.corrects = 0 =>
                 \A d : FeeRow(Sent(row, d)) /\ FeeRow([row EXCEPT !.dueDate = d])
           /\ \A i \in Nat : i # 0 => FeeRow(Storno(i, row))
           /\ \A x \in Taxes : LET y == TaxOn(row.subtotal, x)
                               IN  FeeRow([row EXCEPT !.tax = y, !.total = row.subtotal + y])
<1>1. \A s : FeeRow([row EXCEPT !.status = s])
  BY DEF FeeRow, Invoice
<1>2. row.corrects = 0 => \A d : FeeRow(Sent(row, d)) /\ FeeRow([row EXCEPT !.dueDate = d])
  BY DEF FeeRow, Invoice, Sent
<1>3. \A i \in Nat : i # 0 => FeeRow(Storno(i, row))
  BY DEF FeeRow, Storno
<1>4. ASSUME NEW x \in Taxes
      PROVE  LET y == TaxOn(row.subtotal, x)
             IN  FeeRow([row EXCEPT !.tax = y, !.total = row.subtotal + y])
  <2>1. PICK y, t : y = TaxOn(row.subtotal, x) /\ t = row.subtotal + y
    OBVIOUS
  <2>2. PICK new : new = [row EXCEPT !.tax = y, !.total = t]
    OBVIOUS
  <2>3. /\ new.corrects = row.corrects /\ new.locked = row.locked /\ new.dueDate = row.dueDate
        /\ new.lateFees = row.lateFees /\ new.lastAccrual = row.lastAccrual
        /\ new.subtotal = row.subtotal /\ new.total = t
    BY <2>2 DEF Invoice
  <2>4. ASSUME row.corrects = 0 PROVE t - row.lateFees <= Principal
    <3>1. row.subtotal \in Subtotals /\ row.subtotal \in Nat /\ x \in Nat /\ row.lateFees \in Nat
      BY <2>4, InvoicesAssumption DEF FeeRow, Invoice
    <3>2. t = row.subtotal + x
      BY <2>1, <3>1 DEF TaxOn
    <3>3. row.subtotal + x <= Principal /\ Principal \in Nat
      BY <3>1, PrincipalIs
    <3> QED BY <3>1, <3>2, <3>3
  <2>5. FeeRow(new)
    BY <2>3, <2>4 DEF FeeRow
  <2> QED BY <2>1, <2>2, <2>5
<1> QED BY <1>1, <1>2, <1>3, <1>4

\* A charge of late fees keeps to it: only days since the last one count.
LEMMA FeeRowCharged ==
    ASSUME Bounded, TypeOK, NEW i \in Ids, FeeRow(inv[i]), NEW fee \in Nat, fee = Accrued(i), fee > 0
    PROVE  FeeRow([inv[i] EXCEPT !.total = inv[i].total + fee,
                                 !.lateFees = inv[i].lateFees + fee, !.lastAccrual = today])
<1>1. PICK row \in Invoice : row = inv[i]
  BY DEF TypeOK, Ids
<1>2. PICK start : start = IF row.lastAccrual = NoDate THEN row.dueDate ELSE row.lastAccrual
  OBVIOUS
<1>3. PICK paid \in Nat : paid = PaidSum(i)
  BY PaidNat DEF TypeOK
<1>4. row.status = "sent" /\ row.dueDate # NoDate
      /\ fee = LateFee(row.total - row.lateFees - paid, today - start)
  BY <1>1, <1>2, <1>3 DEF Accrued
<1>5. row.total \in Int /\ row.lateFees \in Nat /\ row.dueDate \in Nat /\ start \in Nat /\ today \in Nat
  BY <1>1, <1>2, <1>4 DEF Invoice, Dates, TypeOK
<1>6. PICK a, d \in Int : a = row.total - row.lateFees - paid /\ d = today - start
  BY <1>5
<1>7. a > 0 /\ d > 0 /\ fee = a * d * LateFeeRate
  BY <1>4, <1>6 DEF LateFee
<1>8. row.corrects = 0 /\ row.subtotal \in Subtotals /\ row.total - row.lateFees <= Principal
  BY <1>1, <1>4 DEF FeeRow, Invoice
<1>9. Principal \in Nat /\ LateFeeRate \in Nat
  BY PrincipalIs, InvoicesAssumption
<1>10. a <= Principal /\ a \in Nat /\ start < today
  BY <1>5, <1>6, <1>7, <1>8, <1>9
<1>11. row.lateFees <= Principal * LateFeeRate * start
  <2>1. CASE row.lastAccrual = NoDate
    <3>1. row.lateFees = 0
      BY <1>1, <1>5, <2>1 DEF FeeRow
    <3>2. \A x, y, z \in Nat : x * y * z \in Nat
      <4>1. \A x, y \in Nat : x * y \in Nat
        OBVIOUS
      <4> QED BY <4>1
    <3>3. Principal * LateFeeRate * start \in Nat
      BY <1>5, <1>9, <3>2
    <3> QED BY <3>1, <3>3
  <2>2. CASE row.lastAccrual # NoDate
    BY <1>1, <1>2, <2>2 DEF FeeRow
  <2> QED BY <2>1, <2>2
<1>12. row.lateFees + a * (today - start) * LateFeeRate <= Principal * LateFeeRate * today
  BY <1>5, <1>9, <1>10, <1>11, FeeForDays
<1>13. row.lateFees + fee <= Principal * LateFeeRate * today
  BY <1>6, <1>7, <1>12
<1>14. PICK t \in Int, f \in Nat : t = row.total + fee /\ f = row.lateFees + fee
  BY <1>5
<1>15. PICK new : new = [row EXCEPT !.total = t, !.lateFees = f, !.lastAccrual = today]
  OBVIOUS
<1>16. /\ new.corrects = row.corrects /\ new.subtotal = row.subtotal /\ new.total = t
       /\ new.lateFees = f /\ new.lastAccrual = today
  BY <1>15 DEF Invoice
<1>17. t - f = row.total - row.lateFees /\ today # NoDate
  BY <1>5, <1>14 DEF NoDate
<1>18. FeeRow(new)
  BY <1>8, <1>13, <1>14, <1>16, <1>17 DEF FeeRow
<1> QED BY <1>1, <1>14, <1>15, <1>18

\* No step turns a Storno into anything else.
CorrectsKept == Ids \subseteq Ids' /\ \A j \in Ids : inv'[j].corrects = inv[j].corrects

LEMMA FeeRewrite ==
    ASSUME FeeRows, NEW i, NEW row, Rewritten(i, row), FeeRow(row), row.corrects = inv[i].corrects
    PROVE  FeeRows' /\ CorrectsKept
<1>1. i \in Ids /\ Ids' = Ids /\ \A j \in Ids : inv'[j] = IF j = i THEN row ELSE inv[j]
  BY DEF Rewritten
<1>2. \A j \in Ids' : FeeRow(inv'[j])
  BY <1>1 DEF FeeRows
<1>3. FeeRows'
  BY <1>2 DEF FeeRows, FeeRow
<1> QED BY <1>1, <1>3 DEF CorrectsKept

LEMMA FeeRowsStep ==
    ASSUME Bounded, TypeOK, FeeRows, OriginalsEdited, [Next]_vars
    PROVE  FeeRows' /\ CorrectsKept
<1>0. /\ \A j \in Ids : inv[j] \in Invoice /\ FeeRow(inv[j]) /\ j \in Nat /\ j # 0
      /\ \A h \in Handlers : req[h] \in Request
  BY DEF TypeOK, Ids, FeeRows
<1>1. CASE UNCHANGED inv
  BY <1>1 DEF FeeRows, FeeRow, CorrectsKept, Ids
<1>2. ASSUME NEW s \in Subtotals, NEW x \in Taxes, GenerateFromEstimate(s, x)
      PROVE  FeeRows' /\ CorrectsKept
  <2>1. PICK row \in Invoice : row = Draft(s, x)
    BY DraftTyped, InvoicesAssumption
  <2>2. /\ Ids' = Ids \union {Len(inv) + 1} /\ \A j \in Ids : inv'[j] = inv[j]
        /\ inv'[Len(inv) + 1] = row
    BY <1>2, <2>1, TypedAppend DEF GenerateFromEstimate, TypeOK
  <2>3. FeeRow(row)
    <3>1. s \in Nat /\ x \in Nat /\ s + x <= Principal /\ Principal \in Nat
      BY PrincipalIs, InvoicesAssumption
    <3>2. /\ row.corrects = 0 /\ row.subtotal = s /\ row.total = s + x /\ row.lateFees = 0
          /\ row.lastAccrual = NoDate
      BY <2>1 DEF Draft
    <3>3. row.total - row.lateFees <= Principal
      BY <3>1, <3>2
    <3>4. row.lateFees <= 0
      BY <3>2
    <3> QED BY <3>2, <3>3, <3>4 DEF FeeRow
  <2>4. \A j \in Ids' : FeeRow(inv'[j])
    BY <1>0, <2>2, <2>3
  <2>5. FeeRows'
    BY <2>4 DEF FeeRows, FeeRow
  <2> QED BY <2>2, <2>5 DEF CorrectsKept
<1>3. ASSUME NEW h \in Handlers, CommitSend(h) PROVE FeeRows' /\ CorrectsKept
  <2>1. PICK i, row : i = req[h].invoice /\ row = Sent(inv[i], req[h].dueDate)
    OBVIOUS
  <2>2. Rewritten(i, row)
    BY <1>3, <2>1, SendRow
  <2>3. inv[i] \in Invoice /\ inv[i].corrects = 0 /\ FeeRow(inv[i])
    BY <1>0, <1>3, <2>1, <2>2 DEF OriginalsEdited, CommitSend, Ready, Rewritten
  <2>4. FeeRow(row)
    BY <2>1, <2>3, FeeRowsWritten
  <2>5. row.corrects = inv[i].corrects
    BY <2>1, <2>3 DEF Sent, Invoice
  <2> QED BY <2>2, <2>4, <2>5, FeeRewrite
<1>4. ASSUME NEW h \in Handlers, CommitUpdate(h) PROVE FeeRows' /\ CorrectsKept
  <2>1. PICK i, row : i = req[h].invoice /\ row = [inv[i] EXCEPT !.dueDate = req[h].dueDate]
    OBVIOUS
  <2>2. Rewritten(i, row)
    BY <1>4, <2>1, UpdateRow
  <2>3. inv[i] \in Invoice /\ inv[i].corrects = 0 /\ FeeRow(inv[i])
    BY <1>0, <1>4, <2>1, <2>2 DEF OriginalsEdited, CommitUpdate, Ready, Rewritten
  <2>4. FeeRow(row)
    BY <2>1, <2>3, FeeRowsWritten
  <2>5. row.corrects = inv[i].corrects
    BY <2>1, <2>3 DEF Invoice
  <2> QED BY <2>2, <2>4, <2>5, FeeRewrite
<1>5. ASSUME NEW h \in Handlers, CommitPayment(h) PROVE FeeRows' /\ CorrectsKept
  <2>1. PICK i, s, row : /\ i = req[h].invoice /\ row = [inv[i] EXCEPT !.status = s]
                         /\ Rewritten(i, row)
    BY <1>5, PaymentRow
  <2>2. inv[i] \in Invoice /\ FeeRow(inv[i])
    BY <1>0, <2>1 DEF Rewritten
  <2>3. FeeRow(row)
    BY <2>1, <2>2, FeeRowsWritten
  <2>4. row.corrects = inv[i].corrects
    BY <2>1, <2>2 DEF Invoice
  <2> QED BY <2>1, <2>3, <2>4, FeeRewrite
<1>6. ASSUME NEW h \in Handlers, CommitVoid(h) PROVE FeeRows' /\ CorrectsKept
  <2>1. PICK i, row, storno : /\ i = req[h].invoice /\ row = [inv[i] EXCEPT !.status = "void"]
                              /\ storno = Storno(i, req[h].seen)
    OBVIOUS
  <2>2. /\ i \in Ids /\ Ids' = Ids \union {Len(inv) + 1}
        /\ \A j \in Ids : inv'[j] = IF j = i THEN row ELSE inv[j]
        /\ inv'[Len(inv) + 1] = storno
    BY <1>6, <2>1, VoidRows
  <2>3. FeeRow(row) /\ row.corrects = inv[i].corrects
    BY <1>0, <2>1, <2>2, FeeRowsWritten DEF Invoice
  <2>4. FeeRow(storno)
    BY <1>0, <2>1, <2>2 DEF FeeRow, Storno
  <2>5. \A j \in Ids' : FeeRow(inv'[j])
    BY <1>0, <2>2, <2>3, <2>4
  <2>6. FeeRows'
    BY <2>5 DEF FeeRows, FeeRow
  <2> QED BY <2>2, <2>3, <2>6 DEF CorrectsKept
<1>7. ASSUME NEW h \in Handlers, NEW i \in Ids, ChargeLateFee(h, i) PROVE FeeRows' /\ CorrectsKept
  <2>1. PICK fee \in Nat :
          /\ fee = Accrued(i)
          /\ Rewritten(i, [inv[i] EXCEPT !.total = inv[i].total + fee,
                             !.lateFees = inv[i].lateFees + fee, !.lastAccrual = today])
    BY <1>7, LateFeeRow
  <2>2. PICK row : row = [inv[i] EXCEPT !.total = inv[i].total + fee,
                             !.lateFees = inv[i].lateFees + fee, !.lastAccrual = today]
    OBVIOUS
  <2>3. fee > 0
    BY <1>7, <2>1 DEF ChargeLateFee
  <2>4. FeeRow(row)
    BY <1>0, <2>1, <2>2, <2>3, FeeRowCharged
  <2>5. row.corrects = inv[i].corrects
    BY <1>0, <2>2 DEF Invoice
  <2> QED BY <2>1, <2>2, <2>4, <2>5, FeeRewrite
<1>8. ASSUME NEW h \in Handlers, NEW i \in Ids, NEW x \in Taxes, RecalculateTax(h, i, x)
      PROVE  FeeRows' /\ CorrectsKept
  <2>1. PICK y, row : /\ y = TaxOn(inv[i].subtotal, x)
                      /\ row = [inv[i] EXCEPT !.tax = y, !.total = inv[i].subtotal + y]
    OBVIOUS
  <2>2. Rewritten(i, row)
    BY <1>8, <2>1, TaxRow
  <2>3. FeeRow(row)
    BY <1>0, <2>1, FeeRowsWritten
  <2>4. row.corrects = inv[i].corrects
    BY <1>0, <2>1 DEF Invoice
  <2> QED BY <2>2, <2>3, <2>4, FeeRewrite
<1> QED BY <1>1, <1>2, <1>3, <1>4, <1>5, <1>6, <1>7, <1>8, StepsOfInvoices

LEMMA NextFee == ASSUME Bounded PROVE FeeInv /\ [Next]_vars => FeeInv'
<1> SUFFICES ASSUME FeeInv, [Next]_vars PROVE FeeInv'
  OBVIOUS
<1>1. TypeOK /\ FeeRows /\ OriginalsEdited /\ DraftIffUnlocked
  BY DEF FeeInv, IInv, Standing
<1>2. IInv' /\ TypeOK' /\ FeeRows' /\ CorrectsKept
  BY <1>1, NextIInv, NextTyped, FeeRowsStep DEF FeeInv
<1>3. OriginalsEdited'
  <2> SUFFICES ASSUME NEW h \in Handlers, req'[h].op \in {"send", "update"}
               PROVE  inv'[req'[h].invoice].corrects = 0
    BY DEF OriginalsEdited
  <2>1. CASE req'[h] = req[h]
    BY <1>1, <1>2, <2>1 DEF OriginalsEdited, CorrectsKept, TypeOK
  <2>2. CASE JustRead(h)
    <3>1. PICK i : i = req'[h].invoice
      OBVIOUS
    <3>2. i \in Ids /\ ~inv[i].locked
      BY <1>1, <2>2, <3>1 DEF JustRead, DraftIffUnlocked
    <3>3. inv[i].corrects = 0
      BY <1>1, <3>2 DEF FeeRows, FeeRow
    <3> QED BY <1>2, <3>1, <3>2, <3>3 DEF CorrectsKept
  <2> QED BY <1>1, <2>1, <2>2, StepsOfHandlers
<1> QED BY <1>2, <1>3 DEF FeeInv

\* chargeLateFee never bills a day twice, whatever is paid, updated, sent, voided
\* or taxed anew in between and in whichever order handlers write: all the fees
\* of an invoice are at most one on the largest principal for each day.
THEOREM NoDayChargedTwice == ASSUME Bounded PROVE Spec => []FeeOncePerDay
<1>1. Init => FeeInv
  <2> SUFFICES ASSUME Init PROVE FeeInv
    OBVIOUS
  <2>1. IInv /\ TypeOK
    BY InitIInv, InitTyped
  <2>2. Ids = {} /\ \A h \in Handlers : req[h].op = "none"
    BY IdleTyped DEF Init, Ids
  <2> QED BY <2>1, <2>2 DEF FeeInv, FeeRows, OriginalsEdited
<1>2. FeeInv => FeeOncePerDay
  BY DEF FeeInv, FeeRows, FeeRow, FeeOncePerDay, Principal
<1> QED BY <1>1, <1>2, NextFee, PTL DEF Spec

-----------------------------------------------------------------------------
(***************************************************************************)
(* An event for every payment, however requests interleave.                *)
(***************************************************************************)

\* Payments and events are written by send and recordPayment only.
LEMMA StepsOfPayments ==
    ASSUME [Next]_vars
    PROVE  \/ UNCHANGED <<payments, outbox>>
           \/ \E h \in Handlers : CommitSend(h) \/ CommitPayment(h)
<1>1. CASE UNCHANGED vars
  BY <1>1 DEF vars, rows
<1>2. CASE Next
  <2>1. ASSUME NEW h \in Handlers
        PROVE  /\ \A i : BeginSend(h, i) \/ BeginVoid(h, i) \/ ChargeLateFee(h, i)
                            => UNCHANGED <<payments, outbox>>
               /\ \A i, d : BeginUpdate(h, i, d) \/ BeginPayment(h, i, d) \/ RecalculateTax(h, i, d)
                            => UNCHANGED <<payments, outbox>>
               /\ \A c, i, a : CreateCheckout(h, c, i, a) => UNCHANGED <<payments, outbox>>
               /\ \A c : BeginWebhook(h, c) => UNCHANGED <<payments, outbox>>
               /\ Fail(h) \/ VoidRejected(h) \/ CommitUpdate(h) \/ CommitVoid(h)
                            => UNCHANGED <<payments, outbox>>
    BY DEF BeginSend, BeginVoid, BeginUpdate, BeginPayment, CreateCheckout, BeginWebhook, Fail,
           VoidRejected, ChargeLateFee, RecalculateTax, CommitUpdate, CommitVoid, rows
  <2>2. /\ DayPasses \/ (\E c \in Charges : ClientPays(c)) => UNCHANGED <<payments, outbox>>
        /\ \A s, x : GenerateFromEstimate(s, x) => UNCHANGED <<payments, outbox>>
    BY DEF DayPasses, ClientPays, GenerateFromEstimate, rows
  <2> QED BY <1>2, <2>1, <2>2 DEF Next, Commit
<1> QED BY <1>1, <1>2

\* The positions of events up to m.
Upto(m) == {l \in Announcements : l <= m}

LEMMA AnnouncementsFinite ==
    ASSUME outbox \in Seq(Event)
    PROVE  /\ IsFiniteSet(Announcements) /\ Cardinality(Announcements) \in Nat
           /\ \A m : /\ IsFiniteSet(Upto(m)) /\ Cardinality(Upto(m)) \in Nat
                     /\ Cardinality(Upto(m)) <= Cardinality(Announcements)
                     /\ m \in Upto(m) => Cardinality(Upto(m)) >= 1
<1>1. IsFiniteSet(1..Len(outbox))
  BY 1 \in Int, Len(outbox) \in Int, FS_Interval
<1>2. IsFiniteSet(Announcements)
  <2>1. Announcements \subseteq 1..Len(outbox)
    BY DEF Announcements
  <2> QED BY <1>1, <2>1, FS_Subset
<1>3. ASSUME NEW m
      PROVE  /\ IsFiniteSet(Upto(m)) /\ Cardinality(Upto(m)) \in Nat
             /\ Cardinality(Upto(m)) <= Cardinality(Announcements)
             /\ m \in Upto(m) => Cardinality(Upto(m)) >= 1
  <2>1. Upto(m) \subseteq Announcements
    BY DEF Upto
  <2>2. IsFiniteSet(Upto(m)) /\ Cardinality(Upto(m)) <= Cardinality(Announcements)
    BY <1>2, <2>1, FS_Subset
  <2>3. Cardinality(Upto(m)) \in Nat
    BY <2>2, FS_CardinalityType
  <2>4. m \in Upto(m) => Cardinality(Upto(m)) # 0
    BY <2>2, FS_EmptySet
  <2> QED BY <2>2, <2>3, <2>4
<1> QED BY <1>2, <1>3, FS_CardinalityType

\* A new event comes last.
LEMMA EventAppended ==
    ASSUME outbox \in Seq(Event), NEW e \in Event, outbox' = Append(outbox, e), NEW n, n = Len(outbox) + 1
    PROVE  /\ n \in Nat /\ \A l \in Announcements : l \in Nat /\ l < n /\ outbox'[l] = outbox[l]
           /\ outbox'[n] = e /\ n \notin Announcements
           /\ Announcements' = IF e.event = "invoice.payment_recorded" THEN Announcements \union {n}
                               ELSE Announcements
<1>1. Len(outbox) \in Nat /\ Len(outbox') = n
  OBVIOUS
<1>2. 1..n = (1..Len(outbox)) \union {n} /\ n \notin 1..Len(outbox) /\ n \in Nat
  BY <1>1
<1>3. outbox'[n] = e /\ \A l \in 1..Len(outbox) : outbox'[l] = outbox[l] /\ l < n /\ l \in Nat
  BY <1>1
<1>4. Announcements' = {m \in 1..n : outbox'[m].event = "invoice.payment_recorded"}
  BY <1>1 DEF Announcements
<1> QED BY <1>2, <1>3, <1>4 DEF Announcements

LEMMA EventsStep ==
    ASSUME TypeOK, EventPerPayment, [Next]_vars
    PROVE  EventPerPayment'
<1>0. outbox \in Seq(Event) /\ payments \in Seq(Payment) /\ Len(payments) \in Nat
  BY DEF TypeOK
<1>1. CASE UNCHANGED <<payments, outbox>>
  BY <1>1 DEF EventPerPayment, Announcements, PaymentAt
<1>2. ASSUME NEW h \in Handlers, CommitSend(h) PROVE EventPerPayment'
  <2>1. PICK e : /\ e = [event |-> "invoice.sent", invoice |-> req[h].invoice, amount |-> 0]
                 /\ outbox' = Append(outbox, e)
    BY <1>2 DEF CommitSend, EnqueueEvent
  <2>2. e \in Event /\ e.event = "invoice.sent"
    <3>1. req[h] \in Request
      BY DEF TypeOK
    <3> QED BY <2>1, <3>1 DEF Event, Request
  <2>3. Announcements' = Announcements /\ \A l \in Announcements : outbox'[l] = outbox[l]
    BY <1>0, <2>1, <2>2, EventAppended
  <2>4. payments' = payments
    BY <1>2 DEF CommitSend
  <2> QED BY <2>3, <2>4 DEF EventPerPayment, PaymentAt
<1>3. ASSUME NEW h \in Handlers, CommitPayment(h) PROVE EventPerPayment'
  <2>1. PICK r \in Request : r = req[h]
    BY DEF TypeOK
  <2>2. CASE Duplicate(r.charge)
    BY <1>1, <1>3, <2>1, <2>2 DEF CommitPayment, Recorded, Announced
  <2>3. CASE ~Duplicate(r.charge)
    <3>1. PICK n : n = Len(outbox) + 1
      OBVIOUS
    <3>2. PICK e, p : e = EventOf(r) /\ p = PaymentOf(r)
      OBVIOUS
    <3>3. /\ e \in Event /\ e.event = "invoice.payment_recorded" /\ p \in Payment
          /\ e.invoice = p.invoice /\ e.amount = p.amount
      BY <3>2 DEF EventOf, PaymentOf, Event, Payment, Request
    <3>4. outbox' = Append(outbox, e) /\ payments' = Append(payments, p)
      BY <1>3, <2>1, <2>3, <3>2 DEF CommitPayment, Recorded, Announced
    <3>5. /\ Announcements' = Announcements \union {n} /\ n \notin Announcements /\ n \in Nat
          /\ \A l \in Announcements : l \in Nat /\ l < n /\ outbox'[l] = outbox[l]
          /\ outbox'[n] = e
      BY <1>0, <3>1, <3>3, <3>4, EventAppended
    <3>6. PICK c \in Nat : c = Len(payments) /\ c = Cardinality(Announcements)
      BY <1>0 DEF EventPerPayment
    <3>7. /\ Len(payments') = c + 1 /\ payments'[c + 1] = p
          /\ \A k \in 1..c : payments'[k] = payments[k]
      <4>1. /\ Len(payments') = Len(payments) + 1 /\ payments'[Len(payments) + 1] = p
            /\ \A k \in 1..Len(payments) : payments'[k] = payments[k]
        BY <1>0, <3>3, <3>4
      <4> QED BY <3>6, <4>1
    <3>8. Cardinality(Announcements') = c + 1
      BY <1>0, <3>5, <3>6, AnnouncementsFinite, FS_AddElement
    <3>9. ASSUME NEW m \in Announcements
          PROVE  outbox'[m].invoice = PaymentAt(m)'.invoice /\ outbox'[m].amount = PaymentAt(m)'.amount
      <4>1. {l \in Announcements' : l <= m} = Upto(m)
        BY <3>5 DEF Upto
      <4>2. PICK k : k = Cardinality(Upto(m))
        OBVIOUS
      <4>3. m \in Upto(m)
        BY <3>5 DEF Upto
      <4>4. k \in Nat /\ k <= c /\ k >= 1
        BY <1>0, <3>6, <4>2, <4>3, AnnouncementsFinite
      <4>5. PaymentAt(m)' = payments'[k] /\ PaymentAt(m) = payments[k]
        BY <4>1, <4>2 DEF PaymentAt, Upto
      <4>6. PaymentAt(m)' = PaymentAt(m)
        BY <3>7, <4>4, <4>5
      <4> QED BY <3>5, <4>6 DEF EventPerPayment
    <3>10. PaymentAt(n)' = p
      <4>1. {l \in Announcements' : l <= n} = Announcements'
        BY <3>5
      <4> QED BY <3>7, <3>8, <4>1 DEF PaymentAt
    <3>11. ASSUME NEW m \in Announcements'
           PROVE  outbox'[m].invoice = PaymentAt(m)'.invoice /\ outbox'[m].amount = PaymentAt(m)'.amount
      BY <3>3, <3>5, <3>9, <3>10
    <3> QED BY <3>7, <3>8, <3>11 DEF EventPerPayment
  <2> QED BY <2>2, <2>3
<1> QED BY <1>1, <1>2, <1>3, StepsOfPayments

LEMMA InitEvents == Init => EventPerPayment
<1> SUFFICES ASSUME Init PROVE EventPerPayment
  OBVIOUS
<1>1. Announcements = {} /\ Len(payments) = 0
  BY DEF Init, Announcements
<1> QED BY <1>1, FS_EmptySet DEF EventPerPayment

\* Integrations hear of every payment exactly once and in the order payments were
\* recorded, however often Stripe delivers and whatever races (recordPaymentTx).
THEOREM EveryPaymentAnnounced == Spec => []EventPerPayment
<1>1. TypeOK /\ EventPerPayment /\ [Next]_vars => EventPerPayment'
  BY EventsStep
<1> QED BY <1>1, InitEvents, TypeCorrect, PTL DEF Spec

-----------------------------------------------------------------------------
(***************************************************************************)
(* One request at a time.                                                  *)
(***************************************************************************)
Serial == \A g, h \in Handlers : g = h

\* What a handler has read is still so, and so are the checks it made.
Current ==
    \A h \in Handlers : req[h].op # "none" =>
        LET r == req[h]
        IN  /\ r.seen = inv[r.invoice]
            /\ r.op = "send" => r.seen.status = "draft"
            /\ r.op = "update" => ~r.seen.locked
            /\ r.op = "void" => r.seen.locked /\ r.seen.status # "void"
            /\ r.op = "pay" => r.seen.status \notin {"draft", "void"}

CurrentInv == IInv /\ TypeOK /\ Current

\* A step that leaves a busy handler alone leaves its invoice alone.
LEMMA BusyKeeps ==
    ASSUME Serial, TypeOK, [Next]_vars, NEW g \in Handlers, req'[g] = req[g], req[g].op # "none"
    PROVE  inv'[req[g].invoice] = inv[req[g].invoice]
<1>1. req[g].invoice \in Ids
  BY DEF TypeOK
<1>2. CASE UNCHANGED inv
  BY <1>2
<1>3. ASSUME NEW s \in Subtotals, NEW x \in Taxes, GenerateFromEstimate(s, x)
      PROVE  inv'[req[g].invoice] = inv[req[g].invoice]
  <2>1. Draft(s, x) \in Invoice
    BY DraftTyped, InvoicesAssumption
  <2> QED BY <1>1, <1>3, <2>1, TypedAppend DEF GenerateFromEstimate, TypeOK
<1>4. ASSUME NEW h \in Handlers, CommitSend(h) \/ CommitUpdate(h) \/ CommitVoid(h) \/ CommitPayment(h)
      PROVE  FALSE
  <2>1. Done(h) /\ h = g
    BY <1>4 DEF CommitSend, CommitUpdate, CommitVoid, CommitPayment, Serial
  <2>2. req'[g].op = "none"
    BY <2>1, IdleTyped DEF Done, TypeOK
  <2> QED BY <2>2
<1>5. ASSUME NEW h \in Handlers, NEW i \in Ids, ChargeLateFee(h, i) PROVE FALSE
  BY <1>5 DEF ChargeLateFee, Start, Serial
<1>6. ASSUME NEW h \in Handlers, NEW i \in Ids, NEW x \in Taxes, RecalculateTax(h, i, x) PROVE FALSE
  BY <1>6 DEF RecalculateTax, Start, Serial
<1> QED BY <1>2, <1>3, <1>4, <1>5, <1>6, StepsOfInvoices

LEMMA NextCurrent == ASSUME Serial PROVE CurrentInv /\ [Next]_vars => CurrentInv'
<1> SUFFICES ASSUME CurrentInv, [Next]_vars PROVE CurrentInv'
  OBVIOUS
<1>1. TypeOK /\ IInv' /\ TypeOK'
  BY NextIInv, NextTyped DEF CurrentInv
<1>2. ASSUME NEW h \in Handlers, req'[h].op # "none"
      PROVE  /\ req'[h].seen = inv'[req'[h].invoice]
             /\ req'[h].op = "send" => req'[h].seen.status = "draft"
             /\ req'[h].op = "update" => ~req'[h].seen.locked
             /\ req'[h].op = "void" => req'[h].seen.locked /\ req'[h].seen.status # "void"
             /\ req'[h].op = "pay" => req'[h].seen.status \notin {"draft", "void"}
  <2>1. CASE req'[h] = req[h]
    BY <1>1, <1>2, <2>1, BusyKeeps DEF CurrentInv, Current
  <2>2. CASE JustRead(h)
    BY <2>2 DEF JustRead, rows
  <2> QED BY <1>1, <1>2, <2>1, <2>2, StepsOfHandlers
<1>3. Current'
  BY <1>2 DEF Current
<1> QED BY <1>1, <1>3 DEF CurrentInv

LEMMA InitCurrent == Init => CurrentInv
<1> SUFFICES ASSUME Init PROVE CurrentInv
  OBVIOUS
<1>1. \A h \in Handlers : req[h].op = "none"
  BY IdleTyped DEF Init
<1> QED BY <1>1, InitIInv, InitTyped DEF CurrentInv, Current

\* No step of a single request brings a void invoice back.
LEMMA VoidKept ==
    ASSUME CurrentInv, [Next]_vars, NEW j \in Ids, inv[j].status = "void"
    PROVE  inv'[j].status = "void"
<1>0. TypeOK /\ inv[j] \in Invoice
  BY DEF CurrentInv, TypeOK, Ids
<1>1. CASE UNCHANGED inv
  BY <1>1
<1>2. ASSUME NEW s \in Subtotals, NEW x \in Taxes, GenerateFromEstimate(s, x)
      PROVE  inv'[j].status = "void"
  <2>1. Draft(s, x) \in Invoice
    BY DraftTyped, InvoicesAssumption
  <2> QED BY <1>0, <1>2, <2>1, TypedAppend DEF GenerateFromEstimate, TypeOK
<1>3. ASSUME NEW h \in Handlers, CommitSend(h) PROVE inv'[j].status = "void"
  <2>1. PICK i, row : i = req[h].invoice /\ row = Sent(inv[i], req[h].dueDate)
    OBVIOUS
  <2>2. Rewritten(i, row)
    BY <1>0, <1>3, <2>1, SendRow
  <2>3. inv[i].status = "draft"
    BY <1>3, <2>1 DEF CurrentInv, Current, CommitSend, Ready
  <2> QED BY <2>2, <2>3 DEF Rewritten
<1>4. ASSUME NEW h \in Handlers, CommitUpdate(h) PROVE inv'[j].status = "void"
  <2>1. PICK i, row : i = req[h].invoice /\ row = [inv[i] EXCEPT !.dueDate = req[h].dueDate]
    OBVIOUS
  <2>2. Rewritten(i, row)
    BY <1>0, <1>4, <2>1, UpdateRow
  <2>3. i = j => row.status = inv[j].status
    BY <1>0, <2>1 DEF Invoice
  <2> QED BY <2>2, <2>3 DEF Rewritten
<1>5. ASSUME NEW h \in Handlers, CommitPayment(h) PROVE inv'[j].status = "void"
  <2>1. PICK i, row : i = req[h].invoice /\ Rewritten(i, row)
    BY <1>0, <1>5, PaymentRow
  <2>2. inv[i].status # "void"
    BY <1>5, <2>1 DEF CurrentInv, Current, CommitPayment, Ready
  <2> QED BY <2>1, <2>2 DEF Rewritten
<1>6. ASSUME NEW h \in Handlers, CommitVoid(h) PROVE inv'[j].status = "void"
  <2>1. PICK i, row : i = req[h].invoice /\ row = [inv[i] EXCEPT !.status = "void"]
    OBVIOUS
  <2>2. inv'[j] = IF j = i THEN row ELSE inv[j]
    BY <1>0, <1>6, <2>1, VoidRows
  <2>3. i = j => row.status = "void"
    BY <1>0, <2>1 DEF Invoice
  <2> QED BY <2>2, <2>3
<1>7. ASSUME NEW h \in Handlers, NEW i \in Ids, ChargeLateFee(h, i) PROVE inv'[j].status = "void"
  <2>1. PICK fee, row : /\ row = [inv[i] EXCEPT !.total = inv[i].total + fee,
                                    !.lateFees = inv[i].lateFees + fee, !.lastAccrual = today]
                        /\ Rewritten(i, row)
    BY <1>0, <1>7, LateFeeRow
  <2>2. i = j => row.status = inv[j].status
    BY <1>0, <2>1 DEF Invoice
  <2> QED BY <2>1, <2>2 DEF Rewritten
<1>8. ASSUME NEW h \in Handlers, NEW i \in Ids, NEW x \in Taxes, RecalculateTax(h, i, x)
      PROVE  inv'[j].status = "void"
  <2>1. PICK y, row : /\ row = [inv[i] EXCEPT !.tax = y, !.total = inv[i].subtotal + y]
                      /\ Rewritten(i, row)
    BY <1>0, <1>8, TaxRow
  <2>2. i = j => row.status = inv[j].status
    BY <1>0, <2>1 DEF Invoice
  <2> QED BY <2>1, <2>2 DEF Rewritten
<1> QED BY <1>1, <1>2, <1>3, <1>4, <1>5, <1>6, <1>7, <1>8, StepsOfInvoices

\* With one request at a time a void invoice stays void, whatever is sent, paid,
\* updated or taxed afterwards and however late Stripe delivers (send, void,
\* recordPayment).
THEOREM VoidIsFinal == ASSUME Serial PROVE Spec => VoidStaysVoid
<1>1. CurrentInv /\ [Next]_vars
        => [\A i \in Ids : inv[i].status = "void" => inv'[i].status = "void"]_inv
  BY VoidKept
<1> QED BY <1>1, InitCurrent, NextCurrent, PTL DEF Spec, VoidStaysVoid

-----------------------------------------------------------------------------
(***************************************************************************)
(* The books agree, with one request at a time and no tax recalculated.    *)
(***************************************************************************)
NoTax == "tax" \notin Ops

\* A Storno is locked and never due, and what it corrects is void.
Undated == \A j \in Ids : inv[j].corrects # 0 => inv[j].locked /\ inv[j].dueDate = NoDate
CorrectedIsVoid == \A i, j \in Ids : inv[j].corrects = i => inv[i].status = "void"

Books == Undated /\ CorrectedIsVoid /\ StornoNegates /\ PaidIsCovered
BookInv == CurrentInv /\ Books

\* What must hold of a rewritten row for the books to agree still.
BooksRow(i, row) ==
    /\ row.corrects = inv[i].corrects
    /\ row.corrects # 0 => row.locked /\ row.dueDate = NoDate
    /\ inv[i].status = "void" => row.status = "void"
    /\ row.total = inv[i].total \/ (inv[i].corrects = 0 /\ inv[i].status # "void")
    /\ row.status = "paid" => PaidSum(i)' >= row.total
    /\ \A j \in Ids : j # i => PaidSum(j)' = PaidSum(j)

LEMMA BooksRewrite ==
    ASSUME Books, NEW i, NEW row, Rewritten(i, row), BooksRow(i, row)
    PROVE  Books'
<1>1. i \in Ids /\ Ids' = Ids /\ \A j \in Ids : inv'[j] = IF j = i THEN row ELSE inv[j]
  BY DEF Rewritten
<1>2. \A j \in Ids : j # 0
  BY DEF Ids
<1>3. Undated'
  BY <1>1 DEF Undated, Books, BooksRow
<1>4. \A j \in Ids : inv'[j].corrects = inv[j].corrects
  BY <1>1 DEF BooksRow
<1>5. CorrectedIsVoid'
  BY <1>1, <1>4 DEF CorrectedIsVoid, Books, BooksRow
<1>6. StornoNegates'
  <2> SUFFICES ASSUME NEW a \in Ids, NEW b \in Ids, inv'[b].corrects = a
               PROVE  inv'[b].total = -inv'[a].total
    BY <1>1 DEF StornoNegates
  <2>1. inv[b].corrects = a /\ inv[b].corrects # 0 /\ inv[a].status = "void"
    BY <1>2, <1>4 DEF Books, CorrectedIsVoid
  <2>2. inv'[a].total = inv[a].total
    BY <1>1, <2>1 DEF BooksRow
  <2>3. inv'[b].total = inv[b].total
    BY <1>1, <2>1 DEF BooksRow
  <2> QED BY <2>1, <2>2, <2>3 DEF Books, StornoNegates
<1>7. PaidIsCovered'
  <2> SUFFICES ASSUME NEW j \in Ids, inv'[j].status = "paid" PROVE PaidSum(j)' >= inv'[j].total
    BY <1>1 DEF PaidIsCovered
  <2>1. CASE j = i
    BY <1>1, <2>1 DEF BooksRow
  <2>2. CASE j # i
    BY <1>1, <2>2 DEF BooksRow, Books, PaidIsCovered
  <2> QED BY <2>1, <2>2
<1> QED BY <1>3, <1>5, <1>6, <1>7 DEF Books

LEMMA PaidSame == ASSUME payments' = payments, NEW i PROVE PaidSum(i)' = PaidSum(i)
BY DEF PaidSum

\* What recordPayment adds to what was paid.
LEMMA PaidAfter ==
    ASSUME TypeOK, NEW h \in Handlers, CommitPayment(h), NEW j
    PROVE  PaidSum(j)' = PaidSum(j) + (IF Duplicate(req[h].charge) \/ j # req[h].invoice THEN 0
                                       ELSE req[h].amount)
<1>1. PICK r \in Request : r = req[h]
  BY DEF TypeOK
<1>2. payments \in Seq(Payment) /\ PaidSum(j) \in Nat
  BY PaidNat DEF TypeOK
<1>3. CASE Duplicate(r.charge)
  <2>1. payments' = payments
    BY <1>1, <1>3 DEF CommitPayment, Recorded
  <2> QED BY <1>1, <1>2, <1>3, <2>1, PaidSame
<1>4. CASE ~Duplicate(r.charge)
  <2>1. PICK p : p = PaymentOf(r)
    OBVIOUS
  <2>2. p \in Payment /\ p.invoice = r.invoice /\ p.amount = r.amount
    BY <2>1 DEF PaymentOf, Payment, Request
  <2>3. payments' = Append(payments, p)
    BY <1>1, <1>4, <2>1 DEF CommitPayment, Recorded
  <2>4. PICK n : n = Len(payments) + 1
    OBVIOUS
  <2>5. /\ Len(payments) \in Nat /\ payments' \in Seq(Payment) /\ Len(payments') = n
        /\ payments'[n] = p /\ \A k \in 1..Len(payments) : payments'[k] = payments[k]
    BY <1>2, <2>2, <2>3, <2>4
  <2>6. n \in 1..n /\ \A k \in 1..Len(payments) : k \in 1..n
    BY <2>4, <2>5
  <2>7. PICK f, g : f = PaidOn(payments, j) /\ g = PaidOn(payments', j)
    OBVIOUS
  <2>8. /\ f \in Seq(Nat) /\ Len(f) = Len(payments) /\ g \in Seq(Nat) /\ Len(g) = n
    BY <1>2, <2>5, <2>7, PaidOnTyped
  <2>9. \A k \in 1..Len(f) : f[k] = g[k]
    BY <2>5, <2>6, <2>7, <2>8 DEF PaidOn
  <2>10. g[n] = IF j # r.invoice THEN 0 ELSE r.amount
    BY <2>2, <2>5, <2>6, <2>7 DEF PaidOn
  <2>11. Len(g) = Len(f) + 1
    BY <2>4, <2>8
  <2>12. Total(g) = Total(f) + g[n]
    BY <2>8, <2>9, <2>11, TotalAppend
  <2>13. PaidSum(j) = Total(f) /\ PaidSum(j)' = Total(g)
    BY <2>7 DEF PaidSum, PaidOn
  <2> QED BY <1>1, <1>4, <2>10, <2>12, <2>13
<1> QED BY <1>3, <1>4

LEMMA BooksStep ==
    ASSUME NoTax, BookInv, [Next]_vars
    PROVE  Books'
<1>0. /\ TypeOK /\ Current /\ Books /\ DraftIffUnlocked /\ CorrectsExisting
      /\ \A j \in Ids : inv[j] \in Invoice /\ j \in Nat /\ j # 0 /\ j <= Len(inv)
  BY DEF BookInv, CurrentInv, IInv, Standing, TypeOK, Ids
<1>1. ASSUME NEW h \in Handlers, CommitPayment(h) PROVE Books'
  <2>1. PICK i, paid, row :
          /\ i = req[h].invoice
          /\ paid = PaidSum(i) + (IF Duplicate(req[h].charge) THEN 0 ELSE req[h].amount)
          /\ row = [inv[i] EXCEPT !.status = StatusFor(paid, req[h].seen.total)]
    OBVIOUS
  <2>2. Rewritten(i, row)
    BY <1>0, <1>1, <2>1, PaymentRow
  <2>3. i \in Ids /\ inv[i] \in Invoice /\ PaidSum(i) \in Nat /\ \A j \in Ids : PaidSum(j) \in Nat
    BY <1>0, <2>2, PaidNat DEF Rewritten, TypeOK
  <2>4. inv[i].status # "void" /\ req[h].seen.total = inv[i].total
    BY <1>0, <1>1, <2>1 DEF Current, CommitPayment, Ready
  <2>5. /\ row.status = StatusFor(paid, inv[i].total) /\ row.corrects = inv[i].corrects
        /\ row.locked = inv[i].locked /\ row.dueDate = inv[i].dueDate /\ row.total = inv[i].total
    BY <2>1, <2>3, <2>4 DEF Invoice
  <2>6. row.status = "paid" => paid >= inv[i].total
    BY <2>5 DEF StatusFor
  <2>7. PaidSum(i)' = paid
    BY <1>0, <1>1, <2>1, <2>3, PaidAfter
  <2>8. \A j \in Ids : j # i => PaidSum(j)' = PaidSum(j)
    BY <1>0, <1>1, <2>1, <2>3, PaidAfter
  <2>9. inv[i].corrects # 0 => inv[i].locked /\ inv[i].dueDate = NoDate
    BY <1>0, <2>3 DEF Books, Undated
  <2>10. BooksRow(i, row)
    BY <2>4, <2>5, <2>6, <2>7, <2>8, <2>9 DEF BooksRow
  <2> QED BY <1>0, <2>2, <2>10, BooksRewrite
<1>2. ASSUME \A h \in Handlers : ~CommitPayment(h) PROVE Books'
  <2>0. /\ payments' = payments /\ \A j : PaidSum(j)' = PaidSum(j)
        /\ \A j \in Ids : inv[j].status = "paid" => PaidSum(j) >= inv[j].total
    <3>1. \A h : CommitSend(h) => payments' = payments
      BY DEF CommitSend
    <3>2. payments' = payments
      BY <1>2, <3>1, StepsOfPayments
    <3> QED BY <1>0, <3>2, PaidSame DEF Books, PaidIsCovered
  <2>1. CASE UNCHANGED inv
    BY <1>0, <2>0, <2>1 DEF Books, Undated, CorrectedIsVoid, StornoNegates, PaidIsCovered, Ids
  <2>2. ASSUME NEW s \in Subtotals, NEW x \in Taxes, GenerateFromEstimate(s, x) PROVE Books'
    <3>1. PICK n, row : n = Len(inv) + 1 /\ row = Draft(s, x)
      OBVIOUS
    <3>2. row \in Invoice /\ row.corrects = 0 /\ row.status = "draft"
      BY <3>1, DraftTyped, InvoicesAssumption DEF Draft
    <3>3. /\ Ids' = Ids \union {n} /\ n \notin Ids /\ \A j \in Ids : inv'[j] = inv[j]
          /\ inv'[n] = row /\ Len(inv) \in Nat
      BY <1>0, <2>2, <3>1, <3>2, TypedAppend DEF GenerateFromEstimate, TypeOK
    <3>4. \A j \in Ids : inv[j].corrects # n
      <4>1. \A j \in Ids : inv[j].corrects \in Nat /\ inv[j].corrects <= Len(inv)
        BY <1>0 DEF CorrectsExisting, Invoice
      <4> QED BY <3>1, <3>3, <4>1
    <3>5. n # 0
      BY <3>1, <3>3
    <3>6. Undated'
      BY <1>0, <3>2, <3>3 DEF Books, Undated
    <3>7. \A a, b \in Ids' : inv'[b].corrects = a => a \in Ids /\ b \in Ids
      BY <1>0, <3>2, <3>3, <3>4, <3>5
    <3>8. CorrectedIsVoid'
      BY <1>0, <3>3, <3>7 DEF Books, CorrectedIsVoid
    <3>9. StornoNegates'
      BY <1>0, <3>3, <3>7 DEF Books, StornoNegates
    <3>10. PaidIsCovered'
      BY <2>0, <3>2, <3>3 DEF PaidIsCovered
    <3> QED BY <3>6, <3>8, <3>9, <3>10 DEF Books
  <2>3. ASSUME NEW h \in Handlers, CommitSend(h) PROVE Books'
    <3>1. PICK i, row : i = req[h].invoice /\ row = Sent(inv[i], req[h].dueDate)
      OBVIOUS
    <3>2. Rewritten(i, row)
      BY <1>0, <2>3, <3>1, SendRow
    <3>3. i \in Ids /\ inv[i] \in Invoice /\ inv[i].status = "draft"
      BY <1>0, <2>3, <3>1, <3>2 DEF Current, CommitSend, Ready, Rewritten
    <3>4. inv[i].corrects = 0
      BY <1>0, <3>3 DEF Books, Undated, DraftIffUnlocked
    <3>5. row.status = "sent" /\ row.corrects = inv[i].corrects /\ row.total = inv[i].total
      BY <3>1, <3>3 DEF Sent, Invoice
    <3>6. BooksRow(i, row)
      BY <2>0, <3>3, <3>4, <3>5 DEF BooksRow
    <3> QED BY <1>0, <3>2, <3>6, BooksRewrite
  <2>4. ASSUME NEW h \in Handlers, CommitUpdate(h) PROVE Books'
    <3>1. PICK i, row : i = req[h].invoice /\ row = [inv[i] EXCEPT !.dueDate = req[h].dueDate]
      OBVIOUS
    <3>2. Rewritten(i, row)
      BY <1>0, <2>4, <3>1, UpdateRow
    <3>3. i \in Ids /\ inv[i] \in Invoice /\ ~inv[i].locked
      BY <1>0, <2>4, <3>1, <3>2 DEF Current, CommitUpdate, Ready, Rewritten
    <3>4. inv[i].corrects = 0
      BY <1>0, <3>3 DEF Books, Undated
    <3>5. row.status = inv[i].status /\ row.corrects = inv[i].corrects /\ row.total = inv[i].total
      BY <3>1, <3>3 DEF Invoice
    <3>6. BooksRow(i, row)
      BY <2>0, <3>3, <3>4, <3>5 DEF BooksRow
    <3> QED BY <1>0, <3>2, <3>6, BooksRewrite
  <2>5. ASSUME NEW h \in Handlers, CommitVoid(h) PROVE Books'
    <3>1. PICK i, n, row, storno :
            /\ i = req[h].invoice /\ n = Len(inv) + 1
            /\ row = [inv[i] EXCEPT !.status = "void"] /\ storno = Storno(i, req[h].seen)
      OBVIOUS
    <3>2. /\ i \in Ids /\ Ids' = Ids \union {n} /\ n \notin Ids /\ Len(inv) \in Nat
          /\ \A j \in Ids : inv'[j] = IF j = i THEN row ELSE inv[j]
          /\ inv'[n] = storno
      BY <1>0, <2>5, <3>1, VoidRows
    <3>3. req[h].seen.total = inv[i].total
      BY <1>0, <2>5, <3>1 DEF Current, CommitVoid, Ready
    <3>4. /\ storno.corrects = i /\ storno.total = -inv[i].total /\ storno.locked
          /\ storno.dueDate = NoDate /\ storno.status = "sent"
      BY <3>1, <3>3 DEF Storno
    <3>5. /\ row.corrects = inv[i].corrects /\ row.total = inv[i].total /\ row.status = "void"
          /\ row.locked = inv[i].locked /\ row.dueDate = inv[i].dueDate
      BY <1>0, <3>1, <3>2 DEF Invoice
    <3>6. \A j \in Ids : /\ inv'[j].corrects = inv[j].corrects /\ inv'[j].total = inv[j].total
                         /\ inv'[j].locked = inv[j].locked /\ inv'[j].dueDate = inv[j].dueDate
                         /\ inv[j].status = "void" => inv'[j].status = "void"
                         /\ inv'[j].status = "paid" => inv[j].status = "paid"
      BY <3>2, <3>5
    <3>7. \A j \in Ids : inv[j].corrects # n
      <4>1. \A j \in Ids : inv[j].corrects \in Nat /\ inv[j].corrects <= Len(inv)
        BY <1>0 DEF CorrectsExisting, Invoice
      <4> QED BY <3>1, <3>2, <4>1
    <3>8. Undated'
      BY <1>0, <3>2, <3>4, <3>6 DEF Books, Undated
    <3>9. \A a, b \in Ids' : inv'[b].corrects = a => a \in Ids /\ (b \in Ids \/ (b = n /\ a = i))
      BY <3>2, <3>4, <3>6, <3>7
    <3>10. CorrectedIsVoid'
      BY <1>0, <3>2, <3>5, <3>6, <3>9 DEF Books, CorrectedIsVoid
    <3>11. StornoNegates'
      BY <1>0, <3>2, <3>4, <3>6, <3>9 DEF Books, StornoNegates
    <3>12. PaidIsCovered'
      BY <2>0, <3>2, <3>4, <3>6 DEF PaidIsCovered
    <3> QED BY <3>8, <3>10, <3>11, <3>12 DEF Books
  <2>6. ASSUME NEW h \in Handlers, NEW i \in Ids, ChargeLateFee(h, i) PROVE Books'
    <3>1. PICK fee, row :
            /\ fee = Accrued(i)
            /\ row = [inv[i] EXCEPT !.total = inv[i].total + fee,
                        !.lateFees = inv[i].lateFees + fee, !.lastAccrual = today]
            /\ Rewritten(i, row)
      BY <1>0, <2>6, LateFeeRow
    <3>2. inv[i].status = "sent" /\ inv[i].dueDate # NoDate
      BY <2>6 DEF ChargeLateFee, Accrued
    <3>3. inv[i].corrects = 0
      BY <1>0, <3>2 DEF Books, Undated
    <3>4. row.status = inv[i].status /\ row.corrects = inv[i].corrects
      BY <1>0, <3>1 DEF Invoice
    <3>5. BooksRow(i, row)
      BY <2>0, <3>2, <3>3, <3>4 DEF BooksRow
    <3> QED BY <1>0, <3>1, <3>5, BooksRewrite
  <2>7. \A h, i, x : ~RecalculateTax(h, i, x)
    BY DEF RecalculateTax, Start, NoTax
  <2> QED BY <1>2, <2>1, <2>2, <2>3, <2>4, <2>5, <2>6, <2>7, StepsOfInvoices
<1> QED BY <1>1, <1>2

LEMMA NextBooks == ASSUME Serial, NoTax PROVE BookInv /\ [Next]_vars => BookInv'
BY NextCurrent, BooksStep DEF BookInv

\* With one request at a time, and as long as no tax is recalculated, the tables
\* agree: a paid invoice is covered by its payments, a Storno negates what its
\* invoice stood at, late fees included, for ever after, also when the Storno is
\* voided in its turn, and integrations hear of every payment once and in order.
THEOREM TheBooksAgree == ASSUME Serial, NoTax PROVE Spec => []BooksAgree
<1>1. Init => BookInv
  <2> SUFFICES ASSUME Init PROVE BookInv
    OBVIOUS
  <2>1. Ids = {}
    BY DEF Init, Ids
  <2> QED BY <2>1, InitCurrent DEF BookInv, Books, Undated, CorrectedIsVoid, StornoNegates, PaidIsCovered
<1>2. BookInv /\ EventPerPayment => BooksAgree
  BY DEF BookInv, Books, CurrentInv, BooksAgree
<1> QED BY <1>1, <1>2, NextBooks, EveryPaymentAnnounced, PTL DEF Spec

=============================================================================
