----------------------- MODULE LockedDocumentsProofs -----------------------
(***************************************************************************)
(* Bills, expenses and the ledger for any documents and any number of      *)
(* handlers that overlap and die.                                          *)
(*                                                                         *)
(* What a handler may rely on between its read and its write is little     *)
(* (Held): an expense was pending, a bill that was locked still is. The    *)
(* rest follows because an expense that is pending has no entry in the     *)
(* ledger (Fresh) and approve looks again at what it read.                 *)
(***************************************************************************)
EXTENDS LockedDocuments, TLAPS

\* The status with which a handler on a bill was let through, and what of it lasts.
HeldBill(h) ==
    req[h].op \in BillOps =>
        /\ req[h].doc \in Bills
        /\ req[h].op = "approveBill" => req[h].status = "draft"
        /\ req[h].op = "voidBill" => req[h].status # "void"
        /\ req[h].op \in {"schedulePayment", "markPaid"} => req[h].status = "approved"
        /\ req[h].op # "approveBill" => bill[req[h].doc].locked

HeldExpense(h) ==
    req[h].op \in ExpenseOps =>
        req[h].doc \in Expenses /\ req[h].status = "pending" /\ req[h].receipt \in Nat

Held == \A h \in Handlers : HeldBill(h) /\ HeldExpense(h)

\* An expense that is not decided has no entry in the ledger.
Fresh ==
    \A e \in Expenses :
        expense[e].status \in {"none", "pending"} => Entries("expense.locked", e) = {}

BillSide == BillIsJournalled /\ CorrectedOnce
ExpenseSide == Fresh /\ VouchedReceipt /\ BookedOnce /\ BookedStaysApproved

IInv == TypeOK /\ Held /\ BillSide /\ ExpenseSide

-----------------------------------------------------------------------------
(***************************************************************************)
(* Frames.                                                                 *)
(***************************************************************************)

\* What an append does to the entries of a document.
LEMMA AppendedEntries ==
    ASSUME ledger \in Seq(Entry), NEW ev, NEW d, NEW r,
           [event |-> ev, doc |-> d, receipt |-> r] \in Entry,
           LedgerAppend(ev, d, r)
    PROVE  /\ ledger' \in Seq(Entry) /\ Len(ledger) \in Nat
           /\ \A i \in 1..Len(ledger) : ledger'[i] = ledger[i]
           /\ ledger'[Len(ledger) + 1] = [event |-> ev, doc |-> d, receipt |-> r]
           /\ \A event, doc :
                Entries(event, doc)' = IF event = ev /\ doc = d
                                         THEN Entries(event, doc) \union {Len(ledger) + 1}
                                         ELSE Entries(event, doc)
<1> DEFINE row == [event |-> ev, doc |-> d, receipt |-> r]
<1>1. ledger' = Append(ledger, row)
  BY DEF LedgerAppend
<1>2. /\ ledger' \in Seq(Entry) /\ Len(ledger) \in Nat /\ Len(ledger') = Len(ledger) + 1
      /\ \A i \in 1..Len(ledger) : ledger'[i] = ledger[i]
      /\ ledger'[Len(ledger) + 1] = row
  BY <1>1
<1>3. ASSUME NEW event, NEW doc
      PROVE  Entries(event, doc)' = IF event = ev /\ doc = d
                                      THEN Entries(event, doc) \union {Len(ledger) + 1}
                                      ELSE Entries(event, doc)
  <2>1. ASSUME NEW i
        PROVE  i \in Entries(event, doc)' <=>
                 \/ i \in Entries(event, doc)
                 \/ i = Len(ledger) + 1 /\ event = ev /\ doc = d
    BY <1>2 DEF Entries
  <2> QED BY <2>1
<1> QED BY <1>2, <1>3

\* A step that leaves bills alone, and their entries, keeps what is said of bills.
LEMMA BillSideKept ==
    ASSUME BillSide, bill' = bill, stale \subseteq stale',
           \A event \in {"vendor_bill.locked", "vendor_bill.voided"}, b \in Bills :
               Entries(event, b)' = Entries(event, b)
    PROVE  BillSide'
<1>1. BillIsJournalled'
  BY DEF BillSide, BillIsJournalled
<1>2. CorrectedOnce'
  BY DEF BillSide, CorrectedOnce
<1> QED BY <1>1, <1>2 DEF BillSide

\* The same for expenses.
LEMMA ExpenseSideKept ==
    ASSUME ExpenseSide, expense' = expense, stale \subseteq stale', outbox' = outbox,
           \A e \in Expenses : Entries("expense.locked", e)' = Entries("expense.locked", e),
           \A e \in Expenses : \A i \in Entries("expense.locked", e) : ledger'[i] = ledger[i]
    PROVE  ExpenseSide'
<1>1. Fresh'
  BY DEF ExpenseSide, Fresh
<1>2. VouchedReceipt'
  BY DEF ExpenseSide, VouchedReceipt
<1>3. BookedOnce'
  BY DEF ExpenseSide, BookedOnce
<1>4. BookedStaysApproved'
  BY DEF ExpenseSide, BookedStaysApproved
<1> QED BY <1>1, <1>2, <1>3, <1>4 DEF ExpenseSide

\* The entries do not change with the ledger unchanged.
LEMMA SameLedgerSameEntries ==
    ledger' = ledger => \A event, doc : Entries(event, doc)' = Entries(event, doc)
  BY DEF Entries

-----------------------------------------------------------------------------
(***************************************************************************)
(* Types and what handlers hold.                                           *)
(***************************************************************************)

\* Before anything is created the invariant holds.
LEMMA InitIInv == Init => IInv
<1> SUFFICES ASSUME Init PROVE IInv
  OBVIOUS
<1>1. TypeOK
  BY DocumentsAssumption DEF Init, TypeOK, Bill, Expense, NewBill, NewExpense, BillStatus, ExpenseStatus,
     NoFile, Request, Idle
<1>2. Held
  BY DEF Init, Held, HeldBill, HeldExpense, Idle, BillOps, ExpenseOps
<1>3. \A event, doc : Entries(event, doc) = {}
  BY DEF Init, Entries
<1>4. BillSide
  BY <1>3 DEF Init, BillSide, BillIsJournalled, CorrectedOnce, NewBill
<1>5. ExpenseSide
  BY <1>3 DEF Init, ExpenseSide, Fresh, VouchedReceipt, BookedOnce, BookedStaysApproved, NewExpense
<1> QED BY <1>1, <1>2, <1>4, <1>5 DEF IInv

\* A request is one on a bill, one on an expense, or none.
LEMMA Kinds ==
    /\ \A op \in BillOps, b \in Bills, s \in BillStatus :
          [op |-> op, doc |-> b, status |-> s] \in Request
    /\ \A op \in ExpenseOps, e \in Expenses, s \in ExpenseStatus, r \in Nat :
          [op |-> op, doc |-> e, status |-> s, receipt |-> r] \in Request
    /\ Idle \in Request
  BY DEF Request

\* When a handler is done, the others hold what they held.
LEMMA HeldAfterDone ==
    ASSUME TypeOK, Held, NEW h \in Handlers, Done(h),
           \A b \in Bills : bill[b].locked => bill'[b].locked
    PROVE  req' \in [Handlers -> Request] /\ Held'
<1>1. req' = [req EXCEPT ![h] = Idle]
  BY DEF Done
<1>2. req' \in [Handlers -> Request]
  BY <1>1, Kinds DEF TypeOK
<1>3. ASSUME NEW g \in Handlers
      PROVE  HeldBill(g)' /\ HeldExpense(g)'
  <2>1. CASE g = h
    <3>1. req'[g].op = "none"
      BY <1>1, <2>1 DEF TypeOK, Idle
    <3> QED BY <3>1 DEF HeldBill, HeldExpense, BillOps, ExpenseOps
  <2>2. CASE g # h
    <3>1. req'[g] = req[g]
      BY <1>1, <2>2 DEF TypeOK
    <3> QED BY <3>1 DEF Held, HeldBill, HeldExpense
  <2> QED BY <2>1, <2>2
<1> QED BY <1>2, <1>3 DEF Held

\* When a handler has read, it holds what it read, and the others what they held.
LEMMA HeldAfterRead ==
    ASSUME TypeOK, Held, NEW h \in Handlers, NEW r \in Request,
           req' = [req EXCEPT ![h] = r], bill' = bill,
           HeldBill(h)', HeldExpense(h)'
    PROVE  req' \in [Handlers -> Request] /\ Held'
<1>1. req' \in [Handlers -> Request]
  BY DEF TypeOK
<1>2. ASSUME NEW g \in Handlers, g # h
      PROVE  HeldBill(g)' /\ HeldExpense(g)'
  <2>1. req'[g] = req[g]
    BY <1>2 DEF TypeOK
  <2> QED BY <2>1 DEF Held, HeldBill, HeldExpense
<1> QED BY <1>1, <1>2 DEF Held

-----------------------------------------------------------------------------
(***************************************************************************)
(* The steps.                                                              *)
(***************************************************************************)

\* A step that writes no document keeps what is said of documents.
LEMMA QuietStep ==
    ASSUME IInv, UNCHANGED <<bill, expense, ledger, outbox, stale>>
    PROVE  BillSide' /\ ExpenseSide'
<1>1. \A event, doc : Entries(event, doc)' = Entries(event, doc)
  BY SameLedgerSameEntries
<1>2. BillSide'
  BY <1>1, BillSideKept DEF IInv
<1>3. ExpenseSide'
  BY <1>1, ExpenseSideKept DEF IInv
<1> QED BY <1>2, <1>3

\* A step of a handler on a bill that writes no ledger row and no lock or void date
\* keeps what is said of expenses.
LEMMA QuietForExpenses ==
    ASSUME IInv, UNCHANGED <<expense, ledger, outbox>>, stale \subseteq stale'
    PROVE  ExpenseSide'
<1>1. \A event, doc : Entries(event, doc)' = Entries(event, doc)
  BY SameLedgerSameEntries
<1> QED BY <1>1, ExpenseSideKept DEF IInv

LEMMA QuietForBills ==
    ASSUME IInv, UNCHANGED <<bill, ledger>>, stale \subseteq stale'
    PROVE  BillSide'
<1>1. \A event, doc : Entries(event, doc)' = Entries(event, doc)
  BY SameLedgerSameEntries
<1> QED BY <1>1, BillSideKept DEF IInv

\* The note of an outdated read only adds the document.
LEMMA Noted ==
    ASSUME TypeOK, NEW h \in Handlers, NEW s, req[h].doc \in Documents, NoteRead(h, s)
    PROVE  /\ stale \subseteq stale' /\ stale' \subseteq Documents
           /\ stale' \subseteq stale \union {req[h].doc}
           /\ s # req[h].status => req[h].doc \in stale'
  BY DEF NoteRead, TypeOK

LEMMA CreateBillIInv == ASSUME IInv, NEW b \in Bills, CreateBill(b) PROVE IInv'
<1> USE DEF CreateBill
<1>1. TypeOK'
  BY DEF IInv, TypeOK, Bill, BillStatus
<1>2. \A c \in Bills : bill'[c].locked = bill[c].locked /\ bill'[c].voided = bill[c].voided
  BY DEF IInv, TypeOK, Bill
<1>3. Held'
  BY <1>2 DEF IInv, Held, HeldBill, HeldExpense
<1>4. \A event, doc : Entries(event, doc)' = Entries(event, doc)
  BY SameLedgerSameEntries
<1>5. \A c \in Bills : c # b => bill'[c] = bill[c]
  BY DEF IInv, TypeOK
<1>6. bill'[b].status = "draft" /\ ~bill[b].locked /\ ~bill[b].voided
  <2>1. ~bill[b].locked
    BY DEF IInv, BillSide, BillIsJournalled
  <2>2. Entries("vendor_bill.locked", b) = {}
    BY <2>1 DEF IInv, BillSide, BillIsJournalled
  <2>3. Entries("vendor_bill.voided", b) = {}
    BY <2>2 DEF IInv, BillSide, BillIsJournalled
  <2>4. ~bill[b].voided
    BY <2>3 DEF IInv, BillSide, BillIsJournalled
  <2>5. bill'[b].status = "draft"
    BY DEF IInv, TypeOK, Bill
  <2> QED BY <2>1, <2>4, <2>5
<1>7. BillIsJournalled'
  BY <1>2, <1>4, <1>5, <1>6 DEF IInv, BillSide, BillIsJournalled
<1>8. CorrectedOnce'
  BY <1>2, <1>4, <1>5, <1>6 DEF IInv, BillSide, CorrectedOnce
<1>9. ExpenseSide'
  BY QuietForExpenses
<1> QED BY <1>1, <1>3, <1>7, <1>8, <1>9 DEF IInv, BillSide

LEMMA CreateExpenseIInv == ASSUME IInv, NEW e \in Expenses, CreateExpense(e) PROVE IInv'
<1> USE DEF CreateExpense
<1>1. TypeOK'
  BY DEF IInv, TypeOK, Expense, ExpenseStatus
<1>2. Held'
  BY DEF IInv, Held, HeldBill, HeldExpense
<1>3. \A event, doc : Entries(event, doc)' = Entries(event, doc)
  BY SameLedgerSameEntries
<1>4. /\ \A d \in Expenses : d # e => expense'[d] = expense[d]
      /\ expense'[e].status = "pending" /\ expense'[e].receipt = expense[e].receipt
  BY DEF IInv, TypeOK, Expense
<1>5. Entries("expense.locked", e) = {}
  BY DEF IInv, ExpenseSide, Fresh
<1>6. Fresh'
  BY <1>3, <1>4, <1>5 DEF IInv, ExpenseSide, Fresh
<1>7. VouchedReceipt'
  BY <1>3, <1>4 DEF IInv, ExpenseSide, VouchedReceipt
<1>8. BookedOnce'
  BY <1>3, <1>4 DEF IInv, ExpenseSide, BookedOnce
<1>9. BookedStaysApproved'
  BY <1>3, <1>4, <1>5 DEF IInv, ExpenseSide, BookedStaysApproved
<1>10. BillSide'
  BY QuietForBills
<1> QED BY <1>1, <1>2, <1>6, <1>7, <1>8, <1>9, <1>10 DEF IInv, ExpenseSide

LEMMA ReadBillIInv ==
    ASSUME IInv, NEW h \in Handlers, NEW op \in BillOps, NEW b \in Bills, ReadBill(h, op, b)
    PROVE  IInv'
<1> USE DEF ReadBill
<1> DEFINE r == [op |-> op, doc |-> b, status |-> bill[b].status]
<1>1. r \in Request
  BY Kinds DEF IInv, TypeOK, Bill
<1>2. req'[h] = r
  BY DEF IInv, TypeOK
<1>3. \A c \in Bills : bill[c].locked <=> bill[c].status \in {"approved", "paid", "void"}
  BY DEF IInv, BillSide, BillIsJournalled
<1>4. HeldBill(h)'
  BY <1>2, <1>3 DEF HeldBill, BillAllows, BillOps
<1>5. HeldExpense(h)'
  BY <1>2 DEF HeldExpense, BillOps, ExpenseOps
<1>6. req' \in [Handlers -> Request] /\ Held'
  BY <1>1, <1>4, <1>5, HeldAfterRead DEF IInv
<1>7. BillSide' /\ ExpenseSide'
  BY QuietStep
<1> QED BY <1>6, <1>7 DEF IInv, TypeOK

LEMMA ReadExpenseIInv ==
    ASSUME IInv, NEW h \in Handlers, NEW op \in ExpenseOps, NEW e \in Expenses, ReadExpense(h, op, e)
    PROVE  IInv'
<1> USE DEF ReadExpense
<1> DEFINE file == IF op = "uploadReceipt" THEN files + 1 ELSE expense[e].receipt
<1> DEFINE r == [op |-> op, doc |-> e, status |-> expense[e].status, receipt |-> file]
<1>1. file \in Nat /\ files' \in 0..MaxFiles
  BY DocumentsAssumption DEF IInv, TypeOK, Expense
<1>2. r \in Request
  BY <1>1, Kinds DEF IInv, TypeOK, Expense
<1>3. req'[h] = r
  BY DEF IInv, TypeOK
<1>4. HeldBill(h)'
  BY <1>3 DEF HeldBill, BillOps, ExpenseOps
<1>5. HeldExpense(h)'
  BY <1>1, <1>3 DEF HeldExpense
<1>6. req' \in [Handlers -> Request] /\ Held'
  BY <1>2, <1>4, <1>5, HeldAfterRead DEF IInv
<1>7. BillSide' /\ ExpenseSide'
  BY QuietStep
<1> QED BY <1>1, <1>6, <1>7 DEF IInv, TypeOK

\* What a handler that is about to write to a bill knows of it.
LEMMA AboutToWriteBill ==
    ASSUME IInv, NEW h \in Handlers, NEW op \in BillOps, Doing(h, op)
    PROVE  /\ req[h].doc \in Bills /\ req[h].doc \in Documents
           /\ op = "approveBill" => req[h].status = "draft"
           /\ op = "voidBill" => req[h].status # "void"
           /\ op \in {"schedulePayment", "markPaid"} => req[h].status = "approved"
           /\ op # "approveBill" => bill[req[h].doc].locked
  BY DEF IInv, Held, HeldBill, Doing, Documents

LEMMA ApproveBillIInv == ASSUME IInv, NEW h \in Handlers, ApproveBill(h) PROVE IInv'
<1> DEFINE b == req[h].doc
<1> USE DEF ApproveBill
<1>1. b \in Bills /\ b \in Documents /\ req[h].status = "draft"
  BY AboutToWriteBill DEF BillOps
<1>2. [event |-> "vendor_bill.locked", doc |-> b, receipt |-> NoFile] \in Entry
  BY <1>1 DEF Entry, NoFile
<1>3. /\ ledger' \in Seq(Entry) /\ Len(ledger) \in Nat
      /\ \A i \in 1..Len(ledger) : ledger'[i] = ledger[i]
      /\ \A event, doc :
           Entries(event, doc)' = IF event = "vendor_bill.locked" /\ doc = b
                                    THEN Entries(event, doc) \union {Len(ledger) + 1}
                                    ELSE Entries(event, doc)
  BY <1>2, AppendedEntries DEF IInv, TypeOK
<1>4. /\ stale \subseteq stale' /\ stale' \subseteq Documents
      /\ bill[b].status # "draft" => b \in stale'
  BY <1>1, Noted DEF IInv
<1>5. /\ bill' \in [Bills -> Bill]
      /\ bill'[b].status = "approved" /\ bill'[b].locked /\ bill'[b].voided = bill[b].voided
      /\ \A c \in Bills : c # b => bill'[c] = bill[c]
  BY <1>1 DEF IInv, TypeOK, Bill, BillStatus
<1>6. req' \in [Handlers -> Request] /\ Held'
  <2>1. \A c \in Bills : bill[c].locked => bill'[c].locked
    BY <1>5
  <2> QED BY <2>1, HeldAfterDone DEF IInv
<1>7. TypeOK'
  BY <1>3, <1>4, <1>5, <1>6 DEF IInv, TypeOK
<1>8. BillIsJournalled'
  BY <1>3, <1>5 DEF IInv, BillSide, BillIsJournalled
<1>9. CorrectedOnce'
  <2>1. ASSUME b \notin stale'
        PROVE  Entries("vendor_bill.locked", b) = {} /\ ~bill[b].voided
    <3>1. bill[b].status = "draft"
      BY <1>4, <2>1
    <3>2. Entries("vendor_bill.locked", b) = {}
      BY <1>1, <3>1 DEF IInv, BillSide, BillIsJournalled
    <3>3. Entries("vendor_bill.voided", b) = {}
      BY <1>1, <3>2 DEF IInv, BillSide, BillIsJournalled
    <3> QED BY <1>1, <3>2, <3>3 DEF IInv, BillSide, BillIsJournalled
  <2> QED BY <1>3, <1>4, <1>5, <2>1 DEF IInv, BillSide, CorrectedOnce
<1>10. ExpenseSide'
  <2>1. \A e : Entries("expense.locked", e)' = Entries("expense.locked", e)
    BY <1>3
  <2>2. \A e : \A i \in Entries("expense.locked", e) : ledger'[i] = ledger[i]
    BY <1>3 DEF Entries
  <2> QED BY <1>4, <2>1, <2>2, ExpenseSideKept DEF IInv
<1> QED BY <1>6, <1>7, <1>8, <1>9, <1>10 DEF IInv, BillSide

LEMMA VoidBillIInv == ASSUME IInv, NEW h \in Handlers, VoidBill(h) PROVE IInv'
<1>0. PICK b : b = req[h].doc
  OBVIOUS
<1> USE DEF VoidBill
<1>1. b \in Bills /\ b \in Documents /\ req[h].status # "void" /\ bill[b].locked
  BY <1>0, AboutToWriteBill DEF BillOps
<1>2. [event |-> "vendor_bill.voided", doc |-> b, receipt |-> NoFile] \in Entry
  BY <1>0, <1>1 DEF Entry, NoFile
<1>3. /\ ledger' \in Seq(Entry) /\ Len(ledger) \in Nat
      /\ \A i \in 1..Len(ledger) : ledger'[i] = ledger[i]
      /\ \A event, doc :
           Entries(event, doc)' = IF event = "vendor_bill.voided" /\ doc = b
                                    THEN Entries(event, doc) \union {Len(ledger) + 1}
                                    ELSE Entries(event, doc)
  BY <1>0, <1>2, AppendedEntries DEF IInv, TypeOK
<1>4. /\ stale \subseteq stale' /\ stale' \subseteq Documents
      /\ bill[b].status # req[h].status => b \in stale'
  BY <1>0, <1>1, Noted DEF IInv
<1>5. /\ bill' \in [Bills -> Bill]
      /\ bill'[b].status = "void" /\ bill'[b].locked /\ bill'[b].voided
      /\ \A c \in Bills : c # b => bill'[c] = bill[c]
  BY <1>0, <1>1 DEF IInv, TypeOK, Bill, BillStatus
<1>6. req' \in [Handlers -> Request] /\ Held'
  <2>1. \A c \in Bills : bill[c].locked => bill'[c].locked
    BY <1>5
  <2> QED BY <2>1, HeldAfterDone DEF IInv
<1>7. TypeOK'
  BY <1>3, <1>4, <1>5, <1>6 DEF IInv, TypeOK
<1>8. BillIsJournalled'
  <2>1. PICK i \in Entries("vendor_bill.locked", b) : TRUE
    BY <1>1 DEF IInv, BillSide, BillIsJournalled
  <2>2. i < Len(ledger) + 1
    BY <1>3, <2>1 DEF Entries
  <2>3. /\ Entries("vendor_bill.locked", b)' = Entries("vendor_bill.locked", b)
        /\ Entries("vendor_bill.voided", b)' = Entries("vendor_bill.voided", b) \union {Len(ledger) + 1}
    BY <1>3
  <2>4. \A j \in Entries("vendor_bill.voided", b)' : \E k \in Entries("vendor_bill.locked", b)' : k < j
    BY <1>1, <2>1, <2>2, <2>3 DEF IInv, BillSide, BillIsJournalled
  <2>5. \A c \in Bills : c # b =>
           /\ Entries("vendor_bill.locked", c)' = Entries("vendor_bill.locked", c)
           /\ Entries("vendor_bill.voided", c)' = Entries("vendor_bill.voided", c)
    BY <1>3
  <2> QED BY <1>5, <2>1, <2>3, <2>4, <2>5 DEF IInv, BillSide, BillIsJournalled
<1>9. CorrectedOnce'
  <2>1. ASSUME b \notin stale'
        PROVE  Entries("vendor_bill.voided", b) = {}
    <3>1. bill[b].status # "void" /\ b \notin stale
      BY <1>1, <1>4, <2>1
    <3>2. ~bill[b].voided
      BY <1>1, <3>1 DEF IInv, BillSide, CorrectedOnce
    <3> QED BY <1>1, <3>2 DEF IInv, BillSide, BillIsJournalled
  <2> QED BY <1>3, <1>4, <1>5, <2>1 DEF IInv, BillSide, CorrectedOnce
<1>10. ExpenseSide'
  <2>1. \A e : Entries("expense.locked", e)' = Entries("expense.locked", e)
    BY <1>3
  <2>2. \A e : \A i \in Entries("expense.locked", e) : ledger'[i] = ledger[i]
    BY <1>3 DEF Entries
  <2> QED BY <1>4, <2>1, <2>2, ExpenseSideKept DEF IInv
<1> QED BY <1>6, <1>7, <1>8, <1>9, <1>10 DEF IInv, BillSide

\* schedulePayment and markPaid write no ledger row; what they leave is a bill that
\* is locked as before, and paid or as it was.
LEMMA PaymentIInv ==
    ASSUME IInv, NEW h \in Handlers, SchedulePayment(h) \/ MarkPaid(h)
    PROVE  IInv'
<1> DEFINE b == req[h].doc
<1>1. /\ b \in Bills /\ b \in Documents /\ req[h].status = "approved" /\ bill[b].locked
  BY AboutToWriteBill DEF BillOps, SchedulePayment, MarkPaid
<1>2. NoteRead(h, bill[b].status) /\ Done(h) /\ UNCHANGED <<expense, files, ledger, outbox, fails>>
  BY DEF SchedulePayment, MarkPaid
<1>3. /\ stale \subseteq stale' /\ stale' \subseteq Documents
      /\ bill[b].status # "approved" => b \in stale'
  BY <1>1, <1>2, Noted DEF IInv
<1>4. /\ bill' \in [Bills -> Bill]
      /\ bill'[b].status \in {bill[b].status, "paid"}
      /\ bill'[b].locked = bill[b].locked /\ bill'[b].voided = bill[b].voided
      /\ \A c \in Bills : c # b => bill'[c] = bill[c]
  <2>1. CASE SchedulePayment(h)
    BY <1>1, <2>1 DEF SchedulePayment, IInv, TypeOK, Bill
  <2>2. CASE MarkPaid(h)
    BY <1>1, <2>2 DEF MarkPaid, IInv, TypeOK, Bill, BillStatus
  <2> QED BY <2>1, <2>2
<1>5. req' \in [Handlers -> Request] /\ Held'
  <2>1. \A c \in Bills : bill[c].locked => bill'[c].locked
    BY <1>4
  <2> QED BY <1>2, <2>1, HeldAfterDone DEF IInv
<1>6. TypeOK'
  BY <1>2, <1>3, <1>4, <1>5 DEF IInv, TypeOK
<1>7. \A event, doc : Entries(event, doc)' = Entries(event, doc)
  BY <1>2, SameLedgerSameEntries
<1>8. BillIsJournalled'
  BY <1>1, <1>4, <1>7 DEF IInv, BillSide, BillIsJournalled
<1>9. CorrectedOnce'
  <2>1. ASSUME b \notin stale'
        PROVE  ~bill[b].voided
    BY <1>1, <1>3, <2>1 DEF IInv, BillSide, CorrectedOnce
  <2> QED BY <1>3, <1>4, <1>7, <2>1 DEF IInv, BillSide, CorrectedOnce
<1>10. ExpenseSide'
  BY <1>2, <1>3, QuietForExpenses
<1> QED BY <1>5, <1>6, <1>8, <1>9, <1>10 DEF IInv, BillSide

\* What a handler that is about to write to an expense knows of it.
LEMMA AboutToWriteExpense ==
    ASSUME IInv, NEW h \in Handlers, NEW op \in ExpenseOps, Doing(h, op)
    PROVE  /\ req[h].doc \in Expenses /\ req[h].doc \in Documents
           /\ req[h].status = "pending" /\ req[h].receipt \in Nat
  BY DEF IInv, Held, HeldExpense, Doing, Documents

LEMMA UploadReceiptIInv == ASSUME IInv, NEW h \in Handlers, UploadReceipt(h) PROVE IInv'
<1> DEFINE e == req[h].doc
<1> USE DEF UploadReceipt
<1>1. e \in Expenses /\ req[h].receipt \in Nat
  BY AboutToWriteExpense DEF ExpenseOps
<1>2. req' \in [Handlers -> Request] /\ Held'
  BY HeldAfterDone DEF IInv
<1>3. /\ expense' \in [Expenses -> Expense]
      /\ \A d \in Expenses : expense'[d].status = expense[d].status
      /\ \A d \in Expenses : expense[d].status # "pending" => expense'[d] = expense[d]
  BY <1>1 DEF IInv, TypeOK, Expense
<1>4. TypeOK'
  BY <1>2, <1>3 DEF IInv, TypeOK
<1>5. \A event, doc : Entries(event, doc)' = Entries(event, doc)
  BY SameLedgerSameEntries
<1>6. Fresh'
  BY <1>3, <1>5 DEF IInv, ExpenseSide, Fresh
<1>7. VouchedReceipt'
  BY <1>3, <1>5 DEF IInv, ExpenseSide, VouchedReceipt, Fresh
<1>8. BookedOnce'
  BY <1>3, <1>5 DEF IInv, ExpenseSide, BookedOnce
<1>9. BookedStaysApproved'
  BY <1>3, <1>5 DEF IInv, ExpenseSide, BookedStaysApproved
<1>10. BillSide'
  BY QuietForBills
<1> QED BY <1>2, <1>4, <1>6, <1>7, <1>8, <1>9, <1>10 DEF IInv, ExpenseSide

LEMMA ApproveExpenseIInv == ASSUME IInv, NEW h \in Handlers, ApproveExpense(h) PROVE IInv'
<1>0. PICK e : e = req[h].doc
  OBVIOUS
<1> USE DEF ApproveExpense, StillAsRead
<1>1. e \in Expenses /\ e \in Documents /\ req[h].receipt \in Nat
  BY <1>0, AboutToWriteExpense DEF ExpenseOps
<1>2. [event |-> "expense.locked", doc |-> e, receipt |-> req[h].receipt] \in Entry
  BY <1>0, <1>1 DEF Entry
<1>3. /\ ledger' \in Seq(Entry) /\ Len(ledger) \in Nat
      /\ \A i \in 1..Len(ledger) : ledger'[i] = ledger[i]
      /\ ledger'[Len(ledger) + 1] = [event |-> "expense.locked", doc |-> e, receipt |-> req[h].receipt]
      /\ \A event, doc :
           Entries(event, doc)' = IF event = "expense.locked" /\ doc = e
                                    THEN Entries(event, doc) \union {Len(ledger) + 1}
                                    ELSE Entries(event, doc)
  BY <1>0, <1>2, AppendedEntries DEF IInv, TypeOK
<1>4. Entries("expense.locked", e) = {}
  BY <1>0, <1>1 DEF IInv, ExpenseSide, Fresh
<1>5. /\ Entries("expense.locked", e)' = {Len(ledger) + 1}
      /\ \A d \in Expenses : d # e => Entries("expense.locked", d)' = Entries("expense.locked", d)
      /\ \A d \in Expenses : \A i \in Entries("expense.locked", d) : ledger'[i] = ledger[i]
  <2>1. \A d : \A i \in Entries("expense.locked", d) : i \in 1..Len(ledger)
    BY DEF Entries
  <2> QED BY <1>3, <1>4, <2>1
<1>6. /\ expense' \in [Expenses -> Expense]
      /\ expense'[e].status = "approved" /\ expense'[e].receipt = req[h].receipt
      /\ \A d \in Expenses : d # e => expense'[d] = expense[d]
  BY <1>0, <1>1 DEF IInv, TypeOK, Expense, ExpenseStatus
<1>7. req' \in [Handlers -> Request] /\ Held'
  BY HeldAfterDone DEF IInv
<1>8. outbox' \in Seq(Expenses)
  BY <1>0, <1>1 DEF IInv, TypeOK
<1>9. TypeOK'
  BY <1>3, <1>6, <1>7, <1>8 DEF IInv, TypeOK
<1>10. Fresh'
  BY <1>5, <1>6 DEF IInv, ExpenseSide, Fresh
<1>11. VouchedReceipt'
  <2>1. ASSUME NEW d \in Expenses, NEW i \in Entries("expense.locked", d)'
        PROVE  ledger'[i].receipt = expense'[d].receipt
    <3>1. CASE d = e
      BY <1>3, <1>5, <1>6, <2>1, <3>1
    <3>2. CASE d # e
      BY <1>5, <1>6, <2>1, <3>2 DEF IInv, ExpenseSide, VouchedReceipt
    <3> QED BY <3>1, <3>2
  <2> QED BY <2>1 DEF VouchedReceipt
<1>12. BookedOnce'
  <2> DEFINE Events(d) == {i \in 1..Len(outbox) : outbox[i] = d}
  <2>1. Events(e) = {}
    BY <1>1, <1>4 DEF IInv, ExpenseSide, BookedOnce
  <2>2. /\ Len(outbox) \in Nat /\ Len(outbox') = Len(outbox) + 1
        /\ \A i \in 1..Len(outbox) : outbox'[i] = outbox[i]
        /\ outbox'[Len(outbox) + 1] = e
    BY <1>0, <1>1 DEF IInv, TypeOK
  <2>3. Events(e)' = {Len(outbox) + 1}
    BY <2>1, <2>2
  <2>4. \A d \in Expenses : d # e => Events(d)' = Events(d)
    BY <2>2
  <2>5. ASSUME NEW d \in Expenses
        PROVE  /\ \A i, j \in Events(d)' : i = j
               /\ \A i, j \in Entries("expense.locked", d)' : i = j
               /\ Events(d)' = {} <=> Entries("expense.locked", d)' = {}
               /\ expense'[d].status = "approved" => Entries("expense.locked", d)' # {}
    <3>1. CASE d = e
      <4>1. Events(d)' = {Len(outbox) + 1}
        BY <2>3, <3>1
      <4>2. Entries("expense.locked", d)' = {Len(ledger) + 1}
        BY <1>5, <3>1
      <4> HIDE DEF Events
      <4> QED BY <4>1, <4>2
    <3>2. CASE d # e
      BY <1>5, <1>6, <2>4, <3>2 DEF IInv, ExpenseSide, BookedOnce
    <3> QED BY <3>1, <3>2
  <2> QED BY <2>5 DEF BookedOnce
<1>13. BookedStaysApproved'
  BY <1>5, <1>6 DEF IInv, ExpenseSide, BookedStaysApproved
<1>14. BillSide'
  <2>1. \A event \in {"vendor_bill.locked", "vendor_bill.voided"}, b \in Bills :
           Entries(event, b)' = Entries(event, b)
    BY <1>3
  <2> QED BY <2>1, BillSideKept DEF IInv
<1> QED BY <1>7, <1>9, <1>10, <1>11, <1>12, <1>13, <1>14 DEF IInv, ExpenseSide

LEMMA RejectExpenseIInv == ASSUME IInv, NEW h \in Handlers, RejectExpense(h) PROVE IInv'
<1> DEFINE e == req[h].doc
<1> USE DEF RejectExpense
<1>1. e \in Expenses /\ e \in Documents /\ req[h].status = "pending"
  BY AboutToWriteExpense DEF ExpenseOps
<1>2. req' \in [Handlers -> Request] /\ Held'
  BY HeldAfterDone DEF IInv
<1>3. /\ stale \subseteq stale' /\ stale' \subseteq Documents
      /\ expense[e].status # "pending" => e \in stale'
  BY <1>1, Noted DEF IInv
<1>4. /\ expense' \in [Expenses -> Expense]
      /\ expense'[e].status = "rejected" /\ expense'[e].receipt = expense[e].receipt
      /\ \A d \in Expenses : d # e => expense'[d] = expense[d]
  BY <1>1 DEF IInv, TypeOK, Expense, ExpenseStatus
<1>5. TypeOK'
  BY <1>2, <1>3, <1>4 DEF IInv, TypeOK
<1>6. \A event, doc : Entries(event, doc)' = Entries(event, doc)
  BY SameLedgerSameEntries
<1>7. Fresh'
  BY <1>4, <1>6 DEF IInv, ExpenseSide, Fresh
<1>8. VouchedReceipt'
  BY <1>4, <1>6 DEF IInv, ExpenseSide, VouchedReceipt
<1>9. BookedOnce'
  BY <1>4, <1>6 DEF IInv, ExpenseSide, BookedOnce
<1>10. BookedStaysApproved'
  BY <1>1, <1>3, <1>4, <1>6 DEF IInv, ExpenseSide, BookedStaysApproved, Fresh
<1>11. BillSide'
  BY <1>3, QuietForBills
<1> QED BY <1>2, <1>5, <1>7, <1>8, <1>9, <1>10, <1>11 DEF IInv, ExpenseSide

\* A refusal or a death changes nothing but the handler.
LEMMA EndedIInv ==
    ASSUME IInv, NEW h \in Handlers, ApproveRefused(h) \/ Fail(h)
    PROVE  IInv'
<1>1. Done(h) /\ UNCHANGED <<bill, expense, files, ledger, outbox, stale>>
  BY DEF ApproveRefused, Fail
<1>2. fails' \in 0..MaxFails
  BY DocumentsAssumption DEF ApproveRefused, Fail, IInv, TypeOK
<1>3. req' \in [Handlers -> Request] /\ Held'
  BY <1>1, HeldAfterDone DEF IInv
<1>4. BillSide' /\ ExpenseSide'
  BY <1>1, QuietStep
<1> QED BY <1>1, <1>2, <1>3, <1>4 DEF IInv, TypeOK

\* Every step preserves the invariant.
LEMMA NextIInv == IInv /\ [Next]_vars => IInv'
<1> SUFFICES ASSUME IInv, [Next]_vars PROVE IInv'
  OBVIOUS
<1>1. CASE UNCHANGED vars
  <2>1. BillSide' /\ ExpenseSide'
    BY <1>1, QuietStep DEF vars
  <2> QED BY <1>1, <2>1 DEF vars, IInv, TypeOK, Held, HeldBill, HeldExpense
<1>2. CASE \E b \in Bills : CreateBill(b)
  BY <1>2, CreateBillIInv
<1>3. CASE \E e \in Expenses : CreateExpense(e)
  BY <1>3, CreateExpenseIInv
<1>4. ASSUME NEW h \in Handlers,
             \/ \E op \in BillOps, b \in Bills : ReadBill(h, op, b)
             \/ \E op \in ExpenseOps, e \in Expenses : ReadExpense(h, op, e)
             \/ ApproveBill(h) \/ VoidBill(h) \/ SchedulePayment(h) \/ MarkPaid(h)
             \/ UploadReceipt(h) \/ ApproveExpense(h) \/ ApproveRefused(h) \/ RejectExpense(h)
             \/ Fail(h)
      PROVE  IInv'
  BY <1>4, ReadBillIInv, ReadExpenseIInv, ApproveBillIInv, VoidBillIInv, PaymentIInv,
     UploadReceiptIInv, ApproveExpenseIInv, RejectExpenseIInv, EndedIInv
<1> QED BY <1>1, <1>2, <1>3, <1>4 DEF Next

-----------------------------------------------------------------------------
(***************************************************************************)
(* The theorems.                                                           *)
(***************************************************************************)

\* The invariant holds in every reachable state.
LEMMA IInvAlways == Spec => []IInv
  BY InitIInv, NextIInv, PTL DEF Spec

\* The receipt whose hash approve put into the ledger is the receipt of the expense,
\* for ever, whatever uploads, approvals and rejections overlap.
THEOREM ReceiptsVouched == Spec => []VouchedReceipt
<1>1. IInv => VouchedReceipt
  BY DEF IInv, ExpenseSide
<1> QED BY <1>1, IInvAlways, PTL

\* approve books an expense once, with its event, and it stays approved unless a
\* reject had read it before.
THEOREM ExpensesBookedOnce == Spec => []ExpenseBooked
<1>1. IInv => ExpenseBooked
  BY DEF IInv, ExpenseSide, ExpenseBooked
<1> QED BY <1>1, IInvAlways, PTL

\* approve and void of a bill keep its row and the ledger in step; a bill on which no
\* two handlers collided is locked once and voided once, and stays void.
THEOREM BillsJournalled == Spec => []BillJournal
<1>1. IInv => BillJournal
  BY DEF IInv, BillSide, BillJournal
<1> QED BY <1>1, IInvAlways, PTL

=============================================================================
