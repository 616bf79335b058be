-------------------------- MODULE LockedDocuments --------------------------
(***************************************************************************)
(* Supplier bills (VendorBillsService, materials/vendor-bills.service.ts)  *)
(* and workers' expenses (ExpensesService, team/expenses.service.ts): the  *)
(* documents of a company that, like its invoices, are locked in the GoBD  *)
(* ledger when they are approved.                                          *)
(*                                                                         *)
(* Every handler reads the document, decides on what it read, and writes   *)
(* later; another handler may come in between. Some writes name what they  *)
(* rely on in their WHERE (expenses' approve and uploadReceipt), the       *)
(* others are unconditional. A runSerializable transaction is one step     *)
(* (module GobdLedger has its inside); `stale` remembers the documents     *)
(* that were written by a handler whose read was out of date.              *)
(*                                                                         *)
(* What is on a document other than its status and its receipt never       *)
(* changes, and is left out. A receipt is the key of its file in storage;  *)
(* every save makes a new key, so the key stands for the bytes.            *)
(***************************************************************************)
EXTENDS Integers, Sequences, FiniteSets

CONSTANTS
    Bills, Expenses,    \* the documents
    Handlers,           \* requests in progress at one time
    MaxFiles,           \* bound: receipts uploaded
    MaxFails            \* bound: handlers that die or give up before they write

ASSUME DocumentsAssumption ==
    /\ Bills \intersect Expenses = {}
    /\ MaxFiles \in Nat /\ MaxFails \in Nat

VARIABLES
    bill,       \* the VendorBill rows
    expense,    \* the Expense rows
    files,      \* how many receipts are in storage
    ledger,     \* the GobdLedgerEntry rows
    outbox,     \* the expense.approved events: the expense of each
    req,        \* what each handler does, and what it read
    stale,      \* documents written on an outdated read (not in the code)
    fails

vars == <<bill, expense, files, ledger, outbox, req, stale, fails>>

-----------------------------------------------------------------------------
Documents == Bills \union Expenses
NoFile == 0

BillStatus == {"none", "draft", "approved", "paid", "void"}
ExpenseStatus == {"none", "pending", "approved", "rejected"}

Bill == [status : BillStatus, locked : BOOLEAN, voided : BOOLEAN, scheduled : BOOLEAN]
Expense == [status : ExpenseStatus, receipt : Nat]
Entry == [event : {"vendor_bill.locked", "vendor_bill.voided", "expense.locked"},
          doc : Documents, receipt : Nat]

NewBill == [status |-> "none", locked |-> FALSE, voided |-> FALSE, scheduled |-> FALSE]
NewExpense == [status |-> "none", receipt |-> NoFile]

BillOps == {"approveBill", "voidBill", "schedulePayment", "markPaid"}
ExpenseOps == {"uploadReceipt", "approveExpense", "rejectExpense"}

Idle == [op |-> "none"]
Request == {Idle} \union [op : BillOps, doc : Bills, status : BillStatus]
                  \union [op : ExpenseOps, doc : Expenses, status : ExpenseStatus, receipt : Nat]

Init ==
    /\ bill = [b \in Bills |-> NewBill]
    /\ expense = [e \in Expenses |-> NewExpense]
    /\ files = 0
    /\ ledger = <<>> /\ outbox = <<>>
    /\ req = [h \in Handlers |-> Idle]
    /\ stale = {}
    /\ fails = 0

Idling(h) == req[h].op = "none"
Doing(h, op) == req[h].op = op
Done(h) == req' = [req EXCEPT ![h] = Idle]

\* gobdLedger.append
LedgerAppend(event, doc, receipt) ==
    ledger' = Append(ledger, [event |-> event, doc |-> doc, receipt |-> receipt])

-----------------------------------------------------------------------------
(***************************************************************************)
(* Vendor bills.                                                           *)
(***************************************************************************)
CreateBill(b) ==
    /\ bill[b].status = "none"
    /\ bill' = [bill EXCEPT ![b].status = "draft"]
    /\ UNCHANGED <<expense, files, ledger, outbox, req, stale, fails>>

\* void does not look whether the bill was voided before.
BillAllows_voidAgain(op, b) ==
    CASE op = "approveBill" -> b.status = "draft"
      [] op = "voidBill" -> b.locked
      [] OTHER -> b.status = "approved"

\* The checks of approve, void, schedulePayment and markPaid.
BillAllows(op, b) ==
    CASE op = "approveBill" -> b.status = "draft"
      [] op = "voidBill" -> b.locked /\ b.status # "void"
      [] OTHER -> b.status = "approved"

\* findOrThrow and the checks.
ReadBill(h, op, b) ==
    /\ Idling(h) /\ bill[b].status # "none"
    /\ BillAllows(op, bill[b])
    /\ req' = [req EXCEPT ![h] = [op |-> op, doc |-> b, status |-> bill[b].status]]
    /\ UNCHANGED <<bill, expense, files, ledger, outbox, stale, fails>>

\* A document that is no longer in the status the handler read is remembered.
NoteRead(h, status) ==
    stale' = IF status # req[h].status THEN stale \union {req[h].doc} ELSE stale

\* approve: status, lockedAt and the ledger row in one transaction.
ApproveBill(h) ==
    LET b == req[h].doc IN
    /\ Doing(h, "approveBill")
    /\ bill' = [bill EXCEPT ![b].status = "approved", ![b].locked = TRUE]
    /\ LedgerAppend("vendor_bill.locked", b, NoFile)
    /\ NoteRead(h, bill[req[h].doc].status) /\ Done(h)
    /\ UNCHANGED <<expense, files, outbox, fails>>

\* The bill is voided and the ledger not told.
VoidBill_silently(h) ==
    LET b == req[h].doc IN
    /\ Doing(h, "voidBill")
    /\ bill' = [bill EXCEPT ![b].status = "void", ![b].voided = TRUE]
    /\ NoteRead(h, bill[req[h].doc].status) /\ Done(h)
    /\ UNCHANGED <<expense, files, ledger, outbox, fails>>

\* void: status, voidedAt and the ledger row in one transaction.
VoidBill(h) ==
    LET b == req[h].doc IN
    /\ Doing(h, "voidBill")
    /\ bill' = [bill EXCEPT ![b].status = "void", ![b].voided = TRUE]
    /\ LedgerAppend("vendor_bill.voided", b, NoFile)
    /\ NoteRead(h, bill[req[h].doc].status) /\ Done(h)
    /\ UNCHANGED <<expense, files, outbox, fails>>

\* schedulePayment and markPaid: one unconditional update each.
SchedulePayment(h) ==
    /\ Doing(h, "schedulePayment")
    /\ bill' = [bill EXCEPT ![req[h].doc].scheduled = TRUE]
    /\ NoteRead(h, bill[req[h].doc].status) /\ Done(h)
    /\ UNCHANGED <<expense, files, ledger, outbox, fails>>

MarkPaid(h) ==
    /\ Doing(h, "markPaid")
    /\ bill' = [bill EXCEPT ![req[h].doc].status = "paid"]
    /\ NoteRead(h, bill[req[h].doc].status) /\ Done(h)
    /\ UNCHANGED <<expense, files, ledger, outbox, fails>>

-----------------------------------------------------------------------------
(***************************************************************************)
(* Expenses.                                                               *)
(***************************************************************************)
CreateExpense(e) ==
    /\ expense[e].status = "none"
    /\ expense' = [expense EXCEPT ![e].status = "pending"]
    /\ UNCHANGED <<bill, files, ledger, outbox, req, stale, fails>>

\* An expense can be rejected at any time.
ReadExpense_rejectAny(h, op, e) ==
    /\ Idling(h) /\ expense[e].status # "none"
    /\ op # "rejectExpense" => expense[e].status = "pending"
    /\ op = "uploadReceipt" => files < MaxFiles
    /\ files' = IF op = "uploadReceipt" THEN files + 1 ELSE files
    /\ req' = [req EXCEPT ![h] =
                 [op |-> op, doc |-> e, status |-> expense[e].status,
                  receipt |-> IF op = "uploadReceipt" THEN files + 1 ELSE expense[e].receipt]]
    /\ UNCHANGED <<bill, expense, ledger, outbox, stale, fails>>

\* Every expense operation reads the expense and refuses unless it is pending.
\* uploadReceipt then saves the file, approve hashes the one it read.
ReadExpense(h, op, e) ==
    /\ Idling(h) /\ expense[e].status = "pending"
    /\ op = "uploadReceipt" => files < MaxFiles
    /\ files' = IF op = "uploadReceipt" THEN files + 1 ELSE files
    /\ req' = [req EXCEPT ![h] =
                 [op |-> op, doc |-> e, status |-> expense[e].status,
                  receipt |-> IF op = "uploadReceipt" THEN files + 1 ELSE expense[e].receipt]]
    /\ UNCHANGED <<bill, expense, ledger, outbox, stale, fails>>

\* uploadReceipt's conditional write; a 409 leaves the file in storage.
UploadReceipt(h) ==
    LET e == req[h].doc IN
    /\ Doing(h, "uploadReceipt")
    /\ expense' = IF expense[e].status = "pending"
                    THEN [expense EXCEPT ![e].receipt = req[h].receipt]
                    ELSE expense
    /\ Done(h)
    /\ UNCHANGED <<bill, files, ledger, outbox, stale, fails>>

\* Only the status is checked again.
StillAsRead_statusOnly(h) == expense[req[h].doc].status = "pending"

\* Only the receipt is checked again.
StillAsRead_receiptOnly(h) == expense[req[h].doc].receipt = req[h].receipt

\* The WHERE of approve's updateMany: still pending, still the receipt that was hashed.
StillAsRead(h) ==
    /\ expense[req[h].doc].status = "pending"
    /\ expense[req[h].doc].receipt = req[h].receipt

\* approve: status, ledger row and event in one transaction.
ApproveExpense(h) ==
    LET e == req[h].doc IN
    /\ Doing(h, "approveExpense")
    /\ StillAsRead(h)
    /\ expense' = [expense EXCEPT ![e].status = "approved"]
    /\ LedgerAppend("expense.locked", e, req[h].receipt)
    /\ outbox' = Append(outbox, e)
    /\ Done(h)
    /\ UNCHANGED <<bill, files, stale, fails>>

\* The 409 of approve: "This expense changed while it was being approved".
ApproveRefused(h) ==
    /\ Doing(h, "approveExpense") /\ ~StillAsRead(h)
    /\ Done(h)
    /\ UNCHANGED <<bill, expense, files, ledger, outbox, stale, fails>>

\* reject: an unconditional update.
RejectExpense(h) ==
    LET e == req[h].doc IN
    /\ Doing(h, "rejectExpense")
    /\ expense' = [expense EXCEPT ![e].status = "rejected"]
    /\ NoteRead(h, expense[e].status) /\ Done(h)
    /\ UNCHANGED <<bill, files, ledger, outbox, fails>>

-----------------------------------------------------------------------------
\* The process dies, or the transaction gives up (409), before anything is written.
Fail(h) ==
    /\ ~Idling(h) /\ fails < MaxFails
    /\ fails' = fails + 1
    /\ Done(h)
    /\ UNCHANGED <<bill, expense, files, ledger, outbox, stale>>

Next ==
    \/ \E b \in Bills : CreateBill(b)
    \/ \E e \in Expenses : CreateExpense(e)
    \/ \E h \in Handlers :
         \/ \E op \in BillOps, b \in Bills : ReadBill(h, op, b)
         \/ \E op \in ExpenseOps, e \in Expenses : ReadExpense(h, op, e)
         \/ ApproveBill(h) \/ VoidBill(h) \/ SchedulePayment(h) \/ MarkPaid(h)
         \/ UploadReceipt(h) \/ ApproveExpense(h) \/ ApproveRefused(h) \/ RejectExpense(h)
         \/ Fail(h)

Spec == Init /\ [][Next]_vars

-----------------------------------------------------------------------------
(***************************************************************************)
(* Properties.                                                             *)
(***************************************************************************)

TypeOK ==
    /\ bill \in [Bills -> Bill] /\ expense \in [Expenses -> Expense]
    /\ files \in 0..MaxFiles
    /\ ledger \in Seq(Entry) /\ outbox \in Seq(Expenses)
    /\ req \in [Handlers -> Request]
    /\ stale \subseteq Documents /\ fails \in 0..MaxFails

Entries(event, doc) ==
    {i \in 1..Len(ledger) : ledger[i].event = event /\ ledger[i].doc = doc}

\* "otherwise the ledger would vouch for a file the expense no longer points at":
\* the receipt whose hash is in the ledger is the receipt of the expense, for
\* ever, whatever uploads, approvals and rejections overlap.
VouchedReceipt ==
    \A e \in Expenses : \A i \in Entries("expense.locked", e) :
        ledger[i].receipt = expense[e].receipt

\* An expense is booked once at most: one ledger entry, with one expense.approved
\* event, and an approved expense has both.
BookedOnce ==
    \A e \in Expenses :
        LET events == {i \in 1..Len(outbox) : outbox[i] = e}
            booked == Entries("expense.locked", e)
        IN  /\ \A i, j \in events : i = j
            /\ \A i, j \in booked : i = j
            /\ events = {} <=> booked = {}
            /\ expense[e].status = "approved" => booked # {}

\* A booked expense stays approved: only a rejection that had read the expense
\* before the approval overwrites it ("Only a pending expense can be rejected").
BookedStaysApproved ==
    \A e \in Expenses :
        Entries("expense.locked", e) # {} => expense[e].status = "approved" \/ e \in stale

\* A bill carries a lock exactly when the ledger says so, a void date exactly when
\* the ledger says so, and the ledger tells of the lock first.
BillIsJournalled ==
    \A b \in Bills :
        LET locks == Entries("vendor_bill.locked", b)
            voids == Entries("vendor_bill.voided", b)
        IN  /\ bill[b].locked <=> locks # {}
            /\ bill[b].voided <=> voids # {}
            /\ bill[b].locked <=> bill[b].status \in {"approved", "paid", "void"}
            /\ bill[b].status = "void" => bill[b].voided
            /\ \A j \in voids : \E i \in locks : i < j

\* A bill is locked once and voided once, and a voided bill stays void, except
\* where two handlers had read it before either wrote.
CorrectedOnce ==
    \A b \in Bills \ stale :
        /\ \A i, j \in Entries("vendor_bill.locked", b) : i = j
        /\ \A i, j \in Entries("vendor_bill.voided", b) : i = j
        /\ bill[b].voided => bill[b].status = "void"

\* An expense is booked once, with its event, and stays approved from then on, save
\* for a rejection that had read it while it was pending.
ExpenseBooked == BookedOnce /\ BookedStaysApproved

\* A bill and the ledger tell the same story whatever overlaps, and it has one lock
\* and at most one void unless two handlers had read it before either wrote.
BillJournal == TypeOK /\ BillIsJournalled /\ CorrectedOnce

=============================================================================
