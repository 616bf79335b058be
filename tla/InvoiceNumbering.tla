-------------------------- MODULE InvoiceNumbering --------------------------
(***************************************************************************)
(* How the INV-#### numbers of one company are handed out:                 *)
(* createInvoiceWithNumber (finance/invoice-numbering.ts) counts the       *)
(* company's invoices, tries to create number count + 1 and starts over    *)
(* when the unique index on (companyId, number) rejects the row.           *)
(*                                                                         *)
(* Three kinds of caller run it side by side:                              *)
(*   "direct"     generateFromEstimate, generateProgressInvoice and        *)
(*                releaseRetainage: each attempt is one create statement;  *)
(*   "storno"     void: each attempt is a SERIALIZABLE transaction of its  *)
(*                own, itself repeated on a write conflict                 *)
(*                (runSerializable);                                       *)
(*   "recurring"  generateInvoice of a recurring template: count, create   *)
(*                and retry all run inside ONE interactive transaction, so *)
(*                the first failed statement poisons the rest of it.       *)
(*                                                                         *)
(* An INSERT of a number that another transaction has inserted and not yet *)
(* committed waits for that transaction, as a unique index does.           *)
(***************************************************************************)
EXTENDS Naturals, Sequences

CONSTANTS
    Creators,       \* the requests and queue jobs that create one invoice each
    Kind,           \* which caller each of them is
    MaxAttempts,    \* MAX_ATTEMPTS of invoice-numbering.ts (5 in the code)
    MaxTxAttempts   \* MAX_ATTEMPTS of serializable-transaction.ts (8 in the code)

Kinds == {"direct", "storno", "recurring"}

ASSUME KindAssumption == Kind \in [Creators -> Kinds]
ASSUME AttemptsAssumption == /\ MaxAttempts \in Nat \ {0}
                             /\ MaxTxAttempts \in Nat \ {0}

VARIABLES
    rows,       \* numbers of the committed invoices, in the order they committed
    pending,    \* the number each open transaction has inserted (0: none)
    pc,         \* where each creator is
    number,     \* the number it computed last
    attempt,    \* its attempt in createInvoiceWithNumber
    txAttempt,  \* its attempt in runSerializable
    outcome     \* how it ended: "none" while it has not

numVars == <<rows, pending, pc, number, attempt, txAttempt, outcome>>

PCs == {"idle", "counting", "creating", "inserted", "done", "failed"}
Outcomes == {"none", "created", "clash", "poisoned", "conflict", "aborted"}

NumTypeOK ==
    /\ rows \in Seq(Nat)
    /\ pending \in [Creators -> Nat]
    /\ pc \in [Creators -> PCs]
    /\ number \in [Creators -> Nat]
    /\ attempt \in [Creators -> 1..MaxAttempts]
    /\ txAttempt \in [Creators -> 1..MaxTxAttempts]
    /\ outcome \in [Creators -> Outcomes]

NumInit ==
    /\ rows = <<>>
    /\ pending = [c \in Creators |-> 0]
    /\ pc = [c \in Creators |-> "idle"]
    /\ number = [c \in Creators |-> 0]
    /\ attempt = [c \in Creators |-> 1]
    /\ txAttempt = [c \in Creators |-> 1]
    /\ outcome = [c \in Creators |-> "none"]

-----------------------------------------------------------------------------
(***************************************************************************)
(* The database.                                                           *)
(***************************************************************************)

\* Definitions with a suffix (here _noIndex) are plausible bugs; each is put in
\* place of the definition that follows it to show that a property notices.
NumberTaken_noIndex(n) == FALSE

\* The unique index on (companyId, number) rejects n.
NumberTaken(n) == \E i \in 1..Len(rows) : rows[i] = n

\* Another open transaction holds the index entry of n: the INSERT waits.
InsertBlocked(c, n) == \E d \in Creators \ {c} : pending[d] = n

\* The count also sees rows that are not committed yet.
NextNumber_dirtyRead ==
    Len(rows) + 1 + (IF \E c \in Creators : pending[c] > 0 THEN 1 ELSE 0)

\* The number the row count gives at this moment: count(where: companyId) + 1.
NextNumber == Len(rows) + 1

EndCreator(c, how) ==
    /\ pc' = [pc EXCEPT ![c] = IF how = "created" THEN "done" ELSE "failed"]
    /\ outcome' = [outcome EXCEPT ![c] = how]

-----------------------------------------------------------------------------
(***************************************************************************)
(* createInvoiceWithNumber.                                                *)
(***************************************************************************)

\* The caller's checks have passed and it enters the loop.
Request(c) ==
    /\ pc[c] = "idle"
    /\ pc' = [pc EXCEPT ![c] = "counting"]
    /\ UNCHANGED <<rows, pending, number, attempt, txAttempt, outcome>>

CountInvoices(c) ==
    /\ pc[c] = "counting"
    /\ number' = [number EXCEPT ![c] = NextNumber]
    /\ txAttempt' = [txAttempt EXCEPT ![c] = 1]
    /\ pc' = [pc EXCEPT ![c] = "creating"]
    /\ UNCHANGED <<rows, pending, attempt, outcome>>

\* The single create statement of a direct caller.
CreateDirect(c) ==
    /\ pc[c] = "creating" /\ Kind[c] = "direct"
    /\ ~InsertBlocked(c, number[c])
    /\ ~NumberTaken(number[c])
    /\ rows' = Append(rows, number[c])
    /\ EndCreator(c, "created")
    /\ UNCHANGED <<pending, number, attempt, txAttempt>>

\* The create statement of a caller whose transaction stays open after it.
InsertInTransaction(c) ==
    /\ pc[c] = "creating" /\ Kind[c] # "direct"
    /\ ~InsertBlocked(c, number[c])
    /\ ~NumberTaken(number[c])
    /\ pending' = [pending EXCEPT ![c] = number[c]]
    /\ pc' = [pc EXCEPT ![c] = "inserted"]
    /\ UNCHANGED <<rows, number, attempt, txAttempt, outcome>>

\* The INSERT does not wait for the other transaction but reports a clash.
NumberClash_noWait(c) ==
    /\ pc[c] = "creating"
    /\ InsertBlocked(c, number[c]) \/ NumberTaken(number[c])
    /\ IF attempt[c] = MaxAttempts
         THEN EndCreator(c, "clash") /\ UNCHANGED attempt
         ELSE /\ attempt' = [attempt EXCEPT ![c] = @ + 1]
              /\ pc' = [pc EXCEPT ![c] = "counting"]
              /\ UNCHANGED outcome
    /\ UNCHANGED <<rows, pending, number, txAttempt>>

\* P2002 on "number". Outside a transaction the loop goes round again with a
\* fresh count; inside the recurring job's transaction that next count fails
\* (the transaction is aborted) and the error propagates.
NumberClash(c) ==
    /\ pc[c] = "creating"
    /\ ~InsertBlocked(c, number[c])
    /\ NumberTaken(number[c])
    /\ IF attempt[c] = MaxAttempts
         THEN /\ EndCreator(c, "clash")
              /\ UNCHANGED attempt
         ELSE IF Kind[c] = "recurring"
         THEN /\ EndCreator(c, "poisoned")
              /\ UNCHANGED attempt
         ELSE /\ attempt' = [attempt EXCEPT ![c] = @ + 1]
              /\ pc' = [pc EXCEPT ![c] = "counting"]
              /\ UNCHANGED outcome
    /\ UNCHANGED <<rows, pending, number, txAttempt>>

-----------------------------------------------------------------------------
(***************************************************************************)
(* The transaction around the create statement.                            *)
(***************************************************************************)

Commit(c) ==
    /\ pc[c] = "inserted"
    /\ rows' = Append(rows, pending[c])
    /\ pending' = [pending EXCEPT ![c] = 0]
    /\ EndCreator(c, "created")
    /\ UNCHANGED <<number, attempt, txAttempt>>

\* P2034: runSerializable rolls back and runs the callback again with the SAME
\* number, until its attempts are used up (409 to the caller).
WriteConflict(c) ==
    /\ pc[c] \in {"creating", "inserted"} /\ Kind[c] = "storno"
    /\ pending' = [pending EXCEPT ![c] = 0]
    /\ IF txAttempt[c] = MaxTxAttempts
         THEN /\ EndCreator(c, "conflict")
              /\ UNCHANGED txAttempt
         ELSE /\ txAttempt' = [txAttempt EXCEPT ![c] = @ + 1]
              /\ pc' = [pc EXCEPT ![c] = "creating"]
              /\ UNCHANGED outcome
    /\ UNCHANGED <<rows, number, attempt>>

\* The failed transaction is never rolled back.
Abort_leaksTransaction(c) ==
    /\ pc[c] \in {"counting", "creating", "inserted"}
    /\ EndCreator(c, "aborted")
    /\ UNCHANGED <<rows, pending, number, attempt, txAttempt>>

\* Any other error, or the death of the process: the open transaction rolls
\* back and the number it held is free again.
Abort(c) ==
    /\ pc[c] \in {"counting", "creating", "inserted"}
    /\ pending' = [pending EXCEPT ![c] = 0]
    /\ EndCreator(c, "aborted")
    /\ UNCHANGED <<rows, number, attempt, txAttempt>>

Step(c) ==
    \/ CountInvoices(c) \/ CreateDirect(c) \/ InsertInTransaction(c)
    \/ NumberClash(c) \/ Commit(c)

NumNext == \E c \in Creators : Request(c) \/ Step(c) \/ WriteConflict(c) \/ Abort(c)

\* A caller that has entered the loop keeps running while it can; nothing
\* forces a request to arrive, a write to conflict or a process to die.
NumFairness == \A c \in Creators : WF_numVars(Step(c))

NumSpec == NumInit /\ [][NumNext]_numVars /\ NumFairness

-----------------------------------------------------------------------------
(***************************************************************************)
(* Properties.                                                             *)
(***************************************************************************)

\* Invoice numbers are gapless and issued in order: the n-th invoice that
\* commits carries number n, whatever counts its creator's number came from
\* and whatever was rolled back in between (createInvoiceWithNumber and the
\* unique index; sequential numbering is what the Storno of void() relies on).
GaplessInOrder == \A i \in 1..Len(rows) : rows[i] = i

\* Every lost attempt is another caller's success: after k clashes at least k
\* invoices have been created, so a caller that gives up with a number clash
\* lost to at least MAX_ATTEMPTS committed invoices (the retry loop cannot be
\* exhausted by callers that themselves fail).
ClashMeansOthersWon ==
    \A c \in Creators :
        /\ attempt[c] <= Len(rows) + 1
        /\ outcome[c] = "clash" => Len(rows) >= MaxAttempts

\* Every caller that enters the loop ends: no two callers wait for each
\* other's index entry and none retries for ever.
EveryRequestEnds ==
    \A c \in Creators : pc[c] = "counting" ~> pc[c] \in {"done", "failed"}

=============================================================================
