----------------------------- MODULE GobdLedger -----------------------------
(***************************************************************************)
(* The GoBD journal of one company (common/gobd/gobd-ledger.service.ts):   *)
(* an append-only table whose rows chain to each other by hash. append     *)
(* runs inside the SERIALIZABLE transaction of the business change it      *)
(* documents (runSerializable): it reads the last row, extends the chain   *)
(* from it and inserts; verifyChain walks the table and recomputes every   *)
(* hash.                                                                   *)
(*                                                                         *)
(* A request appends one row (an invoice sent, a vendor bill approved or   *)
(* voided, an expense approved) or two (an invoice voided and its Storno   *)
(* issued). SHA-256 is modelled as a constructor: no two inputs collide.   *)
(* A payload is its fields and the key order it is written in, which jsonb *)
(* does not keep.                                                          *)
(*                                                                         *)
(* Tampering is an edit or a deletion that bypasses the append-only        *)
(* trigger: the event verifyChain exists to notice.                        *)
(***************************************************************************)
EXTENDS Integers, Sequences

CONSTANTS
    Requests,       \* the requests that lock, void or approve something
    Entries,        \* how many rows each of them appends: 1 or 2
    MaxAttempts     \* MAX_ATTEMPTS of serializable-transaction.ts (8 in the code)

ASSUME LedgerAssumption ==
    /\ Entries \in [Requests -> 1..2]
    /\ MaxAttempts \in Nat \ {0}

VARIABLES
    ledger,     \* the committed rows, in the order they were committed
    pc,         \* where each request is
    attempt,    \* its attempt in runSerializable
    base,       \* the snapshot its transaction reads
    view,       \* that snapshot followed by the rows the transaction inserted
    tampered    \* the manipulation, if there was one: its kind and the row's sequence

vars == <<ledger, pc, attempt, base, view, tampered>>

-----------------------------------------------------------------------------
(***************************************************************************)
(* Rows and hashes.                                                        *)
(***************************************************************************)

\* null, the previousHash of the first row: no hash is like it.
NoHash == <<>>

\* What a manipulated payload says: nothing a request has written.
Forged == <<>>

\* Both rows of a request carry the first one's payload.
Payload_ofFirst(t, k) == [fields |-> <<t, 1>>, order |-> "written"]

\* The payload of request t's k-th row as the service writes it.
Payload(t, k) == [fields |-> <<t, k>>, order |-> "written"]

\* What jsonb gives back: the same fields, in its own key order.
Stored(payload) == [payload EXCEPT !.order = "jsonb"]

\* The keys are hashed in the order they happen to come in.
Canonicalize_asIs(payload) == payload

\* canonicalize: key order does not count.
Canonicalize(payload) == payload.fields

\* computeHash, over every column that goes into it.
ComputeHash(sequence, payload, previousHash) ==
    <<"sha256", sequence, Canonicalize(payload), previousHash>>

\* The row with the highest sequence (findFirst ... orderBy sequence desc).
LastIndex(rows) ==
    CHOOSE i \in 1..Len(rows) : \A j \in 1..Len(rows) : rows[j].sequence <= rows[i].sequence

\* The new row is numbered but not chained to the last one.
NextRow_unchained(rows, payload) ==
    LET sequence == IF rows = <<>> THEN 1 ELSE rows[LastIndex(rows)].sequence + 1
    IN  [sequence |-> sequence, payload |-> Stored(payload), previousHash |-> NoHash,
         hash |-> ComputeHash(sequence, payload, NoHash)]

\* The row append() creates when it sees these rows.
NextRow(rows, payload) ==
    LET sequence == IF rows = <<>> THEN 1 ELSE rows[LastIndex(rows)].sequence + 1
        previous == IF rows = <<>> THEN NoHash ELSE rows[LastIndex(rows)].hash
    IN  [sequence |-> sequence, payload |-> Stored(payload), previousHash |-> previous,
         hash |-> ComputeHash(sequence, payload, previous)]

\* The hash stored with the previous row: verifyChain's loop variable.
HashBefore(rows, i) == IF i = 1 THEN NoHash ELSE rows[i - 1].hash

\* Only the links are compared, no hash is recomputed.
RowVerifies_linksOnly(rows, i) == rows[i].previousHash = HashBefore(rows, i)

\* One round of verifyChain's loop accepts row i.
RowVerifies(rows, i) ==
    /\ rows[i].previousHash = HashBefore(rows, i)
    /\ ComputeHash(rows[i].sequence, rows[i].payload, rows[i].previousHash) = rows[i].hash

\* verifyChain: valid, or the sequence number of the first row that fails.
ChainValid(rows) == \A i \in 1..Len(rows) : RowVerifies(rows, i)

BrokenAtSequence(rows) ==
    rows[CHOOSE i \in 1..Len(rows) :
           ~RowVerifies(rows, i) /\ \A j \in 1..(i - 1) : RowVerifies(rows, j)].sequence

-----------------------------------------------------------------------------
Init ==
    /\ ledger = <<>>
    /\ pc = [t \in Requests |-> "idle"]
    /\ attempt = [t \in Requests |-> 1]
    /\ base = [t \in Requests |-> <<>>]
    /\ view = [t \in Requests |-> <<>>]
    /\ tampered = [kind |-> "no", sequence |-> 0]

\* runSerializable opens a transaction; its snapshot is what it will read.
Begin(t) ==
    /\ pc[t] \in {"idle", "retry"}
    /\ base' = [base EXCEPT ![t] = ledger]
    /\ view' = [view EXCEPT ![t] = ledger]
    /\ pc' = [pc EXCEPT ![t] = "open"]
    /\ UNCHANGED <<ledger, attempt, tampered>>

Inserted(t) == Len(view[t]) - Len(base[t])

\* GobdLedgerService.append: sees the snapshot and the transaction's own rows.
AppendRow(t) ==
    /\ pc[t] = "open" /\ Inserted(t) < Entries[t]
    /\ view' = [view EXCEPT ![t] = Append(@, NextRow(@, Payload(t, Inserted(t) + 1)))]
    /\ UNCHANGED <<ledger, pc, attempt, base, tampered>>

\* Two transactions that read the same last row and both insert after it cannot
\* be ordered: the one that commits second is refused.
Serializable(t) == ledger = base[t]

\* The table after the commit: the rows of this transaction are added to it.
NewTable(t) == ledger \o SubSeq(view[t], Len(base[t]) + 1, Len(view[t]))

Commit(t) ==
    /\ pc[t] = "open" /\ Inserted(t) = Entries[t]
    /\ Serializable(t)
    /\ ledger' = NewTable(t)
    /\ pc' = [pc EXCEPT ![t] = "done"]
    /\ UNCHANGED <<attempt, base, view, tampered>>

\* The attempts are not even counted.
WriteConflict_forever(t) ==
    /\ pc[t] = "open" /\ Inserted(t) > 0
    /\ pc' = [pc EXCEPT ![t] = "retry"]
    /\ UNCHANGED <<ledger, attempt, base, view, tampered>>

\* P2034, justified or spurious: retried until the attempts are used up (409).
WriteConflict(t) ==
    /\ pc[t] = "open" /\ Inserted(t) > 0
    /\ IF attempt[t] = MaxAttempts
         THEN pc' = [pc EXCEPT ![t] = "failed"] /\ UNCHANGED attempt
         ELSE /\ pc' = [pc EXCEPT ![t] = "retry"]
              /\ attempt' = [attempt EXCEPT ![t] = @ + 1]
    /\ UNCHANGED <<ledger, base, view, tampered>>

\* Any other error, such as the unique index on (companyId, sequence).
Error(t) ==
    /\ pc[t] = "open"
    /\ pc' = [pc EXCEPT ![t] = "failed"]
    /\ UNCHANGED <<ledger, attempt, base, view, tampered>>

\* An edit of row i's payload, or the deletion of row i, past the trigger. The
\* newest row leaves no trace of having been there, so it is not deleted here.
Tamper(i) ==
    /\ tampered.kind = "no"
    /\ \A t \in Requests : pc[t] # "open"
    /\ \/ /\ ledger' = [ledger EXCEPT ![i].payload.fields = Forged]
          /\ tampered' = [kind |-> "edited", sequence |-> ledger[i].sequence]
       \/ /\ i < Len(ledger)
          /\ ledger' = SubSeq(ledger, 1, i - 1) \o SubSeq(ledger, i + 1, Len(ledger))
          /\ tampered' = [kind |-> "deleted", sequence |-> ledger[i].sequence]
    /\ UNCHANGED <<pc, attempt, base, view>>

Step(t) == Begin(t) \/ AppendRow(t) \/ Commit(t)

Next ==
    \/ \E t \in Requests : Step(t) \/ WriteConflict(t) \/ Error(t)
    \/ \E i \in 1..Len(ledger) : Tamper(i)

\* A request that has begun is worked on until it ends, and a transaction that
\* cannot commit is told so.
Fairness == \A t \in Requests : WF_vars(pc[t] # "idle" /\ (Step(t) \/ WriteConflict(t)))

Spec == Init /\ [][Next]_vars /\ Fairness

-----------------------------------------------------------------------------
(***************************************************************************)
(* Properties.                                                             *)
(***************************************************************************)

TypeOK ==
    /\ pc \in [Requests -> {"idle", "open", "retry", "done", "failed"}]
    /\ attempt \in [Requests -> 1..MaxAttempts]
    /\ \A t \in Requests : Len(base[t]) <= Len(view[t]) /\ Inserted(t) <= Entries[t]
    /\ tampered \in [kind : {"no", "edited", "deleted"}, sequence : Nat]

\* One linear history: the rows are numbered 1, 2, 3, ... in the order they
\* committed, with no number used twice and none left out (what the comment on
\* GobdLedgerService demands of every caller's isolation level).
LinearHistory ==
    tampered.kind = "no" => \A i \in 1..Len(ledger) : ledger[i].sequence = i

\* verifyChain accepts every table that was not tampered with, however the
\* appends of concurrent requests interleaved and were retried.
UntamperedVerifies == tampered.kind = "no" => ChainValid(ledger)

\* verifyChain rejects a table in which any row was edited, or any but the last
\* was deleted, for ever after, and names the first row that no longer fits.
TamperingIsFound ==
    tampered.kind # "no" =>
        /\ ~ChainValid(ledger)
        /\ BrokenAtSequence(ledger) =
               IF tampered.kind = "edited" THEN tampered.sequence ELSE tampered.sequence + 1

\* verifyChain is exact: valid for every table that was only appended to, and
\* otherwise it points at the first row that no longer fits.
VerifyChainIsExact == UntamperedVerifies /\ TamperingIsFound

\* The journal is a tamper-evident log (module TamperEvidentLog): a request's rows
\* appear in it together, once and in order, and verifyChain tells for ever whether
\* it was manipulated, whatever transactions overlapped and were retried.
Log == INSTANCE TamperEvidentLog
       WITH log <- [i \in 1..Len(ledger) |-> ledger[i].payload.fields],
            written <- {t \in Requests : pc[t] = "done"},
            valid <- ChainValid(ledger)

TamperEvident == Log!Spec

\* Every request that begins ends, with a commit or an error.
EveryRequestEnds == \A t \in Requests : pc[t] = "open" ~> pc[t] \in {"done", "failed"}

=============================================================================
