------------------------------- MODULE Outbox -------------------------------
(***************************************************************************)
(* The transactional outbox that carries webhook events out of Cantero:    *)
(* OutboxService.enqueue writes an OutboxEvent row with the business       *)
(* change, and OutboxProcessor, a poller that may run in several worker    *)
(* processes, claims due rows and delivers each to every subscribed        *)
(* endpoint with retries and backoff.                                      *)
(*                                                                         *)
(* A worker works from the batch it READ, which may be stale by the time   *)
(* it reaches a row: the row's attempts are those of the batch, its status *)
(* is checked again by the conditional update that claims it.              *)
(*                                                                         *)
(* Time is only "due or not yet due"; payloads, signatures and HTTP        *)
(* details are left out, an HTTP delivery either succeeds or fails.        *)
(***************************************************************************)
EXTENDS Integers, FiniteSets

CONSTANTS
    NumRows,        \* outbox rows are 1..NumRows, in createdAt order
    Workers,        \* processes that run OutboxProcessor
    Endpoints,      \* the company's webhook endpoints subscribed to the event
    NoEndpoint,     \* no endpoint
    Switched,       \* those an administrator may deactivate and reactivate
    BatchSize,      \* BATCH_SIZE (50 in the code)
    MaxAttempts,    \* MAX_ATTEMPTS (10 in the code)
    MaxThrows       \* bound: worker deaths and database errors in one behaviour

ASSUME OutboxAssumption ==
    /\ NumRows \in Nat
    /\ BatchSize \in Nat \ {0}
    /\ MaxAttempts \in Nat \ {0}
    /\ MaxThrows \in Nat
    /\ Switched \subseteq Endpoints
    /\ NoEndpoint \notin Endpoints
    /\ Workers # {} /\ IsFiniteSet(Workers)

Rows == 1..NumRows

VARIABLES
    status,     \* OutboxEvent.status, "none" before the row exists
    attempts,   \* OutboxEvent.attempts
    due,        \* nextAttemptAt <= now
    active,     \* the endpoints that are active
    delivery,   \* WebhookDelivery of (row, endpoint): "none", "failed" or "ok"
    accepted,   \* how often the endpoint has answered a delivery with success
    chats,      \* how often the row was posted to Slack/Teams
    pc,         \* where each worker is
    batch,      \* rows of its batch it has not come to yet, as it read them
    cur,        \* the row it is processing, as it read it
    todo,       \* endpoints of cur it has not come to yet
    target,     \* the endpoint it is delivering to
    success,    \* outcome of the delivery it has just made
    anyFailed,  \* some delivery of this pass failed
    throws      \* worker deaths and database errors so far

db == <<status, attempts, due, active, delivery>>
worker == <<pc, batch, cur, todo, target, success, anyFailed>>
vars == <<db, accepted, chats, worker, throws>>

Steady == Endpoints \ Switched
NoRow == [row |-> 0, attempts |-> 0]
Snapshots == [row : Rows, attempts : Nat]

Init ==
    /\ status = [r \in Rows |-> "none"]
    /\ attempts = [r \in Rows |-> 0]
    /\ due = [r \in Rows |-> FALSE]
    /\ active = Endpoints
    /\ delivery = [r \in Rows |-> [e \in Endpoints |-> "none"]]
    /\ accepted = [r \in Rows |-> [e \in Endpoints |-> 0]]
    /\ chats = [r \in Rows |-> 0]
    /\ pc = [w \in Workers |-> "idle"]
    /\ batch = [w \in Workers |-> {}]
    /\ cur = [w \in Workers |-> NoRow]
    /\ todo = [w \in Workers |-> {}]
    /\ target = [w \in Workers |-> NoEndpoint]
    /\ success = [w \in Workers |-> FALSE]
    /\ anyFailed = [w \in Workers |-> FALSE]
    /\ throws = 0

-----------------------------------------------------------------------------
(***************************************************************************)
(* Around the processor.                                                   *)
(***************************************************************************)

\* enqueue, as part of the business transaction that commits the row.
Enqueue(r) ==
    /\ status[r] = "none"
    /\ \A q \in Rows : q < r => status[q] # "none"
    /\ status' = [status EXCEPT ![r] = "pending"]
    /\ due' = [due EXCEPT ![r] = TRUE]
    /\ UNCHANGED <<attempts, active, delivery, accepted, chats, worker, throws>>

\* The backoff of a retried row runs out.
BecomesDue(r) ==
    /\ status[r] = "pending" /\ ~due[r]
    /\ due' = [due EXCEPT ![r] = TRUE]
    /\ UNCHANGED <<status, attempts, active, delivery, accepted, chats, worker, throws>>

\* WebhooksService.update: an administrator switches an endpoint off or on.
SwitchEndpoint(e) ==
    /\ e \in Switched
    /\ active' = IF e \in active THEN active \ {e} ELSE active \union {e}
    /\ UNCHANGED <<status, attempts, due, delivery, accepted, chats, worker, throws>>

-----------------------------------------------------------------------------
(***************************************************************************)
(* OutboxProcessor.process and processOne.                                 *)
(***************************************************************************)

DueRows == {r \in Rows : status[r] = "pending" /\ due[r]}

\* The BatchSize oldest due rows, each with the attempts read now.
Poll(w) ==
    /\ pc[w] = "idle"
    /\ DueRows # {}
    /\ batch' = [batch EXCEPT ![w] =
           {[row |-> r, attempts |-> attempts[r]] :
               r \in {q \in DueRows : Cardinality({p \in DueRows : p < q}) < BatchSize}}]
    /\ pc' = [pc EXCEPT ![w] = "batch"]
    /\ UNCHANGED <<db, accepted, chats, cur, todo, target, success, anyFailed, throws>>

\* The for loop goes on to the oldest row left in the batch.
NextInBatch(w, b) == b \in batch[w] /\ \A x \in batch[w] : b.row <= x.row

\* The claim does not look whether another worker is at it.
Claimable_ignoresProcessing(r) == status[r] \in {"pending", "processing"}

\* where: { id, status: "pending" } of the claiming updateMany.
Claimable(r) == status[r] = "pending"

\* The conditional update claims the row and the active endpoints are read.
Claim(w) ==
    \E b \in batch[w] :
        /\ pc[w] = "batch" /\ NextInBatch(w, b)
        /\ Claimable(b.row)
        /\ status' = [status EXCEPT ![b.row] = "processing"]
        /\ batch' = [batch EXCEPT ![w] = @ \ {b}]
        /\ cur' = [cur EXCEPT ![w] = b]
        /\ todo' = [todo EXCEPT ![w] = active]
        /\ anyFailed' = [anyFailed EXCEPT ![w] = FALSE]
        /\ pc' = [pc EXCEPT ![w] = "deliver"]
        /\ UNCHANGED <<attempts, due, active, delivery, accepted, chats, target, success, throws>>

\* claimed.count = 0: somebody else has the row.
SkipClaimed(w) ==
    \E b \in batch[w] :
        /\ pc[w] = "batch" /\ NextInBatch(w, b)
        /\ ~Claimable(b.row)
        /\ batch' = [batch EXCEPT ![w] = @ \ {b}]
        /\ UNCHANGED <<db, accepted, chats, pc, cur, todo, target, success, anyFailed, throws>>

EndOfBatch(w) ==
    /\ pc[w] = "batch" /\ batch[w] = {}
    /\ pc' = [pc EXCEPT ![w] = "idle"]
    /\ UNCHANGED <<db, accepted, chats, batch, cur, todo, target, success, anyFailed, throws>>

\* A retried row delivers to every endpoint again.
AlreadyDelivered_never(r, e) == FALSE

AlreadyDelivered(r, e) == delivery[r][e] = "ok"

SkipDelivered(w, e) ==
    /\ pc[w] = "deliver" /\ e \in todo[w]
    /\ AlreadyDelivered(cur[w].row, e)
    /\ todo' = [todo EXCEPT ![w] = @ \ {e}]
    /\ UNCHANGED <<db, accepted, chats, pc, batch, cur, target, success, anyFailed, throws>>

StartDelivery(w, e) ==
    /\ pc[w] = "deliver" /\ e \in todo[w]
    /\ ~AlreadyDelivered(cur[w].row, e)
    /\ todo' = [todo EXCEPT ![w] = @ \ {e}]
    /\ target' = [target EXCEPT ![w] = e]
    /\ pc' = [pc EXCEPT ![w] = "send"]
    /\ UNCHANGED <<db, accepted, chats, batch, cur, success, anyFailed, throws>>

\* The POST of deliverToEndpoint.
Post(w, ok) ==
    /\ pc[w] = "send"
    /\ success' = [success EXCEPT ![w] = ok]
    /\ accepted' = [accepted EXCEPT ![cur[w].row][target[w]] = IF ok THEN @ + 1 ELSE @]
    /\ pc' = [pc EXCEPT ![w] = "record"]
    /\ UNCHANGED <<db, chats, batch, cur, todo, target, anyFailed, throws>>

\* A failed delivery is recorded but not remembered for the row's outcome.
FailureNoted_lastOnly(w) == ~success[w]

FailureNoted(w) == anyFailed[w] \/ ~success[w]

\* The upsert of the WebhookDelivery row; its failure is reported and swallowed.
RecordDelivery(w, saved) ==
    /\ pc[w] = "record"
    /\ delivery' = [delivery EXCEPT ![cur[w].row][target[w]] =
           IF ~saved THEN @ ELSE IF success[w] THEN "ok" ELSE "failed"]
    /\ anyFailed' = [anyFailed EXCEPT ![w] = FailureNoted(w)]
    /\ pc' = [pc EXCEPT ![w] = "deliver"]
    /\ UNCHANGED <<status, attempts, due, active, accepted, chats, batch, cur, todo, target,
                   success, throws>>

\* The retry limit is never reached.
RetriesLeft_always(w) == TRUE

RetriesLeft(w) == cur[w].attempts + 1 < MaxAttempts

\* A row to be retried is not given back.
StatusAfter_keepsClaim(w) ==
    IF anyFailed[w] /\ RetriesLeft(w) THEN "processing"
    ELSE IF anyFailed[w] THEN "failed" ELSE "delivered"

StatusAfter(w) ==
    IF anyFailed[w] /\ RetriesLeft(w) THEN "pending"
    ELSE IF anyFailed[w] THEN "failed" ELSE "delivered"

\* Every pass over a row posts to chat.
FirstAttempt_always(w) == TRUE

FirstAttempt(w) == cur[w].attempts = 0

\* All endpoints done: post to chat on what the batch says is the first attempt,
\* then give the row back for a retry or close it.
Finish(w) ==
    LET r == cur[w].row
        retry == StatusAfter(w) = "pending"
    IN  /\ pc[w] = "deliver" /\ todo[w] = {}
        /\ chats' = [chats EXCEPT ![r] = IF FirstAttempt(w) THEN @ + 1 ELSE @]
        /\ status' = [status EXCEPT ![r] = StatusAfter(w)]
        /\ attempts' = [attempts EXCEPT ![r] = IF retry THEN @ + 1 ELSE @]
        /\ due' = [due EXCEPT ![r] = IF retry THEN FALSE ELSE @]
        /\ cur' = [cur EXCEPT ![w] = NoRow]
        /\ pc' = [pc EXCEPT ![w] = "batch"]
        /\ UNCHANGED <<active, delivery, accepted, batch, todo, target, success, anyFailed, throws>>

\* The process dies, or a database call outside the swallowed ones throws and
\* ends the job: the rest of the batch is dropped, the rows stay as they are.
Throw(w) ==
    /\ pc[w] # "idle"
    /\ throws < MaxThrows
    /\ throws' = throws + 1
    /\ pc' = [pc EXCEPT ![w] = "idle"]
    /\ batch' = [batch EXCEPT ![w] = {}]
    /\ cur' = [cur EXCEPT ![w] = NoRow]
    /\ todo' = [todo EXCEPT ![w] = {}]
    /\ UNCHANGED <<db, accepted, chats, target, success, anyFailed>>

ProcessorStep(w) ==
    \/ Poll(w) \/ Claim(w) \/ SkipClaimed(w) \/ EndOfBatch(w)
    \/ \E e \in Endpoints : SkipDelivered(w, e) \/ StartDelivery(w, e)
    \/ \E ok \in BOOLEAN : Post(w, ok) \/ RecordDelivery(w, ok)
    \/ Finish(w)

Next ==
    \/ \E r \in Rows : Enqueue(r) \/ BecomesDue(r)
    \/ \E e \in Endpoints : SwitchEndpoint(e)
    \/ \E w \in Workers : ProcessorStep(w) \/ Throw(w)

\* BullMQ keeps running the repeated poll job and a started job keeps going;
\* time passes. Endpoints need not answer, nothing has to be enqueued.
Fairness ==
    /\ \A w \in Workers : WF_vars(ProcessorStep(w))
    /\ \A r \in Rows : WF_vars(BecomesDue(r))

Spec == Init /\ [][Next]_vars /\ Fairness

-----------------------------------------------------------------------------
(***************************************************************************)
(* Properties.                                                             *)
(***************************************************************************)

Working(w) == pc[w] \in {"deliver", "send", "record"}

TypeOK ==
    /\ status \in [Rows -> {"none", "pending", "processing", "delivered", "failed"}]
    /\ attempts \in [Rows -> Nat]
    /\ due \in [Rows -> BOOLEAN]
    /\ Steady \subseteq active /\ active \subseteq Endpoints
    /\ delivery \in [Rows -> [Endpoints -> {"none", "failed", "ok"}]]
    /\ accepted \in [Rows -> [Endpoints -> Nat]]
    /\ chats \in [Rows -> Nat]
    /\ pc \in [Workers -> {"idle", "batch", "deliver", "send", "record"}]
    /\ batch \in [Workers -> SUBSET Snapshots]
    /\ cur \in [Workers -> Snapshots \union {NoRow}]
    /\ todo \in [Workers -> SUBSET Endpoints]
    /\ target \in [Workers -> Endpoints \union {NoEndpoint}]
    /\ success \in [Workers -> BOOLEAN]
    /\ anyFailed \in [Workers -> BOOLEAN]
    /\ throws \in 0..MaxThrows
    /\ \A w \in Workers : Working(w) => cur[w] \in Snapshots
    /\ \A w \in Workers : pc[w] \in {"send", "record"} => target[w] \in Endpoints

\* "More than one API instance can safely run this poller": two workers are
\* never at the same row, although both may hold it in their batches.
ExclusiveClaim ==
    \A v, w \in Workers : Working(v) /\ Working(w) /\ cur[v].row = cur[w].row => v = w

\* A row closed as delivered has been accepted by every endpoint that was
\* active throughout, whatever failed, was retried or could not be recorded.
DeliveredReachedAll ==
    \A r \in Rows : status[r] = "delivered" => \A e \in Steady : accepted[r][e] > 0

\* Once a delivery is recorded as successful the endpoint gets that event no
\* more (a retried row skips endpoints it already reached).
NoRedelivery ==
    [][\A r \in Rows, e \in Endpoints :
          delivery[r][e] = "ok" => accepted'[r][e] = accepted[r][e]]_vars

\* A row that was closed is never reopened, not even by a worker that read it
\* while it was still pending.
ClosedIsFinal ==
    [][\A r \in Rows : status[r] \in {"delivered", "failed"} => status'[r] = status[r]]_vars

\* Stale batches cost at most one extra retry per other worker.
RetriesBounded ==
    \A r \in Rows : attempts[r] <= MaxAttempts - 1 + (Cardinality(Workers) - 1)

\* Every committed event is closed in the end: delivered, or failed after its
\* retries ("a committed OutboxEvent row survives that, because OutboxProcessor
\* picks up any row still pending on its next poll").
EventuallyClosed ==
    \A r \in Rows : status[r] = "pending" ~> status[r] \in {"delivered", "failed"}

\* As long as no worker has died at its work and no database call has thrown,
\* every committed event is closed in the end, with two pollers on stale batches,
\* endpoints switched on and off, failed deliveries and failed records.
ClosedUnlessWorkerDies ==
    \A r \in Rows : status[r] = "pending" ~>
        (status[r] \in {"delivered", "failed"} \/ throws > 0)

\* "Chat notification only on the first attempt": no worker posts an event
\* twice, and only a worker with a stale batch posts it after another.
ChatPerWorker == \A r \in Rows : chats[r] <= Cardinality(Workers)

\* A worker decides on the attempts its batch had, which may be a whole attempt of
\* another worker old. That costs one more retry or chat post per other worker, and
\* no more.
StaleBatchCost == RetriesBounded /\ ChatPerWorker

=============================================================================
