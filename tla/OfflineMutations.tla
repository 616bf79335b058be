-------------------------- MODULE OfflineMutations --------------------------
(***************************************************************************)
(* Mutations made on a device that may be offline: the queue in the        *)
(* browser's IndexedDB (apps/web/lib/offline-queue.ts) and the server's    *)
(* deduplication by Idempotency-Key (IdempotencyInterceptor and            *)
(* IdempotencyService, common/idempotency/).                               *)
(*                                                                         *)
(* A task is one call running in some tab: a first submission, a flush of  *)
(* the queue, a retry of one item. Each await is a step. An attempt is one *)
(* HTTP request; the connection may be lost at any time, which the client  *)
(* sees as a network error while the request lives on at the server. A     *)
(* mutation stands for its mutationId, path and body: the key and the URL  *)
(* of every attempt at it are the same. A file upload takes the same path  *)
(* (submitOrQueueUpload). Mutations are numbered as they are submitted and *)
(* a call runs as the first task that is free.                             *)
(***************************************************************************)
EXTENDS Integers

CONSTANTS
    NumMutations,   \* bound: what users submit
    NumTasks,       \* bound: calls running at one time, over all tabs
    NumSlots,       \* bound: attempts alive at one time
    MaxTroubles     \* bound: connections lost, server restarts, expired cache entries,
                    \* tabs closed in the middle of a call and retries by hand

ASSUME OfflineAssumption ==
    NumMutations \in Nat /\ NumTasks \in Nat /\ NumSlots \in Nat /\ MaxTroubles \in Nat

Mutations == 1..NumMutations
Tasks == 1..NumTasks
Slots == 1..NumSlots
NoMutation == 0
NoTask == 0
NoSlot == 0

VARIABLES
    store,      \* IndexedDB: what the queue holds of each mutation
    createdAt,  \* when each was queued, in the order of queueing (0: never)
    now,        \* the last of these times
    lock,       \* who holds the Web Lock of flushQueue
    task,       \* what each task does
    att,        \* the attempts
    applied,    \* how often the handler committed each mutation
    cache,      \* IdempotencyService.entries: the mutations with a cached response
    fate,       \* what the user was told, or did
    raced,      \* mutations attempted while another attempt was running (not in the code)
    forgotten,  \* mutations whose cached response was lost (not in the code)
    troubles    \* how much of the bound is used up

client == <<store, createdAt, now, lock, task, fate>>
server == <<applied, cache, raced, forgotten>>
vars == <<client, att, server, troubles>>

-----------------------------------------------------------------------------
Free == [m |-> NoMutation, state |-> "free", live |-> FALSE]
AttemptStates == {"transit", "running", "committed", "ok", "rejected", "lost"}
Attempt == {Free} \union [m : Mutations, state : AttemptStates, live : BOOLEAN]

Idle == [op |-> "none", pc |-> "idle", m |-> NoMutation, slot |-> NoSlot, items |-> {}]
Item == [m : Mutations, failed : BOOLEAN]
Task == [op : {"none", "submit", "flush", "retry"},
         pc : {"idle", "next", "waiting", "enqueue", "remove", "mark"},
         m : Mutations \union {NoMutation}, slot : Slots \union {NoSlot}, items : SUBSET Item]

Init ==
    /\ store = [m \in Mutations |-> "absent"]
    /\ createdAt = [m \in Mutations |-> 0] /\ now = 0
    /\ lock = NoTask
    /\ task = [t \in Tasks |-> Idle]
    /\ att = [s \in Slots |-> Free]
    /\ applied = [m \in Mutations |-> 0]
    /\ cache = {}
    /\ fate = [m \in Mutations |-> "new"]
    /\ raced = {} /\ forgotten = {}
    /\ troubles = 0

Trouble == troubles < MaxTroubles /\ troubles' = troubles + 1

\* A call starts as task t.
Idles(t) == task[t].pc = "idle" /\ \A u \in 1..(t - 1) : task[u].pc # "idle"

At(t, op, pc) == task[t].op = op /\ task[t].pc = pc
Answer(t) == IF task[t].slot = NoSlot THEN "none" ELSE att[task[t].slot].state
FreeSlots == {s \in Slots : att[s] = Free}

\* apiFetch: the request leaves, with the mutation's key.
Send(t, op, m, items) ==
    LET s == CHOOSE s \in FreeSlots : \A r \in FreeSlots : s <= r
    IN  /\ FreeSlots # {}
        /\ att' = [att EXCEPT ![s] = [m |-> m, state |-> "transit", live |-> TRUE]]
        /\ task' = [task EXCEPT ![t] = [op |-> op, pc |-> "waiting", m |-> m, slot |-> s,
                                        items |-> items]]

\* The client is done with its attempt. One that is still at the server lives on.
Release(t) ==
    LET s == task[t].slot
    IN  IF s = NoSlot THEN att
        ELSE [att EXCEPT ![s] = IF @.state \in {"ok", "rejected", "lost"} THEN Free
                                ELSE [@ EXCEPT !.live = FALSE]]

Goto(t, pc) == /\ task' = [task EXCEPT ![t].pc = pc, ![t].slot = NoSlot]
               /\ att' = Release(t)
End(t) == task' = [task EXCEPT ![t] = Idle] /\ att' = Release(t)

-----------------------------------------------------------------------------
(***************************************************************************)
(* submitOrQueue.                                                          *)
(***************************************************************************)

\* The first attempt; on a device that is offline it fails at once.
SubmitOrQueue(t, m) ==
    /\ Idles(t)
    /\ fate[m] = "new" /\ \A k \in 1..(m - 1) : fate[k] # "new"
    /\ \/ Send(t, "submit", m, {})
       \/ /\ task' = [task EXCEPT ![t] = [Idle EXCEPT !.op = "submit", !.pc = "enqueue", !.m = m]]
          /\ UNCHANGED att
    /\ fate' = [fate EXCEPT ![m] = "trying"]
    /\ UNCHANGED <<store, createdAt, now, lock, server, troubles>>

\* An answer: data for the user, or the server's refusal.
SubmitAnswered(t) ==
    /\ At(t, "submit", "waiting") /\ Answer(t) \in {"ok", "rejected"}
    /\ fate' = [fate EXCEPT ![task[t].m] = IF Answer(t) = "ok" THEN "told" ELSE "refused"]
    /\ End(t)
    /\ UNCHANGED <<store, createdAt, now, lock, server, troubles>>

\* A TypeError means offline.
SubmitOffline(t) ==
    /\ At(t, "submit", "waiting") /\ Answer(t) = "lost"
    /\ Goto(t, "enqueue")
    /\ UNCHANGED <<store, createdAt, now, lock, fate, server, troubles>>

\* queueMutation, queueFileUpload: store.add.
QueueMutation(t) ==
    /\ At(t, "submit", "enqueue")
    /\ store' = [store EXCEPT ![task[t].m] = "queued"]
    /\ createdAt' = [createdAt EXCEPT ![task[t].m] = now + 1] /\ now' = now + 1
    /\ End(t)
    /\ UNCHANGED <<lock, fate, server, troubles>>

-----------------------------------------------------------------------------
(***************************************************************************)
(* flushQueue.                                                             *)
(***************************************************************************)

\* listQueued: everything in the store, as it is now.
ListQueued ==
    {[m |-> m, failed |-> store[m] = "failed"] : m \in {k \in Mutations : store[k] # "absent"}}

\* Sorted by createdAt: the item of a list that comes first.
Oldest(items) == CHOOSE item \in items : \A other \in items : createdAt[item.m] <= createdAt[other.m]

\* flushQueue gets the lock and reads the queue. Without anything to flush it does
\* nothing; flushInFlight keeps a second flush of the tab from starting at all.
StartFlush(t) ==
    /\ Idles(t) /\ lock = NoTask
    /\ \E m \in Mutations : store[m] = "queued"
    /\ lock' = t
    /\ task' = [task EXCEPT ![t] = [Idle EXCEPT !.op = "flush", !.pc = "next", !.items = ListQueued]]
    /\ UNCHANGED <<store, createdAt, now, fate, att, server, troubles>>

\* The next item that has not failed is sent; the failed ones are passed over.
FlushItem(t) ==
    LET items == task[t].items
        item == Oldest(items)
    IN  /\ At(t, "flush", "next") /\ items # {}
        /\ IF item.failed
             THEN task' = [task EXCEPT ![t].items = items \ {item}] /\ UNCHANGED att
             ELSE Send(t, "flush", item.m, items \ {item})
        /\ UNCHANGED <<store, createdAt, now, lock, fate, server, troubles>>

\* The item is taken out whatever the server said.
FlushAnswered_removes(t) ==
    /\ At(t, "flush", "waiting") /\ Answer(t) \in {"ok", "rejected"}
    /\ Goto(t, "remove")
    /\ UNCHANGED <<store, createdAt, now, lock, fate, server, troubles>>

\* A rejected item is left as it is, for the next flush to try again.
FlushAnswered_leaves(t) ==
    /\ At(t, "flush", "waiting") /\ Answer(t) \in {"ok", "rejected"}
    /\ Goto(t, IF Answer(t) = "ok" THEN "remove" ELSE "next")
    /\ UNCHANGED <<store, createdAt, now, lock, fate, server, troubles>>

FlushAnswered(t) ==
    /\ At(t, "flush", "waiting") /\ Answer(t) \in {"ok", "rejected"}
    /\ Goto(t, IF Answer(t) = "ok" THEN "remove" ELSE "mark")
    /\ UNCHANGED <<store, createdAt, now, lock, fate, server, troubles>>

\* After a network error the flush goes on to the next item.
FlushEnds_onlyAtEnd(t) ==
    /\ IF At(t, "flush", "waiting") /\ Answer(t) = "lost"
         THEN Goto(t, "next") /\ UNCHANGED lock
         ELSE /\ At(t, "flush", "next") /\ task[t].items = {}
              /\ lock' = NoTask
              /\ End(t)
    /\ UNCHANGED <<store, createdAt, now, fate, server, troubles>>

\* All items seen to, or offline again: the flush ends and the lock is free.
FlushEnds(t) ==
    /\ \/ At(t, "flush", "next") /\ task[t].items = {}
       \/ At(t, "flush", "waiting") /\ Answer(t) = "lost"
    /\ lock' = NoTask
    /\ End(t)
    /\ UNCHANGED <<store, createdAt, now, fate, server, troubles>>

\* After an item, a flush goes on and a retry is over.
Continue(t) ==
    task' = [task EXCEPT ![t] = IF @.op = "flush" THEN [@ EXCEPT !.pc = "next", !.m = NoMutation]
                                ELSE Idle]

\* removeQueued: store.delete.
RemoveQueued(t) ==
    /\ task[t].pc = "remove"
    /\ store' = [store EXCEPT ![task[t].m] = "absent"]
    /\ Continue(t)
    /\ UNCHANGED <<createdAt, now, lock, fate, att, server, troubles>>

\* markFailed: store.put, which puts back an item that was taken out meanwhile.
MarkFailed(t) ==
    /\ task[t].pc = "mark"
    /\ store' = [store EXCEPT ![task[t].m] = "failed"]
    /\ Continue(t)
    /\ UNCHANGED <<createdAt, now, lock, fate, att, server, troubles>>

-----------------------------------------------------------------------------
(***************************************************************************)
(* What a user does about a failed item: retryQueued, discardQueued.       *)
(***************************************************************************)
RetryQueued(t, m) ==
    /\ Idles(t) /\ store[m] = "failed"
    /\ Trouble
    /\ Send(t, "retry", m, {})
    /\ UNCHANGED <<store, createdAt, now, lock, fate, server>>

\* Any error, a network error included, marks the item failed again.
RetryAnswered(t) ==
    /\ At(t, "retry", "waiting") /\ Answer(t) \in {"ok", "rejected", "lost"}
    /\ Goto(t, IF Answer(t) = "ok" THEN "remove" ELSE "mark")
    /\ UNCHANGED <<store, createdAt, now, lock, fate, server, troubles>>

DiscardQueued(m) ==
    /\ store[m] = "failed"
    /\ store' = [store EXCEPT ![m] = "absent"]
    /\ fate' = [fate EXCEPT ![m] = "discarded"]
    /\ UNCHANGED <<createdAt, now, lock, task, att, server, troubles>>

-----------------------------------------------------------------------------
(***************************************************************************)
(* The server.                                                             *)
(***************************************************************************)
Move(s, state) ==
    att' = [att EXCEPT ![s] = IF @.live \/ state \in {"running", "committed"}
                                THEN [@ EXCEPT !.state = state] ELSE Free]

Running(m) == {s \in Slots : att[s].m = m /\ att[s].state \in {"running", "committed"}}

\* No lookup at all.
Cached_never(m) == FALSE

\* IdempotencyService.get
Cached(m) == m \in cache

\* The interceptor: replay the cached response, or run the handler.
Intercept(s) ==
    LET m == att[s].m IN
    /\ att[s].state = "transit"
    /\ IF Cached(m) THEN Move(s, "ok") /\ UNCHANGED raced
       ELSE /\ Move(s, "running")
            /\ raced' = IF Running(m) # {} THEN raced \union {m} ELSE raced
    /\ UNCHANGED <<client, applied, cache, forgotten, troubles>>

\* The handler's transaction commits, or refuses; only a success is cached.
Handle(s) ==
    /\ att[s].state = "running"
    /\ \/ /\ applied' = [applied EXCEPT ![att[s].m] = @ + 1]
          /\ Move(s, "committed")
       \/ Move(s, "rejected") /\ UNCHANGED applied
    /\ UNCHANGED <<client, cache, raced, forgotten, troubles>>

\* tap: IdempotencyService.set, then the response.
StoreResponse(s) ==
    /\ att[s].state = "committed"
    /\ cache' = cache \union {att[s].m}
    /\ Move(s, "ok")
    /\ UNCHANGED <<client, applied, raced, forgotten, troubles>>

-----------------------------------------------------------------------------
(***************************************************************************)
(* What goes wrong.                                                        *)
(***************************************************************************)

\* The connection breaks: the client sees a network error, and what was still on
\* its way may still arrive, and what is running goes on without it.
Lose(t) ==
    LET s == task[t].slot IN
    /\ task[t].pc = "waiting" /\ Answer(t) # "lost" /\ Trouble
    /\ \/ /\ Answer(t) \in {"transit", "ok", "rejected"}
          /\ att' = [att EXCEPT ![s].state = "lost"]
       \/ /\ FreeSlots # {} /\ Answer(t) \in {"transit", "running", "committed"}
          /\ LET r == CHOOSE r \in FreeSlots : \A q \in FreeSlots : r <= q
             IN  att' = [att EXCEPT ![s].state = "lost", ![r] = [att[s] EXCEPT !.live = FALSE]]
    /\ UNCHANGED <<client, server>>

\* The server process restarts: the cache is gone, so are the requests it was at.
Restart ==
    /\ Trouble
    /\ forgotten' = forgotten \union cache \union {m \in Mutations :
                       \E s \in Slots : att[s].m = m /\ att[s].state = "committed"}
    /\ cache' = {}
    /\ att' = [s \in Slots |->
                 IF att[s].state \in {"running", "committed"}
                   THEN IF att[s].live THEN [att[s] EXCEPT !.state = "lost"] ELSE Free
                   ELSE att[s]]
    /\ UNCHANGED <<client, applied, raced>>

\* ENTRY_TTL_MS has passed.
Expire(m) ==
    /\ m \in cache /\ Trouble
    /\ cache' = cache \ {m}
    /\ forgotten' = forgotten \union {m}
    /\ UNCHANGED <<client, att, applied, raced>>

\* The tab is closed in the middle of a call; the browser releases its lock. A
\* first submission that was not yet queued is gone with it.
CloseTab(t) ==
    /\ task[t].pc # "idle" /\ Trouble
    /\ fate' = IF task[t].op = "submit" THEN [fate EXCEPT ![task[t].m] = "closed"] ELSE fate
    /\ lock' = IF lock = t THEN NoTask ELSE lock
    /\ End(t)
    /\ UNCHANGED <<store, createdAt, now, server>>

-----------------------------------------------------------------------------
ClientStep(t) ==
    \/ SubmitAnswered(t) \/ SubmitOffline(t) \/ QueueMutation(t)
    \/ FlushItem(t) \/ FlushAnswered(t) \/ FlushEnds(t)
    \/ RetryAnswered(t) \/ RemoveQueued(t) \/ MarkFailed(t)

ServerStep(s) == Intercept(s) \/ Handle(s) \/ StoreResponse(s)

Next ==
    \/ \E t \in Tasks :
         \/ \E m \in Mutations : SubmitOrQueue(t, m) \/ RetryQueued(t, m)
         \/ StartFlush(t) \/ ClientStep(t) \/ Lose(t) \/ CloseTab(t)
    \/ \E m \in Mutations : DiscardQueued(m) \/ Expire(m)
    \/ \E s \in Slots : ServerStep(s)
    \/ Restart

\* Calls run on, the server answers what reaches it, and the app is opened or goes
\* online again (useOfflineQueue flushes at both). Users need not do anything.
Fairness ==
    /\ \A t \in Tasks : WF_vars(ClientStep(t))
    /\ \A s \in Slots : WF_vars(ServerStep(s))
    /\ WF_vars(\E t \in Tasks : StartFlush(t))

Spec == Init /\ [][Next]_vars /\ Fairness

-----------------------------------------------------------------------------
(***************************************************************************)
(* Properties.                                                             *)
(***************************************************************************)

TypeOK ==
    /\ store \in [Mutations -> {"absent", "queued", "failed"}]
    /\ createdAt \in [Mutations -> Nat] /\ now \in Nat
    /\ lock \in Tasks \union {NoTask}
    /\ task \in [Tasks -> Task]
    /\ att \in [Slots -> Attempt]
    /\ applied \in [Mutations -> Nat]
    /\ cache \subseteq Mutations
    /\ fate \in [Mutations -> {"new", "trying", "told", "refused", "discarded", "closed"}]
    /\ raced \subseteq Mutations /\ forgotten \subseteq Mutations
    /\ troubles \in 0..MaxTroubles

\* "doesn't apply that write a second time": however often an attempt is repeated,
\* the write happens once, unless a second attempt arrived while the first was
\* still running or the cached response was lost (restart, 24 hours).
AppliedOnce ==
    \A m \in Mutations : applied[m] > 1 => m \in raced \union forgotten

Submitting(m) == \E t \in Tasks : task[t].op = "submit" /\ task[t].m = m

\* Nothing a user submitted disappears: it is applied, in the queue, still being
\* submitted, or the user knows (refused, discarded, closed the tab on it).
NothingLost ==
    \A m \in Mutations :
        \/ fate[m] \in {"new", "refused", "discarded", "closed"}
        \/ applied[m] > 0 \/ store[m] # "absent" \/ Submitting(m)

\* "Flushes queued mutations in order": while a flush is at an item, none queued
\* before it is still waiting, so what depends on an earlier one comes after it.
InOrder ==
    \A t \in Tasks : At(t, "flush", "waiting") =>
        \A m \in Mutations :
            store[m] = "queued" => createdAt[m] >= createdAt[task[t].m]

\* A queued mutation does not wait for ever: it is delivered, or shown to the user
\* as failed, and a rejected one does not hold back those behind it.
QueueDrains == \A m \in Mutations : store[m] = "queued" ~> store[m] # "queued"

\* The queue is a faithful one: nothing submitted disappears without the user being
\* told, and mutations are sent in the order they were made, with several tabs at it.
QueueIsFaithful == TypeOK /\ NothingLost /\ InOrder

=============================================================================
