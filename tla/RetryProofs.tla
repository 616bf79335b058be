---------------------------- MODULE RetryProofs ----------------------------
(***************************************************************************)
(* Two components that repeat an attempt until it succeeds or has to be    *)
(* given up: offline mutations, which the client sends again, and invoice  *)
(* numbers, which the server counts again.                                 *)
(*                                                                         *)
(* Offline mutations, for any number of mutations, calls, requests on the  *)
(* wire and things that go wrong: a write happens once but for the two     *)
(* cases the server cannot tell, nothing submitted disappears, and a flush *)
(* sends what is queued in its order.                                      *)
(***************************************************************************)
EXTENDS OfflineMutations, InvoiceNumbering, WellFoundedInduction, TLAPS

\* What a call is at follows from what it is; a flush has the lock.
CallOk(t) ==
    LET c == task[t]
    IN  /\ c.op = "none" <=> c.pc = "idle"
        /\ c.op = "submit" => c.pc \in {"waiting", "enqueue"}
        /\ c.op = "flush" => c.pc \in {"next", "waiting", "remove", "mark"} /\ lock = t
        /\ c.op = "retry" => c.pc \in {"waiting", "remove", "mark"}
        /\ c.pc \notin {"idle", "next"} => c.m \in Mutations

\* A call that has an attempt waits for it, and has it for itself.
Attached(t) ==
    LET c == task[t]
    IN  c.slot # NoSlot =>
          /\ c.pc = "waiting"
          /\ att[c.slot].live /\ att[c.slot].m = c.m
          /\ \A u \in Tasks : task[u].slot = c.slot => u = t

Calls == \A t \in Tasks : CallOk(t) /\ Attached(t)

\* What was queued has its time, and what was never submitted has none.
Stamped ==
    \A m \in Mutations :
        /\ createdAt[m] <= now
        /\ store[m] # "absent" => createdAt[m] > 0
        /\ fate[m] = "new" => createdAt[m] = 0

\* A first submission is of something that is not in the queue, and there is one of it.
Submission(t) ==
    LET m == task[t].m
    IN  task[t].op = "submit" =>
          /\ fate[m] = "trying" /\ createdAt[m] = 0
          /\ \A u \in Tasks : task[u].op = "submit" /\ task[u].m = m => u = t

\* What is sent again was queued; it is taken out only when it was applied.
Resend(t) ==
    LET c == task[t]
    IN  /\ c.op \in {"flush", "retry"} /\ c.pc # "next" => createdAt[c.m] > 0
        /\ c.pc = "remove" => applied[c.m] > 0

\* A flush t still has m before it: in its list, in its hands, or behind all of these.
Before(t, m) ==
    LET c == task[t]
    IN  \/ \E i \in c.items : i.m = m
        \/ c.pc # "next" /\ m = c.m
        \/ /\ \A i \in c.items : createdAt[i.m] < createdAt[m]
           /\ c.pc # "next" => createdAt[c.m] < createdAt[m]

Flushing(t) ==
    LET c == task[t]
    IN  c.op = "flush" =>
          /\ \A i \in c.items : /\ createdAt[i.m] > 0
                                /\ i.failed => store[i.m] # "queued"
                                /\ c.pc # "next" => createdAt[c.m] <= createdAt[i.m]
          /\ \A m \in Mutations : store[m] = "queued" => Before(t, m)

Client == \A t \in Tasks : Submission(t) /\ Resend(t) /\ Flushing(t)

\* A success, on its way or remembered, is of something that was applied.
Busy(s) == att[s].state \in {"running", "committed"}
Successes ==
    /\ \A s \in Slots : att[s].state \in {"committed", "ok"} => applied[att[s].m] > 0
    /\ \A m \in cache : applied[m] > 0

\* Of a mutation that was neither raced nor forgotten at most one attempt is at the
\* handler, none is after the first has committed, and then the server knows of it.
OnceOk(m) ==
    m \notin raced \union forgotten =>
        /\ applied[m] <= 1
        /\ applied[m] > 0 => m \in cache \/ \E s \in Slots : att[s].m = m /\ att[s].state = "committed"
        /\ \A s \in Slots : att[s].m = m /\ att[s].state = "running" => applied[m] = 0
        /\ \A r, s \in Slots : att[r].m = m /\ att[s].m = m /\ Busy(r) /\ Busy(s) => r = s

Once == \A m \in Mutations : OnceOk(m)

IInv == TypeOK /\ Calls /\ Stamped /\ Client /\ Successes /\ Once /\ NothingLost

-----------------------------------------------------------------------------
(***************************************************************************)
(* Choices, and what the steps of a call do.                               *)
(***************************************************************************)

\* A set of natural numbers that is not empty has a smallest member.
LEMMA Smallest ==
    ASSUME NEW S \in SUBSET Nat, S # {}
    PROVE  \E n \in S : \A k \in S : n <= k
<1>1. PICK R : R = OpToRel(<, Nat)
  OBVIOUS
<1>2. IsWellFoundedOn(R, Nat)
  BY <1>1, NatLessThanWellFounded
<1>3. PICK n \in S : \A k \in S : ~(<<k, n>> \in R)
  BY <1>2, WFMin
<1>4. \A k \in Nat : k < n => <<k, n>> \in R
  BY <1>1 DEF OpToRel
<1>5. \A k \in S : k \in Nat /\ n \in Nat /\ ~(k < n)
  BY <1>3, <1>4, Zenon
<1> QED BY <1>5

\* The list is seen to in the order of queueing.
LEMMA OldestIs ==
    ASSUME TypeOK, NEW items \in SUBSET Item, items # {}
    PROVE  /\ Oldest(items) \in items
           /\ \A other \in items : createdAt[Oldest(items).m] <= createdAt[other.m]
<1> DEFINE S == {createdAt[i.m] : i \in items}
<1>1. S \in SUBSET Nat /\ S # {}
  BY DEF TypeOK, Item
<1>2. PICK n \in S : \A k \in S : n <= k
  BY <1>1, Smallest
<1>3. \E i \in items : \A other \in items : createdAt[i.m] <= createdAt[other.m]
  BY <1>2
<1> QED BY <1>3 DEF Oldest

\* Where a new attempt goes, there was none.
LEMMA FirstFree ==
    ASSUME FreeSlots # {}
    PROVE  LET s == CHOOSE s \in FreeSlots : \A r \in FreeSlots : s <= r
           IN  s \in Slots /\ att[s] = Free
<1>1. FreeSlots \in SUBSET Nat
  BY OfflineAssumption DEF FreeSlots, Slots
<1>2. \E s \in FreeSlots : \A r \in FreeSlots : s <= r
  BY <1>1, Smallest
<1> QED BY <1>2 DEF FreeSlots

LEMMA SendStarts ==
    ASSUME NEW t, NEW op, NEW m, NEW items, Send(t, op, m, items)
    PROVE  \E s \in Slots :
              /\ att[s] = Free
              /\ att' = [att EXCEPT ![s] = [m |-> m, state |-> "transit", live |-> TRUE]]
              /\ task' = [task EXCEPT ![t] = [op |-> op, pc |-> "waiting", m |-> m, slot |-> s,
                                              items |-> items]]
  BY FirstFree DEF Send

\* Letting go of an attempt changes nothing that the server is at.
LEMMA Releases ==
    ASSUME TypeOK, NEW t \in Tasks, Attached(t)
    PROVE  /\ Release(t) \in [Slots -> Attempt]
           /\ \A s \in Slots : s # task[t].slot => Release(t)[s] = att[s]
           /\ \A s \in Slots :
                 \/ Release(t)[s] = Free /\ ~Busy(s)
                 \/ Release(t)[s].state = att[s].state /\ Release(t)[s].m = att[s].m
<1>1. CASE task[t].slot = NoSlot
  BY <1>1 DEF Release, TypeOK, Slots, NoSlot
<1>2. CASE task[t].slot # NoSlot
  <2> DEFINE s == task[t].slot
  <2>1. s \in Slots /\ att[s] \in Attempt
    BY <1>2 DEF TypeOK, Task
  <2>2. CASE att[s].state \in {"ok", "rejected", "lost"}
    <3>1. Release(t) = [att EXCEPT ![s] = Free]
      BY <1>2, <2>1, <2>2 DEF Release, TypeOK
    <3> QED BY <2>1, <2>2, <3>1 DEF TypeOK, Attempt, Busy
  <2>3. CASE att[s].state \notin {"ok", "rejected", "lost"}
    <3>1. Release(t) = [att EXCEPT ![s] = [att[s] EXCEPT !.live = FALSE]]
      BY <1>2, <2>1, <2>3 DEF Release, TypeOK
    <3>2. [att[s] EXCEPT !.live = FALSE] \in Attempt
      <4>1. att[s] # Free
        BY <1>2 DEF Attached, Free
      <4> QED BY <2>1, <4>1 DEF Attempt
    <3>3. [att[s] EXCEPT !.live = FALSE].state = att[s].state /\ [att[s] EXCEPT !.live = FALSE].m = att[s].m
      BY <2>1 DEF Attempt, Free
    <3> QED BY <2>1, <3>1, <3>2, <3>3 DEF TypeOK
  <2> QED BY <2>2, <2>3
<1> QED BY <1>1, <1>2

\* A call that does not wait has no attempt.
LEMMA NotWaiting ==
    ASSUME TypeOK, Calls, NEW t \in Tasks, task[t].pc # "waiting"
    PROVE  task[t].slot = NoSlot /\ Release(t) = att
  BY DEF Calls, Attached, Release

\* A call that sends has a new attempt for itself.
LEMMA Sent ==
    ASSUME TypeOK, Calls, NEW t \in Tasks, NEW op \in {"submit", "flush", "retry"},
           NEW m \in Mutations, NEW items \in SUBSET Item,
           Send(t, op, m, items)
    PROVE  /\ task' \in [Tasks -> Task] /\ att' \in [Slots -> Attempt]
           /\ \A u \in Tasks : Attached(u)'
           /\ task'[t].op = op /\ task'[t].pc = "waiting" /\ task'[t].m = m /\ task'[t].items = items
           /\ \A u \in Tasks : u # t => task'[u] = task[u]
           /\ \A s \in Slots : att'[s] = att[s] \/ (att[s] = Free /\ att'[s].state = "transit")
<1>1. PICK s \in Slots :
         /\ att[s] = Free
         /\ att' = [att EXCEPT ![s] = [m |-> m, state |-> "transit", live |-> TRUE]]
         /\ task' = [task EXCEPT ![t] = [op |-> op, pc |-> "waiting", m |-> m, slot |-> s,
                                         items |-> items]]
  BY SendStarts
<1>2. [m |-> m, state |-> "transit", live |-> TRUE] \in Attempt
  BY DEF Attempt, AttemptStates
<1>3. [op |-> op, pc |-> "waiting", m |-> m, slot |-> s, items |-> items] \in Task
  BY DEF Task
<1>4. task' \in [Tasks -> Task] /\ att' \in [Slots -> Attempt]
  BY <1>1, <1>2, <1>3 DEF TypeOK
<1>5. /\ task'[t] = [op |-> op, pc |-> "waiting", m |-> m, slot |-> s, items |-> items]
      /\ \A u \in Tasks : u # t => task'[u] = task[u]
      /\ att'[s] = [m |-> m, state |-> "transit", live |-> TRUE]
      /\ \A r \in Slots : r # s => att'[r] = att[r]
  BY <1>1 DEF TypeOK
<1>6. \A u \in Tasks : task[u].slot # s
  BY <1>1 DEF Calls, Attached, Free, Slots, NoSlot
<1>7. \A u \in Tasks : task[u].slot \in Slots \union {NoSlot}
  BY DEF TypeOK, Task
<1>8. ASSUME NEW u \in Tasks
      PROVE  Attached(u)'
  <2>1. CASE u = t
    BY <1>5, <1>6, <2>1 DEF Attached
  <2>2. CASE u # t
    BY <1>5, <1>6, <1>7, <2>2 DEF Attached, Calls
  <2> QED BY <2>1, <2>2
<1> QED BY <1>1, <1>4, <1>5, <1>8

\* A call that lets go of its attempt, or has none, leaves the others theirs.
LEMMA LetGo ==
    ASSUME TypeOK, Calls, NEW t \in Tasks, NEW r \in Task, r.slot = NoSlot,
           task' = [task EXCEPT ![t] = r],
           att' = Release(t)
    PROVE  /\ task' \in [Tasks -> Task] /\ att' \in [Slots -> Attempt]
           /\ \A u \in Tasks : Attached(u)'
           /\ task'[t] = r
           /\ \A u \in Tasks : u # t => task'[u] = task[u]
           /\ \A s \in Slots : \/ att'[s] = Free /\ ~Busy(s)
                               \/ att'[s].state = att[s].state /\ att'[s].m = att[s].m
<1>1. /\ task' \in [Tasks -> Task] /\ task'[t] = r
      /\ \A u \in Tasks : u # t => task'[u] = task[u]
  BY DEF TypeOK
<1>2. Attached(t)
  BY DEF Calls
<1>3. /\ att' \in [Slots -> Attempt]
      /\ \A s \in Slots : s # task[t].slot => att'[s] = att[s]
      /\ \A s \in Slots : \/ att'[s] = Free /\ ~Busy(s)
                          \/ att'[s].state = att[s].state /\ att'[s].m = att[s].m
  BY <1>2, Releases
<1>4. ASSUME NEW u \in Tasks
      PROVE  Attached(u)'
  <2>1. CASE u = t
    BY <1>1, <2>1 DEF Attached
  <2>2. CASE u # t /\ task[u].slot # NoSlot
    <3>1. task[u].slot \in Slots
      BY <2>2 DEF TypeOK, Task
    <3>2. task[t].slot # task[u].slot
      BY <2>2 DEF Calls, Attached
    <3>3. att'[task[u].slot] = att[task[u].slot]
      BY <1>3, <3>1, <3>2
    <3> QED BY <1>1, <2>2, <3>3 DEF Calls, Attached
  <2>3. CASE u # t /\ task[u].slot = NoSlot
    BY <1>1, <2>3 DEF Attached
  <2> QED BY <2>1, <2>2, <2>3
<1> QED BY <1>1, <1>3, <1>4

\* What the server and the wire do leaves a call its attempt.
LEMMA Served ==
    ASSUME TypeOK, Calls, task' = task,
           \A s \in Slots : att[s].live => att'[s].live /\ att'[s].m = att[s].m
    PROVE  \A u \in Tasks : Attached(u)'
<1> SUFFICES ASSUME NEW u \in Tasks, task[u].slot # NoSlot
             PROVE  Attached(u)'
  BY DEF Attached
<1>1. task[u].slot \in Slots
  BY DEF TypeOK, Task
<1> QED BY <1>1 DEF Calls, Attached

\* One attempt moves on; when nobody waits for its answer it is gone.
LEMMA Moves ==
    ASSUME TypeOK, NEW s \in Slots, NEW state \in AttemptStates,
           att[s].state # "free", Move(s, state)
    PROVE  /\ att' \in [Slots -> Attempt]
           /\ \A r \in Slots : r # s => att'[r] = att[r]
           /\ \/ /\ att'[s] = Free
                 /\ ~att[s].live /\ state \notin {"running", "committed"}
              \/ /\ att'[s].state = state /\ att'[s].m = att[s].m
                 /\ att[s].live => att'[s].live
<1>1. att[s] \in [m : Mutations, state : AttemptStates, live : BOOLEAN]
  BY DEF TypeOK, Attempt, Free
<1>2. CASE att[s].live \/ state \in {"running", "committed"}
  <2>1. att' = [att EXCEPT ![s] = [att[s] EXCEPT !.state = state]]
    BY <1>2 DEF Move, TypeOK
  <2>2. [att[s] EXCEPT !.state = state] \in Attempt
    BY <1>1 DEF Attempt
  <2> QED BY <1>1, <2>1, <2>2 DEF TypeOK
<1>3. CASE ~(att[s].live \/ state \in {"running", "committed"})
  <2>1. att' = [att EXCEPT ![s] = Free]
    BY <1>3 DEF Move, TypeOK
  <2> QED BY <1>3, <2>1 DEF TypeOK, Attempt
<1> QED BY <1>2, <1>3

LEMMA MovesTo ==
    ASSUME TypeOK, NEW s \in Slots, NEW state \in AttemptStates,
           att[s].state # "free", Move(s, state)
    PROVE  /\ att' \in [Slots -> Attempt]
           /\ \A r \in Slots : r # s => att'[r] = att[r]
           /\ att[s].live => att'[s].live /\ att'[s].m = att[s].m
           /\ att'[s] = Free \/ (att'[s].state = state /\ att'[s].m = att[s].m)
  BY Moves

\* A connection that breaks: what was not at the handler may be gone, and what was
\* may go on without anybody waiting for it.
LEMMA Loses ==
    ASSUME TypeOK, NEW t \in Tasks, Lose(t)
    PROVE  /\ att' \in [Slots -> Attempt]
           /\ \E s \in Slots :
                /\ att'[s].state = "lost" /\ att'[s].m = att[s].m /\ att'[s].live = att[s].live
                /\ att[s] # Free
                /\ \/ ~Busy(s) /\ \A q \in Slots : q # s => att'[q] = att[q]
                   \/ \E r \in Slots :
                        /\ r # s /\ att[r] = Free
                        /\ att'[r].state = att[s].state /\ att'[r].m = att[s].m
                        /\ att[s].state \in {"transit", "running", "committed"}
                        /\ \A q \in Slots : q # s /\ q # r => att'[q] = att[q]
<1> DEFINE s == task[t].slot
<1>1. /\ s \in Slots /\ Answer(t) = att[s].state
      /\ att[s].state \in {"transit", "running", "committed", "ok", "rejected"}
  BY DEF Lose, Answer, TypeOK, Task
<1>2. att[s] # Free /\ att[s] \in [m : Mutations, state : AttemptStates, live : BOOLEAN]
  BY <1>1 DEF TypeOK, Attempt, Free
<1>3. CASE /\ att[s].state \in {"transit", "ok", "rejected"}
           /\ att' = [att EXCEPT ![s].state = "lost"]
  <2>1. [att[s] EXCEPT !.state = "lost"] \in Attempt
    BY <1>2 DEF Attempt, AttemptStates
  <2>2. att' = [att EXCEPT ![s] = [att[s] EXCEPT !.state = "lost"]]
    BY <1>3 DEF TypeOK
  <2>3. att' \in [Slots -> Attempt]
    BY <1>1, <2>1, <2>2 DEF TypeOK
  <2>4. /\ att'[s].state = "lost" /\ att'[s].m = att[s].m /\ att'[s].live = att[s].live
        /\ \A q \in Slots : q # s => att'[q] = att[q]
    BY <1>1, <1>2, <2>2 DEF TypeOK
  <2> QED BY <1>1, <1>2, <1>3, <2>3, <2>4 DEF Busy
<1>4. CASE /\ FreeSlots # {} /\ att[s].state \in {"transit", "running", "committed"}
           /\ LET r == CHOOSE r \in FreeSlots : \A q \in FreeSlots : r <= q
              IN  att' = [att EXCEPT ![s].state = "lost", ![r] = [att[s] EXCEPT !.live = FALSE]]
  <2> DEFINE r == CHOOSE r \in FreeSlots : \A q \in FreeSlots : r <= q
  <2>1. r \in Slots /\ att[r] = Free
    BY <1>4, FirstFree
  <2>2. r # s
    BY <1>2, <2>1
  <2> HIDE DEF r
  <2>3. att' = [att EXCEPT ![s] = [att[s] EXCEPT !.state = "lost"],
                           ![r] = [att[s] EXCEPT !.live = FALSE]]
    BY <1>4 DEF r
  <2>4. /\ [att[s] EXCEPT !.state = "lost"] \in Attempt
        /\ [att[s] EXCEPT !.live = FALSE] \in Attempt
    BY <1>2 DEF Attempt, AttemptStates
  <2>5. att' \in [Slots -> Attempt]
    BY <1>1, <2>1, <2>2, <2>3, <2>4 DEF TypeOK
  <2>6. /\ att'[s].state = "lost" /\ att'[s].m = att[s].m /\ att'[s].live = att[s].live
        /\ att'[r].state = att[s].state /\ att'[r].m = att[s].m
        /\ \A q \in Slots : q # s /\ q # r => att'[q] = att[q]
    BY <1>1, <1>2, <2>1, <2>2, <2>3 DEF TypeOK
  <2>7. \E x \in Slots :
           /\ x # s /\ att[x] = Free
           /\ att'[x].state = att[s].state /\ att'[x].m = att[s].m
           /\ att[s].state \in {"transit", "running", "committed"}
           /\ \A q \in Slots : q # s /\ q # x => att'[q] = att[q]
    BY <1>4, <2>1, <2>2, <2>6, Zenon
  <2> QED BY <1>1, <1>2, <2>5, <2>6, <2>7, Zenon
<1> QED BY <1>1, <1>3, <1>4 DEF Lose

\* A restart loses what the server was at.
LEMMA Restarts ==
    ASSUME TypeOK, Restart
    PROVE  /\ att' \in [Slots -> Attempt]
           /\ \A s \in Slots :
                 \/ att'[s] = att[s] /\ ~Busy(s)
                 \/ att'[s] = Free /\ ~att[s].live
                 \/ att'[s].state = "lost" /\ att'[s].m = att[s].m /\ att'[s].live = att[s].live
<1>1. ASSUME NEW s \in Slots
      PROVE  /\ att'[s] \in Attempt
             /\ \/ att'[s] = att[s] /\ ~Busy(s)
                \/ att'[s] = Free /\ ~att[s].live
                \/ att'[s].state = "lost" /\ att'[s].m = att[s].m /\ att'[s].live = att[s].live
  <2>1. CASE ~Busy(s)
    BY <2>1 DEF Restart, Busy, TypeOK
  <2>2. CASE Busy(s)
    <3>1. att[s] \in [m : Mutations, state : AttemptStates, live : BOOLEAN]
      BY <2>2 DEF TypeOK, Attempt, Free, Busy
    <3>2. att'[s] = IF att[s].live THEN [att[s] EXCEPT !.state = "lost"] ELSE Free
      BY <2>2 DEF Restart, Busy
    <3>3. [att[s] EXCEPT !.state = "lost"] \in [m : Mutations, state : AttemptStates, live : BOOLEAN]
      BY <3>1 DEF AttemptStates
    <3>4. CASE att[s].live
      BY <3>1, <3>2, <3>3, <3>4 DEF Attempt
    <3>5. CASE ~att[s].live
      BY <3>2, <3>5 DEF Attempt
    <3> QED BY <3>4, <3>5
  <2> QED BY <2>1, <2>2
<1>2. att' = [s \in Slots |-> att'[s]]
  BY DEF Restart
<1> QED BY <1>1, <1>2

-----------------------------------------------------------------------------
(***************************************************************************)
(* Types, and what a call is at.                                           *)
(***************************************************************************)

\* A step of one call leaves the others what they are.
LEMMA OwnStep ==
    ASSUME TypeOK, Calls, NEW t \in Tasks,
           \A u \in Tasks : Attached(u)',
           \A u \in Tasks : u # t => task'[u] = task[u],
           lock' = lock \/ lock \in {t, NoTask},
           CallOk(t)'
    PROVE  Calls'
<1>1. ASSUME NEW u \in Tasks, u # t
      PROVE  CallOk(u)'
  <2>1. CallOk(u) /\ task'[u] = task[u] /\ u # NoTask
    BY <1>1 DEF Calls, Tasks, NoTask
  <2> QED BY <1>1, <2>1 DEF CallOk
<1> QED BY <1>1 DEF Calls

LEMMA IdleIsTask == Idle \in Task /\ Idle.slot = NoSlot /\ Idle.op = "none" /\ Idle.pc = "idle"
  BY DEF Idle, Task, Item

\* A call that ends.
LEMMA EndBase ==
    ASSUME TypeOK, Calls, NEW t \in Tasks, End(t), lock' = lock \/ lock' = NoTask,
           task[t].op = "flush" \/ lock' = lock \/ lock = t
    PROVE  /\ task' \in [Tasks -> Task] /\ att' \in [Slots -> Attempt]
           /\ Calls'
           /\ task'[t] = Idle
           /\ \A u \in Tasks : u # t => task'[u] = task[u]
           /\ \A s \in Slots : \/ att'[s] = Free /\ ~Busy(s)
                               \/ att'[s].state = att[s].state /\ att'[s].m = att[s].m
<1>1. /\ task' \in [Tasks -> Task] /\ att' \in [Slots -> Attempt]
      /\ \A u \in Tasks : Attached(u)'
      /\ task'[t] = Idle
      /\ \A u \in Tasks : u # t => task'[u] = task[u]
      /\ \A s \in Slots : \/ att'[s] = Free /\ ~Busy(s)
                          \/ att'[s].state = att[s].state /\ att'[s].m = att[s].m
  BY IdleIsTask, LetGo DEF End
<1>2. CallOk(t)'
  BY <1>1, IdleIsTask DEF CallOk
<1>3. lock' = lock \/ lock \in {t, NoTask}
  BY DEF Calls, CallOk
<1>4. Calls'
  BY <1>1, <1>2, <1>3, OwnStep
<1> QED BY <1>1, <1>4

\* A call that has its answer and goes on.
LEMMA GotoBase ==
    ASSUME TypeOK, Calls, NEW t \in Tasks, NEW where \in {"enqueue", "remove", "mark"},
           task[t].pc = "waiting", Goto(t, where), lock' = lock,
           where = "enqueue" <=> task[t].op = "submit"
    PROVE  /\ task' \in [Tasks -> Task] /\ att' \in [Slots -> Attempt]
           /\ Calls'
           /\ task'[t].op = task[t].op /\ task'[t].pc = where /\ task'[t].m = task[t].m
           /\ task'[t].items = task[t].items
           /\ \A u \in Tasks : u # t => task'[u] = task[u]
           /\ \A s \in Slots : \/ att'[s] = Free /\ ~Busy(s)
                               \/ att'[s].state = att[s].state /\ att'[s].m = att[s].m
<1> DEFINE r == [task[t] EXCEPT !.pc = where, !.slot = NoSlot]
<1>1. task[t] \in Task
  BY DEF TypeOK
<1>2. /\ r \in Task /\ r.slot = NoSlot /\ r.op = task[t].op /\ r.pc = where /\ r.m = task[t].m
      /\ r.items = task[t].items
  BY <1>1 DEF Task
<1>3. task' = [task EXCEPT ![t] = r] /\ att' = Release(t)
  BY DEF Goto, TypeOK
<1> HIDE DEF r
<1>4. /\ task' \in [Tasks -> Task] /\ att' \in [Slots -> Attempt]
      /\ \A u \in Tasks : Attached(u)'
      /\ task'[t] = r
      /\ \A u \in Tasks : u # t => task'[u] = task[u]
      /\ \A s \in Slots : \/ att'[s] = Free /\ ~Busy(s)
                          \/ att'[s].state = att[s].state /\ att'[s].m = att[s].m
  BY <1>2, <1>3, LetGo
<1>5. CallOk(t)
  BY DEF Calls
<1>6. CallOk(t)'
  BY <1>2, <1>4, <1>5 DEF CallOk
<1>7. Calls'
  BY <1>4, <1>6, OwnStep
<1> QED BY <1>2, <1>4, <1>7

\* A call that changes without an attempt.
LEMMA LocalBase ==
    ASSUME TypeOK, Calls, NEW t \in Tasks, NEW r \in Task, r.slot = NoSlot,
           task[t].pc # "waiting", task' = [task EXCEPT ![t] = r], att' = att
    PROVE  /\ task' \in [Tasks -> Task] /\ att' \in [Slots -> Attempt]
           /\ \A u \in Tasks : Attached(u)'
           /\ task'[t] = r
           /\ \A u \in Tasks : u # t => task'[u] = task[u]
<1>1. att' = Release(t)
  BY NotWaiting
<1> QED BY <1>1, LetGo

-----------------------------------------------------------------------------
(***************************************************************************)
(* What a step leaves alone.                                               *)
(***************************************************************************)

\* Nothing changes at the server, and no success comes out of nothing.
Quiet ==
    /\ UNCHANGED server
    /\ \A s \in Slots : \/ ~Busy(s) /\ att'[s].state \in {"free", "transit", "lost"}
                        \/ att'[s].state = att[s].state /\ att'[s].m = att[s].m

\* What was queued stays where it is in the queue, and what is new comes last.
QueueGrows ==
    /\ \A m \in Mutations : createdAt[m] > 0 => createdAt'[m] = createdAt[m]
    /\ \A m \in Mutations : createdAt'[m] \in Nat
    /\ \A m \in Mutations : applied[m] > 0 => applied'[m] > 0
    /\ \A m \in Mutations : store'[m] = "queued" =>
          (store[m] = "queued" /\ createdAt[m] > 0) \/ createdAt'[m] > now

\* A call that a step does not touch is as good as it was.
LEMMA Bystander ==
    ASSUME TypeOK, Calls, Stamped, Client, QueueGrows, NEW u \in Tasks, task'[u] = task[u]
    PROVE  Resend(u)' /\ Flushing(u)'
<1>1. CallOk(u) /\ Resend(u) /\ Flushing(u) /\ task[u] \in Task
  BY DEF Calls, Client, TypeOK
<1>2. Resend(u)'
  BY <1>1 DEF Resend, QueueGrows, CallOk
<1>3. ASSUME task[u].op = "flush"
      PROVE  Flushing(u)'
  <2> DEFINE c == task[u]
  <2>1. c.items \in SUBSET Item /\ (c.pc # "next" => c.m \in Mutations /\ createdAt[c.m] > 0)
    BY <1>1, <1>3 DEF CallOk, Resend, Task
  <2>2. \A i \in c.items : /\ i.m \in Mutations /\ createdAt[i.m] > 0
                           /\ i.failed => store[i.m] # "queued"
                           /\ c.pc # "next" => createdAt[c.m] <= createdAt[i.m]
    BY <1>1, <1>3, <2>1 DEF Flushing, Item
  <2>3. /\ \A i \in c.items : createdAt'[i.m] = createdAt[i.m] /\ createdAt[i.m] <= now
        /\ c.pc # "next" => createdAt'[c.m] = createdAt[c.m] /\ createdAt[c.m] <= now
    BY <2>1, <2>2 DEF QueueGrows, Stamped
  <2>4. \A i \in c.items : i.failed => store'[i.m] # "queued"
    BY <2>2, <2>3 DEF QueueGrows, TypeOK
  <2>5. ASSUME NEW m \in Mutations, store'[m] = "queued"
        PROVE  Before(u, m)'
    <3>1. CASE store[m] = "queued" /\ createdAt[m] > 0
      <4>1. createdAt'[m] = createdAt[m] /\ Before(u, m)
        BY <1>1, <1>3, <3>1 DEF QueueGrows, Flushing
      <4> QED BY <2>3, <4>1 DEF Before
    <3>2. CASE createdAt'[m] > now
      BY <2>1, <2>2, <2>3, <3>2 DEF Before, TypeOK, QueueGrows
    <3> QED BY <2>5, <3>1, <3>2 DEF QueueGrows
  <2> QED BY <1>1, <2>2, <2>3, <2>4, <2>5 DEF Flushing
<1> QED BY <1>2, <1>3 DEF Flushing

LEMMA StillSubmits ==
    ASSUME Client, NEW u \in Tasks, task'[u] = task[u],
           task[u].op = "submit" => /\ fate'[task[u].m] = fate[task[u].m]
                                    /\ createdAt'[task[u].m] = createdAt[task[u].m],
           \A v \in Tasks : task'[v].op = "submit" /\ task[u].op = "submit" /\ task'[v].m = task[u].m =>
              task[v].op = "submit" /\ task[v].m = task[u].m
    PROVE  Submission(u)'
<1>1. Submission(u)
  BY DEF Client
<1> QED BY <1>1 DEF Submission

\* Steps that are quiet at the server keep what holds there.
LEMMA QuietKeeps ==
    ASSUME TypeOK, Successes, Once, Quiet
    PROVE  Successes' /\ Once'
<1>1. /\ UNCHANGED <<applied, cache, raced, forgotten>>
      /\ \A s \in Slots : \/ ~Busy(s) /\ att'[s].state \in {"free", "transit", "lost"}
                          \/ att'[s].state = att[s].state /\ att'[s].m = att[s].m
  BY DEF Quiet, server
<1>2. Successes'
  BY <1>1 DEF Successes
<1>3. \A s \in Slots : Busy(s) \/ Busy(s)' => att'[s].state = att[s].state /\ att'[s].m = att[s].m
  BY <1>1 DEF Busy
<1>4. ASSUME NEW m \in Mutations, m \notin raced \union forgotten
      PROVE  OnceOk(m)'
  <2>1. OnceOk(m)
    BY DEF Once
  <2>2. applied'[m] <= 1 /\ (applied'[m] > 0 =>
             m \in cache' \/ \E s \in Slots : att'[s].m = m /\ att'[s].state = "committed")
    BY <1>1, <1>3, <1>4, <2>1 DEF OnceOk, Busy
  <2>3. \A s \in Slots : att'[s].m = m /\ att'[s].state = "running" => applied'[m] = 0
    BY <1>1, <1>3, <1>4, <2>1 DEF OnceOk, Busy
  <2>4. \A r, s \in Slots : att'[r].m = m /\ att'[s].m = m /\ Busy(r)' /\ Busy(s)' => r = s
    BY <1>3, <1>4, <2>1 DEF OnceOk, Busy
  <2> QED BY <2>2, <2>3, <2>4 DEF OnceOk
<1>5. \A m \in Mutations : OnceOk(m)'
  BY <1>1, <1>4 DEF OnceOk
<1> QED BY <1>2, <1>5 DEF Once

-----------------------------------------------------------------------------
(***************************************************************************)
(* The steps of the client.                                                *)
(***************************************************************************)

Kept == TypeOK' /\ Calls' /\ Stamped' /\ Client' /\ NothingLost' /\ Quiet

\* Nothing new in the queue: what is queued was.
LEMMA NoneQueued ==
    ASSUME TypeOK, Stamped, UNCHANGED <<createdAt, applied>>,
           \A m \in Mutations : store'[m] = "queued" => store[m] = "queued"
    PROVE  QueueGrows
  BY DEF QueueGrows, Stamped, TypeOK

LEMMA SubmitKeeps ==
    ASSUME IInv, NEW t \in Tasks, NEW m \in Mutations, SubmitOrQueue(t, m)
    PROVE  Kept
<1> USE DEF IInv
<1>1. /\ task[t].pc = "idle" /\ task[t].op = "none" /\ fate[m] = "new"
      /\ fate' = [fate EXCEPT ![m] = "trying"]
      /\ UNCHANGED <<store, createdAt, now, lock, applied, cache, raced, forgotten, troubles>>
  BY DEF SubmitOrQueue, Idles, server, Calls, CallOk
<1>2. /\ task' \in [Tasks -> Task] /\ att' \in [Slots -> Attempt]
      /\ \A u \in Tasks : Attached(u)'
      /\ task'[t].op = "submit" /\ task'[t].pc \in {"waiting", "enqueue"} /\ task'[t].m = m
      /\ \A u \in Tasks : u # t => task'[u] = task[u]
      /\ \A s \in Slots : att'[s] = att[s] \/ (att[s] = Free /\ att'[s].state = "transit")
  <2>1. CASE Send(t, "submit", m, {})
    BY <2>1, Sent
  <2>2. CASE /\ task' = [task EXCEPT ![t] = [Idle EXCEPT !.op = "submit", !.pc = "enqueue", !.m = m]]
             /\ UNCHANGED att
    <3> DEFINE r == [Idle EXCEPT !.op = "submit", !.pc = "enqueue", !.m = m]
    <3>1. r \in Task /\ r.slot = NoSlot /\ r.op = "submit" /\ r.pc = "enqueue" /\ r.m = m
      BY IdleIsTask DEF Task
    <3> HIDE DEF r
    <3>2. task' = [task EXCEPT ![t] = r]
      BY <2>2 DEF r
    <3> QED BY <1>1, <2>2, <3>1, <3>2, LocalBase
  <2> QED BY <2>1, <2>2 DEF SubmitOrQueue
<1>3. TypeOK'
  BY <1>1, <1>2 DEF TypeOK
<1>4. Calls'
  <2>1. CallOk(t)'
    BY <1>2 DEF CallOk
  <2> QED BY <1>1, <1>2, <2>1, OwnStep
<1>5. Stamped'
  BY <1>1 DEF Stamped, TypeOK
<1>6. Client'
  <2>1. QueueGrows
    BY <1>1, NoneQueued
  <2>2. \A u \in Tasks : task[u].op = "submit" => task[u].m # m /\ task[u].m \in Mutations
    BY <1>1 DEF Client, Submission, Calls, CallOk
  <2>3. ASSUME NEW u \in Tasks, u # t
        PROVE  Submission(u)' /\ Resend(u)' /\ Flushing(u)'
    <3>1. task'[u] = task[u]
      BY <1>2, <2>3
    <3>2. task[u].op = "submit" => fate'[task[u].m] = fate[task[u].m]
      BY <1>1, <2>2 DEF TypeOK
    <3>3. Submission(u)'
      BY <1>1, <1>2, <2>2, <3>1, <3>2, StillSubmits
    <3> QED BY <2>1, <3>1, <3>3, Bystander
  <2>4. fate'[m] = "trying" /\ createdAt'[m] = 0
    BY <1>1 DEF Stamped, TypeOK
  <2>5. Submission(t)' /\ Resend(t)' /\ Flushing(t)'
    BY <1>2, <2>2, <2>4 DEF Submission, Resend, Flushing
  <2> QED BY <2>3, <2>5 DEF Client
<1>7. NothingLost'
  <2>1. Submitting(m)'
    BY <1>2 DEF Submitting
  <2>2. \A k \in Mutations : Submitting(k) => Submitting(k)'
    BY <1>1, <1>2 DEF Submitting
  <2>3. \A k \in Mutations : k # m => fate'[k] = fate[k]
    BY <1>1 DEF TypeOK
  <2> QED BY <1>1, <2>1, <2>2, <2>3 DEF NothingLost
<1>8. Quiet
  BY <1>1, <1>2 DEF Quiet, server, Busy, Free
<1> QED BY <1>3, <1>4, <1>5, <1>6, <1>7, <1>8 DEF Kept

\* A step of one call, which submits nothing new.
LEMMA OneCall ==
    ASSUME IInv, NEW t \in Tasks, \A u \in Tasks : u # t => task'[u] = task[u], QueueGrows,
           \A u \in Tasks : u # t /\ task[u].op = "submit" =>
              fate'[task[u].m] = fate[task[u].m] /\ createdAt'[task[u].m] = createdAt[task[u].m],
           task'[t].op = "submit" => task[t].op = "submit" /\ task'[t].m = task[t].m,
           Submission(t)', Resend(t)', Flushing(t)'
    PROVE  Client'
<1> SUFFICES ASSUME NEW u \in Tasks, u # t
             PROVE  Submission(u)' /\ Resend(u)' /\ Flushing(u)'
  BY DEF Client
<1>1. task'[u] = task[u]
  OBVIOUS
<1>2. Submission(u)'
  BY <1>1, StillSubmits DEF IInv
<1> QED BY <1>1, <1>2, Bystander DEF IInv

\* An idle call has nothing to keep.
LEMMA IdleKeeps ==
    ASSUME NEW t \in Tasks, task'[t] = Idle
    PROVE  Submission(t)' /\ Resend(t)' /\ Flushing(t)'
  BY IdleIsTask DEF Submission, Resend, Flushing

\* Two calls do not submit the same.
LEMMA OwnSubmission ==
    ASSUME IInv, NEW t \in Tasks, task[t].op = "submit"
    PROVE  /\ task[t].m \in Mutations /\ fate[task[t].m] = "trying" /\ createdAt[task[t].m] = 0
           /\ store[task[t].m] = "absent"
           /\ \A u \in Tasks : u # t /\ task[u].op = "submit" => task[u].m # task[t].m /\ task[u].m \in Mutations
<1>1. \A u \in Tasks : task[u].op = "submit" => task[u].m \in Mutations
  BY DEF IInv, Calls, CallOk
<1>2. Submission(t)
  BY DEF IInv, Client
<1> QED BY <1>1, <1>2 DEF Submission, IInv, Stamped, TypeOK

LEMMA SubmitAnsweredKeeps ==
    ASSUME IInv, NEW t \in Tasks, SubmitAnswered(t)
    PROVE  Kept
<1> USE DEF IInv
<1> DEFINE m == task[t].m
<1>1. /\ task[t].op = "submit" /\ Answer(t) \in {"ok", "rejected"}
      /\ fate' = [fate EXCEPT ![m] = IF Answer(t) = "ok" THEN "told" ELSE "refused"]
      /\ End(t)
      /\ UNCHANGED <<store, createdAt, now, lock, applied, cache, raced, forgotten, troubles>>
  BY DEF SubmitAnswered, At, server
<1>2. /\ task' \in [Tasks -> Task] /\ att' \in [Slots -> Attempt]
      /\ Calls'
      /\ task'[t] = Idle
      /\ \A u \in Tasks : u # t => task'[u] = task[u]
      /\ \A s \in Slots : \/ att'[s] = Free /\ ~Busy(s)
                          \/ att'[s].state = att[s].state /\ att'[s].m = att[s].m
  BY <1>1, EndBase
<1>3. /\ m \in Mutations /\ fate[m] = "trying" /\ createdAt[m] = 0
      /\ \A u \in Tasks : u # t /\ task[u].op = "submit" => task[u].m # m /\ task[u].m \in Mutations
  BY <1>1, OwnSubmission
<1>4. fate'[m] \in {"told", "refused"} /\ \A k \in Mutations : k # m => fate'[k] = fate[k]
  BY <1>1, <1>3 DEF TypeOK
<1>5. TypeOK'
  BY <1>1, <1>2, <1>3 DEF TypeOK
<1>6. Stamped'
  BY <1>1, <1>3, <1>4 DEF Stamped
<1>7. Client'
  <2>1. QueueGrows
    BY <1>1, NoneQueued
  <2>2. Submission(t)' /\ Resend(t)' /\ Flushing(t)'
    BY <1>2, IdleKeeps
  <2> QED BY <1>1, <1>2, <1>3, <1>4, <2>1, <2>2, IdleIsTask, OneCall
<1>8. NothingLost'
  <2>1. fate'[m] = "told" => applied[m] > 0
    <3>1. SUFFICES ASSUME Answer(t) = "ok" PROVE applied[m] > 0
      BY <1>1, <1>3 DEF TypeOK
    <3>2. task[t].slot \in Slots /\ att[task[t].slot].state = "ok" /\ att[task[t].slot].m = m
      BY <3>1 DEF Answer, TypeOK, Task, Calls, Attached
    <3> QED BY <3>2 DEF Successes
  <2>2. \A k \in Mutations : k # m /\ Submitting(k) => Submitting(k)'
    BY <1>2 DEF Submitting
  <2> QED BY <1>1, <1>4, <2>1, <2>2 DEF NothingLost
<1>9. Quiet
  BY <1>1, <1>2 DEF Quiet, server, Free
<1> QED BY <1>2, <1>5, <1>6, <1>7, <1>8, <1>9 DEF Kept

LEMMA SubmitOfflineKeeps ==
    ASSUME IInv, NEW t \in Tasks, SubmitOffline(t)
    PROVE  Kept
<1> USE DEF IInv
<1>1. /\ task[t].op = "submit" /\ task[t].pc = "waiting" /\ Goto(t, "enqueue")
      /\ UNCHANGED <<store, createdAt, now, lock, fate, applied, cache, raced, forgotten, troubles>>
  BY DEF SubmitOffline, At, server
<1>2. /\ task' \in [Tasks -> Task] /\ att' \in [Slots -> Attempt]
      /\ Calls'
      /\ task'[t].op = "submit" /\ task'[t].pc = "enqueue" /\ task'[t].m = task[t].m
      /\ \A u \in Tasks : u # t => task'[u] = task[u]
      /\ \A s \in Slots : \/ att'[s] = Free /\ ~Busy(s)
                          \/ att'[s].state = att[s].state /\ att'[s].m = att[s].m
  BY <1>1, GotoBase
<1>3. TypeOK' /\ Stamped'
  BY <1>1, <1>2 DEF TypeOK, Stamped
<1>4. Client'
  <2>1. QueueGrows
    BY <1>1, NoneQueued
  <2>2. Submission(t)' /\ Resend(t)' /\ Flushing(t)'
    BY <1>1, <1>2, OwnSubmission DEF Submission, Resend, Flushing
  <2> QED BY <1>1, <1>2, <2>1, <2>2, OneCall
<1>5. NothingLost'
  <2>1. \A k \in Mutations : Submitting(k) => Submitting(k)'
    BY <1>2 DEF Submitting
  <2> QED BY <1>1, <2>1 DEF NothingLost
<1>6. Quiet
  BY <1>1, <1>2 DEF Quiet, server, Free
<1> QED BY <1>2, <1>3, <1>4, <1>5, <1>6 DEF Kept

LEMMA QueueMutationKeeps ==
    ASSUME IInv, NEW t \in Tasks, QueueMutation(t)
    PROVE  Kept
<1> USE DEF IInv
<1> DEFINE m == task[t].m
<1>1. /\ task[t].op = "submit" /\ End(t)
      /\ store' = [store EXCEPT ![m] = "queued"]
      /\ createdAt' = [createdAt EXCEPT ![m] = now + 1] /\ now' = now + 1
      /\ UNCHANGED <<lock, fate, applied, cache, raced, forgotten, troubles>>
  BY DEF QueueMutation, At, server
<1>2. /\ task' \in [Tasks -> Task] /\ att' \in [Slots -> Attempt]
      /\ Calls'
      /\ task'[t] = Idle
      /\ \A u \in Tasks : u # t => task'[u] = task[u]
      /\ \A s \in Slots : \/ att'[s] = Free /\ ~Busy(s)
                          \/ att'[s].state = att[s].state /\ att'[s].m = att[s].m
  BY <1>1, EndBase
<1>3. /\ m \in Mutations /\ fate[m] = "trying" /\ createdAt[m] = 0
      /\ \A u \in Tasks : u # t /\ task[u].op = "submit" => task[u].m # m /\ task[u].m \in Mutations
  BY <1>1, OwnSubmission
<1>4. /\ store'[m] = "queued" /\ createdAt'[m] = now + 1 /\ now \in Nat
      /\ \A k \in Mutations : k # m => store'[k] = store[k] /\ createdAt'[k] = createdAt[k]
      /\ \A k \in Mutations : createdAt[k] \in Nat
  BY <1>1, <1>3 DEF TypeOK
<1>5. TypeOK'
  BY <1>1, <1>2, <1>3 DEF TypeOK
<1>6. Stamped'
  BY <1>1, <1>3, <1>4 DEF Stamped
<1>7. Client'
  <2>1. QueueGrows
    BY <1>1, <1>3, <1>4, <1>5 DEF QueueGrows, Stamped, TypeOK
  <2>2. Submission(t)' /\ Resend(t)' /\ Flushing(t)'
    BY <1>2, IdleKeeps
  <2> QED BY <1>1, <1>2, <1>3, <1>4, <2>1, <2>2, IdleIsTask, OneCall
<1>8. NothingLost'
  <2>1. \A k \in Mutations : k # m /\ Submitting(k) => Submitting(k)'
    BY <1>2 DEF Submitting
  <2> QED BY <1>1, <1>4, <2>1 DEF NothingLost
<1>9. Quiet
  BY <1>1, <1>2 DEF Quiet, server, Free
<1> QED BY <1>2, <1>5, <1>6, <1>7, <1>8, <1>9 DEF Kept

\* A tab that is closed takes its call with it.
LEMMA CloseTabKeeps ==
    ASSUME IInv, NEW t \in Tasks, CloseTab(t)
    PROVE  Kept
<1> USE DEF IInv
<1> DEFINE m == task[t].m
<1>1. /\ End(t) /\ (lock' = IF lock = t THEN NoTask ELSE lock)
      /\ fate' = IF task[t].op = "submit" THEN [fate EXCEPT ![m] = "closed"] ELSE fate
      /\ troubles < MaxTroubles /\ troubles' = troubles + 1
      /\ UNCHANGED <<store, createdAt, now, applied, cache, raced, forgotten>>
  BY DEF CloseTab, Trouble, server
<1>2. /\ task' \in [Tasks -> Task] /\ att' \in [Slots -> Attempt]
      /\ Calls'
      /\ task'[t] = Idle
      /\ \A u \in Tasks : u # t => task'[u] = task[u]
      /\ \A s \in Slots : \/ att'[s] = Free /\ ~Busy(s)
                          \/ att'[s].state = att[s].state /\ att'[s].m = att[s].m
  <2>1. lock' = lock \/ lock' = NoTask
    BY <1>1
  <2>2. task[t].op = "flush" \/ lock' = lock \/ lock = t
    BY <1>1
  <2> QED BY <1>1, <2>1, <2>2, EndBase
<1>3. task[t].op = "submit" =>
        /\ m \in Mutations
        /\ \A u \in Tasks : u # t /\ task[u].op = "submit" => task[u].m # m /\ task[u].m \in Mutations
  BY OwnSubmission
<1>4. /\ fate' \in [Mutations -> {"new", "trying", "told", "refused", "discarded", "closed"}]
      /\ \A k \in Mutations : \/ fate'[k] = fate[k]
                              \/ task[t].op = "submit" /\ k = m /\ fate'[k] = "closed"
      /\ \A k \in Mutations : task[t].op = "submit" /\ k = m => fate'[k] = "closed"
  BY <1>1, <1>3 DEF TypeOK
<1>5. TypeOK'
  BY <1>1, <1>2, <1>4, OfflineAssumption DEF TypeOK
<1>6. Stamped'
  BY <1>1, <1>4 DEF Stamped
<1>7. Client'
  <2>1. QueueGrows
    BY <1>1, NoneQueued
  <2>2. Submission(t)' /\ Resend(t)' /\ Flushing(t)'
    BY <1>2, IdleKeeps
  <2>3. ASSUME NEW u \in Tasks, u # t, task[u].op = "submit"
        PROVE  fate'[task[u].m] = fate[task[u].m] /\ createdAt'[task[u].m] = createdAt[task[u].m]
    BY <1>1, <1>3, <1>4, <2>3 DEF Calls, CallOk
  <2> QED BY <1>2, <2>1, <2>2, <2>3, IdleIsTask, OneCall
<1>8. NothingLost'
  <2>1. \A k \in Mutations : Submitting(k) => Submitting(k)' \/ (task[t].op = "submit" /\ k = m)
    BY <1>2 DEF Submitting
  <2> QED BY <1>1, <1>4, <2>1 DEF NothingLost
<1>9. Quiet
  BY <1>1, <1>2 DEF Quiet, server, Free
<1> QED BY <1>2, <1>5, <1>6, <1>7, <1>8, <1>9 DEF Kept

\* A flush that ends lets go of the lock.
LEMMA FlushEndsKeeps ==
    ASSUME IInv, NEW t \in Tasks, FlushEnds(t)
    PROVE  Kept
<1> USE DEF IInv
<1>1. /\ task[t].op = "flush" /\ End(t) /\ lock' = NoTask
      /\ UNCHANGED <<store, createdAt, now, fate, applied, cache, raced, forgotten, troubles>>
  BY DEF FlushEnds, At, server
<1>2. /\ task' \in [Tasks -> Task] /\ att' \in [Slots -> Attempt]
      /\ Calls'
      /\ task'[t] = Idle
      /\ \A u \in Tasks : u # t => task'[u] = task[u]
      /\ \A s \in Slots : \/ att'[s] = Free /\ ~Busy(s)
                          \/ att'[s].state = att[s].state /\ att'[s].m = att[s].m
  BY <1>1, EndBase
<1>3. TypeOK' /\ Stamped'
  BY <1>1, <1>2 DEF TypeOK, Stamped
<1>4. Client'
  <2>1. QueueGrows
    BY <1>1, NoneQueued
  <2>2. Submission(t)' /\ Resend(t)' /\ Flushing(t)'
    BY <1>2, IdleKeeps
  <2> QED BY <1>1, <1>2, <2>1, <2>2, IdleIsTask, OneCall
<1>5. NothingLost'
  <2>1. \A k \in Mutations : Submitting(k) => Submitting(k)'
    BY <1>1, <1>2 DEF Submitting
  <2> QED BY <1>1, <2>1 DEF NothingLost
<1>6. Quiet
  BY <1>1, <1>2 DEF Quiet, server, Free
<1> QED BY <1>2, <1>3, <1>4, <1>5, <1>6 DEF Kept

\* An answer to a flush or a retry: with a success the item may go.
LEMMA AnsweredKeeps ==
    ASSUME IInv, NEW t \in Tasks, FlushAnswered(t) \/ RetryAnswered(t)
    PROVE  Kept
<1> USE DEF IInv
<1> DEFINE where == IF Answer(t) = "ok" THEN "remove" ELSE "mark"
<1>1. /\ task[t].op \in {"flush", "retry"} /\ task[t].pc = "waiting" /\ Goto(t, where)
      /\ UNCHANGED <<store, createdAt, now, lock, fate, applied, cache, raced, forgotten, troubles>>
  BY DEF FlushAnswered, RetryAnswered, At, server
<1>2. where \in {"remove", "mark"} /\ (where = "remove" => Answer(t) = "ok")
  OBVIOUS
<1> HIDE DEF where
<1>3. /\ task' \in [Tasks -> Task] /\ att' \in [Slots -> Attempt]
      /\ Calls'
      /\ task'[t].op = task[t].op /\ task'[t].pc = where /\ task'[t].m = task[t].m
      /\ task'[t].items = task[t].items
      /\ \A u \in Tasks : u # t => task'[u] = task[u]
      /\ \A s \in Slots : \/ att'[s] = Free /\ ~Busy(s)
                          \/ att'[s].state = att[s].state /\ att'[s].m = att[s].m
  BY <1>1, <1>2, GotoBase
<1>4. TypeOK' /\ Stamped'
  BY <1>1, <1>3 DEF TypeOK, Stamped
<1>5. Client'
  <2>1. QueueGrows
    BY <1>1, NoneQueued
  <2>2. Answer(t) = "ok" => applied[task[t].m] > 0
    <3>1. SUFFICES ASSUME Answer(t) = "ok" PROVE applied[task[t].m] > 0
      OBVIOUS
    <3>2. task[t].slot \in Slots /\ att[task[t].slot].state = "ok" /\ att[task[t].slot].m = task[t].m
      BY <3>1 DEF Answer, TypeOK, Task, Calls, Attached
    <3> QED BY <3>2 DEF Successes
  <2>3. Submission(t)' /\ Resend(t)'
    BY <1>1, <1>2, <1>3, <2>2 DEF Submission, Resend, Client
  <2>4. Flushing(t)'
    <3>1. Flushing(t)
      BY DEF Client
    <3>2. \A m \in Mutations : Before(t, m) => Before(t, m)'
      BY <1>1, <1>2, <1>3 DEF Before
    <3> QED BY <1>1, <1>2, <1>3, <3>1, <3>2 DEF Flushing
  <2> QED BY <1>1, <1>3, <2>1, <2>3, <2>4, OneCall
<1>6. NothingLost'
  <2>1. \A k \in Mutations : Submitting(k) => Submitting(k)'
    BY <1>1, <1>3 DEF Submitting
  <2> QED BY <1>1, <2>1 DEF NothingLost
<1>7. Quiet
  BY <1>1, <1>3 DEF Quiet, server, Free
<1> QED BY <1>3, <1>4, <1>5, <1>6, <1>7 DEF Kept

\* What a flush begins with.
LEMMA Listed ==
    /\ ListQueued \in SUBSET Item
    /\ \A i \in ListQueued : /\ i.m \in Mutations /\ store[i.m] # "absent"
                             /\ i.failed => store[i.m] # "queued"
    /\ \A m \in Mutations : store[m] # "absent" => \E i \in ListQueued : i.m = m
<1> DEFINE listed(m) == [m |-> m, failed |-> store[m] = "failed"]
<1>1. ASSUME NEW m \in Mutations, store[m] # "absent"
      PROVE  /\ listed(m) \in Item /\ listed(m).m = m
             /\ listed(m).failed => store[m] # "queued"
  <2>1. CASE store[m] = "failed"
    <3>1. listed(m) = [m |-> m, failed |-> TRUE]
      BY <2>1
    <3> QED BY <2>1, <3>1 DEF Item
  <2>2. CASE store[m] # "failed"
    <3>1. listed(m) = [m |-> m, failed |-> FALSE]
      BY <2>2
    <3> QED BY <2>2, <3>1 DEF Item
  <2> QED BY <2>1, <2>2
<1>2. \A i \in ListQueued : \E m \in Mutations : store[m] # "absent" /\ i = listed(m)
  BY DEF ListQueued
<1>3. \A m \in Mutations : store[m] # "absent" => listed(m) \in ListQueued
  BY DEF ListQueued
<1> HIDE DEF listed
<1> QED BY <1>1, <1>2, <1>3

\* A flush begins with everything that is in the store before it.
LEMMA StartFlushKeeps ==
    ASSUME IInv, NEW t \in Tasks, StartFlush(t)
    PROVE  Kept
<1> USE DEF IInv
<1> DEFINE r == [Idle EXCEPT !.op = "flush", !.pc = "next", !.items = ListQueued]
<1>1. /\ task[t].pc = "idle" /\ task[t].op = "none" /\ lock = NoTask /\ lock' = t
      /\ task' = [task EXCEPT ![t] = r] /\ att' = att
      /\ UNCHANGED <<store, createdAt, now, fate, applied, cache, raced, forgotten, troubles>>
  BY DEF StartFlush, Idles, server, Calls, CallOk
<1>2. ListQueued \in SUBSET Item
  BY Listed
<1>3. r \in Task /\ r.slot = NoSlot /\ r.op = "flush" /\ r.pc = "next" /\ r.items = ListQueued
  BY <1>2, IdleIsTask DEF Task
<1> HIDE DEF r
<1>4. /\ task' \in [Tasks -> Task] /\ att' \in [Slots -> Attempt]
      /\ \A u \in Tasks : Attached(u)'
      /\ task'[t] = r
      /\ \A u \in Tasks : u # t => task'[u] = task[u]
  BY <1>1, <1>3, LocalBase
<1>5. TypeOK' /\ Stamped'
  BY <1>1, <1>4 DEF TypeOK, Stamped
<1>6. Calls'
  <2>1. CallOk(t)'
    BY <1>1, <1>3, <1>4 DEF CallOk
  <2> QED BY <1>1, <1>4, <2>1, OwnStep
<1>7. Client'
  <2>1. QueueGrows
    BY <1>1, NoneQueued
  <2>2. Submission(t)' /\ Resend(t)'
    BY <1>3, <1>4 DEF Submission, Resend
  <2>3. Flushing(t)'
    BY <1>1, <1>3, <1>4, Listed DEF Flushing, Before, Stamped
  <2> QED BY <1>1, <1>3, <1>4, <2>1, <2>2, <2>3, OneCall
<1>8. NothingLost'
  <2>1. \A k \in Mutations : Submitting(k) => Submitting(k)'
    BY <1>1, <1>4 DEF Submitting
  <2> QED BY <1>1, <2>1 DEF NothingLost
<1>9. Quiet
  BY <1>1 DEF Quiet, server
<1> QED BY <1>5, <1>6, <1>7, <1>8, <1>9 DEF Kept

\* The oldest item of the list is passed over or sent.
LEMMA FlushItemKeeps ==
    ASSUME IInv, NEW t \in Tasks, FlushItem(t)
    PROVE  Kept
<1> USE DEF IInv
<1> DEFINE items == task[t].items
           item == Oldest(items)
           rest == items \ {item}
<1>1. /\ task[t].op = "flush" /\ task[t].pc = "next" /\ items # {}
      /\ IF item.failed THEN task' = [task EXCEPT ![t].items = rest] /\ att' = att
                        ELSE Send(t, "flush", item.m, rest)
      /\ UNCHANGED <<store, createdAt, now, lock, fate, applied, cache, raced, forgotten, troubles>>
  BY DEF FlushItem, At, server
<1>2. task[t] \in Task /\ items \in SUBSET Item
  BY DEF TypeOK, Task
<1>3. item \in items /\ \A other \in items : createdAt[item.m] <= createdAt[other.m]
  BY <1>1, <1>2, OldestIs
<1>4. rest \in SUBSET Item /\ item.m \in Mutations
  BY <1>2, <1>3 DEF Item
<1> HIDE DEF item, rest
<1>5. /\ task' \in [Tasks -> Task] /\ att' \in [Slots -> Attempt]
      /\ \A u \in Tasks : Attached(u)'
      /\ task'[t].op = "flush" /\ task'[t].items = rest
      /\ \/ item.failed /\ task'[t].pc = "next"
         \/ ~item.failed /\ task'[t].pc = "waiting" /\ task'[t].m = item.m
      /\ \A u \in Tasks : u # t => task'[u] = task[u]
      /\ \A s \in Slots : att'[s] = att[s] \/ (att[s] = Free /\ att'[s].state = "transit")
  <2>1. CASE item.failed
    <3> DEFINE r == [task[t] EXCEPT !.items = rest]
    <3>1. /\ r \in Task /\ r.slot = task[t].slot /\ r.op = "flush" /\ r.pc = "next" /\ r.items = rest
      BY <1>1, <1>2, <1>4 DEF Task
    <3>2. r.slot = NoSlot
      BY <1>1, <3>1, NotWaiting
    <3>3. task' = [task EXCEPT ![t] = r] /\ att' = att
      BY <1>1, <2>1 DEF TypeOK
    <3> HIDE DEF r
    <3>4. /\ task' \in [Tasks -> Task] /\ att' \in [Slots -> Attempt]
          /\ \A u \in Tasks : Attached(u)'
          /\ task'[t] = r
          /\ \A u \in Tasks : u # t => task'[u] = task[u]
      BY <1>1, <3>1, <3>2, <3>3, LocalBase
    <3> QED BY <2>1, <3>1, <3>3, <3>4
  <2>2. CASE ~item.failed
    <3>1. Send(t, "flush", item.m, rest)
      BY <1>1, <2>2
    <3> QED BY <1>4, <2>2, <3>1, Sent
  <2> QED BY <2>1, <2>2
<1>6. TypeOK' /\ Stamped'
  BY <1>1, <1>5 DEF TypeOK, Stamped
<1>7. Calls'
  <2>1. CallOk(t)'
    BY <1>1, <1>4, <1>5 DEF CallOk, Calls
  <2> QED BY <1>1, <1>5, <2>1, OwnStep
<1>8. Client'
  <2>1. QueueGrows
    BY <1>1, NoneQueued
  <2>2. /\ \A i \in items : createdAt[i.m] > 0 /\ (i.failed => store[i.m] # "queued")
        /\ \A m \in Mutations : store[m] = "queued" =>
              \/ \E i \in items : i.m = m
              \/ \A i \in items : createdAt[i.m] < createdAt[m]
    BY <1>1 DEF Client, Flushing, Before
  <2>3. Submission(t)' /\ Resend(t)'
    BY <1>1, <1>3, <1>5, <2>2 DEF Submission, Resend
  <2>4. rest \subseteq items /\ \A i \in items : i \in rest \/ i = item
    BY DEF rest
  <2>5. ASSUME NEW m \in Mutations, store[m] = "queued"
        PROVE  Before(t, m)'
    <3>1. CASE \E i \in rest : i.m = m
      BY <1>5, <3>1 DEF Before
    <3>2. CASE item.m = m
      <4>1. ~item.failed
        BY <1>3, <2>2, <2>5, <3>2
      <4> QED BY <1>5, <3>2, <4>1 DEF Before
    <3>3. CASE \A i \in items : createdAt[i.m] < createdAt[m]
      BY <1>1, <1>3, <1>5, <2>4, <3>3 DEF Before
    <3> QED BY <2>2, <2>4, <2>5, <3>1, <3>2, <3>3
  <2>6. Flushing(t)'
    BY <1>1, <1>3, <1>5, <2>2, <2>4, <2>5 DEF Flushing
  <2> QED BY <1>1, <1>5, <2>1, <2>3, <2>6, OneCall
<1>9. NothingLost' /\ Quiet
  <2>1. \A k \in Mutations : Submitting(k) => Submitting(k)'
    BY <1>1, <1>5 DEF Submitting
  <2>2. NothingLost'
    BY <1>1, <2>1 DEF NothingLost
  <2>3. Quiet
    BY <1>1, <1>5 DEF Quiet, server, Busy, Free
  <2> QED BY <2>2, <2>3
<1> QED BY <1>6, <1>7, <1>8, <1>9 DEF Kept

\* The item a call was at is taken out, or put back as failed.
LEMMA SeenToKeeps ==
    ASSUME IInv, NEW t \in Tasks, RemoveQueued(t) \/ MarkFailed(t)
    PROVE  Kept
<1> USE DEF IInv
<1> DEFINE m == task[t].m
           r == IF task[t].op = "flush" THEN [task[t] EXCEPT !.pc = "next", !.m = NoMutation] ELSE Idle
<1>1. /\ task[t].pc \in {"remove", "mark"}
      /\ \/ task[t].pc = "remove" /\ store' = [store EXCEPT ![m] = "absent"]
         \/ task[t].pc = "mark" /\ store' = [store EXCEPT ![m] = "failed"]
      /\ task' = [task EXCEPT ![t] = r] /\ att' = att
      /\ UNCHANGED <<createdAt, now, lock, fate, applied, cache, raced, forgotten, troubles>>
  BY DEF RemoveQueued, MarkFailed, Continue, server
<1>2. /\ task[t] \in Task /\ task[t].slot = NoSlot /\ m \in Mutations
      /\ task[t].op \in {"flush", "retry"} /\ createdAt[m] > 0
      /\ task[t].pc = "remove" => applied[m] > 0
  BY <1>1, NotWaiting DEF TypeOK, Task, Calls, CallOk, Client, Resend
<1>3. /\ r \in Task /\ r.slot = NoSlot
      /\ task[t].op = "flush" => r.op = "flush" /\ r.pc = "next" /\ r.items = task[t].items
      /\ task[t].op # "flush" => r = Idle
  <2>1. CASE task[t].op = "flush"
    BY <1>2, <2>1 DEF Task
  <2>2. CASE task[t].op # "flush"
    BY <2>2, IdleIsTask
  <2> QED BY <2>1, <2>2
<1> HIDE DEF r
<1>4. /\ task' \in [Tasks -> Task] /\ att' \in [Slots -> Attempt]
      /\ \A u \in Tasks : Attached(u)'
      /\ task'[t] = r
      /\ \A u \in Tasks : u # t => task'[u] = task[u]
  BY <1>1, <1>3, LocalBase
<1>5. /\ store' \in [Mutations -> {"absent", "queued", "failed"}]
      /\ store'[m] # "queued" /\ (store'[m] = "absent" => applied[m] > 0)
      /\ \A k \in Mutations : k # m => store'[k] = store[k]
  BY <1>1, <1>2 DEF TypeOK
<1>6. TypeOK' /\ Stamped'
  <2>1. TypeOK'
    BY <1>1, <1>4, <1>5 DEF TypeOK
  <2>2. Stamped'
    BY <1>1, <1>2, <1>5 DEF Stamped
  <2> QED BY <2>1, <2>2
<1>7. Calls'
  <2>1. CallOk(t)
    BY DEF Calls
  <2>2. CallOk(t)'
    BY <1>1, <1>2, <1>3, <1>4, <2>1, IdleIsTask DEF CallOk
  <2> QED BY <1>1, <1>4, <2>2, OwnStep
<1>8. Client'
  <2>1. QueueGrows
    BY <1>1, <1>5, NoneQueued
  <2>2. CASE task[t].op = "flush"
    <3>1. Flushing(t)
      BY DEF Client
    <3>2. ASSUME NEW k \in Mutations, store'[k] = "queued"
          PROVE  Before(t, k)'
      <4>1. k # m /\ store[k] = "queued"
        BY <1>5, <3>2
      <4>2. Before(t, k)
        BY <2>2, <3>1, <4>1 DEF Flushing
      <4> QED BY <1>1, <1>3, <1>4, <2>2, <4>1, <4>2 DEF Before
    <3>3. Flushing(t)'
      <4>1. \A i \in task[t].items : i.m \in Mutations
        BY <1>2 DEF Task, Item
      <4>2. \A i \in task[t].items : createdAt[i.m] > 0 /\ (i.failed => store'[i.m] # "queued")
        BY <1>5, <2>2, <3>1, <4>1 DEF Flushing
      <4> QED BY <1>1, <1>3, <1>4, <2>2, <3>2, <4>2 DEF Flushing
    <3>4. Submission(t)' /\ Resend(t)'
      BY <1>3, <1>4, <2>2 DEF Submission, Resend
    <3> QED BY <1>1, <1>3, <1>4, <2>1, <2>2, <3>3, <3>4, OneCall
  <2>3. CASE task[t].op # "flush"
    <3>1. Submission(t)' /\ Resend(t)' /\ Flushing(t)'
      BY <1>3, <1>4, <2>3, IdleKeeps
    <3> QED BY <1>1, <1>3, <1>4, <2>1, <2>3, <3>1, IdleIsTask, OneCall
  <2> QED BY <2>2, <2>3
<1>9. NothingLost' /\ Quiet
  <2>1. \A k \in Mutations : Submitting(k) => Submitting(k)'
    BY <1>2, <1>4 DEF Submitting
  <2>2. NothingLost'
    BY <1>1, <1>5, <2>1 DEF NothingLost
  <2>3. Quiet
    BY <1>1 DEF Quiet, server
  <2> QED BY <2>2, <2>3
<1> QED BY <1>6, <1>7, <1>8, <1>9 DEF Kept

\* A retry by hand.
LEMMA RetryKeeps ==
    ASSUME IInv, NEW t \in Tasks, NEW m \in Mutations, RetryQueued(t, m)
    PROVE  Kept
<1> USE DEF IInv
<1>1. /\ task[t].pc = "idle" /\ task[t].op = "none" /\ store[m] = "failed"
      /\ Send(t, "retry", m, {})
      /\ troubles < MaxTroubles /\ troubles' = troubles + 1
      /\ UNCHANGED <<store, createdAt, now, lock, fate, applied, cache, raced, forgotten>>
  BY DEF RetryQueued, Idles, Trouble, server, Calls, CallOk
<1>2. /\ task' \in [Tasks -> Task] /\ att' \in [Slots -> Attempt]
      /\ \A u \in Tasks : Attached(u)'
      /\ task'[t].op = "retry" /\ task'[t].pc = "waiting" /\ task'[t].m = m
      /\ \A u \in Tasks : u # t => task'[u] = task[u]
      /\ \A s \in Slots : att'[s] = att[s] \/ (att[s] = Free /\ att'[s].state = "transit")
  BY <1>1, Sent
<1>3. TypeOK' /\ Stamped'
  <2>1. TypeOK'
    BY <1>1, <1>2, OfflineAssumption DEF TypeOK
  <2> QED BY <1>1, <2>1 DEF Stamped
<1>4. Calls'
  <2>1. CallOk(t)'
    BY <1>2 DEF CallOk
  <2> QED BY <1>1, <1>2, <2>1, OwnStep
<1>5. Client'
  <2>1. QueueGrows
    BY <1>1, NoneQueued
  <2>2. createdAt[m] > 0
    BY <1>1 DEF Stamped
  <2>3. Submission(t)' /\ Resend(t)' /\ Flushing(t)'
    BY <1>1, <1>2, <2>2 DEF Submission, Resend, Flushing
  <2> QED BY <1>1, <1>2, <2>1, <2>3, OneCall
<1>6. NothingLost' /\ Quiet
  <2>1. \A k \in Mutations : Submitting(k) => Submitting(k)'
    BY <1>1, <1>2 DEF Submitting
  <2>2. NothingLost'
    BY <1>1, <2>1 DEF NothingLost
  <2>3. Quiet
    BY <1>1, <1>2 DEF Quiet, server, Busy, Free
  <2> QED BY <2>2, <2>3
<1> QED BY <1>3, <1>4, <1>5, <1>6 DEF Kept

\* Steps that leave the calls as they are.
LEMMA CallsUntouched ==
    ASSUME IInv, task' = task, lock' = lock, QueueGrows,
           \A s \in Slots : att[s].live => att'[s].live /\ att'[s].m = att[s].m,
           \A u \in Tasks : task[u].op = "submit" =>
              fate'[task[u].m] = fate[task[u].m] /\ createdAt'[task[u].m] = createdAt[task[u].m]
    PROVE  Calls' /\ Client' /\ \A m \in Mutations : Submitting(m) => Submitting(m)'
<1> USE DEF IInv
<1>1. \A u \in Tasks : Attached(u)'
  BY Served
<1>2. \A u \in Tasks : CallOk(u)'
  BY DEF Calls, CallOk
<1>3. ASSUME NEW u \in Tasks
      PROVE  Submission(u)' /\ Resend(u)' /\ Flushing(u)'
  <2>1. task'[u] = task[u]
    OBVIOUS
  <2>2. Submission(u)'
    BY <2>1, StillSubmits
  <2> QED BY <2>1, <2>2, Bystander
<1> QED BY <1>1, <1>2, <1>3 DEF Calls, Client, Submitting

\* A user gives up on a failed item.
LEMMA DiscardKeeps ==
    ASSUME IInv, NEW m \in Mutations, DiscardQueued(m)
    PROVE  Kept
<1> USE DEF IInv
<1>1. /\ store[m] = "failed" /\ store' = [store EXCEPT ![m] = "absent"]
      /\ fate' = [fate EXCEPT ![m] = "discarded"]
      /\ UNCHANGED <<createdAt, now, lock, task, att, applied, cache, raced, forgotten, troubles>>
  BY DEF DiscardQueued, server
<1>2. /\ store'[m] = "absent" /\ fate'[m] = "discarded"
      /\ \A k \in Mutations : k # m => store'[k] = store[k] /\ fate'[k] = fate[k]
  BY <1>1 DEF TypeOK
<1>3. TypeOK' /\ Stamped'
  <2>1. TypeOK'
    BY <1>1 DEF TypeOK
  <2> QED BY <1>1, <1>2, <2>1 DEF Stamped
<1>4. Calls' /\ Client' /\ \A k \in Mutations : Submitting(k) => Submitting(k)'
  <2>1. QueueGrows
    BY <1>1, <1>2, NoneQueued
  <2>2. \A u \in Tasks : task[u].op = "submit" => task[u].m \in Mutations /\ task[u].m # m
    BY <1>1, OwnSubmission
  <2> QED BY <1>1, <1>2, <2>1, <2>2, CallsUntouched
<1>5. NothingLost'
  BY <1>1, <1>2, <1>4 DEF NothingLost
<1>6. Quiet
  BY <1>1 DEF Quiet, server
<1> QED BY <1>3, <1>4, <1>5, <1>6 DEF Kept

\* The server and the wire leave the client alone, and nothing applied is undone.
LEMMA ClientAlone ==
    ASSUME IInv, UNCHANGED client, att' \in [Slots -> Attempt],
           \A s \in Slots : att[s].live => att'[s].live /\ att'[s].m = att[s].m,
           \A m \in Mutations : applied[m] > 0 => applied'[m] > 0
    PROVE  Calls' /\ Stamped' /\ Client' /\ NothingLost'
<1> USE DEF IInv
<1>1. UNCHANGED <<store, createdAt, now, lock, task, fate>>
  BY DEF client
<1>2. QueueGrows
  BY <1>1 DEF QueueGrows, Stamped, TypeOK
<1>3. Calls' /\ Client' /\ \A k \in Mutations : Submitting(k) => Submitting(k)'
  BY <1>1, <1>2, CallsUntouched
<1>4. Stamped' /\ NothingLost'
  BY <1>1, <1>3 DEF Stamped, NothingLost
<1> QED BY <1>3, <1>4

-----------------------------------------------------------------------------
(***************************************************************************)
(* The server, the wire, and what goes wrong.                              *)
(***************************************************************************)

\* What is known of an attempt that is there.
LEMMA AttemptParts ==
    ASSUME TypeOK, NEW s \in Slots, att[s].state # "free"
    PROVE  att[s].m \in Mutations /\ att[s].live \in BOOLEAN /\ applied[att[s].m] \in Nat
<1>1. att[s] \in [m : Mutations, state : AttemptStates, live : BOOLEAN]
  BY DEF TypeOK, Attempt, Free
<1> QED BY <1>1 DEF TypeOK

\* IdempotencyInterceptor: a replay, or a first attempt, or one that races another.
LEMMA InterceptKeeps ==
    ASSUME IInv, NEW s \in Slots, Intercept(s)
    PROVE  IInv'
<1> USE DEF IInv
<1> DEFINE m == att[s].m
<1>1. /\ att[s].state = "transit"
      /\ UNCHANGED client /\ UNCHANGED <<applied, cache, forgotten, troubles>>
      /\ \/ m \in cache /\ Move(s, "ok") /\ raced' = raced
         \/ /\ m \notin cache /\ Move(s, "running")
            /\ raced' = IF Running(m) # {} THEN raced \union {m} ELSE raced
  BY DEF Intercept, Cached
<1>2. m \in Mutations /\ applied[m] \in Nat /\ att[s].live \in BOOLEAN
  BY <1>1, AttemptParts
<1>3. "ok" \in AttemptStates /\ "running" \in AttemptStates
  BY DEF AttemptStates
<1>4. /\ att' \in [Slots -> Attempt]
      /\ \A r \in Slots : r # s => att'[r] = att[r]
      /\ att[s].live => att'[s].live /\ att'[s].m = m
      /\ raced' \subseteq Mutations /\ raced \subseteq raced'
  BY <1>1, <1>2, <1>3, Moves DEF TypeOK
<1>5. TypeOK'
  BY <1>1, <1>4 DEF TypeOK, client
<1>6. Calls' /\ Stamped' /\ Client' /\ NothingLost'
  BY <1>1, <1>4, ClientAlone
<1>7. CASE m \in cache
  <2>1. raced' = raced /\ (att'[s] = Free \/ (att'[s].state = "ok" /\ att'[s].m = m))
    <3>1. Move(s, "ok") /\ raced' = raced
      BY <1>1, <1>7
    <3> QED BY <1>1, <1>3, <3>1, MovesTo
  <2>2. Successes'
    BY <1>1, <1>4, <1>7, <2>1 DEF Successes, Free
  <2>3. \A r \in Slots : Busy(r) \/ Busy(r)' => r # s
    BY <1>1, <2>1 DEF Busy, Free
  <2>4. ASSUME NEW k \in Mutations
        PROVE  OnceOk(k)'
    <3>1. OnceOk(k)
      BY DEF Once
    <3> QED BY <1>1, <1>4, <2>1, <2>3, <3>1 DEF OnceOk, Busy
  <2> QED BY <1>5, <1>6, <2>2, <2>4 DEF Once
<1>8. CASE m \notin cache
  <2>1. /\ att'[s].state = "running" /\ att'[s].m = m
        /\ raced' = IF Running(m) # {} THEN raced \union {m} ELSE raced
    BY <1>1, <1>3, <1>8, Moves
  <2>2. Successes'
    BY <1>1, <1>4, <2>1 DEF Successes
  <2>3. ASSUME NEW k \in Mutations
        PROVE  OnceOk(k)'
    <3>1. OnceOk(k)
      BY DEF Once
    <3>2. CASE k # m
      BY <1>1, <1>4, <2>1, <3>1, <3>2 DEF OnceOk, Busy
    <3>3. CASE k = m /\ Running(m) # {}
      BY <2>1, <3>3 DEF OnceOk
    <3>4. CASE k = m /\ Running(m) = {}
      <4>1. \A r \in Slots : att[r].m = m => ~Busy(r)
        BY <3>4 DEF Running, Busy
      <4>2. m \notin raced \union forgotten => applied[m] = 0
        BY <1>2, <1>8, <3>1, <3>4, <4>1 DEF OnceOk, Busy
      <4>3. \A r \in Slots : att'[r].m = m /\ Busy(r)' => r = s
        BY <1>4, <4>1 DEF Busy
      <4>4. raced' = raced
        BY <2>1, <3>4
      <4> QED BY <1>1, <3>4, <4>2, <4>3, <4>4 DEF OnceOk
    <3> QED BY <3>2, <3>3, <3>4
  <2> QED BY <1>5, <1>6, <2>2, <2>3 DEF Once
<1> QED BY <1>7, <1>8

\* The handler applies the mutation, or refuses it.
LEMMA HandleKeeps ==
    ASSUME IInv, NEW s \in Slots, Handle(s)
    PROVE  IInv'
<1> USE DEF IInv
<1> DEFINE m == att[s].m
<1>1. /\ att[s].state = "running"
      /\ UNCHANGED client /\ UNCHANGED <<cache, raced, forgotten, troubles>>
      /\ \/ applied' = [applied EXCEPT ![m] = @ + 1] /\ Move(s, "committed")
         \/ applied' = applied /\ Move(s, "rejected")
  BY DEF Handle
<1>2. m \in Mutations /\ applied[m] \in Nat /\ att[s].live \in BOOLEAN
  BY <1>1, AttemptParts
<1>3. "committed" \in AttemptStates /\ "rejected" \in AttemptStates
  BY DEF AttemptStates
<1>4. /\ att' \in [Slots -> Attempt]
      /\ \A r \in Slots : r # s => att'[r] = att[r]
      /\ att[s].live => att'[s].live /\ att'[s].m = m
  BY <1>1, <1>2, <1>3, Moves
<1>5. /\ applied' \in [Mutations -> Nat]
      /\ \A k \in Mutations : applied[k] > 0 => applied'[k] > 0
  BY <1>1, <1>2 DEF TypeOK
<1>6. TypeOK'
  BY <1>1, <1>4, <1>5 DEF TypeOK, client
<1>7. Calls' /\ Stamped' /\ Client' /\ NothingLost'
  BY <1>1, <1>4, <1>5, ClientAlone
<1>8. CASE applied' = [applied EXCEPT ![m] = @ + 1] /\ Move(s, "committed")
  <2>1. att'[s].state = "committed" /\ att'[s].m = m
    BY <1>1, <1>3, <1>8, Moves
  <2>2. applied'[m] = applied[m] + 1 /\ \A k \in Mutations : k # m => applied'[k] = applied[k]
    BY <1>2, <1>8 DEF TypeOK
  <2>3. Successes'
    <3>1. \A r \in Slots : att'[r].state \in {"committed", "ok"} => applied'[att'[r].m] > 0
      <4> SUFFICES ASSUME NEW r \in Slots, r # s, att[r].state \in {"committed", "ok"}
                   PROVE  applied'[att[r].m] > 0
        BY <1>2, <1>4, <2>1, <2>2
      <4> QED BY <1>5, AttemptParts DEF Successes
    <3>2. \A k \in cache' : applied'[k] > 0
      BY <1>1, <1>5 DEF Successes, TypeOK
    <3> QED BY <3>1, <3>2 DEF Successes
  <2>4. ASSUME NEW k \in Mutations
        PROVE  OnceOk(k)'
    <3>1. OnceOk(k)
      BY DEF Once
    <3>2. CASE k # m
      BY <1>1, <1>4, <2>1, <2>2, <3>1, <3>2 DEF OnceOk, Busy
    <3>3. CASE k = m
      <4> SUFFICES ASSUME k \notin raced \union forgotten
                   PROVE  OnceOk(k)'
        BY <1>1 DEF OnceOk
      <4>1. applied[m] = 0 /\ \A r \in Slots : att[r].m = m /\ Busy(r) => r = s
        BY <1>1, <3>1, <3>3 DEF OnceOk, Busy
      <4>2. \A r \in Slots : att'[r].m = m /\ Busy(r)' => r = s
        BY <1>4, <4>1 DEF Busy
      <4>3. applied'[k] = 1 /\ att'[s].m = k /\ att'[s].state = "committed"
        BY <2>1, <2>2, <3>3, <4>1
      <4>4. \A r \in Slots : att'[r].m = k /\ Busy(r)' => r = s
        BY <3>3, <4>2
      <4>5. \A r \in Slots : att'[r].m = k /\ att'[r].state = "running" => FALSE
        BY <4>3, <4>4 DEF Busy
      <4> QED BY <4>3, <4>4, <4>5 DEF OnceOk
    <3> QED BY <3>2, <3>3
  <2> QED BY <1>6, <1>7, <2>3, <2>4 DEF Once
<1>9. CASE applied' = applied /\ Move(s, "rejected")
  <2>1. att'[s] = Free \/ (att'[s].state = "rejected" /\ att'[s].m = m)
    BY <1>1, <1>3, <1>9, MovesTo
  <2>2. Successes'
    BY <1>1, <1>4, <1>9, <2>1 DEF Successes, Free
  <2>3. ~Busy(s)' /\ att[s].state # "committed"
    BY <1>1, <2>1 DEF Busy, Free
  <2>4. ASSUME NEW k \in Mutations
        PROVE  OnceOk(k)'
    <3>1. OnceOk(k)
      BY DEF Once
    <3> QED BY <1>1, <1>4, <1>9, <2>3, <3>1 DEF OnceOk, Busy
  <2> QED BY <1>6, <1>7, <2>2, <2>4 DEF Once
<1> QED BY <1>1, <1>8, <1>9

\* The answer is remembered before it is sent.
LEMMA StoreResponseKeeps ==
    ASSUME IInv, NEW s \in Slots, StoreResponse(s)
    PROVE  IInv'
<1> USE DEF IInv
<1> DEFINE m == att[s].m
<1>1. /\ att[s].state = "committed" /\ cache' = cache \union {m} /\ Move(s, "ok")
      /\ UNCHANGED client /\ UNCHANGED <<applied, raced, forgotten, troubles>>
  BY DEF StoreResponse
<1>2. m \in Mutations /\ applied[m] \in Nat /\ att[s].live \in BOOLEAN /\ applied[m] > 0
  BY <1>1, AttemptParts DEF Successes
<1>3. "ok" \in AttemptStates
  BY DEF AttemptStates
<1>4. /\ att' \in [Slots -> Attempt]
      /\ \A r \in Slots : r # s => att'[r] = att[r]
      /\ att[s].live => att'[s].live /\ att'[s].m = m
      /\ att'[s] = Free \/ (att'[s].state = "ok" /\ att'[s].m = m)
  BY <1>1, <1>2, <1>3, MovesTo
<1>5. TypeOK'
  BY <1>1, <1>2, <1>4 DEF TypeOK, client
<1>6. Calls' /\ Stamped' /\ Client' /\ NothingLost'
  BY <1>1, <1>4, ClientAlone
<1>7. Successes'
  BY <1>1, <1>2, <1>4 DEF Successes, Free
<1>8. ~Busy(s)' /\ att[s].state # "running"
  BY <1>1, <1>4 DEF Busy, Free
<1>9. ASSUME NEW k \in Mutations
      PROVE  OnceOk(k)'
  <2>1. OnceOk(k)
    BY DEF Once
  <2>2. CASE k = m
    BY <1>1, <1>4, <1>8, <2>1, <2>2 DEF OnceOk, Busy
  <2>3. CASE k # m
    BY <1>1, <1>4, <1>8, <2>1, <2>3 DEF OnceOk, Busy
  <2> QED BY <2>2, <2>3
<1> QED BY <1>5, <1>6, <1>7, <1>9 DEF Once

\* A connection that breaks.
LEMMA LoseKeeps ==
    ASSUME IInv, NEW t \in Tasks, Lose(t)
    PROVE  IInv'
<1> USE DEF IInv
<1>1. /\ UNCHANGED client /\ UNCHANGED <<applied, cache, raced, forgotten>>
      /\ troubles < MaxTroubles /\ troubles' = troubles + 1
  BY DEF Lose, Trouble, server
<1>2. att' \in [Slots -> Attempt]
  BY Loses
<1>3. TypeOK'
  BY <1>1, <1>2, OfflineAssumption DEF TypeOK, client
<1>4. PICK s \in Slots :
         /\ att'[s].state = "lost" /\ att'[s].m = att[s].m /\ att'[s].live = att[s].live
         /\ att[s] # Free
         /\ \/ ~Busy(s) /\ \A q \in Slots : q # s => att'[q] = att[q]
            \/ \E r \in Slots :
                 /\ r # s /\ att[r] = Free
                 /\ att'[r].state = att[s].state /\ att'[r].m = att[s].m
                 /\ att[s].state \in {"transit", "running", "committed"}
                 /\ \A q \in Slots : q # s /\ q # r => att'[q] = att[q]
  BY Loses, Zenon
<1>5. \A q \in Slots : att[q].live => att'[q].live /\ att'[q].m = att[q].m
  BY <1>4 DEF Free
<1>6. Calls' /\ Stamped' /\ Client' /\ NothingLost'
  BY <1>1, <1>2, <1>5, ClientAlone
<1>7. CASE ~Busy(s) /\ \A q \in Slots : q # s => att'[q] = att[q]
  <2>1. Quiet
    BY <1>1, <1>4, <1>7 DEF Quiet, server
  <2> QED BY <1>3, <1>6, <2>1, QuietKeeps
<1>8. CASE \E r \in Slots :
              /\ r # s /\ att[r] = Free
              /\ att'[r].state = att[s].state /\ att'[r].m = att[s].m
              /\ att[s].state \in {"transit", "running", "committed"}
              /\ \A q \in Slots : q # s /\ q # r => att'[q] = att[q]
  <2>1. PICK r \in Slots :
              /\ r # s /\ att[r] = Free
              /\ att'[r].state = att[s].state /\ att'[r].m = att[s].m
              /\ att[s].state \in {"transit", "running", "committed"}
              /\ \A q \in Slots : q # s /\ q # r => att'[q] = att[q]
    BY <1>8
  <2>2. Successes'
    BY <1>1, <1>4, <2>1 DEF Successes
  <2>3. ~Busy(r) /\ ~Busy(s)' /\ (Busy(r)' <=> Busy(s))
    BY <1>4, <2>1 DEF Busy, Free
  <2>4. \A q \in Slots : q # s /\ q # r => att'[q] = att[q] /\ (Busy(q)' <=> Busy(q))
    BY <2>1 DEF Busy
  <2>5. ASSUME NEW k \in Mutations, k \notin raced \union forgotten
        PROVE  OnceOk(k)'
    <3>1. OnceOk(k)
      BY DEF Once
    <3>2. applied'[k] <= 1 /\ \A q \in Slots : att'[q].m = k /\ att'[q].state = "running" => applied'[k] = 0
      BY <1>1, <1>4, <2>1, <2>5, <3>1 DEF OnceOk
    <3>3. applied'[k] > 0 => k \in cache' \/ \E q \in Slots : att'[q].m = k /\ att'[q].state = "committed"
      BY <1>1, <2>1, <2>5, <3>1 DEF OnceOk, Free
    <3>4. \A p, q \in Slots : att[p].m = k /\ att[q].m = k /\ Busy(p) /\ Busy(q) => p = q
      BY <2>5, <3>1 DEF OnceOk
    <3>5. \A p, q \in Slots : att'[p].m = k /\ att'[q].m = k /\ Busy(p)' /\ Busy(q)' => p = q
      BY <2>1, <2>3, <2>4, <3>4
    <3> QED BY <3>2, <3>3, <3>5 DEF OnceOk
  <2>6. \A k \in Mutations : OnceOk(k)'
    BY <1>1, <2>5 DEF OnceOk
  <2> QED BY <1>3, <1>6, <2>2, <2>6 DEF Once
<1> QED BY <1>4, <1>7, <1>8

\* A restart of the server.
LEMMA RestartKeeps ==
    ASSUME IInv, Restart
    PROVE  IInv'
<1> USE DEF IInv
<1>1. /\ UNCHANGED client /\ UNCHANGED <<applied, raced>> /\ cache' = {}
      /\ troubles < MaxTroubles /\ troubles' = troubles + 1
      /\ forgotten' = forgotten \union cache \union {m \in Mutations :
                       \E s \in Slots : att[s].m = m /\ att[s].state = "committed"}
  BY DEF Restart, Trouble
<1>2. /\ att' \in [Slots -> Attempt]
      /\ \A s \in Slots :
            \/ att'[s] = att[s] /\ ~Busy(s)
            \/ att'[s] = Free /\ ~att[s].live
            \/ att'[s].state = "lost" /\ att'[s].m = att[s].m /\ att'[s].live = att[s].live
  BY Restarts, Zenon
<1>3. TypeOK'
  BY <1>1, <1>2, OfflineAssumption DEF TypeOK, client
<1>4. \A s \in Slots : att[s].live => att'[s].live /\ att'[s].m = att[s].m
  BY <1>2
<1>5. Calls' /\ Stamped' /\ Client' /\ NothingLost'
  BY <1>1, <1>2, <1>4, ClientAlone
<1>6. Successes'
  BY <1>1, <1>2 DEF Successes, Free
<1>7. \A s \in Slots : ~Busy(s)'
  BY <1>2 DEF Busy, Free
<1>8. ASSUME NEW k \in Mutations
      PROVE  OnceOk(k)'
  <2>1. OnceOk(k)
    BY DEF Once
  <2>2. k \notin raced' \union forgotten' => applied[k] = 0
    BY <1>1, <2>1 DEF OnceOk, TypeOK
  <2> QED BY <1>1, <1>7, <2>2 DEF OnceOk, Busy
<1> QED BY <1>3, <1>5, <1>6, <1>8 DEF Once

\* A cached answer that is too old.
LEMMA ExpireKeeps ==
    ASSUME IInv, NEW m \in Mutations, Expire(m)
    PROVE  IInv'
<1> USE DEF IInv
<1>1. /\ UNCHANGED client /\ UNCHANGED <<att, applied, raced>>
      /\ cache' = cache \ {m} /\ forgotten' = forgotten \union {m}
      /\ troubles < MaxTroubles /\ troubles' = troubles + 1
  BY DEF Expire, Trouble
<1>2. TypeOK'
  BY <1>1, OfflineAssumption DEF TypeOK, client
<1>3. Calls' /\ Stamped' /\ Client' /\ NothingLost'
  <2>1. att' \in [Slots -> Attempt]
    BY <1>1 DEF TypeOK
  <2> QED BY <1>1, <2>1, ClientAlone
<1>4. Successes'
  BY <1>1 DEF Successes
<1>5. ASSUME NEW k \in Mutations
      PROVE  OnceOk(k)'
  <2>1. OnceOk(k)
    BY DEF Once
  <2> QED BY <1>1, <2>1 DEF OnceOk, Busy
<1> QED BY <1>2, <1>3, <1>4, <1>5 DEF Once

-----------------------------------------------------------------------------
(***************************************************************************)
(* The theorems about offline mutations.                                   *)
(***************************************************************************)

LEMMA InitIInv == Init => IInv
<1> SUFFICES ASSUME Init PROVE IInv  OBVIOUS
<1>1. \A t \in Tasks : task[t] = Idle
  BY DEF Init
<1>2. \A s \in Slots : att[s] = Free
  BY DEF Init
<1>3. TypeOK
  BY IdleIsTask, OfflineAssumption DEF Init, TypeOK, Attempt
<1>4. Calls
  BY <1>1, IdleIsTask DEF Calls, CallOk, Attached
<1>5. Stamped /\ NothingLost
  BY DEF Init, Stamped, NothingLost
<1>6. Client
  BY <1>1, IdleIsTask DEF Client, Submission, Resend, Flushing
<1>7. Successes /\ Once
  BY <1>2, OfflineAssumption DEF Init, Successes, Once, OnceOk, Busy, Free
<1> QED BY <1>3, <1>4, <1>5, <1>6, <1>7 DEF IInv

LEMMA NextIInv == IInv /\ [Next]_vars => IInv'
<1> SUFFICES ASSUME IInv, [Next]_vars PROVE IInv'
  OBVIOUS
<1>1. Kept => IInv'
  BY QuietKeeps DEF Kept, IInv
<1>2. ASSUME NEW t \in Tasks, NEW m \in Mutations, SubmitOrQueue(t, m) \/ RetryQueued(t, m)
      PROVE  IInv'
  BY <1>1, <1>2, SubmitKeeps, RetryKeeps
<1>3. ASSUME NEW t \in Tasks, StartFlush(t) \/ ClientStep(t) \/ Lose(t) \/ CloseTab(t)
      PROVE  IInv'
  <2>1. CASE Lose(t)
    BY <2>1, LoseKeeps
  <2>2. CASE StartFlush(t) \/ CloseTab(t)
    BY <1>1, <2>2, StartFlushKeeps, CloseTabKeeps
  <2>3. CASE ClientStep(t)
    BY <1>1, <2>3, SubmitAnsweredKeeps, SubmitOfflineKeeps, QueueMutationKeeps, FlushItemKeeps,
       AnsweredKeeps, FlushEndsKeeps, SeenToKeeps DEF ClientStep
  <2> QED BY <1>3, <2>1, <2>2, <2>3
<1>4. ASSUME NEW m \in Mutations, DiscardQueued(m) \/ Expire(m)
      PROVE  IInv'
  BY <1>1, <1>4, DiscardKeeps, ExpireKeeps
<1>5. ASSUME NEW s \in Slots, ServerStep(s)
      PROVE  IInv'
  BY <1>5, InterceptKeeps, HandleKeeps, StoreResponseKeeps DEF ServerStep
<1>6. CASE Restart
  BY <1>6, RestartKeeps
<1>7. CASE UNCHANGED vars
  <2>1. /\ UNCHANGED client /\ UNCHANGED server /\ att' = att /\ troubles' = troubles
        /\ UNCHANGED <<store, createdAt, now, lock, task, fate, applied, cache, raced, forgotten>>
    BY <1>7 DEF vars, client, server
  <2>2. TypeOK' /\ Quiet
    BY <2>1 DEF IInv, TypeOK, Quiet
  <2>3. att' \in [Slots -> Attempt]
    BY <2>1 DEF IInv, TypeOK
  <2>4. Calls' /\ Stamped' /\ Client' /\ NothingLost'
    BY <2>1, <2>3, ClientAlone
  <2> QED BY <1>1, <2>2, <2>4 DEF Kept
<1> QED BY <1>2, <1>3, <1>4, <1>5, <1>6, <1>7 DEF Next

LEMMA IInvAlways == Spec => []IInv
  BY InitIInv, NextIInv, PTL DEF Spec

\* IdempotencyInterceptor: however often a mutation is sent, over however many tabs,
\* connections and flushes, its handler commits it once, but for a second attempt that
\* arrives while the first is running and for a cached answer that was lost.
THEOREM MutationsAppliedOnce == Spec => []AppliedOnce
<1>1. IInv => AppliedOnce
  BY DEF IInv, TypeOK, Once, OnceOk, AppliedOnce
<1> QED BY <1>1, IInvAlways, PTL

\* The offline queue is faithful: nothing a user submitted disappears without the user
\* knowing, and a flush sends what is queued in the order of queueing, whatever other
\* tabs, retries and lost connections do meanwhile.
THEOREM QueueFaithful == Spec => []QueueIsFaithful
<1>1. IInv => InOrder
  <2> SUFFICES ASSUME IInv, NEW t \in Tasks, task[t].op = "flush", task[t].pc = "waiting",
                      NEW m \in Mutations, store[m] = "queued"
               PROVE  createdAt[m] >= createdAt[task[t].m]
    BY DEF InOrder, At
  <2>1. Flushing(t) /\ task[t].m \in Mutations
    BY DEF IInv, Client, Calls, CallOk
  <2>2. createdAt[m] \in Nat /\ createdAt[task[t].m] \in Nat
    BY <2>1 DEF IInv, TypeOK
  <2>3. Before(t, m) /\ \A i \in task[t].items : createdAt[task[t].m] <= createdAt[i.m]
    BY <2>1 DEF Flushing
  <2> QED BY <2>2, <2>3 DEF Before
<1>2. IInv => QueueIsFaithful
  BY <1>1 DEF IInv, QueueIsFaithful
<1> QED BY <1>2, IInvAlways, PTL

-----------------------------------------------------------------------------
(***************************************************************************)
(* Invoice numbers, for any number of creators of any kinds and any limits *)
(* on attempts: gapless and in order.                                      *)
(*                                                                         *)
(* GaplessInOrder alone is not inductive: a step needs to know that a      *)
(* number computed from an old count is still at most one past the last    *)
(* row, and that an inserted but uncommitted number is exactly one past it *)
(* and held by one transaction only (PendingIsNext, OneHolder).            *)
(***************************************************************************)

\* A computed number is never ahead of the next free one, nor behind the
\* attempt it was computed for.
NumberInReach ==
    \A c \in Creators : pc[c] \in {"creating", "inserted"} =>
        /\ number[c] <= Len(rows) + 1
        /\ attempt[c] <= number[c]

\* An open transaction that has inserted holds the next free number.
PendingIsNext ==
    \A c \in Creators : IF pc[c] = "inserted" THEN pending[c] = Len(rows) + 1
                                              ELSE pending[c] = 0

\* At most one open transaction has inserted.
OneHolder ==
    \A c, d \in Creators : pc[c] = "inserted" /\ pc[d] = "inserted" => c = d

NumberingInv ==
    /\ NumTypeOK
    /\ GaplessInOrder
    /\ ClashMeansOthersWon
    /\ NumberInReach
    /\ PendingIsNext
    /\ OneHolder

\* In a gapless table, a number that is in reach and not taken is the next one.
LEMMA FreeNumberIsNext ==
    ASSUME NumTypeOK, GaplessInOrder, NEW n \in Nat, 1 <= n, n <= Len(rows) + 1
    PROVE  NumberTaken(n) <=> n # Len(rows) + 1
  BY DEF NumTypeOK, GaplessInOrder, NumberTaken

\* The initial state, an empty table, satisfies the invariant.
LEMMA InitNumbering == NumInit => NumberingInv
  BY AttemptsAssumption
  DEF NumInit, NumberingInv, NumTypeOK, GaplessInOrder, ClashMeansOthersWon,
      NumberInReach,
      PendingIsNext, OneHolder, PCs, Outcomes

\* Appending the next number keeps the table gapless.
LEMMA AppendNext ==
    ASSUME NumTypeOK, GaplessInOrder
    PROVE  LET r == Append(rows, Len(rows) + 1)
           IN  /\ r \in Seq(Nat)
               /\ Len(r) = Len(rows) + 1
               /\ \A i \in 1..Len(r) : r[i] = i
  BY DEF NumTypeOK, GaplessInOrder

\* Every step of every caller preserves the invariant.
LEMMA NextNumbering == NumberingInv /\ [NumNext]_numVars => NumberingInv'
<1> SUFFICES ASSUME NumberingInv, [NumNext]_numVars
             PROVE  NumberingInv'
  OBVIOUS
<1> USE AttemptsAssumption, KindAssumption
<1>1. CASE UNCHANGED numVars
  BY <1>1 DEF numVars, NumberingInv, NumTypeOK, GaplessInOrder, ClashMeansOthersWon,
              NumberInReach, PendingIsNext, OneHolder
<1>2. ASSUME NEW c \in Creators, Request(c)
      PROVE  NumberingInv'
  <2>1. NumTypeOK' /\ ClashMeansOthersWon'
    BY <1>2 DEF Request, NumberingInv, NumTypeOK, ClashMeansOthersWon, PCs
  <2>2. GaplessInOrder' /\ NumberInReach' /\ PendingIsNext' /\ OneHolder'
    BY <1>2 DEF Request, NumberingInv, NumTypeOK, GaplessInOrder, NumberInReach,
                PendingIsNext,
                OneHolder
  <2> QED BY <2>1, <2>2 DEF NumberingInv
<1>3. ASSUME NEW c \in Creators, CountInvoices(c)
      PROVE  NumberingInv'
  <2>1. NumTypeOK' /\ ClashMeansOthersWon'
    BY <1>3 DEF CountInvoices, NextNumber, NumberingInv, NumTypeOK,
                ClashMeansOthersWon, PCs
  <2>2. NumberInReach'
    BY <1>3 DEF CountInvoices, NextNumber, NumberingInv, NumTypeOK,
                ClashMeansOthersWon, NumberInReach
  <2>3. GaplessInOrder' /\ PendingIsNext' /\ OneHolder'
    BY <1>3 DEF CountInvoices, NumberingInv, NumTypeOK, GaplessInOrder,
                PendingIsNext, OneHolder
  <2> QED BY <2>1, <2>2, <2>3 DEF NumberingInv
<1>4. ASSUME NEW c \in Creators, CreateDirect(c)
      PROVE  NumberingInv'
  <2>1. number[c] \in Nat /\ 1 <= number[c] /\ number[c] <= Len(rows) + 1
    BY <1>4 DEF CreateDirect, NumberingInv, NumTypeOK, NumberInReach
  <2>2. number[c] = Len(rows) + 1
    BY <1>4, <2>1, FreeNumberIsNext DEF CreateDirect, NumberingInv
  <2>3. \A d \in Creators : pc[d] # "inserted"
    <3>1. pc[c] # "inserted"
      BY <1>4 DEF CreateDirect
    <3>2. \A d \in Creators \ {c} : pc[d] # "inserted"
      BY <1>4, <2>2 DEF CreateDirect, InsertBlocked, NumberingInv, PendingIsNext
    <3> QED BY <3>1, <3>2
  <2>4. /\ rows' \in Seq(Nat)
        /\ Len(rows') = Len(rows) + 1
        /\ \A i \in 1..Len(rows') : rows'[i] = i
    BY <1>4, <2>2, AppendNext DEF CreateDirect, NumberingInv
  <2>5. NumTypeOK' /\ PendingIsNext' /\ OneHolder' /\ Len(rows) \in Nat
    BY <1>4, <2>3, <2>4 DEF CreateDirect, EndCreator, NumberingInv, NumTypeOK,
                            PendingIsNext,
                            OneHolder, PCs, Outcomes
  <2>6. ClashMeansOthersWon' /\ NumberInReach'
    BY <1>4, <2>4, <2>5 DEF CreateDirect, EndCreator, NumberingInv, NumTypeOK,
                            ClashMeansOthersWon,
                            NumberInReach
  <2> QED BY <2>4, <2>5, <2>6 DEF NumberingInv, GaplessInOrder
<1>5. ASSUME NEW c \in Creators, InsertInTransaction(c)
      PROVE  NumberingInv'
  <2>1. number[c] \in Nat /\ 1 <= number[c] /\ number[c] <= Len(rows) + 1
    BY <1>5 DEF InsertInTransaction, NumberingInv, NumTypeOK, NumberInReach
  <2>2. number[c] = Len(rows) + 1
    BY <1>5, <2>1, FreeNumberIsNext DEF InsertInTransaction, NumberingInv
  <2>3. \A d \in Creators \ {c} : pc[d] # "inserted"
    BY <1>5, <2>2 DEF InsertInTransaction, InsertBlocked, NumberingInv, PendingIsNext
  <2>4. NumTypeOK' /\ ClashMeansOthersWon'
    BY <1>5 DEF InsertInTransaction, NumberingInv, NumTypeOK, ClashMeansOthersWon, PCs
  <2>5. GaplessInOrder' /\ NumberInReach'
    BY <1>5 DEF InsertInTransaction, NumberingInv, NumTypeOK, GaplessInOrder,
                NumberInReach
  <2>6. PendingIsNext' /\ OneHolder'
    BY <1>5, <2>2, <2>3 DEF InsertInTransaction, NumberingInv, NumTypeOK,
                            PendingIsNext, OneHolder
  <2> QED BY <2>4, <2>5, <2>6 DEF NumberingInv
<1>6. ASSUME NEW c \in Creators, NumberClash(c)
      PROVE  NumberingInv'
  <2>1. attempt[c] <= Len(rows)
    <3>1. number[c] \in Nat /\ 1 <= number[c] /\ number[c] <= Len(rows) + 1
      BY <1>6 DEF NumberClash, NumberingInv, NumTypeOK, NumberInReach
    <3>2. number[c] # Len(rows) + 1
      BY <1>6, <3>1, FreeNumberIsNext DEF NumberClash, NumberingInv
    <3> QED
      BY <1>6, <3>1, <3>2 DEF NumberClash, NumberingInv, NumTypeOK, NumberInReach
  <2>2. CASE attempt[c] = MaxAttempts
    <3>1. NumTypeOK'
      BY <1>6, <2>2 DEF NumberClash, EndCreator, NumberingInv, NumTypeOK, PCs, Outcomes
    <3>2. ClashMeansOthersWon'
      BY <1>6, <2>1, <2>2 DEF NumberClash, EndCreator, NumberingInv, NumTypeOK,
                              ClashMeansOthersWon
    <3>3. GaplessInOrder' /\ NumberInReach' /\ PendingIsNext' /\ OneHolder'
      BY <1>6, <2>2 DEF NumberClash, EndCreator, NumberingInv, NumTypeOK,
                        GaplessInOrder, NumberInReach,
                        PendingIsNext, OneHolder
    <3> QED BY <3>1, <3>2, <3>3 DEF NumberingInv
  <2>3. CASE attempt[c] # MaxAttempts /\ Kind[c] = "recurring"
    <3>1. NumTypeOK'
      BY <1>6, <2>3 DEF NumberClash, EndCreator, NumberingInv, NumTypeOK, PCs, Outcomes
    <3>2. ClashMeansOthersWon'
      BY <1>6, <2>3 DEF NumberClash, EndCreator, NumberingInv, NumTypeOK,
                        ClashMeansOthersWon
    <3>3. GaplessInOrder' /\ NumberInReach' /\ PendingIsNext' /\ OneHolder'
      BY <1>6, <2>3 DEF NumberClash, EndCreator, NumberingInv, NumTypeOK,
                        GaplessInOrder, NumberInReach,
                        PendingIsNext, OneHolder
    <3> QED BY <3>1, <3>2, <3>3 DEF NumberingInv
  <2>4. CASE attempt[c] # MaxAttempts /\ Kind[c] # "recurring"
    <3>1. attempt[c] + 1 \in 1..MaxAttempts
      BY <2>4 DEF NumberingInv, NumTypeOK
    <3>2. NumTypeOK'
      BY <1>6, <2>4, <3>1 DEF NumberClash, NumberingInv, NumTypeOK, PCs
    <3>3. ClashMeansOthersWon'
      <4>1. /\ Len(rows) \in Nat
            /\ \A d \in Creators : attempt[d] \in Nat /\ attempt[d] <= Len(rows) + 1
        BY DEF NumberingInv, NumTypeOK, ClashMeansOthersWon
      <4>2. /\ UNCHANGED <<rows, outcome>>
            /\ \A d \in Creators : attempt'[d] = IF d = c THEN attempt[c] + 1
                                                          ELSE attempt[d]
        BY <1>6, <2>4 DEF NumberClash, NumberingInv, NumTypeOK
      <4> QED BY <2>1, <4>1, <4>2 DEF NumberingInv, ClashMeansOthersWon
    <3>4. GaplessInOrder' /\ NumberInReach' /\ PendingIsNext' /\ OneHolder'
      BY <1>6, <2>4 DEF NumberClash, NumberingInv, NumTypeOK, GaplessInOrder,
                        NumberInReach,
                        PendingIsNext, OneHolder
    <3> QED BY <3>2, <3>3, <3>4 DEF NumberingInv
  <2> QED BY <2>2, <2>3, <2>4
<1>7. ASSUME NEW c \in Creators, Commit(c)
      PROVE  NumberingInv'
  <2>1. pending[c] = Len(rows) + 1
    BY <1>7 DEF Commit, NumberingInv, PendingIsNext
  <2>2. /\ rows' \in Seq(Nat)
        /\ Len(rows') = Len(rows) + 1
        /\ \A i \in 1..Len(rows') : rows'[i] = i
    BY <1>7, <2>1, AppendNext DEF Commit, NumberingInv
  <2>3. \A d \in Creators \ {c} : pc[d] # "inserted"
    BY <1>7 DEF Commit, NumberingInv, OneHolder
  <2>4. NumTypeOK' /\ PendingIsNext' /\ OneHolder' /\ Len(rows) \in Nat
    BY <1>7, <2>2, <2>3 DEF Commit, EndCreator, NumberingInv, NumTypeOK,
                            PendingIsNext, OneHolder,
                            PCs, Outcomes
  <2>5. ClashMeansOthersWon' /\ NumberInReach'
    BY <1>7, <2>2, <2>4 DEF Commit, EndCreator, NumberingInv, NumTypeOK,
                            ClashMeansOthersWon,
                            NumberInReach
  <2> QED BY <2>2, <2>4, <2>5 DEF NumberingInv, GaplessInOrder
<1>8. ASSUME NEW c \in Creators, WriteConflict(c)
      PROVE  NumberingInv'
  <2>1. CASE txAttempt[c] = MaxTxAttempts
    <3>1. NumTypeOK' /\ ClashMeansOthersWon'
      BY <1>8, <2>1 DEF WriteConflict, EndCreator, NumberingInv, NumTypeOK,
                        ClashMeansOthersWon,
                        PCs, Outcomes
    <3>2. GaplessInOrder' /\ NumberInReach' /\ PendingIsNext' /\ OneHolder'
      BY <1>8, <2>1 DEF WriteConflict, EndCreator, NumberingInv, NumTypeOK,
                        GaplessInOrder,
                        NumberInReach, PendingIsNext, OneHolder
    <3> QED BY <3>1, <3>2 DEF NumberingInv
  <2>2. CASE txAttempt[c] # MaxTxAttempts
    <3>1. txAttempt[c] + 1 \in 1..MaxTxAttempts
      BY <2>2 DEF NumberingInv, NumTypeOK
    <3>2. NumTypeOK' /\ ClashMeansOthersWon'
      BY <1>8, <2>2, <3>1 DEF WriteConflict, NumberingInv, NumTypeOK,
                              ClashMeansOthersWon, PCs
    <3>3. GaplessInOrder' /\ NumberInReach' /\ PendingIsNext' /\ OneHolder'
      BY <1>8, <2>2 DEF WriteConflict, NumberingInv, NumTypeOK, GaplessInOrder,
                        NumberInReach, PendingIsNext, OneHolder
    <3> QED BY <3>2, <3>3 DEF NumberingInv
  <2> QED BY <2>1, <2>2
<1>9. ASSUME NEW c \in Creators, Abort(c)
      PROVE  NumberingInv'
  <2>1. NumTypeOK' /\ ClashMeansOthersWon'
    BY <1>9 DEF Abort, EndCreator, NumberingInv, NumTypeOK, ClashMeansOthersWon, PCs,
                Outcomes
  <2>2. GaplessInOrder' /\ NumberInReach' /\ PendingIsNext' /\ OneHolder'
    BY <1>9 DEF Abort, EndCreator, NumberingInv, NumTypeOK, GaplessInOrder,
                NumberInReach, PendingIsNext,
                OneHolder
  <2> QED BY <2>1, <2>2 DEF NumberingInv
<1> QED
  BY <1>1, <1>2, <1>3, <1>4, <1>5, <1>6, <1>7, <1>8, <1>9 DEF NumNext, Step

\* The invariant holds in every reachable state.
LEMMA NumberingAlways == NumSpec => []NumberingInv
  BY InitNumbering, NextNumbering, PTL DEF NumSpec

\* The numbering state stays within its types.
THEOREM NumberingTypeCorrect == NumSpec => []NumTypeOK
  BY NumberingAlways, PTL DEF NumberingInv

\* For any set of concurrent creators, the n-th invoice of a company to commit
\* carries number n: createInvoiceWithNumber never leaves a gap or a duplicate.
THEOREM NumbersGaplessInOrder == NumSpec => []GaplessInOrder
  BY NumberingAlways, PTL DEF NumberingInv

\* A creator that gives up on number clashes lost to at least MAX_ATTEMPTS
\* invoices that really were created.
THEOREM ClashesAreOthersSuccess == NumSpec => []ClashMeansOthersWon
  BY NumberingAlways, PTL DEF NumberingInv

=============================================================================
