---------------------------- MODULE OutboxProofs ----------------------------
(***************************************************************************)
(* Safety of the outbox for any number of rows, workers, endpoints,        *)
(* retries and crashes.                                                    *)
(*                                                                         *)
(* The key fact is ClaimHeld: a worker between claim and finish has its    *)
(* row in status "processing", and only the worker that finishes it takes  *)
(* it out of that status. It makes the claims exclusive, and exclusive     *)
(* claims make the worker's view of the delivery records current.          *)
(*                                                                         *)
(* What stale batches cost is a counting argument (Costs): a retry beyond  *)
(* the limit, or a chat post after the first, uses up a snapshot that some *)
(* worker read before, and no poll brings in another one like it.          *)
(***************************************************************************)
EXTENDS Outbox, FiniteSetTheorems, TLAPS

ClaimHeld == \A w \in Workers : Working(w) => status[cur[w].row] = "processing"

\* A delivery is recorded as successful only after the endpoint accepted it.
RecordIsTrue ==
    /\ \A r \in Rows, e \in Endpoints : delivery[r][e] = "ok" => accepted[r][e] > 0
    /\ \A w \in Workers : pc[w] = "record" /\ success[w] => accepted[cur[w].row][target[w]] > 0

\* A worker about to post has not yet a successful record for its endpoint.
PostIsNew == \A w \in Workers : pc[w] = "send" => delivery[cur[w].row][target[w]] # "ok"

\* While nothing has failed in this pass, every steady endpoint is still to
\* come, being delivered to, or has accepted the event.
PassCoversSteady ==
    \A w \in Workers : Working(w) /\ ~anyFailed[w] =>
        \A e \in Steady :
            \/ e \in todo[w]
            \/ pc[w] \in {"send", "record"} /\ e = target[w]
            \/ accepted[cur[w].row][e] > 0

IInv ==
    /\ TypeOK
    /\ ClaimHeld
    /\ ExclusiveClaim
    /\ RecordIsTrue
    /\ PostIsNew
    /\ PassCoversSteady
    /\ DeliveredReachedAll

\* Before anything is enqueued the invariant holds.
LEMMA InitIInv == Init => IInv
  BY OutboxAssumption
  DEF Init, IInv, TypeOK, ClaimHeld, ExclusiveClaim, RecordIsTrue, PostIsNew,
      PassCoversSteady, DeliveredReachedAll, Working, Steady, Snapshots, NoRow, Rows

\* Every step of the processor and of its surroundings preserves it.
LEMMA NextIInv == IInv /\ [Next]_vars => IInv'
<1> SUFFICES ASSUME IInv, [Next]_vars
             PROVE  IInv'
  OBVIOUS
<1> USE OutboxAssumption
<1> USE DEF IInv, ClaimHeld, ExclusiveClaim, RecordIsTrue, PostIsNew,
            PassCoversSteady, DeliveredReachedAll, Working, db, worker
<1>1. CASE UNCHANGED vars
  BY <1>1 DEF vars, TypeOK
<1>2. ASSUME NEW r \in Rows, Enqueue(r)
      PROVE  IInv'
  BY <1>2 DEF Enqueue, TypeOK, Snapshots
<1>3. ASSUME NEW r \in Rows, BecomesDue(r)
      PROVE  IInv'
  BY <1>3 DEF BecomesDue, TypeOK
<1>4. ASSUME NEW e \in Endpoints, SwitchEndpoint(e)
      PROVE  IInv'
  BY <1>4 DEF SwitchEndpoint, TypeOK, Steady
<1>5. ASSUME NEW w \in Workers, Poll(w)
      PROVE  IInv'
  <2>1. PICK Q \in SUBSET Rows :
            batch' = [batch EXCEPT ![w] = {[row |-> r, attempts |-> attempts[r]] : r \in Q}]
    <3> DEFINE Q == {q \in DueRows : Cardinality({p \in DueRows : p < q}) < BatchSize}
    <3>1. Q \in SUBSET Rows
      BY DEF DueRows
    <3>2. batch' = [batch EXCEPT ![w] = {[row |-> r, attempts |-> attempts[r]] : r \in Q}]
      BY <1>5 DEF Poll
    <3> HIDE DEF Q
    <3> QED BY <3>1, <3>2
  <2>2. batch' \in [Workers -> SUBSET Snapshots]
    BY <2>1 DEF TypeOK, Snapshots
  <2>3. TypeOK'
    BY <1>5, <2>2 DEF Poll, TypeOK
  <2> QED BY <1>5, <2>3 DEF Poll, TypeOK
<1>6. ASSUME NEW w \in Workers, Claim(w)
      PROVE  IInv'
  BY <1>6 DEF Claim, Claimable, NextInBatch, TypeOK, Snapshots, Steady
<1>7. ASSUME NEW w \in Workers, SkipClaimed(w)
      PROVE  IInv'
  BY <1>7 DEF SkipClaimed, TypeOK
<1>8. ASSUME NEW w \in Workers, EndOfBatch(w)
      PROVE  IInv'
  BY <1>8 DEF EndOfBatch, TypeOK
<1>9. ASSUME NEW w \in Workers, NEW e \in Endpoints, SkipDelivered(w, e)
      PROVE  IInv'
  BY <1>9 DEF SkipDelivered, AlreadyDelivered, TypeOK, Snapshots
<1>10. ASSUME NEW w \in Workers, NEW e \in Endpoints, StartDelivery(w, e)
       PROVE  IInv'
  BY <1>10 DEF StartDelivery, AlreadyDelivered, TypeOK, Snapshots
<1>11. ASSUME NEW w \in Workers, NEW ok \in BOOLEAN, Post(w, ok)
       PROVE  IInv'
  BY <1>11 DEF Post, TypeOK, Snapshots
<1>12. ASSUME NEW w \in Workers, NEW ok \in BOOLEAN, RecordDelivery(w, ok)
       PROVE  IInv'
  <2> DEFINE r == cur[w].row
             t == target[w]
  <2>1. r \in Rows /\ t \in Endpoints
    BY <1>12 DEF RecordDelivery, TypeOK, Snapshots
  <2>2. /\ delivery' \in [Rows -> [Endpoints -> {"none", "failed", "ok"}]]
        /\ \A q \in Rows, e \in Endpoints : delivery'[q][e] =
              IF q = r /\ e = t /\ ok THEN IF success[w] THEN "ok" ELSE "failed"
                                      ELSE delivery[q][e]
    BY <1>12, <2>1 DEF RecordDelivery, TypeOK
  <2>3. TypeOK'
    BY <1>12, <2>2 DEF RecordDelivery, FailureNoted, TypeOK
  <2>4. ClaimHeld' /\ ExclusiveClaim' /\ DeliveredReachedAll'
    BY <1>12 DEF RecordDelivery, TypeOK
  <2>5. RecordIsTrue'
    BY <1>12, <2>1, <2>2 DEF RecordDelivery, TypeOK, Snapshots
  <2>6. PostIsNew'
    BY <1>12, <2>1, <2>2 DEF RecordDelivery, TypeOK, Snapshots
  <2>7. PassCoversSteady'
    BY <1>12, <2>1 DEF RecordDelivery, FailureNoted, TypeOK
  <2> QED BY <2>3, <2>4, <2>5, <2>6, <2>7
<1>13. ASSUME NEW w \in Workers, Finish(w)
       PROVE  IInv'
  <2> DEFINE r == cur[w].row
  <2>1. r \in Rows
    BY <1>13 DEF Finish, TypeOK, Snapshots
  <2>2. /\ StatusAfter(w) \in {"pending", "failed", "delivered"}
        /\ StatusAfter(w) = "delivered" => ~anyFailed[w]
    BY DEF StatusAfter
  <2>3. TypeOK'
    <3>1. due' \in [Rows -> BOOLEAN]
      BY <1>13, <2>1, Zenon DEF Finish, TypeOK
    <3>2. status' \in [Rows -> {"none", "pending", "processing", "delivered", "failed"}]
      BY <1>13, <2>1, <2>2 DEF Finish, TypeOK
    <3>3. attempts' \in [Rows -> Nat] /\ chats' \in [Rows -> Nat]
      BY <1>13, <2>1 DEF Finish, TypeOK
    <3> QED BY <1>13, <3>1, <3>2, <3>3 DEF Finish, TypeOK, NoRow
  <2>4. ClaimHeld' /\ ExclusiveClaim' /\ PostIsNew' /\ RecordIsTrue'
    BY <1>13, <2>1 DEF Finish, TypeOK, Snapshots
  <2>5. PassCoversSteady'
    BY <1>13, <2>1 DEF Finish, TypeOK
  <2>6. DeliveredReachedAll'
    BY <1>13, <2>1, <2>2 DEF Finish, TypeOK
  <2> QED BY <2>3, <2>4, <2>5, <2>6
<1>14. ASSUME NEW w \in Workers, Throw(w)
       PROVE  IInv'
  BY <1>14 DEF Throw, TypeOK
<1> QED
  BY <1>1, <1>2, <1>3, <1>4, <1>5, <1>6, <1>7, <1>8, <1>9, <1>10, <1>11, <1>12,
     <1>13, <1>14 DEF Next, ProcessorStep

\* The invariant holds in every reachable state.
LEMMA IInvAlways == Spec => []IInv
  BY InitIInv, NextIInv, PTL DEF Spec

-----------------------------------------------------------------------------
(***************************************************************************)
(* What a stale batch costs.                                               *)
(***************************************************************************)

\* The rows a worker has read and not done with, and the workers that hold one of row r
\* with fewer than n attempts.
Snaps(w) == batch[w] \union {cur[w]}
Holding(r, n) == {w \in Workers : \E s \in Snaps(w) : s.row = r /\ s.attempts < n}

\* A worker holds no row twice.
OneSnapshotEach ==
    /\ \A w \in Workers : pc[w] \in {"idle", "batch"} => cur[w] = NoRow
    /\ \A w \in Workers : \A s, t \in batch[w] : s.row = t.row => s = t
    /\ \A w \in Workers : \A s \in batch[w] : s.row # cur[w].row

\* Nothing is posted to chat before the first pass over the row has ended.
FirstPassPosts ==
    \A r \in Rows : attempts[r] = 0 /\ status[r] \notin {"delivered", "failed"} => chats[r] = 0

\* From the limit on, a retry needs a snapshot from before it.
RetriesLeftOver ==
    \A r \in Rows : MaxAttempts - 1 <= attempts[r] =>
        attempts[r] + Cardinality(Holding(r, MaxAttempts - 1)) <= MaxAttempts - 1 + (Cardinality(Workers) - 1)

\* A chat post needs a snapshot with no attempts.
ChatsLeftOver ==
    \A r \in Rows : chats[r] + Cardinality(Holding(r, 1)) <= Cardinality(Workers)

Costs == OneSnapshotEach /\ FirstPassPosts /\ RetriesLeftOver /\ ChatsLeftOver

\* Workers who hold something are counted.
LEMMA HoldingCounted ==
    ASSUME NEW T \in SUBSET Workers
    PROVE  /\ IsFiniteSet(T) /\ Cardinality(T) \in Nat /\ Cardinality(Workers) \in Nat \ {0}
           /\ Cardinality(T) <= Cardinality(Workers)
           /\ \A S \in SUBSET T : Cardinality(S) \in Nat /\ Cardinality(S) <= Cardinality(T)
           /\ \A w \in T : Cardinality(T \ {w}) = Cardinality(T) - 1
<1>1. IsFiniteSet(Workers) /\ Workers # {}
  BY OutboxAssumption
<1>2. Cardinality(Workers) \in Nat /\ Cardinality(Workers) # 0
  BY <1>1, FS_CardinalityType, FS_EmptySet
<1>3. IsFiniteSet(T) /\ Cardinality(T) <= Cardinality(Workers)
  BY <1>1, FS_Subset
<1>4. Cardinality(T) \in Nat
  BY <1>3, FS_CardinalityType
<1>5. ASSUME NEW S \in SUBSET T PROVE Cardinality(S) \in Nat /\ Cardinality(S) <= Cardinality(T)
  BY <1>3, FS_Subset, FS_CardinalityType
<1>6. \A w \in T : Cardinality(T \ {w}) = Cardinality(T) - 1
  BY <1>3, FS_RemoveElement
<1> QED BY <1>2, <1>3, <1>4, <1>5, <1>6

\* A step that brings in no snapshot and ends no pass.
LEMMA CostsShrink ==
    ASSUME IInv, Costs,
           \A w \in Workers : Snaps(w)' \subseteq Snaps(w) \union {NoRow},
           OneSnapshotEach', UNCHANGED <<attempts, chats>>,
           \A r \in Rows : status[r] \in {"delivered", "failed"} => status'[r] = status[r]
    PROVE  Costs'
<1>1. \A r \in Rows : NoRow.row # r
  BY OutboxAssumption DEF Rows, NoRow
<1>4. \A r \in Rows, n \in Int : Holding(r, n)' \subseteq Holding(r, n)
  BY <1>1 DEF Holding
<1>5. FirstPassPosts'
  BY DEF Costs, FirstPassPosts
<1>6. MaxAttempts - 1 \in Int /\ 1 \in Int
  BY OutboxAssumption
<1>7. \A r \in Rows : attempts[r] \in Nat /\ chats[r] \in Nat
  BY DEF IInv, TypeOK
<1>8. RetriesLeftOver'
  <2> SUFFICES ASSUME NEW r \in Rows, MaxAttempts - 1 <= attempts[r]
               PROVE  attempts[r] + Cardinality(Holding(r, MaxAttempts - 1)')
                        <= MaxAttempts - 1 + (Cardinality(Workers) - 1)
    BY DEF RetriesLeftOver
  <2>1. PICK H, G : H = Holding(r, MaxAttempts - 1) /\ G = Holding(r, MaxAttempts - 1)'
    OBVIOUS
  <2>2. H \in SUBSET Workers /\ G \in SUBSET H
    BY <1>4, <1>6, <2>1 DEF Holding
  <2>3. attempts[r] + Cardinality(H) <= MaxAttempts - 1 + (Cardinality(Workers) - 1)
    BY <2>1 DEF Costs, RetriesLeftOver
  <2>4. Cardinality(G) \in Nat /\ Cardinality(G) <= Cardinality(H) /\ Cardinality(H) \in Nat
        /\ Cardinality(Workers) \in Nat
    BY <2>2, HoldingCounted
  <2>5. attempts[r] + Cardinality(G) <= MaxAttempts - 1 + (Cardinality(Workers) - 1)
    BY <1>6, <1>7, <2>3, <2>4
  <2> QED BY <2>1, <2>5
<1>9. ChatsLeftOver'
  <2> SUFFICES ASSUME NEW r \in Rows
               PROVE  chats[r] + Cardinality(Holding(r, 1)') <= Cardinality(Workers)
    BY DEF ChatsLeftOver
  <2>1. PICK H, G : H = Holding(r, 1) /\ G = Holding(r, 1)'
    OBVIOUS
  <2>2. H \in SUBSET Workers /\ G \in SUBSET H
    BY <1>4, <1>6, <2>1 DEF Holding
  <2>3. chats[r] + Cardinality(H) <= Cardinality(Workers)
    BY <2>1 DEF Costs, ChatsLeftOver
  <2>4. Cardinality(G) \in Nat /\ Cardinality(G) <= Cardinality(H) /\ Cardinality(H) \in Nat
        /\ Cardinality(Workers) \in Nat
    BY <2>2, HoldingCounted
  <2>5. chats[r] + Cardinality(G) <= Cardinality(Workers)
    BY <1>7, <2>3, <2>4
  <2> QED BY <2>1, <2>5
<1> QED BY <1>5, <1>8, <1>9 DEF Costs

\* A poll reads the attempts of the moment, of rows that are not closed.
LEMMA CostsPoll == ASSUME IInv, Costs, NEW w \in Workers, Poll(w) PROVE Costs'
<1>1. UNCHANGED <<status, attempts, chats, cur>> /\ cur[w] = NoRow
  BY DEF Poll, db, Costs, OneSnapshotEach
<1>2. PICK Q \in SUBSET DueRows :
          batch' = [batch EXCEPT ![w] = {[row |-> r, attempts |-> attempts[r]] : r \in Q}]
  <2> DEFINE Q == {q \in DueRows : Cardinality({p \in DueRows : p < q}) < BatchSize}
  <2>1. batch' = [batch EXCEPT ![w] = {[row |-> r, attempts |-> attempts[r]] : r \in Q}]
    BY DEF Poll
  <2>2. Q \in SUBSET DueRows
    OBVIOUS
  <2> HIDE DEF Q
  <2> QED BY <2>1, <2>2
<1>3. /\ \A v \in Workers : v # w => Snaps(v)' = Snaps(v)
      /\ Snaps(w)' = {[row |-> r, attempts |-> attempts[r]] : r \in Q} \union {NoRow}
  BY <1>1, <1>2 DEF Snaps, IInv, TypeOK
<1>4. DueRows \subseteq Rows /\ \A r \in Rows : NoRow.row # r
  BY OutboxAssumption DEF DueRows, Rows, NoRow
<1>5. OneSnapshotEach'
  <2>1. /\ batch'[w] = {[row |-> r, attempts |-> attempts[r]] : r \in Q}
        /\ \A v \in Workers : v # w => batch'[v] = batch[v]
    BY <1>2 DEF IInv, TypeOK
  <2>2. \A s, t \in batch'[w] : s.row = t.row => s = t
    BY <1>4, <2>1
  <2>3. \A s \in batch'[w] : s.row # cur'[w].row
    BY <1>1, <1>4, <2>1
  <2>4. \A v \in Workers : pc'[v] \in {"idle", "batch"} => cur'[v] = NoRow
    BY <1>1 DEF Poll, Costs, OneSnapshotEach, IInv, TypeOK
  <2> QED BY <1>1, <2>1, <2>2, <2>3, <2>4 DEF Costs, OneSnapshotEach
<1>6. \A r \in Rows : attempts[r] \in Nat /\ chats[r] \in Nat
  BY DEF IInv, TypeOK
<1>7. ASSUME NEW r \in Rows, NEW n \in Int, n <= attempts[r]
      PROVE  Holding(r, n)' \subseteq Holding(r, n)
  <2>1. \A s \in Snaps(w)' : s.row = r => ~(s.attempts < n)
    BY <1>2, <1>3, <1>4, <1>6, <1>7
  <2> QED BY <1>3, <2>1 DEF Holding
<1>8. FirstPassPosts'
  BY <1>1 DEF Costs, FirstPassPosts
<1>9. MaxAttempts - 1 \in Int /\ 1 \in Int
  BY OutboxAssumption
<1>10. RetriesLeftOver'
  <2> SUFFICES ASSUME NEW r \in Rows, MaxAttempts - 1 <= attempts[r]
               PROVE  attempts[r] + Cardinality(Holding(r, MaxAttempts - 1)')
                        <= MaxAttempts - 1 + (Cardinality(Workers) - 1)
    BY <1>1 DEF RetriesLeftOver
  <2>1. PICK H, G : H = Holding(r, MaxAttempts - 1) /\ G = Holding(r, MaxAttempts - 1)'
    OBVIOUS
  <2>2. H \in SUBSET Workers /\ G \in SUBSET H
    BY <1>7, <1>9, <2>1 DEF Holding
  <2>3. attempts[r] + Cardinality(H) <= MaxAttempts - 1 + (Cardinality(Workers) - 1)
    BY <2>1 DEF Costs, RetriesLeftOver
  <2>4. Cardinality(G) \in Nat /\ Cardinality(G) <= Cardinality(H) /\ Cardinality(H) \in Nat
        /\ Cardinality(Workers) \in Nat
    BY <2>2, HoldingCounted
  <2>5. attempts[r] + Cardinality(G) <= MaxAttempts - 1 + (Cardinality(Workers) - 1)
    BY <1>6, <1>9, <2>3, <2>4
  <2> QED BY <2>1, <2>5
<1>11. ChatsLeftOver'
  <2> SUFFICES ASSUME NEW r \in Rows
               PROVE  chats[r] + Cardinality(Holding(r, 1)') <= Cardinality(Workers)
    BY <1>1 DEF ChatsLeftOver
  <2>1. PICK H, G : H = Holding(r, 1) /\ G = Holding(r, 1)'
    OBVIOUS
  <2>2. H \in SUBSET Workers /\ G \in SUBSET Workers
    BY <2>1 DEF Holding
  <2>3. chats[r] + Cardinality(H) <= Cardinality(Workers)
    BY <2>1 DEF Costs, ChatsLeftOver
  <2>4. Cardinality(G) \in Nat /\ Cardinality(H) \in Nat /\ Cardinality(Workers) \in Nat
        /\ Cardinality(G) <= Cardinality(Workers)
    BY <2>2, HoldingCounted
  <2>5. CASE r \in Q /\ attempts[r] = 0
    <3>1. chats[r] = 0
      BY <1>2, <2>5 DEF Costs, FirstPassPosts, DueRows
    <3> QED BY <2>1, <2>4, <3>1
  <2>6. CASE ~(r \in Q /\ attempts[r] = 0)
    <3>1. \A s \in Snaps(w)' : s.row = r => ~(s.attempts < 1)
      BY <1>2, <1>3, <1>4, <1>6, <2>6
    <3>2. G \in SUBSET H
      BY <1>3, <2>1, <3>1 DEF Holding
    <3>3. Cardinality(G) <= Cardinality(H)
      BY <2>2, <3>2, HoldingCounted
    <3>4. chats[r] + Cardinality(G) <= Cardinality(Workers)
      BY <1>6, <2>3, <2>4, <3>3
    <3> QED BY <2>1, <3>4
  <2> QED BY <2>5, <2>6
<1> QED BY <1>5, <1>8, <1>10, <1>11 DEF Costs

\* The end of a pass uses up the worker's snapshot of the row.
LEMMA CostsFinish == ASSUME IInv, Costs, NEW w \in Workers, Finish(w) PROVE Costs'
<1>1. PICK s, r : s = cur[w] /\ r = s.row
  OBVIOUS
<1>2. s \in Snapshots /\ r \in Rows /\ s.attempts \in Nat
  BY <1>1 DEF Finish, IInv, TypeOK, Working, Snapshots
<1>3. PICK retry \in BOOLEAN : retry = (StatusAfter(w) = "pending")
  OBVIOUS
<1>4. /\ retry => s.attempts < MaxAttempts - 1
      /\ ~retry => StatusAfter(w) \in {"delivered", "failed"}
  <2>1. retry => RetriesLeft(w)
    BY <1>3 DEF StatusAfter
  <2>2. RetriesLeft(w) => s.attempts < MaxAttempts - 1
    BY <1>1, <1>2, OutboxAssumption DEF RetriesLeft
  <2> QED BY <1>3, <2>1, <2>2 DEF StatusAfter
<1>5. /\ chats' = [chats EXCEPT ![r] = IF s.attempts = 0 THEN @ + 1 ELSE @]
      /\ status' = [status EXCEPT ![r] = StatusAfter(w)]
      /\ attempts' = [attempts EXCEPT ![r] = IF retry THEN @ + 1 ELSE @]
      /\ cur' = [cur EXCEPT ![w] = NoRow] /\ pc' = [pc EXCEPT ![w] = "batch"] /\ UNCHANGED batch
  BY <1>1, <1>3 DEF Finish, FirstAttempt
<1>6. \A q \in Rows : /\ attempts[q] \in Nat /\ chats[q] \in Nat
                      /\ q # r => /\ attempts'[q] = attempts[q] /\ chats'[q] = chats[q]
                                   /\ status'[q] = status[q]
  BY <1>2, <1>5 DEF IInv, TypeOK
<1>7. /\ attempts'[r] = IF retry THEN attempts[r] + 1 ELSE attempts[r]
      /\ chats'[r] = IF s.attempts = 0 THEN chats[r] + 1 ELSE chats[r]
      /\ status'[r] = StatusAfter(w)
  BY <1>2, <1>5 DEF IInv, TypeOK
<1>8. /\ \A v \in Workers : v # w => Snaps(v)' = Snaps(v)
      /\ Snaps(w)' = batch[w] \union {NoRow} /\ Snaps(w) = batch[w] \union {s}
  BY <1>1, <1>5 DEF Snaps, IInv, TypeOK
<1>9. \A q \in Rows : NoRow.row # q
  BY OutboxAssumption DEF Rows, NoRow
<1>10. \A t \in batch[w] : t.row \in Rows /\ t.row # NoRow.row
  BY <1>9 DEF IInv, TypeOK, Snapshots
<1>11. OneSnapshotEach'
  <2>1. \A v \in Workers : pc'[v] \in {"idle", "batch"} => cur'[v] = NoRow
    BY <1>5 DEF Costs, OneSnapshotEach, IInv, TypeOK
  <2>2. cur'[w] = NoRow /\ \A v \in Workers : v # w => cur'[v] = cur[v]
    BY <1>5 DEF IInv, TypeOK
  <2> QED BY <1>5, <1>10, <2>1, <2>2 DEF Costs, OneSnapshotEach
<1>12. \A q \in Rows, n \in Int : Holding(q, n)' \subseteq Holding(q, n)
  BY <1>8, <1>9 DEF Holding
<1>13. \A n \in Int : w \notin Holding(r, n)' /\ (s.attempts < n => w \in Holding(r, n))
  <2>1. \A t \in batch[w] : t.row # r
    BY <1>1 DEF Costs, OneSnapshotEach
  <2> QED BY <1>1, <1>2, <1>8, <1>9, <2>1 DEF Holding
<1>14. FirstPassPosts'
  BY <1>4, <1>6, <1>7 DEF Costs, FirstPassPosts
<1>15. MaxAttempts - 1 \in Int /\ 1 \in Int
  BY OutboxAssumption
<1>16. RetriesLeftOver'
  <2> SUFFICES ASSUME NEW q \in Rows, MaxAttempts - 1 <= attempts'[q]
               PROVE  attempts'[q] + Cardinality(Holding(q, MaxAttempts - 1)')
                        <= MaxAttempts - 1 + (Cardinality(Workers) - 1)
    BY DEF RetriesLeftOver
  <2>1. PICK H, G : H = Holding(q, MaxAttempts - 1) /\ G = Holding(q, MaxAttempts - 1)'
    OBVIOUS
  <2>2. H \in SUBSET Workers /\ G \in SUBSET H
    BY <1>12, <1>15, <2>1 DEF Holding
  <2>3. MaxAttempts - 1 <= attempts[q] =>
          attempts[q] + Cardinality(H) <= MaxAttempts - 1 + (Cardinality(Workers) - 1)
    BY <2>1 DEF Costs, RetriesLeftOver
  <2>4. Cardinality(G) \in Nat /\ Cardinality(G) <= Cardinality(H) /\ Cardinality(H) \in Nat
        /\ Cardinality(Workers) \in Nat /\ Cardinality(H) <= Cardinality(Workers)
    BY <2>2, HoldingCounted
  <2>5. CASE q = r /\ retry
    <3>1. w \in H /\ w \notin G
      BY <1>4, <1>13, <1>15, <2>1, <2>5
    <3>2. G \in SUBSET (H \ {w}) /\ H \ {w} \in SUBSET Workers
      BY <2>2, <3>1
    <3>3. Cardinality(G) <= Cardinality(H \ {w}) /\ Cardinality(H \ {w}) = Cardinality(H) - 1
      BY <2>2, <3>1, <3>2, HoldingCounted
    <3>4. Cardinality(G) <= Cardinality(H) - 1
      BY <3>3
    <3>5. attempts[q] \in Nat /\ attempts'[q] = attempts[q] + 1
      BY <1>6, <1>7, <2>5
    <3>6. attempts'[q] + Cardinality(G) <= MaxAttempts - 1 + (Cardinality(Workers) - 1)
      <4>1. CASE MaxAttempts - 1 <= attempts[q]
        BY <1>15, <2>3, <2>4, <3>4, <3>5, <4>1
      <4>2. CASE ~(MaxAttempts - 1 <= attempts[q])
        <5>1. attempts'[q] = MaxAttempts - 1
          BY <1>15, <3>5, <4>2
        <5> QED BY <1>15, <2>4, <3>4, <5>1
      <4> QED BY <4>1, <4>2
    <3> QED BY <2>1, <3>6
  <2>6. CASE ~(q = r /\ retry)
    <3>1. attempts[q] \in Nat /\ attempts'[q] = attempts[q]
      BY <1>6, <1>7, <2>6
    <3>2. attempts'[q] + Cardinality(G) <= MaxAttempts - 1 + (Cardinality(Workers) - 1)
      BY <1>15, <2>3, <2>4, <3>1
    <3> QED BY <2>1, <3>2
  <2> QED BY <2>5, <2>6
<1>17. ChatsLeftOver'
  <2> SUFFICES ASSUME NEW q \in Rows
               PROVE  chats'[q] + Cardinality(Holding(q, 1)') <= Cardinality(Workers)
    BY DEF ChatsLeftOver
  <2>1. PICK H, G : H = Holding(q, 1) /\ G = Holding(q, 1)'
    OBVIOUS
  <2>2. H \in SUBSET Workers /\ G \in SUBSET H
    BY <1>12, <1>15, <2>1 DEF Holding
  <2>3. chats[q] + Cardinality(H) <= Cardinality(Workers)
    BY <2>1 DEF Costs, ChatsLeftOver
  <2>4. Cardinality(G) \in Nat /\ Cardinality(G) <= Cardinality(H) /\ Cardinality(H) \in Nat
        /\ Cardinality(Workers) \in Nat
    BY <2>2, HoldingCounted
  <2>5. CASE q = r /\ s.attempts = 0
    <3>1. w \in H /\ w \notin G
      BY <1>13, <1>15, <2>1, <2>5
    <3>2. G \in SUBSET (H \ {w}) /\ H \ {w} \in SUBSET Workers
      BY <2>2, <3>1
    <3>3. Cardinality(G) <= Cardinality(H \ {w}) /\ Cardinality(H \ {w}) = Cardinality(H) - 1
      BY <2>2, <3>1, <3>2, HoldingCounted
    <3>4. Cardinality(G) <= Cardinality(H) - 1
      BY <3>3
    <3>5. chats[q] \in Nat /\ chats'[q] = chats[q] + 1
      BY <1>6, <1>7, <2>5
    <3>6. chats'[q] + Cardinality(G) <= Cardinality(Workers)
      BY <2>3, <2>4, <3>4, <3>5
    <3> QED BY <2>1, <3>6
  <2>6. CASE ~(q = r /\ s.attempts = 0)
    <3>1. chats[q] \in Nat /\ chats'[q] = chats[q]
      BY <1>6, <1>7, <2>6
    <3>2. chats'[q] + Cardinality(G) <= Cardinality(Workers)
      BY <2>3, <2>4, <3>1
    <3> QED BY <2>1, <3>2
  <2> QED BY <2>5, <2>6
<1> QED BY <1>11, <1>14, <1>16, <1>17 DEF Costs

\* Before anything is read.
LEMMA InitCosts == Init => Costs
<1> SUFFICES ASSUME Init PROVE Costs
  OBVIOUS
<1>1. \A r \in Rows : NoRow.row # r
  BY OutboxAssumption DEF Rows, NoRow
<1>2. \A r \in Rows, n \in Int : Holding(r, n) = {}
  BY <1>1 DEF Init, Holding, Snaps
<1>3. Cardinality({}) = 0
  BY FS_EmptySet
<1>4. Cardinality(Workers) \in Nat \ {0}
  BY HoldingCounted
<1>5. MaxAttempts - 1 \in Int /\ 1 \in Int /\ \A r \in Rows : attempts[r] = 0 /\ chats[r] = 0
  BY OutboxAssumption DEF Init
<1>6. RetriesLeftOver
  <2> SUFFICES ASSUME NEW r \in Rows, MaxAttempts - 1 <= attempts[r]
               PROVE  attempts[r] + Cardinality(Holding(r, MaxAttempts - 1))
                        <= MaxAttempts - 1 + (Cardinality(Workers) - 1)
    BY DEF RetriesLeftOver
  <2>1. Cardinality(Holding(r, MaxAttempts - 1)) = 0
    BY <1>2, <1>3, <1>5
  <2>2. MaxAttempts - 1 >= 0
    BY OutboxAssumption
  <2> QED BY <1>4, <1>5, <2>1, <2>2
<1>7. ChatsLeftOver
  <2> SUFFICES ASSUME NEW r \in Rows
               PROVE  chats[r] + Cardinality(Holding(r, 1)) <= Cardinality(Workers)
    BY DEF ChatsLeftOver
  <2>1. Cardinality(Holding(r, 1)) = 0
    BY <1>2, <1>3, <1>5
  <2> QED BY <1>4, <1>5, <2>1
<1>8. OneSnapshotEach /\ FirstPassPosts
  BY <1>5 DEF Init, OneSnapshotEach, FirstPassPosts
<1> QED BY <1>6, <1>7, <1>8 DEF Costs

LEMMA NextCosts == IInv /\ Costs /\ [Next]_vars => Costs'
<1> SUFFICES ASSUME IInv, Costs, [Next]_vars PROVE Costs'
  OBVIOUS
<1> USE DEF db, worker
<1>1. CASE \/ UNCHANGED vars
           \/ \E r \in Rows : Enqueue(r) \/ BecomesDue(r)
           \/ \E e \in Endpoints : SwitchEndpoint(e)
           \/ \E w \in Workers :
                \/ EndOfBatch(w)
                \/ \E e \in Endpoints : SkipDelivered(w, e) \/ StartDelivery(w, e)
                \/ \E ok \in BOOLEAN : Post(w, ok) \/ RecordDelivery(w, ok)
  <2>1. UNCHANGED <<attempts, chats, batch, cur>>
    BY <1>1 DEF vars, Enqueue, BecomesDue, SwitchEndpoint, EndOfBatch, SkipDelivered,
                StartDelivery, Post, RecordDelivery
  <2>2. \A v \in Workers : Snaps(v)' \subseteq Snaps(v) \union {NoRow}
    BY <2>1 DEF Snaps
  <2>3. OneSnapshotEach'
    <3>1. \/ pc' = pc
          \/ \E w \in Workers : pc[w] = "batch" /\ pc' = [pc EXCEPT ![w] = "idle"]
          \/ \E w \in Workers : \E at \in {"send", "record", "deliver"} : pc' = [pc EXCEPT ![w] = at]
      BY <1>1, Zenon DEF vars, Enqueue, BecomesDue, SwitchEndpoint, EndOfBatch, SkipDelivered,
                  StartDelivery, Post, RecordDelivery
    <3>2. \A v \in Workers : pc'[v] = pc[v] \/ pc[v] = "batch" \/ pc'[v] \notin {"idle", "batch"}
      BY <3>1 DEF IInv, TypeOK
    <3> QED BY <2>1, <3>2 DEF Costs, OneSnapshotEach
  <2>4. \A r \in Rows : status[r] \in {"delivered", "failed"} => status'[r] = status[r]
    BY <1>1 DEF vars, Enqueue, BecomesDue, SwitchEndpoint, EndOfBatch, SkipDelivered,
                StartDelivery, Post, RecordDelivery, IInv, TypeOK
  <2> QED BY <2>1, <2>2, <2>3, <2>4, CostsShrink
<1>2. ASSUME NEW w \in Workers, Claim(w) PROVE Costs'
  <2>1. PICK b \in batch[w] :
          /\ pc[w] = "batch" /\ status[b.row] = "pending"
          /\ status' = [status EXCEPT ![b.row] = "processing"]
          /\ batch' = [batch EXCEPT ![w] = @ \ {b}] /\ cur' = [cur EXCEPT ![w] = b]
          /\ pc' = [pc EXCEPT ![w] = "deliver"] /\ UNCHANGED <<attempts, chats>>
    BY <1>2 DEF Claim, Claimable
  <2>2. \A v \in Workers : /\ v # w => batch'[v] = batch[v] /\ cur'[v] = cur[v] /\ pc'[v] = pc[v]
                           /\ v = w => batch'[v] = batch[v] \ {b} /\ cur'[v] = b /\ pc'[v] = "deliver"
    BY <2>1 DEF IInv, TypeOK
  <2>3. \A v \in Workers : Snaps(v)' \subseteq Snaps(v) \union {NoRow}
    BY <2>2 DEF Snaps
  <2>4. OneSnapshotEach'
    BY <2>2 DEF Costs, OneSnapshotEach
  <2>5. \A r \in Rows : status[r] \in {"delivered", "failed"} => status'[r] = status[r]
    BY <2>1 DEF IInv, TypeOK
  <2> QED BY <2>1, <2>3, <2>4, <2>5, CostsShrink
<1>3. ASSUME NEW w \in Workers, SkipClaimed(w) PROVE Costs'
  <2>1. PICK b \in batch[w] : batch' = [batch EXCEPT ![w] = @ \ {b}]
    BY <1>3 DEF SkipClaimed
  <2>2. UNCHANGED <<cur, pc, attempts, chats, status>>
    BY <1>3 DEF SkipClaimed
  <2>3. \A v \in Workers : batch'[v] \subseteq batch[v]
    BY <2>1 DEF IInv, TypeOK
  <2>4. \A v \in Workers : Snaps(v)' \subseteq Snaps(v) \union {NoRow}
    BY <2>2, <2>3 DEF Snaps
  <2>5. OneSnapshotEach'
    BY <2>2, <2>3 DEF Costs, OneSnapshotEach
  <2> QED BY <2>2, <2>4, <2>5, CostsShrink
<1>4. ASSUME NEW w \in Workers, Throw(w) PROVE Costs'
  <2>1. /\ batch' = [batch EXCEPT ![w] = {}] /\ cur' = [cur EXCEPT ![w] = NoRow]
        /\ pc' = [pc EXCEPT ![w] = "idle"] /\ UNCHANGED <<attempts, chats, status>>
    BY <1>4 DEF Throw
  <2>2. \A v \in Workers : /\ v # w => batch'[v] = batch[v] /\ cur'[v] = cur[v] /\ pc'[v] = pc[v]
                           /\ v = w => batch'[v] = {} /\ cur'[v] = NoRow
    BY <2>1 DEF IInv, TypeOK
  <2>3. \A v \in Workers : Snaps(v)' \subseteq Snaps(v) \union {NoRow}
    BY <2>2 DEF Snaps
  <2>4. OneSnapshotEach'
    BY <2>2 DEF Costs, OneSnapshotEach
  <2> QED BY <2>1, <2>3, <2>4, CostsShrink
<1>5. ASSUME NEW w \in Workers, Poll(w) \/ Finish(w) PROVE Costs'
  BY <1>5, CostsPoll, CostsFinish
<1> QED BY <1>1, <1>2, <1>3, <1>4, <1>5 DEF Next, ProcessorStep

\* "More than one API instance can safely run this poller": a batch that was read before
\* another worker's pass costs at most one more retry, and one more chat post, for each
\* other worker, however many there are and wherever they stop.
THEOREM StaleBatchesCostLittle == Spec => []StaleBatchCost
<1>1. IInv /\ Costs => StaleBatchCost
  <2> SUFFICES ASSUME IInv, Costs, NEW r \in Rows
               PROVE  /\ attempts[r] <= MaxAttempts - 1 + (Cardinality(Workers) - 1)
                      /\ chats[r] <= Cardinality(Workers)
    BY DEF StaleBatchCost, RetriesBounded, ChatPerWorker
  <2>1. PICK H, G : H = Holding(r, MaxAttempts - 1) /\ G = Holding(r, 1)
    OBVIOUS
  <2>2. Cardinality(H) \in Nat /\ Cardinality(G) \in Nat /\ Cardinality(Workers) \in Nat \ {0}
    BY <2>1, HoldingCounted DEF Holding
  <2>3. /\ MaxAttempts - 1 <= attempts[r] =>
             attempts[r] + Cardinality(H) <= MaxAttempts - 1 + (Cardinality(Workers) - 1)
        /\ chats[r] + Cardinality(G) <= Cardinality(Workers)
    BY <2>1 DEF Costs, RetriesLeftOver, ChatsLeftOver
  <2>4. attempts[r] \in Nat /\ chats[r] \in Nat /\ MaxAttempts \in Nat
    BY OutboxAssumption DEF IInv, TypeOK
  <2> QED BY <2>2, <2>3, <2>4
<1> QED BY <1>1, InitCosts, NextCosts, IInvAlways, PTL DEF Spec

\* The outbox state stays within its types.
THEOREM TypeCorrect == Spec => []TypeOK
  BY IInvAlways, PTL DEF IInv

\* Any number of workers may run the poller: no two are ever at the same row.
THEOREM ClaimsExclusive == Spec => []ExclusiveClaim
  BY IInvAlways, PTL DEF IInv

\* A row closed as delivered was accepted by every steady endpoint.
THEOREM DeliveredMeansReached == Spec => []DeliveredReachedAll
  BY IInvAlways, PTL DEF IInv

\* A recorded delivery is never repeated.
THEOREM RecordedDeliveryNotRepeated == Spec => NoRedelivery
<1>1. IInv /\ [Next]_vars => [\A r \in Rows, e \in Endpoints :
          delivery[r][e] = "ok" => accepted'[r][e] = accepted[r][e]]_vars
  <2> SUFFICES ASSUME IInv, [Next]_vars, ~UNCHANGED accepted,
                      NEW r \in Rows, NEW e \in Endpoints, delivery[r][e] = "ok"
               PROVE  accepted'[r][e] = accepted[r][e]
    BY DEF vars
  <2>1. PICK w \in Workers, ok \in BOOLEAN : Post(w, ok)
    BY DEF Next, ProcessorStep, Enqueue, BecomesDue, SwitchEndpoint, Poll, Claim,
           SkipClaimed, EndOfBatch, SkipDelivered, StartDelivery, RecordDelivery,
           Finish, Throw, vars, db
  <2>2. ~(r = cur[w].row /\ e = target[w])
    BY <2>1 DEF Post, IInv, PostIsNew
  <2> QED BY <2>1, <2>2 DEF Post, IInv, TypeOK
<1> QED BY <1>1, IInvAlways, PTL DEF Spec, NoRedelivery

\* A closed row stays closed.
THEOREM ClosedRowsStayClosed == Spec => ClosedIsFinal
<1>1. IInv /\ [Next]_vars => [\A r \in Rows :
          status[r] \in {"delivered", "failed"} => status'[r] = status[r]]_vars
  <2> SUFFICES ASSUME IInv, [Next]_vars, ~UNCHANGED status,
                      NEW r \in Rows, status[r] \in {"delivered", "failed"}
               PROVE  status'[r] = status[r]
    BY DEF vars, db
  <2>1. \/ \E q \in Rows : Enqueue(q)
        \/ \E w \in Workers : Claim(w) \/ Finish(w)
    BY DEF Next, ProcessorStep, BecomesDue, SwitchEndpoint, Poll,
           SkipClaimed, EndOfBatch, SkipDelivered, StartDelivery, Post, RecordDelivery,
           Throw, vars, db
  <2>2. ASSUME NEW q \in Rows, Enqueue(q)
        PROVE  status'[r] = status[r]
    BY <2>2 DEF Enqueue, IInv, TypeOK
  <2>3. ASSUME NEW w \in Workers, Claim(w)
        PROVE  status'[r] = status[r]
    BY <2>3 DEF Claim, Claimable, IInv, TypeOK
  <2>4. ASSUME NEW w \in Workers, Finish(w)
        PROVE  status'[r] = status[r]
    BY <2>4 DEF Finish, IInv, TypeOK, ClaimHeld, Working
  <2> QED BY <2>1, <2>2, <2>3, <2>4
<1> QED BY <1>1, IInvAlways, PTL DEF Spec, ClosedIsFinal
=============================================================================
