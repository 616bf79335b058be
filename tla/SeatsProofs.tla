---------------------------- MODULE SeatsProofs ----------------------------
(***************************************************************************)
(* The seats of a company, its invites and what Stripe bills, for any      *)
(* number of people, invites, handlers and seats.                          *)
(*                                                                         *)
(* Handlers check first and write later. The transaction of an acceptance  *)
(* counts again (Reserved), an invite that was used leaves its person a    *)
(* member for whoever comes second (Uses), and a change of seats that is   *)
(* alone at it leaves Stripe and the row apart only while it is under way  *)
(* (Billing).                                                              *)
(***************************************************************************)
EXTENDS Seats, FiniteSetTheorems, TLAPS

Note == [lowered : BOOLEAN, overbooked : BOOLEAN, rejoining : SUBSET Invites,
         overlap : BOOLEAN, last : Nat, late : BOOLEAN]

Types == TypeOK /\ note \in Note

\* Members and pending invites together have seats, unless it is noted otherwise.
Reserved == note.overbooked \/ Cardinality(members) + Cardinality(Pending) <= seats

\* What holds of an invite while it is created or accepted.
Creating(h) ==
    Doing(h, "invite") =>
        /\ invite[req[h].invite].state = "none"
        /\ \A g \in Handlers : Doing(g, "invite") /\ req[g].invite = req[h].invite => g = h

Accepting(h) ==
    Doing(h, "accept") =>
        /\ invite[req[h].invite].state # "none"
        /\ invite[req[h].invite].who = req[h].who
        /\ invite[req[h].invite].uses # 0 =>
              req[h].who \in members \/ req[h].invite \in note.rejoining

Uses ==
    /\ \A i \in Invites : invite[i].uses # 0 => invite[i].state \in {"accepted", "revoked"}
    /\ \A h \in Handlers : Creating(h) /\ Accepting(h)
    /\ InviteUsedOnce

\* Between a change of seats or plan and Stripe.
Told(h) ==
    /\ req[h].pc = "stripe" => stripe.quantity = seats
    /\ req[h].pc = "save" => stripe.quantity = req[h].quantity
    /\ Doing(h, "plan") => req[h].quantity = seats

Billing ==
    /\ stripe.state = "none" => ~subscribed /\ events = {}
    /\ ~subscribed => status # "active" /\ stripe.quantity = seats /\ Changing = {}
    /\ note.overlap \/
          /\ Changing = {} => stripe.quantity = seats
          /\ \A h \in Changing : Told(h) /\ \A g \in Changing : g = h

\* Between Stripe's events and the status. Every number sent is in the post or not after
\* the last one handled; the first event is the completed checkout, and until it is
\* handled the row is not linked; the latest event carries the state there is at Stripe.
Announced(e) ==
    /\ e.number <= stripe.sent /\ (e.number = stripe.sent => e.state = stripe.state)
    /\ e.kind = "completed" <=> e.number = 1
    /\ e.kind = "completed" => e.state = "active"
    /\ e.kind = "updated" => e.state \in {"active", "past_due"}
    /\ e.kind = "deleted" => e.state = "canceled" /\ stripe.state = "canceled"

Retrieved ==
    hook # NoHook =>
        /\ stripe.sent > 0 /\ hook \in {"active", "past_due", "canceled"}
        /\ stripe.sent = 1 => hook = stripe.state
        /\ hook = "canceled" => stripe.state = "canceled"

Following ==
    /\ stripe.sent = 0 <=> stripe.state \in {"none", "checkout"}
    /\ \A e \in events : Announced(e)
    /\ \A k \in 1..stripe.sent : k <= note.last \/ \E e \in events : e.number = k
    /\ stripe.sent > 0 => subscribed \/ \E e \in events : e.number = 1
    /\ subscribed => status # "incomplete"
    /\ status = "canceled" => stripe.state = "canceled"
    /\ Retrieved
    /\ StatusFollowsStripe

IInv == Types /\ SeatsNotOversold /\ Reserved /\ Uses /\ Billing /\ Following

-----------------------------------------------------------------------------
(***************************************************************************)
(* Types.                                                                  *)
(***************************************************************************)

\* What the parts of a request are.
LEMMA RequestParts ==
    ASSUME Types, NEW h \in Handlers
    PROVE  /\ req[h] \in Request
           /\ req[h].op \in {"invite", "accept"} =>
                 req[h] \in [op : {"invite", "accept"}, invite : Invites, who : People, account : BOOLEAN]
           /\ req[h].op = "provision" => req[h] \in [op : {"provision"}, who : People]
           /\ req[h].op \in {"seats", "plan"} =>
                 req[h] \in [op : {"seats", "plan"}, pc : {"stripe", "save"}, quantity : 1..MaxSeats]
<1>1. req[h] \in Request
  BY DEF Types, TypeOK
<1> QED BY <1>1 DEF Request, Idle

\* One request changes.
LEMMA StepTyped ==
    ASSUME Types, NEW h \in Handlers, NEW r \in Request, Step(h, r)
    PROVE  /\ req' \in [Handlers -> Request] /\ req'[h] = r
           /\ \A g \in Handlers : g # h => req'[g] = req[g]
  BY DEF Types, TypeOK, Step

LEMMA IdleRequest == Idle \in Request /\ Idle.op = "none"
  BY DEF Request, Idle

LEMMA NumbersOfTypes ==
    Types => /\ seats \in Nat /\ MaxSeats \in Nat /\ seats \in 1..MaxSeats
             /\ requests \in 0..MaxRequests /\ fails \in 0..MaxFails
  BY SeatsAssumption DEF Types, TypeOK

LEMMA InitTypes == Init => Types
<1> SUFFICES ASSUME Init PROVE Types
  OBVIOUS
<1>1. req \in [Handlers -> Request]
  BY IdleRequest DEF Init
<1>2. invite \in [Invites -> Invite]
  BY SeatsAssumption DEF Init, Invite
<1>3. stripe \in [state : StripeState, quantity : 1..MaxSeats, sent : 0..MaxEvents, tagged : BOOLEAN]
  BY SeatsAssumption DEF Init, StripeState
<1>4. note \in Note /\ note.rejoining \subseteq Invites
  BY DEF Init, Note
<1>5. members \subseteq accounts /\ accounts \subseteq People
  BY SeatsAssumption DEF Init
<1>6. seats \in 1..MaxSeats /\ requests \in 0..MaxRequests /\ fails \in 0..MaxFails
  BY SeatsAssumption DEF Init
<1>7. /\ status \in SubscriptionStatus /\ subscribed \in BOOLEAN
      /\ events \subseteq Event /\ hook \in StripeState
  BY DEF Init, SubscriptionStatus, NoHook, StripeState
<1> QED BY <1>1, <1>2, <1>3, <1>4, <1>5, <1>6, <1>7 DEF Types, TypeOK

\* The parts of the state that a step leaves typed.
Others == /\ req' \in [Handlers -> Request]
          /\ requests' \in 0..MaxRequests /\ fails' \in 0..MaxFails

LEMMA StartTyped ==
    ASSUME Types, NEW h \in Handlers, NEW r \in Request, Start(h, r), fails' = fails
    PROVE  Others
<1>1. req' \in [Handlers -> Request]
  BY StepTyped DEF Start
<1> QED BY <1>1, NumbersOfTypes, SeatsAssumption DEF Start, Others

LEMMA DoneTyped ==
    ASSUME Types, NEW h \in Handlers, Done(h), fails' \in 0..MaxFails
    PROVE  Others
<1>1. req' \in [Handlers -> Request]
  BY StepTyped, IdleRequest DEF Done
<1> QED BY <1>1, NumbersOfTypes DEF Done, Others

\* A handler takes up a request.
LEMMA StartTypes ==
    ASSUME Types, NEW h \in Handlers,
           \/ \E i \in Invites, p \in People : CheckInvite(h, i, p)
           \/ \E i \in Invites : CheckAccept(h, i)
           \/ \E p \in People : CheckProvision(h, p)
           \/ \E n \in 1..MaxSeats : CheckSeats(h, n)
           \/ CheckPlan(h)
    PROVE  Types'
<1>1. UNCHANGED <<subscription, people, stripe, events, hook, fails>>
  BY DEF CheckInvite, CheckAccept, CheckProvision, CheckSeats, CheckPlan
<1>2. note' \in Note /\ note'.rejoining = note.rejoining
  <2>1. note' = note \/ \E b \in BOOLEAN : note' = [note EXCEPT !.overlap = b]
    BY DEF CheckInvite, CheckAccept, CheckProvision, CheckSeats, CheckPlan, Types, Note
  <2> QED BY <2>1 DEF Types, Note
<1>3. PICK r \in Request : Start(h, r)
  <2>1. ASSUME NEW i \in Invites, NEW p \in People, CheckInvite(h, i, p)
        PROVE  \E r \in Request : Start(h, r)
    BY <2>1 DEF CheckInvite, Request
  <2>2. ASSUME NEW i \in Invites, CheckAccept(h, i)
        PROVE  \E r \in Request : Start(h, r)
    <3>1. invite[i].who \in People
      BY DEF Types, TypeOK, Invite
    <3>2. [op |-> "accept", invite |-> i, who |-> invite[i].who,
           account |-> invite[i].who \in accounts] \in Request
      BY <3>1 DEF Request
    <3> QED BY <2>2, <3>2 DEF CheckAccept
  <2>3. ASSUME NEW p \in People, CheckProvision(h, p)
        PROVE  \E r \in Request : Start(h, r)
    BY <2>3 DEF CheckProvision, Request
  <2>4. ASSUME NEW n \in 1..MaxSeats, NEW op \in {"seats", "plan"},
               Start(h, [op |-> op, pc |-> IF subscribed THEN "stripe" ELSE "save", quantity |-> n])
        PROVE  \E r \in Request : Start(h, r)
    BY <2>4 DEF Request
  <2> QED BY <2>1, <2>2, <2>3, <2>4, NumbersOfTypes DEF CheckSeats, CheckPlan
<1>4. Others
  BY <1>1, <1>3, StartTyped
<1> QED BY <1>1, <1>2, <1>4 DEF Types, TypeOK, subscription, people, Others

\* A handler writes, is refused or dies.
LEMMA WriteTypes == ASSUME Types, NEW h \in Handlers, Write(h) \/ Fail(h) PROVE Types'
<1>1. CASE CreateInvite(h)
  <2>1. invite' \in [Invites -> Invite]
    <3>1. req[h].invite \in Invites /\ req[h].who \in People
      BY <1>1, RequestParts DEF CreateInvite, Doing
    <3>2. [state |-> "pending", who |-> req[h].who, uses |-> 0] \in Invite
      BY <3>1 DEF Invite
    <3> QED BY <1>1, <3>2 DEF CreateInvite, Types, TypeOK
  <2>2. note' \in Note /\ note'.rejoining = note.rejoining
    <3>1. (note.overbooked \/ ~SeatAvailable({})) \in BOOLEAN
      BY DEF SeatAvailable
    <3> QED BY <1>1, <3>1 DEF CreateInvite, Types, Note
  <2>3. Others
    BY <1>1, DoneTyped, NumbersOfTypes DEF CreateInvite
  <2> QED BY <1>1, <2>1, <2>2, <2>3 DEF CreateInvite, Types, TypeOK, subscription, Others
<1>2. CASE FinalizeAcceptance(h)
  <2>1. req[h].invite \in Invites /\ req[h].who \in People
    BY <1>2, RequestParts DEF FinalizeAcceptance, Doing
  <2>2. invite' \in [Invites -> Invite]
    BY <1>2, <2>1 DEF FinalizeAcceptance, Types, TypeOK, Invite
  <2>3. Others
    BY <1>2, DoneTyped, NumbersOfTypes DEF FinalizeAcceptance
  <2>4. members' \subseteq accounts' /\ accounts' \subseteq People
    BY <1>2, <2>1 DEF FinalizeAcceptance, Types, TypeOK, Join
  <2> QED BY <1>2, <2>2, <2>3, <2>4 DEF FinalizeAcceptance, Types, TypeOK, subscription, Others
<1>3. CASE AcceptRefused(h)
  <2>1. Others
    BY <1>3, DoneTyped, NumbersOfTypes DEF AcceptRefused
  <2> QED BY <1>3, <2>1 DEF AcceptRefused, Types, TypeOK, subscription, people, Others
<1>4. CASE Provision(h)
  <2>1. req[h].who \in People
    BY <1>4, RequestParts DEF Provision, Doing
  <2>2. Others
    BY <1>4, DoneTyped, NumbersOfTypes DEF Provision
  <2>3. members' \subseteq accounts' /\ accounts' \subseteq People
    BY <1>4, <2>1 DEF Provision, Types, TypeOK, Join
  <2> QED BY <1>4, <2>2, <2>3 DEF Provision, Types, TypeOK, subscription, Others
<1>5. CASE UpdateStripe(h)
  <2>1. req[h] \in [op : {"seats", "plan"}, pc : {"stripe", "save"}, quantity : 1..MaxSeats]
    BY <1>5, RequestParts DEF UpdateStripe, Changing, Busy
  <2>2. stripe' \in [state : StripeState, quantity : 1..MaxSeats, sent : 0..MaxEvents, tagged : BOOLEAN]
    BY <1>5, <2>1 DEF UpdateStripe, StripeQuantity, Types, TypeOK
  <2>3. Others
    <3>1. CASE Done(h)
      BY <1>5, <3>1, DoneTyped, NumbersOfTypes DEF UpdateStripe
    <3>2. CASE Step(h, [req[h] EXCEPT !.pc = "save"]) /\ UNCHANGED requests
      <4>1. [req[h] EXCEPT !.pc = "save"] \in Request
        BY <2>1 DEF Request
      <4> QED BY <1>5, <3>2, <4>1, StepTyped, NumbersOfTypes DEF UpdateStripe, Others
    <3> QED BY <1>5, <3>1, <3>2 DEF UpdateStripe
  <2> QED BY <1>5, <2>2, <2>3 DEF UpdateStripe, Types, TypeOK, subscription, people, Others
<1>6. CASE SaveSubscription(h)
  <2>1. req[h].quantity \in 1..MaxSeats
    BY <1>6, RequestParts DEF SaveSubscription, Changing, Busy
  <2>2. seats' \in 1..MaxSeats
    BY <1>6, <2>1, NumbersOfTypes DEF SaveSubscription
  <2>3. note' \in Note /\ note'.rejoining = note.rejoining
    <3>1. \/ note' = note
          \/ \E b, c \in BOOLEAN : note' = [note EXCEPT !.lowered = b, !.overbooked = c]
      <4>1. PICK b, c : /\ b = (seats' < Cardinality(members))
                        /\ c = (seats' < Cardinality(members) + Cardinality(Pending))
        OBVIOUS
      <4>2. b \in BOOLEAN /\ c \in BOOLEAN
        BY <4>1
      <4>3. note' = note \/ note' = [note EXCEPT !.lowered = b, !.overbooked = c]
        BY <1>6, <4>1, Zenon DEF SaveSubscription
      <4> QED BY <4>2, <4>3
    <3> QED BY <3>1 DEF Types, Note
  <2>4. Others
    BY <1>6, DoneTyped, NumbersOfTypes DEF SaveSubscription
  <2> QED BY <1>6, <2>2, <2>3, <2>4 DEF SaveSubscription, Types, TypeOK, people, Others
<1>7. CASE Fail(h)
  <2>1. note' \in Note /\ note'.rejoining = note.rejoining
    <3>1. (note.overlap \/ (h \in Changing /\ req[h].pc = "save")) \in BOOLEAN
      OBVIOUS
    <3> QED BY <1>7, <3>1 DEF Fail, Types, Note
  <2>2. fails' \in 0..MaxFails
    BY <1>7, NumbersOfTypes, SeatsAssumption DEF Fail
  <2>3. Others
    BY <1>7, <2>2, DoneTyped DEF Fail
  <2> QED BY <1>7, <2>1, <2>3 DEF Fail, Types, TypeOK, subscription, people, Others
<1> QED BY <1>1, <1>2, <1>3, <1>4, <1>5, <1>6, <1>7 DEF Write

\* People revoke, leave and let expire.
LEMMA PeopleTypes ==
    ASSUME Types, \/ \E i \in Invites : Revoke(i) \/ Expires(i)
                  \/ \E p \in People : RemoveMember(p)
    PROVE  Types'
<1>1. ASSUME NEW i \in Invites, Revoke(i) \/ Expires(i)
      PROVE  Types'
  <2>1. invite' \in [Invites -> Invite]
    BY <1>1 DEF Revoke, Expires, Types, TypeOK, Invite
  <2> QED BY <1>1, <2>1 DEF Revoke, Expires, Types, TypeOK, subscription
<1>2. ASSUME NEW p \in People, RemoveMember(p)
      PROVE  Types'
  <2>1. note' \in Note /\ note'.rejoining \subseteq Invites
    <3>1. \A g \in Busy("accept") : req[g].invite \in Invites
      BY RequestParts DEF Busy
    <3> QED BY <1>2, <3>1 DEF RemoveMember, Types, Note
  <2>2. members' \subseteq accounts' /\ accounts' \subseteq People
    BY <1>2 DEF RemoveMember, Types, TypeOK
  <2> QED BY <1>2, <2>1, <2>2 DEF RemoveMember, Types, TypeOK, subscription
<1> QED BY <1>1, <1>2

StripeSide ==
    \/ CreateCheckoutSession \/ Paid \/ Overdue \/ Recovered \/ Ended
    \/ HandleEvent \/ HookFails

\* Stripe and its events.
LEMMA StripeTypes == ASSUME Types, StripeSide PROVE Types'
<1>1. CASE CreateCheckoutSession
  <2>1. stripe' \in [state : StripeState, quantity : 1..MaxSeats, sent : 0..MaxEvents, tagged : BOOLEAN]
    BY <1>1 DEF CreateCheckoutSession, Types, TypeOK, StripeState
  <2> QED BY <1>1, <2>1 DEF CreateCheckoutSession, Types, TypeOK, subscription, people
<1>2. ASSUME NEW kind \in Kinds, NEW state \in StripeState, Emit(kind, state)
      PROVE  Types'
  <2>1. PICK n : n = stripe.sent + 1
    OBVIOUS
  <2>2. n \in 0..MaxEvents /\ n \in 1..MaxEvents
    BY <1>2, <2>1, SeatsAssumption DEF Emit, Types, TypeOK
  <2>3. stripe' \in [state : StripeState, quantity : 1..MaxSeats, sent : 0..MaxEvents, tagged : BOOLEAN]
    BY <1>2, <2>1, <2>2 DEF Emit, Types, TypeOK
  <2>4. events' \subseteq Event
    BY <1>2, <2>1, <2>2 DEF Emit, Types, TypeOK, Event
  <2> QED BY <1>2, <2>3, <2>4 DEF Emit, Types, TypeOK, subscription, people
<1>3. CASE Paid \/ Overdue \/ Recovered \/ Ended
  BY <1>2, <1>3 DEF Paid, Overdue, Recovered, Ended, Kinds, StripeState
<1>4. ASSUME NEW e \in events, RetrieveSubscription(e)
      PROVE  Types'
  <2>1. hook' \in StripeState
    BY <1>4 DEF RetrieveSubscription, Types, TypeOK
  <2> QED BY <1>4, <2>1 DEF RetrieveSubscription, Types, TypeOK, subscription, people
<1>5. ASSUME NEW e \in events,
             CheckoutCompleted(e) \/ SubscriptionUpdated(e) \/ SubscriptionDeleted(e)
      PROVE  Types'
  <2>1. Handled(e) /\ UNCHANGED <<seats, people, stripe, req, requests, fails>>
    BY <1>5 DEF CheckoutCompleted, SubscriptionUpdated, SubscriptionDeleted
  <2>2. hook' \in StripeState
    BY <1>5 DEF CheckoutCompleted, SubscriptionUpdated, SubscriptionDeleted, Types, TypeOK,
                NoHook, StripeState
  <2>3. status' \in SubscriptionStatus /\ subscribed' \in BOOLEAN
    BY <1>5 DEF CheckoutCompleted, SubscriptionUpdated, SubscriptionDeleted, Types, TypeOK,
                SyncFromStripe, StatusOf, SubscriptionStatus
  <2>4. events' \subseteq Event
    BY <2>1 DEF Handled, Types, TypeOK
  <2>5. note' \in Note /\ note'.rejoining = note.rejoining
    <3>1. e.number \in Nat
      BY SeatsAssumption DEF Types, TypeOK, Event
    <3> QED BY <2>1, <3>1 DEF Handled, Seen, Types, Note
  <2> QED BY <2>1, <2>2, <2>3, <2>4, <2>5 DEF Types, TypeOK, people
<1>6. CASE HookFails
  <2>1. hook' \in StripeState /\ fails' \in 0..MaxFails
    BY <1>6, NumbersOfTypes, SeatsAssumption DEF HookFails, NoHook, StripeState
  <2> QED BY <1>6, <2>1 DEF HookFails, Types, TypeOK, subscription, people
<1> QED BY <1>1, <1>3, <1>4, <1>5, <1>6 DEF StripeSide, HandleEvent

-----------------------------------------------------------------------------
(***************************************************************************)
(* Seats and reservations.                                                 *)
(***************************************************************************)

LEMMA Counts ==
    Types => /\ IsFiniteSet(members) /\ Cardinality(members) \in Nat
             /\ IsFiniteSet(Pending) /\ Cardinality(Pending) \in Nat
             /\ \A S : IsFiniteSet(Pending \ S) /\ Cardinality(Pending \ S) \in Nat
<1> SUFFICES ASSUME Types PROVE /\ IsFiniteSet(members) /\ Cardinality(members) \in Nat
                                /\ IsFiniteSet(Pending) /\ Cardinality(Pending) \in Nat
                                /\ \A S : /\ IsFiniteSet(Pending \ S)
                                          /\ Cardinality(Pending \ S) \in Nat
  OBVIOUS
<1>1. members \in SUBSET People /\ Pending \in SUBSET Invites
  BY DEF Types, TypeOK, Pending
<1>2. IsFiniteSet(members) /\ IsFiniteSet(Pending)
  BY <1>1, SeatsAssumption, FS_Subset
<1>3. ASSUME NEW S PROVE IsFiniteSet(Pending \ S)
  <2>1. Pending \ S \in SUBSET Pending
    OBVIOUS
  <2> QED BY <1>2, <2>1, FS_Subset
<1> QED BY <1>2, <1>3, FS_CardinalityType

\* Nobody joins, no invite comes up, the seats and the notes stay.
LEMMA SeatsSame ==
    ASSUME Types, SeatsNotOversold, Reserved, members' \subseteq members, UNCHANGED seats,
           Pending' \subseteq Pending,
           note'.lowered = note.lowered, note'.overbooked = note.overbooked
    PROVE  SeatsNotOversold' /\ Reserved'
<1>1. IsFiniteSet(members) /\ IsFiniteSet(Pending) /\ seats \in Nat
  BY Counts, NumbersOfTypes
<1>2. PICK m \in SUBSET members : m = members'
  OBVIOUS
<1>3. PICK q \in SUBSET Pending : q = Pending'
  OBVIOUS
<1>4. /\ Cardinality(m) <= Cardinality(members) /\ Cardinality(m) \in Nat
      /\ Cardinality(q) <= Cardinality(Pending) /\ Cardinality(q) \in Nat
  BY <1>1, FS_Subset, FS_CardinalityType
<1>5. Cardinality(members) \in Nat /\ Cardinality(Pending) \in Nat
  BY Counts
<1>6. Cardinality(members') <= Cardinality(members)
  BY <1>2, <1>4
<1>7. Cardinality(members') + Cardinality(Pending') <= Cardinality(members) + Cardinality(Pending)
  BY <1>2, <1>3, <1>4, <1>5
<1>8. SeatsNotOversold'
  BY <1>1, <1>2, <1>4, <1>5, <1>6 DEF SeatsNotOversold
<1>9. Reserved'
  BY <1>1, <1>2, <1>3, <1>4, <1>5, <1>7 DEF Reserved
<1> QED BY <1>8, <1>9

\* Someone joins with a seat to spare beside the reservations of others.
LEMMA Joining ==
    ASSUME Types, SeatsNotOversold, Reserved, NEW p, NEW S, members' = members \union {p},
           UNCHANGED <<seats, note>>, SeatAvailable(S), Pending' = Pending \ S
    PROVE  SeatsNotOversold' /\ Reserved'
<1>1. /\ Cardinality(members) \in Nat /\ Cardinality(Pending \ S) \in Nat /\ seats \in Nat
      /\ IsFiniteSet(members)
  BY Counts, NumbersOfTypes
<1>2. Cardinality(members) + Cardinality(Pending \ S) < seats
  BY DEF SeatAvailable
<1>3. /\ Cardinality(members \union {p}) \in Nat
      /\ Cardinality(members \union {p}) <= Cardinality(members) + 1
  BY <1>1, FS_AddElement
<1>4. Cardinality(members') <= seats
  BY <1>1, <1>2, <1>3
<1>5. Cardinality(members') + Cardinality(Pending') <= seats
  BY <1>1, <1>2, <1>3
<1> QED BY <1>4, <1>5 DEF SeatsNotOversold, Reserved

SeatsKept == SeatsNotOversold' /\ Reserved'

LEMMA StartSeats ==
    ASSUME IInv, NEW h \in Handlers,
           \/ \E i \in Invites, p \in People : CheckInvite(h, i, p)
           \/ \E i \in Invites : CheckAccept(h, i)
           \/ \E p \in People : CheckProvision(h, p)
           \/ \E n \in 1..MaxSeats : CheckSeats(h, n)
           \/ CheckPlan(h)
           \/ Fail(h) \/ AcceptRefused(h) \/ UpdateStripe(h)
    PROVE  SeatsKept
<1>1. UNCHANGED <<members, seats, invite>>
  BY DEF CheckInvite, CheckAccept, CheckProvision, CheckSeats, CheckPlan, Fail, AcceptRefused,
         UpdateStripe, people, subscription
<1>2. Pending' = Pending
  BY <1>1 DEF Pending
<1>3. note'.lowered = note.lowered /\ note'.overbooked = note.overbooked
  BY DEF CheckInvite, CheckAccept, CheckProvision, CheckSeats, CheckPlan, Fail, AcceptRefused,
         UpdateStripe, IInv, Types, Note
<1> QED BY <1>1, <1>2, <1>3, SeatsSame DEF IInv, SeatsKept

LEMMA StripeSeats == ASSUME IInv, StripeSide PROVE SeatsKept
<1>1. UNCHANGED <<members, seats, invite>>
  BY DEF StripeSide, CreateCheckoutSession, Paid, Overdue, Recovered, Ended, Emit, HandleEvent,
         RetrieveSubscription, CheckoutCompleted, SubscriptionUpdated, SubscriptionDeleted,
         HookFails, people, subscription
<1>2. Pending' = Pending
  BY <1>1 DEF Pending
<1>3. note'.lowered = note.lowered /\ note'.overbooked = note.overbooked
  <2>1. note' = note \/ \E e \in events : Seen(e)
    BY DEF StripeSide, CreateCheckoutSession, Paid, Overdue, Recovered, Ended, Emit, HandleEvent,
           RetrieveSubscription, CheckoutCompleted, SubscriptionUpdated, SubscriptionDeleted,
           HookFails, Handled
  <2> QED BY <2>1 DEF Seen, IInv, Types, Note
<1> QED BY <1>1, <1>2, <1>3, SeatsSame DEF IInv, SeatsKept

LEMMA PeopleSeats ==
    ASSUME IInv, \/ \E i \in Invites : Revoke(i) \/ Expires(i)
                 \/ \E p \in People : RemoveMember(p)
    PROVE  SeatsKept
<1>1. members' \subseteq members /\ UNCHANGED seats
  BY DEF Revoke, Expires, RemoveMember, subscription
<1>2. Pending' \subseteq Pending
  BY DEF Revoke, Expires, RemoveMember, Pending, IInv, Types, TypeOK, Invite
<1>3. note'.lowered = note.lowered /\ note'.overbooked = note.overbooked
  BY DEF Revoke, Expires, RemoveMember, IInv, Types, Note
<1> QED BY <1>1, <1>2, <1>3, SeatsSame DEF IInv, SeatsKept

LEMMA WriteSeats == ASSUME IInv, NEW h \in Handlers, Write(h) PROVE SeatsKept
<1>1. CASE CreateInvite(h)
  <2>1. PICK i \in Invites : i = req[h].invite
    BY <1>1, RequestParts DEF CreateInvite, Doing, IInv
  <2>2. Pending' = Pending \union {i}
    BY <1>1, <2>1 DEF CreateInvite, Pending, IInv, Types, TypeOK
  <2>3. UNCHANGED <<members, seats>> /\ note'.lowered = note.lowered
    BY <1>1 DEF CreateInvite, subscription, IInv, Types, Note
  <2>4. SeatsNotOversold'
    BY <2>3 DEF SeatsNotOversold, IInv
  <2>5. Reserved'
    <3>1. CASE note.overbooked \/ ~SeatAvailable({})
      <4>1. note'.overbooked
        BY <1>1, <3>1 DEF CreateInvite, IInv, Types, Note
      <4> QED BY <4>1 DEF Reserved
    <3>2. CASE SeatAvailable({})
      <4>1. Pending \ {} = Pending
        OBVIOUS
      <4>2. Cardinality(members) + Cardinality(Pending) < seats
        BY <3>2, <4>1 DEF SeatAvailable
      <4>3. /\ Cardinality(members) \in Nat /\ Cardinality(Pending) \in Nat /\ seats \in Nat
            /\ IsFiniteSet(Pending)
        BY Counts, NumbersOfTypes DEF IInv
      <4>4. /\ Cardinality(Pending \union {i}) \in Nat
            /\ Cardinality(Pending \union {i}) <= Cardinality(Pending) + 1
        <5>1. PICK S : S = Pending
          OBVIOUS
        <5>2. /\ IsFiniteSet(S \union {i})
              /\ Cardinality(S \union {i}) = IF i \in S THEN Cardinality(S) ELSE Cardinality(S) + 1
          BY <4>3, <5>1, FS_AddElement
        <5> QED BY <4>3, <5>1, <5>2
      <4>5. Cardinality(members) + Cardinality(Pending \union {i}) <= seats
        BY <4>2, <4>3, <4>4
      <4> QED BY <2>2, <2>3, <4>5 DEF Reserved
    <3> QED BY <3>1, <3>2
  <2> QED BY <2>4, <2>5 DEF SeatsKept
<1>2. CASE FinalizeAcceptance(h)
  <2>1. PICK i \in Invites : i = req[h].invite
    BY <1>2, RequestParts DEF FinalizeAcceptance, Doing, IInv
  <2>2. Pending' = Pending \ {i}
    BY <1>2, <2>1 DEF FinalizeAcceptance, Pending, IInv, Types, TypeOK, Invite
  <2>3. SeatAvailable({i}) /\ UNCHANGED <<seats, note>> /\ members' = members \union {req[h].who}
    BY <1>2, <2>1 DEF FinalizeAcceptance, MayJoin, Join, subscription
  <2> QED BY <2>2, <2>3, Joining DEF IInv, SeatsKept
<1>3. CASE Provision(h)
  <2>1. Pending' = Pending \ {} /\ UNCHANGED <<seats, note>>
    BY <1>3 DEF Provision, Pending, subscription
  <2>2. CASE SeatAvailable({}) /\ members' = members \union {req[h].who}
    BY <2>1, <2>2, Joining DEF IInv, SeatsKept
  <2>3. CASE members' = members
    BY <2>1, <2>3, SeatsSame DEF IInv, SeatsKept
  <2> QED BY <1>3, <2>2, <2>3 DEF Provision, Join
<1>4. CASE SaveSubscription(h)
  <2>1. Pending' = Pending /\ members' = members
    BY <1>4 DEF SaveSubscription, Pending, people
  <2>2. CASE Doing(h, "plan")
    BY <1>4, <2>1, <2>2, SeatsSame DEF SaveSubscription, Doing, IInv, SeatsKept
  <2>3. CASE ~Doing(h, "plan")
    <3>1. PICK n : n = seats'
      OBVIOUS
    <3>2. /\ note'.lowered = (n < Cardinality(members))
          /\ note'.overbooked = (n < Cardinality(members) + Cardinality(Pending))
      BY <1>4, <2>3, <3>1 DEF SaveSubscription, IInv, Types, Note
    <3>3. n \in Nat
      <4>1. req[h].quantity \in 1..MaxSeats
        BY <1>4, RequestParts DEF SaveSubscription, Changing, Busy, IInv
      <4> QED BY <1>4, <3>1, <4>1, NumbersOfTypes DEF SaveSubscription, IInv
    <3>4. Cardinality(members) \in Nat /\ Cardinality(Pending) \in Nat
      BY Counts DEF IInv
    <3>5. note'.lowered \/ Cardinality(members) <= n
      <4>1. n < Cardinality(members) \/ Cardinality(members) <= n
        BY <3>3, <3>4
      <4> QED BY <3>2, <4>1, Zenon
    <3>6. note'.overbooked \/ Cardinality(members) + Cardinality(Pending) <= n
      <4>1. \/ n < Cardinality(members) + Cardinality(Pending)
            \/ Cardinality(members) + Cardinality(Pending) <= n
        BY <3>3, <3>4
      <4> QED BY <3>2, <4>1, Zenon
    <3> QED BY <2>1, <3>1, <3>5, <3>6 DEF SeatsKept, SeatsNotOversold, Reserved
  <2> QED BY <2>2, <2>3
<1> QED BY <1>1, <1>2, <1>3, <1>4, StartSeats DEF Write

-----------------------------------------------------------------------------
(***************************************************************************)
(* Uses of an invite.                                                      *)
(***************************************************************************)

\* No invite changes, nobody leaves, and handlers at most become idle.
LEMMA UsesSame ==
    ASSUME IInv, UNCHANGED invite, members \subseteq members', note'.rejoining = note.rejoining,
           \A h \in Handlers : req'[h] = req[h] \/ req'[h].op \notin {"invite", "accept"}
    PROVE  Uses'
<1>1. ASSUME NEW h \in Handlers PROVE Creating(h)' /\ Accepting(h)'
  <2>1. Creating(h) /\ Accepting(h)
    BY DEF IInv, Uses
  <2>2. CASE req'[h].op \notin {"invite", "accept"}
    BY <2>2 DEF Creating, Accepting, Doing
  <2>3. CASE req'[h] = req[h]
    <3>1. ASSUME NEW g \in Handlers, Doing(g, "invite")'
          PROVE  Doing(g, "invite") /\ req'[g] = req[g]
      BY <3>1 DEF Doing
    <3>2. Creating(h)'
      BY <2>1, <2>3, <3>1 DEF Creating, Doing
    <3>3. Accepting(h)'
      BY <2>1, <2>3 DEF Accepting, Doing
    <3> QED BY <3>2, <3>3
  <2> QED BY <2>2, <2>3
<1>2. InviteUsedOnce'
  BY DEF IInv, Uses, InviteUsedOnce
<1> QED BY <1>1, <1>2 DEF IInv, Uses

LEMMA StripeUses == ASSUME IInv, StripeSide PROVE Uses'
<1>1. UNCHANGED <<members, invite, req>>
  BY DEF StripeSide, CreateCheckoutSession, Paid, Overdue, Recovered, Ended, Emit, HandleEvent,
         RetrieveSubscription, CheckoutCompleted, SubscriptionUpdated, SubscriptionDeleted,
         HookFails, people, subscription
<1>2. note'.rejoining = note.rejoining
  <2>1. note' = note \/ \E e \in events : Seen(e)
    BY DEF StripeSide, CreateCheckoutSession, Paid, Overdue, Recovered, Ended, Emit, HandleEvent,
           RetrieveSubscription, CheckoutCompleted, SubscriptionUpdated, SubscriptionDeleted,
           HookFails, Handled
  <2> QED BY <2>1 DEF Seen, IInv, Types, Note
<1> QED BY <1>1, <1>2, UsesSame

\* Steps of one handler that have nothing to do with an invite.
LEMMA HandlerUses ==
    ASSUME IInv, NEW h \in Handlers,
           \/ \E p \in People : CheckProvision(h, p)
           \/ \E n \in 1..MaxSeats : CheckSeats(h, n)
           \/ CheckPlan(h) \/ Fail(h) \/ AcceptRefused(h) \/ Provision(h)
           \/ UpdateStripe(h) \/ SaveSubscription(h)
    PROVE  Uses'
<1>1. UNCHANGED invite /\ members \subseteq members'
  BY DEF CheckProvision, CheckSeats, CheckPlan, Fail, AcceptRefused, Provision, UpdateStripe,
         SaveSubscription, people, Join
<1>2. note'.rejoining = note.rejoining
  BY DEF CheckProvision, CheckSeats, CheckPlan, Fail, AcceptRefused, Provision, UpdateStripe,
         SaveSubscription, IInv, Types, Note
<1>3. PICK r : Step(h, r) /\ r.op \notin {"invite", "accept"}
  <2>1. CASE Done(h)
    BY <2>1, IdleRequest DEF Done
  <2>2. CASE UpdateStripe(h) /\ ~Done(h)
    <3>1. req[h] \in [op : {"seats", "plan"}, pc : {"stripe", "save"}, quantity : 1..MaxSeats]
      BY <2>2, RequestParts DEF UpdateStripe, Changing, Busy, IInv
    <3>2. [req[h] EXCEPT !.pc = "save"].op \in {"seats", "plan"}
      BY <3>1
    <3> QED BY <2>2, <3>2 DEF UpdateStripe
  <2>3. CASE \/ \E p \in People : CheckProvision(h, p)
             \/ \E n \in 1..MaxSeats : CheckSeats(h, n)
             \/ CheckPlan(h)
    <3>1. ASSUME NEW p \in People, CheckProvision(h, p)
          PROVE  \E r : Step(h, r) /\ r.op \notin {"invite", "accept"}
      BY <3>1 DEF CheckProvision, Start
    <3>2. ASSUME NEW op \in {"seats", "plan"}, NEW n, NEW pc,
                 Start(h, [op |-> op, pc |-> pc, quantity |-> n])
          PROVE  \E r : Step(h, r) /\ r.op \notin {"invite", "accept"}
      BY <3>2 DEF Start
    <3> QED BY <2>3, <3>1, <3>2 DEF CheckSeats, CheckPlan
  <2> QED BY <2>1, <2>2, <2>3 DEF Fail, AcceptRefused, Provision, SaveSubscription
<1>4. \A g \in Handlers : req'[g] = req[g] \/ req'[g].op \notin {"invite", "accept"}
  BY <1>3 DEF Step, IInv, Types, TypeOK
<1> QED BY <1>1, <1>2, <1>4, UsesSame

LEMMA StartUses ==
    ASSUME IInv, NEW h \in Handlers,
           \/ \E i \in Invites, p \in People : CheckInvite(h, i, p)
           \/ \E i \in Invites : CheckAccept(h, i)
    PROVE  Uses'
<1>1. UNCHANGED <<members, invite, note>>
  BY DEF CheckInvite, CheckAccept, people
<1>2. InviteUsedOnce' /\ \A i \in Invites : invite'[i].uses # 0 => invite'[i].state \in {"accepted", "revoked"}
  BY <1>1 DEF IInv, Uses, InviteUsedOnce
<1>3. \A g \in Handlers : Creating(g) /\ Accepting(g)
  BY DEF IInv, Uses
<1>4. ASSUME NEW i \in Invites, NEW p \in People, CheckInvite(h, i, p)
      PROVE  Uses'
  <2>1. /\ req'[h].op = "invite" /\ req'[h].invite = i
        /\ \A g \in Handlers : g # h => req'[g] = req[g]
    BY <1>4 DEF CheckInvite, Start, Step, IInv, Types, TypeOK
  <2>2. invite[i].state = "none" /\ \A g \in Handlers : Doing(g, "invite") => req[g].invite # i
    BY <1>4 DEF CheckInvite
  <2>3. ASSUME NEW g \in Handlers PROVE Creating(g)' /\ Accepting(g)'
    <3>1. CASE g = h
      BY <1>1, <2>1, <2>2, <3>1 DEF Creating, Accepting, Doing
    <3>2. CASE g # h
      BY <1>1, <1>3, <2>1, <2>2, <3>2 DEF Creating, Accepting, Doing
    <3> QED BY <3>1, <3>2
  <2> QED BY <1>2, <2>3 DEF Uses
<1>5. ASSUME NEW i \in Invites, CheckAccept(h, i)
      PROVE  Uses'
  <2>1. /\ req'[h].op = "accept" /\ req'[h].invite = i /\ req'[h].who = invite[i].who
        /\ \A g \in Handlers : g # h => req'[g] = req[g]
    BY <1>5 DEF CheckAccept, Start, Step, IInv, Types, TypeOK
  <2>2. invite[i].state = "pending" /\ invite[i].uses = 0
    BY <1>5 DEF CheckAccept, Pending, IInv, Uses
  <2>3. ASSUME NEW g \in Handlers PROVE Creating(g)' /\ Accepting(g)'
    <3>1. CASE g = h
      BY <1>1, <2>1, <2>2, <3>1 DEF Creating, Accepting, Doing
    <3>2. CASE g # h
      BY <1>1, <1>3, <2>1, <2>2, <3>2 DEF Creating, Accepting, Doing
    <3> QED BY <3>1, <3>2
  <2> QED BY <1>2, <2>3 DEF Uses
<1> QED BY <1>4, <1>5

LEMMA CreateInviteUses == ASSUME IInv, NEW h \in Handlers, CreateInvite(h) PROVE Uses'
<1>1. PICK i \in Invites : i = req[h].invite
  BY RequestParts DEF CreateInvite, Doing, IInv
<1>2. /\ req'[h].op = "none" /\ \A g \in Handlers : g # h => req'[g] = req[g]
  BY IdleRequest DEF CreateInvite, Done, Step, IInv, Types, TypeOK
<1>3. /\ invite'[i].uses = 0 /\ \A j \in Invites : j # i => invite'[j] = invite[j]
      /\ UNCHANGED members /\ note'.rejoining = note.rejoining
  BY <1>1 DEF CreateInvite, IInv, Types, TypeOK, Note
<1>4. \A g \in Handlers : Creating(g) /\ Accepting(g)
  BY DEF IInv, Uses
<1>5. Doing(h, "invite") /\ invite[i].state = "none"
  BY <1>1, <1>4 DEF CreateInvite, Creating
<1>6. ASSUME NEW g \in Handlers PROVE Creating(g)' /\ Accepting(g)'
  <2>1. CASE g = h
    BY <1>2, <2>1 DEF Creating, Accepting, Doing
  <2>2. CASE g # h
    <3>1. req'[g] = req[g] /\ (req[g].op \in {"invite", "accept"} => req[g].invite \in Invites)
      BY <1>2, <2>2, RequestParts DEF IInv
    <3>2. Doing(g, "invite") \/ Doing(g, "accept") => req[g].invite # i
      BY <1>1, <1>4, <1>5, <2>2 DEF Creating, Accepting
    <3>3. Creating(g)'
      BY <1>2, <1>3, <1>4, <2>2, <3>1, <3>2 DEF Creating, Doing
    <3>4. Accepting(g)'
      BY <1>2, <1>3, <1>4, <2>2, <3>1, <3>2 DEF Accepting, Doing
    <3> QED BY <3>3, <3>4
  <2> QED BY <2>1, <2>2
<1>7. InviteUsedOnce'
  <2> SUFFICES ASSUME NEW j \in Invites, invite'[j].uses > 1 PROVE j \in note'.rejoining
    BY DEF InviteUsedOnce
  <2>1. CASE j = i
    BY <1>3, <2>1
  <2>2. CASE j # i
    BY <1>3, <2>2 DEF IInv, Uses, InviteUsedOnce
  <2> QED BY <2>1, <2>2
<1>8. \A j \in Invites : invite'[j].uses # 0 => invite'[j].state \in {"accepted", "revoked"}
  BY <1>3 DEF IInv, Uses
<1> QED BY <1>6, <1>7, <1>8 DEF Uses

LEMMA FinalizeUses == ASSUME IInv, NEW h \in Handlers, FinalizeAcceptance(h) PROVE Uses'
<1>1. PICK i \in Invites : i = req[h].invite
  BY RequestParts DEF FinalizeAcceptance, Doing, IInv
<1>2. /\ req'[h].op = "none" /\ \A g \in Handlers : g # h => req'[g] = req[g]
  BY IdleRequest DEF FinalizeAcceptance, Done, Step, IInv, Types, TypeOK
<1>3. /\ invite \in [Invites -> Invite]
      /\ invite' = [invite EXCEPT ![i].state = "accepted", ![i].uses = @ + 1]
  BY <1>1 DEF FinalizeAcceptance, IInv, Types, TypeOK
<1>4. /\ invite'[i].state = "accepted" /\ invite'[i].who = invite[i].who
      /\ invite'[i].uses = invite[i].uses + 1 /\ invite[i].uses \in Nat
      /\ \A j \in Invites : j # i => invite'[j] = invite[j]
  BY <1>3 DEF Invite
<1>5. members' = members \union {req[h].who} /\ UNCHANGED note /\ req[h].who \notin members
  BY DEF FinalizeAcceptance, Join, MayJoin
<1>6. \A g \in Handlers : Creating(g) /\ Accepting(g)
  BY DEF IInv, Uses
<1>7. /\ invite[i].who = req[h].who /\ invite[i].state # "none"
      /\ invite[i].uses # 0 => i \in note.rejoining
  BY <1>1, <1>5, <1>6 DEF Accepting, FinalizeAcceptance
<1>8. ASSUME NEW g \in Handlers PROVE Creating(g)' /\ Accepting(g)'
  <2>1. CASE g = h
    BY <1>2, <2>1 DEF Creating, Accepting, Doing
  <2>2. CASE g # h
    <3>1. req'[g] = req[g] /\ (req[g].op \in {"invite", "accept"} => req[g].invite \in Invites)
      BY <1>2, <2>2, RequestParts DEF IInv
    <3>2. Creating(g)'
      BY <1>2, <1>4, <1>6, <1>7, <2>2, <3>1 DEF Creating, Doing
    <3>3. ASSUME Doing(g, "accept") PROVE Accepting(g)'
      <4>1. CASE req[g].invite = i
        <5>1. req[g].who = req[h].who
          BY <1>6, <1>7, <3>3, <4>1 DEF Accepting
        <5> QED BY <1>4, <1>5, <1>7, <3>1, <4>1, <5>1 DEF Accepting
      <4>2. CASE req[g].invite # i
        <5>1. invite'[req[g].invite] = invite[req[g].invite]
          BY <1>4, <3>1, <3>3, <4>2 DEF Doing
        <5> QED BY <1>5, <1>6, <3>1, <3>3, <5>1 DEF Accepting
      <4> QED BY <4>1, <4>2
    <3>4. Accepting(g)'
      BY <3>1, <3>3 DEF Accepting, Doing
    <3> QED BY <3>2, <3>4
  <2> QED BY <2>1, <2>2
<1>9. InviteUsedOnce'
  <2> SUFFICES ASSUME NEW j \in Invites, invite'[j].uses > 1 PROVE j \in note'.rejoining
    BY DEF InviteUsedOnce
  <2>1. CASE j = i
    BY <1>4, <1>5, <1>7, <2>1
  <2>2. CASE j # i
    BY <1>4, <1>5, <2>2 DEF IInv, Uses, InviteUsedOnce
  <2> QED BY <2>1, <2>2
<1>10. \A j \in Invites : invite'[j].uses # 0 => invite'[j].state \in {"accepted", "revoked"}
  BY <1>4 DEF IInv, Uses
<1> QED BY <1>8, <1>9, <1>10 DEF Uses

\* Who is removed while accepting an invite is noted.
LEMMA PeopleUses ==
    ASSUME IInv, \/ \E i \in Invites : Revoke(i) \/ Expires(i)
                 \/ \E p \in People : RemoveMember(p)
    PROVE  Uses'
<1>1. \A g \in Handlers : Creating(g) /\ Accepting(g)
  BY DEF IInv, Uses
<1>2. ASSUME NEW i \in Invites, Revoke(i) \/ Expires(i)
      PROVE  Uses'
  <2>1. /\ UNCHANGED <<members, req, note>> /\ invite \in [Invites -> Invite]
        /\ \E s \in {"revoked", "expired"} :
              /\ invite' = [invite EXCEPT ![i].state = s]
              /\ s = "expired" => invite[i].state = "pending"
        /\ invite[i].state # "none"
    BY <1>2 DEF Revoke, Expires, IInv, Types, TypeOK
  <2>2. /\ \A j \in Invites : invite'[j].who = invite[j].who /\ invite'[j].uses = invite[j].uses
        /\ \A j \in Invites : j # i => invite'[j] = invite[j]
        /\ invite'[i].state \in {"revoked", "expired"}
        /\ invite'[i].state = "expired" => invite[i].state = "pending"
    BY <2>1 DEF Invite
  <2>3. \A j \in Invites : invite'[j].uses # 0 => invite'[j].state \in {"accepted", "revoked"}
    BY <2>2 DEF IInv, Uses
  <2>4. ASSUME NEW g \in Handlers PROVE Creating(g)' /\ Accepting(g)'
    <3>1. req[g].op \in {"invite", "accept"} => req[g].invite \in Invites
      BY RequestParts DEF IInv
    <3>2. Creating(g)'
      BY <1>1, <2>1, <2>2, <3>1 DEF Creating, Doing
    <3>3. Accepting(g)'
      BY <1>1, <2>1, <2>2, <3>1 DEF Accepting, Doing
    <3> QED BY <3>2, <3>3
  <2>5. InviteUsedOnce'
    BY <2>1, <2>2 DEF IInv, Uses, InviteUsedOnce
  <2> QED BY <2>3, <2>4, <2>5 DEF Uses
<1>3. ASSUME NEW p \in People, RemoveMember(p)
      PROVE  Uses'
  <2>1. /\ UNCHANGED <<invite, req>> /\ members' = members \ {p}
        /\ note.rejoining \subseteq note'.rejoining
        /\ \A g \in Busy("accept") : req[g].who = p => req[g].invite \in note'.rejoining
    BY <1>3 DEF RemoveMember, IInv, Types, Note
  <2>2. ASSUME NEW g \in Handlers PROVE Creating(g)' /\ Accepting(g)'
    <3>1. Creating(g)'
      BY <1>1, <2>1 DEF Creating, Doing
    <3>2. Accepting(g)'
      BY <1>1, <2>1 DEF Accepting, Doing, Busy
    <3> QED BY <3>1, <3>2
  <2>3. InviteUsedOnce'
    BY <2>1 DEF IInv, Uses, InviteUsedOnce
  <2> QED BY <2>1, <2>2, <2>3 DEF IInv, Uses
<1> QED BY <1>2, <1>3

-----------------------------------------------------------------------------
(***************************************************************************)
(* What Stripe bills.                                                      *)
(***************************************************************************)

\* Nothing of the subscription changes, and nobody comes or goes who changes it.
LEMMA BillingSame ==
    ASSUME IInv, UNCHANGED <<subscription, stripe, events>>, note'.overlap = note.overlap,
           \A h \in Handlers : \/ req'[h] = req[h]
                               \/ req[h].op \notin {"seats", "plan"} /\ req'[h].op \notin {"seats", "plan"}
    PROVE  Billing'
<1>1. Changing' = Changing
  BY DEF Changing, Busy
<1>2. \A h \in Changing : req'[h] = req[h]
  BY DEF Changing, Busy
<1> QED BY <1>1, <1>2 DEF IInv, Billing, Told, Doing, subscription

LEMMA PeopleBilling ==
    ASSUME IInv, \/ \E i \in Invites : Revoke(i) \/ Expires(i)
                 \/ \E p \in People : RemoveMember(p)
    PROVE  Billing'
<1>1. UNCHANGED <<subscription, stripe, events, req>>
  BY DEF Revoke, Expires, RemoveMember
<1>2. note'.overlap = note.overlap
  BY DEF Revoke, Expires, RemoveMember, IInv, Types, Note
<1> QED BY <1>1, <1>2, BillingSame

LEMMA HandlerBilling ==
    ASSUME IInv, NEW h \in Handlers,
           \/ \E i \in Invites, p \in People : CheckInvite(h, i, p)
           \/ \E i \in Invites : CheckAccept(h, i)
           \/ \E p \in People : CheckProvision(h, p)
           \/ CreateInvite(h) \/ FinalizeAcceptance(h) \/ AcceptRefused(h) \/ Provision(h)
    PROVE  Billing'
<1>1. UNCHANGED <<subscription, stripe, events>>
  BY DEF CheckInvite, CheckAccept, CheckProvision, CreateInvite, FinalizeAcceptance,
         AcceptRefused, Provision
<1>2. note'.overlap = note.overlap
  BY DEF CheckInvite, CheckAccept, CheckProvision, CreateInvite, FinalizeAcceptance,
         AcceptRefused, Provision, IInv, Types, Note
<1>3. req[h].op \notin {"seats", "plan"}
  BY DEF CheckInvite, CheckAccept, CheckProvision, CreateInvite, FinalizeAcceptance,
         AcceptRefused, Provision, Idling, Doing
<1>4. PICK r : Step(h, r) /\ r.op \notin {"seats", "plan"}
  <2>1. CASE Done(h)
    BY <2>1, IdleRequest DEF Done
  <2>2. ASSUME NEW i \in Invites, NEW p \in People, CheckInvite(h, i, p)
        PROVE  \E r : Step(h, r) /\ r.op \notin {"seats", "plan"}
    BY <2>2 DEF CheckInvite, Start
  <2>3. ASSUME NEW i \in Invites, CheckAccept(h, i)
        PROVE  \E r : Step(h, r) /\ r.op \notin {"seats", "plan"}
    BY <2>3 DEF CheckAccept, Start
  <2>4. ASSUME NEW p \in People, CheckProvision(h, p)
        PROVE  \E r : Step(h, r) /\ r.op \notin {"seats", "plan"}
    BY <2>4 DEF CheckProvision, Start
  <2> QED BY <2>1, <2>2, <2>3, <2>4 DEF CreateInvite, FinalizeAcceptance, AcceptRefused, Provision
<1>5. \A g \in Handlers : \/ req'[g] = req[g]
                          \/ req[g].op \notin {"seats", "plan"} /\ req'[g].op \notin {"seats", "plan"}
  BY <1>3, <1>4 DEF Step, IInv, Types, TypeOK
<1> QED BY <1>1, <1>2, <1>5, BillingSame

\* Before Stripe is told, the subscription is read: it is active, so Stripe knows it.
LEMMA ChangeBilling ==
    ASSUME IInv, NEW h \in Handlers, \/ \E n \in 1..MaxSeats : CheckSeats(h, n)
                                     \/ CheckPlan(h)
    PROVE  Billing'
<1>1. /\ UNCHANGED <<seats, status, subscribed, stripe, events>>
      /\ status = "active" /\ req[h].op = "none"
  BY DEF CheckSeats, CheckPlan, subscription, Unlocked, Idling
<1>2. subscribed
  BY <1>1 DEF IInv, Billing
<1>3. note'.overlap = (note.overlap \/ Changing # {})
  BY DEF CheckSeats, CheckPlan, IInv, Types, Note
<1>4. PICK r : /\ Step(h, r) /\ r.op \in {"seats", "plan"} /\ r.pc = "stripe"
               /\ r.op = "plan" => r.quantity = seats
  <2>1. PICK op \in {"seats", "plan"}, n \in 1..MaxSeats :
          /\ Start(h, [op |-> op, pc |-> IF subscribed THEN "stripe" ELSE "save", quantity |-> n])
          /\ op = "plan" => n = seats
    BY NumbersOfTypes DEF CheckSeats, CheckPlan, IInv
  <2>2. PICK r : r = [op |-> op, pc |-> "stripe", quantity |-> n]
    OBVIOUS
  <2>3. Step(h, r)
    BY <1>2, <2>1, <2>2 DEF Start
  <2> QED BY <2>1, <2>2, <2>3
<1>5. req'[h] = r /\ \A g \in Handlers : g # h => req'[g] = req[g]
  BY <1>4 DEF Step, IInv, Types, TypeOK
<1>6. CASE Changing # {}
  <2>1. note'.overlap
    BY <1>3, <1>6
  <2> QED BY <1>1, <1>2, <2>1 DEF IInv, Billing
<1>7. CASE Changing = {} /\ ~note.overlap
  <2>1. Changing' = {h}
    BY <1>4, <1>5, <1>7 DEF Changing, Busy
  <2>2. stripe.quantity = seats
    BY <1>7 DEF IInv, Billing
  <2>3. Told(h)'
    BY <1>1, <1>4, <1>5, <2>2 DEF Told, Doing
  <2> QED BY <1>1, <1>2, <2>1, <2>3 DEF IInv, Billing
<1>8. CASE note.overlap
  <2>1. note'.overlap
    BY <1>3, <1>8
  <2> QED BY <1>1, <1>2, <2>1 DEF IInv, Billing
<1> QED BY <1>6, <1>7, <1>8

\* A handler that changes the subscription is through: what Stripe has is the row's.
LEMMA LeavesBilling ==
    ASSUME IInv, NEW h \in Changing, Done(h), UNCHANGED <<status, subscribed, events>>,
           subscribed, stripe'.state = stripe.state,
           note.overlap => note'.overlap, note'.overlap \/ stripe'.quantity = seats'
    PROVE  Billing'
<1>1. h \in Handlers
  BY DEF Changing, Busy
<1>2. req'[h].op = "none" /\ \A g \in Handlers : g # h => req'[g] = req[g]
  BY <1>1, IdleRequest DEF Done, Step, IInv, Types, TypeOK
<1>3. Changing' = Changing \ {h}
  BY <1>2 DEF Changing, Busy
<1>4. note'.overlap \/ Changing' = {}
  BY <1>3 DEF IInv, Billing
<1> QED BY <1>4 DEF IInv, Billing

LEMMA WriteBilling ==
    ASSUME IInv, NEW h \in Changing, UpdateStripe(h) \/ SaveSubscription(h) \/ Fail(h)
    PROVE  Billing'
<1>1. h \in Handlers /\ subscribed
  BY DEF IInv, Billing, Changing, Busy
<1>2. req[h] \in [op : {"seats", "plan"}, pc : {"stripe", "save"}, quantity : 1..MaxSeats]
  BY <1>1, RequestParts DEF Changing, Busy, IInv
<1>3. note.overlap \/ (Told(h) /\ Changing = {h})
  BY DEF IInv, Billing
<1>4. CASE UpdateStripe(h) /\ stripe.state = "canceled"
  <2>1. Done(h) /\ UNCHANGED <<subscription, stripe, events, note>> /\ req[h].pc = "stripe"
    BY <1>4 DEF UpdateStripe
  <2>2. note.overlap \/ stripe.quantity = seats
    BY <1>3, <2>1 DEF Told
  <2> QED BY <1>1, <2>1, <2>2, LeavesBilling DEF subscription
<1>5. CASE UpdateStripe(h) /\ stripe.state # "canceled"
  <2>1. PICK r : r = [req[h] EXCEPT !.pc = "save"]
    OBVIOUS
  <2>2. r.op = req[h].op /\ r.pc = "save" /\ r.quantity = req[h].quantity
    BY <1>2, <2>1
  <2>3. /\ UNCHANGED <<seats, status, subscribed, events, note>>
        /\ stripe' = [stripe EXCEPT !.quantity = req[h].quantity] /\ Step(h, r)
    BY <1>5, <2>1 DEF UpdateStripe, StripeQuantity, subscription
  <2>4. req'[h] = r /\ \A g \in Handlers : g # h => req'[g] = req[g]
    BY <1>1, <2>3 DEF Step, IInv, Types, TypeOK
  <2>5. Changing' = Changing
    BY <2>2, <2>4 DEF Changing, Busy
  <2>6. stripe'.quantity = req[h].quantity /\ stripe'.state = stripe.state
    BY <2>3 DEF IInv, Types, TypeOK
  <2>7. note.overlap \/ (Told(h)' /\ Changing = {h})
    BY <1>3, <2>2, <2>3, <2>4, <2>6 DEF Told, Doing
  <2> QED BY <1>1, <2>3, <2>5, <2>6, <2>7 DEF IInv, Billing
<1>6. CASE SaveSubscription(h)
  <2>1. /\ Done(h) /\ UNCHANGED <<status, subscribed, events, stripe>> /\ req[h].pc = "save"
        /\ seats' = IF Doing(h, "seats") THEN req[h].quantity ELSE seats
    BY <1>6 DEF SaveSubscription
  <2>2. note'.overlap = note.overlap
    BY <1>6 DEF SaveSubscription, IInv, Types, Note
  <2>3. note.overlap \/ stripe.quantity = seats'
    BY <1>2, <1>3, <2>1 DEF Told, Doing
  <2> QED BY <1>1, <2>1, <2>2, <2>3, LeavesBilling
<1>7. CASE Fail(h)
  <2>1. Done(h) /\ UNCHANGED <<subscription, stripe, events>>
    BY <1>7 DEF Fail
  <2>2. (note.overlap => note'.overlap) /\ (req[h].pc = "save" => note'.overlap)
    BY <1>7 DEF Fail, IInv, Types, Note
  <2>3. note'.overlap \/ stripe.quantity = seats
    BY <1>2, <1>3, <2>2 DEF Told
  <2> QED BY <1>1, <2>1, <2>2, <2>3, LeavesBilling DEF subscription
<1> QED BY <1>4, <1>5, <1>6, <1>7

\* One that dies otherwise.
LEMMA FailBilling == ASSUME IInv, NEW h \in Handlers, h \notin Changing, Fail(h) PROVE Billing'
<1>1. UNCHANGED <<subscription, stripe, events>> /\ Done(h)
  BY DEF Fail
<1>2. note'.overlap = note.overlap
  BY DEF Fail, IInv, Types, Note
<1>3. \A g \in Handlers : \/ req'[g] = req[g]
                          \/ req[g].op \notin {"seats", "plan"} /\ req'[g].op \notin {"seats", "plan"}
  BY <1>1, IdleRequest DEF Done, Step, Changing, Busy, IInv, Types, TypeOK
<1> QED BY <1>1, <1>2, <1>3, BillingSame

LEMMA StripeBilling == ASSUME IInv, StripeSide PROVE Billing'
<1>1. UNCHANGED <<req, seats>> /\ Changing' = Changing
  BY DEF StripeSide, CreateCheckoutSession, Paid, Overdue, Recovered, Ended, Emit, HandleEvent,
         RetrieveSubscription, CheckoutCompleted, SubscriptionUpdated, SubscriptionDeleted,
         HookFails, subscription, Changing, Busy
<1>2. note'.overlap = note.overlap
  <2>1. note' = note \/ \E e \in events : Seen(e)
    BY DEF StripeSide, CreateCheckoutSession, Paid, Overdue, Recovered, Ended, Emit, HandleEvent,
           RetrieveSubscription, CheckoutCompleted, SubscriptionUpdated, SubscriptionDeleted,
           HookFails, Handled
  <2> QED BY <2>1 DEF Seen, IInv, Types, Note
<1>3. ASSUME stripe'.quantity = stripe.quantity,
             stripe'.state = "none" => ~subscribed' /\ events' = {},
             subscribed => subscribed', ~subscribed' => status' = status
      PROVE  Billing'
  <2>1. \A h \in Changing : Told(h) => Told(h)'
    BY <1>1, <1>3 DEF Told, Doing
  <2> QED BY <1>1, <1>2, <1>3, <2>1 DEF IInv, Billing
<1>4. CASE CreateCheckoutSession
  <2>1. /\ stripe'.quantity = seats /\ stripe'.state = "checkout" /\ UNCHANGED <<status, subscribed>>
        /\ stripe.state = "none"
    BY <1>4 DEF CreateCheckoutSession, subscription, IInv, Types, TypeOK
  <2>2. stripe.quantity = seats
    BY <2>1 DEF IInv, Billing
  <2> QED BY <1>3, <2>1, <2>2
<1>5. CASE Paid \/ Overdue \/ Recovered \/ Ended
  <2>1. /\ stripe'.quantity = stripe.quantity /\ stripe'.state # "none"
        /\ UNCHANGED <<status, subscribed>>
    BY <1>5 DEF Paid, Overdue, Recovered, Ended, Emit, subscription, IInv, Types, TypeOK
  <2> QED BY <1>3, <2>1
<1>6. CASE HookFails \/ \E e \in events : RetrieveSubscription(e)
  <2>1. UNCHANGED <<stripe, events, status, subscribed>>
    BY <1>6 DEF HookFails, RetrieveSubscription, subscription
  <2> QED BY <1>3, <2>1 DEF IInv, Billing
<1>7. ASSUME NEW e \in events,
             CheckoutCompleted(e) \/ SubscriptionUpdated(e) \/ SubscriptionDeleted(e)
      PROVE  Billing'
  <2>1. UNCHANGED stripe /\ stripe.state # "none"
    BY <1>7 DEF CheckoutCompleted, SubscriptionUpdated, SubscriptionDeleted, IInv, Billing
  <2>2. (subscribed => subscribed') /\ (~subscribed' => status' = status)
    BY <1>7 DEF CheckoutCompleted, SubscriptionUpdated, SubscriptionDeleted, SyncFromStripe
  <2> QED BY <1>3, <2>1, <2>2
<1> QED BY <1>4, <1>5, <1>6, <1>7 DEF StripeSide, HandleEvent

-----------------------------------------------------------------------------
(***************************************************************************)
(* The status follows Stripe's events.                                     *)
(***************************************************************************)

\* What Following is about is left alone.
LEMMA FollowingSame ==
    ASSUME Following, UNCHANGED <<status, subscribed, events, hook>>,
           stripe'.sent = stripe.sent, stripe'.state = stripe.state, stripe'.tagged = stripe.tagged,
           note'.last = note.last, note'.late = note.late
    PROVE  Following'
  BY DEF Following, Announced, Retrieved, StatusFollowsStripe

LEMMA StripeNumbers ==
    ASSUME Types
    PROVE  /\ stripe.sent \in Nat /\ stripe.state \in StripeState /\ note.last \in Nat
           /\ \A e \in events : e.number \in Nat /\ e.number >= 1 /\ e.kind \in Kinds
  BY SeatsAssumption DEF Types, TypeOK, Note, Event

\* Requests of people and of handlers touch the quantity at Stripe at most.
LEMMA HandlerFollowing ==
    ASSUME IInv,
           \/ \E h \in Handlers :
                \/ \E i \in Invites, p \in People : CheckInvite(h, i, p)
                \/ \E i \in Invites : CheckAccept(h, i)
                \/ \E p \in People : CheckProvision(h, p)
                \/ \E n \in 1..MaxSeats : CheckSeats(h, n)
                \/ CheckPlan(h) \/ Write(h) \/ Fail(h)
           \/ \E i \in Invites : Revoke(i) \/ Expires(i)
           \/ \E p \in People : RemoveMember(p)
    PROVE  Following'
<1>1. UNCHANGED <<status, subscribed, events, hook>>
  BY DEF CheckInvite, CheckAccept, CheckProvision, CheckSeats, CheckPlan, Write, Fail, CreateInvite,
         FinalizeAcceptance, AcceptRefused, Provision, UpdateStripe, SaveSubscription, Revoke,
         Expires, RemoveMember, subscription
<1>2. stripe' = stripe \/ \E h \in Handlers : stripe' = [stripe EXCEPT !.quantity = StripeQuantity(h)]
  BY DEF CheckInvite, CheckAccept, CheckProvision, CheckSeats, CheckPlan, Write, Fail, CreateInvite,
         FinalizeAcceptance, AcceptRefused, Provision, UpdateStripe, SaveSubscription, Revoke,
         Expires, RemoveMember
<1>3. stripe'.sent = stripe.sent /\ stripe'.state = stripe.state /\ stripe'.tagged = stripe.tagged
  BY <1>2 DEF IInv, Types, TypeOK
<1>4. note'.last = note.last /\ note'.late = note.late
  BY DEF CheckInvite, CheckAccept, CheckProvision, CheckSeats, CheckPlan, Write, Fail, CreateInvite,
         FinalizeAcceptance, AcceptRefused, Provision, UpdateStripe, SaveSubscription, Revoke,
         Expires, RemoveMember, IInv, Types, Note
<1> QED BY <1>1, <1>3, <1>4, FollowingSame DEF IInv

\* Stripe announces a change under the next number.
LEMMA EmitFollowing == ASSUME IInv, Paid \/ Overdue \/ Recovered \/ Ended PROVE Following'
<1> USE DEF IInv
<1>1. PICK kind \in Kinds, state \in {"active", "past_due", "canceled"} :
        /\ Emit(kind, state)
        /\ stripe.state \in {"checkout", "active", "past_due"}
        /\ kind = "completed" <=> stripe.state = "checkout"
        /\ kind = "completed" => state = "active"
        /\ kind = "updated" => state \in {"active", "past_due"}
        /\ kind = "deleted" <=> state = "canceled"
  <2>1. CASE Paid BY <2>1 DEF Paid, Kinds
  <2>2. CASE Overdue BY <2>2 DEF Overdue, Kinds
  <2>3. CASE Recovered BY <2>3 DEF Recovered, Kinds
  <2>4. CASE Ended BY <2>4 DEF Ended, Kinds
  <2> QED BY <2>1, <2>2, <2>3, <2>4
<1>2. /\ stripe.sent \in Nat /\ note.last \in Nat
      /\ \A e \in events : e.number \in Nat /\ e.number >= 1 /\ e.kind \in Kinds
  BY StripeNumbers
<1>3. PICK n : n = stripe.sent + 1
  OBVIOUS
<1>4. PICK new : new = [kind |-> kind, state |-> state, number |-> n]
  OBVIOUS
<1>5. /\ stripe'.state = state /\ stripe'.sent = n /\ stripe'.tagged = stripe.tagged
      /\ events' = events \union {new}
      /\ UNCHANGED <<status, subscribed, hook, note>>
  BY <1>1, <1>3, <1>4 DEF Emit, Types, TypeOK, subscription
<1>6. new.kind = kind /\ new.state = state /\ new.number = n /\ n \in Nat /\ n >= 1
  BY <1>2, <1>3, <1>4
<1>7. stripe.sent = 0 <=> stripe.state = "checkout"
  BY <1>1 DEF Following
<1>8. Announced(new)'
  BY <1>1, <1>2, <1>3, <1>5, <1>6, <1>7 DEF Announced
<1>9. ASSUME NEW e \in events PROVE Announced(e)'
  <2>1. Announced(e)
    BY DEF Following
  <2>2. e.kind # "deleted"
    BY <1>1, <2>1 DEF Announced
  <2> QED BY <1>2, <1>3, <1>5, <2>1, <2>2 DEF Announced
<1>10. \A k \in 1..n : k <= note.last \/ \E e \in events' : e.number = k
  <2> TAKE k \in 1..n
  <2>1. CASE k = n BY <1>5, <1>6, <2>1
  <2>2. CASE k # n
    <3>1. k \in 1..stripe.sent BY <1>2, <1>3, <2>2
    <3> QED BY <1>5, <3>1 DEF Following
  <2> QED BY <2>1, <2>2
<1>11. subscribed \/ \E e \in events' : e.number = 1
  <2>1. CASE stripe.sent = 0 BY <1>3, <1>5, <1>6, <2>1
  <2>2. CASE stripe.sent # 0 BY <1>2, <1>5, <2>2 DEF Following
  <2> QED BY <2>1, <2>2
<1>12. status # "canceled"
  BY <1>1 DEF Following
<1>13. Retrieved'
  <2> SUFFICES ASSUME hook # NoHook PROVE Retrieved'
    BY <1>5 DEF Retrieved
  <2>1. stripe.sent > 0 /\ hook \in {"active", "past_due"}
    BY <1>1 DEF Following, Retrieved
  <2> QED BY <1>2, <1>3, <1>5, <2>1 DEF Retrieved
<1>14. new \in events' /\ events' # {}
  BY <1>5
<1>15. StatusFollowsStripe'
  BY <1>14 DEF StatusFollowsStripe
<1>16. (n = 0 <=> state \in {"none", "checkout"})
  BY <1>6
<1> QED BY <1>5, <1>8, <1>9, <1>10, <1>11, <1>12, <1>13, <1>15, <1>16 DEF Following

\* The handler of an event. When it is the last in the post and none came after a later
\* one, it is the latest that was sent.
LEMMA HandleFollowing ==
    ASSUME IInv, NEW e \in events,
           CheckoutCompleted(e) \/ SubscriptionUpdated(e) \/ SubscriptionDeleted(e)
    PROVE  Following'
<1> USE DEF IInv
<1>1. /\ stripe.sent \in Nat /\ note.last \in Nat /\ stripe.state \in StripeState
      /\ \A f \in events : f.number \in Nat /\ f.number >= 1 /\ f.kind \in Kinds
  BY StripeNumbers
<1>2. UNCHANGED stripe /\ events' = events \ {e} /\ Seen(e)
  BY DEF CheckoutCompleted, SubscriptionUpdated, SubscriptionDeleted, Handled
<1>3. /\ note'.last = IF e.number > note.last THEN e.number ELSE note.last
      /\ note'.late = (note.late \/ e.number < note.last)
  BY <1>2 DEF Seen, Types, Note
<1>4. note'.last >= note.last /\ note'.last >= e.number /\ note'.last \in Nat
  BY <1>1, <1>3
<1>5. Announced(e) /\ stripe.sent > 0 /\ stripe.state \notin {"none", "checkout"}
  BY <1>1 DEF Following, Announced
<1>6. e.kind \in {"completed", "updated", "deleted"}
  BY <1>1 DEF Kinds
<1>7. e.kind = "completed" => hook # NoHook /\ SyncFromStripe(hook) /\ hook' = NoHook
  BY DEF CheckoutCompleted, SubscriptionUpdated, SubscriptionDeleted
<1>8. e.kind = "updated" => /\ UNCHANGED hook
                            /\ \/ stripe.tagged /\ SyncFromStripe(e.state)
                               \/ ~stripe.tagged /\ UNCHANGED <<status, subscribed>>
  BY DEF CheckoutCompleted, SubscriptionUpdated, SubscriptionDeleted
<1>9. e.kind = "deleted" => /\ UNCHANGED <<hook, subscribed>>
                            /\ status' = IF subscribed THEN "canceled" ELSE status
  BY DEF CheckoutCompleted, SubscriptionUpdated, SubscriptionDeleted
<1>10. \A f \in events' : Announced(f)'
  BY <1>2 DEF Following, Announced
<1>11. \A k \in 1..stripe.sent : k <= note'.last \/ \E f \in events' : f.number = k
  <2> TAKE k \in 1..stripe.sent
  <2>1. CASE k <= note.last BY <1>1, <1>4, <2>1
  <2>2. ASSUME NEW f \in events, f.number = k
        PROVE  k <= note'.last \/ \E g \in events' : g.number = k
    BY <1>2, <1>4, <2>2
  <2> QED BY <2>1, <2>2 DEF Following
<1>12. subscribed' \/ \E f \in events' : f.number = 1
  <2>1. CASE e.kind = "completed" BY <1>7, <2>1 DEF SyncFromStripe
  <2>2. CASE e.kind # "completed"
    <3>1. e.number # 1 BY <1>5, <2>2 DEF Announced
    <3>2. subscribed => subscribed' BY <1>6, <1>8, <1>9, <2>2 DEF SyncFromStripe
    <3> QED BY <1>2, <1>5, <3>1, <3>2 DEF Following
  <2> QED BY <2>1, <2>2
<1>13. hook # NoHook => hook \in {"active", "past_due", "canceled"}
  BY DEF Following, Retrieved
<1>14. subscribed' => status' # "incomplete"
  BY <1>5, <1>6, <1>7, <1>8, <1>9, <1>13 DEF Following, SyncFromStripe, StatusOf
<1>15. status' = "canceled" => stripe.state = "canceled"
  <2>1. CASE e.kind = "completed"
    BY <1>7, <1>13, <2>1 DEF Following, Retrieved, SyncFromStripe, StatusOf
  <2>2. CASE e.kind = "updated"
    <3>1. e.state \in {"active", "past_due"} BY <1>5, <2>2 DEF Announced
    <3> QED BY <1>8, <2>2, <3>1 DEF Following, SyncFromStripe, StatusOf
  <2>3. CASE e.kind = "deleted" BY <1>5, <2>3 DEF Announced
  <2> QED BY <1>6, <2>1, <2>2, <2>3
<1>16. Retrieved'
  BY <1>2, <1>6, <1>7, <1>8, <1>9 DEF Following, Retrieved
<1>17. StatusFollowsStripe'
  <2> SUFFICES ASSUME events' = {}, ~note'.late
               PROVE  \/ status' = stripe.state
                      \/ /\ ~stripe.tagged /\ stripe.state \in {"active", "past_due"}
                         /\ status' \in {"active", "past_due"}
    BY <1>2 DEF StatusFollowsStripe
  <2>1. events = {e}
    BY <1>2
  <2>2. e.number = stripe.sent /\ e.state = stripe.state
    <3>1. ~(e.number < note.last)
      BY <1>3
    <3>2. stripe.sent \in 1..stripe.sent
      BY <1>1, <1>5
    <3>3. stripe.sent <= note.last \/ e.number = stripe.sent
      BY <2>1, <3>2 DEF Following
    <3> QED BY <1>1, <1>5, <3>1, <3>3 DEF Announced
  <2>3. CASE e.kind = "completed"
    <3>1. stripe.sent = 1 /\ e.state = "active" BY <1>5, <2>2, <2>3 DEF Announced
    <3>2. hook = "active" BY <1>7, <2>2, <2>3, <3>1 DEF Following, Retrieved
    <3> QED BY <1>7, <2>2, <2>3, <3>1, <3>2 DEF SyncFromStripe, StatusOf
  <2>4. CASE e.kind = "updated"
    <3>1. e.state \in {"active", "past_due"} /\ e.number # 1 BY <1>5, <2>4 DEF Announced
    <3>2. subscribed BY <1>5, <2>1, <3>1 DEF Following
    <3>3. status \in {"active", "past_due"}
      BY <2>2, <3>1, <3>2 DEF Following, Types, TypeOK, SubscriptionStatus
    <3> QED BY <1>8, <2>2, <2>4, <3>1, <3>3 DEF SyncFromStripe, StatusOf
  <2>5. CASE e.kind = "deleted"
    <3>1. e.state = "canceled" /\ e.number # 1 BY <1>5, <2>5 DEF Announced
    <3>2. subscribed BY <1>5, <2>1, <3>1 DEF Following
    <3> QED BY <1>9, <2>2, <2>5, <3>1, <3>2
  <2> QED BY <1>6, <2>3, <2>4, <2>5
<1>18. stripe.sent = 0 <=> stripe.state \in {"none", "checkout"}
  BY DEF Following
<1> QED BY <1>2, <1>10, <1>11, <1>12, <1>14, <1>15, <1>16, <1>17, <1>18 DEF Following

LEMMA StripeFollowing == ASSUME IInv, StripeSide PROVE Following'
<1> USE DEF IInv
<1>1. CASE CreateCheckoutSession
  <2>1. /\ stripe.state = "none" /\ stripe'.state = "checkout" /\ stripe'.sent = stripe.sent
        /\ UNCHANGED <<status, subscribed, events, hook, note>>
    BY <1>1 DEF CreateCheckoutSession, subscription, Types, TypeOK
  <2>2. stripe.sent = 0 /\ events = {} /\ status # "canceled"
    BY <2>1 DEF Following, Billing
  <2>3. hook = NoHook
    BY <2>2 DEF Following, Retrieved
  <2> QED BY <2>1, <2>2, <2>3 DEF Following, Retrieved, StatusFollowsStripe
<1>2. CASE Paid \/ Overdue \/ Recovered \/ Ended
  BY <1>2, EmitFollowing
<1>3. ASSUME NEW e \in events, RetrieveSubscription(e) PROVE Following'
  <2>1. UNCHANGED <<status, subscribed, events, stripe, note>> /\ hook' = stripe.state
    BY <1>3 DEF RetrieveSubscription, subscription
  <2>2. stripe.sent > 0
    BY StripeNumbers DEF Following, Announced
  <2>3. stripe.state \in {"active", "past_due", "canceled"}
    BY <2>2, StripeNumbers DEF Following, StripeState
  <2> QED BY <2>1, <2>2, <2>3 DEF Following, Announced, Retrieved, StatusFollowsStripe
<1>4. CASE HookFails
  <2>1. UNCHANGED <<status, subscribed, events, stripe, note>> /\ hook' = NoHook
    BY <1>4 DEF HookFails, subscription
  <2> QED BY <2>1 DEF Following, Announced, Retrieved, StatusFollowsStripe
<1>5. ASSUME NEW e \in events,
             CheckoutCompleted(e) \/ SubscriptionUpdated(e) \/ SubscriptionDeleted(e)
      PROVE  Following'
  BY <1>5, HandleFollowing
<1> QED BY <1>1, <1>2, <1>3, <1>4, <1>5 DEF StripeSide, HandleEvent

-----------------------------------------------------------------------------
(***************************************************************************)
(* The invariant.                                                          *)
(***************************************************************************)

LEMMA InitIInv == Init => IInv
<1> SUFFICES ASSUME Init PROVE IInv
  OBVIOUS
<1>1. Types
  BY InitTypes
<1>2. Pending = {}
  BY DEF Init, Pending
<1>3. Cardinality(members) = 1 /\ Cardinality(Pending) = 0
  BY <1>2, FS_Singleton, FS_EmptySet DEF Init
<1>4. SeatsNotOversold /\ Reserved
  BY <1>3 DEF Init, SeatsNotOversold, Reserved
<1>5. Uses
  BY DEF Init, Uses, Creating, Accepting, Doing, Idle, InviteUsedOnce
<1>6. Changing = {}
  BY DEF Init, Changing, Busy, Idle
<1>7. Billing
  BY <1>6 DEF Init, Billing
<1>8. Following
  BY DEF Init, Following, Retrieved, StatusFollowsStripe
<1> QED BY <1>1, <1>4, <1>5, <1>7, <1>8 DEF IInv

LEMMA NextIInv == IInv /\ [Next]_vars => IInv'
<1> SUFFICES ASSUME IInv, [Next]_vars PROVE IInv'
  OBVIOUS
<1> USE DEF SeatsKept
<1>1. ASSUME NEW h \in Handlers,
             \/ \E i \in Invites, p \in People : CheckInvite(h, i, p)
             \/ \E i \in Invites : CheckAccept(h, i)
             \/ \E p \in People : CheckProvision(h, p)
             \/ \E n \in 1..MaxSeats : CheckSeats(h, n)
             \/ CheckPlan(h)
      PROVE  IInv'
  <2>1. Types'
    BY <1>1, StartTypes DEF IInv
  <2>2. SeatsKept
    BY <1>1, StartSeats
  <2>3. Uses'
    BY <1>1, StartUses, HandlerUses
  <2>4. Billing'
    BY <1>1, HandlerBilling, ChangeBilling
  <2>5. Following'
    BY <1>1, HandlerFollowing
  <2> QED BY <2>1, <2>2, <2>3, <2>4, <2>5 DEF IInv
<1>2. ASSUME NEW h \in Handlers, Write(h) \/ Fail(h)
      PROVE  IInv'
  <2>1. Types'
    BY <1>2, WriteTypes DEF IInv
  <2>2. SeatsKept
    BY <1>2, WriteSeats, StartSeats
  <2>3. Uses'
    BY <1>2, CreateInviteUses, FinalizeUses, HandlerUses DEF Write
  <2>4. Billing'
    BY <1>2, HandlerBilling, WriteBilling, FailBilling DEF Write, UpdateStripe, SaveSubscription
  <2>5. Following'
    BY <1>2, HandlerFollowing
  <2> QED BY <2>1, <2>2, <2>3, <2>4, <2>5 DEF IInv
<1>3. CASE \/ \E i \in Invites : Revoke(i) \/ Expires(i)
           \/ \E p \in People : RemoveMember(p)
  BY <1>3, PeopleTypes, PeopleSeats, PeopleUses, PeopleBilling, HandlerFollowing DEF IInv
<1>4. CASE StripeSide
  BY <1>4, StripeTypes, StripeSeats, StripeUses, StripeBilling, StripeFollowing DEF IInv
<1>5. CASE UNCHANGED vars
  <2>1. UNCHANGED <<seats, status, subscribed, members, accounts, invite, stripe, events, hook,
                    req, note, requests, fails>>
    BY <1>5 DEF vars, people, subscription
  <2>2. Types'
    BY <2>1 DEF IInv, Types, TypeOK
  <2>3. SeatsKept
    BY <2>1 DEF IInv, SeatsNotOversold, Reserved, Pending
  <2>4. Uses'
    BY <2>1, UsesSame
  <2>5. Billing'
    BY <2>1, BillingSame DEF subscription
  <2>6. Following'
    BY <2>1, FollowingSame DEF IInv
  <2> QED BY <2>2, <2>3, <2>4, <2>5, <2>6 DEF IInv
<1> QED BY <1>1, <1>2, <1>3, <1>4, <1>5 DEF Next, StripeSide

LEMMA IInvAlways == Spec => []IInv
  BY InitIInv, NextIInv, PTL DEF Spec

\* assertSeatAvailable is counted again inside the transactions of finalizeAcceptance and
\* createUser: whatever overlaps, members never outnumber the seats, except after an
\* updateSeats that had counted them too early.
THEOREM SeatsNeverOversold == Spec => []SeatsNotOversold
<1>1. IInv => SeatsNotOversold
  BY DEF IInv
<1> QED BY <1>1, IInvAlways, PTL

\* Each pending invite keeps the seat that was reserved for it, and lets in its person
\* once, however many calls of create, accept and createUser overlap.
THEOREM InvitesHonoured == Spec => []InviteHonoured
<1>1. ASSUME IInv PROVE ReservationHolds
  <2> SUFFICES ASSUME ~note.overbooked, NEW i \in Pending PROVE SeatAvailable({i})
    BY DEF ReservationHolds
  <2>1. PICK S : S = Pending
    OBVIOUS
  <2>2. IsFiniteSet(S) /\ i \in S /\ Cardinality(S) \in Nat
    BY <1>1, <2>1, Counts DEF IInv
  <2>3. Cardinality(S \ {i}) = Cardinality(S) - 1
    BY <2>2, FS_RemoveElement
  <2>4. Cardinality(members) + Cardinality(S) <= seats
    BY <1>1, <2>1 DEF IInv, Reserved
  <2>5. Cardinality(members) \in Nat /\ seats \in Nat
    BY <1>1, Counts, NumbersOfTypes DEF IInv
  <2>6. Cardinality(members) + Cardinality(S \ {i}) < seats
    BY <2>2, <2>3, <2>4, <2>5
  <2> QED BY <2>1, <2>6 DEF SeatAvailable
<1>2. IInv => InviteHonoured
  BY <1>1 DEF IInv, Types, Uses, InviteHonoured
<1> QED BY <1>2, IInvAlways, PTL

\* updateSeats and changePlan, each alone and to its end, leave Stripe billing the seats
\* of the Subscription row, whatever else happens to the subscription meanwhile.
THEOREM SeatsBilledAsHeld == Spec => []BilledSeats
<1>1. IInv => BilledSeats
  BY DEF IInv, Billing, BilledSeats
<1> QED BY <1>1, IInvAlways, PTL

\* handleWebhookEvent: once all of Stripe's events are handled, none after a later one, the
\* Subscription row has the status the subscription has at Stripe, although a completed
\* checkout retrieves the subscription first and saves what it found later.
THEOREM StatusFollows == Spec => []StatusFollowsStripe
<1>1. IInv => StatusFollowsStripe
  BY DEF IInv, Following
<1> QED BY <1>1, IInvAlways, PTL

=============================================================================
