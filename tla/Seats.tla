------------------------------- MODULE Seats -------------------------------
(***************************************************************************)
(* A company's subscription and the people who may work in it: invites     *)
(* (company/invites.service.ts), provisioning by an identity provider      *)
(* (scim/scim.service.ts), members (company/members.service.ts), and the   *)
(* subscription with its paid seats (billing/billing.service.ts), which is *)
(* kept at Stripe too.                                                     *)
(*                                                                         *)
(* A handler checks first and writes later, and others come in between; a  *)
(* runSerializable transaction is one step. Stripe is external: it takes   *)
(* the quantity it is told, changes the state of the subscription and      *)
(* sends an event for each change, again and again until one is handled,   *)
(* in no particular order.                                                 *)
(*                                                                         *)
(* Roles, passwords, second factors and plans are left out, and so is a    *)
(* second subscription of the same company.                                *)
(***************************************************************************)
EXTENDS Integers, FiniteSets

CONSTANTS
    People, Owner,      \* who may be a member; the owner is one from the start
    Registered,         \* who has an account already
    Invites,            \* the invites that may be sent
    Handlers,           \* requests in progress at one time
    MaxSeats,           \* bound: seats bought
    MaxEvents,          \* bound: changes of the subscription at Stripe
    MaxRequests,        \* bound: requests taken up
    MaxFails            \* bound: handlers that die

ASSUME SeatsAssumption ==
    /\ Owner \in Registered /\ Registered \subseteq People /\ IsFiniteSet(People)
    /\ IsFiniteSet(Invites)
    /\ MaxRequests \in Nat
    /\ MaxSeats \in Nat \ {0} /\ MaxEvents \in Nat /\ MaxFails \in Nat

VARIABLES
    seats, status, subscribed,  \* Subscription.seats, .status, stripeSubscriptionId # null
    members,    \* who has a Membership
    accounts,   \* who has a User row
    invite,     \* the Invite rows
    stripe,     \* the subscription at Stripe
    events,     \* the events Stripe has not been able to deliver yet
    hook,       \* what the handler of a completed checkout has retrieved
    req,        \* what each handler does, and what it read
    note,       \* what has happened (not in the code)
    requests, fails

people == <<members, accounts, invite>>
subscription == <<seats, status, subscribed>>
vars == <<subscription, people, stripe, events, hook, req, note, requests, fails>>

-----------------------------------------------------------------------------
SubscriptionStatus == {"incomplete", "active", "past_due", "canceled"}
StripeState == {"none", "checkout", "active", "past_due", "canceled"}
Kinds == {"completed", "updated", "deleted"}

Invite == [state : {"none", "pending", "accepted", "expired", "revoked"}, who : People, uses : Nat]
Event == [kind : Kinds, state : StripeState, number : 1..MaxEvents]

Idle == [op |-> "none"]
NoHook == "none"
Request == {Idle} \union [op : {"invite", "accept"}, invite : Invites, who : People, account : BOOLEAN]
                  \union [op : {"provision"}, who : People]
                  \union [op : {"seats", "plan"}, pc : {"stripe", "save"}, quantity : 1..MaxSeats]

Init ==
    /\ seats = 1 /\ status = "incomplete" /\ subscribed = FALSE
    /\ members = {Owner}
    /\ accounts = Registered
    /\ invite = [i \in Invites |-> [state |-> "none", who |-> Owner, uses |-> 0]]
    /\ stripe \in [state : {"none"}, quantity : {1}, sent : {0}, tagged : BOOLEAN]
    /\ events = {} /\ hook = NoHook
    /\ req = [h \in Handlers |-> Idle]
    /\ note = [lowered |-> FALSE, overbooked |-> FALSE, rejoining |-> {}, overlap |-> FALSE,
               last |-> 0, late |-> FALSE]
    /\ requests = 0 /\ fails = 0

Idling(h) == req[h].op = "none"
Doing(h, op) == req[h].op = op
Busy(op) == {h \in Handlers : req[h].op = op}
Step(h, r) == req' = [req EXCEPT ![h] = r]
Start(h, r) == Step(h, r) /\ requests < MaxRequests /\ requests' = requests + 1
Done(h) == Step(h, Idle) /\ UNCHANGED requests

\* SubscriptionGuard: 402 unless the subscription is active.
Unlocked == status = "active"

-----------------------------------------------------------------------------
(***************************************************************************)
(* Invites, provisioning and members.                                      *)
(***************************************************************************)
Pending == {i \in Invites : invite[i].state = "pending"}

\* The invite that is being accepted is counted as well.
SeatAvailable_itselfToo(except) == Cardinality(members) + Cardinality(Pending) < seats

\* assertSeatAvailable, leaving out the invite that is being accepted.
SeatAvailable(except) == Cardinality(members) + Cardinality(Pending \ except) < seats

\* InvitesService.create: the checks.
CheckInvite(h, i, p) ==
    /\ Idling(h) /\ Unlocked
    /\ invite[i].state = "none" /\ \A g \in Handlers : Doing(g, "invite") => req[g].invite # i
    /\ SeatAvailable({}) /\ p \notin members
    /\ Start(h, [op |-> "invite", invite |-> i, who |-> p, account |-> FALSE])
    /\ UNCHANGED <<subscription, people, stripe, events, hook, note, fails>>

\* The row is created; the seat may have gone meanwhile.
CreateInvite(h) ==
    /\ Doing(h, "invite")
    /\ invite' = [invite EXCEPT ![req[h].invite] =
                    [state |-> "pending", who |-> req[h].who, uses |-> 0]]
    /\ note' = [note EXCEPT !.overbooked = @ \/ ~SeatAvailable({})]
    /\ Done(h)
    /\ UNCHANGED <<subscription, members, accounts, stripe, events, hook, fails>>

\* revoke deletes the row, whatever has become of it.
Revoke(i) ==
    /\ Unlocked /\ invite[i].state \notin {"none", "revoked"}
    /\ invite' = [invite EXCEPT ![i].state = "revoked"]
    /\ UNCHANGED <<subscription, members, accounts, stripe, events, hook, req, note, requests, fails>>

\* After INVITE_TTL_DAYS an invite counts no more.
Expires(i) ==
    /\ invite[i].state = "pending"
    /\ invite' = [invite EXCEPT ![i].state = "expired"]
    /\ UNCHANGED <<subscription, members, accounts, stripe, events, hook, req, note, requests, fails>>

\* accept, or completeAcceptAfterTwoFactor: getByToken and the checks before the
\* transaction. Passwords are hashed and compared in between.
CheckAccept(h, i) ==
    /\ Idling(h) /\ i \in Pending
    /\ SeatAvailable({i}) /\ invite[i].who \notin members
    /\ Start(h, [op |-> "accept", invite |-> i, who |-> invite[i].who,
                 account |-> invite[i].who \in accounts])
    /\ UNCHANGED <<subscription, people, stripe, events, hook, note, fails>>

\* The seat was checked before the transaction, and that is that.
MayJoin_checkedBefore(h) ==
    /\ req[h].who \notin members
    /\ req[h].account \/ req[h].who \notin accounts

\* Neither the membership nor the account is looked at again.
MayJoin_seatOnly(h) == SeatAvailable({req[h].invite})

\* The checks inside finalizeAcceptance's transaction: a seat, no membership yet, and
\* for a new account an email that is still free (a unique index).
MayJoin(h) ==
    /\ SeatAvailable({req[h].invite})
    /\ req[h].who \notin members
    /\ req[h].account \/ req[h].who \notin accounts

Join(p) == members' = members \union {p} /\ accounts' = accounts \union {p}

\* finalizeAcceptance's transaction. The row is not looked at again, but it must
\* still be there; one that has expired meanwhile is accepted.
FinalizeAcceptance(h) ==
    /\ Doing(h, "accept") /\ MayJoin(h)
    /\ invite[req[h].invite].state # "revoked"
    /\ Join(req[h].who)
    /\ invite' = [invite EXCEPT ![req[h].invite].state = "accepted", ![req[h].invite].uses = @ + 1]
    /\ Done(h)
    /\ UNCHANGED <<subscription, stripe, events, hook, note, fails>>

\* The transaction is refused: no seat, a member already, the email taken, the row deleted.
AcceptRefused(h) ==
    /\ Doing(h, "accept")
    /\ ~MayJoin(h) \/ invite[req[h].invite].state = "revoked"
    /\ Done(h)
    /\ UNCHANGED <<subscription, people, stripe, events, hook, note, fails>>

\* ScimService.createUser: only people without an account.
CheckProvision(h, p) ==
    /\ Idling(h) /\ p \notin accounts
    /\ Start(h, [op |-> "provision", who |-> p])
    /\ UNCHANGED <<subscription, people, stripe, events, hook, note, fails>>

Provision(h) ==
    /\ Doing(h, "provision")
    /\ IF SeatAvailable({}) /\ req[h].who \notin accounts
         THEN Join(req[h].who)
         ELSE UNCHANGED <<members, accounts>>
    /\ Done(h)
    /\ UNCHANGED <<subscription, invite, stripe, events, hook, note, fails>>

\* MembersService.remove: the account stays.
RemoveMember(p) ==
    /\ Unlocked /\ p \in members \ {Owner}
    /\ members' = members \ {p}
    /\ note' = [note EXCEPT !.rejoining =
                  @ \union {req[h].invite : h \in {g \in Busy("accept") : req[g].who = p}}]
    /\ UNCHANGED <<subscription, accounts, invite, stripe, events, hook, req, requests, fails>>

-----------------------------------------------------------------------------
(***************************************************************************)
(* The subscription: checkout, seats and plan.                             *)
(***************************************************************************)

\* createCheckoutSession, for the seats of the moment; then the owner pays.
CreateCheckoutSession ==
    /\ stripe.state = "none"
    /\ stripe' = [stripe EXCEPT !.state = "checkout", !.quantity = seats]
    /\ UNCHANGED <<subscription, people, events, hook, req, note, requests, fails>>

\* Stripe changes the subscription's state and announces it.
Emit(kind, state) ==
    /\ stripe.sent < MaxEvents
    /\ stripe' = [stripe EXCEPT !.state = state, !.sent = @ + 1]
    /\ events' = events \union {[kind |-> kind, state |-> state, number |-> stripe.sent + 1]}
    /\ UNCHANGED <<subscription, people, hook, req, note, requests, fails>>

Paid == stripe.state = "checkout" /\ Emit("completed", "active")
Overdue == stripe.state = "active" /\ Emit("updated", "past_due")
Recovered == stripe.state = "past_due" /\ Emit("updated", "active")
Ended == stripe.state \in {"active", "past_due"} /\ Emit("deleted", "canceled")

Changing == Busy("seats") \union Busy("plan")

\* updateSeats and changePlan read the subscription. Fewer seats than members are refused.
CheckSeats(h, n) ==
    /\ Idling(h) /\ Unlocked /\ n >= Cardinality(members)
    /\ Start(h, [op |-> "seats", pc |-> IF subscribed THEN "stripe" ELSE "save", quantity |-> n])
    /\ note' = [note EXCEPT !.overlap = @ \/ Changing # {}]
    /\ UNCHANGED <<subscription, people, stripe, events, hook, fails>>

CheckPlan(h) ==
    /\ Idling(h) /\ Unlocked
    /\ Start(h, [op |-> "plan", pc |-> IF subscribed THEN "stripe" ELSE "save", quantity |-> seats])
    /\ note' = [note EXCEPT !.overlap = @ \/ Changing # {}]
    /\ UNCHANGED <<subscription, people, stripe, events, hook, fails>>

\* The new plan is for one seat.
StripeQuantity_planResets(h) == IF Doing(h, "plan") THEN 1 ELSE req[h].quantity

\* What subscriptions.update is given.
StripeQuantity(h) == req[h].quantity

\* stripe.subscriptions.update; a subscription that has ended is an error there.
UpdateStripe(h) ==
    /\ h \in Changing /\ req[h].pc = "stripe"
    /\ IF stripe.state = "canceled"
         THEN Done(h) /\ UNCHANGED stripe
         ELSE /\ stripe' = [stripe EXCEPT !.quantity = StripeQuantity(h)]
              /\ Step(h, [req[h] EXCEPT !.pc = "save"]) /\ UNCHANGED requests
    /\ UNCHANGED <<subscription, people, events, hook, note, fails>>

\* The last update: seats, or the plan.
SaveSubscription(h) ==
    /\ h \in Changing /\ req[h].pc = "save"
    /\ seats' = IF Doing(h, "seats") THEN req[h].quantity ELSE seats
    /\ note' = IF Doing(h, "plan") THEN note
               ELSE [note EXCEPT !.lowered = seats' < Cardinality(members),
                                 !.overbooked = seats' < Cardinality(members) + Cardinality(Pending)]
    /\ Done(h)
    /\ UNCHANGED <<status, subscribed, people, stripe, events, hook, fails>>

-----------------------------------------------------------------------------
(***************************************************************************)
(* Stripe's events: handleWebhookEvent and syncFromStripe.                 *)
(***************************************************************************)

\* An overdue subscription counts as active.
StatusOf_lenient(state) == IF state \in {"active", "past_due"} THEN "active" ELSE "canceled"

StatusOf(state) == IF state \in {"active", "past_due"} THEN state ELSE "canceled"

\* An event is handled after a later one.
Seen(e) == note' = [note EXCEPT !.last = IF e.number > @ THEN e.number ELSE @,
                                !.late = @ \/ e.number < note.last]

\* Events are refused, like other requests, while the subscription is not active.
RetrieveSubscription_guarded(e) ==
    /\ e \in events /\ e.kind = "completed" /\ hook = NoHook /\ Unlocked
    /\ hook' = stripe.state
    /\ UNCHANGED <<subscription, people, stripe, events, req, note, requests, fails>>

\* checkout.session.completed: the subscription is retrieved from Stripe.
RetrieveSubscription(e) ==
    /\ e \in events /\ e.kind = "completed" /\ hook = NoHook
    /\ hook' = stripe.state
    /\ UNCHANGED <<subscription, people, stripe, events, req, note, requests, fails>>

Handled(e) == events' = events \ {e} /\ Seen(e)

\* The update at the end of syncFromStripe.
SyncFromStripe(state) == status' = StatusOf(state) /\ subscribed' = TRUE

CheckoutCompleted(e) ==
    /\ e \in events /\ e.kind = "completed" /\ hook # NoHook
    /\ SyncFromStripe(hook)
    /\ hook' = NoHook /\ Handled(e)
    /\ UNCHANGED <<seats, people, stripe, req, requests, fails>>

\* customer.subscription.updated carries the state, and is skipped unless the company's
\* id is on the subscription.
SubscriptionUpdated(e) ==
    /\ e \in events /\ e.kind = "updated"
    /\ IF stripe.tagged THEN SyncFromStripe(e.state) ELSE UNCHANGED <<status, subscribed>>
    /\ Handled(e)
    /\ UNCHANGED <<seats, people, stripe, hook, req, requests, fails>>

\* customer.subscription.deleted finds the row by stripeSubscriptionId, if it is there.
SubscriptionDeleted(e) ==
    /\ e \in events /\ e.kind = "deleted"
    /\ status' = IF subscribed THEN "canceled" ELSE status
    /\ Handled(e)
    /\ UNCHANGED <<seats, subscribed, people, stripe, hook, req, requests, fails>>

-----------------------------------------------------------------------------
\* The process dies. What Stripe was told stays; an event is sent again.
Fail(h) ==
    /\ ~Idling(h) /\ fails < MaxFails
    /\ fails' = fails + 1
    /\ note' = [note EXCEPT !.overlap = @ \/ (h \in Changing /\ req[h].pc = "save")]
    /\ Done(h)
    /\ UNCHANGED <<subscription, people, stripe, events, hook>>

HookFails ==
    /\ hook # NoHook /\ fails < MaxFails
    /\ fails' = fails + 1 /\ hook' = NoHook
    /\ UNCHANGED <<subscription, people, stripe, events, req, note, requests>>

HandleEvent ==
    \E e \in events : \/ RetrieveSubscription(e) \/ CheckoutCompleted(e)
                      \/ SubscriptionUpdated(e) \/ SubscriptionDeleted(e)

Write(h) ==
    \/ CreateInvite(h) \/ FinalizeAcceptance(h) \/ AcceptRefused(h) \/ Provision(h)
    \/ UpdateStripe(h) \/ SaveSubscription(h)

Next ==
    \/ \E h \in Handlers :
         \/ \E i \in Invites, p \in People : CheckInvite(h, i, p)
         \/ \E i \in Invites : CheckAccept(h, i)
         \/ \E p \in People : CheckProvision(h, p)
         \/ \E n \in 1..MaxSeats : CheckSeats(h, n)
         \/ CheckPlan(h) \/ Write(h) \/ Fail(h)
    \/ \E i \in Invites : Revoke(i) \/ Expires(i)
    \/ \E p \in People : RemoveMember(p)
    \/ CreateCheckoutSession \/ Paid \/ Overdue \/ Recovered \/ Ended
    \/ HandleEvent \/ HookFails

\* Stripe repeats an event until it has been handled.
Fairness == WF_vars(HandleEvent)

Spec == Init /\ [][Next]_vars /\ Fairness

-----------------------------------------------------------------------------
(***************************************************************************)
(* Properties.                                                             *)
(***************************************************************************)

TypeOK ==
    /\ seats \in 1..MaxSeats /\ status \in SubscriptionStatus /\ subscribed \in BOOLEAN
    /\ members \subseteq accounts /\ accounts \subseteq People
    /\ invite \in [Invites -> Invite]
    /\ stripe \in [state : StripeState, quantity : 1..MaxSeats, sent : 0..MaxEvents, tagged : BOOLEAN]
    /\ events \subseteq Event /\ hook \in StripeState
    /\ req \in [Handlers -> Request]
    /\ note.rejoining \subseteq Invites /\ requests \in 0..MaxRequests /\ fails \in 0..MaxFails

\* "two concurrent accepts for a company's last open seat could ... together
\* oversell it": accepted invites and provisioned people never take more seats than
\* are paid for, whatever overlaps. Only a reduction of the seats that had counted
\* the members before the last of them joined leaves too few.
SeatsNotOversold == Cardinality(members) <= seats \/ note.lowered

\* "the last invite in a fully-reserved company could never be accepted": the seat of
\* every pending invite is kept for it. Only an invite that was created on a seat
\* taken meanwhile, or a reduction that ignored the pending ones, makes more
\* reservations than there are seats, and then they lock each other out.
ReservationHolds == note.overbooked \/ \A i \in Pending : SeatAvailable({i})

\* An invite lets a person in once, also when the link is followed twice at a time;
\* a second time only if that person was removed while the second call was under way.
InviteUsedOnce == \A i \in Invites : invite[i].uses > 1 => i \in note.rejoining

\* A pending invite keeps the seat that was reserved for it, and lets its person in
\* once, whatever invites, accepts and provisioning overlap.
InviteHonoured == TypeOK /\ ReservationHolds /\ InviteUsedOnce

\* Stripe bills the seats that can be used, when no call is at it: calls that
\* overlapped, or one that died after it had told Stripe, are the exception.
BilledSeats ==
    subscribed /\ Changing = {} /\ ~note.overlap => stripe.quantity = seats

\* With all events handled, none after a later one, the account has the status the
\* subscription has at Stripe. Without the company's id on the subscription only its
\* beginning and its end are seen.
StatusFollowsStripe ==
    events = {} /\ stripe.sent > 0 /\ ~note.late =>
        \/ status = stripe.state
        \/ ~stripe.tagged /\ stripe.state \in {"active", "past_due"} /\ status \in {"active", "past_due"}

\* A company that has paid does not stay incomplete, although handlers die and events
\* come late, again or out of order.
PaidIsLinked == stripe.state = "active" ~> status # "incomplete"

=============================================================================
