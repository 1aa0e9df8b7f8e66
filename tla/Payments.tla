------------------------------- MODULE Payments -------------------------------
(***************************************************************************)
(* server/server_payments.go: the Stripe subscriptions of one user.  A     *)
(* checkout session creates a subscription at Stripe; the redirect after   *)
(* it and Stripe's webhooks copy what Stripe says to the user's tier and   *)
(* billing fields, in steps that interleave and may fail.  Stripe delivers *)
(* a webhook in any order, and again until the handler succeeds.           *)
(*                                                                         *)
(* A tier stands for its price, and the fields status, interval and paid   *)
(* until for the version of the subscription they belong to.               *)
(***************************************************************************)
EXTENDS Naturals

CONSTANTS Tiers, None,
          Requests,      \* the requests that may run at a time
          Subscriptions, \* a bound on the checkout sessions
          MaxVersion,    \* a bound on the changes of subscriptions at Stripe
          MaxFailures    \* a bound on the steps that fail

VARIABLES session,   \* the checkout session of each subscription: "none", "open", "paid" or "done"
          sub,       \* the subscriptions at Stripe
          version,   \* counts the changes at Stripe
          events,    \* the webhooks Stripe has still to deliver
          tier,      \* the user's tier
          billing,   \* the user's billing fields
          request,   \* the requests in progress
          newest,    \* history: the newest version that was read to be copied
          mixed,     \* history: an old version was read after a newer one, or requests overlapped
          overlap,   \* history: a session was created before an earlier one was done
          failures

atStripe == <<session, sub, version, events>>
user == <<tier, billing>>
vars == <<atStripe, user, request, newest, mixed, overlap, failures>>

NoSub == [id |-> None, tier |-> None, version |-> 0]
Idle == [step |-> "idle", of |-> None, customer |-> None, event |-> None, copy |-> NoSub, had |-> None]

Init ==
  /\ session = [s \in Subscriptions |-> "none"]
  /\ sub = [s \in Subscriptions |-> [customer |-> None, tier |-> None, version |-> 0]]
  /\ version = 0 /\ events = {}
  /\ tier = None
  /\ billing = [customer |-> None, sub |-> NoSub]
  /\ request = [r \in Requests |-> Idle]
  /\ newest = 0 /\ mixed = "no" /\ overlap = "no" /\ failures = 0

\* What Stripe tells of a subscription; its customer is named after the first session.
Event ==
  [id : Subscriptions, customer : Subscriptions, tier : Tiers \cup {None}, version : Nat]

\* None is neither a tier, a subscription nor a record.
ASSUME PaymentsAssumption ==
  /\ None \notin Tiers /\ None \notin Subscriptions
  /\ None \notin Event

\* Subscriptions that Stripe bills.
Live == {s \in Subscriptions : sub[s].tier # None}

\* What is copied of a subscription.
Copy(s, t, v) == IF t = None THEN NoSub ELSE [id |-> s, tier |-> t, version |-> v]

Fail == failures < MaxFailures /\ failures' = failures + 1

-----------------------------------------------------------------------------
(* Stripe *)

\* A subscription changes, and Stripe is to tell.
Change(s, t) ==
  /\ version < MaxVersion
  /\ version' = version + 1
  /\ sub' = [sub EXCEPT ![s] = [customer |-> @.customer, tier |-> t, version |-> version']]
  /\ events' = events \cup
       {[id |-> s, customer |-> sub[s].customer, tier |-> t, version |-> version']}

\* The user pays.
Checkout(s, t) ==
  /\ session[s] = "open"
  /\ session' = [session EXCEPT ![s] = "paid"]
  /\ Change(s, t)
  /\ UNCHANGED <<user, request, newest, mixed, overlap, failures>>

\* The period ends of a subscription that was canceled, or it is changed at Stripe.
EndPeriod(s, t) ==
  /\ s \in Live
  /\ Change(s, t)
  /\ UNCHANGED <<session, user, request, newest, mixed, overlap, failures>>

-----------------------------------------------------------------------------
(* Requests of the user *)

\* A new checkout session of the user's customer, or of one Stripe will create.
NewSession(s) ==
  /\ session[s] = "none"
  /\ session' = [session EXCEPT ![s] = "open"]
  /\ sub' = [sub EXCEPT ![s] =
               [customer |-> IF billing.customer = None THEN s ELSE billing.customer,
                tier |-> @.tier, version |-> @.version]]
  /\ overlap' = IF \E o \in Subscriptions :
                        \/ session[o] = "open"
                        \/ session[o] = "paid" /\ billing.customer = None
                  THEN "yes" ELSE overlap
  /\ UNCHANGED <<version, events, user, request, newest, mixed, failures>>

\* Mutant: a subscription is no reason to refuse.
CreateUnchecked(s) == NewSession(s)

\* handleAccountBillingSubscriptionCreate, for a user without subscription whose
\* customer has none either.  What it reads and the new session are taken as one step.
Create(s) ==
  /\ billing.sub.id = None
  /\ \A o \in Live : sub[o].customer # billing.customer
  /\ NewSession(s)

\* handleAccountBillingSubscriptionUpdate: another price at Stripe, the user is told by
\* the webhook.
Update(t) ==
  /\ billing.sub.id \in Live /\ t # None
  /\ Change(billing.sub.id, t)
  /\ UNCHANGED <<session, user, request, newest, mixed, overlap, failures>>

\* handleAccountBillingSubscriptionDelete: Stripe is to cancel at the end of the period.
Delete ==
  /\ billing.sub.id \in Live
  /\ Change(billing.sub.id, sub[billing.sub.id].tier)
  /\ UNCHANGED <<session, user, request, newest, mixed, overlap, failures>>

-----------------------------------------------------------------------------
(* The copies *)

\* A request starts to copy version v.
Start(r, rec, v) ==
  /\ request[r] = Idle
  /\ request' = [request EXCEPT ![r] = rec]
  /\ mixed' = IF v < newest \/ \E o \in Requests : request[o] # Idle THEN "yes" ELSE mixed
  /\ newest' = IF mixed' = "yes" THEN 0 ELSE v

\* handleAccountBillingSubscriptionCreateSuccess: the subscription is read at Stripe.
Success(r, s) ==
  /\ session[s] \in {"paid", "done"} /\ s \in Live
  /\ Start(r, [step |-> "user", of |-> s, customer |-> sub[s].customer, event |-> None,
               copy |-> Copy(s, sub[s].tier, sub[s].version), had |-> None], sub[s].version)
  /\ UNCHANGED <<atStripe, user, overlap, failures>>

\* handleAccountBillingWebhook, for an event that was not delivered yet or not acknowledged.
Webhook(r, e) ==
  /\ e \in events
  /\ Start(r, [step |-> "user", of |-> None, customer |-> e.customer, event |-> e,
               copy |-> Copy(e.id, e.tier, e.version), had |-> None], e.version)
  /\ UNCHANGED <<atStripe, user, overlap, failures>>

Goto(r, step, had) ==
  request' = [request EXCEPT ![r] = [step |-> step, of |-> @.of, customer |-> @.customer,
                                     event |-> @.event, copy |-> @.copy, had |-> had]]
Return(r) == request' = [request EXCEPT ![r] = Idle]

\* UserByID, or UserByStripeCustomer.
ReadUser(r) ==
  /\ request[r].step = "user"
  /\ request[r].event = None \/ request[r].customer = billing.customer
  /\ Goto(r, "tier", tier)
  /\ UNCHANGED <<atStripe, user, newest, mixed, overlap, failures>>

\* No user has the customer, all retries included.
NoUser(r) ==
  /\ request[r].step = "user"
  /\ request[r].event # None /\ request[r].customer # billing.customer
  /\ Return(r)
  /\ UNCHANGED <<atStripe, user, newest, mixed, overlap, failures>>

\* updateSubscriptionAndTier: ResetTier or ChangeTier, if it is another one ...
ChangeTier(r) ==
  /\ request[r].step = "tier"
  /\ tier' = IF request[r].copy.tier # request[r].had THEN request[r].copy.tier ELSE tier
  /\ Goto(r, "billing", request[r].had)
  /\ UNCHANGED <<atStripe, billing, newest, mixed, overlap, failures>>

\* ... then the billing fields.
ChangeBilling(r) ==
  /\ request[r].step = "billing"
  /\ billing' = [customer |-> request[r].customer, sub |-> request[r].copy]
  /\ Goto(r, "done", request[r].had)
  /\ UNCHANGED <<atStripe, tier, newest, mixed, overlap, failures>>

\* The answer: Stripe forgets the event, the browser goes on.
Done(r) ==
  /\ request[r].step = "done"
  /\ Return(r)
  /\ events' = events \ {request[r].event}
  /\ session' = IF request[r].of = None THEN session
                ELSE [session EXCEPT ![request[r].of] = "done"]
  /\ UNCHANGED <<sub, version, user, newest, mixed, overlap, failures>>

\* Mutant: an error is answered like a success.
ErrorIgnored(r) ==
  /\ request[r].step \in {"user", "tier", "billing", "done"}
  /\ Fail
  /\ Return(r)
  /\ events' = events \ {request[r].event}
  /\ UNCHANGED <<session, sub, version, user, newest, mixed, overlap>>

\* A step fails and its error is returned, or the answer is lost.
Error(r) ==
  /\ request[r].step \in {"user", "tier", "billing", "done"}
  /\ Fail
  /\ Return(r)
  /\ UNCHANGED <<atStripe, user, newest, mixed, overlap>>

Next ==
  \/ \E s \in Subscriptions :
       \/ Create(s)
       \/ \E t \in Tiers : Checkout(s, t)
       \/ \E t \in Tiers \cup {None} : EndPeriod(s, t)
  \/ \E t \in Tiers : Update(t)
  \/ Delete
  \/ \E r \in Requests :
       \/ \E s \in Subscriptions : Success(r, s)
       \/ \E e \in events : Webhook(r, e)
       \/ ReadUser(r) \/ NoUser(r) \/ ChangeTier(r) \/ ChangeBilling(r) \/ Done(r) \/ Error(r)

Spec == Init /\ [][Next]_vars

-----------------------------------------------------------------------------
(* Properties *)

\* "Stripe is the source of truth.  What Stripe says is mirrored and not questioned"
\* (server/server_payments.go:42): once everything is delivered, the user's tier and
\* billing fields are those of the subscription at Stripe, whatever failed on the way,
\* unless webhooks came out of order or requests overlapped.
Mirrored ==
  /\ mixed = "no" /\ overlap = "no" /\ events = {}
  /\ \A r \in Requests : request[r] = Idle
  /\ \A s \in Subscriptions : session[s] # "paid"
  => IF Live = {} THEN tier = None /\ billing.sub = NoSub
     ELSE \E s \in Live : /\ tier = sub[s].tier
                          /\ billing = [customer |-> sub[s].customer,
                                        sub |-> Copy(s, sub[s].tier, sub[s].version)]

\* "cannot have multiple billing subscriptions" (server/server_payments.go:47): Stripe bills
\* the user for one subscription at most, unless a checkout session was created while
\* another one was open, or was paid and not yet reported for a user without customer.
OneSubscription ==
  overlap = "no" => \A s, o \in Live : s = o
===============================================================================
