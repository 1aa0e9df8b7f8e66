---------------------------- MODULE AccountsProofs ----------------------------
(***************************************************************************)
(* What an account has and may use, for any number of requests, tokens,    *)
(* checkout sessions, browsers and kills: the parts of Accounts one after  *)
(* the other.  Stripe and the server agree: a user is billed for one       *)
(* subscription, and has the tier that it is for.                          *)
(***************************************************************************)
EXTENDS Accounts, TLAPS

\* Zenon proves what no other prover is named for.
USE ZenonT(30)

-------------------------------------------------------------------------------
(* What Stripe bills for and what the server has *)

Copies == [id : Subscriptions \cup {None}, tier : Tiers \cup {None}, version : Nat]
Asked ==
  [step : {"idle", "user", "tier", "billing", "done"}, of : Subscriptions \cup {None},
   customer : Subscriptions \cup {None}, event : Event \cup {None}, copy : Copies,
   had : Tiers \cup {None}]
AtStripe == [customer : Subscriptions \cup {None}, tier : Tiers \cup {None}, version : Nat]

PayTypes ==
  /\ session \in [Subscriptions -> {"none", "open", "paid", "done"}]
  /\ sub \in [Subscriptions -> AtStripe]
  /\ version \in Nat /\ newest \in Nat
  /\ events \in SUBSET Event
  /\ tier \in Tiers \cup {None}
  /\ billing \in [customer : Subscriptions \cup {None}, sub : Copies]
  /\ request \in [Requests -> Asked]
  /\ mixed \in {"yes", "no"} /\ overlap \in {"yes", "no"}

Made(s) == session[s] # "none"
Paid(s) == session[s] \in {"paid", "done"}

\* A subscription exists once its session is paid; the user has a customer once one is done.
SubOK(s) ==
  /\ Made(s) <=> sub[s].customer # None
  /\ ~Paid(s) => sub[s].tier = None /\ sub[s].version = 0
  /\ Paid(s) => sub[s].version > 0
  /\ sub[s].version <= version
  /\ session[s] = "done" => billing.customer # None

\* A webhook tells a version of a subscription, the last one as it is.
EventOK(e) ==
  /\ Paid(e.id) /\ e.customer = sub[e.id].customer
  /\ e.version > 0 /\ e.version <= sub[e.id].version
  /\ e.version = sub[e.id].version => e.tier = sub[e.id].tier

RequestOK(r) ==
  /\ request[r].step = "idle" => request[r] = Idle
  /\ request[r].of # None => Paid(request[r].of)
  /\ request[r].step # "idle" =>
       /\ request[r].customer # None
       /\ \E s \in Subscriptions : Paid(s) /\ request[r].customer = sub[s].customer
  /\ request[r].step = "done" => billing.customer # None

PayStages ==
  /\ \A s \in Subscriptions : SubOK(s)
  /\ \A e \in events : EventOK(e)
  /\ \A r \in Requests : RequestOK(r)

\* Every change of a subscription has a version of its own.
Versions ==
  /\ \A s, o \in Subscriptions : sub[s].version = sub[o].version /\ sub[s].version > 0 => s = o
  /\ version > 0 => \E s \in Subscriptions : sub[s].version = version
  /\ version = 0 => /\ events = {} /\ \A r \in Requests : request[r] = Idle
                    /\ tier = None /\ billing.sub = NoSub

Candidates == {s \in Subscriptions : session[s] = "open" \/ sub[s].tier # None}

\* Without overlap there is one customer, and one session that is or may get paid for.
OneOnly ==
  /\ \A s, o \in Subscriptions : Made(s) /\ Made(o) => sub[s].customer = sub[o].customer
  /\ billing.customer # None => \A s \in Subscriptions : Made(s) => sub[s].customer = billing.customer
  /\ \A s, o \in Candidates : s = o
  /\ \A s \in Subscriptions : sub[s].tier # None => sub[s].version = version

\* The subscription that changed last, and what the user's fields are to be for it.
Latest(s) == sub[s].version = version /\ version > 0
Target(s) == [customer |-> sub[s].customer, sub |-> Copy(s, sub[s].tier, version)]

\* A request that copies the newest version it could has that of Stripe.
Copying(r) ==
  request[r] # Idle =>
    /\ newest > 0
    /\ request[r].event # None => request[r].event.version = newest
    /\ \A s \in Subscriptions : Latest(s) /\ newest = version =>
         request[r].copy = Target(s).sub /\ request[r].customer = Target(s).customer
    /\ request[r].step = "tier" => request[r].had = tier
    /\ request[r].step \in {"billing", "done"} => tier = request[r].copy.tier
    /\ request[r].step = "done" => billing = [customer |-> request[r].customer, sub |-> request[r].copy]

\* Once the webhook of the last change is acknowledged the user's fields are those of Stripe.
Reflected ==
  version > 0 /\ (\A e \in events : e.version # version) =>
    /\ newest = version
    /\ \A s \in Subscriptions : Latest(s) => tier = sub[s].tier /\ billing = Target(s)

Mirrors ==
  /\ \A r, q \in Requests : request[r] # Idle /\ request[q] # Idle => r = q
  /\ newest <= version
  /\ \A r \in Requests : Copying(r)
  /\ Reflected

PayInv ==
  /\ PayTypes /\ PayStages /\ Versions
  /\ overlap = "no" => OneOnly
  /\ overlap = "no" /\ mixed = "no" => Mirrors

\* The session of s is paid, if it was not.
PaidFor(s) == session' = [session EXCEPT ![s] = IF session[s] = "open" THEN "paid" ELSE session[s]]

\* The subscription s changes at Stripe, its session is paid from then on.
LEMMA PayChange ==
  ASSUME PayInv, NEW s \in Subscriptions, NEW t \in Tiers \cup {None}, Change(s, t),
         UNCHANGED <<tier, billing, request, newest, mixed, overlap>>, s \in Candidates,
         PaidFor(s)
  PROVE  PayInv'
<1> DEFINE new == [customer |-> sub[s].customer, tier |-> t, version |-> version']
           ev == [id |-> s, customer |-> sub[s].customer, tier |-> t, version |-> version']
<1>1. /\ version' = version + 1 /\ sub' = [sub EXCEPT ![s] = new]
      /\ events' = events \cup {ev}
  BY DEF Change
<1>2. /\ version \in Nat /\ session[s] \in {"none", "open", "paid", "done"} /\ sub[s] \in AtStripe
      /\ sub[s].customer \in Subscriptions \cup {None}
  BY DEF PayInv, PayTypes, AtStripe
<1>3. Made(s) /\ sub[s].customer # None
  BY <1>2 DEF PayInv, PayStages, SubOK, Candidates, Paid, Made
<1>4. new \in AtStripe /\ new.customer = sub[s].customer /\ new.tier = t /\ new.version = version + 1
  BY <1>1, <1>2, SMTT(30) DEF AtStripe
<1>5. /\ ev \in Event /\ ev.id = s /\ ev.customer = sub[s].customer /\ ev.tier = t
      /\ ev.version = version + 1
  BY <1>1, <1>2, <1>3, SMTT(30) DEF Event
<1> HIDE DEF new, ev
<1>6. /\ sub'[s] = new /\ \A o \in Subscriptions : o # s => sub'[o] = sub[o]
      /\ session'[s] \in {"paid", "done"} /\ \A o \in Subscriptions : o # s => session'[o] = session[o]
      /\ session'[s] = "done" => session[s] = "done"
  BY <1>1, <1>2, <1>3 DEF PayInv, PayTypes, Made, PaidFor
<1>7. PayTypes' BY <1>1, <1>4, <1>5, SMTT(30) DEF PayInv, PayTypes, PaidFor
<1>8. \A o \in Subscriptions : /\ sub[o].version \in Nat /\ sub[o].version <= version
                               /\ SubOK(o) /\ (Paid(o) => Paid(o)') /\ sub'[o].customer = sub[o].customer
  BY <1>4, <1>6 DEF PayInv, PayTypes, PayStages, SubOK, AtStripe, Paid
<1>9. PayStages'
  <2>1. ASSUME NEW o \in Subscriptions PROVE SubOK(o)'
    <3>1. CASE o = s BY <1>1, <1>2, <1>3, <1>4, <1>6, <1>8, <3>1, SMTT(30) DEF SubOK, Paid, Made
    <3>2. CASE o # s BY <1>1, <1>2, <1>6, <1>8, <3>2, SMTT(30) DEF SubOK, Paid, Made
    <3> QED BY <3>1, <3>2
  <2>2. ASSUME NEW e \in events' PROVE EventOK(e)'
    <3>1. CASE e = ev BY <1>1, <1>2, <1>4, <1>5, <1>6, <3>1, SMTT(30) DEF EventOK, Paid
    <3>2. CASE e \in events
      <4>1. e.id \in Subscriptions /\ e.version \in Nat /\ EventOK(e)
        BY <3>2 DEF PayInv, PayTypes, PayStages, Event
      <4>2. CASE e.id = s BY <1>2, <1>4, <1>6, <1>8, <4>1, <4>2, SMTT(30) DEF EventOK
      <4>3. CASE e.id # s BY <1>6, <1>8, <4>1, <4>3 DEF EventOK
      <4> QED BY <4>2, <4>3
    <3> QED BY <1>1, <3>1, <3>2
  <2>3. ASSUME NEW r \in Requests PROVE RequestOK(r)'
    <3>1. RequestOK(r) /\ request[r].of \in Subscriptions \cup {None}
      BY DEF PayInv, PayStages, PayTypes, Asked
    <3> QED BY <1>8, <3>1 DEF RequestOK
  <2> QED BY <2>1, <2>2, <2>3 DEF PayStages
<1>10. Versions'
  <2>1. /\ \A o \in Subscriptions : o # s => sub'[o].version # sub'[s].version
        /\ \A o, p \in Subscriptions : sub[o].version = sub[p].version /\ sub[o].version > 0 => o = p
    BY <1>2, <1>4, <1>6, <1>8, SMTT(30) DEF PayInv, Versions
  <2>2. \A o, p \in Subscriptions : sub'[o].version = sub'[p].version /\ sub'[o].version > 0 => o = p
    BY <1>6, <2>1
  <2>3. version' > 0 /\ sub'[s].version = version' BY <1>1, <1>2, <1>4, <1>6, SMTT(30)
  <2> QED BY <1>2, <1>1, <2>2, <2>3, SMTT(30) DEF Versions
<1>11. ASSUME overlap = "no" PROVE OneOnly'
  <2>1. OneOnly BY <1>11 DEF PayInv
  <2>2. \A o \in Subscriptions : Made(o)' <=> Made(o) BY <1>3, <1>6 DEF Made
  <2>3. \A o \in Candidates : o = s BY <2>1 DEF OneOnly
  <2>4. \A o \in Candidates' : o = s BY <1>6, <2>3 DEF Candidates
  <2>5. \A o \in Subscriptions : sub'[o].tier # None => sub'[o].version = version'
    BY <1>1, <1>4, <1>6, <2>3 DEF Candidates
  <2> QED BY <1>8, <2>1, <2>2, <2>4, <2>5, SMTT(30) DEF OneOnly
<1>12. ASSUME overlap = "no", mixed = "no" PROVE Mirrors'
  <2>1. Mirrors BY <1>12 DEF PayInv
  <2>2. newest \in Nat /\ newest <= version /\ newest # version' /\ newest <= version'
    BY <1>1, <1>2, <2>1, SMTT(30) DEF PayInv, PayTypes, Mirrors
  <2>3. ASSUME NEW r \in Requests PROVE Copying(r)'
    BY <2>1, <2>2 DEF Mirrors, Copying
  <2>4. Reflected' BY <1>1, <1>5 DEF Reflected
  <2> QED BY <2>1, <2>2, <2>3, <2>4 DEF Mirrors
<1> QED BY <1>7, <1>9, <1>10, <1>11, <1>12 DEF PayInv

\* A new session: without overlap it is of the user's customer, or the first one.
LEMMA PayCreate ==
  ASSUME PayInv, NEW s \in Subscriptions, Create(s)
  PROVE  PayInv'
<1> DEFINE cust == IF billing.customer = None THEN s ELSE billing.customer
           new == [customer |-> cust, tier |-> sub[s].tier, version |-> sub[s].version]
<1>1. /\ session[s] = "none" /\ session' = [session EXCEPT ![s] = "open"]
      /\ sub' = [sub EXCEPT ![s] = new]
  BY DEF Create, NewSession
<1>2. UNCHANGED <<version, events, tier, billing, request, newest, mixed>>
  BY DEF Create, NewSession, user
<1>3. /\ sub[s] \in AtStripe /\ sub[s].tier = None /\ sub[s].version = 0
      /\ cust \in Subscriptions /\ cust # None
  BY <1>1, PaymentsAssumption DEF PayInv, PayTypes, PayStages, SubOK, Paid
<1>4. new \in AtStripe /\ new.customer = cust /\ new.tier = None /\ new.version = 0
  BY <1>3 DEF AtStripe
<1> HIDE DEF new, cust
<1>5. /\ sub'[s] = new /\ \A o \in Subscriptions : o # s => sub'[o] = sub[o]
      /\ session'[s] = "open" /\ \A o \in Subscriptions : o # s => session'[o] = session[o]
  BY <1>1 DEF PayInv, PayTypes
<1>6. overlap' \in {"yes", "no"} /\ (overlap' = "no" => overlap = "no")
  BY DEF Create, NewSession, PayInv, PayTypes
<1>7. PayTypes' BY <1>1, <1>2, <1>4, <1>6 DEF PayInv, PayTypes
<1>8. \A o \in Subscriptions : /\ Paid(o)' <=> Paid(o)
                               /\ sub'[o].version = sub[o].version /\ sub'[o].tier = sub[o].tier
                               /\ Paid(o) => sub'[o].customer = sub[o].customer /\ o # s
  BY <1>1, <1>3, <1>4, <1>5 DEF Paid
<1>9. PayStages'
  <2>1. ASSUME NEW o \in Subscriptions PROVE SubOK(o)'
    <3>1. SubOK(o) BY DEF PayInv, PayStages
    <3>2. CASE o = s BY <1>2, <1>3, <1>4, <1>5, <3>1, <3>2 DEF SubOK, Paid, Made, PayInv, PayTypes
    <3>3. CASE o # s BY <1>2, <1>5, <3>1, <3>3 DEF SubOK, Paid, Made
    <3> QED BY <3>2, <3>3
  <2>2. ASSUME NEW e \in events PROVE EventOK(e)'
    <3>1. e.id \in Subscriptions /\ EventOK(e) BY DEF PayInv, PayTypes, PayStages, Event
    <3> QED BY <1>8, <3>1 DEF EventOK
  <2>3. ASSUME NEW r \in Requests PROVE RequestOK(r)'
    <3>1. RequestOK(r) /\ request[r].of \in Subscriptions \cup {None}
      BY DEF PayInv, PayStages, PayTypes, Asked
    <3> QED BY <1>2, <1>8, <3>1 DEF RequestOK
  <2> QED BY <1>2, <2>1, <2>2, <2>3 DEF PayStages
<1>10. Versions' BY <1>2, <1>8, SMTT(30) DEF PayInv, Versions
<1>11. ASSUME overlap' = "no" PROVE OneOnly'
  <2>1. OneOnly BY <1>6, <1>11 DEF PayInv
  <2>2. /\ \A o \in Subscriptions : session[o] # "open" /\ (session[o] = "paid" => billing.customer # None)
        /\ \A o \in Subscriptions : sub[o].tier # None => sub[o].customer # billing.customer
    BY <1>11 DEF Create, NewSession, Live
  <2>3. \A o \in Subscriptions : SubOK(o) /\ session[o] \in {"none", "open", "paid", "done"}
    BY DEF PayInv, PayStages, PayTypes
  <2>4. \A o \in Subscriptions : Made(o) => billing.customer # None /\ sub[o].customer = billing.customer
    BY <2>1, <2>2, <2>3 DEF Made, SubOK, OneOnly
  <2>5. billing.customer # None => cust = billing.customer BY DEF cust
  <2>6. \A o \in Subscriptions : Made(o)' => Made(o) \/ o = s BY <1>5 DEF Made
  <2>7. \A o \in Subscriptions : Made(o)' => \/ o = s /\ sub'[o].customer = cust
                                             \/ Made(o) /\ sub'[o].customer = billing.customer
    BY <1>4, <1>5, <2>4, <2>6
  <2>8. \A o \in Subscriptions : sub[o].tier = None
    BY <2>2, <2>3, <2>4 DEF SubOK, Paid, Made
  <2>9. \A o \in Candidates' : o = s BY <1>5, <1>8, <2>2, <2>8 DEF Candidates
  <2> QED BY <1>2, <1>8, <2>4, <2>5, <2>7, <2>8, <2>9, SMTT(30) DEF OneOnly
<1>12. ASSUME overlap' = "no", mixed' = "no" PROVE Mirrors'
  <2>1. Mirrors BY <1>2, <1>6, <1>12 DEF PayInv
  <2>2. ASSUME NEW o \in Subscriptions, Latest(o)' PROVE Latest(o) /\ Target(o)' = Target(o) /\ sub'[o].tier = sub[o].tier
    <3>1. o # s BY <1>2, <1>3, <1>8, <2>2, SMTT(30) DEF Latest
    <3> QED BY <1>2, <1>5, <2>2, <3>1 DEF Latest, Target
  <2>3. ASSUME NEW r \in Requests PROVE Copying(r)' BY <1>2, <2>1, <2>2, SMTT(30) DEF Mirrors, Copying
  <2>4. Reflected' BY <1>2, <2>1, <2>2 DEF Mirrors, Reflected
  <2> QED BY <1>2, <2>1, <2>3, <2>4 DEF Mirrors
<1> QED BY <1>7, <1>9, <1>10, <1>11, <1>12 DEF PayInv

\* A request starts to copy version v of the subscription s, which is not older than what
\* was copied before unless the history says so.
LEMMA PayStart ==
  ASSUME PayInv, NEW r \in Requests, NEW s \in Subscriptions, NEW rec \in Asked, NEW v \in Nat,
         Start(r, rec, v), UNCHANGED <<session, sub, version, events, tier, billing, overlap>>,
         Paid(s), 0 < v, v <= sub[s].version, rec.customer = sub[s].customer, rec.step = "user",
         rec.of # None => Paid(rec.of), rec.event # None => rec.event.version = v,
         v = sub[s].version => rec.copy = Copy(s, sub[s].tier, sub[s].version)
  PROVE  PayInv'
<1>1. /\ request[r] = Idle /\ request' = [request EXCEPT ![r] = rec]
      /\ newest' = IF mixed' = "yes" THEN 0 ELSE v
  BY DEF Start
<1>2. /\ mixed' \in {"yes", "no"}
      /\ mixed' = "no" => mixed = "no" /\ ~(v < newest) /\ \A o \in Requests : request[o] = Idle
  BY DEF Start, PayInv, PayTypes
<1>3. request'[r] = rec /\ \A q \in Requests : q # r => request'[q] = request[q]
  BY <1>1 DEF PayInv, PayTypes
<1>4. PayTypes' BY <1>1, <1>2 DEF PayInv, PayTypes
<1>5. \A o \in Subscriptions : (SubOK(o) => SubOK(o)') /\ (Paid(o)' <=> Paid(o)) /\ SubOK(o)
  BY DEF SubOK, Paid, Made, PayInv, PayStages
<1>6. PayStages'
  <2>1. \A e \in events : EventOK(e)' BY DEF EventOK, Paid, PayInv, PayStages
  <2>2. ASSUME NEW q \in Requests PROVE RequestOK(q)'
    <3>1. RequestOK(q) BY DEF PayInv, PayStages
    <3>2. CASE q = r
      <4>1. sub[s].customer # None BY <1>5 DEF SubOK, Paid, Made
      <4> QED BY <1>3, <1>5, <3>2, <4>1 DEF RequestOK, Paid
    <3>3. CASE q # r BY <1>3, <1>5, <3>1, <3>3 DEF RequestOK, Paid
    <3> QED BY <3>2, <3>3
  <2> QED BY <1>5, <2>1, <2>2 DEF PayStages
<1>7. version > 0 /\ v <= version /\ sub[s].version \in Nat /\ sub[s].version <= version /\ version \in Nat
  BY <1>5, SMTT(30) DEF SubOK, PayInv, PayTypes, AtStripe
<1>8. Versions' BY <1>7, SMTT(30) DEF PayInv, Versions
<1>9. overlap = "no" => OneOnly' BY DEF PayInv, OneOnly, Made, Candidates
<1>10. ASSUME overlap = "no", mixed' = "no" PROVE Mirrors'
  <2>1. Mirrors /\ newest \in Nat /\ newest <= v /\ newest' = v
    BY <1>1, <1>2, <1>10, SMTT(30) DEF PayInv, PayTypes
  <2>2. ASSUME NEW o \in Subscriptions, Latest(o), v = version PROVE o = s
    BY <1>7, <2>2, SMTT(30) DEF Latest, PayInv, Versions
  <2>3. ASSUME NEW q \in Requests PROVE Copying(q)'
    <3>1. CASE q = r
      <4>1. ASSUME v = version PROVE rec.copy = Target(s).sub /\ rec.customer = Target(s).customer
        <5>1. sub[s].version = version /\ v = sub[s].version BY <1>7, <4>1, SMTT(30)
        <5>2. rec.copy = Copy(s, sub[s].tier, version) BY <5>1
        <5> QED BY <5>2 DEF Target
      <4>2. \A o \in Subscriptions : (Latest(o)' <=> Latest(o)) /\ Target(o)' = Target(o)
        BY DEF Latest, Target
      <4>3. \A o \in Subscriptions : Latest(o)' /\ newest' = version' =>
              rec.copy = Target(o)'.sub /\ rec.customer = Target(o)'.customer
        BY <2>1, <2>2, <4>1, <4>2
      <4>4. newest' > 0 /\ (rec.event # None => rec.event.version = newest') BY <2>1
      <4>5. request'[q] = rec BY <1>3, <3>1
      <4> QED BY <4>3, <4>4, <4>5 DEF Copying
    <3>2. CASE q # r BY <1>2, <1>3, <1>10, <3>2 DEF Copying
    <3> QED BY <3>1, <3>2
  <2>4. Reflected'
    <3>1. Reflected BY <2>1 DEF Mirrors
    <3>2. \A o \in Subscriptions : (Latest(o)' <=> Latest(o)) /\ Target(o)' = Target(o)
      BY DEF Latest, Target
    <3> QED BY <1>7, <2>1, <3>1, <3>2, SMTT(30) DEF Reflected
  <2> QED BY <1>2, <1>3, <1>7, <1>10, <2>1, <2>3, <2>4 DEF Mirrors
<1> QED BY <1>4, <1>6, <1>8, <1>9, <1>10 DEF PayInv

\* A request that goes on.
LEMMA GotoType ==
  ASSUME PayTypes, NEW r \in Requests, NEW step_ \in {"user", "tier", "billing", "done"},
         NEW had \in Tiers \cup {None}, Goto(r, step_, had)
  PROVE  /\ request' \in [Requests -> Asked]
         /\ request'[r].step = step_ /\ request'[r].had = had /\ request'[r].of = request[r].of
         /\ request'[r].customer = request[r].customer /\ request'[r].event = request[r].event
         /\ request'[r].copy = request[r].copy
         /\ \A q \in Requests : q # r => request'[q] = request[q]
<1> DEFINE new == [step |-> step_, of |-> request[r].of, customer |-> request[r].customer,
                   event |-> request[r].event, copy |-> request[r].copy, had |-> had]
<1>1. request' = [request EXCEPT ![r] = new] BY DEF Goto
<1>2. /\ new \in Asked /\ new.step = step_ /\ new.had = had /\ new.of = request[r].of
      /\ new.customer = request[r].customer /\ new.event = request[r].event
      /\ new.copy = request[r].copy
  BY DEF PayTypes, Asked
<1> HIDE DEF new
<1> QED BY <1>1, <1>2 DEF PayTypes

\* What a request that goes on leaves true, whatever it writes.
LEMMA PayGoes ==
  ASSUME PayInv, NEW r \in Requests, NEW step_ \in {"user", "tier", "billing", "done"},
         NEW had \in Tiers \cup {None}, Goto(r, step_, had), request[r].step # "idle",
         UNCHANGED <<session, sub, version, events, newest, mixed, overlap>>,
         billing.customer # None => billing'.customer # None,
         step_ = "done" => billing'.customer # None
  PROVE  /\ PayStages' /\ Versions' /\ version > 0 /\ request[r] # Idle
         /\ \A o \in Subscriptions : (Latest(o)' <=> Latest(o)) /\ Target(o)' = Target(o)
         /\ overlap = "no" /\ mixed = "no" => \A q \in Requests : q # r => request'[q] = Idle
<1>1. PayTypes BY DEF PayInv
<1>2. /\ request'[r].step = step_ /\ request'[r].of = request[r].of
      /\ request'[r].customer = request[r].customer
      /\ \A q \in Requests : q # r => request'[q] = request[q]
  BY <1>1, GotoType
<1>3. request[r] # Idle BY SMTT(30) DEF Idle
<1>4. version > 0 BY <1>3, SMTT(30) DEF PayInv, PayTypes, Versions
<1>5. \A o \in Subscriptions : (Paid(o)' <=> Paid(o)) /\ (Made(o)' <=> Made(o)) BY DEF Paid, Made
<1>6. PayStages'
  <2>1. \A o \in Subscriptions : SubOK(o)' BY <1>5 DEF SubOK, PayInv, PayStages
  <2>2. \A e \in events : EventOK(e)' BY DEF EventOK, Paid, PayInv, PayStages
  <2>3. ASSUME NEW q \in Requests PROVE RequestOK(q)'
    <3>1. RequestOK(q) /\ request[q].of \in Subscriptions \cup {None}
      BY DEF PayInv, PayStages, PayTypes, Asked
    <3>2. CASE q = r BY <1>2, <1>5, <3>1, <3>2 DEF RequestOK
    <3>3. CASE q # r BY <1>2, <1>5, <3>1, <3>3 DEF RequestOK
    <3> QED BY <3>2, <3>3
  <2> QED BY <2>1, <2>2, <2>3 DEF PayStages
<1>7. Versions' BY <1>4, SMTT(30) DEF PayInv, Versions
<1>8. \A o \in Subscriptions : (Latest(o)' <=> Latest(o)) /\ Target(o)' = Target(o)
  BY DEF Latest, Target
<1>9. overlap = "no" /\ mixed = "no" => \A q \in Requests : q # r => request'[q] = Idle
  BY <1>2, <1>3 DEF PayInv, Mirrors
<1> QED BY <1>3, <1>4, <1>6, <1>7, <1>8, <1>9

LEMMA PayReadUser == ASSUME PayInv, NEW r \in Requests, ReadUser(r) PROVE PayInv'
<1>1. /\ request[r].step = "user" /\ Goto(r, "tier", tier)
      /\ UNCHANGED <<session, sub, version, events, tier, billing, newest, mixed, overlap>>
  BY DEF ReadUser, atStripe, user
<1>2. PayTypes /\ tier \in Tiers \cup {None} BY DEF PayInv, PayTypes
<1>3. /\ request' \in [Requests -> Asked]
      /\ request'[r].step = "tier" /\ request'[r].had = tier
      /\ request'[r].customer = request[r].customer /\ request'[r].event = request[r].event
      /\ request'[r].copy = request[r].copy
  BY <1>1, <1>2, GotoType
<1>4. /\ PayStages' /\ Versions' /\ request[r] # Idle
      /\ \A o \in Subscriptions : (Latest(o)' <=> Latest(o)) /\ Target(o)' = Target(o)
      /\ overlap = "no" /\ mixed = "no" => \A q \in Requests : q # r => request'[q] = Idle
  BY <1>1, <1>2, PayGoes
<1>5. PayTypes' BY <1>1, <1>2, <1>3 DEF PayTypes
<1>6. overlap = "no" => OneOnly' BY <1>1 DEF PayInv, OneOnly, Made, Candidates
<1>7. ASSUME overlap = "no", mixed = "no" PROVE Mirrors'
  <2>1. Mirrors BY <1>7 DEF PayInv
  <2>2. Copying(r)' BY <1>1, <1>3, <1>4, <2>1 DEF Mirrors, Copying
  <2>3. \A q \in Requests : q # r => Copying(q)' BY <1>4, <1>7 DEF Copying
  <2>4. Reflected' BY <1>1, <1>4, <2>1 DEF Mirrors, Reflected
  <2> QED BY <1>1, <1>4, <1>7, <2>1, <2>2, <2>3, <2>4 DEF Mirrors
<1> QED BY <1>1, <1>4, <1>5, <1>6, <1>7 DEF PayInv

\* The tier that was read is still the user's, so that theirs is now that of the copy.
LEMMA PayChangeTier == ASSUME PayInv, NEW r \in Requests, ChangeTier(r) PROVE PayInv'
<1>1. /\ request[r].step = "tier" /\ Goto(r, "billing", request[r].had)
      /\ tier' = IF request[r].copy.tier # request[r].had THEN request[r].copy.tier ELSE tier
      /\ UNCHANGED <<session, sub, version, events, billing, newest, mixed, overlap>>
  BY DEF ChangeTier, atStripe
<1>2. PayTypes /\ request[r] \in Asked /\ request[r].had \in Tiers \cup {None}
      /\ request[r].copy.tier \in Tiers \cup {None}
  BY DEF PayInv, PayTypes, Asked, Copies
<1>3. /\ request' \in [Requests -> Asked]
      /\ request'[r].step = "billing"
      /\ request'[r].customer = request[r].customer /\ request'[r].event = request[r].event
      /\ request'[r].copy = request[r].copy
  BY <1>1, <1>2, GotoType
<1>4. /\ PayStages' /\ Versions' /\ version > 0 /\ request[r] # Idle
      /\ \A o \in Subscriptions : (Latest(o)' <=> Latest(o)) /\ Target(o)' = Target(o)
      /\ overlap = "no" /\ mixed = "no" => \A q \in Requests : q # r => request'[q] = Idle
  BY <1>1, <1>2, PayGoes
<1>5. PayTypes' BY <1>1, <1>2, <1>3 DEF PayTypes
<1>6. overlap = "no" => OneOnly' BY <1>1 DEF PayInv, OneOnly, Made, Candidates
<1>7. ASSUME overlap = "no", mixed = "no" PROVE Mirrors'
  <2>1. Mirrors BY <1>7 DEF PayInv
  <2>2. tier' = request[r].copy.tier BY <1>1, <1>4, <2>1 DEF Mirrors, Copying
  <2>3. Copying(r)' BY <1>1, <1>3, <1>4, <2>1, <2>2 DEF Mirrors, Copying
  <2>4. \A q \in Requests : q # r => Copying(q)' BY <1>4, <1>7 DEF Copying
  <2>5. Reflected'
    <3>1. Reflected /\ Copying(r) BY <2>1 DEF Mirrors
    <3>2. ASSUME NEW o \in Subscriptions, Latest(o), newest = version PROVE tier' = sub[o].tier
      <4>1. request[r].copy = Target(o).sub BY <1>4, <3>1, <3>2 DEF Copying
      <4>2. Target(o).sub.tier = sub[o].tier BY DEF Target, Copy, NoSub
      <4> QED BY <2>2, <4>1, <4>2
    <3> QED BY <1>1, <1>4, <3>1, <3>2 DEF Reflected
  <2> QED BY <1>1, <1>4, <1>7, <2>1, <2>3, <2>4, <2>5 DEF Mirrors
<1> QED BY <1>1, <1>4, <1>5, <1>6, <1>7 DEF PayInv

LEMMA PayChangeBilling == ASSUME PayInv, NEW r \in Requests, ChangeBilling(r) PROVE PayInv'
<1>1. /\ request[r].step = "billing" /\ Goto(r, "done", request[r].had)
      /\ billing' = [customer |-> request[r].customer, sub |-> request[r].copy]
      /\ UNCHANGED <<session, sub, version, events, tier, newest, mixed, overlap>>
  BY DEF ChangeBilling, atStripe
<1>2. PayTypes /\ request[r] \in Asked /\ request[r].had \in Tiers \cup {None}
      /\ request[r].customer \in Subscriptions \cup {None} /\ request[r].copy \in Copies
  BY DEF PayInv, PayTypes, Asked
<1>3. /\ request' \in [Requests -> Asked]
      /\ request'[r].step = "done"
      /\ request'[r].customer = request[r].customer /\ request'[r].event = request[r].event
      /\ request'[r].copy = request[r].copy
  BY <1>1, <1>2, GotoType
<1>4. billing'.customer = request[r].customer /\ request[r].customer # None
      /\ \E s \in Subscriptions : Paid(s) /\ request[r].customer = sub[s].customer
  BY <1>1 DEF PayInv, PayStages, RequestOK
<1>5. /\ PayStages' /\ Versions' /\ version > 0 /\ request[r] # Idle
      /\ \A o \in Subscriptions : (Latest(o)' <=> Latest(o)) /\ Target(o)' = Target(o)
      /\ overlap = "no" /\ mixed = "no" => \A q \in Requests : q # r => request'[q] = Idle
  BY <1>1, <1>2, <1>4, PayGoes
<1>6. PayTypes' BY <1>1, <1>2, <1>3 DEF PayTypes
<1>7. overlap = "no" => OneOnly' BY <1>1, <1>4 DEF PayInv, OneOnly, Made, Candidates, Paid
<1>8. ASSUME overlap = "no", mixed = "no" PROVE Mirrors'
  <2>1. Mirrors BY <1>8 DEF PayInv
  <2>2. Copying(r)' BY <1>1, <1>3, <1>5, <2>1 DEF Mirrors, Copying
  <2>3. \A q \in Requests : q # r => Copying(q)' BY <1>5, <1>8 DEF Copying
  <2>4. Reflected'
    <3>1. Reflected /\ Copying(r) BY <2>1 DEF Mirrors
    <3>2. ASSUME NEW o \in Subscriptions, Latest(o), newest = version PROVE billing' = Target(o)
      <4>1. request[r].copy = Target(o).sub /\ request[r].customer = Target(o).customer
        BY <1>5, <3>1, <3>2 DEF Copying
      <4> QED BY <1>1, <4>1 DEF Target
    <3> QED BY <1>1, <1>5, <3>1, <3>2 DEF Reflected
  <2> QED BY <1>1, <1>5, <1>8, <2>1, <2>2, <2>3, <2>4 DEF Mirrors
<1> QED BY <1>1, <1>5, <1>6, <1>7, <1>8 DEF PayInv

\* A request returns, with an error or not, and leaves everything but the request.
LEMMA PayReturn ==
  ASSUME PayInv, NEW r \in Requests, Return(r), request[r].step # "idle",
         UNCHANGED <<session, sub, version, events, tier, billing, newest, mixed, overlap>>
  PROVE  PayInv'
<1>1. request' = [request EXCEPT ![r] = Idle] BY DEF Return
<1>2. Idle \in Asked /\ Idle.step = "idle" /\ Idle.of = None
  BY DEF Idle, NoSub, Asked, Copies
<1>3. request'[r] = Idle /\ \A q \in Requests : q # r => request'[q] = request[q]
  BY <1>1 DEF PayInv, PayTypes
<1>4. PayTypes' BY <1>1, <1>2 DEF PayInv, PayTypes
<1>5. PayStages'
  <2>1. \A o \in Subscriptions : SubOK(o)' BY DEF SubOK, Paid, Made, PayInv, PayStages
  <2>2. \A e \in events : EventOK(e)' BY DEF EventOK, Paid, PayInv, PayStages
  <2>3. ASSUME NEW q \in Requests PROVE RequestOK(q)'
    <3>1. RequestOK(q) BY DEF PayInv, PayStages
    <3>2. CASE q = r BY <1>2, <1>3, <3>2 DEF RequestOK
    <3>3. CASE q # r BY <1>3, <3>1, <3>3 DEF RequestOK, Paid
    <3> QED BY <3>2, <3>3
  <2> QED BY <2>1, <2>2, <2>3 DEF PayStages
<1>6. Versions' BY <1>3 DEF PayInv, Versions
<1>7. overlap = "no" => OneOnly' BY DEF PayInv, OneOnly, Made, Candidates
<1>8. ASSUME overlap = "no", mixed = "no" PROVE Mirrors'
  <2>1. Mirrors BY <1>8 DEF PayInv
  <2>2. ASSUME NEW q \in Requests PROVE Copying(q)'
    <3>1. CASE q = r BY <1>3, <3>1 DEF Copying
    <3>2. CASE q # r BY <1>3, <2>1, <3>2, SMTT(30) DEF Mirrors, Copying, Latest, Target
    <3> QED BY <3>1, <3>2
  <2>3. Reflected' BY <2>1 DEF Mirrors, Reflected, Latest, Target
  <2> QED BY <1>3, <2>1, <2>2, <2>3 DEF Mirrors
<1> QED BY <1>4, <1>5, <1>6, <1>7, <1>8 DEF PayInv

\* Stripe forgets the webhook only when the user's fields are those it told of.
LEMMA PayDone == ASSUME PayInv, NEW r \in Requests, Done(r) PROVE PayInv'
<1>1. /\ request[r].step = "done" /\ request' = [request EXCEPT ![r] = Idle]
      /\ events' = events \ {request[r].event}
      /\ session' = IF request[r].of = None THEN session
                    ELSE [session EXCEPT ![request[r].of] = "done"]
      /\ UNCHANGED <<sub, version, tier, billing, newest, mixed, overlap>>
  BY DEF Done, Return, user
<1>2. Idle \in Asked /\ Idle.step = "idle" /\ Idle.of = None
  BY DEF Idle, NoSub, Asked, Copies
<1>3. request'[r] = Idle /\ \A q \in Requests : q # r => request'[q] = request[q]
  BY <1>1 DEF PayInv, PayTypes
<1>4. /\ RequestOK(r) /\ request[r] # Idle /\ billing.customer # None
      /\ request[r].of \in Subscriptions \cup {None} /\ request[r].event \in Event \cup {None}
  BY <1>1, <1>2 DEF PayInv, PayStages, PayTypes, Asked, RequestOK
<1>5. session' \in [Subscriptions -> {"none", "open", "paid", "done"}] BY <1>1, <1>4 DEF PayInv, PayTypes
<1>6. PayTypes'
  <2>1. events' \in SUBSET Event /\ request' \in [Requests -> Asked]
    BY <1>1, <1>2 DEF PayInv, PayTypes
  <2> QED BY <1>1, <1>5, <2>1 DEF PayInv, PayTypes
<1>7. \A o \in Subscriptions : /\ Paid(o)' <=> Paid(o)
                               /\ Made(o)' <=> Made(o)
                               /\ session'[o] = "open" <=> session[o] = "open"
  BY <1>1, <1>4 DEF PayInv, PayTypes, RequestOK, Paid, Made
<1>8. PayStages'
  <2>1. ASSUME NEW o \in Subscriptions PROVE SubOK(o)'
    BY <1>1, <1>4, <1>7 DEF SubOK, PayInv, PayStages
  <2>2. ASSUME NEW e \in events PROVE EventOK(e)'
    <3>1. e.id \in Subscriptions /\ EventOK(e) BY DEF PayInv, PayTypes, PayStages, Event
    <3> QED BY <1>1, <1>7, <3>1 DEF EventOK
  <2>3. ASSUME NEW q \in Requests PROVE RequestOK(q)'
    <3>1. RequestOK(q) /\ request[q].of \in Subscriptions \cup {None}
      BY DEF PayInv, PayStages, PayTypes, Asked
    <3>2. CASE q = r BY <1>2, <1>3, <3>2 DEF RequestOK
    <3>3. CASE q # r BY <1>1, <1>3, <1>7, <3>1, <3>3 DEF RequestOK
    <3> QED BY <3>2, <3>3
  <2> QED BY <1>1, <2>1, <2>2, <2>3 DEF PayStages
<1>9. Versions' BY <1>1, <1>3 DEF PayInv, Versions
<1>10. ASSUME overlap = "no" PROVE OneOnly'
  <2>1. OneOnly BY <1>10 DEF PayInv
  <2>2. Candidates' = Candidates BY <1>1, <1>7 DEF Candidates
  <2> QED BY <1>1, <1>7, <2>1, <2>2 DEF OneOnly
<1>11. ASSUME overlap = "no", mixed = "no" PROVE Mirrors'
  <2>1. Mirrors BY <1>11 DEF PayInv
  <2>2. \A o \in Subscriptions : (Latest(o)' <=> Latest(o)) /\ Target(o)' = Target(o)
    BY <1>1 DEF Latest, Target
  <2>3. \A q \in Requests : request'[q] = Idle BY <1>3, <1>4, <2>1 DEF Mirrors
  <2>4. \A q \in Requests : Copying(q)' BY <2>3 DEF Copying
  <2>5. Reflected'
    <3> SUFFICES ASSUME version' > 0, \A e \in events' : e.version # version'
                 PROVE  /\ newest = version
                        /\ \A o \in Subscriptions : Latest(o) => tier = sub[o].tier /\ billing = Target(o)
      BY <1>1, <2>2 DEF Reflected
    <3>1. Reflected /\ Copying(r) BY <2>1 DEF Mirrors
    <3>2. CASE \A e \in events : e.version # version BY <1>1, <3>1, <3>2 DEF Reflected
    <3>3. CASE \E e \in events : e.version = version
      <4>1. PICK e \in events : e.version = version BY <3>3
      <4>2. e = request[r].event BY <1>1, <4>1
      <4>3. newest = version
        BY <1>4, <3>1, <4>1, <4>2, PaymentsAssumption DEF Copying, PayInv, PayTypes
      <4>4. ASSUME NEW o \in Subscriptions, Latest(o) PROVE tier = sub[o].tier /\ billing = Target(o)
        <5>1. request[r].copy = Target(o).sub /\ request[r].customer = Target(o).customer
          BY <1>4, <3>1, <4>3, <4>4 DEF Copying
        <5>2. tier = request[r].copy.tier
              /\ billing = [customer |-> request[r].customer, sub |-> request[r].copy]
          BY <1>1, <1>4, <3>1 DEF Copying
        <5>3. Target(o).sub.tier = sub[o].tier BY DEF Target, Copy, NoSub
        <5>4. [customer |-> Target(o).customer, sub |-> Target(o).sub] = Target(o) BY DEF Target
        <5> QED BY <5>1, <5>2, <5>3, <5>4
      <4> QED BY <4>3, <4>4
    <3> QED BY <3>2, <3>3
  <2> QED BY <1>1, <2>1, <2>3, <2>4, <2>5 DEF Mirrors
<1> QED BY <1>1, <1>6, <1>8, <1>9, <1>10, <1>11 DEF PayInv

LEMMA PayInit == Init => PayInv
<1> SUFFICES ASSUME Init PROVE PayInv
  OBVIOUS
<1>1. Idle \in Asked /\ Idle.step = "idle" /\ Idle.of = None /\ NoSub \in Copies
  BY DEF Idle, NoSub, Asked, Copies
<1>2. /\ session = [s \in Subscriptions |-> "none"]
      /\ sub = [s \in Subscriptions |-> [customer |-> None, tier |-> None, version |-> 0]]
      /\ version = 0 /\ events = {} /\ tier = None
      /\ billing = [customer |-> None, sub |-> NoSub]
      /\ request = [r \in Requests |-> Idle]
      /\ newest = 0 /\ mixed = "no" /\ overlap = "no"
  BY DEF Init
<1>3. PayTypes BY <1>1, <1>2 DEF PayTypes, AtStripe
<1>4. PayStages BY <1>1, <1>2, SMTT(30) DEF PayStages, SubOK, RequestOK, Paid, Made
<1>5. Versions BY <1>2, SMTT(30) DEF Versions
<1>6. OneOnly BY <1>2 DEF OneOnly, Made, Candidates
<1>7. Mirrors BY <1>2, SMTT(30) DEF Mirrors, Copying, Reflected
<1> QED BY <1>3, <1>4, <1>5, <1>6, <1>7 DEF PayInv

LEMMA PayStep == PayInv /\ [Next]_vars => PayInv'
<1> SUFFICES ASSUME PayInv, [Next]_vars PROVE PayInv'
  OBVIOUS
<1>1. ASSUME NEW s \in Subscriptions, Create(s) PROVE PayInv' BY <1>1, PayCreate
<1>2. ASSUME NEW s \in Subscriptions, NEW t \in Tiers, Checkout(s, t) PROVE PayInv'
  <2>1. /\ session[s] = "open" /\ session' = [session EXCEPT ![s] = "paid"] /\ Change(s, t)
        /\ UNCHANGED <<tier, billing, request, newest, mixed, overlap>>
    BY <1>2 DEF Checkout, user
  <2>2. PaidFor(s) BY <2>1 DEF PaidFor
  <2>3. s \in Candidates BY <2>1 DEF Candidates
  <2> QED BY <2>1, <2>2, <2>3, PayChange
<1>3. ASSUME NEW s \in Subscriptions, NEW t \in Tiers \cup {None}, s \in Live, Change(s, t),
             UNCHANGED <<session, tier, billing, request, newest, mixed, overlap>>
      PROVE  PayInv'
  <2>1. s \in Candidates BY <1>3 DEF Live, Candidates
  <2>2. session[s] # "open" BY <1>3 DEF Live, PayInv, PayStages, SubOK, Paid
  <2>3. PaidFor(s) BY <1>3, <2>2 DEF PayInv, PayTypes, PaidFor
  <2> QED BY <1>3, <2>1, <2>3, PayChange
<1>4. ASSUME NEW s \in Subscriptions, NEW t \in Tiers \cup {None}, EndPeriod(s, t) PROVE PayInv'
  BY <1>3, <1>4 DEF EndPeriod, user
<1>5. Live \subseteq Subscriptions /\ \A s \in Subscriptions : sub[s].tier \in Tiers \cup {None}
  BY DEF Live, PayInv, PayTypes, AtStripe
<1>6. ASSUME NEW t \in Tiers, Update(t) PROVE PayInv'
  BY <1>3, <1>5, <1>6 DEF Update, user
<1>7. CASE Delete BY <1>3, <1>5, <1>7 DEF Delete, user
<1>8. ASSUME NEW r \in Requests, NEW s \in Subscriptions, Success(r, s) PROVE PayInv'
  <2> DEFINE rec == [step |-> "user", of |-> s, customer |-> sub[s].customer, event |-> None,
                     copy |-> Copy(s, sub[s].tier, sub[s].version), had |-> None]
  <2>1. /\ Paid(s) /\ Start(r, rec, sub[s].version)
        /\ UNCHANGED <<session, sub, version, events, tier, billing, overlap>>
    BY <1>8 DEF Success, atStripe, user, Paid
  <2>2. sub[s] \in AtStripe /\ sub[s].version \in Nat /\ sub[s].version > 0
    BY <2>1 DEF PayInv, PayTypes, AtStripe, PayStages, SubOK
  <2>3. Copy(s, sub[s].tier, sub[s].version) \in Copies
    BY <2>2 DEF Copy, NoSub, Copies, AtStripe
  <2>4. /\ rec \in Asked /\ rec.customer = sub[s].customer /\ rec.step = "user" /\ rec.of = s
        /\ rec.event = None /\ rec.copy = Copy(s, sub[s].tier, sub[s].version)
    BY <2>2, <2>3 DEF Asked, AtStripe
  <2> HIDE DEF rec
  <2> QED BY <2>1, <2>2, <2>4, PayStart, SMTT(30)
<1>9. ASSUME NEW r \in Requests, NEW e \in events, Webhook(r, e) PROVE PayInv'
  <2> DEFINE rec == [step |-> "user", of |-> None, customer |-> e.customer, event |-> e,
                     copy |-> Copy(e.id, e.tier, e.version), had |-> None]
  <2>1. /\ Start(r, rec, e.version)
        /\ UNCHANGED <<session, sub, version, events, tier, billing, overlap>>
    BY <1>9 DEF Webhook, atStripe, user
  <2>2. e \in Event /\ e.id \in Subscriptions /\ e.version \in Nat /\ EventOK(e)
    BY DEF PayInv, PayTypes, PayStages, Event
  <2>3. Copy(e.id, e.tier, e.version) \in Copies
    BY <2>2 DEF Copy, NoSub, Copies, Event
  <2>4. /\ rec \in Asked /\ rec.customer = e.customer /\ rec.step = "user" /\ rec.of = None
        /\ rec.event = e /\ rec.copy = Copy(e.id, e.tier, e.version)
    BY <2>2, <2>3 DEF Asked, Event
  <2>5. /\ Paid(e.id) /\ 0 < e.version /\ e.version <= sub[e.id].version
        /\ rec.customer = sub[e.id].customer
        /\ e.version = sub[e.id].version =>
             rec.copy = Copy(e.id, sub[e.id].tier, sub[e.id].version)
    BY <2>2, <2>4 DEF EventOK
  <2> HIDE DEF rec
  <2> QED BY <2>1, <2>2, <2>4, <2>5, PayStart
<1>10. ASSUME NEW r \in Requests, ReadUser(r) PROVE PayInv' BY <1>10, PayReadUser
<1>11. ASSUME NEW r \in Requests, NoUser(r) PROVE PayInv'
  <2>1. /\ request[r].step = "user" /\ Return(r)
        /\ UNCHANGED <<session, sub, version, events, tier, billing, newest, mixed, overlap>>
    BY <1>11 DEF NoUser, atStripe, user
  <2> QED BY <2>1, PayReturn
<1>12. ASSUME NEW r \in Requests, ChangeTier(r) PROVE PayInv' BY <1>12, PayChangeTier
<1>13. ASSUME NEW r \in Requests, ChangeBilling(r) PROVE PayInv' BY <1>13, PayChangeBilling
<1>14. ASSUME NEW r \in Requests, Done(r) PROVE PayInv' BY <1>14, PayDone
<1>15. ASSUME NEW r \in Requests, Error(r) PROVE PayInv'
  <2>1. /\ request[r].step \in {"user", "tier", "billing", "done"} /\ Return(r)
        /\ UNCHANGED <<session, sub, version, events, tier, billing, newest, mixed, overlap>>
    BY <1>15 DEF Error, atStripe, user
  <2> QED BY <2>1, PayReturn
<1>16. CASE UNCHANGED vars
  <2>1. UNCHANGED <<session, sub, version, events, tier, billing, request, newest, mixed, overlap>>
    BY <1>16 DEF vars, atStripe, user
  <2>2. PayTypes' BY <2>1 DEF PayInv, PayTypes
  <2>3. PayStages' BY <2>1 DEF PayInv, PayStages, SubOK, EventOK, RequestOK, Paid, Made
  <2>4. Versions' BY <2>1 DEF PayInv, Versions
  <2>5. overlap = "no" => OneOnly' BY <2>1 DEF PayInv, OneOnly, Made, Candidates
  <2>6. overlap = "no" /\ mixed = "no" => Mirrors'
    BY <2>1 DEF PayInv, Mirrors, Copying, Reflected, Latest, Target
  <2> QED BY <2>1, <2>2, <2>3, <2>4, <2>5, <2>6 DEF PayInv
<1> QED BY <1>1, <1>2, <1>4, <1>6, <1>7, <1>8, <1>9, <1>10, <1>11, <1>12, <1>13, <1>14, <1>15,
           <1>16 DEF Next

\* Stripe bills a user for one subscription at most, unless checkout sessions overlapped.
THEOREM Billing == Spec => []OneSubscription
<1>1. PayInv => OneSubscription
  BY DEF PayInv, OneOnly, Candidates, OneSubscription, Live
<1> QED BY <1>1, PayInit, PayStep, PTL DEF Spec

\* Once everything is delivered the user's tier and billing fields are those at Stripe,
\* whatever failed, unless webhooks came out of order or requests overlapped.
THEOREM Mirroring == Spec => []Mirrored
<1>1. PayInv => Mirrored
  <2> SUFFICES ASSUME PayInv, mixed = "no", overlap = "no", events = {}
               PROVE  IF Live = {} THEN tier = None /\ billing.sub = NoSub
                      ELSE \E s \in Live : /\ tier = sub[s].tier
                                               /\ billing = [customer |-> sub[s].customer,
                                                             sub |-> Copy(s, sub[s].tier, sub[s].version)]
    BY DEF Mirrored
  <2>1. OneOnly /\ Reflected /\ version \in Nat BY DEF PayInv, Mirrors, PayTypes
  <2>2. ASSUME version > 0, NEW s \in Subscriptions, sub[s].version = version
        PROVE  tier = sub[s].tier /\ billing = Target(s)
    BY <2>1, <2>2 DEF Reflected, Latest
  <2>3. CASE Live = {}
    <3>1. CASE version = 0 BY <2>3, <3>1 DEF PayInv, Versions
    <3>2. CASE version > 0
      <4>1. PICK s \in Subscriptions : sub[s].version = version BY <3>2 DEF PayInv, Versions
      <4>2. sub[s].tier = None BY <2>3 DEF Live
      <4>3. tier = None /\ billing = Target(s) BY <2>2, <3>2, <4>1, <4>2
      <4>4. Target(s).sub = NoSub BY <4>2 DEF Target, Copy
      <4> QED BY <2>3, <4>3, <4>4
    <3> QED BY <2>1, <3>1, <3>2, SMTT(30)
  <2>4. CASE Live # {}
    <3>1. PICK s \in Live : TRUE BY <2>4
    <3>2. s \in Subscriptions /\ sub[s].tier # None /\ sub[s].version = version
      BY <2>1, <3>1 DEF Live, OneOnly
    <3>3. version > 0 BY <3>2 DEF PayInv, PayStages, SubOK
    <3> QED BY <2>2, <2>4, <3>1, <3>2, <3>3 DEF Target
  <2> QED BY <2>3, <2>4
<1> QED BY <1>1, PayInit, PayStep, PTL DEF Spec

-------------------------------------------------------------------------------
(* Daily messages *)

\* Whatever is read, queued or written is a count the limiter has had.
Bounded ==
  /\ limiter # None => limiter <= Limit
  /\ queue # None => queue <= Limit
  /\ writing # None => writing <= Limit
  /\ db <= Limit
  /\ \A r \in Publishes : read[r] <= Limit

Today == accepted - late

\* The limiter counts at least the messages of the day.  Before the first request of a day
\* there are none, and only then a visitor is removed.
Counted ==
  /\ limiter # None => Today <= limiter
  /\ limiter = None => Today <= 0
  /\ Today > 0 => seen = resets
  /\ \A r \in Publishes : came[r] <= seen

\* Unless a count was astride the reset, none is of the day before.  During the reset this
\* is true of the limiter alone, as no visitor is made until it is over.
OfToday ==
  /\ resetting = "yes" => (limiter # None => limiter <= accepted)
  /\ resetting = "no" /\ astride = "no" =>
       /\ limiter # None => limiter <= accepted
       /\ queue # None => queue <= accepted
       /\ writing # None => writing <= accepted
       /\ db <= accepted
       /\ \A r \in Publishes : req[r] \in {"authenticated", "counted"} => read[r] <= accepted

IInv == Stats!TypeOK /\ Bounded /\ Counted /\ OfToday

\* Every step of a request, of the queue's writer and of the reset keeps the types.
LEMMA TypeStep == Stats!TypeOK /\ [Stats!Next]_(Stats!vars) => Stats!TypeOK'
<1> SUFFICES ASSUME Stats!TypeOK, [Stats!Next]_(Stats!vars) PROVE Stats!TypeOK'
  OBVIOUS
<1> USE StatsAssumption DEF Stats!TypeOK, Stats!Count, Stats!memory, Stats!manager, Stats!reset
<1>1. ASSUME NEW r \in Publishes, Stats!Authenticate(r) PROVE Stats!TypeOK'
  BY <1>1 DEF Stats!Authenticate
<1>2. ASSUME NEW r \in Publishes, Stats!Visit(r) PROVE Stats!TypeOK' BY <1>2, SMTT(30) DEF Stats!Visit
<1>3. ASSUME NEW r \in Publishes, Stats!MessageAllowed(r) PROVE Stats!TypeOK'
  BY <1>3, SMTT(30) DEF Stats!MessageAllowed
<1>4. ASSUME NEW r \in Publishes, Stats!MessageRefused(r) PROVE Stats!TypeOK'
  BY <1>4 DEF Stats!MessageRefused
<1>5. ASSUME NEW r \in Publishes, Stats!ReadStats(r) PROVE Stats!TypeOK' BY <1>5 DEF Stats!ReadStats
<1>6. ASSUME NEW r \in Publishes, Stats!EnqueueUserStats(r) PROVE Stats!TypeOK'
  BY <1>6 DEF Stats!EnqueueUserStats
<1>7. CASE Stats!TakeQueue BY <1>7 DEF Stats!TakeQueue
<1>8. CASE Stats!WriteQueue BY <1>8 DEF Stats!WriteQueue
<1>9. CASE Stats!ResetVisitors BY <1>9, SMTT(30) DEF Stats!ResetVisitors
<1>10. CASE Stats!ResetStats BY <1>10 DEF Stats!ResetStats
<1>11. CASE Stats!PruneVisitors BY <1>11 DEF Stats!PruneVisitors
<1>12. CASE UNCHANGED Stats!vars BY <1>12 DEF Stats!vars
<1> QED BY <1>1, <1>2, <1>3, <1>4, <1>5, <1>6, <1>7, <1>8, <1>9, <1>10, <1>11, <1>12 DEF Stats!Next

\* No count exceeds the limit: the limiter does not, and the others are copies of it.
LEMMA BoundedStep == Stats!TypeOK /\ Bounded /\ [Stats!Next]_(Stats!vars) => Bounded'
<1> SUFFICES ASSUME Stats!TypeOK, Bounded, [Stats!Next]_(Stats!vars) PROVE Bounded'
  OBVIOUS
<1> USE StatsAssumption DEF Stats!TypeOK, Bounded, Stats!Count, Stats!memory, Stats!manager, Stats!reset
<1>1. ASSUME NEW r \in Publishes, Stats!Authenticate(r) PROVE Bounded' BY <1>1 DEF Stats!Authenticate
<1>2. ASSUME NEW r \in Publishes, Stats!Visit(r) PROVE Bounded' BY <1>2 DEF Stats!Visit
<1>3. ASSUME NEW r \in Publishes, Stats!MessageAllowed(r) PROVE Bounded' BY <1>3 DEF Stats!MessageAllowed
<1>4. ASSUME NEW r \in Publishes, Stats!MessageRefused(r) PROVE Bounded' BY <1>4 DEF Stats!MessageRefused
<1>5. ASSUME NEW r \in Publishes, Stats!ReadStats(r) PROVE Bounded' BY <1>5 DEF Stats!ReadStats
<1>6. ASSUME NEW r \in Publishes, Stats!EnqueueUserStats(r) PROVE Bounded'
  BY <1>6 DEF Stats!EnqueueUserStats
<1>7. CASE Stats!TakeQueue BY <1>7 DEF Stats!TakeQueue
<1>8. CASE Stats!WriteQueue BY <1>8 DEF Stats!WriteQueue
<1>9. CASE Stats!ResetVisitors BY <1>9, SMTT(30) DEF Stats!ResetVisitors
<1>10. CASE Stats!ResetStats BY <1>10, SMTT(30) DEF Stats!ResetStats
<1>11. CASE Stats!PruneVisitors BY <1>11 DEF Stats!PruneVisitors
<1>12. CASE UNCHANGED Stats!vars BY <1>12 DEF Stats!vars
<1> QED BY <1>1, <1>2, <1>3, <1>4, <1>5, <1>6, <1>7, <1>8, <1>9, <1>10, <1>11, <1>12 DEF Stats!Next

\* Only MessageAllowed accepts, and counts in the limiter as well; a visitor whose limiter
\* has counted a message of the day is not removed on that day.
LEMMA CountedStep == Stats!TypeOK /\ Counted /\ [Stats!Next]_(Stats!vars) => Counted'
<1> SUFFICES ASSUME Stats!TypeOK, Counted, [Stats!Next]_(Stats!vars) PROVE Counted'
  OBVIOUS
<1> USE StatsAssumption DEF Stats!TypeOK, Counted, Stats!Count, Today, Stats!memory, Stats!manager,
                            Stats!reset
<1>1. ASSUME NEW r \in Publishes, Stats!Visit(r) PROVE Counted' BY <1>1, SMTT(30) DEF Stats!Visit
<1>2. ASSUME NEW r \in Publishes, Stats!MessageAllowed(r) PROVE Counted'
  BY <1>2, SMTT(30) DEF Stats!MessageAllowed
<1>3. CASE Stats!ResetVisitors BY <1>3, SMTT(30) DEF Stats!ResetVisitors
<1>4. CASE Stats!PruneVisitors BY <1>4, SMTT(30) DEF Stats!PruneVisitors
<1>5. ASSUME UNCHANGED <<Stats!memory, resets>> PROVE Counted' BY <1>5
<1>6. CASE \/ \E r \in Publishes : \/ Stats!Authenticate(r) \/ Stats!MessageRefused(r)
                                  \/ Stats!ReadStats(r) \/ Stats!EnqueueUserStats(r)
           \/ Stats!TakeQueue \/ Stats!WriteQueue \/ Stats!ResetStats \/ UNCHANGED Stats!vars
  BY <1>5, <1>6 DEF Stats!Authenticate, Stats!MessageRefused, Stats!ReadStats,
                    Stats!EnqueueUserStats, Stats!TakeQueue, Stats!WriteQueue,
     Stats!ResetStats, Stats!vars
<1> QED BY <1>1, <1>2, <1>3, <1>4, <1>6 DEF Stats!Next

\* A reset empties everything that holds a count, but for what is on its way.
LEMMA OfTodayStep == Stats!TypeOK /\ OfToday /\ [Stats!Next]_(Stats!vars) => OfToday'
<1> SUFFICES ASSUME Stats!TypeOK, OfToday, [Stats!Next]_(Stats!vars) PROVE OfToday'
  OBVIOUS
<1> USE StatsAssumption DEF Stats!TypeOK, OfToday, Stats!Count, Stats!memory, Stats!manager, Stats!reset
<1>1. ASSUME NEW r \in Publishes, Stats!Authenticate(r) PROVE OfToday' BY <1>1 DEF Stats!Authenticate
<1>2. ASSUME NEW r \in Publishes, Stats!Visit(r) PROVE OfToday' BY <1>2 DEF Stats!Visit
<1>3. ASSUME NEW r \in Publishes, Stats!MessageAllowed(r) PROVE OfToday'
  BY <1>3, SMTT(30) DEF Stats!MessageAllowed
<1>4. ASSUME NEW r \in Publishes, Stats!MessageRefused(r) PROVE OfToday' BY <1>4 DEF Stats!MessageRefused
<1>5. ASSUME NEW r \in Publishes, Stats!ReadStats(r) PROVE OfToday' BY <1>5 DEF Stats!ReadStats
<1>6. ASSUME NEW r \in Publishes, Stats!EnqueueUserStats(r) PROVE OfToday'
  BY <1>6 DEF Stats!EnqueueUserStats
<1>7. CASE Stats!TakeQueue BY <1>7 DEF Stats!TakeQueue
<1>8. CASE Stats!WriteQueue BY <1>8 DEF Stats!WriteQueue
<1>9. CASE Stats!ResetVisitors BY <1>9, SMTT(30) DEF Stats!ResetVisitors
<1>10. CASE Stats!ResetStats BY <1>10, SMTT(30) DEF Stats!ResetStats, Stats!OnTheirWay
<1>11. CASE Stats!PruneVisitors BY <1>11 DEF Stats!PruneVisitors
<1>12. CASE UNCHANGED Stats!vars BY <1>12 DEF Stats!vars
<1> QED BY <1>1, <1>2, <1>3, <1>4, <1>5, <1>6, <1>7, <1>8, <1>9, <1>10, <1>11, <1>12 DEF Stats!Next

LEMMA Inductive == Stats!Spec => []IInv
<1>1. Stats!Init => IInv
  BY StatsAssumption, SMTT(30) DEF Stats!Init, IInv, Stats!TypeOK, Bounded, Counted, OfToday,
                              Stats!Count, Today
<1>2. IInv /\ [Stats!Next]_(Stats!vars) => IInv'
  BY TypeStep, BoundedStep, CountedStep, OfTodayStep DEF IInv
<1> QED BY <1>1, <1>2, PTL DEF Stats!Spec

\* Of the requests that came after a reset no more than the limit are accepted.
THEOREM DailyLimit == Stats!Spec => []LimitRespected
<1>1. IInv => LimitRespected
  BY StatsAssumption, SMTT(30) DEF IInv, Stats!TypeOK, Bounded, Counted, Today, Stats!Count,
                              LimitRespected, Stats!LimitRespected
<1> QED BY Inductive, <1>1, PTL

\* After a reset the database counts only what was accepted since, unless a count was on
\* its way.
THEOREM DailyReset == Stats!Spec => []ResetHolds
<1>1. IInv => ResetHolds
  BY DEF IInv, Stats!TypeOK, OfToday, ResetHolds, Stats!ResetHolds
<1> QED BY Inductive, <1>1, PTL

-------------------------------------------------------------------------------
(* The parts *)

\* A behaviour of the accounts is one of each part, which may stand still.
LEMMA Parts ==
  /\ AccountsSpec => Stats!Spec
  /\ AccountsSpec => T!Spec
  /\ AccountsSpec => Push!Spec
  /\ AccountsSpec => Files!Spec
<1>1. AccountsInit => Stats!Init /\ T!Init /\ Push!Init /\ Files!Init
  BY DEF AccountsInit
<1>2. [AccountsNext]_<<part, vars, statsVars, tokenVars, pushVars, fileVars>> =>
        /\ [Stats!Next]_(Stats!vars) /\ [T!Next]_(T!vars)
        /\ [Push!Next]_(Push!vars) /\ [Files!Next]_(Files!vars)
  BY DEF AccountsNext, statsVars, tokenVars, pushVars, fileVars,
               Stats!vars, Stats!memory, Stats!manager, Stats!reset, T!vars, Push!vars, Files!vars
<1> QED BY <1>1, <1>2, PTL DEF AccountsSpec, Stats!Spec, T!Spec, Push!Spec, Files!Spec

-------------------------------------------------------------------------------
(* Tokens *)

\* A token that is there was drawn before.
TokensOK ==
  /\ table \in [TokenIds -> T!Token \cup {NoToken}]
  /\ now \in Nat
  /\ batch \in [TokenIds -> Nat] /\ updates \in [TokenIds -> Nat]
  /\ \A t \in TokenIds : table[t] # NoToken => t \in drawn

\* A token that is made or changed gets a time of expiry.
LEMMA ExpiryType == ASSUME TokensOK, NEW life \in Lifetimes PROVE T!Expiry(life) \in Nat
BY TokensAssumption, SMTT(30) DEF TokensOK, T!Expiry

\* What CreateToken may leave of the tokens "all": all of them, or of u's those it keeps.
Leaves(t, u, all) ==
  /\ all[t] # NoToken /\ \A d \in TokenIds : d # t => all[d] = table[d]
  /\ \/ table' = all
     \/ \E K \in SUBSET TokenIds :
          /\ T!Kept(all, u, K)
          /\ table' = [d \in TokenIds |-> IF d \in T!Of(all, u) \ K THEN NoToken ELSE all[d]]

\* CreateToken leaves the other users' tokens, and those of the user it keeps.
LEMMA Created ==
  ASSUME TokensOK, NEW t \in TokenIds, NEW u \in Users, NEW life \in Lifetimes, T!CreateToken(t, u, life)
  PROVE  /\ t \notin drawn /\ drawn' = drawn \cup {t}
         /\ \E all \in [TokenIds -> T!Token \cup {NoToken}] : Leaves(t, u, all)
<1> DEFINE new == [user |-> u, expires |-> T!Expiry(life), access |-> now]
           all == [table EXCEPT ![t] = new]
<1>1. new \in T!Token /\ new # NoToken BY ExpiryType, TokensAssumption, SMTT(30) DEF T!Token, TokensOK
<1>2. /\ all \in [TokenIds -> T!Token \cup {NoToken}]
      /\ all[t] # NoToken /\ \A d \in TokenIds : d # t => all[d] = table[d]
  BY <1>1 DEF TokensOK
<1>3. /\ t \notin drawn /\ drawn' = drawn \cup {t}
      /\ \/ table' = all
         \/ \E K \in SUBSET TokenIds :
              /\ T!Kept(all, u, K)
              /\ table' = [d \in TokenIds |-> IF d \in T!Of(all, u) \ K THEN NoToken ELSE all[d]]
  BY DEF T!CreateToken
<1> HIDE DEF all
<1> QED BY <1>2, <1>3 DEF Leaves

\* Tokens stay tokens, and only CreateToken makes one.
LEMMA TokensStep == TokensOK /\ [T!Next]_(T!vars) => TokensOK'
<1> SUFFICES ASSUME TokensOK, [T!Next]_(T!vars) PROVE TokensOK'
  OBVIOUS
<1>1. ASSUME NEW t \in TokenIds, NEW u \in Users, NEW life \in Lifetimes, T!CreateToken(t, u, life)
      PROVE  TokensOK'
  <2>1. UNCHANGED <<now, updates, batch>> BY <1>1 DEF T!CreateToken
  <2>2. t \notin drawn /\ drawn' = drawn \cup {t} BY <1>1, Created
  <2>3. PICK all \in [TokenIds -> T!Token \cup {NoToken}] : Leaves(t, u, all) BY <1>1, Created
  <2>4. table' \in [TokenIds -> T!Token \cup {NoToken}]
        /\ \A d \in TokenIds : table'[d] = NoToken \/ table'[d] = all[d]
    BY <2>3 DEF Leaves
  <2> QED BY <2>1, <2>2, <2>3, <2>4 DEF TokensOK, Leaves
<1>2. ASSUME NEW t \in TokenIds, NEW life \in Lifetimes, T!ChangeToken(t, life)
      PROVE  TokensOK'
  BY <1>2, ExpiryType, TokensAssumption DEF T!ChangeToken, TokensOK, T!Token
<1>3. ASSUME NEW t \in TokenIds, T!RemoveToken(t) PROVE TokensOK'
  BY <1>3 DEF T!RemoveToken, TokensOK
<1>4. CASE T!RemoveExpiredTokens BY <1>4 DEF T!RemoveExpiredTokens, TokensOK
<1>5. CASE T!WriteTokenQueue
  BY <1>5, TokensAssumption DEF T!WriteTokenQueue, TokensOK, T!Token
<1>6. ASSUME NEW t \in TokenIds, NEW at \in 1..MaxTime, T!EnqueueTokenUpdate(t, at) PROVE TokensOK'
  BY <1>6, SMTT(30) DEF T!EnqueueTokenUpdate, TokensOK
<1>7. CASE T!TakeTokenQueue BY <1>7 DEF T!TakeTokenQueue, TokensOK
<1>8. CASE T!Tick BY <1>8, SMTT(30) DEF T!Tick, TokensOK
<1>9. CASE UNCHANGED <<table, drawn, now, updates, batch>> BY <1>9 DEF TokensOK
<1> QED BY <1>1, <1>2, <1>3, <1>4, <1>5, <1>6, <1>7, <1>8, <1>9
        DEF T!Next, T!AuthenticateToken, T!vars

\* A valid token that a step deletes was to be removed, or gave way to others.
MayGo(t) ==
  T!Valid(t) /\ table'[t] = NoToken =>
    \/ T!RemoveToken(t)
    \/ /\ T!Cardinality(T!Of(table', table[t].user)) = TokenMaxCount
       /\ \A k \in T!Of(table', table[t].user) : table'[k].expires >= table[t].expires

LEMMA MayGoStep ==
  ASSUME TokensOK, [T!Next]_(T!vars), NEW t \in TokenIds
  PROVE  MayGo(t)
<1> SUFFICES ASSUME T!Valid(t), table'[t] = NoToken
             PROVE  \/ T!RemoveToken(t)
                    \/ /\ T!Cardinality(T!Of(table', table[t].user)) = TokenMaxCount
                       /\ \A k \in T!Of(table', table[t].user) : table'[k].expires >= table[t].expires
  BY DEF MayGo
<1>0. table[t] \in T!Token /\ table[t] # NoToken /\ t \in drawn BY DEF T!Valid, TokensOK
<1>1. ASSUME NEW n \in TokenIds, NEW u \in Users, NEW life \in Lifetimes, T!CreateToken(n, u, life)
      PROVE  /\ T!Cardinality(T!Of(table', table[t].user)) = TokenMaxCount
             /\ \A k \in T!Of(table', table[t].user) : table'[k].expires >= table[t].expires
  <2>1. n \notin drawn BY <1>1, Created
  <2>2. PICK all \in [TokenIds -> T!Token \cup {NoToken}] : Leaves(n, u, all) BY <1>1, Created
  <2>3. all[t] = table[t] BY <1>0, <2>1, <2>2 DEF Leaves
  <2>4. PICK K \in SUBSET TokenIds :
          /\ T!Kept(all, u, K)
          /\ table' = [d \in TokenIds |-> IF d \in T!Of(all, u) \ K THEN NoToken ELSE all[d]]
    BY <1>0, <2>2, <2>3 DEF Leaves
  <2>5. t \in T!Of(all, u) \ K BY <1>0, <2>3, <2>4
  <2>6. table[t].user = u BY <2>3, <2>5 DEF T!Of
  <2>7. K \subseteq T!Of(all, u) /\ T!Cardinality(K) = TokenMaxCount
        /\ \A k \in K, d \in T!Of(all, u) \ K : all[k].expires >= all[d].expires
    BY <2>4 DEF T!Kept
  <2>8. \A d \in TokenIds : table'[d] = IF d \in T!Of(all, u) \ K THEN NoToken ELSE all[d] BY <2>4
  <2>9. T!Of(table', u) = K BY <2>7, <2>8 DEF T!Of
  <2>10. \A k \in K : table'[k] = all[k] BY <2>8
  <2> QED BY <2>3, <2>5, <2>6, <2>7, <2>9, <2>10
<1>2. ASSUME NEW n \in TokenIds, NEW life \in Lifetimes, T!ChangeToken(n, life) PROVE FALSE
  BY <1>0, <1>2, ExpiryType, TokensAssumption DEF T!ChangeToken, TokensOK, T!Token
<1>3. ASSUME NEW n \in TokenIds, T!RemoveToken(n) PROVE T!RemoveToken(t)
  <2>1. n = t BY <1>0, <1>3 DEF T!RemoveToken, TokensOK
  <2> QED BY <1>3, <2>1
<1>4. CASE T!RemoveExpiredTokens
  <2>1. T!ExpiredBy(t, now) BY <1>0, <1>4 DEF T!RemoveExpiredTokens
  <2>2. table[t].expires \in Nat /\ now \in Nat BY <1>0 DEF T!Token, TokensOK
  <2> QED BY <2>1, <2>2, SMTT(30) DEF T!ExpiredBy, T!Valid
<1>5. CASE T!WriteTokenQueue
  BY <1>0, <1>5, TokensAssumption DEF T!WriteTokenQueue, TokensOK, T!Token
<1>6. CASE UNCHANGED table BY <1>0, <1>6
<1> QED BY <1>1, <1>2, <1>3, <1>4, <1>5, <1>6
        DEF T!Next, T!AuthenticateToken, T!EnqueueTokenUpdate, T!TakeTokenQueue, T!Tick, T!vars

\* Nothing but its removal and the limit on the number of tokens, which spares the ones
\* that expire last, costs anybody a token that would still authenticate.
THEOREM TokensKept == AccountsSpec => ValidKept
<1>1. T!Init => TokensOK BY SMTT(30) DEF T!Init, TokensOK
<1>2. TokensOK /\ [T!Next]_(T!vars) => [\A t \in TokenIds : MayGo(t)]_(T!vars)
  BY MayGoStep
<1>3. T!Spec => [][\A t \in TokenIds : MayGo(t)]_(T!vars)
  BY <1>1, <1>2, TokensStep, PTL DEF T!Spec
<1> QED BY <1>3, Parts DEF ValidKept, T!ValidKept, MayGo

-------------------------------------------------------------------------------
(* Web push subscriptions *)

Job == [step : {"idle", "read", "send"}, todo : SUBSET (Endpoints \X Nat), sent : SUBSET Nat,
        fresh : {"yes", "no"}]

PushTypes ==
  /\ row \in [Endpoints -> Push!Subscription \cup {None}]
  /\ time \in Nat /\ ids \in Nat
  /\ run \in [Goroutines -> Job]

Due(e) == row[e].updated + WarnAfter <= time
Warned(e) == e \in told \/ e \in raced

\* What is known of the subscription of e: whoever is marked was warned or raced with it,
\* and so was who was due at the last tick, or when a goroutine has completed since; one
\* that started since then and sends has the others in its list.
RowOK(e) ==
  row[e] # None =>
    /\ row[e].warned = "yes" => Warned(e)
    /\ row[e].updated + WarnAfter < time => Warned(e)
    /\ ran = "yes" /\ Due(e) => Warned(e)
    /\ \A g \in Goroutines :
         Due(e) /\ run[g].fresh = "yes" /\ run[g].step = "send"
           => Warned(e) \/ \E x \in run[g].todo : x[1] = e

PushInv == PushTypes /\ \A e \in Endpoints : RowOK(e)

\* A goroutine that goes on sending.
LEMMA SendingType ==
  ASSUME PushTypes, NEW g \in Goroutines, NEW todo \in SUBSET (Endpoints \X Nat), NEW sent \in SUBSET Nat,
         Push!Sending(g, todo, sent)
  PROVE  /\ run' \in [Goroutines -> Job]
         /\ run'[g].step = "send" /\ run'[g].todo = todo /\ run'[g].fresh = run[g].fresh
         /\ \A h \in Goroutines : h # g => run'[h] = run[h]
<1> DEFINE new == [step |-> "send", todo |-> todo, sent |-> sent, fresh |-> run[g].fresh]
<1>1. new \in Job /\ new.step = "send" /\ new.todo = todo /\ new.fresh = run[g].fresh
  BY DEF PushTypes, Job
<1>2. run' = [run EXCEPT ![g] = new] BY DEF Push!Sending
<1> HIDE DEF new
<1> QED BY <1>1, <1>2 DEF PushTypes

\* A row that is there is a subscription.
LEMMA RowType ==
  ASSUME PushTypes, NEW e \in Endpoints, row[e] # None
  PROVE  row[e] \in Push!Subscription /\ row[e].updated \in Nat /\ e \in Push!Rows
BY DEF PushTypes, Push!Subscription, Push!Rows

\* A row that stays, and whose goroutines do.
LEMMA RowStays ==
  ASSUME NEW e \in Endpoints, RowOK(e), row'[e] = row[e], UNCHANGED <<time, ran>>,
         Warned(e) => Warned(e)',
         \A g \in Goroutines :
           run'[g].fresh = "yes" /\ run'[g].step = "send" /\ ~Warned(e)' /\ Due(e)
             => /\ run[g].fresh = "yes" /\ run[g].step = "send"
                /\ \A x \in run[g].todo : x[1] = e => x \in run'[g].todo
  PROVE  RowOK(e)'
<1> SUFFICES ASSUME row[e] # None PROVE RowOK(e)' BY DEF RowOK
<1> QED BY DEF RowOK, Due

LEMMA PushStep == PushInv /\ [Push!Next]_(Push!vars) => PushInv'
<1> SUFFICES ASSUME PushInv, [Push!Next]_(Push!vars) PROVE PushInv'
  OBVIOUS
<1> USE DEF PushInv
<1>1. CASE Push!Tick
  <2>1. UNCHANGED <<row, ids, told, raced>> /\ time' = time + 1 /\ ran = "yes" /\ ran' = "no"
    BY <1>1 DEF Push!Tick
  <2>2. run' = [g \in Goroutines |-> [run[g] EXCEPT !.fresh = "no"]] BY <1>1 DEF Push!Tick
  <2>3. PushTypes' BY <2>1, <2>2, SMTT(30) DEF PushTypes, Job
  <2>4. \A g \in Goroutines : run'[g].fresh = "no" BY <2>2 DEF PushTypes, Job
  <2>5. ASSUME NEW e \in Endpoints, row[e] # None PROVE RowOK(e)'
    <3>1. row[e].updated + WarnAfter < time + 1 => Due(e)
      BY <2>5, RowType, WebPushAssumption, SMTT(30) DEF Due, PushTypes
    <3> QED BY <2>1, <2>4, <3>1, <2>5 DEF RowOK, Warned
  <2>6. ASSUME NEW e \in Endpoints, row[e] = None PROVE RowOK(e)' BY <2>1, <2>6 DEF RowOK
  <2> QED BY <2>3, <2>5, <2>6
<1>2. ASSUME NEW e \in Endpoints, NEW u \in Owners \cup {None}, NEW ip \in Ips,
             Push!UpsertSubscription(e, u, ip)
      PROVE  PushInv'
  <2>1. UNCHANGED <<time, run, ran>> /\ told' = told \ {e} /\ raced' = raced \ {e}
    BY <1>2 DEF Push!UpsertSubscription
  <2> DEFINE new == [id |-> IF e \in Push!Rows THEN row[e].id ELSE ids', user |-> u, ip |-> ip,
                     updated |-> time, warned |-> "no"]
  <2>2. row' = [row EXCEPT ![e] = new] BY <1>2 DEF Push!UpsertSubscription
  <2>3. ids' \in Nat BY <1>2, SMTT(30) DEF Push!UpsertSubscription, PushTypes
  <2>4. new \in Push!Subscription BY <2>3, RowType DEF PushTypes, Push!Subscription, Push!Rows
  <2>5. new.updated = time /\ new.warned = "no" OBVIOUS
  <2> HIDE DEF new
  <2>6. PushTypes' BY <2>1, <2>2, <2>3, <2>4 DEF PushTypes
  <2>7. row'[e] = new BY <2>2 DEF PushTypes
  <2>8. ~Due(e)' /\ ~(row'[e].updated + WarnAfter < time')
    BY <2>1, <2>5, <2>7, WebPushAssumption, SMTT(30) DEF Due, PushTypes
  <2>9. RowOK(e)' BY <2>5, <2>7, <2>8 DEF RowOK
  <2>10. ASSUME NEW o \in Endpoints, o # e PROVE RowOK(o)'
    <3>1. row'[o] = row[o] BY <2>2, <2>10 DEF PushTypes
    <3>2. Warned(o) => Warned(o)' BY <2>1, <2>10 DEF Warned
    <3> QED BY <2>1, <3>1, <3>2, RowStays
  <2> QED BY <2>6, <2>9, <2>10
<1>3. ASSUME NEW E, Push!Remove(E), UNCHANGED <<time, ids, ran>>, PushTypes',
             \A g \in Goroutines :
               run'[g].fresh = "yes" /\ run'[g].step = "send"
                 => /\ run[g].fresh = "yes" /\ run[g].step = "send"
                    /\ \A x \in run[g].todo : x[1] \in E \/ x \in run'[g].todo
      PROVE  PushInv'
  <2>1. ASSUME NEW e \in Endpoints PROVE RowOK(e)'
    <3>1. CASE e \in E
      <4>1. row'[e] = None BY <1>3, <3>1 DEF Push!Remove
      <4> QED BY <4>1 DEF RowOK
    <3>2. CASE e \notin E
      <4>1. row'[e] = row[e] BY <1>3, <3>2 DEF Push!Remove
      <4>2. Warned(e) => Warned(e)' BY <1>3, <3>2 DEF Push!Remove, Warned
      <4>3. \A g \in Goroutines :
              run'[g].fresh = "yes" /\ run'[g].step = "send"
                => /\ run[g].fresh = "yes" /\ run[g].step = "send"
                   /\ \A x \in run[g].todo : x[1] = e => x \in run'[g].todo
        BY <1>3, <3>2
      <4> QED BY <1>3, <4>1, <4>2, <4>3, RowStays
    <3> QED BY <3>1, <3>2
  <2> QED BY <1>3, <2>1
<1>4. ASSUME NEW E, Push!Remove(E), UNCHANGED <<time, ids, run, ran>> PROVE PushInv'
  <2>1. PushTypes' BY <1>4 DEF PushTypes, Push!Remove
  <2> QED BY <1>3, <1>4, <2>1
<1>5. ASSUME NEW g \in Goroutines, Push!RemoveExpired(g) PROVE PushInv'
  <2> DEFINE E == {e \in Push!Rows : row[e].updated + ExpireAfter <= time}
             new == [step |-> "read", todo |-> {}, sent |-> {}, fresh |-> "yes"]
  <2>1. Push!Remove(E) /\ UNCHANGED <<time, ids, ran>> /\ run' = [run EXCEPT ![g] = new]
    BY <1>5 DEF Push!RemoveExpired
  <2>2. new \in Job /\ new.step = "read" BY DEF Job
  <2> HIDE DEF E, new
  <2>3. PushTypes' BY <2>1, <2>2 DEF PushTypes, Push!Remove
  <2>4. \A h \in Goroutines : h # g => run'[h] = run[h] BY <2>1 DEF PushTypes
  <2>5. run'[g].step = "read" BY <2>1, <2>2 DEF PushTypes
  <2> QED BY <1>3, <2>1, <2>3, <2>4, <2>5
<1>6. ASSUME NEW g \in Goroutines, UNCHANGED <<row, time, ids, told, raced>>, Push!Complete(g),
             \A e \in Endpoints : row[e] # None /\ run[g].fresh = "yes" /\ Due(e) => Warned(e)
      PROVE  PushInv'
  <2>1. /\ run' = [run EXCEPT ![g] = Push!NotRunning]
        /\ ran' = IF run[g].fresh = "yes" THEN "yes" ELSE ran
    BY <1>6 DEF Push!Complete
  <2>2. PushTypes' BY <1>6, <2>1 DEF PushTypes, Push!NotRunning, Job
  <2>3. run'[g].step = "idle" BY <2>1 DEF PushTypes, Push!NotRunning
  <2>4. \A h \in Goroutines : h # g => run'[h] = run[h] BY <2>1 DEF PushTypes
  <2>5. ASSUME NEW e \in Endpoints PROVE RowOK(e)'
    BY <1>6, <2>1, <2>3, <2>4 DEF RowOK, Due, Warned
  <2> QED BY <2>2, <2>5
<1>7. ASSUME NEW g \in Goroutines, Push!SubscriptionsExpiring(g) PROVE PushInv'
  <2>1. UNCHANGED <<row, time, ids, told, raced>> /\ run[g].step = "read"
    BY <1>7 DEF Push!SubscriptionsExpiring
  <2>2. ASSUME NEW e \in Endpoints, row[e] # None, Due(e) PROVE Warned(e) \/ e \in Push!Expiring
    BY <2>2, RowType DEF RowOK, Due, Push!Expiring, Push!Subscription
  <2>3. CASE Push!Expiring = {} /\ Push!Complete(g) BY <1>6, <2>1, <2>2, <2>3
  <2>4. CASE Push!Sending(g, {<<e, row[e].id>> : e \in Push!Expiring}, {}) /\ UNCHANGED ran
    <3>1. \A e \in Push!Expiring : e \in Endpoints /\ row[e].id \in Nat
      BY RowType DEF Push!Expiring, Push!Rows, Push!Subscription
    <3> DEFINE due == {<<e, row[e].id>> : e \in Push!Expiring}
    <3>2. due \in SUBSET (Endpoints \X Nat) BY <3>1, SMTT(30)
    <3>3. \A e \in Push!Expiring : <<e, row[e].id>> \in due OBVIOUS
    <3>4. Push!Sending(g, due, {}) BY <2>4
    <3> HIDE DEF due
    <3>5. /\ run' \in [Goroutines -> Job] /\ run'[g].todo = due
          /\ \A h \in Goroutines : h # g => run'[h] = run[h]
      BY <3>2, <3>4, SendingType
    <3>7. PushTypes' BY <2>1, <3>5 DEF PushTypes
    <3>8. ASSUME NEW e \in Endpoints PROVE RowOK(e)'
      <4>1. ASSUME e \in Push!Expiring PROVE \E x \in run'[g].todo : x[1] = e
        <5>1. <<e, row[e].id>> \in run'[g].todo /\ <<e, row[e].id>>[1] = e BY <3>3, <3>5, <4>1
        <5> QED BY <5>1
      <4>2. Warned(e)' <=> Warned(e) BY <2>1 DEF Warned
      <4>3. Due(e)' <=> Due(e) BY <2>1 DEF Due
      <4>4. ASSUME NEW h \in Goroutines, row[e] # None, Due(e), run'[h].fresh = "yes",
                   run'[h].step = "send"
            PROVE  Warned(e) \/ \E x \in run'[h].todo : x[1] = e
        BY <2>2, <3>5, <4>1, <4>4 DEF RowOK
      <4> QED BY <2>1, <2>4, <4>2, <4>3, <4>4 DEF RowOK
    <3> QED BY <3>7, <3>8
  <2> QED BY <1>7, <2>3, <2>4 DEF Push!SubscriptionsExpiring
<1>8. ASSUME NEW g \in Goroutines, Push!Send(g) PROVE PushInv'
  <2>1. UNCHANGED <<time, ids, ran>> BY <1>8 DEF Push!Send
  <2>2. PICK x \in run[g].todo :
          \/ /\ Push!Sending(g, run[g].todo \ {x}, run[g].sent \cup {x[2]})
             /\ told' = told \cup ({x[1]} \cap Push!Rows)
             /\ UNCHANGED <<row, raced>>
          \/ /\ Push!Sending(g, run[g].todo \ {x}, run[g].sent)
             /\ Push!Remove({x[1]})
    BY <1>8 DEF Push!Send
  <2>3. /\ x[1] \in Endpoints /\ run[g].step = "send"
        /\ run[g].todo \ {x} \in SUBSET (Endpoints \X Nat)
        /\ run[g].sent \in SUBSET Nat /\ run[g].sent \cup {x[2]} \in SUBSET Nat
    BY <1>8, <2>2, SMTT(30) DEF PushTypes, Job, Push!Send
  <2>4. CASE /\ Push!Sending(g, run[g].todo \ {x}, run[g].sent \cup {x[2]})
             /\ told' = told \cup ({x[1]} \cap Push!Rows)
             /\ UNCHANGED <<row, raced>>
    <3>1. /\ run' \in [Goroutines -> Job] /\ run'[g].todo = run[g].todo \ {x}
          /\ run'[g].fresh = run[g].fresh /\ \A h \in Goroutines : h # g => run'[h] = run[h]
      BY <2>3, <2>4, SendingType, SMTT(30)
    <3>2. PushTypes' BY <2>1, <2>4, <3>1 DEF PushTypes
    <3>5. ASSUME NEW e \in Endpoints, row[e] # None PROVE RowOK(e)'
      <4>1. (Warned(e) => Warned(e)') /\ (e = x[1] => Warned(e)')
        BY <2>4, <3>5, RowType DEF Warned
      <4>2. \A h \in Goroutines :
              run'[h].fresh = "yes" /\ run'[h].step = "send" /\ ~Warned(e)' /\ Due(e)
                => /\ run[h].fresh = "yes" /\ run[h].step = "send"
                   /\ \A y \in run[h].todo : y[1] = e => y \in run'[h].todo
        BY <2>3, <3>1, <4>1
      <4>3. row'[e] = row[e] BY <2>4
      <4> QED BY <2>1, <4>1, <4>2, <4>3, RowStays
    <3>4. ASSUME NEW e \in Endpoints, row[e] = None PROVE RowOK(e)' BY <2>4, <3>4 DEF RowOK
    <3> QED BY <3>2, <3>4, <3>5
  <2>5. CASE Push!Sending(g, run[g].todo \ {x}, run[g].sent) /\ Push!Remove({x[1]})
    <3>1. /\ run' \in [Goroutines -> Job] /\ run'[g].todo = run[g].todo \ {x}
          /\ run'[g].fresh = run[g].fresh /\ \A h \in Goroutines : h # g => run'[h] = run[h]
      BY <2>3, <2>5, SendingType
    <3>2. PushTypes' BY <2>1, <2>5, <3>1 DEF PushTypes, Push!Remove
    <3> QED BY <1>3, <2>1, <2>3, <2>5, <3>1, <3>2
  <2> QED BY <2>2, <2>4, <2>5
<1>9. ASSUME NEW g \in Goroutines, Push!MarkExpiryWarningSent(g) PROVE PushInv'
  <2>1. UNCHANGED <<time, ids, told>> /\ run[g].step = "send" /\ run[g].todo = {}
    BY <1>9 DEF Push!MarkExpiryWarningSent
  <2>2. /\ row' = [e \in Endpoints |-> IF e \in Push!Rows /\ row[e].id \in run[g].sent
                                       THEN [row[e] EXCEPT !.warned = "yes"] ELSE row[e]]
        /\ raced' = raced \cup {e \in Push!Rows \ told : row[e].id \in run[g].sent}
    BY <1>9 DEF Push!MarkExpiryWarningSent
  <2>3. /\ run' = [run EXCEPT ![g] = Push!NotRunning]
        /\ ran' = IF run[g].fresh = "yes" THEN "yes" ELSE ran
    BY <1>9 DEF Push!MarkExpiryWarningSent, Push!Complete
  <2>4. PushTypes'
    <3>1. run' \in [Goroutines -> Job] BY <2>3 DEF PushTypes, Push!NotRunning, Job
    <3>2. \A e \in Push!Rows : [row[e] EXCEPT !.warned = "yes"] \in Push!Subscription
      BY DEF PushTypes, Push!Rows, Push!Subscription
    <3> QED BY <2>1, <2>2, <3>1, <3>2 DEF PushTypes
  <2>5. run'[g].step = "idle" /\ \A h \in Goroutines : h # g => run'[h] = run[h]
    BY <2>3 DEF PushTypes, Push!NotRunning
  <2>6. ASSUME NEW e \in Endpoints, row[e] # None PROVE RowOK(e)'
    <3>1. row'[e].updated = row[e].updated /\ (row'[e].warned = "yes" => Warned(e)')
      BY <2>1, <2>2, <2>6, RowType DEF Warned, RowOK, Push!Subscription
    <3>2. Warned(e) => Warned(e)' BY <2>1, <2>2 DEF Warned
    <3>3. Due(e)' <=> Due(e) BY <2>1, <3>1 DEF Due
    <3>4. Due(e) /\ run[g].fresh = "yes" => Warned(e) BY <2>1, <2>6 DEF RowOK
    <3> QED BY <2>1, <2>3, <2>5, <2>6, <3>1, <3>2, <3>3, <3>4 DEF RowOK
  <2>7. ASSUME NEW e \in Endpoints, row[e] = None PROVE RowOK(e)'
    BY <2>2, <2>7 DEF RowOK, Push!Rows
  <2> QED BY <2>4, <2>6, <2>7
<1>10. ASSUME NEW g \in Goroutines, Push!Abort(g) PROVE PushInv'
  <2>1. UNCHANGED <<row, time, ids, ran, told, raced>> /\ run' = [run EXCEPT ![g] = Push!NotRunning]
    BY <1>10 DEF Push!Abort
  <2>2. PushTypes' BY <2>1 DEF PushTypes, Push!NotRunning, Job
  <2>3. run'[g].step = "idle" /\ \A h \in Goroutines : h # g => run'[h] = run[h]
    BY <2>1 DEF PushTypes, Push!NotRunning
  <2> QED BY <2>1, <2>2, <2>3, SMTT(30) DEF RowOK, Due, Warned
<1>11. CASE UNCHANGED Push!vars BY <1>11 DEF Push!vars, PushTypes, RowOK, Due, Warned
<1> QED BY <1>1, <1>2, <1>4, <1>5, <1>7, <1>8, <1>9, <1>10, <1>11
        DEF Push!Next, Push!RemoveByEndpoint, Push!RemoveByUserID

\* Every subscription that RemoveExpired takes away was sent a warning since its last
\* update, unless that update raced with the mark of an earlier warning.
THEOREM Warnings == AccountsSpec => []ExpiredWereWarned
<1>1. Push!Init => PushInv
  BY SMTT(30) DEF Push!Init, PushInv, PushTypes, RowOK, Push!NotRunning, Job
<1>2. PushInv => Push!ExpiredWereWarned
  <2> SUFFICES ASSUME PushInv, NEW e \in Push!Rows, row[e].updated + ExpireAfter <= time
               PROVE  e \in told \cup raced
    BY DEF Push!ExpiredWereWarned
  <2>1. e \in Endpoints /\ row[e] # None BY DEF Push!Rows
  <2>2. row[e].updated \in Nat BY <2>1, RowType DEF PushInv
  <2>3. row[e].updated + WarnAfter < time BY <2>2, WebPushAssumption, SMTT(30) DEF PushInv, PushTypes
  <2> QED BY <2>1, <2>3 DEF PushInv, RowOK, Warned
<1>3. Push!Spec => []Push!ExpiredWereWarned BY <1>1, <1>2, PushStep, PTL DEF Push!Spec
<1> QED BY <1>3, Parts DEF ExpiredWereWarned

-------------------------------------------------------------------------------
(* Databases *)

FileTypes ==
  /\ file \in Files!Files
  /\ schema \in {Files!NoTable} \cup Nat /\ stamp \in {Files!NoTable, Files!NoRow} \cup Nat /\ step \in Nat
  /\ mids \in {"kept", "lost"}

\* The set-up of a file, or of version 1 of the cache, lacks its version: a kill has
\* interrupted it, or it is under way.
Unset(p) == Files!NoTable \in torn \/ (doing \in p /\ step = Files!Current[file])
Unversioned(p) == 0 \in torn \/ (doing \in p /\ step = 1)

\* What the tables and the version can be together.
CacheFile ==
  \/ schema = Files!NoTable /\ stamp = Files!NoTable
  \/ schema = 13 /\ stamp = Files!NoTable /\ Unset({"versionTable"})
  \/ schema = 13 /\ stamp = Files!NoRow /\ Unset({"insert"})
  \/ schema = 0 /\ stamp = Files!NoTable
  \/ schema = 1 /\ stamp = Files!NoTable /\ Unversioned({"versionTable"})
  \/ schema = 1 /\ stamp = Files!NoRow /\ Unversioned({"insert"})
  \/ stamp \in 1..13 /\ schema = stamp
  \/ stamp \in 1..8 /\ schema = stamp + 1
       /\ (stamp \in torn \/ (doing = "update" /\ step = stamp))

OtherFile ==
  \/ schema = Files!NoTable /\ stamp = Files!NoTable
  \/ schema = Files!Current[file] /\ stamp = Files!NoRow /\ Unset({"insert"})
  \/ stamp \in 1..Files!Current[file] /\ schema = stamp

FileOK == IF file = "cache" THEN CacheFile ELSE OtherFile

\* What the program knows of the file at each of its statements.
ProgramOK ==
  /\ doing \in Files!Starting \cup {"down", "running", "refused"}
  /\ doing = "tables" => schema = Files!NoTable /\ stamp = Files!NoTable /\ step = Files!Current[file]
  /\ doing = "versionTable" => file = "cache" /\ stamp = Files!NoTable /\ step \in {1, 13} /\ schema = step
  /\ doing = "insert" => stamp = Files!NoRow /\ schema = step /\ (step = Files!Current[file] \/ (step = 1 /\ file = "cache"))
  /\ doing = "migrate" =>
       /\ step < Files!Current[file]
       /\ \/ stamp = step
          \/ file = "cache" /\ step = 0 /\ stamp = Files!NoTable /\ schema # Files!NoTable
  /\ doing = "update" => file = "cache" /\ step \in 1..8 /\ stamp = step /\ schema = step + 1

FilesInv == FileTypes /\ FileOK /\ ProgramOK /\ Files!SurvivesKills /\ (mids = "lost" => 4 \in torn)

-----------------------------------------------------------------------------
\* The three files, with their current versions and transactional migrations.
LEMMA FileConstants ==
  /\ Files!Files = {"cache", "users", "push"}
  /\ Files!Current["cache"] = 13 /\ Files!Current["users"] = 5 /\ Files!Current["push"] = 1
  /\ Files!InTransaction["cache"] = 9..12 /\ Files!InTransaction["users"] = 1..4 /\ Files!InTransaction["push"] = {}
  /\ Files!Versions["cache"] = 0..13 /\ Files!Versions["users"] = 1..5 /\ Files!Versions["push"] = {1}
  /\ Files!NoTable = -2 /\ Files!NoRow = -1
BY DEF Files!Files, Files!Current, Files!InTransaction, Files!CacheInTransaction,
       Files!UsersInTransaction, Files!Versions,
       Files!CacheVersions, Files!UsersVersions, Files!PushVersions, Files!NoTable, Files!NoRow

\* Files of every version are as they should be before the first start.
LEMMA InitFiles == Files!Init => FilesInv
BY FileConstants, SMTT(30) DEF Files!Init, FilesInv, FileTypes, FileOK, CacheFile, OtherFile,
                              ProgramOK, Files!SurvivesKills, Files!Starting

USE FileConstants

\* Starting reads and writes nothing.
LEMMA StartStep == FilesInv /\ Files!Start => FilesInv'
BY SMTT(30) DEF Files!Start, FilesInv, FileTypes, FileOK, CacheFile, OtherFile, ProgramOK,
                Files!SurvivesKills, Files!Starting,
       Unset, Unversioned, Files!Unrepeatable, Files!FailsAgain

\* The check finds out what to do with the file.
LEMMA CheckStep == FilesInv /\ Files!Check => FilesInv'
<1> SUFFICES ASSUME FilesInv, Files!Check PROVE FilesInv'
  OBVIOUS
<1>1. CASE Files!CheckCache
  BY <1>1, SMTT(30) DEF Files!Check, Files!CheckCache, Files!SetUp, Files!Refuse, Files!Continue,
                        FilesInv, FileTypes, FileOK, CacheFile, OtherFile,
      ProgramOK, Files!SurvivesKills, Files!Starting, Unset, Unversioned, Files!Unrepeatable,
      Files!FailsAgain
<1>2. CASE Files!CheckUsers
  BY <1>2, SMTT(30) DEF Files!Check, Files!CheckUsers, Files!SetUp, Files!Refuse, Files!Continue,
                        FilesInv, FileTypes, FileOK, CacheFile, OtherFile,
      ProgramOK, Files!SurvivesKills, Files!Starting, Unset, Unversioned, Files!Unrepeatable,
      Files!FailsAgain
<1>3. CASE Files!CheckPush
  BY <1>3, SMTT(30) DEF Files!Check, Files!CheckPush, Files!SetUp, Files!Continue, FilesInv,
                        FileTypes, FileOK, CacheFile, OtherFile,
      ProgramOK, Files!SurvivesKills, Files!Starting, Unset, Unversioned, Files!Unrepeatable,
      Files!FailsAgain
<1> QED BY <1>1, <1>2, <1>3 DEF Files!Check

\* Each statement of a set-up leaves the file as the next one expects it.
LEMMA SetUpStep == FilesInv /\ (Files!CreateTables \/ Files!CreateVersionTable \/ Files!InsertVersion) => FilesInv'
<1> SUFFICES ASSUME FilesInv, Files!CreateTables \/ Files!CreateVersionTable \/ Files!InsertVersion PROVE FilesInv'
  OBVIOUS
<1> USE DEF FilesInv, FileTypes, FileOK, CacheFile, OtherFile, ProgramOK, Files!SurvivesKills,
            Files!Starting,
            Unset, Unversioned, Files!Unrepeatable, Files!FailsAgain
<1>1. CASE Files!CreateTables BY <1>1 DEF Files!CreateTables, Files!NewCache, Files!NewUsers,
                              Files!NewPush
<1>2. CASE Files!CreateVersionTable BY <1>2 DEF Files!CreateVersionTable
<1>3. CASE Files!InsertVersion BY <1>3, SMTT(30) DEF Files!InsertVersion, Files!Continue
<1> QED BY <1>1, <1>2, <1>3

\* A migration in a transaction takes tables and version to the next version together.
LEMMA TransactionStep == FilesInv /\ Files!MigrateInTransaction => FilesInv'
BY SMTT(30) DEF Files!MigrateInTransaction, Files!Continue, FilesInv, FileTypes, FileOK, CacheFile,
                OtherFile, ProgramOK,
       Files!SurvivesKills, Files!Starting, Unset, Unversioned, Files!Unrepeatable, Files!FailsAgain

\* A migration without one fails only where a kill has interrupted it before.
LEMMA MigrateStep == FilesInv /\ Files!Migrate => FilesInv'
<1> SUFFICES ASSUME FilesInv, Files!Migrate PROVE FilesInv'
  OBVIOUS
<1> USE DEF FilesInv, FileTypes, FileOK, CacheFile, OtherFile, ProgramOK, Files!SurvivesKills,
            Files!Starting,
            Unset, Unversioned
<1>1. file = "cache" /\ step \in 0..8
  BY SMTT(30) DEF Files!Migrate
<1>2. CASE schema > step /\ step \in Files!FailsAgain
  <2>1. Files!NoTable \in torn \/ step \in torn
    BY <1>1, <1>2, SMTT(30) DEF Files!Migrate
  <2>2. torn \cap Files!Unrepeatable # {}
    BY <1>1, <1>2, <2>1 DEF Files!Unrepeatable, Files!FailsAgain
  <2> QED BY <1>1, <1>2, <2>2, SMTT(30) DEF Files!Migrate, Files!Refuse, Files!Unrepeatable,
                              Files!FailsAgain
<1>3. CASE ~(schema > step /\ step \in Files!FailsAgain)
  BY <1>1, <1>3, SMTT(30) DEF Files!Migrate, Files!Unrepeatable, Files!FailsAgain, Files!OverwritesAgain
<1> QED BY <1>2, <1>3

\* The version follows the tables.
LEMMA UpdateStep == FilesInv /\ Files!UpdateVersion => FilesInv'
BY SMTT(30) DEF Files!UpdateVersion, Files!Continue, FilesInv, FileTypes, FileOK, CacheFile,
                OtherFile, ProgramOK,
       Files!SurvivesKills, Files!Starting, Unset, Unversioned, Files!Unrepeatable, Files!FailsAgain

\* A kill leaves no more than it is recorded for.
LEMMA CrashStep == FilesInv /\ Files!Crash => FilesInv'
BY SMTT(30) DEF Files!Crash, Files!Unfinished, FilesInv, FileTypes, FileOK, CacheFile, OtherFile,
                ProgramOK, Files!SurvivesKills, Files!Starting,
       Unset, Unversioned, Files!Unrepeatable, Files!FailsAgain

\* Every step keeps the invariant.
LEMMA FilesStep == FilesInv /\ [Files!Next]_(Files!vars) => FilesInv'
<1> SUFFICES ASSUME FilesInv, [Files!Next]_(Files!vars) PROVE FilesInv'
  OBVIOUS
<1>1. CASE UNCHANGED Files!vars
  <2>1. /\ file' = file /\ schema' = schema /\ stamp' = stamp /\ mids' = mids
        /\ doing' = doing /\ step' = step /\ torn' = torn
    BY <1>1 DEF Files!vars
  <2>2. FileTypes' BY <2>1 DEF FilesInv, FileTypes
  <2>3. FileOK' BY <2>1 DEF FilesInv, FileOK, CacheFile, OtherFile, Unset, Unversioned
  <2>4. ProgramOK' BY <2>1 DEF FilesInv, ProgramOK
  <2>5. Files!Unrepeatable' = Files!Unrepeatable BY <2>1 DEF Files!Unrepeatable
  <2>6. Files!SurvivesKills' BY <2>1, <2>5 DEF FilesInv, Files!SurvivesKills
  <2> QED BY <2>1, <2>2, <2>3, <2>4, <2>6 DEF FilesInv
<1> QED
  BY <1>1, StartStep, CheckStep, SetUpStep, TransactionStep, MigrateStep, UpdateStep, CrashStep
  DEF Files!Next

\* However often the process is killed, at any statement: the server opens its databases
\* again, on the current schema, unless a kill fell on one of the named places.
THEOREM Survival == AccountsSpec => []SurvivesKills
<1>1. FilesInv => SurvivesKills BY DEF FilesInv, SurvivesKills
<1> QED BY InitFiles, FilesStep, <1>1, Parts, PTL DEF Files!Spec
===============================================================================
