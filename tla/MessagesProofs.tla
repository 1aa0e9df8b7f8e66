---------------------------- MODULE MessagesProofs ----------------------------
(***************************************************************************)
(* For any messages, delays and number of connections: because the         *)
(* subscribe handler subscribes before it reads the cache, a client that   *)
(* asks for everything gets every message that readers could see when it   *)
(* was handed to the subscribers.  And for any requests and any mails: a   *)
(* message is published as was asked for, and a mail is its own.           *)
(***************************************************************************)
EXTENDS Messages, TLAPS

\* The row that is about to be marked is in the table.
MarkingStored == marking # None => marking \in Stored

\* What a message was seen with stays: rows are neither deleted nor hidden again.
AheadVisible == ahead \subseteq Visible

\* Between reading the cache and the end of the connection, whatever readers could see
\* when it was fanned out has been read, is being handed over, or has been written.
NoGap ==
  /\ conn = "online" => pending = {}
  /\ conn \in {"reading", "online"} /\ since[1] = "all" =>
       \A m \in ahead : fan[m] = "done" => m \in pending \cup got \cup inflight

IInv == TypeOK /\ MarkingStored /\ AheadVisible /\ NoGap

-----------------------------------------------------------------------------
\* A new row adds its message to the stored ones (addMessages).
LEMMA AppendStores ==
  ASSUME TypeOK, NEW m \in Messages, rows' = Append(rows, m)
  PROVE  Stored' = Stored \cup {m}
<1>1. rows \in Seq(Messages) BY DEF TypeOK
<1>2. Len(rows') = Len(rows) + 1 /\ Len(rows) \in Nat BY <1>1
<1>3. \A i \in 1..Len(rows) : rows'[i] = rows[i] BY <1>1
<1>4. rows'[Len(rows) + 1] = m BY <1>1
<1>5. 1..Len(rows') = (1..Len(rows)) \cup {Len(rows) + 1} BY <1>2
<1> QED BY <1>3, <1>4, <1>5 DEF Stored

\* Stored messages are messages.
LEMMA StoredTyped == TypeOK => Stored \subseteq Messages
BY DEF TypeOK, Stored

\* The cache answers with what readers may see, and with all of it to a reader that asks
\* for all (messageCache.Messages).
LEMMA QueryVisible ==
  ASSUME TypeOK, NEW marker
  PROVE  /\ Query(marker) \subseteq Visible
         /\ marker[1] = "all" => Query(marker) = Visible
<1>1. \A m \in Visible : time[m] \in Nat
  BY StoredTyped DEF TypeOK, Visible
<1>2. SinceTime(0) = Visible BY <1>1 DEF SinceTime
<1>3. \A t : SinceTime(t) \subseteq Visible BY DEF SinceTime
<1>4. Latest \subseteq Visible BY DEF Latest
<1>5. \A id : SinceID(id) \subseteq Visible BY <1>3 DEF SinceID
<1>6. marker[1] = "all" => Query(marker) = Visible BY <1>2 DEF Query
<1> QED BY <1>3, <1>4, <1>5, <1>6 DEF Query

-----------------------------------------------------------------------------
\* The invariant holds before anything is published.
LEMMA InitIInv == Init => IInv
<1> SUFFICES ASSUME Init PROVE IInv
  OBVIOUS
<1>1. Stored = {} BY DEF Init, Stored
<1>2. now \in 0..MaxTime /\ connects \in 0..MaxConnects BY DeliveryAssumption DEF Init
<1>3. since \in (Kinds \cup {"none"}) \X (Messages \cup {None}) BY DEF Init
<1>4. TypeOK BY <1>1, <1>2, <1>3 DEF Init, TypeOK, Visible
<1> QED BY <1>4 DEF Init, IInv, MarkingStored, AheadVisible, NoGap

\* The table only grows, and so does what readers may see.
LEMMA TableGrows == IInv /\ [Next]_vars => Stored \subseteq Stored' /\ published \subseteq published'
<1> SUFFICES ASSUME IInv, [Next]_vars PROVE Stored \subseteq Stored' /\ published \subseteq published'
  OBVIOUS
<1>1. ASSUME NEW m \in Messages, AddMessage(m) PROVE Stored \subseteq Stored' /\ published \subseteq published'
  BY <1>1, AppendStores DEF AddMessage, IInv
<1>2. CASE MarkPublished BY <1>2 DEF MarkPublished, Stored
<1>3. ASSUME UNCHANGED <<rows, published>> PROVE Stored \subseteq Stored' /\ published \subseteq published'
  BY <1>3 DEF Stored
<1> QED
  BY <1>1, <1>2, <1>3
  DEF Next, Publish, FanOut, Write, SendDelayed, SendOld, Connect, Poll, Subscribe, ReadOld, OldSent,
      Disconnect, Tick, vars, publishing

\* The handlers that touch neither the table nor the sets of messages keep the types.
LEMMA TypeStep == IInv /\ [Next]_vars => TypeOK' /\ MarkingStored'
<1> SUFFICES ASSUME IInv, [Next]_vars PROVE TypeOK' /\ MarkingStored'
  OBVIOUS
<1>a. TypeOK /\ MarkingStored BY DEF IInv
<1>b. Stored \subseteq Stored' /\ published \subseteq published' BY TableGrows
<1>c. Visible \subseteq Visible' BY <1>b DEF Visible
<1>d. Stored \subseteq Messages BY <1>a, StoredTyped
<1>e. pending \subseteq Visible' /\ owed \subseteq Visible' BY <1>a, <1>c DEF TypeOK
<1>f. now \in Nat BY <1>a, DeliveryAssumption DEF TypeOK
<1> USE DeliveryAssumption
<1>1. ASSUME NEW m \in Messages, NEW d \in Delays, Publish(m, d) PROVE TypeOK' /\ MarkingStored'
  <2>1. time' \in [Messages -> Nat] BY <1>a, <1>f, <1>1 DEF Publish, TypeOK
  <2> QED BY <1>a, <1>1, <2>1 DEF Publish, TypeOK, MarkingStored, Stored, Visible, client, history
<1>2. ASSUME NEW m \in Messages, AddMessage(m) PROVE TypeOK' /\ MarkingStored'
  <2>1. Stored' = Stored \cup {m} BY <1>a, <1>2, AppendStores DEF AddMessage
  <2>2. rows' \in Seq(Messages) BY <1>a, <1>2 DEF AddMessage, TypeOK
  <2>3. published' \subseteq Stored' BY <1>a, <1>2, <2>1 DEF AddMessage, TypeOK
  <2> QED BY <1>a, <1>2, <1>b, <1>e, <2>2, <2>3 DEF AddMessage, TypeOK, MarkingStored, client, history
<1>3. ASSUME NEW m \in Messages, FanOut(m) PROVE TypeOK' /\ MarkingStored'
  BY <1>a, <1>3 DEF FanOut, TypeOK, MarkingStored, Stored, Visible, publishing
<1>4. ASSUME NEW m \in Messages, Write(m) PROVE TypeOK' /\ MarkingStored'
  BY <1>a, <1>4 DEF Write, Receive, TypeOK, MarkingStored, Stored, Visible, publishing, history
<1>5. ASSUME NEW m \in Messages, SendDelayed(m) PROVE TypeOK' /\ MarkingStored'
  BY <1>a, <1>5 DEF SendDelayed, TypeOK, MarkingStored, Stored, Visible, client, history
<1>6. ASSUME NEW m \in Messages, SendOld(m) PROVE TypeOK' /\ MarkingStored'
  BY <1>a, <1>6 DEF SendOld, Receive, TypeOK, MarkingStored, Stored, Visible, publishing, history
<1>7. CASE MarkPublished
  <2>1. Stored' = Stored BY <1>7 DEF MarkPublished, Stored
  <2>2. published' \subseteq Stored' BY <1>a, <1>7, <2>1 DEF MarkPublished, TypeOK, MarkingStored
  <2> QED BY <1>a, <1>7, <1>e, <2>2 DEF MarkPublished, TypeOK, MarkingStored, client, history
<1>8. ASSUME NEW k \in Kinds, Connect(k) PROVE TypeOK' /\ MarkingStored'
  <2>1. since' \in (Kinds \cup {"none"}) \X (Messages \cup {None}) BY <1>a, <1>8 DEF Connect, TypeOK
  <2>2. connects' \in 0..MaxConnects BY <1>a, <1>8 DEF Connect, TypeOK
  <2>3. owed' \subseteq Visible' BY <1>8, <1>c DEF Connect
  <2>4. /\ UNCHANGED <<now, st, time, rows, published, marking, fan, pending, seen, last, ahead, missed, inflight>>
        /\ conn' = "connecting" /\ got' = {}
    BY <1>8 DEF Connect, publishing
  <2> QED BY <1>a, <1>e, <2>1, <2>2, <2>3, <2>4 DEF TypeOK, MarkingStored, Stored
<1>9. ASSUME NEW k \in Kinds, Poll(k) PROVE TypeOK' /\ MarkingStored'
  <2>1. since' \in (Kinds \cup {"none"}) \X (Messages \cup {None}) BY <1>a, <1>9 DEF Poll, TypeOK
  <2>2. connects' \in 0..MaxConnects BY <1>a, <1>9 DEF Poll, TypeOK
  <2>3. owed' \subseteq Visible' BY <1>9, <1>c DEF Poll
  <2>4. pending' \subseteq Visible' BY <1>a, <1>9, <1>c, QueryVisible DEF Poll
  <2>5. /\ UNCHANGED <<now, st, time, rows, published, marking, fan, seen, last, ahead, missed, inflight>>
        /\ conn' = "polling" /\ got' = {}
    BY <1>9 DEF Poll, publishing
  <2> QED BY <1>a, <2>1, <2>2, <2>3, <2>4, <2>5 DEF TypeOK, MarkingStored, Stored
<1>10. CASE Subscribe
  BY <1>a, <1>10 DEF Subscribe, TypeOK, MarkingStored, Stored, Visible, publishing, history
<1>11. CASE ReadOld
  <2>1. pending' \subseteq Visible' BY <1>a, <1>11, <1>c, QueryVisible DEF ReadOld
  <2> QED BY <1>a, <1>11, <1>e, <2>1 DEF ReadOld, TypeOK, MarkingStored, Stored, publishing, history
<1>12. CASE OldSent
  BY <1>a, <1>12 DEF OldSent, TypeOK, MarkingStored, Stored, Visible, publishing, history
<1>13. CASE Disconnect
  BY <1>a, <1>13 DEF Disconnect, TypeOK, MarkingStored, Stored, Visible, publishing, history
<1>14. CASE Tick
  BY <1>a, <1>14 DEF Tick, TypeOK, MarkingStored, Stored, Visible, publishing, client, history
<1>15. CASE UNCHANGED vars
  BY <1>a, <1>15 DEF vars, TypeOK, MarkingStored, Stored, Visible, publishing, client, history
<1> QED
  BY <1>1, <1>2, <1>3, <1>4, <1>5, <1>6, <1>7, <1>8, <1>9, <1>10, <1>11, <1>12, <1>13, <1>14, <1>15
  DEF Next

\* Only a fan-out adds to what was visible in time, and only what is visible then.
LEMMA AheadStep == IInv /\ [Next]_vars => AheadVisible'
<1> SUFFICES ASSUME IInv, [Next]_vars PROVE AheadVisible'
  OBVIOUS
<1>1. Visible \subseteq Visible' BY TableGrows DEF Visible
<1>2. ahead' \subseteq ahead \cup Visible
  <2>1. ASSUME NEW m \in Messages, FanOut(m) PROVE ahead' \subseteq ahead \cup Visible
    BY <2>1 DEF FanOut
  <2> QED
    BY <2>1
    DEF Next, Publish, AddMessage, Write, SendDelayed, SendOld, MarkPublished, Connect, Poll, Subscribe,
        ReadOld, OldSent, Disconnect, Tick, vars, history
<1> QED BY <1>1, <1>2 DEF IInv, AheadVisible

\* The order of the handlers leaves no gap: a fan-out reaches whoever has subscribed, and
\* the cache is read after that.
LEMMA GapStep == IInv /\ [Next]_vars => NoGap'
<1> SUFFICES ASSUME IInv, [Next]_vars PROVE NoGap'
  OBVIOUS
<1>a. TypeOK /\ AheadVisible /\ NoGap BY DEF IInv
<1>b. ASSUME conn' = conn, since' = since, pending' = pending, got' = got, inflight' = inflight, ahead' = ahead,
             \A m \in ahead : fan'[m] = "done" => fan[m] = "done"
      PROVE  NoGap'
  BY <1>a, <1>b DEF NoGap
<1>c. \A m \in ahead : m \in Messages BY <1>a, StoredTyped DEF AheadVisible, Visible
<1>1. ASSUME NEW m \in Messages, NEW d \in Delays, Publish(m, d) PROVE NoGap'
  BY <1>a, <1>b, <1>c, <1>1 DEF Publish, client, history, TypeOK
<1>2. ASSUME NEW m \in Messages, AddMessage(m) PROVE NoGap'
  BY <1>b, <1>2 DEF AddMessage, client, history
<1>3. ASSUME NEW m \in Messages, FanOut(m) PROVE NoGap'
  <2>1. ahead' \subseteq ahead \cup {m} BY <1>3 DEF FanOut
  <2>2. \A x \in ahead : x # m => fan'[x] = fan[x] BY <1>a, <1>c, <1>3 DEF FanOut, TypeOK
  <2>3. conn \in {"reading", "online"} => inflight' = inflight \cup {m} BY <1>3 DEF FanOut
  <2> QED BY <1>a, <1>3, <2>1, <2>2, <2>3 DEF FanOut, NoGap
<1>4. ASSUME NEW m \in Messages, Write(m) PROVE NoGap'
  BY <1>a, <1>4 DEF Write, Receive, NoGap, history
<1>5. ASSUME NEW m \in Messages, SendDelayed(m) PROVE NoGap'
  BY <1>a, <1>b, <1>c, <1>5 DEF SendDelayed, client, history, TypeOK
<1>6. ASSUME NEW m \in Messages, SendOld(m) PROVE NoGap'
  BY <1>a, <1>6 DEF SendOld, Receive, NoGap, history
<1>7. CASE MarkPublished
  BY <1>b, <1>7 DEF MarkPublished, client, history
<1>8. CASE \/ \E k \in Kinds : Connect(k) \/ Poll(k)
           \/ Subscribe \/ Disconnect
  BY <1>8 DEF Connect, Poll, Subscribe, Disconnect, NoGap
<1>9. CASE ReadOld
  <2>1. since[1] = "all" => pending' = Visible BY <1>a, <1>9, QueryVisible DEF ReadOld
  <2> QED BY <1>a, <1>9, <2>1 DEF ReadOld, AheadVisible, NoGap, history
<1>10. CASE OldSent
  BY <1>a, <1>10 DEF OldSent, NoGap, history
<1>11. CASE Tick BY <1>b, <1>11 DEF Tick, client, history
<1>12. CASE UNCHANGED vars BY <1>b, <1>12 DEF vars, client, history
<1> QED
  BY <1>1, <1>2, <1>3, <1>4, <1>5, <1>6, <1>7, <1>8, <1>9, <1>10, <1>11, <1>12 DEF Next

\* The invariant always holds.
LEMMA Inductive == Spec => []IInv
<1>1. IInv /\ [Next]_vars => IInv' BY TypeStep, AheadStep, GapStep DEF IInv
<1> QED BY InitIInv, <1>1, PTL DEF Spec

\* The state of the handlers, the cache and the client is of the expected types.
THEOREM TypeCorrect == Spec => []TypeOK
<1>1. IInv => TypeOK BY DEF IInv
<1> QED BY Inductive, <1>1, PTL

\* However publishers, the delayed sender and the client interleave: a client that asks for
\* everything misses only messages that went out before readers of the cache could see them.
THEOREM NoGapForAll == Spec => []OnlyEarlyFanOutsMissed
<1>1. IInv => OnlyEarlyFanOutsMissed BY DEF IInv, NoGap, OnlyEarlyFanOutsMissed
<1> QED BY Inductive, <1>1, PTL

\* Zenon proves what no other prover is named for.
USE ZenonT(30)

-------------------------------------------------------------------------------
(* A publish request *)

PublishStages == {"new", "limited", "parsed", "message", "email", "call", "body", "send", "waiting", "sent",
                  "accepted", "refused", "failed"}

PublishTyped ==
  /\ req \in [Requests -> PublishStages]
  /\ vrate \in [Requests -> {P!Publisher, P!Subscriber, None}]
  /\ due \in [Requests -> {"yes", "no"}]
  /\ row \in [Requests -> {"no", "unpublished", "published"}]
  /\ DOMAIN params = Requests /\ DOMAIN effects = Requests
  /\ rateVisitor \in {None, P!Subscriber}

\* The parameters of a message whose body was read.
Kept(flags) == IF "poll" \in flags THEN P!Parsed(flags) \ {"delay"} ELSE P!Parsed(flags)

\* Before its body is read, a request has no effect; ...
BeforeBody(r) == \/ req[r] = "parsed" \/ req[r] = "message" \/ req[r] = "email" \/ req[r] = "call" \/ req[r] = "body"
Unsent(r) == req[r] = "new" \/ req[r] = "limited" \/ req[r] = "refused" \/ BeforeBody(r)

\* ... then it is sent or waits, and has no row; ...
Sending(r) == req[r] = "send" \/ req[r] = "waiting" \/ req[r] = "sent"

\* ... and a message that waits in the cache goes to all services but email and call.
Stages(r) ==
  /\ Unsent(r) => effects[r] = {} /\ row[r] = "no"
  /\ BeforeBody(r) => ~ P!BadRequest(ask[r].flags) /\ params[r] = P!Parsed(ask[r].flags)
  /\ Sending(r) => row[r] = "no" /\ ~ P!BadRequest(ask[r].flags) /\ params[r] = Kept(ask[r].flags)
  /\ req[r] = "send" \/ req[r] = "waiting" => effects[r] \subseteq {"file"}
  /\ req[r] = "waiting" => "delay" \in params[r]
  /\ req[r] = "sent" => effects[r] \ {"file"} = P!Wanted(r, FALSE) /\ ~ P!Delayed(r)
  /\ req[r] = "accepted" /\ r \notin late =>
       \/ row[r] = "unpublished" /\ effects[r] \subseteq {"file"}
       \/ effects[r] \ {"file"} = P!Wanted(r, FALSE)
       \/ "delay" \in ask[r].flags /\ row[r] = "published" /\ effects[r] \ {"file"} = P!Wanted(r, TRUE)
  /\ row[r] = "unpublished" =>
       /\ req[r] = "accepted" /\ effects[r] \subseteq {"file"}
       /\ "delay" \in ask[r].flags /\ ~ P!BadRequest(ask[r].flags)

\* The subscriber is charged, unless its visitor was set meanwhile.
Charged(r) ==
  /\ req[r] # "new" /\ req[r] # "refused" => vrate[r] = P!Publisher \/ vrate[r] = P!Subscriber
  /\ (req[r] = "limited" \/ req[r] = "parsed") /\ vrate[r] = P!Publisher /\ rateVisitor # None => r \in switched
  /\ req[r] # "new" /\ req[r] # "limited" /\ req[r] # "parsed" /\ req[r] # "refused" /\ "unifiedpush" \in params[r] =>
       vrate[r] = P!Subscriber \/ r \in switched

PublishOK == PublishTyped /\ \A r \in Requests : Stages(r) /\ Charged(r)

\* Nothing that concerns the request has changed.
LEMMA RequestAlike ==
  ASSUME NEW r \in Requests, Stages(r), Charged(r), UNCHANGED <<services, ask>>,
         req'[r] = req[r], params'[r] = params[r], vrate'[r] = vrate[r],
         due'[r] = due[r] \/ due'[r] = "yes",
         row'[r] = row[r], effects'[r] = effects[r], r \in late' <=> r \in late,
         r \in switched => r \in switched', rateVisitor' = rateVisitor \/ rateVisitor' = None
  PROVE  Stages(r)' /\ Charged(r)'
<1>1. P!Wanted(r, FALSE)' = P!Wanted(r, FALSE) /\ P!Wanted(r, TRUE)' = P!Wanted(r, TRUE) BY DEF P!Wanted
<1>2. (Unsent(r)' <=> Unsent(r)) /\ (BeforeBody(r)' <=> BeforeBody(r)) /\ (Sending(r)' <=> Sending(r))
  BY DEF Unsent, BeforeBody, Sending
<1>3. P!BadRequest(ask[r].flags)' <=> P!BadRequest(ask[r].flags) BY DEF P!BadRequest
<1>4. P!Delayed(r)' => P!Delayed(r) BY DEF P!Delayed
<1>5. Kept(ask[r].flags)' = Kept(ask[r].flags) /\ P!Parsed(ask[r].flags)' = P!Parsed(ask[r].flags) OBVIOUS
<1>6. Charged(r)' BY DEF Charged
<1>7. Stages(r)' BY <1>1, <1>2, <1>3, <1>4, <1>5 DEF Stages
<1> QED BY <1>6, <1>7

\* No request was read yet.
LEMMA PublishInit == ASSUME P!Init PROVE PublishOK
<1>1. PublishTyped BY DEF P!Init, PublishTyped, PublishStages
<1>2. ASSUME NEW r \in Requests PROVE Stages(r) /\ Charged(r)
  <2>1. req[r] = "new" /\ effects[r] = {} /\ row[r] = "no" BY DEF P!Init
  <2> QED BY <2>1 DEF Stages, Charged, Unsent, BeforeBody, Sending
<1> QED BY <1>1, <1>2 DEF PublishOK

\* Only the request r has changed.
LEMMA RequestStep ==
  ASSUME PublishOK, NEW r \in Requests, PublishTyped', UNCHANGED <<services, ask, rateVisitor, switched>>,
         \A q \in Requests : q # r =>
           /\ req'[q] = req[q] /\ params'[q] = params[q] /\ vrate'[q] = vrate[q] /\ due'[q] = due[q]
           /\ row'[q] = row[q] /\ effects'[q] = effects[q] /\ (q \in late' <=> q \in late),
         Stages(r)', Charged(r)'
  PROVE  PublishOK'
<1>1. ASSUME NEW q \in Requests, q # r PROVE Stages(q)' /\ Charged(q)'
  <2>1. Stages(q) /\ Charged(q) BY DEF PublishOK
  <2> QED BY <1>1, <2>1, RequestAlike
<1> QED BY <1>1 DEF PublishOK

\* One request goes on, and the others stay where they are.
LEMMA GotoOK ==
  ASSUME PublishTyped, NEW r \in Requests, NEW s \in PublishStages, P!Goto(r, s)
  PROVE  /\ req' \in [Requests -> PublishStages] /\ req'[r] = s
         /\ \A q \in Requests : q # r => req'[q] = req[q]
BY DEF PublishTyped, P!Goto

\* A subscriber becomes, or stops being, the visitor who pays.
LEMMA ChangeStep == ASSUME PublishOK, P!ChangeRateVisitor PROVE PublishOK'
<1>1. UNCHANGED <<services, req, ask, params, vrate, due, row, effects, late>> BY DEF P!ChangeRateVisitor
<1>2. rateVisitor' \in {None, P!Subscriber} BY DEF P!ChangeRateVisitor
<1>3. PublishTyped' BY <1>1, <1>2 DEF PublishOK, PublishTyped
<1>4. ASSUME NEW r \in Requests PROVE Stages(r)' /\ Charged(r)'
  <2>1. Stages(r) /\ Charged(r) BY DEF PublishOK
  <2>2. CASE rateVisitor' = None
    <3>1. switched \subseteq switched' BY DEF P!ChangeRateVisitor
    <3> QED BY <1>1, <2>1, <2>2, <3>1, RequestAlike
  <2>3. CASE rateVisitor = None
    <3>1. switched' = switched \cup {q \in Requests : req[q] \in {"limited", "parsed"}}
      BY <2>3 DEF P!ChangeRateVisitor
    <3>2. Charged(r)' BY <1>1, <2>1, <3>1 DEF Charged
    <3>3. Stages(r)'
      <4>1. P!Wanted(r, FALSE)' = P!Wanted(r, FALSE) /\ P!Wanted(r, TRUE)' = P!Wanted(r, TRUE) BY <1>1 DEF P!Wanted
      <4>2. (Unsent(r)' <=> Unsent(r)) /\ (BeforeBody(r)' <=> BeforeBody(r)) /\ (Sending(r)' <=> Sending(r))
        BY <1>1 DEF Unsent, BeforeBody, Sending
      <4>3. P!BadRequest(ask[r].flags)' <=> P!BadRequest(ask[r].flags) BY <1>1 DEF P!BadRequest
      <4>4. P!Delayed(r)' <=> P!Delayed(r) BY <1>1 DEF P!Delayed
      <4> QED BY <1>1, <2>1, <4>1, <4>2, <4>3, <4>4 DEF Stages
    <3> QED BY <3>2, <3>3
  <2> QED BY <2>2, <2>3 DEF P!ChangeRateVisitor
<1> QED BY <1>3, <1>4 DEF PublishOK

\* A request that is limited or refused.
LEMMA BeginStep == ASSUME PublishOK, NEW r \in Requests, P!LimitRequests(r) \/ P!Refuse(r) PROVE PublishOK'
<1>1. PublishTyped /\ Stages(r) BY DEF PublishOK
<1>2. req[r] = "new" \/ req[r] = "limited" BY DEF P!LimitRequests, P!Refuse
<1>3. UNCHANGED <<services, rateVisitor, ask, params, due, row, effects, switched, late>>
  BY DEF P!LimitRequests, P!Refuse
<1>4. PICK s \in {"limited", "refused"} : P!Goto(r, s) /\ (s = "limited" => P!LimitRequests(r))
  BY DEF P!LimitRequests, P!Refuse
<1>5. s \in PublishStages BY DEF PublishStages
<1>6. /\ req' \in [Requests -> PublishStages] /\ req'[r] = s
      /\ \A q \in Requests : q # r => req'[q] = req[q]
  BY <1>1, <1>4, <1>5, GotoOK
<1>7. vrate' \in [Requests -> {P!Publisher, P!Subscriber, None}] /\ \A q \in Requests : q # r => vrate'[q] = vrate[q]
  BY <1>1 DEF P!LimitRequests, P!Refuse, PublishTyped
<1>8. PublishTyped' BY <1>1, <1>3, <1>6, <1>7 DEF PublishTyped
<1>9. Stages(r)'
  <2>1. effects'[r] = {} /\ row'[r] = "no" BY <1>1, <1>2, <1>3 DEF Stages, Unsent
  <2> QED BY <1>6, <2>1 DEF Stages, Unsent, BeforeBody, Sending
<1>10. Charged(r)'
  <2>1. ASSUME s = "limited"
        PROVE  (vrate'[r] = P!Publisher \/ vrate'[r] = P!Subscriber) /\ (vrate'[r] = P!Publisher /\ rateVisitor # None => r \in switched)
    <3>1. vrate'[r] = IF rateVisitor = None THEN P!Publisher ELSE rateVisitor
      BY <1>1, <1>4, <2>1 DEF P!LimitRequests, PublishTyped
    <3>2. rateVisitor # None => rateVisitor = P!Subscriber BY <1>1 DEF PublishTyped
    <3>3. P!Publisher # P!Subscriber BY DEF P!Publisher, P!Subscriber
    <3> QED BY <3>1, <3>2, <3>3
  <2> QED BY <1>3, <1>6, <2>1 DEF Charged
<1> QED BY <1>3, <1>6, <1>7, <1>8, <1>9, <1>10, RequestStep

\* parsePublishParams
LEMMA ParseStep == ASSUME PublishOK, NEW r \in Requests, P!ParseParams(r) PROVE PublishOK'
<1>1. PublishTyped /\ Stages(r) /\ Charged(r) BY DEF PublishOK
<1>2. req[r] = "limited" BY DEF P!ParseParams
<1>3. UNCHANGED <<services, rateVisitor, ask, vrate, due, row, effects, switched, late>> BY DEF P!ParseParams
<1>4. effects'[r] = {} /\ row'[r] = "no" BY <1>1, <1>2, <1>3 DEF Stages, Unsent
<1>5. PICK s \in {"parsed", "refused"} :
        /\ P!Goto(r, s)
        /\ s = "parsed" => ~ P!BadRequest(ask[r].flags) /\ params' = [params EXCEPT ![r] = P!Parsed(ask[r].flags)]
        /\ s = "refused" => params' = params
  BY DEF P!ParseParams
<1>6. s \in PublishStages BY DEF PublishStages
<1>7. /\ req' \in [Requests -> PublishStages] /\ req'[r] = s
      /\ \A q \in Requests : q # r => req'[q] = req[q]
  BY <1>1, <1>5, <1>6, GotoOK
<1>8. /\ DOMAIN params' = Requests /\ \A q \in Requests : q # r => params'[q] = params[q]
      /\ s = "parsed" => params'[r] = P!Parsed(ask[r].flags)
  BY <1>1, <1>5 DEF PublishTyped
<1>9. PublishTyped' BY <1>1, <1>3, <1>7, <1>8 DEF PublishTyped
<1>10. P!BadRequest(ask[r].flags)' <=> P!BadRequest(ask[r].flags) BY <1>3 DEF P!BadRequest
<1>11. Stages(r)' BY <1>3, <1>4, <1>5, <1>7, <1>8, <1>10 DEF Stages, Unsent, BeforeBody, Sending
<1>12. Charged(r)' BY <1>1, <1>2, <1>3, <1>7 DEF Charged
<1> QED BY <1>3, <1>7, <1>8, <1>9, <1>11, <1>12, RequestStep

\* A delayed message becomes due.
LEMMA DueStep == ASSUME PublishOK, NEW r \in Requests, P!Due(r) PROVE PublishOK'
<1>1. PublishTyped BY DEF PublishOK
<1>2. UNCHANGED <<services, rateVisitor, req, ask, params, vrate, row, effects, switched, late>> BY DEF P!Due
<1>3. due' \in [Requests -> {"yes", "no"}] /\ \A q \in Requests : due'[q] = due[q] \/ due'[q] = "yes"
  BY <1>1 DEF P!Due, PublishTyped
<1>4. PublishTyped' BY <1>1, <1>2, <1>3 DEF PublishTyped
<1>5. ASSUME NEW q \in Requests PROVE Stages(q)' /\ Charged(q)'
  <2>1. Stages(q) /\ Charged(q) BY DEF PublishOK
  <2> QED BY <1>2, <1>3, <2>1, RequestAlike
<1> QED BY <1>4, <1>5 DEF PublishOK

\* The checks between the parameters and the body.
LEMMA CheckStep ==
  ASSUME PublishOK, NEW r \in Requests,
         P!CheckRateVisitor(r) \/ \E kind \in {"message", "email", "call"} : P!Charge(r, kind)
  PROVE  PublishOK'
<1>1. PublishTyped /\ Stages(r) /\ Charged(r) BY DEF PublishOK
<1>2. UNCHANGED <<services, rateVisitor, ask, params, vrate, due, row, effects, switched, late>>
  BY DEF P!CheckRateVisitor, P!Charge
<1>3. BeforeBody(r) BY DEF P!CheckRateVisitor, P!Charge, BeforeBody
<1>4. /\ effects[r] = {} /\ row[r] = "no"
      /\ ~ P!BadRequest(ask[r].flags) /\ params[r] = P!Parsed(ask[r].flags)
  BY <1>1, <1>3 DEF Stages, Unsent
<1>5. PICK s \in {"refused", "message", "email", "call", "body"} :
        /\ P!Goto(r, s)
        /\ s # "refused" /\ "unifiedpush" \in params[r] => vrate[r] = P!Subscriber \/ r \in switched
  <2>1. CASE P!CheckRateVisitor(r)
    <3>1. req[r] = "parsed" BY <2>1 DEF P!CheckRateVisitor
    <3>2. rateVisitor # None => vrate[r] = P!Subscriber \/ r \in switched BY <1>1, <3>1 DEF Charged
    <3>3. CASE "unifiedpush" \in params[r] /\ rateVisitor = None
      <4>1. P!Goto(r, "refused") BY <2>1, <3>3 DEF P!CheckRateVisitor
      <4> QED BY <4>1
    <3>4. CASE ~ ("unifiedpush" \in params[r] /\ rateVisitor = None)
      <4>1. P!Goto(r, "message") BY <2>1, <3>4 DEF P!CheckRateVisitor
      <4> QED BY <3>2, <3>4, <4>1
    <3> QED BY <3>3, <3>4
  <2>2. ASSUME NEW kind \in {"message", "email", "call"}, P!Charge(r, kind)
        PROVE  \E s \in {"refused", "message", "email", "call", "body"} :
                 /\ P!Goto(r, s)
                 /\ s # "refused" /\ "unifiedpush" \in params[r] => vrate[r] = P!Subscriber \/ r \in switched
    <3>1. req[r] = kind BY <2>2 DEF P!Charge
    <3>2. "unifiedpush" \in params[r] => vrate[r] = P!Subscriber \/ r \in switched BY <1>1, <3>1 DEF Charged
    <3>3. P!After(r, kind) \in {"email", "call", "body"} BY DEF P!After
    <3>4. P!Goto(r, "refused") \/ P!Goto(r, P!After(r, kind)) BY <2>2 DEF P!Charge
    <3> QED BY <3>2, <3>3, <3>4
  <2> QED BY <2>1, <2>2
<1>6. s \in PublishStages BY DEF PublishStages
<1>7. /\ req' \in [Requests -> PublishStages] /\ req'[r] = s
      /\ \A q \in Requests : q # r => req'[q] = req[q]
  BY <1>1, <1>5, <1>6, GotoOK
<1>8. PublishTyped' BY <1>1, <1>2, <1>7 DEF PublishTyped
<1>9. P!BadRequest(ask[r].flags)' <=> P!BadRequest(ask[r].flags) BY <1>2 DEF P!BadRequest
<1>10. Stages(r)' BY <1>2, <1>4, <1>7, <1>9 DEF Stages, Unsent, BeforeBody, Sending
<1>11. vrate[r] = P!Publisher \/ vrate[r] = P!Subscriber BY <1>1, <1>3 DEF Charged, BeforeBody
<1>12. Charged(r)' BY <1>2, <1>5, <1>7, <1>11 DEF Charged
<1> QED BY <1>2, <1>7, <1>8, <1>10, <1>12, RequestStep

\* handlePublishBody, which may make the body an attachment.
LEMMA BodyStep == ASSUME PublishOK, NEW r \in Requests, P!HandleBody(r) PROVE PublishOK'
<1>1. PublishTyped /\ Stages(r) /\ Charged(r) BY DEF PublishOK
<1>2. /\ UNCHANGED <<services, rateVisitor, ask, vrate, due, row, switched, late>> /\ req[r] = "body"
      /\ params' = [params EXCEPT ![r] = IF "poll" \in params[r] THEN params[r] \ {"delay"} ELSE params[r]]
  BY DEF P!HandleBody
<1>3. /\ effects[r] = {} /\ row[r] = "no"
      /\ ~ P!BadRequest(ask[r].flags) /\ params[r] = P!Parsed(ask[r].flags)
  BY <1>1, <1>2 DEF Stages, Unsent, BeforeBody
<1>4. PICK s \in {"send", "refused"} :
        /\ P!Goto(r, s)
        /\ s = "send" => effects' = [effects EXCEPT ![r] = IF P!BodyOf(r) = "attachment" THEN {"file"} ELSE {}]
        /\ s = "refused" => effects' = effects
  BY DEF P!HandleBody
<1>5. s \in PublishStages BY DEF PublishStages
<1>6. /\ req' \in [Requests -> PublishStages] /\ req'[r] = s
      /\ \A q \in Requests : q # r => req'[q] = req[q]
  BY <1>1, <1>4, <1>5, GotoOK
<1>7. /\ DOMAIN effects' = Requests /\ \A q \in Requests : q # r => effects'[q] = effects[q]
      /\ effects'[r] \subseteq {"file"} /\ (s = "refused" => effects'[r] = {})
  BY <1>1, <1>3, <1>4 DEF PublishTyped
<1>8. /\ DOMAIN params' = Requests /\ \A q \in Requests : q # r => params'[q] = params[q]
      /\ params'[r] = IF "poll" \in params[r] THEN params[r] \ {"delay"} ELSE params[r]
  BY <1>1, <1>2 DEF PublishTyped
<1>9. "poll" \in params[r] <=> "poll" \in ask[r].flags BY <1>3 DEF P!Parsed
<1>10. params'[r] = Kept(ask[r].flags) BY <1>3, <1>8, <1>9 DEF Kept
<1>11. PublishTyped' BY <1>1, <1>2, <1>6, <1>7, <1>8 DEF PublishTyped
<1>12. P!BadRequest(ask[r].flags)' <=> P!BadRequest(ask[r].flags) BY <1>2 DEF P!BadRequest
<1>13. Stages(r)' BY <1>2, <1>3, <1>6, <1>7, <1>10, <1>12 DEF Stages, Unsent, BeforeBody, Sending
<1>14. Charged(r)'
  <2>1. "unifiedpush" \in params'[r] => "unifiedpush" \in params[r] BY <1>8
  <2> QED BY <1>1, <1>2, <1>6, <2>1 DEF Charged
<1> QED BY <1>2, <1>6, <1>7, <1>8, <1>11, <1>13, <1>14, RequestStep

\* What a message that was read is sent to is what was asked for.
LEMMA ImmediateWanted ==
  ASSUME NEW r \in Requests, params[r] = Kept(ask[r].flags) PROVE P!Immediate(r) = P!Wanted(r, FALSE)
<1>1. /\ "firebase" \in params[r] <=> "firebase" \in ask[r].flags /\ "unifiedpush" \notin ask[r].flags
      /\ "email" \in params[r] <=> "email" \in ask[r].flags /\ "poll" \notin ask[r].flags
      /\ "call" \in params[r] <=> "call" \in ask[r].flags
      /\ "unifiedpush" \in params[r] <=> "unifiedpush" \in ask[r].flags /\ "poll" \notin ask[r].flags
  BY DEF Kept, P!Parsed
<1>2. ASSUME NEW s PROVE s \in P!Immediate(r) <=> s \in P!Wanted(r, FALSE)
  BY <1>1, SMTT(30) DEF P!Immediate, P!Wanted
<1> QED BY <1>2

\* The message goes to the subscribers and the services, or waits.
LEMMA SendStep == ASSUME PublishOK, NEW r \in Requests, P!Send(r) PROVE PublishOK'
<1>1. PublishTyped /\ Stages(r) /\ Charged(r) BY DEF PublishOK
<1>2. /\ UNCHANGED <<services, rateVisitor, ask, params, vrate, due, row, switched, late>> /\ req[r] = "send"
      /\ effects' = [effects EXCEPT ![r] = IF P!Delayed(r) THEN effects[r] ELSE effects[r] \cup P!Immediate(r)]
  BY DEF P!Send
<1>3. /\ row[r] = "no" /\ ~ P!BadRequest(ask[r].flags) /\ params[r] = Kept(ask[r].flags)
      /\ effects[r] \subseteq {"file"}
  BY <1>1, <1>2 DEF Stages, Sending
<1>4. PICK s \in {"waiting", "sent"} : P!Goto(r, s) /\ (s = "waiting" <=> P!Delayed(r)) BY DEF P!Send
<1>5. s \in PublishStages BY DEF PublishStages
<1>6. /\ req' \in [Requests -> PublishStages] /\ req'[r] = s
      /\ \A q \in Requests : q # r => req'[q] = req[q]
  BY <1>1, <1>4, <1>5, GotoOK
<1>7. /\ DOMAIN effects' = Requests /\ \A q \in Requests : q # r => effects'[q] = effects[q]
      /\ effects'[r] = IF P!Delayed(r) THEN effects[r] ELSE effects[r] \cup P!Immediate(r)
  BY <1>1, <1>2 DEF PublishTyped
<1>8. PublishTyped' BY <1>1, <1>2, <1>6, <1>7 DEF PublishTyped
<1>9. P!BadRequest(ask[r].flags)' <=> P!BadRequest(ask[r].flags) BY <1>2 DEF P!BadRequest
<1>10. P!Delayed(r)' <=> P!Delayed(r) BY <1>2 DEF P!Delayed
<1>11. P!Delayed(r) => "delay" \in params[r] BY DEF P!Delayed
<1>12. s = "sent" => effects'[r] \ {"file"} = P!Wanted(r, FALSE)'
  <2>1. P!Immediate(r) = P!Wanted(r, FALSE) BY <1>3, ImmediateWanted
  <2>2. P!Wanted(r, FALSE)' = P!Wanted(r, FALSE) BY <1>2 DEF P!Wanted
  <2>3. "file" \notin P!Immediate(r) BY DEF P!Immediate
  <2> QED BY <1>3, <1>4, <1>7, <2>1, <2>2, <2>3
<1>13. Stages(r)'
  BY <1>2, <1>3, <1>4, <1>6, <1>7, <1>9, <1>10, <1>11, <1>12 DEF Stages, Unsent, BeforeBody, Sending
<1>14. Charged(r)' BY <1>1, <1>2, <1>6 DEF Charged
<1> QED BY <1>2, <1>6, <1>7, <1>8, <1>13, <1>14, RequestStep

\* Only cached messages are delayed.
LEMMA DelayedCached ==
  ASSUME NEW r \in Requests, ~ P!BadRequest(ask[r].flags), params[r] = Kept(ask[r].flags), "delay" \in params[r]
  PROVE  "delay" \in ask[r].flags /\ "cache" \in params[r]
<1>1. "delay" \in ask[r].flags /\ "poll" \notin ask[r].flags BY DEF Kept, P!Parsed
<1>2. "cache" \in ask[r].flags BY <1>1 DEF P!BadRequest
<1> QED BY <1>1, <1>2 DEF Kept, P!Parsed

\* The message is added to the cache.
LEMMA StoreStep == ASSUME PublishOK, NEW r \in Requests, P!AddMessage(r) PROVE PublishOK'
<1>1. PublishTyped /\ Stages(r) /\ Charged(r) BY DEF PublishOK
<1>2. /\ UNCHANGED <<services, rateVisitor, ask, params, vrate, due, effects, switched>>
      /\ req[r] = "waiting" \/ req[r] = "sent"
  BY DEF P!AddMessage
<1>3. row[r] = "no" /\ ~ P!BadRequest(ask[r].flags) /\ params[r] = Kept(ask[r].flags)
  BY <1>1, <1>2 DEF Stages, Sending
<1>4. PICK s \in {"accepted", "failed"} :
        /\ P!Goto(r, s)
        /\ s = "failed" \/ "cache" \notin params[r] => row' = row /\ late' = late
        /\ s = "accepted" /\ "cache" \in params[r] =>
             /\ row' = [row EXCEPT ![r] = IF P!Delayed(r) THEN "unpublished" ELSE "published"]
             /\ late' = IF req[r] = "waiting" /\ due[r] = "yes" THEN late \cup {r} ELSE late
  BY DEF P!AddMessage
<1>5. s \in PublishStages BY DEF PublishStages
<1>6. /\ req' \in [Requests -> PublishStages] /\ req'[r] = s
      /\ \A q \in Requests : q # r => req'[q] = req[q]
  BY <1>1, <1>4, <1>5, GotoOK
<1>7. /\ row' \in [Requests -> {"no", "unpublished", "published"}]
      /\ \A q \in Requests : q # r => row'[q] = row[q] /\ (q \in late' <=> q \in late)
  BY <1>1, <1>4 DEF PublishTyped
<1>8. PublishTyped' BY <1>1, <1>2, <1>6, <1>7 DEF PublishTyped
<1>9. P!BadRequest(ask[r].flags)' <=> P!BadRequest(ask[r].flags) BY <1>2 DEF P!BadRequest
<1>10. P!Wanted(r, FALSE)' = P!Wanted(r, FALSE) BY <1>2 DEF P!Wanted
<1>11. row[r] # "unpublished" BY <1>3
<1>12. s = "failed" => row'[r] = row[r] BY <1>4
<1>13. ASSUME s = "accepted", req[r] = "waiting"
       PROVE  /\ "delay" \in ask[r].flags /\ effects[r] \subseteq {"file"}
              /\ r \in late' \/ row'[r] = "unpublished"
  <2>1. "delay" \in params[r] /\ effects[r] \subseteq {"file"} BY <1>1, <1>13 DEF Stages
  <2>2. "delay" \in ask[r].flags /\ "cache" \in params[r] BY <1>3, <2>1, DelayedCached
  <2>3. due[r] = "yes" \/ due[r] = "no" BY <1>1 DEF PublishTyped
  <2> QED BY <1>1, <1>4, <1>13, <2>1, <2>2, <2>3 DEF PublishTyped, P!Delayed
<1>14. ASSUME s = "accepted", req[r] = "sent"
       PROVE  effects[r] \ {"file"} = P!Wanted(r, FALSE) /\ row'[r] # "unpublished"
  <2>1. effects[r] \ {"file"} = P!Wanted(r, FALSE) /\ ~ P!Delayed(r) BY <1>1, <1>14 DEF Stages
  <2> QED BY <1>1, <1>4, <1>11, <1>14, <2>1 DEF PublishTyped
<1>15. Stages(r)'
  <2>1. CASE s = "failed" BY <1>6, <1>11, <1>12, <2>1 DEF Stages, Unsent, BeforeBody, Sending
  <2>2. CASE s = "accepted" /\ req[r] = "waiting"
    BY <1>2, <1>3, <1>6, <1>9, <1>13, <2>2 DEF Stages, Unsent, BeforeBody, Sending
  <2>3. CASE s = "accepted" /\ req[r] = "sent"
    BY <1>2, <1>6, <1>10, <1>14, <2>3 DEF Stages, Unsent, BeforeBody, Sending
  <2> QED BY <1>2, <2>1, <2>2, <2>3
<1>16. Charged(r)' BY <1>1, <1>2, <1>6 DEF Charged
<1> QED BY <1>2, <1>6, <1>7, <1>8, <1>15, <1>16, RequestStep

\* sendDelayedMessage
LEMMA DelayedStep == ASSUME PublishOK, NEW r \in Requests, P!SendDelayed(r) PROVE PublishOK'
<1>1. PublishTyped /\ Stages(r) /\ Charged(r) BY DEF PublishOK
<1>2. /\ UNCHANGED <<services, rateVisitor, req, ask, params, vrate, due, switched, late>> /\ row[r] = "unpublished"
      /\ effects' = [effects EXCEPT ![r] =
                       effects[r] \cup {"topic"} \cup (services \cap {"firebase", "upstream", "webpush"})]
      /\ row' = [row EXCEPT ![r] = "published"]
  BY DEF P!SendDelayed
<1>3. /\ req[r] = "accepted" /\ effects[r] \subseteq {"file"}
      /\ "delay" \in ask[r].flags /\ ~ P!BadRequest(ask[r].flags)
  BY <1>1, <1>2 DEF Stages
<1>4. /\ DOMAIN effects' = Requests /\ \A q \in Requests : q # r => effects'[q] = effects[q]
      /\ effects'[r] = effects[r] \cup {"topic"} \cup (services \cap {"firebase", "upstream", "webpush"})
  BY <1>1, <1>2 DEF PublishTyped
<1>5. /\ row' \in [Requests -> {"no", "unpublished", "published"}] /\ row'[r] = "published"
      /\ \A q \in Requests : q # r => row'[q] = row[q]
  BY <1>1, <1>2 DEF PublishTyped
<1>6. PublishTyped' BY <1>1, <1>2, <1>4, <1>5 DEF PublishTyped
<1>7. "email" \notin ask[r].flags /\ "call" \notin ask[r].flags BY <1>3 DEF P!BadRequest
<1>8. {"topic"} \cup (services \cap {"firebase", "upstream", "webpush"}) = P!Wanted(r, TRUE)
  <2>1. ASSUME NEW s PROVE s \in {"topic"} \cup (services \cap {"firebase", "upstream", "webpush"}) <=> s \in P!Wanted(r, TRUE)
    BY <1>7, SMTT(30) DEF P!Wanted
  <2> QED BY <2>1
<1>9. P!Wanted(r, TRUE)' = P!Wanted(r, TRUE) BY <1>2 DEF P!Wanted
<1>10. "file" \notin P!Wanted(r, TRUE) BY DEF P!Wanted
<1>11. effects'[r] \ {"file"} = P!Wanted(r, TRUE)' BY <1>3, <1>4, <1>8, <1>9, <1>10
<1>12. Stages(r)' BY <1>2, <1>3, <1>5, <1>11 DEF Stages, Unsent, BeforeBody, Sending
<1>13. Charged(r)' BY <1>1, <1>2 DEF Charged
<1> QED BY <1>2, <1>4, <1>5, <1>6, <1>12, <1>13, RequestStep

\* Every step of every request keeps the invariant.
LEMMA PublishStep == ASSUME PublishOK, [P!Next]_(P!vars) PROVE PublishOK'
<1>1. ASSUME UNCHANGED P!vars PROVE PublishOK'
  <2>1. UNCHANGED <<services, rateVisitor, req, ask, params, vrate, due, row, effects, switched, late>>
    BY <1>1 DEF P!vars
  <2>2. PublishTyped' BY <2>1 DEF PublishOK, PublishTyped
  <2>3. ASSUME NEW q \in Requests PROVE Stages(q)' /\ Charged(q)'
    <3>1. Stages(q) /\ Charged(q) BY DEF PublishOK
    <3> QED BY <2>1, <3>1, RequestAlike
  <2> QED BY <2>2, <2>3 DEF PublishOK
<1>2. ASSUME NEW r \in Requests, P!CheckRateVisitor(r) \/ \E kind \in {"message", "email", "call"} : P!Charge(r, kind)
      PROVE  PublishOK'
  BY <1>2, CheckStep
<1>3. ASSUME NEW r \in Requests, P!LimitRequests(r) \/ P!Refuse(r) PROVE PublishOK' BY <1>3, BeginStep
<1> QED BY <1>1, <1>2, <1>3, ChangeStep, ParseStep, DueStep, BodyStep, SendStep, StoreStep, DelayedStep DEF P!Next

\* For any requests, options and limits: handlePublishInternal leaves nothing of a refused
\* request but its charges, charges the visitor it should, and serves what was asked for.
THEOREM PublishedAsAsked == P!Spec => []AsAsked
<1>1. P!Init => PublishOK BY PublishInit
<1>2. PublishOK /\ [P!Next]_(P!vars) => PublishOK' BY PublishStep
<1>3. PublishOK => AsAsked
  <2>1. PublishOK => P!AsAsked BY DEF PublishOK, Stages, Unsent, P!AsAsked
  <2>2. PublishOK => P!SubscriberPays BY DEF PublishOK, Charged, P!SubscriberPays
  <2> QED BY <2>1, <2>2 DEF AsAsked
<1> QED BY <1>1, <1>2, <1>3, PTL DEF P!Spec

\* The session's fields are those of the mail at hand: its address once there is one, and the
\* login of the session while it lasts.
MailOK ==
  /\ dialogue = "rcpt" => topic = address.topic /\ token = address.token
  /\ dialogue # "closed" => basicAuth = login
  /\ M!OwnMail

\* What is in a sequence of one post, ...
LEMMA OnePost == \A p : {<<p>>[i] : i \in DOMAIN <<p>>} = {p}
  BY SMTT(30)

\* ... and in one of none.
LEMMA NoPost == {<<>>[i] : i \in DOMAIN <<>>} = {}
  BY SMTT(30)

\* A session begins with nothing.
LEMMA MailInit == M!Init => MailOK
  BY NoPost DEF M!Init, MailOK, M!OwnMail

\* A plain text that is read is preferred to HTML.
LEMMA PlainPreferred ==
  ASSUME NEW body, M!Multipart(body), M!readMailBody(body) = "html",
         NEW i \in DOMAIN body.parts, body.parts[i].kind = "plain"
  PROVE  \E j \in 1 .. i : M!Multipart(body.parts[j])
<1> SUFFICES ASSUME \A j \in 1 .. i : ~ M!Multipart(body.parts[j])
             PROVE  FALSE
  OBVIOUS
<1> DEFINE texts == UNION {M!Texts(parts) : parts \in {body.parts} \cup M!Nested(body.parts)}
<1>1. "plain" \in M!Texts(body.parts)
  BY DEF M!Texts
<1>2. "plain" \in texts
  BY <1>1
<1>3. M!Preferred(texts) = "plain"
  BY <1>2 DEF M!Preferred
<1>4. M!readMailBody(body) \in {None, "plain"}
  BY <1>3 DEF M!readMailBody
<1> QED
  BY <1>4, MailAssumption

\* Data, which publishes and resets the session.
LEMMA DataStep ==
  ASSUME MailOK, NEW body \in Bodies, M!Data(body)
  PROVE  MailOK'
<1>1. UNCHANGED post \/ post' = <<[topic |-> topic, auth |-> IF token # None THEN token ELSE basicAuth,
                     kind |-> M!readMailBody(body), to |-> address, login |-> login, body |-> body]>>
  BY DEF M!Data
<1>2. M!OwnMail'
  <2>1. CASE UNCHANGED post
    BY <2>1 DEF MailOK, M!OwnMail
  <2>2. CASE ~ UNCHANGED post
    <3> DEFINE q == [topic |-> topic, auth |-> IF token # None THEN token ELSE basicAuth,
                     kind |-> M!readMailBody(body), to |-> address, login |-> login, body |-> body]
    <3>0. post' = <<q>>
      BY <1>1, <2>2
    <3>2. /\ topic = address.topic /\ token = address.token
          /\ basicAuth = login
      BY DEF M!Data, MailOK
    <3>3. /\ q.topic = q.to.topic
          /\ q.auth = IF q.to.token # None THEN q.to.token ELSE q.login
          /\ q.kind = M!readMailBody(q.body)
      BY <3>2
    <3> HIDE DEF q
    <3>1. {post'[i] : i \in DOMAIN post'} = {q}
      BY <3>0, OnePost
    <3> QED
      BY <3>1, <3>3, PlainPreferred DEF M!OwnMail
  <2> QED
    BY <2>1, <2>2
<1>3. dialogue' = "greeted" /\ basicAuth' = basicAuth /\ login' = login /\ dialogue = "rcpt"
  BY DEF M!Data
<1> QED
  BY <1>2, <1>3 DEF MailOK

\* A step of a mail keeps MailOK.
LEMMA MailStep == MailOK /\ [M!Next]_(M!vars) => MailOK'
<1> SUFFICES ASSUME MailOK, [M!Next]_(M!vars)
             PROVE  MailOK'
  OBVIOUS
<1>1. ASSUME NEW c \in Credentials, M!AuthPlain(c)
      PROVE  MailOK'
  BY <1>1 DEF MailOK, M!OwnMail, M!AuthPlain
<1>2. ASSUME NEW a \in M!Addresses, M!Rcpt(a)
      PROVE  MailOK'
  BY <1>2 DEF MailOK, M!OwnMail, M!Rcpt
<1>3. CASE M!NewSession
  BY <1>3 DEF MailOK, M!OwnMail, M!NewSession
<1>4. CASE M!MailFrom
  BY <1>4 DEF MailOK, M!OwnMail, M!MailFrom
<1>5. CASE M!Reset
  BY <1>5 DEF MailOK, M!OwnMail, M!Reset
<1>6. CASE M!Logout
  BY <1>6 DEF MailOK, M!OwnMail, M!Logout
<1>7. CASE UNCHANGED M!vars
  BY <1>7 DEF MailOK, M!OwnMail, M!vars
<1> QED
  BY <1>1, <1>2, <1>3, <1>4, <1>5, <1>6, <1>7, DataStep DEF M!Next

\* For any addresses, credentials and bodies: Data publishes a mail to the topic and with
\* the token or login of its own recipient and session, and prefers its plain text.
THEOREM MailIsOwn == M!Spec => []OwnMail
<1>1. MailOK => OwnMail
  BY DEF MailOK, OwnMail
<1> QED
  BY <1>1, MailInit, MailStep, PTL DEF M!Spec
==============================================================================
