---------------------------- MODULE ReceivingProofs ---------------------------
(***************************************************************************)
(* Messages that arrive are handled once, for any subscriptions, messages, *)
(* connections and tabs: the command line client and the web app.          *)
(***************************************************************************)
EXTENDS Messages, TLAPS

\* Zenon proves what no other prover is named for.
USE ZenonT(30)

Message == [sub : Subscriptions, conn : Nat, id : Nat]

ClientTyped ==
  /\ csince \in [Subscriptions -> {"none", "all"}]
  /\ cpublished \in [Subscriptions -> Nat] /\ cconn \in [Subscriptions -> Nat]
  /\ phase \in [Subscriptions -> {"dial", "read", "send", "wait", "exited"}]
  /\ lines \in [Subscriptions -> Seq(Nat)]
  /\ held \in [Subscriptions -> Seq(Message)]
  /\ handled \in [Subscriptions -> Seq(Message)]
  /\ received \in [Subscriptions -> Seq(Message)]
  /\ channel \in Seq(Message)
  /\ running = <<>> \/ \E m \in Message : running = <<m>>
  /\ lost \in [Subscriptions -> SUBSET Nat]

\* The messages of one subscription in q are in order.
InOrder(q) ==
  \A i, j \in 1 .. Len(q) : i < j /\ q[i].sub = q[j].sub => C!Ahead(q[i], q[j])

\* What s has read over c connections, of p messages published, with option o: in order,
\* without gaps on a connection, and from the first one on with since=all.
ReadOK(s, read, c, p, o) ==
  /\ \A i \in 1 .. Len(read) : read[i].sub = s /\ read[i].conn <= c /\ read[i].id <= p
  /\ \A i, j \in 1 .. Len(read) : i < j => C!Ahead(read[i], read[j])
  /\ \A i \in 1 .. Len(read) :
       IF i > 1 /\ read[i - 1].conn = read[i].conn THEN read[i].id = read[i - 1].id + 1
       ELSE o = "all" => read[i].id = 1
  /\ o = "none" => \A i, j \in 1 .. Len(read) : i < j => read[i].id < read[j].id

\* Something has been read on connection c.
Now(read, c) == Len(read) > 0 /\ read[Len(read)].conn = c
HeadOpen(ls) == Len(ls) > 0 /\ ls[1] = C!Open

\* What is on its way: the latest messages that were published, up to the latest one, after the
\* open event.
LinesOK(ls, read, c, p, o) ==
  /\ \A i \in 1 .. Len(ls) : ls[i] = C!Open \/ ls[i] = p - (Len(ls) - i)
  /\ \A i \in 1 .. Len(ls) : ls[i] = C!Open => i = 1
  /\ Now(read, c) => ~ HeadOpen(ls) /\ read[Len(read)].id = p - Len(ls)
  /\ o = "all" /\ ~ Now(read, c) => Len(ls) = IF HeadOpen(ls) THEN p + 1 ELSE p
  /\ o = "none" =>
       \A i \in 1 .. Len(ls), j \in 1 .. Len(read) : ls[i] = C!Open \/ read[j].id < ls[i]

\* Without since=, every published message is lost, read or on its way.
CoverOK(p, gone, read, ls) ==
  \A id \in 1 .. p :
    \/ id \in gone
    \/ \E i \in 1 .. Len(read) : read[i].id = id
    \/ \E i \in 1 .. Len(ls) : ls[i] = id

\* What s has read and not handled is in the queue q or held, and nothing else of s is.
FlowOK(s, q, hd, done, read) ==
  /\ Len(done) <= Len(read)
  /\ \A i \in 1 .. Len(done) : done[i] = read[i]
  /\ \A i \in 1 .. Len(q) : q[i].sub = s => \E j \in Len(done) + 1 .. Len(read) : q[i] = read[j]
  /\ hd # <<>> => /\ Len(read) > Len(done) /\ hd = <<read[Len(read)]>>
                  /\ \A i \in 1 .. Len(q) : q[i].sub = s => C!Ahead(q[i], read[Len(read)])
  /\ \A j \in Len(done) + 1 .. Len(read) :
       (\E i \in 1 .. Len(q) : q[i] = read[j]) \/ (hd # <<>> /\ j = Len(read))

Up(ph) == ph = "read" \/ ph = "send"

SubOK(s) ==
  /\ held[s] # <<>> <=> phase[s] = "send"
  /\ ReadOK(s, received[s], cconn[s], cpublished[s], csince[s])
  /\ Up(phase[s]) => LinesOK(lines[s], received[s], cconn[s], cpublished[s], csince[s])
  /\ ~ Up(phase[s]) => lines[s] = <<>>
  /\ csince[s] = "none" => CoverOK(cpublished[s], lost[s], received[s], lines[s])
  /\ FlowOK(s, C!Queue, held[s], handled[s], received[s])

ClientOK == ClientTyped /\ InOrder(C!Queue) /\ \A s \in Subscriptions : SubOK(s)

-----------------------------------------------------------------------------
(* Sequences *)

\* r is q and then m.
Longer(r, q, m) ==
  /\ Len(q) \in Nat /\ Len(r) = Len(q) + 1 /\ r[Len(q) + 1] = m
  /\ \A i \in 1 .. Len(q) : r[i] = q[i]

\* r is q without its first element.
Shorter(r, q) ==
  /\ Len(r) \in Nat /\ Len(q) = Len(r) + 1
  /\ \A i \in 1 .. Len(r) : r[i] = q[i + 1]

\* A message more at the end, ...
LEMMA AppendOne ==
  ASSUME NEW S, NEW q \in Seq(S), NEW m \in S
  PROVE  q \o <<m>> \in Seq(S) /\ Longer(q \o <<m>>, q, m) /\ Append(q, m) = q \o <<m>>
  BY SMTT(30) DEF Longer

\* ... and one less at the beginning.
LEMMA TailOne ==
  ASSUME NEW S, NEW q \in Seq(S), q # <<>>
  PROVE  Tail(q) \in Seq(S) /\ Shorter(Tail(q), q) /\ Head(q) = q[1] /\ Head(q) \in S
  BY SMTT(30) DEF Shorter

\* Where the elements of a longer sequence come from, ...
LEMMA LongerAt ==
  ASSUME NEW q, NEW m, NEW r, Longer(r, q, m)
  PROVE  \A i \in 1 .. Len(r) :
           (i = Len(r) /\ r[i] = m) \/ (i \in 1 .. Len(q) /\ i # Len(r) /\ r[i] = q[i])
  BY SMTT(30) DEF Longer

\* ... where those of the shorter one are in it, ...
LEMMA LongerFrom ==
  ASSUME NEW q, NEW m, NEW r, Longer(r, q, m)
  PROVE  \A i \in 1 .. Len(q) : i \in 1 .. Len(r) /\ r[i] = q[i]
  BY SMTT(30) DEF Longer

\* ... and what is at its end.
LEMMA LongerEnd ==
  ASSUME NEW q, NEW m, NEW r, Longer(r, q, m)
  PROVE  Len(r) \in 1 .. Len(r) /\ r[Len(r)] = m
  BY SMTT(30) DEF Longer

\* Where the elements of a sequence without its first are in it, ...
LEMMA ShorterAt ==
  ASSUME NEW q, NEW r, Shorter(r, q)
  PROVE  \A i \in 1 .. Len(r) : /\ i + 1 \in 1 .. Len(q) /\ r[i] = q[i + 1]
                               /\ i + 1 # 1 /\ Len(q) - (i + 1) = Len(r) - i
  BY SMTT(30) DEF Shorter

\* ... and the other way round.
LEMMA ShorterFrom ==
  ASSUME NEW q, NEW r, Shorter(r, q)
  PROVE  \A i \in 1 .. Len(q) : i # 1 => i - 1 \in 1 .. Len(r) /\ r[i - 1] = q[i]
<1> SUFFICES ASSUME NEW i \in 1 .. Len(q), i # 1
             PROVE  i - 1 \in 1 .. Len(r) /\ r[i - 1] = q[i]
  OBVIOUS
<1>1. i - 1 \in 1 .. Len(r) /\ (i - 1) + 1 = i
  BY SMTT(30) DEF Shorter
<1> QED
  BY <1>1 DEF Shorter

\* What sequences are.
LEMMA SeqTyped ==
  ASSUME NEW S, NEW q \in Seq(S)
  PROVE  /\ Len(q) \in Nat /\ DOMAIN q = 1 .. Len(q)
         /\ \A i \in 1 .. Len(q) : q[i] \in S
         /\ (q = <<>> <=> Len(q) = 0)
  BY SMTT(30)

\* A sequence of one element.
LEMMA OneTyped ==
  ASSUME NEW S, NEW m \in S
  PROVE  <<m>> \in Seq(S) /\ <<m>> # <<>> /\ <<m>>[1] = m /\ Len(<<m>>) = 1
  BY SMTT(30)

\* What a connection begins with.
LEMMA FirstLines ==
  ASSUME NEW p \in Nat
  PROVE  /\ <<C!Open>> \in Seq(Nat) /\ Len(<<C!Open>>) = 1 /\ <<C!Open>>[1] = C!Open
         /\ <<C!Open>> \o <<>> = <<C!Open>>
         /\ <<C!Open>> \o [i \in 1 .. p |-> i] \in Seq(Nat)
         /\ Len(<<C!Open>> \o [i \in 1 .. p |-> i]) = p + 1
         /\ \A i \in 1 .. p + 1 : (<<C!Open>> \o [k \in 1 .. p |-> k])[i] = i - 1
<1>1. [i \in 1 .. p |-> i] \in Seq(Nat) /\ Len([i \in 1 .. p |-> i]) = p
  BY SMTT(30)
<1>2. <<C!Open>> \in Seq(Nat) /\ Len(<<C!Open>>) = 1 /\ <<C!Open>>[1] = C!Open /\ <<C!Open>> \o <<>> = <<C!Open>>
  BY SMTT(30) DEF C!Open
<1> DEFINE q == [i \in 1 .. p |-> i]
<1>3. \A i \in 1 .. p : q[i] = i
  BY SMTT(30)
<1> HIDE DEF q
<1>4. q \in Seq(Nat) /\ Len(q) = p
  BY <1>1 DEF q
<1>5. /\ <<C!Open>> \o q \in Seq(Nat)
      /\ Len(<<C!Open>> \o q) = p + 1
      /\ \A i \in 1 .. p + 1 : (<<C!Open>> \o q)[i] = i - 1
  BY <1>3, <1>4, SMTT(30) DEF C!Open
<1> QED
  BY <1>2, <1>5 DEF q

-----------------------------------------------------------------------------
(* What is read *)

\* The fields of a message.
LEMMA MessageTyped ==
  ASSUME NEW m \in Message
  PROVE  m.sub \in Subscriptions /\ m.conn \in Nat /\ m.id \in Nat
  BY SMTT(30) DEF Message

\* No two messages are ahead of each other.
LEMMA AheadOrder ==
  ASSUME NEW m \in Message, NEW n \in Message
  PROVE  /\ ~ (C!Ahead(m, n) /\ C!Ahead(n, m)) /\ ~ C!Ahead(m, m)
  BY SMTT(30) DEF Message, C!Ahead

\* What was read stays in order when there are more connections and messages.
LEMMA ReadGrows ==
  ASSUME NEW s, NEW read \in Seq(Message), NEW c \in Nat, NEW p \in Nat, NEW o,
         NEW d \in Nat, NEW r \in Nat, c <= d, p <= r,
         ReadOK(s, read, c, p, o)
  PROVE  ReadOK(s, read, d, r, o)
<1>1. ASSUME NEW i \in 1 .. Len(read)
      PROVE  read[i].sub = s /\ read[i].conn <= d /\ read[i].id <= r
  <2>1. read[i].sub = s /\ read[i].conn <= c /\ read[i].id <= p
    BY DEF ReadOK
  <2>2. read[i].conn \in Nat /\ read[i].id \in Nat
    BY MessageTyped, SeqTyped
  <2> QED
    BY <2>1, <2>2, SMTT(30)
<1> QED
  BY <1>1 DEF ReadOK

\* The latest message read on a connection is the latest.
LEMMA LatestNow ==
  ASSUME NEW s, NEW read \in Seq(Message), NEW c \in Nat, NEW p \in Nat, NEW o,
         ReadOK(s, read, c, p, o), NEW i \in 1 .. Len(read), read[i].conn = c
  PROVE  /\ Now(read, c) /\ read[i].id <= read[Len(read)].id
<1>1. read[Len(read)].conn <= c
  BY SMTT(30) DEF ReadOK
<1>2. i < Len(read) => C!Ahead(read[i], read[Len(read)])
  BY SMTT(30) DEF ReadOK
<1>3. /\ read[Len(read)] \in Message /\ read[i] \in Message
      /\ i = Len(read) \/ i < Len(read)
      /\ Len(read) > 0
  BY SMTT(30)
<1> DEFINE latest == read[Len(read)]
<1>4. latest.conn \in Nat /\ latest.id \in Nat /\ read[i].id \in Nat
  BY <1>3, MessageTyped
<1>5. CASE i = Len(read)
  BY <1>3, <1>4, <1>5, SMTT(30) DEF Now
<1>6. CASE i < Len(read)
  <2>1. latest.conn = c /\ read[i].id <= latest.id
    BY <1>1, <1>2, <1>4, <1>6, SMTT(30) DEF C!Ahead
  <2> QED
    BY <1>3, <2>1 DEF Now
<1> QED
  BY <1>3, <1>5, <1>6

\* A number up to the one before the next is below the next.
LEMMA Below ==
  ASSUME NEW a \in Nat, NEW b \in Nat, NEW p \in Nat, NEW n \in Nat, NEW d \in Nat,
         a <= b, b = p - n, d = p - (n - 1)
  PROVE  a < d
  BY SMTT(30)

\* At most is below or equal.
LEMMA UpTo == ASSUME NEW a \in Nat, NEW b \in Nat, a <= b PROVE a < b \/ a = b
  BY SMTT(30)

\* Scan reads the message at the head of the lines.
LEMMA ReadOne ==
  ASSUME NEW s \in Subscriptions, NEW read \in Seq(Message), NEW c \in Nat, NEW p \in Nat, NEW o,
         NEW ls \in Seq(Nat), NEW m \in Message, NEW longer \in Seq(Message),
         ReadOK(s, read, c, p, o), LinesOK(ls, read, c, p, o),
         Len(ls) > 0, ls[1] # C!Open, m = [sub |-> s, conn |-> c, id |-> ls[1]],
         Longer(longer, read, m)
  PROVE  /\ ReadOK(s, longer, c, p, o)
         /\ \A i \in 1 .. Len(read) : C!Ahead(read[i], m)
<1>1. /\ m.sub = s /\ m.conn = c /\ m.id = ls[1]
  OBVIOUS
<1>2. ls[1] = p - (Len(ls) - 1) /\ Len(ls) \in Nat
  BY SMTT(30) DEF LinesOK
<1>3. m.id <= p
  BY <1>1, <1>2, SMTT(30)
<1>4. ASSUME NEW i \in 1 .. Len(read)
      PROVE  /\ C!Ahead(read[i], m)
             /\ o = "none" => read[i].id < m.id
  <2>1. read[i] \in Message /\ read[i].conn <= c
    BY SMTT(30) DEF ReadOK
  <2>2. read[i].conn = c => read[i].id < m.id
    <3> SUFFICES ASSUME read[i].conn = c
                 PROVE  read[i].id < m.id
      OBVIOUS
    <3>1. Now(read, c) /\ read[i].id <= read[Len(read)].id
      BY LatestNow
    <3>2. read[Len(read)].id = p - Len(ls)
      BY <3>1 DEF LinesOK
    <3>3. read[Len(read)] \in Message
      BY SMTT(30)
    <3>4. read[i].id \in Nat /\ read[Len(read)].id \in Nat /\ m.id \in Nat
      BY <2>1, <3>3, MessageTyped
    <3>5. m.id = p - (Len(ls) - 1)
      BY <1>1, <1>2
    <3> QED
      BY <1>2, <3>1, <3>2, <3>4, <3>5, Below
  <2>3. o = "none" => read[i].id < m.id
    <3>1. 1 \in 1 .. Len(ls)
      BY <1>2, SMTT(30)
    <3> QED
      BY <1>1, <3>1 DEF LinesOK
  <2>4. read[i].conn < c \/ read[i].conn = c
    <3>1. read[i].conn \in Nat
      BY <2>1, MessageTyped
    <3> QED
      BY <2>1, <3>1, UpTo
  <2> QED
    BY <1>1, <2>2, <2>3, <2>4 DEF C!Ahead
<1>5. /\ Len(longer) = Len(read) + 1 /\ Len(read) \in Nat
      /\ longer[Len(longer)] = m
      /\ \A i \in 1 .. Len(longer) : i # Len(longer) => i \in 1 .. Len(read) /\ longer[i] = read[i]
  BY LongerAt, LongerEnd DEF Longer
<1>6. ASSUME NEW i \in 1 .. Len(longer)
      PROVE  longer[i].sub = s /\ longer[i].conn <= c /\ longer[i].id <= p
  <2>1. c <= c
    BY SMTT(30)
  <2>2. CASE i = Len(longer)
    BY <1>1, <1>3, <1>5, <2>1, <2>2
  <2>3. CASE i # Len(longer)
    BY <1>5, <2>3 DEF ReadOK
  <2> QED
    BY <2>2, <2>3
<1>7. ASSUME NEW i \in 1 .. Len(longer), NEW j \in 1 .. Len(longer), i < j
      PROVE  C!Ahead(longer[i], longer[j]) /\ (o = "none" => longer[i].id < longer[j].id)
  <2>1. i \in 1 .. Len(read) /\ longer[i] = read[i]
    BY <1>5, <1>7, SMTT(30)
  <2>2. CASE j = Len(longer)
    BY <1>4, <1>5, <2>1, <2>2
  <2>3. CASE j # Len(longer)
    BY <1>5, <1>7, <2>1, <2>3 DEF ReadOK
  <2> QED
    BY <2>2, <2>3
<1>8. ASSUME NEW i \in 1 .. Len(longer)
      PROVE  IF i > 1 /\ longer[i - 1].conn = longer[i].conn THEN longer[i].id = longer[i - 1].id + 1
             ELSE o = "all" => longer[i].id = 1
  <2>1. CASE i # Len(longer)
    <3>1. i > 1 => i - 1 \in 1 .. Len(longer) /\ i - 1 # Len(longer)
      BY <1>5, SMTT(30)
    <3>2. i \in 1 .. Len(read) /\ longer[i] = read[i] /\ (i > 1 => longer[i - 1] = read[i - 1])
      BY <1>5, <2>1, <3>1
    <3> QED
      BY <3>2 DEF ReadOK
  <2>2. CASE i = Len(longer) /\ i > 1 /\ longer[i - 1].conn = longer[i].conn
    <3>1. longer[i] = m /\ longer[i - 1] = read[Len(read)] /\ Len(read) > 0
      BY <1>5, <2>2, SMTT(30)
    <3>2. Now(read, c)
      BY <1>1, <2>2, <3>1 DEF Now
    <3>3. read[Len(read)].id = p - Len(ls)
      BY <3>2 DEF LinesOK
    <3> QED
      BY <1>1, <1>2, <2>2, <3>1, <3>3, SMTT(30)
  <2>3. CASE i = Len(longer) /\ ~ (i > 1 /\ longer[i - 1].conn = longer[i].conn)
    <3>1. longer[i] = m
      BY <1>5, <2>3
    <3>2. ~ Now(read, c)
      <4> SUFFICES ASSUME Len(read) > 0, read[Len(read)].conn = c
                   PROVE  FALSE
        BY DEF Now
      <4>1. i > 1 /\ i - 1 = Len(read) /\ i - 1 \in 1 .. Len(longer) /\ i - 1 # Len(longer)
        BY <1>5, <2>3, SMTT(30)
      <4>2. longer[i - 1] = read[Len(read)]
        BY <1>5, <4>1
      <4> QED
        BY <1>1, <2>3, <3>1, <4>1, <4>2
    <3>3. o = "all" => Len(ls) = p
      BY <3>2 DEF LinesOK, HeadOpen
    <3>4. Len(ls) = p => ls[1] = 1
      BY <1>2, SMTT(30)
    <3> QED
      BY <1>1, <2>3, <3>1, <3>3, <3>4
  <2> QED
    BY <2>1, <2>2, <2>3
<1> QED
  BY <1>4, <1>6, <1>7, <1>8 DEF ReadOK

-----------------------------------------------------------------------------
(* What is on its way *)

\* The server sends a message on an open connection.
LEMMA LinesPublish ==
  ASSUME NEW s, NEW read \in Seq(Message), NEW c \in Nat, NEW p \in Nat, NEW o,
         NEW ls \in Seq(Nat), NEW more \in Seq(Nat), Longer(more, ls, p + 1),
         ReadOK(s, read, c, p, o), LinesOK(ls, read, c, p, o)
  PROVE  LinesOK(more, read, c, p + 1, o)
<1>1. Len(ls) \in Nat /\ Len(more) = Len(ls) + 1 /\ p + 1 # C!Open
  BY SMTT(30) DEF Longer, C!Open
<1>2. ASSUME NEW i \in 1 .. Len(more)
      PROVE  /\ more[i] = C!Open \/ more[i] = (p + 1) - (Len(more) - i)
             /\ more[i] = C!Open => i = 1
             /\ o = "none" => \A j \in 1 .. Len(read) : more[i] = C!Open \/ read[j].id < more[i]
  <2>1. CASE i = Len(more) /\ more[i] = p + 1
    <3>1. \A j \in 1 .. Len(read) : read[j].id <= p /\ read[j].id \in Nat
      BY MessageTyped, SeqTyped DEF ReadOK
    <3>2. \A j \in 1 .. Len(read) : read[j].id < p + 1
      BY <3>1, SMTT(30)
    <3>3. p + 1 = (p + 1) - (Len(more) - i)
      BY <1>1, <2>1, SMTT(30)
    <3> QED
      BY <1>1, <2>1, <3>2, <3>3
  <2>2. CASE i \in 1 .. Len(ls) /\ more[i] = ls[i]
    <3>1. p - (Len(ls) - i) = (p + 1) - (Len(more) - i)
      BY <1>1, <2>2, SMTT(30)
    <3> QED
      BY <2>2, <3>1 DEF LinesOK
  <2>3. \/ i = Len(more) /\ more[i] = p + 1
        \/ i \in 1 .. Len(ls) /\ i # Len(more) /\ more[i] = ls[i]
    BY LongerAt
  <2> QED
    BY <2>1, <2>2, <2>3
<1>3. HeadOpen(more) <=> HeadOpen(ls)
  <2>1. CASE Len(ls) = 0
    <3>1. more[1] = p + 1 /\ ~ (Len(ls) > 0)
      BY <2>1, SMTT(30) DEF Longer
    <3> QED
      BY <1>1, <3>1 DEF HeadOpen
  <2>2. CASE Len(ls) # 0
    <3>1. more[1] = ls[1] /\ Len(ls) > 0 /\ Len(more) > 0
      BY <1>1, <2>2, SMTT(30) DEF Longer
    <3> QED
      BY <3>1 DEF HeadOpen
  <2> QED
    BY <2>1, <2>2
<1>4. p - Len(ls) = (p + 1) - Len(more)
  BY <1>1, SMTT(30)
<1>5. /\ Len(ls) = p => Len(more) = p + 1
      /\ Len(ls) = p + 1 => Len(more) = (p + 1) + 1
  BY <1>1
<1>6. o = "all" /\ ~ Now(read, c) => Len(more) = IF HeadOpen(more) THEN (p + 1) + 1 ELSE p + 1
  BY <1>3, <1>5 DEF LinesOK
<1> QED
  BY <1>2, <1>3, <1>4, <1>6 DEF LinesOK

\* After the first line come messages only.
LEMMA RestOfLines ==
  ASSUME NEW read, NEW c, NEW p \in Nat, NEW o,
         NEW ls \in Seq(Nat), NEW rest \in Seq(Nat), Shorter(rest, ls),
         LinesOK(ls, read, c, p, o)
  PROVE  /\ \A i \in 1 .. Len(rest) : rest[i] # C!Open /\ rest[i] = p - (Len(rest) - i)
         /\ ~ HeadOpen(rest)
<1>1. ASSUME NEW i \in 1 .. Len(rest)
      PROVE  rest[i] # C!Open /\ rest[i] = p - (Len(rest) - i)
  <2>1. /\ i + 1 \in 1 .. Len(ls) /\ rest[i] = ls[i + 1] /\ i + 1 # 1
        /\ Len(ls) - (i + 1) = Len(rest) - i
    BY ShorterAt
  <2> QED
    BY <2>1 DEF LinesOK
<1>2. Len(rest) > 0 => 1 \in 1 .. Len(rest)
  BY SMTT(30)
<1> QED
  BY <1>1, <1>2 DEF HeadOpen

\* Scan ignores the open event: what is on its way is as it should be, ...
LEMMA LinesIgnored ==
  ASSUME NEW read \in Seq(Message), NEW c \in Nat, NEW p \in Nat, NEW o,
         NEW ls \in Seq(Nat), NEW rest \in Seq(Nat), Shorter(rest, ls), Len(ls) > 0, ls[1] = C!Open,
         LinesOK(ls, read, c, p, o)
  PROVE  LinesOK(rest, read, c, p, o)
<1>1. HeadOpen(ls) /\ ~ Now(read, c)
  BY DEF HeadOpen, LinesOK
<1>2. Len(ls) = p + 1 => Len(rest) = p
  BY SMTT(30) DEF Shorter
<1>3. /\ \A i \in 1 .. Len(rest) : rest[i] # C!Open /\ rest[i] = p - (Len(rest) - i)
      /\ ~ HeadOpen(rest)
  BY RestOfLines
<1>4. o = "all" => Len(rest) = p
  BY <1>1, <1>2 DEF LinesOK
<1>5. o = "none" =>
       \A i \in 1 .. Len(rest), j \in 1 .. Len(read) : rest[i] = C!Open \/ read[j].id < rest[i]
  <2>1. \A i \in 1 .. Len(rest) : i + 1 \in 1 .. Len(ls) /\ rest[i] = ls[i + 1]
    BY ShorterAt
  <2> QED
    BY <2>1 DEF LinesOK
<1> QED
  BY <1>1, <1>3, <1>4, <1>5 DEF LinesOK

\* ... and when it reads a message.
LEMMA LinesRead ==
  ASSUME NEW read \in Seq(Message), NEW c \in Nat, NEW p \in Nat, NEW o,
         NEW ls \in Seq(Nat), NEW rest \in Seq(Nat), Shorter(rest, ls), Len(ls) > 0, ls[1] # C!Open,
         NEW m \in Message, m.conn = c, m.id = ls[1],
         NEW longer \in Seq(Message), Longer(longer, read, m),
         LinesOK(ls, read, c, p, o)
  PROVE  LinesOK(rest, longer, c, p, o)
<1>1. Len(ls) = Len(rest) + 1 /\ Len(rest) \in Nat
  BY SMTT(30) DEF Shorter
<1>2. ls[1] = p - (Len(ls) - 1) /\ ls[1] \in Nat
  BY SMTT(30) DEF LinesOK
<1>3. ls[1] = p - Len(rest)
  BY <1>1, <1>2, SMTT(30)
<1>4. longer[Len(longer)] = m /\ Len(longer) > 0
  BY SMTT(30) DEF Longer
<1>5. Now(longer, c) /\ longer[Len(longer)].id = p - Len(rest)
  BY <1>3, <1>4 DEF Now
<1>6. ~ HeadOpen(rest) /\ \A i \in 1 .. Len(rest) : rest[i] # C!Open /\ rest[i] = p - (Len(rest) - i)
  BY RestOfLines
<1>7. \A i \in 1 .. Len(rest) : m.id < rest[i]
  BY <1>1, <1>3, <1>6, SMTT(30)
<1>8. o = "none" =>
       \A i \in 1 .. Len(rest), j \in 1 .. Len(longer) : rest[i] = C!Open \/ longer[j].id < rest[i]
  <2> SUFFICES ASSUME o = "none", NEW i \in 1 .. Len(rest), NEW j \in 1 .. Len(longer)
               PROVE  longer[j].id < rest[i]
    OBVIOUS
  <2>1. \/ j = Len(longer) /\ longer[j] = m
        \/ j \in 1 .. Len(read) /\ j # Len(longer) /\ longer[j] = read[j]
    BY LongerAt
  <2>2. i + 1 \in 1 .. Len(ls) /\ rest[i] = ls[i + 1]
    BY ShorterAt
  <2>3. \A k \in 1 .. Len(read) : read[k].id < rest[i]
    BY <1>6, <2>2 DEF LinesOK
  <2> QED
    BY <1>7, <2>1, <2>3
<1> QED
  BY <1>5, <1>6, <1>8 DEF LinesOK

\* A new connection begins with the open event and, with since=all, all messages.
LEMMA LinesDial ==
  ASSUME NEW s, NEW read \in Seq(Message), NEW c \in Nat, NEW p \in Nat, NEW o,
         ReadOK(s, read, c, p, o), NEW ls \in Seq(Nat), Len(ls) > 0, ls[1] = C!Open,
         o = "none" => Len(ls) = 1,
         o = "all" => Len(ls) = p + 1 /\ \A i \in 1 .. p + 1 : ls[i] = i - 1,
         o = "none" \/ o = "all"
  PROVE  LinesOK(ls, read, c + 1, p, o)
<1>1. ~ Now(read, c + 1)
  <2> SUFFICES ASSUME Len(read) > 0, read[Len(read)].conn = c + 1
               PROVE  FALSE
    BY DEF Now
  <2>1. Len(read) \in 1 .. Len(read)
    BY SMTT(30)
  <2>2. c + 1 <= c
    BY <2>1 DEF ReadOK
  <2> QED
    BY <2>2, SMTT(30)
<1>2. HeadOpen(ls)
  BY DEF HeadOpen
<1>3. ASSUME NEW i \in 1 .. Len(ls)
      PROVE  /\ ls[i] = C!Open \/ ls[i] = p - (Len(ls) - i)
             /\ ls[i] = C!Open => i = 1
             /\ o = "none" => ls[i] = C!Open
  <2>1. CASE o = "none"
    <3>1. Len(ls) = 1
      BY <2>1
    <3>2. i = 1
      BY <3>1, SMTT(30)
    <3> QED
      BY <3>2
  <2>2. CASE o = "all"
    <3>1. Len(ls) = p + 1 /\ ls[i] = i - 1
      BY <2>2
    <3>2. ls[i] = p - (Len(ls) - i) /\ (ls[i] = C!Open => i = 1)
      BY <3>1, SMTT(30) DEF C!Open
    <3>3. o # "none"
      BY <2>2
    <3> QED
      BY <3>2, <3>3
  <2> QED
    BY <2>1, <2>2
<1> QED
  BY <1>1, <1>2, <1>3 DEF LinesOK

-----------------------------------------------------------------------------
(* Without csince=, nothing but what is lost is missed *)

\* A new message is lost or on its way.
LEMMA CoverPublished ==
  ASSUME NEW p \in Nat, NEW gone, NEW read, NEW ls, NEW lost2, NEW more,
         CoverOK(p, gone, read, ls),
         gone \subseteq lost2, \A i \in 1 .. Len(ls) : \E k \in 1 .. Len(more) : more[k] = ls[i],
         p + 1 \in lost2 \/ \E k \in 1 .. Len(more) : more[k] = p + 1
  PROVE  CoverOK(p + 1, lost2, read, more)
<1> SUFFICES ASSUME NEW id \in 1 .. p + 1
             PROVE  \/ id \in lost2
                    \/ \E i \in 1 .. Len(read) : read[i].id = id
                    \/ \E i \in 1 .. Len(more) : more[i] = id
  BY DEF CoverOK
<1>1. id \in 1 .. p \/ id = p + 1
  BY SMTT(30)
<1> QED
  BY <1>1 DEF CoverOK

\* No message is missed with the open event, ...
LEMMA CoverIgnored ==
  ASSUME NEW p \in Nat, NEW gone, NEW read, NEW ls \in Seq(Nat), NEW rest \in Seq(Nat),
         Shorter(rest, ls), Len(ls) > 0, ls[1] = C!Open,
         CoverOK(p, gone, read, ls)
  PROVE  CoverOK(p, gone, read, rest)
<1>1. \A i \in 1 .. Len(ls) : i # 1 => i - 1 \in 1 .. Len(rest) /\ rest[i - 1] = ls[i]
  BY ShorterFrom
<1>2. \A id \in 1 .. p : id # C!Open
  BY SMTT(30) DEF C!Open
<1>3. ASSUME NEW id \in 1 .. p, NEW i \in 1 .. Len(ls), ls[i] = id
      PROVE  \E k \in 1 .. Len(rest) : rest[k] = id
  <2>1. i # 1
    BY <1>2, <1>3
  <2> QED
    BY <1>1, <1>3, <2>1
<1> QED
  BY <1>3 DEF CoverOK

\* ... a message that is read is not missed, ...
LEMMA CoverRead ==
  ASSUME NEW p \in Nat, NEW gone, NEW read \in Seq(Message), NEW ls \in Seq(Nat),
         NEW rest \in Seq(Nat), Shorter(rest, ls), Len(ls) > 0,
         NEW m \in Message, m.id = ls[1], NEW longer \in Seq(Message), Longer(longer, read, m),
         CoverOK(p, gone, read, ls)
  PROVE  CoverOK(p, gone, longer, rest)
<1>1. \A i \in 1 .. Len(ls) : i # 1 => i - 1 \in 1 .. Len(rest) /\ rest[i - 1] = ls[i]
  BY ShorterFrom
<1>2. \A i \in 1 .. Len(read) : i \in 1 .. Len(longer)
  BY SMTT(30) DEF Longer
<1>3. Len(longer) \in 1 .. Len(longer) /\ longer[Len(longer)] = m
  BY SMTT(30) DEF Longer
<1>4. ASSUME NEW id \in 1 .. p, NEW i \in 1 .. Len(ls), ls[i] = id
      PROVE  \/ \E k \in 1 .. Len(longer) : longer[k].id = id
             \/ \E k \in 1 .. Len(rest) : rest[k] = id
  <2>1. CASE i = 1
    BY <1>3, <1>4, <2>1
  <2>2. CASE i # 1
    BY <1>1, <1>4, <2>2
  <2> QED
    BY <2>1, <2>2
<1>5. ASSUME NEW id \in 1 .. p, NEW i \in 1 .. Len(read), read[i].id = id
      PROVE  \E k \in 1 .. Len(longer) : longer[k].id = id
  BY <1>2, <1>5 DEF Longer
<1> QED
  BY <1>4, <1>5 DEF CoverOK

\* ... and one that is on its way when a connection ends is lost.
LEMMA CoverMoved ==
  ASSUME NEW p \in Nat, NEW gone, NEW read, NEW ls, NEW lost2, NEW more,
         CoverOK(p, gone, read, ls), gone \subseteq lost2,
         \A i \in 1 .. Len(ls) : ls[i] \in lost2
  PROVE  CoverOK(p, lost2, read, more)
  BY DEF CoverOK

-----------------------------------------------------------------------------
(* From the goroutines to the commands *)

\* A message that has been read is held.
LEMMA FlowRead ==
  ASSUME NEW s \in Subscriptions, NEW q \in Seq(Message), NEW done \in Seq(Message),
         NEW read \in Seq(Message), NEW m \in Message, NEW longer \in Seq(Message),
         Longer(longer, read, m), \A i \in 1 .. Len(read) : C!Ahead(read[i], m),
         FlowOK(s, q, <<>>, done, read)
  PROVE  FlowOK(s, q, <<m>>, done, longer)
<1>1. /\ Len(done) \in Nat /\ Len(read) \in Nat /\ Len(longer) = Len(read) + 1
      /\ longer[Len(longer)] = m
      /\ \A i \in 1 .. Len(read) : longer[i] = read[i]
  BY SMTT(30) DEF Longer
<1>2. Len(done) <= Len(read)
  BY DEF FlowOK
<1>3. /\ Len(done) <= Len(longer) /\ Len(longer) > Len(done)
      /\ \A i \in 1 .. Len(done) : i \in 1 .. Len(read)
      /\ \A j \in Len(done) + 1 .. Len(read) : j \in 1 .. Len(read) /\ j \in Len(done) + 1 .. Len(longer)
      /\ \A j \in Len(done) + 1 .. Len(longer) : j = Len(longer) \/ j \in Len(done) + 1 .. Len(read)
  BY <1>1, <1>2, SMTT(30)
<1>4. \A i \in 1 .. Len(done) : done[i] = longer[i]
  BY <1>1, <1>3 DEF FlowOK
<1>5. ASSUME NEW i \in 1 .. Len(q), q[i].sub = s
      PROVE  (\E j \in Len(done) + 1 .. Len(longer) : q[i] = longer[j]) /\ C!Ahead(q[i], m)
  <2>1. PICK j \in Len(done) + 1 .. Len(read) : q[i] = read[j]
    BY <1>5 DEF FlowOK
  <2> QED
    BY <1>1, <1>3, <2>1
<1>6. \A j \in Len(done) + 1 .. Len(longer) :
        (\E i \in 1 .. Len(q) : q[i] = longer[j]) \/ j = Len(longer)
  BY <1>1, <1>3 DEF FlowOK
<1>7. <<m>> # <<>> /\ <<m>> = <<longer[Len(longer)]>>
  BY <1>1, SMTT(30)
<1> QED
  BY <1>1, <1>3, <1>4, <1>5, <1>6, <1>7 DEF FlowOK

\* A message that is held is sent on the channel.
LEMMA FlowSent ==
  ASSUME NEW s \in Subscriptions, NEW q \in Seq(Message), NEW done \in Seq(Message),
         NEW read \in Seq(Message), NEW m \in Message, NEW more \in Seq(Message),
         Longer(more, q, m), FlowOK(s, q, <<m>>, done, read)
  PROVE  FlowOK(s, more, <<>>, done, read)
<1>1. /\ <<m>> # <<>> /\ \A n : <<m>> = <<n>> => m = n
  BY SMTT(30)
<1>2. m = read[Len(read)] /\ Len(read) > Len(done)
  BY <1>1 DEF FlowOK
<1>3. /\ Len(read) \in Len(done) + 1 .. Len(read)
      /\ \A i \in 1 .. Len(q) : i \in 1 .. Len(more) /\ more[i] = q[i]
      /\ Len(more) \in 1 .. Len(more) /\ more[Len(more)] = m
      /\ \A i \in 1 .. Len(more) : i = Len(more) \/ i \in 1 .. Len(q)
  BY <1>2, SMTT(30) DEF Longer
<1>4. \A i \in 1 .. Len(more) :
        more[i].sub = s => \E j \in Len(done) + 1 .. Len(read) : more[i] = read[j]
  BY <1>2, <1>3 DEF FlowOK
<1>5. \A j \in Len(done) + 1 .. Len(read) : \E i \in 1 .. Len(more) : more[i] = read[j]
  BY <1>2, <1>3 DEF FlowOK
<1> QED
  BY <1>4, <1>5 DEF FlowOK

\* A message of another subscription is sent on the channel.
LEMMA FlowSentOther ==
  ASSUME NEW s, NEW q \in Seq(Message), NEW done, NEW read, NEW hd,
         NEW m \in Message, NEW more \in Seq(Message), m.sub # s,
         Longer(more, q, m), FlowOK(s, q, hd, done, read)
  PROVE  FlowOK(s, more, hd, done, read)
<1>1. Len(q) \in Nat
  BY SeqTyped
<1>2. ASSUME NEW i \in 1 .. Len(more), more[i].sub = s
      PROVE  i \in 1 .. Len(q) /\ more[i] = q[i]
  <2>1. \/ i = Len(more) /\ more[i] = m
        \/ i \in 1 .. Len(q) /\ i # Len(more) /\ more[i] = q[i]
    BY LongerAt
  <2> QED
    BY <1>2, <2>1
<1>3. \A i \in 1 .. Len(q) : i \in 1 .. Len(more) /\ more[i] = q[i]
  BY <1>1, SMTT(30) DEF Longer
<1>4. \A i \in 1 .. Len(more) :
        more[i].sub = s => \E j \in Len(done) + 1 .. Len(read) : more[i] = read[j]
  BY <1>2 DEF FlowOK
<1>5. \A j \in Len(done) + 1 .. Len(read) :
       (\E i \in 1 .. Len(more) : more[i] = read[j]) \/ (hd # <<>> /\ j = Len(read))
  BY <1>3 DEF FlowOK
<1>6. hd # <<>> => \A i \in 1 .. Len(more) : more[i].sub = s => C!Ahead(more[i], read[Len(read)])
  BY <1>2 DEF FlowOK
<1> QED
  BY <1>4, <1>5, <1>6 DEF FlowOK

\* The channel stays in order when a message is sent, ...
LEMMA OrderSent ==
  ASSUME NEW s, NEW q \in Seq(Message), NEW done, NEW read, NEW m \in Message, m.sub = s,
         NEW more \in Seq(Message), Longer(more, q, m), FlowOK(s, q, <<m>>, done, read),
         InOrder(q)
  PROVE  InOrder(more)
<1>1. /\ <<m>> # <<>> /\ \A n : <<m>> = <<n>> => m = n
  BY SMTT(30)
<1>2. m = read[Len(read)] /\ \A i \in 1 .. Len(q) : q[i].sub = s => C!Ahead(q[i], m)
  BY <1>1 DEF FlowOK
<1>3. Len(q) \in Nat
  BY SeqTyped
<1> SUFFICES ASSUME NEW i \in 1 .. Len(more), NEW j \in 1 .. Len(more), i < j,
                    more[i].sub = more[j].sub
             PROVE  C!Ahead(more[i], more[j])
  BY DEF InOrder
<1>4. /\ \/ i = Len(more) /\ more[i] = m
         \/ i \in 1 .. Len(q) /\ i # Len(more) /\ more[i] = q[i]
      /\ \/ j = Len(more) /\ more[j] = m
         \/ j \in 1 .. Len(q) /\ j # Len(more) /\ more[j] = q[j]
  BY LongerAt
<1>5. i # Len(more)
  BY SMTT(30)
<1> QED
  BY <1>2, <1>4, <1>5 DEF InOrder

\* ... and when one is done.
LEMMA OrderDone ==
  ASSUME NEW q \in Seq(Message), NEW rest \in Seq(Message), Shorter(rest, q), InOrder(q)
  PROVE  InOrder(rest)
<1> SUFFICES ASSUME NEW i \in 1 .. Len(rest), NEW j \in 1 .. Len(rest), i < j,
                    rest[i].sub = rest[j].sub
             PROVE  C!Ahead(rest[i], rest[j])
  BY DEF InOrder
<1>1. /\ i + 1 \in 1 .. Len(q) /\ rest[i] = q[i + 1]
      /\ j + 1 \in 1 .. Len(q) /\ rest[j] = q[j + 1]
  BY ShorterAt
<1>2. i + 1 < j + 1
  BY SMTT(30)
<1> QED
  BY <1>1, <1>2 DEF InOrder

\* A command of another subscription is done.
LEMMA FlowDoneOther ==
  ASSUME NEW s, NEW q \in Seq(Message), NEW done, NEW read, NEW hd,
         NEW rest \in Seq(Message), q[1].sub # s, read \in Seq(Message), Len(done) \in Nat,
         \A i \in 1 .. Len(read) : read[i].sub = s,
         Shorter(rest, q), FlowOK(s, q, hd, done, read)
  PROVE  FlowOK(s, rest, hd, done, read)
<1>1. \A i \in 1 .. Len(rest) : i + 1 \in 1 .. Len(q) /\ rest[i] = q[i + 1]
  BY ShorterAt
<1>2. \A i \in 1 .. Len(q) : i # 1 => i - 1 \in 1 .. Len(rest) /\ rest[i - 1] = q[i]
  BY ShorterFrom
<1>3. \A j \in Len(done) + 1 .. Len(read) : j \in 1 .. Len(read)
  BY SMTT(30)
<1>4. ASSUME NEW i \in 1 .. Len(rest), rest[i].sub = s
      PROVE  \E j \in Len(done) + 1 .. Len(read) : rest[i] = read[j]
  <2>1. i + 1 \in 1 .. Len(q) /\ rest[i] = q[i + 1]
    BY <1>1
  <2> QED
    BY <1>4, <2>1 DEF FlowOK
<1>5. ASSUME NEW j \in Len(done) + 1 .. Len(read)
      PROVE  (\E i \in 1 .. Len(rest) : rest[i] = read[j]) \/ (hd # <<>> /\ j = Len(read))
  <2>1. CASE \E i \in 1 .. Len(q) : q[i] = read[j]
    <3>1. PICK i \in 1 .. Len(q) : q[i] = read[j]
      BY <2>1
    <3>2. i # 1
      BY <1>3, <3>1
    <3> QED
      BY <1>2, <3>1, <3>2
  <2> QED
    BY <2>1 DEF FlowOK
<1>6. hd # <<>> => \A i \in 1 .. Len(rest) : rest[i].sub = s => C!Ahead(rest[i], read[Len(read)])
  BY <1>1 DEF FlowOK
<1> QED
  BY <1>4, <1>5, <1>6 DEF FlowOK

\* The command of the oldest message in the queue has run: it was the next to be handled.
LEMMA FlowDone ==
  ASSUME NEW s, NEW q \in Seq(Message), NEW done \in Seq(Message), NEW read \in Seq(Message),
         NEW hd, NEW rest \in Seq(Message), Shorter(rest, q), q[1].sub = s,
         NEW more \in Seq(Message), Longer(more, done, q[1]), InOrder(q),
         \A i \in 1 .. Len(read) : read[i].sub = s,
         \A i, j \in 1 .. Len(read) : i < j => C!Ahead(read[i], read[j]),
         FlowOK(s, q, hd, done, read)
  PROVE  FlowOK(s, rest, hd, more, read)
<1>1. /\ Len(q) \in Nat /\ Len(done) \in Nat /\ Len(read) \in Nat /\ Len(rest) \in Nat
      /\ 1 \in 1 .. Len(q) /\ Len(more) = Len(done) + 1
      /\ \A i \in 2 .. Len(q) : i \in 1 .. Len(q) /\ 1 < i /\ i # 1
      /\ \A i \in 1 .. Len(q) : i # 1 => i \in 2 .. Len(q)
  BY SMTT(30) DEF Shorter, Longer
<1>2. PICK k \in Len(done) + 1 .. Len(read) : q[1] = read[k]
  BY <1>1 DEF FlowOK
<1>3. /\ Len(done) + 1 \in Len(done) + 1 .. Len(read) /\ k \in 1 .. Len(read)
      /\ Len(done) + 1 \in 1 .. Len(read) /\ (k # Len(done) + 1 => Len(done) + 1 < k)
      /\ Len(more) <= Len(read)
  BY <1>1, <1>2, SMTT(30)
<1>4. /\ read[k] \in Message /\ read[Len(done) + 1] \in Message
      /\ Len(read) \in 1 .. Len(read)
  BY <1>1, <1>3, SMTT(30)
<1>5. ASSUME NEW i \in 2 .. Len(q), q[i].sub = s
      PROVE  C!Ahead(q[1], q[i])
  BY <1>1, <1>5 DEF InOrder
<1>6. k = Len(done) + 1
  <2> SUFFICES ASSUME k # Len(done) + 1
               PROVE  FALSE
    OBVIOUS
  <2> DEFINE first == read[Len(done) + 1]
  <2>1. C!Ahead(first, q[1]) /\ first.sub = s
    BY <1>2, <1>3
  <2>2. ~ C!Ahead(q[1], first) /\ first # q[1]
    BY <1>2, <1>4, <2>1, AheadOrder
  <2>3. CASE \E i \in 1 .. Len(q) : q[i] = first
    BY <1>1, <1>5, <2>1, <2>2, <2>3
  <2>4. CASE Len(done) + 1 = Len(read)
    BY <1>1, <1>2, <1>3, <2>4, SMTT(30)
  <2> QED
    BY <1>3, <2>3, <2>4 DEF FlowOK
<1>7. q[1] = read[Len(done) + 1]
  BY <1>2, <1>6
<1>8. \A i \in 1 .. Len(more) : more[i] = read[i]
  <2> SUFFICES ASSUME NEW i \in 1 .. Len(more)
               PROVE  more[i] = read[i]
    OBVIOUS
  <2> DEFINE m == q[1]
  <2>0. Longer(more, done, m)
    OBVIOUS
  <2> HIDE DEF m
  <2>1. \/ i = Len(more) /\ more[i] = m
        \/ i \in 1 .. Len(done) /\ i # Len(more) /\ more[i] = done[i]
    BY <2>0, LongerAt
  <2> QED
    BY <1>1, <1>7, <2>1 DEF FlowOK, m
<1>9. ASSUME NEW i \in 1 .. Len(rest)
      PROVE  i + 1 \in 2 .. Len(q) /\ rest[i] = q[i + 1]
  <2>1. i + 1 \in 1 .. Len(q) /\ rest[i] = q[i + 1] /\ i + 1 # 1
    BY ShorterAt
  <2> QED
    BY <1>1, <2>1
<1>10. \A i \in 1 .. Len(q) : i # 1 => i - 1 \in 1 .. Len(rest) /\ rest[i - 1] = q[i]
  BY ShorterFrom
<1>11. ASSUME NEW i \in 2 .. Len(q), q[i].sub = s
       PROVE  \E j \in Len(more) + 1 .. Len(read) : q[i] = read[j]
  <2>1. PICK j \in Len(done) + 1 .. Len(read) : q[i] = read[j]
    BY <1>1, <1>11 DEF FlowOK
  <2>2. j # Len(done) + 1
    <3> SUFFICES ASSUME j = Len(done) + 1
                 PROVE  FALSE
      OBVIOUS
    <3>1. C!Ahead(read[j], read[j])
      BY <1>5, <1>7, <1>11, <2>1
    <3> QED
      BY <1>4, <3>1, AheadOrder
  <2>3. j \in Len(more) + 1 .. Len(read)
    BY <1>1, <2>2, SMTT(30)
  <2> QED
    BY <2>1, <2>3
<1>12. ASSUME NEW j \in Len(more) + 1 .. Len(read)
       PROVE  (\E i \in 1 .. Len(rest) : rest[i] = read[j]) \/ (hd # <<>> /\ j = Len(read))
  <2>1. j \in Len(done) + 1 .. Len(read) /\ j \in 1 .. Len(read) /\ Len(done) + 1 < j
    BY <1>1, SMTT(30)
  <2>2. CASE \E i \in 1 .. Len(q) : q[i] = read[j]
    <3>1. PICK i \in 1 .. Len(q) : q[i] = read[j]
      BY <2>2
    <3>2. C!Ahead(q[1], read[j])
      BY <1>3, <1>7, <2>1
    <3>3. i # 1
      BY <1>2, <1>4, <3>1, <3>2, AheadOrder
    <3> QED
      BY <1>10, <3>1, <3>3
  <2> QED
    BY <2>1, <2>2 DEF FlowOK
<1>13. hd # <<>> => /\ Len(read) > Len(more)
                    /\ \A i \in 1 .. Len(rest) : rest[i].sub = s => C!Ahead(rest[i], read[Len(read)])
  <2> SUFFICES ASSUME hd # <<>>
               PROVE  /\ Len(read) > Len(more)
                      /\ \A i \in 1 .. Len(rest) : rest[i].sub = s => C!Ahead(rest[i], read[Len(read)])
    OBVIOUS
  <2>1. \A i \in 1 .. Len(q) : q[i].sub = s => C!Ahead(q[i], read[Len(read)])
    BY DEF FlowOK
  <2>2. C!Ahead(q[1], read[Len(read)])
    BY <1>1, <2>1
  <2>3. Len(read) # Len(done) + 1
    BY <1>4, <1>7, <2>2, AheadOrder
  <2>4. Len(read) > Len(more)
    <3>1. Len(more) <= Len(read) /\ Len(read) # Len(more) /\ Len(more) \in Nat
      BY <1>1, <1>3, <2>3, SeqTyped
    <3> QED
      BY <1>1, <3>1, SMTT(30)
  <2> QED
    BY <1>1, <1>9, <2>1, <2>4
<1>14. \A i \in 1 .. Len(rest) :
         rest[i].sub = s => \E j \in Len(more) + 1 .. Len(read) : rest[i] = read[j]
  BY <1>9, <1>11
<1>15. hd # <<>> => hd = <<read[Len(read)]>>
  BY DEF FlowOK
<1> QED
  BY <1>3, <1>8, <1>12, <1>13, <1>14, <1>15 DEF FlowOK

-----------------------------------------------------------------------------
(* The queue *)

\* The queue is one of messages.
LEMMA QueueTyped ==
  ASSUME ClientTyped
  PROVE  running \in Seq(Message) /\ channel \in Seq(Message) /\ C!Queue \in Seq(Message)
<1>1. <<>> \in Seq(Message)
  BY SMTT(30)
<1>2. running \in Seq(Message) /\ channel \in Seq(Message)
  <2>1. \A m \in Message : <<m>> \in Seq(Message)
    BY OneTyped
  <2> QED
    BY <1>1, <2>1 DEF ClientTyped
<1>3. running \o channel \in Seq(Message)
  BY <1>2, SMTT(30)
<1> QED
  BY <1>2, <1>3 DEF C!Queue

\* Taking the first element of a queue leaves the whole as it is.
LEMMA ConcatFirst ==
  ASSUME NEW S, NEW q \in Seq(S), q # <<>>
  PROVE  <<>> \o q = q /\ <<Head(q)>> \o Tail(q) = q
  BY SMTT(30)

\* A queue of one element and more.
LEMMA ConcatTail ==
  ASSUME NEW S, NEW q \in Seq(S), NEW m \in S
  PROVE  /\ Tail(<<m>> \o q) = q /\ <<>> \o q = q
         /\ Head(<<m>> \o q) = m /\ <<m>> \o q # <<>>
  BY SMTT(30)

\* What a goroutine sends comes latest.
LEMMA QueueSent ==
  ASSUME ClientTyped, NEW m \in Message, channel' = channel \o <<m>>, UNCHANGED running
  PROVE  C!Queue' = C!Queue \o <<m>>
<1>1. running \in Seq(Message) /\ channel \in Seq(Message)
  BY QueueTyped
<1>2. running \o (channel \o <<m>>) = (running \o channel) \o <<m>>
  BY <1>1, SMTT(30)
<1> QED
  BY <1>2 DEF C!Queue

\* The message that is taken from the channel stays in the queue.
LEMMA QueueTaken ==
  ASSUME ClientTyped, running = <<>>, channel # <<>>,
         running' = <<Head(channel)>>, channel' = Tail(channel)
  PROVE  C!Queue' = C!Queue
<1>1. channel \in Seq(Message) /\ Head(channel) \in Message
  BY SMTT(30) DEF ClientTyped
<1>2. <<Head(channel)>> \o Tail(channel) = channel /\ <<>> \o channel = channel
  BY <1>1, ConcatFirst
<1> QED
  BY <1>2 DEF C!Queue

\* What is handled comes first.
LEMMA QueueDone ==
  ASSUME ClientTyped, NEW m \in Message, running = <<m>>, running' = <<>>, UNCHANGED channel
  PROVE  C!Queue' = Tail(C!Queue) /\ Head(C!Queue) = m /\ C!Queue # <<>>
<1>1. channel \in Seq(Message)
  BY DEF ClientTyped
<1>2. /\ Tail(<<m>> \o channel) = channel /\ <<>> \o channel = channel
      /\ Head(<<m>> \o channel) = m /\ <<m>> \o channel # <<>>
  BY <1>1, ConcatTail
<1> QED
  BY <1>2 DEF C!Queue

-----------------------------------------------------------------------------
(* The steps *)

\* What is not about a subscription leaves it as it is.
LEMMA SubAlike ==
  ASSUME NEW t \in Subscriptions, SubOK(t), C!Queue' = C!Queue,
         csince'[t] = csince[t], cpublished'[t] = cpublished[t], phase'[t] = phase[t],
         cconn'[t] = cconn[t], lines'[t] = lines[t], held'[t] = held[t],
         handled'[t] = handled[t], received'[t] = received[t], lost'[t] = lost[t]
  PROVE  SubOK(t)'
  BY DEF SubOK

\* The same queue is in the same order.
LEMMA OrderAlike == InOrder(C!Queue) /\ C!Queue' = C!Queue => InOrder(C!Queue)'
  BY DEF InOrder

\* What is known of a subscription.
LEMMA SubFacts ==
  ASSUME ClientOK, NEW s \in Subscriptions
  PROVE  /\ ClientTyped /\ SubOK(s) /\ C!Queue \in Seq(Message) /\ InOrder(C!Queue)
         /\ csince[s] = "none" \/ csince[s] = "all"
         /\ cpublished[s] \in Nat /\ cconn[s] \in Nat /\ lines[s] \in Seq(Nat)
         /\ held[s] \in Seq(Message) /\ handled[s] \in Seq(Message) /\ received[s] \in Seq(Message)
         /\ channel \in Seq(Message) /\ lost[s] \in SUBSET Nat
<1>1. ClientTyped /\ SubOK(s) /\ InOrder(C!Queue)
  BY DEF ClientOK
<1>2. C!Queue \in Seq(Message)
  BY <1>1, QueueTyped
<1>3. csince[s] \in {"none", "all"}
  BY <1>1 DEF ClientTyped
<1>4. csince[s] = "none" \/ csince[s] = "all"
  BY <1>3
<1> QED
  BY <1>1, <1>2, <1>4 DEF ClientTyped

\* Subscribe: nothing was read yet.
LEMMA ClientInit == C!Init => ClientOK
<1> SUFFICES ASSUME C!Init
             PROVE  ClientOK
  OBVIOUS
<1>1. ClientTyped
  BY SMTT(30) DEF C!Init, ClientTyped
<1>2. C!Queue = <<>> /\ Len(C!Queue) = 0
  BY SMTT(30) DEF C!Init, C!Queue
<1>3. 1 .. 0 = {} /\ Len(<<>>) = 0 /\ 0 + 1 .. 0 = {} /\ 0 <= 0
  BY SMTT(30)
<1>4. InOrder(C!Queue)
  BY <1>2, <1>3 DEF InOrder
<1>5. ASSUME NEW s \in Subscriptions
      PROVE  SubOK(s)
  <2>1. /\ cpublished[s] = 0 /\ phase[s] = "dial" /\ lines[s] = <<>> /\ held[s] = <<>>
        /\ handled[s] = <<>> /\ received[s] = <<>>
    BY DEF C!Init
  <2>2. ReadOK(s, received[s], cconn[s], cpublished[s], csince[s])
    BY <1>3, <2>1 DEF ReadOK
  <2>3. CoverOK(cpublished[s], lost[s], received[s], lines[s])
    BY <1>3, <2>1 DEF CoverOK
  <2>4. FlowOK(s, C!Queue, held[s], handled[s], received[s])
    BY <1>2, <1>3, <2>1 DEF FlowOK
  <2> QED
    BY <2>1, <2>2, <2>3, <2>4 DEF SubOK, Up
<1> QED
  BY <1>1, <1>4, <1>5 DEF ClientOK

\* A step that leaves the queue and what the others have alone.
LEMMA OneSub ==
  ASSUME ClientOK, NEW s \in Subscriptions, ClientTyped', SubOK(s)', C!Queue' = C!Queue,
         \A t \in Subscriptions : t # s =>
           /\ csince'[t] = csince[t] /\ cpublished'[t] = cpublished[t] /\ phase'[t] = phase[t]
           /\ cconn'[t] = cconn[t] /\ lines'[t] = lines[t] /\ held'[t] = held[t]
           /\ handled'[t] = handled[t] /\ received'[t] = received[t] /\ lost'[t] = lost[t]
  PROVE  ClientOK'
<1>1. \A t \in Subscriptions : SubOK(t)'
  BY SubAlike DEF ClientOK
<1>2. InOrder(C!Queue)'
  BY OrderAlike DEF ClientOK
<1> QED
  BY <1>1, <1>2 DEF ClientOK

\* The server publishes a message.
LEMMA ServerStep ==
  ASSUME ClientOK, NEW s \in Subscriptions, C!Publish(s)
  PROVE  ClientOK'
<1> DEFINE p == cpublished[s]
           more == Append(lines[s], p + 1)
<1>1. /\ ClientTyped /\ SubOK(s) /\ C!Queue \in Seq(Message)
      /\ p \in Nat /\ cconn[s] \in Nat /\ lines[s] \in Seq(Nat) /\ received[s] \in Seq(Message)
      /\ lost[s] \in SUBSET Nat
  BY SubFacts
<1>2. /\ p + 1 \in Nat /\ p <= p + 1 /\ cconn[s] <= cconn[s]
  BY <1>1, SMTT(30)
<1>3. more \in Seq(Nat) /\ Longer(more, lines[s], p + 1)
  BY <1>1, <1>2, AppendOne
<1>4. /\ cpublished' = [cpublished EXCEPT ![s] = p + 1]
      /\ cpublished'[s] = p + 1
      /\ UNCHANGED <<csince, phase, cconn, held, channel, running, handled, canceled, received>>
  BY <1>1 DEF C!Publish, ClientTyped
<1>5. C!Queue' = C!Queue
  BY <1>4 DEF C!Queue
<1>6. ReadOK(s, received[s], cconn[s], p + 1, csince[s])
  BY <1>1, <1>2, ReadGrows DEF SubOK
<1>7. CASE C!Connected(s)
  <2>1. lines' = [lines EXCEPT ![s] = more] /\ lost' = lost
    BY <1>4, <1>7 DEF C!Publish
  <2>2. Up(phase[s])
    BY <1>7 DEF C!Connected, Up
  <2>3. LinesOK(more, received[s], cconn[s], p + 1, csince[s])
    BY <1>1, <1>3, <2>2, LinesPublish DEF SubOK
  <2>4. csince[s] = "none" => CoverOK(p + 1, lost[s], received[s], more)
    <3> HIDE DEF more
    <3>1. \A i \in 1 .. Len(lines[s]) : i \in 1 .. Len(more) /\ more[i] = lines[s][i]
      BY <1>3, LongerFrom
    <3>2. Len(more) \in 1 .. Len(more) /\ more[Len(more)] = p + 1
      BY <1>3, LongerEnd
    <3>3. /\ \A i \in 1 .. Len(lines[s]) : \E k \in 1 .. Len(more) : more[k] = lines[s][i]
          /\ \E k \in 1 .. Len(more) : more[k] = p + 1
      BY <3>1, <3>2
    <3> QED
      BY <1>1, <3>3, CoverPublished DEF SubOK
  <2>5. ClientTyped'
    BY <1>1, <1>2, <1>3, <1>4, <2>1 DEF ClientTyped
  <2>6. lines'[s] = more /\ lost'[s] = lost[s]
    BY <1>1, <2>1 DEF ClientTyped
  <2>7. SubOK(s)'
    BY <1>1, <1>4, <1>5, <1>6, <2>2, <2>3, <2>4, <2>6 DEF SubOK
  <2> QED
    BY <1>1, <1>4, <1>5, <2>1, <2>5, <2>7, OneSub DEF ClientTyped
<1>8. CASE ~ C!Connected(s)
  <2>1. lost' = [lost EXCEPT ![s] = @ \cup {p + 1}] /\ lines' = lines
    BY <1>4, <1>8 DEF C!Publish
  <2>2. ~ Up(phase[s])
    BY <1>8 DEF C!Connected, Up
  <2>3. csince[s] = "none" => CoverOK(p + 1, lost[s] \cup {p + 1}, received[s], lines[s])
    BY <1>1, CoverPublished DEF SubOK
  <2>4. ClientTyped'
    BY <1>1, <1>2, <1>4, <2>1 DEF ClientTyped
  <2>5. lost'[s] = lost[s] \cup {p + 1}
    BY <1>1, <2>1 DEF ClientTyped
  <2>6. SubOK(s)'
    BY <1>1, <1>4, <1>5, <1>6, <2>1, <2>2, <2>3, <2>5 DEF SubOK
  <2> QED
    BY <1>1, <1>4, <1>5, <2>1, <2>4, <2>6, OneSub DEF ClientTyped
<1> QED
  BY <1>7, <1>8

\* A connection is made, or cannot be made.
LEMMA DialStep ==
  ASSUME ClientOK, NEW s \in Subscriptions, C!Dial(s)
  PROVE  ClientOK'
<1> DEFINE p == cpublished[s]
<1>1. /\ ClientTyped /\ SubOK(s)
      /\ csince[s] = "none" \/ csince[s] = "all"
      /\ p \in Nat /\ cconn[s] \in Nat /\ received[s] \in Seq(Message)
  BY SubFacts
<1>2. cconn[s] + 1 \in Nat /\ cconn[s] <= cconn[s] + 1 /\ p <= p
  BY <1>1, SMTT(30)
<1>3. /\ UNCHANGED <<csince, cpublished, held, channel, running, handled, canceled, received, lost>>
      /\ phase[s] = "dial"
  BY DEF C!Dial
<1>4. C!Queue' = C!Queue
  BY <1>3 DEF C!Queue
<1>5. ~ Up(phase[s]) /\ lines[s] = <<>> /\ held[s] = <<>>
  BY <1>1, <1>3 DEF Up, SubOK
<1>6. CASE C!Goto(s, "wait") /\ UNCHANGED <<cconn, lines>>
  <2>1. phase' = [phase EXCEPT ![s] = "wait"] /\ UNCHANGED <<cconn, lines>>
    BY <1>6 DEF C!Goto
  <2>2. ClientTyped' /\ phase'[s] = "wait"
    BY <1>1, <1>3, <2>1 DEF ClientTyped
  <2>3. SubOK(s)'
    BY <1>1, <1>3, <1>4, <1>5, <2>1, <2>2 DEF SubOK, Up
  <2> QED
    BY <1>1, <1>3, <1>4, <2>1, <2>2, <2>3, OneSub DEF ClientTyped
<1>7. ASSUME NEW ls, C!Goto(s, "read"), cconn' = [cconn EXCEPT ![s] = @ + 1],
             lines' = [lines EXCEPT ![s] = ls],
             ls = <<C!Open>> \o (IF csince[s] = "all" THEN [i \in 1 .. cpublished[s] |-> i] ELSE <<>>)
      PROVE  ClientOK'
  <2>1. phase' = [phase EXCEPT ![s] = "read"]
    BY <1>7 DEF C!Goto
  <2>2. /\ ls \in Seq(Nat) /\ Len(ls) > 0 /\ ls[1] = C!Open
        /\ csince[s] = "none" => Len(ls) = 1
        /\ csince[s] = "all" => Len(ls) = p + 1 /\ \A i \in 1 .. p + 1 : ls[i] = i - 1
    <3>1. CASE csince[s] = "none"
      <4>1. ls = <<C!Open>> /\ csince[s] # "all"
        BY <1>1, <1>7, <3>1, FirstLines
      <4>2. <<C!Open>> \in Seq(Nat) /\ Len(<<C!Open>>) = 1 /\ <<C!Open>>[1] = C!Open /\ 1 > 0
        BY SMTT(30) DEF C!Open
      <4> QED
        BY <4>1, <4>2
    <3>2. CASE csince[s] = "all"
      <4>1. ls = <<C!Open>> \o [i \in 1 .. p |-> i] /\ csince[s] # "none"
        BY <1>7, <3>2
      <4>2. ls \in Seq(Nat) /\ Len(ls) = p + 1 /\ \A i \in 1 .. p + 1 : ls[i] = i - 1
        BY <1>1, <4>1, FirstLines
      <4>3. p + 1 > 0 /\ 1 \in 1 .. p + 1 /\ 1 - 1 = C!Open
        BY <1>1, SMTT(30) DEF C!Open
      <4> QED
        BY <4>1, <4>2, <4>3
    <3> QED
      BY <1>1, <3>1, <3>2
  <2>3. /\ ReadOK(s, received[s], cconn[s], p, csince[s])
        /\ ReadOK(s, received[s], cconn[s] + 1, p, csince[s])
    BY <1>1, <1>2, ReadGrows DEF SubOK
  <2>4. LinesOK(ls, received[s], cconn[s] + 1, p, csince[s])
    BY <1>1, <2>2, <2>3, LinesDial
  <2>5. csince[s] = "none" => CoverOK(p, lost[s], received[s], ls)
    <3>1. \A i \in 1 .. Len(lines[s]) : lines[s][i] \in lost[s]
      BY <1>5, SMTT(30)
    <3> QED
      BY <1>1, <3>1, CoverMoved DEF SubOK
  <2>6. ClientTyped' /\ phase'[s] = "read" /\ lines'[s] = ls /\ cconn'[s] = cconn[s] + 1
    BY <1>1, <1>2, <1>3, <1>7, <2>1, <2>2 DEF ClientTyped
  <2>7. SubOK(s)'
    BY <1>1, <1>3, <1>4, <1>5, <2>3, <2>4, <2>5, <2>6 DEF SubOK, Up
  <2> QED
    BY <1>1, <1>3, <1>4, <1>7, <2>1, <2>6, <2>7, OneSub DEF ClientTyped
<1> QED
  BY <1>6, <1>7 DEF C!Dial

\* The scanner reads a line.
LEMMA ScanStep ==
  ASSUME ClientOK, NEW s \in Subscriptions, C!Scan(s)
  PROVE  ClientOK'
<1> DEFINE p == cpublished[s]
           ls == lines[s]
           rest == Tail(ls)
<1>1. /\ ClientTyped /\ SubOK(s) /\ C!Queue \in Seq(Message)
      /\ p \in Nat /\ cconn[s] \in Nat /\ ls \in Seq(Nat) /\ received[s] \in Seq(Message)
      /\ handled[s] \in Seq(Message)
  BY SubFacts
<1>2. /\ UNCHANGED <<csince, cpublished, cconn, channel, running, handled, canceled, lost>>
      /\ phase[s] = "read" /\ ls # <<>>
      /\ lines' = [lines EXCEPT ![s] = rest]
  BY DEF C!Scan
<1>3. C!Queue' = C!Queue
  BY <1>2 DEF C!Queue
<1>4. /\ rest \in Seq(Nat) /\ Shorter(rest, ls) /\ Head(ls) = ls[1] /\ Head(ls) \in Nat
  BY <1>1, <1>2, TailOne
<1>5. Len(ls) > 0
  BY <1>1, <1>2, SMTT(30)
<1>6. /\ held[s] = <<>> /\ Up(phase[s]) /\ LinesOK(ls, received[s], cconn[s], p, csince[s])
      /\ lines'[s] = rest
  BY <1>1, <1>2 DEF SubOK, Up, ClientTyped
<1> HIDE DEF rest
<1>7. CASE Head(ls) = C!Open
  <2>1. UNCHANGED <<phase, held, received>>
    BY <1>7 DEF C!Scan
  <2>2. LinesOK(rest, received[s], cconn[s], p, csince[s])
    BY <1>1, <1>4, <1>5, <1>6, <1>7, LinesIgnored
  <2>3. csince[s] = "none" => CoverOK(p, lost[s], received[s], rest)
    BY <1>1, <1>4, <1>5, <1>7, CoverIgnored DEF SubOK
  <2>4. ClientTyped'
    BY <1>1, <1>2, <1>4, <2>1 DEF ClientTyped
  <2>5. SubOK(s)'
    BY <1>1, <1>2, <1>3, <1>6, <2>1, <2>2, <2>3 DEF SubOK
  <2> QED
    BY <1>1, <1>2, <1>3, <2>1, <2>4, <2>5, OneSub DEF ClientTyped
<1>8. CASE Head(ls) # C!Open
  <2> DEFINE m == [sub |-> s, conn |-> cconn[s], id |-> ls[1]]
             longer == received[s] \o <<m>>
  <2>1. /\ phase' = [phase EXCEPT ![s] = "send"] /\ held' = [held EXCEPT ![s] = <<m>>]
        /\ received' = [received EXCEPT ![s] = @ \o held'[s]]
    BY <1>4, <1>8 DEF C!Scan, C!Goto
  <2>2. held'[s] = <<m>> /\ received' = [received EXCEPT ![s] = longer] /\ received'[s] = longer
        /\ phase'[s] = "send"
    BY <1>1, <2>1 DEF ClientTyped
  <2>3. m \in Message
    BY <1>1, <1>4, SMTT(30) DEF Message
  <2>4. m.conn = cconn[s] /\ m.id = ls[1] /\ m = [sub |-> s, conn |-> cconn[s], id |-> ls[1]]
    OBVIOUS
  <2> HIDE DEF m
  <2>5. longer \in Seq(Message) /\ Longer(longer, received[s], m)
    BY <1>1, <2>3, AppendOne
  <2> HIDE DEF longer
  <2>6. /\ ReadOK(s, longer, cconn[s], p, csince[s])
        /\ \A i \in 1 .. Len(received[s]) : C!Ahead(received[s][i], m)
        /\ LinesOK(rest, longer, cconn[s], p, csince[s])
        /\ csince[s] = "none" => CoverOK(p, lost[s], longer, rest)
    <3> DEFINE read == received[s]
               c == cconn[s]
               o == csince[s]
               gone == lost[s]
    <3>1. /\ ReadOK(s, read, c, p, o) /\ LinesOK(ls, read, c, p, o)
          /\ o = "none" => CoverOK(p, gone, read, ls)
      BY <1>1, <1>6 DEF SubOK
    <3>2. /\ read \in Seq(Message) /\ c \in Nat /\ p \in Nat /\ ls \in Seq(Nat)
          /\ ls[1] # C!Open /\ m.conn = c /\ m.id = ls[1] /\ m = [sub |-> s, conn |-> c, id |-> ls[1]]
          /\ Longer(longer, read, m) /\ Shorter(rest, ls) /\ Len(ls) > 0
      BY <1>1, <1>4, <1>5, <1>8, <2>4, <2>5
    <3> HIDE DEF read, c, o, gone, p, ls
    <3>3. ReadOK(s, longer, c, p, o) /\ \A i \in 1 .. Len(read) : C!Ahead(read[i], m)
      BY <2>3, <2>5, <3>1, <3>2, ReadOne
    <3>4. LinesOK(rest, longer, c, p, o)
      BY <1>4, <2>3, <2>5, <3>1, <3>2, LinesRead
    <3>5. o = "none" => CoverOK(p, gone, longer, rest)
      BY <1>4, <2>3, <2>5, <3>1, <3>2, CoverRead
    <3> QED
      BY <3>3, <3>4, <3>5 DEF read, c, o, gone
  <2>9. FlowOK(s, C!Queue, <<m>>, handled[s], longer)
    <3>1. FlowOK(s, C!Queue, <<>>, handled[s], received[s])
      BY <1>1, <1>6 DEF SubOK
    <3> QED
      BY <1>1, <2>3, <2>5, <2>6, <3>1, FlowRead
  <2>10. <<m>> \in Seq(Message) /\ <<m>> # <<>>
    BY <2>3, OneTyped
  <2>11. ClientTyped'
    BY <1>1, <1>2, <1>4, <2>1, <2>2, <2>5, <2>10 DEF ClientTyped
  <2>12. SubOK(s)'
    BY <1>2, <1>3, <1>6, <2>2, <2>6, <2>9, <2>10 DEF SubOK, Up
  <2> QED
    BY <1>1, <1>2, <1>3, <2>1, <2>2, <2>11, <2>12, OneSub DEF ClientTyped
<1> QED
  BY <1>7, <1>8

\* A connection ends.
LEMMA EndStep ==
  ASSUME ClientOK, NEW s \in Subscriptions, C!End(s)
  PROVE  ClientOK'
<1> DEFINE gone == lost[s] \cup {lines[s][i] : i \in DOMAIN lines[s]}
<1>1. /\ ClientTyped /\ SubOK(s) /\ cpublished[s] \in Nat /\ lines[s] \in Seq(Nat)
      /\ lost[s] \in SUBSET Nat
  BY SubFacts
<1>2. /\ UNCHANGED <<csince, cpublished, cconn, held, channel, running, handled, canceled, received>>
      /\ phase[s] = "read" /\ phase' = [phase EXCEPT ![s] = "wait"]
      /\ lines' = [lines EXCEPT ![s] = <<>>] /\ lost' = [lost EXCEPT ![s] = gone]
  BY DEF C!End, C!Goto
<1>3. C!Queue' = C!Queue
  BY <1>2 DEF C!Queue
<1>4. <<>> \in Seq(Nat) /\ gone \in SUBSET Nat /\ DOMAIN lines[s] = 1 .. Len(lines[s])
  <2>1. DOMAIN lines[s] = 1 .. Len(lines[s]) /\ \A i \in 1 .. Len(lines[s]) : lines[s][i] \in Nat
    BY <1>1, SeqTyped
  <2>2. <<>> \in Seq(Nat)
    BY SMTT(30)
  <2> QED
    BY <1>1, <2>1, <2>2
<1>5. csince[s] = "none" => CoverOK(cpublished[s], gone, received[s], <<>>)
  <2>1. lost[s] \subseteq gone /\ \A i \in 1 .. Len(lines[s]) : lines[s][i] \in gone
    BY <1>4
  <2> HIDE DEF gone
  <2> QED
    BY <1>1, <2>1, CoverMoved DEF SubOK
<1> HIDE DEF gone
<1>6. ClientTyped' /\ phase'[s] = "wait" /\ lines'[s] = <<>> /\ lost'[s] = gone
  BY <1>1, <1>2, <1>4 DEF ClientTyped
<1>7. SubOK(s)'
  BY <1>1, <1>2, <1>3, <1>5, <1>6 DEF SubOK, Up
<1> QED
  BY <1>1, <1>2, <1>3, <1>6, <1>7, OneSub DEF ClientTyped

\* handleSubscribeConnLoop tries again.
LEMMA RetryStep ==
  ASSUME ClientOK, NEW s \in Subscriptions, C!Retry(s)
  PROVE  ClientOK'
<1>1. ClientTyped /\ SubOK(s)
  BY SubFacts
<1>2. /\ UNCHANGED <<csince, cpublished, cconn, lines, held, channel, running, handled, canceled,
                     received, lost>>
      /\ phase[s] = "wait"
  BY DEF C!Retry
<1>3. ASSUME NEW ph, ph = "dial" \/ ph = "exited", phase' = [phase EXCEPT ![s] = ph]
      PROVE  ClientOK'
  <2>1. C!Queue' = C!Queue
    BY <1>2 DEF C!Queue
  <2>2. ClientTyped' /\ phase'[s] = ph
    BY <1>1, <1>2, <1>3 DEF ClientTyped
  <2>3. SubOK(s)'
    BY <1>1, <1>2, <1>3, <2>1, <2>2 DEF SubOK, Up
  <2> QED
    BY <1>1, <1>2, <1>3, <2>1, <2>2, <2>3, OneSub DEF ClientTyped
<1> QED
  BY <1>3 DEF C!Retry, C!Goto

\* The scanner sends what it holds on the channel.
LEMMA HandOverStep ==
  ASSUME ClientOK, NEW s \in Subscriptions, C!SendMessage(s)
  PROVE  ClientOK'
<1>1. /\ ClientTyped /\ SubOK(s) /\ C!Queue \in Seq(Message) /\ InOrder(C!Queue)
      /\ held[s] \in Seq(Message) /\ handled[s] \in Seq(Message) /\ received[s] \in Seq(Message)
      /\ channel \in Seq(Message)
  BY SubFacts
<1>2. /\ UNCHANGED <<csince, cpublished, cconn, lines, running, handled, canceled, received, lost>>
      /\ phase[s] = "send" /\ phase' = [phase EXCEPT ![s] = "read"]
      /\ held' = [held EXCEPT ![s] = <<>>] /\ channel' = channel \o held[s]
  BY DEF C!SendMessage, C!Goto
<1> DEFINE m == received[s][Len(received[s])]
<1>3. held[s] = <<m>> /\ Len(received[s]) > Len(handled[s])
  BY <1>1, <1>2 DEF SubOK, FlowOK
<1>4. m \in Message /\ m.sub = s
  <2>1. Len(received[s]) \in 1 .. Len(received[s])
    BY <1>1, <1>3, SMTT(30)
  <2>2. m.sub = s
    BY <1>1, <2>1 DEF SubOK, ReadOK
  <2> QED
    BY <1>1, <2>1, <2>2, SeqTyped
<1> HIDE DEF m
<1> DEFINE more == C!Queue \o <<m>>
<1>5. C!Queue' = more
  BY <1>1, <1>2, <1>3, <1>4, QueueSent
<1>6. more \in Seq(Message) /\ Longer(more, C!Queue, m)
  BY <1>1, <1>4, AppendOne
<1>7. channel \o <<m>> \in Seq(Message) /\ <<>> \in Seq(Message)
  BY <1>1, <1>4, SMTT(30)
<1> HIDE DEF more
<1>8. ClientTyped' /\ phase'[s] = "read" /\ held'[s] = <<>>
  BY <1>1, <1>2, <1>3, <1>7 DEF ClientTyped
<1>9. FlowOK(s, C!Queue, <<m>>, handled[s], received[s])
  BY <1>1, <1>3 DEF SubOK
<1>10. InOrder(C!Queue')
  BY <1>1, <1>4, <1>5, <1>6, <1>9, OrderSent
<1>11. SubOK(s)'
  <2>1. FlowOK(s, more, <<>>, handled[s], received[s])
    BY <1>1, <1>4, <1>6, <1>9, FlowSent
  <2> QED
    BY <1>1, <1>2, <1>5, <1>8, <2>1 DEF SubOK, Up
<1>12. ASSUME NEW t \in Subscriptions, t # s
       PROVE  SubOK(t)'
  <2>1. SubOK(t) /\ phase'[t] = phase[t] /\ held'[t] = held[t]
    BY <1>1, <1>2, <1>12 DEF ClientOK, ClientTyped
  <2>2. m.sub # t
    BY <1>4, <1>12
  <2>3. FlowOK(t, more, held[t], handled[t], received[t])
    BY <1>1, <1>4, <1>6, <2>1, <2>2, FlowSentOther DEF SubOK
  <2> QED
    BY <1>2, <1>5, <2>1, <2>3 DEF SubOK
<1> QED
  BY <1>8, <1>10, <1>11, <1>12 DEF ClientOK, InOrder

\* The subscribe command takes a message from the channel.
LEMMA TakeStep ==
  ASSUME ClientOK, C!TakeMessage
  PROVE  ClientOK'
<1>1. ClientTyped /\ channel \in Seq(Message)
  BY DEF ClientOK, ClientTyped
<1>2. /\ running = <<>> /\ channel # <<>> /\ running' = <<Head(channel)>>
      /\ channel' = Tail(channel)
      /\ UNCHANGED <<csince, cpublished, phase, cconn, lines, held, handled, canceled, received, lost>>
  BY DEF C!TakeMessage
<1>3. C!Queue' = C!Queue
  BY <1>1, <1>2, QueueTaken
<1>4. Head(channel) \in Message /\ Tail(channel) \in Seq(Message)
  BY <1>1, <1>2, SMTT(30)
<1>5. ClientTyped'
  BY <1>1, <1>2, <1>4 DEF ClientTyped
<1>6. \A t \in Subscriptions : SubOK(t)'
  BY <1>2, <1>3, SubAlike DEF ClientOK
<1> QED
  BY <1>3, <1>5, <1>6, OrderAlike DEF ClientOK

\* A command has run.
LEMMA DoneStep ==
  ASSUME ClientOK, C!CommandDone
  PROVE  ClientOK'
<1>1. ClientTyped /\ C!Queue \in Seq(Message) /\ InOrder(C!Queue)
  BY QueueTyped DEF ClientOK
<1>2. PICK m \in Message : running = <<m>>
  BY <1>1 DEF C!CommandDone, ClientTyped
<1> DEFINE s == m.sub
           done == handled[s] \o <<m>>
           rest == Tail(C!Queue)
<1>3. s \in Subscriptions /\ running[1].sub = s
  BY <1>2, MessageTyped, OneTyped
<1>4. /\ handled' = [handled EXCEPT ![s] = done] /\ running' = <<>>
      /\ UNCHANGED <<csince, cpublished, phase, cconn, lines, held, channel, canceled, received, lost>>
  BY <1>2, <1>3 DEF C!CommandDone
<1>5. C!Queue' = rest /\ Head(C!Queue) = m /\ C!Queue # <<>>
  BY <1>1, <1>2, <1>4, QueueDone
<1>6. rest \in Seq(Message) /\ Shorter(rest, C!Queue) /\ C!Queue[1] = m
  BY <1>1, <1>5, TailOne
<1>7. handled[s] \in Seq(Message) /\ received[s] \in Seq(Message)
  BY <1>1, <1>3 DEF ClientTyped
<1>8. done \in Seq(Message) /\ Longer(done, handled[s], m)
  BY <1>7, AppendOne
<1> HIDE DEF done, rest
<1>9. ClientTyped' /\ handled'[s] = done
  BY <1>1, <1>3, <1>4, <1>8 DEF ClientTyped
<1>10. InOrder(C!Queue')
  BY <1>1, <1>5, <1>6, OrderDone
<1>11. SubOK(s)'
  <2>1. SubOK(s)
    BY <1>3 DEF ClientOK
  <2>2. FlowOK(s, rest, held[s], done, received[s])
    <3> DEFINE q == C!Queue
               read == received[s]
               old == handled[s]
               hd == held[s]
               n == s
    <3>1. /\ FlowOK(n, q, hd, old, read) /\ Longer(done, old, q[1]) /\ Shorter(rest, q)
          /\ q[1].sub = n /\ InOrder(q) /\ q \in Seq(Message) /\ read \in Seq(Message)
          /\ old \in Seq(Message)
          /\ \A i \in 1 .. Len(read) : read[i].sub = n
          /\ \A i, j \in 1 .. Len(read) : i < j => C!Ahead(read[i], read[j])
      BY <1>1, <1>6, <1>7, <1>8, <2>1 DEF SubOK, ReadOK
    <3> HIDE DEF q, read, old, hd, n
    <3>2. FlowOK(n, rest, hd, done, read)
      BY <1>6, <1>8, <3>1, FlowDone
    <3> QED
      BY <3>2 DEF hd, read, n
  <2> QED
    BY <1>4, <1>5, <1>9, <2>1, <2>2 DEF SubOK
<1>12. ASSUME NEW t \in Subscriptions, t # s
       PROVE  SubOK(t)'
  <2>1. SubOK(t) /\ handled'[t] = handled[t] /\ handled[t] \in Seq(Message) /\ received[t] \in Seq(Message)
    BY <1>1, <1>3, <1>4, <1>12 DEF ClientOK, ClientTyped
  <2>2. FlowOK(t, rest, held[t], handled[t], received[t])
    <3> DEFINE q == C!Queue
               read == received[t]
               old == handled[t]
               hd == held[t]
    <3>1. /\ FlowOK(t, q, hd, old, read) /\ Shorter(rest, q)
          /\ q[1].sub # t /\ q \in Seq(Message) /\ read \in Seq(Message)
          /\ \A i \in 1 .. Len(read) : read[i].sub = t
      BY <1>1, <1>6, <1>12, <2>1 DEF SubOK, ReadOK
    <3>2. Len(old) \in Nat
      BY <2>1, SeqTyped
    <3> HIDE DEF q, read, old, hd
    <3>3. FlowOK(t, rest, hd, old, read)
      BY <1>6, <3>1, <3>2, FlowDoneOther
    <3> QED
      BY <3>3 DEF hd, read, old
  <2> QED
    BY <1>4, <1>5, <2>1, <2>2 DEF SubOK
<1> QED
  BY <1>9, <1>10, <1>11, <1>12 DEF ClientOK, InOrder

\* Nothing that the client has read or handled changes.
LEMMA ClientAlike ==
  ASSUME ClientOK, C!Queue' = C!Queue, UNCHANGED <<channel, running>>,
         UNCHANGED <<csince, cpublished, phase, cconn, lines, held, handled, received, lost>>
  PROVE  ClientOK'
<1>1. ClientTyped'
  BY DEF ClientOK, ClientTyped
<1>2. \A t \in Subscriptions : SubOK(t)'
  BY SubAlike DEF ClientOK
<1> QED
  BY <1>1, <1>2, OrderAlike DEF ClientOK

\* A step of the client keeps ClientOK.
LEMMA ClientStep == ClientOK /\ [C!Next]_(C!vars) => ClientOK'
<1> SUFFICES ASSUME ClientOK, [C!Next]_(C!vars)
             PROVE  ClientOK'
  OBVIOUS
<1>1. ASSUME NEW s \in Subscriptions, C!Unsubscribe(s)
      PROVE  ClientOK'
  BY <1>1, ClientAlike DEF C!Unsubscribe, C!Queue
<1>2. CASE UNCHANGED C!vars
  BY <1>2, ClientAlike DEF C!vars, C!Queue
<1> QED
  BY <1>1, <1>2, ServerStep, DialStep, ScanStep, HandOverStep, EndStep, RetryStep, TakeStep, DoneStep
  DEF C!Next

\* The inductive invariant says that messages are handled once.
LEMMA ClientOnce == ClientOK => C!OncePerConnection
<1> SUFFICES ASSUME ClientOK
             PROVE  C!OncePerConnection
  OBVIOUS
<1>1. ClientTyped /\ C!Queue \in Seq(Message) /\ InOrder(C!Queue)
  BY QueueTyped DEF ClientOK
<1>2. DOMAIN C!Queue = 1 .. Len(C!Queue)
  BY <1>1, SeqTyped
<1>3. ASSUME NEW s \in Subscriptions
      PROVE  /\ \A i \in DOMAIN handled[s] : i \in DOMAIN received[s] /\ handled[s][i] = received[s][i]
             /\ {received[s][i] : i \in DOMAIN received[s] \ DOMAIN handled[s]} = C!InFlight(s)
  <2> DEFINE read == received[s]
             done == handled[s]
             hd == held[s]
  <2>1. /\ read \in Seq(Message) /\ done \in Seq(Message) /\ hd \in Seq(Message)
        /\ SubOK(s)
    BY SubFacts
  <2>2. FlowOK(s, C!Queue, hd, done, read)
    BY <2>1 DEF SubOK
  <2>3. DOMAIN read = 1 .. Len(read) /\ DOMAIN done = 1 .. Len(done)
        /\ Len(read) \in Nat /\ Len(done) \in Nat
    BY <2>1, SeqTyped
  <2>4. {hd[i] : i \in DOMAIN hd} = IF hd = <<>> THEN {} ELSE {read[Len(read)]}
    <3>1. CASE hd = <<>>
      BY <3>1, SMTT(30)
    <3>2. CASE hd # <<>>
      <4> DEFINE m == read[Len(read)]
      <4>1. hd = <<m>>
        BY <2>2, <3>2 DEF FlowOK
      <4> HIDE DEF m, hd
      <4>2. {<<m>>[i] : i \in DOMAIN <<m>>} = {m}
        BY SMTT(30)
      <4>3. {hd[i] : i \in DOMAIN hd} = {m}
        BY <4>1, <4>2
      <4> QED
        BY <3>2, <4>3 DEF m
    <3> QED
      BY <3>1, <3>2
  <2>5. 1 .. Len(read) \ 1 .. Len(done) = Len(done) + 1 .. Len(read)
    BY <2>3, SMTT(30)
  <2>6. /\ \A i \in 1 .. Len(done) : i \in 1 .. Len(read)
        /\ Len(read) > Len(done) => Len(read) \in Len(done) + 1 .. Len(read)
    <3>1. Len(done) <= Len(read)
      BY <2>2 DEF FlowOK
    <3> QED
      BY <2>3, <3>1, SMTT(30)
  <2>7. \A j \in Len(done) + 1 .. Len(read) : read[j].sub = s
    <3>1. \A j \in Len(done) + 1 .. Len(read) : j \in 1 .. Len(read)
      BY <2>3, SMTT(30)
    <3> QED
      BY <2>1, <3>1 DEF SubOK, ReadOK
  <2>8. \A m : (\E j \in Len(done) + 1 .. Len(read) : m = read[j]) <=> m \in C!InFlight(s)
    <3> HIDE DEF hd, read, done
    <3>1. ASSUME NEW j \in Len(done) + 1 .. Len(read)
          PROVE  read[j] \in {C!Queue[i] : i \in {k \in 1 .. Len(C!Queue) : C!Queue[k].sub = s}}
                              \cup {hd[i] : i \in DOMAIN hd}
      <4>1. CASE \E i \in 1 .. Len(C!Queue) : C!Queue[i] = read[j]
        BY <2>7, <4>1
      <4>2. CASE hd # <<>> /\ j = Len(read)
        BY <2>4, <4>2
      <4> QED
        BY <2>2, <4>1, <4>2 DEF FlowOK
    <3>2. ASSUME NEW m \in {C!Queue[i] : i \in {k \in 1 .. Len(C!Queue) : C!Queue[k].sub = s}}
          PROVE  \E j \in Len(done) + 1 .. Len(read) : m = read[j]
      BY <2>2 DEF FlowOK
    <3>3. ASSUME NEW m \in {hd[i] : i \in DOMAIN hd}
          PROVE  \E j \in Len(done) + 1 .. Len(read) : m = read[j]
      BY <2>2, <2>4, <2>6 DEF FlowOK
    <3> QED
      BY <1>2, <3>1, <3>2, <3>3 DEF C!InFlight, hd
  <2>9. \A i \in 1 .. Len(done) : done[i] = read[i]
    BY <2>2 DEF FlowOK
  <2>10. {read[i] : i \in 1 .. Len(read) \ 1 .. Len(done)} = C!InFlight(s)
    <3> HIDE DEF read, done
    <3>1. {read[i] : i \in Len(done) + 1 .. Len(read)} = C!InFlight(s)
      BY <2>8
    <3> QED
      BY <2>5, <3>1
  <2>11. \A i \in DOMAIN done : i \in DOMAIN read /\ done[i] = read[i]
    BY <2>3, <2>6, <2>9
  <2> QED
    BY <2>3, <2>10, <2>11
<1>4. ASSUME NEW s \in Subscriptions
      PROVE  /\ DOMAIN received[s] = 1 .. Len(received[s]) /\ DOMAIN lines[s] = 1 .. Len(lines[s])
             /\ ReadOK(s, received[s], cconn[s], cpublished[s], csince[s])
             /\ csince[s] = "none" => CoverOK(cpublished[s], lost[s], received[s], lines[s])
  BY SubFacts, SeqTyped DEF SubOK
<1>5. \A i, j \in DOMAIN C!Queue : i < j /\ C!Queue[i].sub = C!Queue[j].sub => C!Ahead(C!Queue[i], C!Queue[j])
  BY <1>1, <1>2 DEF InOrder
<1>6. ASSUME NEW s \in Subscriptions
      PROVE  /\ \A i, j \in DOMAIN received[s] : i < j => C!Ahead(received[s][i], received[s][j])
             /\ \A i \in DOMAIN received[s] :
                  IF i > 1 /\ received[s][i - 1].conn = received[s][i].conn
                  THEN received[s][i].id = received[s][i - 1].id + 1
                  ELSE csince[s] = "all" => received[s][i].id = 1
             /\ csince[s] = "none" =>
                  \A i, j \in DOMAIN received[s] : i < j => received[s][i].id < received[s][j].id
  <2>1. /\ DOMAIN received[s] = 1 .. Len(received[s])
        /\ ReadOK(s, received[s], cconn[s], cpublished[s], csince[s])
    BY <1>4
  <2>2. \A i, j \in 1 .. Len(received[s]) : i < j => C!Ahead(received[s][i], received[s][j])
    BY <2>1 DEF ReadOK
  <2>3. \A i \in 1 .. Len(received[s]) :
          IF i > 1 /\ received[s][i - 1].conn = received[s][i].conn
          THEN received[s][i].id = received[s][i - 1].id + 1
          ELSE csince[s] = "all" => received[s][i].id = 1
    BY <2>1 DEF ReadOK
  <2>4. csince[s] = "none" =>
          \A i, j \in 1 .. Len(received[s]) : i < j => received[s][i].id < received[s][j].id
    BY <2>1 DEF ReadOK
  <2> QED
    BY <2>1, <2>2, <2>3, <2>4
<1>7. ASSUME NEW s \in Subscriptions
      PROVE  csince[s] = "none" =>
               \A id \in 1 .. cpublished[s] :
                 \/ id \in lost[s]
                 \/ \E i \in DOMAIN received[s] : received[s][i].id = id
                 \/ \E i \in DOMAIN lines[s] : lines[s][i] = id
  BY <1>4 DEF CoverOK
<1> QED
  BY <1>3, <1>5, <1>6, <1>7 DEF C!OncePerConnection

\* For any subscriptions, messages and connections: the client library hands every message
\* of a connection to the command of its subscription once and in order.
THEOREM CommandsRunOnce == C!Spec => []C!OncePerConnection
  BY ClientInit, ClientStep, ClientOnce, PTL DEF C!Spec

-------------------------------------------------------------------------------
(* The notifications in the browser database *)

Rows == [new : {"yes", "no", "unset"}, progress : {"none", "ongoing", "success", "failed"}]
ClickState == [start : {"ready", "looking", "putting", "done"},
               end : {"ready", "fetching", "looking", "putting", "done"},
               message : Notes \cup {None}, row : Rows \cup {None}]

NotificationsTyped ==
  /\ nrow \in [Notes -> Rows \cup {None}]
  /\ handler \in [Tabs -> [Notes -> {"sent", "new", "adding", "added", "done"}]]
  /\ push \in [Notes -> {"sent", "added", "done"}]
  /\ poll \in [Tabs -> SUBSET Notes]
  /\ click \in [N!Clicks -> ClickState]
  /\ \A c \in N!Clicks :
       \/ click[c].start = "looking" \/ click[c].start = "putting"
       \/ click[c].end = "looking" \/ click[c].end = "putting" \/ click[c].end = "fetching"
       => click[c].message \in Notes /\ click[c].row \in Rows
  /\ shown \in [Notes -> Nat]

\* Somebody has added the message and shows it, or has shown it.
Showing(m) == shown[m] # 0 \/ push[m] = "added" \/ \E t \in Tabs : handler[t][m] = "added"

\* One does, and then nobody else is about to: but for messages that were deleted or that a
\* tab was overtaken with.
ShownByOne(m) ==
  m \in overtaken \cup deleted \/
    /\ shown[m] <= 1
    /\ shown[m] # 0 => push[m] # "added" /\ \A t \in Tabs : handler[t][m] # "added"
    /\ push[m] = "added" => \A t \in Tabs : handler[t][m] # "added"
    /\ \A t, u \in Tabs : handler[t][m] = "added" /\ handler[u][m] = "added" => t = u
    /\ Showing(m) => nrow[m] # None /\ \A t \in Tabs : handler[t][m] # "adding"

NotificationsOK == NotificationsTyped /\ \A m \in Notes : ShownByOne(m)

\* Of the message nothing changes but the row, which is not deleted.
LEMMA MessageAlike ==
  ASSUME NEW m \in Notes, ShownByOne(m), shown'[m] = shown[m], push'[m] = push[m],
         \A t \in Tabs : handler'[t][m] = handler[t][m],
         m \in overtaken \cup deleted => m \in overtaken' \cup deleted',
         m \in overtaken' \cup deleted' \/ (nrow[m] # None => nrow'[m] # None)
  PROVE  ShownByOne(m)'
<1> SUFFICES ASSUME m \notin overtaken' \cup deleted' PROVE ShownByOne(m)'
  BY DEF ShownByOne
<1>1. m \notin overtaken \cup deleted OBVIOUS
<1>2. Showing(m)' => Showing(m) BY DEF Showing
<1> QED BY <1>1, <1>2 DEF ShownByOne

\* The tab t goes on with the message m.
LEMMA TabGoes ==
  ASSUME NotificationsTyped, NEW t \in Tabs, NEW m \in Notes,
         NEW s \in {"sent", "new", "adding", "added", "done"}, N!Go(t, m, s)
  PROVE  /\ handler' \in [Tabs -> [Notes -> {"sent", "new", "adding", "added", "done"}]]
         /\ handler'[t][m] = s
         /\ \A u \in Tabs : u # t => handler'[u][m] = handler[u][m]
         /\ \A n \in Notes : n # m => \A u \in Tabs : handler'[u][n] = handler[u][n]
<1> DEFINE Steps == {"sent", "new", "adding", "added", "done"}
<1>1. handler \in [Tabs -> [Notes -> Steps]] /\ handler' = [handler EXCEPT ![t][m] = s]
  BY DEF NotificationsTyped, N!Go
<1> HIDE DEF Steps
<1>2. s \in Steps BY DEF Steps
<1>3. handler[t] \in [Notes -> Steps] /\ handler'[t] = [handler[t] EXCEPT ![m] = s] BY <1>1
<1>4. handler'[t] \in [Notes -> Steps] /\ handler'[t][m] = s /\ \A n \in Notes : n # m => handler'[t][n] = handler[t][n]
  BY <1>2, <1>3
<1>5. \A u \in Tabs : u # t => handler'[u] = handler[u] BY <1>1
<1>6. handler' \in [Tabs -> [Notes -> Steps]] BY <1>1, <1>4, <1>5
<1> QED BY <1>4, <1>5, <1>6 DEF Steps

\* An empty database.
LEMMA NotificationsInit == ASSUME N!Init PROVE NotificationsOK
<1>1. shown = [m \in Notes |-> 0] /\ shown \in [Notes -> Nat] BY SMTT(30) DEF N!Init
<1>2. N!Ready \in ClickState /\ N!Ready.start = "ready" /\ N!Ready.end = "ready" BY SMTT(30) DEF N!Ready, ClickState
<1>3. nrow \in [Notes -> Rows \cup {None}]
      /\ handler \in [Tabs -> [Notes -> {"sent", "new", "adding", "added", "done"}]]
      /\ push \in [Notes -> {"sent", "added", "done"}] /\ poll \in [Tabs -> SUBSET Notes]
  BY DEF N!Init
<1> HIDE DEF N!Ready
<1>4. click \in [N!Clicks -> ClickState] /\ \A c \in N!Clicks : click[c] = N!Ready BY <1>2 DEF N!Init
<1>5. NotificationsTyped BY <1>1, <1>2, <1>3, <1>4 DEF NotificationsTyped
<1>6. ASSUME NEW m \in Notes PROVE ShownByOne(m)
  <2>1. shown[m] = 0 BY <1>1
  <2>2. push[m] = "sent" /\ \A t \in Tabs : handler[t][m] = "sent" BY DEF N!Init
  <2>3. shown[m] <= 1 BY <2>1, SMTT(30)
  <2> QED BY <2>1, <2>2, <2>3 DEF ShownByOne, Showing
<1> QED BY <1>5, <1>6 DEF NotificationsOK

\* The rows that are added.
LEMMA RowsOK ==
  /\ N!Row("yes") \in Rows /\ N!Row("unset") \in Rows
  /\ N!Row("yes") # None /\ N!Row("unset") # None /\ N!Row("unset").new = "unset"
<1>1. N!Row("yes") \in Rows /\ N!Row("unset") \in Rows BY SMTT(30) DEF N!Row, Rows
<1> QED BY <1>1, NotificationsAssumption DEF Rows, N!Row

\* A step that lets nobody add or show a message.
LEMMA OtherStep ==
  ASSUME NotificationsOK, NotificationsTyped', UNCHANGED <<handler, push, shown, overtaken>>,
         deleted \subseteq deleted', \A m \in Notes : nrow[m] # None /\ nrow'[m] = None => m \in deleted'
  PROVE  NotificationsOK'
<1>1. ASSUME NEW m \in Notes PROVE ShownByOne(m)'
  <2>1. ShownByOne(m) BY DEF NotificationsOK
  <2> QED BY <2>1, MessageAlike
<1> QED BY <1>1 DEF NotificationsOK

\* Rows change, and none is deleted unnoticed.
LEMMA RowsStep ==
  ASSUME NotificationsOK, nrow' \in [Notes -> Rows \cup {None}],
         UNCHANGED <<handler, push, click, shown, overtaken>>, poll' \in [Tabs -> SUBSET Notes],
         deleted \subseteq deleted', \A m \in Notes : nrow[m] # None /\ nrow'[m] = None => m \in deleted'
  PROVE  NotificationsOK'
<1>1. NotificationsTyped' BY DEF NotificationsOK, NotificationsTyped
<1> QED BY <1>1, OtherStep

\* A button is pressed or its request goes on.
LEMMA ClicksStep ==
  ASSUME NotificationsOK, nrow' \in [Notes -> Rows \cup {None}],
         UNCHANGED <<handler, push, poll, shown, overtaken, deleted>>,
         \A m \in Notes : nrow[m] # None => nrow'[m] # None,
         NEW c \in N!Clicks, NEW k \in ClickState, click' = [click EXCEPT ![c] = k],
         \/ k.start = "looking" \/ k.start = "putting" \/ k.end = "looking" \/ k.end = "putting"
            \/ k.end = "fetching"
         => k.message \in Notes /\ k.row \in Rows
  PROVE  NotificationsOK'
<1>1. click \in [N!Clicks -> ClickState] BY DEF NotificationsOK, NotificationsTyped
<1>2. click' \in [N!Clicks -> ClickState] /\ click'[c] = k /\ \A b \in N!Clicks : b # c => click'[b] = click[b]
  BY <1>1
<1>3. ASSUME NEW b \in N!Clicks, \/ click'[b].start = "looking" \/ click'[b].start = "putting"
             \/ click'[b].end = "looking" \/ click'[b].end = "putting" \/ click'[b].end = "fetching"
      PROVE  click'[b].message \in Notes /\ click'[b].row \in Rows
  <2>1. CASE b = c BY <1>2, <1>3, <2>1
  <2>2. CASE b # c BY <1>2, <1>3, <2>2 DEF NotificationsOK, NotificationsTyped
  <2> QED BY <2>1, <2>2
<1>4. NotificationsTyped' BY <1>2, <1>3 DEF NotificationsOK, NotificationsTyped
<1> QED BY <1>4, OtherStep

\* A tab handles a message.
LEMMA TabStep ==
  ASSUME NotificationsOK, NEW t \in Tabs, NEW m \in Notes,
         N!HandleMessage(t, m) \/ N!Look(t, m) \/ N!Add(t, m) \/ N!Notify(t, m)
  PROVE  NotificationsOK'
<1> DEFINE Steps == {"sent", "new", "adding", "added", "done"}
<1>1. NotificationsTyped /\ ShownByOne(m) BY DEF NotificationsOK
<1>2. UNCHANGED <<push, poll, click, deleted>> /\ overtaken \subseteq overtaken'
  BY DEF N!HandleMessage, N!Look, N!Add, N!Notify, N!Overtakes
<1>3. PICK s \in Steps :
        /\ N!Go(t, m, s)
        /\ handler[t][m] = "sent" => s # "added" /\ s # "adding"
        /\ handler[t][m] = "new" => s # "added" /\ (s = "adding" => nrow[m] = None)
        /\ handler[t][m] = "adding" => s = "added"
        /\ handler[t][m] = "added" => s = "done"
  <2>1. CASE N!HandleMessage(t, m) BY <2>1 DEF N!HandleMessage
  <2>2. CASE N!Look(t, m) BY <2>2 DEF N!Look
  <2>3. CASE N!Add(t, m) BY <2>3 DEF N!Add
  <2>4. CASE N!Notify(t, m) BY <2>4 DEF N!Notify
  <2> QED BY <2>1, <2>2, <2>3, <2>4
<1>4. /\ handler' \in [Tabs -> [Notes -> Steps]] /\ handler'[t][m] = s
      /\ \A u \in Tabs : u # t => handler'[u][m] = handler[u][m]
      /\ \A n \in Notes : n # m => \A u \in Tabs : handler'[u][n] = handler[u][n]
  BY <1>1, <1>3, TabGoes
<1>5. nrow' \in [Notes -> Rows \cup {None}] /\ \A n \in Notes : nrow[n] # None => nrow'[n] # None
  BY <1>1, RowsOK DEF N!HandleMessage, N!Look, N!Add, N!Notify, NotificationsTyped
<1>6. shown' \in [Notes -> Nat] /\ \A n \in Notes : n # m => shown'[n] = shown[n]
  BY <1>1, SMTT(30) DEF N!HandleMessage, N!Look, N!Add, N!Notify, NotificationsTyped
<1>7. NotificationsTyped' BY <1>1, <1>2, <1>4, <1>5, <1>6 DEF NotificationsTyped
<1>8. ASSUME NEW n \in Notes, n # m PROVE ShownByOne(n)'
  <2>1. ShownByOne(n) BY DEF NotificationsOK
  <2> QED BY <1>2, <1>4, <1>5, <1>6, <1>8, <2>1, MessageAlike
<1>9. ASSUME m \notin overtaken' \cup deleted' PROVE ShownByOne(m)'
  <2>1. /\ shown[m] <= 1
        /\ shown[m] # 0 => push[m] # "added" /\ \A u \in Tabs : handler[u][m] # "added"
        /\ push[m] = "added" => \A u \in Tabs : handler[u][m] # "added"
        /\ \A u, v \in Tabs : handler[u][m] = "added" /\ handler[v][m] = "added" => u = v
        /\ Showing(m) => nrow[m] # None /\ \A u \in Tabs : handler[u][m] # "adding"
    BY <1>1, <1>2, <1>9 DEF ShownByOne
  <2>2. CASE N!HandleMessage(t, m)
    <3>1. s # "added" /\ s # "adding" /\ nrow' = nrow /\ shown' = shown
      BY <1>3, <2>2 DEF N!HandleMessage
    <3>2. Showing(m)' => Showing(m) BY <1>2, <1>4, <3>1 DEF Showing
    <3> QED BY <1>2, <1>4, <2>1, <3>1, <3>2 DEF ShownByOne
  <2>3. CASE N!Look(t, m)
    <3>1. s # "added" /\ (s = "adding" => nrow[m] = None) /\ nrow' = nrow /\ shown' = shown
      BY <1>3, <2>3 DEF N!Look
    <3>2. Showing(m)' => Showing(m) BY <1>2, <1>4, <3>1 DEF Showing
    <3> QED BY <1>2, <1>4, <2>1, <3>1, <3>2 DEF ShownByOne
  <2>4. CASE N!Add(t, m)
    <3>1. handler[t][m] = "adding" /\ shown' = shown BY <2>4 DEF N!Add
    <3>2. ~ Showing(m) BY <2>1, <3>1
    <3>3. \A u \in Tabs : u # t => handler[u][m] # "adding"
      BY <1>9, <2>4 DEF N!Add, N!Overtakes
    <3>4. s = "added" BY <1>3, <3>1
    <3>5. nrow'[m] # None BY <1>1, <2>4, RowsOK DEF N!Add, NotificationsTyped
    <3>6. shown[m] = 0 /\ push[m] # "added" /\ \A u \in Tabs : handler[u][m] # "added" BY <3>2 DEF Showing
    <3>7. \A u \in Tabs : handler'[u][m] # "adding" BY <1>4, <3>3, <3>4
    <3>8. \A u \in Tabs : handler'[u][m] = "added" => u = t BY <1>4, <3>6
    <3> QED BY <1>2, <2>1, <3>1, <3>5, <3>6, <3>7, <3>8 DEF ShownByOne
  <2>5. CASE N!Notify(t, m)
    <3>1. handler[t][m] = "added" /\ nrow' = nrow BY <2>5 DEF N!Notify
    <3>2. shown[m] = 0 /\ push[m] # "added" /\ \A u \in Tabs : u # t => handler[u][m] # "added" BY <2>1, <3>1
    <3>3. nrow[m] # None /\ \A u \in Tabs : handler[u][m] # "adding" BY <2>1, <3>1 DEF Showing
    <3>4. s = "done" BY <1>3, <3>1
    <3>5. shown'[m] <= 1 BY <1>1, <2>5, <3>2, SMTT(30) DEF N!Notify, NotificationsTyped
    <3>6. \A u \in Tabs : handler'[u][m] # "adding" /\ handler'[u][m] # "added" BY <1>4, <3>2, <3>3, <3>4
    <3> QED BY <1>2, <3>1, <3>2, <3>3, <3>5, <3>6 DEF ShownByOne
  <2> QED BY <2>2, <2>3, <2>4, <2>5
<1>10. ShownByOne(m)' BY <1>9 DEF ShownByOne
<1> QED BY <1>7, <1>8, <1>10 DEF NotificationsOK

\* The service worker handles a message.
LEMMA WorkerStep == ASSUME NotificationsOK, NEW m \in Notes, N!PushAdd(m) \/ N!PushShow(m) PROVE NotificationsOK'
<1>1. NotificationsTyped /\ ShownByOne(m) BY DEF NotificationsOK
<1>2. UNCHANGED <<handler, poll, click, deleted>> /\ overtaken \subseteq overtaken'
  BY DEF N!PushAdd, N!PushShow, N!Overtakes
<1>3. /\ push' \in [Notes -> {"sent", "added", "done"}] /\ \A n \in Notes : n # m => push'[n] = push[n]
      /\ nrow' \in [Notes -> Rows \cup {None}] /\ \A n \in Notes : nrow[n] # None => nrow'[n] # None
  BY <1>1, RowsOK DEF N!PushAdd, N!PushShow, NotificationsTyped
<1>4. shown' \in [Notes -> Nat] /\ \A n \in Notes : n # m => shown'[n] = shown[n]
  <2>1. shown' = shown \/ shown' = [shown EXCEPT ![m] = @ + 1] BY DEF N!PushAdd, N!PushShow
  <2>2. shown \in [Notes -> Nat] BY <1>1 DEF NotificationsTyped
  <2>3. shown[m] + 1 \in Nat BY <2>2, SMTT(30)
  <2> QED BY <2>1, <2>2, <2>3
<1>5. NotificationsTyped' BY <1>1, <1>2, <1>3, <1>4 DEF NotificationsTyped
<1>6. ASSUME NEW n \in Notes, n # m PROVE ShownByOne(n)'
  <2>1. ShownByOne(n) BY DEF NotificationsOK
  <2> QED BY <1>2, <1>3, <1>4, <1>6, <2>1, MessageAlike
<1>7. ASSUME m \notin overtaken' \cup deleted' PROVE ShownByOne(m)'
  <2>1. /\ shown[m] <= 1
        /\ shown[m] # 0 => push[m] # "added" /\ \A u \in Tabs : handler[u][m] # "added"
        /\ push[m] = "added" => \A u \in Tabs : handler[u][m] # "added"
        /\ \A u, v \in Tabs : handler[u][m] = "added" /\ handler[v][m] = "added" => u = v
        /\ Showing(m) => nrow[m] # None /\ \A u \in Tabs : handler[u][m] # "adding"
    BY <1>1, <1>2, <1>7 DEF ShownByOne
  <2>2. CASE N!PushAdd(m) /\ nrow[m] # None
    <3>1. push'[m] = "done" /\ shown' = shown BY <1>1, <2>2 DEF N!PushAdd, NotificationsTyped
    <3>2. Showing(m)' => Showing(m) BY <1>2, <3>1 DEF Showing
    <3> QED BY <1>2, <1>3, <2>1, <3>1, <3>2 DEF ShownByOne
  <2>3. CASE N!PushAdd(m) /\ nrow[m] = None
    <3>1. ~ Showing(m) /\ shown' = shown BY <2>1, <2>3 DEF N!PushAdd
    <3>2. \A u \in Tabs : handler[u][m] # "adding"
      BY <1>7, <2>3, NotificationsAssumption DEF N!PushAdd, N!Overtakes
    <3>3. nrow'[m] # None BY <1>1, <2>3, RowsOK DEF N!PushAdd, NotificationsTyped
    <3>4. shown[m] = 0 /\ \A u \in Tabs : handler[u][m] # "added" BY <3>1 DEF Showing
    <3> QED BY <1>2, <2>1, <3>1, <3>2, <3>3, <3>4 DEF ShownByOne
  <2>4. CASE N!PushShow(m)
    <3>1. push[m] = "added" /\ nrow' = nrow BY <2>4 DEF N!PushShow
    <3>2. shown[m] = 0 /\ \A u \in Tabs : handler[u][m] # "added" BY <2>1, <3>1
    <3>3. nrow[m] # None /\ \A u \in Tabs : handler[u][m] # "adding" BY <2>1, <3>1 DEF Showing
    <3>4. push'[m] = "done" BY <1>1, <2>4 DEF N!PushShow, NotificationsTyped
    <3>5. shown'[m] <= 1 BY <1>1, <2>4, <3>2, SMTT(30) DEF N!PushShow, NotificationsTyped
    <3> QED BY <1>2, <3>1, <3>2, <3>3, <3>4, <3>5 DEF ShownByOne
  <2> QED BY <2>2, <2>3, <2>4
<1>8. ShownByOne(m)' BY <1>7 DEF ShownByOne
<1> QED BY <1>5, <1>6, <1>8 DEF NotificationsOK

\* The poller of a tab.
LEMMA PollStep ==
  ASSUME NotificationsOK, NEW t \in Tabs, N!AddNotifications(t) \/ \E ms \in SUBSET Notes : N!Poll(t, ms)
  PROVE  NotificationsOK'
<1>1. nrow \in [Notes -> Rows \cup {None}] /\ poll \in [Tabs -> SUBSET Notes]
  BY DEF NotificationsOK, NotificationsTyped
<1>2. CASE N!AddNotifications(t)
  <2>1. /\ nrow' = [m \in Notes |-> IF m \in poll[t] THEN N!Row("unset") ELSE nrow[m]]
        /\ poll' = [poll EXCEPT ![t] = {}] /\ UNCHANGED <<handler, push, click, shown, overtaken, deleted>>
    BY <1>2 DEF N!AddNotifications
  <2>2. nrow' \in [Notes -> Rows \cup {None}] /\ poll' \in [Tabs -> SUBSET Notes] BY <1>1, <2>1, RowsOK
  <2>3. \A m \in Notes : nrow[m] # None => nrow'[m] # None BY <2>1, RowsOK
  <2> QED BY <2>1, <2>2, <2>3, RowsStep
<1>3. ASSUME NEW ms \in SUBSET Notes, N!Poll(t, ms) PROVE NotificationsOK'
  <2>1. poll' = [poll EXCEPT ![t] = ms] /\ UNCHANGED <<nrow, handler, push, click, shown, overtaken, deleted>>
    BY <1>3 DEF N!Poll
  <2>2. poll' \in [Tabs -> SUBSET Notes] BY <1>1, <2>1
  <2> QED BY <1>1, <2>1, <2>2, RowsStep
<1> QED BY <1>2, <1>3

\* Marking as read, muting, and unsubscribing up to the messages.
LEMMA ReadingStep ==
  ASSUME NotificationsOK, \/ \E m \in Notes : N!MarkNotificationRead(m)
                          \/ N!MarkNotificationsRead \/ N!SetMutedUntil \/ N!Remove
  PROVE  NotificationsOK'
<1>1. nrow \in [Notes -> Rows \cup {None}] /\ poll \in [Tabs -> SUBSET Notes]
  BY DEF NotificationsOK, NotificationsTyped
<1>2. \A k \in Rows : [k EXCEPT !.new = "no"] \in Rows /\ [k EXCEPT !.new = "no"] # None
  <2>1. \A k \in Rows : [k EXCEPT !.new = "no"] \in Rows BY DEF Rows
  <2> QED BY <2>1, NotificationsAssumption DEF Rows
<1>3. UNCHANGED <<poll, handler, push, click, shown, overtaken, deleted>>
  BY DEF N!MarkNotificationRead, N!MarkNotificationsRead, N!SetMutedUntil, N!Remove
<1>4. nrow' \in [Notes -> Rows \cup {None}] /\ \A m \in Notes : nrow[m] # None => nrow'[m] # None
  <2>1. ASSUME NEW m \in Notes, N!MarkNotificationRead(m)
        PROVE  nrow' \in [Notes -> Rows \cup {None}] /\ \A n \in Notes : nrow[n] # None => nrow'[n] # None
    <3>1. nrow[m] \in Rows BY <1>1, <2>1 DEF N!MarkNotificationRead
    <3>2. [nrow[m] EXCEPT !.new = "no"] \in Rows /\ [nrow[m] EXCEPT !.new = "no"] # None BY <1>2, <3>1
    <3>3. nrow' = [nrow EXCEPT ![m] = [nrow[m] EXCEPT !.new = "no"]] BY <2>1 DEF N!MarkNotificationRead
    <3> QED BY <1>1, <3>2, <3>3
  <2>2. ASSUME N!MarkNotificationsRead
        PROVE  nrow' \in [Notes -> Rows \cup {None}] /\ \A n \in Notes : nrow[n] # None => nrow'[n] # None
    <3>1. nrow' = [m \in Notes |->
                   IF nrow[m] # None /\ nrow[m].new = "yes" THEN [nrow[m] EXCEPT !.new = "no"] ELSE nrow[m]]
      BY <2>2 DEF N!MarkNotificationsRead
    <3>2. \A m \in Notes : nrow[m] # None => [nrow[m] EXCEPT !.new = "no"] \in Rows /\ [nrow[m] EXCEPT !.new = "no"] # None
      BY <1>1, <1>2
    <3> QED BY <1>1, <3>1, <3>2
  <2>3. N!SetMutedUntil \/ N!Remove => nrow' = nrow BY DEF N!SetMutedUntil, N!Remove
  <2> QED BY <1>1, <2>1, <2>2, <2>3
<1> QED BY <1>1, <1>3, <1>4, RowsStep

\* The pruner, and the messages of a topic that was unsubscribed.
LEMMA DeletingStep ==
  ASSUME NotificationsOK, N!RemoveNotifications \/ \E ms \in SUBSET Notes : N!Delete(ms) PROVE NotificationsOK'
<1>1. nrow \in [Notes -> Rows \cup {None}] /\ poll \in [Tabs -> SUBSET Notes]
  BY DEF NotificationsOK, NotificationsTyped
<1>2. UNCHANGED <<poll, handler, push, click, shown, overtaken>> BY DEF N!RemoveNotifications, N!Delete
<1>3. /\ nrow' \in [Notes -> Rows \cup {None}] /\ deleted \subseteq deleted'
      /\ \A m \in Notes : nrow[m] # None /\ nrow'[m] = None => m \in deleted'
  BY <1>1 DEF N!RemoveNotifications, N!Delete
<1> QED BY <1>1, <1>2, <1>3, RowsStep

\* A button is pressed, and its request answered.
LEMMA PressStep ==
  ASSUME NotificationsOK, NEW c \in N!Clicks, N!Fetched(c) \/ \E m \in Notes : N!Press(c, m)
  PROVE  NotificationsOK'
<1>1. nrow \in [Notes -> Rows \cup {None}] /\ click[c] \in ClickState /\ click \in [N!Clicks -> ClickState]
  BY DEF NotificationsOK, NotificationsTyped
<1>2. UNCHANGED <<nrow, handler, push, poll, shown, overtaken, deleted>> BY DEF N!Fetched, N!Press
<1>3. CASE N!Fetched(c)
  <2> DEFINE k == [click[c] EXCEPT !.end = "looking"]
  <2>1. click[c].end = "fetching" /\ click' = [click EXCEPT ![c] = k] BY <1>1, <1>3 DEF N!Fetched
  <2>2. k \in ClickState /\ k.message = click[c].message /\ k.row = click[c].row BY <1>1 DEF ClickState
  <2>3. k.message \in Notes /\ k.row \in Rows BY <2>1, <2>2 DEF NotificationsOK, NotificationsTyped
  <2> HIDE DEF k
  <2> QED BY <1>1, <1>2, <2>1, <2>2, <2>3, ClicksStep
<1>4. ASSUME NEW m \in Notes, N!Press(c, m) PROVE NotificationsOK'
  <2> DEFINE k == [start |-> "looking", end |-> "fetching", message |-> m, row |-> nrow[m]]
  <2>1. nrow[m] \in Rows /\ click' = [click EXCEPT ![c] = k] BY <1>1, <1>4 DEF N!Press
  <2>2. k \in ClickState BY <2>1, SMTT(30) DEF ClickState
  <2>3. k.message \in Notes /\ k.row \in Rows BY <2>1
  <2> HIDE DEF k
  <2> QED BY <1>1, <1>2, <2>1, <2>2, <2>3, ClicksStep
<1> QED BY <1>3, <1>4

\* The two updates of a button.
LEMMA UpdateStep ==
  ASSUME NotificationsOK, NEW c \in N!Clicks, NEW u \in {"start", "end"}, N!Exists(c, u) \/ N!UpdateNotification(c, u)
  PROVE  NotificationsOK'
<1>1. nrow \in [Notes -> Rows \cup {None}] /\ click[c] \in ClickState /\ click \in [N!Clicks -> ClickState]
  BY DEF NotificationsOK, NotificationsTyped
<1>2. UNCHANGED <<handler, push, poll, shown, overtaken, deleted>> BY DEF N!Exists, N!UpdateNotification
<1>3. click[c].message \in Notes /\ click[c].row \in Rows
  <2>1. click[c][u] = "looking" \/ click[c][u] = "putting" BY DEF N!Exists, N!UpdateNotification
  <2> QED BY <2>1 DEF NotificationsOK, NotificationsTyped
<1>4. PICK s \in {"putting", "done"} : click' = [click EXCEPT ![c][u] = s] BY DEF N!Exists, N!UpdateNotification
<1>5. PICK k \in ClickState :
        click' = [click EXCEPT ![c] = k] /\ k.message = click[c].message /\ k.row = click[c].row
  <2>1. CASE u = "start"
    <3> DEFINE k == [click[c] EXCEPT !.start = s]
    <3>1. click' = [click EXCEPT ![c] = k] BY <1>1, <1>4, <2>1
    <3>2. k \in ClickState /\ k.message = click[c].message /\ k.row = click[c].row BY <1>1 DEF ClickState
    <3> HIDE DEF k
    <3> QED BY <3>1, <3>2
  <2>2. CASE u = "end"
    <3> DEFINE k == [click[c] EXCEPT !.end = s]
    <3>1. click' = [click EXCEPT ![c] = k] BY <1>1, <1>4, <2>2
    <3>2. k \in ClickState /\ k.message = click[c].message /\ k.row = click[c].row BY <1>1 DEF ClickState
    <3> HIDE DEF k
    <3> QED BY <3>1, <3>2
  <2> QED BY <2>1, <2>2
<1>6. nrow' \in [Notes -> Rows \cup {None}] /\ \A m \in Notes : nrow[m] # None => nrow'[m] # None
  <2>1. CASE N!Exists(c, u) BY <1>1, <2>1 DEF N!Exists
  <2>2. CASE N!UpdateNotification(c, u)
    <3>1. PICK p \in {"ongoing", "success", "failed"} :
            nrow' = [nrow EXCEPT ![click[c].message] = [click[c].row EXCEPT !.progress = p]]
      BY <2>2 DEF N!UpdateNotification
    <3> DEFINE changed == [click[c].row EXCEPT !.progress = p]
    <3>2. changed \in Rows BY <1>3 DEF Rows
    <3>3. changed # None BY <3>2, NotificationsAssumption DEF Rows
    <3>4. nrow' = [nrow EXCEPT ![click[c].message] = changed] BY <3>1
    <3> HIDE DEF changed
    <3> QED BY <1>1, <1>3, <3>2, <3>3, <3>4
  <2> QED BY <2>1, <2>2
<1> QED BY <1>1, <1>2, <1>3, <1>5, <1>6, ClicksStep

\* Every step of the tabs and the worker keeps the invariant.
LEMMA NotificationsStep == ASSUME NotificationsOK, [N!Next]_(N!vars) PROVE NotificationsOK'
<1>1. ASSUME UNCHANGED N!vars PROVE NotificationsOK'
  <2>1. UNCHANGED <<nrow, handler, push, poll, click, shown, overtaken, deleted>> BY <1>1 DEF N!vars
  <2>2. NotificationsTyped' BY <2>1 DEF NotificationsOK, NotificationsTyped
  <2> QED BY <2>1, <2>2, OtherStep
<1>2. ASSUME NEW c \in N!Clicks, NEW u \in {"start", "end"}, N!Exists(c, u) \/ N!UpdateNotification(c, u)
      PROVE  NotificationsOK'
  BY <1>2, UpdateStep
<1> QED BY <1>1, <1>2, TabStep, WorkerStep, PollStep, ReadingStep, DeletingStep, PressStep DEF N!Next

\* For any tabs and messages: the tabs and the service worker show a notification once,
\* because each looks for its row before it adds it, unless they overtook each other.
THEOREM NotificationsShownOnce == N!Spec => []N!ShownOnce
<1>1. N!Init => NotificationsOK BY NotificationsInit
<1>2. NotificationsOK /\ [N!Next]_(N!vars) => NotificationsOK' BY NotificationsStep
<1>3. NotificationsOK => N!ShownOnce BY DEF NotificationsOK, ShownByOne, N!ShownOnce
<1> QED BY <1>1, <1>2, <1>3, PTL DEF N!Spec

\* Messages are handled once, by the command line client and by the web app.
THEOREM MessagesHandledOnce == C!Spec /\ N!Spec => []HandledOnce
<1>1. C!OncePerConnection /\ N!ShownOnce => HandledOnce BY DEF HandledOnce
<1> QED BY <1>1, CommandsRunOnce, NotificationsShownOnce, PTL

\* What makes a row unread again is the answer of a button that was pressed before.
LEMMA ReadStep ==
  ASSUME NotificationsOK, N!Next, NEW m \in Notes, nrow[m] # None, nrow[m].new # "yes",
         nrow'[m] # None, nrow'[m].new = "yes"
  PROVE  \E c \in N!Clicks : click[c].message = m /\ click[c].row.new = "yes"
<1>1. nrow \in [Notes -> Rows \cup {None}] BY DEF NotificationsOK, NotificationsTyped
<1>2. nrow'[m] # nrow[m] OBVIOUS
<1>3. ASSUME NEW t \in Tabs, NEW n \in Notes,
             N!HandleMessage(t, n) \/ N!Look(t, n) \/ N!Add(t, n) \/ N!Notify(t, n)
      PROVE  FALSE
  BY <1>1, <1>2, <1>3 DEF N!HandleMessage, N!Look, N!Add, N!Notify
<1>4. ASSUME NEW n \in Notes, N!PushAdd(n) \/ N!PushShow(n) PROVE FALSE
  BY <1>1, <1>2, <1>4 DEF N!PushAdd, N!PushShow
<1>5. ASSUME NEW n \in Notes, N!MarkNotificationRead(n) PROVE FALSE
  <2>1. nrow' = [nrow EXCEPT ![n].new = "no"] BY <1>5 DEF N!MarkNotificationRead
  <2>2. n = m BY <1>1, <1>2, <2>1
  <2>3. nrow[m] \in Rows BY <1>1
  <2>4. nrow'[m] = [nrow[m] EXCEPT !.new = "no"] BY <1>1, <2>1, <2>2
  <2>5. nrow'[m].new = "no" BY <2>3, <2>4 DEF Rows
  <2> QED BY <2>5
<1>6. ASSUME NEW t \in Tabs, N!AddNotifications(t) \/ \E ms \in SUBSET Notes : N!Poll(t, ms) PROVE FALSE
  BY <1>1, <1>2, <1>6, RowsOK DEF N!AddNotifications, N!Poll
<1>7. ASSUME \/ \E ms \in SUBSET Notes : N!Delete(ms)
             \/ N!MarkNotificationsRead \/ N!SetMutedUntil \/ N!Remove \/ N!RemoveNotifications
      PROVE  FALSE
  BY <1>1, <1>2, <1>7 DEF N!Delete, N!MarkNotificationsRead, N!SetMutedUntil, N!Remove, N!RemoveNotifications
<1>8. ASSUME NEW c \in N!Clicks, N!Fetched(c) \/ \E n \in Notes : N!Press(c, n) PROVE FALSE
  BY <1>2, <1>8 DEF N!Fetched, N!Press
<1>9. ASSUME NEW c \in N!Clicks, NEW u \in {"start", "end"}, N!Exists(c, u) \/ N!UpdateNotification(c, u)
      PROVE  click[c].message = m /\ click[c].row.new = "yes"
  <2>1. N!UpdateNotification(c, u) BY <1>2, <1>9 DEF N!Exists
  <2>2. PICK p : nrow' = [nrow EXCEPT ![click[c].message] = [click[c].row EXCEPT !.progress = p]]
    BY <2>1 DEF N!UpdateNotification
  <2>3. click[c].message = m BY <1>1, <1>2, <2>2
  <2>4. click[c].row \in Rows
    <3>1. click[c][u] = "putting" BY <2>1 DEF N!UpdateNotification
    <3> QED BY <3>1 DEF NotificationsOK, NotificationsTyped
  <2>5. nrow'[m] = [click[c].row EXCEPT !.progress = p] BY <1>1, <2>2, <2>3
  <2>6. nrow'[m].new = click[c].row.new BY <2>4, <2>5 DEF Rows
  <2> QED BY <2>3, <2>6
<1> QED BY <1>3, <1>4, <1>5, <1>6, <1>7, <1>8, <1>9 DEF N!Next

\* For any tabs, messages and clicks: what was read becomes unread only by the row that a
\* pressed button had read before and puts back.
THEOREM NotificationsStayRead == N!Spec => ReadStaysRead
<1>1. N!Init => NotificationsOK BY NotificationsInit
<1>2. NotificationsOK /\ [N!Next]_(N!vars) => NotificationsOK' BY NotificationsStep
<1>3. NotificationsOK /\ [N!Next]_(N!vars) =>
        [\A m \in Notes :
           nrow[m] # None /\ nrow[m].new # "yes" /\ nrow'[m] # None /\ nrow'[m].new = "yes" =>
             \E c \in N!Clicks : click[c].message = m /\ click[c].row.new = "yes"]_(N!vars)
  BY ReadStep
<1> QED BY <1>1, <1>2, <1>3, PTL DEF N!Spec, ReadStaysRead, N!ReadStaysRead
==============================================================================
