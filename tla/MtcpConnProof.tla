--------------------------- MODULE MtcpConnProof ---------------------------
(***************************************************************************)
(* For every size of the event queues and every number of sockets, packets *)
(* and requests: while no store of socket->events undoes another, an event *)
(* is queued exactly while its bit is set; the connection owns the socket  *)
(* its state says; and no handler runs for an earlier socket unless a      *)
(* failed handshake left one registered.                                   *)
(***************************************************************************)
EXTENDS MtcpConn, WellFoundedInduction, TLAPS

(***************************************************************************)
(* The inductive invariant, in two parts: the sockets and the queues, which *)
(* do not look at the connection, and the connection on top of them.       *)
(***************************************************************************)

Is(d, e) == IF d = e THEN 1 ELSE 0
Count(q, e) ==
    LET c[k \in 0 .. Len(q)] == IF k = 0 THEN 0 ELSE c[k - 1] + Is(q[k], e)
    IN  c[Len(q)]
Queued(e) == Count(mtcpq.q, e) + Count(usrq, e) + Count(shadowq, e)

Set(e) == IF e.ev \in smap[e.sock].events THEN 1 ELSE 0
Adding(t, e) == IF pend[t].sock = e.sock /\ e.ev \in pend[t].add THEN 1 ELSE 0
Clearing(t, e) == IF pend[t].sock = e.sock /\ e.ev \in pend[t].del THEN 1 ELSE 0

\* Sockets are allocated in order; only a used one is registered or has a stream.
SocketsOK == \A s \in Socks :
    /\ s > opened => smap[s] = Unused
    /\ smap[s].epoll \/ smap[s].tcp # "NONE" => smap[s].used
    /\ smap[s].merged_len <= packets

\* An event is of a socket that was opened, after the answer to its SYN.
EventsOK == \A e \in Entry :
    Queued(e) + Count(batch, e) > 0 => e.sock <= opened /\ smap[e.sock].tcp # "SYN_SENT"

\* The stack only sets bits that were clear, and the event of its store is
\* still in mtcp_queue.
StackStoreOK == pend["stack"] # NoStore =>
    /\ pend["stack"].sock <= opened
    /\ \E ev \in Events :
        /\ pend["stack"].add = {ev} /\ pend["stack"].del = {} /\ ev \notin pend["stack"].old
        /\ Count(mtcpq.q, [sock |-> pend["stack"].sock, ev |-> ev]) > 0

\* The application sets a bit that was clear or clears one that was set.
AppStoreOK == pend["app"] # NoStore =>
    /\ pend["app"].sock <= opened
    /\ \E ev \in Events :
        \/ pend["app"].add = {ev} /\ pend["app"].del = {} /\ ev \notin pend["app"].old
        \/ /\ pend["app"].add = {} /\ pend["app"].del = {ev}
           /\ ~raced /\ smap[pend["app"].sock].used => ev \in pend["app"].old

\* Every entry of a queue is a bit that is set or about to be, and not about to
\* be cleared: two entries of one event are two stores.
Balanced(e) == Queued(e) + Clearing("app", e) = Set(e) + Adding("stack", e) + Adding("app", e)
Balance == ~raced => \A e \in Entry : smap[e.sock].used => Balanced(e)

QueueInv == TypeOK /\ SocketsOK /\ EventsOK /\ StackStoreOK /\ AppStoreOK /\ Balance

\* What the application thread is doing, against the state of the connection.
ControlOK ==
    /\ retry \/ pc = "connected_socket"
           => state = "failed" \/ (state = "disconnect" /\ cur = None)
    /\ pc = "connected_socket"
           => ~retry /\ opened \in Socks /\ opened # cur /\ smap[opened].used /\ ~smap[opened].epoll
    /\ pc = "attached" => state = "connecting" /\ cur = opened
    /\ cur <= opened /\ (state = "invalid" => cur = None)
    /\ pc = "read" => state = "connected"
    /\ pc \notin {"wait", "dispatch", "read", "terminated"} => batch = <<>>

\* Until a stale event has run a handler, a failed handshake is one that the
\* stack has given up.
FailedOK == ~dangled /\ state = "failed" /\ cur # None => smap[cur].reason # "NOT_CLOSED"

\* While nothing raced, an event is in the batch once, and no event that
\* mtcp_epoll_wait returned is still in the queues it empties.
BatchOnce == ~raced => \A e \in Entry :
    /\ Count(batch, e) <= 1
    /\ pc = "wait" /\ Count(batch, e) > 0 => Count(usrq, e) + Count(shadowq, e) = 0

\* The events of a batch are of registered sockets, but for what is left of the
\* socket that a read in this batch has closed.
BatchOK == ~raced /\ ~dangled =>
    /\ \A e \in Entry : Count(batch, e) > 0 =>
          smap[e.sock].epoll \/ (cur = None /\ state = "disconnect" /\ e.ev # "IN")
    /\ pc = "read" => Count(batch, [sock |-> cur, ev |-> "IN"]) = 0

ConnInv == ControlOK /\ OwnsSocket /\ FailedOK /\ StaleEventsNeedFailure
           /\ ConnectedMeansEstablished /\ BatchOnce /\ BatchOK

-----------------------------------------------------------------------------
(* The two halves of the type invariant. *)

AppTypeOK ==
    /\ state \in {"invalid", "connecting", "failed", "connected", "disconnect", "closed"}
    /\ cur \in Socks \cup {None} /\ requested \subseteq {"IN", "OUT"}
    /\ pc \in {"idle", "connected_socket", "attached", "wait", "dispatch", "read",
               "terminated", "uncaught"}
    /\ retry \in BOOLEAN /\ sends \in 0 .. MaxSends
    /\ raced \in BOOLEAN /\ eaten \in BOOLEAN /\ dangled \in BOOLEAN /\ sendfailed \in BOOLEAN

Queue(q) == q \in Seq(Entry) /\ Len(q) < Size
QueueTypeOK ==
    /\ batch \in Seq(Entry) /\ opened \in 0 .. MaxSockets /\ smap \in [Socks -> Socket]
    /\ packets \in 0 .. MaxPackets /\ mtcpq \in [start : 0 .. Size - 1, q : Seq(Entry)]
    /\ Queue(mtcpq.q) /\ Queue(usrq) /\ Queue(shadowq)
    /\ pend \in [{"app", "stack"} -> {NoStore} \cup Loaded]

\* TypeOK is the two of them, before and after a step.
LEMMA TypeParts ==
    (TypeOK <=> AppTypeOK /\ QueueTypeOK) /\ (TypeOK' <=> AppTypeOK' /\ QueueTypeOK')
<1>1. TypeOK <=> AppTypeOK /\ QueueTypeOK BY Zenon DEF TypeOK, AppTypeOK, QueueTypeOK, Queue
<1>2. TypeOK' <=> AppTypeOK' /\ QueueTypeOK' BY Zenon DEF TypeOK, AppTypeOK, QueueTypeOK, Queue
<1> QED BY Zenon, <1>1, <1>2

-----------------------------------------------------------------------------
(* How often an event is in a queue. *)

\* A nonempty set of numbers has a least element.
LEMMA Least ==
    ASSUME NEW T \in SUBSET Nat, T # {}
    PROVE  \E x \in T : \A y \in T : x <= y
<1> DEFINE R == {ss \in Nat \X Nat : ss[1] < ss[2]}
<1>1. R = OpToRel(<, Nat) BY DEF OpToRel
<1>2. IsWellFoundedOn(R, Nat) BY Zenon, <1>1, NatLessThanWellFounded
<1> HIDE DEF R
<1>3. PICK x \in T : \A y \in T : ~ (<<y, x>> \in R) BY Zenon, <1>2, WFMin
<1>4. \A y \in T : ~(y < x) BY <1>3 DEF R
<1> QED BY <1>4

\* Induction, on the set of the numbers that have the property.
LEMMA NatSet ==
    ASSUME NEW S \in SUBSET Nat, 0 \in S, \A n \in S : n + 1 \in S
    PROVE  S = Nat
<1> SUFFICES ASSUME Nat \ S # {} PROVE FALSE OBVIOUS
<1>1. PICK x \in Nat \ S : \A y \in Nat \ S : x <= y BY Zenon, Least
<1>2. x # 0 /\ x - 1 \in Nat OBVIOUS
<1>3. x - 1 \in S BY <1>1, <1>2
<1>4. (x - 1) + 1 \in S BY <1>3
<1> QED BY <1>4

\* The partial counts of e in q, from the front.
Counts(q, e, c) ==
    /\ c \in [0 .. Len(q) -> Nat] /\ c[0] = 0
    /\ \A k \in 1 .. Len(q) : c[k] = c[k - 1] + Is(q[k], e)

\* The recursion of Count defines them.
LEMMA CountSteps ==
    ASSUME NEW q \in Seq(Entry), NEW e
    PROVE  \E c : Counts(q, e, c) /\ Count(q, e) = c[Len(q)]
<1> DEFINE F(n, g) == [k \in 0 .. n |-> IF k = 0 THEN 0 ELSE g[k - 1] + Is(q[k], e)]
           S == {n \in Nat : \E g \in [0 .. n -> Nat] : g = F(n, g)}
<1>0. \A k : Is(q[k], e) \in Nat BY DEF Is
<1>1. 0 \in S
  <2>1. [k \in 0 .. 0 |-> 0] \in [0 .. 0 -> Nat] OBVIOUS
  <2>2. [k \in 0 .. 0 |-> 0] = F(0, [k \in 0 .. 0 |-> 0]) OBVIOUS
  <2> QED BY Zenon, <2>1, <2>2, 0 \in Nat
<1>2. ASSUME NEW n \in S PROVE n + 1 \in S
  <2>1. n \in Nat /\ n + 1 \in Nat OBVIOUS
  <2>2. PICK g \in [0 .. n -> Nat] : g = F(n, g) OBVIOUS
  <2> DEFINE h == [k \in 0 .. n + 1 |-> IF k = n + 1 THEN g[n] + Is(q[n + 1], e) ELSE g[k]]
  <2>3. h \in [0 .. n + 1 -> Nat]
    <3>1. \A x, y \in Nat : x + y \in Nat OBVIOUS
    <3>2. \A k \in 0 .. n + 1 : k # n + 1 => k \in 0 .. n BY <2>1
    <3>3. n \in 0 .. n BY <2>1
    <3>4. ASSUME NEW k \in 0 .. n + 1
          PROVE  (IF k = n + 1 THEN g[n] + Is(q[n + 1], e) ELSE g[k]) \in Nat
      <4>1. CASE k = n + 1 BY Zenon, <1>0, <3>1, <3>3, <4>1
      <4>2. CASE k # n + 1 BY Zenon, <3>2, <4>2
      <4> QED BY Zenon, <4>1, <4>2
    <3> QED BY Zenon, <3>4
  <2>4. ASSUME NEW k \in 0 .. n + 1 PROVE h[k] = IF k = 0 THEN 0 ELSE h[k - 1] + Is(q[k], e)
    <3>1. CASE k = n + 1 BY <2>1, <3>1
    <3>2. CASE k # n + 1
      <4>1. k \in 0 .. n /\ (k # 0 => k - 1 \in 0 .. n /\ k - 1 # n + 1) BY <2>1, <3>2
      <4>2. g[k] = IF k = 0 THEN 0 ELSE g[k - 1] + Is(q[k], e) BY Zenon, <2>2, <4>1
      <4>3. h[k] = g[k] BY <3>2
      <4>4. k # 0 => h[k - 1] = g[k - 1] BY <4>1, <2>1
      <4> QED BY Zenon, <4>2, <4>3, <4>4
    <3> QED BY Zenon, <3>1, <3>2
  <2> HIDE DEF h
  <2>5. h = F(n + 1, h)
    <3>1. h = [k \in 0 .. n + 1 |-> h[k]] BY Zenon, <2>3
    <3>2. [k \in 0 .. n + 1 |-> h[k]] = F(n + 1, h) BY Zenon, <2>4
    <3> QED BY Zenon, <3>1, <3>2
  <2> QED BY Zenon, <2>1, <2>3, <2>5
<1>3. Len(q) \in S
  <2> HIDE DEF F
  <2>1. S \in SUBSET Nat BY Zenon
  <2> HIDE DEF S
  <2>2. S = Nat BY Zenon, <1>1, <1>2, <2>1, NatSet
  <2> QED BY <2>2
<1>4. PICK c : c = CHOOSE g : g = F(Len(q), g) BY Zenon
<1>5. PICK g \in [0 .. Len(q) -> Nat] : g = F(Len(q), g) BY Zenon, <1>3
<1>6. c = F(Len(q), c) BY Zenon, <1>4, <1>5
<1>7. Count(q, e) = c[Len(q)] BY Zenon, <1>4 DEF Count
<1>8. Len(q) \in Nat /\ 0 \in 0 .. Len(q) OBVIOUS
<1>9. c[0] = 0 BY Zenon, <1>6, <1>8
<1>10. ASSUME NEW k \in 1 .. Len(q) PROVE c[k] = c[k - 1] + Is(q[k], e)
  <2>1. k \in 0 .. Len(q) /\ k # 0 BY <1>8
  <2> QED BY Zenon, <1>6, <2>1
<1> DEFINE U == {n \in Nat : n <= Len(q) => c[n] \in Nat}
<1>11. U = Nat
  <2>1. U \in SUBSET Nat /\ 0 \in U BY <1>9
  <2>2. ASSUME NEW n \in U PROVE n + 1 \in U
    <3>1. SUFFICES ASSUME n + 1 <= Len(q) PROVE c[n + 1] \in Nat BY <1>8
    <3>2. n + 1 \in 1 .. Len(q) /\ (n + 1) - 1 = n /\ c[n] \in Nat BY <1>8, <3>1
    <3>3. c[n + 1] = c[n] + Is(q[n + 1], e) BY <1>10, <3>2
    <3> QED BY <1>0, <3>2, <3>3
  <2> HIDE DEF U
  <2> QED BY Zenon, <2>1, <2>2, NatSet
<1>12. \A k \in 0 .. Len(q) : c[k] \in Nat BY <1>11, <1>8
<1>13. c \in [0 .. Len(q) -> Nat]
  <2>1. c = [k \in 0 .. Len(q) |-> c[k]] BY Zenon, <1>6
  <2> QED BY Zenon, <1>12, <2>1
<1> QED BY Zenon, <1>7, <1>9, <1>10, <1>13 DEF Counts

\* And only them.
LEMMA CountIs ==
    ASSUME NEW q \in Seq(Entry), NEW e, NEW c, Counts(q, e, c)
    PROVE  Count(q, e) = c[Len(q)]
<1>1. PICK d : Counts(q, e, d) /\ Count(q, e) = d[Len(q)] BY Zenon, CountSteps
<1> DEFINE S == {n \in Nat : n <= Len(q) => c[n] = d[n]}
<1>2. S \in SUBSET Nat /\ 0 \in S BY <1>1 DEF Counts
<1>3. ASSUME NEW n \in S PROVE n + 1 \in S
  <2>1. SUFFICES ASSUME n + 1 <= Len(q) PROVE c[n + 1] = d[n + 1] OBVIOUS
  <2>2. n + 1 \in 1 .. Len(q) /\ (n + 1) - 1 = n /\ c[n] = d[n] BY <2>1
  <2>3. c[n + 1] = c[(n + 1) - 1] + Is(q[n + 1], e) /\ d[n + 1] = d[(n + 1) - 1] + Is(q[n + 1], e)
    BY Zenon, <1>1, <2>2 DEF Counts
  <2> QED BY Zenon, <2>2, <2>3
<1>4. S = Nat
  <2> HIDE DEF S
  <2> QED BY Zenon, <1>2, <1>3, NatSet
<1>5. Len(q) \in S BY <1>4
<1> QED BY <1>1, <1>5

\* A count is a number.
LEMMA CountType ==
    ASSUME NEW q \in Seq(Entry), NEW e
    PROVE  Count(q, e) \in Nat
<1>1. PICK c : Counts(q, e, c) /\ Count(q, e) = c[Len(q)] BY Zenon, CountSteps
<1>2. c \in [0 .. Len(q) -> Nat] BY Zenon, <1>1 DEF Counts
<1> QED BY <1>1, <1>2

\* Concatenation adds the counts up.
LEMMA CountConcat ==
    ASSUME NEW q \in Seq(Entry), NEW r \in Seq(Entry), NEW e
    PROVE  Count(q \o r, e) = Count(q, e) + Count(r, e)
<1>1. PICK a : Counts(q, e, a) /\ Count(q, e) = a[Len(q)] BY Zenon, CountSteps
<1>2. PICK b : Counts(r, e, b) /\ Count(r, e) = b[Len(r)] BY Zenon, CountSteps
<1> DEFINE t == q \o r
           c == [k \in 0 .. Len(q) + Len(r) |-> IF k <= Len(q) THEN a[k] ELSE a[Len(q)] + b[k - Len(q)]]
<1>3. /\ Len(q) \in Nat /\ Len(r) \in Nat /\ t \in Seq(Entry) /\ Len(t) = Len(q) + Len(r)
      /\ \A k \in 1 .. Len(q) : t[k] = q[k]
      /\ \A k \in Len(q) + 1 .. Len(q) + Len(r) : t[k] = r[k - Len(q)]
  OBVIOUS
<1>4. /\ a \in [0 .. Len(q) -> Nat] /\ a[0] = 0 /\ b \in [0 .. Len(r) -> Nat] /\ b[0] = 0
      /\ \A k \in 1 .. Len(q) : a[k] = a[k - 1] + Is(q[k], e)
      /\ \A k \in 1 .. Len(r) : b[k] = b[k - 1] + Is(r[k], e)
  BY Zenon, <1>1, <1>2 DEF Counts
<1>0. /\ Len(q) \in Nat /\ Len(r) \in Nat /\ b[0] = 0
      /\ a \in [0 .. Len(q) -> Nat] /\ b \in [0 .. Len(r) -> Nat]
  BY Zenon, <1>3, <1>4
<1>a. a[Len(q)] \in Nat /\ \A k \in 0 .. Len(r) : b[k] \in Nat
  <2>1. Len(q) \in 0 .. Len(q) BY <1>0
  <2> QED BY Zenon, <1>0, <2>1
<1> HIDE DEF t
<1>5. c \in [0 .. Len(t) -> Nat]
  <2>1. ASSUME NEW k \in 0 .. Len(q) + Len(r) PROVE c[k] \in Nat
    <3>1. CASE k <= Len(q) BY <1>0, <3>1
    <3>2. CASE k > Len(q)
      <4>1. k - Len(q) \in 0 .. Len(r) BY <1>0, <3>2
      <4>2. a[Len(q)] \in Nat /\ b[k - Len(q)] \in Nat BY Zenon, <1>a, <4>1
      <4> QED BY <1>0, <3>2, <4>2
    <3> QED BY <1>0, <3>1, <3>2
  <2> QED BY Zenon, <1>3, <2>1
<1>6. c[0] = 0 BY <1>3, <1>4
<1>7. ASSUME NEW k \in 1 .. Len(t) PROVE c[k] = c[k - 1] + Is(t[k], e)
  <2>1. CASE k <= Len(q)
    <3>1. k \in 1 .. Len(q) BY <1>3, <2>1
    <3>2. c[k] = a[k] /\ c[k - 1] = a[k - 1] BY <1>3, <2>1
    <3> QED BY Zenon, <1>3, <1>4, <3>1, <3>2
  <2>2. CASE k > Len(q)
    <3>1. PICK j \in 1 .. Len(r) : j = k - Len(q) BY <1>3, <2>2
    <3>2. c[k] = a[Len(q)] + b[j] BY <1>3, <2>2, <3>1
    <3>3. c[k - 1] = a[Len(q)] + b[j - 1]
      <4>1. CASE j = 1
        <5>1. k - 1 = Len(q) /\ k - 1 \in 0 .. Len(q) + Len(r) BY <1>0, <3>1, <4>1
        <5>2. a[Len(q)] \in Nat /\ j - 1 = 0 /\ b[0] = 0 BY <1>a, <1>0, <4>1
        <5> QED BY <1>0, <5>1, <5>2
      <4>2. CASE j > 1 BY <1>3, <3>1, <4>2
      <4> QED BY <3>1, <4>1, <4>2
    <3>4. t[k] = r[j] BY <1>3, <2>2, <3>1
    <3>5. b[j] = b[j - 1] + Is(r[j], e) BY Zenon, <1>4
    <3>6. b[j - 1] \in Nat /\ a[Len(q)] \in Nat
      <4>1. j - 1 \in 0 .. Len(r) BY <1>0
      <4> QED BY Zenon, <1>a, <4>1
    <3>7. Is(r[j], e) \in Nat BY DEF Is
    <3> QED BY <3>2, <3>3, <3>4, <3>5, <3>6, <3>7
  <2> QED BY <1>3, <2>1, <2>2
<1>8. c[Len(t)] = a[Len(q)] + b[Len(r)]
  <2>1. CASE Len(r) = 0 BY <1>3, <1>4, <2>1
  <2>2. CASE Len(r) > 0 BY <1>3, <2>2
  <2> QED BY <1>3, <2>1, <2>2
<1> HIDE DEF c
<1>9. Counts(t, e, c) BY Zenon, <1>5, <1>6, <1>7 DEF Counts
<1>10. Count(t, e) = c[Len(t)] BY Zenon, <1>3, <1>9, CountIs
<1> QED BY Zenon, <1>1, <1>2, <1>8, <1>10 DEF t

\* Nothing is in the empty queue.
LEMMA CountEmpty == \A e : Count(<<>>, e) = 0
<1> SUFFICES ASSUME NEW e PROVE Count(<<>>, e) = 0 OBVIOUS
<1>1. <<>> \in Seq(Entry) /\ Len(<<>>) = 0 OBVIOUS
<1>2. PICK c : Counts(<<>>, e, c) /\ Count(<<>>, e) = c[Len(<<>>)] BY Zenon, <1>1, CountSteps
<1> QED BY Zenon, <1>1, <1>2 DEF Counts

\* One entry counts for itself.
LEMMA CountSingle ==
    ASSUME NEW d \in Entry, NEW e
    PROVE  Count(<<d>>, e) = Is(d, e)
<1> DEFINE q == <<d>>
<1>1. q \in Seq(Entry) /\ Len(q) = 1 /\ q[1] = d OBVIOUS
<1> HIDE DEF q
<1>2. PICK c : Counts(q, e, c) /\ Count(q, e) = c[Len(q)] BY Zenon, <1>1, CountSteps
<1>3. 1 \in 1 .. 1 /\ Is(d, e) \in Nat BY DEF Is
<1>4. c[0] = 0 /\ c[1] = c[1 - 1] + Is(d, e) BY Zenon, <1>1, <1>2, <1>3 DEF Counts
<1>5. c[1] = Is(d, e) BY <1>3, <1>4
<1> QED BY Zenon, <1>1, <1>2, <1>5 DEF q

\* What counts 0 and 1 mean for the entries.
LEMMA CountFew ==
    ASSUME NEW q \in Seq(Entry), NEW e
    PROVE  /\ Count(q, e) = 0 => \A i \in DOMAIN q : q[i] # e
           /\ Count(q, e) = 1 => \E i \in DOMAIN q : {j \in DOMAIN q : q[j] = e} = {i}
<1>1. PICK c : Counts(q, e, c) /\ Count(q, e) = c[Len(q)] BY Zenon, CountSteps
<1>2. /\ c \in [0 .. Len(q) -> Nat] /\ c[0] = 0 /\ Len(q) \in Nat /\ DOMAIN q = 1 .. Len(q)
      /\ \A k \in 1 .. Len(q) : c[k] = c[k - 1] + Is(q[k], e)
  BY <1>1 DEF Counts
<1> DEFINE None_(n) == \A i \in 1 .. n : q[i] # e
           One(n) == \E i \in 1 .. n : q[i] = e /\ \A j \in 1 .. n : q[j] = e => j = i
           S == {n \in Nat : n <= Len(q) => (c[n] = 0 => None_(n)) /\ (c[n] = 1 => One(n))}
<1>3. S \in SUBSET Nat /\ 0 \in S BY <1>2
<1>4. ASSUME NEW n \in S PROVE n + 1 \in S
  <2> SUFFICES ASSUME n + 1 <= Len(q)
               PROVE  (c[n + 1] = 0 => None_(n + 1)) /\ (c[n + 1] = 1 => One(n + 1))
    OBVIOUS
  <2>1. n + 1 \in 1 .. Len(q) /\ (n + 1) - 1 = n /\ n \in 0 .. Len(q) BY <1>2
  <2>2. c[n + 1] = c[n] + Is(q[n + 1], e) /\ c[n] \in Nat BY <1>2, <2>1
  <2>3. (c[n] = 0 => None_(n)) /\ (c[n] = 1 => One(n)) BY <2>1
  <2>a. n + 1 \in 1 .. n + 1 /\ \A j \in 1 .. n + 1 : j # n + 1 => j \in 1 .. n OBVIOUS
  <2>4. CASE q[n + 1] = e
    <3>1. c[n + 1] = c[n] + 1 BY <2>2, <2>4 DEF Is
    <3>2. c[n] = 0 => One(n + 1) BY Zenon, <2>3, <2>4, <2>a
    <3> QED BY <2>2, <3>1, <3>2
  <2>5. CASE q[n + 1] # e
    <3>1. c[n + 1] = c[n] BY <2>2, <2>5 DEF Is
    <3>2. None_(n) => None_(n + 1) BY Zenon, <2>5, <2>a
    <3>3. One(n) => One(n + 1)
      <4>1. \A j \in 1 .. n : j \in 1 .. n + 1 OBVIOUS
      <4> QED BY Zenon, <2>5, <2>a, <4>1
    <3> QED BY Zenon, <2>3, <3>1, <3>2, <3>3
  <2> QED BY Zenon, <2>4, <2>5
<1>5. S = Nat
  <2> HIDE DEF S
  <2> QED BY Zenon, <1>3, <1>4, NatSet
<1>6. (c[Len(q)] = 0 => None_(Len(q))) /\ (c[Len(q)] = 1 => One(Len(q))) BY <1>2, <1>5
<1>7. One(Len(q)) => \E i \in DOMAIN q : {j \in DOMAIN q : q[j] = e} = {i}
  <2>1. ASSUME NEW i \in DOMAIN q, q[i] = e, \A j \in DOMAIN q : q[j] = e => j = i
        PROVE  {j \in DOMAIN q : q[j] = e} = {i}
    BY Zenon, <2>1
  <2>2. DOMAIN q = 1 .. Len(q) BY Zenon, <1>2
  <2> QED BY Zenon, <2>1, <2>2
<1> QED BY Zenon, <1>1, <1>2, <1>6, <1>7

\* The sizes of sets with at most one element.
LEMMA CardinalityFew == Cardinality({}) = 0 /\ \A x : Cardinality({x}) = 1
<1>1. Cardinality({}) = 0
  <2> DEFINE F(g) == [T \in SUBSET {} |-> IF T = {} THEN 0 ELSE 1 + g[T \ {CHOOSE x : x \in T}]]
             C == CHOOSE g : g = F(g)
  <2>1. F([T \in SUBSET {} |-> 0]) = [T \in SUBSET {} |-> 0] BY Zenon
  <2>2. C = F(C) BY Zenon, <2>1
  <2>3. C[{}] = 0 BY Zenon, <2>2
  <2> QED BY Zenon, <2>3 DEF Cardinality
<1>2. ASSUME NEW x PROVE Cardinality({x}) = 1
  <2> DEFINE F(g) == [T \in SUBSET {x} |-> IF T = {} THEN 0 ELSE 1 + g[T \ {CHOOSE y : y \in T}]]
             C == CHOOSE g : g = F(g)
             h == [T \in SUBSET {x} |-> IF T = {} THEN 0 ELSE 1]
  <2>1. \A T \in SUBSET {x} : T # {} => T = {x} /\ T \ {CHOOSE y : y \in T} = {} BY Zenon
  <2>2. {} \in SUBSET {x} /\ {x} \in SUBSET {x} /\ {x} # {} BY Zenon
  <2>3. F(h) = h
    <3>1. ASSUME NEW T \in SUBSET {x} PROVE F(h)[T] = h[T]
      <4>1. CASE T = {} BY Zenon, <4>1
      <4>2. CASE T # {}
        <5>1. F(h)[T] = 1 + h[T \ {CHOOSE y : y \in T}] BY Zenon, <4>2
        <5>2. h[{}] = 0 /\ h[T] = 1 BY Zenon, <2>2, <4>2
        <5> QED BY <2>1, <4>2, <5>1, <5>2
      <4> QED BY Zenon, <4>1, <4>2
    <3> QED BY Zenon, <3>1
  <2>4. C = F(C) BY Zenon, <2>3
  <2>5. C[{}] = 0 BY Zenon, <2>2, <2>4
  <2>6. C[{x}] = 1 + C[{x} \ {CHOOSE y : y \in {x}}] BY Zenon, <2>2, <2>4
  <2>7. {x} \ {CHOOSE y : y \in {x}} = {} BY Zenon, <2>1, <2>2
  <2>8. C[{x}] = 1 + 0 BY Zenon, <2>5, <2>6, <2>7
  <2>9. Cardinality({x}) = C[{x}] BY Zenon DEF Cardinality
  <2> HIDE DEF C
  <2> QED BY <2>8, <2>9
<1> QED BY Zenon, <1>1, <1>2

\* The events of three queues.
Tallied(x, y, z, e) == Count(x \o y \o z, e) = Count(x, e) + Count(y, e) + Count(z, e)

LEMMA CountThree ==
    ASSUME NEW x \in Seq(Entry), NEW y \in Seq(Entry), NEW z \in Seq(Entry), NEW e
    PROVE  Tallied(x, y, z, e)
<1>1. PICK a \in Seq(Entry) : a = x \o y
  <2>1. \A u \in Seq(Entry), v \in Seq(Entry) : u \o v \in Seq(Entry) OBVIOUS
  <2> QED BY Zenon, <2>1
<1>2. Count(a \o z, e) = Count(a, e) + Count(z, e) BY ZenonT(30), CountConcat
<1>3. Count(x \o y, e) = Count(x, e) + Count(y, e) BY ZenonT(30), CountConcat
<1> QED BY Zenon, <1>1, <1>2, <1>3 DEF Tallied

\* An event appended to a queue.
LEMMA CountAppend ==
    ASSUME NEW q \in Seq(Entry), NEW d \in Entry, NEW e
    PROVE  Count(Append(q, d), e) = Count(q, e) + Is(d, e)
<1>1. Append(q, d) = q \o <<d>> /\ <<d>> \in Seq(Entry) OBVIOUS
<1>2. Count(q \o <<d>>, e) = Count(q, e) + Count(<<d>>, e) BY Zenon, <1>1, CountConcat
<1>3. Count(<<d>>, e) = Is(d, e) BY Zenon, CountSingle
<1> QED BY Zenon, <1>1, <1>2, <1>3

\* The first event of a queue taken.
LEMMA CountTail ==
    ASSUME NEW q \in Seq(Entry), q # <<>>, NEW e
    PROVE  Count(q, e) = Is(Head(q), e) + Count(Tail(q), e)
<1>1. /\ q = <<Head(q)>> \o Tail(q) /\ Head(q) \in Entry /\ Tail(q) \in Seq(Entry)
      /\ <<Head(q)>> \in Seq(Entry)
  OBVIOUS
<1>2. Count(<<Head(q)>> \o Tail(q), e) = Count(<<Head(q)>>, e) + Count(Tail(q), e)
  BY Zenon, <1>1, CountConcat
<1>3. Count(<<Head(q)>>, e) = Is(Head(q), e) BY Zenon, <1>1, CountSingle
<1> QED BY Zenon, <1>1, <1>2, <1>3

\* A queue cut in two.
LEMMA CountSplit ==
    ASSUME NEW q \in Seq(Entry), NEW n \in 0 .. Len(q), NEW e
    PROVE  /\ SubSeq(q, 1, n) \in Seq(Entry) /\ SubSeq(q, n + 1, Len(q)) \in Seq(Entry)
           /\ Len(SubSeq(q, 1, n)) = n /\ Len(SubSeq(q, n + 1, Len(q))) = Len(q) - n
           /\ Count(q, e) = Count(SubSeq(q, 1, n), e) + Count(SubSeq(q, n + 1, Len(q)), e)
<1>1. /\ SubSeq(q, 1, n) \in Seq(Entry) /\ SubSeq(q, n + 1, Len(q)) \in Seq(Entry)
      /\ Len(SubSeq(q, 1, n)) = n /\ Len(SubSeq(q, n + 1, Len(q))) = Len(q) - n
  OBVIOUS
<1>2. SubSeq(q, 1, n) \o SubSeq(q, n + 1, Len(q)) = q
  <2> DEFINE u == SubSeq(q, 1, n)
             v == SubSeq(q, n + 1, Len(q))
  <2>1. \A i \in 1 .. n : u[i] = q[i] OBVIOUS
  <2>2. \A i \in 1 .. Len(q) - n : v[i] = q[i + n] OBVIOUS
  <2>3. u \in Seq(Entry) /\ v \in Seq(Entry) /\ Len(u) = n /\ Len(v) = Len(q) - n BY Zenon, <1>1
  <2> HIDE DEF u, v
  <2>4. u \o v \in Seq(Entry) /\ Len(u \o v) = Len(q) BY <2>3
  <2>5. \A i \in 1 .. Len(q) : (u \o v)[i] = q[i]
    <3>1. \A i \in 1 .. n : (u \o v)[i] = u[i] BY <2>3
    <3>2. \A i \in n + 1 .. Len(q) : (u \o v)[i] = v[i - n] BY <2>3
    <3>3. \A i \in n + 1 .. Len(q) : i - n \in 1 .. Len(q) - n /\ (i - n) + n = i OBVIOUS
    <3>4. \A i \in n + 1 .. Len(q) : v[i - n] = q[i] BY Zenon, <2>2, <3>3
    <3>5. \A i \in 1 .. Len(q) : i \in 1 .. n \/ i \in n + 1 .. Len(q) OBVIOUS
    <3> QED BY Zenon, <2>1, <3>1, <3>2, <3>4, <3>5
  <2>6. u \o v = q
    <3>1. PICK w \in Seq(Entry) : w = u \o v BY Zenon, <2>4
    <3>2. w = [i \in 1 .. Len(w) |-> w[i]] /\ q = [i \in 1 .. Len(q) |-> q[i]] OBVIOUS
    <3>3. Len(w) = Len(q) /\ \A i \in 1 .. Len(q) : w[i] = q[i] BY Zenon, <2>4, <2>5, <3>1
    <3> QED BY Zenon, <3>1, <3>2, <3>3
  <2> QED BY Zenon, <2>6 DEF u, v
<1>3. Count(SubSeq(q, 1, n) \o SubSeq(q, n + 1, Len(q)), e)
          = Count(SubSeq(q, 1, n), e) + Count(SubSeq(q, n + 1, Len(q)), e)
  BY Zenon, <1>1, CountConcat
<1> QED BY Zenon, <1>1, <1>2, <1>3

\* The counts of the queues are numbers, in every state of the right type.
LEMMA QueuedType ==
    ASSUME TypeOK, NEW e
    PROVE  /\ mtcpq.q \in Seq(Entry) /\ usrq \in Seq(Entry) /\ shadowq \in Seq(Entry)
           /\ batch \in Seq(Entry)
           /\ Count(mtcpq.q, e) \in Nat /\ Count(usrq, e) \in Nat /\ Count(shadowq, e) \in Nat
           /\ Count(batch, e) \in Nat /\ Queued(e) \in Nat
<1>1. /\ mtcpq.q \in Seq(Entry) /\ usrq \in Seq(Entry) /\ shadowq \in Seq(Entry)
      /\ batch \in Seq(Entry)
  BY Zenon DEF TypeOK
<1>2. /\ Count(mtcpq.q, e) \in Nat /\ Count(usrq, e) \in Nat /\ Count(shadowq, e) \in Nat
      /\ Count(batch, e) \in Nat
  BY Zenon, <1>1, CountType
<1> QED BY <1>1, <1>2 DEF Queued

\* Two entries are equal when their sockets and their events are.
LEMMA EntryEq ==
    ASSUME NEW s \in Socks, NEW ev \in Events
    PROVE  \E d \in Entry :
              /\ d = [sock |-> s, ev |-> ev]
              /\ \A e \in Entry : /\ e.sock \in Socks /\ e.ev \in Events
                                  /\ d = e <=> e.sock = s /\ e.ev = ev
<1>1. /\ [sock |-> s, ev |-> ev] \in Entry
      /\ \A e \in Entry : /\ e.sock \in Socks /\ e.ev \in Events
                          /\ [sock |-> s, ev |-> ev] = e <=> e.sock = s /\ e.ev = ev
  BY DEF Entry
<1> QED BY <1>1, Zenon

-----------------------------------------------------------------------------
(* The sockets and the queues. *)

\* What a step may do to the sockets that the queues rest on: it opens none, it
\* keeps the events of those that stay in use and sends no SYN.
Keeps == 
    /\ opened' = opened
    /\ \A s \in Socks : /\ smap'[s].used => smap[s].used /\ smap'[s].events = smap[s].events
                        /\ smap'[s].tcp = "SYN_SENT" => smap[s].tcp = "SYN_SENT"

\* A step that leaves the queues and the stores alone.
LEMMA SameQueues ==
    ASSUME QueueInv, Keeps, UNCHANGED <<queues, pend, raced>>,
           \A e \in Entry : Count(batch', e) \in Nat /\ Count(batch', e) <= Count(batch, e)
    PROVE  EventsOK' /\ StackStoreOK' /\ AppStoreOK' /\ Balance'
<1>1. mtcpq' = mtcpq /\ usrq' = usrq /\ shadowq' = shadowq /\ pend' = pend /\ raced' = raced
  BY Zenon DEF queues
<1>2. \A e \in Entry : e.sock \in Socks /\ e.ev \in Events BY Zenon DEF Entry
<1>3. \A e : Queued(e)' = Queued(e) /\ Clearing("app", e)' = Clearing("app", e)
             /\ Adding("app", e)' = Adding("app", e) /\ Adding("stack", e)' = Adding("stack", e)
  BY Zenon, <1>1 DEF Queued, Clearing, Adding
<1>4. EventsOK'
  <2> SUFFICES ASSUME NEW e \in Entry, (Queued(e) + Count(batch, e) > 0)'
               PROVE  (e.sock <= opened /\ smap[e.sock].tcp # "SYN_SENT")'
    BY Zenon DEF EventsOK
  <2>1. Queued(e) \in Nat /\ Count(batch, e) \in Nat BY Zenon, QueuedType DEF QueueInv
  <2>2. Queued(e) + Count(batch, e) > 0 BY <1>3, <2>1
  <2> QED BY Zenon, <1>2, <2>2 DEF QueueInv, EventsOK, Keeps
<1>5. StackStoreOK' BY Zenon, <1>1 DEF QueueInv, StackStoreOK, Keeps
<1>6. AppStoreOK'
  <2>1. pend["app"] # NoStore => pend["app"].sock \in Socks
    BY Zenon DEF QueueInv, TypeOK, Loaded
  <2> QED BY <1>1, <2>1 DEF QueueInv, AppStoreOK, Keeps
<1>7. Balance'
  <2> SUFFICES ASSUME ~raced', NEW e \in Entry, smap'[e.sock].used
               PROVE  Balanced(e)'
    BY Zenon DEF Balance
  <2>0. ~raced BY <1>1
  <2>1. Balanced(e) BY Zenon, <2>0, <1>2 DEF QueueInv, Balance, Keeps
  <2>2. Set(e)' = Set(e) BY Zenon, <1>2 DEF Keeps, Set
  <2> QED BY Zenon, <1>3, <2>1, <2>2 DEF Balanced
<1> QED BY Zenon, <1>4, <1>5, <1>6, <1>7

\* AddEpollEvent of the stack thread: the event is queued and the bit is loaded.
LEMMA StackAdds ==
    ASSUME QueueInv, TypeOK', Keeps, UNCHANGED <<usrq, shadowq, batch, raced>>,
           NEW s \in Socks, NEW ev \in Events,
           s <= opened, smap'[s].tcp # "SYN_SENT", Ready("stack"), ev \notin smap[s].events,
           mtcpq' = [mtcpq EXCEPT !.q = Append(@, [sock |-> s, ev |-> ev])],
           Update("stack", s, {ev}, {})
    PROVE  EventsOK' /\ StackStoreOK' /\ AppStoreOK' /\ Balance'
<1>1. usrq' = usrq /\ shadowq' = shadowq /\ batch' = batch /\ raced' = raced
  BY Zenon
<1>2. PICK d \in Entry : /\ d = [sock |-> s, ev |-> ev]
                         /\ \A e \in Entry : /\ e.sock \in Socks /\ e.ev \in Events
                                             /\ d = e <=> e.sock = s /\ e.ev = ev
  BY ZenonT(30), EntryEq
<1>3. pend \in [{"app", "stack"} -> {NoStore} \cup Loaded] /\ mtcpq.q \in Seq(Entry)
      /\ mtcpq'.q = Append(mtcpq.q, d)
  BY Zenon, <1>2 DEF QueueInv, TypeOK
<1>4. /\ pend'["app"] = pend["app"] /\ pend["stack"] = NoStore /\ NoStore.sock \notin Socks
      /\ pend'["stack"] = [sock |-> s, old |-> smap[s].events, add |-> {ev}, del |-> {}]
  BY <1>3 DEF Update, Ready, NoStore, None, Socks
<1>5. \A e : Count(mtcpq'.q, e) = Count(mtcpq.q, e) + Is(d, e) /\ Is(d, e) \in Nat
  <2>1. \A e : Is(d, e) \in Nat BY Zenon DEF Is
  <2> QED BY ZenonT(30), <1>2, <1>3, <2>1, CountAppend
<1>6. \A e : /\ Count(mtcpq.q, e) \in Nat /\ Count(usrq, e) \in Nat /\ Count(shadowq, e) \in Nat
             /\ Count(batch, e) \in Nat
  BY Zenon, QueuedType DEF QueueInv
<1>7. ASSUME NEW e \in Entry PROVE Queued(e)' = Queued(e) + Is(d, e) /\ Queued(e) \in Nat
  <2>1. PICK x \in Nat, y \in Nat, z \in Nat, i \in Nat :
          x = Count(mtcpq.q, e) /\ y = Count(usrq, e) /\ z = Count(shadowq, e) /\ i = Is(d, e)
    BY Zenon, <1>5, <1>6
  <2>2. Queued(e) = x + y + z /\ Queued(e)' = (x + i) + y + z BY Zenon, <1>1, <1>5, <2>1 DEF Queued
  <2>3. (x + i) + y + z = x + y + z + i /\ x + y + z \in Nat OBVIOUS
  <2> QED BY Zenon, <2>1, <2>2, <2>3
<1>8. \A e \in Entry : /\ Clearing("app", e)' = Clearing("app", e) /\ Adding("app", e)' = Adding("app", e)
                       /\ Adding("stack", e) = 0 /\ Adding("stack", e)' = Is(d, e)
  BY SMTT(20), <1>2, <1>4 DEF Clearing, Adding, Is
<1>9. EventsOK'
  <2> SUFFICES ASSUME NEW e \in Entry, (Queued(e) + Count(batch, e) > 0)'
               PROVE  (e.sock <= opened /\ smap[e.sock].tcp # "SYN_SENT")'
    BY Zenon DEF EventsOK
  <2>1. CASE d = e
    <3>1. e.sock = s BY Zenon, <1>2, <2>1
    <3> QED BY Zenon, <3>1 DEF Keeps
  <2>2. CASE d # e
    <3>1. Queued(e) + Count(batch, e) > 0 BY <1>1, <1>7, <1>6, <2>2 DEF Is
    <3> QED BY Zenon, <3>1, <1>2 DEF QueueInv, EventsOK, Keeps
  <2> QED BY Zenon, <2>1, <2>2
<1>10. StackStoreOK'
  <2>1. Count(mtcpq'.q, d) > 0 BY <1>2, <1>5, <1>6 DEF Is
  <2> QED BY <1>2, <1>4, <2>1 DEF StackStoreOK, Keeps
<1>11. AppStoreOK'
  <2>1. pend["app"] # NoStore => pend["app"].sock \in Socks
    BY Zenon DEF QueueInv, TypeOK, Loaded
  <2> QED BY <1>1, <1>4, <2>1 DEF QueueInv, AppStoreOK, Keeps
<1>12. Balance'
  <2> SUFFICES ASSUME ~raced', NEW e \in Entry, smap'[e.sock].used
               PROVE  Balanced(e)'
    BY Zenon DEF Balance
  <2>0. ~raced BY <1>1
  <2>1. Balanced(e) BY Zenon, <2>0, <1>2 DEF QueueInv, Balance, Keeps
  <2>2. Set(e)' = Set(e) BY Zenon, <1>2 DEF Keeps, Set
  <2>3. Queued(e) \in Nat /\ Clearing("app", e) \in Nat /\ Set(e) \in Nat /\ Adding("app", e) \in Nat /\ Is(d, e) \in Nat
    BY Zenon, <1>7 DEF Clearing, Set, Adding, Is
  <2> QED BY <1>7, <1>8, <2>1, <2>2, <2>3 DEF Balanced
<1> QED BY Zenon, <1>9, <1>10, <1>11, <1>12

\* AddEpollEvent of the application thread, into usr_shadow_queue.
LEMMA AppAdds ==
    ASSUME QueueInv, TypeOK', Keeps, UNCHANGED <<mtcpq, usrq, batch, raced>>,
           NEW s \in Socks, NEW ev \in Events,
           s <= opened, smap'[s].tcp # "SYN_SENT", Ready("app"), ev \notin smap[s].events,
           shadowq' = Append(shadowq, [sock |-> s, ev |-> ev]),
           Update("app", s, {ev}, {})
    PROVE  EventsOK' /\ StackStoreOK' /\ AppStoreOK' /\ Balance'
<1>1. mtcpq' = mtcpq /\ usrq' = usrq /\ batch' = batch /\ raced' = raced
  BY Zenon
<1>2. PICK d \in Entry : /\ d = [sock |-> s, ev |-> ev]
                         /\ \A e \in Entry : /\ e.sock \in Socks /\ e.ev \in Events
                                             /\ d = e <=> e.sock = s /\ e.ev = ev
  BY ZenonT(30), EntryEq
<1>3. pend \in [{"app", "stack"} -> {NoStore} \cup Loaded] /\ shadowq \in Seq(Entry)
      /\ shadowq' = Append(shadowq, d)
  BY Zenon, <1>2 DEF QueueInv, TypeOK
<1>4. /\ pend'["stack"] = pend["stack"] /\ pend["app"] = NoStore /\ NoStore.sock \notin Socks
      /\ pend'["app"] = [sock |-> s, old |-> smap[s].events, add |-> {ev}, del |-> {}]
  BY <1>3 DEF Update, Ready, NoStore, None, Socks
<1>5. \A e : Count(shadowq', e) = Count(shadowq, e) + Is(d, e) /\ Is(d, e) \in Nat
  <2>1. \A e : Is(d, e) \in Nat BY Zenon DEF Is
  <2> QED BY ZenonT(30), <1>2, <1>3, <2>1, CountAppend
<1>6. \A e : /\ Count(mtcpq.q, e) \in Nat /\ Count(usrq, e) \in Nat /\ Count(shadowq, e) \in Nat
             /\ Count(batch, e) \in Nat
  BY Zenon, QueuedType DEF QueueInv
<1>7. ASSUME NEW e \in Entry PROVE Queued(e)' = Queued(e) + Is(d, e) /\ Queued(e) \in Nat
  <2>1. PICK x \in Nat, y \in Nat, z \in Nat, i \in Nat :
          x = Count(mtcpq.q, e) /\ y = Count(usrq, e) /\ z = Count(shadowq, e) /\ i = Is(d, e)
    BY Zenon, <1>5, <1>6
  <2>2. Queued(e) = x + y + z /\ Queued(e)' = x + y + (z + i) BY Zenon, <1>1, <1>5, <2>1 DEF Queued
  <2>3. x + y + (z + i) = x + y + z + i /\ x + y + z \in Nat OBVIOUS
  <2> QED BY Zenon, <2>1, <2>2, <2>3
<1>8. \A e \in Entry : /\ Clearing("app", e) = 0 /\ Clearing("app", e)' = 0
                       /\ Adding("stack", e)' = Adding("stack", e)
                       /\ Adding("app", e) = 0 /\ Adding("app", e)' = Is(d, e)
  BY SMTT(20), <1>2, <1>4 DEF Clearing, Adding, Is
<1>9. EventsOK'
  <2> SUFFICES ASSUME NEW e \in Entry, (Queued(e) + Count(batch, e) > 0)'
               PROVE  (e.sock <= opened /\ smap[e.sock].tcp # "SYN_SENT")'
    BY Zenon DEF EventsOK
  <2>1. CASE d = e
    <3>1. e.sock = s BY Zenon, <1>2, <2>1
    <3> QED BY Zenon, <3>1 DEF Keeps
  <2>2. CASE d # e
    <3>1. Queued(e) + Count(batch, e) > 0 BY <1>1, <1>7, <1>6, <2>2 DEF Is
    <3> QED BY Zenon, <3>1, <1>2 DEF QueueInv, EventsOK, Keeps
  <2> QED BY Zenon, <2>1, <2>2
<1>10. StackStoreOK'
  BY Zenon, <1>1, <1>4 DEF QueueInv, StackStoreOK, Keeps
<1>11. AppStoreOK'
  BY <1>4 DEF AppStoreOK, Keeps
<1>12. Balance'
  <2> SUFFICES ASSUME ~raced', NEW e \in Entry, smap'[e.sock].used
               PROVE  Balanced(e)'
    BY Zenon DEF Balance
  <2>0. ~raced BY <1>1
  <2>1. Balanced(e) BY Zenon, <2>0, <1>2 DEF QueueInv, Balance, Keeps
  <2>2. Set(e)' = Set(e) BY Zenon, <1>2 DEF Keeps, Set
  <2>3. Queued(e) \in Nat /\ Set(e) \in Nat /\ Adding("stack", e) \in Nat /\ Is(d, e) \in Nat
    BY Zenon, <1>7 DEF Set, Adding, Is
  <2> QED BY <1>7, <1>8, <2>1, <2>2, <2>3 DEF Balanced
<1> QED BY Zenon, <1>9, <1>10, <1>11, <1>12

\* FlushEpollEvents moves events from one queue to another.
LEMMA FlushMoves ==
    ASSUME QueueInv, FlushEpollEvents
    PROVE  /\ EventsOK' /\ StackStoreOK' /\ AppStoreOK' /\ Balance'
           /\ mtcpq'.q \in Seq(Entry) /\ Len(mtcpq'.q) < Size
           /\ usrq' \in Seq(Entry) /\ Len(usrq') < Size
<1>1. PICK n \in 1 .. Size : /\ Fits(n) /\ Ready("stack")
                             /\ usrq' = usrq \o SubSeq(mtcpq.q, 1, n)
                             /\ mtcpq'.q = SubSeq(mtcpq.q, n + 1, Len(mtcpq.q))
                             /\ UNCHANGED <<packets, app, smap, shadowq, pend, ghosts>>
  <2>1. PICK n \in 1 .. Size :
          /\ Fits(n) /\ Ready("stack")
          /\ usrq' = usrq \o SubSeq(mtcpq.q, 1, n)
          /\ mtcpq' = [start |-> (mtcpq.start + n) % Size, q |-> SubSeq(mtcpq.q, n + 1, Len(mtcpq.q))]
          /\ UNCHANGED <<packets, app, smap, shadowq, pend, ghosts>>
    BY Zenon DEF FlushEpollEvents
  <2>2. mtcpq'.q = SubSeq(mtcpq.q, n + 1, Len(mtcpq.q)) BY Zenon, <2>1
  <2> QED BY Zenon, <2>1, <2>2
<1>2. /\ batch' = batch /\ opened' = opened /\ smap' = smap /\ shadowq' = shadowq /\ pend' = pend
      /\ raced' = raced
  BY Zenon, <1>1 DEF app, ghosts
<1>3. mtcpq.q \in Seq(Entry) /\ usrq \in Seq(Entry) /\ Len(mtcpq.q) < Size /\ Len(usrq) < Size
      /\ Size \in Nat
  BY MtcpBounds DEF QueueInv, TypeOK, Size
<1>4. n \in 0 .. Len(mtcpq.q) /\ Len(usrq) + n < Size BY <1>1, <1>3 DEF Fits
<1> DEFINE u == SubSeq(mtcpq.q, 1, n)
           v == SubSeq(mtcpq.q, n + 1, Len(mtcpq.q))
<1>5. /\ u \in Seq(Entry) /\ v \in Seq(Entry) /\ Len(u) = n /\ Len(v) = Len(mtcpq.q) - n
      /\ \A e : Count(mtcpq.q, e) = Count(u, e) + Count(v, e)
  <2>1. /\ u \in Seq(Entry) /\ v \in Seq(Entry) /\ Len(u) = n /\ Len(v) = Len(mtcpq.q) - n
    BY Zenon, <1>3, <1>4, CountSplit
  <2>2. ASSUME NEW e PROVE Count(mtcpq.q, e) = Count(u, e) + Count(v, e)
    <3>1. PICK q \in Seq(Entry) : q = mtcpq.q BY Zenon, <1>3
    <3>2. n \in 0 .. Len(q) BY Zenon, <1>4, <3>1
    <3>3. Count(q, e) = Count(SubSeq(q, 1, n), e) + Count(SubSeq(q, n + 1, Len(q)), e)
      BY Zenon, <3>2, CountSplit
    <3> QED BY Zenon, <3>1, <3>3
  <2> QED BY Zenon, <2>1, <2>2
<1> HIDE DEF u, v
<1>6. usrq' = usrq \o u /\ mtcpq'.q = v BY Zenon, <1>1 DEF u, v
<1>7. \A e : Count(usrq', e) = Count(usrq, e) + Count(u, e) BY Zenon, <1>3, <1>5, <1>6, CountConcat
<1>8. \A e : Count(u, e) \in Nat /\ Count(v, e) \in Nat /\ Count(usrq, e) \in Nat
             /\ Count(shadowq, e) \in Nat
  BY Zenon, <1>5, CountType, QueuedType DEF QueueInv
<1>9. \A e : Queued(e)' = Queued(e) BY <1>2, <1>5, <1>6, <1>7, <1>8 DEF Queued
<1>10. usrq' \in Seq(Entry) /\ Len(usrq') < Size /\ mtcpq'.q \in Seq(Entry) /\ Len(mtcpq'.q) < Size
  BY <1>3, <1>4, <1>5, <1>6
<1>11. EventsOK' BY Zenon, <1>2, <1>9 DEF QueueInv, EventsOK
<1>12. StackStoreOK' BY Zenon, <1>1, <1>2 DEF StackStoreOK, Ready
<1>13. AppStoreOK' BY Zenon, <1>2 DEF QueueInv, AppStoreOK
<1>14. Balance'
  <2> SUFFICES ASSUME ~raced', NEW e \in Entry, smap'[e.sock].used
               PROVE  Balanced(e)'
    BY Zenon DEF Balance
  <2>0. ~raced BY Zenon, <1>2
  <2>1. Balanced(e) BY Zenon, <1>2, <2>0 DEF QueueInv, Balance
  <2> QED BY Zenon, <1>2, <1>9, <2>1 DEF Balanced, Set, Adding, Clearing
<1> QED BY Zenon, <1>10, <1>11, <1>12, <1>13, <1>14

\* What mtcp_epoll_wait takes off its queues, and what it hands on.
Takes(d) ==
    /\ Count(usrq, d) + Count(shadowq, d) > 0
    /\ \A e : /\ Count(usrq', e) \in Nat /\ Count(shadowq', e) \in Nat
              /\ Count(usrq', e) + Count(shadowq', e) + Is(d, e) = Count(usrq, e) + Count(shadowq, e)
    /\ \/ batch' = batch
       \/ smap[d.sock].used /\ smap[d.sock].epoll /\ batch' = Append(batch, d)
    /\ usrq' \in Seq(Entry) /\ shadowq' \in Seq(Entry) /\ Len(usrq') < Size /\ Len(shadowq') < Size
    /\ batch' \in Seq(Entry)
    /\ Update("app", d.sock, {}, {d.ev})

\* Fetch takes one event.
LEMMA FetchTakes ==
    ASSUME TypeOK, Fetch
    PROVE  \E d \in Entry : Takes(d)
<1>1. usrq \in Seq(Entry) /\ shadowq \in Seq(Entry) /\ batch \in Seq(Entry)
      /\ Len(usrq) < Size /\ Len(shadowq) < Size /\ Size \in Nat
  BY MtcpBounds DEF TypeOK, Size
<1> DEFINE d == Head(usrq \o shadowq)
<1>2. /\ usrq \o shadowq # <<>>
      /\ IF usrq # <<>> THEN usrq' = Tail(usrq) /\ UNCHANGED shadowq
                        ELSE shadowq' = Tail(shadowq) /\ UNCHANGED usrq
      /\ \/ batch' = batch
         \/ smap[d.sock].used /\ smap[d.sock].epoll /\ batch' = Append(batch, d)
      /\ Update("app", d.sock, {}, {d.ev})
  BY Zenon DEF Fetch
<1>3. \A e : Count(usrq, e) \in Nat /\ Count(shadowq, e) \in Nat /\ Is(d, e) \in Nat
  <2>1. \A e : Count(usrq, e) \in Nat /\ Count(shadowq, e) \in Nat BY Zenon, QueuedType
  <2> QED BY Zenon, <2>1 DEF Is
<1>4. Is(d, d) = 1 BY Zenon DEF Is
<1>5. CASE usrq # <<>>
  <2>1. d = Head(usrq) /\ d \in Entry /\ usrq' = Tail(usrq) /\ shadowq' = shadowq
    BY <1>1, <1>2, <1>5
  <2> HIDE DEF d
  <2>2. \A e : Count(usrq, e) = Is(d, e) + Count(usrq', e) BY Zenon, <1>1, <1>5, <2>1, CountTail
  <2>3. usrq' \in Seq(Entry) /\ Len(usrq') < Size BY <1>1, <1>5, <2>1
  <2>4. \A e : Count(usrq', e) \in Nat BY Zenon, <2>3, CountType
  <2>5. Append(batch, d) \in Seq(Entry) BY <1>1, <2>1
  <2>6. Count(usrq, d) + Count(shadowq, d) > 0 BY <1>3, <1>4, <2>2, <2>4
  <2>7. \A e : Count(usrq', e) + Count(shadowq', e) + Is(d, e) = Count(usrq, e) + Count(shadowq, e)
    BY <1>3, <2>1, <2>2, <2>4
  <2>8. Takes(d) BY Zenon, <1>1, <1>2, <1>3, <2>1, <2>3, <2>4, <2>5, <2>6, <2>7 DEF Takes
  <2> QED BY Zenon, <2>1, <2>8
<1>6. CASE usrq = <<>>
  <2>1. d = Head(shadowq) /\ shadowq # <<>> /\ d \in Entry /\ shadowq' = Tail(shadowq) /\ usrq' = usrq
    BY <1>1, <1>2, <1>6
  <2> HIDE DEF d
  <2>2. \A e : Count(shadowq, e) = Is(d, e) + Count(shadowq', e) BY Zenon, <1>1, <2>1, CountTail
  <2>3. shadowq' \in Seq(Entry) /\ Len(shadowq') < Size BY <1>1, <2>1
  <2>4. \A e : Count(shadowq', e) \in Nat BY Zenon, <2>3, CountType
  <2>5. Append(batch, d) \in Seq(Entry) BY <1>1, <2>1
  <2>6. Count(usrq, d) + Count(shadowq, d) > 0 BY <1>3, <1>4, <2>2, <2>4
  <2>7. \A e : Count(usrq', e) + Count(shadowq', e) + Is(d, e) = Count(usrq, e) + Count(shadowq, e)
    BY <1>3, <2>1, <2>2, <2>4
  <2>8. Takes(d) BY Zenon, <1>1, <1>2, <1>3, <2>1, <2>3, <2>4, <2>5, <2>6, <2>7 DEF Takes
  <2> QED BY Zenon, <2>1, <2>8
<1> QED BY Zenon, <1>5, <1>6

\* Fetch keeps the account: what it takes is a bit that it is about to clear.
LEMMA FetchMoves ==
    ASSUME QueueInv, TypeOK', Ready("app"), NEW d \in Entry, Takes(d),
           UNCHANGED <<mtcpq, smap, opened, raced>>
    PROVE  EventsOK' /\ StackStoreOK' /\ AppStoreOK' /\ Balance'
<1>1. mtcpq' = mtcpq /\ smap' = smap /\ opened' = opened /\ raced' = raced
  BY Zenon
<1>2. /\ d.sock \in Socks /\ d.ev \in Events
      /\ \A e \in Entry : e.sock \in Socks /\ (d = e <=> e.sock = d.sock /\ e.ev = d.ev)
  BY DEF Entry
<1>3. pend \in [{"app", "stack"} -> {NoStore} \cup Loaded] /\ batch \in Seq(Entry)
  BY Zenon DEF QueueInv, TypeOK
<1>4. /\ pend'["stack"] = pend["stack"] /\ pend["app"] = NoStore /\ NoStore.sock \notin Socks
      /\ pend'["app"] = [sock |-> d.sock, old |-> smap[d.sock].events, add |-> {}, del |-> {d.ev}]
  BY <1>3 DEF Takes, Update, Ready, NoStore, None, Socks
<1>5. \A e : /\ Count(mtcpq.q, e) \in Nat /\ Count(usrq, e) \in Nat /\ Count(shadowq, e) \in Nat
             /\ Count(batch, e) \in Nat
  BY Zenon, QueuedType DEF QueueInv
<1>6. \A e : Is(d, e) \in Nat BY Zenon DEF Is
<1>7. \A e : /\ Count(usrq', e) \in Nat /\ Count(shadowq', e) \in Nat
             /\ Count(usrq', e) + Count(shadowq', e) + Is(d, e) = Count(usrq, e) + Count(shadowq, e)
  BY Zenon DEF Takes
<1>8. \A e : Queued(e)' + Is(d, e) = Queued(e) /\ Queued(e)' \in Nat /\ Queued(e) \in Nat
  BY <1>1, <1>5, <1>6, <1>7 DEF Queued
<1>9. \A e \in Entry : /\ Clearing("app", e) = 0 /\ Clearing("app", e)' = Is(d, e)
                       /\ Adding("stack", e)' = Adding("stack", e)
                       /\ Adding("app", e) = 0 /\ Adding("app", e)' = 0
  BY SMTT(20), <1>2, <1>4 DEF Clearing, Adding, Is
<1>10. EventsOK'
  <2> SUFFICES ASSUME NEW e \in Entry, (Queued(e) + Count(batch, e) > 0)'
               PROVE  (e.sock <= opened /\ smap[e.sock].tcp # "SYN_SENT")'
    BY Zenon DEF EventsOK
  <2>1. Count(batch', e) = Count(batch, e) \/ Count(batch', e) = Count(batch, e) + Is(d, e)
    <3>1. Count(Append(batch, d), e) = Count(batch, e) + Is(d, e) BY Zenon, <1>3, CountAppend
    <3> QED BY Zenon, <3>1 DEF Takes
  <2>2. Queued(e) + Count(batch, e) > 0 BY <1>5, <1>6, <1>8, <2>1
  <2> QED BY Zenon, <1>1, <2>2 DEF QueueInv, EventsOK
<1>11. StackStoreOK' BY Zenon, <1>1, <1>4 DEF QueueInv, StackStoreOK
<1>12. Queued(d) > 0 /\ (Adding("stack", d) = 1 => Queued(d) > 1) /\ Adding("stack", d) \in {0, 1}
  <2>1. Count(usrq, d) + Count(shadowq, d) > 0 BY Zenon DEF Takes
  <2>2. ASSUME Adding("stack", d) = 1 PROVE Count(mtcpq.q, d) > 0
    <3>1. pend["stack"].sock = d.sock /\ d.ev \in pend["stack"].add BY <2>2 DEF Adding
    <3>2. pend["stack"] # NoStore BY Zenon, <1>2, <1>4, <3>1
    <3>3. PICK ev \in Events : /\ pend["stack"].add = {ev}
                               /\ Count(mtcpq.q, [sock |-> pend["stack"].sock, ev |-> ev]) > 0
      BY Zenon, <3>2 DEF QueueInv, StackStoreOK
    <3>4. ev = d.ev BY Zenon, <3>1, <3>3
    <3>5. d = [sock |-> d.sock, ev |-> d.ev] BY Zenon DEF Entry
    <3> QED BY Zenon, <3>1, <3>3, <3>4, <3>5
  <2> QED BY <1>5, <2>1, <2>2 DEF Queued, Adding
<1>13. AppStoreOK'
  <2>1. ASSUME ~raced, smap[d.sock].used PROVE d.ev \in smap[d.sock].events
    <3>1. Balanced(d) BY Zenon, <2>1 DEF QueueInv, Balance
    <3>2. Set(d) > 0 BY <1>8, <1>9, <1>12, <3>1 DEF Balanced, Set
    <3> QED BY <3>2 DEF Set
  <2>2. d.sock <= opened
    <3>1. Queued(d) + Count(batch, d) > 0 BY <1>5, <1>8, <1>12
    <3> QED BY Zenon, <3>1 DEF QueueInv, EventsOK
  <2> QED BY <1>1, <1>2, <1>4, <2>1, <2>2 DEF AppStoreOK
<1>14. Balance'
  <2> SUFFICES ASSUME ~raced', NEW e \in Entry, smap'[e.sock].used
               PROVE  Balanced(e)'
    BY Zenon DEF Balance
  <2>0. ~raced BY <1>1
  <2>1. Balanced(e) BY Zenon, <1>1, <2>0 DEF QueueInv, Balance
  <2>2. Set(e)' = Set(e) BY Zenon, <1>1 DEF Set
  <2>3. Set(e) \in Nat /\ Adding("stack", e) \in Nat BY Zenon DEF Set, Adding
  <2> QED BY <1>6, <1>8, <1>9, <2>1, <2>2, <2>3 DEF Balanced
<1> QED BY Zenon, <1>10, <1>11, <1>13, <1>14

\* A store that undoes nothing makes the update that was announced.
LEMMA StoreMoves ==
    ASSUME QueueInv, NEW t \in {"app", "stack"}, Store(t)
    PROVE  EventsOK' /\ StackStoreOK' /\ AppStoreOK' /\ Balance'
<1>1. /\ mtcpq' = mtcpq /\ usrq' = usrq /\ shadowq' = shadowq /\ batch' = batch /\ opened' = opened
      /\ pend' = [pend EXCEPT ![t] = NoStore] /\ pend[t] # NoStore
  BY Zenon DEF Store, app, queues
<1>2. pend \in [{"app", "stack"} -> {NoStore} \cup Loaded] /\ smap \in [Socks -> Socket]
  BY Zenon DEF QueueInv, TypeOK
<1>3. PICK s \in Socks, old \in SUBSET Events, add \in SUBSET Events, del \in SUBSET Events :
          pend[t].sock = s /\ pend[t].old = old /\ pend[t].add = add /\ pend[t].del = del
  BY Zenon, <1>1, <1>2 DEF Loaded
<1>4. PICK loaded \in {old, smap[s].events} :
          smap' = [smap EXCEPT ![s].events = (loaded \cup add) \ del]
  BY Zenon, <1>3 DEF Store
<1>5. raced' = (raced \/ smap[s].events # old) BY Zenon, <1>3 DEF Store
<1>6. \A x \in Socks : /\ smap'[x].used = smap[x].used /\ smap'[x].tcp = smap[x].tcp
                       /\ x # s => smap'[x].events = smap[x].events
                       /\ x = s => smap'[x].events = (loaded \cup add) \ del
  BY ZenonT(60), <1>2, <1>4 DEF Socket
<1>7. \A e \in Entry : e.sock \in Socks /\ e.ev \in Events BY Zenon DEF Entry
<1>8. \A e : Queued(e)' = Queued(e) BY Zenon, <1>1 DEF Queued
<1>9. EventsOK' BY Zenon, <1>1, <1>6, <1>7, <1>8 DEF QueueInv, EventsOK
<1>10. ~raced' => ~raced /\ smap[s].events = old /\ loaded = old BY Zenon, <1>4, <1>5
<1>11. pend'[t] = NoStore /\ \A u \in {"app", "stack"} : u # t => pend'[u] = pend[u]
  BY Zenon, <1>1, <1>2
<1>12. StackStoreOK'
  <2>1. CASE t = "stack" BY Zenon, <1>11, <2>1 DEF StackStoreOK
  <2>2. CASE t = "app"
    <3>1. pend'["stack"] = pend["stack"] BY Zenon, <1>11, <2>2
    <3> QED BY Zenon, <1>1, <3>1 DEF QueueInv, StackStoreOK
  <2> QED BY Zenon, <2>1, <2>2
<1>13. AppStoreOK'
  <2>1. CASE t = "app" BY Zenon, <1>11, <2>1 DEF AppStoreOK
  <2>2. CASE t = "stack"
    <3>1. pend'["app"] = pend["app"] BY Zenon, <1>11, <2>2
    <3>2. pend["app"] # NoStore => pend["app"].sock \in Socks BY Zenon, <1>2 DEF Loaded
    <3> QED BY Zenon, <1>1, <1>6, <1>10, <3>1, <3>2 DEF QueueInv, AppStoreOK
  <2> QED BY Zenon, <2>1, <2>2
<1>14. Balance'
  <2> SUFFICES ASSUME ~raced', NEW e \in Entry, smap'[e.sock].used
               PROVE  Balanced(e)'
    BY Zenon DEF Balance
  <2>0. ~raced /\ smap[s].events = old /\ loaded = old BY Zenon, <1>10
  <2>1. Balanced(e) BY Zenon, <1>6, <1>7, <2>0 DEF QueueInv, Balance
  <2>2. e.sock \in Socks /\ e.ev \in Events /\ NoStore.sock # e.sock
    BY <1>7 DEF NoStore, None, Socks
  <2>3. Queued(e) \in Nat /\ Set(e) \in Nat /\ Adding("app", e) \in Nat /\ Adding("stack", e) \in Nat
        /\ Clearing("app", e) \in Nat
    <3>1. Queued(e) \in Nat BY Zenon, QueuedType DEF QueueInv
    <3> QED BY Zenon, <3>1 DEF Set, Adding, Clearing
  <2>4. CASE t = "stack"
    <3>1. add \cap old = {} /\ del = {}
      <4>1. PICK ev \in Events : /\ pend["stack"].add = {ev} /\ pend["stack"].del = {}
                                 /\ ev \notin pend["stack"].old
        BY Zenon, <1>1, <2>4 DEF QueueInv, StackStoreOK
      <4> QED BY Zenon, <1>3, <2>4, <4>1
    <3>2. /\ Adding("app", e)' = Adding("app", e) /\ Clearing("app", e)' = Clearing("app", e)
      BY Zenon, <1>11, <2>4 DEF Adding, Clearing
    <3>3. Adding("stack", e)' = 0 BY Zenon, <1>11, <2>2, <2>4 DEF Adding
    <3>4. Set(e)' = Set(e) + Adding("stack", e)
      <4>1. CASE e.sock = s
        <5>1. smap'[e.sock].events = old \cup add BY ZenonT(30), <1>6, <2>0, <2>2, <3>1, <4>1
        <5>2. Adding("stack", e) = IF e.ev \in add THEN 1 ELSE 0 BY Zenon, <1>3, <2>4, <4>1 DEF Adding
        <5>3. Set(e) = IF e.ev \in old THEN 1 ELSE 0 BY Zenon, <2>0, <4>1 DEF Set
        <5>4. Set(e)' = IF e.ev \in old \cup add THEN 1 ELSE 0 BY Zenon, <5>1 DEF Set
        <5> QED BY <3>1, <5>2, <5>3, <5>4
      <4>2. CASE e.sock # s
        <5>1. Set(e)' = Set(e) BY Zenon, <1>6, <2>2, <4>2 DEF Set
        <5>2. Adding("stack", e) = 0 BY Zenon, <1>3, <2>4, <4>2 DEF Adding
        <5> QED BY <2>3, <5>1, <5>2
      <4> QED BY Zenon, <4>1, <4>2
    <3> QED BY <1>8, <2>1, <2>3, <3>2, <3>3, <3>4 DEF Balanced
  <2>5. CASE t = "app"
    <3>1. add \cap old = {} /\ (e.sock = s => del \subseteq old) /\ add \cap del = {}
      <4>1. PICK ev \in Events :
                \/ pend["app"].add = {ev} /\ pend["app"].del = {} /\ ev \notin pend["app"].old
                \/ /\ pend["app"].add = {} /\ pend["app"].del = {ev}
                   /\ ~raced /\ smap[pend["app"].sock].used => ev \in pend["app"].old
        BY Zenon, <1>1, <2>5 DEF QueueInv, AppStoreOK
      <4>2. e.sock = s => smap[s].used BY Zenon, <1>6
      <4> QED BY Zenon, <1>3, <2>0, <2>5, <4>1, <4>2
    <3>2. /\ Adding("stack", e)' = Adding("stack", e)
      BY Zenon, <1>11, <2>5 DEF Adding
    <3>3. Adding("app", e)' = 0 /\ Clearing("app", e)' = 0 BY Zenon, <1>11, <2>2, <2>5 DEF Adding, Clearing
    <3>4. Set(e)' + Clearing("app", e) = Set(e) + Adding("app", e)
      <4>1. CASE e.sock = s
        <5>1. smap'[e.sock].events = (old \cup add) \ del BY Zenon, <1>6, <2>0, <2>2, <4>1
        <5>2. Adding("app", e) = IF e.ev \in add THEN 1 ELSE 0 BY Zenon, <1>3, <2>5, <4>1 DEF Adding
        <5>3. Clearing("app", e) = IF e.ev \in del THEN 1 ELSE 0 BY Zenon, <1>3, <2>5, <4>1 DEF Clearing
        <5>4. Set(e) = IF e.ev \in old THEN 1 ELSE 0 BY Zenon, <2>0, <4>1 DEF Set
        <5>5. Set(e)' = IF e.ev \in (old \cup add) \ del THEN 1 ELSE 0 BY Zenon, <5>1 DEF Set
        <5> QED BY <3>1, <4>1, <5>2, <5>3, <5>4, <5>5
      <4>2. CASE e.sock # s
        <5>1. Set(e)' = Set(e) BY Zenon, <1>6, <2>2, <4>2 DEF Set
        <5>2. Adding("app", e) = 0 /\ Clearing("app", e) = 0 BY Zenon, <1>3, <2>5, <4>2 DEF Adding, Clearing
        <5> QED BY Zenon, <2>3, <5>1, <5>2
      <4> QED BY Zenon, <4>1, <4>2
    <3>5. Set(e)' \in Nat BY Zenon DEF Set
    <3> QED BY <1>8, <2>1, <2>3, <3>2, <3>3, <3>4, <3>5 DEF Balanced
  <2> QED BY Zenon, <2>4, <2>5
<1> QED BY Zenon, <1>9, <1>12, <1>13, <1>14

\* A socket that is opened has no event and no store on its way.
LEMMA OpensNew ==
    ASSUME QueueInv, NEW s \in Socks, Opens(s), NEW str \in Socket,
           smap' = [smap EXCEPT ![s] = str], str.events = {},
           UNCHANGED <<queues, pend, raced, batch>>
    PROVE  EventsOK' /\ StackStoreOK' /\ AppStoreOK' /\ Balance'
<1>1. mtcpq' = mtcpq /\ usrq' = usrq /\ shadowq' = shadowq /\ pend' = pend /\ raced' = raced
      /\ batch' = batch
  BY Zenon DEF queues
<1>2. s = opened + 1 /\ opened' = s /\ opened \in Nat BY DEF Opens, QueueInv, TypeOK
<1>3. smap \in [Socks -> Socket] BY Zenon DEF QueueInv, TypeOK
<1>4. smap'[s] = str /\ \A x \in Socks : x # s => smap'[x] = smap[x] BY Zenon, <1>3
<1>5. \A e \in Entry : e.sock \in Socks /\ e.sock \in Nat BY DEF Entry, Socks
<1>6. \A e : /\ Queued(e)' = Queued(e) /\ Clearing("app", e)' = Clearing("app", e)
             /\ Adding("app", e)' = Adding("app", e) /\ Adding("stack", e)' = Adding("stack", e)
  BY Zenon, <1>1 DEF Queued, Clearing, Adding
<1>7. \A e \in Entry : Queued(e) \in Nat /\ Count(batch, e) \in Nat BY Zenon, QueuedType DEF QueueInv
<1>8. \A e \in Entry : e.sock = s => Queued(e) = 0 /\ Count(batch, e) = 0
  <2> SUFFICES ASSUME NEW e \in Entry, e.sock = s PROVE ~(Queued(e) + Count(batch, e) > 0)
    BY <1>7
  <2>1. ~(e.sock <= opened) BY <1>2
  <2> QED BY Zenon, <2>1 DEF QueueInv, EventsOK
<1>9. \A t \in {"app", "stack"} : pend[t].sock # s
  <2>1. ASSUME NEW t \in {"app", "stack"} PROVE pend[t] = NoStore \/ pend[t].sock <= opened
    BY Zenon DEF QueueInv, StackStoreOK, AppStoreOK
  <2> QED BY <1>2, <2>1 DEF NoStore, None
<1>10. EventsOK'
  <2> SUFFICES ASSUME NEW e \in Entry, (Queued(e) + Count(batch, e) > 0)'
               PROVE  (e.sock <= opened /\ smap[e.sock].tcp # "SYN_SENT")'
    BY Zenon DEF EventsOK
  <2>1. Queued(e) + Count(batch, e) > 0 BY Zenon, <1>1, <1>6
  <2>2. e.sock <= opened /\ smap[e.sock].tcp # "SYN_SENT" BY Zenon, <2>1 DEF QueueInv, EventsOK
  <2>3. e.sock # s /\ e.sock <= opened' BY <1>2, <1>5, <2>2
  <2> QED BY Zenon, <1>4, <1>5, <2>2, <2>3
<1>11. StackStoreOK'
  <2>1. \A x \in Int : x <= opened => x <= opened' BY <1>2
  <2>2. pend["stack"] # NoStore => pend["stack"].sock \in Int
    BY DEF QueueInv, TypeOK, Loaded, Socks
  <2> QED BY Zenon, <1>1, <2>1, <2>2 DEF QueueInv, StackStoreOK
<1>12. AppStoreOK'
  <2>1. \A x \in Int : x <= opened => x <= opened' BY <1>2
  <2>2. pend["app"] # NoStore => pend["app"].sock \in Int /\ pend["app"].sock \in Socks
    BY DEF QueueInv, TypeOK, Loaded, Socks
  <2>3. pend["app"] # NoStore => smap'[pend["app"].sock] = smap[pend["app"].sock]
    BY Zenon, <1>4, <1>9, <2>2
  <2> QED BY <1>1, <2>1, <2>2, <2>3 DEF QueueInv, AppStoreOK
<1>13. Balance'
  <2> SUFFICES ASSUME ~raced', NEW e \in Entry, smap'[e.sock].used
               PROVE  Balanced(e)'
    BY Zenon DEF Balance
  <2>1. CASE e.sock = s
    <3>1. Set(e)' = 0 BY Zenon, <1>4, <2>1 DEF Set
    <3>2. Adding("app", e) = 0 /\ Adding("stack", e) = 0 /\ Clearing("app", e) = 0
      BY Zenon, <1>9, <2>1 DEF Adding, Clearing
    <3> QED BY <1>6, <1>8, <2>1, <3>1, <3>2 DEF Balanced
  <2>2. CASE e.sock # s
    <3>0. ~raced BY <1>1
    <3>1. smap'[e.sock] = smap[e.sock] BY Zenon, <1>4, <1>5, <2>2
    <3>2. Balanced(e) BY Zenon, <3>0, <3>1 DEF QueueInv, Balance
    <3>3. Set(e)' = Set(e) BY Zenon, <3>1 DEF Set
    <3> QED BY Zenon, <1>6, <3>2, <3>3 DEF Balanced
  <2> QED BY Zenon, <2>1, <2>2
<1> QED BY Zenon, <1>10, <1>11, <1>12, <1>13

\* What a packet or a timeout does to the socket and the stream it is for.
Streams(s, str) ==
    /\ str.used = smap[s].used /\ str.epoll = smap[s].epoll /\ str.events = smap[s].events
    /\ str.tcp \notin {"NONE", "SYN_SENT"} /\ str.merged_len <= packets + 1
    /\ smap[s].reason # "NOT_CLOSED" => str.reason # "NOT_CLOSED"

PacketFor(s, ev, str) ==
    /\ Streams(s, str) /\ Raise(s, ev, str) /\ Ready("stack")
    /\ smap[s].tcp # "NONE" /\ packets < MaxPackets

\* Every handler changes one stream and raises one event.
LEMMA PacketShape ==
    ASSUME QueueInv, Packet
    PROVE  \E s \in Socks, ev \in Events, str \in Socket : PacketFor(s, ev, str)
<1>1. PICK s \in Socks :
          \/ SynAckArrives(s) \/ ConnectionRefused(s) \/ ConnectTimesOut(s)
          \/ DataArrives(s) \/ FinArrives(s) \/ ResetArrives(s) \/ AckArrives(s) \/ ConnectionLost(s)
  BY Zenon DEF Packet
<1>2. smap[s] \in Socket /\ smap[s].merged_len <= packets /\ packets \in Nat /\ MaxPackets \in Nat
  BY MtcpBounds DEF QueueInv, TypeOK, SocketsOK
<1>3. \A ev \in {"IN", "OUT", "ERR"} : ev \in Events BY Zenon DEF Events
<1>4. CASE SynAckArrives(s)
  <2> DEFINE str == [smap[s] EXCEPT !.tcp = "ESTABLISHED"]
  <2>1. str \in Socket BY Zenon, <1>2 DEF Socket
  <2>2. Streams(s, str) BY <1>2 DEF Socket, Streams
  <2>3. Raise(s, "OUT", str) /\ StreamIn(s, {"SYN_SENT"}) BY Zenon, <1>4 DEF SynAckArrives
  <2> HIDE DEF str
  <2>4. Ready("stack") /\ smap[s].tcp # "NONE" /\ packets < MaxPackets BY Zenon, <2>3 DEF StreamIn
  <2> QED BY Zenon, <1>3, <2>1, <2>2, <2>3, <2>4 DEF PacketFor
<1>5. CASE ConnectionRefused(s)
  <2> DEFINE str == [smap[s] EXCEPT !.tcp = "CLOSE_WAIT", !.reason = "RESET"]
  <2>1. str \in Socket BY Zenon, <1>2 DEF Socket
  <2>2. Streams(s, str) BY <1>2 DEF Socket, Streams
  <2>3. Raise(s, "ERR", str) /\ StreamIn(s, {"SYN_SENT"}) BY Zenon, <1>5 DEF ConnectionRefused
  <2> HIDE DEF str
  <2>4. Ready("stack") /\ smap[s].tcp # "NONE" /\ packets < MaxPackets BY Zenon, <2>3 DEF StreamIn
  <2> QED BY Zenon, <1>3, <2>1, <2>2, <2>3, <2>4 DEF PacketFor
<1>6. CASE ConnectTimesOut(s)
  <2> DEFINE str == [smap[s] EXCEPT !.tcp = "CLOSED", !.reason = "FAIL"]
  <2>1. str \in Socket BY Zenon, <1>2 DEF Socket
  <2>2. Streams(s, str) BY <1>2 DEF Socket, Streams
  <2>3. Raise(s, "ERR", str) /\ StreamIn(s, {"SYN_SENT"}) BY Zenon, <1>6 DEF ConnectTimesOut
  <2> HIDE DEF str
  <2>4. Ready("stack") /\ smap[s].tcp # "NONE" /\ packets < MaxPackets BY Zenon, <2>3 DEF StreamIn
  <2> QED BY Zenon, <1>3, <2>1, <2>2, <2>3, <2>4 DEF PacketFor
<1>7. CASE DataArrives(s)
  <2> DEFINE str == [smap[s] EXCEPT !.merged_len = @ + 1]
  <2>1. Raise(s, "IN", str) /\ StreamIn(s, {"ESTABLISHED"}) BY Zenon, <1>7 DEF DataArrives
  <2>2. Ready("stack") /\ smap[s].tcp = "ESTABLISHED" /\ packets < MaxPackets BY Zenon, <2>1 DEF StreamIn
  <2>3. str \in Socket BY <1>2, <2>2 DEF Socket
  <2>4. Streams(s, str) BY <1>2, <2>2 DEF Socket, Streams
  <2> HIDE DEF str
  <2>5. smap[s].tcp # "NONE" BY Zenon, <2>2
  <2> QED BY Zenon, <1>3, <2>1, <2>2, <2>3, <2>4, <2>5 DEF PacketFor
<1>8. CASE FinArrives(s)
  <2> DEFINE str == [smap[s] EXCEPT !.tcp = "CLOSE_WAIT"]
  <2>1. str \in Socket BY Zenon, <1>2 DEF Socket
  <2>2. Streams(s, str) BY <1>2 DEF Socket, Streams
  <2>3. Raise(s, "IN", str) /\ StreamIn(s, {"ESTABLISHED"}) BY Zenon, <1>8 DEF FinArrives
  <2> HIDE DEF str
  <2>4. Ready("stack") /\ smap[s].tcp # "NONE" /\ packets < MaxPackets BY Zenon, <2>3 DEF StreamIn
  <2> QED BY Zenon, <1>3, <2>1, <2>2, <2>3, <2>4 DEF PacketFor
<1>9. CASE ResetArrives(s)
  <2> DEFINE str == [smap[s] EXCEPT !.tcp = "CLOSE_WAIT", !.reason = "RESET"]
  <2>1. str \in Socket BY Zenon, <1>2 DEF Socket
  <2>2. Streams(s, str) BY <1>2 DEF Socket, Streams
  <2>3. Raise(s, "IN", str) /\ StreamIn(s, {"ESTABLISHED", "CLOSE_WAIT"}) BY Zenon, <1>9 DEF ResetArrives
  <2> HIDE DEF str
  <2>4. Ready("stack") /\ smap[s].tcp # "NONE" /\ packets < MaxPackets BY Zenon, <2>3 DEF StreamIn
  <2> QED BY Zenon, <1>3, <2>1, <2>2, <2>3, <2>4 DEF PacketFor
<1>10. CASE AckArrives(s)
  <2> DEFINE str == [smap[s] EXCEPT !.unacked = FALSE]
  <2>1. Raise(s, "OUT", str) /\ StreamIn(s, {"ESTABLISHED", "CLOSE_WAIT"}) BY Zenon, <1>10 DEF AckArrives
  <2>2. Ready("stack") /\ smap[s].tcp \in {"ESTABLISHED", "CLOSE_WAIT"} /\ packets < MaxPackets
    BY Zenon, <2>1 DEF StreamIn
  <2>3. str \in Socket BY Zenon, <1>2 DEF Socket
  <2>4. Streams(s, str) BY <1>2, <2>2 DEF Socket, Streams
  <2> HIDE DEF str
  <2>5. smap[s].tcp # "NONE" BY Zenon, <2>2
  <2> QED BY Zenon, <1>3, <2>1, <2>2, <2>3, <2>4, <2>5 DEF PacketFor
<1>11. CASE ConnectionLost(s)
  <2> DEFINE str == [smap[s] EXCEPT !.tcp = "CLOSED", !.reason = "LOST"]
  <2>1. str \in Socket BY Zenon, <1>2 DEF Socket
  <2>2. Streams(s, str) BY <1>2 DEF Socket, Streams
  <2>3. Raise(s, "ERR", str) /\ StreamIn(s, {"ESTABLISHED", "CLOSE_WAIT"}) BY Zenon, <1>11 DEF ConnectionLost
  <2> HIDE DEF str
  <2>4. Ready("stack") /\ smap[s].tcp # "NONE" /\ packets < MaxPackets BY Zenon, <2>3 DEF StreamIn
  <2> QED BY Zenon, <1>3, <2>1, <2>2, <2>3, <2>4 DEF PacketFor
<1> QED BY Zenon, <1>1, <1>4, <1>5, <1>6, <1>7, <1>8, <1>9, <1>10, <1>11

\* What the stack does to the sockets, as the connection sees it.
StackKeeps ==
    /\ UNCHANGED <<app, eaten, dangled, sendfailed>> /\ (raced => raced')
    /\ \A s \in Socks : /\ smap'[s].used = smap[s].used /\ smap'[s].epoll = smap[s].epoll
                        /\ smap'[s].tcp = "SYN_SENT" => smap[s].tcp = "SYN_SENT"
                        /\ smap[s].reason # "NOT_CLOSED" => smap'[s].reason # "NOT_CLOSED"
    /\ pc = "wait" => usrq' = usrq /\ shadowq' = shadowq

\* A packet keeps the sockets and the queues.
LEMMA PacketKeepsQueues ==
    ASSUME QueueInv, Packet
    PROVE  QueueInv' /\ StackKeeps
<1>1. PICK s \in Socks, ev \in Events, str \in Socket : PacketFor(s, ev, str)
  BY Zenon, PacketShape
<1>2. /\ Streams(s, str) /\ Ready("stack") /\ smap[s].tcp # "NONE" /\ packets < MaxPackets
      /\ IF smap[s].epoll THEN StackAddEvent(s, ev) ELSE UNCHANGED <<queues, pend>>
      /\ smap' = [smap EXCEPT ![s] = str] /\ packets' = packets + 1
      /\ UNCHANGED <<app, ghosts>>
  BY Zenon, <1>1 DEF PacketFor, Raise
<1>3. /\ state' = state /\ cur' = cur /\ requested' = requested /\ pc' = pc /\ batch' = batch
      /\ retry' = retry /\ sends' = sends /\ opened' = opened
      /\ raced' = raced /\ eaten' = eaten /\ dangled' = dangled /\ sendfailed' = sendfailed
  BY Zenon, <1>2 DEF app, ghosts
<1>4. smap \in [Socks -> Socket] /\ packets \in Nat /\ packets \in 0 .. MaxPackets /\ MaxPackets \in Nat
      /\ Size \in Nat
  BY MtcpBounds DEF QueueInv, TypeOK, Size
<1>5. smap' \in [Socks -> Socket] /\ smap'[s] = str /\ \A x \in Socks : x # s => smap'[x] = smap[x]
  BY Zenon, <1>2, <1>4
<1>6. packets' \in 0 .. MaxPackets BY <1>2, <1>4
<1>7. SocketsOK /\ smap[s].used /\ s <= opened /\ opened \in Nat
  <2>1. SocketsOK /\ opened \in Nat BY DEF QueueInv, TypeOK
  <2>2. smap[s].used BY Zenon, <1>2, <2>1 DEF SocketsOK
  <2>3. ~Unused.used BY Zenon DEF Unused
  <2>4. ~(s > opened) BY Zenon, <2>1, <2>2, <2>3 DEF SocketsOK
  <2> QED BY <2>1, <2>2, <2>4 DEF Socks
<1>8. SocketsOK'
  <2> SUFFICES ASSUME NEW x \in Socks
               PROVE  (/\ x > opened => smap[x] = Unused
                       /\ smap[x].epoll \/ smap[x].tcp # "NONE" => smap[x].used
                       /\ smap[x].merged_len <= packets)'
    BY Zenon DEF SocketsOK
  <2>1. CASE x = s
    <3>1. smap'[x].used BY Zenon, <1>2, <1>5, <1>7, <2>1 DEF Streams
    <3>2. smap'[x].merged_len <= packets' BY Zenon, <1>2, <1>5, <2>1 DEF Streams
    <3>3. ~(x > opened') BY <1>3, <1>7, <2>1 DEF Socks
    <3> QED BY Zenon, <3>1, <3>2, <3>3
  <2>2. CASE x # s
    <3>1. smap'[x] = smap[x] BY Zenon, <1>5, <2>2
    <3>2. smap[x].merged_len \in Nat BY <1>4 DEF Socket
    <3> QED BY <1>2, <1>3, <1>4, <1>7, <3>1, <3>2 DEF SocketsOK
  <2> QED BY Zenon, <2>1, <2>2
<1>9. Keeps
  <2> SUFFICES ASSUME NEW x \in Socks
               PROVE  /\ smap'[x].used => smap[x].used /\ smap'[x].events = smap[x].events
                      /\ smap'[x].tcp = "SYN_SENT" => smap[x].tcp = "SYN_SENT"
    BY Zenon, <1>3 DEF Keeps
  <2>1. CASE x = s BY Zenon, <1>2, <1>5, <2>1 DEF Streams
  <2>2. CASE x # s BY Zenon, <1>5, <2>2
  <2> QED BY Zenon, <2>1, <2>2
<1>10. usrq' = usrq /\ shadowq' = shadowq
  BY Zenon, <1>2 DEF StackAddEvent, queues
<1>11. StackKeeps
  <2>1. \A x \in Socks : /\ smap'[x].used = smap[x].used /\ smap'[x].epoll = smap[x].epoll
                         /\ smap'[x].tcp = "SYN_SENT" => smap[x].tcp = "SYN_SENT"
                         /\ smap[x].reason # "NOT_CLOSED" => smap'[x].reason # "NOT_CLOSED"
    <3> TAKE x \in Socks
    <3>1. CASE x = s BY Zenon, <1>2, <1>5, <3>1 DEF Streams
    <3>2. CASE x # s BY Zenon, <1>5, <3>2
    <3> QED BY Zenon, <3>1, <3>2
  <2> QED BY Zenon, <1>2, <1>3, <1>10, <2>1 DEF StackKeeps
<1>14. QueueTypeOK /\ AppTypeOK'
  <2>1. AppTypeOK /\ QueueTypeOK BY Zenon, TypeParts DEF QueueInv
  <2>2. raced' \in BOOLEAN BY Zenon, <1>3, <2>1 DEF AppTypeOK
  <2> QED BY Zenon, <1>3, <2>1, <2>2 DEF AppTypeOK
<1>12. CASE mtcpq' = mtcpq /\ usrq' = usrq /\ shadowq' = shadowq /\ pend' = pend
  <2>1. QueueTypeOK' BY Zenon, <1>3, <1>5, <1>6, <1>12, <1>14 DEF QueueTypeOK
  <2>2. \A e \in Entry : Count(batch', e) \in Nat /\ Count(batch', e) <= Count(batch, e)
    <3>1. \A e : Count(batch, e) \in Nat BY Zenon, QueuedType DEF QueueInv
    <3> QED BY <1>3, <3>1
  <2>3. UNCHANGED <<queues, pend, raced>> BY Zenon, <1>3, <1>12 DEF queues
  <2>4. EventsOK' /\ StackStoreOK' /\ AppStoreOK' /\ Balance' BY Zenon, <1>9, <2>2, <2>3, SameQueues
  <2> QED BY Zenon, <1>8, <1>11, <1>14, <2>1, <2>4, TypeParts DEF QueueInv
<1>13. CASE /\ Queues(s, ev, mtcpq.q) /\ usrq' = usrq /\ shadowq' = shadowq
            /\ mtcpq' = [mtcpq EXCEPT !.q = Append(@, [sock |-> s, ev |-> ev])]
            /\ Update("stack", s, {ev}, {})
  <2>1. pend' \in [{"app", "stack"} -> {NoStore} \cup Loaded]
    <3>1. smap[s].events \in SUBSET Events BY Zenon, <1>4 DEF Socket
    <3>2. [sock |-> s, old |-> smap[s].events, add |-> {ev}, del |-> {}] \in Loaded BY Zenon, <3>1 DEF Loaded
    <3>3. pend \in [{"app", "stack"} -> {NoStore} \cup Loaded] BY Zenon DEF QueueInv, TypeOK
    <3> QED BY Zenon, <1>13, <3>2, <3>3 DEF Update
  <2>2. mtcpq' \in [start : 0 .. Size - 1, q : Seq(Entry)] /\ Queue(mtcpq'.q)
    <3>1. mtcpq \in [start : 0 .. Size - 1, q : Seq(Entry)] /\ Len(mtcpq.q) < Size
      BY Zenon DEF QueueInv, TypeOK
    <3>2. PICK d \in Entry : d = [sock |-> s, ev |-> ev] BY ZenonT(30), EntryEq
    <3>3. Len(mtcpq.q) + 1 # Size BY Zenon, <1>13 DEF Queues, EventQueFull
    <3>4. mtcpq' = [mtcpq EXCEPT !.q = Append(mtcpq.q, d)] BY Zenon, <1>13, <3>2
    <3>5. Append(mtcpq.q, d) \in Seq(Entry) /\ Len(Append(mtcpq.q, d)) = Len(mtcpq.q) + 1
          /\ Len(mtcpq.q) \in Nat
      BY <3>1
    <3>6. PICK r \in Seq(Entry) : r = Append(mtcpq.q, d) BY Zenon, <3>5
    <3>7. mtcpq' = [mtcpq EXCEPT !.q = r] /\ Len(r) < Size BY <1>4, <3>1, <3>3, <3>4, <3>5, <3>6
    <3> QED BY Zenon, <3>1, <3>7 DEF Queue
  <2>3. TypeOK' 
    <3>1. QueueTypeOK' BY Zenon, <1>3, <1>5, <1>6, <1>13, <1>14, <2>1, <2>2 DEF QueueTypeOK, Queue
    <3> QED BY Zenon, <1>14, <3>1, TypeParts
  <2>4. ev \notin smap[s].events BY Zenon, <1>13 DEF Queues
  <2>5. smap'[s].tcp # "SYN_SENT" BY Zenon, <1>2, <1>5 DEF Streams
  <2>6. UNCHANGED <<usrq, shadowq, batch, raced>> BY Zenon, <1>3, <1>13
  <2>7. EventsOK' /\ StackStoreOK' /\ AppStoreOK' /\ Balance'
    BY Zenon, <1>2, <1>7, <1>9, <1>13, <2>3, <2>4, <2>5, <2>6, StackAdds
  <2> QED BY Zenon, <1>8, <1>11, <2>3, <2>7 DEF QueueInv
<1> QED BY Zenon, <1>2, <1>12, <1>13 DEF StackAddEvent, queues

\* FlushEpollEvents keeps the sockets and the queues.
LEMMA FlushKeepsQueues ==
    ASSUME QueueInv, FlushEpollEvents
    PROVE  QueueInv' /\ StackKeeps
<1>1. PICK n \in 1 .. Size : /\ pc # "wait"
                             /\ mtcpq' = [start |-> (mtcpq.start + n) % Size,
                                          q |-> SubSeq(mtcpq.q, n + 1, Len(mtcpq.q))]
                             /\ UNCHANGED <<packets, app, smap, shadowq, pend, ghosts>>
  BY Zenon DEF FlushEpollEvents
<1>2. /\ state' = state /\ cur' = cur /\ requested' = requested /\ pc' = pc /\ batch' = batch
      /\ retry' = retry /\ sends' = sends /\ opened' = opened
      /\ raced' = raced /\ eaten' = eaten /\ dangled' = dangled /\ sendfailed' = sendfailed
      /\ packets' = packets /\ smap' = smap /\ shadowq' = shadowq /\ pend' = pend
  BY Zenon, <1>1 DEF app, ghosts
<1>3. /\ EventsOK' /\ StackStoreOK' /\ AppStoreOK' /\ Balance'
      /\ mtcpq'.q \in Seq(Entry) /\ Len(mtcpq'.q) < Size /\ usrq' \in Seq(Entry) /\ Len(usrq') < Size
  BY Zenon, FlushMoves
<1>4. mtcpq' \in [start : 0 .. Size - 1, q : Seq(Entry)]
  <2>1. mtcpq.start \in 0 .. Size - 1 /\ Size \in Nat \ {0}
    BY MtcpBounds DEF QueueInv, TypeOK, Size
  <2>2. (mtcpq.start + n) % Size \in 0 .. Size - 1 BY <2>1
  <2>3. mtcpq' = [start |-> (mtcpq.start + n) % Size, q |-> mtcpq'.q] BY Zenon, <1>1
  <2>4. PICK i \in 0 .. Size - 1, r \in Seq(Entry) : mtcpq' = [start |-> i, q |-> r]
    BY Zenon, <1>3, <2>2, <2>3
  <2> QED BY Zenon, <2>4
<1>5. AppTypeOK /\ QueueTypeOK BY Zenon, TypeParts DEF QueueInv
<1>6. TypeOK'
  <2>1. QueueTypeOK' BY Zenon, <1>2, <1>3, <1>4, <1>5 DEF QueueTypeOK, Queue
  <2>2. AppTypeOK' BY ZenonT(30), <1>2, <1>5 DEF AppTypeOK
  <2> QED BY Zenon, <2>1, <2>2, TypeParts
<1>7. SocketsOK' BY Zenon, <1>2 DEF QueueInv, SocketsOK
<1>8. StackKeeps BY Zenon, <1>1, <1>2 DEF StackKeeps
<1> QED BY Zenon, <1>3, <1>6, <1>7, <1>8 DEF QueueInv

\* A store of socket->events keeps the sockets and the queues.
LEMMA StoreKeepsQueues ==
    ASSUME QueueInv, NEW t \in {"app", "stack"}, Store(t)
    PROVE  QueueInv' /\ StackKeeps
<1>1. /\ mtcpq' = mtcpq /\ usrq' = usrq /\ shadowq' = shadowq
      /\ state' = state /\ cur' = cur /\ requested' = requested /\ pc' = pc /\ batch' = batch
      /\ retry' = retry /\ sends' = sends /\ opened' = opened /\ packets' = packets
      /\ eaten' = eaten /\ dangled' = dangled /\ sendfailed' = sendfailed
      /\ pend' = [pend EXCEPT ![t] = NoStore] /\ pend[t] # NoStore
  BY Zenon DEF Store, app, queues
<1>2. AppTypeOK /\ QueueTypeOK BY Zenon, TypeParts DEF QueueInv
<1>3. pend \in [{"app", "stack"} -> {NoStore} \cup Loaded] /\ smap \in [Socks -> Socket]
  BY Zenon, <1>2 DEF QueueTypeOK
<1>4. PICK s \in Socks, old \in SUBSET Events, add \in SUBSET Events, del \in SUBSET Events :
          pend[t].sock = s /\ pend[t].old = old /\ pend[t].add = add /\ pend[t].del = del
  BY Zenon, <1>1, <1>3 DEF Loaded
<1>5. PICK new \in SUBSET Events : smap' = [smap EXCEPT ![s].events = new]
  <2>1. PICK loaded \in {old, smap[s].events} :
          smap' = [smap EXCEPT ![s].events = (loaded \cup add) \ del]
    BY Zenon, <1>4 DEF Store
  <2>2. (loaded \cup add) \ del \in SUBSET Events BY <1>3 DEF Socket
  <2> QED BY Zenon, <2>1, <2>2
<1>6. raced' \in BOOLEAN /\ (raced => raced')
  <2>1. raced' = (raced \/ smap[s].events # old) BY Zenon, <1>4 DEF Store
  <2> QED BY Zenon, <2>1
<1>7. smap' \in [Socks -> Socket]
  BY <1>3, <1>5 DEF Socket
<1>8. \A x \in Socks : /\ smap'[x].used = smap[x].used /\ smap'[x].epoll = smap[x].epoll
                       /\ smap'[x].tcp = smap[x].tcp /\ smap'[x].reason = smap[x].reason
                       /\ smap'[x].merged_len = smap[x].merged_len
  BY ZenonT(60), <1>3, <1>5 DEF Socket
<1>9. pend' \in [{"app", "stack"} -> {NoStore} \cup Loaded] BY Zenon, <1>1, <1>3
<1>10. TypeOK'
  <2>1. QueueTypeOK' BY Zenon, <1>1, <1>2, <1>7, <1>9 DEF QueueTypeOK
  <2>2. AppTypeOK' BY Zenon, <1>1, <1>2, <1>6 DEF AppTypeOK
  <2> QED BY Zenon, <2>1, <2>2, TypeParts
<1>11. SocketsOK'
  <2> SUFFICES ASSUME NEW x \in Socks
               PROVE  (/\ x > opened => smap[x] = Unused
                       /\ smap[x].epoll \/ smap[x].tcp # "NONE" => smap[x].used
                       /\ smap[x].merged_len <= packets)'
    BY Zenon DEF SocketsOK
  <2>1. /\ x > opened => smap[x] = Unused
        /\ smap[x].epoll \/ smap[x].tcp # "NONE" => smap[x].used
        /\ smap[x].merged_len <= packets
    BY Zenon DEF QueueInv, SocketsOK
  <2>2. x > opened => smap'[x] = smap[x]
    <3>1. pend[t].sock <= opened BY Zenon, <1>1 DEF QueueInv, StackStoreOK, AppStoreOK
    <3>2. opened \in Nat BY <1>2 DEF QueueTypeOK
    <3>3. x > opened => x # s BY <1>4, <3>1, <3>2 DEF Socks
    <3> QED BY Zenon, <1>3, <1>5, <3>3
  <2> QED BY Zenon, <1>1, <1>8, <2>1, <2>2
<1>12. EventsOK' /\ StackStoreOK' /\ AppStoreOK' /\ Balance' BY Zenon, StoreMoves
<1>13. StackKeeps BY Zenon, <1>1, <1>6, <1>8 DEF StackKeeps, app
<1> QED BY Zenon, <1>10, <1>11, <1>12, <1>13 DEF QueueInv

-----------------------------------------------------------------------------
(* The connection. *)

\* What the stack does keeps the invariant of the connection.
LEMMA StackKeepsConn ==
    ASSUME QueueInv, ConnInv, StackKeeps
    PROVE  ConnInv'
<1>1. /\ state' = state /\ cur' = cur /\ requested' = requested /\ pc' = pc /\ batch' = batch
      /\ retry' = retry /\ sends' = sends /\ opened' = opened
      /\ eaten' = eaten /\ dangled' = dangled /\ sendfailed' = sendfailed /\ (raced => raced')
  BY Zenon DEF StackKeeps, app
<1>2. \A s \in Socks : /\ smap'[s].used = smap[s].used /\ smap'[s].epoll = smap[s].epoll
                       /\ smap'[s].tcp = "SYN_SENT" => smap[s].tcp = "SYN_SENT"
                       /\ smap[s].reason # "NOT_CLOSED" => smap'[s].reason # "NOT_CLOSED"
  BY Zenon DEF StackKeeps
<1>3. cur # None => cur \in Socks BY Zenon DEF QueueInv, TypeOK
<1>4. \A s \in Socks : smap'[s].epoll <=> smap[s].epoll BY Zenon, <1>2
<1>5. ControlOK' BY Zenon, <1>1, <1>2 DEF ConnInv, ControlOK
<1>6. OwnsSocket' BY Zenon, <1>1, <1>2, <1>3 DEF ConnInv, OwnsSocket
<1>7. FailedOK' BY Zenon, <1>1, <1>2, <1>3 DEF ConnInv, FailedOK
<1>8. StaleEventsNeedFailure' BY Zenon, <1>1, <1>2, <1>4 DEF ConnInv, StaleEventsNeedFailure
<1>9. ConnectedMeansEstablished'
  <2>1. state = "connected" /\ pc # "terminated" => cur \in Socks
    BY Zenon, <1>3 DEF ConnInv, OwnsSocket
  <2> QED BY Zenon, <1>1, <1>2, <2>1 DEF ConnInv, ConnectedMeansEstablished
<1>10. BatchOnce'
  <2>1. pc = "wait" => usrq' = usrq /\ shadowq' = shadowq BY Zenon DEF StackKeeps
  <2> QED BY Zenon, <1>1, <2>1 DEF ConnInv, BatchOnce
<1>11. BatchOK'
  <2>1. \A e \in Entry : e.sock \in Socks BY Zenon DEF Entry
  <2> QED BY Zenon, <1>1, <1>4, <2>1 DEF ConnInv, BatchOK
<1> QED BY Zenon, <1>5, <1>6, <1>7, <1>8, <1>9, <1>10, <1>11 DEF ConnInv

\* A step of the application that leaves the sockets and the queues alone.
LEMMA QuietKeepsQueues ==
    ASSUME QueueInv, AppTypeOK', UNCHANGED <<smap, packets, opened, queues, pend, raced>>,
           batch' = batch \/ (batch # <<>> /\ batch' = Tail(batch))
    PROVE  QueueInv' /\ \A e : Count(batch', e) \in Nat /\ Count(batch', e) <= Count(batch, e)
<1>1. /\ smap' = smap /\ packets' = packets /\ opened' = opened /\ pend' = pend
      /\ mtcpq' = mtcpq /\ usrq' = usrq /\ shadowq' = shadowq
  BY Zenon DEF queues
<1>2. QueueTypeOK /\ batch \in Seq(Entry) BY Zenon, TypeParts DEF QueueInv, QueueTypeOK
<1>3. batch' \in Seq(Entry) BY <1>2
<1>4. \A e : Count(batch', e) \in Nat /\ Count(batch', e) <= Count(batch, e)
  <2> TAKE e
  <2>1. Count(batch, e) \in Nat /\ Count(batch', e) \in Nat BY Zenon, <1>2, <1>3, CountType
  <2>2. CASE batch' = batch BY <2>1, <2>2
  <2>3. CASE batch # <<>> /\ batch' = Tail(batch)
    <3>1. Count(batch, e) = Is(Head(batch), e) + Count(batch', e) BY Zenon, <1>2, <2>3, CountTail
    <3> QED BY <2>1, <3>1 DEF Is
  <2> QED BY Zenon, <2>2, <2>3
<1>5. QueueTypeOK' BY Zenon, <1>1, <1>2, <1>3 DEF QueueTypeOK
<1>6. SocketsOK' BY Zenon, <1>1 DEF QueueInv, SocketsOK
<1>7. Keeps BY Zenon, <1>1 DEF Keeps
<1>8. UNCHANGED <<queues, pend, raced>> BY Zenon
<1>9. EventsOK' /\ StackStoreOK' /\ AppStoreOK' /\ Balance'
  BY Zenon, <1>4, <1>7, <1>8, SameQueues
<1> QED BY Zenon, <1>4, <1>5, <1>6, <1>9, TypeParts DEF QueueInv

\* Nothing is said of an empty batch.
LEMMA EmptyBatch ==
    ASSUME batch' = <<>>
    PROVE  BatchOnce' /\ BatchOK'
<1>1. \A e : Count(batch', e) = 0 BY Zenon, CountEmpty
<1>2. \A e : ~(Count(batch', e) > 0) /\ Count(batch', e) <= 1 BY <1>1
<1> QED BY Zenon, <1>1, <1>2 DEF BatchOnce, BatchOK

\* mtcp_epoll_wait starts.
LEMMA StartWaitStep ==
    ASSUME QueueInv, ConnInv, StartWait
    PROVE  QueueInv' /\ ConnInv'
<1>1. /\ pc = "idle" /\ pc' = "wait" /\ state' = state /\ cur' = cur /\ requested' = requested
      /\ batch' = batch /\ retry' = retry /\ sends' = sends /\ opened' = opened /\ packets' = packets
      /\ smap' = smap /\ pend' = pend /\ UNCHANGED queues
      /\ raced' = raced /\ eaten' = eaten /\ dangled' = dangled /\ sendfailed' = sendfailed
  BY Zenon DEF StartWait, AppAt, ghosts
<1>2. batch' = <<>> BY Zenon, <1>1 DEF ConnInv, ControlOK
<1>3. AppTypeOK BY Zenon, TypeParts DEF QueueInv
<1>4. AppTypeOK' BY Zenon, <1>1, <1>3 DEF AppTypeOK
<1>5. QueueInv' BY Zenon, <1>1, <1>4, QuietKeepsQueues
<1>6. ControlOK' BY Zenon, <1>1 DEF ConnInv, ControlOK
<1>7. OwnsSocket' BY Zenon, <1>1 DEF ConnInv, OwnsSocket
<1>8. FailedOK' BY Zenon, <1>1 DEF ConnInv, FailedOK
<1>9. StaleEventsNeedFailure' BY Zenon, <1>1 DEF ConnInv, StaleEventsNeedFailure
<1>10. ConnectedMeansEstablished' BY Zenon, <1>1 DEF ConnInv, ConnectedMeansEstablished
<1>11. BatchOnce' /\ BatchOK' BY Zenon, <1>2, EmptyBatch
<1> QED BY Zenon, <1>5, <1>6, <1>7, <1>8, <1>9, <1>10, <1>11 DEF ConnInv

\* mtcp_epoll_wait returns.
LEMMA WaitReturnsStep ==
    ASSUME QueueInv, ConnInv, WaitReturns
    PROVE  QueueInv' /\ ConnInv'
<1>1. /\ pc = "wait" /\ pc' = "dispatch" /\ state' = state /\ cur' = cur /\ requested' = requested
      /\ batch' = batch /\ retry' = retry /\ sends' = sends /\ opened' = opened /\ packets' = packets
      /\ smap' = smap /\ pend' = pend /\ UNCHANGED queues
      /\ raced' = raced /\ eaten' = eaten /\ dangled' = dangled /\ sendfailed' = sendfailed
  BY Zenon DEF WaitReturns, AppAt, ghosts
<1>3. AppTypeOK BY Zenon, TypeParts DEF QueueInv
<1>4. AppTypeOK' BY Zenon, <1>1, <1>3 DEF AppTypeOK
<1>5. QueueInv' BY Zenon, <1>1, <1>4, QuietKeepsQueues
<1>6. ControlOK' BY Zenon, <1>1 DEF ConnInv, ControlOK
<1>7. OwnsSocket' BY Zenon, <1>1 DEF ConnInv, OwnsSocket
<1>8. FailedOK' BY Zenon, <1>1 DEF ConnInv, FailedOK
<1>9. StaleEventsNeedFailure' BY Zenon, <1>1 DEF ConnInv, StaleEventsNeedFailure
<1>10. ConnectedMeansEstablished' BY Zenon, <1>1 DEF ConnInv, ConnectedMeansEstablished
<1>11. BatchOnce' BY Zenon, <1>1 DEF ConnInv, BatchOnce
<1>12. BatchOK' BY Zenon, <1>1 DEF ConnInv, BatchOK
<1> QED BY Zenon, <1>5, <1>6, <1>7, <1>8, <1>9, <1>10, <1>11, <1>12 DEF ConnInv

\* poll is done with a batch.
LEMMA DispatchDoneStep ==
    ASSUME QueueInv, ConnInv, DispatchDone
    PROVE  QueueInv' /\ ConnInv'
<1>1. /\ pc = "dispatch" /\ pc' = "idle" /\ state' = state /\ cur' = cur /\ requested' = requested
      /\ batch = <<>> /\ batch' = batch /\ retry' = retry /\ sends' = sends /\ opened' = opened
      /\ packets' = packets /\ smap' = smap /\ pend' = pend /\ UNCHANGED queues
      /\ raced' = raced /\ eaten' = eaten /\ dangled' = dangled /\ sendfailed' = sendfailed
  BY Zenon DEF DispatchDone, AppAt, ghosts
<1>2. batch' = <<>> BY Zenon, <1>1
<1>3. AppTypeOK BY Zenon, TypeParts DEF QueueInv
<1>4. AppTypeOK' BY Zenon, <1>1, <1>3 DEF AppTypeOK
<1>5. QueueInv' BY Zenon, <1>1, <1>4, QuietKeepsQueues
<1>6. ControlOK' BY Zenon, <1>1 DEF ConnInv, ControlOK
<1>7. OwnsSocket' BY Zenon, <1>1 DEF ConnInv, OwnsSocket
<1>8. FailedOK' BY Zenon, <1>1 DEF ConnInv, FailedOK
<1>9. StaleEventsNeedFailure' BY Zenon, <1>1 DEF ConnInv, StaleEventsNeedFailure
<1>10. ConnectedMeansEstablished' BY Zenon, <1>1 DEF ConnInv, ConnectedMeansEstablished
<1>11. BatchOnce' /\ BatchOK' BY Zenon, <1>2, EmptyBatch
<1> QED BY Zenon, <1>5, <1>6, <1>7, <1>8, <1>9, <1>10, <1>11 DEF ConnInv

\* What poll does for every event it takes from the batch.
LEMMA TakeEventFacts ==
    ASSUME QueueInv, ConnInv, TakeEvent
    PROVE  /\ pc = "dispatch" /\ batch # <<>> /\ batch' = Tail(batch)
           /\ cur' = cur /\ sends' = sends /\ opened' = opened /\ packets' = packets /\ smap' = smap
           /\ pend' = pend /\ raced' = raced /\ sendfailed' = sendfailed /\ UNCHANGED queues
           /\ Head(batch) \in Entry /\ Head(batch).sock \in Socks /\ Head(batch).ev \in Events
           /\ Count(batch, Head(batch)) > 0
           /\ \A e : Count(batch', e) \in Nat /\ Count(batch', e) <= Count(batch, e)
           /\ ~raced => Count(batch', Head(batch)) = 0
           /\ smap[Head(batch).sock].tcp # "SYN_SENT"
           /\ \A e : Count(batch', e) > 0 => Count(batch, e) > 0
<1>1. /\ pc = "dispatch" /\ batch # <<>> /\ batch' = Tail(batch)
      /\ cur' = cur /\ sends' = sends /\ opened' = opened /\ packets' = packets /\ smap' = smap
      /\ pend' = pend /\ raced' = raced /\ sendfailed' = sendfailed /\ UNCHANGED queues
  BY Zenon DEF TakeEvent, AppAt
<1>2. batch \in Seq(Entry) BY Zenon, QueuedType DEF QueueInv
<1>3. Head(batch) \in Entry /\ Tail(batch) \in Seq(Entry) BY <1>1, <1>2
<1>4. PICK h \in Entry : h = Head(batch) BY Zenon, <1>3
<1>5. h.sock \in Socks /\ h.ev \in Events BY Zenon DEF Entry
<1>6. \A e : Count(batch, e) = Is(h, e) + Count(batch', e) BY Zenon, <1>1, <1>2, <1>4, CountTail
<1>7. \A e : Count(batch, e) \in Nat /\ Count(batch', e) \in Nat BY Zenon, <1>1, <1>2, <1>3, CountType
<1>8. Is(h, h) = 1 /\ \A e : Is(h, e) \in Nat BY Zenon DEF Is
<1>9. Count(batch, h) > 0 BY <1>6, <1>7, <1>8
<1>10. \A e : Count(batch', e) <= Count(batch, e) BY <1>6, <1>7, <1>8
<1>11. ~raced => Count(batch', h) = 0
  <2>1. ~raced => Count(batch, h) <= 1 BY Zenon DEF ConnInv, BatchOnce
  <2> QED BY <1>6, <1>7, <1>8, <2>1
<1>12. smap[h.sock].tcp # "SYN_SENT"
  <2>1. Queued(h) \in Nat BY Zenon, QueuedType DEF QueueInv
  <2>2. Queued(h) + Count(batch, h) > 0 BY <1>7, <1>9, <2>1
  <2> QED BY Zenon, <2>2 DEF QueueInv, EventsOK
<1>13. \A e : Count(batch', e) > 0 => Count(batch, e) > 0 BY <1>7, <1>10
<1> QED BY Zenon, <1>1, <1>4, <1>5, <1>7, <1>9, <1>10, <1>11, <1>12, <1>13

\* The rest of a batch keeps what is said of the batch.
LEMMA RestOfBatch ==
    ASSUME QueueInv, ConnInv, TakeEvent
    PROVE  /\ pc' # "wait" => BatchOnce'
           /\ (state' = state \/ cur # None) /\ pc' # "read" /\ (dangled => dangled') => BatchOK'
<1>1. /\ pc = "dispatch" /\ cur' = cur /\ smap' = smap /\ raced' = raced
      /\ \A e : Count(batch', e) \in Nat /\ Count(batch', e) <= Count(batch, e)
      /\ \A e : Count(batch', e) > 0 => Count(batch, e) > 0
  BY Zenon, TakeEventFacts
<1>2. ~raced' => ~raced BY Zenon, <1>1
<1>3. pc' # "wait" => BatchOnce'
  <2>1. \A e : Count(batch, e) \in Nat BY Zenon, QueuedType DEF QueueInv
  <2>2. \A e : Count(batch, e) <= 1 => Count(batch', e) <= 1 BY <1>1, <2>1
  <2> QED BY Zenon, <1>2, <2>2 DEF ConnInv, BatchOnce
<1>4. ASSUME state' = state \/ cur # None, pc' # "read", dangled => dangled'
      PROVE  BatchOK'
  BY Zenon, <1>1, <1>2, <1>4 DEF ConnInv, BatchOK
<1> QED BY Zenon, <1>3, <1>4

\* An event that nobody asked for.
LEMMA SkipEventStep ==
    ASSUME QueueInv, ConnInv, SkipEvent
    PROVE  QueueInv' /\ ConnInv'
<1>0. TakeEvent BY Zenon DEF SkipEvent
<1>1. /\ pc = "dispatch" /\ batch # <<>> /\ batch' = Tail(batch)
      /\ cur' = cur /\ sends' = sends /\ opened' = opened /\ packets' = packets /\ smap' = smap
      /\ pend' = pend /\ raced' = raced /\ sendfailed' = sendfailed /\ UNCHANGED queues
  BY Zenon, <1>0, TakeEventFacts
<1>2. state' = state /\ requested' = requested /\ pc' = pc /\ retry' = retry /\ eaten' = eaten
      /\ dangled' = dangled
  BY Zenon DEF SkipEvent
<1>3. AppTypeOK BY Zenon, TypeParts DEF QueueInv
<1>4. AppTypeOK' BY Zenon, <1>1, <1>2, <1>3 DEF AppTypeOK
<1>5. QueueInv' BY Zenon, <1>1, <1>4, QuietKeepsQueues
<1>6. ControlOK' BY Zenon, <1>1, <1>2 DEF ConnInv, ControlOK
<1>7. OwnsSocket' BY Zenon, <1>1, <1>2 DEF ConnInv, OwnsSocket
<1>8. FailedOK' BY Zenon, <1>1, <1>2 DEF ConnInv, FailedOK
<1>9. StaleEventsNeedFailure' BY Zenon, <1>1, <1>2 DEF ConnInv, StaleEventsNeedFailure
<1>10. ConnectedMeansEstablished' BY Zenon, <1>1, <1>2 DEF ConnInv, ConnectedMeansEstablished
<1>11. pc' # "wait" /\ pc' # "read" /\ (dangled => dangled') BY Zenon, <1>1, <1>2
<1>12. BatchOnce' /\ BatchOK' BY Zenon, <1>0, <1>2, <1>11, RestOfBatch
<1> QED BY Zenon, <1>5, <1>6, <1>7, <1>8, <1>9, <1>10, <1>12 DEF ConnInv

\* The types after a handler has run.
LEMMA HandleType ==
    ASSUME QueueInv, ConnInv, TakeEvent, NEW ev, Handle(ev),
           requested' \subseteq requested, dangled' \in BOOLEAN
    PROVE  QueueInv'
<1>1. /\ pc = "dispatch" /\ batch # <<>> /\ batch' = Tail(batch)
      /\ cur' = cur /\ sends' = sends /\ opened' = opened /\ packets' = packets /\ smap' = smap
      /\ pend' = pend /\ raced' = raced /\ sendfailed' = sendfailed /\ UNCHANGED queues
  BY Zenon, TakeEventFacts
<1>2. AppTypeOK BY Zenon, TypeParts DEF QueueInv
<1>3. state' \in {state, "connected", "failed"} /\ pc' \in {pc, "terminated", "read"}
      /\ retry' \in BOOLEAN /\ eaten' \in BOOLEAN
  <2>1. CASE state = "connecting"
    BY Zenon, <1>2, <2>1 DEF Handle, HandshakeResults, AppTypeOK
  <2>2. CASE state # "connecting"
    BY Zenon, <1>2, <2>2 DEF Handle, AppTypeOK
  <2> QED BY Zenon, <2>1, <2>2
<1>4. AppTypeOK' BY Zenon, <1>1, <1>2, <1>3 DEF AppTypeOK
<1> QED BY Zenon, <1>1, <1>4, QuietKeepsQueues

\* An event of the connection's own socket: its handler runs.
LEMMA DispatchStep ==
    ASSUME QueueInv, ConnInv, Dispatch
    PROVE  QueueInv' /\ ConnInv'
<1>0. TakeEvent BY Zenon DEF Dispatch
<1>1. /\ pc = "dispatch" /\ cur' = cur /\ opened' = opened /\ smap' = smap /\ raced' = raced
      /\ sendfailed' = sendfailed /\ Head(batch) \in Entry
      /\ ~raced => Count(batch', Head(batch)) = 0
      /\ smap[Head(batch).sock].tcp # "SYN_SENT" /\ Head(batch).sock \in Socks
      /\ \A e : Count(batch', e) > 0 => Count(batch, e) > 0
  BY Zenon, <1>0, TakeEventFacts
<1>2. PICK h \in Entry : h = Head(batch) BY Zenon, <1>1
<1>3. /\ h.sock = cur /\ requested' = requested \ {h.ev} /\ Handle(h.ev) /\ dangled' = dangled
  BY Zenon, <1>2 DEF Dispatch
<1>4. cur \in Socks /\ cur # None /\ smap[cur].tcp # "SYN_SENT" BY <1>1, <1>2, <1>3 DEF Socks, None
<1>5. QueueInv'
  <2>1. dangled' \in BOOLEAN BY Zenon, <1>3 DEF QueueInv, TypeOK
  <2>2. requested' \subseteq requested BY Zenon, <1>3
  <2> QED BY Zenon, <1>0, <1>3, <2>1, <2>2, HandleType
<1>6. CASE state = "connecting"
  <2>1. /\ state' \in HandshakeResults(cur) /\ retry' = (retry \/ state' = "failed") /\ pc' = pc
    BY Zenon, <1>3, <1>6 DEF Handle
  <2>2. /\ state' \in {"connected", "failed"}
        /\ state' = "failed" => smap[cur].reason # "NOT_CLOSED"
    BY Zenon, <1>4, <2>1 DEF HandshakeResults
  <2>3. ~retry BY Zenon, <1>6 DEF ConnInv, ControlOK
  <2>4. ControlOK' BY Zenon, <1>1, <2>1, <2>2, <2>3 DEF ConnInv, ControlOK
  <2>5. OwnsSocket' BY Zenon, <1>1, <1>6, <2>1, <2>2 DEF ConnInv, OwnsSocket
  <2>6. FailedOK' BY Zenon, <1>1, <2>2 DEF FailedOK
  <2>7. StaleEventsNeedFailure' BY Zenon, <1>1, <1>3 DEF ConnInv, StaleEventsNeedFailure
  <2>8. ConnectedMeansEstablished' BY Zenon, <1>1, <1>4, <2>1 DEF ConnectedMeansEstablished
  <2>9. pc' # "wait" /\ pc' # "read" /\ (dangled => dangled') BY Zenon, <1>1, <1>3, <2>1
  <2>10. BatchOnce' /\ BatchOK' BY Zenon, <1>0, <1>4, <2>9, RestOfBatch
  <2> QED BY Zenon, <1>5, <2>4, <2>5, <2>6, <2>7, <2>8, <2>10 DEF ConnInv
<1>7. CASE state # "connecting"
  <2>1. /\ state' = state /\ retry' = retry
        /\ pc' = pc \/ (pc' = "read" /\ h.ev = "IN" /\ state = "connected")
    BY Zenon, <1>3, <1>4, <1>7 DEF Handle
  <2>2. pc' # "wait" /\ pc' # "terminated" /\ pc' # "connected_socket" /\ pc' # "attached"
    BY Zenon, <1>1, <2>1
  <2>4. ControlOK' BY Zenon, <1>1, <2>1, <2>2 DEF ConnInv, ControlOK
  <2>5. OwnsSocket' BY Zenon, <1>1, <2>1 DEF ConnInv, OwnsSocket
  <2>6. FailedOK' BY Zenon, <1>1, <1>3, <2>1 DEF ConnInv, FailedOK
  <2>7. StaleEventsNeedFailure' BY Zenon, <1>1, <1>3 DEF ConnInv, StaleEventsNeedFailure
  <2>8. ConnectedMeansEstablished' BY Zenon, <1>1, <1>4, <2>2 DEF ConnectedMeansEstablished
  <2>9. BatchOnce' BY Zenon, <1>0, <2>2, RestOfBatch
  <2>10. BatchOK'
    <3>1. CASE pc' # "read"
      <4>1. dangled => dangled' BY Zenon, <1>3
      <4> QED BY Zenon, <1>0, <1>4, <3>1, <4>1, RestOfBatch
    <3>2. CASE pc' = "read"
      <4>1. h = [sock |-> cur, ev |-> "IN"] BY Zenon, <1>1, <1>3, <2>1, <3>2 DEF Entry
      <4>2. ~raced' => ~raced /\ Count(batch', [sock |-> cur', ev |-> "IN"]) = 0
        BY Zenon, <1>1, <1>2, <4>1
      <4>3. dangled' = dangled BY Zenon, <1>3
      <4>4. ~dangled' => ~dangled BY Zenon, <4>3
      <4> QED BY Zenon, <1>1, <1>4, <4>2, <4>4 DEF ConnInv, BatchOK
    <3> QED BY Zenon, <3>1, <3>2
  <2> QED BY Zenon, <1>5, <2>4, <2>5, <2>6, <2>7, <2>8, <2>9, <2>10 DEF ConnInv
<1> QED BY Zenon, <1>6, <1>7

\* An event whose poll_state is gone: the handlers of the connection may run.
LEMMA DispatchDanglingStep ==
    ASSUME QueueInv, ConnInv, DispatchDangling
    PROVE  QueueInv' /\ ConnInv'
<1>0. TakeEvent BY Zenon DEF DispatchDangling
<1>1. /\ pc = "dispatch" /\ cur' = cur /\ opened' = opened /\ smap' = smap /\ raced' = raced
      /\ sendfailed' = sendfailed /\ Head(batch) \in Entry /\ Count(batch, Head(batch)) > 0
      /\ Head(batch).sock \in Socks
      /\ \A e : Count(batch', e) > 0 => Count(batch, e) > 0
  BY Zenon, <1>0, TakeEventFacts
<1>2. PICK h \in Entry : h = Head(batch) BY Zenon, <1>1
<1>3. /\ h.sock # cur /\ requested' \in {requested, requested \ {h.ev}}
      /\ cur = None => requested' = requested
      /\ Handle(h.ev)
  BY Zenon, <1>2 DEF DispatchDangling
<1>4. dangled' = (dangled \/ ~(state' = state /\ requested' = requested /\ pc' = pc))
  BY Zenon DEF DispatchDangling
<1>5. QueueInv'
  <2>1. dangled' \in BOOLEAN BY Zenon, <1>4
  <2>2. requested' \subseteq requested BY Zenon, <1>3
  <2> QED BY Zenon, <1>0, <1>3, <2>1, <2>2, HandleType
<1>6. ~raced /\ ~dangled => \/ smap[h.sock].epoll
                            \/ cur = None /\ state = "disconnect" /\ h.ev # "IN"
  BY Zenon, <1>1, <1>2 DEF ConnInv, BatchOK
<1>7. CASE state = "connecting"
  <2>1. /\ state' \in HandshakeResults(cur) /\ retry' = (retry \/ state' = "failed") /\ pc' = pc
    BY Zenon, <1>3, <1>7 DEF Handle
  <2>2. state' \in {"connected", "failed"} BY Zenon, <2>1 DEF HandshakeResults
  <2>3. ~retry BY Zenon, <1>7 DEF ConnInv, ControlOK
  <2>4. dangled' BY Zenon, <1>4, <1>7, <2>2
  <2>5. ControlOK' BY Zenon, <1>1, <2>1, <2>2, <2>3 DEF ConnInv, ControlOK
  <2>6. OwnsSocket' BY Zenon, <1>1, <1>7, <2>1, <2>2 DEF ConnInv, OwnsSocket
  <2>7. FailedOK' BY Zenon, <2>4 DEF FailedOK
  <2>8. StaleEventsNeedFailure'
    <3>1. raced \/ \E s \in Socks : smap[s].epoll /\ s # cur
      <4>1. CASE dangled BY Zenon, <4>1 DEF ConnInv, StaleEventsNeedFailure
      <4>2. CASE ~dangled
        <5>1. raced \/ smap[h.sock].epoll BY Zenon, <1>6, <1>7, <4>2
        <5> QED BY Zenon, <1>1, <1>2, <1>3, <5>1
      <4> QED BY Zenon, <4>1, <4>2
    <3> QED BY Zenon, <1>1, <2>4, <3>1 DEF StaleEventsNeedFailure
  <2>9. ConnectedMeansEstablished' BY Zenon, <2>4 DEF ConnectedMeansEstablished
  <2>10. BatchOK' BY Zenon, <2>4 DEF BatchOK
  <2>11. pc' # "wait" BY Zenon, <1>1, <2>1
  <2>12. BatchOnce' BY Zenon, <1>0, <2>11, RestOfBatch
  <2> QED BY Zenon, <1>5, <2>5, <2>6, <2>7, <2>8, <2>9, <2>10, <2>12 DEF ConnInv
<1>8. CASE state # "connecting"
  <2>1. /\ state' = state /\ retry' = retry
        /\ \/ pc' = "terminated" /\ h.ev = "IN"
           \/ pc' = "read" /\ h.ev = "IN" /\ state = "connected"
           \/ pc' = pc
    BY Zenon, <1>3, <1>8 DEF Handle
  <2>2. pc' # "wait" /\ pc' # "connected_socket" /\ pc' # "attached"
    BY Zenon, <1>1, <2>1
  <2>3. ControlOK' BY Zenon, <1>1, <2>1, <2>2 DEF ConnInv, ControlOK
  <2>4. OwnsSocket' BY Zenon, <1>1, <2>1 DEF ConnInv, OwnsSocket
  <2>5. BatchOnce' BY Zenon, <1>0, <2>2, RestOfBatch
  <2>6. dangled => dangled' BY Zenon, <1>4
  <2>7. FailedOK' BY Zenon, <1>1, <2>1, <2>6 DEF ConnInv, FailedOK
  <2>8. StaleEventsNeedFailure'
    <3>1. dangled' => raced \/ \E s \in Socks : smap[s].epoll /\ s # cur
      <4>1. CASE dangled BY Zenon, <4>1 DEF ConnInv, StaleEventsNeedFailure
      <4>2. CASE ~dangled /\ dangled'
        <5>1. raced \/ smap[h.sock].epoll BY Zenon, <1>3, <1>4, <1>6, <2>1, <4>2
        <5> QED BY Zenon, <1>1, <1>2, <1>3, <5>1
      <4> QED BY Zenon, <4>1, <4>2
    <3>2. \A s \in Socks : ~dangled' /\ smap[s].epoll /\ s # cur => smap[s].reason # "NOT_CLOSED"
      BY Zenon, <2>6 DEF ConnInv, StaleEventsNeedFailure
    <3> QED BY Zenon, <1>1, <3>1, <3>2 DEF StaleEventsNeedFailure
  <2>9. ~dangled' => pc' = pc BY Zenon, <1>4
  <2>10. ConnectedMeansEstablished'
    BY Zenon, <1>1, <2>1, <2>6, <2>9 DEF ConnInv, ConnectedMeansEstablished
  <2>11. BatchOK'
    <3>1. CASE dangled' BY Zenon, <3>1 DEF BatchOK
    <3>2. CASE ~dangled'
      <4>1. pc' # "read" BY ZenonT(60), <1>1, <2>9, <3>2
      <4> QED BY Zenon, <1>0, <2>1, <2>6, <4>1, RestOfBatch
    <3> QED BY Zenon, <3>1, <3>2
  <2> QED BY Zenon, <1>5, <2>3, <2>4, <2>5, <2>7, <2>8, <2>10, <2>11 DEF ConnInv
<1> QED BY Zenon, <1>7, <1>8

\* read would block.
LEMMA ReadBlocksStep ==
    ASSUME QueueInv, ConnInv, ReadBlocks
    PROVE  QueueInv' /\ ConnInv'
<1>1. /\ pc = "read" /\ pc' = "dispatch" /\ state' = state /\ cur' = cur
      /\ requested' = requested \cup {"IN"}
      /\ batch' = batch /\ retry' = retry /\ sends' = sends /\ opened' = opened /\ packets' = packets
      /\ smap' = smap /\ pend' = pend /\ UNCHANGED queues
      /\ raced' = raced /\ eaten' = eaten /\ dangled' = dangled /\ sendfailed' = sendfailed
  BY Zenon DEF ReadBlocks, AppAt, ghosts
<1>3. AppTypeOK BY Zenon, TypeParts DEF QueueInv
<1>4. AppTypeOK' BY Zenon, <1>1, <1>3 DEF AppTypeOK
<1>5. QueueInv' BY Zenon, <1>1, <1>4, QuietKeepsQueues
<1>6. ControlOK' BY Zenon, <1>1 DEF ConnInv, ControlOK
<1>7. OwnsSocket' BY Zenon, <1>1 DEF ConnInv, OwnsSocket
<1>8. FailedOK' BY Zenon, <1>1 DEF ConnInv, FailedOK
<1>9. StaleEventsNeedFailure' BY Zenon, <1>1 DEF ConnInv, StaleEventsNeedFailure
<1>10. ConnectedMeansEstablished' BY Zenon, <1>1 DEF ConnInv, ConnectedMeansEstablished
<1>11. BatchOnce' BY Zenon, <1>1 DEF ConnInv, BatchOnce
<1>12. BatchOK' BY Zenon, <1>1 DEF ConnInv, BatchOK
<1> QED BY Zenon, <1>5, <1>6, <1>7, <1>8, <1>9, <1>10, <1>11, <1>12 DEF ConnInv

\* connect throws.
LEMMA ConnectThrowsStep ==
    ASSUME QueueInv, ConnInv, ConnectThrows
    PROVE  QueueInv' /\ ConnInv'
<1>1. /\ pc = "idle" /\ pc' = "uncaught" /\ state' = state /\ cur' = cur /\ requested' = requested
      /\ batch' = batch /\ retry' = retry /\ sends' = sends /\ opened' = opened /\ packets' = packets
      /\ smap' = smap /\ pend' = pend /\ UNCHANGED queues
      /\ raced' = raced /\ eaten' = eaten /\ dangled' = dangled /\ sendfailed' = sendfailed
  BY Zenon DEF ConnectThrows, AppAt, ghosts
<1>2. batch' = <<>> BY Zenon, <1>1 DEF ConnInv, ControlOK
<1>3. AppTypeOK BY Zenon, TypeParts DEF QueueInv
<1>4. AppTypeOK' BY Zenon, <1>1, <1>3 DEF AppTypeOK
<1>5. QueueInv' BY Zenon, <1>1, <1>4, QuietKeepsQueues
<1>6. ControlOK' BY Zenon, <1>1 DEF ConnInv, ControlOK
<1>7. OwnsSocket' BY Zenon, <1>1 DEF ConnInv, OwnsSocket
<1>8. FailedOK' BY Zenon, <1>1 DEF ConnInv, FailedOK
<1>9. StaleEventsNeedFailure' BY Zenon, <1>1 DEF ConnInv, StaleEventsNeedFailure
<1>10. ConnectedMeansEstablished' BY Zenon, <1>1 DEF ConnInv, ConnectedMeansEstablished
<1>11. BatchOnce' /\ BatchOK' BY Zenon, <1>2, EmptyBatch
<1> QED BY Zenon, <1>5, <1>6, <1>7, <1>8, <1>9, <1>10, <1>11 DEF ConnInv

\* send caught an error.
LEMMA SendFailsStep ==
    ASSUME QueueInv, ConnInv, SendFails
    PROVE  QueueInv' /\ ConnInv'
<1>1. /\ pc = "idle" /\ pc' = pc /\ state = "connected" /\ state' = "disconnect" /\ cur' = cur
      /\ requested' = requested /\ sends < MaxSends /\ sends' = sends + 1
      /\ batch' = batch /\ retry' = retry /\ opened' = opened /\ packets' = packets
      /\ smap' = smap /\ pend' = pend /\ UNCHANGED queues
      /\ raced' = raced /\ eaten' = eaten /\ dangled' = dangled /\ sendfailed' = TRUE
  BY Zenon DEF SendFails, AppAt
<1>2. batch' = <<>> /\ ~retry BY Zenon, <1>1 DEF ConnInv, ControlOK
<1>3. AppTypeOK BY Zenon, TypeParts DEF QueueInv
<1>4. AppTypeOK' BY <1>1, <1>3, MtcpBounds DEF AppTypeOK
<1>5. QueueInv' BY Zenon, <1>1, <1>4, QuietKeepsQueues
<1>6. ControlOK' BY Zenon, <1>1, <1>2 DEF ConnInv, ControlOK
<1>7. OwnsSocket' BY Zenon, <1>1 DEF OwnsSocket
<1>8. FailedOK' BY Zenon, <1>1 DEF FailedOK
<1>9. StaleEventsNeedFailure' BY Zenon, <1>1 DEF ConnInv, StaleEventsNeedFailure
<1>10. ConnectedMeansEstablished' BY Zenon, <1>1 DEF ConnectedMeansEstablished
<1>11. BatchOnce' /\ BatchOK' BY Zenon, <1>2, EmptyBatch
<1> QED BY Zenon, <1>5, <1>6, <1>7, <1>8, <1>9, <1>10, <1>11 DEF ConnInv

\* mtcp_epoll_wait takes an event.
LEMMA FetchStep ==
    ASSUME QueueInv, ConnInv, Fetch
    PROVE  QueueInv' /\ ConnInv'
<1>1. PICK d \in Entry : Takes(d) BY Zenon, FetchTakes DEF QueueInv
<1>2. /\ Ready("app") /\ pc = "wait" /\ pc' = pc /\ state' = state /\ cur' = cur
      /\ requested' = requested /\ retry' = retry /\ sends' = sends /\ opened' = opened
      /\ packets' = packets /\ smap' = smap /\ mtcpq' = mtcpq
      /\ raced' = raced /\ eaten' = eaten /\ dangled' = dangled /\ sendfailed' = sendfailed
  BY Zenon DEF Fetch, AppAt, ghosts
<1>3. AppTypeOK /\ QueueTypeOK BY Zenon, TypeParts DEF QueueInv
<1>4. d.sock \in Socks /\ d.ev \in Events BY Zenon DEF Entry
<1>5. TypeOK'
  <2>1. pend' \in [{"app", "stack"} -> {NoStore} \cup Loaded]
    <3>1. smap[d.sock].events \in SUBSET Events BY Zenon, <1>3, <1>4 DEF QueueTypeOK, Socket
    <3>2. [sock |-> d.sock, old |-> smap[d.sock].events, add |-> {}, del |-> {d.ev}] \in Loaded
      BY Zenon, <1>4, <3>1 DEF Loaded
    <3>3. pend \in [{"app", "stack"} -> {NoStore} \cup Loaded] BY Zenon, <1>3 DEF QueueTypeOK
    <3>4. Update("app", d.sock, {}, {d.ev}) BY Zenon, <1>1 DEF Takes
    <3> QED BY Zenon, <3>2, <3>3, <3>4 DEF Update
  <2>2. QueueTypeOK' BY Zenon, <1>1, <1>2, <1>3, <2>1 DEF QueueTypeOK, Queue, Takes
  <2>3. AppTypeOK' BY Zenon, <1>2, <1>3 DEF AppTypeOK
  <2> QED BY Zenon, <2>2, <2>3, TypeParts
<1>6. QueueInv'
  <2>1. EventsOK' /\ StackStoreOK' /\ AppStoreOK' /\ Balance' BY Zenon, <1>1, <1>2, <1>5, FetchMoves
  <2>2. SocketsOK' BY Zenon, <1>2 DEF QueueInv, SocketsOK
  <2> QED BY Zenon, <1>5, <2>1, <2>2 DEF QueueInv
<1>7. ControlOK' BY Zenon, <1>2 DEF ConnInv, ControlOK
<1>8. OwnsSocket' BY Zenon, <1>2 DEF ConnInv, OwnsSocket
<1>9. FailedOK' BY Zenon, <1>2 DEF ConnInv, FailedOK
<1>10. StaleEventsNeedFailure' BY Zenon, <1>2 DEF ConnInv, StaleEventsNeedFailure
<1>11. ConnectedMeansEstablished' BY Zenon, <1>2 DEF ConnInv, ConnectedMeansEstablished
<1>12. \A e : /\ Count(usrq, e) \in Nat /\ Count(shadowq, e) \in Nat /\ Count(batch, e) \in Nat
              /\ Count(mtcpq.q, e) \in Nat
              /\ Count(usrq', e) \in Nat /\ Count(shadowq', e) \in Nat
              /\ Count(usrq', e) + Count(shadowq', e) + Is(d, e) = Count(usrq, e) + Count(shadowq, e)
  BY Zenon, <1>1, QueuedType DEF QueueInv, Takes
<1>13. \A e \in Entry : Is(d, e) = IF d = e THEN 1 ELSE 0 BY Zenon DEF Is
<1>14. \/ batch' = batch
       \/ /\ smap[d.sock].used /\ smap[d.sock].epoll /\ batch' = Append(batch, d)
          /\ \A e : Count(batch', e) = Count(batch, e) + Is(d, e)
  <2>1. batch \in Seq(Entry) BY Zenon, <1>3 DEF QueueTypeOK
  <2>2. \A e : Count(Append(batch, d), e) = Count(batch, e) + Is(d, e) BY Zenon, <2>1, CountAppend
  <2> QED BY Zenon, <1>1, <2>2 DEF Takes
<1>15. ~raced' => ~raced BY Zenon, <1>2
<1>16. BatchOnce'
  <2> SUFFICES ASSUME ~raced, NEW e \in Entry
               PROVE  /\ Count(batch', e) <= 1
                      /\ Count(batch', e) > 0 => Count(usrq', e) + Count(shadowq', e) = 0
    BY Zenon, <1>15 DEF BatchOnce
  <2>1. /\ Count(batch, e) <= 1
        /\ Count(batch, e) > 0 => Count(usrq, e) + Count(shadowq, e) = 0
    BY Zenon, <1>2 DEF ConnInv, BatchOnce
  <2>2. CASE batch' = batch BY <1>12, <1>13, <2>1, <2>2
  <2>3. CASE smap[d.sock].used /\ \A x : Count(batch', x) = Count(batch, x) + Is(d, x)
    <3>1. CASE d # e BY <1>12, <1>13, <2>1, <2>3, <3>1
    <3>2. CASE d = e
      <4>1. Count(usrq, e) + Count(shadowq, e) <= 1
        <5>1. Balanced(d) BY Zenon, <2>3 DEF QueueInv, Balance
        <5>2. Clearing("app", d) = 0 /\ Adding("app", d) = 0
          <6>1. pend["app"].sock # d.sock BY <1>2, <1>4 DEF Ready, NoStore, None, Socks
          <6> QED BY Zenon, <6>1 DEF Clearing, Adding
        <5>3. Adding("stack", d) = 0 \/ (Adding("stack", d) = 1 /\ Count(mtcpq.q, d) > 0)
          <6>1. CASE ~(pend["stack"].sock = d.sock /\ d.ev \in pend["stack"].add)
            BY Zenon, <6>1 DEF Adding
          <6>2. CASE pend["stack"].sock = d.sock /\ d.ev \in pend["stack"].add
            <7>1. pend["stack"] # NoStore BY <1>4, <6>2 DEF NoStore, None, Socks
            <7>2. PICK ev \in Events : /\ pend["stack"].add = {ev}
                                       /\ Count(mtcpq.q, [sock |-> pend["stack"].sock, ev |-> ev]) > 0
              BY Zenon, <7>1 DEF QueueInv, StackStoreOK
            <7>3. ev = d.ev BY Zenon, <6>2, <7>2
            <7>4. d = [sock |-> d.sock, ev |-> d.ev] BY Zenon DEF Entry
            <7>5. Count(mtcpq.q, d) > 0 BY Zenon, <6>2, <7>2, <7>3, <7>4
            <7> QED BY Zenon, <6>2, <7>5 DEF Adding
          <6> QED BY Zenon, <6>1, <6>2
        <5>4. Set(d) \in {0, 1} BY Zenon DEF Set
        <5>5. Count(mtcpq.q, d) + Count(usrq, d) + Count(shadowq, d) = Set(d) + Adding("stack", d)
          BY <1>12, <5>1, <5>2, <5>3, <5>4 DEF Balanced, Queued
        <5> QED BY <1>12, <3>2, <5>3, <5>4, <5>5
      <4>2. Count(usrq, e) + Count(shadowq, e) > 0 BY Zenon, <1>1, <3>2 DEF Takes
      <4>3. Is(d, e) = 1 BY Zenon, <1>13, <3>2
      <4> QED BY <1>12, <2>1, <2>3, <4>1, <4>2, <4>3
    <3> QED BY Zenon, <3>1, <3>2
  <2> QED BY Zenon, <1>14, <2>2, <2>3
<1>17. BatchOK'
  <2> SUFFICES ASSUME ~raced, ~dangled, NEW e \in Entry, Count(batch', e) > 0
               PROVE  smap[e.sock].epoll \/ (cur = None /\ state = "disconnect" /\ e.ev # "IN")
    <3>1. ~dangled' => ~dangled BY Zenon, <1>2
    <3>2. pc' # "read" BY Zenon, <1>2
    <3> QED BY Zenon, <1>2, <1>15, <3>1, <3>2 DEF BatchOK
  <2>1. CASE Count(batch, e) > 0 BY Zenon, <2>1 DEF ConnInv, BatchOK
  <2>2. CASE ~(Count(batch, e) > 0)
    <3>1. batch' # batch BY Zenon, <2>2
    <3>2. smap[d.sock].epoll /\ Count(batch', e) = Count(batch, e) + Is(d, e) BY Zenon, <1>14, <3>1
    <3>3. Is(d, e) # 0 BY <1>12, <2>2, <3>2
    <3>4. d = e BY Zenon, <1>13, <3>3
    <3> QED BY Zenon, <3>2, <3>4
  <2> QED BY Zenon, <2>1, <2>2
<1> QED BY Zenon, <1>6, <1>7, <1>8, <1>9, <1>10, <1>11, <1>16, <1>17 DEF ConnInv

-----------------------------------------------------------------------------
(* Steps of the application that touch a socket. *)

\* A registered socket is open, and so is one with a stream.
LEMMA UsedIsOpened ==
    ASSUME QueueInv, NEW s \in Socks, smap[s].used
    PROVE  s <= opened
<1>1. opened \in Nat /\ s \in Nat BY DEF QueueInv, TypeOK, Socks
<1>2. s > opened => smap[s] = Unused BY Zenon DEF QueueInv, SocketsOK
<1> QED BY <1>1, <1>2 DEF Unused

\* The application may add an event of an open socket after the handshake.
LEMMA AppEvent ==
    ASSUME QueueInv, AppTypeOK', SocketsOK', Keeps, smap' \in [Socks -> Socket],
           UNCHANGED <<batch, raced, packets>>,
           NEW s \in Socks, NEW ev \in Events, Ready("app"),
           \/ AppAddEvent(s, ev) /\ s <= opened /\ smap'[s].tcp # "SYN_SENT"
           \/ UNCHANGED <<queues, pend>>
    PROVE  QueueInv'
<1>1. QueueTypeOK BY Zenon, TypeParts DEF QueueInv
<1>2. opened' = opened /\ batch' = batch /\ raced' = raced /\ packets' = packets
  BY Zenon DEF Keeps
<1>3. CASE UNCHANGED <<queues, pend>>
  <2>1. mtcpq' = mtcpq /\ usrq' = usrq /\ shadowq' = shadowq /\ pend' = pend
    BY Zenon, <1>3 DEF queues
  <2>2. QueueTypeOK' BY Zenon, <1>1, <1>2, <2>1 DEF QueueTypeOK, Queue
  <2>3. \A e \in Entry : Count(batch', e) \in Nat /\ Count(batch', e) <= Count(batch, e)
    <3>1. \A e : Count(batch, e) \in Nat BY Zenon, QueuedType DEF QueueInv
    <3> QED BY <1>2, <3>1
  <2>4. UNCHANGED <<queues, pend, raced>> BY Zenon, <1>2, <1>3
  <2>5. EventsOK' /\ StackStoreOK' /\ AppStoreOK' /\ Balance' BY Zenon, <2>3, <2>4, SameQueues
  <2> QED BY Zenon, <2>2, <2>5, TypeParts DEF QueueInv
<1>4. CASE AppAddEvent(s, ev) /\ s <= opened /\ smap'[s].tcp # "SYN_SENT" /\ ~Queues(s, ev, shadowq)
  <2>1. UNCHANGED <<queues, pend>> BY Zenon, <1>4 DEF AppAddEvent, queues
  <2> QED BY Zenon, <2>1, <1>3
<1>5. CASE AppAddEvent(s, ev) /\ s <= opened /\ smap'[s].tcp # "SYN_SENT" /\ Queues(s, ev, shadowq)
  <2>1. /\ shadowq' = Append(shadowq, [sock |-> s, ev |-> ev]) /\ Update("app", s, {ev}, {})
        /\ mtcpq' = mtcpq /\ usrq' = usrq
    BY Zenon, <1>5 DEF AppAddEvent
  <2>2. ev \notin smap[s].events /\ Len(shadowq) + 1 # Size
    BY Zenon, <1>5 DEF Queues, EventQueFull
  <2>3. Queue(shadowq')
    <3>1. [sock |-> s, ev |-> ev] \in Entry BY Zenon DEF Entry
    <3>2. shadowq \in Seq(Entry) /\ Len(shadowq) < Size /\ Len(shadowq) \in Nat
      BY <1>1 DEF QueueTypeOK, Queue
    <3>3. Size \in Nat BY MtcpBounds DEF Size
    <3>4. shadowq' \in Seq(Entry) /\ Len(shadowq') = Len(shadowq) + 1
      BY <2>1, <3>1, <3>2
    <3> QED BY <2>2, <3>2, <3>3, <3>4 DEF Queue
  <2>4. pend' \in [{"app", "stack"} -> {NoStore} \cup Loaded]
    <3>1. smap[s].events \in SUBSET Events BY Zenon, <1>1 DEF QueueTypeOK, Socket
    <3>2. [sock |-> s, old |-> smap[s].events, add |-> {ev}, del |-> {}] \in Loaded
      BY Zenon, <3>1 DEF Loaded
    <3>3. pend \in [{"app", "stack"} -> {NoStore} \cup Loaded] BY Zenon, <1>1 DEF QueueTypeOK
    <3> QED BY Zenon, <2>1, <3>2, <3>3 DEF Update
  <2>5. QueueTypeOK' BY Zenon, <1>1, <1>2, <2>1, <2>3, <2>4 DEF QueueTypeOK, Queue
  <2>6. TypeOK' BY Zenon, <2>5, TypeParts
  <2>7. UNCHANGED <<mtcpq, usrq, batch, raced>> BY Zenon, <1>2, <2>1
  <2>8. EventsOK' /\ StackStoreOK' /\ AppStoreOK' /\ Balance'
    BY Zenon, <1>5, <2>1, <2>2, <2>6, <2>7, AppAdds
  <2> QED BY Zenon, <2>6, <2>8 DEF QueueInv
<1> QED BY Zenon, <1>3, <1>4, <1>5

\* A step that changes nothing of the connection but the data of its stream.
LEMMA SameConn ==
    ASSUME ConnInv, UNCHANGED <<state, cur, retry, opened, batch, ghosts>>,
           pc' # "wait", pc' = pc \/ (pc = "attached" /\ pc' = "idle"),
           \A s \in Socks : /\ smap'[s].used = smap[s].used /\ smap'[s].epoll = smap[s].epoll
                            /\ smap'[s].tcp = smap[s].tcp /\ smap'[s].reason = smap[s].reason,
           cur \in Socks
    PROVE  ConnInv'
<1>1. /\ state' = state /\ cur' = cur /\ retry' = retry /\ opened' = opened /\ batch' = batch
      /\ raced' = raced /\ eaten' = eaten /\ dangled' = dangled /\ sendfailed' = sendfailed
  BY Zenon DEF ghosts
<1>6. ControlOK' BY <1>1 DEF ConnInv, ControlOK
<1>7. OwnsSocket' BY Zenon, <1>1 DEF ConnInv, OwnsSocket
<1>8. FailedOK' BY Zenon, <1>1 DEF ConnInv, FailedOK
<1>9. StaleEventsNeedFailure' BY Zenon, <1>1 DEF ConnInv, StaleEventsNeedFailure
<1>10. ConnectedMeansEstablished' BY Zenon, <1>1 DEF ConnInv, ConnectedMeansEstablished
<1>11. BatchOnce' BY Zenon, <1>1 DEF ConnInv, BatchOnce
<1>12. BatchOK'
  <2>1. \A e \in Entry : e.sock \in Socks BY Zenon DEF Entry
  <2> QED BY Zenon, <1>1, <2>1 DEF ConnInv, BatchOK
<1> QED BY Zenon, <1>6, <1>7, <1>8, <1>9, <1>10, <1>11, <1>12 DEF ConnInv

\* attach_to_loop of a reconnect: RaisePendingStreamEvents looks for room.
LEMMA AttachOutStep ==
    ASSUME QueueInv, ConnInv, AttachOut
    PROVE  QueueInv' /\ ConnInv'
<1>1. /\ Ready("app") /\ pc = "attached" /\ pc' = "idle" /\ state' = state /\ cur' = cur
      /\ requested' = requested /\ batch' = batch /\ retry' = retry /\ sends' = sends
      /\ opened' = opened /\ packets' = packets /\ smap' = smap /\ UNCHANGED ghosts
      /\ \/ Established(cur) /\ AppAddEvent(cur, "OUT")
         \/ UNCHANGED <<queues, pend>>
  BY Zenon DEF AttachOut, AppAt
<1>2. raced' = raced /\ eaten' = eaten /\ dangled' = dangled /\ sendfailed' = sendfailed
  BY Zenon, <1>1 DEF ghosts
<1>3. AppTypeOK /\ QueueTypeOK BY Zenon, TypeParts DEF QueueInv
<1>4. AppTypeOK' BY Zenon, <1>1, <1>2, <1>3 DEF AppTypeOK
<1>5. cur \in Socks /\ smap[cur].used /\ cur <= opened
  <2>1. cur \in Socks /\ smap[cur].used BY Zenon, <1>1, <1>3 DEF ConnInv, ControlOK, OwnsSocket, AppTypeOK
  <2> QED BY Zenon, <2>1, UsedIsOpened
<1>6. SocketsOK' BY Zenon, <1>1 DEF QueueInv, SocketsOK
<1>7. Keeps BY Zenon, <1>1 DEF Keeps
<1>8. \/ AppAddEvent(cur, "OUT") /\ cur <= opened /\ smap'[cur].tcp # "SYN_SENT"
      \/ UNCHANGED <<queues, pend>>
  BY Zenon, <1>1, <1>5 DEF Established
<1>9. smap' \in [Socks -> Socket] /\ "OUT" \in Events /\ UNCHANGED <<batch, raced, packets>>
  BY Zenon, <1>1, <1>2, <1>3 DEF QueueTypeOK, Events
<1>10. QueueInv' BY Zenon, <1>1, <1>4, <1>5, <1>6, <1>7, <1>8, <1>9, AppEvent
<1>11. ConnInv'
  <2>1. UNCHANGED <<state, cur, retry, opened, batch, ghosts>> BY Zenon, <1>1
  <2>2. pc' # "wait" BY Zenon, <1>1
  <2>3. \A s \in Socks : /\ smap'[s].used = smap[s].used /\ smap'[s].epoll = smap[s].epoll
                         /\ smap'[s].tcp = smap[s].tcp /\ smap'[s].reason = smap[s].reason
    BY Zenon, <1>1
  <2> QED BY Zenon, <1>1, <1>5, <2>1, <2>2, <2>3, SameConn
<1> QED BY Zenon, <1>10, <1>11

\* The socket of a connected connection.
LEMMA ConnectedSocket ==
    ASSUME QueueInv, ConnInv, state = "connected", pc # "terminated"
    PROVE  /\ cur \in Socks /\ smap[cur].used /\ smap[cur].epoll /\ cur <= opened
           /\ smap \in [Socks -> Socket] /\ smap[cur] \in Socket
<1>1. cur \in Socks /\ smap[cur].used /\ smap[cur].epoll
  BY Zenon DEF QueueInv, ConnInv, OwnsSocket, TypeOK
<1>2. smap \in [Socks -> Socket] BY Zenon DEF QueueInv, TypeOK
<1> QED BY Zenon, <1>1, <1>2, UsedIsOpened

\* Changing the data of one stream keeps what the invariants say of the sockets.
LEMMA StreamData ==
    ASSUME QueueInv, NEW s \in Socks, NEW n \in 0 .. packets, NEW u \in BOOLEAN,
           smap' = [smap EXCEPT ![s] = [smap[s] EXCEPT !.merged_len = n, !.unacked = u]],
           smap[s].used, UNCHANGED <<opened, packets>>
    PROVE  /\ smap' \in [Socks -> Socket] /\ SocketsOK' /\ Keeps
           /\ \A x \in Socks : /\ smap'[x].used = smap[x].used /\ smap'[x].epoll = smap[x].epoll
                               /\ smap'[x].tcp = smap[x].tcp /\ smap'[x].reason = smap[x].reason
<1>1. smap \in [Socks -> Socket] /\ packets \in 0 .. MaxPackets BY Zenon DEF QueueInv, TypeOK
<1>2. PICK str \in Socket : /\ str = [smap[s] EXCEPT !.merged_len = n, !.unacked = u]
                            /\ str.used = smap[s].used /\ str.epoll = smap[s].epoll
                            /\ str.events = smap[s].events
                            /\ str.tcp = smap[s].tcp /\ str.reason = smap[s].reason
                            /\ str.merged_len = n
  <2>1. smap[s] \in Socket /\ n \in 0 .. MaxPackets BY <1>1, MtcpBounds
  <2> DEFINE r == [smap[s] EXCEPT !.merged_len = n, !.unacked = u]
  <2>2. r \in Socket BY Zenon, <2>1 DEF Socket
  <2>3. r.used = smap[s].used /\ r.epoll = smap[s].epoll /\ r.events = smap[s].events
        /\ r.tcp = smap[s].tcp /\ r.reason = smap[s].reason /\ r.merged_len = n
    BY Zenon, <2>1 DEF Socket
  <2> QED BY Zenon, <2>2, <2>3
<1>3. smap'[s] = str /\ \A x \in Socks : x # s => smap'[x] = smap[x]
  BY Zenon, <1>1, <1>2
<1>4. smap' \in [Socks -> Socket] BY Zenon, <1>1, <1>2
<1>5. \A x \in Socks : /\ smap'[x].used = smap[x].used /\ smap'[x].epoll = smap[x].epoll
                       /\ smap'[x].tcp = smap[x].tcp /\ smap'[x].reason = smap[x].reason
                       /\ smap'[x].events = smap[x].events
  BY Zenon, <1>2, <1>3
<1>6. Keeps BY Zenon, <1>5 DEF Keeps
<1>7. s <= opened /\ opened \in Nat /\ s \in Nat
  <2>1. s <= opened BY Zenon, UsedIsOpened
  <2> QED BY <2>1 DEF QueueInv, TypeOK, Socks
<1>8. SocketsOK'
  <2> SUFFICES ASSUME NEW x \in Socks
               PROVE  /\ x > opened => smap'[x] = Unused
                      /\ smap'[x].epoll \/ smap'[x].tcp # "NONE" => smap'[x].used
                      /\ smap'[x].merged_len <= packets
    BY Zenon DEF SocketsOK
  <2>1. /\ x > opened => smap[x] = Unused
        /\ smap[x].epoll \/ smap[x].tcp # "NONE" => smap[x].used
        /\ smap[x].merged_len <= packets
    BY Zenon DEF QueueInv, SocketsOK
  <2>2. CASE x # s BY Zenon, <1>3, <2>1, <2>2
  <2>3. CASE x = s
    <3>1. ~(x > opened) BY <1>7, <2>3
    <3>2. smap'[x].merged_len <= packets BY <1>1, <1>2, <1>3, <2>3
    <3> QED BY Zenon, <1>5, <2>1, <3>1, <3>2
  <2> QED BY Zenon, <2>2, <2>3
<1> QED BY Zenon, <1>4, <1>5, <1>6, <1>8

\* mtcp_recv returned data.
LEMMA ReadSomeStep ==
    ASSUME QueueInv, ConnInv, ReadSome
    PROVE  QueueInv' /\ ConnInv'
<1>1. /\ Ready("app") /\ pc = "read" /\ pc' = pc /\ state' = state /\ cur' = cur
      /\ requested' = requested \cup {"IN"} /\ batch' = batch /\ retry' = retry /\ sends' = sends
      /\ opened' = opened /\ packets' = packets /\ UNCHANGED ghosts /\ Established(cur)
      /\ \E n \in 1 .. smap[cur].merged_len :
             /\ smap' = [smap EXCEPT ![cur].merged_len = smap[cur].merged_len - n]
             /\ AppAddEvent(cur, "IN") \/ UNCHANGED <<queues, pend>>
  BY Zenon DEF ReadSome, AppAt
<1>2. raced' = raced /\ eaten' = eaten /\ dangled' = dangled /\ sendfailed' = sendfailed
  BY Zenon, <1>1 DEF ghosts
<1>3. AppTypeOK BY Zenon, TypeParts DEF QueueInv
<1>4. AppTypeOK' BY Zenon, <1>1, <1>2, <1>3 DEF AppTypeOK
<1>5. state = "connected" /\ pc # "terminated" BY Zenon, <1>1 DEF ConnInv, ControlOK
<1>6. /\ cur \in Socks /\ smap[cur].used /\ cur <= opened
      /\ smap \in [Socks -> Socket] /\ smap[cur] \in Socket
  BY Zenon, <1>5, ConnectedSocket
<1>7. PICK n \in 1 .. smap[cur].merged_len :
             /\ smap' = [smap EXCEPT ![cur].merged_len = smap[cur].merged_len - n]
             /\ AppAddEvent(cur, "IN") \/ UNCHANGED <<queues, pend>>
  BY Zenon, <1>1
<1>8. PICK m \in 0 .. packets : m = smap[cur].merged_len - n
  <2>1. smap[cur].merged_len <= packets BY Zenon, <1>6 DEF QueueInv, SocketsOK
  <2>2. smap[cur].merged_len \in Nat /\ packets \in Nat
    BY <1>6, MtcpBounds DEF Socket, QueueInv, TypeOK
  <2> QED BY <2>1, <2>2
<1>9. smap' = [smap EXCEPT ![cur] = [smap[cur] EXCEPT !.merged_len = m, !.unacked = smap[cur].unacked]]
  <2>1. [smap[cur] EXCEPT !.merged_len = m, !.unacked = smap[cur].unacked]
            = [smap[cur] EXCEPT !.merged_len = m]
    BY Zenon, <1>6 DEF Socket
  <2>2. smap' = [smap EXCEPT ![cur] = [smap[cur] EXCEPT !.merged_len = m]] BY Zenon, <1>7, <1>8
  <2> QED BY Zenon, <2>1, <2>2
<1>10. smap[cur].unacked \in BOOLEAN BY Zenon, <1>6 DEF Socket
<1>11. /\ smap' \in [Socks -> Socket] /\ SocketsOK' /\ Keeps
       /\ \A x \in Socks : /\ smap'[x].used = smap[x].used /\ smap'[x].epoll = smap[x].epoll
                           /\ smap'[x].tcp = smap[x].tcp /\ smap'[x].reason = smap[x].reason
  BY Zenon, <1>1, <1>6, <1>9, <1>10, StreamData
<1>12. \/ AppAddEvent(cur, "IN") /\ cur <= opened /\ smap'[cur].tcp # "SYN_SENT"
       \/ UNCHANGED <<queues, pend>>
  <2>1. smap'[cur].tcp # "SYN_SENT" BY Zenon, <1>1, <1>6, <1>11 DEF Established
  <2> QED BY Zenon, <1>6, <1>7, <2>1
<1>13. "IN" \in Events /\ UNCHANGED <<batch, raced, packets>> BY Zenon, <1>1, <1>2 DEF Events
<1>14. QueueInv' BY Zenon, <1>1, <1>4, <1>6, <1>11, <1>12, <1>13, AppEvent
<1>15. ConnInv'
  <2>1. UNCHANGED <<state, cur, retry, opened, batch, ghosts>> BY Zenon, <1>1
  <2>2. pc' # "wait" BY Zenon, <1>1
  <2> QED BY Zenon, <1>1, <1>6, <1>11, <2>1, <2>2, SameConn
<1> QED BY Zenon, <1>14, <1>15

\* send_packet wrote some or all of the request.
LEMMA SendStep ==
    ASSUME QueueInv, ConnInv, Send
    PROVE  QueueInv' /\ ConnInv'
<1>1. /\ Ready("app") /\ pc = "idle" /\ pc' = pc /\ state = "connected" /\ state' = state /\ cur' = cur
      /\ batch' = batch /\ retry' = retry /\ sends < MaxSends /\ sends' = sends + 1
      /\ opened' = opened /\ packets' = packets /\ UNCHANGED ghosts /\ Established(cur)
      /\ \E all \in BOOLEAN :
             /\ smap' = [smap EXCEPT ![cur].unacked = smap[cur].unacked \/ all]
             /\ AppAddEvent(cur, "OUT") \/ UNCHANGED <<queues, pend>>
             /\ requested' = IF all THEN requested \cup {"IN"} ELSE requested
  BY Zenon DEF Send, AppAt
<1>2. raced' = raced /\ eaten' = eaten /\ dangled' = dangled /\ sendfailed' = sendfailed
  BY Zenon, <1>1 DEF ghosts
<1>3. AppTypeOK BY Zenon, TypeParts DEF QueueInv
<1>5. pc # "terminated" BY Zenon, <1>1
<1>6. /\ cur \in Socks /\ smap[cur].used /\ cur <= opened
      /\ smap \in [Socks -> Socket] /\ smap[cur] \in Socket
  BY Zenon, <1>1, <1>5, ConnectedSocket
<1>7. PICK all \in BOOLEAN :
             /\ smap' = [smap EXCEPT ![cur].unacked = smap[cur].unacked \/ all]
             /\ AppAddEvent(cur, "OUT") \/ UNCHANGED <<queues, pend>>
             /\ requested' = IF all THEN requested \cup {"IN"} ELSE requested
  BY Zenon, <1>1
<1>4. AppTypeOK'
  <2>1. requested' \subseteq {"IN", "OUT"} BY Zenon, <1>3, <1>7 DEF AppTypeOK
  <2> QED BY <1>1, <1>2, <1>3, <2>1, MtcpBounds DEF AppTypeOK
<1>8. PICK u \in BOOLEAN : u = (smap[cur].unacked \/ all) BY Zenon
<1>9. smap' = [smap EXCEPT ![cur] = [smap[cur] EXCEPT !.merged_len = smap[cur].merged_len, !.unacked = u]]
  <2>1. [smap[cur] EXCEPT !.merged_len = smap[cur].merged_len, !.unacked = u]
            = [smap[cur] EXCEPT !.unacked = u]
    BY Zenon, <1>6 DEF Socket
  <2>2. smap' = [smap EXCEPT ![cur] = [smap[cur] EXCEPT !.unacked = u]] BY Zenon, <1>7, <1>8
  <2> QED BY Zenon, <2>1, <2>2
<1>10. smap[cur].merged_len \in 0 .. packets
  <2>1. smap[cur].merged_len <= packets BY Zenon, <1>6 DEF QueueInv, SocketsOK
  <2> QED BY <1>6, <2>1, MtcpBounds DEF Socket, QueueInv, TypeOK
<1>11. /\ smap' \in [Socks -> Socket] /\ SocketsOK' /\ Keeps
       /\ \A x \in Socks : /\ smap'[x].used = smap[x].used /\ smap'[x].epoll = smap[x].epoll
                           /\ smap'[x].tcp = smap[x].tcp /\ smap'[x].reason = smap[x].reason
  BY Zenon, <1>1, <1>6, <1>9, <1>10, StreamData
<1>12. \/ AppAddEvent(cur, "OUT") /\ cur <= opened /\ smap'[cur].tcp # "SYN_SENT"
       \/ UNCHANGED <<queues, pend>>
  <2>1. smap'[cur].tcp # "SYN_SENT" BY Zenon, <1>1, <1>6, <1>11 DEF Established
  <2> QED BY Zenon, <1>6, <1>7, <2>1
<1>13. "OUT" \in Events /\ UNCHANGED <<batch, raced, packets>> BY Zenon, <1>1, <1>2 DEF Events
<1>14. QueueInv' BY Zenon, <1>1, <1>4, <1>6, <1>11, <1>12, <1>13, AppEvent
<1>15. ConnInv'
  <2>1. UNCHANGED <<state, cur, retry, opened, batch, ghosts>> BY Zenon, <1>1
  <2>2. pc' # "wait" BY Zenon, <1>1
  <2> QED BY Zenon, <1>1, <1>6, <1>11, <2>1, <2>2, SameConn
<1> QED BY Zenon, <1>14, <1>15

\* close_socket of the socket of a connection: everything that refers to the
\* socket may stay where it is.
LEMMA DropsSocket ==
    ASSUME QueueInv, ConnInv, AppTypeOK', state = "connected", pc # "terminated",
           NEW next, Drops(cur, next), UNCHANGED <<opened, packets, batch, queues, pend, raced>>
    PROVE  /\ QueueInv' /\ cur \in Socks /\ ~smap'[cur].epoll
           /\ \A x \in Socks : x # cur => smap'[x] = smap[x]
<1>1. /\ cur \in Socks /\ smap[cur].used /\ smap[cur].epoll /\ cur <= opened
      /\ smap \in [Socks -> Socket] /\ smap[cur] \in Socket
  BY Zenon, ConnectedSocket
<1>2. /\ opened' = opened /\ packets' = packets /\ batch' = batch /\ mtcpq' = mtcpq /\ usrq' = usrq
      /\ shadowq' = shadowq /\ pend' = pend /\ raced' = raced
  BY Zenon DEF queues
<1>3. PICK str \in Socket : /\ smap' = [smap EXCEPT ![cur] = str]
                            /\ ~str.used /\ ~str.epoll /\ str.tcp = "NONE"
                            /\ str.merged_len = smap[cur].merged_len
  <2> DEFINE r == [smap[cur] EXCEPT !.used = FALSE, !.epoll = FALSE, !.events = {}, !.tcp = "NONE"]
  <2>1. r \in Socket BY Zenon, <1>1 DEF Socket
  <2>2. ~r.used /\ ~r.epoll /\ r.tcp = "NONE" /\ r.merged_len = smap[cur].merged_len
    BY Zenon, <1>1 DEF Socket
  <2>3. smap' = [smap EXCEPT ![cur] = r] BY Zenon, <1>1 DEF Drops
  <2> QED BY Zenon, <2>1, <2>2, <2>3
<1>4. smap'[cur] = str /\ \A x \in Socks : x # cur => smap'[x] = smap[x] BY Zenon, <1>1, <1>3
<1>5. smap' \in [Socks -> Socket] BY Zenon, <1>1, <1>3
<1>6. Keeps
  <2>1. "NONE" # "SYN_SENT" BY Zenon
  <2> QED BY Zenon, <1>2, <1>3, <1>4, <2>1 DEF Keeps
<1>7. QueueTypeOK BY Zenon, TypeParts DEF QueueInv
<1>8. QueueTypeOK' BY Zenon, <1>2, <1>5, <1>7 DEF QueueTypeOK, Queue
<1>9. SocketsOK'
  <2> SUFFICES ASSUME NEW x \in Socks
               PROVE  /\ x > opened => smap'[x] = Unused
                      /\ smap'[x].epoll \/ smap'[x].tcp # "NONE" => smap'[x].used
                      /\ smap'[x].merged_len <= packets
    BY Zenon, <1>2 DEF SocketsOK
  <2>1. /\ x > opened => smap[x] = Unused
        /\ smap[x].epoll \/ smap[x].tcp # "NONE" => smap[x].used
        /\ smap[x].merged_len <= packets
    BY Zenon DEF QueueInv, SocketsOK
  <2>2. CASE x # cur BY Zenon, <1>4, <2>1, <2>2
  <2>3. CASE x = cur
    <3>1. ~(x > opened) BY <1>1, <1>7, <2>3 DEF QueueTypeOK, Socks
    <3> QED BY Zenon, <1>3, <1>4, <2>1, <2>3, <3>1
  <2> QED BY Zenon, <2>2, <2>3
<1>10. EventsOK' /\ StackStoreOK' /\ AppStoreOK' /\ Balance'
  <2>1. \A e : Count(batch, e) \in Nat BY Zenon, QueuedType DEF QueueInv
  <2>2. \A e \in Entry : Count(batch', e) \in Nat /\ Count(batch', e) <= Count(batch, e)
    BY <1>2, <2>1
  <2> QED BY Zenon, <1>6, <2>2, SameQueues
<1> QED BY Zenon, <1>1, <1>3, <1>4, <1>8, <1>9, <1>10, TypeParts DEF QueueInv

\* After that no other socket is registered that was not before.
LEMMA DropsStale ==
    ASSUME QueueInv, ConnInv, cur' = None, cur \in Socks, ~smap'[cur].epoll,
           \A x \in Socks : x # cur => smap'[x] = smap[x], UNCHANGED <<raced, dangled>>
    PROVE  StaleEventsNeedFailure'
<1>1. raced' = raced /\ dangled' = dangled /\ \A s \in Socks : s # None
  BY DEF Socks, None
<1>2. dangled => raced \/ \E s \in Socks : smap'[s].epoll /\ s # cur'
  BY Zenon, <1>1 DEF ConnInv, StaleEventsNeedFailure
<1>3. ~dangled => \A s \in Socks : smap'[s].epoll /\ s # cur' => smap'[s].reason # "NOT_CLOSED"
  BY Zenon, <1>1 DEF ConnInv, StaleEventsNeedFailure
<1> QED BY <1>1, <1>2, <1>3 DEF StaleEventsNeedFailure

\* The peer closed, or the read failed.
LEMMA ReadEndsStep ==
    ASSUME QueueInv, ConnInv, ReadEnds
    PROVE  QueueInv' /\ ConnInv'
<1>1. /\ pc = "read" /\ state' = "disconnect" /\ retry' = TRUE /\ Drops(cur, "dispatch")
      /\ requested' = requested /\ batch' = batch /\ sends' = sends /\ opened' = opened
      /\ UNCHANGED <<opened, packets, batch, queues, pend, raced>>
      /\ raced' = raced /\ eaten' = eaten /\ dangled' = dangled /\ sendfailed' = sendfailed
  BY Zenon DEF ReadEnds, AppAt, ghosts
<1>2. cur' = None /\ pc' = IF smap[cur].tcp = "SYN_SENT" THEN "terminated" ELSE "dispatch"
  BY Zenon, <1>1 DEF Drops
<1>3. AppTypeOK /\ QueueTypeOK BY Zenon, TypeParts DEF QueueInv
<1>4. AppTypeOK' BY Zenon, <1>1, <1>2, <1>3 DEF AppTypeOK
<1>5. state = "connected" /\ pc # "terminated" BY Zenon, <1>1 DEF ConnInv, ControlOK
<1>6. /\ QueueInv' /\ cur \in Socks /\ ~smap'[cur].epoll
      /\ \A x \in Socks : x # cur => smap'[x] = smap[x]
  BY Zenon, <1>1, <1>4, <1>5, DropsSocket
<1>7. ControlOK' BY <1>1, <1>2, <1>3 DEF ControlOK, None, QueueTypeOK
<1>8. OwnsSocket' BY Zenon, <1>1, <1>2 DEF OwnsSocket
<1>9. FailedOK' BY Zenon, <1>1 DEF FailedOK
<1>10. StaleEventsNeedFailure' BY Zenon, <1>1, <1>2, <1>6, DropsStale
<1>11. ConnectedMeansEstablished'
  BY Zenon, <1>1, <1>2, <1>5 DEF ConnInv, ConnectedMeansEstablished
<1>12. BatchOnce' BY <1>1, <1>2 DEF ConnInv, BatchOnce
<1>13. BatchOK'
  <2> SUFFICES ASSUME ~raced, ~dangled, NEW e \in Entry, Count(batch, e) > 0
               PROVE  smap'[e.sock].epoll \/ e.ev # "IN"
    <3>1. pc' # "read" /\ (~raced' => ~raced) /\ (~dangled' => ~dangled) BY <1>1, <1>2
    <3> QED BY Zenon, <1>1, <1>2, <3>1 DEF BatchOK
  <2>1. e.sock \in Socks /\ e = [sock |-> e.sock, ev |-> e.ev] BY Zenon DEF Entry
  <2>2. CASE e.sock # cur
    <3>1. smap[e.sock].epoll BY Zenon, <1>5 DEF ConnInv, BatchOK
    <3> QED BY Zenon, <1>6, <2>1, <2>2, <3>1
  <2>3. CASE e.sock = cur
    <3>1. Count(batch, [sock |-> cur, ev |-> "IN"]) = 0 BY Zenon, <1>1 DEF ConnInv, BatchOK
    <3>2. ASSUME e.ev = "IN" PROVE FALSE
      <4>1. e = [sock |-> cur, ev |-> "IN"] BY Zenon, <2>1, <2>3, <3>2
      <4>2. Count(batch, e) = 0 BY Zenon, <3>1, <4>1
      <4> QED BY <4>2
    <3> QED BY Zenon, <3>2
  <2> QED BY Zenon, <2>2, <2>3
<1> QED BY Zenon, <1>6, <1>7, <1>8, <1>9, <1>10, <1>11, <1>12, <1>13 DEF ConnInv

\* The application closes the connection.
LEMMA CloseStep ==
    ASSUME QueueInv, ConnInv, Close
    PROVE  QueueInv' /\ ConnInv'
<1>1. /\ pc = "idle" /\ state = "connected" /\ state' = "closed" /\ retry' = retry /\ Drops(cur, "idle")
      /\ requested' = requested /\ batch' = batch /\ sends' = sends /\ opened' = opened
      /\ UNCHANGED <<opened, packets, batch, queues, pend, raced>>
      /\ raced' = raced /\ eaten' = eaten /\ dangled' = dangled /\ sendfailed' = sendfailed
  BY Zenon DEF Close, AppAt, ghosts
<1>2. cur' = None /\ pc' = IF smap[cur].tcp = "SYN_SENT" THEN "terminated" ELSE "idle"
  BY Zenon, <1>1 DEF Drops
<1>3. AppTypeOK /\ QueueTypeOK BY Zenon, TypeParts DEF QueueInv
<1>4. AppTypeOK' BY Zenon, <1>1, <1>2, <1>3 DEF AppTypeOK
<1>5. state = "connected" /\ pc # "terminated" BY Zenon, <1>1
<1>6. /\ QueueInv' /\ cur \in Socks /\ ~smap'[cur].epoll
      /\ \A x \in Socks : x # cur => smap'[x] = smap[x]
  BY Zenon, <1>1, <1>4, <1>5, DropsSocket
<1>7. ~retry /\ batch' = <<>> BY Zenon, <1>1 DEF ConnInv, ControlOK
<1>8. ControlOK' BY <1>1, <1>2, <1>3, <1>7 DEF ControlOK, None, QueueTypeOK
<1>9. OwnsSocket' BY Zenon, <1>1, <1>2 DEF OwnsSocket
<1>10. FailedOK' BY Zenon, <1>1 DEF FailedOK
<1>11. StaleEventsNeedFailure' BY Zenon, <1>1, <1>2, <1>6, DropsStale
<1>12. ConnectedMeansEstablished'
  BY Zenon, <1>1, <1>2 DEF ConnInv, ConnectedMeansEstablished
<1>13. BatchOnce' /\ BatchOK' BY Zenon, <1>7, EmptyBatch
<1> QED BY Zenon, <1>6, <1>8, <1>9, <1>10, <1>11, <1>12, <1>13 DEF ConnInv

\* attach_to_loop of a reconnect: the new socket takes the place of the old.
LEMMA AttachStep ==
    ASSUME QueueInv, ConnInv, Attach
    PROVE  QueueInv' /\ ConnInv'
<1>1. /\ Ready("app") /\ pc = "connected_socket" /\ pc' = "attached" /\ state' = "connecting"
      /\ cur' = opened /\ requested' = {"IN", "OUT"} /\ batch' = batch /\ retry' = retry
      /\ sends' = sends /\ opened' = opened /\ packets' = packets
      /\ raced' = raced /\ eaten' = eaten /\ dangled' = dangled /\ sendfailed' = sendfailed
      /\ smap' = [smap EXCEPT ![opened].epoll = TRUE]
      /\ \/ Established(opened) /\ AppAddEvent(opened, "IN")
         \/ UNCHANGED <<queues, pend>>
  BY Zenon DEF Attach, AppAt, ghosts
<1>2. /\ ~retry /\ opened \in Socks /\ opened # cur /\ smap[opened].used /\ ~smap[opened].epoll
      /\ batch = <<>> /\ (state = "failed" \/ cur = None)
  BY Zenon, <1>1 DEF ConnInv, ControlOK
<1>3. AppTypeOK /\ QueueTypeOK BY Zenon, TypeParts DEF QueueInv
<1>4. AppTypeOK' BY Zenon, <1>1, <1>2, <1>3 DEF AppTypeOK
<1>5. PICK str \in Socket : /\ smap' = [smap EXCEPT ![opened] = str]
                            /\ str.used /\ str.epoll /\ str.events = smap[opened].events
                            /\ str.tcp = smap[opened].tcp
                            /\ str.merged_len = smap[opened].merged_len
  <2> DEFINE r == [smap[opened] EXCEPT !.epoll = TRUE]
  <2>0. smap[opened] \in Socket BY Zenon, <1>2, <1>3 DEF QueueTypeOK
  <2>1. r \in Socket BY Zenon, <2>0 DEF Socket
  <2>2. r.used = smap[opened].used /\ r.epoll /\ r.events = smap[opened].events
        /\ r.tcp = smap[opened].tcp /\ r.merged_len = smap[opened].merged_len
    BY Zenon, <2>0 DEF Socket
  <2>3. smap' = [smap EXCEPT ![opened] = r] BY Zenon, <1>1
  <2>4. r.used BY Zenon, <1>2, <2>2
  <2> QED BY Zenon, <2>1, <2>2, <2>3, <2>4
<1>6. smap'[opened] = str /\ \A x \in Socks : x # opened => smap'[x] = smap[x]
  BY Zenon, <1>2, <1>3, <1>5 DEF QueueTypeOK
<1>7. smap' \in [Socks -> Socket] BY Zenon, <1>3, <1>5 DEF QueueTypeOK
<1>8. SocketsOK'
  <2> SUFFICES ASSUME NEW x \in Socks
               PROVE  /\ x > opened => smap'[x] = Unused
                      /\ smap'[x].epoll \/ smap'[x].tcp # "NONE" => smap'[x].used
                      /\ smap'[x].merged_len <= packets
    BY Zenon, <1>1 DEF SocketsOK
  <2>1. /\ x > opened => smap[x] = Unused
        /\ smap[x].epoll \/ smap[x].tcp # "NONE" => smap[x].used
        /\ smap[x].merged_len <= packets
    BY Zenon DEF QueueInv, SocketsOK
  <2>2. CASE x # opened BY Zenon, <1>6, <2>1, <2>2
  <2>3. CASE x = opened
    <3>1. ~(x > opened) BY <1>2, <2>3 DEF Socks
    <3> QED BY Zenon, <1>5, <1>6, <2>1, <2>3, <3>1
  <2> QED BY Zenon, <2>2, <2>3
<1>9. Keeps BY Zenon, <1>1, <1>2, <1>5, <1>6 DEF Keeps
<1>10. \/ AppAddEvent(opened, "IN") /\ opened <= opened /\ smap'[opened].tcp # "SYN_SENT"
       \/ UNCHANGED <<queues, pend>>
  <2>1. opened <= opened BY <1>2 DEF Socks
  <2>2. Established(opened) => smap'[opened].tcp # "SYN_SENT" BY Zenon, <1>5, <1>6 DEF Established
  <2> QED BY Zenon, <1>1, <2>1, <2>2
<1>11. "IN" \in Events /\ UNCHANGED <<batch, raced, packets>> BY Zenon, <1>1 DEF Events
<1>12. QueueInv' BY Zenon, <1>1, <1>2, <1>4, <1>7, <1>8, <1>9, <1>10, <1>11, AppEvent
<1>13. ControlOK' BY <1>1, <1>2 DEF ControlOK, Socks
<1>14. OwnsSocket' BY <1>1, <1>2, <1>5, <1>6 DEF OwnsSocket, None, Socks
<1>15. FailedOK' BY Zenon, <1>1 DEF FailedOK
<1>16. StaleEventsNeedFailure'
  <2>1. dangled => raced \/ \E s \in Socks : smap'[s].epoll /\ s # opened
    BY Zenon, <1>2, <1>6 DEF ConnInv, StaleEventsNeedFailure
  <2>2. \A s \in Socks : ~dangled /\ smap[s].epoll /\ s # cur => smap[s].reason # "NOT_CLOSED"
    BY Zenon DEF ConnInv, StaleEventsNeedFailure
  <2>3. ~dangled /\ cur \in Socks => smap[cur].reason # "NOT_CLOSED"
    BY <1>2 DEF ConnInv, FailedOK, None, Socks
  <2>4. \A s \in Socks : ~dangled /\ smap'[s].epoll /\ s # opened => smap'[s].reason # "NOT_CLOSED"
    BY Zenon, <1>6, <2>2, <2>3
  <2> QED BY Zenon, <1>1, <2>1, <2>4 DEF StaleEventsNeedFailure
<1>17. ConnectedMeansEstablished' BY Zenon, <1>1 DEF ConnectedMeansEstablished
<1>18. BatchOnce' /\ BatchOK' BY Zenon, <1>1, <1>2, EmptyBatch
<1> QED BY Zenon, <1>12, <1>13, <1>14, <1>15, <1>16, <1>17, <1>18 DEF ConnInv

\* The record of a new socket.
LEMMA StreamType ==
    ASSUME NEW registered \in BOOLEAN
    PROVE  /\ Stream("SYN_SENT", registered) \in Socket
           /\ Stream("SYN_SENT", registered).events = {} /\ Stream("SYN_SENT", registered).used
           /\ Stream("SYN_SENT", registered).merged_len = 0
<1> DEFINE r == Stream("SYN_SENT", registered)
<1>1. Unused \in Socket BY MtcpBounds DEF Unused, Socket
<1>2. r \in Socket BY Zenon, <1>1 DEF Stream, Socket
<1>3. r.events = {} /\ r.used /\ r.merged_len = 0 BY Zenon DEF Stream, Unused
<1> QED BY Zenon, <1>2, <1>3

\* A new socket: the next one of the list, that nothing refers to.
LEMMA OpensSocket ==
    ASSUME QueueInv, AppTypeOK', NEW s \in Socks, Opens(s), NEW registered \in BOOLEAN,
           smap' = [smap EXCEPT ![s] = Stream("SYN_SENT", registered)],
           UNCHANGED <<packets, queues, pend, raced, batch>>
    PROVE  /\ QueueInv' /\ ~smap[s].epoll
           /\ smap'[s] = Stream("SYN_SENT", registered)
           /\ \A x \in Socks : x # s => smap'[x] = smap[x]
<1>1. QueueTypeOK BY Zenon, TypeParts DEF QueueInv
<1>2. /\ packets' = packets /\ mtcpq' = mtcpq /\ usrq' = usrq /\ shadowq' = shadowq /\ pend' = pend
      /\ raced' = raced /\ batch' = batch
  BY Zenon DEF queues
<1>3. PICK str \in Socket : /\ str = Stream("SYN_SENT", registered)
                            /\ str.events = {} /\ str.used /\ str.merged_len = 0
  BY Zenon, StreamType
<1>4. smap'[s] = str /\ \A x \in Socks : x # s => smap'[x] = smap[x]
  BY Zenon, <1>1, <1>3 DEF QueueTypeOK
<1>5. s = opened + 1 /\ opened' = s /\ opened \in Nat /\ s \in 0 .. MaxSockets
  BY <1>1 DEF Opens, QueueTypeOK, Socks
<1>6. smap' \in [Socks -> Socket] BY Zenon, <1>1, <1>3 DEF QueueTypeOK
<1>7. TypeOK'
  <2>1. QueueTypeOK' BY Zenon, <1>1, <1>2, <1>5, <1>6 DEF QueueTypeOK, Queue
  <2> QED BY Zenon, <2>1, TypeParts
<1>8. SocketsOK'
  <2> SUFFICES ASSUME NEW x \in Socks
               PROVE  /\ x > s => smap'[x] = Unused
                      /\ smap'[x].epoll \/ smap'[x].tcp # "NONE" => smap'[x].used
                      /\ smap'[x].merged_len <= packets
    BY Zenon, <1>2, <1>5 DEF SocketsOK
  <2>1. /\ x > opened => smap[x] = Unused
        /\ smap[x].epoll \/ smap[x].tcp # "NONE" => smap[x].used
        /\ smap[x].merged_len <= packets
    BY Zenon DEF QueueInv, SocketsOK
  <2>2. CASE x # s
    <3>1. x > s => x > opened BY <1>5 DEF Socks
    <3> QED BY Zenon, <1>4, <2>1, <2>2, <3>1
  <2>3. CASE x = s
    <3>1. ~(x > s) BY <2>3 DEF Socks
    <3>2. smap'[x].merged_len <= packets BY <1>1, <1>3, <1>4, <2>3 DEF QueueTypeOK
    <3> QED BY Zenon, <1>3, <1>4, <2>3, <3>1, <3>2
  <2> QED BY Zenon, <2>2, <2>3
<1>9. ~smap[s].epoll
  <2>1. s > opened BY <1>5
  <2>2. smap[s] = Unused BY Zenon, <2>1 DEF QueueInv, SocketsOK
  <2> QED BY <2>2 DEF Unused
<1>10. EventsOK' /\ StackStoreOK' /\ AppStoreOK' /\ Balance'
  <2>1. smap' = [smap EXCEPT ![s] = str] BY Zenon, <1>3
  <2>2. UNCHANGED <<queues, pend, raced, batch>> BY Zenon
  <2> QED BY Zenon, <1>3, <2>1, <2>2, OpensNew
<1> QED BY Zenon, <1>3, <1>4, <1>7, <1>8, <1>9, <1>10 DEF QueueInv

\* The first connect of a connection.
LEMMA ConnectStep ==
    ASSUME QueueInv, ConnInv, Connect
    PROVE  QueueInv' /\ ConnInv'
<1>1. PICK s \in Socks : /\ Opens(s) /\ cur' = s
                         /\ smap' = [smap EXCEPT ![s] = Stream("SYN_SENT", TRUE)]
  BY Zenon DEF Connect
<1>2. /\ pc = "idle" /\ pc' = pc /\ state = "invalid" /\ state' = "connecting"
      /\ requested' = {"IN", "OUT"} /\ batch' = batch /\ retry' = retry /\ sends' = sends
      /\ opened' = s /\ cur' = s /\ UNCHANGED <<packets, queues, pend, raced, batch>>
      /\ raced' = raced /\ eaten' = eaten /\ dangled' = dangled /\ sendfailed' = sendfailed
  BY Zenon, <1>1 DEF Connect, AppAt, ghosts, Opens
<1>3. AppTypeOK BY Zenon, TypeParts DEF QueueInv
<1>4. AppTypeOK' BY Zenon, <1>1, <1>2, <1>3 DEF AppTypeOK
<1>5. /\ QueueInv' /\ ~smap[s].epoll /\ smap'[s] = Stream("SYN_SENT", TRUE)
      /\ \A x \in Socks : x # s => smap'[x] = smap[x]
  BY Zenon, <1>1, <1>2, <1>4, OpensSocket
<1>6. cur = None /\ ~retry /\ batch' = <<>> BY Zenon, <1>2 DEF ConnInv, ControlOK
<1>7. smap'[s].used /\ smap'[s].epoll BY Zenon, <1>5 DEF Stream, Unused
<1>8. ControlOK' BY <1>1, <1>2, <1>6 DEF ControlOK, Socks
<1>9. OwnsSocket' BY <1>2, <1>7 DEF OwnsSocket, None, Socks
<1>10. FailedOK' BY Zenon, <1>2 DEF FailedOK
<1>11. StaleEventsNeedFailure'
  <2>0. \A x \in Socks : x # cur BY <1>6 DEF None, Socks
  <2>1. dangled => raced \/ \E x \in Socks : smap'[x].epoll /\ x # s
    BY Zenon, <1>5 DEF ConnInv, StaleEventsNeedFailure
  <2>2. \A x \in Socks : ~dangled /\ smap'[x].epoll /\ x # s => smap'[x].reason # "NOT_CLOSED"
    BY Zenon, <1>5, <2>0 DEF ConnInv, StaleEventsNeedFailure
  <2> QED BY <1>2, <2>1, <2>2 DEF StaleEventsNeedFailure
<1>12. ConnectedMeansEstablished' BY Zenon, <1>2 DEF ConnectedMeansEstablished
<1>13. BatchOnce' /\ BatchOK' BY Zenon, <1>6, EmptyBatch
<1> QED BY Zenon, <1>5, <1>8, <1>9, <1>10, <1>11, <1>12, <1>13 DEF ConnInv

\* connect of a reconnect.
LEMMA ReconnectStep ==
    ASSUME QueueInv, ConnInv, Reconnect
    PROVE  QueueInv' /\ ConnInv'
<1>1. PICK s \in Socks : Opens(s) /\ smap' = [smap EXCEPT ![s] = Stream("SYN_SENT", FALSE)]
  BY Zenon DEF Reconnect
<1>2. /\ pc = "idle" /\ pc' = "connected_socket" /\ retry /\ retry' = FALSE /\ state' = state
      /\ cur' = cur /\ requested' = requested /\ batch' = batch /\ sends' = sends
      /\ opened' = s /\ UNCHANGED <<packets, queues, pend, raced, batch>>
      /\ raced' = raced /\ eaten' = eaten /\ dangled' = dangled /\ sendfailed' = sendfailed
  BY Zenon, <1>1 DEF Reconnect, AppAt, ghosts, Opens
<1>3. AppTypeOK /\ QueueTypeOK BY Zenon, TypeParts DEF QueueInv
<1>4. AppTypeOK' BY Zenon, <1>1, <1>2, <1>3 DEF AppTypeOK
<1>5. /\ QueueInv' /\ ~smap[s].epoll /\ smap'[s] = Stream("SYN_SENT", FALSE)
      /\ \A x \in Socks : x # s => smap'[x] = smap[x]
  BY Zenon, <1>1, <1>2, <1>4, OpensSocket
<1>6. cur <= opened /\ (state = "failed" \/ (state = "disconnect" /\ cur = None)) /\ batch' = <<>>
  BY Zenon, <1>2 DEF ConnInv, ControlOK
<1>7. smap'[s].used /\ ~smap'[s].epoll BY Zenon, <1>5 DEF Stream, Unused
<1>8. cur # s /\ cur <= s
  BY <1>1, <1>3, <1>6 DEF Opens, AppTypeOK, QueueTypeOK, Socks, None
<1>9. ControlOK' BY Zenon, <1>1, <1>2, <1>6, <1>7, <1>8 DEF ControlOK
<1>10. OwnsSocket' BY Zenon, <1>2, <1>6 DEF OwnsSocket
<1>11. FailedOK'
  <2>1. cur # None => smap'[cur] = smap[cur] BY Zenon, <1>3, <1>5, <1>8 DEF AppTypeOK
  <2> QED BY Zenon, <1>2, <2>1 DEF ConnInv, FailedOK
<1>12. StaleEventsNeedFailure'
  <2>1. dangled => raced \/ \E x \in Socks : smap'[x].epoll /\ x # cur
    BY Zenon, <1>5 DEF ConnInv, StaleEventsNeedFailure
  <2>2. \A x \in Socks : ~dangled /\ smap'[x].epoll /\ x # cur => smap'[x].reason # "NOT_CLOSED"
    BY Zenon, <1>5, <1>7 DEF ConnInv, StaleEventsNeedFailure
  <2> QED BY <1>2, <2>1, <2>2 DEF StaleEventsNeedFailure
<1>13. ConnectedMeansEstablished' BY Zenon, <1>2, <1>6 DEF ConnectedMeansEstablished
<1>14. BatchOnce' /\ BatchOK' BY Zenon, <1>6, EmptyBatch
<1> QED BY Zenon, <1>5, <1>9, <1>10, <1>11, <1>12, <1>13, <1>14 DEF ConnInv

-----------------------------------------------------------------------------
(* The theorems. *)

Inv == QueueInv /\ ConnInv

\* A connection that was never opened satisfies it.
LEMMA InvInit ==
    ASSUME Init
    PROVE  Inv
<1>1. /\ state = "invalid" /\ cur = None /\ requested = {} /\ pc = "idle" /\ batch = <<>>
      /\ ~retry /\ retry \in BOOLEAN /\ sends = 0 /\ opened = 0 /\ packets = 0
      /\ usrq = <<>> /\ shadowq = <<>> /\ ~raced /\ raced \in BOOLEAN /\ eaten \in BOOLEAN
      /\ ~dangled /\ dangled \in BOOLEAN /\ sendfailed \in BOOLEAN
  BY Zenon DEF Init
<1>2. mtcpq \in [start : 0 .. Size - 1, q : Seq(Entry)] /\ mtcpq.q = <<>>
  <2>1. <<>> \in Seq(Entry) OBVIOUS
  <2>2. PICK x \in Starts : mtcpq = [start |-> x, q |-> <<>>] BY Zenon DEF Init
  <2> QED BY Zenon, <2>1, <2>2, MtcpBounds
<1>3. smap = [s \in Socks |-> Unused] BY Zenon DEF Init
<1>4. Unused \in Socket BY MtcpBounds DEF Unused, Socket
<1>5. smap \in [Socks -> Socket] /\ \A s \in Socks : smap[s] = Unused BY Zenon, <1>3, <1>4
<1>6. pend = [t \in {"app", "stack"} |-> NoStore] BY Zenon DEF Init
<1>7. pend \in [{"app", "stack"} -> {NoStore} \cup Loaded]
      /\ pend["app"] = NoStore /\ pend["stack"] = NoStore
  BY Zenon, <1>6
<1>8. <<>> \in Seq(Entry) /\ Len(<<>>) = 0 /\ 0 < Size BY MtcpBounds DEF Size
<1>9. AppTypeOK BY <1>1, MtcpBounds DEF AppTypeOK
<1>10. QueueTypeOK
  <2>1. Queue(mtcpq.q) /\ Queue(usrq) /\ Queue(shadowq) BY Zenon, <1>1, <1>2, <1>8 DEF Queue
  <2>2. opened \in 0 .. MaxSockets /\ packets \in 0 .. MaxPackets BY <1>1, MtcpBounds
  <2> QED BY Zenon, <1>1, <1>2, <1>5, <1>7, <1>8, <2>1, <2>2 DEF QueueTypeOK
<1>11. TypeOK BY Zenon, <1>9, <1>10, TypeParts
<1>12. \A e : Count(<<>>, e) = 0 BY Zenon, CountEmpty
<1>13. \A e \in Entry : Queued(e) = 0 /\ Count(batch, e) = 0
  <2>1. \A e \in Entry : Count(mtcpq.q, e) = 0 /\ Count(usrq, e) = 0 /\ Count(shadowq, e) = 0
                         /\ Count(batch, e) = 0
    BY Zenon, <1>1, <1>2, <1>12
  <2> QED BY <2>1 DEF Queued
<1>14. SocketsOK BY <1>1, <1>5 DEF SocketsOK, Unused
<1>15. EventsOK BY <1>13 DEF EventsOK
<1>16. StackStoreOK /\ AppStoreOK BY Zenon, <1>7 DEF StackStoreOK, AppStoreOK
<1>17. Balance
  <2>1. \A e \in Entry : e.sock \in Socks BY Zenon DEF Entry
  <2> QED BY <1>5, <2>1 DEF Balance, Unused
<1>18. ControlOK BY <1>1 DEF ControlOK, None
<1>19. OwnsSocket BY Zenon, <1>1 DEF OwnsSocket
<1>20. FailedOK BY Zenon, <1>1 DEF FailedOK
<1>21. StaleEventsNeedFailure BY <1>1, <1>5 DEF StaleEventsNeedFailure, Unused
<1>22. ConnectedMeansEstablished BY Zenon, <1>1 DEF ConnectedMeansEstablished
<1>23. BatchOnce BY <1>1, <1>13 DEF BatchOnce
<1>24. BatchOK BY <1>1, <1>13 DEF BatchOK
<1> QED BY Zenon, <1>11, <1>14, <1>15, <1>16, <1>17, <1>18, <1>19, <1>20, <1>21, <1>22, <1>23, <1>24
        DEF Inv, QueueInv, ConnInv

\* Every step keeps it.
LEMMA InvNext ==
    ASSUME Inv, [Next]_vars
    PROVE  Inv'
<1> SUFFICES QueueInv' /\ ConnInv' BY Zenon DEF Inv
<1>1. QueueInv /\ ConnInv BY Zenon DEF Inv
<1>2. CASE UNCHANGED vars
  <2>1. /\ state' = state /\ cur' = cur /\ requested' = requested /\ pc' = pc /\ batch' = batch
        /\ retry' = retry /\ sends' = sends /\ opened' = opened /\ smap' = smap
        /\ packets' = packets /\ mtcpq' = mtcpq /\ usrq' = usrq /\ shadowq' = shadowq /\ pend' = pend
        /\ raced' = raced /\ eaten' = eaten /\ dangled' = dangled /\ sendfailed' = sendfailed
    BY Zenon, <1>2 DEF vars, app, queues, ghosts
  <2>2. AppTypeOK BY Zenon, <1>1, TypeParts DEF QueueInv
  <2>3. AppTypeOK' BY ZenonT(60), <2>1, <2>2 DEF AppTypeOK
  <2>4. QueueInv' BY Zenon, <1>1, <2>1, <2>3, QuietKeepsQueues DEF queues
  <2>5. StackKeeps
    <3>1. raced => raced' BY Zenon, <2>1
    <3> QED BY Zenon, <2>1, <3>1 DEF StackKeeps, app
  <2> QED BY Zenon, <1>1, <2>4, <2>5, StackKeepsConn
<1>3. CASE Packet
  <2>1. QueueInv' /\ StackKeeps BY Zenon, <1>1, <1>3, PacketKeepsQueues
  <2> QED BY Zenon, <1>1, <2>1, StackKeepsConn
<1>4. CASE FlushEpollEvents
  <2>1. QueueInv' /\ StackKeeps BY Zenon, <1>1, <1>4, FlushKeepsQueues
  <2> QED BY Zenon, <1>1, <2>1, StackKeepsConn
<1>5. ASSUME NEW t \in {"app", "stack"}, Store(t) PROVE QueueInv' /\ ConnInv'
  <2>1. QueueInv' /\ StackKeeps BY Zenon, <1>1, <1>5, StoreKeepsQueues
  <2> QED BY Zenon, <1>1, <2>1, StackKeepsConn
<1>6. CASE Polling
  <2>1. CASE Attach BY Zenon, <1>1, <2>1, AttachStep
  <2>2. CASE AttachOut BY Zenon, <1>1, <2>2, AttachOutStep
  <2>3. CASE StartWait BY Zenon, <1>1, <2>3, StartWaitStep
  <2>4. CASE Fetch BY Zenon, <1>1, <2>4, FetchStep
  <2>5. CASE WaitReturns BY Zenon, <1>1, <2>5, WaitReturnsStep
  <2>6. CASE Dispatch BY Zenon, <1>1, <2>6, DispatchStep
  <2>7. CASE SkipEvent BY Zenon, <1>1, <2>7, SkipEventStep
  <2>8. CASE DispatchDangling BY Zenon, <1>1, <2>8, DispatchDanglingStep
  <2>9. CASE DispatchDone BY Zenon, <1>1, <2>9, DispatchDoneStep
  <2>10. CASE ReadEnds BY Zenon, <1>1, <2>10, ReadEndsStep
  <2>11. CASE ReadBlocks BY Zenon, <1>1, <2>11, ReadBlocksStep
  <2>12. CASE ReadSome BY Zenon, <1>1, <2>12, ReadSomeStep
  <2> QED BY Zenon, <1>6, <2>1, <2>2, <2>3, <2>4, <2>5, <2>6, <2>7, <2>8, <2>9, <2>10, <2>11, <2>12
          DEF Polling
<1>7. CASE Connect BY Zenon, <1>1, <1>7, ConnectStep
<1>8. CASE Reconnect BY Zenon, <1>1, <1>8, ReconnectStep
<1>9. CASE Send BY Zenon, <1>1, <1>9, SendStep
<1>10. CASE SendFails BY Zenon, <1>1, <1>10, SendFailsStep
<1>11. CASE Close BY Zenon, <1>1, <1>11, CloseStep
<1>12. CASE ConnectThrows BY Zenon, <1>1, <1>12, ConnectThrowsStep
<1> QED BY Zenon, <1>2, <1>3, <1>4, <1>5, <1>6, <1>7, <1>8, <1>9, <1>10, <1>11, <1>12 DEF Next

\* The invariant of the connection, its sockets and their event queues.
THEOREM ConnectionInvariant == Spec => []Inv
<1>1. Init => Inv BY Zenon, InvInit
<1>2. Inv /\ [Next]_vars => Inv' BY Zenon, InvNext
<1> QED BY <1>1, <1>2, PTL DEF Spec

\* The queues never fill: each keeps an index of its ring free, whatever the two
\* threads do.
THEOREM MtcpTypeCorrect == Spec => []TypeOK
<1>1. Inv => TypeOK BY Zenon DEF Inv, QueueInv
<1> QED BY <1>1, ConnectionInvariant, PTL

\* A bit of socket->events is set exactly while one event of that kind is in one
\* of the three queues, as long as no two updates of the word overlapped.
THEOREM EventQueuedOnce == Spec => []QueuedOnce
<1>1. Inv => QueuedOnce
  <2> SUFFICES ASSUME Inv, ~raced, NEW s \in Socks, NEW ev \in Events, smap[s].used,
                      s \notin {pend["app"].sock, pend["stack"].sock}
               PROVE  EntriesOf(s, ev) = IF ev \in smap[s].events THEN 1 ELSE 0
    BY Zenon DEF QueuedOnce
  <2>0. PICK e \in Entry : /\ e = [sock |-> s, ev |-> ev]
                           /\ \A d \in Entry : /\ d.sock \in Socks /\ d.ev \in Events
                                               /\ e = d <=> d.sock = s /\ d.ev = ev
    BY ZenonT(30), EntryEq
  <2>1. e = [sock |-> s, ev |-> ev] /\ e.sock = s /\ e.ev = ev BY Zenon, <2>0
  <2>2. /\ mtcpq.q \in Seq(Entry) /\ usrq \in Seq(Entry) /\ shadowq \in Seq(Entry)
        /\ Queued(e) \in Nat
    BY Zenon, QueuedType DEF Inv, QueueInv
  <2>3. PICK q \in Seq(Entry) : q = mtcpq.q \o usrq \o shadowq
    <3>1. \A x, y, z \in Seq(Entry) : x \o y \o z \in Seq(Entry) OBVIOUS
    <3> QED BY Zenon, <2>2, <3>1
  <2>4. Count(q, e) = Queued(e)
    <3>1. PICK x \in Seq(Entry), y \in Seq(Entry), z \in Seq(Entry) :
            x = mtcpq.q /\ y = usrq /\ z = shadowq
      BY Zenon, <2>2
    <3>2. Tallied(x, y, z, e) BY Zenon, CountThree
    <3> QED BY Zenon, <2>3, <3>1, <3>2 DEF Queued, Tallied
  <2>5. Balanced(e) BY Zenon, <2>1 DEF Inv, QueueInv, Balance
  <2>6. Clearing("app", e) = 0 /\ Adding("app", e) = 0 /\ Adding("stack", e) = 0
    BY Zenon, <2>1 DEF Clearing, Adding
  <2>7. Set(e) = IF ev \in smap[s].events THEN 1 ELSE 0 BY Zenon, <2>1 DEF Set
  <2>8. Count(q, e) = IF ev \in smap[s].events THEN 1 ELSE 0
    BY <2>2, <2>4, <2>5, <2>6, <2>7 DEF Balanced
  <2>9. EntriesOf(s, ev) = Cardinality({i \in DOMAIN q : q[i] = e})
    BY Zenon, <2>1, <2>3 DEF EntriesOf
  <2>10. CASE ev \in smap[s].events
    <3>1. Count(q, e) = 1 BY Zenon, <2>8, <2>10
    <3>2. PICK i \in DOMAIN q : {j \in DOMAIN q : q[j] = e} = {i} BY Zenon, <3>1, CountFew
    <3> QED BY Zenon, <2>9, <2>10, <3>2, CardinalityFew
  <2>11. CASE ev \notin smap[s].events
    <3>1. Count(q, e) = 0 BY Zenon, <2>8, <2>11
    <3>2. {j \in DOMAIN q : q[j] = e} = {} BY Zenon, <3>1, CountFew
    <3> QED BY Zenon, <2>9, <2>11, <3>2, CardinalityFew
  <2> QED BY Zenon, <2>10, <2>11
<1> QED BY <1>1, ConnectionInvariant, PTL

\* A live connection has a registered socket of its own, a closed one has none,
\* and a cut one keeps its socket only when it was send that noticed.
THEOREM ConnectionOwnsSocket == Spec => []OwnsSocket
<1>1. Inv => OwnsSocket BY Zenon DEF Inv, ConnInv
<1> QED BY <1>1, ConnectionInvariant, PTL

\* No event acts on the connection through a freed poll_state unless a handshake
\* that failed left its socket registered, or two updates of socket->events overlapped.
THEOREM StaleEventsFromFailure == Spec => []StaleEventsNeedFailure
<1>1. Inv => StaleEventsNeedFailure BY Zenon DEF Inv, ConnInv
<1> QED BY <1>1, ConnectionInvariant, PTL

\* Until a stale event has run a handler, a connection calls itself connected
\* only after the three-way handshake, and no handler ends the process by what it
\* throws; connect may, when it finds no socket, address or memory.
THEOREM HandshakeBeforeConnected == Spec => []ConnectedMeansEstablished
<1>1. Inv => ConnectedMeansEstablished BY Zenon DEF Inv, ConnInv
<1> QED BY <1>1, ConnectionInvariant, PTL

\* A connection that the application closed stays closed.
THEOREM CloseIsFinal == Spec => ClosedForGood
<1>1. Inv /\ [Next]_vars => [state = "closed" => state' = "closed"]_vars
  <2> SUFFICES ASSUME Inv, Next, state = "closed" PROVE state' = "closed"
    BY Zenon DEF vars, app
  <2>1. ~retry /\ pc # "connected_socket" BY Zenon DEF Inv, ConnInv, ControlOK
  <2>2. pc # "read" BY Zenon DEF Inv, ConnInv, ControlOK
  <2>3. state' = state
    <3>1. CASE Packet BY Zenon, <3>1, PacketKeepsQueues DEF StackKeeps, app, Inv
    <3>2. CASE FlushEpollEvents BY Zenon, <3>2, FlushKeepsQueues DEF StackKeeps, app, Inv
    <3>3. ASSUME NEW t \in {"app", "stack"}, Store(t) PROVE state' = state
      BY Zenon, <3>3 DEF Store, app
    <3>4. CASE Connect \/ ConnectThrows \/ Send \/ SendFails \/ Close
      BY Zenon, <3>4 DEF Connect, ConnectThrows, Send, SendFails, Close
    <3>5. CASE Reconnect BY Zenon, <3>5 DEF Reconnect
    <3>6. CASE Polling
      <4>1. CASE Attach \/ ReadEnds BY Zenon, <2>1, <2>2, <4>1 DEF Attach, ReadEnds, AppAt
      <4>2. CASE AttachOut \/ StartWait \/ Fetch \/ WaitReturns \/ DispatchDone \/ ReadBlocks
                 \/ ReadSome \/ SkipEvent
        BY Zenon, <4>2 DEF AttachOut, StartWait, Fetch, WaitReturns, DispatchDone, ReadBlocks,
                           ReadSome, SkipEvent
      <4>3. CASE Dispatch \/ DispatchDangling
        <5>1. PICK ev : Handle(ev) BY Zenon, <4>3 DEF Dispatch, DispatchDangling
        <5> QED BY Zenon, <5>1 DEF Handle
      <4> QED BY Zenon, <3>6, <4>1, <4>2, <4>3 DEF Polling
    <3> QED BY Zenon, <3>1, <3>2, <3>3, <3>4, <3>5, <3>6 DEF Next
  <2> QED BY Zenon, <2>3
<1> QED BY <1>1, ConnectionInvariant, PTL DEF Spec, ClosedForGood
=============================================================================
