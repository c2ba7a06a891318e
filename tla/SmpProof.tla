------------------------------ MODULE SmpProof ------------------------------
(***************************************************************************)
(* Proofs about Smp, for every number of cores, ring capacity and number   *)
(* of submitted items.  NothingLost is the inductive invariant; types,     *)
(* order, exactly-once execution and the refinement of AsyncCall follow.   *)
(***************************************************************************)
EXTENDS Smp, TLAPS

-----------------------------------------------------------------------------
(* Lemmas about the push of staged items into a ring.                       *)

\* What appending one sequence to another does.
LEMMA ConcatFacts ==
    ASSUME NEW r \in Seq(Items), NEW t \in Seq(Items)
    PROVE  /\ r \o t \in Seq(Items)
           /\ Len(r \o t) = Len(r) + Len(t)
           /\ \A k \in 1 .. Len(r) : (r \o t)[k] = r[k]
           /\ \A k \in 1 .. Len(t) : (r \o t)[Len(r) + k] = t[k]
  OBVIOUS

\* What lf_queue::push and the erase after it do to lengths and contents.
LEMMA PushFacts ==
    ASSUME NEW ring \in Seq(Items), NEW fifo \in Seq(Items),
           Len(ring) <= QueueLength
    PROVE  /\ Fits(fifo, ring) \in 0 .. Len(fifo)
           /\ PushTo(ring, fifo) \in Seq(Items)
           /\ Rest(ring, fifo) \in Seq(Items)
           /\ Len(PushTo(ring, fifo)) = Len(ring) + Fits(fifo, ring)
           /\ Len(PushTo(ring, fifo)) <= QueueLength
           /\ Len(Rest(ring, fifo)) = Len(fifo) - Fits(fifo, ring)
           /\ \A k \in 1 .. Len(ring) : PushTo(ring, fifo)[k] = ring[k]
           /\ \A k \in 1 .. Fits(fifo, ring) :
                  PushTo(ring, fifo)[Len(ring) + k] = fifo[k]
           /\ \A k \in 1 .. Len(Rest(ring, fifo)) :
                  Rest(ring, fifo)[k] = fifo[Fits(fifo, ring) + k]
<1> DEFINE f == Fits(fifo, ring)
           s == SubSeq(fifo, 1, f)
<1>1. f \in 0 .. Len(fifo) /\ Len(ring) + f <= QueueLength
  BY QueueLengthAssumption DEF Fits
<1>2. s \in Seq(Items) /\ Len(s) = f /\ \A k \in 1 .. f : s[k] = fifo[k]
  BY <1>1
<1>3. /\ ring \o s \in Seq(Items)
      /\ Len(ring \o s) = Len(ring) + f
      /\ \A k \in 1 .. Len(ring) : (ring \o s)[k] = ring[k]
      /\ \A k \in 1 .. f : (ring \o s)[Len(ring) + k] = s[k]
  <2> HIDE DEF f, s
  <2>1. /\ ring \o s \in Seq(Items)
        /\ Len(ring \o s) = Len(ring) + Len(s)
        /\ \A k \in 1 .. Len(ring) : (ring \o s)[k] = ring[k]
        /\ \A k \in 1 .. Len(s) : (ring \o s)[Len(ring) + k] = s[k]
    BY <1>2, ConcatFacts, Zenon
  <2> QED BY <1>2, <2>1, Zenon
<1>4. /\ SubSeq(fifo, f + 1, Len(fifo)) \in Seq(Items)
      /\ Len(SubSeq(fifo, f + 1, Len(fifo))) = Len(fifo) - f
      /\ \A k \in 1 .. Len(fifo) - f :
             SubSeq(fifo, f + 1, Len(fifo))[k] = fifo[f + k]
  BY <1>1
<1> QED
  BY Zenon, <1>1, <1>2, <1>3, <1>4 DEF PushTo, Rest

\* A push moves items, it neither adds nor drops any.
LEMMA PushLength ==
    ASSUME NEW ring \in Seq(Items), NEW fifo \in Seq(Items),
           Len(ring) <= QueueLength
    PROVE  /\ PushTo(ring, fifo) \in Seq(Items)
           /\ Rest(ring, fifo) \in Seq(Items)
           /\ Len(PushTo(ring, fifo)) <= QueueLength
           /\ Len(PushTo(ring, fifo)) + Len(Rest(ring, fifo))
                = Len(ring) + Len(fifo)
<1>1. /\ Fits(fifo, ring) \in 0 .. Len(fifo)
      /\ Len(PushTo(ring, fifo)) = Len(ring) + Fits(fifo, ring)
      /\ Len(Rest(ring, fifo)) = Len(fifo) - Fits(fifo, ring)
  BY Zenon, PushFacts
<1>2. Len(PushTo(ring, fifo)) + Len(Rest(ring, fifo)) = Len(ring) + Len(fifo)
  BY <1>1
<1> QED BY Zenon, <1>2, PushFacts

\* A push keeps the numbering across the ring and the staging vector.
LEMMA PushNumbered ==
    ASSUME NEW ring \in Seq(Items), NEW fifo \in Seq(Items),
           Len(ring) <= QueueLength, NEW a \in Nat,
           Numbered(ring, a), Numbered(fifo, a + Len(ring))
    PROVE  /\ Numbered(PushTo(ring, fifo), a)
           /\ Numbered(Rest(ring, fifo), a + Len(PushTo(ring, fifo)))
<1> DEFINE f == Fits(fifo, ring)
           p == PushTo(ring, fifo)
           t == Rest(ring, fifo)
<1>1. ASSUME NEW k \in 1 .. Len(p) PROVE p[k].n = a + k
  <2>1. CASE k <= Len(ring)
    BY <2>1, PushFacts DEF Numbered
  <2>2. CASE k > Len(ring)
    <3>1. k - Len(ring) \in 1 .. f /\ Len(ring) + (k - Len(ring)) = k
      BY <2>2, PushFacts
    <3>2. p[k] = fifo[k - Len(ring)]
      BY <3>1, PushFacts
    <3>3. fifo[k - Len(ring)].n = a + Len(ring) + (k - Len(ring))
      BY <3>1, PushFacts DEF Numbered
    <3> QED BY <3>2, <3>3
  <2> QED BY <2>1, <2>2
<1>2. ASSUME NEW k \in 1 .. Len(t) PROVE t[k].n = a + Len(p) + k
  <2>1. f + k \in 1 .. Len(fifo) /\ Len(p) = Len(ring) + f
    BY PushFacts
  <2>2. t[k] = fifo[f + k]
    BY Zenon, PushFacts
  <2>3. fifo[f + k].n = a + Len(ring) + (f + k)
    BY Zenon, <2>1 DEF Numbered
  <2>4. f \in Nat /\ Len(ring) \in Nat
    BY PushFacts
  <2> HIDE DEF f, p, t
  <2> QED BY <2>1, <2>2, <2>3, <2>4
<1> QED BY Zenon, <1>1, <1>2 DEF Numbered

\* A push that takes only part of a staging vector (flush_request_batch and
\* flush_response_batch) keeps the numbering of ring and rest.
LEMMA FlushNumbered ==
    ASSUME NEW ring \in Seq(Items), NEW fifo \in Seq(Items), NEW a \in Nat,
           Len(ring) <= QueueLength,
           Numbered(ring, a), Numbered(fifo, a + Len(ring))
    PROVE  /\ Numbered(PushTo(ring, fifo), a)
           /\ Numbered(Rest(ring, fifo), a + Len(PushTo(ring, fifo)))
           /\ a + Len(ring) + Len(fifo)
                = a + Len(PushTo(ring, fifo)) + Len(Rest(ring, fifo))
<1>1. /\ PushTo(ring, fifo) \in Seq(Items) /\ Rest(ring, fifo) \in Seq(Items)
      /\ Len(PushTo(ring, fifo)) + Len(Rest(ring, fifo))
           = Len(ring) + Len(fifo)
  BY Zenon, PushLength
<1>2. a + Len(ring) + Len(fifo)
        = a + Len(PushTo(ring, fifo)) + Len(Rest(ring, fifo))
  <2>1. PICK j \in Nat, k \in Nat, m \in Nat, n \in Nat :
            /\ j = Len(PushTo(ring, fifo)) /\ k = Len(Rest(ring, fifo))
            /\ m = Len(ring) /\ n = Len(fifo)
    BY <1>1
  <2>2. j + k = m + n
    BY <1>1, <2>1, Zenon
  <2>3. a + m + n = a + j + k
    BY <2>2
  <2> QED BY <2>1, <2>3, Zenon
<1> QED BY Zenon, <1>2, PushNumbered

\* The numbering of a sequence without its head, and with one more item.
LEMMA TailNumbered ==
    ASSUME NEW s \in Seq(Items), s # <<>>, NEW a \in Nat, Numbered(s, a)
    PROVE  /\ Head(s).n = a + 1 /\ Head(s) \in Items
           /\ Tail(s) \in Seq(Items) /\ Len(Tail(s)) = Len(s) - 1
           /\ Numbered(Tail(s), a + 1)
           /\ a + Len(s) = a + 1 + Len(Tail(s))
<1>1. /\ Head(s) = s[1] /\ 1 \in 1 .. Len(s) /\ s[1] \in Items
      /\ Tail(s) \in Seq(Items) /\ Len(Tail(s)) = Len(s) - 1
      /\ \A k \in 1 .. Len(s) - 1 : Tail(s)[k] = s[k + 1]
  OBVIOUS
<1>2. Head(s).n = a + 1
  BY Zenon, <1>1 DEF Numbered
<1>3. ASSUME NEW k \in 1 .. Len(Tail(s)) PROVE Tail(s)[k].n = a + 1 + k
  <2>1. k + 1 \in 1 .. Len(s) /\ Tail(s)[k] = s[k + 1]
    BY <1>1
  <2>2. s[k + 1].n = a + (k + 1)
    BY Zenon, <2>1 DEF Numbered
  <2> QED BY <2>1, <2>2
<1>4. a + Len(s) = a + 1 + Len(Tail(s))
  BY <1>1
<1> QED BY Zenon, <1>1, <1>2, <1>3, <1>4 DEF Numbered

\* A new item at the end continues the numbering (submit_item, respond).
LEMMA AppendNumbered ==
    ASSUME NEW s \in Seq(Items), NEW e \in Items, NEW a \in Nat,
           Numbered(s, a), e.n = a + Len(s) + 1
    PROVE  /\ Append(s, e) \in Seq(Items) /\ Len(Append(s, e)) = Len(s) + 1
           /\ Numbered(Append(s, e), a)
BY DEF Numbered

\* x is the item to stage next behind a ring and its staging vector.
StagedNext(ring, fifo, a, x) ==
    /\ ring \in Seq(Items) /\ fifo \in Seq(Items) /\ a \in Nat /\ x \in Items
    /\ Len(ring) <= QueueLength
    /\ Numbered(ring, a) /\ Numbered(fifo, a + Len(ring))
    /\ x.n = a + Len(ring) + Len(fifo) + 1

\* One more item staged behind a numbered ring and pushed with the others.
LEMMA SubmitNumbered ==
    ASSUME NEW ring, NEW fifo, NEW a, NEW x, StagedNext(ring, fifo, a, x)
    PROVE  /\ Numbered(PushTo(ring, Append(fifo, x)), a)
           /\ Numbered(Rest(ring, Append(fifo, x)),
                       a + Len(PushTo(ring, Append(fifo, x))))
           /\ a + Len(PushTo(ring, Append(fifo, x)))
                + Len(Rest(ring, Append(fifo, x))) = x.n
           /\ PushTo(ring, Append(fifo, x)) \in Seq(Items)
           /\ Rest(ring, Append(fifo, x)) \in Seq(Items)
           /\ Len(PushTo(ring, Append(fifo, x))) <= QueueLength
<1> DEFINE s == Append(fifo, x)
           p == PushTo(ring, s)
           t == Rest(ring, s)
<1>0. /\ ring \in Seq(Items) /\ fifo \in Seq(Items) /\ a \in Nat /\ x \in Items
      /\ Len(ring) <= QueueLength
      /\ Numbered(ring, a) /\ Numbered(fifo, a + Len(ring))
      /\ x.n = a + Len(ring) + Len(fifo) + 1
  BY Zenon DEF StagedNext
<1>1. s \in Seq(Items) /\ Len(s) = Len(fifo) + 1
      /\ Numbered(s, a + Len(ring))
  BY <1>0, AppendNumbered
<1> HIDE DEF s
<1>2. Numbered(p, a) /\ Numbered(t, a + Len(p))
  BY Zenon, <1>0, <1>1, PushNumbered
<1>3. /\ Fits(s, ring) \in 0 .. Len(s)
      /\ Len(p) = Len(ring) + Fits(s, ring)
      /\ Len(t) = Len(s) - Fits(s, ring)
      /\ p \in Seq(Items) /\ t \in Seq(Items) /\ Len(p) <= QueueLength
  BY Zenon, <1>0, <1>1, PushFacts
<1>4. a + Len(p) + Len(t) = x.n
  BY <1>0, <1>1, <1>3
<1> QED BY <1>2, <1>3, <1>4, Zenon DEF s

\* A history of 1, 2, ..., k followed by k + 1.
LEMMA AppendCount ==
    ASSUME NEW s \in Seq(Nat), IsCount(s)
    PROVE  /\ Append(s, Len(s) + 1) \in Seq(Nat)
           /\ Len(Append(s, Len(s) + 1)) = Len(s) + 1
           /\ IsCount(Append(s, Len(s) + 1))
BY DEF IsCount

-----------------------------------------------------------------------------
(* Facts about one state or about the part of the state a step leaves alone. *)

\* The queues a core may work on are queues between it and its peer.
LEMMA PeerQueues ==
    ASSUME NEW c \in Cores, peer[c] \in Cores \ {c}
    PROVE  RxQueue(c) \in Queues /\ TxQueue(c) \in Queues
           /\ RxQueue(c) # TxQueue(c)
BY Zenon DEF RxQueue, TxQueue, Queues

\* The loop of poll_queues skips the core itself and ends at smp::count.
LEMMA NextPeerFacts ==
    ASSUME NEW c \in Cores, NEW k \in 0 .. N
    PROVE  /\ NextPeer(c, k) \in 0 .. N
           /\ NextPeer(c, k) < N => NextPeer(c, k) \in Cores \ {c}
           /\ N > 1 => NextPeer(c, 0) \in Cores \ {c}
BY NAssumption DEF NextPeer, Cores

\* A queue joins two different cores.
LEMMA QueueCores ==
    ASSUME NEW q \in Queues
    PROVE  q[1] \in Cores /\ q[2] \in Cores /\ q[1] # q[2] /\ q = <<q[1], q[2]>>
BY DEF Queues

\* Which queue a core has popped items of.
LEMMA PoppedQueue ==
    ASSUME NEW c \in Cores, NEW q \in Queues
    PROVE  Popped(c, q) <=>
               \/ pc[c] \in {"in2", "run"} /\ q = RxQueue(c)
               \/ pc[c] \in {"out2", "complete"} /\ q = TxQueue(c)
BY QueueCores DEF Popped, RxQueue, TxQueue

\* The same after a step.
LEMMA PoppedQueuePrime ==
    ASSUME NEW c \in Cores, NEW q \in Queues
    PROVE  Popped(c, q)' <=>
               \/ pc'[c] \in {"in2", "run"} /\ q = <<c, peer'[c]>>
               \/ pc'[c] \in {"out2", "complete"} /\ q = <<peer'[c], c>>
BY QueueCores DEF Popped

\* A step of process_queue on one side of queue k holds items of k only.
LEMMA RxOnly ==
    ASSUME NEW c \in Cores, NEW k, k = RxQueue(c),
           pc[c] \notin {"out2", "complete"},
           pc'[c] \notin {"out2", "complete"},
           pc'[c] \in {"in2", "run"} => peer'[c] = peer[c]
    PROVE  \A q \in Queues \ {k} : ~Popped(c, q) /\ ~Popped(c, q)'
BY Zenon, PoppedQueue, PoppedQueuePrime DEF RxQueue

\* The same for the completions of queue k.
LEMMA TxOnly ==
    ASSUME NEW c \in Cores, NEW k, k = TxQueue(c),
           pc[c] \notin {"in2", "run"},
           pc'[c] \notin {"in2", "run"},
           pc'[c] \in {"out2", "complete"} => peer'[c] = peer[c]
    PROVE  \A q \in Queues \ {k} : ~Popped(c, q) /\ ~Popped(c, q)'
BY Zenon, PoppedQueue, PoppedQueuePrime DEF TxQueue

\* A step that changes neither a queue nor what its two cores have popped from
\* it keeps its pipeline.
LEMMA PipelineFrame ==
    ASSUME NEW q \in Queues, Pipeline(q),
           pendingFifo'[q] = pendingFifo[q], pending'[q] = pending[q],
           completedFifo'[q] = completedFifo[q], completed'[q] = completed[q],
           submitted'[q] = submitted[q], ran'[q] = ran[q], done'[q] = done[q],
           Popped(q[1], q)' <=> Popped(q[1], q),
           Popped(q[2], q)' <=> Popped(q[2], q),
           Popped(q[1], q) => /\ func'[q[1]] = func[q[1]]
                              /\ items'[q[1]] = items[q[1]]
                              /\ i'[q[1]] = i[q[1]],
           Popped(q[2], q) => /\ func'[q[2]] = func[q[2]]
                              /\ items'[q[2]] = items[q[2]]
                              /\ i'[q[2]] = i[q[2]]
    PROVE  Pipeline(q)'
<1>1. InHand(q[1], q)' = InHand(q[1], q) /\ InHand(q[2], q)' = InHand(q[2], q)
  BY Zenon DEF InHand
<1>2. \A a : HandNumbered(q[1], q, a) => HandNumbered(q[1], q, a)'
  BY Zenon DEF HandNumbered
<1>3. \A a : HandNumbered(q[2], q, a) => HandNumbered(q[2], q, a)'
  BY Zenon DEF HandNumbered
<1> QED BY ZenonT(60), <1>1, <1>2, <1>3 DEF Pipeline, RequestSide, ResponseSide,
     Numbered, IsCount

\* What a core has popped, as a number, and what keeps it.
LEMMA InHandNat ==
    ASSUME NothingLost, NEW e \in Cores, NEW q \in Queues
    PROVE  InHand(e, q) \in Nat
BY DEF NothingLost, TypeOK, LocalsOK, InHand

\* What a core holds of a queue changes only with its own popped items and index.
LEMMA HandFrame ==
    ASSUME NEW e, NEW q, Popped(e, q)' <=> Popped(e, q),
           Popped(e, q) => /\ func'[e] = func[e] /\ items'[e] = items[e]
                           /\ i'[e] = i[e]
    PROVE  /\ InHand(e, q)' = InHand(e, q)
           /\ \A a : HandNumbered(e, q, a) => HandNumbered(e, q, a)'
BY Zenon DEF InHand, HandNumbered

\* One half of a pipeline is not touched by a step on the other half.
LEMMA RequestFrame ==
    ASSUME NEW q, RequestSide(q), Popped(q[1], q)' <=> Popped(q[1], q),
           Popped(q[1], q) => /\ func'[q[1]] = func[q[1]]
                              /\ items'[q[1]] = items[q[1]]
                              /\ i'[q[1]] = i[q[1]],
           pendingFifo'[q] = pendingFifo[q], pending'[q] = pending[q],
           submitted'[q] = submitted[q], ran'[q] = ran[q]
    PROVE  RequestSide(q)'
BY ZenonT(60), HandFrame DEF RequestSide, Numbered

\* The response side of a queue is untouched by a step elsewhere.
LEMMA ResponseFrame ==
    ASSUME NEW q, ResponseSide(q), Popped(q[2], q)' <=> Popped(q[2], q),
           Popped(q[2], q) => /\ func'[q[2]] = func[q[2]]
                              /\ items'[q[2]] = items[q[2]]
                              /\ i'[q[2]] = i[q[2]],
           completedFifo'[q] = completedFifo[q], completed'[q] = completed[q],
           done'[q] = done[q], ran'[q] = ran[q]
    PROVE  ResponseSide(q)'
BY ZenonT(60), HandFrame DEF ResponseSide, Numbered

\* Cores that take no step keep what they hold.
LEMMA OtherCores ==
    ASSUME NEW q \in Queues, NEW e \in Cores,
           pc'[e] = pc[e], peer'[e] = peer[e]
    PROVE  Popped(e, q)' <=> Popped(e, q)
BY Zenon DEF Popped

\* A step of core c on queue k only keeps the pipelines of the other queues.
LEMMA OtherQueues ==
    ASSUME NothingLost, NEW c \in Cores, NEW K,
           \A q \in Queues \ K :
               /\ pendingFifo'[q] = pendingFifo[q] /\ pending'[q] = pending[q]
               /\ completedFifo'[q] = completedFifo[q]
               /\ completed'[q] = completed[q]
               /\ submitted'[q] = submitted[q]
               /\ ran'[q] = ran[q] /\ done'[q] = done[q]
               /\ ~Popped(c, q) /\ ~Popped(c, q)',
           \A e \in Cores \ {c} :
               /\ pc'[e] = pc[e] /\ peer'[e] = peer[e] /\ func'[e] = func[e]
               /\ items'[e] = items[e] /\ i'[e] = i[e]
    PROVE  \A q \in Queues \ K : Pipeline(q)'
<1> TAKE q \in Queues \ K
<1>1. Pipeline(q)
  BY Zenon DEF NothingLost
<1>2. \A e \in Cores : Popped(e, q)' <=> Popped(e, q)
  BY Zenon, OtherCores
<1>3. \A e \in Cores : Popped(e, q) =>
          func'[e] = func[e] /\ items'[e] = items[e] /\ i'[e] = i[e]
  BY Zenon
<1> QED BY ZenonT(60), <1>1, <1>2, <1>3, QueueCores, PipelineFrame

-----------------------------------------------------------------------------
(* The initial state and the steps, one lemma per action.                   *)

\* Before the first submission nothing can be lost.
LEMMA InitNothingLost == Init => NothingLost
<1> SUFFICES ASSUME Init PROVE NothingLost
  BY Zenon
<1>1. N \in Nat /\ N > 0
  BY NAssumption
<1>2. TypeOK
  BY <1>1, QueueLengthAssumption, MaxSubmitAssumption
  DEF Init, TypeOK, Cores, Labels, UserCode
<1>3. \A c \in Cores : LocalsOK(c)
  BY DEF Init, LocalsOK
<1>4. ASSUME NEW q \in Queues PROVE Pipeline(q)
  <2>1. ~Popped(q[1], q) /\ ~Popped(q[2], q)
    BY Zenon, QueueCores DEF Init, Popped
  <2> QED BY <2>1 DEF Init, Pipeline, RequestSide, ResponseSide,
          InHand, HandNumbered, Numbered, IsCount
<1> QED BY Zenon, <1>2, <1>3, <1>4 DEF NothingLost

\* Steps that only move the program counter between poll rounds.
LEMMA LoopStep ==
    ASSUME NothingLost, NEW c \in Cores,
           StartPoll(c) \/ EndIteration(c) \/ JoinAll(c)
    PROVE  NothingLost'
<1>0. N \in Nat /\ N > 0
  BY NAssumption
<1>1. pc' \in [Cores -> Labels] /\ peer' \in [Cores -> 0 .. N]
  <2>1. CASE StartPoll(c)
    <3>1. NextPeer(c, 0) \in 0 .. N
      BY <1>0, NextPeerFacts
    <3> QED BY ZenonT(60), <2>1, <3>1 DEF NothingLost, TypeOK, StartPoll, Labels, UserCode
  <2>2. CASE EndIteration(c) \/ JoinAll(c)
    BY Zenon, <2>2 DEF NothingLost, TypeOK, EndIteration, JoinAll, Labels, UserCode
  <2> QED BY Zenon, <2>1, <2>2
<1>2. TypeOK'
  BY Zenon, <1>1 DEF NothingLost, TypeOK, StartPoll, EndIteration, JoinAll,
     queueVars, history
<1>3. \A e \in Cores : LocalsOK(e)'
  <2>1. TypeOK /\ LocalsOK(c)
    BY Zenon DEF NothingLost
  <2>2. LocalsOK(c)'
    <3>1. CASE StartPoll(c)
      <4>1. N > 1 => NextPeer(c, 0) \in Cores \ {c}
        BY <1>0, NextPeerFacts
      <4> QED BY Zenon, <2>1, <3>1, <4>1 DEF TypeOK, LocalsOK, StartPoll
    <3>2. CASE EndIteration(c) \/ JoinAll(c)
      BY ZenonT(60), <2>1, <3>2 DEF TypeOK, LocalsOK, EndIteration, JoinAll
    <3> QED BY Zenon, <3>1, <3>2
  <2>3. ASSUME NEW e \in Cores \ {c} PROVE LocalsOK(e)'
    BY <2>1 DEF NothingLost, TypeOK, LocalsOK, StartPoll, EndIteration, JoinAll
  <2> QED BY Zenon, <2>2, <2>3
<1>4. \A q \in Queues : ~Popped(c, q) /\ ~Popped(c, q)'
  BY Zenon DEF NothingLost, TypeOK, Popped, StartPoll, EndIteration, JoinAll
<1>5. \A q \in Queues \ {} : Pipeline(q)'
  BY Zenon, <1>4, OtherQueues DEF NothingLost, TypeOK, StartPoll, EndIteration,
     JoinAll, queueVars, history
<1> QED BY Zenon, <1>2, <1>3, <1>5 DEF NothingLost

\* The queue an item is submitted to keeps its pipeline.
LEMMA SubmitPipeline ==
    ASSUME NEW q \in Queues, NEW x \in Items
    PROVE  /\ NothingLost
           /\ x.n = submitted[q] + 1
           /\ pending'[q] = PushTo(pending[q], Append(pendingFifo[q], x))
           /\ pendingFifo'[q] = Rest(pending[q], Append(pendingFifo[q], x))
           /\ submitted'[q] = submitted[q] + 1
           /\ \A c : Popped(c, q)' <=> Popped(c, q)
           /\ UNCHANGED <<completedFifo, completed, func, items, i, ran, done>>
           => Pipeline(q)'
<1>0. SUFFICES
        ASSUME NothingLost,
               x.n = submitted[q] + 1,
               pending'[q] = PushTo(pending[q], Append(pendingFifo[q], x)),
               pendingFifo'[q] = Rest(pending[q], Append(pendingFifo[q], x)),
               submitted'[q] = submitted[q] + 1,
               \A c : Popped(c, q)' <=> Popped(c, q),
               UNCHANGED <<completedFifo, completed, func, items, i, ran, done>>
        PROVE  Pipeline(q)'
  BY Zenon
<1>1. /\ pending[q] \in Seq(Items) /\ pendingFifo[q] \in Seq(Items)
      /\ Len(pending[q]) <= QueueLength /\ Len(ran[q]) \in Nat
  BY <1>0 DEF NothingLost, TypeOK
<1>2. Pipeline(q)
  BY Zenon, <1>0 DEF NothingLost
<1> DEFINE a == Len(ran[q]) + InHand(q[1], q)
<1>3. a \in Nat
  BY <1>0, <1>1, InHandNat, QueueCores
<1>4. /\ Numbered(pending[q], a)
      /\ Numbered(pendingFifo[q], a + Len(pending[q]))
      /\ submitted[q] = a + Len(pending[q]) + Len(pendingFifo[q])
  BY Zenon, <1>2 DEF Pipeline, RequestSide
<1> HIDE DEF a
<1>5. /\ Numbered(pending'[q], a)
      /\ Numbered(pendingFifo'[q], a + Len(pending'[q]))
      /\ submitted'[q] = a + Len(pending'[q]) + Len(pendingFifo'[q])
  <2>1. StagedNext(pending[q], pendingFifo[q], a, x)
    BY <1>0, <1>1, <1>3, <1>4, Zenon DEF StagedNext
  <2>2. /\ Numbered(PushTo(pending[q], Append(pendingFifo[q], x)), a)
        /\ Numbered(Rest(pending[q], Append(pendingFifo[q], x)),
                    a + Len(PushTo(pending[q], Append(pendingFifo[q], x))))
        /\ a + Len(PushTo(pending[q], Append(pendingFifo[q], x)))
             + Len(Rest(pending[q], Append(pendingFifo[q], x))) = x.n
    BY Zenon, <2>1, SubmitNumbered
  <2> QED BY <1>0, <2>2, Zenon
<1>6. /\ InHand(q[1], q)' = InHand(q[1], q)
      /\ InHand(q[2], q)' = InHand(q[2], q)
      /\ \A b : HandNumbered(q[1], q, b) => HandNumbered(q[1], q, b)'
      /\ \A b : HandNumbered(q[2], q, b) => HandNumbered(q[2], q, b)'
  BY Zenon, <1>0, HandFrame
<1> QED BY Zenon, <1>0, <1>2, <1>5, <1>6 DEF Pipeline, RequestSide, ResponseSide, a

\* Submitting to a set of queues (smp::submit_to, reactor::stop).
LEMMA SubmitStep ==
    ASSUME NothingLost, NEW Q \in SUBSET Queues, NEW stop,
           \A k \in 1 .. MaxSubmit : [n |-> k, stop |-> stop] \in Items,
           SubmitItem(Q, stop),
           UNCHANGED <<completedFifo, completed, pc, peer, func, items, i,
                       ran, done>>,
           stopping' \in [Cores -> BOOLEAN]
    PROVE  NothingLost'
<1>0. TypeOK
  BY Zenon DEF NothingLost
<1>1. ASSUME NEW q \in Queues
      PROVE  /\ pending[q] \in Seq(Items) /\ pendingFifo[q] \in Seq(Items)
             /\ Len(pending[q]) <= QueueLength
             /\ submitted[q] \in 0 .. MaxSubmit
             /\ q \in Q => submitted[q] < MaxSubmit
  BY Zenon, <1>0 DEF TypeOK, SubmitItem
<1>2. ASSUME NEW q \in Q
      PROVE  \E x \in Items : x.n = submitted[q] + 1
                              /\ Staged(q, stop) = Append(pendingFifo[q], x)
  <2>1. submitted[q] + 1 \in 1 .. MaxSubmit
    BY <1>1, MaxSubmitAssumption
  <2> QED BY Zenon, <2>1 DEF Staged
<1>3. ASSUME NEW q \in Q
      PROVE  /\ Staged(q, stop) \in Seq(Items)
             /\ Len(Staged(q, stop)) = Len(pendingFifo[q]) + 1
  <2>1. PICK x \in Items : Staged(q, stop) = Append(pendingFifo[q], x)
    BY Zenon, <1>2
  <2>2. PICK f \in Seq(Items) : f = pendingFifo[q]
    BY Zenon, <1>1
  <2>3. Append(f, x) \in Seq(Items) /\ Len(Append(f, x)) = Len(f) + 1
    OBVIOUS
  <2> QED BY Zenon, <2>1, <2>2, <2>3
<1>4. ASSUME NEW q \in Q
      PROVE  /\ pending'[q] = PushTo(pending[q], Staged(q, stop))
             /\ pendingFifo'[q] = Rest(pending[q], Staged(q, stop))
             /\ submitted'[q] = submitted[q] + 1
  BY Zenon DEF SubmitItem
<1>5. ASSUME NEW q \in Queues
      PROVE  /\ pending'[q] \in Seq(Items) /\ pendingFifo'[q] \in Seq(Items)
             /\ Len(pending'[q]) <= QueueLength
             /\ submitted'[q] \in 0 .. MaxSubmit
  <2>1. CASE q \in Q
    <3>1. /\ pending'[q] \in Seq(Items) /\ pendingFifo'[q] \in Seq(Items)
          /\ Len(pending'[q]) <= QueueLength
      BY <1>1, <1>3, <1>4, <2>1, PushFacts
    <3>2. submitted'[q] \in 0 .. MaxSubmit
      BY <1>1, <1>4, <2>1, MaxSubmitAssumption
    <3> QED BY Zenon, <3>1, <3>2
  <2>2. CASE q \notin Q
    BY Zenon, <1>1, <2>2 DEF SubmitItem
  <2> QED BY Zenon, <2>1, <2>2
<1>6. TypeOK'
  <2>1. /\ pending' \in [Queues -> Seq(Items)]
        /\ pendingFifo' \in [Queues -> Seq(Items)]
        /\ submitted' \in [Queues -> 0 .. MaxSubmit]
    BY Zenon, <1>5 DEF SubmitItem
  <2> QED BY Zenon, <1>0, <1>5, <2>1 DEF TypeOK
<1>7. \A c \in Cores : LocalsOK(c)'
  BY Zenon DEF NothingLost, LocalsOK
<1>8. ASSUME NEW q \in Queues PROVE Pipeline(q)'
  <2>0. Pipeline(q)
    BY Zenon DEF NothingLost
  <2>1. \A c : Popped(c, q)' <=> Popped(c, q)
    BY Zenon DEF Popped
  <2>2. CASE q \notin Q
    <3>1. submitted'[q] = submitted[q] /\ pending'[q] = pending[q]
          /\ pendingFifo'[q] = pendingFifo[q]
      BY Zenon, <2>2 DEF SubmitItem
    <3> QED BY Zenon, <2>0, <2>1, <3>1, PipelineFrame
  <2>3. CASE q \in Q
    <3>1. PICK x \in Items : x.n = submitted[q] + 1
              /\ Staged(q, stop) = Append(pendingFifo[q], x)
      BY Zenon, <1>2, <2>3
    <3> QED BY Zenon, <1>4, <2>1, <2>3, <3>1, SubmitPipeline
  <2> QED BY Zenon, <2>2, <2>3
<1> QED BY Zenon, <1>6, <1>7, <1>8 DEF NothingLost

\* txq.flush_request_batch()
LEMMA FlushRequestStep ==
    ASSUME NEW c \in Cores
    PROVE  NothingLost /\ FlushRequest(c) => NothingLost'
<1>0. SUFFICES ASSUME NothingLost, FlushRequest(c) PROVE NothingLost'
  BY Zenon
<1>1. TypeOK /\ LocalsOK(c) /\ pc[c] = "request"
  BY Zenon, <1>0 DEF NothingLost, FlushRequest
<1>2. PICK k \in Queues :
          k = TxQueue(c) /\ k[1] = peer[c] /\ k[2] = c /\ k[1] \in Cores \ {c}
  BY Zenon, <1>1, PeerQueues DEF LocalsOK, TxQueue
<1>3. /\ pending' = [pending EXCEPT ![k] = PushTo(@, pendingFifo[k])]
      /\ pendingFifo' = [pendingFifo EXCEPT ![k] = Rest(pending[k], @)]
      /\ pc' = [pc EXCEPT ![c] = "out1"]
      /\ UNCHANGED <<completedFifo, completed, peer, func, items, i, stopping,
                     submitted, ran, done>>
  BY Zenon, <1>0, <1>2 DEF FlushRequest, history
<1>4. /\ pending[k] \in Seq(Items) /\ pendingFifo[k] \in Seq(Items)
      /\ Len(pending[k]) <= QueueLength /\ Len(ran[k]) \in Nat
  BY <1>1, <1>2 DEF TypeOK
<1>5. /\ pending'[k] = PushTo(pending[k], pendingFifo[k])
      /\ pendingFifo'[k] = Rest(pending[k], pendingFifo[k])
      /\ \A q \in Queues \ {k} : pending'[q] = pending[q]
                                 /\ pendingFifo'[q] = pendingFifo[q]
  BY Zenon, <1>1, <1>2, <1>3 DEF TypeOK
<1>6. /\ pending'[k] \in Seq(Items) /\ pendingFifo'[k] \in Seq(Items)
      /\ Len(pending'[k]) <= QueueLength
      /\ Len(pending'[k]) + Len(pendingFifo'[k])
           = Len(pending[k]) + Len(pendingFifo[k])
  <2>1. PICK r \in Seq(Items), f \in Seq(Items) :
            r = pending[k] /\ f = pendingFifo[k]
    BY Zenon, <1>4
  <2>2. Len(r) <= QueueLength
    BY Zenon, <1>4, <2>1
  <2>3. pending'[k] = PushTo(r, f) /\ pendingFifo'[k] = Rest(r, f)
    BY <1>5, <2>1, Zenon
  <2>4. /\ PushTo(r, f) \in Seq(Items) /\ Rest(r, f) \in Seq(Items)
        /\ Len(PushTo(r, f)) <= QueueLength
        /\ Len(PushTo(r, f)) + Len(Rest(r, f)) = Len(r) + Len(f)
    BY Zenon, <2>2, PushLength
  <2> QED BY <2>1, <2>3, <2>4, Zenon
<1>7. TypeOK'
  <2>1. pending' \in [Queues -> Seq(Items)]
        /\ pendingFifo' \in [Queues -> Seq(Items)]
    BY Zenon, <1>1, <1>2, <1>3, <1>5, <1>6 DEF TypeOK
  <2>2. \A q \in Queues : Len(pending'[q]) <= QueueLength
    BY Zenon, <1>1, <1>5, <1>6 DEF TypeOK
  <2>3. pc' \in [Cores -> Labels]
    BY Zenon, <1>1, <1>3 DEF TypeOK, Labels
  <2> QED BY Zenon, <1>1, <1>3, <2>1, <2>2, <2>3 DEF TypeOK
<1>8. \A e \in Cores : LocalsOK(e)'
  BY Zenon, <1>0, <1>1, <1>3 DEF NothingLost, TypeOK, LocalsOK
<1>9. /\ \A q \in Queues : ~Popped(c, q) /\ ~Popped(c, q)'
      /\ \A e \in Cores \ {c} : pc'[e] = pc[e]
  BY Zenon, <1>1, <1>3 DEF TypeOK, Popped
<1>10. \A q \in Queues \ {k} : Pipeline(q)'
  BY ZenonT(60), <1>0, <1>3, <1>5, <1>9, OtherQueues
<1>11. Pipeline(k)'
  <2>1. Pipeline(k)
    BY Zenon, <1>0, <1>2 DEF NothingLost
  <2>2. ResponseSide(k)'
    BY Zenon, <1>2, <1>3, <1>9, <2>1, ResponseFrame DEF Pipeline
  <2>3. Popped(k[1], k)' <=> Popped(k[1], k)
    BY Zenon, <1>2, <1>3, <1>9, OtherCores
  <2>4. RequestSide(k)'
    <3> DEFINE a == Len(ran[k]) + InHand(k[1], k)
    <3>1. a \in Nat
      BY <1>0, <1>2, <1>4, InHandNat
    <3>2. /\ HandNumbered(k[1], k, Len(ran[k]))
          /\ Numbered(pending[k], a)
          /\ Numbered(pendingFifo[k], a + Len(pending[k]))
          /\ submitted[k] = a + Len(pending[k]) + Len(pendingFifo[k])
      BY Zenon, <2>1 DEF Pipeline, RequestSide
    <3>3. /\ InHand(k[1], k)' = InHand(k[1], k)
          /\ HandNumbered(k[1], k, Len(ran[k]))'
      BY Zenon, <1>3, <2>3, <3>2, HandFrame
    <3>4. a' = a
      BY Zenon, <1>3, <3>3
    <3> HIDE DEF a
    <3>5. /\ Numbered(pending'[k], a)
          /\ Numbered(pendingFifo'[k], a + Len(pending'[k]))
          /\ submitted[k] = a + Len(pending'[k]) + Len(pendingFifo'[k])
      <4>1. PICK r \in Seq(Items), f \in Seq(Items) :
                r = pending[k] /\ f = pendingFifo[k]
        BY Zenon, <1>4
      <4>2. /\ Len(r) <= QueueLength /\ Numbered(r, a)
            /\ Numbered(f, a + Len(r)) /\ submitted[k] = a + Len(r) + Len(f)
        BY <1>4, <3>2, <4>1, Zenon
      <4>3. /\ Numbered(PushTo(r, f), a)
            /\ Numbered(Rest(r, f), a + Len(PushTo(r, f)))
            /\ a + Len(r) + Len(f)
                 = a + Len(PushTo(r, f)) + Len(Rest(r, f))
        BY Zenon, <3>1, <4>2, FlushNumbered
      <4> QED BY <1>5, <4>1, <4>2, <4>3, Zenon
    <3> QED BY Zenon, <1>3, <3>3, <3>4, <3>5 DEF RequestSide, a
  <2> QED BY Zenon, <1>3, <2>1, <2>2, <2>4 DEF Pipeline
<1> QED BY Zenon, <1>7, <1>8, <1>10, <1>11 DEF NothingLost

\* rxq.flush_response_batch()
LEMMA FlushResponseStep ==
    ASSUME NEW c \in Cores
    PROVE  NothingLost /\ FlushResponse(c) => NothingLost'
<1>0. SUFFICES ASSUME NothingLost, FlushResponse(c) PROVE NothingLost'
  BY Zenon
<1>1. TypeOK /\ LocalsOK(c) /\ pc[c] = "respond"
  BY Zenon, <1>0 DEF NothingLost, FlushResponse
<1>2. PICK k \in Queues :
          k = RxQueue(c) /\ k[2] = peer[c] /\ k[1] = c /\ k[2] \in Cores \ {c}
  BY Zenon, <1>1, PeerQueues DEF LocalsOK, RxQueue
<1>3. /\ completed' = [completed EXCEPT ![k] = PushTo(@, completedFifo[k])]
      /\ completedFifo' = [completedFifo EXCEPT ![k] = Rest(completed[k], @)]
      /\ pc' = [pc EXCEPT ![c] = "in1"]
      /\ UNCHANGED <<pendingFifo, pending, peer, func, items, i, stopping,
                     submitted, ran, done>>
  BY Zenon, <1>0, <1>2 DEF FlushResponse, history
<1>4. /\ completed[k] \in Seq(Items) /\ completedFifo[k] \in Seq(Items)
      /\ Len(completed[k]) <= QueueLength /\ Len(done[k]) \in Nat
  BY <1>1, <1>2 DEF TypeOK
<1>5. /\ completed'[k] = PushTo(completed[k], completedFifo[k])
      /\ completedFifo'[k] = Rest(completed[k], completedFifo[k])
      /\ \A q \in Queues \ {k} : completed'[q] = completed[q]
                                 /\ completedFifo'[q] = completedFifo[q]
  BY Zenon, <1>1, <1>2, <1>3 DEF TypeOK
<1>6. /\ completed'[k] \in Seq(Items) /\ completedFifo'[k] \in Seq(Items)
      /\ Len(completed'[k]) <= QueueLength
      /\ Len(completed'[k]) + Len(completedFifo'[k])
           = Len(completed[k]) + Len(completedFifo[k])
  <2>1. PICK r \in Seq(Items), f \in Seq(Items) :
            r = completed[k] /\ f = completedFifo[k]
    BY Zenon, <1>4
  <2>2. Len(r) <= QueueLength
    BY Zenon, <1>4, <2>1
  <2>3. completed'[k] = PushTo(r, f) /\ completedFifo'[k] = Rest(r, f)
    BY <1>5, <2>1, Zenon
  <2>4. /\ PushTo(r, f) \in Seq(Items) /\ Rest(r, f) \in Seq(Items)
        /\ Len(PushTo(r, f)) <= QueueLength
        /\ Len(PushTo(r, f)) + Len(Rest(r, f)) = Len(r) + Len(f)
    BY Zenon, <2>2, PushLength
  <2> QED BY <2>1, <2>3, <2>4, Zenon
<1>7. TypeOK'
  <2>1. completed' \in [Queues -> Seq(Items)]
        /\ completedFifo' \in [Queues -> Seq(Items)]
    BY Zenon, <1>1, <1>2, <1>3, <1>5, <1>6 DEF TypeOK
  <2>2. \A q \in Queues : Len(completed'[q]) <= QueueLength
    BY Zenon, <1>1, <1>5, <1>6 DEF TypeOK
  <2>3. pc' \in [Cores -> Labels]
    BY Zenon, <1>1, <1>3 DEF TypeOK, Labels
  <2> QED BY Zenon, <1>1, <1>3, <2>1, <2>2, <2>3 DEF TypeOK
<1>8. \A e \in Cores : LocalsOK(e)'
  BY Zenon, <1>0, <1>1, <1>3 DEF NothingLost, TypeOK, LocalsOK
<1>9. /\ \A q \in Queues : ~Popped(c, q) /\ ~Popped(c, q)'
      /\ \A e \in Cores \ {c} : pc'[e] = pc[e]
  BY Zenon, <1>1, <1>3 DEF TypeOK, Popped
<1>10. \A q \in Queues \ {k} : Pipeline(q)'
  BY ZenonT(60), <1>0, <1>3, <1>5, <1>9, OtherQueues
<1>11. Pipeline(k)'
  <2>1. Pipeline(k)
    BY Zenon, <1>0, <1>2 DEF NothingLost
  <2>2. RequestSide(k)'
    BY Zenon, <1>2, <1>3, <1>9, <2>1, RequestFrame DEF Pipeline
  <2>3. Popped(k[2], k)' <=> Popped(k[2], k)
    BY Zenon, <1>2, <1>3, <1>9, OtherCores
  <2>4. ResponseSide(k)'
    <3> DEFINE a == Len(done[k]) + InHand(k[2], k)
    <3>1. a \in Nat
      BY <1>0, <1>2, <1>4, InHandNat
    <3>2. /\ HandNumbered(k[2], k, Len(done[k]))
          /\ Numbered(completed[k], a)
          /\ Numbered(completedFifo[k], a + Len(completed[k]))
          /\ Len(ran[k]) = a + Len(completed[k]) + Len(completedFifo[k])
      BY Zenon, <2>1 DEF Pipeline, ResponseSide
    <3>3. /\ InHand(k[2], k)' = InHand(k[2], k)
          /\ HandNumbered(k[2], k, Len(done[k]))'
      BY Zenon, <1>3, <2>3, <3>2, HandFrame
    <3>4. a' = a
      BY Zenon, <1>3, <3>3
    <3> HIDE DEF a
    <3>5. /\ Numbered(completed'[k], a)
          /\ Numbered(completedFifo'[k], a + Len(completed'[k]))
          /\ Len(ran[k]) = a + Len(completed'[k]) + Len(completedFifo'[k])
      <4>1. PICK r \in Seq(Items), f \in Seq(Items) :
                r = completed[k] /\ f = completedFifo[k]
        BY Zenon, <1>4
      <4>2. /\ Len(r) <= QueueLength /\ Numbered(r, a)
            /\ Numbered(f, a + Len(r)) /\ Len(ran[k]) = a + Len(r) + Len(f)
        BY <1>4, <3>2, <4>1, Zenon
      <4>3. /\ Numbered(PushTo(r, f), a)
            /\ Numbered(Rest(r, f), a + Len(PushTo(r, f)))
            /\ a + Len(r) + Len(f)
                 = a + Len(PushTo(r, f)) + Len(Rest(r, f))
        BY Zenon, <3>1, <4>2, FlushNumbered
      <4> QED BY <1>5, <4>1, <4>2, <4>3, Zenon
    <3> QED BY Zenon, <1>3, <3>3, <3>4, <3>5 DEF ResponseSide, a
  <2> QED BY Zenon, <1>3, <2>1, <2>2, <2>4 DEF Pipeline
<1> QED BY Zenon, <1>7, <1>8, <1>10, <1>11 DEF NothingLost

\* process_queue on an empty ring: return 0.
LEMMA PopNothingStep ==
    ASSUME NEW c \in Cores
    PROVE  /\ NothingLost
           /\ \/ PopIncoming(c) /\ pending[RxQueue(c)] = <<>>
              \/ PopCompletion(c) /\ completed[TxQueue(c)] = <<>>
           => NothingLost'
<1>0. SUFFICES ASSUME NothingLost,
                      \/ PopIncoming(c) /\ pending[RxQueue(c)] = <<>>
                      \/ PopCompletion(c) /\ completed[TxQueue(c)] = <<>>
               PROVE  NothingLost'
  BY Zenon
<1>1. TypeOK /\ LocalsOK(c) /\ pc[c] \in {"in1", "out1"}
      /\ peer[c] \in Cores \ {c}
  BY Zenon, <1>0 DEF NothingLost, PopIncoming, PopCompletion, LocalsOK
<1>2. PICK j \in 0 .. N, l \in {"request", "respond", "io"} :
          /\ peer' = [peer EXCEPT ![c] = j] /\ pc' = [pc EXCEPT ![c] = l]
          /\ l # "io" => j \in Cores \ {c}
  <2>1. CASE PopIncoming(c) /\ pending[RxQueue(c)] = <<>>
    <3>1. peer[c] \in 0 .. N /\ peer' = [peer EXCEPT ![c] = peer[c]]
      BY Zenon, <1>1, <2>1 DEF PopIncoming, TypeOK
    <3> QED BY Zenon, <1>1, <2>1, <3>1 DEF PopIncoming
  <2>2. CASE PopCompletion(c) /\ completed[TxQueue(c)] = <<>>
    <3> DEFINE j == NextPeer(c, peer[c] + 1)
    <3>1. j \in 0 .. N /\ (j < N => j \in Cores \ {c})
      BY <1>1, NAssumption, NextPeerFacts DEF Cores
    <3> QED BY Zenon, <2>2, <3>1 DEF PopCompletion, NextQueue
  <2> QED BY Zenon, <1>0, <2>1, <2>2
<1>3. UNCHANGED <<queueVars, func, items, i, stopping, history>>
  BY Zenon, <1>0 DEF PopIncoming, PopCompletion, queueVars
<1>4. TypeOK'
  <2>1. pc' \in [Cores -> Labels] /\ peer' \in [Cores -> 0 .. N]
    BY Zenon, <1>1, <1>2 DEF TypeOK, Labels, UserCode
  <2> QED BY Zenon, <1>1, <1>3, <2>1 DEF TypeOK, queueVars, history
<1>5. ASSUME NEW e \in Cores PROVE LocalsOK(e)'
  <2>1. CASE e = c
    BY Zenon, <1>1, <1>2, <1>3, <2>1 DEF TypeOK, LocalsOK
  <2>2. CASE e # c
    BY Zenon, <1>0, <1>1, <1>2, <1>3, <2>2 DEF NothingLost, TypeOK, LocalsOK
  <2> QED BY Zenon, <2>1, <2>2
<1>6. /\ \A q \in Queues \ {} : ~Popped(c, q) /\ ~Popped(c, q)'
      /\ \A e \in Cores \ {c} : pc'[e] = pc[e] /\ peer'[e] = peer[e]
  BY ZenonT(60), <1>1, <1>2 DEF TypeOK, Popped
<1>7. \A q \in Queues \ {} : Pipeline(q)'
  BY Zenon, <1>0, <1>3, <1>6, OtherQueues DEF queueVars, history
<1> QED BY Zenon, <1>4, <1>5, <1>7 DEF NothingLost

\* process_queue over pending_, q.pop(func).
LEMMA PopIncomingStep ==
    ASSUME NEW c \in Cores
    PROVE  NothingLost /\ PopIncoming(c) /\ pending[RxQueue(c)] # <<>>
           => NothingLost'
<1>0. SUFFICES ASSUME NothingLost, PopIncoming(c), pending[RxQueue(c)] # <<>>
               PROVE  NothingLost'
  BY Zenon
<1>1. TypeOK /\ LocalsOK(c) /\ pc[c] = "in1"
  BY Zenon, <1>0 DEF NothingLost, PopIncoming
<1>2. PICK k \in Queues :
          k = RxQueue(c) /\ k[2] = peer[c] /\ k[1] = c /\ k[2] \in Cores \ {c}
  BY Zenon, <1>1, PeerQueues DEF LocalsOK, RxQueue
<1>3. /\ pending' = [pending EXCEPT ![k] = Tail(@)]
      /\ func' = [func EXCEPT ![c] = Head(pending[k])]
      /\ pc' = [pc EXCEPT ![c] = "in2"]
      /\ UNCHANGED <<pendingFifo, completedFifo, completed, peer, items, i,
                     stopping, submitted, ran, done>>
      /\ pending[k] # <<>>
  BY Zenon, <1>0, <1>2 DEF PopIncoming, history
<1>4. Pipeline(k)
  BY Zenon, <1>0, <1>2 DEF NothingLost
<1>5. ~Popped(c, k) /\ Popped(c, k)' /\ items[c] = <<>> /\ i[c] = 0
      /\ func'[c] = Head(pending[k])
  BY Zenon, <1>1, <1>2, <1>3 DEF TypeOK, LocalsOK, Popped
<1>6. PICK r \in Seq(Items), a \in Nat :
          /\ r = pending[k] /\ a = Len(ran[k]) /\ r # <<>> /\ Numbered(r, a)
          /\ submitted[k] = a + Len(r) + Len(pendingFifo[k])
          /\ Numbered(pendingFifo[k], a + Len(r))
  <2>1. InHand(c, k) = 0
    BY Zenon, <1>5 DEF InHand
  <2>2. pending[k] \in Seq(Items) /\ Len(ran[k]) \in Nat
    BY <1>1 DEF TypeOK
  <2>3. /\ Numbered(pending[k], Len(ran[k]))
        /\ submitted[k] = Len(ran[k]) + Len(pending[k]) + Len(pendingFifo[k])
        /\ Numbered(pendingFifo[k], Len(ran[k]) + Len(pending[k]))
    <3>1. Len(ran[k]) + InHand(k[1], k) = Len(ran[k])
      BY <1>2, <2>1, <2>2
    <3>2. RequestSide(k)
      BY Zenon, <1>4 DEF Pipeline
    <3> QED BY <3>1, <3>2, Zenon DEF RequestSide
  <2> QED BY <1>3, <2>2, <2>3, Zenon
<1>7. /\ Head(r).n = a + 1 /\ Head(r) \in Items
      /\ Tail(r) \in Seq(Items) /\ Len(Tail(r)) = Len(r) - 1
      /\ Numbered(Tail(r), a + 1) /\ a + Len(r) = a + 1 + Len(Tail(r))
  BY Zenon, <1>6, TailNumbered
<1>8. TypeOK'
  <2>1. pending' \in [Queues -> Seq(Items)]
    BY Zenon, <1>1, <1>3, <1>6, <1>7 DEF TypeOK
  <2>2. ASSUME NEW q \in Queues PROVE Len(pending'[q]) <= QueueLength
    <3>1. CASE q = k
      <4>1. Len(r) <= QueueLength /\ pending'[k] = Tail(r)
        BY Zenon, <1>1, <1>3, <1>6 DEF TypeOK
      <4> QED BY <1>7, <3>1, <4>1, QueueLengthAssumption
    <3>2. CASE q # k
      BY Zenon, <1>1, <1>3, <3>2 DEF TypeOK
    <3> QED BY Zenon, <3>1, <3>2
  <2>3. func' \in [Cores -> Items \cup {Garbage}] /\ pc' \in [Cores -> Labels]
    BY Zenon, <1>1, <1>3, <1>6, <1>7 DEF TypeOK, Labels
  <2> QED BY Zenon, <1>1, <1>3, <2>1, <2>2, <2>3 DEF TypeOK
<1>9. ASSUME NEW e \in Cores PROVE LocalsOK(e)'
  <2>1. CASE e = c
    BY Zenon, <1>1, <1>2, <1>3, <1>6, <1>7, <2>1 DEF TypeOK, LocalsOK
  <2>2. CASE e # c
    BY Zenon, <1>0, <1>1, <1>3, <2>2 DEF NothingLost, TypeOK, LocalsOK
  <2> QED BY Zenon, <2>1, <2>2
<1>10. \A q \in Queues \ {k} : Pipeline(q)'
  <2>1. \A q \in Queues \ {k} : ~Popped(c, q) /\ ~Popped(c, q)'
    <3>1. pc'[c] = "in2" /\ peer'[c] = peer[c]
      BY Zenon, <1>1, <1>3 DEF TypeOK
    <3> QED BY Zenon, <1>1, <1>2, <3>1, RxOnly
  <2>2. \A q \in Queues \ {k} : pending'[q] = pending[q]
    BY Zenon, <1>1, <1>3 DEF TypeOK
  <2>3. \A e \in Cores \ {c} : func'[e] = func[e] /\ pc'[e] = pc[e]
    BY Zenon, <1>1, <1>3 DEF TypeOK
  <2>4. UNCHANGED <<pendingFifo, completedFifo, completed, peer, items, i,
                    submitted, ran, done>>
    BY Zenon, <1>3
  <2> QED BY ZenonT(60), <1>0, <2>1, <2>2, <2>3, <2>4, OtherQueues
<1>11. ResponseSide(k)'
  <2>1. Popped(k[2], k)' <=> Popped(k[2], k)
    BY Zenon, <1>1, <1>2, <1>3, OtherCores DEF TypeOK
  <2>2. func'[k[2]] = func[k[2]]
    BY Zenon, <1>1, <1>2, <1>3 DEF TypeOK
  <2> QED BY Zenon, <1>3, <1>4, <2>1, <2>2, ResponseFrame DEF Pipeline
<1>12. RequestSide(k)'
  <2>1. pending'[k] = Tail(r) /\ func'[c].n = a + 1
    BY Zenon, <1>1, <1>3, <1>5, <1>6, <1>7 DEF TypeOK
  <2>2. InHand(c, k)' = 1
    BY <1>3, <1>5 DEF InHand
  <2>3. HandNumbered(c, k, a)'
    <3>1. items'[c] = <<>> /\ i'[c] = 0
      BY Zenon, <1>3, <1>5
    <3> QED BY <2>1, <3>1 DEF HandNumbered
  <2>4. /\ Numbered(pending'[k], a + 1)
        /\ a + Len(r) = a + 1 + Len(pending'[k])
    BY <1>7, <2>1, Zenon
  <2>5. Len(ran'[k]) + InHand(k[1], k)' = a + 1
    BY <1>2, <1>3, <1>6, <2>2, Zenon
  <2>6. /\ HandNumbered(k[1], k, Len(ran[k]))'
        /\ Numbered(pendingFifo'[k], a + 1 + Len(pending'[k]))
        /\ submitted'[k] = a + 1 + Len(pending'[k]) + Len(pendingFifo'[k])
    BY <1>2, <1>3, <1>6, <2>3, <2>4, Zenon
  <2> QED BY <2>4, <2>5, <2>6, Zenon DEF RequestSide
<1> QED BY Zenon, <1>3, <1>4, <1>8, <1>9, <1>10, <1>11, <1>12 DEF NothingLost, Pipeline

\* process_queue over pending_, nr = q.pop(items).
LEMMA PopAllIncomingStep ==
    ASSUME NEW c \in Cores
    PROVE  NothingLost /\ PopAllIncoming(c) => NothingLost'
<1>0. SUFFICES ASSUME NothingLost, PopAllIncoming(c) PROVE NothingLost'
  BY Zenon
<1>1. TypeOK /\ LocalsOK(c) /\ pc[c] = "in2"
  BY Zenon, <1>0 DEF NothingLost, PopAllIncoming
<1>2. PICK k \in Queues :
          k = RxQueue(c) /\ k[2] = peer[c] /\ k[1] = c /\ k[2] \in Cores \ {c}
  BY ZenonT(60), <1>1, PeerQueues DEF LocalsOK, RxQueue
<1>3. /\ pending' = [pending EXCEPT ![k] = <<>>]
      /\ items' = [items EXCEPT ![c] = pending[k]]
      /\ i' = [i EXCEPT ![c] = 0]
      /\ pc' = [pc EXCEPT ![c] = "run"]
      /\ UNCHANGED <<pendingFifo, completedFifo, completed, peer, func,
                     stopping, submitted, ran, done>>
  BY Zenon, <1>0, <1>2 DEF PopAllIncoming, history
<1>4. Pipeline(k)
  BY Zenon, <1>0, <1>2 DEF NothingLost
<1>5. Popped(c, k) /\ Popped(c, k)' /\ items[c] = <<>> /\ i[c] = 0
      /\ func[c] \in Items
  BY Zenon, <1>1, <1>2, <1>3 DEF TypeOK, LocalsOK, Popped
<1>6. PICK r \in Seq(Items), a \in Nat :
          /\ r = pending[k] /\ a = Len(ran[k]) /\ Numbered(r, a + 1)
          /\ submitted[k] = a + 1 + Len(r) + Len(pendingFifo[k])
          /\ Numbered(pendingFifo[k], a + 1 + Len(r))
          /\ func[c].n = a + 1
  <2>1. InHand(c, k) = 1
    BY <1>5 DEF InHand
  <2>2. pending[k] \in Seq(Items) /\ Len(ran[k]) \in Nat
    BY <1>1 DEF TypeOK
  <2>3. RequestSide(k)
    BY Zenon, <1>4 DEF Pipeline
  <2>4. func[c].n = Len(ran[k]) + 1
    BY Zenon, <1>2, <1>5, <2>3 DEF RequestSide, HandNumbered
  <2> QED BY <1>2, <2>1, <2>2, <2>3, <2>4, Zenon DEF RequestSide
<1>7. r \in Seq(Items) /\ Len(r) <= QueueLength
      /\ pending'[k] = <<>> /\ items'[c] = r /\ i'[c] = 0
  BY Zenon, <1>1, <1>3, <1>6 DEF TypeOK
<1>8. TypeOK'
  <2>1. pending' \in [Queues -> Seq(Items)]
    BY <1>1, <1>3 DEF TypeOK
  <2>2. \A q \in Queues : Len(pending'[q]) <= QueueLength
    BY <1>1, <1>3, QueueLengthAssumption DEF TypeOK
  <2>3. /\ items' \in [Cores -> Seq(Items)] /\ i' \in [Cores -> Nat]
        /\ pc' \in [Cores -> Labels]
    BY Zenon, <1>1, <1>3, <1>7 DEF TypeOK, Labels, UserCode
  <2>4. \A e \in Cores : Len(items'[e]) <= QueueLength
    BY Zenon, <1>1, <1>3, <1>7 DEF TypeOK
  <2> QED BY Zenon, <1>1, <1>3, <2>1, <2>2, <2>3, <2>4 DEF TypeOK
<1>9. ASSUME NEW e \in Cores PROVE LocalsOK(e)'
  <2>1. CASE e = c
    BY <1>1, <1>2, <1>3, <1>5, <1>7, <2>1 DEF TypeOK, LocalsOK
  <2>2. CASE e # c
    BY Zenon, <1>0, <1>1, <1>3, <2>2 DEF NothingLost, TypeOK, LocalsOK
  <2> QED BY Zenon, <2>1, <2>2
<1>10. \A q \in Queues \ {k} : Pipeline(q)'
  <2>1. \A q \in Queues \ {k} : ~Popped(c, q) /\ ~Popped(c, q)'
    <3>1. pc'[c] = "run" /\ peer'[c] = peer[c]
      BY Zenon, <1>1, <1>3 DEF TypeOK
    <3> QED BY Zenon, <1>1, <1>2, <3>1, RxOnly
  <2>2. \A q \in Queues \ {k} : pending'[q] = pending[q]
    BY Zenon, <1>1, <1>3 DEF TypeOK
  <2>3. \A e \in Cores \ {c} :
            items'[e] = items[e] /\ i'[e] = i[e] /\ pc'[e] = pc[e]
    BY Zenon, <1>1, <1>3 DEF TypeOK
  <2>4. UNCHANGED <<pendingFifo, completedFifo, completed, peer, func,
                    submitted, ran, done>>
    BY Zenon, <1>3
  <2> QED BY ZenonT(60), <1>0, <2>1, <2>2, <2>3, <2>4, OtherQueues
<1>11. ResponseSide(k)'
  <2>1. Popped(k[2], k)' <=> Popped(k[2], k)
    BY Zenon, <1>1, <1>2, <1>3, OtherCores DEF TypeOK
  <2>2. items'[k[2]] = items[k[2]] /\ i'[k[2]] = i[k[2]]
    BY Zenon, <1>1, <1>2, <1>3 DEF TypeOK
  <2> QED BY Zenon, <1>3, <1>4, <2>1, <2>2, ResponseFrame DEF Pipeline
<1>12. RequestSide(k)'
  <2>1. InHand(c, k)' = 1 + Len(r)
    <3>1. 1 + Len(r) - 0 = 1 + Len(r)
      BY <1>7
    <3> QED BY <1>5, <1>7, <3>1, Zenon DEF InHand
  <2>2. HandNumbered(c, k, a)'
    <3>1. \A j \in 0 + 1 .. Len(r) : r[j].n = a + 1 + j - 0
      BY <1>6, <1>7 DEF Numbered
    <3> QED BY <1>3, <1>6, <1>7, <3>1, Zenon DEF HandNumbered
  <2>3. Numbered(<<>>, a + 1 + Len(r)) /\ Len(<<>>) = 0
    BY DEF Numbered
  <2>4. /\ a + (1 + Len(r)) = a + 1 + Len(r)
        /\ a + 1 + Len(r) + 0 = a + 1 + Len(r)
    BY <1>7
  <2>5. Len(ran'[k]) + InHand(k[1], k)' = a + 1 + Len(r)
    BY <1>2, <1>3, <1>6, <2>1, <2>4, Zenon
  <2>6. /\ HandNumbered(k[1], k, Len(ran[k]))'
        /\ Numbered(pending'[k], a + 1 + Len(r))
        /\ Numbered(pendingFifo'[k], a + 1 + Len(r) + Len(pending'[k]))
        /\ submitted'[k]
             = a + 1 + Len(r) + Len(pending'[k]) + Len(pendingFifo'[k])
    BY <1>2, <1>3, <1>6, <1>7, <2>2, <2>3, <2>4, Zenon
  <2> QED BY <2>5, <2>6, Zenon DEF RequestSide
<1> QED BY Zenon, <1>3, <1>4, <1>8, <1>9, <1>10, <1>11, <1>12 DEF NothingLost, Pipeline


-----------------------------------------------------------------------------
(* The steps that take completions and run items, one lemma per action.     *)

\* process_queue over completed_, q.pop(func).
LEMMA PopCompletionStep ==
    ASSUME NEW c \in Cores
    PROVE  NothingLost /\ PopCompletion(c) /\ completed[TxQueue(c)] # <<>>
           => NothingLost'
<1>0. SUFFICES ASSUME NothingLost, PopCompletion(c), completed[TxQueue(c)] # <<>>
               PROVE  NothingLost'
  BY Zenon
<1>1. TypeOK /\ LocalsOK(c) /\ pc[c] = "out1"
  BY Zenon, <1>0 DEF NothingLost, PopCompletion
<1>2. PICK k \in Queues :
          k = TxQueue(c) /\ k[1] = peer[c] /\ k[2] = c /\ k[1] \in Cores \ {c}
  BY Zenon, <1>1, PeerQueues DEF LocalsOK, TxQueue
<1>3. /\ completed' = [completed EXCEPT ![k] = Tail(@)]
      /\ func' = [func EXCEPT ![c] = Head(completed[k])]
      /\ pc' = [pc EXCEPT ![c] = "out2"]
      /\ UNCHANGED <<completedFifo, pendingFifo, pending, peer, items, i,
                     stopping, submitted, ran, done>>
      /\ completed[k] # <<>>
  BY Zenon, <1>0, <1>2 DEF PopCompletion, history
<1>4. Pipeline(k)
  BY Zenon, <1>0, <1>2 DEF NothingLost
<1>5. ~Popped(c, k) /\ Popped(c, k)' /\ items[c] = <<>> /\ i[c] = 0
      /\ func'[c] = Head(completed[k])
  BY Zenon, <1>1, <1>2, <1>3 DEF TypeOK, LocalsOK, Popped
<1>6. PICK r \in Seq(Items), a \in Nat :
          /\ r = completed[k] /\ a = Len(done[k]) /\ r # <<>> /\ Numbered(r, a)
          /\ Len(ran[k]) = a + Len(r) + Len(completedFifo[k])
          /\ Numbered(completedFifo[k], a + Len(r))
  <2>1. InHand(c, k) = 0
    BY Zenon, <1>5 DEF InHand
  <2>2. completed[k] \in Seq(Items) /\ Len(done[k]) \in Nat
    BY <1>1 DEF TypeOK
  <2>3. /\ Numbered(completed[k], Len(done[k]))
        /\ Len(ran[k]) = Len(done[k]) + Len(completed[k]) + Len(completedFifo[k])
        /\ Numbered(completedFifo[k], Len(done[k]) + Len(completed[k]))
    <3>1. Len(done[k]) + InHand(k[2], k) = Len(done[k])
      BY <1>2, <2>1, <2>2
    <3>2. ResponseSide(k)
      BY Zenon, <1>4 DEF Pipeline
    <3> QED BY <3>1, <3>2, Zenon DEF ResponseSide
  <2> QED BY <1>3, <2>2, <2>3, Zenon
<1>7. /\ Head(r).n = a + 1 /\ Head(r) \in Items
      /\ Tail(r) \in Seq(Items) /\ Len(Tail(r)) = Len(r) - 1
      /\ Numbered(Tail(r), a + 1) /\ a + Len(r) = a + 1 + Len(Tail(r))
  BY Zenon, <1>6, TailNumbered
<1>8. TypeOK'
  <2>1. completed' \in [Queues -> Seq(Items)]
    BY Zenon, <1>1, <1>3, <1>6, <1>7 DEF TypeOK
  <2>2. ASSUME NEW q \in Queues PROVE Len(completed'[q]) <= QueueLength
    <3>1. CASE q = k
      <4>1. Len(r) <= QueueLength /\ completed'[k] = Tail(r)
        BY Zenon, <1>1, <1>3, <1>6 DEF TypeOK
      <4> QED BY <1>7, <3>1, <4>1, QueueLengthAssumption
    <3>2. CASE q # k
      BY Zenon, <1>1, <1>3, <3>2 DEF TypeOK
    <3> QED BY Zenon, <3>1, <3>2
  <2>3. func' \in [Cores -> Items \cup {Garbage}] /\ pc' \in [Cores -> Labels]
    BY ZenonT(60), <1>1, <1>3, <1>6, <1>7 DEF TypeOK, Labels
  <2> QED BY Zenon, <1>1, <1>3, <2>1, <2>2, <2>3 DEF TypeOK
<1>9. ASSUME NEW e \in Cores PROVE LocalsOK(e)'
  <2>1. CASE e = c
    BY Zenon, <1>1, <1>2, <1>3, <1>6, <1>7, <2>1 DEF TypeOK, LocalsOK
  <2>2. CASE e # c
    BY Zenon, <1>0, <1>1, <1>3, <2>2 DEF NothingLost, TypeOK, LocalsOK
  <2> QED BY Zenon, <2>1, <2>2
<1>10. \A q \in Queues \ {k} : Pipeline(q)'
  <2>1. \A q \in Queues \ {k} : ~Popped(c, q) /\ ~Popped(c, q)'
    <3>1. pc'[c] = "out2" /\ peer'[c] = peer[c]
      BY Zenon, <1>1, <1>3 DEF TypeOK
    <3> QED BY Zenon, <1>1, <1>2, <3>1, TxOnly
  <2>2. \A q \in Queues \ {k} : completed'[q] = completed[q]
    BY Zenon, <1>1, <1>3 DEF TypeOK
  <2>3. \A e \in Cores \ {c} : func'[e] = func[e] /\ pc'[e] = pc[e]
    BY Zenon, <1>1, <1>3 DEF TypeOK
  <2>4. UNCHANGED <<completedFifo, pendingFifo, pending, peer, items, i,
                    submitted, ran, done>>
    BY Zenon, <1>3
  <2> QED BY ZenonT(60), <1>0, <2>1, <2>2, <2>3, <2>4, OtherQueues
<1>11. RequestSide(k)'
  <2>1. Popped(k[1], k)' <=> Popped(k[1], k)
    BY Zenon, <1>1, <1>2, <1>3, OtherCores DEF TypeOK
  <2>2. func'[k[1]] = func[k[1]]
    BY Zenon, <1>1, <1>2, <1>3 DEF TypeOK
  <2> QED BY Zenon, <1>3, <1>4, <2>1, <2>2, RequestFrame DEF Pipeline
<1>12. ResponseSide(k)'
  <2>1. completed'[k] = Tail(r) /\ func'[c].n = a + 1
    BY Zenon, <1>1, <1>3, <1>5, <1>6, <1>7 DEF TypeOK
  <2>2. InHand(c, k)' = 1
    BY <1>3, <1>5 DEF InHand
  <2>3. HandNumbered(c, k, a)'
    <3>1. items'[c] = <<>> /\ i'[c] = 0
      BY Zenon, <1>3, <1>5
    <3> QED BY <2>1, <3>1 DEF HandNumbered
  <2>4. /\ Numbered(completed'[k], a + 1)
        /\ a + Len(r) = a + 1 + Len(completed'[k])
    BY <1>7, <2>1, Zenon
  <2>5. Len(done'[k]) + InHand(k[2], k)' = a + 1
    BY <1>2, <1>3, <1>6, <2>2, Zenon
  <2>6. /\ HandNumbered(k[2], k, Len(done[k]))'
        /\ Numbered(completedFifo'[k], a + 1 + Len(completed'[k]))
        /\ Len(ran'[k]) = a + 1 + Len(completed'[k]) + Len(completedFifo'[k])
    BY <1>2, <1>3, <1>6, <2>3, <2>4, Zenon
  <2> QED BY <2>4, <2>5, <2>6, Zenon DEF ResponseSide
<1> QED BY Zenon, <1>3, <1>4, <1>8, <1>9, <1>10, <1>11, <1>12 DEF NothingLost, Pipeline

\* process_queue over completed_, nr = q.pop(items).
LEMMA PopAllCompletionsStep ==
    ASSUME NEW c \in Cores
    PROVE  NothingLost /\ PopAllCompletions(c) => NothingLost'
<1>0. SUFFICES ASSUME NothingLost, PopAllCompletions(c) PROVE NothingLost'
  BY Zenon
<1>1. TypeOK /\ LocalsOK(c) /\ pc[c] = "out2"
  BY Zenon, <1>0 DEF NothingLost, PopAllCompletions
<1>2. PICK k \in Queues :
          k = TxQueue(c) /\ k[1] = peer[c] /\ k[2] = c /\ k[1] \in Cores \ {c}
  BY ZenonT(60), <1>1, PeerQueues DEF LocalsOK, TxQueue
<1>3. /\ completed' = [completed EXCEPT ![k] = <<>>]
      /\ items' = [items EXCEPT ![c] = completed[k]]
      /\ i' = [i EXCEPT ![c] = 0]
      /\ pc' = [pc EXCEPT ![c] = "complete"]
      /\ UNCHANGED <<completedFifo, pendingFifo, pending, peer, func,
                     stopping, submitted, ran, done>>
  BY Zenon, <1>0, <1>2 DEF PopAllCompletions, history
<1>4. Pipeline(k)
  BY Zenon, <1>0, <1>2 DEF NothingLost
<1>5. Popped(c, k) /\ Popped(c, k)' /\ items[c] = <<>> /\ i[c] = 0
      /\ func[c] \in Items
  BY Zenon, <1>1, <1>2, <1>3 DEF TypeOK, LocalsOK, Popped
<1>6. PICK r \in Seq(Items), a \in Nat :
          /\ r = completed[k] /\ a = Len(done[k]) /\ Numbered(r, a + 1)
          /\ Len(ran[k]) = a + 1 + Len(r) + Len(completedFifo[k])
          /\ Numbered(completedFifo[k], a + 1 + Len(r))
          /\ func[c].n = a + 1
  <2>1. InHand(c, k) = 1
    BY <1>5 DEF InHand
  <2>2. completed[k] \in Seq(Items) /\ Len(done[k]) \in Nat
    BY <1>1 DEF TypeOK
  <2>3. ResponseSide(k)
    BY Zenon, <1>4 DEF Pipeline
  <2>4. func[c].n = Len(done[k]) + 1
    BY Zenon, <1>2, <1>5, <2>3 DEF ResponseSide, HandNumbered
  <2> QED BY <1>2, <2>1, <2>2, <2>3, <2>4, Zenon DEF ResponseSide
<1>7. r \in Seq(Items) /\ Len(r) <= QueueLength
      /\ completed'[k] = <<>> /\ items'[c] = r /\ i'[c] = 0
  BY Zenon, <1>1, <1>3, <1>6 DEF TypeOK
<1>8. TypeOK'
  <2>1. completed' \in [Queues -> Seq(Items)]
    BY <1>1, <1>3 DEF TypeOK
  <2>2. \A q \in Queues : Len(completed'[q]) <= QueueLength
    BY <1>1, <1>3, QueueLengthAssumption DEF TypeOK
  <2>3. /\ items' \in [Cores -> Seq(Items)] /\ i' \in [Cores -> Nat]
        /\ pc' \in [Cores -> Labels]
    BY Zenon, <1>1, <1>3, <1>7 DEF TypeOK, Labels, UserCode
  <2>4. \A e \in Cores : Len(items'[e]) <= QueueLength
    BY Zenon, <1>1, <1>3, <1>7 DEF TypeOK
  <2> QED BY Zenon, <1>1, <1>3, <2>1, <2>2, <2>3, <2>4 DEF TypeOK
<1>9. ASSUME NEW e \in Cores PROVE LocalsOK(e)'
  <2>1. CASE e = c
    BY <1>1, <1>2, <1>3, <1>5, <1>7, <2>1 DEF TypeOK, LocalsOK
  <2>2. CASE e # c
    BY Zenon, <1>0, <1>1, <1>3, <2>2 DEF NothingLost, TypeOK, LocalsOK
  <2> QED BY Zenon, <2>1, <2>2
<1>10. \A q \in Queues \ {k} : Pipeline(q)'
  <2>1. \A q \in Queues \ {k} : ~Popped(c, q) /\ ~Popped(c, q)'
    <3>1. pc'[c] = "complete" /\ peer'[c] = peer[c]
      BY Zenon, <1>1, <1>3 DEF TypeOK
    <3> QED BY Zenon, <1>1, <1>2, <3>1, TxOnly
  <2>2. \A q \in Queues \ {k} : completed'[q] = completed[q]
    BY Zenon, <1>1, <1>3 DEF TypeOK
  <2>3. \A e \in Cores \ {c} :
            items'[e] = items[e] /\ i'[e] = i[e] /\ pc'[e] = pc[e]
    BY Zenon, <1>1, <1>3 DEF TypeOK
  <2>4. UNCHANGED <<completedFifo, pendingFifo, pending, peer, func,
                    submitted, ran, done>>
    BY Zenon, <1>3
  <2> QED BY Zenon, <1>0, <2>1, <2>2, <2>3, <2>4, OtherQueues
<1>11. RequestSide(k)'
  <2>1. Popped(k[1], k)' <=> Popped(k[1], k)
    BY Zenon, <1>1, <1>2, <1>3, OtherCores DEF TypeOK
  <2>2. items'[k[1]] = items[k[1]] /\ i'[k[1]] = i[k[1]]
    BY Zenon, <1>1, <1>2, <1>3 DEF TypeOK
  <2> QED BY Zenon, <1>3, <1>4, <2>1, <2>2, RequestFrame DEF Pipeline
<1>12. ResponseSide(k)'
  <2>1. InHand(c, k)' = 1 + Len(r)
    <3>1. 1 + Len(r) - 0 = 1 + Len(r)
      BY <1>7
    <3> QED BY <1>5, <1>7, <3>1, Zenon DEF InHand
  <2>2. HandNumbered(c, k, a)'
    <3>1. \A j \in 0 + 1 .. Len(r) : r[j].n = a + 1 + j - 0
      BY <1>6, <1>7 DEF Numbered
    <3> QED BY <1>3, <1>6, <1>7, <3>1, Zenon DEF HandNumbered
  <2>3. Numbered(<<>>, a + 1 + Len(r)) /\ Len(<<>>) = 0
    BY DEF Numbered
  <2>4. /\ a + (1 + Len(r)) = a + 1 + Len(r)
        /\ a + 1 + Len(r) + 0 = a + 1 + Len(r)
    BY <1>7
  <2>5. Len(done'[k]) + InHand(k[2], k)' = a + 1 + Len(r)
    BY <1>2, <1>3, <1>6, <2>1, <2>4, Zenon
  <2>6. /\ HandNumbered(k[2], k, Len(done[k]))'
        /\ Numbered(completed'[k], a + 1 + Len(r))
        /\ Numbered(completedFifo'[k], a + 1 + Len(r) + Len(completed'[k]))
        /\ Len(ran'[k])
             = a + 1 + Len(r) + Len(completed'[k]) + Len(completedFifo'[k])
    BY <1>2, <1>3, <1>6, <1>7, <2>2, <2>3, <2>4, Zenon
  <2> QED BY <2>5, <2>6, Zenon DEF ResponseSide
<1> QED BY Zenon, <1>3, <1>4, <1>8, <1>9, <1>10, <1>11, <1>12 DEF NothingLost, Pipeline

\* func = items[i++] takes the next of the numbered items.
LEMMA NextNumbered ==
    ASSUME NEW s \in Seq(Items), NEW j \in Nat, NEW a \in Nat, j < Len(s),
           \A m \in j + 1 .. Len(s) : s[m].n = a + 1 + m - j
    PROVE  /\ s[j + 1] \in Items /\ s[j + 1].n = a + 1 + 1
           /\ \A m \in j + 1 + 1 .. Len(s) :
                  s[m].n = a + 1 + 1 + m - (j + 1)
           /\ a + (1 + Len(s) - j) = a + 1 + (1 + Len(s) - (j + 1))
<1>1. j + 1 \in 1 .. Len(s) /\ j + 1 \in j + 1 .. Len(s)
  OBVIOUS
<1>2. s[j + 1] \in Items /\ s[j + 1].n = a + 1 + 1
  <2>1. s[j + 1].n = a + 1 + (j + 1) - j
    BY Zenon, <1>1
  <2> QED BY <1>1, <2>1
<1>3. ASSUME NEW m \in j + 1 + 1 .. Len(s)
      PROVE  s[m].n = a + 1 + 1 + m - (j + 1)
  <2>1. s[m].n = a + 1 + m - j
    OBVIOUS
  <2> QED BY <2>1
<1> QED BY <1>2, <1>3

\* The locals of process_queue after an iteration.
LEMMA AdvanceLocals ==
    ASSUME NEW c \in Cores
    PROVE  NothingLost /\ Advance(c) =>
           /\ func' \in [Cores -> Items \cup {Garbage}]
           /\ items' \in [Cores -> Seq(Items)] /\ i' \in [Cores -> Nat]
           /\ \A e \in Cores : Len(items'[e]) <= QueueLength
           /\ \A e \in Cores \ {c} : /\ func'[e] = func[e] /\ i'[e] = i[e]
                                     /\ items'[e] = items[e]
           /\ i'[c] <= Len(items'[c])
           /\ MoreItems(c) => /\ func'[c] = items[c][i[c] + 1]
                              /\ func'[c] \in Items /\ i[c] < Len(items[c])
                              /\ items'[c] = items[c] /\ i'[c] = i[c] + 1
           /\ ~MoreItems(c) => /\ items'[c] = <<>> /\ i'[c] = 0
                               /\ i[c] = Len(items[c])
<1>0. SUFFICES ASSUME NothingLost, Advance(c)
               PROVE
           /\ func' \in [Cores -> Items \cup {Garbage}]
           /\ items' \in [Cores -> Seq(Items)] /\ i' \in [Cores -> Nat]
           /\ \A e \in Cores : Len(items'[e]) <= QueueLength
           /\ \A e \in Cores \ {c} : /\ func'[e] = func[e] /\ i'[e] = i[e]
                                     /\ items'[e] = items[e]
           /\ i'[c] <= Len(items'[c])
           /\ MoreItems(c) => /\ func'[c] = items[c][i[c] + 1]
                              /\ func'[c] \in Items /\ i[c] < Len(items[c])
                              /\ items'[c] = items[c] /\ i'[c] = i[c] + 1
           /\ ~MoreItems(c) => /\ items'[c] = <<>> /\ i'[c] = 0
                               /\ i[c] = Len(items[c])
  BY Zenon
<1>1. TypeOK /\ LocalsOK(c)
  BY Zenon, <1>0 DEF NothingLost
<1>2. PICK s \in Seq(Items), j \in Nat :
          s = items[c] /\ j = i[c] /\ j <= Len(s) /\ Len(s) <= QueueLength
  BY Zenon, <1>1 DEF TypeOK, LocalsOK
<1>3. MoreItems(c) <=> j < Len(s)
  BY <1>2 DEF MoreItems
<1>4. /\ j < Len(s) => NextItem(c) = s[j + 1] /\ s[j + 1] \in Items
      /\ NextItem(c) \in Items \cup {Garbage}
  BY <1>2 DEF NextItem
<1>5. /\ func' = [func EXCEPT ![c] = NextItem(c)]
      /\ items' = [items EXCEPT ![c] = IF j < Len(s) THEN s ELSE <<>>]
      /\ i' = [i EXCEPT ![c] = IF j < Len(s) THEN j + 1 ELSE 0]
  BY Zenon, <1>0, <1>1, <1>2, <1>3 DEF Advance, TypeOK
<1>6. func' \in [Cores -> Items \cup {Garbage}] /\ func'[c] = NextItem(c)
  BY Zenon, <1>1, <1>4, <1>5 DEF TypeOK
<1>7. /\ items' \in [Cores -> Seq(Items)] /\ i' \in [Cores -> Nat]
      /\ items'[c] = (IF j < Len(s) THEN s ELSE <<>>)
      /\ i'[c] = (IF j < Len(s) THEN j + 1 ELSE 0)
  BY <1>1, <1>5 DEF TypeOK
<1>8. \A e \in Cores \ {c} : /\ func'[e] = func[e] /\ i'[e] = i[e]
                             /\ items'[e] = items[e]
  BY Zenon, <1>1, <1>5 DEF TypeOK
<1>9. \A e \in Cores : Len(items'[e]) <= QueueLength
  <2>1. Len(items'[c]) <= QueueLength
    BY <1>2, <1>7, QueueLengthAssumption
  <2> QED BY Zenon, <1>1, <1>8, <2>1 DEF TypeOK
<1>10. i'[c] <= Len(items'[c])
  BY <1>2, <1>7
<1>11. ~(j < Len(s)) => j = Len(s)
  BY <1>2
<1> QED BY Zenon, <1>2, <1>3, <1>4, <1>6, <1>7, <1>8, <1>9, <1>10, <1>11

\* An iteration of process_queue removes the first popped item.
LEMMA AdvanceHand ==
    ASSUME NEW c \in Cores, NEW q \in Queues, NEW a \in Nat
    PROVE  /\ NothingLost /\ Advance(c)
           /\ Popped(c, q) /\ HandNumbered(c, q, a)
           /\ Popped(c, q)' <=> MoreItems(c)
           => /\ a + InHand(c, q) = a + 1 + InHand(c, q)'
              /\ HandNumbered(c, q, a + 1)'
<1>0. SUFFICES ASSUME NothingLost, Advance(c), Popped(c, q),
                      HandNumbered(c, q, a), Popped(c, q)' <=> MoreItems(c)
               PROVE  /\ a + InHand(c, q) = a + 1 + InHand(c, q)'
                      /\ HandNumbered(c, q, a + 1)'
  BY Zenon
<1>1. PICK s \in Seq(Items), j \in Nat : s = items[c] /\ j = i[c]
  BY Zenon, <1>0 DEF NothingLost, TypeOK
<1>2. /\ InHand(c, q) = 1 + Len(s) - j
      /\ \A m \in j + 1 .. Len(s) : s[m].n = a + 1 + m - j
  BY <1>0, <1>1, Zenon DEF InHand, HandNumbered
<1>3. CASE MoreItems(c)
  <2>1. /\ j < Len(s) /\ func'[c] = s[j + 1] /\ items'[c] = s
        /\ i'[c] = j + 1
    BY Zenon, <1>0, <1>1, <1>3, AdvanceLocals
  <2>2. /\ s[j + 1].n = a + 1 + 1
        /\ \A m \in j + 1 + 1 .. Len(s) : s[m].n = a + 1 + 1 + m - (j + 1)
        /\ a + (1 + Len(s) - j) = a + 1 + (1 + Len(s) - (j + 1))
    BY Zenon, <1>2, <2>1, NextNumbered
  <2>3. InHand(c, q)' = 1 + Len(s) - (j + 1)
    BY <1>0, <1>3, <2>1, Zenon DEF InHand
  <2>4. HandNumbered(c, q, a + 1)'
    BY <2>1, <2>2, Zenon DEF HandNumbered
  <2> QED BY <1>2, <2>2, <2>3, <2>4, Zenon
<1>4. CASE ~MoreItems(c)
  <2>1. j = Len(s)
    BY Zenon, <1>0, <1>1, <1>4, AdvanceLocals
  <2>2. a + (1 + Len(s) - j) = a + 1 + 0
    BY <2>1
  <2>3. InHand(c, q)' = 0 /\ HandNumbered(c, q, a + 1)'
    BY Zenon, <1>0, <1>4 DEF InHand, HandNumbered
  <2> QED BY <1>2, <2>2, <2>3, Zenon
<1> QED BY Zenon, <1>3, <1>4

\* func->process() and respond.
LEMMA ProcessStep ==
    ASSUME NEW c \in Cores
    PROVE  NothingLost /\ Process(c) => NothingLost'
<1>0. SUFFICES ASSUME NothingLost, Process(c) PROVE NothingLost'
  BY Zenon
<1>1. TypeOK /\ LocalsOK(c) /\ pc[c] = "run" /\ Advance(c)
  BY Zenon, <1>0 DEF NothingLost, Process
<1>2. PICK k \in Queues :
          k = RxQueue(c) /\ k[2] = peer[c] /\ k[1] = c /\ k[2] \in Cores \ {c}
  BY ZenonT(60), <1>1, PeerQueues DEF LocalsOK, RxQueue
<1>3. PICK x \in Items : x = func[c]
  BY Zenon, <1>1 DEF LocalsOK
<1>4. /\ ran' = [ran EXCEPT ![k] = Append(@, x.n)]
      /\ completed' = [completed EXCEPT
                         ![k] = PushTo(@, Append(completedFifo[k], x))]
      /\ completedFifo' = [completedFifo EXCEPT
                 ![k] = Rest(completed[k], Append(completedFifo[k], x))]
  BY <1>0, <1>2, <1>3, Zenon DEF Process
<1>5. /\ pc' = [pc EXCEPT ![c] = IF MoreItems(c) THEN "run" ELSE "request"]
      /\ stopping' = [stopping EXCEPT ![c] = @ \/ func[c].stop]
      /\ UNCHANGED <<pendingFifo, pending, peer, submitted, done>>
  BY Zenon, <1>0 DEF Process
<1>6. /\ Popped(c, k)
      /\ Popped(c, k)' <=> MoreItems(c)
      /\ \A q \in Queues \ {k} : ~Popped(c, q) /\ ~Popped(c, q)'
      /\ \A e \in Cores \ {c} : pc'[e] = pc[e] /\ peer'[e] = peer[e]
  <2>1. pc'[c] = (IF MoreItems(c) THEN "run" ELSE "request")
        /\ peer'[c] = peer[c]
    BY Zenon, <1>1, <1>5 DEF TypeOK
  <2>2. \A q \in Queues \ {k} : ~Popped(c, q) /\ ~Popped(c, q)'
    BY ZenonT(60), <1>1, <1>2, <2>1, RxOnly
  <2>3. Popped(c, k) /\ (Popped(c, k)' <=> MoreItems(c))
    BY Zenon, <1>1, <1>2, <2>1 DEF Popped
  <2> QED BY Zenon, <1>1, <1>5, <2>2, <2>3 DEF TypeOK
<1>7. PICK r \in Seq(Items), f \in Seq(Items), h \in Seq(Nat), b \in Nat :
          /\ r = completed[k] /\ f = completedFifo[k] /\ h = ran[k]
          /\ b = Len(done[k]) + InHand(k[2], k) /\ Len(r) <= QueueLength
  <2>1. InHand(k[2], k) \in Nat
    BY Zenon, <1>0, <1>2, InHandNat
  <2>2. Len(done[k]) \in Nat
    BY <1>1 DEF TypeOK
  <2>3. Len(done[k]) + InHand(k[2], k) \in Nat
    BY <2>1, <2>2
  <2> QED BY Zenon, <1>1, <2>3 DEF TypeOK
<1>8. /\ ran'[k] = Append(h, x.n)
      /\ completed'[k] = PushTo(r, Append(f, x))
      /\ completedFifo'[k] = Rest(r, Append(f, x))
      /\ \A q \in Queues \ {k} : /\ ran'[q] = ran[q]
                                 /\ completed'[q] = completed[q]
                                 /\ completedFifo'[q] = completedFifo[q]
  BY Zenon, <1>1, <1>2, <1>4, <1>7 DEF TypeOK
<1>9. IsCount(h) /\ IsCount(done[k]) /\ RequestSide(k) /\ ResponseSide(k)
  BY Zenon, <1>0, <1>2, <1>7 DEF NothingLost, Pipeline
<1>10. x.n = Len(h) + 1 /\ HandNumbered(c, k, Len(h))
  <2>1. HandNumbered(c, k, Len(h))
    BY <1>2, <1>7, <1>9, Zenon DEF RequestSide
  <2> QED BY <1>3, <1>6, <2>1, Zenon DEF HandNumbered
<1>11. /\ Append(h, x.n) \in Seq(Nat) /\ Len(Append(h, x.n)) = Len(h) + 1
       /\ IsCount(Append(h, x.n))
  BY Zenon, <1>9, <1>10, AppendCount
<1>12. /\ Numbered(r, b) /\ Numbered(f, b + Len(r))
       /\ Len(h) = b + Len(r) + Len(f)
  BY <1>7, <1>9, Zenon DEF ResponseSide
<1>13. /\ Numbered(completed'[k], b)
       /\ Numbered(completedFifo'[k], b + Len(completed'[k]))
       /\ b + Len(completed'[k]) + Len(completedFifo'[k]) = x.n
       /\ completed'[k] \in Seq(Items) /\ completedFifo'[k] \in Seq(Items)
       /\ Len(completed'[k]) <= QueueLength
  <2>1. x.n = b + Len(r) + Len(f) + 1
    BY <1>10, <1>12, Zenon
  <2>2. StagedNext(r, f, b, x)
    BY <1>7, <1>12, <2>1, Zenon DEF StagedNext
  <2> QED BY <1>8, <2>2, SubmitNumbered
<1>14. TypeOK'
  <2>1. ran' \in [Queues -> Seq(Nat)]
    BY Zenon, <1>1, <1>4, <1>8, <1>11 DEF TypeOK
  <2>2. /\ completed' \in [Queues -> Seq(Items)]
        /\ completedFifo' \in [Queues -> Seq(Items)]
    BY Zenon, <1>1, <1>4, <1>8, <1>13 DEF TypeOK
  <2>3. \A q \in Queues : Len(completed'[q]) <= QueueLength
    BY Zenon, <1>1, <1>8, <1>13 DEF TypeOK
  <2>4. pc' \in [Cores -> Labels]
    BY Zenon, <1>1, <1>5 DEF TypeOK, Labels, UserCode
  <2>5. stopping' \in [Cores -> BOOLEAN]
    BY Zenon, <1>1, <1>5 DEF TypeOK
  <2>6. /\ func' \in [Cores -> Items \cup {Garbage}]
        /\ items' \in [Cores -> Seq(Items)] /\ i' \in [Cores -> Nat]
        /\ \A e \in Cores : Len(items'[e]) <= QueueLength
    BY Zenon, <1>0, <1>1, AdvanceLocals
  <2> QED BY Zenon, <1>1, <1>5, <2>1, <2>2, <2>3, <2>4, <2>5, <2>6 DEF TypeOK
<1>15. ASSUME NEW e \in Cores PROVE LocalsOK(e)'
  <2>1. CASE e = c
    <3>1. /\ i'[c] <= Len(items'[c])
          /\ MoreItems(c) => func'[c] \in Items
          /\ ~MoreItems(c) => items'[c] = <<>> /\ i'[c] = 0
      BY Zenon, <1>0, <1>1, AdvanceLocals
    <3>2. pc'[c] = (IF MoreItems(c) THEN "run" ELSE "request")
          /\ peer'[c] \in Cores \ {c}
      BY Zenon, <1>1, <1>2, <1>5 DEF TypeOK
    <3> QED BY Zenon, <2>1, <3>1, <3>2 DEF LocalsOK
  <2>2. CASE e # c
    <3>1. func'[e] = func[e] /\ i'[e] = i[e] /\ items'[e] = items[e]
      BY Zenon, <1>0, <1>1, <2>2, AdvanceLocals
    <3>2. LocalsOK(e)
      BY Zenon, <1>0 DEF NothingLost
    <3> QED BY Zenon, <1>6, <2>2, <3>1, <3>2 DEF LocalsOK
  <2> QED BY Zenon, <2>1, <2>2
<1>16. \A e \in Cores \ {c} : /\ func'[e] = func[e] /\ i'[e] = i[e]
                              /\ items'[e] = items[e]
  BY Zenon, <1>0, <1>1, AdvanceLocals
<1>17. \A q \in Queues \ {k} : Pipeline(q)'
  <2>1. UNCHANGED <<pendingFifo, pending, peer, submitted, done>>
    BY Zenon, <1>5
  <2> QED BY ZenonT(60), <1>0, <1>6, <1>8, <1>16, <2>1, OtherQueues
<1>18. RequestSide(k)'
  <2>1. Len(h) \in Nat
    OBVIOUS
  <2>2. /\ Len(h) + InHand(c, k) = Len(h) + 1 + InHand(c, k)'
        /\ HandNumbered(c, k, Len(h) + 1)'
    BY Zenon, <1>0, <1>1, <1>6, <1>10, <2>1, AdvanceHand
  <2>3. Len(ran'[k]) = Len(h) + 1
    BY <1>8, <1>11, Zenon
  <2>4. HandNumbered(k[1], k, Len(ran[k]))'
    BY <1>2, <2>2, <2>3, Zenon
  <2>5. (Len(ran[k]) + InHand(k[1], k))' = Len(ran[k]) + InHand(k[1], k)
    BY <1>2, <1>7, <2>2, <2>3, Zenon
  <2> QED BY <1>5, <1>9, <2>4, <2>5, Zenon DEF RequestSide
<1>19. ResponseSide(k)'
  <2>1. Popped(k[2], k)' <=> Popped(k[2], k)
    BY Zenon, <1>2, <1>6, OtherCores
  <2>6. func'[k[2]] = func[k[2]] /\ items'[k[2]] = items[k[2]] /\ i'[k[2]] = i[k[2]]
    BY Zenon, <1>2, <1>16
  <2>2. /\ InHand(k[2], k)' = InHand(k[2], k)
        /\ \A d : HandNumbered(k[2], k, d) => HandNumbered(k[2], k, d)'
    BY <2>1, <2>6, HandFrame, Zenon
  <2>3. HandNumbered(k[2], k, Len(done[k]))'
    BY <1>5, <1>9, <2>2, Zenon DEF ResponseSide
  <2>4. (Len(done[k]) + InHand(k[2], k))' = b
    BY <1>5, <1>7, <2>2, Zenon
  <2>5. Len(ran'[k]) = x.n
    BY <1>8, <1>10, <1>11, Zenon
  <2> QED BY <1>13, <2>3, <2>4, <2>5, Zenon DEF ResponseSide
<1>20. Pipeline(k)'
  <2>1. IsCount(ran[k])' /\ IsCount(done[k])'
    BY Zenon, <1>5, <1>8, <1>9, <1>11 DEF IsCount
  <2> QED BY Zenon, <1>18, <1>19, <2>1 DEF Pipeline
<1> QED BY Zenon, <1>14, <1>15, <1>17, <1>20 DEF NothingLost

\* complete() and delete.
LEMMA CompleteStep ==
    ASSUME NEW c \in Cores
    PROVE  NothingLost /\ Complete(c) => NothingLost'
<1>0. SUFFICES ASSUME NothingLost, Complete(c) PROVE NothingLost'
  BY Zenon
<1>1. TypeOK /\ LocalsOK(c) /\ pc[c] = "complete" /\ Advance(c)
  BY Zenon, <1>0 DEF NothingLost, Complete
<1>2. PICK k \in Queues :
          k = TxQueue(c) /\ k[1] = peer[c] /\ k[2] = c /\ k[1] \in Cores \ {c}
  BY Zenon, <1>1, PeerQueues DEF LocalsOK, TxQueue
<1>3. PICK x \in Items : x = func[c]
  BY Zenon, <1>1 DEF LocalsOK
<1>4. /\ done' = [done EXCEPT ![k] = Append(@, x.n)]
      /\ UNCHANGED <<pendingFifo, pending, completedFifo, completed, stopping,
                     submitted, ran>>
  BY <1>0, <1>2, <1>3, Zenon DEF Complete, queueVars
<1>5. PICK j \in 0 .. N, l \in {"complete", "respond", "io"} :
          /\ peer' = [peer EXCEPT ![c] = j] /\ pc' = [pc EXCEPT ![c] = l]
          /\ l # "io" => j \in Cores \ {c}
          /\ l = "complete" <=> MoreItems(c)
          /\ l = "complete" => j = peer[c]
  <2>1. CASE MoreItems(c)
    <3>1. /\ peer' = [peer EXCEPT ![c] = peer[c]]
          /\ pc' = [pc EXCEPT ![c] = "complete"]
          /\ peer[c] \in 0 .. N /\ peer[c] \in Cores \ {c}
      BY Zenon, <1>0, <1>1, <2>1 DEF Complete, TypeOK, LocalsOK
    <3> QED BY Zenon, <2>1, <3>1
  <2>2. CASE ~MoreItems(c)
    <3> DEFINE j == NextPeer(c, peer[c] + 1)
    <3>1. peer[c] + 1 \in 0 .. N
      BY <1>1, NAssumption DEF LocalsOK, Cores
    <3>2. j \in 0 .. N /\ (j < N => j \in Cores \ {c})
      BY Zenon, <3>1, NextPeerFacts
    <3>3. /\ peer' = [peer EXCEPT ![c] = j]
          /\ pc' = [pc EXCEPT ![c] = IF j < N THEN "respond" ELSE "io"]
      BY Zenon, <1>0, <2>2 DEF Complete, NextQueue
    <3> HIDE DEF j
    <3> QED BY Zenon, <2>2, <3>2, <3>3
  <2> QED BY Zenon, <2>1, <2>2
<1>6. /\ Popped(c, k)
      /\ Popped(c, k)' <=> MoreItems(c)
      /\ \A q \in Queues \ {k} : ~Popped(c, q) /\ ~Popped(c, q)'
      /\ \A e \in Cores \ {c} : pc'[e] = pc[e] /\ peer'[e] = peer[e]
  <2>1. pc'[c] = l /\ peer'[c] = j
    BY Zenon, <1>1, <1>5 DEF TypeOK
  <2>2. \A q \in Queues \ {k} : ~Popped(c, q) /\ ~Popped(c, q)'
    BY Zenon, <1>1, <1>2, <1>5, <2>1, TxOnly
  <2>3. Popped(c, k) /\ (Popped(c, k)' <=> MoreItems(c))
    BY Zenon, <1>1, <1>2, <1>5, <2>1 DEF Popped
  <2> QED BY Zenon, <1>1, <1>5, <2>2, <2>3 DEF TypeOK
<1>7. PICK h \in Seq(Nat) : h = done[k]
  BY Zenon, <1>1 DEF TypeOK
<1>8. /\ done'[k] = Append(h, x.n)
      /\ \A q \in Queues \ {k} : done'[q] = done[q]
  BY Zenon, <1>1, <1>2, <1>4, <1>7 DEF TypeOK
<1>9. IsCount(ran[k]) /\ IsCount(h) /\ RequestSide(k) /\ ResponseSide(k)
  BY Zenon, <1>0, <1>2, <1>7 DEF NothingLost, Pipeline
<1>10. x.n = Len(h) + 1 /\ HandNumbered(c, k, Len(h))
  <2>1. HandNumbered(c, k, Len(h))
    BY <1>2, <1>7, <1>9, Zenon DEF ResponseSide
  <2> QED BY <1>3, <1>6, <2>1, Zenon DEF HandNumbered
<1>11. /\ Append(h, x.n) \in Seq(Nat) /\ Len(Append(h, x.n)) = Len(h) + 1
       /\ IsCount(Append(h, x.n))
  BY Zenon, <1>9, <1>10, AppendCount
<1>12. TypeOK'
  <2>1. done' \in [Queues -> Seq(Nat)]
    BY Zenon, <1>1, <1>4, <1>8, <1>11 DEF TypeOK
  <2>2. pc' \in [Cores -> Labels] /\ peer' \in [Cores -> 0 .. N]
    BY Zenon, <1>1, <1>5 DEF TypeOK, Labels, UserCode
  <2>3. /\ func' \in [Cores -> Items \cup {Garbage}]
        /\ items' \in [Cores -> Seq(Items)] /\ i' \in [Cores -> Nat]
        /\ \A e \in Cores : Len(items'[e]) <= QueueLength
    BY Zenon, <1>0, <1>1, AdvanceLocals
  <2> QED BY ZenonT(60), <1>1, <1>4, <2>1, <2>2, <2>3 DEF TypeOK
<1>13. \A e \in Cores \ {c} : /\ func'[e] = func[e] /\ i'[e] = i[e]
                              /\ items'[e] = items[e]
  BY Zenon, <1>0, <1>1, AdvanceLocals
<1>14. ASSUME NEW e \in Cores PROVE LocalsOK(e)'
  <2>1. CASE e = c
    <3>1. /\ i'[c] <= Len(items'[c])
          /\ MoreItems(c) => func'[c] \in Items
          /\ ~MoreItems(c) => items'[c] = <<>> /\ i'[c] = 0
      BY Zenon, <1>0, <1>1, AdvanceLocals
    <3>2. pc'[c] = l /\ peer'[c] = j
      BY Zenon, <1>1, <1>5 DEF TypeOK
    <3> QED BY Zenon, <1>5, <2>1, <3>1, <3>2 DEF LocalsOK
  <2>2. CASE e # c
    <3>1. LocalsOK(e)
      BY Zenon, <1>0 DEF NothingLost
    <3> QED BY Zenon, <1>6, <1>13, <2>2, <3>1 DEF LocalsOK
  <2> QED BY Zenon, <2>1, <2>2
<1>15. \A q \in Queues \ {k} : Pipeline(q)'
  <2>1. UNCHANGED <<pendingFifo, pending, completedFifo, completed,
                    submitted, ran>>
    BY Zenon, <1>4
  <2> QED BY ZenonT(60), <1>0, <1>6, <1>8, <1>13, <2>1, OtherQueues
<1>16. ResponseSide(k)'
  <2>1. Len(h) \in Nat
    OBVIOUS
  <2>2. /\ Len(h) + InHand(c, k) = Len(h) + 1 + InHand(c, k)'
        /\ HandNumbered(c, k, Len(h) + 1)'
    BY Zenon, <1>0, <1>1, <1>6, <1>10, <2>1, AdvanceHand
  <2>3. Len(done'[k]) = Len(h) + 1
    BY <1>8, <1>11, Zenon
  <2>4. HandNumbered(k[2], k, Len(done[k]))'
    BY <1>2, <2>2, <2>3, Zenon
  <2>5. (Len(done[k]) + InHand(k[2], k))' = Len(done[k]) + InHand(k[2], k)
    BY <1>2, <1>7, <2>2, <2>3, ZenonT(60)
  <2> QED BY <1>4, <1>9, <2>4, <2>5, Zenon DEF ResponseSide
<1>17. RequestSide(k)'
  <2>1. Popped(k[1], k)' <=> Popped(k[1], k)
    BY Zenon, <1>2, <1>6, OtherCores
  <2> QED BY Zenon, <1>2, <1>4, <1>9, <1>13, <2>1, RequestFrame
<1>18. Pipeline(k)'
  <2>1. IsCount(ran[k])' /\ IsCount(done[k])'
    BY Zenon, <1>4, <1>8, <1>9, <1>11 DEF IsCount
  <2> QED BY Zenon, <1>16, <1>17, <2>1 DEF Pipeline
<1> QED BY Zenon, <1>12, <1>14, <1>15, <1>18 DEF NothingLost

-----------------------------------------------------------------------------
(* The invariant, and what follows from it.                                 *)

\* Every step of the message queues keeps the invariant.
LEMMA NextNothingLost == NothingLost /\ [Next]_vars => NothingLost'
<1>0. SUFFICES ASSUME NothingLost, [Next]_vars PROVE NothingLost'
  BY Zenon
<1>1. CASE UNCHANGED vars
  <2>1. /\ UNCHANGED <<pendingFifo, pending, completedFifo, completed>>
        /\ UNCHANGED <<pc, peer, func, items, i, stopping>>
        /\ UNCHANGED <<submitted, ran, done>>
    BY Zenon, <1>1 DEF vars, queueVars, coreVars, history
  <2>2. TypeOK' /\ \A e \in Cores : LocalsOK(e)'
    BY Zenon, <1>0, <2>1 DEF NothingLost, TypeOK, LocalsOK
  <2>3. ASSUME NEW q \in Queues PROVE Pipeline(q)'
    <3>1. Pipeline(q)
      BY Zenon, <1>0 DEF NothingLost
    <3>2. \A e : Popped(e, q)' <=> Popped(e, q)
      BY Zenon, <2>1 DEF Popped
    <3> QED BY Zenon, <2>1, <3>1, <3>2, PipelineFrame
  <2> QED BY Zenon, <2>2, <2>3 DEF NothingLost
<1>2. ASSUME NEW c \in Cores, NEW t \in Cores \ {c}, SubmitTo(c, t)
      PROVE  NothingLost'
  <2>1. <<t, c>> \in Queues
    BY Zenon DEF Queues
  <2>2. {<<t, c>>} \in SUBSET Queues
    BY Zenon, <2>1
  <2>3. \A k \in 1 .. MaxSubmit : [n |-> k, stop |-> FALSE] \in Items
    BY Zenon DEF Items
  <2>4. /\ SubmitItem({<<t, c>>}, FALSE)
        /\ UNCHANGED <<completedFifo, completed, pc, peer, func, items, i,
                       ran, done>>
        /\ stopping' \in [Cores -> BOOLEAN]
    BY Zenon, <1>0, <1>2 DEF SubmitTo, coreVars, NothingLost, TypeOK
  <2> QED BY Zenon, <1>0, <2>2, <2>3, <2>4, SubmitStep
<1>3. ASSUME NEW c \in Cores, Stop(c) PROVE NothingLost'
  <2>1. PICK Q \in SUBSET Queues : SubmitItem(Q, TRUE)
    BY Zenon, <1>3 DEF Stop
  <2>2. \A k \in 1 .. MaxSubmit : [n |-> k, stop |-> TRUE] \in Items
    BY Zenon DEF Items
  <2>3. /\ UNCHANGED <<completedFifo, completed, pc, peer, func, items, i,
                       ran, done>>
        /\ stopping' \in [Cores -> BOOLEAN]
    BY Zenon, <1>0, <1>3 DEF Stop, NothingLost, TypeOK
  <2> QED BY Zenon, <1>0, <2>1, <2>2, <2>3, SubmitStep
<1>4. ASSUME NEW c \in Cores, CoreStep(c) PROVE NothingLost'
  <2>1. CASE StartPoll(c) \/ EndIteration(c) \/ JoinAll(c)
    BY Zenon, <1>0, <2>1, LoopStep
  <2>2. CASE FlushResponse(c)
    BY Zenon, <1>0, <2>2, FlushResponseStep
  <2>3. CASE PopIncoming(c)
    BY Zenon, <1>0, <2>3, PopIncomingStep, PopNothingStep
  <2>4. CASE PopAllIncoming(c)
    BY Zenon, <1>0, <2>4, PopAllIncomingStep
  <2>5. CASE Process(c)
    BY Zenon, <1>0, <2>5, ProcessStep
  <2>6. CASE FlushRequest(c)
    BY Zenon, <1>0, <2>6, FlushRequestStep
  <2>7. CASE PopCompletion(c)
    BY Zenon, <1>0, <2>7, PopCompletionStep, PopNothingStep
  <2>8. CASE PopAllCompletions(c)
    BY Zenon, <1>0, <2>8, PopAllCompletionsStep
  <2>9. CASE Complete(c)
    BY Zenon, <1>0, <2>9, CompleteStep
  <2> QED BY Zenon, <1>4, <2>1, <2>2, <2>3, <2>4, <2>5, <2>6, <2>7, <2>8, <2>9
       DEF CoreStep
<1> QED BY Zenon, <1>0, <1>1, <1>2, <1>3, <1>4 DEF Next

\* No item of the message queues is lost, duplicated or reordered (smp.cc), for
\* any number of cores, any queue_length and any number of submissions.
THEOREM NothingIsLost == Spec => []NothingLost
BY InitNothingLost, NextNothingLost, PTL DEF Spec

\* Types, and the capacity of the rings and of the array of process_queue.
THEOREM TypesHold == Spec => []TypeOK
<1>1. NothingLost => TypeOK
  BY Zenon DEF NothingLost
<1> QED BY <1>1, NothingIsLost, PTL

\* Items run once and complete once, in submission order, a completion never
\* before its run (process_queue, respond, process_completions).
THEOREM ExactlyOnce == Spec => []InOrderExactlyOnce
<1>1. NothingLost => InOrderExactlyOnce
  <2> SUFFICES ASSUME NothingLost, NEW q \in Queues
               PROVE  /\ IsCount(ran[q]) /\ IsCount(done[q])
                      /\ Len(done[q]) <= Len(ran[q])
                      /\ Len(ran[q]) <= submitted[q]
    BY Zenon DEF InOrderExactlyOnce
  <2>1. Pipeline(q) /\ TypeOK
    BY Zenon DEF NothingLost
  <2>2. PICK j \in Nat, m \in Nat, d \in Nat, e \in Nat, h \in Nat, g \in Nat :
            /\ j = Len(pending[q]) /\ m = Len(pendingFifo[q])
            /\ d = Len(completed[q]) /\ e = Len(completedFifo[q])
            /\ h = InHand(q[1], q) /\ g = InHand(q[2], q)
    <3>1. /\ Len(pending[q]) \in Nat /\ Len(pendingFifo[q]) \in Nat
          /\ Len(completed[q]) \in Nat /\ Len(completedFifo[q]) \in Nat
      BY <2>1 DEF TypeOK
    <3>2. InHand(q[1], q) \in Nat /\ InHand(q[2], q) \in Nat
      BY Zenon, InHandNat, QueueCores
    <3> QED BY <3>1, <3>2, Zenon
  <2>3. PICK r \in Nat, f \in Nat : r = Len(ran[q]) /\ f = Len(done[q])
    BY <2>1 DEF TypeOK
  <2>4. submitted[q] = r + h + j + m /\ r = f + g + d + e
    BY <2>1, <2>2, <2>3, Zenon DEF Pipeline, RequestSide, ResponseSide
  <2>5. r <= submitted[q] /\ f <= r
    BY <2>4
  <2> QED BY <2>1, <2>3, <2>5, Zenon DEF Pipeline
<1> QED BY <1>1, NothingIsLost, PTL

-----------------------------------------------------------------------------
(* The refinement of AsyncCall.                                             *)

\* An item in the hand of a core is one that was submitted and has not run, or
\* one that ran and is not completed.
LEMMA HandAhead ==
    ASSUME NEW c \in Cores, NEW q \in Queues
    PROVE  /\ NothingLost /\ Popped(c, q)
           => /\ c = q[1] => Len(ran[q]) < submitted[q]
              /\ c = q[2] => Len(done[q]) < Len(ran[q])
<1>0. SUFFICES ASSUME NothingLost, Popped(c, q)
               PROVE  /\ c = q[1] => Len(ran[q]) < submitted[q]
                      /\ c = q[2] => Len(done[q]) < Len(ran[q])
  BY Zenon
<1>1. TypeOK /\ LocalsOK(c) /\ RequestSide(q) /\ ResponseSide(q)
  BY Zenon, <1>0 DEF NothingLost, Pipeline
<1>2. PICK j \in Nat, m \in Nat, d \in Nat, e \in Nat, h \in Nat :
          /\ j = Len(pending[q]) /\ m = Len(pendingFifo[q])
          /\ d = Len(completed[q]) /\ e = Len(completedFifo[q])
          /\ h = InHand(c, q) /\ h > 0
  <2>1. /\ Len(pending[q]) \in Nat /\ Len(pendingFifo[q]) \in Nat
        /\ Len(completed[q]) \in Nat /\ Len(completedFifo[q]) \in Nat
    BY <1>1 DEF TypeOK
  <2>2. InHand(c, q) \in Nat /\ InHand(c, q) > 0
    BY <1>0, <1>1 DEF InHand, TypeOK, LocalsOK
  <2> QED BY <2>1, <2>2, Zenon
<1>3. PICK r \in Nat, f \in Nat : r = Len(ran[q]) /\ f = Len(done[q])
  BY <1>1 DEF TypeOK
<1>4. CASE c = q[1]
  <2>1. submitted[q] = r + h + j + m
    BY <1>1, <1>2, <1>3, <1>4, Zenon DEF RequestSide
  <2>2. r < submitted[q]
    <3>1. h > 0
      BY Zenon, <1>2
    <3> QED BY <2>1, <3>1
  <2>3. c # q[2]
    BY Zenon, <1>4, QueueCores
  <2> QED BY <1>3, <2>2, <2>3, Zenon
<1>5. CASE c = q[2]
  <2>1. r = f + h + d + e
    BY <1>1, <1>2, <1>3, <1>5, Zenon DEF ResponseSide
  <2>2. f < r
    <3>1. h > 0
      BY Zenon, <1>2
    <3> QED BY <2>1, <3>1
  <2>3. c # q[1]
    BY Zenon, <1>5, QueueCores
  <2> QED BY <1>3, <2>2, <2>3, Zenon
<1> QED BY Zenon, <1>4, <1>5

\* func->process() is the step Run of the abstract call ...
LEMMA ProcessRuns ==
    ASSUME NEW c \in Cores
    PROVE  NothingLost /\ Process(c) => \E q \in Queues : Calls!Run(q)
<1>0. SUFFICES ASSUME NothingLost, Process(c)
               PROVE  \E q \in Queues : Calls!Run(q)
  BY Zenon
<1>1. TypeOK /\ LocalsOK(c) /\ pc[c] = "run"
  BY Zenon, <1>0 DEF NothingLost, Process
<1>2. PICK k \in Queues : k = RxQueue(c) /\ k[2] = peer[c] /\ k[1] = c
  BY Zenon, <1>1, PeerQueues DEF LocalsOK, RxQueue
<1>3. PICK x : ran' = [ran EXCEPT ![k] = Append(@, x)] /\ x \in Nat
  <2>1. func[c].n \in Nat
    BY <1>1 DEF LocalsOK, Items
  <2> QED BY Zenon, <1>0, <1>2, <2>1 DEF Process
<1>4. Len(ran[k]) < submitted[k]
  <2>1. Popped(c, k)
    BY Zenon, <1>1, <1>2 DEF Popped
  <2> QED BY Zenon, <1>0, <1>2, <2>1, HandAhead
<1>5. UNCHANGED <<submitted, done>>
  BY Zenon, <1>0 DEF Process
<1>6. [q \in Queues |-> Len(ran'[q])]
        = [[q \in Queues |-> Len(ran[q])] EXCEPT ![k] = @ + 1]
  <2>1. ran \in [Queues -> Seq(Nat)]
    BY Zenon, <1>1 DEF TypeOK
  <2>2. Len(ran'[k]) = Len(ran[k]) + 1
    BY <1>3, <2>1
  <2>3. \A q \in Queues \ {k} : ran'[q] = ran[q]
    BY Zenon, <1>3, <2>1
  <2> QED BY Zenon, <2>2, <2>3
<1>7. Calls!Run(k)
  BY Zenon, <1>4, <1>5, <1>6 DEF Calls!Run
<1> QED BY Zenon, <1>7

\* ... and complete() the step Finish.
LEMMA CompleteFinishes ==
    ASSUME NEW c \in Cores
    PROVE  NothingLost /\ Complete(c) => \E q \in Queues : Calls!Finish(q)
<1>0. SUFFICES ASSUME NothingLost, Complete(c)
               PROVE  \E q \in Queues : Calls!Finish(q)
  BY Zenon
<1>1. TypeOK /\ LocalsOK(c) /\ pc[c] = "complete"
  BY Zenon, <1>0 DEF NothingLost, Complete
<1>2. PICK k \in Queues : k = TxQueue(c) /\ k[1] = peer[c] /\ k[2] = c
  BY Zenon, <1>1, PeerQueues DEF LocalsOK, TxQueue
<1>3. PICK x : done' = [done EXCEPT ![k] = Append(@, x)] /\ x \in Nat
  <2>1. func[c].n \in Nat
    BY <1>1 DEF LocalsOK, Items
  <2> QED BY ZenonT(60), <1>0, <1>2, <2>1 DEF Complete
<1>4. Len(done[k]) < Len(ran[k])
  <2>1. Popped(c, k)
    BY Zenon, <1>1, <1>2 DEF Popped
  <2> QED BY Zenon, <1>0, <1>2, <2>1, HandAhead
<1>5. UNCHANGED <<submitted, ran>>
  BY Zenon, <1>0 DEF Complete
<1>6. [q \in Queues |-> Len(done'[q])]
        = [[q \in Queues |-> Len(done[q])] EXCEPT ![k] = @ + 1]
  <2>1. done \in [Queues -> Seq(Nat)]
    BY Zenon, <1>1 DEF TypeOK
  <2>2. Len(done'[k]) = Len(done[k]) + 1
    BY <1>3, <2>1
  <2>3. \A q \in Queues \ {k} : done'[q] = done[q]
    BY Zenon, <1>3, <2>1
  <2> QED BY Zenon, <2>2, <2>3
<1>7. Calls!Finish(k)
  BY Zenon, <1>4, <1>5, <1>6 DEF Calls!Finish
<1> QED BY Zenon, <1>7

\* submit_item on a set of queues is the step Call.
LEMMA SubmitCalls ==
    ASSUME NEW Q \in SUBSET Queues, NEW stop, SubmitItem(Q, stop),
           UNCHANGED <<ran, done>>
    PROVE  Calls!Next
<1>1. Calls!Call(Q)
  BY Zenon DEF SubmitItem, Calls!Call
<1> QED BY Zenon, <1>1 DEF Calls!Next

\* Every step of the message queues is a step of the abstract call or changes
\* nothing a caller can see.
LEMMA NextImplements ==
    NothingLost /\ [Next]_vars => [Calls!Next]_(Calls!vars)
<1>0. SUFFICES ASSUME NothingLost, [Next]_vars,
                      ~ UNCHANGED Calls!vars
               PROVE  Calls!Next
  BY Zenon
<1>1. ~ UNCHANGED <<submitted, ran, done>>
  BY Zenon, <1>0 DEF Calls!vars
<1>2. PICK c \in Cores : \/ \E t \in Cores \ {c} : SubmitTo(c, t)
                         \/ Stop(c) \/ CoreStep(c)
  BY Zenon, <1>0, <1>1 DEF Next, vars, history
<1>3. CASE \E t \in Cores \ {c} : SubmitTo(c, t)
  <2>1. PICK t \in Cores \ {c} : SubmitTo(c, t)
    BY Zenon, <1>3
  <2>2. {<<t, c>>} \in SUBSET Queues
    BY DEF Queues
  <2>3. SubmitItem({<<t, c>>}, FALSE) /\ UNCHANGED <<ran, done>>
    BY Zenon, <2>1 DEF SubmitTo
  <2> QED BY Zenon, <2>2, <2>3, SubmitCalls
<1>4. CASE Stop(c)
  <2>1. PICK Q \in SUBSET Queues : SubmitItem(Q, TRUE)
    BY Zenon, <1>4 DEF Stop
  <2>2. UNCHANGED <<ran, done>>
    BY Zenon, <1>4 DEF Stop
  <2> QED BY Zenon, <2>1, <2>2, SubmitCalls
<1>5. CASE CoreStep(c)
  <2>1. Process(c) \/ Complete(c)
    BY Zenon, <1>1, <1>5 DEF CoreStep, StartPoll, EndIteration, JoinAll,
       FlushResponse, PopIncoming, PopAllIncoming, FlushRequest,
       PopCompletion, PopAllCompletions, history
  <2>2. \E q \in Queues : Calls!Run(q) \/ Calls!Finish(q)
    BY Zenon, <1>0, <2>1, ProcessRuns, CompleteFinishes
  <2> QED BY Zenon, <2>2 DEF Calls!Next
<1> QED BY Zenon, <1>2, <1>3, <1>4, <1>5

\* The message queues of smp.cc implement the asynchronous call of AsyncCall.
THEOREM Refinement == Spec => ImplementsAsyncCall
<1>1. Init => Calls!Init
  BY DEF Init, Calls!Init
<1> QED BY <1>1, NothingIsLost, NextImplements, PTL
     DEF Spec, ImplementsAsyncCall, Calls!Spec
=============================================================================
