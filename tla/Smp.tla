-------------------------------- MODULE Smp --------------------------------
(***************************************************************************)
(* The cross-core message queues of src/smp.cc and include/smp.h together  *)
(* with the part of the reactor loop (src/reactor.cc) that drives them.    *)
(*                                                                         *)
(* Every core runs one reactor.  For every ordered pair of cores there is  *)
(* one smp_message_queue qs_[dst][src]: src appends work to pending_fifo_, *)
(* moves what fits into the lock-free ring pending_, dst pops and runs it, *)
(* appends it to completed_fifo_, moves what fits into the ring completed_ *)
(* and src pops it, calls its callback and deletes it.                     *)
(*                                                                         *)
(* A step of this module is one ring operation (boost's spsc_queue, which  *)
(* is the only memory two cores share) plus the core-local code around it. *)
(***************************************************************************)
EXTENDS Integers, Sequences

CONSTANTS
    N,             \* smp::count, the number of cores
    QueueLength,   \* smp_message_queue::queue_length (128 in the code)
    MaxSubmit      \* bound: items ever submitted to one queue

ASSUME NAssumption == N \in Nat \ {0}
ASSUME QueueLengthAssumption == QueueLength \in Nat \ {0}
ASSUME MaxSubmitAssumption == MaxSubmit \in Nat

Cores == 0 .. N - 1
\* The queues that carry messages: <<dst, src>> is qs_[dst][src].
Queues == {q \in Cores \X Cores : q[1] # q[2]}

\* A func_wrapper: its number in its queue and whether its function is the
\* engine().stop() that reactor::stop sends to the workers.
Items == [n : 1 .. MaxSubmit, stop : BOOLEAN]
\* What a read of items[] behind the popped part returns.
Garbage == [n |-> 0, stop |-> FALSE]

VARIABLES
    pendingFifo,    \* [Queues -> Seq(Items)], owned by the source
    pending,        \* [Queues -> Seq(Items)], ring
    completedFifo,  \* [Queues -> Seq(Items)], owned by the destination
    completed,      \* [Queues -> Seq(Items)], ring
    pc,             \* where each core is in reactor::run / smp::poll_queues
    peer,           \* the loop variable i of poll_queues
    func, items, i, \* the locals of process_queue
    stopping,       \* reactor::stopping_
    submitted,      \* history: number of items submitted to a queue
    ran,            \* history: numbers of the items whose function ran
    done            \* history: numbers of the items completed and deleted

queueVars == <<pendingFifo, pending, completedFifo, completed>>
coreVars == <<pc, peer, func, items, i, stopping>>
history == <<submitted, ran, done>>
vars == <<queueVars, coreVars, history>>

-----------------------------------------------------------------------------
(* Program counters.  "tick": timers and tasks, before the pollers; "io":   *)
(* the pollers after the smp poller; the others are steps of poll_queues.   *)

\* Where code of the application runs on a core: it may submit and stop.
UserCode == {"tick", "run", "complete", "io"}
Labels == UserCode \cup {"respond", "in1", "in2", "request", "out1", "out2",
                         "join", "exited"}

\* The first peer at or after k that is not c itself; N when there is none.
NextPeer(c, k) == IF k = c THEN k + 1 ELSE k

RxQueue(c) == <<c, peer[c]>>    \* rxq = qs_[cpu_id()][i]
TxQueue(c) == <<peer[c], c>>    \* txq = qs_[i][cpu_id()]

\* How many of the staged items a bulk push moves into a ring.
Fits(fifo, ring) ==
    IF Len(fifo) <= QueueLength - Len(ring) THEN Len(fifo)
                                            ELSE QueueLength - Len(ring)

\* lf_queue.push(begin, end): the items that fit, in order ...
PushTo(ring, fifo) == ring \o SubSeq(fifo, 1, Fits(fifo, ring))
\* (mutant) the erase forgets that the last pushed item was pushed too.
RestTooLong(ring, fifo) ==
    SubSeq(fifo, IF Fits(fifo, ring) = 0 THEN 1 ELSE Fits(fifo, ring),
           Len(fifo))

\* ... and the erase of the pushed prefix.
Rest(ring, fifo) == SubSeq(fifo, Fits(fifo, ring) + 1, Len(fifo))

Init ==
    /\ pendingFifo = [q \in Queues |-> <<>>]
    /\ pending = [q \in Queues |-> <<>>]
    /\ completedFifo = [q \in Queues |-> <<>>]
    /\ completed = [q \in Queues |-> <<>>]
    /\ pc = [c \in Cores |-> "tick"]
    /\ peer = [c \in Cores |-> N]
    /\ func = [c \in Cores |-> Garbage]
    /\ items = [c \in Cores |-> <<>>]
    /\ i = [c \in Cores |-> 0]
    /\ stopping = [c \in Cores |-> FALSE]
    /\ submitted = [q \in Queues |-> 0]
    /\ ran = [q \in Queues |-> <<>>]
    /\ done = [q \in Queues |-> <<>>]

-----------------------------------------------------------------------------
(* Code of the application: smp::submit_to and reactor::stop.               *)

\* What submit_item leaves in the staging vector of queue q before the push.
Staged(q, stop) ==
    Append(pendingFifo[q], [n |-> submitted[q] + 1, stop |-> stop])

\* submit -> submit_item -> move_pending on every queue of Q (batch_size is 1,
\* so the staged items are pushed at once).
SubmitItem(Q, stop) ==
    /\ \A q \in Q : submitted[q] < MaxSubmit
    /\ submitted' = [q \in Queues |->
                        IF q \in Q THEN submitted[q] + 1 ELSE submitted[q]]
    /\ pending' = [q \in Queues |->
                        IF q \in Q THEN PushTo(pending[q], Staged(q, stop))
                                   ELSE pending[q]]
    /\ pendingFifo' = [q \in Queues |->
                        IF q \in Q THEN Rest(pending[q], Staged(q, stop))
                                   ELSE pendingFifo[q]]

\* smp::submit_to(t, func) called on core c, t another core.
SubmitTo(c, t) ==
    /\ pc[c] \in UserCode
    /\ SubmitItem({<<t, c>>}, FALSE)
    /\ UNCHANGED <<completedFifo, completed, coreVars, ran, done>>

\* reactor::stop(): core 0 also submits a stop to every worker.
Stop(c) ==
    /\ pc[c] \in UserCode
    /\ SubmitItem(IF c = 0 THEN {q \in Queues : q[2] = 0} ELSE {}, TRUE)
    /\ stopping' = [stopping EXCEPT ![c] = TRUE]
    /\ UNCHANGED <<completedFifo, completed, pc, peer, func, items, i,
                   ran, done>>

-----------------------------------------------------------------------------
(* The reactor loop around the smp poller.                                  *)

\* Leave tick()/execute_tasks() and enter poll_once: the smp poller is first
\* (registered only if smp::count > 1).
StartPoll(c) ==
    /\ pc[c] = "tick"
    /\ IF N > 1
         THEN /\ pc' = [pc EXCEPT ![c] = "respond"]
              /\ peer' = [peer EXCEPT ![c] = NextPeer(c, 0)]
         ELSE /\ pc' = [pc EXCEPT ![c] = "io"]
              /\ UNCHANGED peer
    /\ UNCHANGED <<queueVars, func, items, i, stopping, history>>

\* The end of one iteration of while (!stopping_).
EndIteration(c) ==
    /\ pc[c] = "io"
    /\ pc' = [pc EXCEPT ![c] = IF ~stopping[c] THEN "tick"
                               ELSE IF c = 0 THEN "join" ELSE "exited"]
    /\ UNCHANGED <<queueVars, peer, func, items, i, stopping, history>>

\* smp::join_all on core 0: it returns when every worker thread has ended.
JoinAll(c) ==
    /\ pc[c] = "join"
    /\ \A w \in Cores \ {0} : pc[w] = "exited"
    /\ pc' = [pc EXCEPT ![c] = "exited"]
    /\ UNCHANGED <<queueVars, peer, func, items, i, stopping, history>>

-----------------------------------------------------------------------------
(* smp::poll_queues, one peer at a time.                                    *)

\* rxq.flush_response_batch()
FlushResponse(c) ==
    LET q == RxQueue(c) IN
    /\ pc[c] = "respond"
    /\ completed' = [completed EXCEPT ![q] = PushTo(@, completedFifo[q])]
    /\ completedFifo' = [completedFifo EXCEPT ![q] = Rest(completed[q], @)]
    /\ pc' = [pc EXCEPT ![c] = "in1"]
    /\ UNCHANGED <<pendingFifo, pending, peer, func, items, i, stopping,
                   history>>

\* process_queue, its first pop: q.pop(func), or return 0.
PopIncoming(c) ==
    LET q == RxQueue(c) IN
    /\ pc[c] = "in1"
    /\ IF pending[q] = <<>>
         THEN /\ pc' = [pc EXCEPT ![c] = "request"]
              /\ UNCHANGED <<pending, func>>
         ELSE /\ func' = [func EXCEPT ![c] = Head(pending[q])]
              /\ pending' = [pending EXCEPT ![q] = Tail(@)]
              /\ pc' = [pc EXCEPT ![c] = "in2"]
    /\ UNCHANGED <<pendingFifo, completedFifo, completed, peer, items, i,
                   stopping, history>>

\* process_queue, nr = q.pop(items): everything in the ring at this moment,
\* at most queue_length items because the ring holds no more.
PopAllIncoming(c) ==
    LET q == RxQueue(c) IN
    /\ pc[c] = "in2"
    /\ items' = [items EXCEPT ![c] = pending[q]]
    /\ i' = [i EXCEPT ![c] = 0]
    /\ pending' = [pending EXCEPT ![q] = <<>>]
    /\ pc' = [pc EXCEPT ![c] = "run"]
    /\ UNCHANGED <<pendingFifo, completedFifo, completed, peer, func,
                   stopping, history>>

\* func = items[i++] of process_queue: behind the nr popped items the array is
\* uninitialised.
NextItem(c) == IF i[c] < Len(items[c]) THEN items[c][i[c] + 1] ELSE Garbage

\* (mutant) the loop condition allows one item too many.
MoreItemsOffByOne(c) == i[c] <= Len(items[c])

\* while (i <= nr), evaluated after the increment.
MoreItems(c) == i[c] + 1 <= Len(items[c])

\* The end of an iteration of process_queue; its locals die with the last one.
Advance(c) ==
    /\ func' = [func EXCEPT ![c] = NextItem(c)]
    /\ items' = [items EXCEPT ![c] = IF MoreItems(c) THEN @ ELSE <<>>]
    /\ i' = [i EXCEPT ![c] = IF MoreItems(c) THEN @ + 1 ELSE 0]

\* (mutant) a stop item is run but does not stop the reactor.
ProcessWithoutStop(c) ==
    LET q == RxQueue(c)
        fifo == Append(completedFifo[q], func[c]) IN
    /\ pc[c] = "run"
    /\ ran' = [ran EXCEPT ![q] = Append(@, func[c].n)]
    /\ completed' = [completed EXCEPT ![q] = PushTo(@, fifo)]
    /\ completedFifo' = [completedFifo EXCEPT ![q] = Rest(completed[q], fifo)]
    /\ Advance(c)
    /\ pc' = [pc EXCEPT ![c] = IF MoreItems(c) THEN "run" ELSE "request"]
    /\ UNCHANGED <<pendingFifo, pending, peer, stopping, submitted, done>>

\* One iteration of process_queue over pending_: func->process() runs the
\* function and responds (push_back and, with batch_size 1, a flush).
Process(c) ==
    LET q == RxQueue(c)
        fifo == Append(completedFifo[q], func[c]) IN
    /\ pc[c] = "run"
    /\ ran' = [ran EXCEPT ![q] = Append(@, func[c].n)]
    /\ stopping' = [stopping EXCEPT ![c] = @ \/ func[c].stop]
    /\ completed' = [completed EXCEPT ![q] = PushTo(@, fifo)]
    /\ completedFifo' = [completedFifo EXCEPT ![q] = Rest(completed[q], fifo)]
    /\ Advance(c)
    /\ pc' = [pc EXCEPT ![c] = IF MoreItems(c) THEN "run" ELSE "request"]
    /\ UNCHANGED <<pendingFifo, pending, peer, submitted, done>>

\* (mutant) the flush of staged requests is forgotten.
FlushRequestForgotten(c) ==
    /\ pc[c] = "request"
    /\ pc' = [pc EXCEPT ![c] = "out1"]
    /\ UNCHANGED <<queueVars, peer, func, items, i, stopping, history>>

\* txq.flush_request_batch()
FlushRequest(c) ==
    LET q == TxQueue(c) IN
    /\ pc[c] = "request"
    /\ pending' = [pending EXCEPT ![q] = PushTo(@, pendingFifo[q])]
    /\ pendingFifo' = [pendingFifo EXCEPT ![q] = Rest(pending[q], @)]
    /\ pc' = [pc EXCEPT ![c] = "out1"]
    /\ UNCHANGED <<completedFifo, completed, peer, func, items, i, stopping,
                   history>>

\* Continue poll_queues with the next peer, or leave it.
NextQueue(c) ==
    LET k == NextPeer(c, peer[c] + 1) IN
    /\ peer' = [peer EXCEPT ![c] = k]
    /\ pc' = [pc EXCEPT ![c] = IF k < N THEN "respond" ELSE "io"]

\* process_queue over completed_, first pop.
PopCompletion(c) ==
    LET q == TxQueue(c) IN
    /\ pc[c] = "out1"
    /\ IF completed[q] = <<>>
         THEN /\ NextQueue(c)
              /\ UNCHANGED <<completed, func>>
         ELSE /\ func' = [func EXCEPT ![c] = Head(completed[q])]
              /\ completed' = [completed EXCEPT ![q] = Tail(@)]
              /\ pc' = [pc EXCEPT ![c] = "out2"]
              /\ UNCHANGED peer
    /\ UNCHANGED <<pendingFifo, pending, completedFifo, items, i, stopping,
                   history>>

\* process_queue over completed_, second pop.
PopAllCompletions(c) ==
    LET q == TxQueue(c) IN
    /\ pc[c] = "out2"
    /\ items' = [items EXCEPT ![c] = completed[q]]
    /\ i' = [i EXCEPT ![c] = 0]
    /\ completed' = [completed EXCEPT ![q] = <<>>]
    /\ pc' = [pc EXCEPT ![c] = "complete"]
    /\ UNCHANGED <<pendingFifo, pending, completedFifo, peer, func, stopping,
                   history>>

\* One iteration of process_queue over completed_: complete() and delete.
Complete(c) ==
    LET q == TxQueue(c) IN
    /\ pc[c] = "complete"
    /\ done' = [done EXCEPT ![q] = Append(@, func[c].n)]
    /\ Advance(c)
    /\ IF MoreItems(c) THEN UNCHANGED <<pc, peer>> ELSE NextQueue(c)
    /\ UNCHANGED <<queueVars, stopping, submitted, ran>>

-----------------------------------------------------------------------------
\* What the reactor itself does on core c, whatever the application does.
CoreStep(c) ==
    \/ StartPoll(c) \/ EndIteration(c) \/ JoinAll(c)
    \/ FlushResponse(c) \/ PopIncoming(c) \/ PopAllIncoming(c) \/ Process(c)
    \/ FlushRequest(c) \/ PopCompletion(c) \/ PopAllCompletions(c)
    \/ Complete(c)

Next ==
    \E c \in Cores :
        \/ \E t \in Cores \ {c} : SubmitTo(c, t)
        \/ Stop(c)
        \/ CoreStep(c)

Spec == Init /\ [][Next]_vars

\* Every reactor is a thread that never blocks: it keeps taking steps.
FairSpec == Spec /\ \A c \in Cores : WF_vars(CoreStep(c))

-----------------------------------------------------------------------------
(* Properties.                                                              *)

\* Types, with the capacity of both rings (queue_length) and of the array
\* items[queue_length] of process_queue.
TypeOK ==
    /\ pendingFifo \in [Queues -> Seq(Items)]
    /\ pending \in [Queues -> Seq(Items)]
    /\ completedFifo \in [Queues -> Seq(Items)]
    /\ completed \in [Queues -> Seq(Items)]
    /\ pc \in [Cores -> Labels]
    /\ peer \in [Cores -> 0 .. N]
    /\ func \in [Cores -> Items \cup {Garbage}]
    /\ items \in [Cores -> Seq(Items)]
    /\ i \in [Cores -> Nat]
    /\ stopping \in [Cores -> BOOLEAN]
    /\ submitted \in [Queues -> 0 .. MaxSubmit]
    /\ ran \in [Queues -> Seq(Nat)]
    /\ done \in [Queues -> Seq(Nat)]
    /\ \A q \in Queues : Len(pending[q]) <= QueueLength
                       /\ Len(completed[q]) <= QueueLength
    /\ \A c \in Cores : Len(items[c]) <= QueueLength

\* s is the list 1, 2, ..., Len(s).
IsCount(s) == \A k \in 1 .. Len(s) : s[k] = k

\* Every item submitted with smp::submit_to runs at most once and is completed
\* (and deleted) at most once, both in submission order and never the
\* completion before the run, whatever the rings' fill, the batches popped by
\* process_queue and the stops in between.
InOrderExactlyOnce ==
    \A q \in Queues :
        /\ IsCount(ran[q])
        /\ IsCount(done[q])
        /\ Len(done[q]) <= Len(ran[q])
        /\ Len(ran[q]) <= submitted[q]

\* The items of s carry the numbers a + 1, a + 2, ...
Numbered(s, a) == \A k \in 1 .. Len(s) : s[k].n = a + k

\* Core c is inside process_queue on its side of queue q, after the first pop.
Popped(c, q) ==
    \/ c = q[1] /\ peer[c] = q[2] /\ pc[c] \in {"in2", "run"}
    \/ c = q[2] /\ peer[c] = q[1] /\ pc[c] \in {"out2", "complete"}

\* How many items of q core c has popped and not yet processed ...
InHand(c, q) == IF Popped(c, q) THEN 1 + Len(items[c]) - i[c] ELSE 0

\* ... and that they carry the numbers following a.
HandNumbered(c, q, a) ==
    Popped(c, q) =>
        /\ func[c].n = a + 1
        /\ \A k \in i[c] + 1 .. Len(items[c]) : items[c][k].n = a + 1 + k - i[c]

\* The requests of q that have not run: popped by the destination, then the
\* ring pending_, then pending_fifo_, numbered from the last one that ran up to
\* the last one submitted.
RequestSide(q) ==
    LET a == Len(ran[q]) + InHand(q[1], q) IN
    /\ HandNumbered(q[1], q, Len(ran[q]))
    /\ Numbered(pending[q], a)
    /\ Numbered(pendingFifo[q], a + Len(pending[q]))
    /\ submitted[q] = a + Len(pending[q]) + Len(pendingFifo[q])

\* The requests of q that ran and are not completed: popped by the source, then
\* the ring completed_, then completed_fifo_.
ResponseSide(q) ==
    LET a == Len(done[q]) + InHand(q[2], q) IN
    /\ HandNumbered(q[2], q, Len(done[q]))
    /\ Numbered(completed[q], a)
    /\ Numbered(completedFifo[q], a + Len(completed[q]))
    /\ Len(ran[q]) = a + Len(completed[q]) + Len(completedFifo[q])

\* Each item of q is in exactly one place, and the places are in the order of
\* the numbers.
Pipeline(q) ==
    /\ IsCount(ran[q]) /\ IsCount(done[q])
    /\ RequestSide(q)
    /\ ResponseSide(q)

\* The locals of poll_queues and process_queue of core c fit its label.
LocalsOK(c) ==
    /\ pc[c] \in {"respond", "in1", "in2", "run",
                  "request", "out1", "out2", "complete"}
          => peer[c] \in Cores \ {c}
    /\ pc[c] \in {"in2", "run", "out2", "complete"} => func[c] \in Items
    /\ i[c] <= Len(items[c])
    /\ pc[c] \notin {"run", "complete"} => items[c] = <<>> /\ i[c] = 0

\* No item of the message queues is lost, duplicated, reordered or used after
\* its deletion: the inductive invariant behind InOrderExactlyOnce.
NothingLost ==
    /\ TypeOK
    /\ \A c \in Cores : LocalsOK(c)
    /\ \A q \in Queues : Pipeline(q)

\* The calls as their callers see them.
Calls == INSTANCE AsyncCall WITH
    Pairs <- Queues, called <- submitted,
    run <- [q \in Queues |-> Len(ran[q])],
    finished <- [q \in Queues |-> Len(done[q])]

\* The queues implement the asynchronous call: seen from outside, a step of
\* any core submits calls, runs the next one of one pair, completes the next
\* one of one pair, or does nothing.
ImplementsAsyncCall == Calls!Spec

\* A queue whose two cores keep running.
Live(q) == ~stopping[q[1]] /\ ~stopping[q[2]]

\* An item submitted to a core is run and its completion gets back to the
\* submitter, unless one of the two reactors is told to stop: full rings only
\* delay it (flush_request_batch, flush_response_batch).
SubmittedCompletes ==
    \A q \in Queues : \A n \in 1 .. MaxSubmit :
        (submitted[q] = n) ~> (Len(done[q]) >= n \/ ~Live(q))

\* Worker w has been told to stop in a way that reaches it: a stop of core 0
\* is in its ring.
StopDelivered(w) ==
    \E k \in 1 .. Len(pending[<<w, 0>>]) : pending[<<w, 0>>][k].stop

\* A worker with the stop of reactor::stop in its ring leaves its loop.
StopEndsWorker ==
    \A w \in Cores \ {0} : StopDelivered(w) ~> (pc[w] = "exited")

\* "flush remaing requests one last time" (src/reactor.cc:259): no request of a
\* reactor that left its loop is still staged on its side.
FlushedAtExit ==
    \A q \in Queues : pc[q[2]] \in {"join", "exited"} => pendingFifo[q] = <<>>
=============================================================================
