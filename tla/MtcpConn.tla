----------------------------- MODULE MtcpConn -----------------------------
(***************************************************************************)
(* A connection of a load generator on the mTCP stack: mtcp_connection and *)
(* the mtcp_epoll_backend on the application thread, and the sockets, the  *)
(* event queues and the packet handlers of mTCP on the stack thread.       *)
(*                                                                         *)
(* The two threads share the word socket->events without a lock: the stack *)
(* sets bits in AddEpollEvent, the application clears them in              *)
(* mtcp_epoll_wait and sets some itself.  Such an update is a load and a   *)
(* store: the action that makes it loads the word and leaves the store in  *)
(* pend, and the thread does nothing else before Store writes it.          *)
(* epoll_lock keeps FlushEpollEvents out while mtcp_epoll_wait fetches.    *)
(*                                                                         *)
(* A poll_state lives as long as the pfd_ that owns it, and its pollid is  *)
(* the socket: the events of a socket other than cur carry a pointer to a  *)
(* freed one.  events_epoll is not a variable: attach sets both bits, and  *)
(* no later update of the same poll_state finds one missing.               *)
(***************************************************************************)
EXTENDS Integers, Sequences, FiniteSets

CONSTANTS
    MaxConcurrency, \* CONFIG.max_concurrency, which gives the queues their size
    Wide,           \* values of an int
    Starts,         \* where the other connections of the core left mtcp_queue
    MaxSockets,     \* bound: sockets the connection uses; none is reused
    MaxPackets,     \* bound: packets that arrive and timeouts of the stack
    MaxSends        \* bound: requests the application sends

Size == 3 * MaxConcurrency

ASSUME MtcpBounds ==
    /\ MaxConcurrency \in Nat \ {0} /\ Wide \in Nat /\ Size < Wide /\ Starts \subseteq 0 .. Size - 1
    /\ MaxSockets \in Nat \ {0} /\ MaxPackets \in Nat /\ MaxSends \in Nat

Socks == 1 .. MaxSockets
None == 0
Events == {"IN", "OUT", "ERR"}

VARIABLES
    state,      \* state_ of the connection
    cur,        \* the socket of pfd_, None when pfd_ is null
    requested,  \* events_requested of its poll_state
    pc,         \* what the application thread is doing
    batch,      \* events that mtcp_epoll_wait returned and poll has not handled
    retry,      \* a reconnect is scheduled
    sends,      \* requests sent so far
    opened,     \* sockets allocated so far
    smap,       \* [Socks -> socket and stream]
    packets,    \* packets and timeouts so far
    mtcpq,      \* mtcp_queue: its start index and its entries
    usrq,       \* usr_queue
    shadowq,    \* usr_shadow_queue
    pend,       \* [thread -> the store of socket->events it has not made yet]
    raced,      \* some update of socket->events overlapped one of the other thread
    eaten,      \* a read event was used up by the handshake
    dangled,    \* an event of an earlier socket had an effect on the connection
    sendfailed  \* send caught an error

ghosts == <<raced, eaten, dangled, sendfailed>>
app == <<state, cur, requested, pc, batch, retry, sends, opened>>
queues == <<mtcpq, usrq, shadowq>>
vars == <<app, smap, packets, queues, pend, ghosts>>

NoStore == [sock |-> None]
Loaded == [sock : Socks, old : SUBSET Events, add : SUBSET Events, del : SUBSET Events]
Entry == [sock : Socks, ev : Events]
Socket == [used : BOOLEAN, epoll : BOOLEAN, events : SUBSET Events,
           tcp : {"NONE", "SYN_SENT", "ESTABLISHED", "CLOSE_WAIT", "CLOSED"},
           reason : {"NOT_CLOSED", "RESET", "FAIL", "LOST"},
           merged_len : 0 .. MaxPackets, unacked : BOOLEAN]
Unused == [used |-> FALSE, epoll |-> FALSE, events |-> {}, tcp |-> "NONE",
           reason |-> "NOT_CLOSED", merged_len |-> 0, unacked |-> FALSE]

TypeOK ==
    /\ state \in {"invalid", "connecting", "failed", "connected", "disconnect", "closed"}
    /\ cur \in Socks \cup {None} /\ requested \subseteq {"IN", "OUT"}
    /\ pc \in {"idle", "connected_socket", "attached", "wait", "dispatch", "read",
               "terminated", "uncaught"}
    /\ batch \in Seq(Entry) /\ retry \in BOOLEAN /\ sends \in 0 .. MaxSends
    /\ opened \in 0 .. MaxSockets
    /\ smap \in [Socks -> Socket]
    /\ packets \in 0 .. MaxPackets /\ mtcpq \in [start : 0 .. Size - 1, q : Seq(Entry)]
    /\ usrq \in Seq(Entry) /\ shadowq \in Seq(Entry)
    /\ \A q \in {mtcpq.q, usrq, shadowq} : Len(q) < Size
    /\ pend \in [{"app", "stack"} -> {NoStore} \cup Loaded]
    /\ raced \in BOOLEAN /\ eaten \in BOOLEAN /\ dangled \in BOOLEAN /\ sendfailed \in BOOLEAN

Init ==
    /\ state = "invalid" /\ cur = None /\ requested = {} /\ pc = "idle"
    /\ batch = <<>> /\ retry = FALSE /\ sends = 0 /\ opened = 0
    /\ smap = [s \in Socks |-> Unused]
    /\ packets = 0 /\ mtcpq \in [start : Starts, q : {<<>>}] /\ usrq = <<>> /\ shadowq = <<>>
    /\ pend = [t \in {"app", "stack"} |-> NoStore]
    /\ raced = FALSE /\ eaten = FALSE /\ dangled = FALSE /\ sendfailed = FALSE

\* What a handler of the connection throws ends the process, and so does what
\* connect throws.
Running == pc \notin {"terminated", "uncaught"}

\* A thread acts only when its last store of socket->events is made.
Ready(t) == Running /\ pend[t] = NoStore
AppAt(where) == Ready("app") /\ pc = where

\* The new value comes from the load of the check before it or from a later
\* one: the compiler may do either.
Store(t) ==
    /\ Running /\ pend[t] # NoStore
    /\ LET p == pend[t] IN
        /\ \E loaded \in {p.old, smap[p.sock].events} :
               smap' = [smap EXCEPT ![p.sock].events = (loaded \cup p.add) \ p.del]
        /\ raced' = (raced \/ smap[p.sock].events # p.old)
    /\ pend' = [pend EXCEPT ![t] = NoStore]
    /\ UNCHANGED <<packets, app, queues, eaten, dangled, sendfailed>>

\* The load of an update of socket->events by thread t.
Update(t, s, add, del) ==
    pend' = [pend EXCEPT ![t] = [sock |-> s, old |-> smap[s].events, add |-> add, del |-> del]]

(***************************************************************************)
(* The event queues of an epoll socket.                                    *)
(***************************************************************************)

EventQueFull(q) == Len(q) + 1 = Size

\* The operator & of C on unsigned words.
BitAnd[x \in Nat, y \in Nat] ==
    IF x = 0 THEN 0 ELSE (x % 2) * (y % 2) + 2 * BitAnd[x \div 2, y \div 2]

\* (end - start) & (size - 1), on the indices of the ring.
EventQueLen(eq) ==
    LET end == (eq.start + Len(eq.q)) % Size IN BitAnd[(end - eq.start) % Wide, Size - 1]

\* An event whose bit is set is taken to be queued already.
Queues(s, ev, q) == ev \notin smap[s].events /\ ~EventQueFull(q)

\* The stack thread adds to mtcp_queue, the application to usr_shadow_queue.
StackAddEvent(s, ev) ==
    /\ IF Queues(s, ev, mtcpq.q)
       THEN /\ mtcpq' = [mtcpq EXCEPT !.q = Append(@, [sock |-> s, ev |-> ev])]
            /\ Update("stack", s, {ev}, {})
       ELSE UNCHANGED <<mtcpq, pend>>
    /\ UNCHANGED <<usrq, shadowq>>

AppAddEvent(s, ev) ==
    /\ IF Queues(s, ev, shadowq)
       THEN /\ shadowq' = Append(shadowq, [sock |-> s, ev |-> ev])
            /\ Update("app", s, {ev}, {})
       ELSE UNCHANGED <<shadowq, pend>>
    /\ UNCHANGED <<mtcpq, usrq>>

Fits(n) == n = IF Len(mtcpq.q) < Size - 1 - Len(usrq) THEN Len(mtcpq.q) ELSE Size - 1 - Len(usrq)

\* (mutant) the start index runs on past the end of the array
FlushWithoutWrap ==
    \E n \in 1 .. Size : /\ Fits(n)
        /\ Ready("stack") /\ pc # "wait" /\ EventQueLen(mtcpq) > 0
        /\ usrq' = usrq \o SubSeq(mtcpq.q, 1, n)
        /\ mtcpq' = [start |-> mtcpq.start + n, q |-> SubSeq(mtcpq.q, n + 1, Len(mtcpq.q))]
        /\ UNCHANGED <<packets, app, smap, shadowq, pend, ghosts>>

\* Nothing moves when EventQueLen finds the queue empty; otherwise all that
\* fits does.
FlushEpollEvents ==
    \E n \in 1 .. Size : /\ Fits(n)
        /\ Ready("stack") /\ pc # "wait" /\ EventQueLen(mtcpq) > 0
        /\ usrq' = usrq \o SubSeq(mtcpq.q, 1, n)
        /\ mtcpq' = [start |-> (mtcpq.start + n) % Size,
                     q |-> SubSeq(mtcpq.q, n + 1, Len(mtcpq.q))]
        /\ UNCHANGED <<packets, app, smap, shadowq, pend, ghosts>>

(***************************************************************************)
(* Packets and timeouts, on the stack thread.  A stream whose socket was   *)
(* closed raises nothing any more and is left out.                         *)
(***************************************************************************)

\* Raise...Event after the handler has changed the stream into str: an event
\* that the socket is not registered for is dropped.
Raise(s, ev, str) ==
    /\ IF smap[s].epoll THEN StackAddEvent(s, ev) ELSE UNCHANGED <<queues, pend>>
    /\ smap' = [smap EXCEPT ![s] = str]
    /\ packets' = packets + 1
    /\ UNCHANGED <<app, ghosts>>

StreamIn(s, states) == Ready("stack") /\ smap[s].tcp \in states /\ packets < MaxPackets

\* SYN/ACK in SYN_SENT.
SynAckArrives(s) ==
    /\ StreamIn(s, {"SYN_SENT"})
    /\ Raise(s, "OUT", [smap[s] EXCEPT !.tcp = "ESTABLISHED"])

\* RST/ACK in SYN_SENT.
ConnectionRefused(s) ==
    /\ StreamIn(s, {"SYN_SENT"})
    /\ Raise(s, "ERR", [smap[s] EXCEPT !.tcp = "CLOSE_WAIT", !.reason = "RESET"])

\* HandleRTO after the last retry of the SYN.
ConnectTimesOut(s) ==
    /\ StreamIn(s, {"SYN_SENT"})
    /\ Raise(s, "ERR", [smap[s] EXCEPT !.tcp = "CLOSED", !.reason = "FAIL"])

DataArrives(s) ==
    /\ StreamIn(s, {"ESTABLISHED"})
    /\ Raise(s, "IN", [smap[s] EXCEPT !.merged_len = @ + 1])

FinArrives(s) ==
    /\ StreamIn(s, {"ESTABLISHED"})
    /\ Raise(s, "IN", [smap[s] EXCEPT !.tcp = "CLOSE_WAIT"])

\* ProcessRST of an open stream: the close event is a read event, since no
\* socket is registered for RDHUP.
ResetArrives(s) ==
    /\ StreamIn(s, {"ESTABLISHED", "CLOSE_WAIT"})
    /\ Raise(s, "IN", [smap[s] EXCEPT !.tcp = "CLOSE_WAIT", !.reason = "RESET"])

\* ProcessACK removes acknowledged data and tells of the room.
AckArrives(s) ==
    /\ StreamIn(s, {"ESTABLISHED", "CLOSE_WAIT"}) /\ smap[s].unacked
    /\ Raise(s, "OUT", [smap[s] EXCEPT !.unacked = FALSE])

\* Too many retransmissions in HandleRTO, or CheckConnectionTimeout.
ConnectionLost(s) ==
    /\ StreamIn(s, {"ESTABLISHED", "CLOSE_WAIT"})
    /\ Raise(s, "ERR", [smap[s] EXCEPT !.tcp = "CLOSED", !.reason = "LOST"])

(***************************************************************************)
(* Connecting.  Every call of these runs from a timer or from main.        *)
(***************************************************************************)

\* AllocateSocket takes the head of a list that FreeSocket appends to; that it
\* finds none is ConnectThrows.
Opens(s) == s = opened + 1 /\ s \in Socks /\ opened' = s

Stream(tcp, registered) == [Unused EXCEPT !.used = TRUE, !.epoll = registered, !.tcp = tcp]

\* attach before connect: no event can be pending.
Connect ==
    /\ AppAt("idle") /\ state = "invalid"
    /\ \E s \in Socks :
        /\ Opens(s)
        /\ smap' = [smap EXCEPT ![s] = Stream("SYN_SENT", TRUE)]
        /\ cur' = s
    /\ state' = "connecting" /\ requested' = {"IN", "OUT"}
    /\ UNCHANGED <<packets, pc, batch, retry, sends, queues, pend, ghosts>>

\* connect before attach: the answer may come before the socket is registered.
Reconnect ==
    /\ AppAt("idle") /\ retry
    /\ \E s \in Socks : Opens(s) /\ smap' = [smap EXCEPT ![s] = Stream("SYN_SENT", FALSE)]
    /\ retry' = FALSE /\ pc' = "connected_socket"
    /\ UNCHANGED <<packets, state, cur, requested, batch, sends, queues, pend, ghosts>>

\* No socket is left, as those of failed handshakes are never given back, or no
\* local address or memory for a stream: the connections of a core share them.
\* No one catches what mtcp_socket throws then.
ConnectThrows ==
    /\ AppAt("idle") /\ (state = "invalid" \/ retry)
    /\ pc' = "uncaught"
    /\ UNCHANGED <<packets, state, cur, requested, batch, retry, sends, opened, smap, queues, pend, ghosts>>

Established(s) == smap[s].tcp \in {"ESTABLISHED", "CLOSE_WAIT"}

\* The old pfd_ goes, with its poll_state, whatever became of its socket.
\* RaisePendingStreamEvents looks for input ...
Attach ==
    /\ AppAt("connected_socket")
    /\ state' = "connecting" /\ cur' = opened /\ requested' = {"IN", "OUT"} /\ pc' = "attached"
    /\ smap' = [smap EXCEPT ![opened].epoll = TRUE]
    /\ IF Established(opened) /\ (smap[opened].merged_len > 0 \/ smap[opened].tcp = "CLOSE_WAIT")
       THEN AppAddEvent(opened, "IN")
       ELSE UNCHANGED <<queues, pend>>
    /\ UNCHANGED <<batch, retry, sends, opened, packets, ghosts>>

\* (mutant) raises OUT on a connection that is not established
AttachOutAlways ==
    /\ AppAt("attached")
    /\ pc' = "idle"
    /\ AppAddEvent(cur, "OUT")
    /\ UNCHANGED <<state, cur, requested, batch, retry, sends, opened, packets, smap, ghosts>>

\* ... and then for room to write.
AttachOut ==
    /\ AppAt("attached")
    /\ pc' = "idle"
    /\ IF Established(cur) THEN AppAddEvent(cur, "OUT") ELSE UNCHANGED <<queues, pend>>
    /\ UNCHANGED <<state, cur, requested, batch, retry, sends, opened, packets, smap, ghosts>>

(***************************************************************************)
(* mtcp_epoll_wait, under epoll_lock.  A batch of 128 is never full.       *)
(***************************************************************************)

StartWait ==
    /\ AppAt("idle") /\ usrq \o shadowq # <<>>
    /\ pc' = "wait"
    /\ UNCHANGED <<state, cur, requested, batch, retry, sends, opened, packets, smap, queues, pend, ghosts>>

\* (mutant) the event stays set in the socket
FetchKeepsBit ==
    LET e == Head(usrq \o shadowq)
        valid == smap[e.sock].used /\ smap[e.sock].epoll /\ e.ev \in smap[e.sock].events
    IN  /\ AppAt("wait") /\ usrq \o shadowq # <<>>
        /\ IF usrq # <<>> THEN usrq' = Tail(usrq) /\ UNCHANGED shadowq
                          ELSE shadowq' = Tail(shadowq) /\ UNCHANGED usrq
        /\ batch' = IF valid THEN Append(batch, e) ELSE batch
        /\ UNCHANGED <<state, cur, requested, pc, retry, sends, opened, packets, smap, mtcpq,
                       pend, ghosts>>

\* An event of a free or unregistered socket, or one whose bit is clear, is
\* dropped; the bit is cleared in any case.
Fetch ==
    LET e == Head(usrq \o shadowq)
        valid == smap[e.sock].used /\ smap[e.sock].epoll /\ e.ev \in smap[e.sock].events
    IN  /\ AppAt("wait") /\ usrq \o shadowq # <<>>
        /\ IF usrq # <<>> THEN usrq' = Tail(usrq) /\ UNCHANGED shadowq
                          ELSE shadowq' = Tail(shadowq) /\ UNCHANGED usrq
        /\ batch' = IF valid THEN Append(batch, e) ELSE batch
        /\ Update("app", e.sock, {}, {e.ev})
        /\ UNCHANGED <<state, cur, requested, pc, retry, sends, opened, packets, smap, mtcpq, ghosts>>

WaitReturns ==
    /\ AppAt("wait") /\ usrq \o shadowq = <<>>
    /\ pc' = "dispatch"
    /\ UNCHANGED <<state, cur, requested, batch, retry, sends, opened, packets, smap, queues, pend, ghosts>>

(***************************************************************************)
(* poll hands the batch to the handlers of the connection.                 *)
(***************************************************************************)

\* GetSocketError; in SYN_SENT its answer hangs on an unrelated errno.
HandshakeResults(s) ==
    CASE smap[s].tcp = "SYN_SENT"        -> {"connected", "failed"}
      [] smap[s].reason # "NOT_CLOSED"   -> {"failed"}
      [] OTHER                           -> {"connected"}

\* handle_write and handle_read up to its loop.  on_failed_ schedules a
\* reconnect; the socket of a failed handshake stays open and registered.  A
\* read event that ends the handshake is not followed by a read, and the next
\* one is not requested.  output_ is empty: handle_write sends nothing.
Handle(ev) ==
    \/ /\ state = "connecting"
       /\ state' \in HandshakeResults(cur)
       /\ retry' = (retry \/ state' = "failed")
       /\ eaten' = (eaten \/ (ev = "IN" /\ state' = "connected"))
       /\ UNCHANGED pc
    \/ /\ state # "connecting"
       /\ pc' = CASE ev = "IN" /\ cur = None             -> "terminated"
                  [] ev = "IN" /\ state = "connected"    -> "read"
                  [] OTHER                               -> pc
       /\ UNCHANGED <<state, retry, eaten>>

\* poll goes on with the next event that mtcp_epoll_wait returned.
TakeEvent ==
    /\ AppAt("dispatch") /\ batch # <<>>
    /\ batch' = Tail(batch)
    /\ UNCHANGED <<cur, sends, opened, packets, smap, queues, pend, raced, sendfailed>>

\* complete_epoll_event clears the request before it calls the handler.
Dispatch ==
    /\ TakeEvent
    /\ LET e == Head(batch)
       IN  /\ e.sock = cur /\ e.ev \in requested
           /\ requested' = requested \ {e.ev}
           /\ Handle(e.ev)
    /\ UNCHANGED dangled

\* Error events are masked out, and others wait for a request.
SkipEvent ==
    /\ TakeEvent
    /\ Head(batch).sock = cur => Head(batch).ev \notin requested
    /\ UNCHANGED <<state, requested, pc, retry, eaten, dangled>>

\* The poll_state of another socket is freed.  What its memory says is open: it
\* may still hold the handlers, or be the poll_state of cur by now.
DispatchDangling ==
    /\ TakeEvent
    /\ LET e == Head(batch)
       IN  /\ e.sock # cur /\ e.ev # "ERR"
           /\ requested' \in {requested, requested \ {e.ev}}
           /\ cur = None => requested' = requested
           /\ Handle(e.ev)
    /\ dangled' = (dangled \/ <<state, requested, pc>>' # <<state, requested, pc>>)

DispatchDone ==
    /\ AppAt("dispatch") /\ batch = <<>>
    /\ pc' = "idle"
    /\ UNCHANGED <<state, cur, requested, batch, retry, sends, opened, packets, smap, queues, pend, ghosts>>

(***************************************************************************)
(* Reading, sending and closing.                                           *)
(***************************************************************************)

\* (mutant) pfd_ is kept
DropsKeepingPfd(s, next) ==
    /\ smap' = [smap EXCEPT ![s].used = FALSE, ![s].epoll = FALSE, ![s].events = {}, ![s].tcp = "NONE"]
    /\ pc' = IF smap[s].tcp = "SYN_SENT" THEN "terminated" ELSE next
    /\ UNCHANGED cur

\* (mutant) the socket stays open
DropsKeepingSocket(s, next) == cur' = None /\ pc' = next /\ UNCHANGED smap

\* detach_from_loop, close_socket and pfd_ = nullptr.  mtcp_close fails in
\* SYN_SENT, and no one catches what close_socket throws.
Drops(s, next) ==
    /\ smap' = [smap EXCEPT ![s].used = FALSE, ![s].epoll = FALSE, ![s].events = {}, ![s].tcp = "NONE"]
    /\ pc' = IF smap[s].tcp = "SYN_SENT" THEN "terminated" ELSE next
    /\ cur' = None

\* End of stream, or a read error: the stream can no longer be read.
ReadEnds ==
    /\ AppAt("read")
    /\ \/ ~Established(cur)
       \/ smap[cur].tcp = "CLOSE_WAIT" /\ smap[cur].merged_len = 0
    /\ state' = "disconnect" /\ retry' = TRUE
    /\ Drops(cur, "dispatch")
    /\ UNCHANGED <<requested, batch, sends, opened, packets, queues, pend, ghosts>>

\* (mutant) EAGAIN does not ask for the next input
ReadBlocksForGood ==
    /\ AppAt("read")
    /\ smap[cur].tcp = "ESTABLISHED" /\ smap[cur].merged_len = 0
    /\ pc' = "dispatch"
    /\ UNCHANGED <<state, cur, requested, batch, retry, sends, opened, packets, smap, queues, pend, ghosts>>

\* EAGAIN.  The clients of mcc set no on_msg_.
ReadBlocks ==
    /\ AppAt("read")
    /\ smap[cur].tcp = "ESTABLISHED" /\ smap[cur].merged_len = 0
    /\ requested' = requested \cup {"IN"} /\ pc' = "dispatch"
    /\ UNCHANGED <<state, cur, batch, retry, sends, opened, packets, smap, queues, pend, ghosts>>

\* mtcp_recv takes what fits into the buffer, and raises a read event for the
\* rest, or for the end of the stream.
ReadSome ==
    /\ AppAt("read") /\ Established(cur)
    /\ \E n \in 1 .. smap[cur].merged_len :
        LET rest == smap[cur].merged_len - n IN
        /\ smap' = [smap EXCEPT ![cur].merged_len = rest]
        /\ IF rest > 0 \/ smap[cur].tcp = "CLOSE_WAIT"
           THEN AppAddEvent(cur, "IN")
           ELSE UNCHANGED <<queues, pend>>
    /\ requested' = requested \cup {"IN"}
    /\ UNCHANGED <<state, cur, pc, batch, retry, sends, opened, packets, ghosts>>

\* send_packet from a timer; all: the whole request fitted, room: some is left.
Send ==
    /\ AppAt("idle") /\ state = "connected" /\ sends < MaxSends
    /\ Established(cur)
    /\ sends' = sends + 1
    /\ \E all \in BOOLEAN, room \in BOOLEAN :
        /\ room => all
        /\ smap' = [smap EXCEPT ![cur].unacked = @ \/ all]
        /\ IF room THEN AppAddEvent(cur, "OUT") ELSE UNCHANGED <<queues, pend>>
        /\ requested' = IF all THEN requested \cup {"IN"} ELSE requested
    /\ UNCHANGED <<state, cur, pc, batch, retry, opened, packets, ghosts>>

\* send catches the error; the socket stays where it is.
SendFails ==
    /\ AppAt("idle") /\ state = "connected" /\ sends < MaxSends
    /\ ~Established(cur)
    /\ state' = "disconnect" /\ sendfailed' = TRUE /\ sends' = sends + 1
    /\ UNCHANGED <<cur, requested, pc, batch, retry, opened, packets, smap, queues, pend,
                   raced, eaten, dangled>>

\* (mutant) close counts as a failure
CloseAndReconnect ==
    /\ AppAt("idle") /\ state = "connected"
    /\ state' = "closed" /\ retry' = TRUE /\ Drops(cur, "idle")
    /\ UNCHANGED <<requested, batch, sends, opened, packets, queues, pend, ghosts>>

Close ==
    /\ AppAt("idle") /\ state = "connected"
    /\ state' = "closed" /\ Drops(cur, "idle")
    /\ UNCHANGED <<requested, batch, retry, sends, opened, packets, queues, pend, ghosts>>

(***************************************************************************)

Polling == \/ Attach \/ AttachOut \/ StartWait \/ Fetch \/ WaitReturns
           \/ Dispatch \/ SkipEvent \/ DispatchDangling \/ DispatchDone
           \/ ReadEnds \/ ReadBlocks \/ ReadSome

Packet == \E s \in Socks :
    \/ SynAckArrives(s) \/ ConnectionRefused(s) \/ ConnectTimesOut(s)
    \/ DataArrives(s) \/ FinArrives(s) \/ ResetArrives(s) \/ AckArrives(s) \/ ConnectionLost(s)

Next ==
    \/ Connect \/ Reconnect \/ ConnectThrows \/ Polling \/ Send \/ SendFails \/ Close
    \/ FlushEpollEvents \/ Packet
    \/ \E t \in {"app", "stack"} : Store(t)

Spec == Init /\ [][Next]_vars

\* Both threads spin: the application polls and the stack flushes without ever
\* blocking.  What the network and the timers do is up to them.
FairSpec ==
    /\ Spec
    /\ WF_vars(Polling) /\ WF_vars(FlushEpollEvents)
    /\ WF_vars(Store("app")) /\ WF_vars(Store("stack"))

(***************************************************************************)

EntriesOf(s, ev) ==
    LET all == mtcpq.q \o usrq \o shadowq
    IN  Cardinality({i \in DOMAIN all : all[i] = [sock |-> s, ev |-> ev]})

\* A bit of socket->events is set exactly while one event of that kind is in
\* one of the three queues, so no event is queued twice and none is refused
\* with nothing queued, as long as no update of the word overlapped one of the
\* other thread.
QueuedOnce ==
    ~raced => \A s \in Socks, ev \in Events :
        smap[s].used /\ s \notin {pend["app"].sock, pend["stack"].sock}
            => EntriesOf(s, ev) = IF ev \in smap[s].events THEN 1 ELSE 0

\* A live connection has a registered socket of its own, a closed one has none,
\* and a connection that was cut keeps its socket only when it was send that
\* noticed.
OwnsSocket ==
    /\ state \in {"connecting", "connected"} /\ pc # "terminated"
           => cur # None /\ smap[cur].used /\ smap[cur].epoll
    /\ state = "closed" => cur = None
    /\ state = "disconnect" /\ cur # None => sendfailed

\* Only a handshake that failed leaves a socket registered behind the
\* connection's back, and without such a socket, or an event queued twice, no
\* event acts on the connection through a freed poll_state.
StaleEventsNeedFailure ==
    /\ dangled => raced \/ \E s \in Socks : smap[s].epoll /\ s # cur
    /\ ~dangled => \A s \in Socks : smap[s].epoll /\ s # cur => smap[s].reason # "NOT_CLOSED"

\* A connection calls itself connected only once the three-way handshake is
\* over, and none of its handlers throws, unless a stale event ran them: what
\* is left to end the process is a connect for which nothing is left.
ConnectedMeansEstablished ==
    ~dangled => /\ pc # "terminated"
                /\ state = "connected" => smap[cur].tcp # "SYN_SENT"

\* A connection that the application closed is never opened, cut or failed
\* again by an event or a reconnect that was still on its way.
ClosedForGood == [][state = "closed" => state' = "closed"]_vars

Unread == state = "connected" /\ cur # None
          /\ (smap[cur].tcp = "CLOSE_WAIT" \/ smap[cur].merged_len > 0)
Masked == mtcpq.q # <<>> /\ EventQueLen(mtcpq) = 0

\* Data and the close of the peer are read in the end.  Three things alone keep
\* them from the application: overlapping updates of socket->events, the handshake
\* using up the read event, and a length of mtcp_queue that EventQueLen takes
\* for 0 until another event comes.
InputIsRead == <>[](Unread /\ ~raced /\ ~eaten) => <>[]Masked

================================================================================
