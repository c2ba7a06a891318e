-------------------------- MODULE PosixConnProof --------------------------
(***************************************************************************)
(* For every set of connections: the connection gauge is exact, a live     *)
(* connection stays watched, no wakeup is lost, and reconnects are pending *)
(* for broken connections only.                                            *)
(***************************************************************************)
EXTENDS PosixConn, FiniteSetTheorems, TLAPS

\* A read of c now would not return EAGAIN; only handle_read can end this.
Readable(c) == c \in rx \/ link[c] \in {"fin", "refused", "dead", "reset"}

\* What holds of one connection: its descriptor against its state, ...
DescriptorOK(c) ==
    /\ c \notin pfd => requested[c] = {} /\ registered[c] = {}
    /\ state[c] \in {"connecting", "failed"} => c \in pfd
    /\ state[c] \in {"invalid", "disconnect", "closed"} => c \notin pfd
    /\ c \in rx => link[c] \in {"up", "fin"}
    /\ state[c] = "connecting" =>
         c \in room /\ requested[c] = Events /\ registered[c] = Events /\ ~Busy(c)
    /\ reconnects[c] > 0 => state[c] \notin {"invalid", "connecting"} /\ c \notin Up

\* ... its events while poll is elsewhere and while poll is busy with it, ...
EventsOK(c) ==
    /\ ~Busy(c) => requested[c] \subseteq registered[c]
    /\ ~Busy(c) /\ c \in Up => EPOLLIN \in requested[c]
    /\ Busy(c) => requested[c] \subseteq registered[c] \ cur.remove
    /\ Busy(c) /\ c \in Up =>
         /\ EPOLLIN \in registered[c] \ cur.remove
         /\ EPOLLIN \in requested[c] \/ (pc = "read" /\ Readable(c))

\* ... and what epoll_wait reported of it, which stays true until poll comes to it.
BatchOK(c) ==
    /\ c \in DOMAIN batch =>
         /\ c \in pfd /\ ~Busy(c)
         /\ state[c] = "connecting" => EPOLLOUT \in batch[c]
         /\ EPOLLIN \in batch[c] => Readable(c)
    /\ Busy(c) /\ pc = "in" /\ c \in pfd /\ EPOLLIN \in cur.events => Readable(c)
    /\ Busy(c) /\ pc = "read" => c \in pfd

CurRec == [conn : Conns, events : SUBSET Events, remove : SUBSET Events]

PollerOK ==
    /\ pc \in {"in", "read", "remove"} => cur \in CurRec
    /\ pc \in {"tick", "poll", "exit", "done"} => DOMAIN batch = {}
    /\ pc \in {"exit", "done"} => stopping

ConnInv ==
    /\ TypeOK
    /\ PollerOK
    /\ \A c \in Conns : DescriptorOK(c) /\ EventsOK(c) /\ BatchOK(c)
    /\ ConnectedIsExact

----------------------------------------------------------------------------
(* The counter: stats.connected is 64 bits wide, the connections are fewer. *)

\* A value a 64-bit counter can hold is not changed by its width.
LEMMA WrapInRange ==
    ASSUME NEW n \in 0..(Word - 1)
    PROVE  Wrap(n) = n
BY WordAssumption DEF Wrap

\* A set of connections is finite and smaller than the counter's range.
LEMMA SmallSet ==
    ASSUME NEW S \in SUBSET Conns
    PROVE  IsFiniteSet(S) /\ Cardinality(S) \in 0..(Word - 1)
<1>1. IsFiniteSet(S) /\ Cardinality(S) <= Cardinality(Conns)
  BY Zenon, ConnsAssumption, FS_Subset
<1>2. Cardinality(S) \in Nat /\ Cardinality(Conns) \in Nat
  BY Zenon, <1>1, ConnsAssumption, FS_CardinalityType
<1> QED BY <1>1, <1>2, WordAssumption

\* The counter can hold zero.
LEMMA WordPositive == Word \in Nat /\ Word > 0
<1>1. Cardinality(Conns) \in Nat
  BY Zenon, ConnsAssumption, FS_CardinalityType
<1> QED BY <1>1, WordAssumption

\* Counting a connection that comes up.
LEMMA CountUp ==
    ASSUME NEW S \in SUBSET Conns, NEW c \in Conns, c \notin S
    PROVE  Wrap(Cardinality(S) + 1) = Cardinality(S \cup {c})
<1>1. Cardinality(S \cup {c}) = Cardinality(S) + 1
  BY Zenon, SmallSet, FS_AddElement
<1>2. S \cup {c} \in SUBSET Conns
  BY Zenon
<1> QED BY Zenon, <1>1, <1>2, SmallSet, WrapInRange

\* Counting a connection that goes down.
LEMMA CountDown ==
    ASSUME NEW S \in SUBSET Conns, NEW c \in S
    PROVE  Wrap(Cardinality(S) - 1) = Cardinality(S \ {c})
<1>1. Cardinality(S \ {c}) = Cardinality(S) - 1
  BY Zenon, SmallSet, FS_RemoveElement
<1>2. S \ {c} \in SUBSET Conns
  BY Zenon
<1> QED BY Zenon, <1>1, <1>2, SmallSet, WrapInRange

----------------------------------------------------------------------------
(* One lemma per action. *)

\* The kernel changes only its own side, and never takes readiness away.
LEMMA KernelStep ==
    ASSUME ConnInv, NEW c \in Conns, Kernel(c)
    PROVE  ConnInv'
<1> USE DEF ConnInv
<1>1. TypeOK'
  BY Zenon DEF TypeOK, Kernel, Answer, PeerSend, PeerClose, PeerReset, Drain, Link, conn, client, poller, ending
<1>2. PollerOK'
  BY Zenon DEF PollerOK, Kernel, poller, ending
<1>3. ASSUME NEW d \in Conns
      PROVE  DescriptorOK(d)' /\ EventsOK(d)' /\ BatchOK(d)'
  <2>1. (Readable(d) => Readable(d)') /\ (d \in rx' => link'[d] \in {"up", "fin"})
        /\ (d \in room => d \in room')
    BY Zenon, <1>3 DEF Kernel, Answer, PeerSend, PeerClose, PeerReset, Drain, Readable, DescriptorOK, TypeOK, Link
  <2>2. UNCHANGED <<state, pfd, requested, registered, reconnects, batch, cur, pc>>
    BY Zenon DEF Kernel, conn, client, poller
  <2> QED BY Zenon, <1>3, <2>1, <2>2 DEF DescriptorOK, EventsOK, BatchOK, Busy, Up
<1>4. ConnectedIsExact'
  BY Zenon DEF ConnectedIsExact, Up, Kernel, conn, client, ending
<1> QED BY Zenon, <1>1, <1>2, <1>3, <1>4

\* connect and reconnect attach a descriptor to a connection that is not up.
LEMMA AttachStep ==
    ASSUME ConnInv, NEW c \in Conns, Connect(c) \/ Reconnect(c)
    PROVE  ConnInv'
<1> USE DEF ConnInv
<1>1. PICK l \in {"syn", "unconnected"} : Attach(c, l)
  BY Zenon DEF Connect, Reconnect
<1>2. pc = "tick" /\ c \notin Up /\ UNCHANGED <<batch, cur, pc>> /\ DOMAIN batch = {}
  BY Zenon DEF Connect, Reconnect, PollerOK, DescriptorOK, Up, poller
<1>3. /\ reconnects' \in [Conns -> 0..1]
      /\ reconnects'[c] = 0
      /\ \A d \in Conns : d # c => reconnects'[d] = reconnects[d]
  BY DEF Connect, Reconnect, TypeOK, DescriptorOK
<1>4. (stopping' = stopping \/ stopping' = TRUE) /\ crashed' = crashed
  BY Zenon DEF Connect, Reconnect
<1>5. TypeOK'
  BY ZenonT(60), <1>1, <1>2, <1>3, <1>4 DEF TypeOK, Attach, State, Link, Events
<1>6. PollerOK'
  BY Zenon, <1>2 DEF PollerOK
<1>7. ASSUME NEW d \in Conns
      PROVE  DescriptorOK(d)' /\ EventsOK(d)' /\ BatchOK(d)'
  <2>1. CASE d = c
    BY <1>1, <1>2, <1>3, <2>1 DEF Attach, TypeOK, DescriptorOK, EventsOK, BatchOK, Busy, Up, Events
  <2>2. CASE d # c
    BY ZenonT(60), <1>1, <1>2, <1>3, <2>2 DEF Attach, TypeOK, DescriptorOK, EventsOK, BatchOK, Busy, Up, Readable
  <2> QED BY Zenon, <2>1, <2>2
<1>8. ConnectedIsExact'
  <2>1. Up' = Up /\ connected' = connected
    BY <1>1, <1>2 DEF Attach, Up, TypeOK
  <2> QED BY Zenon, <1>4, <2>1 DEF ConnectedIsExact
<1> QED BY Zenon, <1>5, <1>6, <1>7, <1>8

\* What a handshake does to a connection that is connecting: it fails, and a reconnect
\* is pending, or it succeeds and the connection is counted.
LEMMA HandshakeStep ==
    ASSUME ConnInv, NEW c \in Conns, state[c] = "connecting", NEW req \in SUBSET Events,
           Handshake(c, req)
    PROVE  /\ state' \in [Conns -> State] /\ link' \in [Conns -> Link]
           /\ requested' = [requested EXCEPT ![c] = req]
           /\ UNCHANGED <<pfd, registered, queued, rx, room>>
           /\ \A d \in Conns : d # c => state'[d] = state[d] /\ link'[d] = link[d]
           /\ state'[c] \in {"failed", "connected"}
           /\ Readable(c) => Readable(c)'
           /\ c \in rx => link'[c] \in {"up", "fin"}
           /\ listed' \in SUBSET Conns /\ connected' \in 0..(Word - 1)
           /\ reconnects' \in [Conns -> 0..1]
           /\ \A d \in Conns : d # c => reconnects'[d] = reconnects[d]
           /\ state'[c] = "connected" => reconnects'[c] = 0
           /\ connected = Cardinality(Up) => connected' = Cardinality(Up)'
<1> USE DEF ConnInv
<1>1. reconnects[c] = 0 /\ c \notin Up /\ c \in pfd /\ Up \in SUBSET Conns
  BY DEF TypeOK, DescriptorOK, Up
<1>2. Wrap(connected + 1) \in 0..(Word - 1)
  BY WordAssumption DEF TypeOK, Wrap
<1>3. CASE HandshakeFailed(c, req)
  <2>1. Up' = Up
    BY Zenon, <1>1, <1>3 DEF HandshakeFailed, Up, TypeOK
  <2> QED BY <1>1, <1>3, <2>1 DEF HandshakeFailed, TypeOK, State, Link, Readable, DescriptorOK
<1>4. CASE HandshakeDone(c, req)
  <2>1. Up' = Up \cup {c}
    BY <1>1, <1>4 DEF HandshakeDone, Up, TypeOK
  <2>2. connected = Cardinality(Up) => connected' = Cardinality(Up)'
    BY Zenon, <1>1, <1>4, <2>1, CountUp DEF HandshakeDone
  <2> QED BY Zenon, <1>1, <1>2, <1>4, <2>2 DEF HandshakeDone, kernel, TypeOK, State, Readable, DescriptorOK
<1> QED BY Zenon, <1>3, <1>4 DEF Handshake

\* What cleanup does to a connection that is up.
LEMMA CleanupStep ==
    ASSUME ConnInv, NEW c \in Up, NEW s \in {"connected", "disconnect"}, Cleanup(c, s)
    PROVE  /\ state' = [state EXCEPT ![c] = s]
           /\ pfd' = pfd \ {c} /\ rx' = rx \ {c} /\ room' = room \cup {c} /\ queued' = queued
           /\ requested' = [requested EXCEPT ![c] = {}]
           /\ registered' = [registered EXCEPT ![c] = {}]
           /\ link' = [link EXCEPT ![c] = "none"]
           /\ listed' = listed /\ connected' \in 0..(Word - 1)
           /\ reconnects' = [reconnects EXCEPT ![c] = 1]
           /\ connected = Cardinality(Up) => connected' = Cardinality(Up)'
<1> USE DEF ConnInv
<1>1. c \in Conns /\ reconnects[c] = 0 /\ Up \in SUBSET Conns
  BY DEF TypeOK, DescriptorOK, Up
<1>2. Up' = Up \ {c}
  BY Zenon, <1>1 DEF Cleanup, Detach, Up, TypeOK
<1>3. connected = Cardinality(Up) => connected' = Cardinality(Up)'
  BY Zenon, <1>1, <1>2, CountDown DEF Cleanup
<1>4. Wrap(connected - 1) \in 0..(Word - 1)
  BY WordAssumption DEF TypeOK, Wrap
<1>5. /\ requested' = [requested EXCEPT ![c] = {}]
      /\ registered' = [registered EXCEPT ![c] = {}]
      /\ link' = [link EXCEPT ![c] = "none"]
  BY Zenon, <1>1 DEF Cleanup, Detach, TypeOK
<1>6. reconnects' = [reconnects EXCEPT ![c] = 1]
  BY <1>1 DEF Cleanup, TypeOK
<1>7. /\ state' = [state EXCEPT ![c] = s] /\ listed' = listed
      /\ pfd' = pfd \ {c} /\ rx' = rx \ {c} /\ room' = room \cup {c} /\ queued' = queued
  BY Zenon DEF Cleanup, Detach
<1> QED BY Zenon, <1>3, <1>4, <1>5, <1>6, <1>7 DEF Cleanup

\* What send_packet leaves of a connection that stays up: it only asks for more events,
\* and registers what it asks for.
Sent(c, req) ==
    /\ \E r, g \in SUBSET Events :
         /\ req \subseteq r /\ r \subseteq g /\ registered[c] \subseteq g
         /\ requested' = [requested EXCEPT ![c] = r]
         /\ registered' = [registered EXCEPT ![c] = g]
    /\ room' \in SUBSET Conns /\ \A d \in Conns : d # c => (d \in room => d \in room')
    /\ queued' \in SUBSET Conns
    /\ UNCHANGED <<state, pfd, link, rx, listed, connected, reconnects>>

\* send_packet on a connection that is up leaves it so, or cleans it up.
LEMMA SendStep ==
    ASSUME ConnInv, NEW c \in Up, NEW req \in SUBSET Events, req \subseteq registered[c],
           SendPacket(c, req)
    PROVE  Sent(c, req) \/ Cleanup(c, "disconnect")
<1> USE DEF ConnInv
<1>0. c \in Conns /\ registered[c] \in SUBSET Events /\ registered \in [Conns -> SUBSET Events]
      /\ room \in SUBSET Conns /\ queued \in SUBSET Conns
  BY Zenon DEF TypeOK, Up
<1>1. CASE SendAll(c, req)
  <2>1. /\ req \cup {EPOLLIN} \in SUBSET Events
        /\ registered[c] \cup {EPOLLIN} \in SUBSET Events
    BY Zenon, <1>0 DEF Events
  <2>2. /\ requested' = [requested EXCEPT ![c] = req \cup {EPOLLIN}]
        /\ registered' = [registered EXCEPT ![c] = registered[c] \cup {EPOLLIN}]
    BY Zenon, <1>0, <1>1 DEF SendAll, Update
  <2>3. room' \in SUBSET Conns /\ \A d \in Conns : d # c => (d \in room => d \in room')
    BY Zenon, <1>0, <1>1 DEF SendAll
  <2>4. UNCHANGED <<state, pfd, queued, link, rx, listed, connected, reconnects>>
    BY Zenon, <1>1 DEF SendAll, client
  <2> QED BY Zenon, <1>0, <2>1, <2>2, <2>3, <2>4 DEF Sent
<1>2. CASE SendPart(c, req)
  <2>1. /\ requested' = [requested EXCEPT ![c] = req]
        /\ registered' = [registered EXCEPT ![c] = registered[c]]
    BY Zenon, <1>0, <1>2 DEF SendPart
  <2>2. room' \in SUBSET Conns /\ \A d \in Conns : d # c => (d \in room => d \in room')
    BY Zenon, <1>0, <1>2 DEF SendPart
  <2>3. UNCHANGED <<state, pfd, queued, link, rx, listed, connected, reconnects>>
    BY Zenon, <1>2 DEF SendPart, client
  <2> QED BY Zenon, <1>0, <2>1, <2>2, <2>3 DEF Sent
<1>3. CASE SendNone(c, req)
  <2>1. /\ req \cup {EPOLLOUT} \in SUBSET Events
        /\ registered[c] \cup {EPOLLOUT} \in SUBSET Events
    BY Zenon, <1>0 DEF Events
  <2>2. /\ requested' = [requested EXCEPT ![c] = req \cup {EPOLLOUT}]
        /\ registered' = [registered EXCEPT ![c] = registered[c] \cup {EPOLLOUT}]
    BY Zenon, <1>0, <1>3 DEF SendNone, Update
  <2>3. queued' \in SUBSET Conns
    BY Zenon, <1>0, <1>3 DEF SendNone
  <2>4. UNCHANGED <<state, pfd, link, rx, room, listed, connected, reconnects>>
    BY Zenon, <1>3 DEF SendNone, client, kernel
  <2> QED BY Zenon, <1>0, <2>1, <2>2, <2>3, <2>4 DEF Sent
<1>4. CASE SendError(c)
  BY Zenon, <1>4 DEF SendError
<1> QED BY Zenon, <1>1, <1>2, <1>3, <1>4 DEF SendPacket

\* epoll_wait reports connections that have a descriptor, and what it reports is so.
LEMMA WaitStep ==
    ASSUME ConnInv, Wait
    PROVE  ConnInv'
<1> USE DEF ConnInv
<1> DEFINE ready == {c \in Conns : Ready(c) \cap registered[c] # {}}
<1>0. /\ pc = "poll" /\ UNCHANGED <<state, pfd, requested, registered, queued, link, rx, room>>
      /\ UNCHANGED <<listed, connected, reconnects, cur, dangling, stopping>>
      /\ crashed' \in BOOLEAN
  BY Zenon DEF Wait, conn, kernel, client
<1>1. batch' = [c \in ready |-> Ready(c) \cap registered[c]]
  BY Zenon DEF Wait
<1>2. /\ pc' \in {"tick", "exit", "loop"} /\ (pc' # "loop" => DOMAIN batch' = {})
      /\ pc' = "exit" => stopping
  BY Zenon, <1>1 DEF Wait, LoopTop
<1>3. TypeOK'
  <2>1. DOMAIN batch' \in SUBSET Conns /\ \A c \in DOMAIN batch' : batch'[c] \in SUBSET Events
    BY Zenon, <1>1 DEF Ready
  <2> QED BY Zenon, <1>0, <1>2, <2>1 DEF TypeOK
<1>4. PollerOK'
  BY Zenon, <1>0, <1>2 DEF PollerOK
<1>5. ASSUME NEW d \in Conns
      PROVE  DescriptorOK(d)' /\ EventsOK(d)' /\ BatchOK(d)'
  <2>1. ~Busy(d) /\ ~Busy(d)'
    BY Zenon, <1>0, <1>2 DEF Busy
  <2>2. DescriptorOK(d)' /\ EventsOK(d)'
    BY Zenon, <1>0, <1>5, <2>1 DEF DescriptorOK, EventsOK, Up
  <2>3. BatchOK(d)'
    <3>1. SUFFICES ASSUME d \in ready
                   PROVE  /\ d \in pfd
                          /\ state[d] = "connecting" => EPOLLOUT \in Ready(d) \cap registered[d]
                          /\ EPOLLIN \in Ready(d) => Readable(d)
      BY Zenon, <1>0, <1>1, <2>1 DEF BatchOK, Readable
    <3>2. d \in pfd
      BY Zenon, <1>5, <3>1 DEF DescriptorOK
    <3>3. EPOLLIN \in Ready(d) => Readable(d)
      BY Zenon DEF Ready, Readable, EPOLLIN, EPOLLOUT
    <3>4. state[d] = "connecting" => EPOLLOUT \in Ready(d) \cap registered[d]
      BY Zenon, <1>5, <3>1 DEF Ready, DescriptorOK, Events, EPOLLIN, EPOLLOUT
    <3> QED BY Zenon, <3>2, <3>3, <3>4
  <2> QED BY Zenon, <2>2, <2>3
<1>6. ConnectedIsExact'
  BY Zenon, <1>0 DEF ConnectedIsExact, Up
<1> QED BY Zenon, <1>3, <1>4, <1>5, <1>6

\* The read callback begins: it has something to read, because epoll_wait said so.
LEMMA CompleteInStep ==
    ASSUME ConnInv, NEW c \in Conns, CompleteIn(c)
    PROVE  ConnInv'
<1> USE DEF ConnInv
<1>0. /\ pc = "in" /\ cur.conn = c /\ cur \in CurRec /\ Busy(c)
      /\ UNCHANGED <<batch, cur, dangling, stopping>> /\ crashed' \in BOOLEAN
      /\ pc' \in {"read", "remove"} /\ (pc' = "read" => c \in pfd /\ EPOLLIN \in cur.events)
  BY Zenon DEF CompleteIn, PollerOK, Busy, TypeOK
<1>1. /\ \A d \in Conns : (Busy(d) <=> d = c) /\ (Busy(d)' <=> d = c)
      /\ state[c] # "connecting"
      /\ requested[c] \subseteq registered[c] \ cur.remove
      /\ c \in Up => EPOLLIN \in requested[c]
  BY Zenon, <1>0 DEF Busy, DescriptorOK, EventsOK
<1>2. /\ \/ requested' = requested
         \/ requested' = [requested EXCEPT ![c] = @ \ {EPOLLIN}] /\ pc' = "read"
      /\ UNCHANGED <<state, pfd, registered, queued, link, rx, room, listed, connected, reconnects>>
  BY ZenonT(60), <1>1 DEF CompleteIn, conn, kernel, client
<1>3. TypeOK'
  BY <1>0, <1>2 DEF TypeOK, CurRec
<1>4. PollerOK'
  BY Zenon, <1>0 DEF PollerOK
<1>5. ASSUME NEW d \in Conns
      PROVE  DescriptorOK(d)' /\ EventsOK(d)' /\ BatchOK(d)'
  <2>1. CASE d = c
    BY <1>0, <1>1, <1>2, <2>1 DEF DescriptorOK, EventsOK, BatchOK, Up, Readable, TypeOK, Busy
  <2>2. CASE d # c
    <3>1. requested'[d] = requested[d]
      BY Zenon, <1>2, <2>2 DEF TypeOK
    <3> QED BY Zenon, <1>0, <1>1, <1>2, <1>5, <2>2, <3>1 DEF DescriptorOK, EventsOK, BatchOK, Up, Readable
  <2> QED BY Zenon, <2>1, <2>2
<1>6. ConnectedIsExact'
  BY Zenon, <1>0, <1>2 DEF ConnectedIsExact, Up
<1> QED BY Zenon, <1>3, <1>4, <1>5, <1>6

\* The read loop ends on EAGAIN only after a read that asked for the next event.
LEMMA ReadNothingStep ==
    ASSUME ConnInv, NEW c \in Conns, ReadNothing(c)
    PROVE  ConnInv'
<1> USE DEF ConnInv
<1>0. /\ pc = "read" /\ cur.conn = c /\ cur \in CurRec /\ pc' = "remove" /\ UNCHANGED <<batch, cur>>
      /\ UNCHANGED <<state, pfd, requested, registered, queued, link, rx, room>>
      /\ UNCHANGED <<listed, connected, reconnects, dangling, stopping, crashed>>
  BY Zenon DEF ReadNothing, PollerOK, conn, kernel, client, ending
<1>1. \A d \in Conns : (Busy(d) <=> d = c) /\ (Busy(d)' <=> d = c)
  BY Zenon, <1>0 DEF Busy
<1>2. TypeOK' /\ PollerOK'
  BY Zenon, <1>0 DEF TypeOK, PollerOK
<1>3. ASSUME NEW d \in Conns
      PROVE  DescriptorOK(d)' /\ EventsOK(d)' /\ BatchOK(d)'
  <2>1. c \in Up => EPOLLIN \in requested[c]
    BY Zenon, <1>1 DEF ReadNothing, EventsOK, Readable, Up
  <2> QED BY Zenon, <1>0, <1>1, <1>3, <2>1 DEF DescriptorOK, EventsOK, BatchOK, Up, Readable
<1>4. ConnectedIsExact'
  BY Zenon, <1>0 DEF ConnectedIsExact, Up
<1> QED BY Zenon, <1>2, <1>3, <1>4

\* Every successful read asks for the next event.
LEMMA ReadBytesStep ==
    ASSUME ConnInv, NEW c \in Conns, ReadBytes(c)
    PROVE  ConnInv'
<1> USE DEF ConnInv
<1>0. /\ pc = "read" /\ cur.conn = c /\ cur \in CurRec /\ UNCHANGED <<batch, cur, pc>>
      /\ UNCHANGED <<state, pfd, queued, link, room, listed, connected, reconnects>>
      /\ UNCHANGED <<dangling, stopping, crashed>>
      /\ rx' = rx \ {c} /\ state[c] = "connected"
      /\ requested' = [requested EXCEPT ![c] = requested[c] \cup {EPOLLIN}]
      /\ registered' = [registered EXCEPT ![c] = registered[c] \cup {EPOLLIN}]
  BY Zenon DEF ReadBytes, Update, PollerOK, client, poller, ending, TypeOK
<1>1. \A d \in Conns : (Busy(d) <=> d = c) /\ (Busy(d)' <=> d = c)
  BY Zenon, <1>0 DEF Busy
<1>2. TypeOK' /\ PollerOK'
  BY Zenon, <1>0 DEF TypeOK, PollerOK, Events
<1>3. ASSUME NEW d \in Conns
      PROVE  DescriptorOK(d)' /\ EventsOK(d)' /\ BatchOK(d)'
  <2>1. CASE d = c
    <3>1. c \in pfd
      BY Zenon, <1>0, <1>1 DEF BatchOK
    <3>2. BatchOK(c)'
      BY <1>0, <1>1, <3>1 DEF BatchOK
    <3>3. DescriptorOK(c)'
      BY <1>0, <1>1, <3>1 DEF DescriptorOK, Up, TypeOK
    <3>4. EventsOK(c)'
      BY <1>0, <1>1, <3>1 DEF EventsOK, Up, TypeOK
    <3> QED BY Zenon, <2>1, <3>2, <3>3, <3>4
  <2>2. CASE d # c
    BY ZenonT(60), <1>0, <1>1, <1>3, <2>2 DEF DescriptorOK, EventsOK, BatchOK, Up, Readable, TypeOK
  <2> QED BY Zenon, <2>1, <2>2
<1>4. ConnectedIsExact'
  BY Zenon, <1>0 DEF ConnectedIsExact, Up
<1> QED BY Zenon, <1>2, <1>3, <1>4

\* The read callback finds the end of the stream or an error and cleans up.
LEMMA ReadEndStep ==
    ASSUME ConnInv, NEW c \in Conns, ReadEof(c) \/ ReadError(c)
    PROVE  ConnInv'
<1> USE DEF ConnInv
<1>0. /\ pc = "read" /\ cur.conn = c /\ cur \in CurRec /\ pc' = "remove" /\ UNCHANGED <<batch, cur>>
      /\ UNCHANGED <<dangling, stopping, crashed>> /\ state[c] = "connected"
  BY Zenon DEF ReadEof, ReadError, PollerOK, ending
<1>1. \A d \in Conns : (Busy(d) <=> d = c) /\ (Busy(d)' <=> d = c)
  BY Zenon, <1>0 DEF Busy
<1>2. c \in Up
  BY Zenon, <1>0, <1>1 DEF BatchOK, Up
<1>3. PICK s \in {"connected", "disconnect"} : Cleanup(c, s)
  BY Zenon, <1>0 DEF ReadEof, ReadError
<1>4. /\ state' = [state EXCEPT ![c] = s]
      /\ pfd' = pfd \ {c} /\ rx' = rx \ {c} /\ room' = room \cup {c} /\ queued' = queued
      /\ requested' = [requested EXCEPT ![c] = {}]
      /\ registered' = [registered EXCEPT ![c] = {}]
      /\ link' = [link EXCEPT ![c] = "none"]
      /\ listed' = listed /\ connected' \in 0..(Word - 1)
      /\ reconnects' = [reconnects EXCEPT ![c] = 1]
      /\ connected = Cardinality(Up) => connected' = Cardinality(Up)'
  BY Zenon, <1>2, <1>3, CleanupStep
<1>5. TypeOK' /\ PollerOK'
  BY <1>0, <1>4 DEF TypeOK, PollerOK, State, Link
<1>6. ASSUME NEW d \in Conns
      PROVE  DescriptorOK(d)' /\ EventsOK(d)' /\ BatchOK(d)'
  <2>1. CASE d = c
    BY ZenonT(60), <1>0, <1>1, <1>4, <2>1 DEF DescriptorOK, EventsOK, BatchOK, Up, TypeOK
  <2>2. CASE d # c
    BY ZenonT(60), <1>0, <1>1, <1>4, <1>6, <2>2 DEF DescriptorOK, EventsOK, BatchOK, Up, Readable, TypeOK
  <2> QED BY Zenon, <2>1, <2>2
<1>7. ConnectedIsExact'
  BY Zenon, <1>0, <1>4 DEF ConnectedIsExact
<1> QED BY Zenon, <1>5, <1>6, <1>7

\* What poll takes out of the epoll set is never an event that was asked for.
LEMMA RemoveStep ==
    ASSUME ConnInv, NEW c \in Conns, Remove(c)
    PROVE  ConnInv'
<1> USE DEF ConnInv
<1>0. /\ pc = "remove" /\ cur.conn = c /\ cur \in CurRec /\ UNCHANGED <<batch, dangling, stopping>>
      /\ pc' \in {"tick", "exit", "loop"} /\ (pc' # "loop" => DOMAIN batch = {})
      /\ (pc' = "exit" => stopping)
      /\ cur' = None /\ crashed' \in BOOLEAN
      /\ registered' = [registered EXCEPT ![c] = registered[c] \ cur.remove]
      /\ UNCHANGED <<state, pfd, requested, queued, link, rx, room, listed, connected, reconnects>>
  BY ZenonT(60) DEF Remove, PollerOK, LoopTop, kernel, client, TypeOK
<1>1. \A d \in Conns : (Busy(d) <=> d = c) /\ ~Busy(d)'
  BY ZenonT(60), <1>0 DEF Busy
<1>2. TypeOK' /\ PollerOK'
  BY Zenon, <1>0 DEF TypeOK, PollerOK
<1>3. ASSUME NEW d \in Conns
      PROVE  DescriptorOK(d)' /\ EventsOK(d)' /\ BatchOK(d)'
  <2>1. CASE d = c
    BY ZenonT(60), <1>0, <1>1, <2>1 DEF DescriptorOK, EventsOK, BatchOK, Up, TypeOK
  <2>2. CASE d # c
    BY ZenonT(60), <1>0, <1>1, <1>3, <2>2 DEF DescriptorOK, EventsOK, BatchOK, Up, Readable, TypeOK
  <2> QED BY Zenon, <2>1, <2>2
<1>4. ConnectedIsExact'
  BY Zenon, <1>0 DEF ConnectedIsExact, Up
<1> QED BY Zenon, <1>2, <1>3, <1>4

\* do_req sends on a connection that is up, or dies on one that only says so.
LEMMA RequestStep ==
    ASSUME ConnInv, NEW c \in Conns, Request(c)
    PROVE  ConnInv'
<1> USE DEF ConnInv
<1>0. /\ pc = "tick" /\ UNCHANGED <<batch, cur, pc, dangling, stopping>> /\ DOMAIN batch = {}
      /\ \A d \in Conns : ~Busy(d) /\ ~Busy(d)'
      /\ state[c] = "connected" /\ crashed' \in BOOLEAN
  BY ZenonT(60) DEF Request, PollerOK, Busy, poller, TypeOK
<1>1. CASE UNCHANGED <<conn, kernel, client>>
  <2>1. UNCHANGED <<state, pfd, requested, registered, queued, link, rx, room, listed, connected, reconnects>>
    BY Zenon, <1>1 DEF conn, kernel, client
  <2>2. TypeOK' /\ PollerOK'
    BY ZenonT(60), <1>0, <2>1 DEF TypeOK, PollerOK
  <2>3. \A d \in Conns : DescriptorOK(d)' /\ EventsOK(d)' /\ BatchOK(d)'
    BY ZenonT(60), <1>0, <2>1 DEF DescriptorOK, EventsOK, BatchOK, Up, Readable
  <2> QED BY Zenon, <1>0, <2>1, <2>2, <2>3 DEF ConnectedIsExact, Up
<1>2. CASE c \in pfd /\ SendPacket(c, requested[c])
  <2>0. c \in Up /\ requested[c] \in SUBSET Events /\ requested[c] \subseteq registered[c]
        /\ EPOLLIN \in requested[c]
    BY Zenon, <1>0, <1>2 DEF Up, TypeOK, EventsOK
  <2>1. CASE Sent(c, requested[c])
    <3>1. PICK r, g \in SUBSET Events :
             /\ requested[c] \subseteq r /\ r \subseteq g
             /\ requested' = [requested EXCEPT ![c] = r]
             /\ registered' = [registered EXCEPT ![c] = g]
      BY Zenon, <2>1 DEF Sent
    <3>2. UNCHANGED <<state, pfd, link, rx, listed, connected, reconnects>>
          /\ room' \in SUBSET Conns /\ (\A d \in Conns : d # c => (d \in room => d \in room'))
          /\ queued' \in SUBSET Conns
      BY Zenon, <2>1 DEF Sent
    <3>3. TypeOK' /\ PollerOK'
      BY Zenon, <1>0, <3>1, <3>2 DEF TypeOK, PollerOK
    <3>4. ASSUME NEW d \in Conns
          PROVE  DescriptorOK(d)' /\ EventsOK(d)' /\ BatchOK(d)'
      <4>1. CASE d = c
        BY ZenonT(60), <1>0, <2>0, <3>1, <3>2, <4>1 DEF DescriptorOK, EventsOK, BatchOK, Up, TypeOK
      <4>2. CASE d # c
        BY ZenonT(60), <1>0, <3>1, <3>2, <3>4, <4>2 DEF DescriptorOK, EventsOK, BatchOK, Up, Readable, TypeOK
      <4> QED BY Zenon, <4>1, <4>2
    <3> QED BY Zenon, <1>0, <3>2, <3>3, <3>4 DEF ConnectedIsExact, Up
  <2>2. CASE Cleanup(c, "disconnect")
    <3>1. /\ state' = [state EXCEPT ![c] = "disconnect"]
          /\ pfd' = pfd \ {c} /\ rx' = rx \ {c} /\ room' = room \cup {c} /\ queued' = queued
          /\ requested' = [requested EXCEPT ![c] = {}]
          /\ registered' = [registered EXCEPT ![c] = {}]
          /\ link' = [link EXCEPT ![c] = "none"]
          /\ listed' = listed /\ connected' \in 0..(Word - 1)
          /\ reconnects' = [reconnects EXCEPT ![c] = 1]
          /\ connected = Cardinality(Up) => connected' = Cardinality(Up)'
      BY Zenon, <2>0, <2>2, CleanupStep
    <3>2. TypeOK' /\ PollerOK'
      BY <1>0, <3>1 DEF TypeOK, PollerOK, State, Link
    <3>3. ASSUME NEW d \in Conns
          PROVE  DescriptorOK(d)' /\ EventsOK(d)' /\ BatchOK(d)'
      <4>1. CASE d = c
        BY Zenon, <1>0, <3>1, <4>1 DEF DescriptorOK, EventsOK, BatchOK, Up, TypeOK
      <4>2. CASE d # c
        BY Zenon, <1>0, <3>1, <3>3, <4>2 DEF DescriptorOK, EventsOK, BatchOK, Up, Readable, TypeOK
      <4> QED BY Zenon, <4>1, <4>2
    <3> QED BY Zenon, <1>0, <3>1, <3>2, <3>3 DEF ConnectedIsExact
  <2> QED BY ZenonT(60), <1>2, <2>0, <2>1, <2>2, SendStep
<1> HIDE DEF ConnInv
<1> QED BY Zenon, <1>1, <1>2 DEF Request

\* Steps that touch no connection: an exception of reconnect, SIGPIPE, the end of tick, a
\* signal.
LEMMA OtherStep ==
    ASSUME ConnInv, (\E c \in Conns : ReconnectThrows(c) \/ BrokenPipe(c)) \/ EndTick \/ Signal
    PROVE  ConnInv'
<1> USE DEF ConnInv
<1>1. /\ UNCHANGED <<state, pfd, requested, registered, queued, link, rx, room, listed, connected>>
      /\ UNCHANGED <<reconnects, batch, cur, dangling>>
      /\ crashed' \in BOOLEAN /\ (stopping' = stopping \/ stopping' = TRUE)
      /\ \/ pc \in {"tick", "poll"} /\ pc' \in {"tick", "poll"}
         \/ pc = "loop" /\ pc' = "loop"
  BY Zenon DEF ReconnectThrows, BrokenPipe, EndTick, Signal, conn, kernel, client, poller, ending, TypeOK
<1>2. TypeOK'
  BY Zenon, <1>1 DEF TypeOK
<1>3. PollerOK' /\ \A d \in Conns : ~Busy(d) /\ ~Busy(d)'
  BY Zenon, <1>1 DEF PollerOK, Busy
<1>4. \A d \in Conns : DescriptorOK(d)' /\ EventsOK(d)' /\ BatchOK(d)'
  BY ZenonT(60), <1>1, <1>3 DEF DescriptorOK, EventsOK, BatchOK, Up, Readable
<1>5. ConnectedIsExact'
  BY <1>1 DEF ConnectedIsExact, Up
<1> QED BY Zenon, <1>2, <1>3, <1>4, <1>5

\* Closing connections at the end of the duration, or of run.
LEMMA CloseStep ==
    ASSUME ConnInv, Duration \/ Exit
    PROVE  ConnInv'
<1> USE DEF ConnInv
<1>0. /\ pc \in {"tick", "exit"} /\ pc' \in {"tick", "done"} /\ stopping' = TRUE
      /\ UNCHANGED <<batch, cur, dangling>> /\ DOMAIN batch = {}
      /\ \A d \in Conns : ~Busy(d) /\ ~Busy(d)'
  BY Zenon DEF Duration, Exit, poller, PollerOK, Busy
<1>1. PICK S \in SUBSET Conns : CloseAll(S)
  BY Zenon DEF Duration, Exit, TypeOK
<1> DEFINE open == {c \in S : state[c] \notin {"closed", "disconnect"}}
<1>2. PollerOK' /\ ConnectedIsExact'
  BY Zenon, <1>0 DEF PollerOK, ConnectedIsExact
<1>3. CASE crashed' = TRUE /\ UNCHANGED <<conn, kernel, client>>
  <2>1. UNCHANGED <<state, pfd, requested, registered, queued, link, rx, room, listed, connected, reconnects>>
    BY Zenon, <1>3 DEF conn, kernel, client
  <2>2. TypeOK'
    BY ZenonT(60), <1>0, <1>3, <2>1 DEF TypeOK
  <2>3. \A d \in Conns : DescriptorOK(d)' /\ EventsOK(d)' /\ BatchOK(d)'
    BY ZenonT(60), <1>0, <2>1 DEF DescriptorOK, EventsOK, BatchOK, Up, Readable
  <2> QED BY Zenon, <1>2, <2>2, <2>3
<1>4. CASE /\ state' = [c \in Conns |-> IF c \in open THEN "closed" ELSE state[c]]
           /\ Detach(open)
           /\ connected' = Wrap(connected - Cardinality(open))
           /\ UNCHANGED <<listed, reconnects, crashed>>
  <2>1. Wrap(connected - Cardinality(open)) \in 0..(Word - 1)
    <3>1. open \in SUBSET Conns
      BY Zenon
    <3> HIDE DEF open
    <3>2. PICK k \in Nat : k = Cardinality(open)
      BY <3>1, SmallSet, WordPositive
    <3>4. PICK m \in Nat : m = connected
      BY WordPositive DEF TypeOK
    <3>3. (m - k) % Word \in 0..(Word - 1)
      BY WordPositive
    <3> QED BY Zenon, <3>2, <3>3, <3>4 DEF Wrap
  <2>2. TypeOK'
    BY ZenonT(60), <1>0, <1>4, <2>1 DEF TypeOK, Detach, State, Link
  <2>3. ASSUME NEW d \in Conns
        PROVE  DescriptorOK(d)' /\ EventsOK(d)' /\ BatchOK(d)'
    BY Zenon, <1>0, <1>4, <2>3 DEF Detach, DescriptorOK, EventsOK, BatchOK, Up, Readable, TypeOK
  <2> QED BY Zenon, <1>2, <2>2, <2>3
<1> HIDE DEF ConnInv
<1> QED BY ZenonT(60), <1>1, <1>3, <1>4 DEF CloseAll


----------------------------------------------------------------------------
(* The write side of poll. *)

\* poll turns to an event of c: the write callback runs, if it was requested.
LEMMA CompleteOutStep ==
    ASSUME ConnInv, NEW c \in Conns, CompleteOut(c)
    PROVE  ConnInv'
<1> USE DEF ConnInv
<1>0. /\ pc = "loop" /\ c \in DOMAIN batch /\ pc' = "in"
      /\ batch' = [d \in DOMAIN batch \ {c} |-> batch[d]]
      /\ cur' = [conn |-> c, events |-> batch[c], remove |-> batch[c] \ requested[c]]
      /\ UNCHANGED <<dangling, stopping, crashed>>
  BY Zenon DEF CompleteOut, ending
<1>1. /\ batch[c] \in SUBSET Events /\ requested[c] \in SUBSET Events
      /\ cur'.conn = c /\ cur'.events = batch[c] /\ cur'.remove = batch[c] \ requested[c]
      /\ cur' \in CurRec
  BY Zenon, <1>0 DEF TypeOK, CurRec
<1>2. /\ \A d \in Conns : ~Busy(d) /\ (Busy(d)' <=> d = c)
      /\ DOMAIN batch' = DOMAIN batch \ {c}
      /\ \A d \in DOMAIN batch' : batch'[d] = batch[d]
  BY Zenon, <1>0, <1>1 DEF Busy
<1>3. PollerOK'
  BY Zenon, <1>0, <1>1 DEF PollerOK
<1>4. /\ requested[c] \subseteq registered[c] /\ c \in pfd
      /\ c \in Up => EPOLLIN \in requested[c]
      /\ state[c] = "connecting" => EPOLLOUT \in batch[c] \cap requested[c]
                                    /\ EPOLLIN \in requested[c]
      /\ EPOLLIN \in batch[c] => Readable(c)
  BY Zenon, <1>0, <1>2 DEF EventsOK, BatchOK, DescriptorOK, Events
<1> DEFINE Rest(d) == /\ state'[d] = state[d] /\ link'[d] = link[d]
                      /\ (d \in pfd' <=> d \in pfd) /\ (d \in rx' <=> d \in rx)
                      /\ (d \in room => d \in room')
                      /\ requested'[d] = requested[d] /\ registered'[d] = registered[d]
                      /\ reconnects'[d] = reconnects[d]
<1>5. ASSUME NEW d \in Conns, d # c, Rest(d)
      PROVE  DescriptorOK(d)' /\ EventsOK(d)' /\ BatchOK(d)'
  BY Zenon, <1>0, <1>2, <1>5 DEF DescriptorOK, EventsOK, BatchOK, Up, Readable
<1>6. CASE UNCHANGED <<conn, kernel, client>> /\ EPOLLOUT \notin batch[c] \cap requested[c]
  <2>1. UNCHANGED <<state, pfd, requested, registered, queued, link, rx, room, listed, connected, reconnects>>
    BY Zenon, <1>6 DEF conn, kernel, client
  <2>2. TypeOK'
    BY ZenonT(60), <1>0, <1>1, <1>2, <2>1 DEF TypeOK, CurRec
  <2>3. DescriptorOK(c)' /\ EventsOK(c)' /\ BatchOK(c)'
    BY Zenon, <1>0, <1>1, <1>2, <1>4, <1>6, <2>1 DEF DescriptorOK, EventsOK, BatchOK, Up, Readable
  <2>4. ConnectedIsExact'
    BY ZenonT(60), <1>0, <2>1 DEF ConnectedIsExact, Up
  <2> QED BY ZenonT(60), <1>3, <1>5, <2>1, <2>2, <2>3, <2>4
<1> DEFINE req == requested[c] \ {EPOLLOUT}
<1>7. CASE EPOLLOUT \in batch[c] \cap requested[c] /\ state[c] = "connecting" /\ Handshake(c, req)
  <2>0. req \in SUBSET Events
    BY Zenon, <1>1
  <2>1. /\ state' \in [Conns -> State] /\ link' \in [Conns -> Link]
        /\ requested' = [requested EXCEPT ![c] = req]
        /\ UNCHANGED <<pfd, registered, queued, rx, room>>
        /\ \A d \in Conns : d # c => state'[d] = state[d] /\ link'[d] = link[d]
        /\ state'[c] \in {"failed", "connected"}
        /\ Readable(c) => Readable(c)'
        /\ c \in rx => link'[c] \in {"up", "fin"}
        /\ listed' \in SUBSET Conns /\ connected' \in 0..(Word - 1)
        /\ reconnects' \in [Conns -> 0..1]
        /\ \A d \in Conns : d # c => reconnects'[d] = reconnects[d]
        /\ state'[c] = "connected" => reconnects'[c] = 0
        /\ connected = Cardinality(Up) => connected' = Cardinality(Up)'
    BY ZenonT(60), <1>7, <2>0, HandshakeStep
  <2>2. TypeOK'
    BY Zenon, <1>0, <1>1, <1>2, <2>0, <2>1 DEF TypeOK, CurRec
  <2>3. DescriptorOK(c)' /\ EventsOK(c)' /\ BatchOK(c)'
    BY <1>0, <1>1, <1>2, <1>4, <1>7, <2>1
       DEF DescriptorOK, EventsOK, BatchOK, Up, TypeOK, EPOLLIN, EPOLLOUT
  <2>4. \A d \in Conns : d # c => Rest(d)
    BY Zenon, <2>1 DEF TypeOK
  <2>5. ConnectedIsExact'
    BY ZenonT(60), <1>0, <2>1 DEF ConnectedIsExact
  <2> QED BY ZenonT(60), <1>3, <1>5, <2>2, <2>3, <2>4, <2>5
<1>8. CASE EPOLLOUT \in batch[c] \cap requested[c] /\ state[c] = "connected" /\ SendPacket(c, req)
  <2>0. req \in SUBSET Events /\ req \subseteq registered[c] /\ c \in Up
    BY Zenon, <1>1, <1>4, <1>8 DEF Up
  <2>1. CASE Sent(c, req)
    <3>1. PICK r, g \in SUBSET Events :
             /\ req \subseteq r /\ r \subseteq g /\ registered[c] \subseteq g
             /\ requested' = [requested EXCEPT ![c] = r]
             /\ registered' = [registered EXCEPT ![c] = g]
      BY ZenonT(60), <2>1 DEF Sent
    <3>2. UNCHANGED <<state, pfd, link, rx, listed, connected, reconnects>>
          /\ room' \in SUBSET Conns /\ (\A d \in Conns : d # c => (d \in room => d \in room'))
          /\ queued' \in SUBSET Conns
      BY Zenon, <2>1 DEF Sent
    <3>3. TypeOK'
      BY ZenonT(60), <1>0, <1>1, <1>2, <3>1, <3>2 DEF TypeOK, CurRec
    <3>4. DescriptorOK(c)' /\ EventsOK(c)' /\ BatchOK(c)'
      <4>1. requested'[c] = r /\ registered'[c] = g
        BY Zenon, <3>1 DEF TypeOK
      <4>2. r \subseteq g \ cur'.remove /\ EPOLLIN \in r
        BY Zenon, <1>1, <1>4, <1>8, <2>0, <3>1 DEF Events, EPOLLIN, EPOLLOUT
      <4> QED BY Zenon, <1>0, <1>1, <1>2, <1>4, <1>8, <2>0, <3>1, <3>2, <4>1, <4>2
              DEF DescriptorOK, EventsOK, BatchOK, Up, Readable
    <3>5. \A d \in Conns : d # c => Rest(d)
      BY Zenon, <3>1, <3>2 DEF TypeOK
    <3>6. ConnectedIsExact'
      BY Zenon, <1>0, <3>2 DEF ConnectedIsExact, Up
    <3> QED BY Zenon, <1>3, <1>5, <3>3, <3>4, <3>5, <3>6
  <2>2. CASE Cleanup(c, "disconnect")
    <3>1. /\ state' = [state EXCEPT ![c] = "disconnect"]
          /\ pfd' = pfd \ {c} /\ rx' = rx \ {c} /\ room' = room \cup {c} /\ queued' = queued
          /\ requested' = [requested EXCEPT ![c] = {}]
          /\ registered' = [registered EXCEPT ![c] = {}]
          /\ link' = [link EXCEPT ![c] = "none"]
          /\ listed' = listed /\ connected' \in 0..(Word - 1)
          /\ reconnects' = [reconnects EXCEPT ![c] = 1]
          /\ connected = Cardinality(Up) => connected' = Cardinality(Up)'
      BY Zenon, <2>0, <2>2, CleanupStep
    <3>2. TypeOK'
      BY <1>0, <1>1, <1>2, <3>1 DEF TypeOK, CurRec, State, Link
    <3>3. DescriptorOK(c)' /\ EventsOK(c)' /\ BatchOK(c)'
      BY ZenonT(60), <1>0, <1>1, <1>2, <3>1 DEF DescriptorOK, EventsOK, BatchOK, Up, TypeOK
    <3>4. \A d \in Conns : d # c => Rest(d)
      BY ZenonT(60), <3>1 DEF TypeOK
    <3>5. ConnectedIsExact'
      BY ZenonT(60), <1>0, <3>1 DEF ConnectedIsExact
    <3> QED BY Zenon, <1>3, <1>5, <3>2, <3>3, <3>4, <3>5
  <2> QED BY ZenonT(60), <1>8, <2>0, <2>1, <2>2, SendStep
<1>9. CASE /\ EPOLLOUT \in batch[c] \cap requested[c] /\ state[c] # "connecting"
           /\ requested' = [requested EXCEPT ![c] = req]
           /\ UNCHANGED <<state, pfd, registered, queued, kernel, client>>
  <2>1. UNCHANGED <<state, pfd, registered, queued, link, rx, room, listed, connected, reconnects>>
    BY Zenon, <1>9 DEF kernel, client
  <2>2. TypeOK'
    BY ZenonT(60), <1>0, <1>1, <1>2, <1>9, <2>1 DEF TypeOK, CurRec
  <2>3. DescriptorOK(c)' /\ EventsOK(c)' /\ BatchOK(c)'
    BY ZenonT(60), <1>0, <1>1, <1>2, <1>4, <1>9, <2>1
       DEF DescriptorOK, EventsOK, BatchOK, Up, Readable, TypeOK, EPOLLIN, EPOLLOUT
  <2>4. \A d \in Conns : d # c => Rest(d)
    BY Zenon, <1>9, <2>1 DEF TypeOK
  <2>5. ConnectedIsExact'
    BY ZenonT(60), <1>0, <2>1 DEF ConnectedIsExact, Up
  <2> QED BY Zenon, <1>3, <1>5, <2>2, <2>3, <2>4, <2>5
<1> HIDE DEF ConnInv
<1> QED BY Zenon, <1>6, <1>7, <1>8, <1>9 DEF CompleteOut, HandleWrite

----------------------------------------------------------------------------
(* The theorems. *)

\* The invariant holds before the first connect.
LEMMA InitOK == Init => ConnInv
<1>1. SUFFICES ASSUME Init PROVE ConnInv
  BY Zenon
<1>2. TypeOK
  <2>1. /\ state \in [Conns -> State] /\ link \in [Conns -> Link]
        /\ requested \in [Conns -> SUBSET Events] /\ registered \in [Conns -> SUBSET Events]
        /\ reconnects \in [Conns -> 0..1]
    BY <1>1 DEF Init, State, Link
  <2>2. connected \in 0..(Word - 1)
    BY <1>1, WordPositive DEF Init
  <2>3. DOMAIN batch = {}
    BY Zenon, <1>1 DEF Init
  <2>4. {dangling, stopping, crashed} \subseteq BOOLEAN
    BY Zenon, <1>1 DEF Init
  <2> QED BY Zenon, <1>1, <2>1, <2>2, <2>3, <2>4 DEF Init, TypeOK
<1>3. Up = {} /\ Cardinality({}) = 0
  BY Zenon, <1>1, FS_EmptySet DEF Init, Up
<1>4. PollerOK
  BY Zenon, <1>1 DEF Init, PollerOK
<1>6. ConnectedIsExact
  BY Zenon, <1>1, <1>3 DEF Init, ConnectedIsExact
<1>5. \A c \in Conns : DescriptorOK(c) /\ EventsOK(c) /\ BatchOK(c)
  BY <1>1, <1>3 DEF Init, DescriptorOK, EventsOK, BatchOK, Busy
<1> QED BY Zenon, <1>2, <1>4, <1>5, <1>6 DEF ConnInv

\* The invariant holds of every behaviour of the reactor, its client and the kernel, for
\* every number of connections.
THEOREM ConnectionsInvariant == Spec => []ConnInv
<1>1. ConnInv /\ [Next]_vars => ConnInv'
  <2>1. SUFFICES ASSUME ConnInv, [Next]_vars PROVE ConnInv'
    BY Zenon
  <2>2. CASE UNCHANGED vars
    BY <2>1, <2>2 DEF ConnInv, TypeOK, PollerOK, ConnectedIsExact, DescriptorOK, EventsOK, BatchOK,
       Busy, Up, Readable, vars, conn, kernel, client, poller, ending
  <2>3. ASSUME NEW c \in Conns, Kernel(c) \/ Poll(c) \/ Task(c)
        PROVE  ConnInv'
    BY Zenon, <2>1, <2>3, KernelStep, CompleteOutStep, CompleteInStep, ReadNothingStep, ReadBytesStep,
       ReadEndStep, RemoveStep, AttachStep, RequestStep, OtherStep DEF Poll, Task
  <2> QED BY Zenon, <2>1, <2>2, <2>3, WaitStep, CloseStep, OtherStep DEF Next
<1> QED BY <1>1, InitOK, PTL DEF Spec

\* Types: in particular at most one reconnect task is pending for a connection.
THEOREM ConnectionTypes == Spec => []TypeOK
BY ConnectionsInvariant, PTL DEF ConnInv

\* The gauge the client reports is the number of connections that are up, until the
\* engine stops.
THEOREM GaugeExact == Spec => []ConnectedIsExact
BY ConnectionsInvariant, PTL DEF ConnInv

\* A connection that is up stays watched for its end (posix_connection.cc:106).
THEOREM AlwaysWatched == Spec => []WatchesPassiveClose
<1>1. ConnInv => WatchesPassiveClose
  BY Zenon DEF ConnInv, EventsOK, WatchesPassiveClose, Up, TypeOK
<1> QED BY <1>1, ConnectionsInvariant, PTL

\* No event a connection asked for is missing from the epoll set.
THEOREM WakeupsKept == Spec => []NoLostWakeup
<1>1. ConnInv => NoLostWakeup
  BY ZenonT(60) DEF ConnInv, EventsOK, NoLostWakeup
<1> QED BY <1>1, ConnectionsInvariant, PTL

\* Reconnect tasks are pending only for connections that are down.
THEOREM ReconnectsSound == Spec => []ReconnectsOnlyBroken
<1>1. ConnInv => ReconnectsOnlyBroken
  BY Zenon DEF ConnInv, DescriptorOK, ReconnectsOnlyBroken
<1> QED BY <1>1, ConnectionsInvariant, PTL
=============================================================================
