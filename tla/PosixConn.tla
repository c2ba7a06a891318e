----------------------------- MODULE PosixConn -----------------------------
(***************************************************************************)
(* One reactor of the kernel stack with the connections of the mcc client: *)
(* the epoll backend (src/epoll.cc, src/pollfd.cc), the connection state   *)
(* machine (src/posix_connection.cc), the connector's connect and          *)
(* reconnect (src/posix_connector.cc), the callbacks the client installs   *)
(* (apps/mcc/client.cc) and the kernel's sockets (external).               *)
(*                                                                         *)
(* The reactor is one thread, so a callback is one step; what interleaves  *)
(* with it is the kernel, which is why poll is several steps (the events   *)
(* of epoll_wait are stale once the next one runs) and handle_read is one  *)
(* step per read.  A poll_state destroyed by a callback is still used by   *)
(* poll afterwards: what that does is undefined, and is modelled as either *)
(* nothing or the end of the process.                                      *)
(***************************************************************************)
EXTENDS Integers, FiniteSets

CONSTANTS Conns,     \* the connections of this reactor (at most 128, the size of poll's array)
          Word       \* 2^64: stats.connected is a uint64_t

ASSUME ConnsAssumption == IsFiniteSet(Conns)
ASSUME WordAssumption == Word \in Nat /\ Cardinality(Conns) < Word

VARIABLES state, pfd,             \* state_, and the connections whose pfd_ is not null
          requested, registered,  \* events_requested and events_epoll of their poll_states
          link, rx, room,         \* the kernel's sockets: TCP state; bytes to read; room to write
          queued,                 \* the connections whose output_ is not empty
          listed, connected,      \* the client's conns_ and stats.connected
          reconnects,             \* pending oneshot tasks that call reconnect
          batch, cur, pc,         \* poll: the events left to handle, the one being handled
          dangling,               \* epoll holds the address of a destroyed poll_state
          stopping, crashed

conn == <<state, pfd, requested, registered, queued>>
kernel == <<link, rx, room>>
client == <<listed, connected, reconnects>>
poller == <<batch, cur, pc>>
ending == <<dangling, stopping, crashed>>
vars == <<conn, kernel, client, poller, ending>>

EPOLLIN == "EPOLLIN"
EPOLLOUT == "EPOLLOUT"
Events == {EPOLLIN, EPOLLOUT}
State == {"invalid", "connecting", "failed", "connected", "disconnect", "closed"}
Link == {"none", "unconnected", "syn", "refused", "dead", "up", "fin", "reset"}
Broken == {"unconnected", "dead", "reset"}     \* where read and write fail
None == [conn |-> "none"]

\* The connections that are really up: the state says so and the descriptor is there.
Up == {c \in pfd : state[c] = "connected"}
\* poll is in the middle of an event of c.
Busy(c) == pc \in {"in", "read", "remove"} /\ cur.conn = c

----------------------------------------------------------------------------
(* The kernel's side of a socket. *)

\* The level-triggered readiness epoll_wait sees ("unconnected" is a socket whose connect
\* failed at once, "dead" one whose error was taken by getsockopt).
Ready(c) == {e \in Events :
    \/ link[c] \in {"refused", "dead", "reset"}
    \/ e = EPOLLOUT /\ link[c] \in {"unconnected", "up", "fin"} /\ c \in room
    \/ e = EPOLLIN /\ (link[c] = "fin" \/ c \in rx)}

Running == ~crashed /\ pc # "done"

\* The peer answers a SYN, or the connect fails.
Answer(c) ==
    /\ link[c] = "syn"
    /\ \E l \in {"up", "refused"} : link' = [link EXCEPT ![c] = l]
    /\ UNCHANGED <<rx, room>>

\* The peer sends, closes its side, or resets (what was unread is lost).
PeerSend(c) ==
    /\ link[c] = "up" /\ c \notin rx
    /\ rx' = rx \cup {c}
    /\ UNCHANGED <<link, room>>

PeerClose(c) ==
    /\ link[c] = "up"
    /\ link' = [link EXCEPT ![c] = "fin"]
    /\ UNCHANGED <<rx, room>>

PeerReset(c) ==
    /\ link[c] \in {"up", "fin"}
    /\ link' = [link EXCEPT ![c] = "reset"]
    /\ rx' = rx \ {c}
    /\ UNCHANGED room

\* The send buffer drains.
Drain(c) ==
    /\ link[c] \in {"up", "fin"} /\ c \notin room
    /\ room' = room \cup {c}
    /\ UNCHANGED <<link, rx>>

Kernel(c) ==
    /\ Running
    /\ Answer(c) \/ PeerSend(c) \/ PeerClose(c) \/ PeerReset(c) \/ Drain(c)
    /\ UNCHANGED <<conn, client, poller, ending>>

----------------------------------------------------------------------------
(* The connection: posix_connection and the callbacks the client gave it.  *)
(* req is events_requested as the caller left it.                          *)

Wrap(n) == n % Word

\* attach: a new poll_state, registered for both events, whatever pfd_ was.
Attach(c, l) ==
    /\ state' = [state EXCEPT ![c] = "connecting"]
    /\ pfd' = pfd \cup {c}
    /\ requested' = [requested EXCEPT ![c] = Events]
    /\ registered' = [registered EXCEPT ![c] = Events]
    /\ link' = [link EXCEPT ![c] = l]
    /\ rx' = rx \ {c}
    /\ room' = room \cup {c}
    /\ dangling' = (dangling \/ (c \in pfd /\ registered[c] # {}))
    /\ UNCHANGED <<queued, listed, connected>>

\* detach_from_loop, close_fd and pfd_ = nullptr for every connection of S.
Detach(S) ==
    /\ pfd' = pfd \ S
    /\ requested' = [c \in Conns |-> IF c \in S THEN {} ELSE requested[c]]
    /\ registered' = [c \in Conns |-> IF c \in S THEN {} ELSE registered[c]]
    /\ link' = [c \in Conns |-> IF c \in S THEN "none" ELSE link[c]]
    /\ rx' = rx \ S
    /\ room' = room \cup S
    /\ UNCHANGED queued

\* cleanup leaves state_ as its caller set it (s), and the client's on_disconnect_
\* asks for a reconnect in three seconds.
Cleanup(c, s) ==
    /\ state' = [state EXCEPT ![c] = s]
    /\ Detach({c})
    /\ connected' = Wrap(connected - 1)
    /\ reconnects' = [reconnects EXCEPT ![c] = @ + 1]
    /\ UNCHANGED listed

\* (mutant) the client counts a failed connection down
HandshakeFailedCounts(c, req) ==
    /\ link[c] \in {"refused", "reset"}
    /\ state' = [state EXCEPT ![c] = "failed"]
    /\ link' = [link EXCEPT ![c] = "dead"]
    /\ requested' = [requested EXCEPT ![c] = req]
    /\ connected' = Wrap(connected - 1)
    /\ reconnects' = [reconnects EXCEPT ![c] = @ + 1]
    /\ UNCHANGED <<pfd, registered, queued, rx, room, listed>>

\* (mutant) on_failed_ is called with state_ still connecting
HandshakeFailedKeepsState(c, req) ==
    /\ link[c] \in {"refused", "reset"}
    /\ link' = [link EXCEPT ![c] = "dead"]
    /\ requested' = [requested EXCEPT ![c] = req]
    /\ reconnects' = [reconnects EXCEPT ![c] = @ + 1]
    /\ UNCHANGED <<state, pfd, registered, queued, rx, room, listed, connected>>

\* handle_handshake: getsockopt takes the socket's error, if there is one.
HandshakeFailed(c, req) ==
    /\ link[c] \in {"refused", "reset"}
    /\ state' = [state EXCEPT ![c] = "failed"]
    /\ link' = [link EXCEPT ![c] = "dead"]
    /\ requested' = [requested EXCEPT ![c] = req]
    /\ reconnects' = [reconnects EXCEPT ![c] = @ + 1]
    /\ UNCHANGED <<pfd, registered, queued, rx, room, listed, connected>>

HandshakeDone(c, req) ==
    /\ link[c] \notin {"refused", "reset"}
    /\ state' = [state EXCEPT ![c] = "connected"]
    /\ requested' = [requested EXCEPT ![c] = req]
    /\ listed' = listed \cup {c}
    /\ connected' = Wrap(connected + 1)
    /\ UNCHANGED <<pfd, registered, queued, kernel, reconnects>>

Handshake(c, req) == HandshakeFailed(c, req) \/ HandshakeDone(c, req)

\* update: the event is requested, and registered unless it is already.
Update(c, req, e) ==
    /\ requested' = [requested EXCEPT ![c] = req \cup {e}]
    /\ registered' = [registered EXCEPT ![c] = @ \cup {e}]

\* send_packet on a connected connection, by what write returns: all the bytes,
\* some of them (the rest is dropped), none (EAGAIN), or an error.
SendAll(c, req) ==
    /\ link[c] \notin Broken /\ c \in room
    /\ Update(c, req, EPOLLIN)
    /\ room' \in {room, room \ {c}}
    /\ UNCHANGED <<state, pfd, queued, link, rx, client>>

SendPart(c, req) ==
    /\ link[c] \notin Broken /\ c \in room
    /\ requested' = [requested EXCEPT ![c] = req]
    /\ room' = room \ {c}
    /\ UNCHANGED <<state, pfd, registered, queued, link, rx, client>>

SendNone(c, req) ==
    /\ link[c] \notin Broken /\ c \notin room
    /\ queued' = queued \cup {c}
    /\ Update(c, req, EPOLLOUT)
    /\ UNCHANGED <<state, pfd, kernel, client>>

SendError(c) ==
    /\ link[c] \in Broken
    /\ Cleanup(c, "disconnect")

SendPacket(c, req) == SendAll(c, req) \/ SendPart(c, req) \/ SendNone(c, req) \/ SendError(c)

\* handle_write.  A connected connection sends the whole of output_ again: nothing
\* ever takes bytes out of it.
HandleWrite(c, req) ==
    \/ state[c] = "connecting" /\ Handshake(c, req)
    \/ state[c] = "connected" /\ c \in queued /\ SendPacket(c, req)
    \/ /\ state[c] # "connecting"
       /\ state[c] = "connected" => c \notin queued
       /\ requested' = [requested EXCEPT ![c] = req]
       /\ UNCHANGED <<state, pfd, registered, queued, kernel, client>>

----------------------------------------------------------------------------
(* epoll_backend::poll. *)

LoopTop == IF stopping THEN "exit" ELSE "tick"

\* epoll_wait.  An event of a forgotten descriptor brings the address of a destroyed
\* poll_state: the process may go on or die.
Wait ==
    /\ Running /\ pc = "poll"
    /\ LET ready == {c \in Conns : Ready(c) \cap registered[c] # {}} IN
       /\ batch' = [c \in ready |-> Ready(c) \cap registered[c]]
       /\ pc' = IF ready = {} THEN LoopTop ELSE "loop"
    /\ crashed' \in (IF dangling THEN BOOLEAN ELSE {FALSE})
    /\ UNCHANGED <<conn, kernel, client, cur, dangling, stopping>>

\* (mutant) removes the events that were requested too
CompleteOutRemovesAll(c) ==
    /\ Running /\ pc = "loop" /\ c \in DOMAIN batch
    /\ batch' = [d \in DOMAIN batch \ {c} |-> batch[d]]
    /\ cur' = [conn |-> c, events |-> batch[c], remove |-> batch[c]]
    /\ pc' = "in"
    /\ \/ EPOLLOUT \in batch[c] \cap requested[c] /\ HandleWrite(c, requested[c] \ {EPOLLOUT})
       \/ EPOLLOUT \notin batch[c] \cap requested[c] /\ UNCHANGED <<conn, kernel, client>>
    /\ UNCHANGED ending

\* The next event of the array: what to remove is fixed before any callback runs;
\* then the write side is completed.
CompleteOut(c) ==
    /\ Running /\ pc = "loop" /\ c \in DOMAIN batch
    /\ batch' = [d \in DOMAIN batch \ {c} |-> batch[d]]
    /\ cur' = [conn |-> c, events |-> batch[c], remove |-> batch[c] \ requested[c]]
    /\ pc' = "in"
    /\ \/ EPOLLOUT \in batch[c] \cap requested[c] /\ HandleWrite(c, requested[c] \ {EPOLLOUT})
       \/ EPOLLOUT \notin batch[c] \cap requested[c] /\ UNCHANGED <<conn, kernel, client>>
    /\ UNCHANGED ending

\* The read side.  When the write callback destroyed the poll_state, its flags are
\* garbage and so is the callback they may select.
CompleteIn(c) ==
    /\ Running /\ pc = "in" /\ cur.conn = c
    /\ \/ /\ c \in pfd /\ EPOLLIN \in cur.events \cap requested[c]
          /\ IF state[c] = "connecting"
             THEN pc' = "remove" /\ Handshake(c, requested[c] \ {EPOLLIN})
             ELSE /\ pc' = "read"
                  /\ requested' = [requested EXCEPT ![c] = @ \ {EPOLLIN}]
                  /\ UNCHANGED <<state, pfd, registered, queued, kernel, client>>
          /\ UNCHANGED crashed
       \/ /\ c \in pfd /\ EPOLLIN \notin cur.events \cap requested[c]
          /\ pc' = "remove"
          /\ UNCHANGED <<conn, kernel, client, crashed>>
       \/ /\ c \notin pfd
          /\ pc' = "remove"
          /\ crashed' \in (IF EPOLLIN \in cur.events THEN BOOLEAN ELSE {FALSE})
          /\ UNCHANGED <<conn, kernel, client>>
    /\ UNCHANGED <<batch, cur, dangling, stopping>>

\* handle_read, one iteration of its loop: the end of the loop (not connected, or
\* EAGAIN), bytes to read, the end of the stream, an error.
ReadNothing(c) ==
    /\ Running /\ pc = "read" /\ cur.conn = c
    /\ state[c] # "connected" \/ (c \notin rx /\ link[c] = "up")
    /\ pc' = "remove"
    /\ UNCHANGED <<conn, kernel, client, batch, cur, ending>>

\* (mutant) does not watch for the next read event
ReadBytesForgets(c) ==
    /\ Running /\ pc = "read" /\ cur.conn = c /\ state[c] = "connected" /\ c \in rx
    /\ rx' = rx \ {c}
    /\ UNCHANGED <<conn, link, room, client, poller, ending>>

ReadBytes(c) ==
    /\ Running /\ pc = "read" /\ cur.conn = c /\ state[c] = "connected" /\ c \in rx
    /\ rx' = rx \ {c}
    /\ Update(c, requested[c], EPOLLIN)
    /\ UNCHANGED <<state, pfd, queued, link, room, client, poller, ending>>

ReadEof(c) ==
    /\ Running /\ pc = "read" /\ cur.conn = c /\ state[c] = "connected"
    /\ c \notin rx /\ link[c] = "fin"
    /\ Cleanup(c, "disconnect")
    /\ pc' = "remove"
    /\ UNCHANGED <<batch, cur, ending>>

ReadError(c) ==
    /\ Running /\ pc = "read" /\ cur.conn = c /\ state[c] = "connected"
    /\ link[c] \in Broken
    /\ Cleanup(c, state[c])
    /\ pc' = "remove"
    /\ UNCHANGED <<batch, cur, ending>>

\* The events nobody had requested leave the epoll set; through the address of a
\* destroyed poll_state this writes to freed memory.
Remove(c) ==
    /\ Running /\ pc = "remove" /\ cur.conn = c
    /\ registered' = [registered EXCEPT ![c] = @ \ cur.remove]
    /\ crashed' \in (IF cur.remove # {} /\ c \notin pfd THEN BOOLEAN ELSE {FALSE})
    /\ pc' = IF DOMAIN batch = {} THEN LoopTop ELSE "loop"
    /\ cur' = None
    /\ UNCHANGED <<state, pfd, requested, queued, kernel, client, batch, dangling, stopping>>

Poll(c) == CompleteOut(c) \/ CompleteIn(c) \/ ReadNothing(c) \/ ReadBytes(c)
             \/ ReadEof(c) \/ ReadError(c) \/ Remove(c)

----------------------------------------------------------------------------
(* The tasks the client gives the reactor's timer, run by tick. *)

\* connect.  When the socket call fails at once the engine is stopped, and the
\* connection attached all the same.
Connect(c) ==
    /\ Running /\ pc = "tick" /\ state[c] = "invalid"
    /\ \/ Attach(c, "syn") /\ UNCHANGED stopping
       \/ Attach(c, "unconnected") /\ stopping' = TRUE
    /\ UNCHANGED <<reconnects, poller, crashed>>

\* reconnect.  Nothing catches an error of its connect.
Reconnect(c) ==
    /\ Running /\ pc = "tick" /\ reconnects[c] > 0
    /\ Attach(c, "syn")
    /\ reconnects' = [reconnects EXCEPT ![c] = @ - 1]
    /\ UNCHANGED <<poller, stopping, crashed>>

ReconnectThrows(c) ==
    /\ Running /\ pc = "tick" /\ reconnects[c] > 0
    /\ crashed' = TRUE
    /\ UNCHANGED <<conn, kernel, client, poller, dangling, stopping>>

\* do_req reaches a connection of conns_ that says it is connected.
Request(c) ==
    /\ Running /\ pc = "tick" /\ c \in listed /\ state[c] = "connected"
    /\ \/ c \in pfd /\ SendPacket(c, requested[c]) /\ UNCHANGED crashed
       \/ c \notin pfd /\ crashed' = TRUE /\ UNCHANGED <<conn, kernel, client>>
    /\ UNCHANGED <<poller, dangling, stopping>>

\* A write on a broken socket, in do_req or in handle_write, may raise SIGPIPE instead of
\* failing (an error is reported once, and a reset after the end of the stream is EPIPE):
\* run leaves the signal as it is, and it ends the process.
BrokenPipe(c) ==
    /\ Running /\ c \in Up /\ link[c] \in Broken
    /\ \/ pc = "tick" /\ c \in listed
       \/ pc = "loop" /\ c \in DOMAIN batch \cap queued /\ EPOLLOUT \in batch[c] \cap requested[c]
    /\ crashed' = TRUE
    /\ UNCHANGED <<conn, kernel, client, poller, dangling, stopping>>

\* close on every connection of S that is neither closed nor disconnected.
CloseAll(S) ==
    LET open == {c \in S : state[c] \notin {"closed", "disconnect"}} IN
    \/ /\ open \subseteq pfd
       /\ state' = [c \in Conns |-> IF c \in open THEN "closed" ELSE state[c]]
       /\ Detach(open)
       /\ connected' = Wrap(connected - Cardinality(open))
       /\ UNCHANGED <<listed, reconnects, crashed>>
    \/ /\ ~(open \subseteq pfd)
       /\ crashed' = TRUE
       /\ UNCHANGED <<conn, kernel, client>>

\* The duration is over: close what is listed and stop the engine.
Duration ==
    /\ Running /\ pc = "tick"
    /\ CloseAll(listed)
    /\ stopping' = TRUE
    /\ UNCHANGED <<poller, dangling>>

\* The end of tick and of the pending tasks.
EndTick ==
    /\ Running /\ pc = "tick"
    /\ pc' = "poll"
    /\ UNCHANGED <<conn, kernel, client, batch, cur, ending>>

\* The signal poller finds a SIGINT or SIGTERM.
Signal ==
    /\ Running /\ pc = "poll"
    /\ stopping' = TRUE
    /\ UNCHANGED <<conn, kernel, client, poller, dangling, crashed>>

\* The end of run: what says it is connected is closed.
Exit ==
    /\ Running /\ pc = "exit"
    /\ CloseAll({c \in Conns : state[c] = "connected"})
    /\ pc' = "done"
    /\ UNCHANGED <<batch, cur, dangling, stopping>>

Init ==
    /\ state = [c \in Conns |-> "invalid"]
    /\ pfd = {}
    /\ requested = [c \in Conns |-> {}]
    /\ registered = [c \in Conns |-> {}]
    /\ link = [c \in Conns |-> "none"]
    /\ rx = {}
    /\ room = Conns
    /\ queued = {}
    /\ listed = {}
    /\ connected = 0
    /\ reconnects = [c \in Conns |-> 0]
    /\ batch = [c \in {} |-> {}]
    /\ cur = None
    /\ pc = "tick"
    /\ dangling = FALSE
    /\ stopping = FALSE
    /\ crashed = FALSE

Task(c) == Connect(c) \/ Reconnect(c) \/ ReconnectThrows(c) \/ Request(c) \/ BrokenPipe(c)

Next ==
    \/ \E c \in Conns : Kernel(c) \/ Poll(c) \/ Task(c)
    \/ Wait \/ Duration \/ EndTick \/ Signal \/ Exit

Spec == Init /\ [][Next]_vars

\* The loop goes round, a reconnect task that stays due is run by some tick (the
\* property DueFires of Timer), and a peer does not for ever send faster than
\* handle_read reads.
FairSpec ==
    /\ Spec
    /\ WF_vars(Wait) /\ WF_vars(EndTick)
    /\ \A c \in Conns :
        /\ WF_vars(Poll(c)) /\ SF_vars(Reconnect(c)) /\ SF_vars(ReadNothing(c))

----------------------------------------------------------------------------
(* Properties. *)

\* The state of the connections, of the poller and of the kernel's sockets has its type.
TypeOK ==
    /\ state \in [Conns -> State]
    /\ pfd \in SUBSET Conns
    /\ requested \in [Conns -> SUBSET Events]
    /\ registered \in [Conns -> SUBSET Events]
    /\ link \in [Conns -> Link]
    /\ rx \in SUBSET Conns
    /\ room \in SUBSET Conns
    /\ queued \in SUBSET Conns
    /\ listed \in SUBSET Conns
    /\ connected \in 0..(Word - 1)
    /\ reconnects \in [Conns -> 0..1]
    /\ DOMAIN batch \in SUBSET Conns
    /\ \A c \in DOMAIN batch : batch[c] \in SUBSET Events
    /\ cur = None \/ cur \in [conn : Conns, events : SUBSET Events, remove : SUBSET Events]
    /\ pc \in {"tick", "poll", "loop", "in", "read", "remove", "exit", "done"}
    /\ {dangling, stopping, crashed} \subseteq BOOLEAN

\* The gauge the client reports every second is exact for as long as the engine runs:
\* stats.connected, which four callbacks count up and down, is the number of connections
\* that are up.
ConnectedIsExact == ~stopping => connected = Cardinality(Up)

\* "Watch read event on the fd to detect passive close" (src/posix_connection.cc:106):
\* whenever poll is not busy with it, a connection that is up is requested and registered
\* for reading, although poll withdraws both and only the callbacks restore them.
WatchesPassiveClose ==
    \A c \in Up : ~Busy(c) => EPOLLIN \in requested[c] \cap registered[c]

\* No wakeup is lost: whenever poll is not busy with it, every event a connection asked
\* for is in the epoll set, although poll decides what to take out of the set before the
\* callbacks that ask for events run (src/epoll.cc:25).
NoLostWakeup == \A c \in Conns : ~Busy(c) => requested[c] \subseteq registered[c]

\* A reconnect task is never pending for a connection that is up or on its way up: it
\* would attach a second descriptor over a live one.
ReconnectsOnlyBroken ==
    \A c \in Conns : reconnects[c] > 0 => state[c] # "connecting" /\ c \notin Up

\* A connection the peer closed or reset is noticed and tried again, unless the engine
\* stops or the process dies first.
DroppedIsRetried ==
    \A c \in Conns : (c \in Up /\ link[c] \in {"fin", "reset"})
                        ~> (state[c] = "connecting" \/ stopping \/ crashed)

\* "cleanup handles exceptional close from either server or client, thus the connection
\* state must be disconnect" (src/posix_connection.cc:196): a connection that was up and
\* whose descriptor is gone says so, or was closed.
CleanupMeansDisconnect ==
    \A c \in Conns : state[c] = "connected" => c \in pfd

\* assert(pfd_ == nullptr) in attach (src/posix_connection.cc:30): no step that starts a
\* connection attempt finds a descriptor already there.
AttachFindsNoPollfd ==
    [][\A c \in Conns : (state'[c] = "connecting" /\ state[c] # "connecting") => c \notin pfd]_vars
=============================================================================
