# TLA+ models of MCC

MCC is a traffic generator built on *infgen*, a C++17 framework with one reactor
thread per core.  Reactors share no data structures on purpose; they talk through
single-producer single-consumer rings.  This directory holds TLA+ modules for the
concurrent core of the framework and for the programs that use it, TLC
configurations that check them on small instances, and TLAPS proofs of the main
results for every size.

Paths below are relative to the repository, which is `src/` in `PROJECT.json`
(so `src/smp.cc` here is `src/src/smp.cc` there).

## The system's parts

| Part | Files | Modelled in |
| --- | --- | --- |
| Message queues between cores, `smp::submit_to` | `src/smp.cc`, `include/smp.h` | `Smp`, `AsyncCall` |
| Reactor loop: timers, tasks, pollers, stop | `src/reactor.cc` | in `Smp`, `Timer` and `PosixConn`, where each part acts |
| Timers | `src/timer.cc`, `include/timer.h` | `Timer` |
| epoll backend, pollable descriptors | `src/epoll.cc`, `src/pollfd.cc` | `PosixConn` |
| Kernel connections, reconnects, gauge of the mcc client | `src/posix_connection.cc`, `src/posix_connector.cc`, `apps/mcc/client.cc` | `PosixConn` |
| Local addresses of the kernel connector | `src/posix_connector.cc` | `AddrPool` |
| Sharded services, `map_reduce`, `end_game` | `include/distributor.h` | `Loader` |
| Distributed HTTP loader | `apps/distributed_http_loader/loader.cc` | `Loader` |
| mtcp epoll backend and connections | `src/mepoll.cc`, `src/mtcp_connection.cc`, `src/mtcp_connector.cc` | `MtcpConn` |
| Event queues of mTCP, its sockets, what a connection sees of its packets | `mtcp/mtcp/src/eventpoll.c`, `api.c`, `tcp_in.c`, `timer.c` | `MtcpConn` |
| Receive buffer of an mTCP stream, its window | `mtcp/mtcp/src/tcp_ring_buffer.c`, `tcp_in.c`, `tcp_out.c`, `api.c` | `RecvBuf`, `ByteStream` |
| Master and workers of distributed mcc, `tcp_server` | `apps/distributed_mcc`, `src/tcp_server.cc` | `Dist` |
| Statistics of the mcc client | `apps/mcc/client.cc` | not modelled |
| I/O thread for shaped traffic, start-up of the cores | `src/io_sched.cc`, `smp::configure` | not modelled |
| Rest of mTCP: congestion control, send buffer, lists of timers, closing states | `mtcp/mtcp/src` | not modelled |
| Options, logs, buffers, parsers, drivers | see `PROJECT.json` | no protocol state |

The parts interact like this.  Every reactor runs `tick()` of its timers, its
tasks and its pollers in turn.  The smp poller moves calls and responses between
cores.  The epoll poller turns kernel events into calls of connection handlers,
which call the callbacks of the program.  A program starts a `distributor`, which
creates one service per worker core and calls it through `submit_to`.  In the
build for mTCP the epoll poller is replaced by one over the event queues of the
stack, which a second thread per core fills from the packets.  In a distributed run
one process of each machine is a worker that a master commands over kernel
connections.

## Modules

### Smp, AsyncCall

One queue `qs_[dst][src]` per ordered pair of cores.  The state of a queue is its
staging vector and its ring in each direction (`pendingFifo`, `pending`,
`completedFifo`, `completed`).  The state of a core is its place in `reactor::run`
and `smp::poll_queues`, and the locals of `process_queue`.  One step is one ring
operation and the core-local code around it, because the rings are the only
memory two cores share.  `process_queue` is therefore two pops and a loop:
`PopIncoming`, `PopAllIncoming`, `Process` for requests and `PopCompletion`,
`PopAllCompletions`, `Complete` for responses.  `SubmitTo` and `Stop` may happen
wherever user code runs.  boost's ring is external: a push takes as many items as
fit.  `AsyncCall` is what a caller of `submit_to` relies on: a call runs once and
completes once, in order, and not before it ran.

### Timer

`timers_` is a set of armed timers with keys.  `StartTick`, `Alarm`, `Rearm` and
`Return` are the steps of `tick()`; `Schedule` is possible at any time, also in a
callback.  `tick()` erases the element its iterator points to and goes on using
the iterator.  That is undefined behaviour, so the model lets the loop continue at
any element of the map, or end.

### PosixConn

One reactor with the connections of the mcc client.  A connection has `state_`,
`pfd_` (in `pfd` or not), its requested and its registered events; the kernel's
socket has a TCP state, readable data and room to write.  `epoll_backend::poll` is
several steps: `Wait` takes the events, `CompleteOut`, `CompleteIn` and `Remove`
handle one descriptor, and `handle_read` is one step per read, so that the kernel
can act between any two system calls.  `Connect`, `Reconnect`, `Request` and
`Duration` are the client's tasks.  The kernel's actions are external: answer,
data, close, reset, room.  A `poll_state` that a callback destroyed is still used
by `poll`; this does nothing or ends the process.  A write on a broken socket fails
or raises SIGPIPE (`BrokenPipe`), which ends the process, since `reactor::run` has the
line that would ignore it commented out.

### AddrPool

Each reactor has its own pool over the same interface addresses.  `Bind` is one
turn of the loop of `connect` and `reconnect`: take the next address, try to bind
it.  Other reactors and other programs bind and release addresses in between.  A
reactor that indexes past its addresses has undefined behaviour and stops there.

### Loader

`distributor<http_client>` from `start` to the stop of all engines.  The queues
between cores are used through their promise: one list of calls in each
direction, run oldest first.  Timers may be late by any amount, so one second
orders nothing.  `ended_services_++` in `end_game` is a plain increment by every
worker's thread: the load, the store and the comparison after it are three steps
(`Expire`, `Count`, `EndGame`).  The comparison uses the stored value, which a build
may keep in a register, or the counter read again: then two workers can both find
it complete, and `on_done_` runs twice.  `raced` records that two workers were inside
`end_game` at once.

### MtcpConn

One connection on the mTCP stack, with two threads.  The application thread runs
`mtcp_epoll_backend::poll` and the handlers of `mtcp_connection` (`StartWait`,
`Fetch`, `WaitReturns`, `Dispatch...`, `Attach`, `Read...`) and the program's
`Connect`, `Reconnect`, `Send` and `Close`.  The stack thread handles packets and
timeouts (`SynAckArrives` to `ConnectionLost`) and `FlushEpollEvents`.  They share
`socket->events`, which both update without a common lock.  An update is two
steps: the action that makes it loads the word, `Store` writes it.  The length of a
queue is computed as `EventQueLen` does, with a mask of `size - 1` although the size
is a multiple of three.  An event that carries the `poll_state` of an earlier socket
is undefined behaviour: `DispatchDangling` lets it do nothing, run a handler of the
connection, or end the process.  `ConnectThrows` is a connect or reconnect that finds
no socket, local address or memory: nobody catches what `mtcp_socket` throws.  It may
happen at any connect, because what is used up is shared with the other connections
of the core, and failed handshakes never give their sockets back.  The branch of
`handle_read` for `on_msg_` is left out: the mcc clients set no such callback.  The
variables `raced` (two updates of `socket->events` overlapped), `eaten`, `dangled` and
`sendfailed` record that something happened; no action reads them.

### RecvBuf, ByteStream

The receiving side of one stream.  `Arrives` is the check of a segment against the
window, `Put` the rest of `ProcessTCPPayload` under `read_lock`, with `RBPut` and the
walk over the fragment list, and the FIN.  `ReadWindow` and `SendAck` or `LoseAck`
are `SendTCPPacket`, cut where the window was read and `need_wnd_adv` not yet set.
`Recv` is `CopyToUser` with `RBRemove`.  The network delivers any piece of the
stream at any time (`Any`), so segments overlap, repeat and come in any order; byte
k of the stream is the number k, so that what is in the buffer can be compared with
what was sent.  `Reset` is a RST in the window: the stream goes to CLOSE_WAIT, and
what was merged can still be read.  `DropAck` is `WriteTCPACKList`, which forgets an
acknowledgement when there is no buffer yet or when it reads `head_seq` and
`merged_len` while `RBRemove` changes them; the model lets it do so at any time.
Timestamps are taken to be in order: the check for old ones (PAWS) is not modelled.
`ByteStream` is what a reader relies on: the bytes once, in order, and the end after
the last or after a reset.

### Dist

A master and its workers.  A worker process is launched, connects and registers
(`Launch`, `Ready`), takes the command, starts the loaders when their time comes,
reports, and ends; it can be launched again.  The master accepts, reads and sends
(`Accept`, `Note`, `Report`, `ReadEnds`).  `Note` is the whole branch of
`on_message` for a registration, with the command to all workers.  One read of the
master may find several messages, which `ParseFromString` merges.  A message that
comes with the end of the stream is dropped, as `handle_read` drops it.  A
connection that was given up by a read error stays `connected` without a
descriptor (`"zombie"`, finding 2 below); to send on it or to drop it ends the
master.  Four more things may do so, and the model leaves both outcomes open: an id
outside the vectors, when a connection ends that never registered; a `poll_state`
that `handle_read` freed, when `poll` then withdraws the EPOLLOUT that it still watches
for since the accept (`fresh`, until `Unwatch`); one that a failing send of
`Distribute` freed, when an event of it is in the same batch; and SIGPIPE, when a
command goes to a worker that closed its connection with an earlier command on the
way (`Pipe`).  `stray` and `overlap` record that a connection was disconnected that had
not registered, and that a worker registered before the end of its last connection
was seen.

## Runs

| Run | Instance | Shows |
| --- | --- | --- |
| `smp` | 2 cores, rings of 1, 2 items per direction, stops | nothing lost, repeated, reordered; refinement of `AsyncCall`; submitted items complete; a stop that reached a ring ends the worker |
| `smp_flush_at_exit` | as `smp`, 3 items | *violation*: requests stay staged at exit |
| `timer` | 2 timers, clock to 3, periods 1 and 2, all kinds of repeat | accounts of the timers, never early; due calls are made |
| `conn` | 1 connection | gauge exact, live connections watched, no lost wakeup, reconnects only for broken connections; a dropped connection is tried again |
| `conn_cleanup` | 2 connections | *violation*: connected without a descriptor after a read error |
| `conn_attach` | 2 connections | *violation*: `attach` finds the old descriptor |
| `pool` | 2 reactors, 2 addresses, 3 ports | no address twice, out only when used up; the bind loop ends |
| `loader` | 2 workers, 3 requests each, adder modulo 6 | `on_done_` after all, and exactly once unless two workers were inside `end_game` at once; reports bounded; no call without an instance; then all engines stop, or the report divides by zero |
| `loader_done` | 2 workers | *violation*: a lost increment, `on_done_` never runs |
| `mtcp_conn` | 2 sockets in turn, queues of 6 slots, 4 packets, 1 request, connects that throw | an event is queued once; a live connection owns its socket; stale events, lost input and a false `connected` come only from the causes the properties name; closed stays closed; input is read |
| `recvbuf` | buffer of 4 bytes, stream of 5, sequence numbers that wrap, windows in units of 2, a reset | the buffer holds the peer's bytes in separate fragments and forgets none; what is in the window fits; refinement of `ByteStream`; all arrives |
| `dist` | 2 workers, 3 connections, 1 reset | the table is true unless the callbacks come out of order; only a reset, or the end of a worker that had not registered, was just accepted or had a command on the way, ends the master; the command needs all workers and starts each once; all workers load |

### Bounds

- `Smp`: a ring of one item and two items per direction fill the ring and leave
  the rest staged, so partial pushes, empty second pops and full rings in both
  directions all occur.  The code's 128 is only larger; the proofs cover every
  length and number of items.
- `Timer`: two timers suffice for equal keys, for a callback that schedules a due
  timer and for a skipped element.
- `PosixConn`: one connection, because of the liveness property; connections meet
  only in the batch of `epoll_wait`, in the gauge and at the end of the test, and
  the proofs cover every number of them.  The violations are shown with two.
  `Word` stands for the range of the unsigned gauge.
- `AddrPool`: three ports with `kPortEnd` included pass through every case of
  `get()`, twice.
- `Loader`: two workers are the fewest for an increment to be lost and for
  `on_done_` to be submitted twice.  The adder overflows at 6, the requests of both,
  so a total of zero after a full load occurs.
- `MtcpConn`: six slots are the smallest queue, three times `max_concurrency`, for
  which the mask of `EventQueLen` takes a length that occurs (2) for none.  `Starts`
  puts the queue where its indices wrap around within the run.  A second socket is
  what an event of the first can be stale for.  Four packets are an answer, data, a
  FIN or reset, and one for the second socket.
- `RecvBuf`: a buffer that is shorter than the stream is moved to the front and
  fills up; payloads of up to two bytes overlap in part; there is room for two
  fragments with a gap.  `Irs` is chosen so that head, fragments and window straddle
  the wrap.  The initial window is larger than the buffer, as the constant in the
  code may be; the proofs also cover one that is smaller.  `AllArrives` needs the
  buffer to hold at least one unit of the window (here 4 bytes and units of 2): a
  smaller one would always be advertised as full.
  A field of the window of at most one unit (`MaxField`) advertises less than there is.
- `Dist`: a third connection is a worker that was started again while its old
  connection is not yet, just now, or already known to be broken; with it each of the
  ways in which the master can end occurs.

### Deadlock

Reactors stop, so runs of `Smp`, `PosixConn` and `Loader` do not check for
deadlock; nor do `MtcpConn` and `Dist`, whose bounds on packets and connections run
out, and `RecvBuf`, whose stream comes to its end.  `Timer` and `AddrPool` do.

### Fairness

- `Smp`: weak fairness of each core.  A reactor polls without blocking until it
  stops.
- `Timer`: weak fairness of `Tick`: the loop calls `tick()` in each iteration.
- `PosixConn`: weak fairness of the loop.  Strong fairness of `Reconnect` is what
  `DueFires` of `Timer` gives: a task that stays due is run by some tick, although
  each tick may end before it.  Strong fairness of `ReadNothing` says that a peer
  does not for ever send faster than `handle_read` reads.
- `AddrPool`: weak fairness of a reactor inside its bind loop.
- `Loader`: weak fairness of each core.  Nothing is assumed about `Complete`: a
  server need not answer.
- `MtcpConn`: weak fairness of polling, flushing and of the stores.  Both threads
  spin.  Nothing is assumed about packets, timeouts and the program.
- `RecvBuf`: weak fairness of both threads.  Strong fairness of `Retransmit` and
  `SendAck` says that the peer does not give up and the network does not lose
  everything; that of `ReadWindow` says that an acknowledgement that is due is sent
  although segments keep arriving, as the stack's loop writes its lists after each
  batch of packets.
- `Dist`: weak fairness of the master and of each worker, which poll, over a
  network that delivers.  Processes need not be launched, and may end.

## What is proved

Proofs hold for every value of the constants; assumptions are the named `ASSUME`s
of the modules (positive sizes, finite sets).
The type invariants of all eight components, which include the capacities of the
rings, the offsets of the receive buffer and the width of unsigned counters, are
proved (`TypesHold`, `TimerTypes`, `ConnectionTypes`, `PoolTypes`, `LoaderTypes`,
`DistTypes`, `MtcpTypeCorrect`, `RecvTypeCorrect`).  Only the last two are also
properties of runs.

- `SmpProof` (lemmas about the rings, the steps and the
  theorems).  The inductive invariant is `NothingLost` itself: the items of a
  queue, from the completed ones to the last submitted, are exactly numbered
  through completion hand, ring, staging, process array, ring and staging.  From
  it follow the types (`TypesHold`), `ExactlyOnce` and the refinement of
  `AsyncCall` (`Refinement`): each step is a call, a run, a completion or a stutter.
- `TimerProof`.  The types, `Accounting` and `NeverEarly` are inductive together: a
  timer fires when its key has come, and `Accounting` says what its key is.
- `PosixConnProof` (the steps, the write side of poll and the
  theorems).  `ConnInv` strengthens the properties by what holds in the middle of
  `poll`: the events to remove are never among the requested ones, a
  connection that is up and not asked for reading is just being read and will
  find something, and reported events stay true until they are handled.
- `AddrPoolProof`.  The two indices are a cursor; what was handed out is exactly
  what lies behind it.  `PoolTypes` follows.
- `LoaderProof`.  `DoneAfterAll` holds although increments get lost.  The invariant
  `GameInv` says that a value n of the counter, stored or loaded, is *supported*: for
  each k from 1 to n some finished worker stored k.  So a worker that stores or reads
  the number of workers finds all finished.  `DoneOnce` is for runs in which no two
  workers were inside `end_game` at once: then (`Orderly`) the counter is the number of
  the workers that have stored, and only the last one out finds it complete.
  `LoaderTypes` adds the types of the data.  `InstanceFirst` rests on `Created`: on
  each core either the instance is there, or nothing was submitted to it yet, or
  the creating call is the oldest of its list.
  `ReportsAreWithinTotal` rests on `CollectInv`: each worker is asked for its result
  once for each run of `on_done_` and answers each time once, with no more than it has
  completed, and the adder is at most the sum of the shares of the answers that were
  added up, also after the unsigned addition has wrapped.  So a report that is due
  before all answers have arrived is too small, and none is larger than the total
  times the runs of `on_done_`.
- `DistProof`.  The invariant has four parts.  `Types`; `Numbers`, which says
  that a connection that registered has the number of the worker that opened it,
  and that commands go only to such connections; `Firsts`, which says that the
  registration is the first message of each connection; and `TableInv`, which says
  what `TableIsTrue` does, and that at most one connection of a worker serves.  The
  last is needed because a disconnect clears the entry of
  a worker and not that of a connection: only if no second one serves is the
  table true afterwards.  `LoadersStartOnce` has an
  invariant of its own on top of `Types` (a process that has started its loaders has
  no start task whose time will come).  `MasterSurvivesEnds` looks at each step that can
  end the master; it needs `Numbers`, for the id of a connection that registered is
  that of a worker, and `ZombiesReset`: a connection without a descriptor was given up
  over a reset.  `CommandWaitsForAll` is the step `Note` under the invariant.
- `MtcpConnProof`.  The invariant has two parts, for every size of the queues and
  any number of sockets, packets and requests.  `QueueInv` does not look at the
  connection.  Its core is `Balance`, an equation for each kind of event of each
  socket: the entries in the three queues, and a store that will clear the bit,
  weigh as much as the bit itself and the stores that will set it.  `QueuedOnce` is
  the equation when no store is on its way.  It needs that a store that was loaded
  is still right when it lands (`StackStoreOK`, `AppStoreOK`), which is so until two
  updates overlap (`raced`).  `ConnInv` puts the connection on top of the
  queues: what each state says about the socket (`OwnsSocket`), where the
  application thread can be (`ControlOK`), and that a batch names each event once
  and only registered sockets (`BatchOnce`, `BatchOK`), so that a handler that runs
  for another socket than the connection's needs one of the causes that
  `StaleEventsNeedFailure` names.  `HandshakeBeforeConnected` is about the handlers:
  without a stale event none of them throws out of `poll`.  It does not say that the
  process stays: `ConnectThrows` is possible in every state from which the program
  connects.  `ClosedForGood` follows step by step.
- `RecvBufProof`.  Every comparison of sequence numbers is first turned into one of
  distances from the head of the buffer, which are less than half the sequence
  space, so the wrap is dealt with once (`MinMaxSeq`, `CanMergeIs` and their like).
  Then the loop of `RBPut` is shown, turn by turn, to leave a list of fragments
  that are apart and cover exactly what was covered and the new bytes (`WalkIs`), and
  `RBPut` and `RBRemove` to keep what the buffer means (`PutKeeps`, `RemoveKeeps`).
  The invariant `RecvInv` says that the bytes at the covered distances are the
  peer's, that `rcv_nxt` is the end of what is in order (one more after the FIN), that a
  stream in CLOSE_WAIT without a reset has all its bytes, that the window is the room
  behind it once a payload has been put, and that a segment in hand ends within the
  window, also if the application reads in between.  `HoldsStream`,
  `FragmentsApart` and `InWindowFits` follow from it; `NothingForgotten` and the
  refinement of `ByteStream` (`StreamDelivered`) follow from it and the steps.  The one
  assumption on sizes, `RecvBounds`, is that the stream and a window behind it are
  shorter than half the sequence space.  It means that a segment repeated from
  2^31 bytes ago is not considered: the code cannot tell it from a new one.

Where a definition is recursive (`Walk` of `RecvBuf`, the count of the entries of
a queue in `MtcpConnProof`), it is a recursive function on an interval.  The proofs
show that the function exists and what it computes by a minimal counterexample:
the least element of the set of indices where the claim fails, by
`WFMin` of the library.  The sum over the workers in `ReportWithinTotal` is a fold
over a set, which takes the members in an order that is chosen but is the same for
all functions; that it exists and grows with the function summed (`TotalIs`,
`TotalLeq`) is an induction of the same kind, on the number of members.

Only model-checked is liveness (`SubmittedCompletes`, `StopEndsWorker`, `DueFires`,
`DroppedIsRetried`, `LoopEnds`, `DoneThenStops`, `InputIsRead`, `AllArrives`,
`AllLoad`), which needs fairness and `ENABLED`.

What the mask of `EventQueLen` computes is not used by a proof: the invariants
hold whatever length it reports, and only `InputIsRead` depends on it.

## Findings

1. `src/reactor.cc:259` announces a last flush that is commented out.  A stop task
   that did not fit the ring stays staged, and `join_all` waits for ever.
2. `src/posix_connection.cc:126`: after a read error the state stays `connected`
   and `pfd_` is null, against the comment of `cleanup`.
3. `src/posix_connection.cc:75`: a failed handshake leaves `pfd_`, against the
   assertion of `attach`; a release build leaks the descriptor.
4. `include/distributor.h:219`: a lost increment of `ended_services_` means that
   the callback "executed when all services has finished" never is.

What `MtcpConn` and `Dist` show to go wrong is part of their properties: no line of
the repository says that it does not.  In `MtcpConn` a lost update of
`socket->events`, a handshake that uses up the read event and the mask in
`EventQueLen` keep input from the application, and a failed handshake leaves a
socket behind whose events reach the connection through a freed `poll_state`.  In
`Dist` a worker that comes back before its old connection is known to be broken, and
a connection that ends before its registration was read, make the master's table
wrong, and resets, and ends of workers at a bad time, can end the master.  In `Loader`
`on_done_` can also run twice: then the results are collected twice into one adder.

## Not modelled

- The statistics of the mcc client and of the mcc worker: periodic `map_reduce` over
  five counters, a clearing call and a delayed report.  `Loader` asks the same
  question of the HTTP loader, whose report is also made on a timer.
- `smp::configure` and the I/O scheduler: start-up before there is traffic, and
  token buckets that depend on real time.
- mTCP beyond `MtcpConn` and `RecvBuf`: congestion control, the send buffer, the
  closing states, and the retransmission and time-wait lists.  Its queues between
  the threads are single-producer rings without locks whose correctness is one of
  memory order; `Smp` takes such rings as given.  A socket is not used again in
  `MtcpConn` (`AllocateSocket` looks for one without events left over, and goes round
  for ever if there is none), and the packet handlers are atomic up to the update of
  `socket->events`, so `mtcp_close` racing a handler is not covered.
- Contents of messages, buffers and HTTP; logs and options; TLS (not compiled);
  device drivers.
- `acceptor.cc` and `apps/echo_client` are not in the build.  The other loaders have
  the control of `Loader` and `PosixConn`.

`PROJECT.json` gives the reason for each part, and for each hazard that no property
covers.
