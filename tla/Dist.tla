-------------------------------- MODULE Dist --------------------------------
(***************************************************************************)
(* A distributed run of mcc: the master (mcc_master.cc over tcp_server)    *)
(* waits until as many workers as it was told have reported, sends all of  *)
(* them the command, and shows a table of what they report; a worker       *)
(* (mcc_worker.cc) registers, loads when the command's start time comes,   *)
(* and reports.  Workers end or crash and are started again, connections   *)
(* are reset, and each end notices in its own time.                        *)
(*                                                                         *)
(* A connection carries whole messages in order; a read takes any number   *)
(* of those that are there, and ParseFromString merges them.  The master   *)
(* runs first.  It numbers its connections, and the number is the id of    *)
(* the connection until a worker registers on it.                          *)
(***************************************************************************)
EXTENDS Integers, Sequences, FiniteSets

CONSTANTS
    N,          \* --workers
    MaxConns,   \* bound: connections that the workers open
    MaxReports, \* bound: reports of one worker process
    MaxResets,  \* bound: connections that the network resets
    Word        \* the values of an unsigned

ASSUME DistBounds ==
    /\ N \in Nat \ {0} /\ MaxConns \in Nat /\ MaxReports \in Nat /\ MaxResets \in Nat
    /\ Word \in Nat /\ Word > N + MaxConns

Ids == 0 .. N - 1
Conns == 1 .. MaxConns
None == 0

VARIABLES
    worker_desc,    \* ids with entry 1
    worker_conns,   \* [Ids -> Conns or None]
    showing,        \* ids whose entry of connected is not 0
    workers_online,
    state,          \* [Conns -> state_ at the master]; "zombie": connected, but no pfd_
    id,             \* [Conns -> get_id()]
    opened,         \* connections opened so far
    owner,          \* [Conns -> id of the worker at the other end]
    wire,           \* [Conns -> "unused", "open", "fin" (from the worker) or "reset"]
    toMaster,       \* [Conns -> Seq of "note" and "report"]
    toWorker,       \* [Conns -> number of commands]
    proc,           \* [Ids -> "down", "connecting" or "up"]
    link,           \* [Ids -> the process's connection]
    cut,            \* workers whose end of it is not usable any more
    start_tp,       \* [Ids -> how many start times are added up in start_tp]
    due,            \* workers with a start task whose time comes
    loads,          \* [Ids -> starts of the loaders by this process]
    reports,        \* [Ids -> reports of this process]
    fresh,          \* the connection that epoll still watches for EPOLLOUT since accept
    crashed,        \* the master is gone
    noted,          \* connections that carried a registration
    stray,          \* a connection without a registration was disconnected
    overlap         \* a worker registered before the end of its last connection was seen

table == <<worker_desc, worker_conns, showing, workers_online>>
ends == <<state, id, fresh, noted, stray, overlap, crashed>>
net == <<opened, owner, wire>>
workers == <<proc, link, cut, start_tp, due, loads, reports>>
vars == <<table, ends, net, toMaster, toWorker, workers>>

State == {"none", "aborted", "failed", "connected", "disconnect", "zombie"}

TypeOK ==
    /\ worker_desc \subseteq Ids /\ showing \subseteq Ids
    /\ worker_conns \in [Ids -> Conns \cup {None}] /\ workers_online \in 0 .. Word - 1
    /\ state \in [Conns -> State] /\ id \in [Conns -> Nat]
    /\ opened \in 0 .. MaxConns /\ owner \in [Conns -> Ids]
    /\ wire \in [Conns -> {"unused", "open", "fin", "reset"}]
    /\ toMaster \in [Conns -> Seq({"note", "report"})] /\ toWorker \in [Conns -> Nat]
    /\ proc \in [Ids -> {"down", "connecting", "up"}] /\ link \in [Ids -> Conns \cup {None}]
    /\ cut \subseteq Ids /\ start_tp \in [Ids -> Nat] /\ due \subseteq Ids /\ loads \in [Ids -> Nat]
    /\ reports \in [Ids -> 0 .. MaxReports]
    /\ fresh \in Conns \cup {None} /\ noted \subseteq Conns /\ crashed \in BOOLEAN /\ stray \in BOOLEAN /\ overlap \in BOOLEAN

Init ==
    /\ worker_desc = {} /\ showing = {} /\ workers_online = 0
    /\ worker_conns = [i \in Ids |-> None]
    /\ state = [c \in Conns |-> "none"] /\ id = [c \in Conns |-> 0]
    /\ opened = 0 /\ owner = [c \in Conns |-> 0] /\ wire = [c \in Conns |-> "unused"]
    /\ toMaster = [c \in Conns |-> <<>>] /\ toWorker = [c \in Conns |-> 0]
    /\ proc = [w \in Ids |-> "down"] /\ link = [w \in Ids |-> None]
    /\ cut = {} /\ start_tp = [w \in Ids |-> 0] /\ due = {} /\ loads = [w \in Ids |-> 0]
    /\ reports = [w \in Ids |-> 0]
    /\ fresh = None /\ noted = {} /\ crashed = FALSE /\ stray = FALSE /\ overlap = FALSE

(***************************************************************************)
(* The master.                                                             *)
(***************************************************************************)

Wrap(n) == n % Word

\* tcp_server::accept, in the order of the connections, and the handshake.  One
\* that was reset has no peer name and gets no connection object, or its handshake
\* fails; nothing is told of either.  There is one accept a poll: the EPOLLOUT of the
\* last connection is out of the way before the handshake of the next.
Accept(c) ==
    /\ ~crashed /\ c <= opened /\ state[c] = "none"
    /\ \A b \in Conns : b < c => state[b] # "none"
    /\ \E s \in IF wire[c] = "reset" THEN {"aborted", "failed"} ELSE {"connected"} :
           state' = [state EXCEPT ![c] = s]
    /\ id' = [id EXCEPT ![c] = Cardinality({b \in Conns : state'[b] \notin {"none", "aborted"}})]
    /\ fresh' = IF state'[c] = "connected" THEN c ELSE None
    /\ UNCHANGED <<table, noted, stray, overlap, crashed, net, toMaster, toWorker, workers>>

\* poll finds EPOLLOUT ready, which nobody asked for, and watches for it no more.
Unwatch(c) ==
    /\ ~crashed /\ c = fresh /\ state[c] = "connected"
    /\ fresh' = None
    /\ UNCHANGED <<table, state, id, noted, stray, overlap, crashed, net, toMaster, toWorker, workers>>

\* when_disconnect for the connections of S, the table being desc, shown and
\* online so far.  The id of a connection that never registered is its number:
\* its entries may be another worker's, or outside the vectors.
Disconnected(S, desc, shown, online) ==
    /\ worker_desc' = desc \ {id'[c] : c \in S}
    /\ showing' = shown \ {id'[c] : c \in S}
    /\ workers_online' = Wrap(online - Cardinality(S))
    /\ stray' = (stray \/ ~(S \subseteq noted'))

\* The kernel closes the connections of a master that is gone.
Hangup == wire' = [c \in Conns |-> IF crashed' /\ wire[c] = "open" THEN "reset" ELSE wire[c]]

\* (mutant) the worker stays counted
ReadEndsUncounted(c) ==
    /\ ~crashed /\ state[c] = "connected" /\ wire[c] \in {"fin", "reset"}
    /\ state' = [state EXCEPT ![c] = IF wire[c] = "fin" THEN "disconnect" ELSE "zombie"]
    /\ toMaster' = [toMaster EXCEPT ![c] = <<>>]
    /\ UNCHANGED <<worker_conns, id, fresh, noted, overlap, crashed, net, toWorker, workers>>
    /\ Disconnected({c}, worker_desc, showing, workers_online + 1)

\* handle_read meets the end of the stream, or an error: then state_ stays
\* connected.  What was read since the last EAGAIN is lost.  If the table does not
\* hold the connection it is destroyed, and the destructor of one that is connected
\* closes it through pfd_, which is gone.  Two more things may be the end: an entry
\* outside the vectors, and poll, which drops EPOLLOUT in the poll_state that is gone.
ReadEnds(c) ==
    /\ ~crashed /\ state[c] = "connected" /\ wire[c] \in {"fin", "reset"}
    /\ state' = [state EXCEPT ![c] = IF wire[c] = "fin" THEN "disconnect" ELSE "zombie"]
    /\ toMaster' = [toMaster EXCEPT ![c] = <<>>]
    /\ \/ crashed' = (wire[c] = "reset" /\ \A i \in Ids : worker_conns[i] # c)
       \/ (id[c] \notin Ids \/ c = fresh) /\ crashed' = TRUE
    /\ fresh' = IF c = fresh THEN None ELSE fresh
    /\ Hangup
    /\ UNCHANGED <<worker_conns, id, noted, overlap, opened, owner, toWorker, workers>>
    /\ Disconnected({c}, worker_desc, showing, workers_online)

\* on_message gets the n oldest messages.
Receives(c, n, isNote) ==
    /\ ~crashed /\ state[c] = "connected"
    /\ n \in 1 .. Len(toMaster[c])
    /\ isNote <=> \E k \in 1 .. n : toMaster[c][k] = "note"
    /\ toMaster' = [toMaster EXCEPT ![c] = SubSeq(@, n + 1, Len(@))]

Zombie(c) == c # None /\ state[c] = "zombie"

\* (mutant) send_packet does not look at state_
SendCrashesIfGone(c) == c # None /\ state[c] \in {"zombie", "disconnect"}

\* send_packet without pfd_ is the end.
SendCrashes(c) == Zombie(c)

\* The worker closed the connection and its kernel answered a command with a reset:
\* the next one raises SIGPIPE, which nobody handles.
Pipe(c) == c # None /\ state[c] = "connected" /\ wire[c] = "fin" /\ toWorker[c] > 0

\* send_packet to the connections of the table in order; it passes over what is not
\* connected.  A reset that the master has not read yet may fail the send, which
\* disconnects and frees the poll_state: if poll has an event of it, that may be the
\* end too.
Distribute(desc, online) ==
    \E pipes \in SUBSET {i \in Ids : Pipe(worker_conns'[i])} :
    LET fatal == pipes \cup {i \in Ids : SendCrashes(worker_conns'[i])}
        reached == {i \in Ids : \A j \in fatal : i < j}
        live == {c \in {worker_conns'[i] : i \in reached} \ {None} : state[c] = "connected"}
    IN  \E failing \in SUBSET {c \in live : wire[c] = "reset"} :
            /\ crashed' \in {fatal # {}, fatal \cup failing # {}}
            /\ state' = [c \in Conns |-> IF c \in failing THEN "disconnect" ELSE state[c]]
            /\ toWorker' = [c \in Conns |-> toWorker[c] + IF c \in live \ failing THEN 1 ELSE 0]
            /\ Disconnected(failing, desc, showing, online)

\* (mutant) one worker may be missing
EnoughButOne(online) == online + 1 >= N

\* (mutant) waits for one more than there are
MoreThanEnough(online) == online > N

Enough(online) == online >= N

\* A registration.
Note(c) ==
    LET w == owner[c]
        online == Wrap(workers_online + 1)
    IN  /\ ~Zombie(worker_conns[w])
        /\ \E n \in 1 .. Len(toMaster[c]) : Receives(c, n, TRUE)
        /\ id' = [id EXCEPT ![c] = w]
        /\ noted' = noted \cup {c}
        /\ worker_conns' = [worker_conns EXCEPT ![w] = c]
        /\ overlap' = (overlap \/ w \in worker_desc)
        /\ IF Enough(online)
           THEN Distribute(worker_desc \cup {w}, online)
           ELSE /\ Disconnected({}, worker_desc \cup {w}, showing, online)
                /\ UNCHANGED <<state, toWorker, crashed>>
        /\ fresh' \in {fresh, IF c = fresh THEN None ELSE fresh}
        /\ Hangup
        /\ UNCHANGED <<opened, owner, workers>>

\* A registration that replaces a connection without pfd_ destroys that one,
\* and nobody sees the table any more.
NoteDestroys(c) ==
    /\ Zombie(worker_conns[owner[c]])
    /\ \E n \in 1 .. Len(toMaster[c]) : Receives(c, n, TRUE)
    /\ crashed' = TRUE
    /\ Hangup
    /\ UNCHANGED <<table, state, id, fresh, noted, stray, overlap, opened, owner, toWorker, workers>>

\* A report of statistics.
Report(c) ==
    /\ \E n \in 1 .. Len(toMaster[c]) : Receives(c, n, FALSE)
    /\ showing' = showing \cup {owner[c]}
    /\ fresh' \in {fresh, IF c = fresh THEN None ELSE fresh}
    /\ UNCHANGED <<worker_desc, worker_conns, workers_online, state, id, noted, stray, overlap, crashed,
                   net, toWorker, workers>>

(***************************************************************************)
(* A worker, and the network.                                              *)
(***************************************************************************)

\* main, in a new process, up to engine().run().  One that finds no
\* master is of no interest.
Launch(w) ==
    /\ ~crashed /\ proc[w] = "down" /\ opened < MaxConns
    /\ opened' = opened + 1
    /\ owner' = [owner EXCEPT ![opened + 1] = w]
    /\ wire' = [wire EXCEPT ![opened + 1] = "open"]
    /\ proc' = [proc EXCEPT ![w] = "connecting"]
    /\ link' = [link EXCEPT ![w] = opened + 1]
    /\ UNCHANGED <<table, ends, toMaster, toWorker, cut, start_tp, due, loads, reports>>

\* when_ready.
Ready(w) ==
    /\ proc[w] = "connecting" /\ wire[link[w]] = "open"
    /\ proc' = [proc EXCEPT ![w] = "up"]
    /\ toMaster' = [toMaster EXCEPT ![link[w]] = Append(@, "note")]
    /\ UNCHANGED <<table, ends, net, toWorker, link, cut, start_tp, due, loads, reports>>

\* (mutant) the start time is set, not added
CommandSets(w) ==
    /\ proc[w] = "up" /\ w \notin cut
    /\ \E n \in 1 .. toWorker[link[w]] : toWorker' = [toWorker EXCEPT ![link[w]] = @ - n]
    /\ start_tp' = [start_tp EXCEPT ![w] = 1]
    /\ due' = due \cup {w}
    /\ UNCHANGED <<table, ends, net, toMaster, proc, link, cut, loads, reports>>

\* when_recved: start_tp += start_ts.  The sum of two times since 1970 is not
\* reached by any run.
Command(w) ==
    /\ proc[w] = "up" /\ w \notin cut
    /\ \E n \in 1 .. toWorker[link[w]] : toWorker' = [toWorker EXCEPT ![link[w]] = @ - n]
    /\ start_tp' = [start_tp EXCEPT ![w] = @ + 1]
    /\ due' = IF start_tp[w] = 0 THEN due \cup {w} ELSE due
    /\ UNCHANGED <<table, ends, net, toMaster, proc, link, cut, loads, reports>>

\* The start task: loaders->start, and the periodic report.
Start(w) ==
    /\ proc[w] = "up" /\ w \in due
    /\ due' = due \ {w}
    /\ loads' = [loads EXCEPT ![w] = @ + 1]
    /\ UNCHANGED <<table, ends, net, toMaster, toWorker, proc, link, cut, start_tp, reports>>

Reporting(w) == proc[w] = "up" /\ loads[w] > 0 /\ reports[w] < MaxReports

\* send_packet from the report task.  A reset that was not seen may make it fail.
SendReport(w) ==
    /\ Reporting(w) /\ w \notin cut
    /\ reports' = [reports EXCEPT ![w] = @ + 1]
    /\ \/ /\ toMaster' = IF wire[link[w]] = "open"
                           THEN [toMaster EXCEPT ![link[w]] = Append(@, "report")] ELSE toMaster
          /\ UNCHANGED cut
       \/ /\ wire[link[w]] = "reset"
          /\ cut' = cut \cup {w}
          /\ UNCHANGED toMaster
    /\ UNCHANGED <<table, ends, net, toWorker, proc, link, start_tp, due, loads>>

\* The process is gone, and the kernel closes its connection: with a reset if
\* there was something to read.  A command that comes later is answered with one.
Gone(w) ==
    /\ proc' = [proc EXCEPT ![w] = "down"] /\ link' = [link EXCEPT ![w] = None]
    /\ cut' = cut \ {w} /\ start_tp' = [start_tp EXCEPT ![w] = 0] /\ due' = due \ {w}
    /\ loads' = [loads EXCEPT ![w] = 0] /\ reports' = [reports EXCEPT ![w] = 0]
    /\ \E e \in {"fin"} \cup IF toWorker[link[w]] > 0 THEN {"reset"} ELSE {} :
           wire' = [wire EXCEPT ![link[w]] = IF @ = "open" THEN e ELSE @]
    /\ UNCHANGED <<table, ends, opened, owner, toMaster, toWorker>>

\* engine().stop() without the master, or a send without pfd_.
ReportStops(w) == Reporting(w) /\ w \in cut /\ Gone(w)

\* The run is over, or the process dies.
Exit(w) == proc[w] # "down" /\ Gone(w)

\* handle_read fails: there is no callback, and the next report is the end.
SeesReset(w) ==
    /\ proc[w] = "up" /\ w \notin cut /\ wire[link[w]] = "reset"
    /\ cut' = cut \cup {w}
    /\ UNCHANGED <<table, ends, net, toMaster, toWorker, proc, link, start_tp, due, loads, reports>>

LinkReset(c) ==
    /\ wire[c] = "open" /\ Cardinality({b \in Conns : wire[b] = "reset"}) < MaxResets
    /\ wire' = [wire EXCEPT ![c] = "reset"]
    /\ UNCHANGED <<table, ends, opened, owner, toMaster, toWorker, workers>>

(***************************************************************************)

Master == \E c \in Conns :
    Accept(c) \/ Unwatch(c) \/ ReadEnds(c) \/ Note(c) \/ NoteDestroys(c) \/ Report(c)
Worker(w) == Ready(w) \/ Command(w) \/ Start(w)

Next ==
    \/ Master
    \/ \E w \in Ids : Worker(w) \/ Launch(w) \/ SendReport(w) \/ ReportStops(w)
                      \/ SeesReset(w) \/ Exit(w)
    \/ \E c \in Conns : LinkReset(c)

Spec == Init /\ [][Next]_vars

\* The engines poll their connections and timers for ever, and the network
\* delivers what it carries.
FairSpec == Spec /\ WF_vars(Master) /\ \A w \in Ids : WF_vars(Worker(w))

(***************************************************************************)

\* The callbacks came as the master expects them: each disconnect after the
\* registration of its connection and before the next one of its worker.
Orderly == ~stray /\ ~overlap

\* The live connection that a worker registered on.
Serves(c, i) == state[c] = "connected" /\ c \in noted /\ id[c] = i

\* What the master shows is true as far as it can know: a worker is online
\* exactly if a connection that it registered on is not known to be broken, that
\* connection is the one commands go to, workers_online counts such workers, and
\* no offline worker shows load.
TableIsTrue ==
    Orderly => /\ \A i \in Ids : i \in worker_desc <=> \E c \in Conns : Serves(c, i)
               /\ \A i \in worker_desc : Serves(worker_conns[i], i)
               /\ workers_online = Cardinality(worker_desc)
               /\ showing \subseteq worker_desc

\* The master survives the end of a worker that registered on its connection and went
\* with no command on the way, once poll watches no more for EPOLLOUT: what ends the
\* master is a reset, at once or when it later sends on or drops a connection that
\* handle_read gave up without leaving the state connected, or the end of a worker
\* at another time.
MasterSurvives ==
    [][crashed' /\ ~crashed => \E c \in Conns :
          \/ wire[c] = "reset"
          \/ wire[c] = "fin" /\ (c \notin noted \/ c = fresh \/ toWorker[c] > 0)]_vars

\* "all workers ready, distributing workloads": a command is sent only when every
\* worker is registered and none is known to be gone.
CommandNeedsAll ==
    [][(\E c \in Conns : toWorker'[c] > toWorker[c]) /\ Orderly'
         => \A i \in Ids : worker_conns'[i] # None /\ state[worker_conns'[i]] = "connected"]_vars

\* A worker process starts its loaders at most once, however often the master
\* repeats the command: each registration beyond the last worker's repeats it.
LoadsOnce == \A w \in Ids : loads[w] <= 1

Stable == \A w \in Ids : proc[w] # "down" /\ wire[link[w]] = "open"

\* Once every worker stays connected, all of them start.
AllLoad == <>[](Stable /\ Orderly) => <>(\A w \in Ids : loads[w] = 1)

================================================================================
