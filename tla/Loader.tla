------------------------------ MODULE Loader ------------------------------
(***************************************************************************)
(* A sharded service, distributor<http_client>, as distributed_http_loader *)
(* uses it: core 0 creates one instance per worker core, starts the load,  *)
(* is told by end_game when the last worker finished, collects the results *)
(* with map_reduce, reports them and stops the engines.                    *)
(*                                                                         *)
(* The message queues between the cores are their promise (AsyncCall): one *)
(* list of calls in each direction of each pair, run oldest first.         *)
(* Timers may fire late by any amount, so a delay of one second orders     *)
(* nothing.  ended_services_ is a plain counter that every worker          *)
(* increments from its own thread: the load of the increment, its store    *)
(* and the comparison are three steps.  The comparison names the counter   *)
(* again: a build uses the value it stored or reads the counter once more. *)
(***************************************************************************)
EXTENDS Naturals, FiniteSets, Sequences, FiniteSetsExt

CONSTANTS
    Workers,   \* the cores other than core 0
    MaxReqs,   \* bound: requests a worker completes
    Word       \* the values of an unsigned

ASSUME WorkersAssumption == IsFiniteSet(Workers) /\ Workers # {}
ASSUME LoaderBounds == MaxReqs \in Nat /\ Word \in Nat \ {0}

VARIABLES
    inst,      \* workers whose instances_ entry holds a service
    inbox,     \* [Workers -> Seq(Task)]: calls submitted by core 0 that have not run
    replies,   \* [Workers -> Seq(Nat)]: mapper results not yet reduced on core 0
    loading,   \* workers that opened their connections
    armed,     \* workers with a pending duration task
    done,      \* [Workers -> Nat]: nr_done, summed over the worker's connections
    stats,     \* [Workers -> Nat]: stats.done_reqs
    ended,     \* ended_services_
    reg,       \* [Workers -> Nat]: the worker's copy of it inside end_game
    pc,        \* [Workers -> {"running", "loaded", "stored", "over"}]: progress through finish
    raced,     \* two workers were inside end_game at once (history)
    calls,     \* workers whose call of on_done_ on core 0 has not run
    dones,     \* how often on_done_ ran
    reqs,      \* the adder
    summaries, \* pending tasks that report
    stops,     \* pending tasks that stop the engine
    reports,   \* the totals reported to the master
    stopped,   \* stopped engines
    started,   \* core 0 has started the service
    crashed    \* how the process died: "no", "exception" or "division"

worker == <<inst, loading, armed, done, stats>>
game == <<ended, reg, pc, raced, calls>>
main == <<dones, reqs, summaries, stops, reports, started>>
vars == <<inbox, replies, stopped, crashed, worker, game, main>>

Task == {"create", "connect", "run", "map", "stop"}

Running == crashed = "no"
Counting == {w \in Workers : pc[w] \in {"loaded", "stored"}}   \* inside end_game
Alive(w) == Running /\ w \notin stopped /\ w \notin Counting
MainAlive == Running /\ 0 \notin stopped

\* submit_to for every worker: the calls join the end of each worker's list.
SubmitAll(tasks) == inbox' = [w \in Workers |-> inbox[w] \o tasks]

\* The comparison of end_game: instances_ has one entry per core.
AllEnded(n) == n >= Cardinality(Workers)
----------------------------------------------------------------------------
(* Core 0. *)

\* (mutant) connects before the instances are created
StartConnectsFirst ==
    /\ MainAlive /\ ~started
    /\ started' = TRUE
    /\ SubmitAll(<<"connect", "create", "run">>)
    /\ UNCHANGED <<dones, reqs, summaries, stops, reports, replies, stopped, crashed, worker, game>>

\* The task that the master's command schedules: start, then connect and run on all.
Start ==
    /\ MainAlive /\ ~started
    /\ started' = TRUE
    /\ SubmitAll(<<"create", "connect", "run">>)
    /\ UNCHANGED <<dones, reqs, summaries, stops, reports, replies, stopped, crashed, worker, game>>

\* on_done_, called from end_game of w: collect, and report a second later.
OnDone(w) ==
    /\ MainAlive /\ w \in calls
    /\ calls' = calls \ {w}
    /\ dones' = dones + 1
    /\ SubmitAll(<<"map">>)
    /\ summaries' = summaries + 1
    /\ UNCHANGED <<ended, reg, pc, raced, reqs, stops, reports, started, replies, stopped, crashed, worker>>

\* (mutant) a result is added twice
ReduceTwice(w) ==
    /\ MainAlive /\ replies[w] # <<>>
    /\ reqs' = (reqs + Head(replies[w]) + Head(replies[w])) % Word
    /\ replies' = [replies EXCEPT ![w] = Tail(@)]
    /\ UNCHANGED <<dones, summaries, stops, reports, started, inbox, stopped, crashed, worker, game>>

\* The reducer: the oldest result of w is added up, in an unsigned.
Reduce(w) ==
    /\ MainAlive /\ replies[w] # <<>>
    /\ reqs' = (reqs + Head(replies[w])) % Word
    /\ replies' = [replies EXCEPT ![w] = Tail(@)]
    /\ UNCHANGED <<dones, summaries, stops, reports, started, inbox, stopped, crashed, worker, game>>

\* The report divides the accumulated delay by the number of requests.
Summary ==
    /\ MainAlive /\ summaries > 0
    /\ summaries' = summaries - 1
    /\ IF reqs = 0
         THEN crashed' = "division" /\ UNCHANGED <<reports, stops>>
         ELSE reports' = Append(reports, reqs) /\ stops' = stops + 1 /\ UNCHANGED crashed
    /\ UNCHANGED <<dones, reqs, started, inbox, replies, stopped, worker, game>>

\* (mutant) the workers are not told
StopForgets ==
    /\ MainAlive /\ stops > 0
    /\ stops' = stops - 1
    /\ stopped' = stopped \cup {0}
    /\ UNCHANGED <<dones, reqs, summaries, reports, started, inbox, replies, crashed, worker, game>>

\* engine().stop() on core 0: the workers are told first.
Stop ==
    /\ MainAlive /\ stops > 0
    /\ stops' = stops - 1
    /\ stopped' = stopped \cup {0}
    /\ SubmitAll(<<"stop">>)
    /\ UNCHANGED <<dones, reqs, summaries, reports, started, replies, crashed, worker, game>>
----------------------------------------------------------------------------
(* A worker: the calls it runs. *)

Take(w, task) ==
    /\ Alive(w) /\ inbox[w] # <<>> /\ Head(inbox[w]) = task
    /\ inbox' = [inbox EXCEPT ![w] = Tail(@)]
    /\ UNCHANGED <<main, game>>

Create(w) ==
    /\ Take(w, "create")
    /\ inst' = inst \cup {w}
    /\ UNCHANGED <<replies, loading, armed, done, stats, stopped, crashed>>

\* get_local_service throws when there is no instance.  Nothing catches it: the process
\* is gone, and what the call does to the state besides does not matter.
GetLocalService(w) == crashed' = IF w \in inst THEN crashed ELSE "exception"

Connect(w) ==
    /\ Take(w, "connect")
    /\ GetLocalService(w)
    /\ loading' = loading \cup {w}
    /\ UNCHANGED <<inst, replies, armed, done, stats, stopped>>

Run(w) ==
    /\ Take(w, "run")
    /\ GetLocalService(w)
    /\ armed' = armed \cup {w}
    /\ UNCHANGED <<inst, replies, loading, done, stats, stopped>>

Map(w) ==
    /\ Take(w, "map")
    /\ GetLocalService(w)
    /\ replies' = [replies EXCEPT ![w] = Append(@, stats[w])]
    /\ UNCHANGED <<stopped, worker>>

Halt(w) ==
    /\ Take(w, "stop")
    /\ stopped' = stopped \cup {w}
    /\ UNCHANGED <<replies, crashed, worker>>
----------------------------------------------------------------------------
(* A worker: the load, and its end. *)

\* A response came: complete_request.  A connection whose handshake was under way when
\* the duration ended goes on.
Complete(w) ==
    /\ Alive(w) /\ w \in loading /\ done[w] < MaxReqs
    /\ done' = [done EXCEPT ![w] = @ + 1]
    /\ UNCHANGED <<inbox, replies, stopped, crashed, inst, loading, armed, stats, game, main>>

\* (mutant) the duration task stays armed
ExpireAgain(w) ==
    /\ Alive(w) /\ w \in armed
    /\ stats' = [stats EXCEPT ![w] = @ + done[w]]
    /\ reg' = [reg EXCEPT ![w] = ended]
    /\ pc' = [pc EXCEPT ![w] = "loaded"]
    /\ raced' = (raced \/ Counting # {})
    /\ UNCHANGED <<inbox, replies, stopped, crashed, inst, loading, armed, done, ended, calls, main>>

\* The duration is over: every connection's count is added, and finish enters end_game,
\* which loads the counter.
Expire(w) ==
    /\ Alive(w) /\ w \in armed
    /\ armed' = armed \ {w}
    /\ stats' = [stats EXCEPT ![w] = @ + done[w]]
    /\ reg' = [reg EXCEPT ![w] = ended]
    /\ pc' = [pc EXCEPT ![w] = "loaded"]
    /\ raced' = (raced \/ Counting # {})
    /\ UNCHANGED <<inbox, replies, stopped, crashed, inst, loading, done, ended, calls, main>>

\* end_game stores the incremented value.
Count(w) ==
    /\ Running /\ pc[w] = "loaded"
    /\ ended' = reg[w] + 1
    /\ reg' = [reg EXCEPT ![w] = @ + 1]
    /\ pc' = [pc EXCEPT ![w] = "stored"]
    /\ UNCHANGED <<inbox, replies, stopped, crashed, raced, calls, worker, main>>

\* (mutant) compares one too many
EndGameEarly(w) ==
    /\ Running /\ pc[w] = "stored"
    /\ pc' = [pc EXCEPT ![w] = "over"]
    /\ \E n \in {reg[w], ended} : calls' = IF AllEnded(n + 1) THEN calls \cup {w} ELSE calls
    /\ UNCHANGED <<inbox, replies, stopped, crashed, ended, reg, raced, worker, main>>

\* end_game compares what it stored, or the counter read again, and calls core 0 if that
\* is the count of all.
EndGame(w) ==
    /\ Running /\ pc[w] = "stored"
    /\ pc' = [pc EXCEPT ![w] = "over"]
    /\ \E n \in {reg[w], ended} : calls' = IF AllEnded(n) THEN calls \cup {w} ELSE calls
    /\ UNCHANGED <<inbox, replies, stopped, crashed, ended, reg, raced, worker, main>>
----------------------------------------------------------------------------
Init ==
    /\ inst = {} /\ loading = {} /\ armed = {} /\ calls = {} /\ stopped = {}
    /\ inbox = [w \in Workers |-> <<>>]
    /\ replies = [w \in Workers |-> <<>>]
    /\ done = [w \in Workers |-> 0]
    /\ stats = [w \in Workers |-> 0]
    /\ ended = 0
    /\ reg = [w \in Workers |-> 0]
    /\ pc = [w \in Workers |-> "running"]
    /\ raced = FALSE
    /\ dones = 0 /\ reqs = 0 /\ summaries = 0 /\ stops = 0
    /\ reports = <<>>
    /\ started = FALSE
    /\ crashed = "no"

Worker(w) ==
    \/ Create(w) \/ Connect(w) \/ Run(w) \/ Map(w) \/ Halt(w)
    \/ Expire(w) \/ Count(w) \/ EndGame(w)

Main == Start \/ Summary \/ Stop \/ \E w \in Workers : OnDone(w) \/ Reduce(w)

Next == Main \/ \E w \in Workers : Worker(w) \/ Complete(w)

Spec == Init /\ [][Next]_vars

\* Every reactor polls its queues and its timer again and again (Smp and Timer); a
\* summary is due some time, but may find results missing.
FairSpec == Spec /\ WF_vars(Main) /\ \A w \in Workers : WF_vars(Worker(w))
----------------------------------------------------------------------------
TypeOK ==
    /\ inst \subseteq Workers /\ loading \subseteq Workers /\ armed \subseteq Workers /\ calls \subseteq Workers
    /\ stopped \subseteq Workers \cup {0}
    /\ inbox \in [Workers -> Seq(Task)]
    /\ replies \in [Workers -> Seq(Nat)]
    /\ done \in [Workers -> 0..MaxReqs]
    /\ stats \in [Workers -> Nat]
    /\ ended \in Nat
    /\ reg \in [Workers -> Nat]
    /\ pc \in [Workers -> {"running", "loaded", "stored", "over"}]
    /\ raced \in BOOLEAN
    /\ {dones, summaries, stops} \subseteq Nat
    /\ reqs \in 0..(Word - 1)
    /\ reports \in Seq(Nat)
    /\ started \in BOOLEAN
    /\ crashed \in {"no", "exception", "division"}

Finished == {w \in Workers : pc[w] \in {"stored", "over"}}

\* on_done_ is not called, and not even submitted to core 0, before every worker has
\* ended its load and counted itself, however the increments of ended_services_ race.
DoneOnlyWhenAllFinished == calls # {} \/ dones > 0 => Finished = Workers

\* As long as no two workers are inside end_game at once, on_done_ is submitted exactly
\* once, by the worker that leaves end_game last.  (Otherwise an increment can be lost and
\* nobody submits it, or two workers both read the full count and submit it twice.)
DoneOnceUnlessRaced ==
    ~raced => dones + Cardinality(calls) = IF \A w \in Workers : pc[w] = "over" THEN 1 ELSE 0

\* A total that is reported never exceeds the requests the workers completed, taken once
\* for each run of on_done_, whatever part of the results had arrived when it was due.
ReportWithinTotal ==
    \A i \in DOMAIN reports : reports[i] <= dones * MapThenSumSet(LAMBDA w : done[w], Workers)

\* No call finds its core without an instance: creation is ahead of it in the list.
InstanceBeforeUse == crashed # "exception"

\* Once on_done_ ran, the engines of all cores stop, or the report died dividing by zero.
DoneThenStops == dones > 0 ~> (stopped = Workers \cup {0} \/ crashed = "division")

\* "The callback will be executed when all services has finished their work"
\* (include/distributor.h:86).
AllFinishedThenDone == (Finished = Workers) ~> (dones > 0)
=============================================================================
