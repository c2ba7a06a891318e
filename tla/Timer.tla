------------------------------- MODULE Timer -------------------------------
(***************************************************************************)
(* The timers of one reactor (src/src/timer.cc, src/include/timer.h).      *)
(*                                                                         *)
(* timers_ is a multimap from trigger times to timers; tick() walks it     *)
(* from its beginning and fires what is due.  Timers with the same key     *)
(* are not ordered here: begin() is any timer with the least key.          *)
(*                                                                         *)
(* tick() erases the element its iterator points to and goes on using the  *)
(* iterator (it->first, it++).  That is undefined; the model lets the loop *)
(* continue at any element that is in the map, or end.                     *)
(***************************************************************************)
EXTENDS Integers

CONSTANTS
    Timers,      \* the timers a program may ever schedule
    MaxTime,     \* bound of the clock
    Intervals,   \* periods in use (microseconds, at least 1)
    Repeats      \* values of RepeatCount in use

Infinite == -1   \* constexpr int infinite

ASSUME TimeAssumption == MaxTime \in Nat
ASSUME IntervalsAssumption == Intervals \subseteq Nat \ {0}
ASSUME RepeatsAssumption == Repeats \subseteq (Nat \ {0}) \cup {Infinite}

VARIABLES
    now,        \* system_clock::now()
    armed,      \* the timers in timers_
    key,        \* their key; equal to id_->first whenever user code can look
    interval,   \* timer::interval_
    count,      \* timer::count_
    pc,         \* "idle", or inside tick(): "loop" and "callback"
    it,         \* the timer the iterator of tick() points to
    first,      \* history: the trigger_time it was scheduled for
    repeat,     \* history: its RepeatCount, 0 if it has not been scheduled
    fired       \* history: how often its function was called

vars == <<now, armed, key, interval, count, pc, it, first, repeat, fired>>

Init ==
    /\ now = 0
    /\ armed = {}
    /\ key = [t \in Timers |-> 0]
    /\ interval = [t \in Timers |-> 0]
    /\ count = [t \in Timers |-> 0]
    /\ pc = "idle"
    /\ it \in Timers
    /\ first = [t \in Timers |-> 0]
    /\ repeat = [t \in Timers |-> 0]
    /\ fired = [t \in Timers |-> 0]

\* schedule_at_with_repeat, the function the other three end in: user code, in
\* a callback or outside tick(), arms a new timer; trigger_time may have passed.
Schedule(t, at, i, r) ==
    /\ pc \in {"idle", "callback"}
    /\ repeat[t] = 0
    /\ armed' = armed \cup {t}
    /\ key' = [key EXCEPT ![t] = at]
    /\ interval' = [interval EXCEPT ![t] = i]
    /\ count' = [count EXCEPT ![t] = r]
    /\ first' = [first EXCEPT ![t] = at]
    /\ repeat' = [repeat EXCEPT ![t] = r]
    /\ UNCHANGED <<now, pc, it, fired>>

Clock ==
    /\ now < MaxTime
    /\ now' = now + 1
    /\ UNCHANGED <<armed, key, interval, count, pc, it, first, repeat, fired>>

\* (mutant) the walk starts anywhere.
IsAnywhere(t) == t \in armed

\* t is timers_.begin().
IsBegin(t) == t \in armed /\ \A u \in armed : key[t] <= key[u]

\* (mutant) now <= it->first ends the loop one tick too late.
IsDueEarly(t) == key[t] <= now + 1

\* Not (now < it->first).
IsDue(t) == key[t] <= now

\* tick() on an empty map.
TickEmpty ==
    /\ pc = "idle"
    /\ armed = {}
    /\ UNCHANGED vars

\* tick() on a map that is not empty.
StartTick(t) ==
    /\ pc = "idle"
    /\ IsBegin(t)
    /\ pc' = "loop"
    /\ it' = t
    /\ UNCHANGED <<now, armed, key, interval, count, first, repeat, fired>>

\* The early return of tick().
Return ==
    /\ pc = "loop"
    /\ ~IsDue(it)
    /\ pc' = "idle"
    /\ UNCHANGED <<now, armed, key, interval, count, it, first, repeat, fired>>

\* alarm() up to the call of func_ (a timer in the map has a function and a
\* count that is not 0).
Alarm ==
    /\ pc = "loop"
    /\ IsDue(it)
    /\ count' = [count EXCEPT ![it] = IF @ = Infinite THEN @ ELSE @ - 1]
    /\ fired' = [fired EXCEPT ![it] = @ + 1]
    /\ pc' = "callback"
    /\ UNCHANGED <<now, armed, key, interval, it, first, repeat>>

\* (mutant) a periodic timer is re-armed relative to the time it fired.
NextKeyDrifting(t) == now + interval[t]

\* id_->first += interval_
NextKey(t) == key[t] + interval[t]

\* The rest of the loop body, after func_ returned: erase, insert again unless
\* the count is used up, advance the iterator.
Rearm ==
    /\ pc = "callback"
    /\ key' = [key EXCEPT ![it] = NextKey(it)]
    /\ armed' = IF count[it] # 0 THEN armed ELSE armed \ {it}
    /\ \/ pc' = "idle" /\ UNCHANGED it
       \/ pc' = "loop" /\ it' \in armed'
    /\ UNCHANGED <<now, interval, count, first, repeat, fired>>

Tick == (\E t \in Timers : StartTick(t)) \/ Return \/ Alarm \/ Rearm

Next ==
    \/ \E t \in Timers, at \in 0 .. MaxTime, i \in Intervals, r \in Repeats :
           Schedule(t, at, i, r)
    \/ Clock
    \/ TickEmpty
    \/ Tick

Spec == Init /\ [][Next]_vars

\* The reactor calls tick() in every iteration of its loop and a callback
\* returns.
FairSpec == Spec /\ WF_vars(Tick)

-----------------------------------------------------------------------------
\* Types.
TypeOK ==
    /\ now \in 0 .. MaxTime
    /\ armed \in SUBSET Timers
    /\ key \in [Timers -> Nat]
    /\ interval \in [Timers -> Nat]
    /\ count \in [Timers -> Nat \cup {Infinite}]
    /\ pc \in {"idle", "loop", "callback"}
    /\ it \in Timers
    /\ first \in [Timers -> Nat]
    /\ repeat \in [Timers -> Nat \cup {Infinite}]
    /\ fired \in [Timers -> Nat]

\* How many periods of t are over: all its calls but the one in progress.
Periods(t) == IF pc = "callback" /\ it = t THEN fired[t] - 1 ELSE fired[t]

\* No timer is lost, runs too often or drifts: as long as calls are left a timer
\* is in the map, its key is its trigger time plus a whole number of periods,
\* and count_ is what is left of RepeatCount (alarm, tick), whatever the erased
\* iterator does and whichever timers its callback schedules.
Accounted(t) ==
    /\ key[t] = first[t] + Periods(t) * interval[t]
    /\ t \in armed <=> repeat[t] = Infinite \/ Periods(t) < repeat[t]
    /\ count[t] = IF repeat[t] = Infinite THEN Infinite
                                          ELSE repeat[t] - fired[t]
    /\ repeat[t] = Infinite \/ fired[t] <= repeat[t]

\* Accounted for every timer; the iterator of tick() points into the map.
Accounting ==
    /\ \A t \in Timers : Accounted(t)
    /\ pc \in {"loop", "callback"} => it \in armed
    /\ pc = "callback" => fired[it] > 0

\* The k-th call of a timer's function does not come before its trigger time
\* plus k - 1 periods.
NeverEarly ==
    \A t \in Timers :
        fired[t] > 0 => first[t] + (fired[t] - 1) * interval[t] <= now

\* A call that is due is made: neither the skipped elements of the erased
\* iterator nor periodic timers that lag behind starve a timer.
DueFires ==
    \A t \in Timers, k \in 1 .. MaxTime + 1 :
        /\ repeat[t] = Infinite \/ k <= repeat[t]
        /\ t \in armed
        /\ first[t] + (k - 1) * interval[t] <= now
        ~> fired[t] >= k
=============================================================================
