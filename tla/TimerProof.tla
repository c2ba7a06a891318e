----------------------------- MODULE TimerProof -----------------------------
(***************************************************************************)
(* Proofs about Timer for any set of timers, clock bound, periods and      *)
(* repeat counts.  The conjunction of TypeOK, Accounting and NeverEarly is *)
(* inductive: when a timer fires, Accounting says that its key is the time *)
(* NeverEarly is about.                                                    *)
(***************************************************************************)
EXTENDS Timer, TLAPS

TimersOK == TypeOK /\ Accounting /\ NeverEarly

\* Nothing is scheduled when the reactor is built.
LEMMA InitOK == Init => TimersOK
BY TimeAssumption
DEF Init, TimersOK, TypeOK, Accounting, Accounted, Periods, NeverEarly, Infinite

\* One more period (id_->first += interval_).
LEMMA OnePeriod ==
    ASSUME NEW a \in Nat, NEW n \in Nat \ {0}, NEW i \in Nat
    PROVE  /\ a + (n - 1) * i + i = a + n * i
           /\ (n + 1) - 1 = n
<1>1. PICK m \in Nat : m = n - 1
  OBVIOUS
<1>2. (m + 1) * i = m * i + i /\ m * i \in Nat
  OBVIOUS
<1>3. n = m + 1
  BY <1>1
<1> QED BY <1>1, <1>2, <1>3

\* schedule_at_with_repeat keeps the accounts of all timers.
LEMMA ScheduleOK ==
    ASSUME NEW t \in Timers, NEW at \in 0 .. MaxTime, NEW j \in Intervals,
           NEW r \in Repeats, TimersOK, Schedule(t, at, j, r)
    PROVE  TimersOK'
<1>0. /\ at \in Nat /\ j \in Nat /\ r \in Nat \cup {Infinite} /\ r # 0
  BY TimeAssumption, IntervalsAssumption, RepeatsAssumption DEF Infinite
<1>1. TypeOK'
  BY Zenon, <1>0 DEF TimersOK, TypeOK, Schedule
<1>2. fired[t] = 0 /\ fired' = fired /\ pc' = pc /\ it' = it
  BY DEF TimersOK, TypeOK, Accounting, Accounted, Schedule, Infinite
<1>3. ~(pc = "callback" /\ it = t)
  BY <1>2 DEF TimersOK, TypeOK, Accounting
<1>4. ASSUME NEW u \in Timers PROVE Accounted(u)'
  <2>1. CASE u = t
    <3>1. key'[t] = at /\ first'[t] = at /\ interval'[t] = j
          /\ repeat'[t] = r /\ count'[t] = r /\ t \in armed'
      BY Zenon DEF TimersOK, TypeOK, Schedule
    <3>2. Periods(t)' = 0
      BY Zenon, <1>2, <1>3 DEF Periods
    <3> QED BY <1>0, <1>2, <2>1, <3>1, <3>2 DEF Accounted, Infinite
  <2>2. CASE u # t
    <3>1. /\ key'[u] = key[u] /\ first'[u] = first[u]
          /\ interval'[u] = interval[u] /\ repeat'[u] = repeat[u]
          /\ count'[u] = count[u] /\ (u \in armed' <=> u \in armed)
      BY Zenon, <2>2 DEF TimersOK, TypeOK, Schedule
    <3>2. Periods(u)' = Periods(u)
      BY Zenon, <1>2 DEF Periods
    <3> QED BY Zenon, <1>2, <3>1, <3>2 DEF TimersOK, Accounting, Accounted
  <2> QED BY Zenon, <2>1, <2>2
<1>5. Accounting'
  BY Zenon, <1>2, <1>4 DEF TimersOK, Accounting, Schedule
<1>6. NeverEarly'
  BY <1>2 DEF TimersOK, TypeOK, NeverEarly, Schedule
<1> QED BY Zenon, <1>1, <1>5, <1>6 DEF TimersOK

\* alarm() is on time and keeps the accounts.
LEMMA AlarmOK == ASSUME TimersOK, Alarm PROVE TimersOK'
<1>0. /\ TypeOK /\ Accounted(it) /\ it \in armed /\ pc = "loop"
      /\ key[it] <= now
  BY Zenon DEF TimersOK, TypeOK, Accounting, Alarm, IsDue
<1>1. /\ Periods(it) = fired[it]
      /\ repeat[it] # Infinite => count[it] > 0 /\ fired[it] < repeat[it]
  BY <1>0 DEF Periods, Accounted, TypeOK, Infinite
<1>2. TypeOK'
  BY <1>0, <1>1 DEF TypeOK, Alarm, Accounted, Infinite
<1>3. /\ fired'[it] = fired[it] + 1 /\ it' = it /\ pc' = "callback"
      /\ \A u \in Timers \ {it} : fired'[u] = fired[u] /\ count'[u] = count[u]
      /\ UNCHANGED <<now, armed, key, interval, first, repeat>>
      /\ count'[it] = IF count[it] = Infinite THEN Infinite ELSE count[it] - 1
  BY Zenon, <1>0 DEF TypeOK, Alarm
<1>4. ASSUME NEW u \in Timers PROVE Accounted(u)'
  <2>1. CASE u = it
    <3>1. Periods(it)' = fired[it]
      BY <1>0, <1>3 DEF Periods, TypeOK
    <3> QED BY <1>0, <1>1, <1>3, <2>1, <3>1 DEF Accounted, TypeOK, Infinite
  <2>2. CASE u # it
    <3>1. Periods(u)' = Periods(u)
      BY Zenon, <1>0, <1>3, <2>2 DEF Periods
    <3> QED BY Zenon, <1>3, <2>2, <3>1 DEF TimersOK, Accounting, Accounted
  <2> QED BY Zenon, <2>1, <2>2
<1>5. Accounting'
  BY <1>0, <1>3, <1>4 DEF Accounting, TypeOK
<1>6. NeverEarly'
  <2>1. first[it] + ((fired[it] + 1) - 1) * interval[it] <= now
    BY <1>0, <1>1 DEF Accounted, TypeOK
  <2> QED BY Zenon, <1>0, <1>3, <2>1 DEF TimersOK, NeverEarly, TypeOK
<1> QED BY Zenon, <1>2, <1>5, <1>6 DEF TimersOK

\* The erase and re-insertion of tick() keep the accounts, wherever the erased
\* iterator continues.
LEMMA RearmOK == ASSUME TimersOK, Rearm PROVE TimersOK'
<1>0. /\ TypeOK /\ Accounted(it) /\ it \in armed /\ pc = "callback"
      /\ fired[it] \in Nat \ {0}
  BY DEF TimersOK, TypeOK, Accounting, Rearm
<1>1. /\ UNCHANGED <<now, interval, count, first, repeat, fired>>
      /\ pc' \in {"idle", "loop"} /\ it' \in Timers
      /\ pc' = "loop" => it' \in armed'
      /\ key'[it] = key[it] + interval[it]
      /\ \A u \in Timers \ {it} : key'[u] = key[u]
                                  /\ (u \in armed' <=> u \in armed)
      /\ it \in armed' <=> count[it] # 0
  BY Zenon, <1>0 DEF TypeOK, Rearm, NextKey
<1>2. TypeOK'
  BY <1>0, <1>1 DEF TypeOK, Rearm, NextKey
<1>3. \A u \in Timers : Periods(u)' = fired[u]
  BY Zenon, <1>1 DEF Periods
<1>4. ASSUME NEW u \in Timers PROVE Accounted(u)'
  <2>1. CASE u = it
    <3>1. key[it] = first[it] + (fired[it] - 1) * interval[it]
      BY Zenon, <1>0 DEF Accounted, Periods
    <3>2. first[it] \in Nat /\ interval[it] \in Nat
      BY Zenon, <1>0 DEF TypeOK
    <3>3. key'[it] = first[it] + fired[it] * interval[it]
      BY <1>0, <1>1, <3>1, <3>2, OnePeriod
    <3>4. it \in armed' <=> repeat[it] = Infinite \/ fired[it] < repeat[it]
      BY <1>0, <1>1 DEF Accounted, TypeOK, Infinite
    <3> QED BY Zenon, <1>0, <1>1, <1>3, <2>1, <3>3, <3>4 DEF Accounted
  <2>2. CASE u # it
    <3>1. Periods(u) = fired[u]
      BY Zenon, <2>2 DEF Periods
    <3> QED BY Zenon, <1>1, <1>3, <2>2, <3>1 DEF TimersOK, Accounting, Accounted
  <2> QED BY Zenon, <2>1, <2>2
<1>5. Accounting'
  BY Zenon, <1>1, <1>4 DEF Accounting
<1>6. NeverEarly'
  BY Zenon, <1>1 DEF TimersOK, NeverEarly
<1> QED BY Zenon, <1>2, <1>5, <1>6 DEF TimersOK

\* Every step keeps the invariant.
LEMMA NextOK == TimersOK /\ [Next]_vars => TimersOK'
<1> SUFFICES ASSUME TimersOK, [Next]_vars PROVE TimersOK'
  BY Zenon
<1>1. CASE UNCHANGED vars \/ TickEmpty
  BY Zenon, <1>1 DEF vars, TickEmpty, TimersOK, TypeOK, Accounting, Accounted,
     Periods, NeverEarly
<1>2. CASE Clock
  <2>1. now' \in 0 .. MaxTime /\ now' = now + 1 /\ now \in Nat
    BY <1>2, TimeAssumption DEF Clock, TimersOK, TypeOK
  <2>2. TypeOK' /\ Accounting'
    BY Zenon, <1>2, <2>1 DEF Clock, TimersOK, TypeOK, Accounting, Accounted, Periods
  <2>3. NeverEarly'
    BY <1>2, <2>1 DEF Clock, TimersOK, TypeOK, NeverEarly
  <2> QED BY Zenon, <2>2, <2>3 DEF TimersOK
<1>3. CASE (\E t \in Timers : StartTick(t)) \/ Return
  BY Zenon, <1>3 DEF StartTick, IsBegin, Return, TimersOK, TypeOK, Accounting,
     Accounted, Periods, NeverEarly
<1>4. CASE \E t \in Timers, at \in 0 .. MaxTime, i \in Intervals,
              r \in Repeats : Schedule(t, at, i, r)
  BY Zenon, <1>4, ScheduleOK
<1> QED BY Zenon, <1>1, <1>2, <1>3, <1>4, AlarmOK, RearmOK DEF Next, Tick

\* No timer of timer_manager is lost, fires too often, too early or drifts.
THEOREM TimersInvariant == Spec => []TimersOK
BY InitOK, NextOK, PTL DEF Spec

\* The accounts of the timers: membership in the map, key and count_.
THEOREM TimersAccounted == Spec => []Accounting
<1>1. TimersOK => Accounting
  BY Zenon DEF TimersOK
<1> QED BY <1>1, TimersInvariant, PTL

\* No call of a timer's function comes before its time.
THEOREM TimersNeverEarly == Spec => []NeverEarly
<1>1. TimersOK => NeverEarly
  BY Zenon DEF TimersOK
<1> QED BY <1>1, TimersInvariant, PTL

\* Keys, periods and counts keep their types: count_ of a bounded timer does not pass
\* zero, and inside tick() the iterator names a timer.
THEOREM TimerTypes == Spec => []TypeOK
<1>1. TimersOK => TypeOK
  BY Zenon DEF TimersOK
<1> QED BY <1>1, TimersInvariant, PTL
=============================================================================
