---------------------------- MODULE LoaderProof ----------------------------
(***************************************************************************)
(* The race of end_game, for any number of workers: increments of the      *)
(* plain counter ended_services_ can be lost, so on_done_ may never run,   *)
(* and a worker may read the count that another completed, so it may run   *)
(* twice; it never runs early, and without a race it runs once.            *)
(*                                                                         *)
(* The argument: a value n of the counter, or of a worker's copy of it, is *)
(* supported by n different finished workers, one that stored each of 1 to *)
(* n.  So a worker that sees the number of workers finds all finished.     *)
(* Without a race the counter is the number of finished workers.           *)
(*                                                                         *)
(* A run of on_done_ asks each worker for its result once, so what is      *)
(* reported is at most what the workers completed, once for each run.      *)
(***************************************************************************)
EXTENDS Loader, FiniteSetTheorems, WellFoundedInduction, TLAPS

Supported(n) == \A k \in 1..n : \E u \in Finished : reg[u] = k

\* A worker is told to run once, and finishes once.
RunsOnce(w) ==
    /\ \A j \in 1..Len(inbox[w]) : inbox[w][j] = "run" =>
        /\ pc[w] = "running" /\ w \notin armed
        /\ \A k \in 1..Len(inbox[w]) : inbox[w][k] = "run" => k = j
    /\ w \in armed => pc[w] = "running"
    /\ ~started => inbox[w] = <<>> /\ w \notin armed /\ pc[w] = "running"

GameTypeOK ==
    /\ inbox \in [Workers -> Seq(Task)]
    /\ armed \subseteq Workers /\ calls \subseteq Workers
    /\ ended \in Nat
    /\ reg \in [Workers -> Nat]
    /\ pc \in [Workers -> {"running", "loaded", "stored", "over"}]
    /\ raced \in BOOLEAN
    /\ dones \in Nat /\ summaries \in Nat /\ stops \in Nat

\* Workers that pass through end_game one after the other count themselves.
Orderly ==
    /\ \A u, v \in Counting : u = v
    /\ ended = Cardinality(Finished)
    /\ \A w \in Counting : reg[w] = ended

GameInv ==
    /\ GameTypeOK
    /\ ~started => summaries = 0 /\ stops = 0
    /\ \A w \in Workers : RunsOnce(w)
    /\ Supported(ended)
    /\ \A w \in Workers : pc[w] # "running" => Supported(reg[w])
    /\ \A w \in calls : pc[w] = "over"
    /\ DoneOnlyWhenAllFinished
    /\ ~raced => Orderly
    /\ DoneOnceUnlessRaced

----------------------------------------------------------------------------
(* What support means. *)

\* Any set of workers is finite and no larger than all of them.
LEMMA WorkerSets ==
    ASSUME NEW S \in SUBSET Workers
    PROVE  /\ IsFiniteSet(S) /\ Cardinality(S) \in Nat /\ Cardinality(Workers) \in Nat
           /\ Cardinality(S) <= Cardinality(Workers)
           /\ Cardinality(S) = Cardinality(Workers) => S = Workers
BY Zenon, WorkersAssumption, FS_Subset, FS_CardinalityType

\* A supported value is carried by that many finished workers: the number of all by all.
LEMMA SupportOfAll ==
    ASSUME NEW n \in Nat, Supported(n), AllEnded(n), reg \in [Workers -> Nat]
    PROVE  Finished = Workers
<1> DEFINE f == [k \in 1..n |-> CHOOSE u \in Finished : reg[u] = k]
<1>1. \A k \in 1..n : f[k] \in Finished /\ reg[f[k]] = k
  BY Zenon DEF Supported
<1>2. Finished \in SUBSET Workers
  BY Zenon DEF Finished
<1>3. f \in Injection(1..n, Finished)
  BY <1>1 DEF Injection, IsInjective
<1>4. IsFiniteSet(Finished)
  BY Zenon, <1>2, WorkerSets
<1>5. Cardinality(1..n) <= Cardinality(Finished)
  BY Zenon, <1>3, <1>4, FS_Injection
<1>6. Cardinality(1..n) = n
  BY FS_Interval
<1>7. Cardinality(Finished) = Cardinality(Workers)
  <2>1. PICK a \in Nat, b \in Nat : a = Cardinality(Finished) /\ b = Cardinality(Workers)
    BY Zenon, <1>2, WorkerSets
  <2>2. a <= b /\ n <= a /\ n >= b
    BY Zenon, <1>2, <1>5, <1>6, <2>1, WorkerSets DEF AllEnded
  <2>3. a = b
    BY <2>2
  <2> QED BY Zenon, <2>1, <2>3
<1> QED BY Zenon, <1>2, <1>7, WorkerSets

----------------------------------------------------------------------------
(* The steps. *)

\* Support depends on the counts of finished workers only, which stay.
LEMMA SupportKept ==
    ASSUME NEW n, Supported(n),
           \A u \in Finished : u \in Finished' /\ reg'[u] = reg[u]
    PROVE  Supported(n)'
BY Zenon DEF Supported

\* Steps outside end_game and on_done_ that give a worker no new call.
LEMMA GameFrame ==
    ASSUME GameInv, UNCHANGED <<game, dones>>,
           inbox' \in [Workers -> Seq(Task)], armed' \subseteq Workers,
           summaries' \in Nat, stops' \in Nat, ~started' => summaries' = 0 /\ stops' = 0,
           \A w \in Workers : RunsOnce(w)'
    PROVE  GameInv'
<1>1. UNCHANGED <<ended, reg, pc, raced, calls, dones>>
  BY Zenon DEF game
<1>2. Finished' = Finished /\ Counting' = Counting
  BY Zenon, <1>1 DEF Finished, Counting
<1>3. Supported(ended)' /\ \A w \in Workers : pc'[w] # "running" => Supported(reg[w])'
  BY Zenon, <1>1, <1>2 DEF GameInv, Supported
<1>4. GameTypeOK'
  BY Zenon, <1>1 DEF GameInv, GameTypeOK
<1>5. DoneOnlyWhenAllFinished' /\ DoneOnceUnlessRaced' /\ (~raced' => Orderly')
  BY Zenon, <1>1, <1>2 DEF GameInv, DoneOnlyWhenAllFinished, DoneOnceUnlessRaced, Orderly
<1> QED BY Zenon, <1>1, <1>3, <1>4, <1>5 DEF GameInv

\* A call at the end of a worker's list that is not run.
LEMMA RunsOnceAppend ==
    ASSUME NEW w \in Workers, RunsOnce(w), NEW task \in Task \ {"run"},
           inbox[w] \in Seq(Task), inbox'[w] = inbox[w] \o <<task>>,
           pc'[w] = pc[w], armed' = armed, started' = started, started
    PROVE  RunsOnce(w)'
<1>1. /\ inbox'[w] \in Seq(Task) /\ Len(inbox'[w]) = Len(inbox[w]) + 1
      /\ \A j \in 1..Len(inbox[w]) : inbox'[w][j] = inbox[w][j]
      /\ inbox'[w][Len(inbox[w]) + 1] = task
  BY DEF Task
<1>2. \A j \in 1..Len(inbox'[w]) : inbox'[w][j] = "run" => j \in 1..Len(inbox[w]) /\ inbox[w][j] = "run"
  BY <1>1
<1> QED BY Zenon, <1>2 DEF RunsOnce

\* A list appended to an empty inbox is the inbox.
LEMMA EmptyFirst == <<>> \o <<"create", "connect", "run">> = <<"create", "connect", "run">>
OBVIOUS

\* The start of the service.
LEMMA StartStep ==
    ASSUME GameInv, Start
    PROVE  GameInv'
<1>1. /\ UNCHANGED <<game, dones>> /\ UNCHANGED <<pc, armed, summaries, stops>>
      /\ ~started /\ started' = TRUE
      /\ inbox' = [w \in Workers |-> inbox[w] \o <<"create", "connect", "run">>]
  BY Zenon DEF Start, SubmitAll, game, worker
<1>2. ASSUME NEW w \in Workers
      PROVE  RunsOnce(w)' /\ inbox'[w] \in Seq(Task)
  <2>1. inbox[w] = <<>> /\ w \notin armed /\ pc[w] = "running"
    BY Zenon, <1>1 DEF GameInv, RunsOnce
  <2>2. inbox'[w] = <<"create", "connect", "run">>
    BY Zenon, <1>1, <2>1, EmptyFirst
  <2>3. inbox'[w] \in Seq(Task) /\ Len(inbox'[w]) = 3
    BY <2>2 DEF Task
  <2>4. \A j \in 1..3 : inbox'[w][j] = "run" => j = 3
    BY <2>2
  <2> QED BY <1>1, <2>1, <2>3, <2>4 DEF RunsOnce
<1>3. inbox' \in [Workers -> Seq(Task)]
  BY Zenon, <1>1, <1>2
<1> QED BY Zenon, <1>1, <1>2, <1>3, GameFrame DEF GameInv, GameTypeOK

\* Steps of core 0 that call every worker: collecting, and stopping.
LEMMA SubmitStep ==
    ASSUME GameInv, started, NEW task \in Task \ {"run"},
           SubmitAll(<<task>>), UNCHANGED <<pc, armed, started>>
    PROVE  inbox' \in [Workers -> Seq(Task)] /\ \A w \in Workers : RunsOnce(w)'
<1>1. ASSUME NEW w \in Workers
      PROVE  RunsOnce(w)' /\ inbox'[w] \in Seq(Task)
  <2>1. inbox[w] \in Seq(Task) /\ inbox'[w] = inbox[w] \o <<task>> /\ RunsOnce(w)
    BY Zenon DEF SubmitAll, GameInv, GameTypeOK
  <2> QED BY <2>1, RunsOnceAppend
<1>2. inbox' = [w \in Workers |-> inbox[w] \o <<task>>]
  BY Zenon DEF SubmitAll
<1> QED BY Zenon, <1>1, <1>2

\* on_done_ runs: a call becomes a run of the callback.
LEMMA OnDoneStep ==
    ASSUME GameInv, NEW w \in Workers, OnDone(w)
    PROVE  GameInv'
<1>1. /\ w \in calls /\ calls' = calls \ {w} /\ dones' = dones + 1
      /\ SubmitAll(<<"map">>) /\ summaries' = summaries + 1
      /\ UNCHANGED <<ended, reg, pc, raced, stops, started>> /\ UNCHANGED armed
  BY Zenon DEF OnDone, worker
<1>2. started /\ "map" \in Task \ {"run"}
  <2>1. pc[w] = "over"
    BY Zenon, <1>1 DEF GameInv
  <2>2. "over" # "running" /\ "map" # "run"
    OBVIOUS
  <2> QED BY Zenon, <2>1, <2>2 DEF GameInv, RunsOnce, Task
<1>3. inbox' \in [Workers -> Seq(Task)] /\ \A u \in Workers : RunsOnce(u)'
  BY Zenon, <1>1, <1>2, SubmitStep
<1>4. Finished' = Finished /\ Counting' = Counting /\ calls \in SUBSET Workers /\ dones \in Nat
  BY Zenon, <1>1 DEF Finished, Counting, GameInv, GameTypeOK
<1>5. dones' + Cardinality(calls') = dones + Cardinality(calls)
  <2>1. Cardinality(calls \ {w}) = Cardinality(calls) - 1
    BY Zenon, <1>1, <1>4, WorkerSets, FS_RemoveElement
  <2>2. PICK c \in Nat : c = Cardinality(calls)
    BY Zenon, <1>4, WorkerSets
  <2>3. (dones + 1) + (c - 1) = dones + c
    BY <1>4
  <2> QED BY Zenon, <1>1, <2>1, <2>2, <2>3
<1>6. DoneOnlyWhenAllFinished' /\ DoneOnceUnlessRaced' /\ (~raced' => Orderly')
  BY Zenon, <1>1, <1>4, <1>5 DEF GameInv, DoneOnlyWhenAllFinished, DoneOnceUnlessRaced, Orderly
<1>7. Supported(ended)' /\ \A u \in Workers : pc'[u] # "running" => Supported(reg[u])'
  BY Zenon, <1>1, <1>4 DEF GameInv, Supported
<1>8. GameTypeOK'
  BY <1>1, <1>3 DEF GameInv, GameTypeOK
<1> QED BY Zenon, <1>1, <1>2, <1>3, <1>6, <1>7, <1>8 DEF GameInv

\* The other steps of core 0.
LEMMA MainStep ==
    ASSUME GameInv, Summary \/ Stop \/ \E w \in Workers : Reduce(w)
    PROVE  GameInv'
<1>1. UNCHANGED <<game, dones>> /\ UNCHANGED <<pc, armed, started>>
  BY Zenon DEF Summary, Stop, Reduce, game, worker
<1>2. summaries' \in Nat /\ stops' \in Nat /\ (~started' => summaries' = 0 /\ stops' = 0)
  BY DEF Summary, Stop, Reduce, GameInv, GameTypeOK
<1>3. CASE Stop
  <2>1. started /\ SubmitAll(<<"stop">>) /\ "stop" \in Task \ {"run"}
    BY <1>3 DEF Stop, GameInv, Task
  <2> QED BY Zenon, <1>1, <1>2, <2>1, SubmitStep, GameFrame DEF GameInv, GameTypeOK
<1>4. CASE UNCHANGED inbox
  <2>1. \A w \in Workers : RunsOnce(w)'
    BY <1>1, <1>4 DEF GameInv, RunsOnce
  <2> QED BY Zenon, <1>1, <1>2, <1>4, <2>1, GameFrame DEF GameInv, GameTypeOK
<1> QED BY Zenon, <1>3, <1>4 DEF Summary, Reduce

\* What is left of a list after its head has no task that the list did not have.
LEMMA TailTasks ==
    ASSUME NEW s \in Seq(Task), s # <<>>
    PROVE  /\ Tail(s) \in Seq(Task) /\ Len(Tail(s)) = Len(s) - 1
           /\ \A k \in 1..Len(Tail(s)) : k + 1 \in 1..Len(s) /\ Tail(s)[k] = s[k + 1]
           /\ Len(s) \in Nat \ {0} /\ Head(s) = s[1]
OBVIOUS

\* A worker takes a task off its list: run at most once, the rest keeps.
LEMMA TakeStep ==
    ASSUME GameInv, NEW w \in Workers, NEW task \in Task, Take(w, task), UNCHANGED pc,
           armed' = IF task = "run" THEN armed \cup {w} ELSE armed
    PROVE  GameInv'
<1>1. /\ inbox[w] # <<>> /\ Head(inbox[w]) = task
      /\ inbox' = [inbox EXCEPT ![w] = Tail(@)]
      /\ UNCHANGED <<game, dones>> /\ UNCHANGED <<summaries, stops, started>>
  BY Zenon DEF Take, main, game
<1>2. inbox \in [Workers -> Seq(Task)] /\ armed \subseteq Workers /\ inbox[w] \in Seq(Task)
  BY Zenon DEF GameInv, GameTypeOK
<1>3. inbox' \in [Workers -> Seq(Task)] /\ armed' \subseteq Workers
  BY Zenon, <1>1, <1>2, TailTasks
<1>4. ASSUME NEW u \in Workers, u # w
      PROVE  RunsOnce(u)'
  <2>1. inbox'[u] = inbox[u] /\ (u \in armed' <=> u \in armed) /\ RunsOnce(u)
    BY Zenon, <1>1, <1>2, <1>4 DEF GameInv
  <2> QED BY ZenonT(60), <1>1, <2>1 DEF RunsOnce
<1>5. RunsOnce(w)'
  <2>1. PICK s \in Seq(Task) : s = inbox[w]
    BY Zenon, <1>2
  <2>2. inbox'[w] = Tail(s) /\ s # <<>> /\ s[1] = task
    BY Zenon, <1>1, <1>2, <2>1, TailTasks
  <2>3. started /\ RunsOnce(w)
    BY Zenon, <1>1 DEF GameInv, RunsOnce
  <2>4. ASSUME NEW j \in 1..Len(s), s[j] = "run"
        PROVE  pc[w] = "running" /\ w \notin armed /\ \A k \in 1..Len(s) : s[k] = "run" => k = j
    BY Zenon, <2>1, <2>3, <2>4 DEF RunsOnce
  <2>5. ASSUME NEW j \in 1..Len(Tail(s)), Tail(s)[j] = "run"
        PROVE  /\ pc[w] = "running" /\ w \notin armed /\ task # "run"
               /\ \A k \in 1..Len(Tail(s)) : Tail(s)[k] = "run" => k = j
    <3>1. j + 1 \in 1..Len(s) /\ s[j + 1] = "run" /\ 1 \in 1..Len(s) /\ j + 1 # 1
      BY <2>2, <2>5, TailTasks
    <3>2. pc[w] = "running" /\ w \notin armed /\ \A k \in 1..Len(s) : s[k] = "run" => k = j + 1
      BY Zenon, <2>4, <3>1
    <3>3. ASSUME NEW k \in 1..Len(Tail(s)), Tail(s)[k] = "run"
          PROVE  k = j
      <4>1. k + 1 \in 1..Len(s) /\ s[k + 1] = "run"
        BY Zenon, <2>2, <3>3, TailTasks
      <4>2. k + 1 = j + 1
        BY Zenon, <3>2, <4>1
      <4> QED BY <4>2
    <3> QED BY Zenon, <2>2, <3>1, <3>2, <3>3
  <2>6. w \in armed' => pc[w] = "running"
    <3>1. CASE task = "run"
      <4>1. 1 \in 1..Len(s)
        BY <2>2, TailTasks
      <4> QED BY Zenon, <2>2, <2>4, <3>1, <4>1
    <3>2. CASE task # "run"
      BY Zenon, <2>3, <3>2 DEF RunsOnce
    <3> QED BY Zenon, <3>1, <3>2
  <2>7. ASSUME NEW j \in 1..Len(inbox'[w]), inbox'[w][j] = "run"
        PROVE  pc'[w] = "running" /\ w \notin armed' /\ \A k \in 1..Len(inbox'[w]) : inbox'[w][k] = "run" => k = j
    BY Zenon, <2>2, <2>5, <2>7
  <2> QED BY Zenon, <1>1, <2>3, <2>6, <2>7 DEF RunsOnce
<1> QED BY Zenon, <1>1, <1>3, <1>4, <1>5, GameFrame DEF GameInv, GameTypeOK

\* The duration of a worker ends: it has loaded a supported value.
LEMMA ExpireStep ==
    ASSUME GameInv, NEW w \in Workers, Expire(w)
    PROVE  GameInv'
<1>1. /\ w \in armed /\ armed' = armed \ {w}
      /\ reg' = [reg EXCEPT ![w] = ended] /\ pc' = [pc EXCEPT ![w] = "loaded"]
      /\ raced' = (raced \/ Counting # {})
      /\ UNCHANGED <<inbox, ended, calls, dones, summaries, stops, started>>
  BY Zenon DEF Expire, main
<1>2. GameTypeOK /\ GameTypeOK'
  BY Zenon, <1>1 DEF GameInv, GameTypeOK
<1>3. pc[w] = "running" /\ \A u \in Workers : RunsOnce(u)
  BY Zenon, <1>1 DEF GameInv, RunsOnce
<1>4. /\ pc'[w] = "loaded" /\ reg'[w] = ended
      /\ \A u \in Workers \ {w} : pc'[u] = pc[u] /\ reg'[u] = reg[u]
  BY Zenon, <1>1, <1>2 DEF GameTypeOK
<1>5. Finished' = Finished /\ w \notin Finished /\ Counting' = Counting \cup {w}
  BY <1>3, <1>4 DEF Finished, Counting
<1>6. \A u \in Finished : u \in Finished' /\ reg'[u] = reg[u] /\ u \in Workers
  BY Zenon, <1>4, <1>5 DEF Finished
<1>7. ASSUME NEW u \in Workers, pc'[u] # "running"
      PROVE  Supported(reg[u])'
  <2>1. PICK n : n = reg'[u] /\ Supported(n)
    BY Zenon, <1>4, <1>7 DEF GameInv
  <2>2. Supported(n)'
    BY Zenon, <1>6, <2>1, SupportKept
  <2> QED BY Zenon, <2>1, <2>2 DEF Supported
<1>8. Supported(ended)'
  <2>1. PICK n : n = ended /\ Supported(n)
    BY Zenon DEF GameInv
  <2>2. Supported(n)'
    BY Zenon, <1>6, <2>1, SupportKept
  <2> QED BY Zenon, <1>1, <2>1, <2>2 DEF Supported
<1>9. ASSUME NEW u \in Workers
      PROVE  RunsOnce(u)'
  <2>1. CASE u = w
    <3>1. started /\ \A j \in 1..Len(inbox[w]) : inbox[w][j] # "run"
      BY Zenon, <1>1, <1>3 DEF RunsOnce
    <3> QED BY Zenon, <1>1, <2>1, <3>1 DEF RunsOnce
  <2>2. CASE u # w
    BY <1>1, <1>3, <1>4, <2>2 DEF RunsOnce
  <2> QED BY Zenon, <2>1, <2>2
<1>10. \A u \in calls' : pc'[u] = "over"
  <2>1. "running" # "over"
    OBVIOUS
  <2> QED BY Zenon, <1>1, <1>2, <1>3, <1>4, <2>1 DEF GameInv, GameTypeOK
<1>11. ~raced' => Orderly'
  BY Zenon, <1>1, <1>4, <1>5 DEF GameInv, Orderly
<1>12. DoneOnceUnlessRaced' /\ DoneOnlyWhenAllFinished'
  <2>1. pc[w] # "over" /\ pc'[w] # "over"
    BY <1>3, <1>4
  <2> QED BY Zenon, <1>1, <1>5, <2>1 DEF GameInv, DoneOnceUnlessRaced, DoneOnlyWhenAllFinished
<1> QED BY Zenon, <1>1, <1>2, <1>7, <1>8, <1>9, <1>10, <1>11, <1>12 DEF GameInv

\* The calls of a worker inside end_game stay as they are.
LEMMA CountingRuns ==
    ASSUME GameInv, NEW w \in Counting, NEW x \in {"stored", "over"},
           pc' = [pc EXCEPT ![w] = x], UNCHANGED <<inbox, armed, started>>
    PROVE  \A u \in Workers : RunsOnce(u)'
<1> SUFFICES ASSUME NEW u \in Workers PROVE RunsOnce(u)'
  OBVIOUS
<1>1. RunsOnce(u) /\ w \in Workers /\ pc[w] # "running"
  <2>1. pc[w] \in {"loaded", "stored"} => pc[w] # "running"
    OBVIOUS
  <2> QED BY Zenon, <2>1 DEF GameInv, Counting
<1>2. CASE u = w
  BY Zenon, <1>1, <1>2 DEF RunsOnce
<1>3. CASE u # w
  <2>1. pc'[u] = pc[u]
    BY Zenon, <1>1, <1>3 DEF GameInv, GameTypeOK
  <2> QED BY Zenon, <1>1, <2>1 DEF RunsOnce
<1> QED BY Zenon, <1>2, <1>3

\* A worker stores the value after the one it loaded, and its own entry supports it.
LEMMA CountStep ==
    ASSUME GameInv, NEW w \in Workers, Count(w)
    PROVE  GameInv'
<1>1. /\ pc[w] = "loaded" /\ ended' = reg[w] + 1
      /\ reg' = [reg EXCEPT ![w] = @ + 1] /\ pc' = [pc EXCEPT ![w] = "stored"]
      /\ UNCHANGED <<inbox, armed, raced, calls, dones, summaries, stops, started>>
  BY Zenon DEF Count, worker, main
<1>2. GameTypeOK /\ GameTypeOK'
  BY <1>1 DEF GameInv, GameTypeOK
<1>3. PICK r \in Nat : r = reg[w]
  BY Zenon, <1>2 DEF GameTypeOK
<1>4. /\ pc'[w] = "stored" /\ reg'[w] = r + 1
      /\ \A u \in Workers \ {w} : pc'[u] = pc[u] /\ reg'[u] = reg[u]
  BY Zenon, <1>1, <1>2, <1>3 DEF GameTypeOK
<1>5. Finished' = Finished \cup {w} /\ w \notin Finished /\ Counting' = Counting /\ w \in Counting
  BY <1>1, <1>4 DEF Finished, Counting
<1>6. \A u \in Finished : u \in Finished' /\ reg'[u] = reg[u] /\ u \in Workers /\ u # w
  BY Zenon, <1>4, <1>5 DEF Finished
<1>7. Supported(r + 1)'
  <2>1. "loaded" # "running"
    OBVIOUS
  <2>2. Supported(r)
    BY Zenon, <1>1, <1>3, <2>1 DEF GameInv
  <2>3. Supported(r)'
    BY Zenon, <1>6, <2>2, SupportKept
  <2>4. \A k \in 1..(r + 1) : k \in 1..r \/ k = r + 1
    OBVIOUS
  <2> QED BY Zenon, <1>4, <1>5, <2>3, <2>4 DEF Supported
<1>8. Supported(ended)'
  BY Zenon, <1>1, <1>3, <1>7 DEF Supported
<1>9. ASSUME NEW u \in Workers, pc'[u] # "running"
      PROVE  Supported(reg[u])'
  <2>1. CASE u = w
    BY Zenon, <1>4, <1>7, <2>1 DEF Supported
  <2>2. CASE u # w
    <3>1. PICK n : n = reg'[u] /\ Supported(n)
      BY Zenon, <1>4, <1>9, <2>2 DEF GameInv
    <3>2. Supported(n)'
      BY Zenon, <1>6, <3>1, SupportKept
    <3> QED BY Zenon, <3>1, <3>2 DEF Supported
  <2> QED BY Zenon, <2>1, <2>2
<1>10. \A u \in Workers : RunsOnce(u)'
  BY Zenon, <1>1, <1>5, CountingRuns
<1>11. \A u \in calls' : pc'[u] = "over"
  <2>1. "loaded" # "over"
    OBVIOUS
  <2> QED BY Zenon, <1>1, <1>2, <1>4, <2>1 DEF GameInv, GameTypeOK
<1>12. ~raced' => Orderly'
  <2> SUFFICES ASSUME ~raced' PROVE Orderly'
    OBVIOUS
  <2>1. Orderly
    BY Zenon, <1>1 DEF GameInv
  <2>2. ended = r /\ \A u \in Counting : u = w
    BY Zenon, <1>3, <1>5, <2>1 DEF Orderly
  <2>3. Finished \in SUBSET Workers
    BY Zenon DEF Finished
  <2>4. Cardinality(Finished \cup {w}) = Cardinality(Finished) + 1
    BY Zenon, <1>5, <2>3, WorkerSets, FS_AddElement
  <2>5. ended' = r + 1 /\ Cardinality(Finished') = r + 1
    BY Zenon, <1>1, <1>3, <1>5, <2>1, <2>2, <2>4 DEF Orderly
  <2> QED BY Zenon, <1>4, <1>5, <2>1, <2>2, <2>5 DEF Orderly
<1>13. DoneOnceUnlessRaced'
  <2>1. pc[w] # "over" /\ pc'[w] # "over"
    BY <1>1, <1>4
  <2> QED BY Zenon, <1>1, <2>1 DEF GameInv, DoneOnceUnlessRaced
<1>14. DoneOnlyWhenAllFinished'
  BY Zenon, <1>1, <1>5 DEF GameInv, DoneOnlyWhenAllFinished
<1> QED BY Zenon, <1>1, <1>2, <1>8, <1>9, <1>10, <1>11, <1>12, <1>13, <1>14 DEF GameInv

\* A worker compares a supported value; without a race, the number of finished workers.
LEMMA EndGameStep ==
    ASSUME GameInv, NEW w \in Workers, EndGame(w)
    PROVE  GameInv'
<1>1. /\ pc[w] = "stored" /\ pc' = [pc EXCEPT ![w] = "over"]
      /\ UNCHANGED <<inbox, armed, ended, reg, raced, dones, summaries, stops, started>>
  BY Zenon DEF EndGame, worker, main
<1>2. PICK n \in {reg[w], ended} : calls' = IF AllEnded(n) THEN calls \cup {w} ELSE calls
  BY Zenon DEF EndGame
<1>3. GameTypeOK /\ GameTypeOK'
  BY Zenon, <1>1, <1>2 DEF GameInv, GameTypeOK
<1>4. pc'[w] = "over" /\ \A u \in Workers \ {w} : pc'[u] = pc[u]
  BY Zenon, <1>1, <1>3 DEF GameTypeOK
<1>5. Finished' = Finished /\ w \in Finished /\ w \in Counting /\ Counting' = Counting \ {w}
  BY <1>1, <1>4 DEF Finished, Counting
<1>6. Supported(n) /\ n \in Nat
  <2>1. "stored" # "running"
    OBVIOUS
  <2>2. Supported(reg[w]) /\ Supported(ended)
    BY Zenon, <1>1, <2>1 DEF GameInv
  <2>3. reg[w] \in Nat /\ ended \in Nat
    BY Zenon, <1>3 DEF GameTypeOK
  <2> QED BY Zenon, <1>2, <2>2, <2>3
<1>7. Supported(ended)' /\ \A u \in Workers : pc'[u] # "running" => Supported(reg[u])'
  <2>1. \A u \in Workers : pc'[u] # "running" => pc[u] # "running"
    BY <1>1, <1>4
  <2> QED BY Zenon, <1>1, <1>5, <2>1 DEF GameInv, Supported
<1>8. \A u \in Workers : RunsOnce(u)'
  BY Zenon, <1>1, <1>5, CountingRuns
<1>9. w \notin calls /\ \A u \in calls' : pc'[u] = "over"
  <2>1. "stored" # "over"
    OBVIOUS
  <2> QED BY Zenon, <1>1, <1>2, <1>3, <1>4, <2>1 DEF GameInv, GameTypeOK
<1>10. DoneOnlyWhenAllFinished'
  <2>1. AllEnded(n) => Finished = Workers
    BY Zenon, <1>3, <1>6, SupportOfAll DEF GameTypeOK
  <2> QED BY Zenon, <1>1, <1>2, <1>5, <2>1 DEF GameInv, DoneOnlyWhenAllFinished
<1>11. ~raced' => Orderly'
  BY Zenon, <1>1, <1>5 DEF GameInv, Orderly
<1>12. DoneOnceUnlessRaced'
  <2> SUFFICES ASSUME ~raced'
               PROVE  dones' + Cardinality(calls') = IF \A u \in Workers : pc'[u] = "over" THEN 1 ELSE 0
    BY Zenon DEF DoneOnceUnlessRaced
  <2>1. Orderly /\ dones + Cardinality(calls) = 0
    <3>1. pc[w] # "over"
      BY <1>1
    <3> QED BY Zenon, <1>1, <3>1 DEF GameInv, DoneOnceUnlessRaced
  <2>2. n = Cardinality(Finished) /\ \A u \in Counting : u = w
    BY Zenon, <1>2, <1>5, <2>1 DEF Orderly
  <2>3. Finished \in SUBSET Workers /\ calls \in SUBSET Workers
    BY Zenon, <1>3 DEF Finished, GameTypeOK
  <2>4. AllEnded(n) <=> Finished = Workers
    <3>1. PICK a \in Nat : a = Cardinality(Workers) /\ n <= a /\ (n = a => Finished = Workers)
      BY Zenon, <2>2, <2>3, WorkerSets
    <3>2. n >= a <=> n = a
      BY <1>6, <3>1
    <3> QED BY Zenon, <2>2, <3>1, <3>2 DEF AllEnded
  <2>5. Finished = Workers <=> \A u \in Workers : pc'[u] = "over"
    <3>1. ASSUME NEW u \in Workers, u # w PROVE u \in Finished <=> pc'[u] = "over"
      <4>1. pc'[u] = pc[u] /\ pc[u] # "stored"
        BY Zenon, <1>4, <2>2, <3>1 DEF Counting
      <4> QED BY Zenon, <4>1 DEF Finished
    <3> QED BY Zenon, <1>4, <1>5, <2>3, <3>1
  <2>6. Cardinality(calls \cup {w}) = Cardinality(calls) + 1
    BY Zenon, <1>9, <2>3, WorkerSets, FS_AddElement
  <2>7. PICK c \in Nat : c = Cardinality(calls)
    BY Zenon, <2>3, WorkerSets
  <2>8. dones \in Nat /\ dones + c = 0
    BY Zenon, <1>3, <2>1, <2>7 DEF GameTypeOK
  <2>9. dones + (c + 1) = 1
    BY <2>8
  <2> QED BY Zenon, <1>1, <1>2, <2>1, <2>4, <2>5, <2>6, <2>7, <2>9
<1> QED BY Zenon, <1>1, <1>3, <1>7, <1>8, <1>9, <1>10, <1>11, <1>12 DEF GameInv

\* Initially nobody runs, and nothing needs support.
LEMMA InitGame == Init => GameInv
<1> SUFFICES ASSUME Init PROVE GameInv
  BY Zenon
<1>1. GameTypeOK
  <2>1. 0 \in Nat /\ <<>> \in Seq(Task) /\ FALSE \in BOOLEAN
    OBVIOUS
  <2> QED BY ZenonT(30), <2>1 DEF Init, GameTypeOK
<1>2. \A w \in Workers : RunsOnce(w) /\ pc[w] = "running"
  BY DEF Init, RunsOnce
<1>3. Supported(ended) /\ Finished = {} /\ Counting = {}
  BY <1>2 DEF Init, Supported, Finished, Counting
<1>4. Cardinality({}) = 0 /\ calls = {} /\ dones = 0 /\ ended = 0
  BY Zenon, FS_EmptySet DEF Init
<1>5. summaries = 0 /\ stops = 0
  BY Zenon DEF Init
<1>6. Orderly
  BY Zenon, <1>3, <1>4 DEF Orderly
<1>7. DoneOnlyWhenAllFinished
  BY <1>4 DEF DoneOnlyWhenAllFinished
<1>8. DoneOnceUnlessRaced
  <2>1. ~ \A w \in Workers : pc[w] = "over"
    BY <1>2, WorkersAssumption
  <2>2. dones + Cardinality(calls) = 0
    BY <1>4
  <2> QED BY Zenon, <2>1, <2>2 DEF DoneOnceUnlessRaced
<1> QED BY <1>1, <1>2, <1>3, <1>4, <1>5, <1>6, <1>7, <1>8 DEF GameInv

\* Every step keeps the invariant.
LEMMA StepGame == GameInv /\ [Next]_vars => GameInv'
<1> SUFFICES ASSUME GameInv, [Next]_vars PROVE GameInv'
  BY Zenon
<1>1. CASE Start
  BY Zenon, <1>1, StartStep
<1>2. CASE Summary \/ Stop \/ \E w \in Workers : Reduce(w)
  BY Zenon, <1>2, MainStep
<1>3. ASSUME NEW w \in Workers, OnDone(w) PROVE GameInv'
  BY Zenon, <1>3, OnDoneStep
<1>4. ASSUME NEW w \in Workers, Create(w) \/ Connect(w) \/ Run(w) \/ Map(w) \/ Halt(w)
      PROVE  GameInv'
  <2>1. /\ UNCHANGED pc
        /\ \E task \in Task : Take(w, task) /\ armed' = IF task = "run" THEN armed \cup {w} ELSE armed
    BY Zenon, <1>4 DEF Create, Connect, Run, Map, Halt, Take, Task, worker, game
  <2> QED BY Zenon, <2>1, TakeStep
<1>5. ASSUME NEW w \in Workers, Expire(w) PROVE GameInv'
  BY Zenon, <1>5, ExpireStep
<1>6. ASSUME NEW w \in Workers, Count(w) \/ EndGame(w) PROVE GameInv'
  BY Zenon, <1>6, CountStep, EndGameStep
<1>7. CASE UNCHANGED vars \/ \E w \in Workers : Complete(w)
  <2>1. /\ UNCHANGED <<game, dones>>
        /\ UNCHANGED <<pc, armed, inbox, summaries, stops, started>>
    BY Zenon, <1>7 DEF Complete, vars, worker, main, game
  <2>2. \A w \in Workers : RunsOnce(w)'
    <3>1. ASSUME NEW w \in Workers PROVE RunsOnce(w)
      BY Zenon DEF GameInv
    <3>2. ASSUME NEW w \in Workers, RunsOnce(w) PROVE RunsOnce(w)'
      BY Zenon, <2>1, <3>2 DEF RunsOnce
    <3> QED BY <3>1, <3>2, Zenon
  <2> QED BY Zenon, <2>1, <2>2, GameFrame DEF GameInv, GameTypeOK
<1> QED BY Zenon, <1>1, <1>2, <1>3, <1>4, <1>5, <1>6, <1>7 DEF Next, Main, Worker
----------------------------------------------------------------------------
(* The theorems. *)

\* However loads and stores of ended_services_ interleave, the invariant of end_game
\* holds: each value in play is supported by finished workers.
THEOREM EndGameInvariant == Spec => []GameInv
BY InitGame, StepGame, PTL DEF Spec

\* on_done_ is neither submitted nor called before every worker has finished, for any
\* number of workers.
THEOREM DoneAfterAll == Spec => []DoneOnlyWhenAllFinished
<1>1. GameInv => DoneOnlyWhenAllFinished
  BY Zenon DEF GameInv
<1> QED BY <1>1, EndGameInvariant, PTL

\* For any number of workers: unless two of them were inside end_game at once, on_done_
\* is submitted exactly once, when the last one leaves end_game.
THEOREM DoneOnce == Spec => []DoneOnceUnlessRaced
<1>1. GameInv => DoneOnceUnlessRaced
  BY Zenon DEF GameInv
<1> QED BY <1>1, EndGameInvariant, PTL
----------------------------------------------------------------------------
(* Types, and the instance that is created first. *)

\* What the proof of end_game leaves out of the types.
DataTypeOK ==
    /\ inst \subseteq Workers /\ loading \subseteq Workers /\ stopped \subseteq Workers \cup {0}
    /\ replies \in [Workers -> Seq(Nat)]
    /\ done \in [Workers -> 0..MaxReqs] /\ stats \in [Workers -> Nat]
    /\ reqs \in 0..(Word - 1) /\ reports \in Seq(Nat)
    /\ started \in BOOLEAN /\ crashed \in {"no", "exception", "division"}

LEMMA MainTypes ==
    ASSUME DataTypeOK, Main
    PROVE  DataTypeOK'
<1>1. CASE Start
  BY Zenon, <1>1 DEF Start, DataTypeOK, worker
<1>2. CASE Stop
  BY Zenon, <1>2 DEF Stop, DataTypeOK, worker
<1>3. CASE Summary
  <2>1. reqs \in Nat /\ reports \in Seq(Nat)
    BY LoaderBounds DEF DataTypeOK
  <2>2. Append(reports, reqs) \in Seq(Nat)
    BY <2>1
  <2>3. CASE reqs = 0
    BY Zenon, <1>3, <2>3 DEF Summary, DataTypeOK, worker
  <2>4. CASE reqs # 0
    BY Zenon, <1>3, <2>2, <2>4 DEF Summary, DataTypeOK, worker
  <2> QED BY Zenon, <2>3, <2>4
<1>4. ASSUME NEW w \in Workers, OnDone(w) PROVE DataTypeOK'
  BY Zenon, <1>4 DEF OnDone, DataTypeOK, worker
<1>5. ASSUME NEW w \in Workers, Reduce(w) PROVE DataTypeOK'
  <2>1. PICK s \in Seq(Nat) : s = replies[w] /\ s # <<>>
    BY Zenon, <1>5 DEF Reduce, DataTypeOK
  <2>2. Head(s) \in Nat /\ Tail(s) \in Seq(Nat)
    BY <2>1
  <2>3. reqs' \in 0..(Word - 1)
    <3>1. reqs + Head(s) \in Nat
      BY <2>2, LoaderBounds DEF DataTypeOK
    <3> QED BY <1>5, <2>1, <3>1, LoaderBounds DEF Reduce
  <2>4. replies' \in [Workers -> Seq(Nat)]
    BY Zenon, <1>5, <2>1, <2>2 DEF Reduce, DataTypeOK
  <2> QED BY Zenon, <1>5, <2>3, <2>4 DEF Reduce, DataTypeOK, worker
<1> QED BY Zenon, <1>1, <1>2, <1>3, <1>4, <1>5 DEF Main

LEMMA WorkerTypes ==
    ASSUME DataTypeOK, NEW w \in Workers, Worker(w) \/ Complete(w)
    PROVE  DataTypeOK'
<1>1. UNCHANGED <<reqs, reports, started>>
  BY Zenon DEF Worker, Create, Connect, Run, Map, Halt, Take, Expire, Count, EndGame, Complete, main
<1>2. CASE Create(w) \/ Connect(w) \/ Run(w)
  BY <1>1, <1>2, Zenon DEF Create, Connect, Run, GetLocalService, DataTypeOK
<1>3. CASE Map(w)
  <2>1. Append(replies[w], stats[w]) \in Seq(Nat)
    BY DEF DataTypeOK
  <2>2. replies' \in [Workers -> Seq(Nat)]
    BY Zenon, <1>3, <2>1 DEF Map, DataTypeOK
  <2> QED BY Zenon, <1>1, <1>3, <2>2 DEF Map, GetLocalService, DataTypeOK, worker
<1>4. CASE Halt(w)
  BY Zenon, <1>1, <1>4 DEF Halt, DataTypeOK, worker
<1>5. CASE Expire(w)
  BY <1>1, <1>5 DEF Expire, DataTypeOK
<1>6. CASE Count(w) \/ EndGame(w)
  BY Zenon, <1>1, <1>6 DEF Count, EndGame, DataTypeOK, worker
<1>7. CASE Complete(w)
  <2>1. done' \in [Workers -> 0..MaxReqs]
    BY <1>7, LoaderBounds DEF Complete, DataTypeOK
  <2> QED BY Zenon, <1>1, <1>7, <2>1 DEF Complete, DataTypeOK
<1> QED BY Zenon, <1>2, <1>3, <1>4, <1>5, <1>6, <1>7 DEF Worker

\* Every variable of the service keeps its type; the adder stays an unsigned.
THEOREM LoaderTypes == Spec => []TypeOK
<1>1. Init => DataTypeOK
  <2>1. 0 \in 0..MaxReqs /\ 0 \in 0..(Word - 1) /\ << >> \in Seq(Nat) /\ 0 \in Nat
    BY LoaderBounds
  <2> QED BY ZenonT(30), <2>1 DEF Init, DataTypeOK
<1>2. DataTypeOK /\ [Next]_vars => DataTypeOK'
  <2> SUFFICES ASSUME DataTypeOK, [Next]_vars PROVE DataTypeOK'
    BY Zenon
  <2>1. CASE UNCHANGED vars
    BY Zenon, <2>1 DEF vars, worker, main, DataTypeOK
  <2> QED BY Zenon, <2>1, MainTypes, WorkerTypes DEF Next
<1>3. GameInv /\ DataTypeOK => TypeOK
  BY Zenon DEF GameInv, GameTypeOK, DataTypeOK, TypeOK
<1> QED BY <1>1, <1>2, <1>3, EndGameInvariant, PTL DEF Spec

\* A worker without an instance has not been called, or creates one first.
Created(w) ==
    w \in inst \/ (~started /\ inbox[w] = <<>>) \/ (inbox[w] # <<>> /\ inbox[w][1] = "create")

LEMMA StepCreated ==
    ASSUME GameInv, [Next]_vars, crashed # "exception", \A w \in Workers : Created(w)
    PROVE  crashed' # "exception" /\ \A w \in Workers : Created(w)'
<1> USE DEF Created
<1>0. inbox \in [Workers -> Seq(Task)]
  BY Zenon DEF GameInv, GameTypeOK
<1>1. CASE UNCHANGED <<inst, inbox, started>> /\ crashed' # "exception"
  BY Zenon, <1>1
<1>2. CASE Start
  <2>1. ASSUME NEW w \in Workers PROVE Created(w)'
    <3>1. inbox[w] = <<>> /\ inbox'[w] = inbox[w] \o <<"create", "connect", "run">>
      BY Zenon, <1>2 DEF Start, SubmitAll, GameInv, RunsOnce
    <3>2. inbox'[w] = <<"create", "connect", "run">>
      BY <3>1, EmptyFirst, Zenon
    <3> QED BY <3>2
  <2> QED BY Zenon, <1>2, <2>1 DEF Start
<1>3. ASSUME NEW task \in Task, SubmitAll(<<task>>), UNCHANGED <<inst, started, crashed>>, started
      PROVE  crashed' # "exception" /\ \A w \in Workers : Created(w)'
  <2>1. ASSUME NEW w \in Workers PROVE Created(w)'
    <3>1. PICK s \in Seq(Task) : s = inbox[w]
      BY Zenon, <1>0
    <3>2. inbox'[w] = s \o <<task>>
      BY Zenon, <1>3, <3>1 DEF SubmitAll
    <3>3. s # <<>> => s \o <<task>> # <<>> /\ (s \o <<task>>)[1] = s[1]
      OBVIOUS
    <3> QED BY Zenon, <1>3, <3>1, <3>2, <3>3
  <2> QED BY Zenon, <1>3, <2>1
<1>4. CASE Stop
  BY <1>3, <1>4 DEF Stop, Task, GameInv, GameTypeOK, worker
<1>5. ASSUME NEW w \in Workers, OnDone(w)
      PROVE  crashed' # "exception" /\ \A u \in Workers : Created(u)'
  <2>1. started
    <3>1. pc[w] # "running"
      BY <1>5 DEF OnDone, GameInv
    <3> QED BY Zenon, <3>1 DEF GameInv, RunsOnce
  <2> QED BY Zenon, <1>3, <1>5, <2>1 DEF OnDone, Task, worker
<1>6. ASSUME NEW w \in Workers, NEW task \in Task, Take(w, task), GetLocalService(w) \/ UNCHANGED crashed,
             task = "create" \/ inst' = inst, task = "create" => crashed' = crashed /\ inst' = inst \cup {w}
      PROVE  crashed' # "exception" /\ \A u \in Workers : Created(u)'
  <2>1. inbox[w] # <<>> /\ Head(inbox[w]) = task /\ inbox' = [inbox EXCEPT ![w] = Tail(@)] /\ UNCHANGED started
    BY Zenon, <1>6 DEF Take, main
  <2>2. inbox[w][1] = task
    BY <1>0, <2>1
  <2>3. task = "create" \/ w \in inst
    BY Zenon, <2>1, <2>2
  <2>4. crashed' # "exception" /\ w \in inst'
    BY Zenon, <1>6, <2>3 DEF GetLocalService
  <2>5. \A u \in Workers : u # w => inbox'[u] = inbox[u] /\ (u \in inst => u \in inst')
    BY Zenon, <1>0, <1>6, <2>1
  <2> QED BY Zenon, <2>1, <2>4, <2>5
<1>7. ASSUME NEW w \in Workers, Create(w) \/ Connect(w) \/ Run(w) \/ Map(w) \/ Halt(w)
      PROVE  crashed' # "exception" /\ \A u \in Workers : Created(u)'
  BY Zenon, <1>6, <1>7 DEF Create, Connect, Run, Map, Halt, Task, worker
<1>8. CASE Summary
  BY Zenon, <1>1, <1>8 DEF Summary, worker
<1>9. ASSUME NEW w \in Workers, Reduce(w) \/ Expire(w) \/ Count(w) \/ EndGame(w) \/ Complete(w)
      PROVE  crashed' # "exception" /\ \A u \in Workers : Created(u)'
  <2>1. UNCHANGED <<inst, inbox, started, crashed>>
    BY Zenon, <1>9 DEF Reduce, Expire, Count, EndGame, Complete, worker, main
  <2> QED BY Zenon, <1>1, <2>1
<1>10. CASE UNCHANGED vars
  BY Zenon, <1>1, <1>10 DEF vars, worker, main
<1> QED BY Zenon, <1>2, <1>4, <1>5, <1>7, <1>8, <1>9, <1>10 DEF Next, Main, Worker

\* get_local_service never throws: on every core the instance is made by the first call.
THEOREM InstanceFirst == Spec => []InstanceBeforeUse
<1> DEFINE Inv == crashed # "exception" /\ \A w \in Workers : Created(w)
<1>1. Init => Inv
  BY ZenonT(30) DEF Init, Created
<1>2. GameInv /\ Inv /\ [Next]_vars => Inv'
  BY Zenon, StepCreated
<1>3. Inv => InstanceBeforeUse
  BY Zenon DEF InstanceBeforeUse
<1> HIDE DEF Inv
<1> QED BY <1>1, <1>2, <1>3, EndGameInvariant, PTL DEF Spec

----------------------------------------------------------------------------
(* Sums over the workers. *)

\* A nonempty set of numbers has a least element.
LEMMA Least ==
    ASSUME NEW T \in SUBSET Nat, T # {}
    PROVE  \E x \in T : \A y \in T : x <= y
<1> DEFINE R == {ss \in Nat \X Nat : ss[1] < ss[2]}
<1>1. R = OpToRel(<, Nat) BY DEF OpToRel
<1>2. IsWellFoundedOn(R, Nat) BY Zenon, <1>1, NatLessThanWellFounded
<1> HIDE DEF R
<1>3. PICK x \in T : \A y \in T : ~ (<<y, x>> \in R) BY Zenon, <1>2, WFMin
<1>4. \A y \in T : ~(y < x) BY <1>3 DEF R
<1> QED BY <1>4

\* Induction, on the set of the numbers that have the property.
LEMMA NatSet ==
    ASSUME NEW S \in SUBSET Nat, 0 \in S, \A n \in S : n + 1 \in S
    PROVE  S = Nat
<1> SUFFICES ASSUME Nat \ S # {} PROVE FALSE OBVIOUS
<1>1. PICK x \in Nat \ S : \A y \in Nat \ S : x <= y BY Zenon, Least
<1>2. x # 0 /\ x - 1 \in Nat OBVIOUS
<1>3. x - 1 \in S BY <1>1, <1>2
<1>4. (x - 1) + 1 \in S BY <1>3
<1> QED BY <1>4

\* The order in which a fold takes the workers of a set.
First(s) == CHOOSE x \in s : TRUE
Others(s) == s \ {First(s)}

\* One worker fewer.
LEMMA OthersFewer ==
    ASSUME NEW s \in SUBSET Workers, s # {}
    PROVE  /\ First(s) \in s /\ Others(s) \in SUBSET Workers
           /\ Cardinality(s) \in Nat \ {0} /\ Cardinality(Others(s)) = Cardinality(s) - 1
<1>1. First(s) \in s BY Zenon DEF First
<1>2. IsFiniteSet(s) BY Zenon, FS_Subset, WorkersAssumption
<1>3. Cardinality(s) \in Nat /\ Cardinality(s) # 0 BY Zenon, <1>2, FS_CardinalityType, FS_EmptySet
<1>4. Cardinality(Others(s)) = Cardinality(s) - 1 BY Zenon, <1>1, <1>2, FS_RemoveElement DEF Others
<1>5. Others(s) \in SUBSET Workers BY Zenon DEF Others
<1>6. Cardinality(s) \in Nat \ {0} BY Zenon, <1>3
<1> QED BY Zenon, <1>1, <1>4, <1>5, <1>6

\* The sums of f over the sets of up to n workers.
UpTo(n) == {s \in SUBSET Workers : Cardinality(s) <= n}
Sums(f, n, c) ==
    /\ c \in [UpTo(n) -> Nat]
    /\ \A s \in UpTo(n) : c[s] = IF s = {} THEN 0 ELSE f[First(s)] + c[Others(s)]

\* Taking one away.
LEMMA UpToLess ==
    ASSUME NEW n \in Nat, NEW s \in UpTo(n + 1), s # {}
    PROVE  Others(s) \in UpTo(n) /\ Others(s) \in UpTo(n + 1) /\ First(s) \in s /\ First(s) \in Workers
<1>1. s \in SUBSET Workers /\ Cardinality(s) <= n + 1 BY Zenon DEF UpTo
<1>2. PICK k \in Nat \ {0} : k = Cardinality(s) /\ Cardinality(Others(s)) = k - 1
  BY Zenon, <1>1, OthersFewer
<1>3. k - 1 <= n /\ k - 1 <= n + 1 BY <1>1, <1>2
<1>4. First(s) \in s /\ Others(s) \in SUBSET Workers BY Zenon, <1>1, OthersFewer
<1> QED BY Zenon, <1>1, <1>2, <1>3, <1>4 DEF UpTo

\* Larger bounds have more sets, and the smallest only the empty one.
LEMMA UpToGrows ==
    ASSUME NEW n \in Nat
    PROVE  /\ UpTo(n) \subseteq UpTo(n + 1) /\ {} \in UpTo(n)
           /\ \A s \in UpTo(0) : s = {}
<1>1. \A s \in SUBSET Workers : IsFiniteSet(s) /\ Cardinality(s) \in Nat
  BY Zenon, FS_Subset, FS_CardinalityType, WorkersAssumption
<1>2. \A k \in Nat : (k <= n => k <= n + 1) /\ (k <= 0 => k = 0) OBVIOUS
<1>3. Cardinality({}) = 0 /\ 0 <= n /\ {} \in SUBSET Workers
  <2>1. 0 <= n OBVIOUS
  <2> QED BY Zenon, <2>1, FS_EmptySet
<1>4. UpTo(n) \subseteq UpTo(n + 1) BY Zenon, <1>1, <1>2 DEF UpTo
<1>5. \A s \in UpTo(0) : s = {} BY Zenon, <1>1, <1>2, FS_EmptySet DEF UpTo
<1> QED BY Zenon, <1>3, <1>4, <1>5 DEF UpTo

\* There are such sums.
LEMMA SumsExist ==
    ASSUME NEW f \in [Workers -> Nat], NEW n \in Nat
    PROVE  \E c : Sums(f, n, c)
<1> DEFINE S == {k \in Nat : \E c : Sums(f, k, c)}
<1>1. 0 \in S
  <2> DEFINE c == [s \in UpTo(0) |-> 0]
  <2>1. \A s \in UpTo(0) : s = {} BY Zenon, UpToGrows
  <2>2. Sums(f, 0, c) BY Zenon, <2>1 DEF Sums
  <2> QED BY <2>2
<1>2. ASSUME NEW k \in S PROVE k + 1 \in S
  <2>1. PICK c : Sums(f, k, c) BY Zenon, <1>2
  <2>2. k \in Nat /\ k + 1 \in Nat OBVIOUS
  <2> DEFINE d == [s \in UpTo(k + 1) |->
                      IF s \in UpTo(k) THEN c[s] ELSE f[First(s)] + c[Others(s)]]
  <2>3. /\ c \in [UpTo(k) -> Nat]
        /\ \A s \in UpTo(k) : c[s] = IF s = {} THEN 0 ELSE f[First(s)] + c[Others(s)]
    BY Zenon, <2>1 DEF Sums
  <2>4. \A x, y \in Nat : x + y \in Nat OBVIOUS
  <2>5. {} \in UpTo(k) /\ UpTo(k) \subseteq UpTo(k + 1) BY Zenon, <2>2, UpToGrows
  <2>6. ASSUME NEW s \in UpTo(k + 1)
        PROVE  d[s] \in Nat /\ d[s] = IF s = {} THEN 0 ELSE f[First(s)] + d[Others(s)]
    <3>1. CASE s = {} BY Zenon, <2>3, <2>5, <3>1
    <3>2. CASE s # {}
      <4>1. Others(s) \in UpTo(k) /\ Others(s) \in UpTo(k + 1) /\ First(s) \in Workers
        BY Zenon, <2>2, <3>2, UpToLess
      <4>2. d[Others(s)] = c[Others(s)] /\ c[Others(s)] \in Nat /\ f[First(s)] \in Nat
        BY Zenon, <2>3, <4>1
      <4>3. d[s] = f[First(s)] + c[Others(s)] BY Zenon, <2>3, <3>2
      <4> QED BY Zenon, <2>4, <3>2, <4>2, <4>3
    <3> QED BY Zenon, <3>1, <3>2
  <2>7. d \in [UpTo(k + 1) -> Nat] BY Zenon, <2>6
  <2> HIDE DEF d
  <2>8. Sums(f, k + 1, d) BY Zenon, <2>6, <2>7 DEF Sums
  <2> QED BY Zenon, <2>2, <2>8
<1> HIDE DEF S
<1>3. S \in SUBSET Nat BY Zenon DEF S
<1>4. S = Nat BY Zenon, <1>1, <1>2, <1>3, NatSet
<1> QED BY Zenon, <1>4 DEF S

\* What ReportWithinTotal sums up.
Total(f) == MapThenSumSet(LAMBDA w : f[w], Workers)

\* The total over the workers is the last of the sums.
LEMMA TotalIs ==
    ASSUME NEW f \in [Workers -> Nat]
    PROVE  \E c : Sums(f, Cardinality(Workers), c) /\ Total(f) = c[Workers]
<1> DEFINE F(c) == [s \in SUBSET Workers |->
                       IF s = {} THEN 0
                       ELSE f[CHOOSE x \in s : TRUE] + c[s \ {CHOOSE x \in s : TRUE}]]
           C == CHOOSE c : c = F(c)
           n == Cardinality(Workers)
<1>1. Total(f) = C[Workers] BY Zenon DEF Total, MapThenSumSet, MapThenFoldSet
<1>2. n \in Nat /\ \A s \in SUBSET Workers : Cardinality(s) <= n
  BY Zenon, FS_Subset, FS_CardinalityType, WorkersAssumption
<1>3. UpTo(n) = SUBSET Workers BY Zenon, <1>2 DEF UpTo
<1>4. PICK d : Sums(f, n, d) BY Zenon, <1>2, SumsExist
<1>5. d = F(d)
  <2>1. /\ d \in [SUBSET Workers -> Nat]
        /\ \A s \in SUBSET Workers : d[s] = IF s = {} THEN 0 ELSE f[First(s)] + d[Others(s)]
    BY Zenon, <1>3, <1>4 DEF Sums
  <2> QED BY Zenon, <2>1 DEF First, Others
<1>6. C = F(C) BY Zenon, <1>5
<1>7. ASSUME NEW s \in SUBSET Workers
      PROVE  C[s] = IF s = {} THEN 0 ELSE f[First(s)] + C[Others(s)]
  BY Zenon, <1>6 DEF First, Others
<1>8. DOMAIN C = SUBSET Workers /\ C = [s \in SUBSET Workers |-> C[s]] BY Zenon, <1>6
<1> HIDE DEF C
<1>9. C \in [SUBSET Workers -> Nat]
  <2> DEFINE S == {k \in Nat : \A s \in UpTo(k) : C[s] \in Nat}
  <2>1. 0 \in S
    <3>1. \A s \in UpTo(0) : s = {} BY Zenon, UpToGrows
    <3>2. C[{}] = 0 BY Zenon, <1>7
    <3>3. 0 \in Nat OBVIOUS
    <3>4. \A s \in UpTo(0) : C[s] \in Nat BY Zenon, <3>1, <3>2, <3>3
    <3> QED BY Zenon, <3>3, <3>4
  <2>2. ASSUME NEW k \in S PROVE k + 1 \in S
    <3>1. k \in Nat /\ k + 1 \in Nat OBVIOUS
    <3>2. ASSUME NEW s \in UpTo(k + 1) PROVE C[s] \in Nat
      <4>1. s \in SUBSET Workers BY Zenon DEF UpTo
      <4>2. CASE s = {}
        <5>1. C[s] = 0 BY Zenon, <1>7, <4>1, <4>2
        <5> QED BY <5>1
      <4>3. CASE s # {}
        <5>1. Others(s) \in UpTo(k) /\ First(s) \in Workers BY Zenon, <3>1, <4>3, UpToLess
        <5>2. C[Others(s)] \in Nat /\ f[First(s)] \in Nat BY Zenon, <5>1
        <5>3. \A x, y \in Nat : x + y \in Nat OBVIOUS
        <5> QED BY Zenon, <1>7, <4>1, <4>3, <5>2, <5>3
      <4> QED BY Zenon, <4>2, <4>3
    <3> QED BY Zenon, <3>1, <3>2
  <2> HIDE DEF S
  <2>3. S \in SUBSET Nat BY Zenon DEF S
  <2>4. S = Nat BY Zenon, <2>1, <2>2, <2>3, NatSet
  <2>5. n \in S BY Zenon, <1>2, <2>4
  <2>6. \A s \in UpTo(n) : C[s] \in Nat BY Zenon, <2>5 DEF S
  <2> QED BY Zenon, <1>3, <1>8, <2>6
<1>10. Sums(f, n, C) BY Zenon, <1>3, <1>7, <1>9 DEF Sums
<1> QED BY Zenon, <1>1, <1>10

\* A total grows by at least as much as one worker's share.
LEMMA TotalGrows ==
    ASSUME NEW f \in [Workers -> Nat], NEW g \in [Workers -> Nat], NEW x \in Workers, NEW v \in Nat,
           \A w \in Workers : f[w] <= g[w], f[x] + v <= g[x]
    PROVE  Total(f) \in Nat /\ Total(g) \in Nat /\ Total(f) + v <= Total(g)
<1> DEFINE n == Cardinality(Workers)
<1>1. n \in Nat BY Zenon, FS_CardinalityType, WorkersAssumption
<1>2. PICK c : Sums(f, n, c) /\ Total(f) = c[Workers] BY Zenon, TotalIs
<1>3. PICK d : Sums(g, n, d) /\ Total(g) = d[Workers] BY Zenon, TotalIs
<1>4. \A s \in UpTo(n) : /\ c[s] \in Nat /\ c[s] = IF s = {} THEN 0 ELSE f[First(s)] + c[Others(s)]
                         /\ d[s] \in Nat /\ d[s] = IF s = {} THEN 0 ELSE g[First(s)] + d[Others(s)]
  BY Zenon, <1>2, <1>3 DEF Sums
<1> HIDE DEF n
<1> DEFINE More(s) == IF x \in s THEN v ELSE 0
           S == {k \in Nat : \A s \in UpTo(k) : s \in UpTo(n) => c[s] + More(s) <= d[s]}
<1>5. 0 \in S
  <2>1. \A s \in UpTo(0) : s = {} BY Zenon, UpToGrows
  <2>2. ASSUME NEW s \in UpTo(n), s = {} PROVE c[s] + More(s) <= d[s]
    <3>1. c[s] = 0 /\ d[s] = 0 /\ More(s) = 0 BY Zenon, <1>4, <2>2
    <3>2. 0 + 0 <= 0 OBVIOUS
    <3> QED BY Zenon, <3>1, <3>2
  <2> QED BY Zenon, <2>1, <2>2
<1>6. ASSUME NEW k \in S PROVE k + 1 \in S
  <2>1. k \in Nat /\ k + 1 \in Nat OBVIOUS
  <2>2. ASSUME NEW s \in UpTo(k + 1), s \in UpTo(n) PROVE c[s] + More(s) <= d[s]
    <3>1. CASE s = {}
      <4>1. c[s] = 0 /\ d[s] = 0 /\ More(s) = 0 BY Zenon, <1>4, <2>2, <3>1
      <4>2. 0 + 0 <= 0 OBVIOUS
      <4> QED BY Zenon, <4>1, <4>2
    <3>2. CASE s # {}
      <4>1. Others(s) \in UpTo(k) /\ First(s) \in s /\ First(s) \in Workers BY Zenon, <2>1, <3>2, UpToLess
      <4>2. Others(s) \in UpTo(n)
        <5>1. n - 1 \in Nat /\ (n - 1) + 1 = n
          <6>1. Cardinality(s) \in Nat \ {0} /\ Cardinality(s) <= n BY Zenon, <2>2, <3>2, OthersFewer DEF UpTo
          <6> QED BY <1>1, <6>1
        <5>2. \A m \in Nat : s \in UpTo(m + 1) => Others(s) \in UpTo(m + 1) BY Zenon, <3>2, UpToLess
        <5> QED BY Zenon, <2>2, <5>1, <5>2
      <4>3. PICK a \in Nat, b \in Nat, p \in Nat, q \in Nat, m \in Nat :
              /\ a = c[Others(s)] /\ b = d[Others(s)] /\ p = f[First(s)] /\ q = g[First(s)]
              /\ m = More(Others(s))
        BY Zenon, <1>4, <4>1, <4>2
      <4>4. c[s] = p + a /\ d[s] = q + b BY Zenon, <1>4, <2>2, <3>2, <4>3
      <4>5. a + m <= b /\ p <= q BY Zenon, <4>1, <4>2, <4>3
      <4>6. CASE First(s) = x
        <5>1. p + v <= q /\ m = 0 /\ More(s) = v BY Zenon, <4>1, <4>3, <4>6 DEF Others
        <5>2. (p + a) + v <= q + b BY <4>5, <5>1
        <5> QED BY Zenon, <4>4, <5>1, <5>2
      <4>7. CASE First(s) # x
        <5>1. More(s) = m BY Zenon, <4>1, <4>3, <4>7 DEF Others
        <5>2. (p + a) + m <= q + b BY <4>5
        <5> QED BY Zenon, <4>4, <5>1, <5>2
      <4> QED BY Zenon, <4>6, <4>7
    <3> QED BY Zenon, <3>1, <3>2
  <2> QED BY Zenon, <2>1, <2>2
<1> HIDE DEF S
<1>7. S \in SUBSET Nat BY Zenon DEF S
<1>8. S = Nat BY Zenon, <1>5, <1>6, <1>7, NatSet
<1>9. Workers \in UpTo(n)
  <2>1. n <= n BY <1>1
  <2> QED BY Zenon, <2>1 DEF UpTo, n
<1>10. c[Workers] + More(Workers) <= d[Workers] BY Zenon, <1>1, <1>8, <1>9 DEF S
<1> QED BY Zenon, <1>2, <1>3, <1>4, <1>9, <1>10

\* Totals of two functions of the workers.
Smaller(f, g) == Total(f) \in Nat /\ Total(g) \in Nat /\ Total(f) <= Total(g)

\* The smaller function has the smaller total.
LEMMA TotalLeq ==
    ASSUME NEW f \in [Workers -> Nat], NEW g \in [Workers -> Nat], \A w \in Workers : f[w] <= g[w]
    PROVE  Smaller(f, g)
<1>1. PICK x \in Workers : TRUE BY Zenon, WorkersAssumption
<1>2. PICK v \in Nat : v = 0 OBVIOUS
<1>3. \A n \in Nat : n + v = n BY <1>2
<1>4. f[x] + v <= g[x] BY Zenon, <1>3
<1>5. Total(f) \in Nat /\ Total(g) \in Nat /\ Total(f) + v <= Total(g) BY Zenon, <1>4, TotalGrows
<1> QED BY Zenon, <1>3, <1>5 DEF Smaller

\* A total is at most n times another when each share is.
LEMMA TotalTimes ==
    ASSUME NEW f \in [Workers -> Nat], NEW g \in [Workers -> Nat], NEW t \in Nat,
           \A w \in Workers : f[w] <= t * g[w]
    PROVE  Total(f) \in Nat /\ Total(g) \in Nat /\ Total(f) <= t * Total(g)
<1> DEFINE n == Cardinality(Workers)
<1>1. n \in Nat BY Zenon, FS_CardinalityType, WorkersAssumption
<1>2. PICK c : Sums(f, n, c) /\ Total(f) = c[Workers] BY Zenon, TotalIs
<1>3. PICK d : Sums(g, n, d) /\ Total(g) = d[Workers] BY Zenon, TotalIs
<1>4. \A s \in UpTo(n) : /\ c[s] \in Nat /\ c[s] = IF s = {} THEN 0 ELSE f[First(s)] + c[Others(s)]
                         /\ d[s] \in Nat /\ d[s] = IF s = {} THEN 0 ELSE g[First(s)] + d[Others(s)]
  BY Zenon, <1>2, <1>3 DEF Sums
<1> HIDE DEF n
<1> DEFINE S == {k \in Nat : \A s \in UpTo(k) : s \in UpTo(n) => c[s] <= t * d[s]}
<1>5. ASSUME NEW s \in UpTo(n), s = {} PROVE c[s] <= t * d[s]
  <2>1. c[s] = 0 /\ d[s] = 0 BY Zenon, <1>4, <1>5
  <2>2. 0 <= t * 0 OBVIOUS
  <2> QED BY Zenon, <2>1, <2>2
<1>6. 0 \in S
  <2>1. \A s \in UpTo(0) : s = {} BY Zenon, UpToGrows
  <2> QED BY Zenon, <1>5, <2>1
<1>7. ASSUME NEW k \in S PROVE k + 1 \in S
  <2>1. k \in Nat /\ k + 1 \in Nat OBVIOUS
  <2>2. ASSUME NEW s \in UpTo(k + 1), s \in UpTo(n), s # {} PROVE c[s] <= t * d[s]
    <3>1. Others(s) \in UpTo(k) /\ First(s) \in Workers BY Zenon, <2>1, <2>2, UpToLess
    <3>2. Others(s) \in UpTo(n)
      <4>1. n - 1 \in Nat /\ (n - 1) + 1 = n
        <5>1. Cardinality(s) \in Nat \ {0} /\ Cardinality(s) <= n BY Zenon, <2>2, OthersFewer DEF UpTo
        <5> QED BY <1>1, <5>1
      <4>2. \A m \in Nat : s \in UpTo(m + 1) => Others(s) \in UpTo(m + 1) BY Zenon, <2>2, UpToLess
      <4> QED BY Zenon, <2>2, <4>1, <4>2
    <3>3. PICK a \in Nat, b \in Nat, p \in Nat, q \in Nat :
            a = c[Others(s)] /\ b = d[Others(s)] /\ p = f[First(s)] /\ q = g[First(s)]
      BY Zenon, <1>4, <3>1, <3>2
    <3>4. c[s] = p + a /\ d[s] = q + b BY Zenon, <1>4, <2>2, <3>3
    <3>5. a <= t * b /\ p <= t * q BY Zenon, <3>1, <3>2, <3>3
    <3>6. t * (q + b) = t * q + t * b OBVIOUS
    <3>7. PICK x \in Nat, y \in Nat : x = t * b /\ y = t * q
      <4>1. t * b \in Nat /\ t * q \in Nat OBVIOUS
      <4> QED BY Zenon, <4>1
    <3>8. p + a <= y + x BY <3>5, <3>7
    <3> QED BY Zenon, <3>4, <3>6, <3>7, <3>8
  <2> QED BY Zenon, <1>5, <2>1, <2>2
<1> HIDE DEF S
<1>8. S \in SUBSET Nat BY Zenon DEF S
<1>9. S = Nat BY Zenon, <1>6, <1>7, <1>8, NatSet
<1>10. Workers \in UpTo(n)
  <2>1. n <= n BY <1>1
  <2> QED BY Zenon, <2>1 DEF UpTo, n
<1>11. c[Workers] <= t * d[Workers] BY Zenon, <1>1, <1>9, <1>10 DEF S
<1> QED BY Zenon, <1>2, <1>3, <1>4, <1>10, <1>11

\* Products of naturals.
LEMMA Products ==
    /\ \A a, b \in Nat : a * b \in Nat
    /\ \A a, b, c \in Nat : b <= c => a * b <= a * c /\ b * a <= c * a
    /\ \A a, b \in Nat : (a + 1) * b = a * b + b
<1>1. \A a, b \in Nat : a * b \in Nat OBVIOUS
<1>2. \A a, b \in Nat : (a + 1) * b = a * b + b OBVIOUS
<1>3. ASSUME NEW a \in Nat, NEW b \in Nat, NEW c \in Nat, b <= c
      PROVE  a * b <= a * c /\ b * a <= c * a
  <2>1. PICK d \in Nat : c = b + d
    <3>1. c - b \in Nat /\ c = b + (c - b) BY <1>3
    <3> QED BY Zenon, <3>1
  <2>2. a * (b + d) = a * b + a * d /\ (b + d) * a = b * a + d * a OBVIOUS
  <2>3. PICK x \in Nat, y \in Nat, z \in Nat, u \in Nat : x = a * b /\ y = a * d /\ z = b * a /\ u = d * a
    BY Zenon, <1>1
  <2>4. x <= x + y /\ z <= z + u OBVIOUS
  <2> QED BY Zenon, <2>1, <2>2, <2>3, <2>4
<1> QED BY Zenon, <1>1, <1>2, <1>3

----------------------------------------------------------------------------
(* The results that are collected, and the totals that are reported. *)

\* The calls of the mapper in a list, and their number.
Maps(s) == {j \in 1 .. Len(s) : s[j] = "map"}
NrMaps(s) == Cardinality(Maps(s))

\* The results of w that have been added up: asked for, and not on their way.
Added(w) == dones - (NrMaps(inbox[w]) + Len(replies[w]))

\* What w completed, once for each result that has been added up.
Share == [w \in Workers |-> Added(w) * done[w]]

\* A worker is asked for its result once per run of on_done_, and answers with no more than
\* it completed.
Answers(w) ==
    /\ NrMaps(inbox[w]) + Len(replies[w]) <= dones
    /\ \A i \in 1 .. Len(replies[w]) : replies[w][i] <= done[w]
    /\ stats[w] <= done[w] /\ (pc[w] = "running" => stats[w] = 0)

CollectInv ==
    /\ \A w \in Workers : Answers(w)
    /\ reqs <= Total(Share) /\ \A i \in DOMAIN reports : reports[i] <= dones * Total(done)

\* The calls of a list are finitely many.
LEMMA MapsFinite ==
    ASSUME NEW s \in Seq(Task)
    PROVE  IsFiniteSet(Maps(s)) /\ NrMaps(s) \in Nat
<1>1. PICK n \in Nat : n = Len(s) OBVIOUS
<1>2. IsFiniteSet(1 .. n) BY FS_Interval
<1>3. Maps(s) \in SUBSET (1 .. n) BY Zenon, <1>1 DEF Maps
<1> QED BY Zenon, <1>2, <1>3, FS_Subset, FS_CardinalityType DEF NrMaps

\* The first call of a list is taken.
MapTaken(s) == NrMaps(s) = NrMaps(Tail(s)) + (IF Head(s) = "map" THEN 1 ELSE 0)

LEMMA MapsTail ==
    ASSUME NEW s \in Seq(Task), s # <<>>
    PROVE  MapTaken(s)
<1>1. /\ Tail(s) \in Seq(Task) /\ Len(Tail(s)) = Len(s) - 1
      /\ \A k \in 1 .. Len(Tail(s)) : k + 1 \in 1 .. Len(s) /\ Tail(s)[k] = s[k + 1]
  BY Zenon, TailTasks
<1>2. PICK n \in Nat \ {0} : n = Len(s) OBVIOUS
<1>3. \A k \in 1 .. n - 1 : k + 1 \in 1 .. n /\ k + 1 # 1 /\ k \in Int OBVIOUS
<1>4. \A k \in 1 .. n : k # 1 => k - 1 \in 1 .. n - 1 /\ (k - 1) + 1 = k OBVIOUS
<1>5. 1 \in 1 .. n /\ Head(s) = s[1] BY <1>2
<1> DEFINE A == Maps(Tail(s)) B == Maps(s) \ {1} f == [k \in A |-> k + 1]
<1>6. \A k \in A : k \in Int /\ k + 1 \in B BY Zenon, <1>1, <1>2, <1>3 DEF Maps
<1>7. \A k \in B : k - 1 \in A /\ (k - 1) + 1 = k BY Zenon, <1>1, <1>2, <1>4 DEF Maps
<1>8. Head(s) = "map" <=> 1 \in Maps(s) BY Zenon, <1>2, <1>5 DEF Maps
<1> HIDE DEF A, B
<1>9. \A j, k \in Int : j + 1 = k + 1 => j = k OBVIOUS
<1>10. f \in Injection(A, B) BY Zenon, <1>6, <1>9 DEF Injection, IsInjective
<1>11. f \in Surjection(A, B) BY Zenon, <1>6, <1>7 DEF Surjection
<1>12. ExistsBijection(A, B) BY Zenon, <1>10, <1>11 DEF ExistsBijection, Bijection
<1>13. IsFiniteSet(A) /\ IsFiniteSet(Maps(s)) /\ NrMaps(s) \in Nat BY Zenon, <1>1, MapsFinite DEF A
<1>14. Cardinality(B) = NrMaps(Tail(s)) BY Zenon, <1>12, <1>13, FS_Bijection DEF A, NrMaps
<1>15. Cardinality(B) = IF 1 \in Maps(s) THEN NrMaps(s) - 1 ELSE NrMaps(s)
  BY Zenon, <1>13, FS_RemoveElement DEF B, NrMaps
<1>16. CASE Head(s) = "map"
  <2>1. NrMaps(Tail(s)) = NrMaps(s) - 1 BY Zenon, <1>8, <1>14, <1>15, <1>16
  <2>2. NrMaps(s) = NrMaps(Tail(s)) + 1 BY <1>13, <2>1
  <2> QED BY Zenon, <1>16, <2>2 DEF MapTaken
<1>17. CASE Head(s) # "map"
  <2>1. NrMaps(Tail(s)) = NrMaps(s) BY Zenon, <1>8, <1>14, <1>15, <1>17
  <2>2. NrMaps(s) = NrMaps(Tail(s)) + 0 BY <1>13, <2>1
  <2> QED BY Zenon, <1>17, <2>2 DEF MapTaken
<1> QED BY Zenon, <1>16, <1>17

\* A call is put at the end of a list.
LEMMA MapsAppend ==
    ASSUME NEW s \in Seq(Task), NEW t \in Task
    PROVE  NrMaps(s \o <<t>>) = IF t = "map" THEN NrMaps(s) + 1 ELSE NrMaps(s)
<1>1. PICK n \in Nat : n = Len(s) OBVIOUS
<1>2. /\ Len(s \o <<t>>) = n + 1 /\ (s \o <<t>>)[n + 1] = t
      /\ \A k \in 1 .. n : (s \o <<t>>)[k] = s[k]
  BY <1>1
<1>3. \A k \in 1 .. n + 1 : k = n + 1 \/ k \in 1 .. n OBVIOUS
<1>4. n + 1 \in 1 .. n + 1 /\ n + 1 \notin 1 .. n /\ \A k \in 1 .. n : k \in 1 .. n + 1 OBVIOUS
<1>5. \A k : k \in Maps(s \o <<t>>) <=> (k \in Maps(s) \/ (k = n + 1 /\ t = "map"))
  BY Zenon, <1>1, <1>2, <1>3, <1>4 DEF Maps
<1>6. IsFiniteSet(Maps(s)) /\ n + 1 \notin Maps(s) BY Zenon, <1>1, <1>4, MapsFinite DEF Maps
<1>7. CASE t # "map"
  <2>1. Maps(s \o <<t>>) = Maps(s) BY Zenon, <1>5, <1>7
  <2> QED BY Zenon, <1>7, <2>1 DEF NrMaps
<1>8. CASE t = "map"
  <2>1. Maps(s \o <<t>>) = Maps(s) \cup {n + 1} BY Zenon, <1>5, <1>8
  <2>2. Cardinality(Maps(s) \cup {n + 1}) = Cardinality(Maps(s)) + 1 BY Zenon, <1>6, FS_AddElement
  <2> QED BY Zenon, <1>8, <2>1, <2>2 DEF NrMaps
<1> QED BY Zenon, <1>7, <1>8

\* The numbers of which the account is made.
Figures(w) ==
    /\ NrMaps(inbox[w]) \in Nat /\ Len(replies[w]) \in Nat /\ dones \in Nat
    /\ Added(w) \in Nat /\ done[w] \in Nat /\ stats[w] \in Nat /\ Share[w] \in Nat

LEMMA AreFigures ==
    ASSUME GameInv, DataTypeOK, NEW w \in Workers, Answers(w)
    PROVE  Figures(w)
<1>1. NrMaps(inbox[w]) \in Nat BY Zenon, MapsFinite DEF GameInv, GameTypeOK
<1>2. done[w] \in Nat /\ stats[w] \in Nat /\ Len(replies[w]) \in Nat BY LoaderBounds DEF DataTypeOK
<1>3. dones \in Nat BY Zenon DEF GameInv, GameTypeOK
<1>4. Added(w) \in Nat BY <1>1, <1>2, <1>3 DEF Answers, Added
<1>5. Share[w] \in Nat BY Zenon, <1>2, <1>4, Products DEF Share
<1> QED BY Zenon, <1>1, <1>2, <1>3, <1>4, <1>5 DEF Figures

LEMMA AreFiguresNext ==
    ASSUME GameInv', DataTypeOK', NEW w \in Workers, Answers(w)'
    PROVE  Figures(w)'
<1>1. NrMaps(inbox'[w]) \in Nat BY Zenon, MapsFinite DEF GameInv, GameTypeOK
<1>2. done'[w] \in Nat /\ stats'[w] \in Nat /\ Len(replies'[w]) \in Nat BY LoaderBounds DEF DataTypeOK
<1>3. dones' \in Nat BY Zenon DEF GameInv, GameTypeOK
<1>4. Added(w)' \in Nat BY <1>1, <1>2, <1>3 DEF Answers, Added
<1>5. Share'[w] \in Nat BY Zenon, <1>2, <1>4, Products DEF Share
<1> QED BY Zenon, <1>1, <1>2, <1>3, <1>4, <1>5 DEF Figures

\* Steps that add nothing up and report nothing.
LEMMA CollectFrame ==
    ASSUME CollectInv, GameInv, GameInv', DataTypeOK, DataTypeOK', UNCHANGED <<reqs, reports>>, dones <= dones',
           \A w \in Workers : Answers(w)' /\ Added(w)' = Added(w) /\ done[w] <= done'[w]
    PROVE  CollectInv'
<1>1. ASSUME NEW w \in Workers PROVE Figures(w) /\ Figures(w)'
  <2>1. Answers(w) /\ Answers(w)' BY Zenon DEF CollectInv
  <2>2. Figures(w) BY Zenon, <2>1, AreFigures
  <2>3. Figures(w)' BY Zenon, <2>1, AreFiguresNext
  <2> QED BY Zenon, <2>2, <2>3
<1>2. /\ Share \in [Workers -> Nat] /\ Share' \in [Workers -> Nat] /\ reqs \in Nat
      /\ done \in [Workers -> Nat] /\ done' \in [Workers -> Nat]
      /\ \A i \in DOMAIN reports : reports[i] \in Nat
  <2>1. Share \in [Workers -> Nat] /\ Share' \in [Workers -> Nat] BY Zenon, <1>1 DEF Figures, Share
  <2>2. /\ reqs \in Nat /\ done \in [Workers -> Nat] /\ done' \in [Workers -> Nat]
        /\ \A i \in DOMAIN reports : reports[i] \in Nat
    BY LoaderBounds DEF DataTypeOK
  <2> QED BY Zenon, <2>1, <2>2
<1>3. \A w \in Workers : Share[w] <= Share'[w] BY Zenon, <1>1, Products DEF Share, Figures
<1>4. Smaller(Share, Share') /\ Smaller(done, done') BY Zenon, <1>2, <1>3, TotalLeq
<1>5. \A a, b, c \in Nat : a <= b /\ b <= c => a <= c OBVIOUS
<1>6. reqs' <= Total(Share') BY Zenon, <1>2, <1>4, <1>5 DEF CollectInv, Smaller
<1>7. dones \in Nat /\ dones' \in Nat BY Zenon DEF GameInv, GameTypeOK
<1>8. PICK a \in Nat, b \in Nat : a = Total(done) /\ b = Total(done') /\ a <= b BY Zenon, <1>4 DEF Smaller
<1>9. dones * a <= dones' * a /\ dones' * a <= dones' * b
      /\ dones * a \in Nat /\ dones' * a \in Nat /\ dones' * b \in Nat
  BY Zenon, <1>7, <1>8, Products
<1>10. \A i \in DOMAIN reports : reports[i] <= dones' * b BY Zenon, <1>2, <1>5, <1>8, <1>9 DEF CollectInv
<1> QED BY Zenon, <1>6, <1>8, <1>10 DEF CollectInv

\* A worker of which nothing changes but calls other than the mapper's.
LEMMA AnswersKept ==
    ASSUME NEW u \in Workers, Answers(u), dones' = dones, replies'[u] = replies[u],
           done'[u] = done[u], stats'[u] = stats[u], pc'[u] = pc[u],
           NrMaps(inbox'[u]) = NrMaps(inbox[u])
    PROVE  Answers(u)' /\ Added(u)' = Added(u)
  BY Zenon DEF Answers, Added

\* Calls that core 0 submits, other than the mapper's.
LEMMA SubmitCollects ==
    ASSUME GameInv, GameInv', CollectInv, DataTypeOK, DataTypeOK', NEW t \in Task \ {"map"}, SubmitAll(<<t>>),
           UNCHANGED <<dones, replies, done, stats, pc, reqs, reports>>
    PROVE  CollectInv'
<1>1. ASSUME NEW u \in Workers
      PROVE  Answers(u)' /\ Added(u)' = Added(u) /\ done[u] <= done'[u]
  <2>1. PICK s \in Seq(Task) : s = inbox[u] BY Zenon DEF GameInv, GameTypeOK
  <2>2. inbox'[u] = s \o <<t>> BY Zenon, <2>1 DEF SubmitAll
  <2>3. NrMaps(inbox'[u]) = NrMaps(inbox[u]) BY Zenon, <2>1, <2>2, MapsAppend
  <2>4. Answers(u) BY Zenon DEF CollectInv
  <2>5. done[u] <= done'[u] BY DEF DataTypeOK
  <2> QED BY Zenon, <2>3, <2>4, <2>5, AnswersKept
<1>2. dones <= dones' BY DEF GameInv, GameTypeOK
<1> QED BY Zenon, <1>1, <1>2, CollectFrame

\* The start of the service.
LEMMA StartCollects ==
    ASSUME GameInv, GameInv', CollectInv, DataTypeOK, DataTypeOK', Start
    PROVE  CollectInv'
<1>1. UNCHANGED <<dones, replies, done, stats, pc, reqs, reports>> BY Zenon DEF Start, game, worker
<1>2. ASSUME NEW u \in Workers
      PROVE  Answers(u)' /\ Added(u)' = Added(u) /\ done[u] <= done'[u]
  <2>1. inbox[u] = <<>> /\ inbox'[u] = <<"create", "connect", "run">>
    BY Zenon, EmptyFirst DEF Start, SubmitAll, GameInv, RunsOnce
  <2>2. Maps(<<>>) = {} BY DEF Maps
  <2>3. Maps(<<"create", "connect", "run">>) = {} BY DEF Maps
  <2>4. Answers(u) BY Zenon DEF CollectInv
  <2>5. done[u] <= done'[u] BY <1>1 DEF DataTypeOK
  <2>6. NrMaps(inbox'[u]) = NrMaps(inbox[u]) BY Zenon, <2>1, <2>2, <2>3 DEF NrMaps
  <2> QED BY Zenon, <1>1, <2>4, <2>5, <2>6, AnswersKept
<1>3. dones <= dones' BY <1>1 DEF GameInv, GameTypeOK
<1> QED BY Zenon, <1>1, <1>2, <1>3, CollectFrame

\* on_done_ runs once more, and asks everybody once more.
LEMMA OnDoneCollects ==
    ASSUME GameInv, GameInv', CollectInv, DataTypeOK, DataTypeOK', NEW w \in Workers, OnDone(w)
    PROVE  CollectInv'
<1>1. UNCHANGED <<replies, done, stats, pc, reqs, reports>> /\ dones' = dones + 1
  BY Zenon DEF OnDone, worker
<1>2. ASSUME NEW u \in Workers
      PROVE  Answers(u)' /\ Added(u)' = Added(u) /\ done[u] <= done'[u]
  <2>1. PICK s \in Seq(Task) : s = inbox[u] BY Zenon DEF GameInv, GameTypeOK
  <2>2. inbox'[u] = s \o <<"map">> /\ "map" \in Task BY Zenon, <2>1 DEF OnDone, SubmitAll, Task
  <2>3. NrMaps(inbox'[u]) = NrMaps(inbox[u]) + 1 BY Zenon, <2>1, <2>2, MapsAppend
  <2>4. Answers(u) /\ Figures(u) BY Zenon, AreFigures DEF CollectInv
  <2>5. PICK m \in Nat, l \in Nat, d \in Nat : m = NrMaps(inbox[u]) /\ l = Len(replies[u]) /\ d = dones
    BY Zenon, <2>4 DEF Figures
  <2>6. m + l <= d BY Zenon, <2>4, <2>5 DEF Answers
  <2>7. (m + 1) + l <= d + 1 /\ (d + 1) - ((m + 1) + l) = d - (m + l) BY <2>6
  <2>8. Added(u)' = Added(u) BY Zenon, <1>1, <2>3, <2>5, <2>7 DEF Added
  <2>9. Answers(u)' BY Zenon, <1>1, <2>3, <2>4, <2>5, <2>7 DEF Answers
  <2>10. done[u] <= done'[u] BY <1>1 DEF DataTypeOK
  <2> QED BY Zenon, <2>8, <2>9, <2>10
<1>3. dones <= dones' BY <1>1 DEF GameInv, GameTypeOK
<1> QED BY Zenon, <1>1, <1>2, <1>3, CollectFrame

\* A worker runs a call other than the mapper's.
LEMMA TakeCollects ==
    ASSUME GameInv, GameInv', CollectInv, DataTypeOK, DataTypeOK', NEW w \in Workers, NEW task \in Task \ {"map"},
           Take(w, task), UNCHANGED <<replies, done, stats>>
    PROVE  CollectInv'
<1>1. UNCHANGED <<dones, pc, reqs, reports>> BY Zenon DEF Take, main, game
<1>2. PICK s \in Seq(Task) : s = inbox[w] /\ s # <<>> /\ Head(s) = task
  BY Zenon DEF Take, GameInv, GameTypeOK
<1>3. inbox'[w] = Tail(s) /\ \A u \in Workers : u # w => inbox'[u] = inbox[u]
  BY Zenon, <1>2 DEF Take, GameInv, GameTypeOK
<1>4. NrMaps(s) = NrMaps(Tail(s))
  <2>1. NrMaps(s) = NrMaps(Tail(s)) + 0 BY Zenon, <1>2, MapsTail DEF MapTaken
  <2>2. Tail(s) \in Seq(Task) BY Zenon, <1>2, TailTasks
  <2>3. NrMaps(Tail(s)) \in Nat BY Zenon, <2>2, MapsFinite
  <2> QED BY <2>1, <2>3
<1>5. ASSUME NEW u \in Workers
      PROVE  Answers(u)' /\ Added(u)' = Added(u) /\ done[u] <= done'[u]
  <2>1. NrMaps(inbox'[u]) = NrMaps(inbox[u]) BY Zenon, <1>2, <1>3, <1>4
  <2>2. done[u] <= done'[u] BY DEF DataTypeOK
  <2> QED BY Zenon, <1>1, <2>1, <2>2, AnswersKept DEF CollectInv
<1>6. dones <= dones' BY <1>1 DEF GameInv, GameTypeOK
<1> QED BY Zenon, <1>1, <1>5, <1>6, CollectFrame

\* The mapper answers with stats: one call fewer, one result more.
LEMMA MapCollects ==
    ASSUME GameInv, GameInv', CollectInv, DataTypeOK, DataTypeOK', NEW w \in Workers, Map(w)
    PROVE  CollectInv'
<1>1. UNCHANGED <<dones, pc, reqs, reports, done, stats>> BY Zenon DEF Map, Take, main, game, worker
<1>2. PICK s \in Seq(Task) : s = inbox[w] /\ s # <<>> /\ Head(s) = "map"
  BY Zenon DEF Map, Take, GameInv, GameTypeOK
<1>3. inbox'[w] = Tail(s) /\ \A u \in Workers : u # w => inbox'[u] = inbox[u]
  BY Zenon, <1>2 DEF Map, Take, GameInv, GameTypeOK
<1>4. replies'[w] = Append(replies[w], stats[w]) /\ \A u \in Workers : u # w => replies'[u] = replies[u]
  BY Zenon DEF Map, DataTypeOK
<1>5. ASSUME NEW u \in Workers
      PROVE  Answers(u)' /\ Added(u)' = Added(u) /\ done[u] <= done'[u]
  <2>1. Answers(u) BY Zenon DEF CollectInv
  <2>2. done[u] <= done'[u] BY <1>1 DEF DataTypeOK
  <2>3. CASE u = w
    <3>1. NrMaps(s) = NrMaps(Tail(s)) + 1 /\ Tail(s) \in Seq(Task) BY Zenon, <1>2, MapsTail, TailTasks DEF MapTaken
    <3>2. PICK m \in Nat : m = NrMaps(Tail(s)) BY Zenon, <3>1, MapsFinite
    <3>3. PICK r \in Seq(Nat) : r = replies[w] BY Zenon DEF DataTypeOK
    <3>4. PICK v \in Nat : v = stats[w] /\ v <= done[w] BY Zenon, <2>1, <2>3 DEF Answers, DataTypeOK
    <3>5. PICK l \in Nat : l = Len(r) BY <3>3
    <3>6. /\ Len(Append(r, v)) = l + 1
          /\ \A i \in 1 .. l + 1 : Append(r, v)[i] = v \/ (i \in 1 .. l /\ Append(r, v)[i] = r[i])
      BY <3>5
    <3>7. PICK d \in Nat : d = dones BY Zenon DEF GameInv, GameTypeOK
    <3>8. (m + 1) + l <= d BY Zenon, <1>2, <2>1, <2>3, <3>1, <3>2, <3>3, <3>5, <3>7 DEF Answers
    <3>9. m + (l + 1) <= d /\ d - (m + (l + 1)) = d - ((m + 1) + l) BY <3>8
    <3>10. NrMaps(inbox'[w]) = m /\ NrMaps(inbox[w]) = m + 1 /\ Len(replies'[w]) = l + 1 /\ Len(replies[w]) = l
      BY Zenon, <1>2, <1>3, <1>4, <3>1, <3>2, <3>3, <3>4, <3>5, <3>6
    <3>11. Added(w)' = Added(w) BY Zenon, <1>1, <3>7, <3>9, <3>10 DEF Added
    <3>12. \A i \in 1 .. Len(replies'[w]) : replies'[w][i] <= done'[w]
      BY Zenon, <1>1, <1>4, <2>1, <2>3, <3>3, <3>4, <3>5, <3>6, <3>10 DEF Answers
    <3>13. Answers(w)' BY Zenon, <1>1, <2>1, <2>3, <3>7, <3>9, <3>10, <3>12 DEF Answers
    <3> QED BY Zenon, <2>2, <2>3, <3>11, <3>13
  <2>4. CASE u # w
    BY Zenon, <1>1, <1>3, <1>4, <2>1, <2>2, <2>4, AnswersKept
  <2> QED BY Zenon, <2>3, <2>4
<1>6. dones <= dones' BY <1>1 DEF GameInv, GameTypeOK
<1> QED BY Zenon, <1>1, <1>5, <1>6, CollectFrame

\* The load goes on, ends, and is counted.
LEMMA LoadCollects ==
    ASSUME GameInv, GameInv', CollectInv, DataTypeOK, DataTypeOK', NEW w \in Workers,
           Complete(w) \/ Expire(w) \/ Count(w) \/ EndGame(w)
    PROVE  CollectInv'
<1>1. UNCHANGED <<dones, inbox, replies, reqs, reports>>
  BY Zenon DEF Complete, Expire, Count, EndGame, main, worker
<1>2. ASSUME NEW u \in Workers
      PROVE  Answers(u)' /\ Added(u)' = Added(u) /\ done[u] <= done'[u]
  <2>1. PICK a \in Nat, b \in Nat, c \in Nat, d \in Nat :
          a = done[u] /\ b = done'[u] /\ c = stats[u] /\ d = stats'[u]
    <3>1. done[u] \in Nat /\ done'[u] \in Nat BY LoaderBounds DEF DataTypeOK
    <3>2. stats[u] \in Nat /\ stats'[u] \in Nat BY Zenon DEF DataTypeOK
    <3> QED BY Zenon, <3>1, <3>2
  <2>2. c <= a /\ (pc[u] = "running" => c = 0) BY Zenon, <2>1 DEF CollectInv, Answers
  <2>3. a <= b /\ d <= b /\ (pc'[u] = "running" => d = 0)
    <3>1. CASE u # w
      <4>1. b = a /\ d = c /\ pc'[u] = pc[u]
        BY Zenon, <2>1, <3>1 DEF Complete, Expire, Count, EndGame, game, worker, DataTypeOK, GameInv, GameTypeOK
      <4> QED BY <2>2, <4>1
    <3>2. CASE u = w /\ Complete(w)
      <4>1. b = a + 1 /\ d = c /\ pc'[u] = pc[u] BY Zenon, <2>1, <3>2 DEF Complete, game, DataTypeOK
      <4> QED BY <2>2, <4>1
    <3>3. CASE u = w /\ Expire(w)
      <4>1. b = a /\ d = c + a
        BY Zenon, <2>1, <3>3 DEF Expire, DataTypeOK
      <4>2. pc'[u] = "loaded" /\ pc[u] = "running"
        BY Zenon, <3>3 DEF Expire, GameInv, GameTypeOK, RunsOnce
      <4> QED BY <2>2, <4>1, <4>2
    <3>4. CASE u = w /\ (Count(w) \/ EndGame(w))
      <4>1. b = a /\ d = c /\ pc'[u] \in {"stored", "over"}
        BY Zenon, <2>1, <3>4 DEF Count, EndGame, worker, GameInv, GameTypeOK
      <4> QED BY <2>2, <4>1
    <3> QED BY Zenon, <3>1, <3>2, <3>3, <3>4
  <2>4. ASSUME NEW i \in 1 .. Len(replies[u]) PROVE replies[u][i] <= b
    <3>1. replies[u][i] \in Nat
      <4>1. PICK q \in Seq(Nat) : q = replies[u] BY Zenon DEF DataTypeOK
      <4>2. \A k \in 1 .. Len(q) : q[k] \in Nat OBVIOUS
      <4> QED BY Zenon, <4>1, <4>2
    <3>2. replies[u][i] <= a BY Zenon, <2>1 DEF CollectInv, Answers
    <3> QED BY <2>3, <3>1, <3>2
  <2> QED BY Zenon, <1>1, <2>1, <2>3, <2>4 DEF CollectInv, Answers, Added
<1>3. dones <= dones' BY <1>1 DEF GameInv, GameTypeOK
<1> QED BY Zenon, <1>1, <1>2, <1>3, CollectFrame

\* A report is the sum of shares.
LEMMA SummaryCollects ==
    ASSUME GameInv, CollectInv, DataTypeOK, Summary
    PROVE  CollectInv'
<1>1. UNCHANGED <<dones, inbox, replies, reqs, done, stats, pc>> BY Zenon DEF Summary, game, worker
<1>2. \A w \in Workers : Answers(w)' BY Zenon, <1>1 DEF CollectInv, Answers
<1>3. Share' = Share BY Zenon, <1>1 DEF Share, Added
<1>4. done \in [Workers -> Nat] /\ reqs \in Nat /\ reports \in Seq(Nat) BY LoaderBounds DEF DataTypeOK
<1>5. ASSUME NEW w \in Workers PROVE Share[w] \in Nat /\ Share[w] <= dones * done[w]
  <2>1. Figures(w) BY Zenon, AreFigures DEF CollectInv
  <2>2. Added(w) <= dones BY <2>1 DEF Figures, Added
  <2> QED BY Zenon, <2>1, <2>2, Products DEF Figures, Share
<1>6. Share \in [Workers -> Nat] BY Zenon, <1>5 DEF Share
<1>7. dones \in Nat BY Zenon DEF GameInv, GameTypeOK
<1>8. Total(Share) \in Nat /\ Total(done) \in Nat /\ Total(Share) <= dones * Total(done)
  BY Zenon, <1>4, <1>5, <1>6, <1>7, TotalTimes
<1>9. reqs <= dones * Total(done)
  <2>1. \A a, b, c \in Nat : a <= b /\ b <= c => a <= c OBVIOUS
  <2>2. dones * Total(done) \in Nat BY Zenon, <1>7, <1>8, Products
  <2> QED BY Zenon, <1>4, <1>8, <2>1, <2>2 DEF CollectInv
<1>10. \A i \in DOMAIN reports' : reports'[i] = reqs \/ (i \in DOMAIN reports /\ reports'[i] = reports[i])
  <2>1. reports' = reports \/ reports' = Append(reports, reqs) BY Zenon DEF Summary
  <2>2. \A i \in DOMAIN Append(reports, reqs) :
            \/ Append(reports, reqs)[i] = reqs
            \/ i \in DOMAIN reports /\ Append(reports, reqs)[i] = reports[i]
    BY <1>4
  <2> QED BY Zenon, <2>1, <2>2
<1>11. \A i \in DOMAIN reports' : reports'[i] <= dones' * Total(done') BY Zenon, <1>1, <1>9, <1>10 DEF CollectInv
<1>12. reqs' <= Total(Share') BY Zenon, <1>1, <1>3 DEF CollectInv
<1> QED BY Zenon, <1>2, <1>11, <1>12 DEF CollectInv

\* A result is added up: its worker's share counts once more.
LEMMA ReduceCollects ==
    ASSUME GameInv, GameInv', CollectInv, DataTypeOK, DataTypeOK', NEW w \in Workers, Reduce(w)
    PROVE  CollectInv'
<1>1. UNCHANGED <<dones, inbox, reports, done, stats, pc>> BY Zenon DEF Reduce, game, worker
<1>2. replies[w] # <<>> /\ replies'[w] = Tail(replies[w]) /\ \A u \in Workers : u # w => replies'[u] = replies[u]
  BY Zenon DEF Reduce, DataTypeOK
<1>3. PICK r \in Seq(Nat) : r = replies[w] /\ r # <<>> BY Zenon, <1>2 DEF DataTypeOK
<1>4. PICK l \in Nat : /\ Len(r) = l + 1 /\ Len(Tail(r)) = l /\ Head(r) = r[1] /\ r[1] \in Nat
                       /\ 1 \in 1 .. l + 1
                       /\ \A i \in 1 .. l : i + 1 \in 1 .. l + 1 /\ Tail(r)[i] = r[i + 1]
  <2>1. Len(r) - 1 \in Nat /\ Len(r) = (Len(r) - 1) + 1 BY <1>3
  <2>2. PICK l \in Nat : Len(r) = l + 1 BY Zenon, <2>1
  <2>3. /\ Len(Tail(r)) = l /\ Head(r) = r[1] /\ r[1] \in Nat /\ 1 \in 1 .. l + 1
        /\ \A i \in 1 .. l : i + 1 \in 1 .. l + 1 /\ Tail(r)[i] = r[i + 1]
    BY <1>3, <2>2
  <2> QED BY Zenon, <2>2, <2>3
<1>5. ASSUME NEW u \in Workers PROVE Answers(u) /\ Figures(u)
  BY Zenon, AreFigures DEF CollectInv
<1>6. PICK v \in Nat, m \in Nat, d \in Nat, e \in Nat :
        /\ v = Head(replies[w]) /\ m = NrMaps(inbox[w]) /\ d = dones /\ e = done[w] /\ v <= e
  BY Zenon, <1>3, <1>4, <1>5 DEF Answers, Figures
<1>7. m + (l + 1) <= d BY Zenon, <1>3, <1>4, <1>5, <1>6 DEF Answers
<1>8. m + l <= d /\ d - (m + (l + 1)) \in Nat /\ d - (m + l) = (d - (m + (l + 1))) + 1 BY <1>7
<1>9. Added(w)' = Added(w) + 1
  BY Zenon, <1>1, <1>2, <1>3, <1>4, <1>6, <1>8 DEF Added
<1>10. ASSUME NEW u \in Workers PROVE Answers(u)'
  <2>1. CASE u = w
    <3>1. \A i \in 1 .. l : Tail(r)[i] <= done[w]
      BY Zenon, <1>3, <1>4, <1>5 DEF Answers
    <3> QED BY ZenonT(30), <1>1, <1>2, <1>3, <1>4, <1>5, <1>6, <1>8, <2>1, <3>1 DEF Answers
  <2>2. CASE u # w BY Zenon, <1>1, <1>2, <1>5, <2>2 DEF Answers
  <2> QED BY Zenon, <2>1, <2>2
<1>11. \A u \in Workers : u # w => Share'[u] = Share[u] BY Zenon, <1>1, <1>2 DEF Share, Added
<1>12. Share[w] + v <= Share'[w]
  <2>1. PICK a \in Nat : a = Added(w) BY Zenon, <1>5 DEF Figures
  <2>2. Share[w] = a * e /\ Share'[w] = (a + 1) * e BY Zenon, <1>1, <1>6, <1>9, <2>1 DEF Share
  <2>3. PICK x \in Nat : x = a * e /\ (a + 1) * e = x + e BY Zenon, Products
  <2>4. x + v <= x + e BY <1>6
  <2> QED BY Zenon, <2>2, <2>3, <2>4
<1>13. ASSUME NEW u \in Workers PROVE Share[u] \in Nat /\ Share'[u] \in Nat /\ Share[u] <= Share'[u]
  <2>1. Figures(u)' BY Zenon, <1>10, AreFiguresNext
  <2>2. PICK a \in Nat, b \in Nat : a = Share[u] /\ b = Share'[u] BY Zenon, <1>5, <2>1 DEF Figures
  <2>3. a <= b
    <3>1. CASE u = w
      <4>1. a + v <= b BY Zenon, <1>12, <2>2, <3>1
      <4> QED BY <4>1
    <3>2. CASE u # w
      <4>1. a = b BY Zenon, <1>11, <2>2, <3>2
      <4> QED BY <4>1
    <3> QED BY Zenon, <3>1, <3>2
  <2> QED BY Zenon, <2>2, <2>3
<1>14. Share \in [Workers -> Nat] /\ Share' \in [Workers -> Nat] BY Zenon, <1>13 DEF Share
<1>15. Total(Share) \in Nat /\ Total(Share') \in Nat /\ Total(Share) + v <= Total(Share')
  BY Zenon, <1>12, <1>13, <1>14, TotalGrows
<1>16. reqs' <= Total(Share')
  <2>1. PICK a \in Nat, b \in Nat, c \in Nat : a = Total(Share) /\ b = Total(Share') /\ c = reqs
    BY <1>15, LoaderBounds DEF DataTypeOK
  <2>2. c <= a /\ a + v <= b BY Zenon, <1>15, <2>1 DEF CollectInv
  <2>3. reqs' = (c + v) % Word BY Zenon, <1>6, <2>1 DEF Reduce
  <2>4. (c + v) % Word <= c + v BY LoaderBounds
  <2>5. (c + v) % Word \in Nat BY LoaderBounds
  <2>6. (c + v) % Word <= b BY <2>2, <2>4, <2>5
  <2> QED BY Zenon, <2>1, <2>3, <2>6
<1>17. \A i \in DOMAIN reports' : reports'[i] <= dones' * Total(done') BY Zenon, <1>1 DEF CollectInv
<1> QED BY Zenon, <1>10, <1>16, <1>17 DEF CollectInv

\* Nothing is added up before the start.
LEMMA InitCollects == Init => CollectInv
<1> SUFFICES ASSUME Init PROVE CollectInv OBVIOUS
<1>1. Maps(<<>>) = {} /\ Len(<<>>) = 0 /\ 1 .. 0 = {} BY DEF Maps
<1>2. NrMaps(<<>>) = 0 BY Zenon, <1>1, FS_EmptySet DEF NrMaps
<1>3. 0 <= 0 /\ 0 \in Nat /\ 0 + 0 <= 0 /\ (0 - (0 + 0)) * 0 = 0 OBVIOUS
<1>4. \A w \in Workers : Answers(w) BY Zenon, <1>1, <1>2, <1>3 DEF Init, Answers
<1>5. \A w \in Workers : Share[w] = 0 BY Zenon, <1>1, <1>2, <1>3 DEF Init, Share, Added
<1>6. Share \in [Workers -> Nat] /\ \A w \in Workers : Share[w] <= Share[w]
  BY Zenon, <1>3, <1>5 DEF Share
<1>7. Total(Share) \in Nat BY Zenon, <1>6, TotalLeq DEF Smaller
<1>8. reqs <= Total(Share)
  <2>1. \A n \in Nat : 0 <= n OBVIOUS
  <2> QED BY Zenon, <1>7, <2>1 DEF Init
<1>9. reports = <<>> BY Zenon DEF Init
<1>10. DOMAIN reports = {} BY <1>9
<1> QED BY Zenon, <1>4, <1>8, <1>10 DEF CollectInv

\* Every step keeps the account.
LEMMA StepCollects ==
    GameInv /\ GameInv' /\ DataTypeOK /\ DataTypeOK' /\ CollectInv /\ [Next]_vars => CollectInv'
<1> SUFFICES ASSUME GameInv, GameInv', DataTypeOK, DataTypeOK', CollectInv, [Next]_vars PROVE CollectInv'
  BY Zenon
<1>1. CASE Stop
  <2>1. UNCHANGED <<dones, replies, done, stats, pc, reqs, reports>> BY Zenon, <1>1 DEF Stop, game, worker
  <2>2. SubmitAll(<<"stop">>) /\ "stop" \in Task \ {"map"}
    <3>1. "stop" # "map" OBVIOUS
    <3> QED BY Zenon, <1>1, <3>1 DEF Stop, Task
  <2> QED BY Zenon, <2>1, <2>2, SubmitCollects
<1>2. ASSUME NEW w \in Workers, Create(w) \/ Connect(w) \/ Run(w) \/ Halt(w) PROVE CollectInv'
  <2>1. UNCHANGED <<replies, done, stats>> BY Zenon, <1>2 DEF Create, Connect, Run, Halt, worker
  <2>2. \E task \in Task \ {"map"} : Take(w, task)
    <3>1. {"create", "connect", "run", "stop"} \subseteq Task \ {"map"} BY DEF Task
    <3> QED BY Zenon, <1>2, <3>1 DEF Create, Connect, Run, Halt
  <2> QED BY Zenon, <2>1, <2>2, TakeCollects
<1>3. CASE UNCHANGED vars
  <2>1. UNCHANGED <<inbox, replies, dones, done, stats, pc, reqs, reports>>
    BY Zenon, <1>3 DEF vars, worker, game, main
  <2>2. \A w \in Workers : Answers(w)' BY Zenon, <2>1 DEF CollectInv, Answers
  <2>3. Share' = Share BY Zenon, <2>1 DEF Share, Added
  <2>4. reqs' <= Total(Share') BY Zenon, <2>1, <2>3 DEF CollectInv
  <2>5. \A i \in DOMAIN reports' : reports'[i] <= dones' * Total(done') BY Zenon, <2>1 DEF CollectInv
  <2> QED BY Zenon, <2>2, <2>4, <2>5 DEF CollectInv
<1>4. CASE Start BY Zenon, <1>4, StartCollects
<1>5. CASE Summary BY Zenon, <1>5, SummaryCollects
<1>6. ASSUME NEW w \in Workers, OnDone(w) PROVE CollectInv' BY Zenon, <1>6, OnDoneCollects
<1>7. ASSUME NEW w \in Workers, Reduce(w) PROVE CollectInv' BY Zenon, <1>7, ReduceCollects
<1>8. ASSUME NEW w \in Workers, Map(w) PROVE CollectInv' BY Zenon, <1>8, MapCollects
<1>9. ASSUME NEW w \in Workers, Complete(w) \/ Expire(w) \/ Count(w) \/ EndGame(w) PROVE CollectInv'
  BY Zenon, <1>9, LoadCollects
<1> QED BY Zenon, <1>1, <1>2, <1>3, <1>4, <1>5, <1>6, <1>7, <1>8, <1>9 DEF Next, Main, Worker

\* A reported total never exceeds the requests that the workers completed, once for each
\* run of on_done_, for any number of workers, whatever had arrived at core 0 and although
\* its adder overflows.
THEOREM ReportsAreWithinTotal == Spec => []ReportWithinTotal
<1>1. CollectInv => ReportWithinTotal BY Zenon DEF CollectInv, ReportWithinTotal, Total
<1>2. TypeOK => DataTypeOK BY Zenon DEF TypeOK, DataTypeOK
<1>3. TypeOK' => DataTypeOK' BY Zenon DEF TypeOK, DataTypeOK
<1> QED BY <1>1, <1>2, <1>3, InitCollects, StepCollects, EndGameInvariant, LoaderTypes, PTL DEF Spec
=============================================================================
