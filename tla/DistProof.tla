------------------------------ MODULE DistProof ------------------------------
(***************************************************************************)
(* Proofs about Dist, for any number of workers and connections.  The      *)
(* table is right because each entry belongs to one connection: the one    *)
(* that the worker registered on and that is still connected.  That needs  *)
(* the first message on a connection to be the registration.               *)
(***************************************************************************)
EXTENDS Dist, FiniteSetTheorems, TLAPS

LEMMA FiniteConns == IsFiniteSet(Conns) /\ IsFiniteSet(Ids) /\ Cardinality(Ids) = N
<1>1. IsFiniteSet(Conns)
  BY DistBounds, FS_Interval DEF Conns
<1>2. IsFiniteSet(Ids) /\ Cardinality(Ids) = N
  BY DistBounds, FS_Interval DEF Ids
<1> QED BY Zenon, <1>1, <1>2

LEMMA WrapType == ASSUME NEW n \in Int PROVE Wrap(n) \in 0 .. Word - 1
BY DistBounds DEF Wrap

LEMMA WrapSame == ASSUME NEW n \in 0 .. Word - 1 PROVE Wrap(n) = n
BY DistBounds DEF Wrap

\* What a disconnect does to the table has the types of the table.
LEMMA DisconnectedTypes ==
    ASSUME NEW S \in SUBSET Conns, NEW desc \in SUBSET Ids, NEW shown \in SUBSET Ids, NEW online \in Int,
           Disconnected(S, desc, shown, online), stray \in BOOLEAN
    PROVE  /\ worker_desc' \subseteq Ids /\ showing' \subseteq Ids /\ stray' \in BOOLEAN
           /\ workers_online' \in 0 .. Word - 1
<1>1. Cardinality(S) \in Nat
  BY Zenon, FiniteConns, FS_Subset, FS_CardinalityType
<1>2. workers_online' \in 0 .. Word - 1
  BY <1>1, WrapType DEF Disconnected
<1> QED BY <1>2, Zenon DEF Disconnected

\* The type invariant in parts: what only the master changes, and the rest.
MasterTypes ==
    /\ worker_desc \subseteq Ids /\ showing \subseteq Ids
    /\ worker_conns \in [Ids -> Conns \cup {None}] /\ workers_online \in 0 .. Word - 1
    /\ state \in [Conns -> State] /\ id \in [Conns -> Nat]
    /\ fresh \in Conns \cup {None} /\ noted \subseteq Conns /\ crashed \in BOOLEAN /\ stray \in BOOLEAN /\ overlap \in BOOLEAN

NetTypes ==
    /\ opened \in 0 .. MaxConns /\ owner \in [Conns -> Ids]
    /\ wire \in [Conns -> {"unused", "open", "fin", "reset"}]
    /\ toMaster \in [Conns -> Seq({"note", "report"})] /\ toWorker \in [Conns -> Nat]

WorkerTypes ==
    /\ proc \in [Ids -> {"down", "connecting", "up"}] /\ link \in [Ids -> Conns \cup {None}]
    /\ cut \subseteq Ids /\ start_tp \in [Ids -> Nat] /\ due \subseteq Ids /\ loads \in [Ids -> Nat]
    /\ reports \in [Ids -> 0 .. MaxReports]

\* Every process that runs has a connection of its own.
LinksOwn ==
    \A w \in Ids : proc[w] # "down" =>
        /\ link[w] \in Conns /\ link[w] <= opened /\ owner[link[w]] = w

Types == MasterTypes /\ NetTypes /\ WorkerTypes /\ LinksOwn

LEMMA HangupType ==
    ASSUME wire \in [Conns -> {"unused", "open", "fin", "reset"}], Hangup
    PROVE  wire' \in [Conns -> {"unused", "open", "fin", "reset"}]
BY Zenon DEF Hangup

LEMMA AcceptTypes == ASSUME Types, NEW c \in Conns, Accept(c) PROVE Types'
<1>1. Cardinality({b \in Conns : state'[b] \notin {"none", "aborted"}}) \in Nat
  BY Zenon, FiniteConns, FS_Subset, FS_CardinalityType
<1>2. id' \in [Conns -> Nat]
  BY Zenon, <1>1 DEF Accept, Types, MasterTypes
<1>3. state' \in [Conns -> State] /\ fresh' \in Conns \cup {None}
  BY Zenon DEF Accept, Types, MasterTypes, State
<1>4. UNCHANGED <<worker_desc, worker_conns, showing, workers_online, noted, stray, overlap, crashed>>
  BY Zenon DEF Accept, table
<1>5. UNCHANGED <<opened, owner, wire, toMaster, toWorker>> /\ UNCHANGED workers
  BY Zenon DEF Accept, net
<1>6. MasterTypes'
  BY Zenon, <1>2, <1>3, <1>4 DEF Types, MasterTypes
<1> QED BY Zenon, <1>5, <1>6 DEF Types, NetTypes, WorkerTypes, LinksOwn, workers

LEMMA UnwatchTypes == ASSUME Types, NEW c \in Conns, Unwatch(c) PROVE Types'
<1>1. UNCHANGED <<worker_desc, worker_conns, showing, workers_online, state, id, noted, stray, overlap, crashed>>
  BY Zenon DEF Unwatch, table
<1>2. UNCHANGED <<opened, owner, wire, toMaster, toWorker>> /\ UNCHANGED workers /\ fresh' = None
  BY Zenon DEF Unwatch, net
<1>3. MasterTypes'
  BY Zenon, <1>1, <1>2 DEF Types, MasterTypes
<1> QED BY Zenon, <1>2, <1>3 DEF Types, NetTypes, WorkerTypes, LinksOwn, workers

LEMMA ReadEndsTypes == ASSUME Types, NEW c \in Conns, ReadEnds(c) PROVE Types'
<1>1. Disconnected({c}, worker_desc, showing, workers_online) /\ Hangup
  BY Zenon DEF ReadEnds
<1>2. /\ worker_desc' \subseteq Ids /\ showing' \subseteq Ids /\ stray' \in BOOLEAN
      /\ workers_online' \in 0 .. Word - 1
  BY <1>1, DisconnectedTypes DEF Types, MasterTypes
<1>3. wire' \in [Conns -> {"unused", "open", "fin", "reset"}]
  BY Zenon, <1>1, HangupType DEF Types, NetTypes
<1>4. state' \in [Conns -> State] /\ crashed' \in BOOLEAN /\ fresh' \in Conns \cup {None}
  BY Zenon DEF ReadEnds, Types, MasterTypes, State
<1>5. toMaster' \in [Conns -> Seq({"note", "report"})]
  BY DEF ReadEnds, Types, NetTypes
<1>6. UNCHANGED <<worker_conns, id, noted, overlap, opened, owner, toWorker>> /\ UNCHANGED workers
  BY Zenon DEF ReadEnds
<1>7. MasterTypes'
  BY Zenon, <1>2, <1>4, <1>6 DEF Types, MasterTypes
<1>8. NetTypes'
  BY Zenon, <1>3, <1>5, <1>6 DEF Types, NetTypes
<1> QED BY Zenon, <1>6, <1>7, <1>8 DEF Types, WorkerTypes, LinksOwn, workers

LEMMA ReceivesTypes ==
    ASSUME NetTypes, NEW c \in Conns, NEW n \in 1 .. Len(toMaster[c]), NEW b \in BOOLEAN, Receives(c, n, b)
    PROVE  toMaster' \in [Conns -> Seq({"note", "report"})]
<1>1. toMaster[c] \in Seq({"note", "report"})
  BY Zenon DEF NetTypes
<1>2. SubSeq(toMaster[c], n + 1, Len(toMaster[c])) \in Seq({"note", "report"})
  BY <1>1
<1> QED BY Zenon, <1>2 DEF NetTypes, Receives

\* Distribute, once it is known which sends raise a signal.
Sends(pipes, desc, online) ==
    LET fatal == pipes \cup {i \in Ids : SendCrashes(worker_conns'[i])}
        reached == {i \in Ids : \A j \in fatal : i < j}
        live == {c \in {worker_conns'[i] : i \in reached} \ {None} : state[c] = "connected"}
    IN  \E failing \in SUBSET {c \in live : wire[c] = "reset"} :
            /\ crashed' \in {fatal # {}, fatal \cup failing # {}}
            /\ state' = [c \in Conns |-> IF c \in failing THEN "disconnect" ELSE state[c]]
            /\ toWorker' = [c \in Conns |-> toWorker[c] + IF c \in live \ failing THEN 1 ELSE 0]
            /\ Disconnected(failing, desc, showing, online)

\* What Distribute does, whichever sends fail.
LEMMA DistributeTypes ==
    ASSUME Types, NEW desc \in SUBSET Ids, NEW online \in Int, Distribute(desc, online),
           worker_conns' \in [Ids -> Conns \cup {None}]
    PROVE  /\ worker_desc' \subseteq Ids /\ showing' \subseteq Ids /\ stray' \in BOOLEAN
           /\ workers_online' \in 0 .. Word - 1 /\ crashed' \in BOOLEAN
           /\ state' \in [Conns -> State] /\ toWorker' \in [Conns -> Nat]
<1>0. PICK pipes \in SUBSET {i \in Ids : Pipe(worker_conns'[i])} : Sends(pipes, desc, online)
  BY Zenon DEF Distribute, Sends
<1> DEFINE fatal == pipes \cup {i \in Ids : SendCrashes(worker_conns'[i])}
           reached == {i \in Ids : \A j \in fatal : i < j}
           live == {c \in {worker_conns'[i] : i \in reached} \ {None} : state[c] = "connected"}
<1>1. PICK failing \in SUBSET {c \in live : wire[c] = "reset"} :
            /\ crashed' \in {fatal # {}, fatal \cup failing # {}}
            /\ state' = [c \in Conns |-> IF c \in failing THEN "disconnect" ELSE state[c]]
            /\ toWorker' = [c \in Conns |-> toWorker[c] + IF c \in live \ failing THEN 1 ELSE 0]
            /\ Disconnected(failing, desc, showing, online)
  BY Zenon, <1>0 DEF Sends
<1>2. live \subseteq Conns
  BY None \notin Conns DEF None, Conns
<1>3. failing \subseteq Conns
  BY Zenon, <1>1, <1>2
<1> HIDE DEF fatal, reached, live
<1>4. /\ worker_desc' \subseteq Ids /\ showing' \subseteq Ids /\ stray' \in BOOLEAN
      /\ workers_online' \in 0 .. Word - 1
  BY Zenon, <1>1, <1>3, DisconnectedTypes DEF Types, MasterTypes
<1>5. state' \in [Conns -> State]
  BY Zenon, <1>1 DEF Types, MasterTypes, State
<1>6. toWorker' \in [Conns -> Nat]
  BY <1>1 DEF Types, NetTypes
<1> QED BY Zenon, <1>1, <1>4, <1>5, <1>6

LEMMA NoteTypes == ASSUME Types, NEW c \in Conns, Note(c) PROVE Types'
<1> DEFINE w == owner[c]
           online == Wrap(workers_online + 1)
<1>0. w \in Ids /\ online \in 0 .. Word - 1
  <2>1. workers_online + 1 \in Int
    BY DEF Types, MasterTypes
  <2> QED BY Zenon, <2>1, WrapType DEF Types, NetTypes
<1>1. PICK n \in 1 .. Len(toMaster[c]) : Receives(c, n, TRUE)
  BY Zenon DEF Note
<1>2. toMaster' \in [Conns -> Seq({"note", "report"})]
  BY Zenon, <1>1, ReceivesTypes DEF Types
<1>3. /\ id' = [id EXCEPT ![c] = w] /\ noted' = noted \cup {c}
      /\ worker_conns' = [worker_conns EXCEPT ![w] = c] /\ overlap' = (overlap \/ w \in worker_desc)
      /\ UNCHANGED <<opened, owner>> /\ UNCHANGED workers /\ Hangup
      /\ fresh' \in {fresh, IF c = fresh THEN None ELSE fresh}
      /\ IF Enough(online)
         THEN Distribute(worker_desc \cup {w}, online)
         ELSE /\ Disconnected({}, worker_desc \cup {w}, showing, online)
              /\ UNCHANGED <<state, toWorker, crashed>>
  BY Zenon DEF Note
<1> HIDE DEF online, w
<1>4. /\ worker_conns' \in [Ids -> Conns \cup {None}]
      /\ noted' \subseteq Conns /\ overlap' \in BOOLEAN /\ fresh' \in Conns \cup {None}
  BY Zenon, <1>0, <1>3 DEF Types, MasterTypes
<1>10. id' \in [Conns -> Nat]
  BY <1>0, <1>3, DistBounds DEF Types, MasterTypes, Ids
<1>5. wire' \in [Conns -> {"unused", "open", "fin", "reset"}]
  BY Zenon, <1>3, HangupType DEF Types, NetTypes
<1>6. /\ worker_desc' \subseteq Ids /\ showing' \subseteq Ids /\ stray' \in BOOLEAN
      /\ workers_online' \in 0 .. Word - 1 /\ crashed' \in BOOLEAN
      /\ state' \in [Conns -> State] /\ toWorker' \in [Conns -> Nat]
  <2>1. worker_desc \cup {w} \in SUBSET Ids
    BY Zenon, <1>0 DEF Types, MasterTypes
  <2>2. CASE Enough(online)
    <3>1. Distribute(worker_desc \cup {w}, online) /\ online \in Int
      BY <1>0, <1>3, <2>2
    <3> QED BY <1>4, <2>1, <3>1, DistributeTypes, Zenon
  <2>3. CASE ~Enough(online)
    <3>1. Disconnected({}, worker_desc \cup {w}, showing, online) /\ UNCHANGED <<state, toWorker, crashed>>
      BY Zenon, <1>3, <2>3
    <3>2. /\ worker_desc' \subseteq Ids /\ showing' \subseteq Ids /\ stray' \in BOOLEAN
          /\ workers_online' \in 0 .. Word - 1
      BY <1>0, <2>1, <3>1, DisconnectedTypes DEF Types, MasterTypes
    <3> QED BY Zenon, <3>1, <3>2 DEF Types, MasterTypes, NetTypes
  <2> QED BY Zenon, <2>2, <2>3
<1>7. MasterTypes'
  BY Zenon, <1>4, <1>10, <1>6 DEF MasterTypes
<1>8. NetTypes'
  BY Zenon, <1>2, <1>3, <1>5, <1>6 DEF Types, NetTypes
<1> QED BY Zenon, <1>3, <1>7, <1>8 DEF Types, WorkerTypes, LinksOwn, workers

LEMMA NoteDestroysTypes == ASSUME Types, NEW c \in Conns, NoteDestroys(c) PROVE Types'
<1>1. PICK n \in 1 .. Len(toMaster[c]) : Receives(c, n, TRUE)
  BY Zenon DEF NoteDestroys
<1>2. toMaster' \in [Conns -> Seq({"note", "report"})]
  BY Zenon, <1>1, ReceivesTypes DEF Types
<1>3. wire' \in [Conns -> {"unused", "open", "fin", "reset"}]
  BY Zenon, HangupType DEF NoteDestroys, Types, NetTypes
<1>4. UNCHANGED <<worker_desc, worker_conns, showing, workers_online>>
  BY Zenon DEF NoteDestroys, table
<1>5. /\ UNCHANGED <<state, id, fresh, noted, stray, overlap, opened, owner, toWorker>> /\ UNCHANGED workers
      /\ crashed' = TRUE
  BY Zenon DEF NoteDestroys
<1>6. MasterTypes'
  BY Zenon, <1>4, <1>5 DEF Types, MasterTypes
<1>7. NetTypes'
  BY Zenon, <1>2, <1>3, <1>5 DEF Types, NetTypes
<1> QED BY Zenon, <1>5, <1>6, <1>7 DEF Types, WorkerTypes, LinksOwn, workers

LEMMA ReportTypes == ASSUME Types, NEW c \in Conns, Report(c) PROVE Types'
<1>1. PICK n \in 1 .. Len(toMaster[c]) : Receives(c, n, FALSE)
  BY Zenon DEF Report
<1>2. toMaster' \in [Conns -> Seq({"note", "report"})]
  BY Zenon, <1>1, ReceivesTypes DEF Types
<1>3. showing' \subseteq Ids /\ fresh' \in Conns \cup {None}
  BY Zenon DEF Report, Types, MasterTypes, NetTypes
<1>4. UNCHANGED <<worker_desc, worker_conns, workers_online, toWorker>> /\ UNCHANGED workers
  BY Zenon DEF Report
<1>5. UNCHANGED <<state, id, noted, stray, overlap, crashed, opened, owner, wire>>
  BY Zenon DEF Report, net
<1>6. MasterTypes'
  BY Zenon, <1>3, <1>4, <1>5 DEF Types, MasterTypes
<1>7. NetTypes'
  BY Zenon, <1>2, <1>4, <1>5 DEF Types, NetTypes
<1> QED BY Zenon, <1>4, <1>5, <1>6, <1>7 DEF Types, WorkerTypes, LinksOwn, workers

LEMMA LaunchTypes == ASSUME Types, NEW w \in Ids, Launch(w) PROVE Types'
<1>1. PICK k \in Conns : k = opened + 1
  BY DistBounds DEF Launch, Types, NetTypes, Conns
<1>2. /\ opened < MaxConns /\ opened' = k /\ owner' = [owner EXCEPT ![k] = w] /\ proc[w] = "down"
      /\ wire' = [wire EXCEPT ![k] = "open"] /\ proc' = [proc EXCEPT ![w] = "connecting"]
      /\ link' = [link EXCEPT ![w] = k]
      /\ UNCHANGED <<toMaster, toWorker, cut, start_tp, due, loads, reports>>
  BY Zenon, <1>1 DEF Launch
<1>3. UNCHANGED <<worker_desc, worker_conns, showing, workers_online, state, id, fresh, noted, stray, overlap, crashed>>
  BY Zenon DEF Launch, table, ends
<1>4. MasterTypes'
  BY Zenon, <1>3 DEF Types, MasterTypes
<1>5. NetTypes'
  <2>1. opened' \in 0 .. MaxConns
    BY <1>1, <1>2, DistBounds DEF Types, NetTypes
  <2>2. /\ owner' \in [Conns -> Ids] /\ wire' \in [Conns -> {"unused", "open", "fin", "reset"}]
        /\ toMaster' \in [Conns -> Seq({"note", "report"})] /\ toWorker' \in [Conns -> Nat]
    BY Zenon, <1>2 DEF Types, NetTypes
  <2> QED BY Zenon, <2>1, <2>2 DEF NetTypes
<1>6. WorkerTypes'
  BY Zenon, <1>2 DEF Types, WorkerTypes
<1>7. LinksOwn'
  <2> SUFFICES ASSUME NEW v \in Ids, proc'[v] # "down"
               PROVE  link'[v] \in Conns /\ link'[v] <= opened' /\ owner'[link'[v]] = v
    BY Zenon DEF LinksOwn
  <2>1. CASE v = w
    <3>1. link'[v] = k /\ owner'[k] = v
      BY Zenon, <1>2, <2>1 DEF Types, NetTypes, WorkerTypes
    <3> QED BY <1>1, <1>2, <3>1 DEF Conns
  <2>2. CASE v # w
    <3>1. PICK d \in Conns : d = link[v] /\ d <= opened /\ owner[d] = v /\ link'[v] = d
      BY Zenon, <1>2, <2>2 DEF Types, WorkerTypes, LinksOwn
    <3>2. d # k /\ d <= k
      BY <1>1, <3>1 DEF Types, NetTypes, Conns
    <3>3. owner'[d] = v
      BY Zenon, <1>2, <3>1, <3>2 DEF Types, NetTypes
    <3> QED BY Zenon, <1>2, <3>1, <3>2, <3>3
  <2> QED BY Zenon, <2>1, <2>2
<1> QED BY Zenon, <1>4, <1>5, <1>6, <1>7 DEF Types

\* The steps of a worker that leave its process and its link as they are.
LEMMA SameLinks ==
    ASSUME Types, UNCHANGED <<table, ends>>, UNCHANGED <<opened, owner, link>>,
           \A w \in Ids : proc'[w] # "down" => proc[w] # "down"
    PROVE  MasterTypes' /\ LinksOwn'
<1>1. UNCHANGED <<worker_desc, worker_conns, showing, workers_online, state, id, fresh, noted, stray, overlap, crashed>>
  BY Zenon DEF table, ends
<1>2. MasterTypes'
  BY Zenon, <1>1 DEF Types, MasterTypes
<1> QED BY Zenon, <1>2 DEF Types, LinksOwn

LEMMA ReadyTypes == ASSUME Types, NEW w \in Ids, Ready(w) PROVE Types'
<1>1. UNCHANGED <<opened, owner, wire>> /\ UNCHANGED <<toWorker, link, cut, start_tp, due, loads, reports>>
  BY Zenon DEF Ready, net
<1>2. PICK k \in Conns : k = link[w] /\ toMaster' = [toMaster EXCEPT ![k] = Append(@, "note")]
  BY Zenon DEF Ready, Types, LinksOwn
<1>3. proc' = [proc EXCEPT ![w] = "up"] /\ proc[w] = "connecting" /\ UNCHANGED <<table, ends>>
  BY Zenon DEF Ready
<1>4. NetTypes'
  BY <1>1, <1>2 DEF Types, NetTypes
<1>5. WorkerTypes'
  BY Zenon, <1>1, <1>3 DEF Types, WorkerTypes
<1>6. \A v \in Ids : proc'[v] # "down" => proc[v] # "down"
  BY Zenon, <1>3 DEF Types, WorkerTypes
<1> QED BY Zenon, <1>1, <1>3, <1>4, <1>5, <1>6, SameLinks DEF Types

LEMMA CommandTypes == ASSUME Types, NEW w \in Ids, Command(w) PROVE Types'
<1>1. UNCHANGED <<opened, owner, wire>> /\ UNCHANGED <<toMaster, proc, link, cut, loads, reports>>
  BY Zenon DEF Command, net
<1>2. PICK k \in Conns : k = link[w]
  BY Zenon DEF Command, Types, LinksOwn
<1>3. toWorker' \in [Conns -> Nat]
  <2>1. PICK n \in 1 .. toWorker[k] : toWorker' = [toWorker EXCEPT ![k] = @ - n]
    BY Zenon, <1>2 DEF Command
  <2> QED BY <2>1 DEF Types, NetTypes
<1>4. start_tp' \in [Ids -> Nat] /\ due' \subseteq Ids /\ UNCHANGED <<table, ends>>
  BY DEF Command, Types, WorkerTypes
<1>5. NetTypes' /\ WorkerTypes'
  BY Zenon, <1>1, <1>3, <1>4 DEF Types, NetTypes, WorkerTypes
<1> QED BY Zenon, <1>1, <1>4, <1>5, SameLinks DEF Types

LEMMA StartTypes == ASSUME Types, NEW w \in Ids, Start(w) PROVE Types'
<1>1. UNCHANGED <<opened, owner, wire>> /\ UNCHANGED <<toMaster, toWorker, proc, link, cut, start_tp, reports>>
  BY Zenon DEF Start, net
<1>2. loads' \in [Ids -> Nat] /\ due' \subseteq Ids /\ UNCHANGED <<table, ends>>
  BY DEF Start, Types, WorkerTypes
<1>3. NetTypes' /\ WorkerTypes'
  BY Zenon, <1>1, <1>2 DEF Types, NetTypes, WorkerTypes
<1> QED BY Zenon, <1>1, <1>2, <1>3, SameLinks DEF Types

LEMMA SendReportTypes == ASSUME Types, NEW w \in Ids, SendReport(w) PROVE Types'
<1>1. UNCHANGED <<opened, owner, wire>> /\ UNCHANGED <<toWorker, proc, link, start_tp, due, loads>>
  BY Zenon DEF SendReport, net
<1>2. PICK k \in Conns : k = link[w]
  BY Zenon DEF SendReport, Reporting, Types, LinksOwn
<1>3. toMaster' \in [Conns -> Seq({"note", "report"})]
  <2>1. toMaster' = toMaster \/ toMaster' = [toMaster EXCEPT ![k] = Append(@, "report")]
    BY Zenon, <1>2 DEF SendReport
  <2>2. CASE toMaster' = toMaster
    BY Zenon, <2>2 DEF Types, NetTypes
  <2>3. CASE toMaster' = [toMaster EXCEPT ![k] = Append(@, "report")]
    BY <2>3 DEF Types, NetTypes
  <2> QED BY Zenon, <2>1, <2>2, <2>3
<1>4. reports' \in [Ids -> 0 .. MaxReports] /\ cut' \subseteq Ids /\ UNCHANGED <<table, ends>>
  BY DistBounds DEF SendReport, Reporting, Types, WorkerTypes
<1>5. NetTypes' /\ WorkerTypes'
  BY Zenon, <1>1, <1>3, <1>4 DEF Types, NetTypes, WorkerTypes
<1> QED BY Zenon, <1>1, <1>4, <1>5, SameLinks DEF Types

LEMMA GoneTypes == ASSUME Types, NEW w \in Ids, proc[w] # "down", Gone(w) PROVE Types'
<1>1. PICK k \in Conns : k = link[w]
  BY Zenon DEF Types, LinksOwn
<1>2. UNCHANGED <<opened, owner, toMaster>> /\ UNCHANGED <<table, ends>>
  BY Zenon DEF Gone
<1>3. wire' \in [Conns -> {"unused", "open", "fin", "reset"}]
  BY Zenon, <1>1 DEF Gone, Types, NetTypes
<1>4. toWorker' \in [Conns -> Nat]
  BY Zenon DEF Gone, Types, NetTypes
<1>5. NetTypes'
  BY Zenon, <1>2, <1>3, <1>4 DEF Types, NetTypes
<1>6. WorkerTypes'
  BY DistBounds DEF Gone, Types, WorkerTypes
<1>7. LinksOwn'
  BY Zenon, <1>2 DEF Gone, Types, WorkerTypes, LinksOwn
<1>8. UNCHANGED <<worker_desc, worker_conns, showing, workers_online, state, id, fresh, noted, stray, overlap, crashed>>
  BY Zenon, <1>2 DEF table, ends
<1>9. MasterTypes'
  BY Zenon, <1>8 DEF Types, MasterTypes
<1> QED BY Zenon, <1>5, <1>6, <1>7, <1>9 DEF Types

LEMMA SeesResetTypes == ASSUME Types, NEW w \in Ids, SeesReset(w) PROVE Types'
<1>1. UNCHANGED <<opened, owner, wire, toMaster, toWorker>> /\ UNCHANGED <<proc, link, start_tp, due, loads, reports>>
  BY Zenon DEF SeesReset, net
<1>2. cut' \subseteq Ids /\ UNCHANGED <<table, ends>>
  BY Zenon DEF SeesReset, Types, WorkerTypes
<1>3. NetTypes' /\ WorkerTypes'
  BY Zenon, <1>1, <1>2 DEF Types, NetTypes, WorkerTypes
<1> QED BY Zenon, <1>1, <1>2, <1>3, SameLinks DEF Types

LEMMA LinkResetTypes == ASSUME Types, NEW c \in Conns, LinkReset(c) PROVE Types'
<1>1. UNCHANGED <<opened, owner, toMaster, toWorker>> /\ UNCHANGED <<table, ends>>
  BY Zenon DEF LinkReset
<1>2. UNCHANGED <<proc, link, cut, start_tp, due, loads, reports>>
  BY Zenon DEF LinkReset, workers
<1>3. wire' \in [Conns -> {"unused", "open", "fin", "reset"}]
  BY Zenon DEF LinkReset, Types, NetTypes
<1>4. NetTypes' /\ WorkerTypes'
  BY Zenon, <1>1, <1>2, <1>3 DEF Types, NetTypes, WorkerTypes
<1> QED BY Zenon, <1>1, <1>2, <1>4, SameLinks DEF Types

LEMMA InitTypes == Init => Types
<1> SUFFICES ASSUME Init PROVE Types
  BY Zenon
<1>1. MasterTypes
  <2>1. workers_online \in 0 .. Word - 1
    BY DistBounds DEF Init
  <2>2. worker_conns \in [Ids -> Conns \cup {None}]
    BY Zenon DEF Init
  <2>3. state \in [Conns -> State] /\ id \in [Conns -> Nat]
    BY Zenon DEF Init, State
  <2> QED BY Zenon, <2>1, <2>2, <2>3 DEF Init, MasterTypes
<1>2. NetTypes
  BY DistBounds DEF Init, NetTypes, Ids
<1>3. WorkerTypes /\ LinksOwn
  BY DistBounds DEF Init, WorkerTypes, LinksOwn
<1> QED BY Zenon, <1>1, <1>2, <1>3 DEF Types

LEMMA NextTypes == Types /\ [Next]_vars => Types'
<1> SUFFICES ASSUME Types, [Next]_vars PROVE Types'
  BY Zenon
<1>1. CASE UNCHANGED vars
  <2>1. UNCHANGED <<table, ends>> /\ UNCHANGED <<opened, owner, wire, toMaster, toWorker>>
    BY Zenon, <1>1 DEF vars, net
  <2>2. UNCHANGED <<proc, link, cut, start_tp, due, loads, reports>>
    BY Zenon, <1>1 DEF vars, workers
  <2>3. NetTypes' /\ WorkerTypes'
    BY Zenon, <2>1, <2>2 DEF Types, NetTypes, WorkerTypes
  <2> QED BY Zenon, <2>1, <2>2, <2>3, SameLinks DEF Types
<1>2. ASSUME NEW c \in Conns,
             Accept(c) \/ Unwatch(c) \/ ReadEnds(c) \/ Note(c) \/ NoteDestroys(c) \/ Report(c)
      PROVE  Types'
  BY Zenon, <1>2, AcceptTypes, UnwatchTypes, ReadEndsTypes, NoteTypes, NoteDestroysTypes, ReportTypes
<1>3. ASSUME NEW w \in Ids, Ready(w) \/ Command(w) \/ Start(w) \/ Launch(w) \/ SendReport(w) \/ SeesReset(w)
      PROVE  Types'
  BY Zenon, <1>3, ReadyTypes, CommandTypes, StartTypes, LaunchTypes, SendReportTypes, SeesResetTypes
<1>4. ASSUME NEW w \in Ids, ReportStops(w) \/ Exit(w) PROVE Types'
  BY Zenon, <1>4, GoneTypes DEF ReportStops, Reporting, Exit
<1>5. ASSUME NEW c \in Conns, LinkReset(c) PROVE Types'
  BY Zenon, <1>5, LinkResetTypes
<1> QED BY Zenon, <1>1, <1>2, <1>3, <1>4, <1>5 DEF Next, Master, Worker

LEMMA TypesAlways == Spec => []Types
BY InitTypes, NextTypes, PTL DEF Spec

\* The master's table and the state of the connections and of the workers keep their
\* types; workers_online wraps like an unsigned.
THEOREM DistTypes == Spec => []TypeOK
<1>1. Types => TypeOK
  BY Zenon DEF Types, MasterTypes, NetTypes, WorkerTypes, TypeOK
<1> QED BY <1>1, TypesAlways, PTL

-----------------------------------------------------------------------------
(* Once a command was added to start_tp, no later one is due. *)

StartsOnce ==
    \A w \in Ids : /\ start_tp[w] = 0 => w \notin due /\ loads[w] = 0
                   /\ w \in due => loads[w] = 0
                   /\ loads[w] <= 1

LEMMA NextStarts == Types /\ StartsOnce /\ [Next]_vars => StartsOnce'
<1> SUFFICES ASSUME WorkerTypes, StartsOnce, [Next]_vars PROVE StartsOnce'
  BY Zenon DEF Types
<1>1. CASE UNCHANGED <<start_tp, due, loads>>
  BY Zenon, <1>1 DEF StartsOnce
<1>2. ASSUME NEW w \in Ids, Command(w) PROVE StartsOnce'
  BY <1>2 DEF Command, StartsOnce, WorkerTypes
<1>3. ASSUME NEW w \in Ids, Start(w) PROVE StartsOnce'
  BY <1>3 DEF Start, StartsOnce, WorkerTypes
<1>4. ASSUME NEW w \in Ids, Gone(w) PROVE StartsOnce'
  BY <1>4 DEF Gone, StartsOnce, WorkerTypes
<1>5. ASSUME NEW c \in Conns,
             \/ Accept(c) \/ Unwatch(c) \/ ReadEnds(c) \/ Note(c)
             \/ NoteDestroys(c) \/ Report(c) \/ LinkReset(c)
      PROVE  StartsOnce'
  <2>1. UNCHANGED workers
    BY <1>5, Zenon DEF Accept, Unwatch, ReadEnds, Note, NoteDestroys, Report, LinkReset
  <2> QED BY Zenon, <1>1, <2>1 DEF workers
<1>6. ASSUME NEW w \in Ids, Ready(w) \/ Launch(w) \/ SendReport(w) \/ SeesReset(w)
      PROVE  StartsOnce'
  <2>1. UNCHANGED <<start_tp, due, loads>>
    BY <1>6, Zenon DEF Ready, Launch, SendReport, SeesReset
  <2> QED BY Zenon, <1>1, <2>1
<1>7. CASE UNCHANGED vars
  BY Zenon, <1>1, <1>7 DEF vars, workers
<1> QED BY Zenon, <1>2, <1>3, <1>4, <1>5, <1>6, <1>7 DEF Next, Master, Worker, ReportStops, Exit

\* A worker process starts its loaders at most once, however often the command comes.
THEOREM LoadersStartOnce == Spec => []LoadsOnce
<1>1. Init => StartsOnce
  BY DEF Init, StartsOnce
<1>2. StartsOnce => LoadsOnce
  BY Zenon DEF StartsOnce, LoadsOnce
<1> QED BY <1>1, <1>2, NextStarts, TypesAlways, PTL DEF Spec

-----------------------------------------------------------------------------
(* Which worker a connection is counted for. *)

Numbers ==
    /\ \A c \in Conns : state[c] # "none" => c <= opened
    /\ \A c \in noted : state[c] # "none" /\ id[c] = owner[c]
    /\ \A i \in Ids : worker_conns[i] # None =>
           worker_conns[i] \in noted /\ owner[worker_conns[i]] = i

\* A connection on which the master still waits for the registration.
Awaited(c) == ~crashed /\ c \notin noted /\ state[c] \in {"none", "connected"}

\* The registration is the first message, and only a process that has sent it reports.
Firsts ==
    /\ \A c \in Conns : Awaited(c) /\ toMaster[c] # <<>> => toMaster[c][1] = "note"
    /\ \A w \in Ids : proc[w] = "up" /\ Awaited(link[w]) => toMaster[link[w]] # <<>>

\* The table and the live connections determine each other.
TableInv ==
    Orderly => /\ \A i \in worker_desc : worker_conns[i] \in Conns /\ Serves(worker_conns[i], i)
               /\ \A c \in Conns : \A i \in Ids :
                      Serves(c, i) => i \in worker_desc /\ worker_conns[i] = c
               /\ workers_online = Cardinality(worker_desc)
               /\ showing \subseteq worker_desc

\* The workers and the network leave alone what the master knows.
LEMMA OthersKeepTable ==
    ASSUME NEW w \in Ids,
           Ready(w) \/ Command(w) \/ Start(w) \/ Launch(w) \/ SendReport(w) \/ SeesReset(w) \/ Gone(w)
    PROVE  UNCHANGED <<worker_desc, worker_conns, showing, workers_online, state, id, noted, stray, overlap, crashed>>
<1>1. UNCHANGED <<table, ends>>
  BY Zenon DEF Ready, Command, Start, Launch, SendReport, SeesReset, Gone
<1> QED BY Zenon, <1>1 DEF table, ends

\* What a registration does to the states, whether or not the command is sent.
LEMMA NoteStates ==
    ASSUME Types, NEW c \in Conns, Note(c)
    PROVE  /\ \A d \in Conns : state'[d] = state[d] \/ (state[d] = "connected" /\ state'[d] = "disconnect")
           /\ state[c] = "connected" /\ ~crashed
           /\ id' = [id EXCEPT ![c] = owner[c]] /\ noted' = noted \cup {c}
           /\ worker_conns' = [worker_conns EXCEPT ![owner[c]] = c]
           /\ opened' = opened /\ owner' = owner
<1>1. state[c] = "connected" /\ ~crashed
  BY Zenon DEF Note, Receives
<1>2. /\ id' = [id EXCEPT ![c] = owner[c]] /\ noted' = noted \cup {c}
      /\ worker_conns' = [worker_conns EXCEPT ![owner[c]] = c]
      /\ opened' = opened /\ owner' = owner
  BY Zenon DEF Note
<1>3. ASSUME NEW d \in Conns
      PROVE  state'[d] = state[d] \/ (state[d] = "connected" /\ state'[d] = "disconnect")
  <2>1. CASE UNCHANGED state
    BY Zenon, <2>1
  <2>2. ASSUME NEW desc, NEW online, Distribute(desc, online)
        PROVE  state'[d] = state[d] \/ (state[d] = "connected" /\ state'[d] = "disconnect")
    BY Zenon, <2>2 DEF Distribute
  <2> QED BY Zenon, <2>1, <2>2 DEF Note
<1> QED BY Zenon, <1>1, <1>2, <1>3

LEMMA NextNumbers == Types /\ Numbers /\ [Next]_vars => Numbers'
<1> SUFFICES ASSUME Types, Numbers, [Next]_vars PROVE Numbers'
  BY Zenon
<1> USE DEF Types, MasterTypes, NetTypes
<1>1. CASE UNCHANGED <<state, id, noted, worker_conns, opened, owner>>
  BY Zenon, <1>1 DEF Numbers
<1>2. ASSUME NEW c \in Conns, Accept(c) PROVE Numbers'
  <2>1. UNCHANGED <<noted, worker_conns, opened, owner>> /\ c <= opened /\ state[c] = "none"
    BY Zenon, <1>2 DEF Accept, table, net
  <2>2. \A d \in Conns : d # c => state'[d] = state[d] /\ id'[d] = id[d]
    BY Zenon, <1>2 DEF Accept
  <2>3. c \notin noted
    BY Zenon, <2>1 DEF Numbers
  <2> QED BY Zenon, <2>1, <2>2, <2>3 DEF Numbers
<1>3. ASSUME NEW c \in Conns, ReadEnds(c) PROVE Numbers'
  <2>1. UNCHANGED <<id, noted, worker_conns, opened, owner>>
    BY Zenon, <1>3 DEF ReadEnds
  <2>2. \A d \in Conns : state'[d] = "none" <=> state[d] = "none"
    BY Zenon, <1>3 DEF ReadEnds
  <2> QED BY Zenon, <2>1, <2>2 DEF Numbers
<1>4. ASSUME NEW c \in Conns, Note(c) PROVE Numbers'
  <2>1. \A d \in Conns : state'[d] = "none" <=> state[d] = "none"
    BY Zenon, <1>4, NoteStates
  <2>2. owner[c] \in Ids /\ c # None
    BY DEF Conns, None
  <2>3. /\ state[c] = "connected" /\ noted' = noted \cup {c} /\ opened' = opened /\ owner' = owner
        /\ id' = [id EXCEPT ![c] = owner[c]] /\ worker_conns' = [worker_conns EXCEPT ![owner[c]] = c]
    BY Zenon, <1>4, NoteStates
  <2>4. ASSUME NEW d \in noted' PROVE state'[d] # "none" /\ id'[d] = owner'[d]
    <3>1. d \in Conns
      BY Zenon, <2>3
    <3>2. CASE d = c
      BY Zenon, <2>1, <2>3, <3>2
    <3>3. CASE d # c
      <4>1. d \in noted
        BY Zenon, <2>3, <2>4, <3>3
      <4>2. state[d] # "none" /\ id[d] = owner[d]
        BY Zenon, <4>1 DEF Numbers
      <4> QED BY Zenon, <2>1, <2>3, <3>1, <3>3, <4>2
    <3> QED BY Zenon, <3>2, <3>3
  <2>5. ASSUME NEW i \in Ids, worker_conns'[i] # None
        PROVE  worker_conns'[i] \in noted' /\ owner'[worker_conns'[i]] = i
    <3>1. CASE i = owner[c]
      BY Zenon, <2>2, <2>3, <3>1
    <3>2. CASE i # owner[c]
      <4>1. worker_conns'[i] = worker_conns[i]
        BY Zenon, <2>3, <3>2
      <4>2. worker_conns[i] \in noted /\ owner[worker_conns[i]] = i
        BY Zenon, <2>5, <4>1 DEF Numbers
      <4> QED BY Zenon, <2>3, <4>1, <4>2
    <3> QED BY Zenon, <3>1, <3>2
  <2>6. \A d \in Conns : state'[d] # "none" => d <= opened'
    BY Zenon, <2>1, <2>3 DEF Numbers
  <2> QED BY Zenon, <2>4, <2>5, <2>6 DEF Numbers
<1>5. ASSUME NEW c \in Conns, Unwatch(c) \/ NoteDestroys(c) \/ Report(c) \/ LinkReset(c) PROVE Numbers'
  <2>1. UNCHANGED <<state, id, noted, worker_conns, opened, owner>>
    BY Zenon, <1>5 DEF Unwatch, NoteDestroys, Report, LinkReset, table, ends, net
  <2> QED BY Zenon, <1>1, <2>1
<1>6. ASSUME NEW w \in Ids, Launch(w) PROVE Numbers'
  <2>1. UNCHANGED <<worker_conns, state, id, noted>>
    BY Zenon, <1>6, OthersKeepTable
  <2>2. opened' = opened + 1 /\ \A d \in Conns : d <= opened => owner'[d] = owner[d]
    BY <1>6 DEF Launch, Conns
  <2>3. \A d \in noted : d \in Conns /\ owner'[d] = owner[d]
    BY Zenon, <2>2 DEF Numbers
  <2>4. \A d \in Conns : state'[d] # "none" => d <= opened'
    BY <2>1, <2>2 DEF Numbers, Conns
  <2>5. \A i \in Ids : worker_conns[i] # None => owner'[worker_conns[i]] = i
    BY Zenon, <2>3 DEF Numbers
  <2> QED BY Zenon, <2>1, <2>3, <2>4, <2>5 DEF Numbers
<1>7. ASSUME NEW w \in Ids, Ready(w) \/ Command(w) \/ Start(w) \/ SendReport(w) \/ SeesReset(w) \/ Gone(w)
      PROVE  Numbers'
  <2>1. UNCHANGED <<state, id, noted, worker_conns>>
    BY Zenon, <1>7, OthersKeepTable
  <2>2. UNCHANGED <<opened, owner>>
    BY Zenon, <1>7 DEF Ready, Command, Start, SendReport, SeesReset, Gone, net
  <2> QED BY Zenon, <1>1, <2>1, <2>2
<1>8. CASE UNCHANGED vars
  BY Zenon, <1>1, <1>8 DEF vars, table, ends, net
<1> QED BY Zenon, <1>2, <1>3, <1>4, <1>5, <1>6, <1>7, <1>8 DEF Next, Master, Worker, ReportStops, Exit

\* A connection never becomes awaited again.
LEMMA AwaitedBefore ==
    ASSUME Types, Numbers, NEW c \in Conns, [Next]_vars, Awaited(c)'
    PROVE  Awaited(c)
<1> USE DEF Types, MasterTypes
<1>1. CASE UNCHANGED <<state, noted, crashed>>
  BY Zenon, <1>1 DEF Awaited
<1>2. ASSUME NEW d \in Conns, Accept(d) PROVE Awaited(c)
  BY Zenon, <1>2 DEF Accept, Awaited
<1>3. ASSUME NEW d \in Conns, ReadEnds(d) PROVE Awaited(c)
  BY Zenon, <1>3 DEF ReadEnds, Awaited
<1>4. ASSUME NEW d \in Conns, Note(d) PROVE Awaited(c)
  BY Zenon, <1>4, NoteStates DEF Awaited
<1>5. ASSUME NEW d \in Conns, NoteDestroys(d) PROVE FALSE
  BY Zenon, <1>5 DEF NoteDestroys, Awaited
<1>6. ASSUME NEW d \in Conns, Unwatch(d) \/ Report(d) \/ LinkReset(d) PROVE Awaited(c)
  <2>1. UNCHANGED <<state, noted, crashed>>
    BY Zenon, <1>6 DEF Unwatch, Report, LinkReset, ends
  <2> QED BY Zenon, <1>1, <2>1
<1>7. ASSUME NEW w \in Ids, Ready(w) \/ Command(w) \/ Start(w) \/ Launch(w) \/ SendReport(w)
                            \/ SeesReset(w) \/ Gone(w)
      PROVE  Awaited(c)
  <2>1. UNCHANGED <<state, noted, crashed>>
    BY Zenon, <1>7, OthersKeepTable
  <2> QED BY Zenon, <1>1, <2>1
<1>8. CASE UNCHANGED vars
  BY Zenon, <1>1, <1>8 DEF vars, ends
<1> QED BY Zenon, <1>2, <1>3, <1>4, <1>5, <1>6, <1>7, <1>8 DEF Next, Master, Worker, ReportStops, Exit

\* A step that changes neither the messages nor the processes, or only the messages of
\* a connection that is not awaited any more.
LEMMA SameFirsts ==
    ASSUME Types, Types', Firsts, Numbers, [Next]_vars,
           \A c \in Conns : Awaited(c)' => toMaster'[c] = toMaster[c],
           \A w \in Ids : proc'[w] = "up" => proc[w] = "up" /\ link'[w] = link[w]
    PROVE  Firsts'
<1>1. ASSUME NEW c \in Conns, Awaited(c)', toMaster'[c] # <<>> PROVE toMaster'[c][1] = "note"
  BY Zenon, <1>1, AwaitedBefore DEF Firsts
<1>2. ASSUME NEW w \in Ids, proc'[w] = "up", Awaited(link[w])' PROVE (toMaster[link[w]] # <<>>)'
  <2>1. link[w] \in Conns /\ proc[w] = "up" /\ link'[w] = link[w]
    BY Zenon, <1>2 DEF Types, LinksOwn
  <2>2. PICK c \in Conns : c = link[w]
    BY Zenon, <2>1
  <2>3. Awaited(c)'
    BY Zenon, <1>2, <2>1, <2>2 DEF Awaited
  <2>4. Awaited(c) /\ toMaster'[c] = toMaster[c]
    BY Zenon, <2>3, AwaitedBefore
  <2>5. toMaster[c] # <<>>
    BY Zenon, <2>1, <2>2, <2>4 DEF Firsts
  <2> QED BY Zenon, <2>1, <2>2, <2>4, <2>5
<1> QED BY Zenon, <1>1, <1>2 DEF Firsts

LEMMA AppendFirst ==
    ASSUME NEW S, NEW s \in Seq(S), NEW m \in S
    PROVE  Append(s, m) # <<>> /\ (s # <<>> => Append(s, m)[1] = s[1]) /\ (s = <<>> => Append(s, m)[1] = m)
<1>1. Len(Append(s, m)) = Len(s) + 1 /\ Len(s) \in Nat
  OBVIOUS
<1>2. CASE s = <<>>
  BY <1>2
<1>3. CASE s # <<>>
  <2>1. 1 \in 1 .. Len(s)
    BY <1>3
  <2> QED BY <1>1, <2>1
<1> QED BY Zenon, <1>2, <1>3

\* A process appends to the messages of its connection, where the registration is first.
LEMMA SentFirsts ==
    ASSUME Types, Types', Numbers, Firsts, [Next]_vars, NEW w \in Ids, NEW m \in {"note", "report"},
           proc[w] # "down", UNCHANGED link,
           toMaster' = [toMaster EXCEPT ![link[w]] = Append(@, m)],
           proc' = [proc EXCEPT ![w] = "up"],
           m = "note" \/ proc[w] = "up"
    PROVE  Firsts'
<1>1. PICK c \in Conns : c = link[w]
  BY Zenon DEF Types, LinksOwn
<1>2. PICK s \in Seq({"note", "report"}) : s = toMaster[c]
  BY Zenon DEF Types, NetTypes
<1>3. toMaster'[c] = Append(s, m) /\ \A d \in Conns : d # c => toMaster'[d] = toMaster[d]
  BY Zenon, <1>1, <1>2 DEF Types, NetTypes
<1>4. Append(s, m) # <<>> /\ (s # <<>> => Append(s, m)[1] = s[1]) /\ (s = <<>> => Append(s, m)[1] = m)
  BY ZenonT(60), <1>2, AppendFirst
<1>5. ASSUME NEW d \in Conns, Awaited(d)', toMaster'[d] # <<>> PROVE toMaster'[d][1] = "note"
  <2>1. Awaited(d)
    BY Zenon, <1>5, AwaitedBefore
  <2>2. CASE d # c
    BY Zenon, <1>3, <1>5, <2>1, <2>2 DEF Firsts
  <2>3. CASE d = c
    <3>1. s # <<>> => s[1] = "note"
      BY Zenon, <1>2, <2>1, <2>3 DEF Firsts
    <3>2. s = <<>> => m = "note"
      BY Zenon, <1>1, <1>2, <2>1, <2>3 DEF Firsts
    <3> QED BY Zenon, <1>3, <1>4, <2>3, <3>1, <3>2
  <2> QED BY Zenon, <2>2, <2>3
<1>6. ASSUME NEW v \in Ids, proc'[v] = "up", Awaited(link[v])' PROVE (toMaster[link[v]] # <<>>)'
  <2>1. proc[v] # "down"
    BY Zenon, <1>6 DEF Types, WorkerTypes
  <2>2. PICK d \in Conns : d = link[v]
    BY Zenon, <2>1 DEF Types, LinksOwn
  <2>3. Awaited(d)'
    BY Zenon, <1>6, <2>2 DEF Awaited
  <2>4. CASE d = c
    BY Zenon, <1>3, <1>4, <2>2, <2>4
  <2>5. CASE d # c
    <3>1. Awaited(d) /\ v # w
      BY Zenon, <1>1, <2>2, <2>3, <2>5, AwaitedBefore
    <3>2. proc[v] = "up"
      BY Zenon, <1>6, <3>1 DEF Types, WorkerTypes
    <3>3. toMaster[d] # <<>>
      BY Zenon, <2>2, <3>1, <3>2 DEF Firsts
    <3> QED BY Zenon, <1>3, <2>2, <2>5, <3>3
  <2> QED BY Zenon, <2>4, <2>5
<1> QED BY Zenon, <1>5, <1>6 DEF Firsts

LEMMA NextFirsts == Types /\ Numbers /\ Firsts /\ [Next]_vars => Firsts'
<1> SUFFICES ASSUME Types, Numbers, Firsts, [Next]_vars PROVE Firsts'
  BY Zenon
<1> USE NextTypes
<1>1. CASE UNCHANGED <<toMaster, proc, link>>
  BY Zenon, <1>1, SameFirsts
<1>2. ASSUME NEW c \in Conns, Accept(c) \/ Unwatch(c) \/ LinkReset(c) PROVE Firsts'
  <2>1. UNCHANGED <<toMaster, proc, link>>
    BY Zenon, <1>2 DEF Accept, Unwatch, LinkReset, workers
  <2> QED BY Zenon, <1>1, <2>1
<1>3. ASSUME NEW c \in Conns, ReadEnds(c) \/ Note(c) \/ NoteDestroys(c) \/ Report(c) PROVE Firsts'
  <2>1. UNCHANGED <<proc, link>>
    BY Zenon, <1>3 DEF ReadEnds, Note, NoteDestroys, Report, workers
  <2>2. \A d \in Conns : d # c => toMaster'[d] = toMaster[d]
    BY Zenon, <1>3 DEF ReadEnds, Note, NoteDestroys, Report, Receives, Types, NetTypes
  <2>3. ASSUME Awaited(c)' PROVE FALSE
    <3>1. CASE ReadEnds(c)
      BY Zenon, <2>3, <3>1 DEF Awaited, ReadEnds, Types, MasterTypes
    <3>2. CASE Note(c)
      BY Zenon, <2>3, <3>2 DEF Awaited, Note
    <3>3. CASE NoteDestroys(c)
      BY Zenon, <2>3, <3>3 DEF Awaited, NoteDestroys
    <3>4. CASE Report(c)
      <4>1. Awaited(c)
        BY Zenon, <2>3, AwaitedBefore
      <4>2. PICK n \in 1 .. Len(toMaster[c]) : Receives(c, n, FALSE)
        BY Zenon, <3>4 DEF Report
      <4>3. toMaster[c] \in Seq({"note", "report"})
        BY Zenon DEF Types, NetTypes
      <4>4. toMaster[c] # <<>> /\ 1 \in 1 .. n
        BY <4>2, <4>3
      <4>5. toMaster[c][1] = "note"
        BY Zenon, <4>1, <4>4 DEF Firsts
      <4> QED BY Zenon, <4>2, <4>4, <4>5 DEF Receives
    <3> QED BY Zenon, <1>3, <3>1, <3>2, <3>3, <3>4
  <2>4. \A d \in Conns : Awaited(d)' => toMaster'[d] = toMaster[d]
    BY Zenon, <2>2, <2>3
  <2> QED BY Zenon, <2>1, <2>4, SameFirsts
<1>4. ASSUME NEW w \in Ids, Command(w) \/ Start(w) \/ SeesReset(w) PROVE Firsts'
  <2>1. UNCHANGED <<toMaster, proc, link>>
    BY <1>4, Zenon DEF Command, Start, SeesReset
  <2> QED BY Zenon, <1>1, <2>1
<1>5. ASSUME NEW w \in Ids, Launch(w) \/ Gone(w) PROVE Firsts'
  <2>1. toMaster' = toMaster
    BY Zenon, <1>5 DEF Launch, Gone
  <2>2. \A v \in Ids : proc'[v] = "up" => proc[v] = "up" /\ link'[v] = link[v]
    BY ZenonT(60), <1>5 DEF Launch, Gone, Types, WorkerTypes
  <2> QED BY Zenon, <2>1, <2>2, SameFirsts
<1>6. ASSUME NEW w \in Ids, Ready(w) PROVE Firsts'
  BY Zenon, <1>6, SentFirsts DEF Ready
<1>7. ASSUME NEW w \in Ids, SendReport(w) PROVE Firsts'
  <2>1. UNCHANGED <<proc, link>> /\ proc[w] = "up"
    BY <1>7, Zenon DEF SendReport, Reporting
  <2>2. CASE toMaster' = toMaster
    BY Zenon, <1>1, <2>1, <2>2
  <2>3. CASE toMaster' = [toMaster EXCEPT ![link[w]] = Append(@, "report")]
    <3>1. proc' = [proc EXCEPT ![w] = "up"]
      BY Zenon, <2>1 DEF Types, WorkerTypes
    <3> QED BY Zenon, <2>1, <2>3, <3>1, SentFirsts
  <2> QED BY Zenon, <1>7, <2>2, <2>3 DEF SendReport
<1>8. CASE UNCHANGED vars
  BY Zenon, <1>1, <1>8 DEF vars, workers
<1> QED BY Zenon, <1>2, <1>3, <1>4, <1>5, <1>6, <1>7, <1>8 DEF Next, Master, Worker, ReportStops, Exit

-----------------------------------------------------------------------------
(* The table. *)

\* The connections of S, which the table holds for different workers, are gone.
LEMMA DisconnectCounts ==
    ASSUME NEW S \in SUBSET Conns, NEW desc \in SUBSET Ids, NEW shown \in SUBSET desc,
           Disconnected(S, desc, shown, Cardinality(desc)),
           \A c \in S : id'[c] \in desc,
           \A c, d \in S : id'[c] = id'[d] => c = d
    PROVE  workers_online' = Cardinality(worker_desc') /\ showing' \subseteq worker_desc'
<1> DEFINE gone == {id'[c] : c \in S}
           f == [c \in S |-> id'[c]]
<1>1. IsFiniteSet(S) /\ IsFiniteSet(desc) /\ Cardinality(desc) <= N /\ Cardinality(desc) \in Nat
  BY Zenon, FiniteConns, FS_Subset, FS_CardinalityType
<1>2. f \in Bijection(S, gone)
  <2>1. f \in Injection(S, gone)
    BY Zenon DEF Injection, IsInjective
  <2>2. f \in Surjection(S, gone)
    BY Zenon DEF Surjection
  <2> QED BY Zenon, <2>1, <2>2 DEF Bijection
<1>3. Cardinality(gone) = Cardinality(S) /\ IsFiniteSet(gone)
  BY Zenon, <1>1, <1>2, FS_Bijection DEF ExistsBijection
<1>4. gone \subseteq desc
  BY Zenon
<1>5. desc \cap gone = gone
  BY Zenon, <1>4
<1>6. Cardinality(desc \ gone) = Cardinality(desc) - Cardinality(gone) /\ Cardinality(desc \ gone) \in Nat
  <2> HIDE DEF gone
  <2> QED BY Zenon, <1>1, <1>5, FS_Difference, FS_CardinalityType
<1>7. Cardinality(gone) \in Nat
  BY Zenon, <1>3, FS_CardinalityType
<1>8. Cardinality(desc) - Cardinality(S) \in 0 .. Word - 1
  <2> HIDE DEF gone
  <2> QED BY <1>1, <1>3, <1>6, <1>7, DistBounds
<1>9. workers_online' = Cardinality(desc) - Cardinality(S)
  BY Zenon, <1>8, WrapSame DEF Disconnected
<1>10. worker_desc' = desc \ gone /\ showing' = shown \ gone
  BY Zenon DEF Disconnected
<1> HIDE DEF gone
<1> QED BY Zenon, <1>3, <1>6, <1>9, <1>10

LEMMA ReadEndsTable ==
    ASSUME Types, Numbers, TableInv, NEW c \in Conns, ReadEnds(c), Orderly'
    PROVE  TableInv'
<1>1. /\ Disconnected({c}, worker_desc, showing, workers_online) /\ state[c] = "connected"
      /\ UNCHANGED <<worker_conns, id, noted, overlap>>
  BY Zenon DEF ReadEnds
<1>2. Orderly /\ c \in noted
  BY Zenon, <1>1 DEF Orderly, Disconnected
<1>3. state'[c] # "connected" /\ \A d \in Conns : d # c => state'[d] = state[d]
  BY Zenon DEF ReadEnds, Types, MasterTypes
<1>4. PICK j \in Ids : j = id[c] /\ j \in worker_desc /\ worker_conns[j] = c
  <2>1. PICK j \in Ids : j = id[c]
    BY Zenon, <1>2 DEF Numbers, Types, NetTypes
  <2>2. Serves(c, j)
    BY Zenon, <1>1, <1>2, <2>1 DEF Serves
  <2> QED BY Zenon, <1>2, <2>1, <2>2 DEF TableInv
<1>5. workers_online = Cardinality(worker_desc) /\ showing \subseteq worker_desc /\ worker_desc \subseteq Ids
  BY Zenon, <1>2 DEF TableInv, Types, MasterTypes
<1>6. workers_online' = Cardinality(worker_desc') /\ showing' \subseteq worker_desc'
  BY <1>1, <1>4, <1>5, DisconnectCounts
<1>7. worker_desc' = worker_desc \ {j}
  BY Zenon, <1>1, <1>4 DEF Disconnected
<1>8. ASSUME NEW i \in worker_desc' PROVE worker_conns'[i] \in Conns /\ Serves(worker_conns[i], i)'
  <2>1. PICK d \in Conns : d = worker_conns[i] /\ Serves(d, i)
    BY Zenon, <1>2, <1>7 DEF TableInv
  <2>2. d # c
    BY Zenon, <1>4, <1>7, <2>1 DEF Serves
  <2> QED BY Zenon, <1>1, <1>3, <2>1, <2>2 DEF Serves
<1>9. ASSUME NEW d \in Conns, NEW i \in Ids, Serves(d, i)' PROVE i \in worker_desc' /\ worker_conns'[i] = d
  <2>1. d # c /\ Serves(d, i)
    BY Zenon, <1>1, <1>3, <1>9 DEF Serves
  <2>2. i \in worker_desc /\ worker_conns[i] = d
    BY Zenon, <1>2, <2>1 DEF TableInv
  <2> QED BY Zenon, <1>1, <1>4, <1>7, <2>1, <2>2
<1> QED BY Zenon, <1>6, <1>8, <1>9 DEF TableInv

\* What a registration leaves of the table, where S are the connections on which the
\* command could not be sent.
LEMMA NoteTable ==
    ASSUME Types, Numbers, TableInv, NEW c \in Conns, Note(c), Orderly',
           NEW S \in SUBSET Conns,
           \A d \in S : d = c \/ (state[d] = "connected" /\ \E i \in Ids : d = worker_conns'[i]),
           \A d \in Conns : state'[d] = IF d \in S THEN "disconnect" ELSE state[d],
           Disconnected(S, worker_desc \cup {owner[c]}, showing, Wrap(workers_online + 1))
    PROVE  TableInv'
<1>1. PICK w \in Ids : w = owner[c]
  BY Zenon DEF Types, NetTypes
<1>2. /\ state[c] = "connected" /\ noted' = noted \cup {c} /\ owner' = owner
      /\ id' = [id EXCEPT ![c] = w] /\ worker_conns' = [worker_conns EXCEPT ![w] = c]
  BY Zenon, <1>1, NoteStates
<1>3. Orderly /\ w \notin worker_desc
  BY Zenon, <1>1 DEF Note, Orderly, Disconnected
<1>4. /\ workers_online = Cardinality(worker_desc) /\ showing \subseteq worker_desc
      /\ worker_desc \subseteq Ids
  BY Zenon, <1>3 DEF TableInv, Types, MasterTypes
<1>5. Cardinality(worker_desc \cup {w}) = workers_online + 1 /\ workers_online + 1 \in 0 .. Word - 1
  <2>1. IsFiniteSet(worker_desc) /\ Cardinality(worker_desc) \in Nat /\ Cardinality(worker_desc) <= N
    BY Zenon, <1>4, FiniteConns, FS_Subset, FS_CardinalityType
  <2>2. Cardinality(worker_desc \cup {w}) = Cardinality(worker_desc) + 1
    BY Zenon, <1>3, <2>1, FS_AddElement
  <2>3. workers_online + 1 \in 0 .. Word - 1
    BY <1>4, <2>1, DistBounds DEF Conns
  <2> QED BY Zenon, <1>4, <2>2, <2>3
<1>6. ASSUME NEW d \in S
      PROVE  id'[d] \in worker_desc \cup {w} /\ worker_conns'[id'[d]] = d
  <2>1. CASE d = c
    BY Zenon, <1>1, <1>2, <2>1 DEF Types, MasterTypes
  <2>2. CASE d # c
    <3>1. PICK i \in Ids : d = worker_conns'[i] /\ state[d] = "connected"
      BY Zenon, <1>6, <2>2
    <3>2. i # w /\ worker_conns[i] = d
      BY Zenon, <1>2, <2>2, <3>1 DEF Types, MasterTypes
    <3>3. d # None
      BY DEF Conns, None
    <3>4. d \in noted /\ id[d] = i
      BY Zenon, <3>2, <3>3 DEF Numbers
    <3>5. i \in worker_desc
      BY Zenon, <1>3, <3>1, <3>4 DEF TableInv, Serves
    <3>6. id'[d] = i
      BY Zenon, <1>2, <2>2, <3>4 DEF Types, MasterTypes
    <3> QED BY Zenon, <3>1, <3>5, <3>6
  <2> QED BY Zenon, <2>1, <2>2
<1>7. workers_online' = Cardinality(worker_desc') /\ showing' \subseteq worker_desc'
  <2>1. Disconnected(S, worker_desc \cup {w}, showing, Cardinality(worker_desc \cup {w}))
    BY Zenon, <1>1, <1>5, WrapSame
  <2>2. \A d, e \in S : id'[d] = id'[e] => d = e
    BY <1>6
  <2> QED BY <1>4, <1>6, <2>1, <2>2, DisconnectCounts
<1>8. worker_desc' = (worker_desc \cup {w}) \ {id'[d] : d \in S}
  BY Zenon, <1>1 DEF Disconnected
<1>9. ASSUME NEW i \in worker_desc' PROVE worker_conns'[i] \in Conns /\ Serves(worker_conns[i], i)'
  <2>1. PICK e \in Conns : e = worker_conns'[i] /\ id'[e] = i /\ e \in noted' /\ state[e] = "connected"
    <3>1. CASE i = w
      BY Zenon, <1>1, <1>2, <3>1 DEF Types, MasterTypes
    <3>2. CASE i # w
      <4>1. PICK e \in Conns : e = worker_conns[i] /\ Serves(e, i)
        BY Zenon, <1>3, <1>8, <3>2 DEF TableInv
      <4>2. e # c
        BY Zenon, <1>1, <3>2, <4>1 DEF Serves, Numbers
      <4>3. worker_conns'[i] = e /\ id'[e] = id[e]
        BY <1>2, <3>2, <4>1, <4>2 DEF Types, MasterTypes
      <4> QED BY Zenon, <1>2, <4>1, <4>3 DEF Serves
    <3> QED BY Zenon, <3>1, <3>2
  <2>2. e \notin S
    BY Zenon, <1>8, <2>1
  <2> QED BY Zenon, <2>1, <2>2 DEF Serves
<1>10. ASSUME NEW d \in Conns, NEW i \in Ids, Serves(d, i)' PROVE i \in worker_desc' /\ worker_conns'[i] = d
  <2>1. d \notin S /\ state[d] = "connected" /\ d \in noted' /\ id'[d] = i
    BY Zenon, <1>10 DEF Serves
  <2>2. i \in worker_desc \cup {w} /\ worker_conns'[i] = d
    <3>1. CASE d = c
      BY Zenon, <1>1, <1>2, <2>1, <3>1 DEF Types, MasterTypes
    <3>2. CASE d # c
      <4>1. Serves(d, i)
        BY Zenon, <1>2, <2>1, <3>2 DEF Serves, Types, MasterTypes
      <4>2. i \in worker_desc /\ worker_conns[i] = d
        BY Zenon, <1>3, <4>1 DEF TableInv
      <4> QED BY Zenon, <1>2, <1>3, <4>2 DEF Types, MasterTypes
    <3> QED BY Zenon, <3>1, <3>2
  <2>3. \A e \in S : id'[e] # i
    BY ZenonT(60), <1>6, <2>1, <2>2
  <2> QED BY Zenon, <1>8, <2>2, <2>3
<1> QED BY Zenon, <1>7, <1>9, <1>10 DEF TableInv

\* The connections on which a registration's command fails, if it is sent at all.
LEMMA NoteFails ==
    ASSUME Types, NEW c \in Conns, Note(c)
    PROVE  \E S \in SUBSET Conns :
              /\ \A d \in S : state[d] = "connected" /\ \E i \in Ids : d = worker_conns'[i]
              /\ \A d \in Conns : state'[d] = IF d \in S THEN "disconnect" ELSE state[d]
              /\ Disconnected(S, worker_desc \cup {owner[c]}, showing, Wrap(workers_online + 1))
<1> DEFINE online == Wrap(workers_online + 1)
           desc == worker_desc \cup {owner[c]}
<1>1. CASE Enough(online)
  <2>1. Distribute(desc, online)
    BY Zenon, <1>1 DEF Note
  <2>5. PICK pipes \in SUBSET {i \in Ids : Pipe(worker_conns'[i])} : Sends(pipes, desc, online)
    BY Zenon, <2>1 DEF Distribute, Sends
  <2> DEFINE fatal == pipes \cup {i \in Ids : SendCrashes(worker_conns'[i])}
             reached == {i \in Ids : \A j \in fatal : i < j}
             live == {d \in {worker_conns'[i] : i \in reached} \ {None} : state[d] = "connected"}
  <2>2. PICK S \in SUBSET {d \in live : wire[d] = "reset"} :
            /\ state' = [d \in Conns |-> IF d \in S THEN "disconnect" ELSE state[d]]
            /\ Disconnected(S, desc, showing, online)
    BY Zenon, <2>5 DEF Sends
  <2>3. worker_conns' \in [Ids -> Conns \cup {None}]
    BY Zenon, NoteTypes DEF Types, MasterTypes
  <2>4. S \subseteq Conns /\ \A d \in S : state[d] = "connected" /\ \E i \in Ids : d = worker_conns'[i]
    BY <2>2, <2>3
  <2> QED BY Zenon, <2>2, <2>4
<1>2. CASE ~Enough(online)
  <2>1. Disconnected({}, desc, showing, online) /\ UNCHANGED state
    BY Zenon, <1>2 DEF Note
  <2> QED BY Zenon, <2>1
<1> QED BY Zenon, <1>1, <1>2

LEMMA NextTable == Types /\ Numbers /\ Firsts /\ TableInv /\ [Next]_vars => TableInv'
<1> SUFFICES ASSUME Types, Numbers, Firsts, TableInv, [Next]_vars, Orderly' PROVE TableInv'
  BY Zenon DEF TableInv
<1>1. CASE UNCHANGED <<worker_desc, worker_conns, showing, workers_online, state, id, noted, stray, overlap>>
  BY Zenon, <1>1 DEF TableInv, Serves, Orderly
<1>2. ASSUME NEW c \in Conns, Accept(c) PROVE TableInv'
  <2>1. UNCHANGED <<worker_desc, worker_conns, showing, workers_online, noted, stray, overlap>> /\ state[c] = "none"
    BY Zenon, <1>2 DEF Accept, table
  <2>2. \A d \in Conns : d # c => state'[d] = state[d] /\ id'[d] = id[d]
    BY Zenon, <1>2 DEF Accept, Types, MasterTypes
  <2>3. c \notin noted
    BY Zenon, <2>1 DEF Numbers
  <2>4. \A d \in Conns : \A i \in Ids : Serves(d, i)' <=> Serves(d, i)
    BY Zenon, <2>1, <2>2, <2>3 DEF Serves
  <2>5. Orderly
    BY Zenon, <2>1 DEF Orderly
  <2>6. ASSUME NEW i \in worker_desc' PROVE worker_conns'[i] \in Conns /\ Serves(worker_conns[i], i)'
    <3>1. PICK d \in Conns : d = worker_conns[i] /\ Serves(d, i) /\ i \in Ids
      BY Zenon, <2>1, <2>5 DEF TableInv, Types, MasterTypes
    <3>2. Serves(d, i)'
      BY Zenon, <2>4, <3>1
    <3> QED BY Zenon, <2>1, <3>1, <3>2 DEF Serves
  <2> QED BY Zenon, <2>1, <2>4, <2>5, <2>6 DEF TableInv
<1>3. ASSUME NEW c \in Conns, ReadEnds(c) PROVE TableInv'
  BY Zenon, <1>3, ReadEndsTable
<1>4. ASSUME NEW c \in Conns, Note(c) PROVE TableInv'
  <2>1. PICK S \in SUBSET Conns :
            /\ \A d \in S : state[d] = "connected" /\ \E i \in Ids : d = worker_conns'[i]
            /\ \A d \in Conns : state'[d] = IF d \in S THEN "disconnect" ELSE state[d]
            /\ Disconnected(S, worker_desc \cup {owner[c]}, showing, Wrap(workers_online + 1))
    BY Zenon, <1>4, NoteFails
  <2>2. \A d \in S : d = c \/ (state[d] = "connected" /\ \E i \in Ids : d = worker_conns'[i])
    BY Zenon, <2>1
  <2> QED BY Zenon, <1>4, <2>1, <2>2, NoteTable
<1>5. ASSUME NEW c \in Conns, Unwatch(c) \/ NoteDestroys(c) \/ LinkReset(c) PROVE TableInv'
  <2>1. UNCHANGED <<worker_desc, worker_conns, showing, workers_online, state, id, noted, stray, overlap>>
    BY Zenon, <1>5 DEF Unwatch, NoteDestroys, LinkReset, table, ends
  <2> QED BY Zenon, <1>1, <2>1
<1>6. ASSUME NEW c \in Conns, Report(c) PROVE TableInv'
  <2>1. /\ UNCHANGED <<worker_desc, worker_conns, workers_online, state, id, noted, stray, overlap>>
        /\ showing' = showing \cup {owner[c]}
    BY Zenon, <1>6 DEF Report, ends
  <2>2. PICK n \in 1 .. Len(toMaster[c]) : Receives(c, n, FALSE)
    BY Zenon, <1>6 DEF Report
  <2>3. ~Awaited(c)
    <3>1. toMaster[c] \in Seq({"note", "report"})
      BY Zenon DEF Types, NetTypes
    <3>2. toMaster[c] # <<>> /\ 1 \in 1 .. n
      BY <2>2, <3>1
    <3>3. toMaster[c][1] # "note"
      BY Zenon, <2>2, <3>2 DEF Receives
    <3> QED BY Zenon, <3>2, <3>3 DEF Firsts
  <2>4. c \in noted /\ state[c] = "connected"
    BY Zenon, <2>2, <2>3 DEF Awaited, Receives
  <2>5. owner[c] \in Ids /\ Orderly
    BY Zenon, <2>1 DEF Types, NetTypes, Orderly
  <2>6. owner[c] \in worker_desc
    BY Zenon, <2>4, <2>5 DEF Numbers, TableInv, Serves
  <2> QED BY Zenon, <2>1, <2>5, <2>6 DEF TableInv, Serves
<1>7. ASSUME NEW w \in Ids, Ready(w) \/ Command(w) \/ Start(w) \/ Launch(w) \/ SendReport(w)
                            \/ SeesReset(w) \/ Gone(w)
      PROVE  TableInv'
  BY Zenon, <1>1, <1>7, OthersKeepTable
<1>8. CASE UNCHANGED vars
  BY Zenon, <1>1, <1>8 DEF vars, table, ends
<1> QED BY Zenon, <1>2, <1>3, <1>4, <1>5, <1>6, <1>7, <1>8 DEF Next, Master, Worker, ReportStops, Exit

LEMMA InvAlways == Spec => [](Types /\ Numbers /\ Firsts /\ TableInv)
<1>1. Init => Numbers /\ Firsts
  BY DEF Init, Numbers, Firsts
<1>2. Init => TableInv
  BY Zenon, FS_EmptySet DEF Init, TableInv, Serves
<1> QED BY <1>1, <1>2, InitTypes, NextTypes, NextNumbers, NextFirsts, NextTable, PTL DEF Spec

\* As long as the master's callbacks come in order, the table it shows is true: the workers
\* it counts are those with a live connection, which is the one its commands go to.
THEOREM TableAlwaysTrue == Spec => []TableIsTrue
<1>1. Types /\ TableInv => TableIsTrue
  <2> SUFFICES ASSUME Types, TableInv, Orderly PROVE TableIsTrue
    BY Zenon DEF TableIsTrue
  <2>1. ASSUME NEW i \in Ids PROVE i \in worker_desc <=> \E c \in Conns : Serves(c, i)
    BY Zenon DEF TableInv
  <2> QED BY Zenon, <2>1 DEF TableInv, TableIsTrue
<1> QED BY <1>1, InvAlways, PTL

\* As long as they do, the command goes out only when every worker has a live connection.
THEOREM CommandWaitsForAll == Spec => CommandNeedsAll
<1>1. ASSUME Types, Numbers, TableInv, [Next]_vars, NEW d \in Conns, toWorker'[d] > toWorker[d], Orderly',
             NEW i \in Ids
      PROVE  worker_conns'[i] # None /\ state[worker_conns'[i]] = "connected"
  <2>1. PICK c \in Conns : Note(c) /\ Enough(Wrap(workers_online + 1))
    <3>1. ASSUME toWorker'[d] = toWorker[d] PROVE FALSE
      BY <1>1, <3>1 DEF Types, NetTypes
    <3>2. ASSUME NEW w \in Ids, Command(w) PROVE FALSE
      <4>1. PICK n \in 1 .. toWorker[link[w]] : toWorker' = [toWorker EXCEPT ![link[w]] = @ - n]
        BY Zenon, <3>2 DEF Command
      <4>2. link[w] \in Conns /\ toWorker[d] \in Nat /\ toWorker[link[w]] \in Nat
        BY Zenon, <1>1, <3>2 DEF Command, Types, NetTypes, LinksOwn
      <4>3. CASE d = link[w]
        <5>1. toWorker'[d] = toWorker[d] - n
          BY Zenon, <4>1, <4>3, <1>1 DEF Types, NetTypes
        <5> QED BY <1>1, <4>2, <5>1
      <4>4. CASE d # link[w]
        <5>1. toWorker'[d] = toWorker[d]
          BY Zenon, <4>1, <4>4, <1>1 DEF Types, NetTypes
        <5> QED BY Zenon, <3>1, <5>1
      <4> QED BY Zenon, <4>3, <4>4
    <3>3. ASSUME NEW w \in Ids, Gone(w) PROVE FALSE
      BY Zenon, <3>1, <3>3 DEF Gone
    <3>4. ASSUME NEW w \in Ids, Ready(w) \/ Start(w) \/ Launch(w) \/ SendReport(w) \/ SeesReset(w) PROVE FALSE
      <4>1. toWorker' = toWorker
        BY <3>4, Zenon DEF Ready, Start, Launch, SendReport, SeesReset
      <4> QED BY Zenon, <3>1, <4>1
    <3>5. ASSUME NEW c \in Conns,
                 \/ Accept(c) \/ Unwatch(c) \/ ReadEnds(c)
                 \/ NoteDestroys(c) \/ Report(c) \/ LinkReset(c)
          PROVE  FALSE
      <4>1. toWorker' = toWorker
        BY <3>5, Zenon DEF Accept, Unwatch, ReadEnds, NoteDestroys, Report, LinkReset
      <4> QED BY Zenon, <3>1, <4>1
    <3>6. ~UNCHANGED vars
      BY Zenon, <3>1 DEF vars
    <3>7. ASSUME NEW c \in Conns, Note(c), ~Enough(Wrap(workers_online + 1)) PROVE FALSE
      BY Zenon, <3>1, <3>7 DEF Note
    <3> QED BY Zenon, <1>1, <3>2, <3>3, <3>4, <3>5, <3>6, <3>7 DEF Next, Master, Worker, ReportStops, Exit
  <2>2. PICK w \in Ids : w = owner[c]
    BY Zenon, <1>1 DEF Types, NetTypes
  <2>3. state[c] = "connected" /\ worker_conns' = [worker_conns EXCEPT ![w] = c]
    BY Zenon, <1>1, <2>1, <2>2, NoteStates
  <2>4. Orderly /\ w \notin worker_desc
    <3>1. PICK S \in SUBSET Conns :
              Disconnected(S, worker_desc \cup {owner[c]}, showing, Wrap(workers_online + 1))
      BY Zenon, <1>1, <2>1, NoteFails
    <3> QED BY Zenon, <1>1, <2>1, <2>2, <3>1 DEF Note, Orderly, Disconnected
  <2>5. worker_desc \cup {w} = Ids
    <3>1. worker_desc \subseteq Ids /\ workers_online = Cardinality(worker_desc)
      BY Zenon, <1>1, <2>4 DEF TableInv, Types, MasterTypes
    <3>2. IsFiniteSet(worker_desc) /\ Cardinality(worker_desc) \in Nat /\ Cardinality(worker_desc) <= N
      BY Zenon, <3>1, FiniteConns, FS_Subset, FS_CardinalityType
    <3>3. Cardinality(worker_desc \cup {w}) = workers_online + 1
      BY Zenon, <2>4, <3>1, <3>2, FS_AddElement
    <3>4. workers_online + 1 \in 0 .. Word - 1
      BY <3>1, <3>2, DistBounds DEF Conns
    <3>5. workers_online + 1 >= N
      BY Zenon, <2>1, <3>4, WrapSame DEF Enough
    <3>6. worker_desc \cup {w} \in SUBSET Ids
      BY Zenon, <3>1
    <3>7. Cardinality(worker_desc \cup {w}) <= N
      BY Zenon, <3>6, FiniteConns, FS_Subset
    <3>8. Cardinality(worker_desc \cup {w}) = N
      BY <3>3, <3>5, <3>7, <3>4, DistBounds
    <3> QED BY Zenon, <3>6, <3>8, FiniteConns, FS_Subset
  <2>6. CASE i = w
    BY <1>1, <2>3, <2>6 DEF Conns, None, Types, MasterTypes
  <2>7. CASE i # w
    <3>1. i \in worker_desc
      BY Zenon, <2>5, <2>7
    <3>2. PICK e \in Conns : e = worker_conns[i] /\ state[e] = "connected"
      BY Zenon, <1>1, <2>4, <3>1 DEF TableInv, Serves
    <3>3. worker_conns'[i] = e /\ e # None
      BY <2>3, <2>7, <3>2 DEF Types, MasterTypes, Conns, None
    <3> QED BY Zenon, <3>2, <3>3
  <2> QED BY Zenon, <2>6, <2>7
<1>2. ASSUME Types /\ Numbers /\ Firsts /\ TableInv, [Next]_vars
      PROVE  (\E c \in Conns : toWorker'[c] > toWorker[c]) /\ Orderly'
               => \A i \in Ids : worker_conns'[i] # None /\ state[worker_conns'[i]] = "connected"
  BY Zenon, <1>1, <1>2
<1>3. Types /\ Numbers /\ Firsts /\ TableInv /\ [Next]_vars
        => [(\E c \in Conns : toWorker'[c] > toWorker[c]) /\ Orderly'
              => \A i \in Ids : worker_conns'[i] # None /\ state[worker_conns'[i]] = "connected"]_vars
  BY Zenon, <1>2
<1> QED BY <1>3, InvAlways, PTL DEF Spec, CommandNeedsAll

-----------------------------------------------------------------------------
(* What ends the master. *)

\* A connection without pfd_ was given up over a reset.
ZombiesReset == \A c \in Conns : state[c] = "zombie" => wire[c] = "reset"

LEMMA ResetsStay ==
    ASSUME Types, Numbers, NEW c \in Conns, state[c] # "none", wire[c] = "reset", [Next]_vars
    PROVE  wire'[c] = "reset"
<1> USE DEF Types, NetTypes
<1>1. CASE UNCHANGED wire
  BY Zenon, <1>1
<1>2. CASE Hangup
  BY Zenon, <1>2 DEF Hangup
<1>3. ASSUME NEW w \in Ids, Launch(w) PROVE wire'[c] = "reset"
  <2>1. c # opened + 1
    BY DEF Numbers, Conns
  <2> QED BY Zenon, <1>3, <2>1 DEF Launch
<1>4. ASSUME NEW w \in Ids, Gone(w) PROVE wire'[c] = "reset"
  BY Zenon, <1>4, "reset" # "open" DEF Gone
<1>5. ASSUME NEW d \in Conns, LinkReset(d) PROVE wire'[c] = "reset"
  BY Zenon, <1>5 DEF LinkReset
<1>6. ASSUME NEW d \in Conns,
             Accept(d) \/ Unwatch(d) \/ ReadEnds(d) \/ Note(d) \/ NoteDestroys(d) \/ Report(d)
      PROVE  UNCHANGED wire \/ Hangup
  BY Zenon, <1>6 DEF Accept, Unwatch, ReadEnds, Note, NoteDestroys, Report, net
<1>7. ASSUME NEW w \in Ids, Ready(w) \/ Command(w) \/ Start(w) \/ SendReport(w) \/ SeesReset(w)
      PROVE  UNCHANGED wire
  BY <1>7, Zenon DEF Ready, Command, Start, SendReport, SeesReset, net
<1>8. CASE UNCHANGED vars
  BY Zenon, <1>1, <1>8 DEF vars, net
<1> QED BY Zenon, <1>1, <1>2, <1>3, <1>4, <1>5, <1>6, <1>7, <1>8
        DEF Next, Master, Worker, ReportStops, Exit

\* Only a read error leaves a connection without pfd_ connected.
LEMMA ZombieFrom ==
    ASSUME Types, NEW c \in Conns, [Next]_vars, state'[c] = "zombie"
    PROVE  state[c] = "zombie" \/ (state[c] = "connected" /\ wire[c] = "reset")
<1> USE DEF Types, MasterTypes, NetTypes
<1>1. CASE UNCHANGED state
  BY Zenon, <1>1
<1>2. ASSUME NEW d \in Conns, Accept(d) PROVE state[c] = "zombie"
  BY Zenon, <1>2 DEF Accept
<1>3. ASSUME NEW d \in Conns, ReadEnds(d)
      PROVE  state[c] = "zombie" \/ (state[c] = "connected" /\ wire[c] = "reset")
  BY Zenon, <1>3, "zombie" # "disconnect" DEF ReadEnds
<1>4. ASSUME NEW d \in Conns, Note(d) PROVE state[c] = "zombie"
  BY Zenon, <1>4, NoteStates, "zombie" # "disconnect"
<1>5. ASSUME NEW d \in Conns, Unwatch(d) \/ NoteDestroys(d) \/ Report(d) \/ LinkReset(d)
      PROVE  UNCHANGED state
  BY Zenon, <1>5 DEF Unwatch, NoteDestroys, Report, LinkReset, ends
<1>6. ASSUME NEW w \in Ids, Ready(w) \/ Command(w) \/ Start(w) \/ Launch(w) \/ SendReport(w)
                            \/ SeesReset(w) \/ Gone(w)
      PROVE  UNCHANGED state
  BY Zenon, <1>6, OthersKeepTable
<1>7. CASE UNCHANGED vars
  BY Zenon, <1>1, <1>7 DEF vars, ends
<1> QED BY Zenon, <1>1, <1>2, <1>3, <1>4, <1>5, <1>6, <1>7
        DEF Next, Master, Worker, ReportStops, Exit

LEMMA NextZombies == Types /\ Numbers /\ ZombiesReset /\ [Next]_vars => ZombiesReset'
<1> SUFFICES ASSUME Types, Numbers, ZombiesReset, [Next]_vars, NEW c \in Conns, state'[c] = "zombie"
             PROVE  wire'[c] = "reset"
  BY Zenon DEF ZombiesReset
<1>1. wire[c] = "reset" /\ state[c] # "none"
  BY Zenon, ZombieFrom, "zombie" # "none", "connected" # "none" DEF ZombiesReset
<1> QED BY Zenon, <1>1, ResetsStay

\* The connection that ends the master.
Fatal(c) == wire[c] = "reset" \/ (wire[c] = "fin" /\ (c \notin noted \/ c = fresh \/ toWorker[c] > 0))

LEMMA DistributeEnds ==
    ASSUME Types, ZombiesReset, NEW desc, NEW online, Distribute(desc, online), crashed',
           worker_conns' \in [Ids -> Conns \cup {None}]
    PROVE  \E c \in Conns : Fatal(c)
<1>1. PICK pipes \in SUBSET {i \in Ids : Pipe(worker_conns'[i])} : Sends(pipes, desc, online)
  BY Zenon DEF Distribute, Sends
<1> DEFINE fatal == pipes \cup {i \in Ids : SendCrashes(worker_conns'[i])}
           reached == {i \in Ids : \A j \in fatal : i < j}
           live == {c \in {worker_conns'[i] : i \in reached} \ {None} : state[c] = "connected"}
<1>2. PICK failing \in SUBSET {c \in live : wire[c] = "reset"} :
          crashed' \in {fatal # {}, fatal \cup failing # {}}
  BY Zenon, <1>1 DEF Sends
<1>3. (\E i \in fatal : TRUE) \/ (\E c \in failing : TRUE)
  BY Zenon, <1>2
<1>4. ASSUME NEW i \in fatal PROVE \E c \in Conns : Fatal(c)
  <2>1. PICK c \in Conns \cup {None} : c = worker_conns'[i] /\ (Pipe(c) \/ SendCrashes(c))
    BY Zenon, <1>1
  <2>2. c \in Conns
    BY Zenon, <2>1 DEF Pipe, SendCrashes, Zombie
  <2> QED BY Zenon, <2>1, <2>2 DEF Pipe, SendCrashes, Zombie, ZombiesReset, Fatal
<1>5. ASSUME NEW c \in failing PROVE \E d \in Conns : Fatal(d)
  <2>1. c \in live /\ wire[c] = "reset"
    BY Zenon, <1>2
  <2>2. c \in {worker_conns'[i] : i \in reached} /\ c # None
    BY Zenon, <2>1
  <2>3. PICK i \in reached : c = worker_conns'[i]
    <3> HIDE DEF reached
    <3> QED BY Zenon, <2>2
  <2>4. i \in Ids
    BY Zenon, <2>3
  <2>5. c \in Conns
    BY Zenon, <2>2, <2>3, <2>4
  <2> QED BY Zenon, <2>1, <2>5 DEF Fatal
<1> QED BY Zenon, <1>3, <1>4, <1>5

LEMMA StepEnds ==
    ASSUME Types, Numbers, ZombiesReset, [Next]_vars, crashed', ~crashed
    PROVE  \E c \in Conns : Fatal(c)
<1>1. PICK c \in Conns : ReadEnds(c) \/ Note(c) \/ NoteDestroys(c)
  <2>1. ASSUME NEW w \in Ids, Ready(w) \/ Command(w) \/ Start(w) \/ Launch(w) \/ SendReport(w)
                              \/ SeesReset(w) \/ Gone(w)
        PROVE  FALSE
    BY Zenon, <2>1, OthersKeepTable
  <2>2. ASSUME NEW d \in Conns, Accept(d) \/ Unwatch(d) \/ Report(d) \/ LinkReset(d) PROVE FALSE
    <3>1. UNCHANGED crashed
      BY Zenon, <2>2 DEF Accept, Unwatch, Report, LinkReset, ends
    <3> QED BY Zenon, <3>1
  <2>3. CASE UNCHANGED vars
    BY Zenon, <2>3 DEF vars, ends
  <2> QED BY Zenon, <2>1, <2>2, <2>3 DEF Next, Master, Worker, ReportStops, Exit
<1>2. CASE ReadEnds(c)
  <2>1. wire[c] \in {"fin", "reset"} /\ (wire[c] = "reset" \/ id[c] \notin Ids \/ c = fresh)
    BY Zenon, <1>2 DEF ReadEnds
  <2>2. c \in noted => id[c] \in Ids
    BY Zenon DEF Numbers, Types, NetTypes
  <2> QED BY Zenon, <2>1, <2>2 DEF Fatal
<1>3. CASE NoteDestroys(c)
  <2>1. PICK d \in Conns \cup {None} : d = worker_conns[owner[c]]
    BY Zenon DEF Types, MasterTypes, NetTypes
  <2>2. d \in Conns /\ state[d] = "zombie"
    BY Zenon, <1>3, <2>1 DEF NoteDestroys, Zombie
  <2> QED BY Zenon, <2>2 DEF ZombiesReset, Fatal
<1>4. CASE Note(c)
  <2>1. PICK desc, online : Distribute(desc, online)
    BY Zenon, <1>4 DEF Note
  <2>2. worker_conns' \in [Ids -> Conns \cup {None}]
    BY Zenon, <1>4, NoteTypes DEF Types, MasterTypes
  <2> QED BY Zenon, <2>1, <2>2, DistributeEnds
<1> QED BY Zenon, <1>1, <1>2, <1>3, <1>4

\* What ends the master is a reset, or the end of a worker that had not registered, that
\* poll still watched for EPOLLOUT, or that had a command on the way: every other end of
\* a worker it survives, and keeps serving the others.
THEOREM MasterSurvivesEnds == Spec => MasterSurvives
<1>1. Init => ZombiesReset
  BY Zenon, "none" # "zombie" DEF Init, ZombiesReset
<1>2. Types /\ Numbers /\ ZombiesReset /\ [Next]_vars
        => [crashed' /\ ~crashed => \E c \in Conns :
               \/ wire[c] = "reset"
               \/ wire[c] = "fin" /\ (c \notin noted \/ c = fresh \/ toWorker[c] > 0)]_vars
  BY Zenon, StepEnds DEF Fatal
<1> QED BY <1>1, <1>2, NextZombies, InvAlways, PTL DEF Spec, MasterSurvives
=============================================================================
