-------------------------- MODULE IndexerSinkProofs --------------------------
(***************************************************************************)
(* One sink per indexer, and none behind a Stopped row: what the pid that  *)
(* a handler acts on says about the sinks that are running.                *)
(***************************************************************************)
EXTENDS IndexerSerialProofs, IndexerPidProofs

\* Without these faults no sink is ever lost sight of.  Each of them may lose a pid on
\* its way to the row, or leave a sink behind a row from which it is started again.
Gentle == Faults \cap {"write", "probe", "sick", "cancel", "crash"} = {}

-----------------------------------------------------------------------------
(* The inductive invariant.  A sink is known by its Running row or by the  *)
(* start that spawned it; a task that starts, marks or deletes an indexer  *)
(* has made sure that no sink of it runs.  Only a kill that cannot be made *)
(* leaves a sink behind, at a FailedStopping row, which no handler leaves. *)

Holding == {"Running"} \cup (IF Can("spawn") THEN {"FailedStopping"} ELSE {})

Knower(t, i, p) == At(t, "save") /\ req[t].id = i /\ req[t].pid = p

Known(i, p) ==
  \/ Found(i, Holding) /\ db[i].pid = p
  \/ \E t \in Tasks : Knower(t, i, p)

Sees(t) ==
  /\ ~At(t, "failget")
  /\ req[t].pc \in {"fetch", "spawn", "del"} => Sinks(req[t].id) = {}
  /\ At(t, "mark") /\ req[t].to \notin Holding => Sinks(req[t].id) = {}
  /\ At(t, "save") => Sinks(req[t].id) \subseteq {req[t].pid}

SinkInv ==
  /\ \A i \in Ids : \A p \in Sinks(i) : Known(i, p)
  /\ \A t \in Tasks : Sees(t)

\* A step after which every running sink is one that ran before.
Calm ==
  \A p \in Pids :
    proc'[p].st = "up" /\ proc'[p].owner \in Ids
      => proc[p].st = "up" /\ proc'[p].owner = proc[p].owner

\* No sinks are gained in a calm step.
LEMMA CalmSinks == ASSUME Calm PROVE \A i \in Ids : Sinks(i)' \subseteq Sinks(i)
BY DEF Calm, Sinks

\* Nothing the world does to processes that run makes a sink unknown.
LEMMA WorldKeeps == ASSUME SinkInv, TypeInv, UNCHANGED <<db, req>>, Calm PROVE SinkInv'
<1>1. \A i \in Ids : Sinks(i)' \subseteq Sinks(i)
  BY CalmSinks
<1>2. \A t \in Tasks : req[t].pc \in {"fetch", "spawn", "mark", "del", "save"} => req[t].id \in Ids
  BY DEF TypeInv, TaskComplete, At
<1>3. \A t \in Tasks : Sees(t)'
  BY <1>1, <1>2 DEF SinkInv, Sees, At
<1>4. \A i \in Ids : \A p \in Sinks(i)' : Known(i, p)'
  BY <1>1 DEF SinkInv, Known, Knower, Found, At
<1> QED BY <1>3, <1>4 DEF SinkInv

\* A task at work that is not about to record a sink is alone: every sink is the one
\* of a row.
LEMMA SinkInRow ==
  ASSUME OneAtATime, SerialInv, SinkInv, NEW t \in Tasks, ~At(t, "idle"), ~At(t, "save"),
         NEW i \in Ids, NEW p \in Sinks(i)
  PROVE  Found(i, Holding) /\ db[i].pid = p
<1>1. svc = Phase(t)
  BY DEF SerialInv, Alone
<1>2. \A u \in Tasks : ~At(u, "save")
  BY <1>1, OthersIdle DEF SerialInv, At
<1> QED BY <1>2 DEF SinkInv, Known, Knower

\* What the task whose phase it is does to itself leaves the others seeing nothing.
LEMMA OthersSeeNothing ==
  ASSUME OneAtATime, SerialInv, NEW t \in Tasks, svc = Phase(t),
         NEW op, NEW pc, NEW i, NEW p, NEW s, Becomes(t, op, pc, i, p, s)
  PROVE  \A u \in Tasks : u # t => Sees(u)'
<1>1. \A u \in Tasks : u # t => req'[u].pc = "idle"
  BY OthersIdle DEF SerialInv, Becomes, At
<1> QED BY <1>1 DEF Sees, At

\* A calm step of a task that writes no row and has no sink to record keeps the
\* invariant, if it sees what it must where it goes.
LEMMA SinkMove ==
  ASSUME OneAtATime, SerialInv, SinkInv, NEW t \in Tasks, svc = Phase(t),
         NEW op, NEW pc, NEW i, NEW p, NEW s, Becomes(t, op, pc, i, p, s),
         UNCHANGED db, Calm, ~At(t, "save"), Sees(t)'
  PROVE  SinkInv'
<1>1. \A j \in Ids : Sinks(j)' \subseteq Sinks(j)
  BY CalmSinks
<1>2. \A u \in Tasks : Sees(u)'
  BY OthersSeeNothing
<1>3. \A u \in Tasks : ~At(u, "save")
  BY OthersIdle DEF SerialInv, At
<1>4. \A j \in Ids : \A q \in Sinks(j)' : Known(j, q)'
  BY <1>1, <1>3 DEF SinkInv, Known, Knower, Found
<1> QED BY <1>2, <1>4 DEF SinkInv

\* A write to a row whose indexer has no sink keeps the invariant, if the task that
\* wrote is done.
LEMMA SinkWrite ==
  ASSUME OneAtATime, SerialInv, SinkInv, IndInv, NEW t \in Tasks, svc = Phase(t),
         NEW op, NEW pc, NEW i, NEW p, NEW s, Becomes(t, op, pc, i, p, s),
         pc \in {"ok", "err", "get"}, UNCHANGED proc, ~At(t, "save"),
         NEW c \in Ids, Sinks(c) = {}, NEW row, db' = [db EXCEPT ![c] = row]
  PROVE  SinkInv'
<1>1. db'[c] = row /\ \A j \in Ids : j # c => db'[j] = db[j]
  BY DEF IndInv, TypeOK
<1>2. \A j : Sinks(j)' = Sinks(j)
  BY DEF Sinks
<1>3. Sees(t)'
  BY DEF Sees, At, Becomes
<1>4. \A u \in Tasks : Sees(u)'
  BY <1>3, OthersSeeNothing
<1>5. \A u \in Tasks : ~At(u, "save")
  BY OthersIdle DEF SerialInv, At
<1>6. \A j \in Ids : \A q \in Sinks(j)' : Known(j, q)'
  BY <1>1, <1>2, <1>5 DEF SinkInv, Known, Knower, Found
<1> QED BY <1>4, <1>6 DEF SinkInv

-----------------------------------------------------------------------------
(* The steps that sinks depend on.                                         *)

\* What every step below may assume.
Before == OneAtATime /\ Gentle /\ SinkInv /\ SerialInv /\ IndInv /\ TypeInv

\* Nothing fails in these ways.
LEMMA GentleFaults ==
  ASSUME Gentle
  PROVE  /\ ~Can("write") /\ ~Can("probe") /\ ~Can("sick")
         /\ ~Can("cancel") /\ ~Can("crash")
BY DEF Gentle, Can

\* What a task that is not idle has of its own.
LEMMA TaskHas ==
  ASSUME Before, NEW t \in Tasks, ~At(t, "idle")
  PROVE  /\ svc = Phase(t) /\ req[t].id \in Ids /\ req[t].pid \in Pids \cup {None}
         /\ Sees(t) /\ Knows(t) /\ TaskOK(t) /\ req \in [Tasks -> Task]
         /\ proc \in [Pids -> Process]
<1>1. req \in [Tasks -> Task] /\ proc \in [Pids -> Process]
  BY DEF Before, TypeInv, TypeOK
<1>2. req[t].pid \in Pids \cup {None}
  BY <1>1 DEF Task
<1> QED BY <1>1, <1>2 DEF Before, SinkInv, SerialInv, Alone, IndInv, TypeInv, TaskComplete, At

\* Get goes on to start an indexer only when no sink of it runs.
LEMMA GetKeepsSinks == ASSUME Before, NEW t \in Tasks, Get(t) PROVE SinkInv'
<1> PICK i \in Ids : i = req[t].id
  BY TaskHas DEF Get, At
<1>1. ~At(t, "idle") /\ ~At(t, "save") /\ UNCHANGED <<db, proc>>
  BY DEF Get, At
<1>2. svc = Phase(t) /\ req \in [Tasks -> Task]
  BY <1>1, TaskHas
<1>3. \A j : Sinks(j)' = Sinks(j)
  BY <1>1 DEF Sinks
<1>4. Calm
  BY <1>1 DEF Calm
<1>5. CASE Finish(t, "err")
  <2>1. Becomes(t, req[t].op, "err", i, None, None)
    BY <1>2, <1>5, FinishMoves
  <2> QED BY <1>1, <1>2, <1>4, <2>1, SinkMove DEF Before, Becomes, Sees, At
<1>6. CASE Goto(t, "fetch") /\ Found(i, Startable)
  <2>1. Becomes(t, req[t].op, "fetch", i, req[t].pid, req[t].to)
    BY <1>2, <1>6, GotoMoves DEF Calls, Pcs
  <2>2. Sinks(i) = {}
    BY <1>1, <1>2, <1>6, SinkInRow DEF Before, Found, Startable, Holding
  <2>3. Sees(t)'
    BY <1>3, <2>1, <2>2 DEF Becomes, Sees, At
  <2> QED BY <1>1, <1>2, <1>4, <2>1, <2>3, SinkMove DEF Before
<1>7. CASE Read(t, "check", db[i].pid)
  <2>1. db[i].pid \in Pids \cup {None} \/ Finish(t, "err") \/ Goto(t, "fetch")
    BY <1>2 DEF Get, Before, TypeInv, TypeOK, Row
  <2>2. CASE db[i].pid \in Pids \cup {None}
    <3>1. Becomes(t, req[t].op, "check", i, db[i].pid, req[t].to)
      BY <1>2, <1>7, <2>2, ReadMoves DEF Calls, Pcs
    <3> QED BY <1>1, <1>2, <1>4, <3>1, SinkMove DEF Before, Becomes, Sees, At
  <2>3. CASE Goto(t, "fetch")
    BY <1>2, <1>7, <2>3 DEF Goto, Read, Task
  <2> QED BY <1>5, <2>1, <2>2, <2>3
<1> QED BY <1>5, <1>6, <1>7 DEF Get, Found, Startable

\* Check starts a Running indexer again only when the process of its row is dead.
LEMMA CheckKeepsSinks == ASSUME Before, NEW t \in Tasks, Check(t) PROVE SinkInv'
<1> PICK i \in Ids : i = req[t].id
  BY TaskHas DEF Check, At
<1>1. ~At(t, "idle") /\ ~At(t, "save") /\ UNCHANGED <<db, proc>>
  BY DEF Check, At
<1>2. svc = Phase(t) /\ req \in [Tasks -> Task] /\ Knows(t)
  BY <1>1, TaskHas
<1>3. \A j : Sinks(j)' = Sinks(j)
  BY <1>1 DEF Sinks
<1>4. Calm
  BY <1>1 DEF Calm
<1>5. CASE Read(t, "fetch", None) /\ ~Alive(req[t].pid)
  <2>1. Becomes(t, req[t].op, "fetch", i, None, req[t].to)
    BY <1>2, <1>5, ReadMoves DEF Calls, Pcs
  <2>2. db[i].pid = req[t].pid
    BY <1>2 DEF Check, Knows, At
  <2>3. Sinks(i) = {}
    BY <1>1, <1>2, <1>5, <2>2, SinkInRow DEF Before, Alive, Sinks
  <2>4. Sees(t)'
    BY <1>3, <2>1, <2>3 DEF Becomes, Sees, At
  <2> QED BY <1>1, <1>2, <1>4, <2>1, <2>4, SinkMove DEF Before
<1>6. CASE Started(t) \/ Finish(t, "err")
  <2>1. \E pc \in {"query", "ok", "err"} : Becomes(t, req[t].op, pc, i, None, None)
    BY <1>2, <1>6, StartedMoves, FinishMoves
  <2> QED BY <1>1, <1>2, <1>4, <2>1, SinkMove DEF Before, Becomes, Sees, At
<1>7. ~Can("probe")
  BY GentleFaults DEF Before
<1> QED BY <1>5, <1>6, <1>7 DEF Check, Probe

\* The sink that is spawned is the only one of its indexer and has a pid of its own.
LEMMA SpawnKeepsSinks == ASSUME Before, NEW t \in Tasks, Spawn(t) PROVE SinkInv'
<1> PICK i \in Ids : i = req[t].id
  BY TaskHas DEF Spawn, At
<1>1. ~At(t, "idle") /\ ~At(t, "save") /\ UNCHANGED db
  BY DEF Spawn, At
<1>2. /\ svc = Phase(t) /\ req \in [Tasks -> Task] /\ Sees(t)
      /\ proc \in [Pids -> Process]
  BY <1>1, TaskHas
<1> SUFFICES ASSUME NEW p \in Pids, Assignable(p),
                    proc' = [proc EXCEPT ![p] = [owner |-> i, st |-> "up", kid |-> TRUE]],
                    Read(t, "save", p)
             PROVE  SinkInv'
  <2>1. CASE Finish(t, "err") /\ UNCHANGED proc
    <3>1. Becomes(t, req[t].op, "err", i, None, None) /\ Calm
      BY <1>2, <2>1, FinishMoves DEF Calm
    <3> QED BY <1>1, <1>2, <3>1, SinkMove DEF Before, Becomes, Sees, At
  <2> QED BY <2>1 DEF Spawn
<1>3. Becomes(t, req[t].op, "save", i, p, req[t].to)
  BY <1>2, ReadMoves DEF Calls, Pcs
<1>4. /\ proc'[p].owner = i /\ proc'[p].st = "up"
      /\ \A q \in Pids : q # p => proc'[q] = proc[q]
  BY <1>2
<1>5. /\ Sinks(i)' \subseteq Sinks(i) \cup {p}
      /\ \A j \in Ids : j # i => Sinks(j)' \subseteq Sinks(j)
  BY <1>4 DEF Sinks
<1>6. Sinks(i)' \subseteq {p}
  BY <1>2, <1>5 DEF Spawn, Sees, At
<1>7. \A u \in Tasks : Sees(u)'
  <2>1. Sees(t)'
    BY <1>3, <1>6 DEF Becomes, Sees, At
  <2> QED BY <1>2, <1>3, <2>1, OthersSeeNothing DEF Before
<1>8. Knower(t, i, p)'
  BY <1>3 DEF Knower, At, Becomes
<1>9. \A j \in Ids : \A q \in Sinks(j)' : Known(j, q)'
  <2>1. ASSUME NEW j \in Ids, j # i, NEW q \in Sinks(j) PROVE Known(j, q)'
    BY <1>1, <2>1, SinkInRow DEF Before, Known, Found
  <2> QED BY <1>5, <1>6, <1>8, <2>1 DEF Known
<1> QED BY <1>7, <1>9 DEF SinkInv

\* The start that spawned a sink hands it over to its row.
LEMMA SaveKeepsSinks == ASSUME Before, NEW t \in Tasks, Save(t) PROVE SinkInv'
<1> PICK i \in Ids : i = req[t].id
  BY TaskHas DEF Save, At
<1>1. ~At(t, "idle") /\ At(t, "save") /\ UNCHANGED proc
  BY DEF Save, At
<1>2. /\ svc = Phase(t) /\ req \in [Tasks -> Task] /\ Sees(t) /\ Knows(t)
      /\ req[t].pid \in Pids \cup {None}
  BY <1>1, TaskHas
<1>3. \A j : Sinks(j)' = Sinks(j)
  BY <1>1 DEF Sinks
<1>4. db[i] # None
  BY <1>1, <1>2 DEF Knows, Found, At
<1>5. Update(i, [status |-> "Running", pid |-> req[t].pid]) /\ Started(t)
  BY <1>4, GentleFaults DEF Save, Before
<1>6. PICK pc \in {"query", "ok"} : Becomes(t, req[t].op, pc, i, None, None)
  BY <1>2, <1>5, StartedMoves
<1>7. /\ db'[i] = [status |-> "Running", pid |-> req[t].pid]
      /\ \A j \in Ids : j # i => db'[j] = db[j]
  BY <1>2, <1>5 DEF Update, Before, TypeInv, TypeOK
<1>8. db'[i] # None
  <2>1. db'[i] \in Row
    BY <1>2, <1>7 DEF Row, Statuses
  <2> QED BY <2>1, ConstantsOK
<1>9. \A u \in Tasks : Sees(u)'
  <2>1. Sees(t)'
    BY <1>6 DEF Becomes, Sees, At
  <2> QED BY <1>2, <1>6, <2>1, OthersSeeNothing DEF Before
<1>10. \A j \in Ids : \A q \in Sinks(j)' : Known(j, q)'
  <2>1. \A q \in Sinks(i) : Known(i, q)'
    BY <1>1, <1>2, <1>7, <1>8 DEF Sees, Known, Found, Holding
  <2>2. ASSUME NEW j \in Ids, j # i, NEW q \in Sinks(j) PROVE Known(j, q)'
    <3>1. \A u \in Tasks : ~Knower(u, j, q)
      BY <1>2, <2>2, OthersIdle DEF Knower, Before, SerialInv, At
    <3>2. Known(j, q)
      BY DEF Before, SinkInv
    <3> QED BY <1>7, <2>2, <3>1, <3>2 DEF Known, Found
  <2> QED BY <1>3, <2>1, <2>2
<1> QED BY <1>9, <1>10 DEF SinkInv

\* Stop takes an indexer for stopped only when the process of its row is dead.
LEMMA ProbeKeepsSinks == ASSUME Before, NEW r \in Requests, StopProbe(r) PROVE SinkInv'
<1> PICK i \in Ids : i = req[r].id
  BY TaskHas DEF StopProbe, At, Tasks
<1>1. ~At(r, "idle") /\ ~At(r, "save") /\ UNCHANGED <<db, proc>> /\ r \in Tasks
  BY DEF StopProbe, At, Tasks
<1>2. svc = Phase(r) /\ req \in [Tasks -> Task] /\ Knows(r) /\ req[r].pid # None
  BY <1>1, TaskHas, ConstantsOK DEF StopProbe, TaskOK, At
<1>3. \A j : Sinks(j)' = Sinks(j)
  BY <1>1 DEF Sinks
<1>4. Calm
  BY <1>1 DEF Calm
<1>5. CASE Intend(r, "Stopped") /\ ~Alive(req[r].pid)
  <2>1. Becomes(r, req[r].op, "mark", i, req[r].pid, "Stopped")
    BY <1>1, <1>2, <1>5, IntendMoves DEF Statuses
  <2>2. db[i].pid = req[r].pid
    BY <1>2 DEF StopProbe, Knows, At
  <2>3. Sinks(i) = {}
    BY <1>1, <1>2, <1>5, <2>2, SinkInRow DEF Before, Alive, Sinks
  <2>4. Sees(r)'
    BY <1>3, <2>1, <2>3 DEF Becomes, Sees, At
  <2> QED BY <1>1, <1>2, <1>4, <2>1, <2>4, SinkMove DEF Before
<1>6. CASE Goto(r, "kill")
  <2>1. Becomes(r, req[r].op, "kill", i, req[r].pid, req[r].to)
    BY <1>1, <1>2, <1>6, GotoMoves DEF Calls, Pcs
  <2> QED BY <1>1, <1>2, <1>4, <2>1, SinkMove DEF Before, Becomes, Sees, At
<1>7. ~Can("probe")
  BY GentleFaults DEF Before
<1> QED BY <1>2, <1>5, <1>6, <1>7 DEF StopProbe, Probe

\* After kill no sink of the indexer runs on unsignalled, unless kill could not be made.
LEMMA KillKeepsSinks == ASSUME Before, NEW r \in Requests, Kill(r) PROVE SinkInv'
<1> PICK i \in Ids : i = req[r].id
  BY TaskHas DEF Kill, At, Tasks
<1> DEFINE p == req[r].pid
<1>1. ~At(r, "idle") /\ ~At(r, "save") /\ UNCHANGED db /\ r \in Tasks
  BY DEF Kill, At, Tasks
<1>2. /\ svc = Phase(r) /\ req \in [Tasks -> Task] /\ Knows(r) /\ p \in Pids
      /\ proc \in [Pids -> Process]
  BY <1>1, TaskHas DEF Kill, TaskOK, At
<1>3. db[i].pid = p
  BY <1>2 DEF Kill, Knows, At
<1>4. Sinks(i) \subseteq {p}
  BY <1>1, <1>2, <1>3, SinkInRow DEF Before
<1>5. PICK s \in Statuses : Becomes(r, req[r].op, "mark", i, p, s)
  BY <1>1, <1>2, IntendMoves DEF Kill, Statuses
<1>6. CASE proc' = [proc EXCEPT ![p].st = IF @ = "up" THEN "term" ELSE @]
  <2>1. /\ proc'[p].st # "up"
        /\ \A q \in Pids : q # p => proc'[q] = proc[q]
    BY <1>2, <1>6 DEF Process
  <2>2. Calm
    BY <2>1 DEF Calm
  <2>3. Sinks(i)' = {}
    BY <1>4, <2>1, <2>2, CalmSinks DEF Sinks
  <2>4. Sees(r)'
    BY <1>5, <2>3 DEF Becomes, Sees, At
  <2> QED BY <1>1, <1>2, <1>5, <2>2, <2>4, SinkMove DEF Before
<1>7. CASE UNCHANGED proc /\ (proc[p].st = "free" \/ proc[p].owner = Foreign)
  <2>1. Calm
    BY <1>7 DEF Calm
  <2>2. Sinks(i)' = {}
    BY <1>2, <1>4, <1>7, <2>1, CalmSinks, ConstantsOK DEF Sinks
  <2>3. Sees(r)'
    BY <1>5, <2>2 DEF Becomes, Sees, At
  <2> QED BY <1>1, <1>2, <1>5, <2>1, <2>3, SinkMove DEF Before
<1>8. CASE UNCHANGED proc /\ Can("spawn") /\ Intend(r, "FailedStopping")
  <2>1. Becomes(r, req[r].op, "mark", i, p, "FailedStopping")
    BY <1>1, <1>2, <1>8, IntendMoves DEF Statuses
  <2>2. Sees(r)' /\ Calm
    BY <1>8, <2>1 DEF Becomes, Sees, At, Calm, Holding
  <2> QED BY <1>1, <1>2, <2>1, <2>2, SinkMove DEF Before
<1> QED BY <1>6, <1>7, <1>8 DEF Kill

\* The status that a stop or fail_indexer writes is that of an indexer without a sink.
LEMMA MarkKeepsSinks == ASSUME Before, NEW r \in Requests, Mark(r) PROVE SinkInv'
<1> PICK i \in Ids : i = req[r].id
  BY TaskHas DEF Mark, At, Tasks
<1> DEFINE row == [db[i] EXCEPT !.status = req[r].to]
<1>1. ~At(r, "idle") /\ ~At(r, "save") /\ UNCHANGED proc /\ r \in Tasks
  BY DEF Mark, At, Tasks
<1>2. /\ svc = Phase(r) /\ req \in [Tasks -> Task] /\ Found(i, {"Running"})
      /\ req[r].to \notin Holding => Sinks(i) = {}
  BY <1>1, TaskHas DEF Mark, Sees, Knows, At
<1>3. \E pc \in {"ok", "err"} : Becomes(r, req[r].op, pc, i, None, None)
  BY <1>1, <1>2, FinishMoves DEF Mark
<1>4. db' = [db EXCEPT ![i] = row]
  BY <1>2, GentleFaults DEF Mark, Update, Found, Before
<1>5. CASE Sinks(i) = {}
  <2> HIDE DEF row
  <2> QED BY <1>1, <1>2, <1>3, <1>4, <1>5, SinkWrite DEF Before
<1>6. CASE req[r].to \in Holding
  <2>1. db[i] \in Row /\ db \in [Ids -> Row \cup {None}]
    BY <1>2 DEF Found, Before, TypeInv, TypeOK
  <2>2. /\ db'[i] \in Row /\ db'[i].pid = db[i].pid /\ db'[i].status \in Holding
        /\ \A j \in Ids : j # i => db'[j] = db[j]
    BY <1>4, <1>6, <2>1 DEF Row, Holding, Statuses
  <2>3. db'[i] # None
    BY <2>2, ConstantsOK
  <2>4. \A j \in Ids : \A p \in Sinks(j) : Found(j, Holding) /\ db[j].pid = p
    BY <1>1, SinkInRow DEF Before
  <2>5. \A j \in Ids : \A p \in Sinks(j)' : Known(j, p)'
    BY <1>1, <2>2, <2>3, <2>4 DEF Sinks, Known, Found
  <2>6. Sees(r)'
    BY <1>3 DEF Becomes, Sees, At
  <2>7. \A u \in Tasks : Sees(u)'
    BY <1>1, <1>2, <1>3, <2>6, OthersSeeNothing DEF Before
  <2> QED BY <2>5, <2>7 DEF SinkInv
<1> QED BY <1>2, <1>5, <1>6

\* A row that goes leaves no sink behind, and a new one comes with none.
LEMMA RowsComeAndGo ==
  ASSUME Before, NEW r \in Requests, Commit(r) \/ DeleteRow(r) PROVE SinkInv'
<1> DEFINE i == req[r].id
<1>1. ~At(r, "idle") /\ ~At(r, "save") /\ UNCHANGED proc /\ r \in Tasks
  BY DEF Commit, DeleteRow, At, Tasks
<1>2. svc = Phase(r) /\ i \in Ids /\ req \in [Tasks -> Task] /\ TaskOK(r) /\ Sees(r)
  BY <1>1, TaskHas
<1>3. Sinks(i) = {}
  <2>1. CASE Commit(r)
    BY <1>1, <1>2, <2>1, SinkInRow DEF Commit, TaskOK, At, Found, Before
  <2>2. CASE DeleteRow(r)
    BY <1>2, <2>2 DEF DeleteRow, Sees, At
  <2> QED BY <2>1, <2>2
<1>4. PICK row \in {NewRow, None} : db' = [db EXCEPT ![i] = row]
  BY GentleFaults DEF Commit, DeleteRow, Before
<1>5. \E pc \in {"ok", "err", "get"}, p \in Pids \cup {None}, s \in Statuses \cup {None} :
        Becomes(r, req[r].op, pc, i, p, s)
  <2>1. req[r].pid \in Pids \cup {None} /\ req[r].to \in Statuses \cup {None}
    BY <1>1, <1>2 DEF Task
  <2> QED BY <1>1, <1>2, <2>1, GotoMoves, FinishMoves DEF Commit, DeleteRow, Calls, Pcs
<1> QED BY <1>1, <1>2, <1>3, <1>4, <1>5, SinkWrite DEF Before

-----------------------------------------------------------------------------
\* The other steps of a handler move on without knowing more than a row.
LEMMA OthersKeepSinks ==
  ASSUME Before, NEW t \in Tasks, UNCHANGED <<db, proc>>, ~At(t, "save"),
         svc = Phase(t), NEW op, NEW i, NEW p, NEW s,
         NEW pc \in {"put", "commit", "query", "get", "stopget", "delget", "alive", "ok", "err", "idle"},
         Becomes(t, op, pc, i, p, s)
  PROVE  SinkInv'
BY SinkMove DEF Before, Becomes, Sees, At, Calm

\* DeleteGet goes on only to delete an indexer that no sink runs for.
LEMMA DeleteGetKeepsSinks == ASSUME Before, NEW r \in Requests, DeleteGet(r) PROVE SinkInv'
<1> PICK i \in Ids : i = req[r].id
  BY TaskHas DEF DeleteGet, At, Tasks
<1>1. ~At(r, "idle") /\ ~At(r, "save") /\ UNCHANGED <<db, proc>> /\ r \in Tasks
  BY DEF DeleteGet, At, Tasks
<1>2. svc = Phase(r) /\ req \in [Tasks -> Task]
  BY <1>1, TaskHas
<1>3. CASE Finish(r, "err")
  BY <1>1, <1>2, <1>3, FinishMoves, OthersKeepSinks
<1>4. CASE Goto(r, "del") /\ Found(i, {"Stopped"})
  <2>1. Becomes(r, req[r].op, "del", i, req[r].pid, req[r].to)
    BY <1>1, <1>2, <1>4, GotoMoves DEF Calls, Pcs
  <2>2. Sinks(i) = {}
    BY <1>1, <1>4, SinkInRow DEF Before, Found, Holding
  <2>3. Sees(r)' /\ Calm
    BY <1>1, <2>1, <2>2 DEF Becomes, Sees, At, Sinks, Calm
  <2> QED BY <1>1, <1>2, <2>1, <2>3, SinkMove DEF Before
<1> QED BY <1>3, <1>4 DEF DeleteGet, Found

\* Sinks end by themselves, other processes come and go, and a new machine has none.
LEMMA WorldKeepsSinks ==
  ASSUME Before, (\E p \in Pids : System(p)) \/ Redeploy PROVE SinkInv'
<1>1. proc \in [Pids -> Process]
  BY DEF Before, TypeInv, TypeOK
<1>2. ASSUME NEW p \in Pids, System(p) PROVE SinkInv'
  <2>1. Ended(p).st # "up" /\ Free.st # "up"
    BY <1>1 DEF Ended, Free, Process
  <2>2. PICK new : proc' = [proc EXCEPT ![p] = new] /\ (new.st # "up" \/ new.owner \notin Ids)
    BY <1>1, <1>2, <2>1, ConstantsOK DEF System, SinkExit, TermExit, Reap, ForeignStart, ForeignExit
  <2>3. Calm
    BY <1>1, <2>2 DEF Calm
  <2>4. UNCHANGED <<db, req>>
    BY <1>2 DEF System, SinkExit, TermExit, Reap, ForeignStart, ForeignExit
  <2> QED BY <2>3, <2>4, WorldKeeps DEF Before
<1>3. CASE Redeploy
  <2>1. Calm /\ \A i : Sinks(i)' = {}
    BY <1>1, <1>3 DEF Redeploy, Calm, Free, Sinks
  <2>2. \A t \in Tasks : req'[t].pc = "idle"
    BY <1>3 DEF Redeploy, Idle, Doing
  <2> QED BY <2>1, <2>2 DEF SinkInv, Sees, At
<1> QED BY <1>2, <1>3

\* Every step keeps every running sink known.
LEMMA SinkStep == ASSUME Before, [Next]_vars PROVE SinkInv'
<1>1. req \in [Tasks -> Task] /\ Requests \subseteq Tasks /\ Main \in Tasks
      /\ \A r \in Requests : Phase(r) = "up"
  BY ConstantsOK DEF Before, TypeInv, TypeOK, Tasks, Phase
<1>2. /\ "idle" \in Pcs /\ {"put", "commit", "get", "stopget", "delget", "query", "alive"} \subseteq Pcs
      /\ {"create", "start", "stop", "delete"} \subseteq Ops
      /\ minted \subseteq Ids /\ todo \subseteq Ids
  BY DEF Pcs, Calls, Ops, Before, TypeInv, TypeOK
<1>3. ASSUME NEW t \in Tasks, StartStep(t) PROVE SinkInv'
  <2>1. CASE Fetch(t)
    <3> PICK i \in Ids : i = req[t].id
      BY <2>1, TaskHas DEF Fetch, At
    <3>1. ~At(t, "save") /\ svc = Phase(t) /\ Sinks(i) = {} /\ UNCHANGED <<db, proc>>
      BY <2>1, TaskHas DEF Fetch, At, Sees
    <3>2. CASE Goto(t, "spawn")
      <4>1. Becomes(t, req[t].op, "spawn", i, req[t].pid, req[t].to)
        BY <1>1, <3>2, GotoMoves DEF Calls, Pcs
      <4>2. Sees(t)' /\ Calm
        BY <3>1, <4>1 DEF Becomes, Sees, At, Sinks, Calm
      <4> QED BY <3>1, <4>1, <4>2, SinkMove DEF Before
    <3>3. CASE Finish(t, "err")
      BY <1>1, <3>1, <3>3, FinishMoves, OthersKeepSinks
    <3> QED BY <2>1, <3>2, <3>3 DEF Fetch
  <2> QED BY <1>3, <2>1, GetKeepsSinks, CheckKeepsSinks, SpawnKeepsSinks, SaveKeepsSinks
          DEF StartStep
<1>4. ASSUME NEW t \in Tasks, Reply(t) PROVE SinkInv'
  BY <1>1, <1>4, TaskHas, DropMoves, OthersKeepSinks DEF Reply, At
<1>5. ASSUME NEW r \in Requests, NEW op \in Ops, NEW pc \in {"put", "get", "stopget", "delget"},
             NEW i \in Ids, svc = "up", At(r, "idle"), Begin(r, op, pc, i), UNCHANGED <<db, proc>>
      PROVE  SinkInv'
  BY <1>1, <1>2, <1>5, BeginMoves, OthersKeepSinks DEF At
<1>6. ASSUME NEW r \in Requests, Client(r) PROVE SinkInv'
  <2>1. ~Can("cancel")
    BY GentleFaults DEF Before
  <2>2. CASE Create(r)
    BY <1>2, <1>5, <2>2 DEF Create
  <2>3. ASSUME NEW i \in Ids, Start(r, i) \/ Stop(r, i) \/ Delete(r, i) PROVE SinkInv'
    BY <1>2, <1>5, <2>3 DEF Start, Stop, Delete
  <2> QED BY <1>6, <2>1, <2>2, <2>3 DEF Client, Cancel
<1>7. ASSUME NEW r \in Requests, Put(r) \/ Query(r) PROVE SinkInv'
  <2>1. ~At(r, "save") /\ svc = Phase(r) /\ UNCHANGED <<db, proc>>
    BY <1>1, <1>7, TaskHas DEF Put, Query, At
  <2>2. Goto(r, "commit") \/ Finish(r, "ok") \/ Finish(r, "err")
    BY <1>7, GentleFaults DEF Put, Query, Before
  <2> QED BY <1>1, <1>2, <2>1, <2>2, GotoMoves, FinishMoves, OthersKeepSinks
<1>8. ASSUME NEW r \in Requests, FailGet(r) PROVE FALSE
  BY <1>1, <1>8, TaskHas DEF FailGet, Sees, At
<1>9. ASSUME NEW r \in Requests, StopGet(r) PROVE SinkInv'
  <2>1. ~At(r, "save") /\ svc = Phase(r) /\ req[r].id \in Ids /\ UNCHANGED <<db, proc>>
    BY <1>1, <1>9, TaskHas DEF StopGet, At
  <2>2. CASE Finish(r, "err")
    BY <1>1, <2>1, <2>2, FinishMoves, OthersKeepSinks
  <2>3. CASE Read(r, "alive", db[req[r].id].pid) /\ db[req[r].id] # None
    <3>1. db[req[r].id].pid \in Pids \cup {None}
      BY <2>1, <2>3 DEF Before, TypeInv, TypeOK, Row
    <3> QED BY <1>1, <1>2, <2>1, <2>3, <3>1, ReadMoves, OthersKeepSinks
  <2> QED BY <1>9, <2>2, <2>3 DEF StopGet
<1>10. ASSUME BootList \/ BootDone \/ UNCHANGED vars PROVE SinkInv'
  BY <1>10, WorldKeeps DEF BootList, BootDone, vars, Before, Calm
<1>11. ASSUME BootNext PROVE SinkInv'
  <2>1. PICK i \in todo : Begin(Main, "start", "get", i)
    BY <1>11 DEF BootNext
  <2>2. svc = Phase(Main) /\ ~At(Main, "save") /\ UNCHANGED <<db, proc>>
    BY <1>11 DEF BootNext, Phase, At
  <2> QED BY <1>1, <1>2, <2>1, <2>2, BeginMoves, OthersKeepSinks
<1>12. ASSUME Crash PROVE FALSE
  BY <1>12, GentleFaults DEF Crash, Before
<1> QED BY <1>1, <1>3, <1>4, <1>6, <1>7, <1>8, <1>9, <1>10, <1>11, <1>12,
       ProbeKeepsSinks, KillKeepsSinks, MarkKeepsSinks, RowsComeAndGo, DeleteGetKeepsSinks,
       WorldKeepsSinks
     DEF Next, Handle, Boot

\* With one request at a time and none of these faults, every running sink stays known.
LEMMA SinkInductive ==
  ASSUME OneAtATime, Gentle
  PROVE  Spec => [](SinkInv /\ SerialInv /\ IndInv /\ TypeInv)
<1>1. Init => SinkInv
  BY DEF Init, SinkInv, Sinks, Sees, At, Idle, Doing, Free
<1>2. SinkInv /\ SerialInv /\ IndInv /\ TypeInv /\ [Next]_vars => SinkInv'
  BY SinkStep DEF Before
<1> QED BY <1>1, <1>2, SerialInductive, PTL DEF Spec

-----------------------------------------------------------------------------
\* What is known of a sink names it: two sinks of one indexer are one.
LEMMA KnownIsUnique == ASSUME SinkInv PROVE \A i \in Ids : \A p, q \in Sinks(i) : p = q
<1> SUFFICES ASSUME NEW i \in Ids, NEW p \in Sinks(i), NEW q \in Sinks(i) PROVE p = q
  OBVIOUS
<1>1. Known(i, p) /\ Known(i, q)
  BY DEF SinkInv
<1>2. CASE \E t \in Tasks : Knower(t, i, p) \/ Knower(t, i, q)
  <2>1. PICK t \in Tasks : At(t, "save") /\ req[t].id = i
    BY <1>2 DEF Knower
  <2>2. Sinks(i) \subseteq {req[t].pid}
    BY <2>1 DEF SinkInv, Sees
  <2> QED BY <2>2
<1>3. CASE db[i].pid = p /\ db[i].pid = q
  BY <1>3
<1> QED BY <1>1, <1>2, <1>3 DEF Known

\* With one request at a time, while sinks exit, reads fail, other processes come, pids
\* are reused and the service moves to new machines, no two sinks run for one indexer
\* and the one that runs is known.
THEOREM OneSink ==
  ASSUME OneAtATime, Gentle, "spawn" \notin Faults PROVE Spec => []OneSinkPerIndexer
<1>1. Holding = {"Running"}
  BY DEF Holding, Can
<1>2. SinkInv => OneSinkPerIndexer
  <2> SUFFICES ASSUME SinkInv, NEW i \in Ids, NEW p \in Sinks(i)
               PROVE  \/ db[i] # None /\ db[i].status = "Running" /\ db[i].pid = p
                      \/ \E t \in Tasks : At(t, "save") /\ req[t].id = i /\ req[t].pid = p
    BY KnownIsUnique DEF OneSinkPerIndexer
  <2>1. Known(i, p)
    BY DEF SinkInv
  <2> QED BY <1>1, <2>1 DEF Known, Knower, Found
<1> QED BY <1>2, SinkInductive, PTL

-----------------------------------------------------------------------------
(* Stopped rows.  A stop that is about to write Stopped knows that the     *)
(* process it stopped is the one in the row.                               *)

MarksItsRow ==
  \A r \in Requests :
    At(r, "mark") /\ req[r].to = "Stopped" => db[req[r].id].pid = req[r].pid

DownInv == StopInv /\ MarksItsRow /\ StoppedIsDown

\* The pid in a Stopped row is a pid.
LEMMA StoppedPid ==
  ASSUME IndInv, NEW i \in Ids, db[i] # None, db[i].status = "Stopped" PROVE db[i].pid \in Pids
<1>1. db[i] \in Row /\ db[i].pid # None
  BY DEF IndInv, TypeOK, PidRecorded
<1> QED BY <1>1 DEF Row

\* With one request at a time, nobody writes the row between the stop of its process
\* and the write of its status.
LEMMA MarksItsRowStep ==
  ASSUME OneAtATime, MarksItsRow, SerialInv, IndInv, TypeInv, [Next]_vars
  PROVE  MarksItsRow'
<1> SUFFICES ASSUME NEW r \in Requests, req'[r].pc = "mark", req'[r].to = "Stopped"
             PROVE  db'[req'[r].id].pid = req'[r].pid
  BY DEF MarksItsRow, At
<1>1. req \in [Tasks -> Task] /\ r \in Tasks /\ Knows(r)
  BY DEF TypeInv, TypeOK, Tasks, SerialInv
<1>2. CASE req'[r] = req[r]
  <2>1. svc = Phase(r) /\ req[r].id \in Ids
    BY <1>1, <1>2 DEF SerialInv, Alone, TypeInv, TaskComplete, At
  <2>2. db'[req[r].id].pid = db[req[r].id].pid
    <3>1. ASSUME NEW t \in Tasks, Writes(t, req[r].id) PROVE t = r
      BY <1>1, <2>1, <3>1, OthersIdle DEF SerialInv, Writes, At
    <3>2. db[req[r].id] \in Row
      BY <1>1, <1>2, <2>1 DEF Knows, Found, At, TypeInv, TypeOK
    <3>3. CASE Writes(r, req[r].id)
      BY <1>2, <3>2, <3>3 DEF Writes, At, Row
    <3> QED BY <2>1, <3>1, <3>3, RowWriters DEF TypeInv
  <2> QED BY <1>2, <2>2 DEF MarksItsRow, At
<1>3. CASE FailGet(r)
  BY <1>1, <1>3 DEF FailGet, Intend, Finish, Begin, Doing, Task
<1>4. CASE StopProbe(r) \/ Kill(r)
  BY <1>1, <1>4 DEF StopProbe, Kill, Intend, Goto, Task, Knows, At
<1> QED BY <1>2, <1>3, <1>4, Deciders

\* Whatever becomes Stopped is down, and nobody gets the pid of what is Stopped.
LEMMA StoppedStep ==
  ASSUME NoReuse, DownInv, SerialInv, IndInv, TypeInv, [Next]_vars
  PROVE  StoppedIsDown'
<1> SUFFICES ASSUME NEW i \in Ids, db'[i] # None, db'[i].status = "Stopped"
             PROVE  proc'[db'[i].pid].st # "up"
  BY DEF StoppedIsDown
<1>1. ASSUME db[i] # None, db'[i].pid = db[i].pid, db[i].pid \in Pids,
             proc[db[i].pid].st # "up"
      PROVE  proc'[db'[i].pid].st # "up"
  <2>1. ~Assignable(db[i].pid)
    BY <1>1, FreshPid
  <2> QED BY <1>1, <2>1, ComesUp
<1>2. CASE db'[i] = db[i]
  BY <1>1, <1>2, StoppedPid DEF DownInv, StoppedIsDown
<1>3. CASE db'[i] # db[i]
  <2>1. PICK t \in Tasks : Writes(t, i)
    BY <1>3, RowWriters DEF TypeInv
  <2>2. CASE At(t, "mark") /\ t \in Requests /\ db'[i] = [db[i] EXCEPT !.status = req[t].to]
    <3>1. db[i] \in Row /\ db[i] # None
      BY <2>1, <2>2 DEF SerialInv, Knows, Found, Writes, At, TypeInv, TypeOK
    <3>2. db'[i].pid = db[i].pid /\ req[t].to = "Stopped"
      BY <2>2, <3>1 DEF Row
    <3>3. db[i].pid \in Pids /\ proc[db[i].pid].st # "up"
      BY <2>1, <2>2, <3>2 DEF DownInv, StopInv, MarksItsRow, Writes
    <3> QED BY <1>1, <3>1, <3>2, <3>3
  <2> QED BY <2>1, <2>2 DEF Writes, NewRow
<1> QED BY <1>2, <1>3

\* With one request at a time, every step leaves what is Stopped, or about to be, down.
LEMMA DownInductive ==
  ASSUME OneAtATime, NoReuse, "probe" \notin Faults PROVE Spec => []DownInv
<1>1. Init => DownInv
  BY DEF Init, DownInv, StopInv, MarksItsRow, StoppedIsDown, At, Idle, Doing, Tasks
<1>2. DownInv /\ SerialInv /\ IndInv /\ TypeInv /\ [Next]_vars => DownInv'
  <2> SUFFICES ASSUME DownInv, SerialInv, IndInv, TypeInv, [Next]_vars PROVE DownInv'
    OBVIOUS
  <2>1. StopInv'
    BY StopStep DEF DownInv
  <2>2. MarksItsRow'
    BY MarksItsRowStep DEF DownInv
  <2>3. StoppedIsDown'
    BY StoppedStep
  <2> QED BY <2>1, <2>2, <2>3 DEF DownInv
<1> QED BY <1>1, <1>2, SerialInductive, PTL DEF Spec

\* With one request at a time, unless ps or grep cannot run or a named pid is reused,
\* no running sink is behind a Stopped row, whatever else fails, disconnects, crashes
\* or restarts.
THEOREM StoppedStaysDown ==
  ASSUME OneAtATime, NoReuse, "probe" \notin Faults PROVE Spec => []StoppedIsDown
<1>1. DownInv => StoppedIsDown
  BY DEF DownInv
<1> QED BY <1>1, DownInductive, PTL
=============================================================================
