------------------------ MODULE IndexerSerialProofs -------------------------
(***************************************************************************)
(* What holds when requests come one at a time: what a handler read is     *)
(* still true when it writes, so that the table follows the strict state   *)
(* machine of the handlers, whatever fails and restarts in between.        *)
(***************************************************************************)
EXTENDS IndexerRefinement

OneAtATime == \A r, s \in Requests : r = s

-----------------------------------------------------------------------------
(* The boot and the requests have a phase of the service each, so at most  *)
(* one task is not idle, and what it read of its row is still there.       *)

Phase(t) == IF t = Main THEN "boot" ELSE "up"

Alone == \A t \in Tasks : ~At(t, "idle") => svc = Phase(t)

Startable == {"Created", "Stopped", "FailedRunning"}

Found(i, statuses) == db[i] # None /\ db[i].status \in statuses

Knows(t) ==
  LET i == req[t].id IN
  /\ req[t].pc \in {"fetch", "spawn", "save"} => Found(i, Startable \cup {"Running"})
  /\ req[t].pc \in {"check", "alive", "kill"} => Found(i, {"Running"}) /\ db[i].pid = req[t].pid
  /\ At(t, "mark") => Found(i, {"Running"})
  /\ At(t, "del") => Found(i, {"Stopped"})

SerialInv == Alone /\ \A t \in Tasks : Knows(t)

\* The task whose phase it is leaves all others idle.
LEMMA OthersIdle ==
  ASSUME OneAtATime, Alone, NEW t \in Tasks, svc = Phase(t), NEW u \in Tasks, u # t
  PROVE  At(u, "idle")
BY ConstantsOK DEF OneAtATime, Alone, Phase, Tasks

\* Whatever the task whose phase it is does, the others know nothing that could be
\* wrong afterwards.
LEMMA SerialMove ==
  ASSUME OneAtATime, SerialInv, NEW t \in Tasks, svc = Phase(t), UNCHANGED svc,
         NEW op, NEW pc, NEW i, NEW p, NEW s, Becomes(t, op, pc, i, p, s), Knows(t)'
  PROVE  SerialInv'
<1>1. \A u \in Tasks : u # t => req'[u].pc = "idle"
  BY OthersIdle DEF SerialInv, Becomes, At
<1>2. \A u \in Tasks : u # t => Knows(u)'
  BY <1>1 DEF Knows, At
<1>3. Alone'
  BY <1>1 DEF Alone, Phase, At
<1> QED BY <1>2, <1>3 DEF SerialInv

\* At first nothing runs.
LEMMA SerialInit == Init => SerialInv
BY DEF Init, SerialInv, Alone, Knows, At, Idle, Doing

\* With one request at a time, every step leaves a task with what it knows.
LEMMA SerialStep == OneAtATime /\ SerialInv /\ IndInv /\ TypeInv /\ [Next]_vars => SerialInv'
<1> SUFFICES ASSUME OneAtATime, SerialInv, IndInv, TypeInv, [Next]_vars PROVE SerialInv'
  OBVIOUS
<1> USE DEF At
<1>p. /\ Calls \subseteq Pcs /\ "idle" \in Pcs /\ "ok" \in Pcs /\ "err" \in Pcs
      /\ {"create", "start", "stop", "delete"} \subseteq Ops
  BY DEF Pcs, Ops
<1>t. Requests \subseteq Tasks /\ Main \in Tasks /\ \A r \in Requests : Phase(r) = "up"
  BY ConstantsOK DEF Tasks, Phase
<1>y. TypeOK /\ req \in [Tasks -> Task] /\ minted \subseteq Ids /\ todo \subseteq Ids
  BY DEF TypeInv, TypeOK
<1>a. \A t \in Tasks : req[t].pc # "idle" => svc = Phase(t)
  BY DEF SerialInv, Alone
<1>k. \A t \in Tasks : Knows(t) /\ TaskOK(t) /\ req[t].pid \in Pids \cup {None}
  BY <1>y DEF SerialInv, IndInv, Task
<1>w. \A i \in Ids : db[i] # None => db[i] \in Row /\ db[i].pid \in Pids \cup {None}
                                     /\ db[i].status \in Statuses
  BY <1>y DEF TypeOK, Row
<1>1. ASSUME NEW r \in Requests, Create(r) PROVE SerialInv'
  <2> PICK i \in Ids \ minted : Begin(r, "create", "put", i)
    BY <1>1 DEF Create
  <2>1. Becomes(r, "create", "put", i, None, None)
    BY <1>p, <1>t, <1>y, BeginMoves DEF Calls
  <2> QED BY <1>1, <1>t, <2>1, SerialMove DEF Create, Becomes, Knows
<1>2. ASSUME NEW r \in Requests, Put(r) PROVE SerialInv'
  <2>1. \E pc \in {"commit", "err"} : \E i, p, s : Becomes(r, req[r].op, pc, i, p, s)
    BY <1>2, <1>p, <1>t, <1>y, GotoMoves, FinishMoves DEF Put, Calls
  <2> QED BY <1>2, <1>t, <1>a, <2>1, SerialMove DEF Put, Becomes, Knows
<1>3. ASSUME NEW r \in Requests, Commit(r) PROVE SerialInv'
  <2>1. \E pc \in {"get", "err"} : \E i, p, s : Becomes(r, req[r].op, pc, i, p, s)
    BY <1>3, <1>p, <1>t, <1>y, GotoMoves, FinishMoves DEF Commit, Calls
  <2> QED BY <1>3, <1>t, <1>a, <2>1, SerialMove DEF Commit, Becomes, Knows
<1>4. ASSUME NEW r \in Requests, Query(r) PROVE SerialInv'
  <2>1. \E pc \in {"ok", "err", "failget"} : \E i, p, s : Becomes(r, req[r].op, pc, i, p, s)
    BY <1>4, <1>p, <1>t, <1>y, GotoMoves, FinishMoves DEF Query, Calls
  <2> QED BY <1>4, <1>t, <1>a, <2>1, SerialMove DEF Query, Becomes, Knows
<1>5. ASSUME NEW r \in Requests, FailGet(r) PROVE SerialInv'
  <2>1. CASE Finish(r, "err")
    <3>1. Becomes(r, req[r].op, "err", req[r].id, None, None)
      BY <1>t, <1>y, <2>1, FinishMoves
    <3> QED BY <1>5, <1>t, <1>a, <3>1, SerialMove DEF FailGet, Becomes, Knows
  <2>2. CASE Intend(r, "FailedRunning") /\ Found(req[r].id, {"Running"})
    <3>1. Becomes(r, req[r].op, "mark", req[r].id, req[r].pid, "FailedRunning")
      BY <1>t, <1>y, <2>2, IntendMoves DEF Statuses
    <3> QED BY <1>5, <1>t, <1>a, <2>2, <3>1, SerialMove DEF FailGet, Becomes, Knows, Found
  <2> QED BY <1>5, <2>1, <2>2 DEF FailGet, Found
<1>6. ASSUME NEW r \in Requests, NEW i \in Ids, Start(r, i) PROVE SerialInv'
  <2>1. Becomes(r, "start", "get", i, None, None)
    BY <1>6, <1>p, <1>t, <1>y, BeginMoves DEF Start, Calls
  <2> QED BY <1>6, <1>t, <2>1, SerialMove DEF Start, Becomes, Knows
<1>7. ASSUME NEW t \in Tasks, Get(t) PROVE SerialInv'
  <2> DEFINE i == req[t].id
  <2>1. CASE Finish(t, "err")
    <3>1. Becomes(t, req[t].op, "err", i, None, None)
      BY <1>y, <2>1, FinishMoves
    <3> QED BY <1>7, <1>a, <3>1, SerialMove DEF Get, Becomes, Knows
  <2>2. CASE Goto(t, "fetch") /\ Found(i, Startable)
    <3>1. Becomes(t, req[t].op, "fetch", i, req[t].pid, req[t].to)
      BY <1>p, <1>y, <2>2, GotoMoves DEF Calls
    <3> QED BY <1>7, <1>a, <2>2, <3>1, SerialMove DEF Get, Becomes, Knows, Found
  <2>3. CASE Read(t, "check", db[i].pid) /\ Found(i, {"Running"})
    <3>1. db[i].pid \in Pids \cup {None}
      BY <1>7, <1>w, <1>k, <1>y, <2>3 DEF Get, TaskOK, Found
    <3>2. Becomes(t, req[t].op, "check", i, db[i].pid, req[t].to)
      BY <1>p, <1>y, <2>3, <3>1, ReadMoves DEF Calls
    <3> QED BY <1>7, <1>a, <2>3, <3>2, SerialMove DEF Get, Becomes, Knows, Found
  <2> QED BY <1>7, <2>1, <2>2, <2>3 DEF Get, Found, Startable
<1>8. ASSUME NEW t \in Tasks, Check(t) PROVE SerialInv'
  <2>1. \E pc \in {"fetch", "query", "ok", "err"} : \E p, s : Becomes(t, req[t].op, pc, req[t].id, p, s)
    BY <1>8, <1>p, <1>y, ReadMoves, StartedMoves, FinishMoves DEF Check, Calls
  <2> QED BY <1>8, <1>a, <1>k, <2>1, SerialMove DEF Check, Becomes, Knows, Found
<1>9. ASSUME NEW t \in Tasks, Fetch(t) PROVE SerialInv'
  <2>1. \E pc \in {"spawn", "err"} : \E p, s : Becomes(t, req[t].op, pc, req[t].id, p, s)
    BY <1>9, <1>p, <1>y, GotoMoves, FinishMoves DEF Fetch, Calls
  <2> QED BY <1>9, <1>a, <1>k, <2>1, SerialMove DEF Fetch, Becomes, Knows, Found
<1>10. ASSUME NEW t \in Tasks, Spawn(t) PROVE SerialInv'
  <2>1. \E pc \in {"save", "err"} : \E p, s : Becomes(t, req[t].op, pc, req[t].id, p, s)
    BY <1>10, <1>p, <1>y, ReadMoves, FinishMoves DEF Spawn, Calls
  <2> QED BY <1>10, <1>a, <1>k, <2>1, SerialMove DEF Spawn, Becomes, Knows, Found
<1>11. ASSUME NEW t \in Tasks, Save(t) PROVE SerialInv'
  <2>1. \E pc \in {"query", "ok", "err"} : \E p, s : Becomes(t, req[t].op, pc, req[t].id, p, s)
    BY <1>11, <1>y, StartedMoves, FinishMoves DEF Save
  <2> QED BY <1>11, <1>a, <2>1, SerialMove DEF Save, Becomes, Knows
<1>12. ASSUME NEW r \in Requests, NEW i \in Ids, Stop(r, i) PROVE SerialInv'
  <2>1. Becomes(r, "stop", "stopget", i, None, None)
    BY <1>12, <1>p, <1>t, <1>y, BeginMoves DEF Stop, Calls
  <2> QED BY <1>12, <1>t, <2>1, SerialMove DEF Stop, Becomes, Knows
<1>13. ASSUME NEW r \in Requests, StopGet(r) PROVE SerialInv'
  <2> DEFINE i == req[r].id
  <2>1. CASE Finish(r, "err")
    <3>1. Becomes(r, req[r].op, "err", i, None, None)
      BY <1>t, <1>y, <2>1, FinishMoves
    <3> QED BY <1>13, <1>t, <1>a, <3>1, SerialMove DEF StopGet, Becomes, Knows
  <2>2. CASE Read(r, "alive", db[i].pid) /\ Found(i, {"Running"})
    <3>1. db[i].pid \in Pids \cup {None}
      BY <1>13, <1>t, <1>w, <1>k, <1>y, <2>2 DEF StopGet, TaskOK, Found
    <3>2. Becomes(r, req[r].op, "alive", i, db[i].pid, req[r].to)
      BY <1>p, <1>t, <1>y, <2>2, <3>1, ReadMoves DEF Calls
    <3> QED BY <1>13, <1>t, <1>a, <2>2, <3>2, SerialMove DEF StopGet, Becomes, Knows, Found
  <2> QED BY <1>13, <2>1, <2>2 DEF StopGet, Found
<1>14. ASSUME NEW r \in Requests, StopProbe(r) PROVE SerialInv'
  <2>1. \E pc \in {"kill", "mark"} : \E s : Becomes(r, req[r].op, pc, req[r].id, req[r].pid, s)
    BY <1>14, <1>p, <1>t, <1>y, GotoMoves, IntendMoves DEF StopProbe, Calls, Statuses
  <2> QED BY <1>14, <1>t, <1>a, <1>k, <2>1, SerialMove DEF StopProbe, Becomes, Knows, Found
<1>15. ASSUME NEW r \in Requests, Kill(r) PROVE SerialInv'
  <2>1. \E s : Becomes(r, req[r].op, "mark", req[r].id, req[r].pid, s)
    BY <1>15, <1>t, <1>y, IntendMoves DEF Kill, Statuses
  <2> QED BY <1>15, <1>t, <1>a, <1>k, <2>1, SerialMove DEF Kill, Becomes, Knows, Found
<1>16. ASSUME NEW r \in Requests, Mark(r) PROVE SerialInv'
  <2>1. \E pc \in {"ok", "err"} : Becomes(r, req[r].op, pc, req[r].id, None, None)
    BY <1>16, <1>t, <1>y, FinishMoves DEF Mark
  <2> QED BY <1>16, <1>t, <1>a, <2>1, SerialMove DEF Mark, Becomes, Knows
<1>17. ASSUME NEW r \in Requests, NEW i \in Ids, Delete(r, i) PROVE SerialInv'
  <2>1. Becomes(r, "delete", "delget", i, None, None)
    BY <1>17, <1>p, <1>t, <1>y, BeginMoves DEF Delete, Calls
  <2> QED BY <1>17, <1>t, <2>1, SerialMove DEF Delete, Becomes, Knows
<1>18. ASSUME NEW r \in Requests, DeleteGet(r) PROVE SerialInv'
  <2>1. CASE Finish(r, "err")
    <3>1. Becomes(r, req[r].op, "err", req[r].id, None, None)
      BY <1>t, <1>y, <2>1, FinishMoves
    <3> QED BY <1>18, <1>t, <1>a, <3>1, SerialMove DEF DeleteGet, Becomes, Knows
  <2>2. CASE Goto(r, "del") /\ Found(req[r].id, {"Stopped"})
    <3>1. Becomes(r, req[r].op, "del", req[r].id, req[r].pid, req[r].to)
      BY <1>p, <1>t, <1>y, <2>2, GotoMoves DEF Calls
    <3> QED BY <1>18, <1>t, <1>a, <2>2, <3>1, SerialMove DEF DeleteGet, Becomes, Knows, Found
  <2> QED BY <1>18, <2>1, <2>2 DEF DeleteGet, Found
<1>19. ASSUME NEW r \in Requests, DeleteRow(r) PROVE SerialInv'
  <2>1. \E pc \in {"ok", "err"} : Becomes(r, req[r].op, pc, req[r].id, None, None)
    BY <1>19, <1>t, <1>y, FinishMoves DEF DeleteRow
  <2> QED BY <1>19, <1>t, <1>a, <2>1, SerialMove DEF DeleteRow, Becomes, Knows
<1>20. ASSUME BootList \/ BootDone PROVE SerialInv'
  <2>1. \A t \in Tasks : req[t].pc = "idle"
    BY <1>20, <1>a, ConstantsOK DEF BootList, BootDone, Phase
  <2> QED BY <1>20, <2>1 DEF BootList, BootDone, SerialInv, Alone, Knows
<1>21. ASSUME BootNext PROVE SerialInv'
  <2> PICK i \in todo : Begin(Main, "start", "get", i)
    BY <1>21 DEF BootNext
  <2>1. Becomes(Main, "start", "get", i, None, None)
    BY <1>p, <1>t, <1>y, BeginMoves DEF Calls
  <2> QED BY <1>21, <1>t, <2>1, SerialMove DEF BootNext, Becomes, Knows, Phase
<1>22. ASSUME NEW t \in Tasks, Reply(t) PROVE SerialInv'
  <2>1. Becomes(t, None, "idle", None, None, None)
    BY <1>22, <1>y, DropMoves DEF Reply
  <2> QED BY <1>22, <1>a, <2>1, SerialMove DEF Reply, Becomes, Knows
<1>23. ASSUME NEW r \in Requests, Cancel(r) PROVE SerialInv'
  <2>1. Becomes(r, None, "idle", None, None, None)
    BY <1>23, <1>t, <1>y, DropMoves DEF Cancel
  <2> QED BY <1>23, <1>t, <1>a, <2>1, SerialMove DEF Cancel, Becomes, Knows
<1>24. ASSUME NEW p \in Pids, System(p) PROVE SerialInv'
  BY <1>24 DEF System, SinkExit, TermExit, Reap, ForeignStart, ForeignExit,
               SerialInv, Alone, Knows, Found
<1>25. ASSUME Crash \/ Redeploy PROVE SerialInv'
  BY <1>25 DEF Crash, Redeploy, SerialInv, Alone, Knows, Idle, Doing
<1>26. CASE UNCHANGED vars
  BY <1>26 DEF vars, SerialInv, Alone, Knows, Found
<1> QED BY <1>1, <1>2, <1>3, <1>4, <1>5, <1>6, <1>7, <1>8, <1>9, <1>10, <1>11,
       <1>12, <1>13, <1>14, <1>15, <1>16, <1>17, <1>18, <1>19, <1>20, <1>21,
       <1>22, <1>23, <1>24, <1>25, <1>26, <1>t
     DEF Next, Client, Handle, StartStep, Boot

\* With one request at a time, a handler's knowledge of its row holds in every run.
LEMMA SerialInductive == ASSUME OneAtATime PROVE Spec => [](SerialInv /\ IndInv /\ TypeInv)
BY SerialInit, SerialStep, Inductive, PTL DEF Spec

-----------------------------------------------------------------------------
(* The steps of the strict registry.  LifeSteps already gives the shape of *)
(* every change; what the writer knows of its row narrows where it starts. *)

\* The four writes of the table, each to the row of the task that makes it.
Writes(t, i) ==
  /\ req[t].id = i
  /\ \/ At(t, "commit") /\ db'[i] = NewRow
     \/ At(t, "save") /\ db'[i] = [status |-> "Running", pid |-> req[t].pid]
     \/ At(t, "mark") /\ t \in Requests /\ db'[i] = [db[i] EXCEPT !.status = req[t].to]
     \/ At(t, "del") /\ db'[i] = None

\* A row only changes by one of them.
LEMMA RowWriters ==
  ASSUME TypeOK, [Next]_vars, NEW i \in Ids, db'[i] # db[i]
  PROVE  \E t \in Tasks : Writes(t, i)
<1>1. db \in [Ids -> Row \cup {None}] /\ Requests \subseteq Tasks
  BY DEF TypeOK, Tasks
<1>2. ASSUME NEW r \in Requests, Commit(r) PROVE Writes(r, i)
  BY <1>1, <1>2 DEF Commit, Writes
<1>3. ASSUME NEW t \in Tasks, Save(t) PROVE Writes(t, i)
  BY <1>1, <1>3 DEF Save, Update, Writes
<1>4. ASSUME NEW r \in Requests, Mark(r) PROVE Writes(r, i)
  BY <1>1, <1>4 DEF Mark, Update, Writes
<1>5. ASSUME NEW r \in Requests, DeleteRow(r) PROVE Writes(r, i)
  BY <1>1, <1>5 DEF DeleteRow, Writes
<1>6. \/ \E r \in Requests : Commit(r) \/ Mark(r) \/ DeleteRow(r)
      \/ \E t \in Tasks : Save(t)
  BY DEF Next, vars, Client, Handle, StartStep, Boot, System, Tasks,
         Create, Put, Query, FailGet, Start, Get, Check, Fetch, Spawn,
         Stop, StopGet, StopProbe, Kill, Delete, DeleteGet, BootList, BootNext, BootDone,
         Reply, Cancel, SinkExit, TermExit, Reap, ForeignStart, ForeignExit, Crash, Redeploy
<1> QED BY <1>1, <1>2, <1>3, <1>4, <1>5, <1>6

StrictLifeStep ==
  \/ \A i \in Ids : Same(i)
  \/ \E i \in Ids : Shift(i, {"Absent"}, "Created")
  \/ \E S \in SUBSET Ids : Giveup(S)
  \/ \E i \in Ids : Shift(i, Startable, "Running")
  \/ \E i \in Ids, s \in Registry!Settled : Shift(i, {"Running"}, s)
  \/ \E i \in Ids : Shift(i, {"Stopped"}, "Gone")

\* The status a row leaves when it gets a new one, or goes.
LEMMA StrictWrite ==
  ASSUME SerialInv, IndInv, TypeInv, [Next]_vars, NEW i \in Ids, db[i] # None, db'[i] # db[i]
  PROVE  \/ Found(i, Startable \cup {"Running"}) /\ db'[i] # None /\ db'[i].status = "Running"
         \/ /\ Found(i, {"Running"})
            /\ db'[i] # None /\ db'[i].status \in Registry!Settled
         \/ Found(i, {"Stopped"}) /\ db'[i] = None
<1>1. PICK t \in Tasks : Writes(t, i)
  BY RowWriters DEF TypeInv
<1>2. Knows(t) /\ TaskOK(t) /\ db[i] \in Row /\ req[t].pid \in Pids \cup {None}
  BY DEF SerialInv, IndInv, TypeInv, TypeOK, Task
<1>3. CASE At(t, "commit")
  BY <1>1, <1>2, <1>3 DEF Writes, TaskOK, At
<1>4. CASE At(t, "save") /\ db'[i] = [status |-> "Running", pid |-> req[t].pid]
  <2>1. db'[i] \in Row /\ db'[i].status = "Running"
    BY <1>2, <1>4 DEF Row, Statuses
  <2> QED BY <1>1, <1>2, <1>4, <2>1, ConstantsOK DEF Writes, Knows, At
<1>5. CASE At(t, "mark") /\ db'[i] = [db[i] EXCEPT !.status = req[t].to]
  <2>1. db'[i] \in Row /\ db'[i].status \in Registry!Settled
    BY <1>2, <1>5 DEF TaskOK, Registry!Settled, Row, Statuses
  <2> QED BY <1>1, <1>2, <1>5, <2>1, ConstantsOK DEF Writes, Knows, At
<1>6. CASE At(t, "del") /\ db'[i] = None
  BY <1>1, <1>2, <1>6 DEF Writes, Knows, At
<1> QED BY <1>1, <1>3, <1>4, <1>5, <1>6 DEF Writes

\* With one request at a time, every step of the service is one of the strict
\* registry or leaves every life as it is.
LEMMA StrictSteps == SerialInv /\ IndInv /\ TypeInv /\ [Next]_vars => StrictLifeStep
<1> SUFFICES ASSUME SerialInv, IndInv, TypeInv, [Next]_vars PROVE StrictLifeStep
  OBVIOUS
<1> DEFINE Later == Registry!Settled \cup {"Running"}
<1>r. \A i \in Ids : /\ db[i] # None => Life(i) = db[i].status
                     /\ db'[i] # None => Life(i)' = db'[i].status /\ db'[i].status \in Statuses
  <2>1. IndInv'
    BY IndStep, TypeStep
  <2> QED BY <2>1, LifeOfRow DEF IndInv, TypeOK, Row, TaskOK, Pending, Life, Tasks
<1>1. ASSUME NEW i \in Ids, NEW from, from \subseteq Registry!Listed, NEW to, Shift(i, from, to)
      PROVE  /\ db[i] # None /\ Life(i) = db[i].status
             /\ to \in Later => db'[i] # None /\ db'[i].status = to
             /\ to = "Gone" => db'[i] = None
             /\ to # Life(i) => db'[i] # db[i]
  <2>1. Life(i) \in Registry!Listed /\ Life(i)' = to
    BY <1>1 DEF Shift
  <2>2. db[i] # None
    BY <2>1 DEF Life, Registry!Listed, Registry!Settled
  <2>3. to \in Later => db'[i] # None
    BY <2>1 DEF Life, Registry!Settled
  <2>4. to = "Gone" => db'[i] = None
    BY <1>r, <2>1 DEF Statuses
  <2> QED BY <1>r, <2>1, <2>2, <2>3, <2>4
<1>2. ASSUME NEW i \in Ids, NEW from, NEW to, Shift(i, from, to), to = Life(i)
      PROVE  \A j \in Ids : Same(j)
  BY <1>2 DEF Shift, Same
<1>3. ASSUME NEW i \in Ids, Shift(i, Registry!Listed, "Running") PROVE StrictLifeStep
  <2>1. CASE Life(i) = "Running"
    BY <1>2, <1>3, <2>1 DEF StrictLifeStep
  <2>2. CASE Life(i) # "Running"
    <3>1. Life(i) \in Startable
      BY <1>1, <1>3, <2>2, StrictWrite DEF Found, Registry!Settled
    <3>2. Shift(i, Startable, "Running")
      BY <1>3, <3>1 DEF Shift
    <3> QED BY <3>2 DEF StrictLifeStep
  <2> QED BY <2>1, <2>2
<1>4. ASSUME NEW i \in Ids, NEW s \in Registry!Settled,
             Shift(i, {"Running"} \cup Registry!Settled, s)
      PROVE  StrictLifeStep
  <2>1. CASE Life(i) = s
    BY <1>2, <1>4, <2>1 DEF StrictLifeStep
  <2>2. CASE Life(i) # s
    <3>1. Life(i) = "Running"
      BY <1>1, <1>4, <2>2, StrictWrite DEF Found, Registry!Settled, Registry!Listed
    <3>2. Shift(i, {"Running"}, s)
      BY <1>4, <3>1 DEF Shift
    <3> QED BY <3>2 DEF StrictLifeStep
  <2> QED BY <2>1, <2>2
<1>5. ASSUME NEW i \in Ids, Shift(i, {"Running"} \cup Registry!Settled, "Gone")
      PROVE  StrictLifeStep
  <2>1. Life(i) = "Stopped"
    BY <1>1, <1>5, StrictWrite DEF Found, Registry!Settled, Registry!Listed
  <2>2. Shift(i, {"Stopped"}, "Gone")
    BY <1>5, <2>1 DEF Shift
  <2> QED BY <2>2 DEF StrictLifeStep
<1> QED BY <1>3, <1>4, <1>5, LifeSteps DEF LifeStep, StrictLifeStep

\* A change of Life that StrictLifeStep allows is a step of the strict registry.
LEMMA StrictLifeStepImplements == StrictLifeStep => [Registry!StrictNext]_life
<1> SUFFICES ASSUME StrictLifeStep PROVE [Registry!StrictNext]_life
  OBVIOUS
<1>1. CASE \A i \in Ids : Same(i)
  BY <1>1 DEF Same, life
<1>2. ASSUME NEW i \in Ids, Shift(i, {"Absent"}, "Created") PROVE Registry!StrictNext
  BY <1>2, ShiftMoves DEF Registry!StrictNext, Registry!Register
<1>3. ASSUME NEW S \in SUBSET Ids, Giveup(S) PROVE Registry!StrictNext
  <2>1. Registry!Abandon(S)
    BY <1>3 DEF Giveup, Registry!Abandon, life
  <2> QED BY <2>1 DEF Registry!StrictNext
<1>4. ASSUME NEW i \in Ids, Shift(i, Startable, "Running") PROVE Registry!StrictNext
  BY <1>4, ShiftMoves DEF Registry!StrictNext, Startable
<1>5. ASSUME NEW i \in Ids, NEW s \in Registry!Settled, Shift(i, {"Running"}, s)
      PROVE  Registry!StrictNext
  BY <1>5, ShiftMoves DEF Registry!StrictNext
<1>6. ASSUME NEW i \in Ids, Shift(i, {"Stopped"}, "Gone") PROVE Registry!StrictNext
  BY <1>6, ShiftMoves DEF Registry!StrictNext
<1> QED BY <1>1, <1>2, <1>3, <1>4, <1>5, <1>6 DEF StrictLifeStep

\* With one request at a time the service implements the strict state machine of its
\* handlers, whatever fails, disconnects or restarts in between.
THEOREM StrictRefinement == ASSUME OneAtATime PROVE Spec => KeepsStrictRegistry
<1>1. Init => Registry!Init
  BY DEF Init, Registry!Init, Life
<1>2. SerialInv /\ IndInv /\ TypeInv /\ [Next]_vars => [Registry!StrictNext]_life
  BY StrictSteps, StrictLifeStepImplements
<1> QED BY <1>1, <1>2, SerialInductive, PTL DEF Spec, KeepsStrictRegistry, Registry!StrictSpec, life
=============================================================================
