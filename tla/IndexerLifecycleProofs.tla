----------------------- MODULE IndexerLifecycleProofs -----------------------
(***************************************************************************)
(* Proofs about IndexerLifecycle, for any number of indexers, processes    *)
(* and concurrent requests and for any choice of Faults.                   *)
(***************************************************************************)
EXTENDS IndexerLifecycle, TLAPS

Ops == {"create", "start", "stop", "delete", None}
Pcs == Calls \cup {"idle", "ok", "err"}

-----------------------------------------------------------------------------
(* What one step does to the tasks: one task becomes another, the others   *)
(* stay as they are.                                                       *)

Becomes(t, op, pc, i, p, s) ==
  /\ req' \in [Tasks -> Task]
  /\ req'[t].op = op /\ req'[t].pc = pc /\ req'[t].id = i /\ req'[t].pid = p /\ req'[t].to = s
  /\ \A u \in Tasks : u # t => req'[u] = req[u]

\* The next call of a task.
LEMMA GotoMoves ==
  ASSUME req \in [Tasks -> Task], NEW t \in Tasks, NEW pc \in Pcs, Goto(t, pc)
  PROVE  Becomes(t, req[t].op, pc, req[t].id, req[t].pid, req[t].to)
BY DEF Goto, Becomes, Task, Pcs

\* The pid a task reads from a row, gets from a spawn, or forgets.
LEMMA ReadMoves ==
  ASSUME req \in [Tasks -> Task], NEW t \in Tasks,
         NEW pc \in Pcs, NEW p \in Pids \cup {None}, Read(t, pc, p)
  PROVE  Becomes(t, req[t].op, pc, req[t].id, p, req[t].to)
BY DEF Read, Becomes, Task, Pcs

\* The status a task decides to write.
LEMMA IntendMoves ==
  ASSUME req \in [Tasks -> Task], NEW t \in Tasks, NEW s \in Statuses, Intend(t, s)
  PROVE  Becomes(t, req[t].op, "mark", req[t].id, req[t].pid, s)
BY DEF Intend, Becomes, Task, Calls

\* The start of a task.
LEMMA BeginMoves ==
  ASSUME req \in [Tasks -> Task], NEW t \in Tasks,
         NEW op \in Ops, NEW pc \in Pcs, NEW i \in Ids \cup {None}, Begin(t, op, pc, i)
  PROVE  Becomes(t, op, pc, i, None, None)
BY DEF Begin, Doing, Becomes, Task, Ops, Pcs

\* The end of a task.
LEMMA FinishMoves ==
  ASSUME req \in [Tasks -> Task], NEW t \in Tasks, NEW o \in {"ok", "err"}, Finish(t, o)
  PROVE  Becomes(t, req[t].op, o, req[t].id, None, None)
BY BeginMoves DEF Finish, Task, Ops, Pcs

\* What follows a successful start.
LEMMA StartedMoves ==
  ASSUME req \in [Tasks -> Task], NEW t \in Tasks, Started(t)
  PROVE  \E pc \in {"query", "ok"} : Becomes(t, req[t].op, pc, req[t].id, None, None)
<1>1. req[t].id \in Ids \cup {None}
  BY DEF Task
<1>2. "create" \in Ops /\ "query" \in Pcs
  BY DEF Ops, Pcs, Calls
<1> QED BY <1>1, <1>2, BeginMoves, FinishMoves DEF Started

\* A task that is answered or dropped.
LEMMA DropMoves ==
  ASSUME req \in [Tasks -> Task], NEW t \in Tasks, Drop(t)
  PROVE  Becomes(t, None, "idle", None, None, None)
BY DEF Drop, Idle, Doing, Becomes, Task

-----------------------------------------------------------------------------
(* Type correctness.  TypeOK alone is not inductive: Put stores under the  *)
(* id of its task and Mark writes its status, so a task must have them.    *)

TaskComplete(t) ==
  /\ req[t].pc # "idle" => req[t].id \in Ids
  /\ req[t].pc = "mark" => req[t].to \in Statuses

TypeInv == TypeOK /\ \A t \in Tasks : TaskComplete(t)

\* The service starts in a state of the right type.
LEMMA TypeInit == Init => TypeInv
BY ConstantsOK DEF Init, TypeInv, TypeOK, TaskComplete, Free, Process, Idle, Doing, Task, Tasks

\* A move to a complete task keeps the tasks well-typed and complete.
LEMMA MoveComplete ==
  ASSUME TypeInv, NEW t \in Tasks, NEW op, NEW pc, NEW i, NEW p, NEW s,
         Becomes(t, op, pc, i, p, s),
         pc # "idle" => i \in Ids, pc = "mark" => s \in Statuses
  PROVE  req' \in [Tasks -> Task] /\ \A u \in Tasks : TaskComplete(u)'
BY DEF Becomes, TaskComplete, TypeInv

\* Every step, of a handler, of the boot or of the world, keeps the types.
LEMMA TypeStep == TypeInv /\ [Next]_vars => TypeInv'
<1> SUFFICES ASSUME TypeInv, [Next]_vars PROVE TypeInv'
  OBVIOUS
<1> DEFINE ReqOK == req \in [Tasks -> Task] /\ \A u \in Tasks : TaskComplete(u)
<1> USE DEF At
<1>p. /\ Calls \subseteq Pcs /\ "idle" \in Pcs /\ "ok" \in Pcs /\ "err" \in Pcs
      /\ {"create", "start", "stop", "delete"} \subseteq Ops
  BY DEF Pcs, Ops
<1>t. Requests \subseteq Tasks /\ Main \in Tasks
  BY DEF Tasks
<1>r. /\ req \in [Tasks -> Task]
      /\ \A t \in Tasks : /\ req[t].pid \in Pids \cup {None}
                          /\ req[t].pc # "idle" => req[t].id \in Ids
                          /\ req[t].pc = "mark" => req[t].to \in Statuses
  BY DEF Task, TypeInv, TypeOK, TaskComplete
<1>w. \A i \in Ids : db[i] # None => db[i] \in Row /\ db[i].pid \in Pids \cup {None}
                                     /\ db[i].status \in Statuses
  BY DEF Row, TypeInv, TypeOK
<1>1. ASSUME NEW r \in Requests, Create(r) PROVE TypeInv'
  <2>1. ReqOK'
    BY <1>1, <1>p, <1>t, <1>r, <1>w, MoveComplete, BeginMoves DEF Create, Calls
  <2> QED BY <1>1, <2>1, <1>r, <1>t, <1>w DEF Create, TypeInv, TypeOK
<1>2. ASSUME NEW r \in Requests, Put(r) PROVE TypeInv'
  <2>1. ReqOK'
    BY <1>2, <1>p, <1>t, <1>r, <1>w, MoveComplete, GotoMoves, FinishMoves DEF Put, Calls
  <2> QED BY <1>2, <2>1, <1>r, <1>t, <1>w DEF Put, TypeInv, TypeOK
<1>3. ASSUME NEW r \in Requests, Commit(r) PROVE TypeInv'
  <2>1. ReqOK'
    BY <1>3, <1>p, <1>t, <1>r, <1>w, MoveComplete, GotoMoves, FinishMoves DEF Commit, Calls, NewRow, Row, Statuses
  <2> QED BY <1>3, <2>1, <1>r, <1>t, <1>w DEF Commit, TypeInv, TypeOK, NewRow, Row, Statuses
<1>4. ASSUME NEW r \in Requests, Query(r) PROVE TypeInv'
  <2>1. ReqOK'
    BY <1>4, <1>p, <1>t, <1>r, <1>w, MoveComplete, GotoMoves, FinishMoves DEF Query, Calls
  <2> QED BY <1>4, <2>1, <1>r, <1>t, <1>w DEF Query, TypeInv, TypeOK
<1>5. ASSUME NEW r \in Requests, FailGet(r) PROVE TypeInv'
  <2>1. ReqOK'
    BY <1>5, <1>p, <1>t, <1>r, <1>w, MoveComplete, IntendMoves, FinishMoves DEF FailGet, Calls, Statuses
  <2> QED BY <1>5, <2>1, <1>r, <1>t, <1>w DEF FailGet, TypeInv, TypeOK, Statuses
<1>6. ASSUME NEW r \in Requests, NEW i \in Ids, Start(r, i) PROVE TypeInv'
  <2>1. ReqOK'
    BY <1>6, <1>p, <1>t, <1>r, <1>w, MoveComplete, BeginMoves DEF Start, Calls
  <2> QED BY <1>6, <2>1, <1>r, <1>t, <1>w DEF Start, TypeInv, TypeOK
<1>7. ASSUME NEW t \in Tasks, Get(t) PROVE TypeInv'
  <2>1. ReqOK'
    BY <1>7, <1>p, <1>t, <1>r, <1>w, MoveComplete, GotoMoves, ReadMoves, FinishMoves DEF Get, Calls
  <2> QED BY <1>7, <2>1, <1>r, <1>t, <1>w DEF Get, TypeInv, TypeOK
<1>8. ASSUME NEW t \in Tasks, Check(t) PROVE TypeInv'
  <2>1. ReqOK'
    BY <1>8, <1>p, <1>t, <1>r, <1>w, MoveComplete, ReadMoves, StartedMoves, FinishMoves DEF Check, Calls
  <2> QED BY <1>8, <2>1, <1>r, <1>t, <1>w DEF Check, TypeInv, TypeOK
<1>9. ASSUME NEW t \in Tasks, Fetch(t) PROVE TypeInv'
  <2>1. ReqOK'
    BY <1>9, <1>p, <1>t, <1>r, <1>w, MoveComplete, GotoMoves, FinishMoves DEF Fetch, Calls
  <2> QED BY <1>9, <2>1, <1>r, <1>t, <1>w DEF Fetch, TypeInv, TypeOK
<1>10. ASSUME NEW t \in Tasks, Spawn(t) PROVE TypeInv'
  <2>1. ReqOK'
    BY <1>10, <1>p, <1>t, <1>r, <1>w, MoveComplete, ReadMoves, FinishMoves DEF Spawn, Calls
  <2>2. proc \in [Pids -> Process] /\ proc' \in [Pids -> Process]
    <3>1. [owner |-> req[t].id, st |-> "up", kid |-> TRUE] \in Process
      BY <1>10, <1>r DEF Spawn, Process
    <3> QED BY <1>10, <3>1 DEF Spawn, TypeInv, TypeOK
  <2> QED BY <1>10, <2>1, <2>2 DEF Spawn, TypeInv, TypeOK
<1>11. ASSUME NEW t \in Tasks, Save(t) PROVE TypeInv'
  <2>1. ReqOK'
    BY <1>11, <1>p, <1>t, <1>r, <1>w, MoveComplete, StartedMoves, FinishMoves DEF Save, Calls, Row, Statuses, Update
  <2> QED BY <1>11, <2>1, <1>r, <1>t, <1>w DEF Save, TypeInv, TypeOK, Row, Statuses, Update
<1>12. ASSUME NEW r \in Requests, NEW i \in Ids, Stop(r, i) PROVE TypeInv'
  <2>1. ReqOK'
    BY <1>12, <1>p, <1>t, <1>r, <1>w, MoveComplete, BeginMoves DEF Stop, Calls
  <2> QED BY <1>12, <2>1, <1>r, <1>t, <1>w DEF Stop, TypeInv, TypeOK
<1>13. ASSUME NEW r \in Requests, StopGet(r) PROVE TypeInv'
  <2>1. ReqOK'
    BY <1>13, <1>p, <1>t, <1>r, <1>w, MoveComplete, ReadMoves, FinishMoves DEF StopGet, Calls
  <2> QED BY <1>13, <2>1, <1>r, <1>t, <1>w DEF StopGet, TypeInv, TypeOK
<1>14. ASSUME NEW r \in Requests, StopProbe(r) PROVE TypeInv'
  <2>1. ReqOK'
    BY <1>14, <1>p, <1>t, <1>r, <1>w, MoveComplete, GotoMoves, IntendMoves DEF StopProbe, Calls, Statuses
  <2> QED BY <1>14, <2>1, <1>r, <1>t, <1>w DEF StopProbe, TypeInv, TypeOK, Statuses
<1>15. ASSUME NEW r \in Requests, Kill(r) PROVE TypeInv'
  <2>1. ReqOK'
    BY <1>15, <1>p, <1>t, <1>r, <1>w, MoveComplete, IntendMoves DEF Kill, Calls, Statuses, Process
  <2> QED BY <1>15, <2>1, <1>r, <1>t, <1>w DEF Kill, TypeInv, TypeOK, Statuses, Process
<1>16. ASSUME NEW r \in Requests, Mark(r) PROVE TypeInv'
  <2>1. ReqOK'
    BY <1>16, <1>p, <1>t, <1>r, <1>w, MoveComplete, FinishMoves DEF Mark, Calls, Row, Update
  <2> QED BY <1>16, <2>1, <1>r, <1>t, <1>w DEF Mark, TypeInv, TypeOK, Row, Update
<1>17. ASSUME NEW r \in Requests, NEW i \in Ids, Delete(r, i) PROVE TypeInv'
  <2>1. ReqOK'
    BY <1>17, <1>p, <1>t, <1>r, <1>w, MoveComplete, BeginMoves DEF Delete, Calls
  <2> QED BY <1>17, <2>1, <1>r, <1>t, <1>w DEF Delete, TypeInv, TypeOK
<1>18. ASSUME NEW r \in Requests, DeleteGet(r) PROVE TypeInv'
  <2>1. ReqOK'
    BY <1>18, <1>p, <1>t, <1>r, <1>w, MoveComplete, GotoMoves, FinishMoves DEF DeleteGet, Calls
  <2> QED BY <1>18, <2>1, <1>r, <1>t, <1>w DEF DeleteGet, TypeInv, TypeOK
<1>19. ASSUME NEW r \in Requests, DeleteRow(r) PROVE TypeInv'
  <2>1. ReqOK'
    BY <1>19, <1>p, <1>t, <1>r, <1>w, MoveComplete, FinishMoves DEF DeleteRow, Calls
  <2> QED BY <1>19, <2>1, <1>r, <1>t, <1>w DEF DeleteRow, TypeInv, TypeOK
<1>20. ASSUME BootList PROVE TypeInv'
  BY <1>20, <1>r, ConstantsOK DEF BootList, RowsWith, TypeInv, TypeOK, TaskComplete
<1>21. ASSUME BootNext PROVE TypeInv'
  <2> PICK i \in todo : Begin(Main, "start", "get", i) /\ todo' = todo \ {i}
    BY <1>21 DEF BootNext
  <2>1. i \in Ids
    BY DEF TypeInv, TypeOK
  <2>2. ReqOK'
    BY <2>1, <1>p, <1>t, <1>r, MoveComplete, BeginMoves DEF Calls
  <2> QED BY <1>21, <2>2 DEF BootNext, TypeInv, TypeOK
<1>22. ASSUME BootDone PROVE TypeInv'
  BY <1>22, <1>r, ConstantsOK DEF BootDone, TypeInv, TypeOK, TaskComplete
<1>23. ASSUME NEW t \in Tasks, Reply(t) PROVE TypeInv'
  <2>1. ReqOK'
    BY <1>23, <1>p, <1>t, <1>r, <1>w, MoveComplete, DropMoves DEF Reply, Calls
  <2> QED BY <1>23, <2>1, <1>r, <1>t, <1>w DEF Reply, TypeInv, TypeOK
<1>24. ASSUME NEW r \in Requests, Cancel(r) PROVE TypeInv'
  <2>1. ReqOK'
    BY <1>24, <1>p, <1>t, <1>r, <1>w, MoveComplete, DropMoves DEF Cancel, Calls
  <2> QED BY <1>24, <2>1, <1>r, <1>t, <1>w DEF Cancel, TypeInv, TypeOK
<1>25. ASSUME NEW p \in Pids, SinkExit(p) PROVE TypeInv'
  BY <1>25, <1>r, ConstantsOK DEF SinkExit, TypeInv, TypeOK, TaskComplete, Ended, Process, Free
<1>26. ASSUME NEW p \in Pids, TermExit(p) PROVE TypeInv'
  BY <1>26, <1>r, ConstantsOK DEF TermExit, TypeInv, TypeOK, TaskComplete, Ended, Process, Free
<1>27. ASSUME NEW p \in Pids, Reap(p) PROVE TypeInv'
  BY <1>27, <1>r, ConstantsOK DEF Reap, TypeInv, TypeOK, TaskComplete, Process, Free
<1>28. ASSUME NEW p \in Pids, ForeignStart(p) PROVE TypeInv'
  BY <1>28, <1>r, ConstantsOK DEF ForeignStart, TypeInv, TypeOK, TaskComplete, Process
<1>29. ASSUME NEW p \in Pids, ForeignExit(p) PROVE TypeInv'
  BY <1>29, <1>r, ConstantsOK DEF ForeignExit, TypeInv, TypeOK, TaskComplete, Ended, Process, Free
<1>30. ASSUME Crash PROVE TypeInv'
  BY <1>30, <1>r, ConstantsOK DEF Crash, TypeInv, TypeOK, TaskComplete, Process, Free, Idle, Doing, Task, TaskComplete
<1>31. ASSUME Redeploy PROVE TypeInv'
  BY <1>31, <1>r, ConstantsOK DEF Redeploy, TypeInv, TypeOK, TaskComplete, Process, Free, Idle, Doing, Task, TaskComplete
<1>32. CASE UNCHANGED vars
  BY <1>32 DEF vars, TypeInv, TypeOK, TaskComplete
<1> QED BY <1>1, <1>2, <1>3, <1>4, <1>5, <1>6, <1>7, <1>8, <1>9, <1>10, <1>11,
       <1>12, <1>13, <1>14, <1>15, <1>16, <1>17, <1>18, <1>19, <1>20, <1>21,
       <1>22, <1>23, <1>24, <1>25, <1>26, <1>27, <1>28, <1>29, <1>30, <1>31,
       <1>32, <1>t
     DEF Next, Client, Handle, StartStep, Boot, System

\* TypeOK holds in every reachable state of the service.
THEOREM TypeCorrect == Spec => []TypeOK
<1>1. TypeInv => TypeOK
  BY DEF TypeInv
<1> QED BY <1>1, TypeInit, TypeStep, PTL DEF Spec

-----------------------------------------------------------------------------
(* The rows.  IndInv is inductive: no step of any task takes away what     *)
(* another task relies on.                                                 *)

\* The empty table satisfies the inductive invariant.
LEMMA IndInit == Init => IndInv
<1> SUFFICES ASSUME Init PROVE IndInv
  OBVIOUS
<1>1. TypeOK
  BY TypeInit DEF TypeInv
<1>2. \A t \in Tasks : req[t].pc = "idle"
  BY DEF Init, Idle, Doing
<1> QED BY <1>1, <1>2 DEF Init, IndInv, PidRecorded, ScriptStored, TaskOK, Fresh, At

Early == {"idle", "get", "stopget", "delget", "ok", "err"}

\* A move that leaves rows, scripts and identifiers alone keeps the invariant,
\* if the task may be where it goes and is not pending unless it was, nor past
\* Early unless it was or saw a row.
LEMMA MoveKeeps ==
  ASSUME IndInv, TypeOK', UNCHANGED <<db, store, minted>>, todo' \subseteq minted,
         NEW t \in Tasks, NEW op, NEW pc, NEW i, NEW p, NEW s, Becomes(t, op, pc, i, p, s),
         pc # "idle" => i \in minted,
         pc \in {"check", "save", "alive", "kill"} => p \in Pids,
         pc = "mark" => s \in Registry!Settled,
         pc \in {"alive", "kill", "mark", "del"} => Begun(i),
         pc = "put" => FALSE,
         pc = "commit" => req[t].pc = "put" /\ i = req[t].id /\ i \in store,
         pc \notin Early => db[i] # None \/ (req[t].pc \notin Early /\ i = req[t].id)
  PROVE  IndInv'
<1> USE DEF IndInv, Becomes, At
<1>1. PidRecorded' /\ ScriptStored' /\ (\A j \in Ids : db[j] # None => j \in minted)'
  BY DEF PidRecorded, ScriptStored
<1>2. ASSUME NEW u \in Tasks PROVE TaskOK(u)'
  <2>1. CASE u = t
    BY <2>1 DEF TaskOK, Begun
  <2>2. CASE u # t
    BY <2>2 DEF TaskOK, Begun
  <2> QED BY <2>1, <2>2
<1>3. Fresh'
  <2> SUFFICES ASSUME NEW r \in Tasks, NEW u \in Tasks,
                      req'[r].pc \in {"put", "commit"}, u # r, req'[u].id = req'[r].id
               PROVE  req'[u].pc \in Early
    BY DEF Fresh, Early
  <2>1. req[r].pc \in {"put", "commit"} /\ req[r].id = req'[r].id
    OBVIOUS
  <2>2. db[req[r].id] = None
    BY <2>1 DEF TaskOK
  <2>3. CASE u = t
    BY <2>1, <2>2, <2>3 DEF Fresh, Early
  <2>4. CASE u # t
    BY <2>1, <2>4 DEF Fresh, Early
  <2> QED BY <2>3, <2>4
<1> QED BY <1>1, <1>2, <1>3

\* A write of a task to its own row keeps the invariant, if it deletes the row or
\* makes one that exists into one that has been started.
LEMMA WriteKeeps ==
  ASSUME IndInv, TypeInv, TypeOK', UNCHANGED <<store, minted, todo>>,
         NEW t \in Tasks, NEW op, NEW pc, NEW i \in Ids,
         Becomes(t, op, pc, i, None, None), req[t].id = i,
         pc \in {"ok", "err"} \/ (pc = "query" /\ req[t].pc = "save"), i \in minted,
         NEW row, db' = [db EXCEPT ![i] = row],
         row = None \/ (db[i] # None /\ row \in Row /\ row.status # "Created" /\ row.pid # None)
  PROVE  IndInv'
<1> USE DEF IndInv, Becomes, At
<1>1. db \in [Ids -> Row \cup {None}] /\ minted \subseteq Ids
  BY DEF TypeOK
<1>2. db'[i] = row /\ \A j \in Ids : j # i => db'[j] = db[j]
  BY <1>1
<1>3. PidRecorded' /\ ScriptStored' /\ (\A j \in Ids : db[j] # None => j \in minted)'
  BY <1>2 DEF PidRecorded, ScriptStored
<1>4. ASSUME NEW u \in Tasks PROVE TaskOK(u)'
  <2>1. req[u].id \in minted \/ req[u].pc = "idle"
    BY DEF TaskOK
  <2>2. CASE u = t
    BY <1>2, <2>2 DEF TaskOK
  <2>3. CASE u # t
    BY <1>1, <1>2, <2>1, <2>3 DEF TaskOK, Begun
  <2> QED BY <2>2, <2>3
<1>5. Fresh'
  BY DEF Fresh
<1> QED BY <1>3, <1>4, <1>5

\* Every step keeps what the tasks rely on when they take their next step.
LEMMA IndStep == IndInv /\ TypeInv /\ TypeInv' /\ [Next]_vars => IndInv'
<1> SUFFICES ASSUME IndInv, TypeInv, TypeInv', [Next]_vars PROVE IndInv'
  OBVIOUS
<1> USE DEF At
<1>p. /\ Calls \subseteq Pcs /\ "idle" \in Pcs /\ "ok" \in Pcs /\ "err" \in Pcs
      /\ {"create", "start", "stop", "delete"} \subseteq Ops
  BY DEF Pcs, Ops
<1>t. Requests \subseteq Tasks /\ Main \in Tasks
  BY DEF Tasks
<1>y. TypeOK /\ TypeOK' /\ req \in [Tasks -> Task] /\ todo \subseteq minted /\ minted \subseteq Ids
  BY DEF TypeInv, TypeOK, IndInv
<1>r. \A t \in Tasks : TaskOK(t) /\ req[t].pid \in Pids \cup {None}
  BY <1>y DEF IndInv, Task
<1>w. \A i \in Ids : db[i] # None => /\ db[i] \in Row /\ db[i].pid \in Pids \cup {None}
                                     /\ i \in store /\ i \in minted
                                     /\ db[i].pid = None <=> db[i].status = "Created"
  BY DEF Row, TypeInv, TypeOK, IndInv, PidRecorded, ScriptStored
<1>s. Registry!Settled \subseteq Statuses
  BY DEF Registry!Settled, Statuses
<1>1. ASSUME NEW r \in Requests, Create(r) PROVE IndInv'
  <2> PICK i \in Ids \ minted : minted' = minted \cup {i} /\ Begin(r, "create", "put", i)
    BY <1>1 DEF Create
  <2>1. Becomes(r, "create", "put", i, None, None)
    BY <1>p, <1>t, <1>y, BeginMoves DEF Calls
  <2>2. db[i] = None /\ \A u \in Tasks : req[u].id = i => req[u].pc = "idle"
    BY <1>w, <1>r DEF TaskOK
  <2>3. ASSUME NEW u \in Tasks PROVE TaskOK(u)'
    BY <1>1, <1>r, <1>t, <2>1, <2>2 DEF Create, Becomes, TaskOK, Begun
  <2>4. Fresh'
    BY <1>1, <1>t, <2>1, <2>2 DEF Create, Becomes, Fresh, IndInv, TaskOK
  <2> QED BY <1>1, <1>y, <2>3, <2>4 DEF Create, IndInv, PidRecorded, ScriptStored
<1>2. ASSUME NEW r \in Requests, Put(r) PROVE IndInv'
  <2>1. \E pc \in {"commit", "err"} : \E p, s :
           /\ Becomes(r, req[r].op, pc, req[r].id, p, s)
           /\ pc = "commit" => req[r].id \in store'
    BY <1>2, <1>p, <1>t, <1>y, GotoMoves, FinishMoves DEF Put, Calls
  <2>2. UNCHANGED <<db, minted, todo>> /\ store \subseteq store'
    BY <1>2 DEF Put
  <2>3. ASSUME NEW u \in Tasks PROVE TaskOK(u)'
    BY <1>2, <1>r, <1>t, <2>1, <2>2 DEF Put, Becomes, TaskOK, Begun
  <2>4. Fresh'
    BY <1>2, <1>t, <2>1 DEF Put, Becomes, Fresh, IndInv
  <2> QED BY <1>y, <2>2, <2>3, <2>4 DEF IndInv, PidRecorded, ScriptStored
<1>3. ASSUME NEW r \in Requests, Commit(r) PROVE IndInv'
  <2> DEFINE i == req[r].id
  <2>1. i \in Ids /\ i \in minted /\ i \in store /\ db[i] = None
    BY <1>3, <1>t, <1>y, <1>r DEF Commit, TaskOK
  <2>2. \E pc \in {"get", "err"} : \E p, s : Becomes(r, req[r].op, pc, i, p, s)
    BY <1>3, <1>p, <1>t, <1>y, GotoMoves, FinishMoves DEF Commit, Calls
  <2>3. UNCHANGED <<store, minted, todo>>
    BY <1>3 DEF Commit
  <2>4. db' = db \/ db' = [db EXCEPT ![i] = NewRow]
    BY <1>3 DEF Commit
  <2>5. /\ db'[i] = None \/ (db'[i].status = "Created" /\ db'[i].pid = None)
        /\ \A j \in Ids : j # i => db'[j] = db[j]
    BY <1>y, <2>1, <2>4 DEF NewRow, TypeOK
  <2>6. ASSUME NEW u \in Tasks PROVE TaskOK(u)'
    <3>1. CASE u = r
      BY <2>1, <2>2, <2>3, <3>1 DEF Becomes, TaskOK
    <3>2. CASE u # r /\ req[u].id = i
      <4>1. req[u].pc \in Early
        BY <1>3, <1>t, <3>2 DEF Commit, IndInv, Fresh, Early
      <4> QED BY <1>t, <1>r, <2>2, <2>3, <3>2, <4>1 DEF Becomes, TaskOK, Early
    <3>3. CASE u # r /\ req[u].id # i
      BY <1>t, <1>y, <1>r, <2>2, <2>3, <2>5, <3>3 DEF Becomes, TaskOK, Begun
    <3> QED BY <3>1, <3>2, <3>3
  <2>7. Fresh'
    BY <1>t, <2>2 DEF Becomes, Fresh, IndInv
  <2>8. PidRecorded' /\ ScriptStored' /\ (\A j \in Ids : db[j] # None => j \in minted)'
    BY <1>w, <2>1, <2>3, <2>5 DEF PidRecorded, ScriptStored
  <2> QED BY <1>y, <2>3, <2>6, <2>7, <2>8 DEF IndInv
<1>4. ASSUME NEW r \in Requests, Query(r) PROVE IndInv'
  BY <1>4, <1>p, <1>t, <1>y, <1>r, <1>w, <1>s, MoveKeeps, GotoMoves, FinishMoves DEF Query, TaskOK, Calls, Early, Begun
<1>5. ASSUME NEW r \in Requests, FailGet(r) PROVE IndInv'
  BY <1>5, <1>p, <1>t, <1>y, <1>r, <1>w, <1>s, MoveKeeps, IntendMoves, FinishMoves DEF FailGet, TaskOK, Calls, Early, Begun, Registry!Settled, Statuses
<1>6. ASSUME NEW r \in Requests, NEW i \in Ids, Start(r, i) PROVE IndInv'
  BY <1>6, <1>p, <1>t, <1>y, <1>r, <1>w, <1>s, MoveKeeps, BeginMoves DEF Start, TaskOK, Calls, Early, Begun
<1>7. ASSUME NEW t \in Tasks, Get(t) PROVE IndInv'
  BY <1>7, <1>p, <1>t, <1>y, <1>r, <1>w, <1>s, MoveKeeps, GotoMoves, ReadMoves, FinishMoves DEF Get, TaskOK, Calls, Early, Begun
<1>8. ASSUME NEW t \in Tasks, Check(t) PROVE IndInv'
  BY <1>8, <1>p, <1>t, <1>y, <1>r, <1>w, <1>s, MoveKeeps, ReadMoves, StartedMoves, FinishMoves DEF Check, TaskOK, Calls, Early, Begun
<1>9. ASSUME NEW t \in Tasks, Fetch(t) PROVE IndInv'
  BY <1>9, <1>p, <1>t, <1>y, <1>r, <1>w, <1>s, MoveKeeps, GotoMoves, FinishMoves DEF Fetch, TaskOK, Calls, Early, Begun
<1>10. ASSUME NEW t \in Tasks, Spawn(t) PROVE IndInv'
  BY <1>10, <1>p, <1>t, <1>y, <1>r, <1>w, <1>s, MoveKeeps, ReadMoves, FinishMoves DEF Spawn, TaskOK, Calls, Early, Begun
<1>11. ASSUME NEW t \in Tasks, Save(t) PROVE IndInv'
  <2> DEFINE i == req[t].id
             row == [status |-> "Running", pid |-> req[t].pid]
  <2>1. i \in Ids /\ i \in minted /\ req[t].pid \in Pids
    BY <1>11, <1>y, <1>r DEF Save, TaskOK
  <2>2. row \in Row /\ row.status # "Created" /\ row.pid # None
    BY <2>1, ConstantsOK DEF Row, Statuses
  <2>3. /\ UNCHANGED <<store, minted, todo>>
        /\ \E pc \in {"query", "ok", "err"} : Becomes(t, req[t].op, pc, i, None, None)
        /\ req[t].pc = "save"
    BY <1>11, <1>y, StartedMoves, FinishMoves DEF Save
  <2>4. CASE UNCHANGED db
    BY <1>y, <1>r, <2>1, <2>3, <2>4, MoveKeeps DEF Early
  <2>5. CASE Update(i, row)
    BY <1>y, <2>1, <2>2, <2>3, <2>5, WriteKeeps DEF Update
  <2> QED BY <1>11, <2>4, <2>5 DEF Save
<1>12. ASSUME NEW r \in Requests, NEW i \in Ids, Stop(r, i) PROVE IndInv'
  BY <1>12, <1>p, <1>t, <1>y, <1>r, <1>w, <1>s, MoveKeeps, BeginMoves DEF Stop, TaskOK, Calls, Early, Begun
<1>13. ASSUME NEW r \in Requests, StopGet(r) PROVE IndInv'
  BY <1>13, <1>p, <1>t, <1>y, <1>r, <1>w, <1>s, MoveKeeps, ReadMoves, FinishMoves DEF StopGet, TaskOK, Calls, Early, Begun
<1>14. ASSUME NEW r \in Requests, StopProbe(r) PROVE IndInv'
  BY <1>14, <1>p, <1>t, <1>y, <1>r, <1>w, <1>s, MoveKeeps, GotoMoves, IntendMoves DEF StopProbe, TaskOK, Calls, Early, Begun, Registry!Settled, Statuses
<1>15. ASSUME NEW r \in Requests, Kill(r) PROVE IndInv'
  BY <1>15, <1>p, <1>t, <1>y, <1>r, <1>w, <1>s, MoveKeeps, IntendMoves DEF Kill, TaskOK, Calls, Early, Begun, Registry!Settled, Statuses
<1>16. ASSUME NEW r \in Requests, Mark(r) PROVE IndInv'
  <2> DEFINE i == req[r].id
             row == [db[i] EXCEPT !.status = req[r].to]
  <2>1. i \in Ids /\ i \in minted /\ req[r].to \in Registry!Settled /\ Begun(i)
    BY <1>16, <1>t, <1>y, <1>r DEF Mark, TaskOK
  <2>2. db[i] # None => row \in Row /\ row.status # "Created" /\ row.pid # None
    BY <1>w, <2>1 DEF Row, Registry!Settled, Statuses, Begun
  <2>3. /\ UNCHANGED <<store, minted, todo>>
        /\ \E pc \in {"ok", "err"} : Becomes(r, req[r].op, pc, i, None, None)
    BY <1>16, <1>t, <1>y, FinishMoves DEF Mark
  <2>4. CASE UNCHANGED db
    BY <1>t, <1>y, <1>r, <2>1, <2>3, <2>4, MoveKeeps DEF Early
  <2>5. CASE Update(i, row)
    BY <1>t, <1>y, <2>1, <2>2, <2>3, <2>5, WriteKeeps DEF Update
  <2> QED BY <1>16, <2>4, <2>5 DEF Mark
<1>17. ASSUME NEW r \in Requests, NEW i \in Ids, Delete(r, i) PROVE IndInv'
  BY <1>17, <1>p, <1>t, <1>y, <1>r, <1>w, <1>s, MoveKeeps, BeginMoves DEF Delete, TaskOK, Calls, Early, Begun
<1>18. ASSUME NEW r \in Requests, DeleteGet(r) PROVE IndInv'
  BY <1>18, <1>p, <1>t, <1>y, <1>r, <1>w, <1>s, MoveKeeps, GotoMoves, FinishMoves DEF DeleteGet, TaskOK, Calls, Early, Begun
<1>19. ASSUME NEW r \in Requests, DeleteRow(r) PROVE IndInv'
  <2> DEFINE i == req[r].id
  <2>1. i \in Ids /\ i \in minted
    BY <1>19, <1>t, <1>y, <1>r DEF DeleteRow, TaskOK
  <2>2. /\ UNCHANGED <<store, minted, todo>>
        /\ \E pc \in {"ok", "err"} : Becomes(r, req[r].op, pc, i, None, None)
    BY <1>19, <1>t, <1>y, FinishMoves DEF DeleteRow
  <2>3. CASE UNCHANGED db
    BY <1>t, <1>y, <1>r, <2>1, <2>2, <2>3, MoveKeeps DEF Early
  <2>4. CASE db' = [db EXCEPT ![i] = None]
    BY <1>t, <1>y, <2>1, <2>2, <2>4, WriteKeeps
  <2> QED BY <1>19, <2>3, <2>4 DEF DeleteRow
<1>20. ASSUME BootList PROVE IndInv'
  BY <1>20, <1>y, <1>w DEF BootList, RowsWith, IndInv, PidRecorded, ScriptStored, TaskOK, Begun, Fresh
<1>21. ASSUME BootNext PROVE IndInv'
  <2> PICK i \in todo : Begin(Main, "start", "get", i) /\ todo' = todo \ {i}
    BY <1>21 DEF BootNext
  <2>1. i \in Ids /\ i \in minted
    BY <1>y
  <2>2. Becomes(Main, "start", "get", i, None, None)
    BY <1>p, <1>t, <1>y, <2>1, BeginMoves DEF Calls
  <2> QED BY <1>21, <1>t, <1>y, <2>1, <2>2, MoveKeeps DEF BootNext, Early
<1>22. ASSUME BootDone PROVE IndInv'
  BY <1>22, <1>y, <1>w DEF BootDone, IndInv, PidRecorded, ScriptStored, TaskOK, Begun, Fresh
<1>23. ASSUME NEW t \in Tasks, Reply(t) PROVE IndInv'
  BY <1>23, <1>p, <1>t, <1>y, <1>r, <1>w, <1>s, MoveKeeps, DropMoves DEF Reply, TaskOK, Calls, Early, Begun
<1>24. ASSUME NEW r \in Requests, Cancel(r) PROVE IndInv'
  BY <1>24, <1>p, <1>t, <1>y, <1>r, <1>w, <1>s, MoveKeeps, DropMoves DEF Cancel, TaskOK, Calls, Early, Begun
<1>25. ASSUME NEW p \in Pids, SinkExit(p) PROVE IndInv'
  BY <1>25, <1>y DEF SinkExit, IndInv, PidRecorded, ScriptStored, TaskOK, Begun, Fresh
<1>26. ASSUME NEW p \in Pids, TermExit(p) PROVE IndInv'
  BY <1>26, <1>y DEF TermExit, IndInv, PidRecorded, ScriptStored, TaskOK, Begun, Fresh
<1>27. ASSUME NEW p \in Pids, Reap(p) PROVE IndInv'
  BY <1>27, <1>y DEF Reap, IndInv, PidRecorded, ScriptStored, TaskOK, Begun, Fresh
<1>28. ASSUME NEW p \in Pids, ForeignStart(p) PROVE IndInv'
  BY <1>28, <1>y DEF ForeignStart, IndInv, PidRecorded, ScriptStored, TaskOK, Begun, Fresh
<1>29. ASSUME NEW p \in Pids, ForeignExit(p) PROVE IndInv'
  BY <1>29, <1>y DEF ForeignExit, IndInv, PidRecorded, ScriptStored, TaskOK, Begun, Fresh
<1>30. ASSUME Crash PROVE IndInv'
  BY <1>30, <1>y DEF Crash, IndInv, PidRecorded, ScriptStored, TaskOK, Begun, Fresh, Idle, Doing
<1>31. ASSUME Redeploy PROVE IndInv'
  BY <1>31, <1>y DEF Redeploy, IndInv, PidRecorded, ScriptStored, TaskOK, Begun, Fresh, Idle, Doing
<1>32. CASE UNCHANGED vars
  BY <1>32 DEF vars, TypeOK, IndInv, PidRecorded, ScriptStored, TaskOK, Begun, Fresh
<1> QED BY <1>1, <1>2, <1>3, <1>4, <1>5, <1>6, <1>7, <1>8, <1>9, <1>10, <1>11,
       <1>12, <1>13, <1>14, <1>15, <1>16, <1>17, <1>18, <1>19, <1>20, <1>21,
       <1>22, <1>23, <1>24, <1>25, <1>26, <1>27, <1>28, <1>29, <1>30, <1>31,
       <1>32, <1>t
     DEF Next, Client, Handle, StartStep, Boot, System

\* The inductive invariant holds throughout every run of the service.
LEMMA Inductive == Spec => [](IndInv /\ TypeInv)
BY IndInit, TypeInit, IndStep, TypeStep, PTL DEF Spec

\* Whatever fails and however requests interleave, a row has a pid exactly when
\* it is past Created: is_running and stop never meet a row without one.
THEOREM PidAlwaysRecorded == Spec => []PidRecorded
<1>1. IndInv => PidRecorded
  BY DEF IndInv
<1> QED BY <1>1, Inductive, PTL

\* A row never shows without its script in the store.
THEOREM ScriptAlwaysStored == Spec => []ScriptStored
<1>1. IndInv => ScriptStored
  BY DEF IndInv
<1> QED BY <1>1, Inductive, PTL
=============================================================================
