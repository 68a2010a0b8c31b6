-------------------------- MODULE IndexerPidProofs --------------------------
(***************************************************************************)
(* What the pids in rows and tasks stand for, when the machine does not    *)
(* give a pid that a row or a task still names to another process.         *)
(***************************************************************************)
EXTENDS IndexerLifecycleProofs

NoReuse == "reuse" \notin Faults

\* Only a free pid has no owner.
Owned == \A p \in Pids : proc[p].owner = None => proc[p].st = "free"

PidInv == PidsAreOwn /\ Owned

\* A new process gets a pid that nobody names.
LEMMA FreshPid ==
  ASSUME NoReuse, NEW p \in Pids, Assignable(p)
  PROVE  /\ \A i \in Ids : db[i] # None => db[i].pid # p
         /\ \A t \in Tasks : req[t].pid # p
         /\ proc[p].owner = None
BY DEF NoReuse, Assignable, Named, Can, Free

\* A step that leaves processes and rows alone keeps the invariant when the pid of
\* the task that moves is the one it had, that of its row, or none.
LEMMA PidMoveKeeps ==
  ASSUME PidInv, TypeOK, UNCHANGED <<db, proc>>, NEW t \in Tasks,
         NEW op, NEW pc, NEW i, NEW p, NEW s, Becomes(t, op, pc, i, p, s),
         \/ p = None
         \/ i = req[t].id /\ p = req[t].pid
         \/ i \in Ids /\ db[i] # None /\ p = db[i].pid
  PROVE  PidInv'
BY DEF PidInv, PidsAreOwn, Owned, Becomes

\* Processes may lose their owner, when they end, but never change it.
LEMMA ProcKeeps ==
  ASSUME PidInv, TypeOK, UNCHANGED db,
         \/ UNCHANGED req
         \/ \A t \in Tasks : req'[t].pid = None,
         \A p \in Pids : /\ proc'[p].owner \in {proc[p].owner, None}
                         /\ proc'[p].owner = None => proc'[p].st = "free"
  PROVE  PidInv'
<1>1. \A i \in Ids : db[i] # None => db[i].pid \in Pids \cup {None}
  BY DEF TypeOK, Row
<1>2. \A t \in Tasks : req[t].pid \in Pids \cup {None}
  BY DEF TypeOK, Task
<1> QED BY <1>1, <1>2 DEF PidInv, PidsAreOwn, Owned

\* A task that writes its row keeps the invariant when the row has no pid, the pid
\* it had, or that of the task.
LEMMA RowKeeps ==
  ASSUME PidInv, TypeOK, UNCHANGED proc, NEW t \in Tasks,
         NEW op, NEW pc, NEW i, NEW p, NEW s, Becomes(t, op, pc, i, p, s), p = None,
         NEW c \in Ids, NEW row, db' = [db EXCEPT ![c] = row],
         \/ row = None \/ row.pid = None
         \/ db[c] # None /\ row.pid = db[c].pid
         \/ c = req[t].id /\ row.pid = req[t].pid
  PROVE  PidInv'
<1>1. db'[c] = row /\ \A j \in Ids : j # c => db'[j] = db[j]
  BY DEF TypeOK
<1> QED BY <1>1 DEF PidInv, PidsAreOwn, Owned, Becomes

\* Without reuse, every step keeps pids with the indexer they were read from.
LEMMA PidStep == NoReuse /\ PidInv /\ IndInv /\ TypeInv /\ [Next]_vars => PidInv'
<1> SUFFICES ASSUME NoReuse, PidInv, IndInv, TypeInv, [Next]_vars PROVE PidInv'
  OBVIOUS
<1> USE DEF At
<1>p. /\ Calls \subseteq Pcs /\ "idle" \in Pcs /\ "ok" \in Pcs /\ "err" \in Pcs
      /\ {"create", "start", "stop", "delete"} \subseteq Ops
  BY DEF Pcs, Ops
<1>t. Requests \subseteq Tasks /\ Main \in Tasks
  BY DEF Tasks
<1>y. TypeOK /\ req \in [Tasks -> Task] /\ minted \subseteq Ids /\ todo \subseteq Ids
  BY DEF TypeInv, TypeOK
<1>r. \A t \in Tasks : TaskOK(t) /\ req[t].pid \in Pids \cup {None}
  BY <1>y DEF IndInv, Task
<1>w. \A i \in Ids : db[i] # None => db[i] \in Row /\ db[i].pid \in Pids \cup {None}
  BY <1>y DEF TypeOK, Row
<1>s. {"Stopped", "FailedRunning", "FailedStopping"} \subseteq Statuses
  BY DEF Statuses
<1>1. ASSUME NEW r \in Requests, Create(r) PROVE PidInv'
  <2> PICK i \in Ids \ minted : Begin(r, "create", "put", i)
    BY <1>1 DEF Create
  <2>1. Becomes(r, "create", "put", i, None, None)
    BY <1>p, <1>t, <1>y, BeginMoves DEF Calls
  <2> QED BY <1>1, <1>t, <1>y, <2>1, PidMoveKeeps DEF Create
<1>2. ASSUME NEW r \in Requests, Put(r) PROVE PidInv'
  BY <1>2, <1>p, <1>t, <1>y, <1>r, <1>w, <1>s, PidMoveKeeps, GotoMoves, FinishMoves
     DEF Put, TaskOK, Calls
<1>3. ASSUME NEW r \in Requests, Commit(r) PROVE PidInv'
  <2>1. PICK c \in Ids : c = req[r].id
    BY <1>3, <1>t, <1>y, <1>r DEF Commit, TaskOK
  <2>2. \E pc \in {"get", "err"} : \E s : Becomes(r, req[r].op, pc, c, req[r].pid, s)
                                     \/ Becomes(r, req[r].op, pc, c, None, s)
    BY <1>3, <1>p, <1>t, <1>y, <2>1, GotoMoves, FinishMoves DEF Commit, Calls
  <2>3. CASE UNCHANGED db
    BY <1>3, <1>t, <1>y, <2>1, <2>2, <2>3, PidMoveKeeps DEF Commit
  <2>4. CASE db' = [db EXCEPT ![c] = NewRow]
    <3>1. db'[c] = NewRow /\ NewRow.pid = None /\ \A j \in Ids : j # c => db'[j] = db[j]
      BY <1>y, <2>4 DEF TypeOK, NewRow
    <3>2. UNCHANGED proc
      BY <1>3 DEF Commit
    <3> QED BY <1>t, <2>1, <2>2, <3>1, <3>2 DEF PidInv, PidsAreOwn, Owned, Becomes
  <2> QED BY <1>3, <2>1, <2>3, <2>4 DEF Commit
<1>4. ASSUME NEW r \in Requests, Query(r) PROVE PidInv'
  BY <1>4, <1>p, <1>t, <1>y, <1>r, <1>w, <1>s, PidMoveKeeps, GotoMoves, FinishMoves
     DEF Query, TaskOK, Calls
<1>5. ASSUME NEW r \in Requests, FailGet(r) PROVE PidInv'
  BY <1>5, <1>p, <1>t, <1>y, <1>r, <1>w, <1>s, PidMoveKeeps, IntendMoves, FinishMoves
     DEF FailGet, TaskOK, Calls
<1>6. ASSUME NEW r \in Requests, NEW i \in Ids, Start(r, i) PROVE PidInv'
  BY <1>6, <1>p, <1>t, <1>y, <1>r, <1>w, <1>s, PidMoveKeeps, BeginMoves
     DEF Start, TaskOK, Calls
<1>7. ASSUME NEW t \in Tasks, Get(t) PROVE PidInv'
  BY <1>7, <1>p, <1>t, <1>y, <1>r, <1>w, <1>s, PidMoveKeeps, GotoMoves, ReadMoves, FinishMoves
     DEF Get, TaskOK, Calls
<1>8. ASSUME NEW t \in Tasks, Check(t) PROVE PidInv'
  BY <1>8, <1>p, <1>t, <1>y, <1>r, <1>w, <1>s, PidMoveKeeps, ReadMoves, StartedMoves, FinishMoves
     DEF Check, TaskOK, Calls
<1>9. ASSUME NEW t \in Tasks, Fetch(t) PROVE PidInv'
  BY <1>9, <1>p, <1>t, <1>y, <1>r, <1>w, <1>s, PidMoveKeeps, GotoMoves, FinishMoves
     DEF Fetch, TaskOK, Calls
<1>10. ASSUME NEW t \in Tasks, Spawn(t) PROVE PidInv'
  <2>1. CASE Finish(t, "err") /\ UNCHANGED proc
    BY <1>10, <1>y, <2>1, FinishMoves, PidMoveKeeps DEF Spawn
  <2>2. ASSUME NEW p \in Pids, Assignable(p), Read(t, "save", p),
               proc' = [proc EXCEPT ![p] = [owner |-> req[t].id, st |-> "up", kid |-> TRUE]]
        PROVE  PidInv'
    <3>1. /\ \A i \in Ids : db[i] # None => db[i].pid # p
          /\ \A u \in Tasks : req[u].pid # p
      BY <2>2, FreshPid
    <3>2. Becomes(t, req[t].op, "save", req[t].id, p, req[t].to)
      BY <1>p, <1>y, <2>2, ReadMoves DEF Calls
    <3>3. /\ proc'[p].owner = req[t].id
          /\ \A o \in Pids \cup {None} : o # p => proc'[o] = proc[o]
      BY <1>y, <2>2 DEF TypeOK
    <3>4. UNCHANGED db
      BY <1>10 DEF Spawn
    <3>5. PidsAreOwn'
      BY <1>w, <1>r, <3>1, <3>2, <3>3, <3>4 DEF PidInv, PidsAreOwn, Becomes
    <3>6. req[t].id # None
      BY <1>10, <1>y, <1>r, ConstantsOK DEF Spawn, TaskOK
    <3>7. Owned'
      BY <3>3, <3>6 DEF PidInv, Owned
    <3> QED BY <3>5, <3>7 DEF PidInv
  <2> QED BY <1>10, <2>1, <2>2 DEF Spawn
<1>11. ASSUME NEW t \in Tasks, Save(t) PROVE PidInv'
  <2> DEFINE row == [status |-> "Running", pid |-> req[t].pid]
  <2>1. PICK c \in Ids : c = req[t].id
    BY <1>11, <1>y, <1>r DEF Save, TaskOK
  <2>2. row.pid = req[t].pid
    OBVIOUS
  <2>3. \E pc \in {"query", "ok", "err"} : Becomes(t, req[t].op, pc, c, None, None)
    BY <1>11, <1>y, <2>1, StartedMoves, FinishMoves DEF Save
  <2>4. CASE UNCHANGED db
    BY <1>11, <1>y, <2>3, <2>4, PidMoveKeeps DEF Save
  <2>5. CASE Update(c, row)
    BY <1>11, <1>y, <2>1, <2>2, <2>3, <2>5, RowKeeps DEF Save, Update
  <2> QED BY <1>11, <2>1, <2>2, <2>4, <2>5 DEF Save
<1>12. ASSUME NEW r \in Requests, NEW i \in Ids, Stop(r, i) PROVE PidInv'
  BY <1>12, <1>p, <1>t, <1>y, <1>r, <1>w, <1>s, PidMoveKeeps, BeginMoves
     DEF Stop, TaskOK, Calls
<1>13. ASSUME NEW r \in Requests, StopGet(r) PROVE PidInv'
  BY <1>13, <1>p, <1>t, <1>y, <1>r, <1>w, <1>s, PidMoveKeeps, ReadMoves, FinishMoves
     DEF StopGet, TaskOK, Calls
<1>14. ASSUME NEW r \in Requests, StopProbe(r) PROVE PidInv'
  BY <1>14, <1>p, <1>t, <1>y, <1>r, <1>w, <1>s, PidMoveKeeps, GotoMoves, IntendMoves
     DEF StopProbe, TaskOK, Calls
<1>15. ASSUME NEW r \in Requests, Kill(r) PROVE PidInv'
  <2> DEFINE p == req[r].pid
             sent == IF proc[p].st = "up" THEN "term" ELSE proc[p].st
  <2>1. \E s \in Statuses : Becomes(r, req[r].op, "mark", req[r].id, p, s)
    BY <1>15, <1>t, <1>y, <1>s, IntendMoves DEF Kill
  <2>2. CASE UNCHANGED proc
    BY <1>15, <1>t, <1>y, <2>1, <2>2, PidMoveKeeps DEF Kill
  <2>3. CASE proc' = [proc EXCEPT ![p].st = IF @ = "up" THEN "term" ELSE @]
    <3>1. \A o \in Pids : proc'[o].owner = proc[o].owner /\ (proc[o].st = "free" => proc'[o].st = "free")
      BY <1>y, <2>3 DEF TypeOK, Process
    <3>2. UNCHANGED db
      BY <1>15 DEF Kill
    <3> QED BY <1>w, <1>t, <1>r, <2>1, <3>1, <3>2 DEF PidInv, PidsAreOwn, Owned, Becomes
  <2> QED BY <1>15, <2>2, <2>3 DEF Kill
<1>16. ASSUME NEW r \in Requests, Mark(r) PROVE PidInv'
  <2> DEFINE row == [db[req[r].id] EXCEPT !.status = req[r].to]
  <2>1. PICK c \in Ids : c = req[r].id
    BY <1>16, <1>t, <1>y, <1>r DEF Mark, TaskOK
  <2>2. db[c] # None => row.pid = db[c].pid
    BY <1>w, <2>1 DEF Row
  <2>3. \E pc \in {"ok", "err"} : Becomes(r, req[r].op, pc, c, None, None)
    BY <1>16, <1>t, <1>y, <2>1, FinishMoves DEF Mark
  <2>4. CASE UNCHANGED db
    BY <1>16, <1>t, <1>y, <2>3, <2>4, PidMoveKeeps DEF Mark
  <2>5. CASE Update(c, row)
    BY <1>16, <1>t, <1>y, <2>2, <2>3, <2>5, RowKeeps DEF Mark, Update
  <2> QED BY <1>16, <2>1, <2>4, <2>5 DEF Mark
<1>17. ASSUME NEW r \in Requests, NEW i \in Ids, Delete(r, i) PROVE PidInv'
  BY <1>17, <1>p, <1>t, <1>y, <1>r, <1>w, <1>s, PidMoveKeeps, BeginMoves
     DEF Delete, TaskOK, Calls
<1>18. ASSUME NEW r \in Requests, DeleteGet(r) PROVE PidInv'
  BY <1>18, <1>p, <1>t, <1>y, <1>r, <1>w, <1>s, PidMoveKeeps, GotoMoves, FinishMoves
     DEF DeleteGet, TaskOK, Calls
<1>19. ASSUME NEW r \in Requests, DeleteRow(r) PROVE PidInv'
  <2>1. PICK c \in Ids : c = req[r].id
    BY <1>19, <1>t, <1>y, <1>r DEF DeleteRow, TaskOK
  <2>2. \E pc \in {"ok", "err"} : Becomes(r, req[r].op, pc, c, None, None)
    BY <1>19, <1>t, <1>y, <2>1, FinishMoves DEF DeleteRow
  <2>3. CASE UNCHANGED db
    BY <1>19, <1>t, <1>y, <2>2, <2>3, PidMoveKeeps DEF DeleteRow
  <2>4. CASE db' = [db EXCEPT ![c] = None]
    BY <1>19, <1>t, <1>y, <2>2, <2>4, RowKeeps DEF DeleteRow
  <2> QED BY <1>19, <2>1, <2>3, <2>4 DEF DeleteRow
<1>20. ASSUME BootList PROVE PidInv'
  BY <1>20 DEF BootList, PidInv, PidsAreOwn, Owned
<1>21. ASSUME BootNext PROVE PidInv'
  <2> PICK i \in todo : Begin(Main, "start", "get", i)
    BY <1>21 DEF BootNext
  <2>1. Becomes(Main, "start", "get", i, None, None)
    BY <1>p, <1>t, <1>y, BeginMoves DEF Calls
  <2> QED BY <1>21, <1>t, <1>y, <2>1, PidMoveKeeps DEF BootNext
<1>22. ASSUME BootDone PROVE PidInv'
  BY <1>22 DEF BootDone, PidInv, PidsAreOwn, Owned
<1>23. ASSUME NEW t \in Tasks, Reply(t) PROVE PidInv'
  BY <1>23, <1>p, <1>t, <1>y, <1>r, <1>w, <1>s, PidMoveKeeps, DropMoves
     DEF Reply, TaskOK, Calls
<1>24. ASSUME NEW r \in Requests, Cancel(r) PROVE PidInv'
  BY <1>24, <1>p, <1>t, <1>y, <1>r, <1>w, <1>s, PidMoveKeeps, DropMoves
     DEF Cancel, TaskOK, Calls
<1>25. ASSUME NEW p \in Pids, SinkExit(p) PROVE PidInv'
  <2>1. \A o \in Pids : /\ proc'[o].owner \in {proc[o].owner, None}
                        /\ proc'[o].owner = None => proc'[o].st = "free"
    BY <1>25, <1>y DEF SinkExit, PidInv, Owned, Free, Process, TypeOK, Ended
  <2> QED BY <1>25, <1>y, <2>1, ProcKeeps DEF SinkExit
<1>26. ASSUME NEW p \in Pids, TermExit(p) PROVE PidInv'
  <2>1. \A o \in Pids : /\ proc'[o].owner \in {proc[o].owner, None}
                        /\ proc'[o].owner = None => proc'[o].st = "free"
    BY <1>26, <1>y DEF TermExit, PidInv, Owned, Free, Process, TypeOK, Ended
  <2> QED BY <1>26, <1>y, <2>1, ProcKeeps DEF TermExit
<1>27. ASSUME NEW p \in Pids, Reap(p) PROVE PidInv'
  <2>1. \A o \in Pids : /\ proc'[o].owner \in {proc[o].owner, None}
                        /\ proc'[o].owner = None => proc'[o].st = "free"
    BY <1>27, <1>y DEF Reap, PidInv, Owned, Free, Process, TypeOK
  <2> QED BY <1>27, <1>y, <2>1, ProcKeeps DEF Reap
<1>28. ASSUME NEW p \in Pids, ForeignStart(p) PROVE PidInv'
  <2>1. /\ proc'[p].owner = Foreign /\ \A q \in Pids : q # p => proc'[q] = proc[q]
        /\ UNCHANGED <<db, req>>
    BY <1>28, <1>y DEF ForeignStart, TypeOK
  <2>2. /\ \A i \in Ids : db[i] # None => db[i].pid # p
        /\ \A t \in Tasks : req[t].pid # p
    BY <1>28, FreshPid DEF ForeignStart
  <2>3. Owned'
    BY <2>1, ConstantsOK DEF PidInv, Owned
  <2>4. PidsAreOwn'
    BY <1>r, <1>w, <2>1, <2>2 DEF PidInv, PidsAreOwn
  <2> QED BY <2>3, <2>4 DEF PidInv
<1>29. ASSUME NEW p \in Pids, ForeignExit(p) PROVE PidInv'
  <2>1. \A o \in Pids : /\ proc'[o].owner \in {proc[o].owner, None}
                        /\ proc'[o].owner = None => proc'[o].st = "free"
    BY <1>29, <1>y DEF ForeignExit, PidInv, Owned, Free, Process, TypeOK, Ended
  <2> QED BY <1>29, <1>y, <2>1, ProcKeeps DEF ForeignExit
<1>30. ASSUME Crash PROVE PidInv'
  <2>1. \A p \in Pids : /\ proc'[p].owner \in {proc[p].owner, None}
                        /\ proc'[p].owner = None => proc'[p].st = "free"
    BY <1>30, <1>y DEF Crash, PidInv, Owned, Free, Process, TypeOK
  <2>2. \A t \in Tasks : req'[t].pid = None
    BY <1>30 DEF Crash, Idle, Doing
  <2> QED BY <1>30, <1>y, <2>1, <2>2, ProcKeeps DEF Crash
<1>31. ASSUME Redeploy PROVE PidInv'
  <2>1. \A p \in Pids : /\ proc'[p].owner \in {proc[p].owner, None}
                        /\ proc'[p].owner = None => proc'[p].st = "free"
    BY <1>31, <1>y DEF Redeploy, PidInv, Owned, Free, Process, TypeOK
  <2>2. \A t \in Tasks : req'[t].pid = None
    BY <1>31 DEF Redeploy, Idle, Doing
  <2> QED BY <1>31, <1>y, <2>1, <2>2, ProcKeeps DEF Redeploy
<1>32. CASE UNCHANGED vars
  BY <1>32 DEF vars, PidInv, PidsAreOwn, Owned
<1> QED BY <1>1, <1>2, <1>3, <1>4, <1>5, <1>6, <1>7, <1>8, <1>9, <1>10, <1>11,
       <1>12, <1>13, <1>14, <1>15, <1>16, <1>17, <1>18, <1>19, <1>20, <1>21,
       <1>22, <1>23, <1>24, <1>25, <1>26, <1>27, <1>28, <1>29, <1>30, <1>31,
       <1>32, <1>t
     DEF Next, Client, Handle, StartStep, Boot, System

\* At first no row and no task names a pid.
LEMMA PidInit == Init => PidInv
BY DEF Init, PidInv, PidsAreOwn, Owned, Idle, Doing, Free

\* Without reuse, the pid invariant holds throughout every run.
LEMMA PidInductive == ASSUME NoReuse PROVE Spec => [](PidInv /\ IndInv /\ TypeInv)
BY PidInit, PidStep, Inductive, PTL DEF Spec

\* As long as no named pid is reused, the pid in a row or task is that of a sink of
\* the same indexer, or of nothing.
THEOREM PidsStayOwn == ASSUME NoReuse PROVE Spec => []PidsAreOwn
<1>1. PidInv => PidsAreOwn
  BY DEF PidInv
<1> QED BY <1>1, PidInductive, PTL

\* Only Kill turns a running process into one with SIGTERM pending, and the pid it
\* signals is the one its stop read from the row of the same indexer.
LEMMA KillSignalsOwn ==
  ASSUME PidInv, IndInv, TypeInv, [Next]_vars, NEW p \in Pids,
         proc[p].st = "up", proc'[p].st = "term"
  PROVE  \E r \in Requests : At(r, "kill") /\ proc[p].owner = req[r].id
<1>1. proc \in [Pids -> Process]
  BY DEF TypeInv, TypeOK
<1>2. ASSUME NEW t \in Tasks, Spawn(t) PROVE FALSE
  BY <1>1, <1>2 DEF Spawn
<1>3. ASSUME NEW q \in Pids, SinkExit(q) \/ TermExit(q) \/ Reap(q) \/ ForeignStart(q) \/ ForeignExit(q)
      PROVE  FALSE
  <2>1. Ended(q).st \in {"zombie", "free"} /\ Free.st = "free"
    BY <1>1 DEF Ended, Free, Process
  <2>2. PICK new : proc' = [proc EXCEPT ![q] = new] /\ new.st \in {"zombie", "free", "up"}
    BY <1>3, <2>1 DEF SinkExit, TermExit, Reap, ForeignStart, ForeignExit
  <2> QED BY <1>1, <2>2
<1>4. ASSUME Crash \/ Redeploy PROVE FALSE
  BY <1>1, <1>4 DEF Crash, Redeploy, Free, Process
<1>5. ASSUME NEW r \in Requests, Kill(r)
      PROVE  At(r, "kill") /\ proc[p].owner = req[r].id
  <2>1. At(r, "kill") /\ req[r].pid = p
    BY <1>1, <1>5 DEF Kill
  <2>2. r \in Tasks /\ p # None
    BY <2>1, ConstantsOK DEF Tasks
  <2>3. proc[p].owner \in {req[r].id, None}
    BY <2>1, <2>2 DEF PidInv, PidsAreOwn
  <2>4. proc[p].owner # None
    BY DEF PidInv, Owned
  <2> QED BY <2>1, <2>3, <2>4
<1>6. PICK r \in Requests : Kill(r)
  <2>1. CASE UNCHANGED proc
    BY <2>1
  <2>2. CASE ~UNCHANGED proc
    BY <1>2, <1>3, <1>4, <2>2
       DEF Next, vars, Client, Handle, StartStep, Boot, System, Tasks,
           Create, Put, Commit, Query, FailGet, Start, Get, Check, Fetch, Save,
           Stop, StopGet, StopProbe, Mark, Delete, DeleteGet, DeleteRow,
           BootList, BootNext, BootDone, Reply, Cancel
  <2> QED BY <2>1, <2>2
<1> QED BY <1>5, <1>6

\* As long as no named pid is reused, a stop request signals only sinks of the
\* indexer it names.
THEOREM SignalsOwn == ASSUME NoReuse PROVE Spec => SignalsOwnSink
<1> DEFINE Own == \A p \in Pids :
       proc[p].st = "up" /\ proc'[p].st = "term"
         => \E r \in Requests : At(r, "kill") /\ proc[p].owner = req[r].id
<1>1. PidInv /\ IndInv /\ TypeInv /\ [Next]_vars => [Own]_vars
  BY KillSignalsOwn
<1> QED BY <1>1, PidInductive, PTL DEF Spec, SignalsOwnSink

-----------------------------------------------------------------------------
(* What a stop leaves behind.                                              *)

\* A task decides on a status in three places only.
LEMMA Deciders ==
  ASSUME TypeInv, [Next]_vars, NEW r \in Requests, req'[r].pc = "mark"
  PROVE  req'[r] = req[r] \/ FailGet(r) \/ StopProbe(r) \/ Kill(r)
<1>1. req \in [Tasks -> Task] /\ Requests \subseteq Tasks /\ Main \in Tasks
  BY DEF TypeInv, TypeOK, Tasks
<1>2. ASSUME NEW t \in Tasks, NEW op, NEW pc, pc # "mark", NEW i, Begin(t, op, pc, i)
      PROVE  req'[r] = req[r]
  BY <1>1, <1>2 DEF Begin, Doing
<1>3. ASSUME NEW t \in Tasks, NEW pc, pc # "mark", Goto(t, pc) PROVE req'[r] = req[r]
  BY <1>1, <1>3 DEF Goto, Task
<1>4. ASSUME NEW t \in Tasks, NEW pc, pc # "mark", NEW p, Read(t, pc, p) PROVE req'[r] = req[r]
  BY <1>1, <1>4 DEF Read, Task
<1>5. ASSUME NEW t \in Tasks, Drop(t) PROVE req'[r] = req[r]
  BY <1>1, <1>5 DEF Drop, Idle, Doing
<1>6. ASSUME NEW t \in Tasks, Started(t) PROVE req'[r] = req[r]
  BY <1>2, <1>6 DEF Started, Finish
<1>7. ASSUME NEW q \in Requests, Client(q) \/ Put(q) \/ Commit(q) \/ Query(q) PROVE req'[r] = req[r]
  BY <1>1, <1>2, <1>3, <1>5, <1>7
     DEF Client, Create, Start, Stop, Delete, Cancel, Put, Commit, Query, Finish
<1>8. ASSUME NEW t \in Tasks, StartStep(t) PROVE req'[r] = req[r]
  BY <1>2, <1>3, <1>4, <1>6, <1>8
     DEF StartStep, Get, Check, Fetch, Spawn, Save, Finish
<1>9. ASSUME NEW q \in Requests, StopGet(q) \/ Mark(q) \/ DeleteGet(q) \/ DeleteRow(q)
      PROVE  req'[r] = req[r]
  BY <1>1, <1>2, <1>3, <1>4, <1>9 DEF StopGet, Mark, DeleteGet, DeleteRow, Finish
<1>10. ASSUME NEW q \in Requests, FailGet(q) \/ StopProbe(q) \/ Kill(q), q # r
       PROVE  req'[r] = req[r]
  BY <1>1, <1>10 DEF FailGet, StopProbe, Kill, Finish, Begin, Intend, Goto
<1>11. ASSUME NEW t \in Tasks, Reply(t) PROVE req'[r] = req[r]
  BY <1>5, <1>11 DEF Reply
<1>12. ASSUME BootList \/ BootNext \/ BootDone PROVE req'[r] = req[r]
  BY <1>1, <1>2, <1>12 DEF BootList, BootNext, BootDone
<1>13. ASSUME NEW p \in Pids, System(p) PROVE req'[r] = req[r]
  BY <1>13 DEF System, SinkExit, TermExit, Reap, ForeignStart, ForeignExit
<1>14. ASSUME Crash \/ Redeploy PROVE FALSE
  BY <1>1, <1>14 DEF Crash, Redeploy, Idle, Doing
<1>15. CASE UNCHANGED vars
  BY <1>15 DEF vars
<1> QED BY <1>1, <1>7, <1>8, <1>9, <1>10, <1>11, <1>12, <1>13, <1>14, <1>15
     DEF Next, Handle, Boot

\* A pid comes into use only for a sink that a start spawns, or for a process of
\* somebody else.
LEMMA ComesUp ==
  ASSUME TypeInv, [Next]_vars, NEW p \in Pids, proc[p].st # "up", proc'[p].st = "up"
  PROVE  /\ Assignable(p)
         /\ \/ Can("foreign") /\ proc'[p].owner = Foreign
            \/ \E t \in Tasks : /\ Spawn(t) /\ proc'[p].owner = req[t].id
                               /\ req'[t].pc = "save" /\ req'[t].pid = p
                               /\ req'[t].id = req[t].id
<1>1. proc \in [Pids -> Process] /\ req \in [Tasks -> Task] /\ Requests \subseteq Tasks
  BY DEF TypeInv, TypeOK, Tasks
<1>2. ASSUME NEW t \in Tasks, Spawn(t)
      PROVE  /\ Assignable(p) /\ proc'[p].owner = req[t].id
             /\ req'[t].pc = "save" /\ req'[t].pid = p /\ req'[t].id = req[t].id
  BY <1>1, <1>2 DEF Spawn, Read, Task
<1>3. ASSUME NEW q \in Pids, ForeignStart(q)
      PROVE  Assignable(p) /\ Can("foreign") /\ proc'[p].owner = Foreign
  BY <1>1, <1>3 DEF ForeignStart
<1>4. ASSUME NEW q \in Pids, SinkExit(q) \/ TermExit(q) \/ Reap(q) \/ ForeignExit(q) PROVE FALSE
  <2>1. Ended(q).st \in {"zombie", "free"} /\ Free.st = "free"
    BY <1>1 DEF Ended, Free, Process
  <2>2. PICK new : proc' = [proc EXCEPT ![q] = new] /\ new.st # "up"
    BY <1>4, <2>1 DEF SinkExit, TermExit, Reap, ForeignExit
  <2> QED BY <1>1, <2>2
<1>5. ASSUME Crash \/ Redeploy PROVE FALSE
  BY <1>1, <1>5 DEF Crash, Redeploy, Free, Process
<1>6. ASSUME NEW r \in Requests, Kill(r) PROVE FALSE
  BY <1>1, <1>6 DEF Kill, Process
<1>7. \/ \E t \in Tasks : Spawn(t)
      \/ \E q \in Pids : ForeignStart(q)
  BY <1>1, <1>4, <1>5, <1>6
     DEF Next, vars, Client, Handle, StartStep, Boot, System, Tasks,
         Create, Put, Commit, Query, FailGet, Start, Get, Check, Fetch, Save,
         Stop, StopGet, StopProbe, Mark, Delete, DeleteGet, DeleteRow,
         BootList, BootNext, BootDone, Reply, Cancel
<1> QED BY <1>2, <1>3, <1>7

\* What is to become Stopped has a pid, whose process is down or on its way.
StopInv ==
  \A r \in Requests :
    At(r, "mark") /\ req[r].to = "Stopped"
      => req[r].pid \in Pids /\ proc[req[r].pid].st # "up"

\* No step brings the process of such a pid back: it is named, so nobody gets it.
LEMMA StopStep ==
  ASSUME NoReuse, "probe" \notin Faults, StopInv, IndInv, TypeInv, [Next]_vars
  PROVE  StopInv'
<1> SUFFICES ASSUME NEW r \in Requests, req'[r].pc = "mark", req'[r].to = "Stopped"
             PROVE  req'[r].pid \in Pids /\ proc'[req'[r].pid].st # "up"
  BY DEF StopInv, At
<1>1. req \in [Tasks -> Task] /\ proc \in [Pids -> Process] /\ r \in Tasks
  BY DEF TypeInv, TypeOK, Tasks
<1>2. CASE req'[r] = req[r]
  <2>1. req[r].pid \in Pids /\ proc[req[r].pid].st # "up"
    BY <1>2 DEF StopInv, At
  <2>2. ~Assignable(req[r].pid)
    BY <1>1 DEF Assignable, Named, Can, NoReuse
  <2> QED BY <1>2, <2>1, <2>2, ComesUp
<1>3. CASE FailGet(r)
  BY <1>1, <1>3 DEF FailGet, Intend, Finish, Begin, Doing, Task
<1>4. CASE StopProbe(r)
  <2>1. req[r].pid \in Pids /\ ~Alive(req[r].pid) /\ req'[r].pid = req[r].pid
    BY <1>1, <1>4 DEF StopProbe, Intend, Goto, Probe, Can, Task, IndInv, TaskOK, At
  <2> QED BY <1>4, <2>1 DEF StopProbe, Alive
<1>5. CASE Kill(r)
  <2>1. req[r].pid \in Pids /\ req'[r].pid = req[r].pid
    BY <1>1, <1>5 DEF Kill, Intend, Task, IndInv, TaskOK, At
  <2>2. proc' = [proc EXCEPT ![req[r].pid].st = IF @ = "up" THEN "term" ELSE @]
    BY <1>1, <1>5 DEF Kill, Intend, Task
  <2> QED BY <1>1, <2>1, <2>2 DEF Process
<1> QED BY <1>2, <1>3, <1>4, <1>5, Deciders

\* Unless ps or grep cannot run, or a named pid is reused, a stop that is about to
\* write Stopped has left no running process behind its pid, whatever the handlers
\* of other requests, clients and sinks did meanwhile.
THEOREM StopsLeaveNoSink ==
  ASSUME NoReuse, "probe" \notin Faults PROVE Spec => []StopLeavesNoSink
<1>1. Init => StopInv
  BY DEF Init, StopInv, At, Idle, Doing, Tasks
<1>2. StopInv => StopLeavesNoSink
  BY DEF StopInv, StopLeavesNoSink
<1>3. StopInv /\ IndInv /\ TypeInv /\ [Next]_vars => StopInv'
  BY StopStep
<1> QED BY <1>1, <1>2, <1>3, Inductive, PTL DEF Spec
=============================================================================
