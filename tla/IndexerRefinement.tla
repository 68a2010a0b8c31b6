------------------------- MODULE IndexerRefinement -------------------------
(***************************************************************************)
(* IndexerLifecycle implements IndexerRegistry!Spec under the mapping      *)
(* Life: every step of a handler, of the boot or of the world is a step of *)
(* the registry or leaves every life as it is.                             *)
(***************************************************************************)
EXTENDS IndexerLifecycleProofs

Creating == {"put", "commit"}

\* A row that exists is not being created: its life is its status.
LEMMA LifeOfRow ==
  ASSUME IndInv, NEW i \in Ids, db[i] # None
  PROVE  ~Pending(i) /\ i \in minted /\ Life(i) = db[i].status
BY DEF IndInv, TaskOK, Pending, Life, Tasks

\* A step of a task that is not creating, and that touches no row, is a stutter.
LEMMA MoveStutters ==
  ASSUME NEW t \in Tasks, NEW op, NEW pc, NEW i, NEW p, NEW s, Becomes(t, op, pc, i, p, s),
         UNCHANGED <<db, minted>>, req[t].pc \notin Creating, pc \notin Creating
  PROVE  \A j \in Ids : Life(j)' = Life(j)
<1>1. \A j : Pending(j)' <=> Pending(j)
  BY DEF Becomes, Pending, Creating, Tasks
<1> QED BY <1>1 DEF Life

\* Such a task that writes the row of i moves the life of i, and only that.
LEMMA WriteMoves ==
  ASSUME IndInv, NEW t \in Tasks, NEW op, NEW pc, NEW j, NEW p, NEW s,
         Becomes(t, op, pc, j, p, s), req[t].pc \notin Creating, pc \notin Creating,
         NEW i \in Ids, db[i] # None, NEW row, db' = [db EXCEPT ![i] = row], UNCHANGED minted
  PROVE  /\ Life(i) = db[i].status
         /\ Life(i)' = IF row = None THEN "Gone" ELSE row.status
         /\ \A k \in Ids : k # i => Life(k)' = Life(k)
<1>1. \A k : Pending(k)' <=> Pending(k)
  BY DEF Becomes, Pending, Creating, Tasks
<1>2. db'[i] = row /\ \A k \in Ids : k # i => db'[k] = db[k]
  BY DEF IndInv, TypeOK
<1>3. ~Pending(i) /\ i \in minted /\ Life(i) = db[i].status
  BY LifeOfRow
<1> QED BY <1>1, <1>2, <1>3 DEF Life

\* When a creation ends, its identifier is no longer pending, and only it.
LEMMA CreationEnds ==
  ASSUME IndInv, NEW r \in Requests, req[r].pc \in Creating, NEW i \in Ids, req[r].id = i,
         NEW op, NEW pc, NEW j, NEW p, NEW s, Becomes(r, op, pc, j, p, s), pc \notin Creating
  PROVE  /\ Pending(i) /\ ~Pending(i)'
         /\ \A k : k # i => (Pending(k)' <=> Pending(k))
<1>1. \A u \in Requests : u # r /\ req[u].id = i => req[u].pc \notin Creating
  BY DEF IndInv, Fresh, Creating, Tasks
<1>2. /\ \A u \in Requests : u # r => req'[u] = req[u]
      /\ req'[r].pc \notin Creating
  BY DEF Becomes, Tasks
<1>3. Pending(i)
  BY DEF Pending, Creating
<1>4. ~Pending(i)'
  BY <1>1, <1>2 DEF Pending, Creating
<1>5. ASSUME NEW k, k # i PROVE Pending(k)' <=> Pending(k)
  BY <1>2, <1>5 DEF Pending, Creating
<1> QED BY <1>3, <1>4, <1>5

-----------------------------------------------------------------------------
(* The steps of the registry, as changes of Life.                          *)

Same(i) == Life(i)' = Life(i)
Shift(i, from, to) ==
  /\ i \in Ids /\ Life(i) \in from /\ Life(i)' = to
  /\ \A j \in Ids : j # i => Same(j)
Giveup(S) ==
  /\ S \subseteq Ids /\ \A i \in S : Life(i) = "Absent"
  /\ \A i \in Ids : Life(i)' = IF i \in S THEN "Gone" ELSE Life(i)

LifeStep ==
  \/ \A i \in Ids : Same(i)
  \/ \E i \in Ids : Shift(i, {"Absent"}, "Created")
  \/ \E S \in SUBSET Ids : Giveup(S)
  \/ \E i \in Ids : Shift(i, Registry!Listed, "Running")
  \/ \E i \in Ids, s \in Registry!Settled : Shift(i, {"Running"} \cup Registry!Settled, s)
  \/ \E i \in Ids : Shift(i, {"Running"} \cup Registry!Settled, "Gone")

life == [i \in Ids |-> Life(i)]

\* A shift of Life is a move of the registry.
LEMMA ShiftMoves ==
  ASSUME NEW i \in Ids, NEW from, NEW to, Shift(i, from, to)
  PROVE  Registry!Move(i, from, to)
<1>1. life[i] \in from
  BY DEF Shift, life
<1>2. life' = [life EXCEPT ![i] = to]
  BY DEF Shift, Same, life
<1> QED BY <1>1, <1>2 DEF Registry!Move, life

\* A change of Life is a step of the registry, or none.
LEMMA LifeStepImplements == LifeStep => [Registry!Next]_life
<1> SUFFICES ASSUME LifeStep PROVE [Registry!Next]_life
  OBVIOUS
<1>1. CASE \A i \in Ids : Same(i)
  BY <1>1 DEF Same, life
<1>2. ASSUME NEW i \in Ids, Shift(i, {"Absent"}, "Created") PROVE Registry!Next
  BY <1>2, ShiftMoves DEF Registry!Next, Registry!Register
<1>3. ASSUME NEW S \in SUBSET Ids, Giveup(S) PROVE Registry!Next
  <2>1. Registry!Abandon(S)
    BY <1>3 DEF Giveup, Registry!Abandon, life
  <2> QED BY <2>1 DEF Registry!Next
<1>4. ASSUME NEW i \in Ids, Shift(i, Registry!Listed, "Running") PROVE Registry!Next
  BY <1>4, ShiftMoves DEF Registry!Next
<1>5. ASSUME NEW i \in Ids, NEW s \in Registry!Settled,
             Shift(i, {"Running"} \cup Registry!Settled, s)
      PROVE  Registry!Next
  BY <1>5, ShiftMoves DEF Registry!Next
<1>6. ASSUME NEW i \in Ids, Shift(i, {"Running"} \cup Registry!Settled, "Gone")
      PROVE  Registry!Next
  BY <1>6, ShiftMoves DEF Registry!Next
<1> QED BY <1>1, <1>2, <1>3, <1>4, <1>5, <1>6 DEF LifeStep

-----------------------------------------------------------------------------
\* Every step of the service is one step of the registry or leaves every life.
LEMMA LifeSteps == IndInv /\ TypeInv /\ [Next]_vars => LifeStep
<1> SUFFICES ASSUME IndInv, TypeInv, [Next]_vars PROVE LifeStep
  OBVIOUS
<1> USE DEF At
<1>p. /\ Calls \subseteq Pcs /\ "idle" \in Pcs /\ "ok" \in Pcs /\ "err" \in Pcs
      /\ {"create", "start", "stop", "delete"} \subseteq Ops
  BY DEF Pcs, Ops
<1>t. Requests \subseteq Tasks /\ Main \in Tasks /\ Main \notin Requests
  BY ConstantsOK DEF Tasks
<1>y. TypeOK /\ req \in [Tasks -> Task] /\ minted \subseteq Ids /\ todo \subseteq Ids
  BY DEF TypeInv, TypeOK
<1>r. \A t \in Tasks : TaskOK(t) /\ req[t].pid \in Pids \cup {None}
  BY <1>y DEF IndInv, Task
<1>w. \A i \in Ids : db[i] # None => /\ db[i].pid \in Pids \cup {None}
                                     /\ db[i].status \in Statuses
                                     /\ i \in minted
                                     /\ db[i].pid = None <=> db[i].status = "Created"
  BY <1>y DEF TypeOK, Row, IndInv, PidRecorded
<1>s. Registry!Settled \subseteq Statuses /\ Statuses \subseteq Registry!Listed
  BY DEF Registry!Settled, Registry!Listed, Statuses
<1>1. ASSUME NEW r \in Requests, Create(r) PROVE LifeStep
  <2> PICK i \in Ids \ minted : minted' = minted \cup {i} /\ Begin(r, "create", "put", i)
    BY <1>1 DEF Create
  <2>1. Becomes(r, "create", "put", i, None, None)
    BY <1>p, <1>t, <1>y, BeginMoves DEF Calls
  <2>2. Life(i) = "Absent"
    BY DEF Life
  <2>3. Pending(i)' /\ \A j : j # i => (Pending(j)' <=> Pending(j))
    BY <1>1, <1>t, <2>1 DEF Create, Becomes, Pending
  <2>4. \A j \in Ids : Same(j)
    BY <1>1, <2>2, <2>3 DEF Create, Life, Same
  <2> QED BY <2>4 DEF LifeStep
<1>2. ASSUME NEW r \in Requests, Put(r) PROVE LifeStep
  <2> DEFINE i == req[r].id
  <2>1. PICK c \in Ids : c = i /\ db[c] = None /\ c \in minted
    BY <1>2, <1>t, <1>y, <1>r DEF Put, TaskOK
  <2>2. UNCHANGED <<db, minted>>
    BY <1>2 DEF Put
  <2>3. CASE Goto(r, "commit")
    <3>1. Becomes(r, req[r].op, "commit", c, req[r].pid, req[r].to)
      BY <1>p, <1>t, <1>y, <2>1, <2>3, GotoMoves DEF Calls
    <3>2. \A j : Pending(j)' <=> Pending(j)
      BY <1>2, <1>t, <2>1, <3>1 DEF Put, Becomes, Pending
    <3>3. \A j \in Ids : Same(j)
      BY <2>2, <3>2 DEF Life, Same
    <3> QED BY <3>3 DEF LifeStep
  <2>4. CASE Finish(r, "err")
    <3>1. Becomes(r, req[r].op, "err", c, None, None)
      BY <1>t, <1>y, <2>1, <2>4, FinishMoves
    <3>2. Pending(c) /\ ~Pending(c)' /\ \A k : k # c => (Pending(k)' <=> Pending(k))
      BY <1>2, <1>t, <2>1, <3>1, CreationEnds DEF Put, Creating
    <3>3. Giveup({c})
      BY <2>1, <2>2, <3>2 DEF Giveup, Life
    <3> QED BY <3>3 DEF LifeStep
  <2> QED BY <1>2, <2>3, <2>4 DEF Put
<1>3. ASSUME NEW r \in Requests, Commit(r) PROVE LifeStep
  <2> DEFINE i == req[r].id
  <2>1. PICK c \in Ids : c = i /\ db[c] = None /\ c \in minted
    BY <1>3, <1>t, <1>y, <1>r DEF Commit, TaskOK
  <2>2. \E pc \in {"get", "err"} : \E p, s : Becomes(r, req[r].op, pc, c, p, s)
    BY <1>3, <1>p, <1>t, <1>y, <2>1, GotoMoves, FinishMoves DEF Commit, Calls
  <2>3. Pending(c) /\ ~Pending(c)' /\ \A k : k # c => (Pending(k)' <=> Pending(k))
    BY <1>3, <1>t, <2>1, <2>2, CreationEnds DEF Commit, Creating
  <2>4. CASE UNCHANGED db
    <3>1. Giveup({c})
      BY <1>3, <2>1, <2>3, <2>4 DEF Commit, Giveup, Life
    <3> QED BY <3>1 DEF LifeStep
  <2>5. CASE db' = [db EXCEPT ![c] = NewRow]
    <3>1. db'[c] = NewRow /\ NewRow # None /\ \A j \in Ids : j # c => db'[j] = db[j]
      BY <1>y, <2>5, ConstantsOK DEF TypeOK, NewRow, Row, Statuses
    <3>2. Shift(c, {"Absent"}, "Created")
      BY <1>3, <2>1, <2>3, <3>1 DEF Commit, Shift, Same, Life, NewRow
    <3> QED BY <3>2 DEF LifeStep
  <2> QED BY <1>3, <2>1, <2>4, <2>5 DEF Commit
<1>4. ASSUME NEW r \in Requests, Query(r) PROVE LifeStep
  <2>1. \A j \in Ids : Same(j)
    BY <1>4, <1>p, <1>t, <1>y, <1>r, <1>w, MoveStutters, GotoMoves, FinishMoves
       DEF Query, TaskOK, Calls, Creating, Same
  <2> QED BY <2>1 DEF LifeStep
<1>5. ASSUME NEW r \in Requests, FailGet(r) PROVE LifeStep
  <2>1. \A j \in Ids : Same(j)
    BY <1>5, <1>p, <1>t, <1>y, <1>r, <1>w, MoveStutters, IntendMoves, FinishMoves
       DEF FailGet, TaskOK, Calls, Creating, Same, Statuses
  <2> QED BY <2>1 DEF LifeStep
<1>6. ASSUME NEW r \in Requests, NEW i \in Ids, Start(r, i) PROVE LifeStep
  <2>1. \A j \in Ids : Same(j)
    BY <1>6, <1>p, <1>t, <1>y, <1>r, <1>w, MoveStutters, BeginMoves
       DEF Start, TaskOK, Calls, Creating, Same
  <2> QED BY <2>1 DEF LifeStep
<1>7. ASSUME NEW t \in Tasks, Get(t) PROVE LifeStep
  <2>1. \A j \in Ids : Same(j)
    BY <1>7, <1>p, <1>t, <1>y, <1>r, <1>w, MoveStutters, GotoMoves, ReadMoves, FinishMoves
       DEF Get, TaskOK, Calls, Creating, Same
  <2> QED BY <2>1 DEF LifeStep
<1>8. ASSUME NEW t \in Tasks, Check(t) PROVE LifeStep
  <2>1. \A j \in Ids : Same(j)
    BY <1>8, <1>p, <1>t, <1>y, <1>r, <1>w, MoveStutters, ReadMoves, StartedMoves, FinishMoves
       DEF Check, TaskOK, Calls, Creating, Same
  <2> QED BY <2>1 DEF LifeStep
<1>9. ASSUME NEW t \in Tasks, Fetch(t) PROVE LifeStep
  <2>1. \A j \in Ids : Same(j)
    BY <1>9, <1>p, <1>t, <1>y, <1>r, <1>w, MoveStutters, GotoMoves, FinishMoves
       DEF Fetch, TaskOK, Calls, Creating, Same
  <2> QED BY <2>1 DEF LifeStep
<1>10. ASSUME NEW t \in Tasks, Spawn(t) PROVE LifeStep
  <2>1. \A j \in Ids : Same(j)
    BY <1>10, <1>p, <1>t, <1>y, <1>r, <1>w, MoveStutters, ReadMoves, FinishMoves
       DEF Spawn, TaskOK, Calls, Creating, Same
  <2> QED BY <2>1 DEF LifeStep
<1>11. ASSUME NEW t \in Tasks, Save(t) PROVE LifeStep
  <2> DEFINE i == req[t].id
             row == [status |-> "Running", pid |-> req[t].pid]
  <2>1. PICK c \in Ids : c = i
    BY <1>11, <1>y, <1>r DEF Save, TaskOK
  <2>2. PICK new : new = row /\ new # None /\ new.status = "Running"
    BY <1>11, <1>r, ConstantsOK DEF Save, TaskOK, Row, Statuses
  <2>3. \E pc \in {"query", "ok", "err"} : Becomes(t, req[t].op, pc, c, None, None)
    BY <1>11, <1>y, <2>1, StartedMoves, FinishMoves DEF Save
  <2>4. CASE UNCHANGED db
    <3>1. \A j \in Ids : Same(j)
      BY <1>11, <2>3, <2>4, MoveStutters DEF Save, Creating, Same
    <3> QED BY <3>1 DEF LifeStep
  <2>5. CASE Update(c, new)
    <3>1. /\ Life(c) = db[c].status /\ Life(c)' = "Running"
          /\ \A k \in Ids : k # c => Life(k)' = Life(k)
      BY <1>11, <2>2, <2>3, <2>5, WriteMoves DEF Save, Update, Creating
    <3>2. Shift(c, Registry!Listed, "Running")
      BY <1>w, <1>s, <2>5, <3>1 DEF Shift, Same, Update
    <3> QED BY <3>2 DEF LifeStep
  <2> QED BY <1>11, <2>1, <2>2, <2>4, <2>5 DEF Save
<1>12. ASSUME NEW r \in Requests, NEW i \in Ids, Stop(r, i) PROVE LifeStep
  <2>1. \A j \in Ids : Same(j)
    BY <1>12, <1>p, <1>t, <1>y, <1>r, <1>w, MoveStutters, BeginMoves
       DEF Stop, TaskOK, Calls, Creating, Same
  <2> QED BY <2>1 DEF LifeStep
<1>13. ASSUME NEW r \in Requests, StopGet(r) PROVE LifeStep
  <2>1. \A j \in Ids : Same(j)
    BY <1>13, <1>p, <1>t, <1>y, <1>r, <1>w, MoveStutters, ReadMoves, FinishMoves
       DEF StopGet, TaskOK, Calls, Creating, Same
  <2> QED BY <2>1 DEF LifeStep
<1>14. ASSUME NEW r \in Requests, StopProbe(r) PROVE LifeStep
  <2>1. \A j \in Ids : Same(j)
    BY <1>14, <1>p, <1>t, <1>y, <1>r, <1>w, MoveStutters, GotoMoves, IntendMoves
       DEF StopProbe, TaskOK, Calls, Creating, Same, Statuses
  <2> QED BY <2>1 DEF LifeStep
<1>15. ASSUME NEW r \in Requests, Kill(r) PROVE LifeStep
  <2>1. \A j \in Ids : Same(j)
    BY <1>15, <1>p, <1>t, <1>y, <1>r, <1>w, MoveStutters, IntendMoves
       DEF Kill, TaskOK, Calls, Creating, Same, Statuses
  <2> QED BY <2>1 DEF LifeStep
<1>16. ASSUME NEW r \in Requests, Mark(r) PROVE LifeStep
  <2> DEFINE i == req[r].id
             row == [db[i] EXCEPT !.status = req[r].to]
  <2>1. PICK c \in Ids : c = i
    BY <1>16, <1>t, <1>y, <1>r DEF Mark, TaskOK
  <2>2. PICK s \in Registry!Settled : s = req[r].to
    BY <1>16, <1>t, <1>r DEF Mark, TaskOK
  <2>3. \E pc \in {"ok", "err"} : Becomes(r, req[r].op, pc, c, None, None)
    BY <1>16, <1>t, <1>y, <2>1, FinishMoves DEF Mark
  <2>4. CASE UNCHANGED db
    <3>1. \A j \in Ids : Same(j)
      BY <1>16, <1>t, <2>3, <2>4, MoveStutters DEF Mark, Creating, Same
    <3> QED BY <3>1 DEF LifeStep
  <2>5. CASE Update(c, row)
    <3>1. db[c] # None /\ db[c] \in Row
      BY <1>y, <2>5 DEF TypeOK, Update
    <3>2. row \in Row /\ row.status = s /\ row # None
      BY <1>s, <2>1, <2>2, <3>1, ConstantsOK DEF Row
    <3>3. /\ Life(c) = db[c].status /\ Life(c)' = s
          /\ \A k \in Ids : k # c => Life(k)' = Life(k)
      BY <1>16, <1>t, <2>3, <2>5, <3>1, <3>2, WriteMoves DEF Mark, Update, Creating
    <3>4. db[c].status \in {"Running"} \cup Registry!Settled
      BY <1>16, <1>t, <1>w, <1>r, <2>1, <3>1 DEF Mark, TaskOK, Begun, Registry!Settled, Statuses
    <3>5. Shift(c, {"Running"} \cup Registry!Settled, s)
      BY <3>3, <3>4 DEF Shift, Same
    <3> QED BY <3>5 DEF LifeStep
  <2> QED BY <1>16, <2>1, <2>4, <2>5 DEF Mark
<1>17. ASSUME NEW r \in Requests, NEW i \in Ids, Delete(r, i) PROVE LifeStep
  <2>1. \A j \in Ids : Same(j)
    BY <1>17, <1>p, <1>t, <1>y, <1>r, <1>w, MoveStutters, BeginMoves
       DEF Delete, TaskOK, Calls, Creating, Same
  <2> QED BY <2>1 DEF LifeStep
<1>18. ASSUME NEW r \in Requests, DeleteGet(r) PROVE LifeStep
  <2>1. \A j \in Ids : Same(j)
    BY <1>18, <1>p, <1>t, <1>y, <1>r, <1>w, MoveStutters, GotoMoves, FinishMoves
       DEF DeleteGet, TaskOK, Calls, Creating, Same
  <2> QED BY <2>1 DEF LifeStep
<1>19. ASSUME NEW r \in Requests, DeleteRow(r) PROVE LifeStep
  <2> DEFINE i == req[r].id
  <2>1. PICK c \in Ids : c = i
    BY <1>19, <1>t, <1>y, <1>r DEF DeleteRow, TaskOK
  <2>2. \E pc \in {"ok", "err"} : Becomes(r, req[r].op, pc, c, None, None)
    BY <1>19, <1>t, <1>y, <2>1, FinishMoves DEF DeleteRow
  <2>3. CASE UNCHANGED db
    <3>1. \A j \in Ids : Same(j)
      BY <1>19, <1>t, <2>2, <2>3, MoveStutters DEF DeleteRow, Creating, Same
    <3> QED BY <3>1 DEF LifeStep
  <2>4. CASE db' = [db EXCEPT ![c] = None] /\ db[c] # None
    <3>1. /\ Life(c) = db[c].status /\ Life(c)' = "Gone"
          /\ \A k \in Ids : k # c => Life(k)' = Life(k)
      BY <1>19, <1>t, <2>2, <2>4, WriteMoves DEF DeleteRow, Creating
    <3>2. db[c].status \in {"Running"} \cup Registry!Settled
      BY <1>19, <1>t, <1>w, <1>r, <2>1, <2>4
         DEF DeleteRow, TaskOK, Begun, Registry!Settled, Statuses
    <3>3. Shift(c, {"Running"} \cup Registry!Settled, "Gone")
      BY <3>1, <3>2 DEF Shift, Same
    <3> QED BY <3>3 DEF LifeStep
  <2>5. CASE db' = [db EXCEPT ![c] = None] /\ db[c] = None
    BY <1>y, <2>3, <2>5 DEF TypeOK
  <2> QED BY <1>19, <2>1, <2>3, <2>4, <2>5 DEF DeleteRow
<1>20. ASSUME BootList PROVE LifeStep
  BY <1>20 DEF BootList, LifeStep, Same, Life, Pending
<1>21. ASSUME BootNext PROVE LifeStep
  <2> PICK i \in todo : Begin(Main, "start", "get", i)
    BY <1>21 DEF BootNext
  <2>1. Becomes(Main, "start", "get", i, None, None)
    BY <1>p, <1>t, <1>y, BeginMoves DEF Calls
  <2>2. \A j \in Ids : Same(j)
    BY <1>21, <1>t, <2>1, MoveStutters DEF BootNext, Creating, Same
  <2> QED BY <2>2 DEF LifeStep
<1>22. ASSUME BootDone PROVE LifeStep
  BY <1>22 DEF BootDone, LifeStep, Same, Life, Pending
<1>23. ASSUME NEW t \in Tasks, Reply(t) PROVE LifeStep
  <2>1. \A j \in Ids : Same(j)
    BY <1>23, <1>p, <1>t, <1>y, <1>r, <1>w, MoveStutters, DropMoves
       DEF Reply, TaskOK, Calls, Creating, Same
  <2> QED BY <2>1 DEF LifeStep
<1>24. ASSUME NEW r \in Requests, Cancel(r) PROVE LifeStep
  <2>1. Becomes(r, None, "idle", None, None, None) /\ UNCHANGED <<db, minted>>
    BY <1>24, <1>t, <1>y, DropMoves DEF Cancel
  <2>2. CASE req[r].pc \notin Creating
    <3>1. \A j \in Ids : Same(j)
      BY <1>t, <2>1, <2>2, MoveStutters DEF Creating, Same
    <3> QED BY <3>1 DEF LifeStep
  <2>3. CASE req[r].pc \in Creating
    <3>1. PICK c \in Ids : c = req[r].id /\ db[c] = None /\ c \in minted
      BY <1>t, <1>y, <1>r, <2>3 DEF TaskOK, Creating
    <3>2. Pending(c) /\ ~Pending(c)' /\ \A k : k # c => (Pending(k)' <=> Pending(k))
      BY <2>1, <2>3, <3>1, CreationEnds DEF Creating
    <3>3. Giveup({c})
      BY <2>1, <3>1, <3>2 DEF Giveup, Life
    <3> QED BY <3>3 DEF LifeStep
  <2> QED BY <2>2, <2>3
<1>25. ASSUME NEW p \in Pids, SinkExit(p) PROVE LifeStep
  BY <1>25 DEF SinkExit, LifeStep, Same, Life, Pending
<1>26. ASSUME NEW p \in Pids, TermExit(p) PROVE LifeStep
  BY <1>26 DEF TermExit, LifeStep, Same, Life, Pending
<1>27. ASSUME NEW p \in Pids, Reap(p) PROVE LifeStep
  BY <1>27 DEF Reap, LifeStep, Same, Life, Pending
<1>28. ASSUME NEW p \in Pids, ForeignStart(p) PROVE LifeStep
  BY <1>28 DEF ForeignStart, LifeStep, Same, Life, Pending
<1>29. ASSUME NEW p \in Pids, ForeignExit(p) PROVE LifeStep
  BY <1>29 DEF ForeignExit, LifeStep, Same, Life, Pending
<1>30. ASSUME Crash PROVE LifeStep
  <2> DEFINE S == {i \in Ids : Pending(i)}
  <2>1. \A i \in S : Life(i) = "Absent" /\ i \in minted /\ db[i] = None
    BY <1>y, <1>t, <1>r DEF Pending, Life, TaskOK
  <2>2. \A i : ~Pending(i)'
    BY <1>30, <1>t DEF Pending, Idle, Doing, Crash
  <2>3. UNCHANGED <<db, minted>>
    BY <1>30 DEF Crash
  <2>4. Giveup(S)
    BY <2>1, <2>2, <2>3 DEF Giveup, Life
  <2>5. S \in SUBSET Ids
    OBVIOUS
  <2> QED BY <2>4, <2>5 DEF LifeStep
<1>31. ASSUME Redeploy PROVE LifeStep
  <2> DEFINE S == {i \in Ids : Pending(i)}
  <2>1. \A i \in S : Life(i) = "Absent" /\ i \in minted /\ db[i] = None
    BY <1>y, <1>t, <1>r DEF Pending, Life, TaskOK
  <2>2. \A i : ~Pending(i)'
    BY <1>31, <1>t DEF Pending, Idle, Doing, Redeploy
  <2>3. UNCHANGED <<db, minted>>
    BY <1>31 DEF Redeploy
  <2>4. Giveup(S)
    BY <2>1, <2>2, <2>3 DEF Giveup, Life
  <2>5. S \in SUBSET Ids
    OBVIOUS
  <2> QED BY <2>4, <2>5 DEF LifeStep
<1>32. CASE UNCHANGED vars
  BY <1>32 DEF vars, LifeStep, Same, Life, Pending
<1> QED BY <1>1, <1>2, <1>3, <1>4, <1>5, <1>6, <1>7, <1>8, <1>9, <1>10, <1>11,
       <1>12, <1>13, <1>14, <1>15, <1>16, <1>17, <1>18, <1>19, <1>20, <1>21,
       <1>22, <1>23, <1>24, <1>25, <1>26, <1>27, <1>28, <1>29, <1>30, <1>31,
       <1>32, <1>t
     DEF Next, Client, Handle, StartStep, Boot, System

\* IndexerLifecycle implements the weak promise of the indexers table.
THEOREM Refinement == Spec => KeepsRegistry
<1>1. Init => Registry!Init
  BY DEF Init, Registry!Init, Life
<1>2. IndInv /\ TypeInv /\ [Next]_vars => [Registry!Next]_life
  BY LifeSteps, LifeStepImplements
<1> QED BY <1>1, <1>2, Inductive, PTL DEF Spec, KeepsRegistry, Registry!Spec, life
=============================================================================
