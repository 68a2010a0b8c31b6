-------------------------- MODULE SinkRuntimeProofs --------------------------
(***************************************************************************)
(* Proofs about SinkRuntime: it is a detailed IndexerLifecycle, so what is *)
(* proved of that holds of it; its own variables are well typed; and a     *)
(* sink reads its script before another start truncates the file.          *)
(***************************************************************************)
EXTENDS SinkRuntime, IndexerSinkProofs

-----------------------------------------------------------------------------
(* Every step with files, sinks and ports is a step of the lifecycle or    *)
(* leaves it alone.                                                        *)

\* Each step is one of the lifecycle, or a stutter of it.
LEMMA StepImplements == ASSUME [RuntimeNext]_allvars PROVE [Next]_vars
<1>1. CASE UNCHANGED allvars
  BY <1>1 DEF allvars
<1>2. CASE LifecycleStep
  BY <1>2 DEF LifecycleStep
<1>3. ASSUME NEW t \in Tasks, OpenFile(t) \/ WriteFile(t) PROVE UNCHANGED vars
  BY <1>3 DEF OpenFile, WriteFile
<1>4. ASSUME NEW p \in Pids, Load(p) \/ Listen(p) PROVE UNCHANGED vars
  BY <1>4 DEF Load, Listen
<1>5. ASSUME NEW q \in Askers, NEW i \in Ids, AskStatus(q, i) PROVE UNCHANGED vars
  BY <1>5 DEF AskStatus
<1>6. ASSUME NEW q \in Askers, NEW n \in Names, AskStatusByTable(q, n) PROVE UNCHANGED vars
  BY <1>6 DEF AskStatusByTable
<1>7. ASSUME NEW q \in Askers, AnswerStatus(q) PROVE UNCHANGED vars
  BY <1>7 DEF AnswerStatus
<1> QED BY <1>1, <1>2, <1>3, <1>4, <1>5, <1>6, <1>7 DEF RuntimeNext

\* The service with its files, sinks and ports is still the service of
\* IndexerLifecycle: each of its runs is a run of that specification.
THEOREM RuntimeImplements == RuntimeSpec => Spec
<1>1. RuntimeInit => Init
  BY DEF RuntimeInit
<1>2. [RuntimeNext]_allvars => [Next]_vars
  BY StepImplements
<1> QED BY <1>1, <1>2, PTL DEF RuntimeSpec, Spec

-----------------------------------------------------------------------------
(* Type correctness.  RuntimeTypeOK alone is not inductive: WriteFile      *)
(* names the file after the indexer of its task, which only a task in the  *)
(* middle of a start is known to have.                                     *)

WritesInStart == \A t \in Tasks : stage[t] # "none" => At(t, "spawn")

RuntimeInv == RuntimeTypeOK /\ WritesInStart

\* At first no file is open.
LEMMA RuntimeInvInit == RuntimeInit => RuntimeInv
BY DEF RuntimeInit, RuntimeInv, RuntimeTypeOK, WritesInStart

\* A task that is about to spawn a sink has an indexer.
LEMMA SpawnerKnowsIndexer ==
  ASSUME TypeInv, NEW t \in Tasks, At(t, "spawn") PROVE req[t].id \in Ids
BY DEF TypeInv, TaskComplete, TypeOK, Task, At

\* What a lifecycle step does to files, sinks and ports keeps their types.
LEMMA LifecycleStepKeeps ==
  ASSUME RuntimeInv, LifecycleStep PROVE RuntimeInv'
<1> USE DEF RuntimeInv, RuntimeTypeOK
<1>1. (stage \in [Tasks -> {"none", "open", "written"}])'
  BY DEF LifecycleStep
<1>2. (whole \subseteq Ids)'
  BY DEF LifecycleStep
<1>3. (code \in [Pids -> {"unread", "whole", "torn"}])'
  BY DEF LifecycleStep
<1>4. (server \in [Ports -> Pids \cup {None}])'
  BY DEF LifecycleStep
<1>5. (ask \in [Askers -> SUBSET Ids])'
  BY DEF LifecycleStep
<1>6. WritesInStart'
  BY DEF LifecycleStep, WritesInStart, At
<1> QED BY <1>1, <1>2, <1>3, <1>4, <1>5, <1>6

\* So does every other step, and files are opened by starts only.
LEMMA RuntimeInvStep ==
  ASSUME RuntimeInv, TypeInv, [RuntimeNext]_allvars PROVE RuntimeInv'
<1> USE DEF RuntimeInv, RuntimeTypeOK, WritesInStart, At
<1>1. CASE UNCHANGED allvars
  BY <1>1 DEF allvars, runtime, vars
<1>2. CASE LifecycleStep
  BY <1>2, LifecycleStepKeeps
<1>3. ASSUME NEW t \in Tasks, OpenFile(t) PROVE RuntimeInv'
  BY <1>3 DEF OpenFile, vars
<1>4. ASSUME NEW t \in Tasks, WriteFile(t) PROVE RuntimeInv'
  <2>1. req[t].id \in Ids
    BY <1>4, SpawnerKnowsIndexer DEF WriteFile
  <2> QED BY <1>4, <2>1 DEF WriteFile, vars
<1>5. ASSUME NEW p \in Pids, Load(p) PROVE RuntimeInv'
  BY <1>5 DEF Load, vars
<1>6. ASSUME NEW p \in Pids, Listen(p) PROVE RuntimeInv'
  BY <1>6 DEF Listen, vars
<1>7. ASSUME NEW q \in Askers, NEW i \in Ids, AskStatus(q, i) PROVE RuntimeInv'
  BY <1>7 DEF AskStatus, vars
<1>8. ASSUME NEW q \in Askers, NEW n \in Names, AskStatusByTable(q, n) PROVE RuntimeInv'
  BY <1>8 DEF AskStatusByTable, vars
<1>9. ASSUME NEW q \in Askers, AnswerStatus(q) PROVE RuntimeInv'
  BY <1>9 DEF AnswerStatus, vars
<1> QED BY <1>1, <1>2, <1>3, <1>4, <1>5, <1>6, <1>7, <1>8, <1>9 DEF RuntimeNext

\* Only a task in the middle of a start has a script file open, in every run.
LEMMA RuntimeInductive == RuntimeSpec => []RuntimeInv
<1>1. RuntimeInv /\ TypeInv /\ [RuntimeNext]_allvars => RuntimeInv'
  BY RuntimeInvStep
<1>2. Spec => [](IndInv /\ TypeInv)
  BY Inductive
<1> QED BY <1>1, <1>2, RuntimeInvInit, RuntimeImplements, PTL DEF RuntimeSpec

\* Files, loaded scripts, ports and status requests are well typed in every run,
\* whatever the tables are named and however many status requests are in flight.
THEOREM RuntimeTypeCorrect == RuntimeSpec => []RuntimeTypeOK
<1>1. RuntimeInv => RuntimeTypeOK
  BY DEF RuntimeInv
<1> QED BY <1>1, RuntimeInductive, PTL

-----------------------------------------------------------------------------
(* The script file.  A start opens it only when no sink of its indexer     *)
(* runs, so whoever has still to read it finds it whole.                   *)

ScriptInv ==
  /\ RunsWholeScript
  /\ \A p \in Pids :
       /\ proc[p].st = "up" /\ proc[p].owner \in Ids /\ code[p] = "unread"
            => proc[p].owner \in whole
       /\ proc[p].st \notin {"up", "term"} => code[p] = "unread"
  /\ \A t \in Tasks : stage[t] = "written" => req[t].id \in whole

\* A task gets to the script file from the download only.
LEMMA Openers ==
  ASSUME TypeInv, [Next]_vars, NEW t \in Tasks, req'[t].pc = "spawn"
  PROVE  req'[t] = req[t] \/ At(t, "fetch")
<1>1. req \in [Tasks -> Task] /\ Requests \subseteq Tasks /\ Main \in Tasks
  BY DEF TypeInv, TypeOK, Tasks
<1>2. ASSUME NEW u \in Tasks, NEW op, NEW pc, pc # "spawn", NEW i, Begin(u, op, pc, i)
      PROVE  req'[t] = req[t]
  BY <1>1, <1>2 DEF Begin, Doing
<1>3. ASSUME NEW u \in Tasks, NEW pc, pc # "spawn" \/ At(u, "fetch"), Goto(u, pc)
      PROVE  req'[t] = req[t] \/ At(t, "fetch")
  BY <1>1, <1>3 DEF Goto, Task
<1>4. ASSUME NEW u \in Tasks, NEW pc, pc # "spawn", NEW p, Read(u, pc, p) PROVE req'[t] = req[t]
  BY <1>1, <1>4 DEF Read, Task
<1>5. ASSUME NEW u \in Tasks, NEW s, Intend(u, s) PROVE req'[t] = req[t]
  BY <1>1, <1>5 DEF Intend, Task
<1>6. ASSUME NEW u \in Tasks, Drop(u) PROVE req'[t] = req[t]
  BY <1>1, <1>6 DEF Drop, Idle, Doing
<1>7. ASSUME NEW u \in Tasks, Started(u) PROVE req'[t] = req[t]
  BY <1>2, <1>7 DEF Started, Finish
<1>8. ASSUME NEW q \in Requests, Client(q) \/ Put(q) \/ Commit(q) \/ Query(q) \/ FailGet(q)
      PROVE  req'[t] = req[t] \/ At(t, "fetch")
  BY <1>1, <1>2, <1>3, <1>5, <1>6, <1>8
     DEF Client, Create, Start, Stop, Delete, Cancel, Put, Commit, Query, FailGet, Finish
<1>9. ASSUME NEW u \in Tasks, StartStep(u) PROVE req'[t] = req[t] \/ At(t, "fetch")
  BY <1>2, <1>3, <1>4, <1>7, <1>9 DEF StartStep, Get, Check, Fetch, Spawn, Save, Finish
<1>10. ASSUME NEW q \in Requests, StopGet(q) \/ StopProbe(q) \/ Kill(q) \/ Mark(q)
                                 \/ DeleteGet(q) \/ DeleteRow(q)
       PROVE  req'[t] = req[t] \/ At(t, "fetch")
  BY <1>1, <1>2, <1>3, <1>4, <1>5, <1>10
     DEF StopGet, StopProbe, Kill, Mark, DeleteGet, DeleteRow, Finish
<1>11. ASSUME NEW u \in Tasks, Reply(u) PROVE req'[t] = req[t]
  BY <1>6, <1>11 DEF Reply
<1>12. ASSUME BootList \/ BootNext \/ BootDone PROVE req'[t] = req[t]
  BY <1>1, <1>2, <1>12 DEF BootList, BootNext, BootDone
<1>13. ASSUME NEW p \in Pids, System(p) PROVE req'[t] = req[t]
  BY <1>13 DEF System, SinkExit, TermExit, Reap, ForeignStart, ForeignExit
<1>14. ASSUME Crash \/ Redeploy PROVE FALSE
  BY <1>1, <1>14 DEF Crash, Redeploy, Idle, Doing
<1>15. CASE UNCHANGED vars
  BY <1>15 DEF vars
<1> QED BY <1>1, <1>8, <1>9, <1>10, <1>11, <1>12, <1>13, <1>14, <1>15
     DEF Next, Handle, Boot

\* A process that keeps running keeps its owner.
LEMMA StaysUp ==
  ASSUME TypeInv, [Next]_vars, NEW p \in Pids, proc[p].st = "up", proc'[p].st = "up"
  PROVE  proc'[p].owner = proc[p].owner
<1>1. proc \in [Pids -> Process]
  BY DEF TypeInv, TypeOK
<1>2. ASSUME NEW t \in Tasks, Spawn(t) PROVE proc'[p] = proc[p]
  BY <1>1, <1>2 DEF Spawn, Assignable, Free
<1>3. ASSUME NEW q \in Pids, System(q) PROVE proc'[p] = proc[p]
  <2>1. Ended(q).st # "up" /\ Free.st # "up"
    BY <1>1 DEF Ended, Free, Process
  <2>2. PICK new : proc' = [proc EXCEPT ![q] = new] /\ (new.st # "up" \/ proc[q] = Free)
    BY <1>3, <2>1 DEF System, SinkExit, TermExit, Reap, ForeignStart, ForeignExit, Assignable
  <2> QED BY <1>1, <2>1, <2>2
<1>4. ASSUME NEW r \in Requests, Kill(r) PROVE proc'[p].owner = proc[p].owner
  BY <1>1, <1>4 DEF Kill, Process
<1>5. ASSUME Crash \/ Redeploy PROVE proc'[p].owner = proc[p].owner
  BY <1>1, <1>5 DEF Crash, Redeploy, Free, Process
<1> QED BY <1>2, <1>3, <1>4, <1>5
     DEF Next, vars, Client, Handle, StartStep, Boot, Tasks,
         Create, Put, Commit, Query, FailGet, Start, Get, Check, Fetch, Save,
         Stop, StopGet, StopProbe, Mark, Delete, DeleteGet, DeleteRow,
         BootList, BootNext, BootDone, Reply, Cancel

\* A step of the lifecycle brings up only sinks whose file is written.
LEMMA LifecycleKeepsScripts ==
  ASSUME ScriptInv, RuntimeInv, TypeInv, LifecycleStep PROVE ScriptInv'
<1>1. /\ [Next]_vars
      /\ \A t \in Tasks : At(t, "spawn") /\ req'[t].pc = "save" => stage[t] = "written"
      /\ stage' = [t \in Tasks |-> IF req'[t].pc = "spawn" THEN stage[t] ELSE "none"]
      /\ whole' = IF Redeploy THEN {} ELSE whole
      /\ code' = [p \in Pids |-> IF LivesOn(p) THEN code[p] ELSE "unread"]
  BY DEF LifecycleStep, SpawnsWhatIsWritten
<1>2. ASSUME NEW p \in Pids, proc[p].st # "up", proc'[p].st = "up"
      PROVE  /\ code'[p] = "unread"
             /\ proc'[p].owner \in Ids => proc'[p].owner \in whole
  <2>1. code[p] = "unread"
    <3>1. proc[p] = Free
      BY <1>1, <1>2, ComesUp DEF Assignable
    <3> QED BY <3>1 DEF ScriptInv, Free
  <2>2. CASE proc'[p].owner = Foreign
    BY <1>1, <2>1, <2>2, ConstantsOK
  <2>3. ASSUME NEW t \in Tasks, Spawn(t), proc'[p].owner = req[t].id, req'[t].pc = "save"
        PROVE  proc'[p].owner \in whole
    BY <1>1, <2>3 DEF Spawn, ScriptInv
  <2> QED BY <1>1, <1>2, <2>1, <2>2, <2>3, ComesUp
<1>3. ASSUME NEW p \in Pids, proc'[p].st = "up" PROVE ~Redeploy
  BY <1>3 DEF Redeploy, Free
<1>4. ASSUME NEW p \in Pids, proc[p].st = "up", proc'[p].st = "up"
      PROVE  code'[p] = code[p] /\ proc'[p].owner = proc[p].owner
  BY <1>1, <1>4, StaysUp DEF LivesOn
<1>5. RunsWholeScript'
  BY <1>2, <1>4 DEF RunsWholeScript, ScriptInv
<1>6. \A p \in Pids : proc'[p].st = "up" /\ proc'[p].owner \in Ids /\ code'[p] = "unread"
                       => proc'[p].owner \in whole'
  BY <1>1, <1>2, <1>3, <1>4 DEF ScriptInv
<1>7. \A p \in Pids : proc'[p].st \notin {"up", "term"} => code'[p] = "unread"
  BY <1>1 DEF LivesOn
<1>8. ASSUME NEW t \in Tasks, stage'[t] = "written" PROVE req'[t].id \in whole'
  <2>1. req'[t].pc = "spawn" /\ stage[t] = "written" /\ At(t, "spawn")
    BY <1>1, <1>8 DEF RuntimeInv, WritesInStart
  <2>2. req'[t] = req[t]
    BY <1>1, <2>1, Openers DEF At
  <2>3. ~Redeploy
    BY <2>1 DEF Redeploy, Idle, Doing
  <2> QED BY <1>1, <2>1, <2>2, <2>3 DEF ScriptInv
<1> QED BY <1>5, <1>6, <1>7, <1>8 DEF ScriptInv

\* With one request at a time, no file is opened that a sink has still to read.
LEMMA ScriptStep ==
  ASSUME OneAtATime, ScriptInv, RuntimeInv, SinkInv, SerialInv, TypeInv, [RuntimeNext]_allvars
  PROVE  ScriptInv'
<1>1. CASE UNCHANGED allvars
  BY <1>1 DEF allvars, vars, runtime, ScriptInv, RunsWholeScript
<1>2. CASE LifecycleStep
  BY <1>2, LifecycleKeepsScripts
<1>3. ASSUME NEW t \in Tasks, OpenFile(t) PROVE ScriptInv'
  <2>1. req[t].pc = "spawn" /\ Sinks(req[t].id) = {}
    BY <1>3 DEF OpenFile, SinkInv, Sees, At
  <2>2. \A u \in Tasks : u # t => stage[u] # "written"
    BY <2>1, OthersIdle DEF SerialInv, Alone, RuntimeInv, WritesInStart, At
  <2>3. stage'[t] = "open" /\ \A u \in Tasks : u # t => stage'[u] = stage[u]
    BY <1>3 DEF OpenFile, RuntimeInv, RuntimeTypeOK
  <2> QED BY <1>3, <2>1, <2>2, <2>3 DEF OpenFile, ScriptInv, RunsWholeScript, Sinks, vars
<1>4. ASSUME NEW t \in Tasks, WriteFile(t) PROVE ScriptInv'
  BY <1>4 DEF WriteFile, ScriptInv, RunsWholeScript, vars, RuntimeInv, RuntimeTypeOK
<1>5. ASSUME NEW p \in Pids, Load(p) PROVE ScriptInv'
  BY <1>5 DEF Load, ScriptInv, RunsWholeScript, vars, RuntimeInv, RuntimeTypeOK
<1>6. ASSUME NEW p \in Pids, Listen(p) PROVE ScriptInv'
  BY <1>6 DEF Listen, ScriptInv, RunsWholeScript, vars
<1>7. ASSUME NEW q \in Askers,
             \/ \E i \in Ids : AskStatus(q, i)
             \/ \E n \in Names : AskStatusByTable(q, n)
             \/ AnswerStatus(q)
      PROVE  ScriptInv'
  BY <1>7 DEF AskStatus, AskStatusByTable, AnswerStatus, ScriptInv, RunsWholeScript, vars
<1> QED BY <1>1, <1>2, <1>3, <1>4, <1>5, <1>6, <1>7 DEF RuntimeNext

\* With one request at a time, while sinks exit, reads, spawns and kills fail, other
\* processes come, pids are reused and the service moves to new machines, no sink ever
\* runs a script that was truncated under it.
THEOREM WholeScripts == ASSUME OneAtATime, Gentle PROVE RuntimeSpec => []RunsWholeScript
<1>1. RuntimeInit => ScriptInv
  BY DEF RuntimeInit, Init, ScriptInv, RunsWholeScript, Free
<1>2. ScriptInv => RunsWholeScript
  BY DEF ScriptInv
<1>3. ScriptInv /\ RuntimeInv /\ SinkInv /\ SerialInv /\ TypeInv /\ [RuntimeNext]_allvars
        => ScriptInv'
  BY ScriptStep
<1> QED BY <1>1, <1>2, <1>3, RuntimeInductive, RuntimeImplements, SinkInductive, PTL DEF RuntimeSpec
=============================================================================
