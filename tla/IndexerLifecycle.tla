-------------------------- MODULE IndexerLifecycle --------------------------
(***************************************************************************)
(* The indexer service: the handlers of create, start, stop and delete and *)
(* the boot loop of main.  A handler is a task that runs from one          *)
(* database, store or process call to the next; tasks interleave at every  *)
(* such call, and the world can fail, disconnect, crash or restart between *)
(* any two of them, as far as Faults allows.                               *)
(***************************************************************************)
EXTENDS IndexerState

-----------------------------------------------------------------------------
(* Faulty forms of some actions, each the way a plausible bug would change *)
(* it.  No specification uses them: the properties are tried against them. *)

\* The transaction is committed without waiting for the upload.
CreateWithoutUpload(r) ==
  /\ svc = "up" /\ At(r, "idle")
  /\ \E i \in Ids \ minted :
       /\ minted' = minted \cup {i}
       /\ Begin(r, "create", "commit", i)
  /\ UNCHANGED <<db, store, proc, svc, todo>>

\* The status that stop decided on is dropped.
StopProbeLosingStatus(r) ==
  /\ At(r, "alive")
  /\ Goto(r, "mark")
  /\ UNCHANGED <<db, store, minted, proc, svc, todo>>

\* start writes the status with update_status, which leaves the pid alone.
SaveStatusOnly(t) ==
  /\ At(t, "save")
  /\ Update(req[t].id, [db[req[t].id] EXCEPT !.status = "Running"])
  /\ Started(t)
  /\ UNCHANGED <<store, minted, proc, svc, todo>>

\* delete does not look at the status.
DeleteGetAnyStatus(r) ==
  /\ At(r, "delget")
  /\ IF db[req[r].id] # None THEN Goto(r, "del") ELSE Finish(r, "err")
  /\ UNCHANGED <<db, store, minted, proc, svc, todo>>

\* A Running indexer is started again without asking for its process.
CheckNothing(t) ==
  /\ At(t, "check")
  /\ Read(t, "fetch", None)
  /\ UNCHANGED <<db, store, minted, proc, svc, todo>>

\* A Running indexer is taken to be running.
CheckTrusting(t) ==
  /\ At(t, "check")
  /\ Started(t)
  /\ UNCHANGED <<db, store, minted, proc, svc, todo>>

\* stop finds its row by table name, which several indexers may share.
StopGetByTableName(r) ==
  /\ At(r, "stopget")
  /\ \E i \in Ids :
       /\ db[i] # None /\ db[i].status = "Running"
       /\ Read(r, "alive", db[i].pid)
  /\ UNCHANGED <<db, store, minted, proc, svc, todo>>

\* stop asks for the process but does not signal it.
StopProbeWithoutKill(r) ==
  /\ At(r, "alive")
  /\ Intend(r, "Stopped")
  /\ UNCHANGED <<db, store, minted, proc, svc, todo>>

\* stop refuses only what is stopped already.
StopGetUnlessStopped(r) ==
  /\ At(r, "stopget")
  /\ LET row == db[req[r].id] IN
     IF row # None /\ row.status # "Stopped"
     THEN Read(r, "alive", row.pid)
     ELSE Finish(r, "err")
  /\ UNCHANGED <<db, store, minted, proc, svc, todo>>

-----------------------------------------------------------------------------
(* POST /v1/indexers.  The row is inserted in an open transaction, so only *)
(* the commit shows it; the upload sits between the two.                   *)

\* The form was accepted and the INSERT is pending under a fresh uuid.  A form
\* that is rejected, or an INSERT that fails, leaves no trace: no step.
Create(r) ==
  /\ svc = "up" /\ At(r, "idle")
  /\ \E i \in Ids \ minted :
       /\ minted' = minted \cup {i}
       /\ Begin(r, "create", "put", i)
  /\ UNCHANGED <<db, store, proc, svc, todo>>

Put(r) ==
  /\ At(r, "put")
  /\ \/ store' = store \cup {req[r].id} /\ Goto(r, "commit")
     \/ /\ Can("write")
        /\ store' \in {store, store \cup {req[r].id}}
        /\ Finish(r, "err")
  /\ UNCHANGED <<db, minted, proc, svc, todo>>

NewRow == [status |-> "Created", pid |-> None]

Commit(r) ==
  /\ At(r, "commit")
  /\ \/ db' = [db EXCEPT ![req[r].id] = NewRow] /\ Goto(r, "get")
     \/ /\ Can("write")
        /\ db' \in {db, [db EXCEPT ![req[r].id] = NewRow]}
        /\ Finish(r, "err")
  /\ UNCHANGED <<store, minted, proc, svc, todo>>

\* Five seconds after the start, the status server is asked; 1 means running.
\* A query that fails is answered with its error and nothing else is done.
Query(r) ==
  /\ At(r, "query")
  /\ \/ Finish(r, "ok") \/ Finish(r, "err")
     \/ Can("sick") /\ Goto(r, "failget")
  /\ UNCHANGED <<db, store, minted, proc, svc, todo>>

\* fail_indexer only rewrites the status of a row it read as Running.
FailGet(r) ==
  /\ At(r, "failget")
  /\ LET row == db[req[r].id] IN
     \/ row # None /\ row.status = "Running" /\ Intend(r, "FailedRunning")
     \/ row # None /\ row.status # "Running" /\ Finish(r, "err")
     \/ (row = None \/ Can("read")) /\ Finish(r, "err")
  /\ UNCHANGED <<db, store, minted, proc, svc, todo>>

-----------------------------------------------------------------------------
(* start_indexer, for a start request, after a commit, or from the boot.   *)

Start(r, i) ==
  /\ svc = "up" /\ At(r, "idle") /\ i \in minted
  /\ Begin(r, "start", "get", i)
  /\ UNCHANGED <<db, store, minted, proc, svc, todo>>

Get(t) ==
  /\ At(t, "get")
  /\ LET row == db[req[t].id] IN
     \/ /\ row # None /\ row.status \in {"Created", "Stopped", "FailedRunning"}
        /\ Goto(t, "fetch")
     \/ /\ row # None /\ row.status = "Running"
        /\ Read(t, "check", row.pid)
     \/ row # None /\ row.status = "FailedStopping" /\ Finish(t, "err")
     \/ (row = None \/ Can("read")) /\ Finish(t, "err")
  /\ UNCHANGED <<db, store, minted, proc, svc, todo>>

\* A Running row is started again only if its pid is not alive.
Check(t) ==
  /\ At(t, "check")
  /\ IF req[t].pid = None THEN Finish(t, "err")
     ELSE \E running \in Probe(req[t].pid) :
            IF running THEN Started(t)
            ELSE Read(t, "fetch", None)
  /\ UNCHANGED <<db, store, minted, proc, svc, todo>>

Fetch(t) ==
  /\ At(t, "fetch")
  /\ \/ req[t].id \in store /\ Goto(t, "spawn")
     \/ (req[t].id \notin store \/ Can("read")) /\ Finish(t, "err")
  /\ UNCHANGED <<db, store, minted, proc, svc, todo>>

\* The script is written to a temporary file and the sink is spawned.
Spawn(t) ==
  /\ At(t, "spawn")
  /\ \/ \E p \in Pids :
          /\ Assignable(p)
          /\ proc' = [proc EXCEPT ![p] = [owner |-> req[t].id, st |-> "up", kid |-> TRUE]]
          /\ Read(t, "save", p)
     \/ Can("spawn") /\ Finish(t, "err") /\ UNCHANGED proc
  /\ UNCHANGED <<db, store, minted, svc, todo>>

Save(t) ==
  /\ At(t, "save")
  /\ LET i   == req[t].id
         row == [status |-> "Running", pid |-> req[t].pid] IN
     \/ Update(i, row) /\ Started(t)
     \/ (db[i] = None \/ Can("write")) /\ UNCHANGED db /\ Finish(t, "err")
     \/ Can("write") /\ Update(i, row) /\ Finish(t, "err")
  /\ UNCHANGED <<store, minted, proc, svc, todo>>

-----------------------------------------------------------------------------
(* POST /v1/indexers/stop/:id                                              *)

Stop(r, i) ==
  /\ svc = "up" /\ At(r, "idle") /\ i \in minted
  /\ Begin(r, "stop", "stopget", i)
  /\ UNCHANGED <<db, store, minted, proc, svc, todo>>

StopGet(r) ==
  /\ At(r, "stopget")
  /\ LET row == db[req[r].id] IN
     \/ /\ row # None /\ row.status = "Running"
        /\ Read(r, "alive", row.pid)
     \/ row # None /\ row.status # "Running" /\ Finish(r, "err")
     \/ (row = None \/ Can("read")) /\ Finish(r, "err")
  /\ UNCHANGED <<db, store, minted, proc, svc, todo>>

\* Only the error text of a process that is not running leads to Stopped.
StopProbe(r) ==
  /\ At(r, "alive")
  /\ IF req[r].pid = None THEN Intend(r, "FailedStopping")
     ELSE \E running \in Probe(req[r].pid) :
            IF running THEN Goto(r, "kill") ELSE Intend(r, "Stopped")
  /\ UNCHANGED <<db, store, minted, proc, svc, todo>>

\* kill PID succeeds on anything that still has the pid, a zombie included,
\* unless the process is another user's.  It does not wait for the exit.
Kill(r) ==
  /\ At(r, "kill")
  /\ LET pid == req[r].pid IN
     \/ /\ proc[pid].st # "free"
        /\ proc' = [proc EXCEPT ![pid].st = IF @ = "up" THEN "term" ELSE @]
        /\ Intend(r, "Stopped")
     \/ /\ proc[pid].st = "free" \/ proc[pid].owner = Foreign \/ Can("spawn")
        /\ Intend(r, "FailedStopping")
        /\ UNCHANGED proc
  /\ UNCHANGED <<db, store, minted, svc, todo>>

\* The last write of stop and of fail_indexer: the status, whatever it is by now.
Mark(r) ==
  /\ At(r, "mark")
  /\ LET i   == req[r].id
         row == [db[i] EXCEPT !.status = req[r].to] IN
     \/ Update(i, row) /\ Finish(r, "ok")
     \/ (db[i] = None \/ Can("write")) /\ UNCHANGED db /\ Finish(r, "err")
     \/ Can("write") /\ Update(i, row) /\ Finish(r, "err")
  /\ UNCHANGED <<store, minted, proc, svc, todo>>

-----------------------------------------------------------------------------
(* DELETE /v1/indexers/delete/:id                                          *)

Delete(r, i) ==
  /\ svc = "up" /\ At(r, "idle") /\ i \in minted
  /\ Begin(r, "delete", "delget", i)
  /\ UNCHANGED <<db, store, minted, proc, svc, todo>>

DeleteGet(r) ==
  /\ At(r, "delget")
  /\ LET row == db[req[r].id] IN
     \/ row # None /\ row.status = "Stopped" /\ Goto(r, "del")
     \/ row # None /\ row.status # "Stopped" /\ Finish(r, "err")
     \/ (row = None \/ Can("read")) /\ Finish(r, "err")
  /\ UNCHANGED <<db, store, minted, proc, svc, todo>>

\* Deleting by id succeeds on no row too; the script stays in the store.
DeleteRow(r) ==
  /\ At(r, "del")
  /\ LET gone == [db EXCEPT ![req[r].id] = None] IN
     \/ db' = gone /\ Finish(r, "ok")
     \/ Can("write") /\ db' \in {db, gone} /\ Finish(r, "err")
  /\ UNCHANGED <<store, minted, proc, svc, todo>>

-----------------------------------------------------------------------------
(* The boot: main lists the Running rows and starts them one by one, in    *)
(* the order of an unordered SELECT, ignoring every error.                 *)

BootList ==
  /\ svc = "down"
  /\ svc' = "boot"
  /\ todo' = IF DevEnv THEN {} ELSE RowsWith("Running")
  /\ UNCHANGED <<db, store, minted, proc, req>>

BootNext ==
  /\ svc = "boot" /\ At(Main, "idle")
  /\ \E i \in todo : Begin(Main, "start", "get", i) /\ todo' = todo \ {i}
  /\ UNCHANGED <<db, store, minted, proc, svc>>

BootDone ==
  /\ svc = "boot" /\ At(Main, "idle") /\ todo = {}
  /\ svc' = "up"
  /\ UNCHANGED <<db, store, minted, proc, req, todo>>

-----------------------------------------------------------------------------
(* The end of a request, and the world around the handlers.                *)

Reply(t) ==
  /\ At(t, "ok") \/ At(t, "err")
  /\ Drop(t)
  /\ UNCHANGED <<db, store, minted, proc, svc, todo>>

\* The client is gone and the handler's future is dropped where it awaits; a
\* pending transaction rolls back, a spawned child is not killed.
Cancel(r) ==
  /\ Can("cancel") /\ ~At(r, "idle")
  /\ Drop(r)
  /\ UNCHANGED <<db, store, minted, proc, svc, todo>>

SinkExit(p) ==
  /\ Can("exit") /\ proc[p].st = "up" /\ proc[p].owner \in Ids
  /\ proc' = [proc EXCEPT ![p] = Ended(p)]
  /\ UNCHANGED <<db, store, minted, req, svc, todo>>

\* A process that got SIGTERM exits in its own time.
TermExit(p) ==
  /\ proc[p].st = "term"
  /\ proc' = [proc EXCEPT ![p] = Ended(p)]
  /\ UNCHANGED <<db, store, minted, req, svc, todo>>

\* The reader task of a sink sees wait() return, logs, and is done: no row is
\* touched.
Reap(p) ==
  /\ proc[p].st = "zombie"
  /\ proc' = [proc EXCEPT ![p] = Free]
  /\ UNCHANGED <<db, store, minted, req, svc, todo>>

ForeignStart(p) ==
  /\ Can("foreign") /\ Assignable(p)
  /\ proc' = [proc EXCEPT ![p] = [owner |-> Foreign, st |-> "up", kid |-> FALSE]]
  /\ UNCHANGED <<db, store, minted, req, svc, todo>>

ForeignExit(p) ==
  /\ proc[p].owner = Foreign /\ proc[p].st = "up"
  /\ proc' = [proc EXCEPT ![p] = Ended(p)]
  /\ UNCHANGED <<db, store, minted, req, svc, todo>>

\* The service dies: its tasks are lost, its sinks are adopted and its zombies
\* reaped by init.
Crash ==
  /\ Can("crash") /\ svc # "down"
  /\ svc' = "down" /\ todo' = {}
  /\ req' = [t \in Tasks |-> Idle]
  /\ proc' = [p \in Pids |-> IF proc[p].st = "zombie" THEN Free
                             ELSE [proc[p] EXCEPT !.kid = FALSE]]
  /\ UNCHANGED <<db, store, minted>>

Redeploy ==
  /\ Can("redeploy") /\ svc # "down"
  /\ svc' = "down" /\ todo' = {}
  /\ req' = [t \in Tasks |-> Idle]
  /\ proc' = [p \in Pids |-> Free]
  /\ UNCHANGED <<db, store, minted>>

-----------------------------------------------------------------------------
StartStep(t) == Get(t) \/ Check(t) \/ Fetch(t) \/ Spawn(t) \/ Save(t)

\* What the service does once a request is in: everything but the clients.
Handle(r) ==
  \/ Put(r) \/ Commit(r) \/ Query(r) \/ FailGet(r)
  \/ StartStep(r)
  \/ StopGet(r) \/ StopProbe(r) \/ Kill(r) \/ Mark(r)
  \/ DeleteGet(r) \/ DeleteRow(r)
  \/ Reply(r)

Boot == BootList \/ BootNext \/ BootDone \/ StartStep(Main) \/ Reply(Main)

Client(r) ==
  \/ Create(r) \/ Cancel(r)
  \/ \E i \in Ids : Start(r, i) \/ Stop(r, i) \/ Delete(r, i)

System(p) == SinkExit(p) \/ TermExit(p) \/ Reap(p) \/ ForeignStart(p) \/ ForeignExit(p)

Next ==
  \/ \E r \in Requests : Client(r) \/ Handle(r)
  \/ Boot
  \/ \E p \in Pids : System(p)
  \/ Crash \/ Redeploy

Spec == Init /\ [][Next]_vars

\* The runtime keeps polling every handler and the boot, a supervisor restarts
\* the service, SIGTERM ends a sink and exited children are waited for.
\* Clients, failures and unrelated processes owe nothing.
Fairness ==
  /\ \A r \in Requests : WF_vars(Handle(r))
  /\ WF_vars(Boot)
  /\ \A p \in Pids : WF_vars(TermExit(p)) /\ WF_vars(Reap(p))

FairSpec == Spec /\ Fairness

-----------------------------------------------------------------------------
(* What must hold however requests, failures and restarts interleave.      *)

\* An indexer has a process id exactly once it has been started: a Running,
\* Stopped or Failed row can always be asked for its process, and is_running
\* and stop never meet the "without process id" error.
PidRecorded ==
  \A i \in Ids : db[i] # None => (db[i].pid = None <=> db[i].status = "Created")

\* A row never shows before its script is stored, and the script outlives it:
\* start can only miss a script because the store fails.
ScriptStored == \A i \in Ids : db[i] # None => i \in store

Pending(i) == \E r \in Requests : req[r].pc \in {"put", "commit"} /\ req[r].id = i

Life(i) == IF i \notin minted \/ Pending(i) THEN "Absent"
           ELSE IF db[i] = None THEN "Gone" ELSE db[i].status

Registry == INSTANCE IndexerRegistry WITH life <- [i \in Ids |-> Life(i)]

\* Interleaved handlers still keep the weak promise of the table: no status
\* appears on an indexer that was never started, Created and FailedStopping are
\* entered only as the handlers do, and what was deleted never comes back.
KeepsRegistry == Registry!Spec

-----------------------------------------------------------------------------
(* The inductive invariant behind PidRecorded and ScriptStored: what a     *)
(* task relies on when it takes its next step, whatever the others did     *)
(* since it read the row.                                                  *)

Begun(i) == db[i] # None => db[i].status # "Created"

TaskOK(t) ==
  LET i == req[t].id IN
  /\ ~At(t, "idle") => i \in minted
  /\ req[t].pc \in {"check", "save", "alive", "kill"} => req[t].pid \in Pids
  /\ At(t, "mark") => req[t].to \in Registry!Settled
  /\ req[t].pc \in {"alive", "kill", "mark", "del"} => Begun(i)
  /\ req[t].pc \in {"put", "commit"} => db[i] = None
  /\ At(t, "commit") => i \in store

\* While a creation is pending, nobody else has got past reading its row.
Fresh ==
  \A r, t \in Tasks :
    req[r].pc \in {"put", "commit"} /\ t # r /\ req[t].id = req[r].id
      => req[t].pc \in {"idle", "get", "stopget", "delget", "ok", "err"}

IndInv ==
  /\ TypeOK
  /\ PidRecorded
  /\ ScriptStored
  /\ \A i \in Ids : db[i] # None => i \in minted
  /\ todo \subseteq minted
  /\ \A t \in Tasks : TaskOK(t)
  /\ Fresh

-----------------------------------------------------------------------------
(* What holds when requests come one at a time.                            *)

\* Every write leaves from the status its handler requires, whatever fails,
\* disconnects or restarts in between.
KeepsStrictRegistry == Registry!StrictSpec

Sinks(i) == {p \in Pids : proc[p].owner = i /\ proc[p].st = "up"}

\* No two sinks run for one indexer, and the one that does is known: its pid is
\* in the Running row, or the start that spawned it is about to write it there.
\* A sink that nobody knows can be neither stopped nor seen, and indexes twice
\* once the indexer is restarted.
OneSinkPerIndexer ==
  \A i \in Ids : \A p, q \in Sinks(i) :
    /\ p = q
    /\ \/ db[i] # None /\ db[i].status = "Running" /\ db[i].pid = p
       \/ \E t \in Tasks : At(t, "save") /\ req[t].id = i /\ req[t].pid = p

\* A Stopped row has no running sink behind its pid, so deleting it or starting
\* it again leaves nothing running.
StoppedIsDown ==
  \A i \in Ids : db[i] # None /\ db[i].status = "Stopped" => proc[db[i].pid].st # "up"

-----------------------------------------------------------------------------
(* What holds as long as no pid is used again while a row or task names it. *)

\* The pid in a row or a task names a sink of that indexer, or nothing.
PidsAreOwn ==
  /\ \A i \in Ids : db[i] # None /\ db[i].pid # None
                     => proc[db[i].pid].owner \in {i, None}
  /\ \A t \in Tasks : req[t].pid # None => proc[req[t].pid].owner \in {req[t].id, None}

\* A process that a step ends or signals on behalf of a stop request is a sink
\* of the indexer named in that request, however the row changed meanwhile.
SignalsOwnSink ==
  [][\A p \in Pids :
       proc[p].st = "up" /\ proc'[p].st = "term"
         => \E r \in Requests : At(r, "kill") /\ proc[p].owner = req[r].id]_vars

\* A stop that is about to write Stopped has no running process left behind the
\* pid it acted on, also when another request restarts the indexer meanwhile.
StopLeavesNoSink ==
  \A r \in Requests :
    req[r].op = "stop" /\ At(r, "mark") /\ req[r].to = "Stopped"
      => proc[req[r].pid].st # "up"

-----------------------------------------------------------------------------
(* Restart.                                                                *)

Lost(i) == db[i] # None /\ db[i].status = "Running" /\ Sinks(i) = {}

\* An indexer that the boot has listed, because its row says Running, and whose
\* process is lost gets a sink again, or the service goes down once more.
BootRestarts == \A i \in Ids : i \in todo /\ Lost(i) ~> ~Lost(i) \/ svc = "down"

-----------------------------------------------------------------------------
(* What comments, documents and tests say and the code does not do.        *)

\* create_indexer: "if we have an error we simply return the error and shutdown
\* the indexer".  An indexer marked FailedRunning has no running sink.
FailedIsDown ==
  \A i \in Ids : db[i] # None /\ db[i].status = "FailedRunning" => Sinks(i) = {}

\* stop_indexer: "Check if command failed because indexer was already stopped,
\* in that case update status to Stopped".  FailedStopping is only for a process
\* that is still there.
FailedStoppingIsUp ==
  [][\A i \in Ids :
       db[i] # None /\ db[i].status = "Running"
         /\ db'[i] # None /\ db'[i].status = "FailedStopping"
         => proc[db[i].pid].st # "free"]_vars

\* main: "start all indexers that were running before the service was stopped".
\* When the boot is over, a row that says Running has a sink of its own.
BootLeavesNoneLost ==
  [][svc = "boot" /\ svc' = "up" => \A i \in Ids : ~Lost(i)]_vars
=============================================================================
