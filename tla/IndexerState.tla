----------------------------- MODULE IndexerState ----------------------------
(***************************************************************************)
(* The state of the indexer service: the indexers table, the script store, *)
(* the machine's process table and the tasks of the service, with what the *)
(* handlers do to them in one step.  The handlers are in IndexerLifecycle. *)
(***************************************************************************)
CONSTANTS
  Ids,       \* uuids the service can mint (bounds the creations)
  Pids,      \* process ids of the machine
  Requests,  \* slots for API requests in flight (bounds the concurrency)
  Main,      \* the task that runs start_all_indexers
  None,      \* SQL NULL, no row, no value
  Foreign,   \* owner of the processes that are not sinks
  Faults,    \* what may go wrong in this instance
  DevEnv     \* the DEV_ENV flag

(***************************************************************************)
(* read      a SELECT or a store download fails                            *)
(* write     an INSERT, COMMIT, UPDATE, DELETE or upload fails, before or  *)
(*           after it took effect                                          *)
(* spawn     a sink, the script file or the kill command cannot be made    *)
(* probe     ps or grep cannot run: a live process looks dead              *)
(* sick      the status server answers other than 1                        *)
(* exit      a sink exits on its own                                       *)
(* reuse     a new sink may get a pid that a row or a task still names     *)
(* foreign   unrelated processes come, taking pids, and go                 *)
(* cancel    a client disconnects and the server drops its handler         *)
(* crash     the service dies, the machine and the sinks stay              *)
(* redeploy  the service restarts on a new machine, every process is lost  *)
(***************************************************************************)
AllFaults == {"read", "write", "spawn", "probe", "sick", "exit", "reuse",
              "foreign", "cancel", "crash", "redeploy"}

Tasks    == Requests \cup {Main}
Statuses == {"Created", "Running", "Stopped", "FailedRunning", "FailedStopping"}
Row      == [status : Statuses, pid : Pids \cup {None}]

ASSUME ConstantsOK ==
  /\ None \notin Ids \cup Pids \cup Row \cup Statuses
  /\ Foreign \notin Ids \cup {None}
  /\ Main \notin Requests
  /\ Faults \subseteq AllFaults
  /\ DevEnv \in BOOLEAN

VARIABLES
  db,      \* db[i]: the committed row of indexer i, or None
  store,   \* the indexers whose script is in the object store
  minted,  \* the uuids handed out so far
  proc,    \* proc[p]: the process that has pid p
  req,     \* req[t]: what task t is doing
  svc,     \* the service: "down", "boot" (start_all_indexers), "up" (serving)
  todo     \* rows start_all_indexers has still to start

vars == <<db, store, minted, proc, req, svc, todo>>

(***************************************************************************)
(* A process is free (no such pid), up, term (alive with SIGTERM pending)  *)
(* or a zombie (exited, not yet waited for by the service, its parent).    *)
(***************************************************************************)
Free    == [owner |-> None, st |-> "free", kid |-> FALSE]
Process == [owner : Ids \cup {Foreign, None},
            st : {"free", "up", "term", "zombie"}, kid : BOOLEAN]

(***************************************************************************)
(* A task: the operation it serves, its next call, the indexer it is       *)
(* about, the pid it read (check, alive, kill) or got from a spawn (save), *)
(* and the status it is about to write (mark).                             *)
(***************************************************************************)
Doing(op, pc, i) == [op |-> op, pc |-> pc, id |-> i, pid |-> None, to |-> None]
Idle == Doing(None, "idle", None)
Calls == {"put", "commit", "get", "check", "fetch", "spawn", "save", "query",
          "failget", "stopget", "alive", "kill", "mark", "delget", "del"}
Task == [op  : {"create", "start", "stop", "delete", None},
         pc  : Calls \cup {"idle", "ok", "err"},
         id  : Ids \cup {None},
         pid : Pids \cup {None},
         to  : Statuses \cup {None}]

TypeOK ==
  /\ db \in [Ids -> Row \cup {None}]
  /\ store \subseteq Ids
  /\ minted \subseteq Ids
  /\ proc \in [Pids -> Process]
  /\ req \in [Tasks -> Task]
  /\ svc \in {"down", "boot", "up"}
  /\ todo \subseteq Ids

Init ==
  /\ db = [i \in Ids |-> None]
  /\ store = {}
  /\ minted = {}
  /\ proc = [p \in Pids |-> Free]
  /\ req = [t \in Tasks |-> Idle]
  /\ svc = "down"
  /\ todo = {}

-----------------------------------------------------------------------------
(* Helpers.                                                                *)

At(t, pc) == req[t].pc = pc
Can(f)    == f \in Faults

Goto(t, pc)  == req' = [req EXCEPT ![t].pc = pc]
Read(t, pc, pid) == req' = [req EXCEPT ![t].pc = pc, ![t].pid = pid]
Intend(t, s) == req' = [req EXCEPT ![t].pc = "mark", ![t].to = s]
Begin(t, op, pc, i) == req' = [req EXCEPT ![t] = Doing(op, pc, i)]
Finish(t, o) == Begin(t, req[t].op, o, req[t].id)
Drop(t)     == req' = [req EXCEPT ![t] = Idle]

\* start_indexer returns Ok: a start request is answered, a create goes on.
Started(t) == IF req[t].op = "create" THEN Begin(t, "create", "query", req[t].id)
                                      ELSE Finish(t, "ok")

\* An UPDATE of the row of i; no row is a NotFound error, not an insertion.
Update(i, row) == db[i] # None /\ db' = [db EXCEPT ![i] = row]

\* SELECT ... WHERE status = s.
RowsWith(s) == {i \in Ids : db[i] # None /\ db[i].status = s}

Alive(p) == proc[p].st \in {"up", "term"}

\* ps -o stat= -p PID | grep -vq Z succeeds when some process has the pid and is
\* not defunct; is_running takes every failure of the pipe for a dead process.
Probe(p) == {Alive(p)} \cup (IF Can("probe") THEN {FALSE} ELSE {})

Named(p) == \/ \E i \in Ids : db[i] # None /\ db[i].pid = p
            \/ \E t \in Tasks : req[t].pid = p
Assignable(p) == proc[p] = Free /\ (Can("reuse") \/ ~Named(p))

\* A process ends: a child of the service waits as a zombie for its reader task.
Ended(p) == IF proc[p].kid THEN [proc[p] EXCEPT !.st = "zombie"] ELSE Free
=============================================================================
