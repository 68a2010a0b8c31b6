----------------------------- MODULE SinkRuntime -----------------------------
(***************************************************************************)
(* What a sink shares with the rest of its machine: the script file, which *)
(* every start of its indexer writes anew, and the port of its status      *)
(* server, which create and the two status endpoints ask.  The handlers    *)
(* are those of IndexerLifecycle; here their steps also touch the file,    *)
(* and an answered status comes from whoever serves the port.              *)
(***************************************************************************)
EXTENDS IndexerLifecycle, Naturals

CONSTANTS
  Askers,  \* slots for status requests in flight
  Names,   \* table names
  Table    \* Table[i]: the table name of indexer i, None for most webhooks

ASSUME RuntimeConstantsOK ==
  /\ Table \in [Ids -> Names \cup {None}]
  /\ None \notin Names

\* set_random_port leaves what it finds in the request and the row is inserted
\* with a NULL port, so every row gets the default of the column.
DEFAULT_PORT  == 1234
StatusPort(i) == DEFAULT_PORT
Ports         == {StatusPort(i) : i \in Ids}

VARIABLES
  stage,   \* stage[t]: "none", "open" or "written": the script file in start
  whole,   \* the indexers whose script file is there and complete
  code,    \* code[p]: what the sink with pid p has loaded
  server,  \* server[o]: the process that serves port o, or None
  ask      \* ask[q]: the indexers status request q is about, {} if there is none

runtime == <<stage, whole, code, server, ask>>
allvars == <<vars, runtime>>

RuntimeTypeOK ==
  /\ stage \in [Tasks -> {"none", "open", "written"}]
  /\ whole \subseteq Ids
  /\ code \in [Pids -> {"unread", "whole", "torn"}]
  /\ server \in [Ports -> Pids \cup {None}]
  /\ ask \in [Askers -> SUBSET Ids]

RuntimeInit ==
  /\ Init
  /\ stage = [t \in Tasks |-> "none"]
  /\ whole = {}
  /\ code = [p \in Pids |-> "unread"]
  /\ server = [o \in Ports |-> None]
  /\ ask = [q \in Askers |-> {}]

-----------------------------------------------------------------------------
(* Faulty forms of two actions; no specification uses them.                *)

\* The script is written under a name that is not the indexer's.
WriteFileElsewhere(t) ==
  /\ stage[t] = "open"
  /\ stage' = [stage EXCEPT ![t] = "written"]
  /\ whole' = whole \cup {t}
  /\ UNCHANGED <<vars, code, server, ask>>

\* The sink is spawned although the file is not written yet.
SpawnsWhatIsOpen(t) == req'[t].pc = "save" => stage[t] # "none"

-----------------------------------------------------------------------------
(* start_indexer creates, and so truncates, the file, writes it and spawns *)
(* the sink without an await: a disconnect cannot come between, but sinks  *)
(* and the handlers on other threads can.                                  *)

OpenFile(t) ==
  /\ At(t, "spawn") /\ stage[t] = "none"
  /\ stage' = [stage EXCEPT ![t] = "open"]
  /\ whole' = whole \ {req[t].id}
  /\ UNCHANGED <<vars, code, server, ask>>

WriteFile(t) ==
  /\ stage[t] = "open"
  /\ stage' = [stage EXCEPT ![t] = "written"]
  /\ whole' = whole \cup {req[t].id}
  /\ UNCHANGED <<vars, code, server, ask>>

\* A sink is spawned when its file is written.
SpawnsWhatIsWritten(t) == req'[t].pc = "save" => stage[t] = "written"

\* The status of an indexer comes from the server of its port, if there is one.
AnsweredByServer(r) ==
  At(r, "query") /\ req'[r].pc \in {"ok", "failget"}
    => server[StatusPort(req[r].id)] # None

LivesOn(p) == proc'[p].st \in {"up", "term"}

\* A step of the lifecycle, with what it does to files, sinks and ports.
LifecycleStep ==
  /\ Next
  /\ \A t \in Tasks :
       /\ At(t, "spawn") => SpawnsWhatIsWritten(t)
       /\ stage[t] # "none" /\ req'[t].pc = "idle" => svc' = "down"
  /\ \A r \in Requests : AnsweredByServer(r)
  /\ stage' = [t \in Tasks |-> IF req'[t].pc = "spawn" THEN stage[t] ELSE "none"]
  /\ whole' = IF Redeploy THEN {} ELSE whole
  /\ code' = [p \in Pids |-> IF LivesOn(p) THEN code[p] ELSE "unread"]
  /\ server' = [o \in Ports |-> IF server[o] # None /\ LivesOn(server[o])
                                THEN server[o] ELSE None]
  /\ ask' = [q \in Askers |-> IF svc' = "down" THEN {} ELSE ask[q]]

-----------------------------------------------------------------------------
(* The sinks.                                                              *)

\* A sink reads its script when it comes up.
Load(p) ==
  /\ proc[p].st = "up" /\ proc[p].owner \in Ids /\ code[p] = "unread"
  /\ code' = [code EXCEPT ![p] = IF proc[p].owner \in whole THEN "whole" ELSE "torn"]
  /\ UNCHANGED <<vars, stage, whole, server, ask>>

\* With its script loaded it serves its port if nobody else does; if not it may
\* try again, do without, or exit.
Listen(p) ==
  /\ proc[p].st = "up" /\ code[p] = "whole"
  /\ LET o == StatusPort(proc[p].owner) IN
     /\ server[o] = None
     /\ server' = [server EXCEPT ![o] = p]
  /\ UNCHANGED <<vars, stage, whole, code, ask>>

-----------------------------------------------------------------------------
(* GET /v1/indexers/status/:id and /v1/indexers/status/table/:table_name:  *)
(* a SELECT for the row, then a call to the server of its port.            *)

AskStatus(q, i) ==
  /\ svc = "up" /\ ask[q] = {} /\ db[i] # None
  /\ ask' = [ask EXCEPT ![q] = {i}]
  /\ UNCHANGED <<vars, stage, whole, code, server>>

\* Any row with the name will do.
AskStatusByTable(q, n) ==
  /\ svc = "up" /\ ask[q] = {}
  /\ \E i \in Ids : db[i] # None /\ Table[i] = n
  /\ ask' = [ask EXCEPT ![q] = {i \in Ids : Table[i] = n}]
  /\ UNCHANGED <<vars, stage, whole, code, server>>

\* The answer of the server, or an error if there is none.
AnswerStatus(q) ==
  /\ ask[q] # {}
  /\ ask' = [ask EXCEPT ![q] = {}]
  /\ UNCHANGED <<vars, stage, whole, code, server>>

-----------------------------------------------------------------------------
RuntimeNext ==
  \/ LifecycleStep
  \/ \E t \in Tasks : OpenFile(t) \/ WriteFile(t)
  \/ \E p \in Pids : Load(p) \/ Listen(p)
  \/ \E q \in Askers :
       \/ \E i \in Ids : AskStatus(q, i)
       \/ \E n \in Names : AskStatusByTable(q, n)
       \/ AnswerStatus(q)

RuntimeSpec == RuntimeInit /\ [][RuntimeNext]_allvars

-----------------------------------------------------------------------------
\* A running sink runs its whole script: no start truncates the file between the
\* spawn of a sink of the same indexer and the moment that sink reads it.
RunsWholeScript == \A p \in Pids : proc[p].st = "up" => code[p] # "torn"

\* create_indexer, on the port of a new row: "Set a random available port for the
\* gRPC status server".  A status comes from a sink of an indexer it is about.
AnswersForItself ==
  [][/\ \A r \in Requests :
          At(r, "query") /\ req'[r].pc \in {"ok", "failget"}
            => proc[server[StatusPort(req[r].id)]].owner = req[r].id
     /\ \A q \in Askers : AnswerStatus(q)
          => \A o \in {StatusPort(i) : i \in ask[q]} :
               server[o] # None => proc[server[o]].owner \in ask[q]]_allvars
=============================================================================
