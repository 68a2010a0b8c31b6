--------------------------- MODULE ConnectionPool ---------------------------
(***************************************************************************)
(* The pool of database connections.  Every repository call takes a        *)
(* connection for one statement; create_indexer takes one for its          *)
(* transaction and has it until it returns, while start_indexer and        *)
(* fail_indexer, which it calls, take others from the same pool.  The pool *)
(* is bounded, has no timeout and serves its waiters in order.             *)
(***************************************************************************)
EXTENDS SequencesExt, FiniteSets, Naturals

CONSTANTS
  Conns,     \* the connections of the pool (max_size of them)
  Tasks,     \* slots for requests in flight (bounds the concurrency)
  Creators,  \* the slots that may serve a create
  None

ASSUME PoolConstantsOK ==
  /\ IsFiniteSet(Conns)
  /\ IsFiniteSet(Creators)
  /\ Creators \subseteq Tasks
  /\ None \notin Conns

\* The most connections that the handler of an operation takes, one after another:
\* create its own, then two in start_indexer and two in fail_indexer.
Takes == [create |-> 5, start |-> 2, stop |-> 2, delete |-> 2, read |-> 1]
Ops   == DOMAIN Takes

VARIABLES
  st,     \* st[t]: "idle", "busy" (computing), "wait" (in pool.get()), "query"
  op,     \* op[t]: the operation t serves
  took,   \* took[t]: how many connections it has obtained
  own,    \* own[t]: the connection a create keeps until it returns, or None
  lent,   \* lent[t]: the connection of a repository call under way, or None
  queue   \* the tasks waiting for a connection, in order

vars == <<st, op, took, own, lent, queue>>

TypeOK ==
  /\ st \in [Tasks -> {"idle", "busy", "wait", "query"}]
  /\ op \in [Tasks -> Ops]
  /\ took \in [Tasks -> 0..5]
  /\ own \in [Tasks -> Conns \cup {None}]
  /\ lent \in [Tasks -> Conns \cup {None}]
  /\ queue \in Seq(Tasks)

Init ==
  /\ st = [t \in Tasks |-> "idle"]
  /\ op = [t \in Tasks |-> "read"]
  /\ took = [t \in Tasks |-> 0]
  /\ own = [t \in Tasks |-> None]
  /\ lent = [t \in Tasks |-> None]
  /\ queue = <<>>

Free(c) == \A t \in Tasks : own[t] # c /\ lent[t] # c

\* The handler's future is gone: whatever it held goes back to the pool.
Release(t) ==
  /\ st' = [st EXCEPT ![t] = "idle"]
  /\ op' = [op EXCEPT ![t] = "read"]
  /\ took' = [took EXCEPT ![t] = 0]
  /\ own' = [own EXCEPT ![t] = None]
  /\ lent' = [lent EXCEPT ![t] = None]

-----------------------------------------------------------------------------
(* Faulty forms of some actions; no specification uses them.               *)

\* Every handler keeps its first connection until it returns.
ObtainAndKeep(t) ==
  /\ st[t] = "wait" /\ Head(queue) = t
  /\ queue' = Tail(queue)
  /\ took' = [took EXCEPT ![t] = @ + 1]
  /\ \E c \in Conns :
       /\ Free(c)
       /\ IF took[t] = 0
          THEN /\ own' = [own EXCEPT ![t] = c]
               /\ st' = [st EXCEPT ![t] = "busy"] /\ UNCHANGED lent
          ELSE /\ lent' = [lent EXCEPT ![t] = c]
               /\ st' = [st EXCEPT ![t] = "query"] /\ UNCHANGED own
  /\ UNCHANGED op

\* A handler tries again and again.
AskAgain(t) ==
  /\ st[t] = "busy"
  /\ st' = [st EXCEPT ![t] = "wait"]
  /\ queue' = Append(queue, t)
  /\ UNCHANGED <<op, took, own, lent>>

-----------------------------------------------------------------------------
Arrive(t, o) ==
  /\ st[t] = "idle" /\ (o = "create" => t \in Creators)
  /\ st' = [st EXCEPT ![t] = "busy"]
  /\ op' = [op EXCEPT ![t] = o]
  /\ UNCHANGED <<took, own, lent, queue>>

\* pool.get(): the call enters the queue.
Ask(t) ==
  /\ st[t] = "busy" /\ took[t] < Takes[op[t]]
  /\ st' = [st EXCEPT ![t] = "wait"]
  /\ queue' = Append(queue, t)
  /\ UNCHANGED <<op, took, own, lent>>

\* The first in the queue gets a free connection.  That of the transaction of a
\* create stays in a variable of the handler; every other one is for one call.
Obtain(t) ==
  /\ st[t] = "wait" /\ Head(queue) = t
  /\ queue' = Tail(queue)
  /\ took' = [took EXCEPT ![t] = @ + 1]
  /\ \E c \in Conns :
       /\ Free(c)
       /\ IF op[t] = "create" /\ took[t] = 0
          THEN /\ own' = [own EXCEPT ![t] = c]
               /\ st' = [st EXCEPT ![t] = "busy"] /\ UNCHANGED lent
          ELSE /\ lent' = [lent EXCEPT ![t] = c]
               /\ st' = [st EXCEPT ![t] = "query"] /\ UNCHANGED own
  /\ UNCHANGED op

\* The free connection cannot be established, or no longer works: an error to a
\* repository call, a panic to create_indexer.  Either ends the request.
Refuse(t) ==
  /\ st[t] = "wait" /\ Head(queue) = t
  /\ \E c \in Conns : Free(c)
  /\ queue' = Tail(queue)
  /\ Release(t)

\* The repository call is over.
Return(t) ==
  /\ st[t] = "query"
  /\ lent' = [lent EXCEPT ![t] = None]
  /\ st' = [st EXCEPT ![t] = "busy"]
  /\ UNCHANGED <<op, took, own, queue>>

\* The handler returns, at its end or early.
Reply(t) ==
  /\ st[t] = "busy"
  /\ Release(t)
  /\ UNCHANGED queue

\* The client disconnects and the handler is dropped, wherever it is; one that waits
\* leaves the queue.
Cancel(t) ==
  /\ st[t] # "idle"
  /\ Release(t)
  /\ \/ st[t] # "wait" /\ UNCHANGED queue
     \/ \E k \in DOMAIN queue : queue[k] = t /\ queue' = RemoveAt(queue, k)

-----------------------------------------------------------------------------
Handle(t) == Ask(t) \/ Obtain(t) \/ Refuse(t) \/ Return(t) \/ Reply(t)

Next == \E t \in Tasks :
          \/ Handle(t) \/ Cancel(t)
          \/ \E o \in Ops : Arrive(t, o)

Spec == Init /\ [][Next]_vars

\* What a create does between two connections: it also waits for the upload, for
\* five seconds and for the status of its sink.
Ponder(t) == op[t] = "create" /\ (Ask(t) \/ Reply(t))

\* The pool hands on what is free, statements come back and the other handlers go
\* on.  Clients owe nothing, nor do the store and the sinks that a create waits for.
FairSpec ==
  /\ Spec
  /\ \A t \in Tasks : /\ WF_vars(Obtain(t) \/ Refuse(t) \/ Return(t))
                       /\ WF_vars(op[t] # "create" /\ (Ask(t) \/ Reply(t)))

-----------------------------------------------------------------------------
\* The connections of the pool outnumber the creates that may be in flight.
Spare == Cardinality(Creators) < Cardinality(Conns)

Uses(t, c) == own[t] = c \/ lent[t] = c

\* Whoever waits for a connection waits for somebody who does not: some connection
\* is free or in the hands of a handler that can go on and give it back.
SomeoneCanGoOn ==
  (\E t \in Tasks : st[t] = "wait")
    => \E c \in Conns : \A t \in Tasks : Uses(t, c) => st[t] # "wait"

\* A create whose store or sink never answers keeps its connection, but nobody else
\* waits for it: every other request is answered or given up by its client.
OthersAnswered ==
  \A t \in Tasks : st[t] # "idle" /\ op[t] # "create" ~> st[t] = "idle"

\* If stores and sinks do answer, so is every request: the architecture diagram of
\* the README ends each exchange with "Indexer Service-->>User: ok".
Answered ==
  (\A t \in Tasks : WF_vars(Ponder(t)))
    => \A t \in Tasks : st[t] # "idle" ~> st[t] = "idle"
=============================================================================
