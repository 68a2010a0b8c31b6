------------------------ MODULE ConnectionPoolProofs -------------------------
(***************************************************************************)
(* With more connections than creates in flight, waiting for a connection  *)
(* is never waiting for one another.  What makes it so is that a handler   *)
(* in the queue has at most one connection, and only if it is a create.    *)
(* The queue itself holds whoever waits, once, so that no handler takes    *)
(* more connections than its operation asks for.                           *)
(***************************************************************************)
EXTENDS ConnectionPool, FiniteSetTheorems, SequenceTheorems, TLAPS

\* The types the argument needs; the order of the queue does not matter.
Types ==
  /\ st \in [Tasks -> {"idle", "busy", "wait", "query"}]
  /\ op \in [Tasks -> Ops]
  /\ own \in [Tasks -> Conns \cup {None}]
  /\ lent \in [Tasks -> Conns \cup {None}]

\* A connection is lent for a call under way only, and kept by creates only.
Holding ==
  \A t \in Tasks :
    /\ st[t] # "query" => lent[t] = None
    /\ own[t] # None => op[t] = "create" /\ st[t] # "idle"
    /\ op[t] = "create" => t \in Creators

PoolInv == Types /\ Holding

\* Nobody holds a connection at first.
LEMMA PoolInit == Init => PoolInv
BY DEF Init, PoolInv, Types, Holding, Ops, Takes

\* Every step of a handler, its end included, keeps what it may hold.
LEMMA PoolStep == PoolInv /\ [Next]_vars => PoolInv'
<1> SUFFICES ASSUME PoolInv, [Next]_vars PROVE PoolInv'
  OBVIOUS
<1> USE DEF PoolInv, Types, Holding
<1>1. ASSUME NEW t \in Tasks, NEW o \in Ops, Arrive(t, o) PROVE PoolInv'
  BY <1>1 DEF Arrive
<1>2. ASSUME NEW t \in Tasks, Ask(t) PROVE PoolInv'
  BY <1>2 DEF Ask
<1>3. ASSUME NEW t \in Tasks, Obtain(t) PROVE PoolInv'
  <2> PICK c \in Conns :
        IF op[t] = "create" /\ took[t] = 0
        THEN /\ own' = [own EXCEPT ![t] = c]
             /\ st' = [st EXCEPT ![t] = "busy"] /\ UNCHANGED lent
        ELSE /\ lent' = [lent EXCEPT ![t] = c]
             /\ st' = [st EXCEPT ![t] = "query"] /\ UNCHANGED own
    BY <1>3 DEF Obtain
  <2>1. CASE op[t] = "create" /\ took[t] = 0
    BY <1>3, <2>1 DEF Obtain
  <2>2. CASE ~(op[t] = "create" /\ took[t] = 0)
    BY <1>3, <2>2 DEF Obtain
  <2> QED BY <2>1, <2>2
<1>4. ASSUME NEW t \in Tasks, Return(t) PROVE PoolInv'
  BY <1>4 DEF Return
<1>5. ASSUME NEW t \in Tasks, Release(t) PROVE PoolInv'
  BY <1>5 DEF Release, Ops, Takes
<1>6. CASE UNCHANGED vars
  BY <1>6 DEF vars
<1> QED BY <1>1, <1>2, <1>3, <1>4, <1>5, <1>6 DEF Next, Handle, Refuse, Reply, Cancel

\* Fewer creates than connections cannot keep all of them.
LEMMA NotAllOwned ==
  ASSUME Spare, PoolInv
  PROVE  \E c \in Conns : \A t \in Tasks : own[t] # c
<1> SUFFICES ASSUME \A c \in Conns : \E t \in Tasks : own[t] = c
             PROVE  FALSE
  OBVIOUS
<1> DEFINE keeper == [c \in Conns |-> CHOOSE t \in Tasks : own[t] = c]
<1>1. \A c \in Conns : keeper[c] \in Tasks /\ own[keeper[c]] = c
  OBVIOUS
<1>2. keeper \in [Conns -> Creators]
  BY <1>1, PoolConstantsOK DEF PoolInv, Holding
<1> HIDE DEF keeper
<1>3. PICK c, d \in Conns : c # d /\ keeper[c] = keeper[d]
  BY <1>2, PoolConstantsOK, FS_PigeonHole DEF Spare
<1> QED BY <1>1, <1>3

\* The invariant gives the property: a connection that no create keeps is free or
\* lent for a call under way.
LEMMA SpareConnection == Spare /\ PoolInv => SomeoneCanGoOn
<1> SUFFICES ASSUME Spare, PoolInv PROVE SomeoneCanGoOn
  OBVIOUS
<1>1. PICK c \in Conns : \A t \in Tasks : own[t] # c
  BY NotAllOwned
<1>2. \A t \in Tasks : Uses(t, c) => st[t] = "query"
  BY <1>1, PoolConstantsOK DEF Uses, PoolInv, Holding
<1> QED BY <1>2 DEF SomeoneCanGoOn

\* As long as the pool is larger than the number of creates in flight, requests that
\* wait for a connection never wait only for one another.
THEOREM NoCircularWait == ASSUME Spare PROVE Spec => []SomeoneCanGoOn
<1>1. Spec => []PoolInv
  BY PoolInit, PoolStep, PTL DEF Spec
<1>2. PoolInv => SomeoneCanGoOn
  BY SpareConnection
<1> QED BY <1>1, <1>2, PTL

-----------------------------------------------------------------------------
(* Type correctness.  That no handler takes a sixth connection rests on    *)
(* the queue: it is made of those who wait, each in one place, and nobody  *)
(* waits who has taken all that its operation needs.                       *)

InLine(t) == \E k \in DOMAIN queue : queue[k] = t

QueueInv ==
  /\ \A k \in DOMAIN queue : st[queue[k]] = "wait"
  /\ \A k, l \in DOMAIN queue : queue[k] = queue[l] => k = l
  /\ \A t \in Tasks : st[t] = "wait" => InLine(t) /\ took[t] < Takes[op[t]]

LineInv == TypeOK /\ QueueInv

\* A sequence without its place k: what is left, and where it was.
LEMMA RemoveAtProperties ==
  ASSUME NEW S, NEW q \in Seq(S), NEW k \in DOMAIN q, NEW rest, rest = RemoveAt(q, k)
  PROVE  /\ rest \in Seq(S) /\ Len(rest) = Len(q) - 1
         /\ \A l \in DOMAIN rest : rest[l] = IF l < k THEN q[l] ELSE q[l + 1]
<1> DEFINE front == SubSeq(q, 1, k - 1)
           back  == SubSeq(q, k + 1, Len(q))
<1>1. k \in 1..Len(q) /\ Len(q) \in Nat /\ \A l \in 1..Len(q) : q[l] \in S
  BY LenProperties, ElementOfSeq
<1>2. /\ front \in Seq(S) /\ Len(front) = k - 1
      /\ \A l \in 1..(k - 1) : front[l] = q[l]
  BY <1>1, SubSeqProperties
<1>3. /\ back \in Seq(S) /\ Len(back) = Len(q) - k
      /\ \A l \in 1..(Len(q) - k) : back[l] = q[l + k]
  <2>1. \A l \in (k + 1)..Len(q) : q[l] \in S
    BY <1>1
  <2>2. /\ back \in Seq(S)
        /\ Len(back) = IF k + 1 <= Len(q) THEN Len(q) - (k + 1) + 1 ELSE 0
        /\ \A l \in 1..(Len(q) - (k + 1) + 1) : back[l] = q[k + 1 + l - 1]
    BY <1>1, <2>1, SubSeqProperties
  <2> QED BY <1>1, <2>2
<1>4. rest = front \o back
  BY DEF RemoveAt
<1> HIDE DEF front, back
<1>5. /\ rest \in Seq(S) /\ Len(rest) = Len(q) - 1
      /\ \A l \in 1..Len(rest) : rest[l] = IF l <= k - 1 THEN front[l] ELSE back[l - (k - 1)]
  BY <1>1, <1>2, <1>3, <1>4, ConcatProperties
<1>6. DOMAIN rest = 1..Len(rest)
  BY <1>5, LenProperties
<1>7. ASSUME NEW l \in 1..Len(rest)
      PROVE  rest[l] = IF l < k THEN q[l] ELSE q[l + 1]
  <2>1. /\ l \in Int /\ k \in Int /\ rest[l] = IF l <= k - 1 THEN front[l] ELSE back[l - (k - 1)]
        /\ 1 <= l /\ l <= Len(q) - 1
    BY <1>1, <1>5
  <2>2. l < k => l \in 1..(k - 1)
    BY <2>1
  <2>3. l >= k => l - (k - 1) \in 1..(Len(q) - k) /\ (l - (k - 1)) + k = l + 1
    BY <1>1, <2>1
  <2>4. l >= k => back[l - (k - 1)] = q[l + 1]
    BY <1>3, <2>3
  <2> QED BY <1>2, <2>1, <2>2, <2>4
<1> QED BY <1>5, <1>6, <1>7

\* A task that gets a connection, an error or no patience leaves its place in the
\* line and waits no more; the others stay in line.
LEMMA LeavingKeepsLine ==
  ASSUME LineInv, NEW k \in DOMAIN queue, queue' = RemoveAt(queue, k),
         NEW t \in Tasks, queue[k] = t, st' \in [Tasks -> {"idle", "busy", "wait", "query"}],
         st'[t] # "wait", \A u \in Tasks : u # t => st'[u] = st[u] /\ took'[u] = took[u] /\ op'[u] = op[u]
  PROVE  queue' \in Seq(Tasks) /\ QueueInv'
<1>1. queue \in Seq(Tasks) /\ Len(queue) \in Nat /\ DOMAIN queue = 1..Len(queue)
  BY LenProperties DEF LineInv, TypeOK
<1>2. PICK rest : rest = RemoveAt(queue, k)
  OBVIOUS
<1>3. /\ rest \in Seq(Tasks) /\ Len(rest) = Len(queue) - 1
      /\ \A l \in DOMAIN rest : rest[l] = IF l < k THEN queue[l] ELSE queue[l + 1]
  <2>1. queue \in Seq(Tasks)
    BY <1>1
  <2> QED BY <1>2, <2>1, RemoveAtProperties
<1>4. DOMAIN rest = 1..(Len(queue) - 1) /\ queue' = rest
  BY <1>2, <1>3, LenProperties
<1>5. ASSUME NEW l \in DOMAIN rest
      PROVE  /\ l < k => l \in DOMAIN queue /\ rest[l] = queue[l]
             /\ ~(l < k) => l + 1 \in DOMAIN queue /\ rest[l] = queue[l + 1]
             /\ rest[l] # t /\ rest[l] \in Tasks /\ st[rest[l]] = "wait"
             /\ l \in Nat
  <2>1. l \in 1..(Len(queue) - 1) /\ k \in 1..Len(queue)
    BY <1>1, <1>4, <1>5
  <2>2. \A m \in DOMAIN queue : queue[m] \in Tasks /\ st[queue[m]] = "wait"
    BY <1>1, ElementOfSeq DEF LineInv, QueueInv
  <2>3. \A m \in DOMAIN queue : queue[m] = t => m = k
    BY DEF LineInv, QueueInv
  <2>4. CASE l < k
    <3>1. l \in DOMAIN queue /\ l # k
      BY <1>1, <2>1, <2>4
    <3>2. rest[l] = queue[l]
      BY <1>3, <1>5, <2>4
    <3> QED BY <2>1, <2>2, <2>3, <2>4, <3>1, <3>2
  <2>5. CASE ~(l < k)
    <3>1. l + 1 \in DOMAIN queue /\ l >= k /\ l + 1 # k
      BY <1>1, <2>1, <2>5
    <3>2. rest[l] = queue[l + 1]
      BY <1>3, <1>5, <3>1
    <3> QED BY <2>1, <2>2, <2>3, <2>5, <3>1, <3>2
  <2> QED BY <2>4, <2>5
<1>6. ASSUME NEW l \in DOMAIN rest, NEW m \in DOMAIN rest, rest[l] = rest[m] PROVE l = m
  <2>1. \A i, j \in DOMAIN queue : queue[i] = queue[j] => i = j
    BY DEF LineInv, QueueInv
  <2>2. /\ l < k => l \in DOMAIN queue /\ rest[l] = queue[l]
        /\ ~(l < k) => l + 1 \in DOMAIN queue /\ rest[l] = queue[l + 1]
        /\ m < k => m \in DOMAIN queue /\ rest[m] = queue[m]
        /\ ~(m < k) => m + 1 \in DOMAIN queue /\ rest[m] = queue[m + 1]
        /\ l \in Nat /\ m \in Nat /\ k \in Nat
    BY <1>1, <1>5
  <2>3. /\ l < k /\ m < k => l = m
        /\ l < k /\ ~(m < k) => l = m + 1
        /\ ~(l < k) /\ m < k => l + 1 = m
        /\ ~(l < k) /\ ~(m < k) => l + 1 = m + 1
    BY <1>6, <2>1, <2>2
  <2> QED BY <2>2, <2>3
<1>7. ASSUME NEW u \in Tasks, st'[u] = "wait" PROVE \E l \in DOMAIN rest : rest[l] = u
  <2>1. u # t /\ st[u] = "wait"
    BY <1>7
  <2>2. PICK m \in DOMAIN queue : queue[m] = u
    BY <2>1 DEF LineInv, QueueInv, InLine
  <2>3. m < k \/ m > k
    <3>1. m # k
      BY <2>1, <2>2
    <3> QED BY <1>1, <3>1
  <2>4. CASE m < k
    <3>1. m \in DOMAIN rest
      BY <1>1, <1>4, <2>4
    <3> QED BY <1>3, <2>2, <2>4, <3>1
  <2>5. CASE m > k
    <3>1. m - 1 \in DOMAIN rest /\ ~(m - 1 < k) /\ (m - 1) + 1 = m
      BY <1>1, <1>4, <2>5
    <3>2. rest[m - 1] = queue[m]
      BY <1>3, <3>1
    <3> QED BY <2>2, <3>1, <3>2
  <2> QED BY <2>3, <2>4, <2>5
<1>8. \A l \in DOMAIN queue' : st'[queue'[l]] = "wait"
  BY <1>4, <1>5
<1>9. \A l, m \in DOMAIN queue' : queue'[l] = queue'[m] => l = m
  BY <1>4, <1>6
<1>10. \A u \in Tasks : st'[u] = "wait" => InLine(u)' /\ took'[u] < Takes[op'[u]]
  BY <1>4, <1>7 DEF LineInv, QueueInv, InLine
<1> QED BY <1>3, <1>4, <1>8, <1>9, <1>10 DEF QueueInv

\* Whoever waits and is at the head of the line leaves its first place.
LEMMA HeadLeaves ==
  ASSUME LineInv, NEW t \in Tasks, st[t] = "wait", Head(queue) = t
  PROVE  1 \in DOMAIN queue /\ queue[1] = t /\ Tail(queue) = RemoveAt(queue, 1)
<1>1. /\ queue \in Seq(Tasks) /\ Len(queue) \in Nat /\ DOMAIN queue = 1..Len(queue)
      /\ \A l \in 1..Len(queue) : queue[l] \in Tasks
  BY LenProperties, ElementOfSeq DEF LineInv, TypeOK
<1>2. Len(queue) >= 1 /\ queue # <<>>
  BY <1>1 DEF LineInv, QueueInv, InLine
<1>3. Tail(queue) \in Seq(Tasks) /\ Tail(queue) = SubSeq(queue, 2, Len(queue))
  BY <1>1, <1>2, HeadTailProperties, TailIsSubSeq
<1>4. SubSeq(queue, 1, 1 - 1) = <<>>
  BY SubSeqEmpty
<1>5. <<>> \o Tail(queue) = Tail(queue)
  BY <1>3, ConcatEmptySeq
<1> QED BY <1>1, <1>2, <1>3, <1>4, <1>5 DEF RemoveAt

\* A task that is not in line leaves the line as it is.
LEMMA OthersKeepLine ==
  ASSUME LineInv, UNCHANGED queue, NEW t \in Tasks, st[t] # "wait", st'[t] # "wait",
         \A u \in Tasks : u # t => st'[u] = st[u] /\ took'[u] = took[u] /\ op'[u] = op[u]
  PROVE  QueueInv'
<1>1. \A k \in DOMAIN queue : queue[k] \in Tasks /\ queue[k] # t
  BY LenProperties, ElementOfSeq DEF LineInv, TypeOK, QueueInv
<1> QED BY <1>1 DEF LineInv, QueueInv, InLine

\* What a handler has once its operation is over, or before it begins.
LEMMA ReleaseTypes ==
  ASSUME TypeOK, NEW t \in Tasks, Release(t)
  PROVE  /\ st' \in [Tasks -> {"idle", "busy", "wait", "query"}] /\ st'[t] = "idle"
         /\ op' \in [Tasks -> Ops] /\ took' \in [Tasks -> 0..5]
         /\ own' \in [Tasks -> Conns \cup {None}] /\ lent' \in [Tasks -> Conns \cup {None}]
         /\ \A u \in Tasks : u # t => st'[u] = st[u] /\ took'[u] = took[u] /\ op'[u] = op[u]
BY DEF TypeOK, Release, Ops, Takes

\* Every step keeps the line in order.
LEMMA LineStep == LineInv /\ [Next]_vars => LineInv'
<1> SUFFICES ASSUME LineInv, [Next]_vars PROVE LineInv'
  OBVIOUS
<1>1. /\ queue \in Seq(Tasks) /\ Len(queue) \in Nat /\ DOMAIN queue = 1..Len(queue)
      /\ \A k \in DOMAIN queue : queue[k] \in Tasks
  BY LenProperties, ElementOfSeq DEF LineInv, TypeOK
<1>2. ASSUME NEW t \in Tasks, NEW o \in Ops, Arrive(t, o) PROVE LineInv'
  <2>1. QueueInv'
    BY <1>2, OthersKeepLine DEF Arrive, LineInv, TypeOK
  <2> QED BY <1>2, <2>1 DEF Arrive, LineInv, TypeOK
<1>3. ASSUME NEW t \in Tasks, Ask(t) PROVE LineInv'
  <2>1. PICK more : more = Append(queue, t)
    OBVIOUS
  <2>2. /\ more \in Seq(Tasks) /\ Len(more) = Len(queue) + 1
        /\ \A k \in 1..Len(queue) : more[k] = queue[k]
        /\ more[Len(queue) + 1] = t
    BY <1>1, <2>1, AppendProperties
  <2>3. DOMAIN more = 1..(Len(queue) + 1)
    BY <2>2, LenProperties
  <2>4. queue' = more /\ UNCHANGED <<op, took>> /\ st[t] = "busy" /\ took[t] < Takes[op[t]]
        /\ st' = [st EXCEPT ![t] = "wait"]
    BY <1>3, <2>1 DEF Ask
  <2>5. \A k \in DOMAIN queue : queue[k] # t /\ st'[queue[k]] = "wait"
    BY <1>1, <2>4 DEF LineInv, QueueInv, TypeOK
  <2>6. st'[t] = "wait"
    BY <2>4 DEF LineInv, TypeOK
  <2>7. \A k, l \in DOMAIN more : more[k] = more[l] => k = l
    BY <1>1, <2>2, <2>3, <2>5 DEF LineInv, QueueInv
  <2>8. \A k \in DOMAIN more : st'[more[k]] = "wait"
    BY <1>1, <2>2, <2>3, <2>5, <2>6
  <2>9. ASSUME NEW u \in Tasks, st'[u] = "wait"
        PROVE  (\E k \in DOMAIN more : more[k] = u) /\ took[u] < Takes[op[u]]
    <3>1. CASE u = t
      BY <1>1, <2>2, <2>3, <2>4, <3>1
    <3>2. CASE u # t
      BY <1>1, <2>2, <2>3, <2>4, <2>9, <3>2 DEF LineInv, QueueInv, InLine, TypeOK
    <3> QED BY <3>1, <3>2
  <2>10. QueueInv'
    BY <2>4, <2>7, <2>8, <2>9 DEF QueueInv, InLine
  <2> QED BY <1>3, <2>2, <2>4, <2>10 DEF Ask, LineInv, TypeOK
<1>4. ASSUME NEW t \in Tasks, Obtain(t) PROVE LineInv'
  <2>1. took[t] \in Nat /\ took[t] < Takes[op[t]] /\ op[t] \in Ops
    BY <1>4 DEF Obtain, LineInv, QueueInv, TypeOK
  <2>2. took[t] + 1 \in 0..5
    BY <2>1 DEF Ops, Takes
  <2>3. /\ st' \in [Tasks -> {"idle", "busy", "wait", "query"}] /\ st'[t] # "wait"
        /\ own' \in [Tasks -> Conns \cup {None}] /\ lent' \in [Tasks -> Conns \cup {None}]
        /\ \A u \in Tasks : u # t => st'[u] = st[u]
    BY <1>4 DEF Obtain, LineInv, TypeOK
  <2>4. /\ took' \in [Tasks -> 0..5] /\ UNCHANGED op
        /\ \A u \in Tasks : u # t => took'[u] = took[u]
    BY <1>4, <2>2 DEF Obtain, LineInv, TypeOK
  <2>5. queue' \in Seq(Tasks) /\ QueueInv'
    BY <1>4, <2>3, <2>4, HeadLeaves, LeavingKeepsLine DEF Obtain
  <2> QED BY <2>3, <2>4, <2>5 DEF LineInv, TypeOK
<1>5. ASSUME NEW t \in Tasks, Refuse(t) PROVE LineInv'
  <2>1. queue' \in Seq(Tasks) /\ QueueInv'
    BY <1>5, ReleaseTypes, HeadLeaves, LeavingKeepsLine DEF Refuse, LineInv
  <2> QED BY <1>5, <2>1, ReleaseTypes DEF Refuse, LineInv, TypeOK
<1>6. ASSUME NEW t \in Tasks, Return(t) PROVE LineInv'
  <2>1. QueueInv'
    BY <1>6, OthersKeepLine DEF Return, LineInv, TypeOK
  <2> QED BY <1>6, <2>1 DEF Return, LineInv, TypeOK
<1>7. ASSUME NEW t \in Tasks, Release(t), st[t] # "wait", UNCHANGED queue PROVE LineInv'
  <2>1. QueueInv'
    BY <1>7, ReleaseTypes, OthersKeepLine DEF LineInv
  <2> QED BY <1>7, <2>1, ReleaseTypes DEF LineInv, TypeOK
<1>8. ASSUME NEW t \in Tasks, Cancel(t) PROVE LineInv'
  <2>1. CASE st[t] # "wait" /\ UNCHANGED queue
    BY <1>7, <1>8, <2>1 DEF Cancel
  <2>2. ASSUME NEW k \in DOMAIN queue, queue[k] = t, queue' = RemoveAt(queue, k) PROVE LineInv'
    <3>1. queue' \in Seq(Tasks) /\ QueueInv'
      BY <1>8, <2>2, ReleaseTypes, LeavingKeepsLine DEF Cancel, LineInv
    <3> QED BY <1>8, <3>1, ReleaseTypes DEF Cancel, LineInv, TypeOK
  <2> QED BY <1>8, <2>1, <2>2 DEF Cancel
<1>9. CASE UNCHANGED vars
  BY <1>9 DEF vars, LineInv, TypeOK, QueueInv, InLine
<1> QED BY <1>2, <1>3, <1>4, <1>5, <1>6, <1>7, <1>8, <1>9 DEF Next, Handle, Reply

\* No handler takes more connections than its operation needs, and states, queue and
\* connections keep their types, whoever waits, gives up or is refused.
THEOREM PoolTypeCorrect == Spec => []TypeOK
<1>1. Init => LineInv
  <2> SUFFICES ASSUME Init PROVE LineInv
    OBVIOUS
  <2>1. queue \in Seq(Tasks) /\ DOMAIN queue = {}
    BY EmptySeq, LenProperties DEF Init
  <2> QED BY <2>1 DEF Init, LineInv, TypeOK, QueueInv, Ops, Takes
<1>2. LineInv => TypeOK
  BY DEF LineInv
<1> QED BY <1>1, <1>2, LineStep, PTL DEF Spec
=============================================================================
