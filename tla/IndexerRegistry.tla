-------------------------- MODULE IndexerRegistry --------------------------
(***************************************************************************)
(* What the indexers table promises, without handlers, processes or        *)
(* storage: the life of each indexer as one state.                         *)
(*                                                                         *)
(* StrictSpec is the state machine that the status matches of start, stop, *)
(* fail and delete spell out, one request at a time.  Spec is the weaker   *)
(* promise that survives requests interleaving on the same indexer, where  *)
(* a handler writes on the strength of a status it read earlier.           *)
(***************************************************************************)
CONSTANT Ids

VARIABLE life   \* life[i] is the state of indexer i

Settled == {"Stopped", "FailedRunning", "FailedStopping"}
Listed  == {"Created", "Running"} \cup Settled   \* a row exists

TypeOK == life \in [Ids -> {"Absent", "Gone"} \cup Listed]

Init == life = [i \in Ids |-> "Absent"]

Move(i, from, to) ==
  /\ life[i] \in from
  /\ life' = [life EXCEPT ![i] = to]

\* Creation commits the row.
Register(i) == Move(i, {"Absent"}, "Created")

\* Creations that never commit (failed, disconnected, killed with the service)
\* use their identifiers up.
Abandon(S) ==
  /\ \A i \in S : life[i] = "Absent"
  /\ life' = [i \in Ids |-> IF i \in S THEN "Gone" ELSE life[i]]

-----------------------------------------------------------------------------
(* One request at a time: every write leaves from the status it requires.  *)

StrictNext ==
  \/ \E i \in Ids : Register(i)
  \/ \E S \in SUBSET Ids : Abandon(S)
  \/ \E i \in Ids : Move(i, {"Created", "Stopped", "FailedRunning"}, "Running")
  \/ \E i \in Ids, s \in Settled : Move(i, {"Running"}, s)
  \/ \E i \in Ids : Move(i, {"Stopped"}, "Gone")

StrictSpec == Init /\ [][StrictNext]_life

-----------------------------------------------------------------------------
(* Interleaved requests: a start may win over anything, stop, fail and     *)
(* delete may hit a status they would have refused, but none of them ever  *)
(* touches an indexer that was never started, and what is gone stays gone. *)

Next ==
  \/ \E i \in Ids : Register(i)
  \/ \E S \in SUBSET Ids : Abandon(S)
  \/ \E i \in Ids : Move(i, Listed, "Running")
  \/ \E i \in Ids, s \in Settled : Move(i, {"Running"} \cup Settled, s)
  \/ \E i \in Ids : Move(i, {"Running"} \cup Settled, "Gone")

Spec == Init /\ [][Next]_life
=============================================================================
