------------------------------- MODULE DagRun -------------------------------
(***************************************************************************)
(* What start() promises, without threads, queues and counters: a run of a  *)
(* graph of nodes in which a node is worked on only after all the nodes it  *)
(* depends on have succeeded, a failure blocks what depends on it and       *)
(* nothing else, and the run ends when every node is settled, or is         *)
(* abandoned because a node raised.                                         *)
(***************************************************************************)
CONSTANT Node

VARIABLES
  deps,    \* the nodes added so far, each with the set it depends on
  status,  \* the status of every node in the current run
  phase    \* "idle" before the first run, then the state of the last run

dagVars == <<deps, status, phase>>

Status == {"waiting", "submitted", "ok", "failed", "blocked"}

Members == DOMAIN deps

Init ==
  /\ deps = << >>
  /\ status = [n \in Node |-> "waiting"]
  /\ phase = "idle"

\* The graph grows only between runs, and only downwards: what a node depends
\* on is there already, so the graph is acyclic.
AddNode ==
  /\ phase # "running"
  /\ \E n \in Node \ Members : \E D \in SUBSET Members :
       deps' = [m \in Members \cup {n} |-> IF m = n THEN D ELSE deps[m]]
  /\ UNCHANGED <<status, phase>>

Open ==
  /\ phase # "running"
  /\ phase' = "running"
  /\ status' = [n \in Node |-> "waiting"]
  /\ UNCHANGED deps

Submit(n) ==
  /\ phase = "running"
  /\ n \in Members
  /\ status[n] = "waiting"
  /\ \A d \in deps[n] : status[d] = "ok"
  /\ status' = [status EXCEPT ![n] = "submitted"]
  /\ UNCHANGED <<deps, phase>>

Finish(n, s) ==
  /\ phase = "running"
  /\ status[n] = "submitted"
  /\ status' = [status EXCEPT ![n] = s]
  /\ UNCHANGED <<deps, phase>>

Block(n) ==
  /\ phase = "running"
  /\ n \in Members
  /\ status[n] = "waiting"
  /\ \E d \in deps[n] : status[d] \in {"failed", "blocked"}
  /\ status' = [status EXCEPT ![n] = "blocked"]
  /\ UNCHANGED <<deps, phase>>

Close ==
  /\ phase = "running"
  /\ \A n \in Members : status[n] \in {"ok", "failed", "blocked"}
  /\ phase' = "returned"
  /\ UNCHANGED <<deps, status>>

Abandon ==
  /\ phase = "running"
  /\ \E n \in Members : status[n] = "submitted"
  /\ phase' = "raised"
  /\ UNCHANGED <<deps, status>>

Advance ==
  \/ Close
  \/ Abandon
  \/ \E n \in Node : \/ Submit(n) \/ Block(n)
                     \/ Finish(n, "ok") \/ Finish(n, "failed")

Next == AddNode \/ Open \/ Advance

Spec == Init /\ [][Next]_dagVars

FairSpec == Spec /\ WF_dagVars(Advance)
=============================================================================
