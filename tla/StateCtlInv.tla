----------------------------- MODULE StateCtlInv -----------------------------
(***************************************************************************)
(* The inductive invariant of StateCtl: what relates the counters, the work *)
(* queue, the futures and the outcomes in every state of a run.  The        *)
(* properties of StateCtl follow from it (module StateCtlProofs).           *)
(***************************************************************************)
EXTENDS StateCtl

\* The graph: what a node depends on was added before it, and only a node of
\* the graph has an outcome.
GraphInv ==
  /\ \A n \in Node :
       /\ Len(Ups(n)) <= MaxDeps
       /\ \A i \in DOMAIN Ups(n) : Ups(n)[i] \in 1 .. n - 1
  /\ \A n \in NodeId : outcomes[n] # "NONE" => n \in Node

\* The entries of d.upstreams that still keep d from running.
Unreleased(d) ==
  {i \in DOMAIN Ups(d) : outcomes[Ups(d)[i]] \notin Proceed \/ <<d, i>> \in edges}

\* What the loops of the main thread work on.
LoopInv ==
  /\ main # "release" => edges = {}
  /\ main # "block" => worklist = {}
  /\ \A e \in edges : /\ e[1] \in Node
                      /\ e[2] \in DOMAIN Ups(e[1])
                      /\ outcomes[Ups(e[1])[e[2]]] \in Proceed
  /\ \A d \in worklist : /\ d \in Node
                         /\ \E i \in DOMAIN Ups(d) : outcomes[Ups(d)[i]] \in Failure
  /\ main = "submit" => \A n \in NodeId : outcomes[n] = "NONE"

\* remaining[d] counts the entries that keep d from running.
CountInv ==
  main # "idle" =>
    \A d \in Node : outcomes[d] = "NONE" => remaining[d] = Cardinality(Unreleased(d))

\* A node in the pool is free to run ...
SubmitInv ==
  /\ \A n \in NodeId : pc[n] # "idle" => n \in Node /\ Unreleased(n) = {}
  /\ main = "submit" => \A n \in NodeId : n >= cursor => pc[n] = "idle"

\* ... and a node that is free to run is in the pool.
ReadyInv ==
  main # "idle" =>
    \A d \in Node :
      outcomes[d] = "NONE" /\ Unreleased(d) = {} =>
        pc[d] # "idle" \/ (main = "submit" /\ d >= cursor)

\* The work queue holds the queued nodes, each once.
QueueInv ==
  /\ \A i \in DOMAIN queue : pc[queue[i]] = "queued"
  /\ \A i, j \in DOMAIN queue : queue[i] = queue[j] => i = j

\* in_flight holds the nodes in the pool that were not absorbed.
FlightInv ==
  /\ \A n \in inFlight : pc[n] # "idle" /\ outcomes[n] = "NONE"
  /\ main \notin {"idle", "drain"} =>
       \A n \in NodeId : pc[n] # "idle" /\ outcomes[n] = "NONE" => n \in inFlight
  /\ done \subseteq inFlight
  /\ \A n \in done : pc[n] = "finished"

\* A finished node has a report or raised; its outcome is the one absorbed.
FutureInv ==
  \A n \in NodeId :
    /\ pc[n] = "finished" => future[n].outcome \in Reported \cup {"RAISED"}
    /\ pc[n] \in {"publish", "bind"} => future[n].outcome \in Eligible
    /\ outcomes[n] \in Reported =>
         pc[n] = "finished" /\ future[n].outcome = outcomes[n]

\* Every node below a failure is blocked or about to be.
BlockInv ==
  /\ BlockedByFailure
  /\ main # "idle" =>
       \A d \in Node :
         (\E i \in DOMAIN Ups(d) : outcomes[Ups(d)[i]] \in Failure)
           => outcomes[d] = "BLOCKED" \/ d \in worklist

\* The first bound[n] names of n are bound by n in this run; a node is
\* finished with an eligible report only when that is all of them.
PublishInv ==
  \A n \in NodeId :
    /\ pc[n] \in {"idle", "queued", "resolve", "assess", "transition", "verify", "publish"}
         => bound[n] = 0
    /\ pc[n] = "bind" => bound[n] < Len(Pubs(n))
    /\ pc[n] = "publish" => Len(Pubs(n)) > 0
    /\ n \in Node =>
         /\ bound[n] <= Len(Pubs(n))
         /\ \A j \in 1 .. bound[n] : registry[Pubs(n)[j]] = Binding(n, starts)
    /\ pc[n] = "finished" /\ future[n].outcome \in Eligible => bound[n] = Len(Pubs(n))

SchedInv == /\ GraphInv /\ LoopInv /\ CountInv /\ SubmitInv /\ ReadyInv
            /\ QueueInv /\ FlightInv /\ FutureInv /\ BlockInv /\ QuietAfterStart

IInv == TypeOK /\ SchedInv /\ PublishInv
=============================================================================
