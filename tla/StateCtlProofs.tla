--------------------------- MODULE StateCtlProofs ---------------------------
(***************************************************************************)
(* Proofs about StateCtl, for every number of nodes, of workers and of      *)
(* names: the inductive invariant IInv of StateCtlInv and what follows for  *)
(* the schedule, for the registry and for the failures that it causes, and  *)
(* that the engine implements DagRun.                                       *)
(***************************************************************************)
EXTENDS StateCtlInv, FiniteSetTheorems, WellFoundedInduction, TLAPS

(***************************************************************************)
(* Shapes of the graph.                                                     *)
(***************************************************************************)

\* A depends_on list is a sequence of at most MaxDeps nodes added before.
LEMMA DependsOnShape ==
  ASSUME TypeOK, NEW ups \in DependsOn
  PROVE  /\ ups \in Seq(NodeId)
         /\ Len(ups) <= MaxDeps
         /\ \A i \in DOMAIN ups : ups[i] \in Node
<1>1. PICK k \in 0 .. MaxDeps : ups \in [1 .. k -> Node]
  BY DEF DependsOn
<1>2. Node \subseteq NodeId
  BY BoundsAssumption DEF Node, NodeId, TypeOK
<1>3. k \in Nat /\ k <= MaxDeps
  BY BoundsAssumption
<1>4. ups \in Seq(NodeId)
  BY <1>1, <1>2, <1>3
<1>5. Len(ups) = k /\ DOMAIN ups = 1 .. k
  BY <1>1, <1>3, <1>4
<1> QED
  BY <1>1, <1>3, <1>4, <1>5

\* The fields of a node that was added.
LEMMA NodeShape ==
  ASSUME TypeOK, NEW n \in Node
  PROVE  /\ n \in NodeId
         /\ nodes[n] \in ExecutionNode
         /\ Ups(n) \in Seq(NodeId)
         /\ Pubs(n) \in PublishLists
         /\ Pubs(n) \in Seq(Var)
         /\ nodes[n].reads \subseteq Var
<1>1. n \in NodeId /\ n \in DOMAIN nodes
  BY BoundsAssumption DEF Node, NodeId, TypeOK
<1>2. nodes[n] \in ExecutionNode
  BY <1>1 DEF TypeOK
<1> QED
  BY <1>1, <1>2, PublishAssumption DEF ExecutionNode, Ups, Pubs

(***************************************************************************)
(* What a step of a worker in _run_node leaves alone: the main thread, the  *)
(* graph, the work queue, and every other node.                             *)
(***************************************************************************)
LEMMA RunNodeFrame ==
  ASSUME TypeOK, NEW n \in NodeId, RunNode(n)
  PROVE  /\ UNCHANGED <<graphVars, mainVars, queue>>
         /\ pc[n] \notin {"idle", "queued", "finished"}
         /\ pc' \in [NodeId -> Worker]
         /\ pc'[n] \notin {"idle", "queued"}
         /\ \A m \in NodeId \ {n} : pc'[m] = pc[m]
         /\ future' \in [NodeId -> Reports]
         /\ \A m \in NodeId \ {n} : future'[m] = future[m]
<1> DEFINE Frame == /\ UNCHANGED <<graphVars, mainVars, queue>>
                    /\ pc[n] \notin {"idle", "queued", "finished"}
                    /\ pc' \in [NodeId -> Worker]
                    /\ pc'[n] \notin {"idle", "queued"}
                    /\ \A m \in NodeId \ {n} : pc'[m] = pc[m]
                    /\ future' \in [NodeId -> Reports]
                    /\ \A m \in NodeId \ {n} : future'[m] = future[m]
<1>1. ASSUME NEW p \in {"resolve", "assess", "transition", "verify", "publish"},
             NEW q \in Worker \ {"idle", "queued"},
             Goto(n, p, q)
      PROVE  Frame
  BY <1>1 DEF Goto, TypeOK, Worker
<1>2. ASSUME NEW r \in Reports, Complete(n, r),
             pc[n] \notin {"idle", "queued", "finished"}
      PROVE  Frame
  BY <1>2 DEF Complete, TypeOK, Worker
<1>3. ASSUME NEW o \in Eligible, Publishing(n, o),
             pc[n] \notin {"idle", "queued", "finished"}
      PROVE  Frame
  BY <1>3 DEF Publishing, TypeOK, Worker, Report, Reports, Eligible, Proceed, Reported, Code
<1>4. Report("FAILED_INVALID", "MISSING_VAR") \in Reports
      /\ Report("FAILED_INVALID", "") \in Reports
      /\ Report("SKIPPED_BY_TRANSITION", "") \in Reports
      /\ Report("FAILED_TRANSITION", "") \in Reports
      /\ Report("FAILED_TRANSITION", "PUBLISH_DUPLICATE") \in Reports
      /\ Raised \in Reports
  BY DEF Report, Raised, Reports, Reported, Proceed, EngineFailure, Code
<1>5. CASE ResolveMissing(n)
  BY <1>2, <1>4, <1>5 DEF ResolveMissing
<1>6. CASE ResolveFails(n)
  BY <1>2, <1>4, <1>6 DEF ResolveFails
<1>7. CASE Resolve(n) \/ AssessReady(n) \/ TransitionSucceeds(n)
           \/ TransitionFails(n) \/ VerifyMismatch(n) \/ PublishReturns(n)
  BY <1>1, <1>7 DEF Resolve, AssessReady, TransitionSucceeds, TransitionFails,
                    VerifyMismatch, PublishReturns, Worker
<1>8. CASE AssessApplied(n)
  BY <1>3, <1>8 DEF AssessApplied, Eligible
<1>9. CASE AssessInvalid(n)
  BY <1>2, <1>4, <1>9 DEF AssessInvalid
<1>10. CASE TransitionSkips(n)
  BY <1>2, <1>4, <1>10 DEF TransitionSkips
<1>11. CASE VerifyApplied(n)
  BY <1>3, <1>11 DEF VerifyApplied, Eligible
<1>12. CASE Rollback(n)
  BY <1>2, <1>4, <1>12 DEF Rollback
<1>13. CASE Raises(n)
  BY <1>2, <1>4, <1>13 DEF Raises
<1>14. CASE PublishRaises(n)
  BY <1>2, <1>4, <1>14 DEF PublishRaises
<1>15. CASE Bind(n)
  BY <1>15 DEF Bind, TypeOK, Worker
<1>16. CASE BindDuplicate(n)
  BY <1>2, <1>4, <1>16 DEF BindDuplicate
<1> QED
  BY <1>5, <1>6, <1>7, <1>8, <1>9, <1>10, <1>11, <1>12, <1>13, <1>14, <1>15,
     <1>16 DEF RunNode
(***************************************************************************)
(* The unreleased entries of a node.                                        *)
(***************************************************************************)

\* They are finitely many, so that they can be counted.
LEMMA UnreleasedFinite ==
  ASSUME TypeOK, NEW d \in Node
  PROVE  /\ IsFiniteSet(Unreleased(d))
         /\ Cardinality(Unreleased(d)) \in Nat
         /\ Cardinality(Unreleased(d)) = 0 <=> Unreleased(d) = {}
<1>1. Len(Ups(d)) \in Nat /\ DOMAIN Ups(d) = 1 .. Len(Ups(d))
  BY NodeShape
<1>2. IsFiniteSet(1 .. Len(Ups(d)))
  BY <1>1, FS_Interval
<1>3. IsFiniteSet(Unreleased(d))
  BY <1>1, <1>2, FS_Subset DEF Unreleased
<1> QED
  BY <1>3, FS_CardinalityType, FS_EmptySet

\* They change only with the graph, the outcomes and the edges.
LEMMA UnreleasedSame ==
  ASSUME UNCHANGED <<nodes, outcomes, edges>>, NEW d
  PROVE  Unreleased(d)' = Unreleased(d)
BY DEF Unreleased, Ups

\* A node with a failed or blocked upstream has an unreleased entry, so it was
\* never handed to the pool.
LEMMA FailedUpstreamKeepsIdle ==
  ASSUME TypeOK, SubmitInv, NEW d \in Node,
         \E i \in DOMAIN Ups(d) : outcomes[Ups(d)[i]] \in Failure
  PROVE  Unreleased(d) # {} /\ pc[d] = "idle"
<1>1. Failure \cap Proceed = {}
  BY DEF Failure, EngineFailure, Proceed, Eligible
<1>2. Unreleased(d) # {}
  BY <1>1 DEF Unreleased
<1> QED
  BY <1>2, NodeShape DEF SubmitInv

(***************************************************************************)
(* The initial states, and the steps that build the graph and open a run.   *)
(***************************************************************************)
LEMMA InitInv ==
  ASSUME Init
  PROVE  TypeOK /\ SchedInv
<1>1. Node = {}
  BY DEF Init, Node
<1>2. TypeOK
  <2>1. Unbound \in [node : 0 .. MaxNodes, start : 0 .. MaxStarts]
    BY BoundsAssumption DEF Unbound, Binding
  <2>2. NoReport \in Reports
    BY DEF NoReport, Report, Reports, Code
  <2>3. /\ nodes \in Seq(ExecutionNode)
        /\ Len(nodes) <= MaxNodes
        /\ queue \in Seq(NodeId)
    BY BoundsAssumption DEF Init
  <2>4. /\ registry \in [Var -> [node : 0 .. MaxNodes, start : 0 .. MaxStarts]]
        /\ future \in [NodeId -> Reports]
    BY <2>1, <2>2 DEF Init
  <2> QED
    BY <2>3, <2>4, BoundsAssumption DEF Init, TypeOK, Main, Worker, Outcome
<1>3. GraphInv /\ LoopInv /\ CountInv /\ SubmitInv /\ ReadyInv /\ BlockInv
  BY <1>1 DEF Init, GraphInv, LoopInv, CountInv, SubmitInv, ReadyInv, BlockInv,
     BlockedByFailure
<1>4. QueueInv /\ FlightInv /\ FutureInv /\ QuietAfterStart
  BY DEF Init, QueueInv, FlightInv, FutureInv, QuietAfterStart, Reported,
     Proceed, Eligible, EngineFailure
<1> QED
  BY <1>2, <1>3, <1>4 DEF SchedInv

\* Adding a node leaves every other node as it is.
LEMMA AddNodeFrame ==
  ASSUME TypeOK, NEW ups \in DependsOn, NEW deferred \in BOOLEAN,
         NEW pubs \in PublishLists, NEW reads \in SUBSET Var,
         AddNode(ups, deferred, pubs, reads)
  PROVE  /\ TypeOK'
         /\ Node' = Node \cup {Len(nodes) + 1}
         /\ Len(nodes) + 1 \in NodeId \ Node
         /\ \A n \in Node : nodes'[n] = nodes[n]
         /\ nodes'[Len(nodes) + 1].upstreams = ups
<1>1. ups \in Seq(NodeId)
  BY DependsOnShape
<1> DEFINE new == [upstreams |-> ups, deferred |-> deferred,
                   publishes |-> pubs, reads |-> reads]
<1>2. new \in ExecutionNode
  BY <1>1 DEF ExecutionNode
<1> HIDE DEF new
<1>3. nodes' = Append(nodes, new)
  BY DEF AddNode, new
<1>4. /\ nodes' \in Seq(ExecutionNode)
      /\ Len(nodes') = Len(nodes) + 1
      /\ nodes'[Len(nodes) + 1] = new
      /\ \A n \in 1 .. Len(nodes) : nodes'[n] = nodes[n]
  BY <1>2, <1>3 DEF TypeOK
<1>5. Len(nodes) \in Nat /\ Len(nodes) < MaxNodes
  BY DEF TypeOK, AddNode
<1>6. TypeOK'
  BY <1>4, <1>5, BoundsAssumption DEF AddNode, TypeOK, mainVars, workerVars
<1> QED
  BY <1>4, <1>5, <1>6, BoundsAssumption DEF Node, NodeId, new

LEMMA AddNodeInv ==
  ASSUME TypeOK, SchedInv, NEW ups \in DependsOn, NEW deferred \in BOOLEAN,
         NEW pubs \in PublishLists, NEW reads \in SUBSET Var,
         AddNode(ups, deferred, pubs, reads)
  PROVE  TypeOK' /\ SchedInv'
<1> USE DEF SchedInv
<1> DEFINE m == Len(nodes) + 1
<1>1. /\ TypeOK'
      /\ Node' = Node \cup {m}
      /\ m \in NodeId \ Node
      /\ \A n \in Node : nodes'[n] = nodes[n]
      /\ nodes'[m].upstreams = ups
  BY AddNodeFrame
<1>2. /\ main = "idle"
      /\ UNCHANGED <<starts, mainVars, workerVars>>
  BY DEF AddNode
<1>3. ASSUME NEW n \in Node
      PROVE  Ups(n)' = Ups(n) /\ Unreleased(n)' = Unreleased(n)
  BY <1>1, <1>2, <1>3 DEF Ups, Unreleased, mainVars
<1>4. outcomes[m] = "NONE" /\ pc[m] = "idle"
  BY <1>1 DEF GraphInv, SubmitInv
<1>5. GraphInv'
  <2>1. \A i \in DOMAIN ups : ups[i] \in 1 .. m - 1
    BY DependsOnShape DEF Node, TypeOK
  <2>2. Len(ups) <= MaxDeps
    BY DependsOnShape
  <2>3. \A n \in Node : /\ Len(Ups(n)') <= MaxDeps
                        /\ \A i \in DOMAIN Ups(n)' : Ups(n)'[i] \in 1 .. n - 1
    BY <1>3 DEF GraphInv
  <2> QED
    BY <1>1, <1>2, <2>1, <2>2, <2>3 DEF GraphInv, Ups, mainVars
<1>6. LoopInv' /\ CountInv' /\ ReadyInv'
  BY <1>2 DEF LoopInv, CountInv, ReadyInv, mainVars
<1>7. SubmitInv'
  BY <1>1, <1>2, <1>3 DEF SubmitInv, mainVars, workerVars
<1>8. QueueInv' /\ FlightInv' /\ FutureInv' /\ QuietAfterStart'
  BY <1>2 DEF QueueInv, FlightInv, FutureInv, QuietAfterStart, mainVars, workerVars
<1>9. BlockInv'
  BY <1>1, <1>2, <1>3, <1>4 DEF BlockInv, BlockedByFailure, mainVars
<1> QED
  BY <1>1, <1>5, <1>6, <1>7, <1>8, <1>9

LEMMA StartInv ==
  ASSUME TypeOK, SchedInv, Start
  PROVE  TypeOK' /\ SchedInv'
<1> USE DEF SchedInv
<1>1. /\ nodes' = nodes
      /\ main' = "submit" /\ cursor' = 1
      /\ outcomes' = [n \in NodeId |-> "NONE"]
      /\ pc' = [n \in NodeId |-> "idle"]
      /\ inFlight' = {} /\ done' = {} /\ edges' = {} /\ worklist' = {}
      /\ queue' = << >>
      /\ remaining' = [n \in NodeId |-> IF n \in Node THEN Len(Ups(n)) ELSE 0]
  BY DEF Start
<1>2. Node' = Node /\ \A n : Ups(n)' = Ups(n)
  BY <1>1 DEF Node, Ups
<1>3. ASSUME NEW n \in Node
      PROVE  /\ Len(Ups(n)) \in Nat /\ DOMAIN Ups(n) = 1 .. Len(Ups(n))
             /\ \A i \in DOMAIN Ups(n) : Ups(n)[i] \in NodeId
             /\ n \in NodeId
  BY NodeShape
<1>4. TypeOK'
  <2>1. remaining' \in [NodeId -> Nat]
    BY <1>1, <1>3
  <2>2. future' \in [NodeId -> Reports]
    BY DEF Start, NoReport, Report, Reports, Code
  <2>3. queue' \in Seq(NodeId)
    BY <1>1
  <2>4. starts' \in 0 .. MaxStarts
    BY BoundsAssumption DEF Start, TypeOK
  <2>5. nodes' \in Seq(ExecutionNode) /\ Len(nodes') <= MaxNodes
    BY <1>1 DEF TypeOK
  <2> QED
    BY <2>1, <2>2, <2>3, <2>4, <2>5, BoundsAssumption
    DEF Start, TypeOK, Main, Worker, Outcome
<1>5. ASSUME NEW n \in Node
      PROVE  /\ Unreleased(n)' = 1 .. Len(Ups(n))
             /\ Cardinality(Unreleased(n)') = Len(Ups(n))
  <2>1. Unreleased(n)' = 1 .. Len(Ups(n))
    BY <1>1, <1>2, <1>3 DEF Unreleased, Proceed, Eligible
  <2>2. Len(Ups(n)) \in Nat
    BY <1>3
  <2>3. Cardinality(1 .. Len(Ups(n))) = Len(Ups(n))
    BY <2>2, FS_Interval
  <2> QED
    BY <2>1, <2>3
<1>6. GraphInv' /\ LoopInv'
  BY <1>1, <1>2 DEF SchedInv, GraphInv, LoopInv
<1>7. CountInv'
  BY <1>1, <1>2, <1>3, <1>5 DEF CountInv
<1>8. SubmitInv' /\ QueueInv' /\ FlightInv' /\ QuietAfterStart'
  BY <1>1 DEF SubmitInv, QueueInv, FlightInv, QuietAfterStart
<1>9. ReadyInv'
  BY <1>1, <1>2 DEF ReadyInv, Node
<1>10. FutureInv'
  BY <1>1 DEF FutureInv, Reported, Proceed, Eligible, EngineFailure
<1>11. BlockInv'
  BY <1>1, <1>2, <1>3
  DEF BlockInv, BlockedByFailure, Failure, EngineFailure
<1> QED
  BY <1>4, <1>6, <1>7, <1>8, <1>9, <1>10, <1>11

(***************************************************************************)
(* The thread in start().                                                   *)
(***************************************************************************)

\* Handing a node to the pool that is free to run and not there yet.
LEMMA SubmitFrame ==
  ASSUME TypeOK, QueueInv, NEW n \in NodeId, pc[n] = "idle", Submit(n)
  PROVE  /\ queue' \in Seq(NodeId) /\ pc' \in [NodeId -> Worker]
         /\ inFlight' = inFlight \cup {n}
         /\ pc'[n] = "queued" /\ \A m \in NodeId \ {n} : pc'[m] = pc[m]
         /\ QueueInv'
<1>1. /\ queue \in Seq(NodeId)
      /\ queue' = Append(queue, n)
      /\ inFlight' = inFlight \cup {n}
      /\ pc' = [pc EXCEPT ![n] = "queued"]
      /\ pc \in [NodeId -> Worker]
  BY DEF TypeOK, Submit
<1>2. pc' \in [NodeId -> Worker] /\ pc'[n] = "queued"
      /\ \A m \in NodeId \ {n} : pc'[m] = pc[m]
  BY <1>1 DEF Worker
<1>3. /\ queue' \in Seq(NodeId)
      /\ DOMAIN queue = 1 .. Len(queue)
      /\ DOMAIN queue' = 1 .. Len(queue) + 1
      /\ \A i \in DOMAIN queue : queue'[i] = queue[i] /\ queue[i] \in NodeId
      /\ queue'[Len(queue) + 1] = n
      /\ Len(queue) \in Nat
  BY <1>1
<1>4. \A i \in DOMAIN queue : queue[i] # n
  BY DEF QueueInv
<1> QED
  BY <1>1, <1>2, <1>3, <1>4 DEF QueueInv

LEMMA SubmitRootInv ==
  ASSUME TypeOK, SchedInv, SubmitRoot
  PROVE  TypeOK' /\ SchedInv'
<1> USE DEF SchedInv
<1>1. /\ main = "submit" /\ cursor \in Node /\ cursor' = cursor + 1
      /\ cursor \in NodeId
      /\ UNCHANGED <<nodes, registry, starts, main, remaining, outcomes, done,
                     edges, worklist, ended, future, bound>>
      /\ inFlight \subseteq NodeId
  BY NodeShape DEF SubmitRoot, graphVars, TypeOK
<1>2. Node' = Node /\ \A n : Ups(n)' = Ups(n) /\ Unreleased(n)' = Unreleased(n)
  BY <1>1, UnreleasedSame DEF Node, Ups
<1>3. pc[cursor] = "idle" /\ outcomes[cursor] = "NONE"
  BY <1>1 DEF SubmitInv, LoopInv, NodeId
<1>4. remaining[cursor] = 0 <=> Unreleased(cursor) = {}
  BY <1>1, <1>3, UnreleasedFinite DEF CountInv
<1>5. CASE remaining[cursor] = 0
  <2>1. /\ queue' \in Seq(NodeId) /\ pc' \in [NodeId -> Worker]
        /\ inFlight' = inFlight \cup {cursor}
        /\ pc'[cursor] = "queued"
        /\ \A m \in NodeId \ {cursor} : pc'[m] = pc[m]
        /\ QueueInv'
    BY <1>1, <1>3, <1>5, SubmitFrame DEF SubmitRoot
  <2>2. TypeOK'
    <3>1. cursor' \in 1 .. MaxNodes + 1
      BY <1>1, BoundsAssumption DEF NodeId
    <3> QED
      BY <1>1, <2>1, <3>1 DEF TypeOK
  <2>3. GraphInv' /\ LoopInv' /\ CountInv' /\ BlockInv'
    BY <1>1, <1>2 DEF GraphInv, LoopInv, CountInv, BlockInv, BlockedByFailure
  <2>4. SubmitInv'
    BY <1>1, <1>2, <1>4, <1>5, <2>1 DEF SubmitInv, NodeId
  <2>5. ReadyInv'
    <3>1. SUFFICES ASSUME NEW d \in Node, outcomes[d] = "NONE",
                          Unreleased(d) = {}, pc'[d] = "idle"
                   PROVE  d >= cursor'
      BY <1>1, <1>2 DEF ReadyInv
    <3>2. d \in NodeId /\ d # cursor
      BY <2>1, <3>1, NodeShape
    <3>3. d >= cursor
      BY <1>1, <2>1, <3>1, <3>2 DEF ReadyInv
    <3> QED
      BY <1>1, <3>2, <3>3 DEF NodeId
  <2>6. FlightInv'
    BY <1>1, <1>3, <2>1 DEF FlightInv
  <2>7. FutureInv'
    BY <1>1, <1>3, <2>1 DEF FutureInv
  <2>8. QuietAfterStart'
    BY <1>1 DEF QuietAfterStart
  <2> QED
    BY <2>1, <2>2, <2>3, <2>4, <2>5, <2>6, <2>7, <2>8
<1>6. CASE remaining[cursor] # 0
  <2>1. UNCHANGED <<inFlight, queue, pc>>
    BY <1>6 DEF SubmitRoot
  <2>2. TypeOK'
    <3>1. cursor' \in 1 .. MaxNodes + 1
      BY <1>1, BoundsAssumption DEF NodeId
    <3> QED
      BY <1>1, <2>1, <3>1 DEF TypeOK
  <2>3. GraphInv' /\ LoopInv' /\ CountInv' /\ BlockInv'
    BY <1>1, <1>2 DEF GraphInv, LoopInv, CountInv, BlockInv, BlockedByFailure
  <2>4. SubmitInv'
    BY <1>1, <1>2, <2>1 DEF SubmitInv, NodeId
  <2>5. ReadyInv'
    BY <1>1, <1>2, <1>4, <1>6, <2>1 DEF ReadyInv, NodeId, Node
  <2>6. QueueInv' /\ FlightInv' /\ FutureInv' /\ QuietAfterStart'
    BY <1>1, <2>1 DEF QueueInv, FlightInv, FutureInv, QuietAfterStart
  <2> QED
    BY <2>2, <2>3, <2>4, <2>5, <2>6
<1> QED
  BY <1>5, <1>6

\* The steps of the main thread that only move it from one loop to another.
LEMMA MoveFrame ==
  ASSUME TypeOK, SchedInv,
         main' \in Main \ {"idle", "submit"},
         UNCHANGED <<nodes, outcomes, edges, worklist, cursor, remaining, queue,
                     pc, future, registry, starts, ended, bound>>,
         inFlight' \in SUBSET NodeId, done' \in SUBSET NodeId,
         main # "idle"
  PROVE  /\ TypeOK' /\ GraphInv' /\ CountInv' /\ QueueInv' /\ FutureInv'
         /\ SubmitInv' /\ BlockInv' /\ QuietAfterStart'
<1> USE DEF SchedInv
<1>1. Node' = Node /\ \A n : Ups(n)' = Ups(n) /\ Unreleased(n)' = Unreleased(n)
  BY UnreleasedSame DEF Node, Ups
<1>2. TypeOK'
  BY DEF TypeOK
<1>3. GraphInv' /\ CountInv' /\ BlockInv' /\ SubmitInv'
  BY <1>1 DEF GraphInv, CountInv, BlockInv, BlockedByFailure, SubmitInv
<1>4. QueueInv' /\ FutureInv' /\ QuietAfterStart'
  BY DEF QueueInv, FutureInv, QuietAfterStart
<1> QED
  BY <1>2, <1>3, <1>4

LEMMA MoveInv ==
  ASSUME TypeOK, SchedInv,
         \/ SubmitEnd \/ Wait \/ AbsorbEnd \/ ReleaseEnd \/ BlockEnd
         \/ \E n \in NodeId : AbsorbRaised(n)
  PROVE  TypeOK' /\ SchedInv'
<1> USE DEF SchedInv
<1>1. /\ main # "idle" /\ main' \in Main \ {"idle", "submit"}
      /\ UNCHANGED <<nodes, outcomes, edges, worklist, cursor, remaining, queue,
                     pc, future, registry, starts, ended, bound>>
      /\ inFlight' \in SUBSET NodeId /\ done' \in SUBSET NodeId
  BY DEF TypeOK, Main, SubmitEnd, Wait, AbsorbEnd, ReleaseEnd, BlockEnd,
         AbsorbRaised, graphVars, workerVars
<1>2. /\ TypeOK' /\ GraphInv' /\ CountInv' /\ QueueInv' /\ FutureInv'
      /\ SubmitInv' /\ BlockInv' /\ QuietAfterStart'
  BY <1>1, MoveFrame
<1>3. Node' = Node /\ \A n : Ups(n)' = Ups(n) /\ Unreleased(n)' = Unreleased(n)
  BY <1>1, UnreleasedSame DEF Node, Ups
<1>4. edges' = {} /\ worklist' = {}
  BY <1>1 DEF LoopInv, SubmitEnd, Wait, AbsorbEnd, ReleaseEnd, BlockEnd, AbsorbRaised
<1>5. LoopInv'
  BY <1>1, <1>4 DEF LoopInv
<1>6. ReadyInv'
  <2>1. main = "submit" => cursor > Len(nodes)
    BY DEF SubmitEnd, Wait, AbsorbEnd, ReleaseEnd, BlockEnd, AbsorbRaised
  <2>2. SUFFICES ASSUME NEW d \in Node, outcomes[d] = "NONE", Unreleased(d) = {}
                 PROVE  pc[d] # "idle"
    BY <1>1, <1>3 DEF ReadyInv
  <2>3. pc[d] # "idle" \/ (main = "submit" /\ d >= cursor)
    BY <1>1, <2>2 DEF ReadyInv
  <2>4. main = "submit" => ~(d >= cursor)
    <3>1. Len(nodes) \in Nat /\ cursor \in Nat /\ d \in 1 .. Len(nodes)
      BY DEF TypeOK, Node
    <3>. QED
      BY <2>1, <3>1
  <2>. QED
    BY <2>3, <2>4
<1>7. FlightInv'
  <2>1. CASE Wait
    BY <1>1, <2>1 DEF FlightInv, Wait
  <2>2. CASE \E n \in NodeId : AbsorbRaised(n)
    BY <1>1, <2>2 DEF FlightInv, AbsorbRaised
  <2>3. CASE SubmitEnd \/ AbsorbEnd \/ ReleaseEnd \/ BlockEnd
    BY <1>1, <2>3 DEF FlightInv, SubmitEnd, AbsorbEnd, ReleaseEnd, BlockEnd
  <2> QED
    BY <2>1, <2>2, <2>3
<1> QED
  BY <1>2, <1>5, <1>6, <1>7

\* start() comes back only when the pool is quiet.
LEMMA ComeBackInv ==
  ASSUME TypeOK, SchedInv, Return \/ Drain
  PROVE  TypeOK' /\ SchedInv'
<1> USE DEF SchedInv
<1>1. /\ main \in {"wait", "drain"} /\ main' = "idle"
      /\ ended' \in {"none", "returned", "raised"}
      /\ UNCHANGED <<nodes, outcomes, edges, worklist, cursor, remaining, queue,
                     pc, future, registry, starts, bound, inFlight, done>>
  BY DEF Return, LoopExit, Drain, graphVars, workerVars
<1>2. Node' = Node /\ \A n : Ups(n)' = Ups(n) /\ Unreleased(n)' = Unreleased(n)
  BY <1>1, UnreleasedSame DEF Node, Ups
<1>3. ASSUME NEW n \in NodeId
      PROVE  pc[n] \in {"idle", "finished"}
  <2>1. CASE Drain
    BY <2>1 DEF Drain
  <2>2. CASE Return
    <3>1. SUFFICES ASSUME pc[n] # "idle" PROVE pc[n] = "finished"
      OBVIOUS
    <3>2. n \in Node /\ outcomes[n] # "NONE"
      BY <2>2, <3>1 DEF Return, LoopExit, FlightInv, SubmitInv
    <3>3. outcomes[n] # "BLOCKED"
      BY <3>1, <3>2, FailedUpstreamKeepsIdle DEF BlockInv, BlockedByFailure
    <3> QED
      BY <3>2, <3>3 DEF FutureInv, TypeOK, Outcome
  <2> QED
    BY <2>1, <2>2
<1>4. queue = << >>
  <2>1. queue \in Seq(NodeId)
    BY DEF TypeOK
  <2>2. \A i \in DOMAIN queue : queue[i] \in NodeId
    BY <2>1
  <2>3. DOMAIN queue = {}
    BY <1>3, <2>2 DEF QueueInv
  <2> QED
    BY <2>1, <2>3
<1>5. TypeOK'
  BY <1>1 DEF TypeOK, Main
<1>6. GraphInv' /\ LoopInv' /\ CountInv' /\ SubmitInv' /\ ReadyInv' /\ BlockInv'
  BY <1>1, <1>2 DEF GraphInv, LoopInv, CountInv, SubmitInv, ReadyInv, BlockInv,
                    BlockedByFailure
<1>7. QueueInv' /\ FlightInv' /\ FutureInv'
  BY <1>1 DEF QueueInv, FlightInv, FutureInv
<1>8. QuietAfterStart'
  BY <1>1, <1>3, <1>4 DEF QuietAfterStart
<1> QED
  BY <1>5, <1>6, <1>7, <1>8

\* The entries of a depends_on list of a node in the graph.
LEMMA UpsShape ==
  ASSUME TypeOK, GraphInv, NEW m \in Node, NEW i \in DOMAIN Ups(m)
  PROVE  Ups(m)[i] \in Node /\ i \in 1 .. MaxDeps
<1>1. Ups(m)[i] \in 1 .. m - 1 /\ Len(Ups(m)) <= MaxDeps
  BY DEF GraphInv
<1>2. Len(nodes) \in Nat /\ MaxDeps \in Nat
  BY BoundsAssumption DEF TypeOK
<1>3. Ups(m)[i] \in Node
  BY <1>1, <1>2 DEF Node
<1>4. Ups(m) \in Seq(NodeId)
  BY NodeShape
<1>5. i \in 1 .. Len(Ups(m)) /\ Len(Ups(m)) \in Nat
  BY <1>4
<1> QED
  BY <1>1, <1>2, <1>3, <1>5

\* Recording the outcome of a completed node: what both branches share.
LEMMA AbsorbFrame ==
  ASSUME TypeOK, SchedInv, NEW n \in NodeId, Absorb(n)
  PROVE  /\ n \in Node /\ main = "absorb" /\ edges = {} /\ worklist = {}
         /\ outcomes[n] = "NONE" /\ pc[n] = "finished"
         /\ outcomes'[n] = future[n].outcome /\ outcomes'[n] \in Reported
         /\ \A m \in NodeId \ {n} : outcomes'[m] = outcomes[m]
         /\ outcomes' \in [NodeId -> Outcome \cup {"NONE"}]
         /\ inFlight' = inFlight \ {n} /\ done' = done \ {n}
         /\ Node' = Node /\ \A m : Ups(m)' = Ups(m)
         /\ UNCHANGED <<nodes, registry, starts, cursor, remaining, ended,
                        queue, pc, future, bound>>
         /\ QueueInv' /\ FlightInv' /\ FutureInv' /\ GraphInv'
<1> USE DEF SchedInv
<1>1. /\ main = "absorb" /\ main' \in {"block", "release"}
      /\ n \in done /\ future[n].outcome # "RAISED"
      /\ outcomes' = [outcomes EXCEPT ![n] = future[n].outcome]
      /\ inFlight' = inFlight \ {n} /\ done' = done \ {n}
      /\ UNCHANGED <<nodes, registry, starts, cursor, remaining, ended,
                     queue, pc, future, bound>>
  BY DEF Absorb, graphVars, workerVars
<1>2. edges = {} /\ worklist = {}
  BY <1>1 DEF LoopInv
<1>3. pc[n] = "finished" /\ outcomes[n] = "NONE"
  BY <1>1 DEF FlightInv
<1>4. n \in Node
  BY <1>3 DEF SubmitInv
<1>5. future[n].outcome \in Reported
  BY <1>1, <1>3 DEF FutureInv
<1>6. /\ outcomes'[n] = future[n].outcome
      /\ \A m \in NodeId \ {n} : outcomes'[m] = outcomes[m]
      /\ outcomes' \in [NodeId -> Outcome \cup {"NONE"}]
  BY <1>1, <1>5 DEF TypeOK, Outcome
<1>7. Node' = Node /\ \A m : Ups(m)' = Ups(m)
  BY <1>1 DEF Node, Ups
<1>8. QueueInv' /\ GraphInv'
  BY <1>1, <1>4, <1>6, <1>7 DEF QueueInv, GraphInv
<1>9. FlightInv'
  <2>1. inFlight \subseteq NodeId /\ "NONE" \notin Reported
    BY DEF TypeOK, Reported, Proceed, Eligible, EngineFailure
  <2> QED
    BY <1>1, <1>5, <1>6, <2>1 DEF FlightInv
<1>10. FutureInv'
  BY <1>1, <1>3, <1>6 DEF FutureInv
<1> QED
  BY <1>1, <1>2, <1>3, <1>4, <1>5, <1>6, <1>7, <1>8, <1>9, <1>10

LEMMA AbsorbInv ==
  ASSUME TypeOK, SchedInv, NEW n \in NodeId, Absorb(n)
  PROVE  TypeOK' /\ SchedInv'
<1>1. /\ n \in Node /\ main = "absorb" /\ edges = {} /\ worklist = {}
      /\ outcomes[n] = "NONE" /\ pc[n] = "finished"
      /\ outcomes'[n] = future[n].outcome /\ outcomes'[n] \in Reported
      /\ \A m \in NodeId \ {n} : outcomes'[m] = outcomes[m]
      /\ outcomes' \in [NodeId -> Outcome \cup {"NONE"}]
      /\ inFlight' = inFlight \ {n} /\ done' = done \ {n}
      /\ Node' = Node /\ \A m : Ups(m)' = Ups(m)
      /\ UNCHANGED <<nodes, registry, starts, cursor, remaining, ended,
                     queue, pc, future, bound>>
      /\ QueueInv' /\ FlightInv' /\ FutureInv' /\ GraphInv'
  BY AbsorbFrame
<1> USE DEF SchedInv
<1>2. \A m \in Node : \A i \in DOMAIN Ups(m) :
        /\ Ups(m)[i] \in Node
        /\ i \in 1 .. MaxDeps
  BY UpsShape
<1>3. Node \subseteq NodeId
  BY NodeShape
<1>4. "NONE" \notin Reported \cup Proceed \cup Failure /\ "BLOCKED" \notin Reported
      /\ EngineFailure \cap Proceed = {} /\ Reported \ EngineFailure = Proceed
      /\ EngineFailure \subseteq Failure /\ Failure \cap Proceed = {}
  BY DEF Reported, Proceed, Eligible, Failure, EngineFailure
<1>5. ASSUME NEW e \in EdgesOf(n)
      PROVE  /\ e \in NodeId \X (1 .. MaxDeps) /\ e[1] \in Node
             /\ e[2] \in DOMAIN Ups(e[1]) /\ Ups(e[1])[e[2]] = n
  BY <1>3, <1>5 DEF EdgesOf
<1>6. TypeOK'
  <2>1. edges' \in SUBSET (NodeId \X (1 .. MaxDeps))
    BY <1>1, <1>5 DEF Absorb
  <2>2. worklist' \in SUBSET NodeId
    BY <1>1, <1>3 DEF Absorb, Downstream
  <2>3. main' \in Main
    BY DEF Absorb, Main
  <2> QED
    BY <1>1, <2>1, <2>2, <2>3 DEF TypeOK
<1>7. CASE future[n].outcome \in EngineFailure
  <2>1. main' = "block" /\ worklist' = Downstream(n) /\ edges' = edges
    BY <1>7 DEF Absorb
  <2>2. ASSUME NEW d \in Node PROVE Unreleased(d)' = Unreleased(d)
    BY <1>1, <1>2, <1>3, <1>4, <1>7, <2>1 DEF Unreleased
  <2>3. LoopInv'
    <3>1. ASSUME NEW d \in worklist'
          PROVE  /\ d \in Node
                 /\ \E i \in DOMAIN Ups(d) : outcomes'[Ups(d)[i]] \in Failure
      BY <1>1, <1>4, <1>7, <2>1, <3>1 DEF Downstream
    <3> QED
      BY <1>1, <2>1, <3>1 DEF LoopInv
  <2>4. CountInv' /\ SubmitInv' /\ ReadyInv' /\ QuietAfterStart'
    BY <1>1, <1>3, <1>4, <2>1, <2>2
    DEF CountInv, SubmitInv, ReadyInv, QuietAfterStart
  <2>5. BlockInv'
    <3>1. BlockedByFailure'
      BY <1>1, <1>2, <1>3, <1>4 DEF BlockInv, BlockedByFailure
    <3>2. ASSUME NEW d \in Node, NEW i \in DOMAIN Ups(d),
                 outcomes'[Ups(d)[i]] \in Failure
          PROVE  outcomes'[d] = "BLOCKED" \/ d \in worklist'
      <4>1. CASE Ups(d)[i] = n
        BY <2>1, <4>1 DEF Downstream
      <4>2. CASE Ups(d)[i] # n
        <5>1. outcomes[Ups(d)[i]] \in Failure
          BY <1>1, <1>2, <1>3, <3>2, <4>2
        <5>2. outcomes[d] = "BLOCKED"
          BY <1>1, <5>1 DEF BlockInv
        <5> QED
          BY <1>1, <1>3, <5>2
      <4> QED
        BY <4>1, <4>2
    <3> QED
      BY <1>1, <3>1, <3>2 DEF BlockInv
  <2> QED
    BY <1>1, <1>6, <2>3, <2>4, <2>5
<1>8. CASE future[n].outcome \notin EngineFailure
  <2>1. main' = "release" /\ worklist' = worklist /\ edges' = EdgesOf(n)
        /\ outcomes'[n] \in Proceed
    BY <1>1, <1>4, <1>8 DEF Absorb
  <2>2. ASSUME NEW d \in Node PROVE Unreleased(d)' = Unreleased(d)
    <3>1. ASSUME NEW i \in DOMAIN Ups(d)
          PROVE  /\ Ups(d)[i] = n => i \in Unreleased(d)
                                     /\ <<d, i>> \in edges'
                 /\ Ups(d)[i] # n => outcomes'[Ups(d)[i]] = outcomes[Ups(d)[i]]
                                     /\ <<d, i>> \notin edges'
      BY <1>1, <1>2, <1>3, <1>4, <2>1 DEF Unreleased, EdgesOf
    <3> QED
      BY <1>1, <3>1 DEF Unreleased
  <2>3. LoopInv'
    BY <1>1, <1>5, <2>1 DEF LoopInv
  <2>4. CountInv' /\ SubmitInv' /\ ReadyInv' /\ QuietAfterStart'
    BY <1>1, <1>3, <1>4, <2>1, <2>2
    DEF CountInv, SubmitInv, ReadyInv, QuietAfterStart
  <2>5. BlockInv'
    <3>1. ASSUME NEW d \in Node, NEW i \in DOMAIN Ups(d)
          PROVE  outcomes'[Ups(d)[i]] \in Failure <=> outcomes[Ups(d)[i]] \in Failure
      BY <1>1, <1>2, <1>3, <1>4, <2>1
    <3> QED
      BY <1>1, <1>3, <1>4, <2>1, <3>1 DEF BlockInv, BlockedByFailure
  <2> QED
    BY <1>1, <1>6, <2>3, <2>4, <2>5
<1> QED
  BY <1>7, <1>8

\* Taking one edge out of the release loop.
LEMMA ReleaseInv ==
  ASSUME TypeOK, SchedInv, NEW e \in edges, Release(e)
  PROVE  TypeOK' /\ SchedInv'
<1> DEFINE d == e[1]
           k == e[2]
<1>1. /\ main = "release" /\ main' = "release" /\ edges' = edges \ {e}
      /\ UNCHANGED <<nodes, registry, starts, cursor, outcomes, done, worklist,
                     ended, future, bound>>
  BY DEF Release, graphVars
<1> USE DEF SchedInv
<1>2. /\ d \in Node /\ d \in NodeId /\ k \in DOMAIN Ups(d) /\ e = <<d, k>>
      /\ outcomes[Ups(d)[k]] \in Proceed
  BY NodeShape DEF LoopInv, TypeOK
<1>3. Node' = Node /\ Node \subseteq NodeId /\ \A m : Ups(m)' = Ups(m)
  BY <1>1, NodeShape DEF Node, Ups
<1>4. \A m \in Node \ {d} : Unreleased(m)' = Unreleased(m)
  BY <1>1, <1>2, <1>3 DEF Unreleased
<1>5. k \in Unreleased(d) /\ Unreleased(d)' = Unreleased(d) \ {k}
  BY <1>1, <1>2, <1>3 DEF Unreleased
<1>6. pc[d] = "idle"
  BY <1>2, <1>5 DEF SubmitInv
<1>7. GraphInv' /\ LoopInv' /\ BlockInv'
  BY <1>1, <1>3 DEF GraphInv, LoopInv, BlockInv, BlockedByFailure
<1>8. edges' \in SUBSET (NodeId \X (1 .. MaxDeps))
  BY <1>1 DEF TypeOK
<1>9. CASE outcomes[d] # "NONE"
  <2>1. UNCHANGED <<remaining, inFlight, queue, pc>>
    BY <1>9 DEF Release
  <2>2. TypeOK'
    BY <1>1, <1>8, <2>1 DEF TypeOK
  <2>3. CountInv' /\ SubmitInv' /\ ReadyInv'
    BY <1>1, <1>2, <1>3, <1>4, <1>6, <1>9, <2>1 DEF CountInv, SubmitInv, ReadyInv
  <2>4. QueueInv' /\ FlightInv' /\ FutureInv' /\ QuietAfterStart'
    BY <1>1, <2>1 DEF QueueInv, FlightInv, FutureInv, QuietAfterStart
  <2> QED
    BY <1>7, <2>2, <2>3, <2>4
<1>10. CASE outcomes[d] = "NONE"
  <2>1. /\ remaining' = [remaining EXCEPT ![d] = remaining[d] - 1]
        /\ remaining[d] = 1 => Submit(d)
        /\ remaining[d] # 1 => UNCHANGED <<inFlight, queue, pc>>
    BY <1>10 DEF Release
  <2>2. /\ remaining[d] = Cardinality(Unreleased(d))
        /\ IsFiniteSet(Unreleased(d))
        /\ remaining[d] \in Nat
    BY <1>1, <1>2, <1>10, UnreleasedFinite DEF CountInv
  <2>3. /\ Cardinality(Unreleased(d) \ {k}) = remaining[d] - 1
        /\ IsFiniteSet(Unreleased(d) \ {k})
    BY <1>5, <2>2, FS_RemoveElement
  <2>4. remaining[d] - 1 \in Nat
    BY <2>3, FS_CardinalityType
  <2>5. remaining[d] = 1 <=> Unreleased(d)' = {}
    BY <1>5, <2>2, <2>3, FS_EmptySet
  <2>6. /\ remaining' \in [NodeId -> Nat]
        /\ remaining'[d] = remaining[d] - 1
        /\ \A m \in NodeId \ {d} : remaining'[m] = remaining[m]
    BY <1>2, <2>1, <2>4 DEF TypeOK
  <2>7. CountInv'
    <3>1. ASSUME NEW m \in Node, outcomes[m] = "NONE"
          PROVE  remaining'[m] = Cardinality(Unreleased(m)')
      <4>1. CASE m = d
        BY <1>5, <2>3, <2>6, <4>1
      <4>2. CASE m # d
        BY <1>1, <1>3, <1>4, <2>6, <3>1, <4>2 DEF CountInv
      <4> QED
        BY <4>1, <4>2
    <3> QED
      BY <1>1, <1>3, <3>1 DEF CountInv
  <2>8. CASE remaining[d] = 1
    <3>1. /\ queue' \in Seq(NodeId) /\ pc' \in [NodeId -> Worker]
          /\ inFlight' = inFlight \cup {d}
          /\ pc'[d] = "queued"
          /\ \A m \in NodeId \ {d} : pc'[m] = pc[m]
          /\ QueueInv'
      BY <1>2, <1>6, <2>1, <2>8, SubmitFrame
    <3>2. inFlight \subseteq NodeId
      BY DEF TypeOK
    <3>3. TypeOK'
      BY <1>1, <1>2, <1>8, <2>6, <3>1 DEF TypeOK
    <3>4. SubmitInv'
      BY <1>1, <1>2, <1>3, <1>4, <2>5, <2>8, <3>1 DEF SubmitInv
    <3>5. ReadyInv'
      BY <1>1, <1>3, <1>4, <3>1 DEF ReadyInv
    <3>6. FlightInv' /\ FutureInv' /\ QuietAfterStart'
      BY <1>1, <1>2, <1>6, <1>10, <3>1, <3>2
      DEF FlightInv, FutureInv, QuietAfterStart, Reported, Proceed, Eligible, EngineFailure
    <3> QED
      BY <1>7, <2>7, <3>1, <3>3, <3>4, <3>5, <3>6
  <2>9. CASE remaining[d] # 1
    <3>1. UNCHANGED <<inFlight, queue, pc>>
      BY <2>1, <2>9
    <3>2. TypeOK'
      BY <1>1, <1>8, <2>6, <3>1 DEF TypeOK
    <3>3. SubmitInv' /\ ReadyInv'
      BY <1>1, <1>2, <1>3, <1>4, <1>6, <2>5, <2>9, <3>1 DEF SubmitInv, ReadyInv
    <3>4. QueueInv' /\ FlightInv' /\ FutureInv' /\ QuietAfterStart'
      BY <1>1, <3>1 DEF QueueInv, FlightInv, FutureInv, QuietAfterStart
    <3> QED
      BY <1>7, <2>7, <3>2, <3>3, <3>4
  <2> QED
    BY <2>8, <2>9
<1> QED
  BY <1>9, <1>10

\* Marking one node below a failure.
LEMMA BlockStepInv ==
  ASSUME TypeOK, SchedInv, NEW d \in NodeId, Block(d)
  PROVE  TypeOK' /\ SchedInv'
<1> USE DEF SchedInv
<1>1. /\ main = "block" /\ main' = "block" /\ d \in worklist
      /\ UNCHANGED <<nodes, registry, starts, cursor, remaining, inFlight, done,
                     edges, ended, queue, pc, future, bound>>
  BY DEF Block, graphVars, workerVars
<1>2. /\ d \in Node /\ \E i \in DOMAIN Ups(d) : outcomes[Ups(d)[i]] \in Failure
      /\ edges = {}
  BY <1>1 DEF LoopInv
<1>3. Node' = Node /\ Node \subseteq NodeId /\ \A m : Ups(m)' = Ups(m)
  BY <1>1, NodeShape DEF Node, Ups
<1>4. "BLOCKED" \in Failure \ (Proceed \cup Reported)
      /\ "NONE" \notin Failure \cup Proceed \cup Reported
      /\ "BLOCKED" \in Outcome
  BY DEF Failure, Proceed, Eligible, EngineFailure, Reported, Outcome
<1>5. CASE outcomes[d] # "NONE"
  <2>1. worklist' = worklist \ {d} /\ outcomes' = outcomes
    BY <1>5 DEF Block
  <2>2. \A m : Unreleased(m)' = Unreleased(m)
    BY <1>1, <2>1, UnreleasedSame
  <2>3. TypeOK'
    BY <1>1, <2>1 DEF TypeOK
  <2>4. GraphInv' /\ LoopInv' /\ CountInv' /\ SubmitInv' /\ ReadyInv'
    BY <1>1, <1>3, <2>1, <2>2 DEF GraphInv, LoopInv, CountInv, SubmitInv, ReadyInv
  <2>5. QueueInv' /\ FlightInv' /\ FutureInv' /\ QuietAfterStart'
    BY <1>1, <2>1 DEF QueueInv, FlightInv, FutureInv, QuietAfterStart
  <2>6. outcomes[d] = "BLOCKED"
    <3>1. pc[d] = "idle"
      BY <1>2, FailedUpstreamKeepsIdle
    <3> QED
      BY <1>5, <3>1 DEF FutureInv, TypeOK, Outcome
  <2>7. BlockInv'
    BY <1>1, <1>3, <2>1, <2>6 DEF BlockInv, BlockedByFailure
  <2> QED
    BY <2>3, <2>4, <2>5, <2>7
<1>6. CASE outcomes[d] = "NONE"
  <2>1. /\ worklist' = (worklist \ {d}) \cup Downstream(d)
        /\ outcomes' = [outcomes EXCEPT ![d] = "BLOCKED"]
    BY <1>6 DEF Block
  <2>2. /\ outcomes'[d] = "BLOCKED"
        /\ \A m \in NodeId \ {d} : outcomes'[m] = outcomes[m]
        /\ outcomes' \in [NodeId -> Outcome \cup {"NONE"}]
    BY <1>4, <2>1 DEF TypeOK
  <2>3. \A m \in Node : \A i \in DOMAIN Ups(m) : Ups(m)[i] \in NodeId
    BY <1>3, UpsShape
  <2>4. \A m \in Node : Unreleased(m)' = Unreleased(m)
    BY <1>1, <1>3, <1>4, <1>6, <2>2, <2>3 DEF Unreleased
  <2>5. TypeOK'
    BY <1>1, <1>3, <2>1, <2>2 DEF TypeOK, Downstream
  <2>6. GraphInv' /\ CountInv' /\ SubmitInv' /\ ReadyInv'
    BY <1>1, <1>2, <1>3, <1>6, <2>2, <2>4 DEF GraphInv, CountInv, SubmitInv, ReadyInv
  <2>7. LoopInv'
    <3>1. ASSUME NEW m \in worklist'
          PROVE  /\ m \in Node
                 /\ \E i \in DOMAIN Ups(m) : outcomes'[Ups(m)[i]] \in Failure
      BY <1>3, <1>4, <1>6, <2>1, <2>2, <2>3, <3>1 DEF LoopInv, Downstream
    <3> QED
      BY <1>1, <1>2, <1>3, <3>1 DEF LoopInv
  <2>8. pc[d] = "idle"
    BY <1>2, FailedUpstreamKeepsIdle
  <2>9. FlightInv'
    <3>1. inFlight \subseteq NodeId
      BY DEF TypeOK
    <3> QED
      BY <1>1, <2>2, <2>8, <3>1 DEF FlightInv
  <2>10. QueueInv' /\ FutureInv' /\ QuietAfterStart'
    BY <1>1, <1>4, <2>2 DEF QueueInv, FutureInv, QuietAfterStart
  <2>11. BlockInv'
    <3>1. BlockedByFailure'
      BY <1>2, <1>3, <1>4, <1>6, <2>2, <2>3 DEF BlockInv, BlockedByFailure
    <3>2. ASSUME NEW m \in Node, NEW i \in DOMAIN Ups(m),
                 outcomes'[Ups(m)[i]] \in Failure
          PROVE  outcomes'[m] = "BLOCKED" \/ m \in worklist'
      <4>1. CASE Ups(m)[i] = d
        BY <2>1, <4>1 DEF Downstream
      <4>2. CASE Ups(m)[i] # d
        BY <1>1, <1>3, <2>1, <2>2, <2>3, <3>2, <4>2 DEF BlockInv
      <4> QED
        BY <4>1, <4>2
    <3> QED
      BY <1>3, <3>1, <3>2 DEF BlockInv
  <2> QED
    BY <2>5, <2>6, <2>7, <2>9, <2>10, <2>11
<1> QED
  BY <1>5, <1>6

\* The main thread touches a node in the pool only to put it there, once.
LEMMA MainStepPool ==
  ASSUME TypeOK, SchedInv, MainStep
  PROVE  \A m \in NodeId : pc'[m] = pc[m] \/ (pc[m] = "idle" /\ pc'[m] = "queued")
<1>1. ASSUME NEW n \in NodeId, Submit(n), pc[n] = "idle", NEW m \in NodeId
      PROVE  pc'[m] = pc[m] \/ (pc[m] = "idle" /\ pc'[m] = "queued")
  BY <1>1 DEF Submit, TypeOK
<1>2. ASSUME NEW m \in NodeId
      PROVE  pc'[m] = pc[m] \/ (pc[m] = "idle" /\ pc'[m] = "queued")
  <2>1. CASE SubmitRoot
    <3>1. cursor \in NodeId /\ pc[cursor] = "idle"
      BY <2>1, NodeShape DEF SubmitRoot, SchedInv, SubmitInv, NodeId
    <3> QED
      BY <2>1, <3>1, <1>1 DEF SubmitRoot
  <2>2. ASSUME NEW e \in edges, Release(e)
        PROVE  pc'[m] = pc[m] \/ (pc[m] = "idle" /\ pc'[m] = "queued")
    <3>1. e[1] \in Node /\ e[1] \in NodeId /\ e = <<e[1], e[2]>>
          /\ e[2] \in DOMAIN Ups(e[1])
      BY NodeShape DEF SchedInv, LoopInv, TypeOK
    <3>2. e[2] \in Unreleased(e[1])
      BY <3>1 DEF Unreleased
    <3>3. pc[e[1]] = "idle"
      BY <3>1, <3>2 DEF SchedInv, SubmitInv
    <3> QED
      BY <1>1, <2>2, <3>1, <3>3 DEF Release
  <2>3. CASE \/ SubmitEnd \/ Wait \/ Return \/ AbsorbEnd \/ ReleaseEnd \/ BlockEnd
             \/ Drain \/ \E n \in NodeId : Absorb(n) \/ AbsorbRaised(n) \/ Block(n)
    BY <2>3 DEF SubmitEnd, Wait, Return, AbsorbEnd, ReleaseEnd, BlockEnd, Drain,
                Absorb, AbsorbRaised, Block, workerVars
  <2> QED
    BY <2>1, <2>2, <2>3 DEF MainStep
<1> QED
  BY <1>2

(***************************************************************************)
(* The worker threads.                                                      *)
(***************************************************************************)
LEMMA BeginInv ==
  ASSUME TypeOK, SchedInv, NEW n \in NodeId, Begin(n)
  PROVE  TypeOK' /\ SchedInv'
<1> USE DEF SchedInv
<1>1. /\ queue # << >> /\ n = Head(queue) /\ queue' = Tail(queue)
      /\ UNCHANGED <<nodes, registry, starts, main, cursor, remaining, outcomes,
                     inFlight, done, edges, worklist, ended, future, bound>>
  BY DEF Begin, graphVars, mainVars
<1>2. /\ queue \in Seq(NodeId) /\ Len(queue) \in Nat \ {0}
      /\ DOMAIN queue = 1 .. Len(queue)
      /\ n = queue[1]
      /\ queue' \in Seq(NodeId)
      /\ DOMAIN queue' = 1 .. Len(queue) - 1
      /\ \A i \in DOMAIN queue' : queue'[i] = queue[i + 1]
      /\ \A i \in DOMAIN queue : queue[i] \in NodeId
  BY <1>1 DEF TypeOK
<1>3. pc[n] = "queued"
  BY <1>2 DEF QueueInv
<1>4. /\ pc' \in [NodeId -> Worker]
      /\ pc'[n] \in {"resolve", "assess"}
      /\ \A m \in NodeId \ {n} : pc'[m] = pc[m]
  BY DEF Begin, TypeOK, Worker
<1>5. Node' = Node /\ \A m : Ups(m)' = Ups(m) /\ Unreleased(m)' = Unreleased(m)
  BY <1>1, UnreleasedSame DEF Node, Ups
<1>6. TypeOK'
  BY <1>1, <1>2, <1>4 DEF TypeOK
<1>7. GraphInv' /\ LoopInv' /\ CountInv' /\ BlockInv'
  BY <1>1, <1>5 DEF GraphInv, LoopInv, CountInv, BlockInv, BlockedByFailure
<1>8. SubmitInv' /\ ReadyInv'
  BY <1>1, <1>3, <1>4, <1>5, NodeShape DEF SubmitInv, ReadyInv
<1>9. QueueInv'
  <2>1. ASSUME NEW i \in DOMAIN queue'
        PROVE  /\ i + 1 \in DOMAIN queue /\ i + 1 # 1
               /\ queue'[i] = queue[i + 1] /\ queue[i + 1] \in NodeId
    BY <1>2
  <2>2. \A i \in DOMAIN queue' : queue'[i] # n
    BY <1>2, <2>1 DEF QueueInv
  <2>3. \A i \in DOMAIN queue' : pc'[queue'[i]] = "queued"
    BY <1>4, <2>1, <2>2 DEF QueueInv
  <2>4. \A i, j \in DOMAIN queue' : queue'[i] = queue'[j] => i = j
    BY <1>2, <2>1 DEF QueueInv
  <2> QED
    BY <2>3, <2>4 DEF QueueInv
<1>10. FlightInv'
  <2>1. inFlight \subseteq NodeId
    BY DEF TypeOK
  <2> QED
    BY <1>1, <1>3, <1>4, <2>1 DEF FlightInv
<1>11. FutureInv'
  BY <1>1, <1>3, <1>4 DEF FutureInv
<1>12. QuietAfterStart'
  BY <1>1 DEF QuietAfterStart
<1> QED
  BY <1>6, <1>7, <1>8, <1>9, <1>10, <1>11, <1>12

\* What a completed or publishing node carries in its future.
LEMMA RunNodeFuture ==
  ASSUME TypeOK, FutureInv, NEW n \in NodeId, RunNode(n)
  PROVE  /\ pc'[n] = "finished" => future'[n].outcome \in Reported \cup {"RAISED"}
         /\ pc'[n] \in {"publish", "bind"} => future'[n].outcome \in Eligible
<1> DEFINE Goal == /\ pc'[n] = "finished" => future'[n].outcome \in Reported \cup {"RAISED"}
                   /\ pc'[n] \in {"publish", "bind"} => future'[n].outcome \in Eligible
<1>1. ASSUME NEW p \in Worker, NEW q \in {"assess", "transition", "verify", "rollback"},
             Goto(n, p, q)
      PROVE  Goal
  BY <1>1 DEF Goto, TypeOK
<1>2. ASSUME NEW r, r.outcome \in Reported \cup {"RAISED"}, Complete(n, r)
      PROVE  Goal
  BY <1>2 DEF Complete, TypeOK
<1>3. ASSUME NEW o \in Eligible, Publishing(n, o)
      PROVE  Goal
  BY <1>3 DEF Publishing, TypeOK, Report, Reported, Proceed
<1>4. Report("FAILED_INVALID", "MISSING_VAR").outcome \in Reported
      /\ Report("FAILED_INVALID", "").outcome \in Reported
      /\ Report("SKIPPED_BY_TRANSITION", "").outcome \in Reported
      /\ Report("FAILED_TRANSITION", "").outcome \in Reported
      /\ Report("FAILED_TRANSITION", "PUBLISH_DUPLICATE").outcome \in Reported
      /\ Raised.outcome = "RAISED"
  BY DEF Report, Raised, Reported, Proceed, EngineFailure
<1>5. CASE ResolveMissing(n)
  BY <1>2, <1>4, <1>5 DEF ResolveMissing
<1>6. CASE ResolveFails(n)
  BY <1>2, <1>4, <1>6 DEF ResolveFails
<1>7. CASE Resolve(n) \/ AssessReady(n) \/ TransitionSucceeds(n)
           \/ TransitionFails(n) \/ VerifyMismatch(n)
  BY <1>1, <1>7 DEF Resolve, AssessReady, TransitionSucceeds, TransitionFails,
                    VerifyMismatch, Worker
<1>8. CASE AssessApplied(n) \/ VerifyApplied(n)
  BY <1>3, <1>8 DEF AssessApplied, VerifyApplied, Eligible
<1>9. CASE AssessInvalid(n) \/ TransitionSkips(n) \/ Rollback(n)
  BY <1>2, <1>4, <1>9 DEF AssessInvalid, TransitionSkips, Rollback
<1>10. CASE Raises(n) \/ PublishRaises(n)
  BY <1>2, <1>4, <1>10 DEF Raises, PublishRaises
<1>11. CASE PublishReturns(n)
  BY <1>11 DEF PublishReturns, Goto, FutureInv, TypeOK
<1>12. CASE Bind(n)
  BY <1>12 DEF Bind, FutureInv, TypeOK, Reported, Proceed
<1>13. CASE BindDuplicate(n)
  BY <1>2, <1>4, <1>13 DEF BindDuplicate
<1> QED
  BY <1>5, <1>6, <1>7, <1>8, <1>9, <1>10, <1>11, <1>12, <1>13 DEF RunNode

\* What a worker does to the registry and to its count of bindings.
LEMMA RunNodeBinds ==
  ASSUME TypeOK, NEW n \in NodeId, RunNode(n)
  PROVE  \/ UNCHANGED <<registry, bound>>
         \/ Bind(n)
BY DEF RunNode, ResolveMissing, ResolveFails, Resolve, AssessReady, AssessApplied,
       AssessInvalid, TransitionSucceeds, TransitionFails, TransitionSkips,
       VerifyApplied, VerifyMismatch, Rollback, Raises, PublishRaises,
       PublishReturns, BindDuplicate, Complete, Publishing, Goto

LEMMA RunNodeInv ==
  ASSUME TypeOK, SchedInv, NEW n \in NodeId, RunNode(n)
  PROVE  TypeOK' /\ SchedInv'
<1> USE DEF SchedInv
<1>1. /\ UNCHANGED <<nodes, starts, main, cursor, remaining, outcomes, inFlight,
                     done, edges, worklist, ended, queue>>
      /\ pc[n] \notin {"idle", "queued", "finished"}
      /\ pc' \in [NodeId -> Worker]
      /\ pc'[n] \notin {"idle", "queued"}
      /\ \A m \in NodeId \ {n} : pc'[m] = pc[m]
      /\ future' \in [NodeId -> Reports]
      /\ \A m \in NodeId \ {n} : future'[m] = future[m]
  BY RunNodeFrame DEF graphVars, mainVars
<1>2. Node' = Node /\ \A m : Ups(m)' = Ups(m) /\ Unreleased(m)' = Unreleased(m)
  BY <1>1, UnreleasedSame DEF Node, Ups
<1>3. /\ registry' \in [Var -> [node : 0 .. MaxNodes, start : 0 .. MaxStarts]]
      /\ bound' \in [NodeId -> Nat]
  <2>1. CASE UNCHANGED <<registry, bound>>
    BY <2>1 DEF TypeOK
  <2>2. CASE Bind(n)
    <3>1. Binding(n, starts) \in [node : 0 .. MaxNodes, start : 0 .. MaxStarts]
      BY BoundsAssumption DEF Binding, TypeOK, NodeId
    <3>2. PICK v : registry' = [registry EXCEPT ![v] = Binding(n, starts)]
      BY <2>2 DEF Bind
    <3>3. bound' \in [NodeId -> Nat]
      BY <2>2 DEF Bind, TypeOK
    <3> DEFINE B == [node : 0 .. MaxNodes, start : 0 .. MaxStarts]
               b == Binding(n, starts)
    <3>4. registry \in [Var -> B] /\ b \in B /\ registry' = [registry EXCEPT ![v] = b]
      BY <3>1, <3>2 DEF TypeOK
    <3> HIDE DEF B, b
    <3>5. registry' \in [Var -> B]
      BY <3>4
    <3> QED
      BY <3>3, <3>5 DEF B
  <2> QED
    BY <2>1, <2>2, RunNodeBinds
<1>4. TypeOK'
  BY <1>1, <1>3 DEF TypeOK
<1>5. GraphInv' /\ LoopInv' /\ CountInv' /\ BlockInv'
  BY <1>1, <1>2 DEF GraphInv, LoopInv, CountInv, BlockInv, BlockedByFailure
<1>6. SubmitInv' /\ ReadyInv'
  BY <1>1, <1>2, NodeShape DEF SubmitInv, ReadyInv
<1>7. QueueInv'
  <2>1. \A i \in DOMAIN queue : queue[i] \in NodeId /\ queue[i] # n
    BY <1>1 DEF QueueInv, TypeOK
  <2> QED
    BY <1>1, <2>1 DEF QueueInv
<1>8. FlightInv'
  <2>1. inFlight \subseteq NodeId /\ done \subseteq NodeId /\ n \notin done
    BY <1>1 DEF TypeOK, FlightInv
  <2> QED
    BY <1>1, <2>1 DEF FlightInv
<1>9. FutureInv'
  BY <1>1, RunNodeFuture DEF FutureInv
<1>10. QuietAfterStart'
  BY <1>1 DEF QuietAfterStart
<1> QED
  BY <1>4, <1>5, <1>6, <1>7, <1>8, <1>9, <1>10

(***************************************************************************)
(* Every step keeps the scheduling invariant.                               *)
(***************************************************************************)
LEMMA StepInv ==
  ASSUME TypeOK, SchedInv, [Next]_vars
  PROVE  TypeOK' /\ SchedInv'
<1>1. CASE Add
  <2>1. PICK ups \in DependsOn, pubs \in PublishLists : AddNode(ups, FALSE, pubs, {})
    BY <1>1 DEF Add
  <2>2. FALSE \in BOOLEAN /\ {} \in SUBSET Var
    OBVIOUS
  <2> QED
    BY <2>1, <2>2, AddNodeInv
<1>2. CASE AddDeferred
  <2>1. PICK ups \in DependsOn, pubs \in PublishLists, reads \in ReadSets :
          AddNode(ups, TRUE, pubs, reads)
    BY <1>2 DEF AddDeferred
  <2>2. reads \in SUBSET Var
    BY ReadAssumption
  <2> QED
    BY <2>1, <2>2, AddNodeInv
<1>3. CASE Start
  BY <1>3, StartInv
<1>4. CASE MainStep
  BY <1>4, SubmitRootInv, MoveInv, ComeBackInv, AbsorbInv, BlockStepInv, ReleaseInv
  DEF MainStep
<1>5. ASSUME NEW n \in NodeId, WorkerStep(n)
      PROVE  TypeOK' /\ SchedInv'
  BY <1>5, BeginInv, RunNodeInv DEF WorkerStep
<1>6. CASE UNCHANGED vars
  <2>1. Node' = Node /\ \A m : Ups(m)' = Ups(m) /\ Unreleased(m)' = Unreleased(m)
    BY <1>6, UnreleasedSame DEF Node, Ups, vars
  <2>2. TypeOK'
    BY <1>6 DEF TypeOK, vars
  <2>3. /\ GraphInv' /\ LoopInv' /\ CountInv' /\ SubmitInv' /\ ReadyInv'
        /\ BlockInv'
    BY <1>6, <2>1 DEF SchedInv, GraphInv, LoopInv, CountInv, SubmitInv, ReadyInv,
                      BlockInv, BlockedByFailure, vars
  <2>4. QueueInv' /\ FlightInv' /\ FutureInv' /\ QuietAfterStart'
    BY <1>6 DEF SchedInv, QueueInv, FlightInv, FutureInv, QuietAfterStart, vars
  <2> QED
    BY <2>2, <2>3, <2>4 DEF SchedInv
<1> QED
  BY <1>1, <1>2, <1>3, <1>4, <1>5, <1>6 DEF Next

(***************************************************************************)
(* The theorems.                                                            *)
(***************************************************************************)

\* The scheduling invariant holds in every reachable state.
THEOREM Scheduled == Spec => [](TypeOK /\ SchedInv)
<1>1. Init => TypeOK /\ SchedInv
  BY InitInv
<1>2. (TypeOK /\ SchedInv) /\ [Next]_vars => (TypeOK /\ SchedInv)'
  BY StepInv
<1> QED
  BY <1>1, <1>2, PTL DEF Spec

\* Every variable keeps its type: in particular the counter of unfinished
\* upstreams in _RunState.remaining never becomes negative.
THEOREM TypeCorrect == Spec => []TypeOK
BY Scheduled, PTL

\* A node is in the pool only when all of its upstreams were absorbed with an
\* outcome that is no failure (_drive_pool and _absorb_completion).
THEOREM RunsAfterUpstreams == Spec => []UpstreamsProceeded
<1>1. TypeOK /\ SchedInv => UpstreamsProceeded
  BY DEF SchedInv, SubmitInv, Unreleased, UpstreamsProceeded
<1> QED
  BY <1>1, Scheduled, PTL

\* _mark_blocked marks a node only when a direct upstream failed or is blocked.
THEOREM BlocksOnlyBelowFailures == Spec => []BlockedByFailure
<1>1. TypeOK /\ SchedInv => BlockedByFailure
  BY DEF SchedInv, BlockInv
<1> QED
  BY <1>1, Scheduled, PTL

\* When start() has come back, no worker is running and nothing is queued.
THEOREM QuietWhenBack == Spec => []QuietAfterStart
<1>1. TypeOK /\ SchedInv => QuietAfterStart
  BY DEF SchedInv
<1> QED
  BY <1>1, Scheduled, PTL

\* When the loop of _drive_pool ends, every node has an outcome, and the nodes
\* below a failure are exactly the BLOCKED ones.  The argument: of the nodes
\* without an outcome take the one added first; everything it depends on is
\* settled, so it is blocked or in the pool, and nothing is in flight.
THEOREM AllSettled == Spec => []EveryNodeSettled
<1>1. TypeOK /\ SchedInv => EveryNodeSettled
  <2>1. SUFFICES ASSUME TypeOK, SchedInv, LoopExit
                 PROVE  /\ \A n \in Node : outcomes[n] # "NONE"
                        /\ \A n \in Node :
                             (\E i \in DOMAIN Ups(n) : outcomes[Ups(n)[i]] \in Failure)
                               => outcomes[n] = "BLOCKED"
    BY DEF EveryNodeSettled
  <2>2. main = "wait" /\ inFlight = {} /\ edges = {} /\ worklist = {}
    BY <2>1 DEF LoopExit, SchedInv, LoopInv
  <2>3. \A n \in Node : (\E i \in DOMAIN Ups(n) : outcomes[Ups(n)[i]] \in Failure)
                         => outcomes[n] = "BLOCKED"
    BY <2>1, <2>2 DEF SchedInv, BlockInv
  <2> DEFINE T == {n \in Node : outcomes[n] = "NONE"}
  <2>4. T = {}
    <3>1. SUFFICES ASSUME T # {} PROVE FALSE
      OBVIOUS
    <3>2. T \subseteq Nat
      BY <2>1 DEF Node, TypeOK
    <3>3. PICK n \in T : \A m \in T : ~ (<<m, n>> \in OpToRel(<, Nat))
      BY <3>1, <3>2, WFMin, NatLessThanWellFounded
    <3>4. n \in Node /\ n \in NodeId /\ n \in Nat /\ outcomes[n] = "NONE"
      BY <2>1, <3>2, NodeShape
    <3>5. ASSUME NEW i \in DOMAIN Ups(n)
          PROVE  outcomes[Ups(n)[i]] \in Proceed
      <4>1. Ups(n)[i] \in Node /\ Ups(n)[i] \in NodeId /\ Ups(n)[i] \in Nat
            /\ Ups(n)[i] < n
        BY <2>1, <3>2, <3>4, UpsShape, NodeShape DEF SchedInv, GraphInv, NodeId
      <4>2. Ups(n)[i] \notin T
        BY <3>2, <3>3, <3>4, <4>1 DEF OpToRel
      <4>3. outcomes[Ups(n)[i]] \notin Failure
        BY <2>3, <3>4
      <4> QED
        BY <2>1, <4>1, <4>2, <4>3 DEF TypeOK, Outcome, Reported, Failure
    <3>6. Unreleased(n) = {}
      BY <2>2, <3>5 DEF Unreleased
    <3>7. pc[n] # "idle"
      BY <2>1, <2>2, <3>4, <3>6 DEF SchedInv, ReadyInv
    <3> QED
      BY <2>1, <2>2, <3>4, <3>7 DEF SchedInv, FlightInv
  <2> QED
    BY <2>3, <2>4
<1> QED
  BY <1>1, Scheduled, PTL

\* A step other than a new start() leaves the outcomes that are recorded.
LEMMA SettledStep ==
  ASSUME TypeOK, SchedInv, [Next]_vars, starts' = starts,
         NEW n \in NodeId, outcomes[n] # "NONE"
  PROVE  outcomes'[n] = outcomes[n]
<1>1. CASE Add \/ AddDeferred
  BY <1>1 DEF Add, AddDeferred, AddNode, mainVars
<1>2. CASE Start
  BY <1>2, BoundsAssumption DEF Start, TypeOK
<1>3. ASSUME NEW m \in NodeId, Absorb(m)
      PROVE  outcomes'[n] = outcomes[n]
  BY <1>3, AbsorbFrame
<1>4. ASSUME NEW m \in NodeId, Block(m)
      PROVE  outcomes'[n] = outcomes[n]
  BY <1>4 DEF Block, TypeOK
<1>5. CASE MainStep
  <2>1. CASE \/ SubmitRoot \/ SubmitEnd \/ Wait \/ Return \/ AbsorbEnd
             \/ ReleaseEnd \/ BlockEnd \/ Drain
    BY <2>1 DEF SubmitRoot, SubmitEnd, Wait, Return, AbsorbEnd, ReleaseEnd,
                BlockEnd, Drain
  <2>2. CASE (\E m \in NodeId : AbsorbRaised(m)) \/ (\E e \in edges : Release(e))
    BY <2>2 DEF AbsorbRaised, Release
  <2> QED
    BY <1>3, <1>4, <1>5, <2>1, <2>2 DEF MainStep
<1>6. ASSUME NEW m \in NodeId, WorkerStep(m)
      PROVE  outcomes'[n] = outcomes[n]
  BY <1>6, RunNodeFrame DEF WorkerStep, Begin, mainVars
<1>7. CASE UNCHANGED vars
  BY <1>7 DEF vars
<1> QED
  BY <1>1, <1>2, <1>5, <1>6, <1>7 DEF Next

\* Outcomes are recorded once: only a new start() forgets them.
THEOREM SettlesOnce == Spec => SettledOnce
<1>1. (TypeOK /\ SchedInv) /\ [Next]_vars =>
        [starts' = starts =>
           \A n \in NodeId : outcomes[n] # "NONE" => outcomes'[n] = outcomes[n]]_vars
  BY SettledStep
<1> QED
  BY <1>1, Scheduled, PTL DEF Spec, SettledOnce

\* In one run a node is handed to the pool at most once.
THEOREM SubmitsOnce == Spec => SubmittedOnce
<1>1. ASSUME TypeOK, SchedInv, [Next]_vars, starts' = starts,
             NEW n \in NodeId, pc'[n] = "queued", pc[n] # "queued"
      PROVE  pc[n] = "idle"
  <2>1. CASE Add \/ AddDeferred
    BY <1>1, <2>1 DEF Add, AddDeferred, AddNode, workerVars
  <2>2. CASE Start
    BY <1>1, <2>2, BoundsAssumption DEF Start, TypeOK
  <2>3. CASE MainStep
    BY <1>1, <2>3, MainStepPool
  <2>4. ASSUME NEW m \in NodeId, Begin(m)
        PROVE  FALSE
    BY <1>1, <2>4 DEF Begin, TypeOK
  <2>5. ASSUME NEW m \in NodeId, RunNode(m)
        PROVE  FALSE
    BY <1>1, <2>5, RunNodeFrame
  <2>6. CASE UNCHANGED vars
    BY <1>1, <2>6 DEF vars
  <2> QED
    BY <1>1, <2>1, <2>2, <2>3, <2>4, <2>5, <2>6 DEF Next, WorkerStep
<1>2. (TypeOK /\ SchedInv) /\ [Next]_vars =>
        [starts' = starts =>
           \A n \in NodeId : pc'[n] = "queued" /\ pc[n] # "queued" => pc[n] = "idle"]_vars
  BY <1>1
<1> QED
  BY <1>2, Scheduled, PTL DEF Spec, SubmittedOnce

-----------------------------------------------------------------------------
(***************************************************************************)
(* Proofs about the registry: what a node has bound, and that a node whose  *)
(* outcome lets its dependents run owns every name it publishes.            *)
(***************************************************************************)

\* The steps that bind nothing and move a node at most into the pool.
LEMMA PublishFrame ==
  ASSUME TypeOK, SchedInv, PublishInv,
         UNCHANGED <<nodes, registry, starts, bound, future>>,
         \A m \in NodeId : \/ pc'[m] = pc[m]
                           \/ /\ pc[m] \in {"idle", "queued"}
                              /\ pc'[m] \in {"queued", "resolve", "assess"}
  PROVE  PublishInv'
<1>1. Node' = Node /\ \A m : Pubs(m)' = Pubs(m)
  BY DEF Node, Pubs
<1> QED
  BY <1>1 DEF PublishInv

LEMMA AddPublishInv ==
  ASSUME TypeOK, SchedInv, PublishInv, NEW ups \in DependsOn,
         NEW deferred \in BOOLEAN, NEW pubs \in PublishLists,
         NEW reads \in SUBSET Var, AddNode(ups, deferred, pubs, reads)
  PROVE  PublishInv'
<1>0. PICK m : m = Len(nodes) + 1
  OBVIOUS
<1>1. /\ TypeOK'
      /\ Node' = Node \cup {m}
      /\ m \in NodeId \ Node
      /\ \A n \in Node : nodes'[n] = nodes[n]
  BY <1>0, AddNodeFrame
<1>2. UNCHANGED <<starts, registry, bound, future, pc>>
  BY DEF AddNode, workerVars
<1>3. \A n \in NodeId \ Node : pc[n] = "idle" /\ bound[n] = 0
  BY DEF SchedInv, SubmitInv, PublishInv
<1>4. \A n \in Node : Pubs(n)' = Pubs(n)
  BY <1>1 DEF Pubs
<1>5. Len(Pubs(m)') \in Nat
  <2>1. nodes'[m] \in ExecutionNode
    <3>1. nodes' \in Seq(ExecutionNode) /\ m \in 1 .. Len(nodes')
      BY <1>1 DEF TypeOK, Node
    <3> QED
      BY <3>1
  <2>2. Pubs(m)' \in PublishLists
    BY <2>1 DEF ExecutionNode, Pubs
  <2>3. Pubs(m)' \in Seq(Var)
    BY <2>2, PublishAssumption
  <2> QED
    BY <2>3
<1>6. ASSUME NEW n \in NodeId
      PROVE  /\ pc[n] \in {"idle", "queued", "resolve", "assess", "transition",
                           "verify", "publish"} => bound[n] = 0
             /\ pc[n] = "bind" => bound[n] < Len(Pubs(n)')
             /\ pc[n] = "publish" => Len(Pubs(n)') > 0
             /\ n \in Node' =>
                  /\ bound[n] <= Len(Pubs(n)')
                  /\ \A j \in 1 .. bound[n] : registry[Pubs(n)'[j]] = Binding(n, starts)
             /\ pc[n] = "finished" /\ future[n].outcome \in Eligible
                  => bound[n] = Len(Pubs(n)')
  <2>1. CASE n \in Node
    BY <1>1, <1>4, <2>1 DEF PublishInv
  <2>2. CASE n \notin Node
    BY <1>1, <1>3, <1>5, <2>2
  <2> QED
    BY <2>1, <2>2
<1> QED
  BY <1>2, <1>6 DEF PublishInv

LEMMA StartPublishInv ==
  ASSUME TypeOK, SchedInv, PublishInv, Start
  PROVE  PublishInv'
<1>1. /\ nodes' = nodes
      /\ pc' = [n \in NodeId |-> "idle"]
      /\ bound' = [n \in NodeId |-> 0]
  BY DEF Start
<1>2. \A n \in Node' : Len(Pubs(n)') \in Nat
  BY <1>1, NodeShape DEF Node, Pubs
<1> QED
  BY <1>1, <1>2 DEF PublishInv

LEMMA MainPublishInv ==
  ASSUME TypeOK, SchedInv, PublishInv, MainStep
  PROVE  PublishInv'
<1>1. UNCHANGED <<nodes, registry, starts, bound, future>>
  BY DEF MainStep, SubmitRoot, SubmitEnd, Wait, Return, AbsorbEnd, ReleaseEnd,
         BlockEnd, Drain, Absorb, AbsorbRaised, Block, Release, graphVars, workerVars
<1>2. \A m \in NodeId : pc'[m] = pc[m] \/ (pc[m] = "idle" /\ pc'[m] = "queued")
  BY MainStepPool
<1> QED
  BY <1>1, <1>2, PublishFrame

\* Binding one name of n leaves the bindings of the other nodes alone.
LEMMA BindPublishInv ==
  ASSUME TypeOK, SchedInv, PublishInv, NEW n \in NodeId, Bind(n)
  PROVE  PublishInv'
<1> DEFINE v == Pubs(n)[bound[n] + 1]
<1>1. /\ pc[n] = "bind" /\ registry[v] = Unbound
      /\ registry' = [registry EXCEPT ![v] = Binding(n, starts)]
      /\ bound' = [bound EXCEPT ![n] = bound[n] + 1]
      /\ pc' = [pc EXCEPT ![n] = IF bound[n] + 1 = Len(Pubs(n)) THEN "finished" ELSE "bind"]
      /\ UNCHANGED <<nodes, starts, future>>
  BY DEF Bind, graphVars
<1>2. n \in Node
  BY <1>1 DEF SchedInv, SubmitInv
<1>3. Node' = Node /\ \A m : Pubs(m)' = Pubs(m)
  BY <1>1 DEF Node, Pubs
<1>4. /\ bound[n] \in Nat /\ Len(Pubs(n)) \in Nat /\ bound[n] < Len(Pubs(n))
      /\ v \in Var
  BY <1>1, <1>2, NodeShape DEF PublishInv, TypeOK
<1>5. /\ pc'[n] \in {"finished", "bind"}
      /\ pc'[n] = "finished" <=> bound[n] + 1 = Len(Pubs(n))
      /\ bound'[n] = bound[n] + 1
      /\ \A m \in NodeId \ {n} : pc'[m] = pc[m] /\ bound'[m] = bound[m]
  BY <1>1 DEF TypeOK
<1>6. /\ registry'[v] = Binding(n, starts)
      /\ \A w \in Var \ {v} : registry'[w] = registry[w]
  BY <1>1, <1>4 DEF TypeOK
<1>7. ASSUME NEW m \in Node, NEW j \in 1 .. bound[m]
      PROVE  registry'[Pubs(m)[j]] = Binding(m, starts)
  <2>1. m \in NodeId /\ bound[m] \in Nat /\ bound[m] <= Len(Pubs(m))
        /\ registry[Pubs(m)[j]] = Binding(m, starts)
    BY NodeShape DEF PublishInv, TypeOK
  <2>2. Pubs(m)[j] \in Var
    BY <2>1, NodeShape
  <2>3. Binding(m, starts) # Unbound
    BY <2>1 DEF Binding, Unbound, NodeId
  <2> QED
    BY <1>1, <1>6, <2>1, <2>2, <2>3
<1>8. \A j \in 1 .. bound[n] + 1 : registry'[Pubs(n)[j]] = Binding(n, starts)
  <2>1. \A j \in 1 .. bound[n] + 1 : j \in 1 .. bound[n] \/ j = bound[n] + 1
    BY <1>4
  <2> QED
    BY <1>2, <1>6, <1>7, <2>1
<1>9. ASSUME NEW m \in NodeId
      PROVE  /\ pc'[m] \in {"idle", "queued", "resolve", "assess", "transition",
                            "verify", "publish"} => bound'[m] = 0
             /\ pc'[m] = "bind" => bound'[m] < Len(Pubs(m))
             /\ pc'[m] = "publish" => Len(Pubs(m)) > 0
             /\ m \in Node =>
                  /\ bound'[m] <= Len(Pubs(m))
                  /\ \A j \in 1 .. bound'[m] : registry'[Pubs(m)[j]] = Binding(m, starts)
             /\ pc'[m] = "finished" /\ future[m].outcome \in Eligible
                  => bound'[m] = Len(Pubs(m))
  <2>1. CASE m = n
    BY <1>2, <1>4, <1>5, <1>8, <2>1
  <2>2. CASE m # n
    BY <1>5, <1>7, <2>2 DEF PublishInv
  <2> QED
    BY <2>1, <2>2
<1> QED
  BY <1>1, <1>3, <1>9 DEF PublishInv

\* Every other call of a worker binds nothing.
LEMMA RunNodePublishInv ==
  ASSUME TypeOK, SchedInv, PublishInv, NEW n \in NodeId, RunNode(n)
  PROVE  PublishInv'
<1>1. CASE Bind(n)
  BY <1>1, BindPublishInv
<1>2. CASE ~ Bind(n)
  <2>1. /\ UNCHANGED <<nodes, registry, starts, bound>>
        /\ pc[n] \notin {"idle", "queued", "finished"}
        /\ \A m \in NodeId \ {n} : pc'[m] = pc[m] /\ future'[m] = future[m]
    BY <1>2, RunNodeBinds, RunNodeFrame DEF graphVars
  <2>2. n \in Node
    BY <2>1 DEF SchedInv, SubmitInv
  <2>3. Node' = Node /\ \A m : Pubs(m)' = Pubs(m)
    BY <2>1 DEF Node, Pubs
  <2>4. Pubs(n) \in Seq(Var) /\ Len(Pubs(n)) \in Nat /\ bound[n] \in Nat
        /\ Pubs(n) = << >> <=> Len(Pubs(n)) = 0
    BY <2>2, NodeShape DEF TypeOK
  <2> DEFINE Here == /\ pc'[n] \in {"idle", "queued", "resolve", "assess",
                                    "transition", "verify", "publish"} => bound[n] = 0
                     /\ pc'[n] = "bind" => bound[n] < Len(Pubs(n))
                     /\ pc'[n] = "publish" => Len(Pubs(n)) > 0
                     /\ pc'[n] = "finished" /\ future'[n].outcome \in Eligible
                          => bound[n] = Len(Pubs(n))
  <2>5. Here
    <3>1. ASSUME NEW r, r.outcome \notin Eligible, Complete(n, r)
          PROVE  Here
      BY <3>1 DEF Complete, TypeOK
    <3>2. ASSUME NEW o \in Eligible, Publishing(n, o), pc[n] \in {"assess", "verify"}
          PROVE  Here
      <4>1. bound[n] = 0
        BY <3>2 DEF PublishInv
      <4>2. pc'[n] = IF Pubs(n) = << >> THEN "finished" ELSE "publish"
        BY <3>2 DEF Publishing, TypeOK
      <4> QED
        BY <2>4, <4>1, <4>2
    <3>3. Report("FAILED_INVALID", "MISSING_VAR").outcome \notin Eligible
          /\ Report("FAILED_INVALID", "").outcome \notin Eligible
          /\ Report("SKIPPED_BY_TRANSITION", "").outcome \notin Eligible
          /\ Report("FAILED_TRANSITION", "").outcome \notin Eligible
          /\ Report("FAILED_TRANSITION", "PUBLISH_DUPLICATE").outcome \notin Eligible
          /\ Raised.outcome \notin Eligible
      BY DEF Report, Raised, Eligible
    <3>4. CASE ResolveMissing(n)
      BY <3>1, <3>3, <3>4 DEF ResolveMissing
    <3>5. CASE ResolveFails(n) \/ AssessInvalid(n) \/ TransitionSkips(n)
      BY <3>1, <3>3, <3>5 DEF ResolveFails, AssessInvalid, TransitionSkips
    <3>6. CASE Rollback(n) \/ Raises(n) \/ PublishRaises(n) \/ BindDuplicate(n)
      BY <3>1, <3>3, <3>6 DEF Rollback, Raises, PublishRaises, BindDuplicate
    <3>7. CASE AssessApplied(n) \/ VerifyApplied(n)
      BY <3>2, <3>7 DEF AssessApplied, VerifyApplied, Eligible
    <3>8. CASE Resolve(n) \/ AssessReady(n) \/ TransitionSucceeds(n)
      BY <3>8 DEF Resolve, AssessReady, TransitionSucceeds, Goto, TypeOK, PublishInv
    <3>9. CASE TransitionFails(n) \/ VerifyMismatch(n)
      BY <3>9 DEF TransitionFails, VerifyMismatch, Goto, TypeOK
    <3>10. CASE PublishReturns(n)
      BY <2>4, <3>10 DEF PublishReturns, Goto, TypeOK, PublishInv
    <3> QED
      BY <1>2, <3>4, <3>5, <3>6, <3>7, <3>8, <3>9, <3>10 DEF RunNode
  <2>6. ASSUME NEW m \in NodeId
        PROVE  /\ pc'[m] \in {"idle", "queued", "resolve", "assess", "transition",
                              "verify", "publish"} => bound[m] = 0
               /\ pc'[m] = "bind" => bound[m] < Len(Pubs(m))
               /\ pc'[m] = "publish" => Len(Pubs(m)) > 0
               /\ pc'[m] = "finished" /\ future'[m].outcome \in Eligible
                    => bound[m] = Len(Pubs(m))
    BY <2>1, <2>5 DEF PublishInv
  <2> QED
    BY <2>1, <2>3, <2>6 DEF PublishInv
<1> QED
  BY <1>1, <1>2

LEMMA StepPublishInv ==
  ASSUME TypeOK, SchedInv, PublishInv, [Next]_vars
  PROVE  PublishInv'
<1>1. CASE Add
  <2>1. PICK ups \in DependsOn, pubs \in PublishLists : AddNode(ups, FALSE, pubs, {})
    BY <1>1 DEF Add
  <2>2. FALSE \in BOOLEAN /\ {} \in SUBSET Var
    OBVIOUS
  <2> QED
    BY <2>1, <2>2, AddPublishInv
<1>2. CASE AddDeferred
  <2>1. PICK ups \in DependsOn, pubs \in PublishLists, reads \in ReadSets :
          AddNode(ups, TRUE, pubs, reads)
    BY <1>2 DEF AddDeferred
  <2>2. reads \in SUBSET Var
    BY ReadAssumption
  <2> QED
    BY <2>1, <2>2, AddPublishInv
<1>3. CASE Start
  BY <1>3, StartPublishInv
<1>4. CASE MainStep
  BY <1>4, MainPublishInv
<1>5. ASSUME NEW n \in NodeId, Begin(n)
      PROVE  PublishInv'
  <2>1. pc[n] = "queued"
    <3>1. queue \in Seq(NodeId) /\ queue # << >> /\ n = Head(queue)
      BY <1>5 DEF Begin, TypeOK
    <3>2. 1 \in DOMAIN queue /\ n = queue[1]
      BY <3>1
    <3> QED
      BY <3>2 DEF SchedInv, QueueInv
  <2>2. /\ UNCHANGED <<nodes, registry, starts, bound, future>>
        /\ pc'[n] \in {"resolve", "assess"}
        /\ \A m \in NodeId \ {n} : pc'[m] = pc[m]
    BY <1>5 DEF Begin, TypeOK, graphVars
  <2> QED
    BY <2>1, <2>2, PublishFrame
<1>6. ASSUME NEW n \in NodeId, RunNode(n)
      PROVE  PublishInv'
  BY <1>6, RunNodePublishInv
<1>7. CASE UNCHANGED vars
  BY <1>7, PublishFrame DEF vars
<1> QED
  BY <1>1, <1>2, <1>3, <1>4, <1>5, <1>6, <1>7 DEF Next, WorkerStep

\* The inductive invariant of the engine holds in every reachable state.
THEOREM Invariant == Spec => []IInv
<1>1. Init => IInv
  <2>1. ASSUME Init PROVE PublishInv
    <3>1. Node = {}
      BY <2>1 DEF Init, Node
    <3> QED
      BY <2>1, <3>1 DEF Init, PublishInv
  <2> QED
    BY <2>1, InitInv DEF IInv
<1>2. IInv /\ [Next]_vars => IInv'
  BY StepInv, StepPublishInv DEF IInv
<1> QED
  BY <1>1, <1>2, PTL DEF Spec

\* A node that ended with SUCCESS or SKIPPED_ALREADY_APPLIED bound every name
\* it publishes itself, in this run (_maybe_publish and the registry's bind).
THEOREM OwnerPublished == Spec => []PublishedByOwner
<1>1. IInv => PublishedByOwner
  <2>1. SUFFICES ASSUME IInv, NEW n \in Node, outcomes[n] \in Eligible,
                        NEW i \in DOMAIN Pubs(n)
                 PROVE  registry[Pubs(n)[i]] = Binding(n, starts)
    BY DEF PublishedByOwner
  <2>2. n \in NodeId /\ Pubs(n) \in Seq(Var)
    <3>1. TypeOK
      BY <2>1 DEF IInv
    <3> QED
      BY <3>1, NodeShape
  <2>3. pc[n] = "finished" /\ future[n].outcome = outcomes[n]
    BY <2>1, <2>2 DEF IInv, SchedInv, FutureInv, Reported, Proceed
  <2>4. bound[n] = Len(Pubs(n))
    BY <2>1, <2>2, <2>3 DEF IInv, PublishInv
  <2>5. i \in 1 .. bound[n]
    BY <2>2, <2>4
  <2> QED
    BY <2>1, <2>2, <2>5 DEF IInv, PublishInv
<1> QED
  BY <1>1, Invariant, PTL

-----------------------------------------------------------------------------
(***************************************************************************)
(* Proofs about the failures that the registry causes: a variable that is   *)
(* missing, and a name that is bound already.                               *)
(***************************************************************************)

\* A binding of this run was made by its node, as one of the names that the
\* node has bound so far; and a code that blames the registry is explained.
ExplInv ==
  /\ \A v \in Var : registry[v].start <= starts
  /\ \A n \in NodeId, v \in Var :
       registry[v] = Binding(n, starts) =>
         n \in Node /\ \E j \in 1 .. bound[n] : Pubs(n)[j] = v
  /\ \A n \in NodeId :
       future[n].code \in {"MISSING_VAR", "PUBLISH_DUPLICATE"} => n \in Node
  /\ MissingVarExplained /\ DuplicateExplained

LEMMA InitExplInv ==
  ASSUME Init
  PROVE  ExplInv
<1>1. /\ \A v \in Var : registry[v] = Unbound
      /\ starts = 0
      /\ \A n \in NodeId : future[n] = NoReport
  BY DEF Init
<1>2. \A n \in NodeId : Binding(n, starts) # Unbound
  BY BoundsAssumption DEF NodeId, Binding, Unbound
<1>3. Unbound.start = 0 /\ NoReport.code = ""
  BY DEF Unbound, Binding, NoReport, Report
<1>4. \A n \in NodeId : future[n].code = ""
  BY <1>1, <1>3
<1>5. MissingVarExplained /\ DuplicateExplained
  BY <1>4 DEF MissingVarExplained, DuplicateExplained
<1>6. \A v \in Var : registry[v].start <= starts
  <2>1. \A v \in Var : registry[v].start = 0
    BY <1>1, <1>3
  <2> QED
    BY <1>1, <2>1
<1>7. \A n \in NodeId, v \in Var : registry[v] # Binding(n, starts)
  BY <1>1, <1>2
<1> QED
  BY <1>4, <1>5, <1>6, <1>7 DEF ExplInv

\* What is explained stays explained while the registry only grows, recorded
\* outcomes stay, and no node gets a code that blames the registry.
LEMMA Explained ==
  ASSUME TypeOK, SchedInv, ExplInv, TypeOK',
         Node \subseteq Node', \A m \in Node : nodes'[m] = nodes[m],
         starts' = starts,
         \A v \in Var : registry[v] # Unbound => registry'[v] = registry[v],
         \A m \in NodeId : outcomes[m] # "NONE" => outcomes'[m] = outcomes[m],
         NEW n \in NodeId, future'[n] = future[n]
  PROVE  /\ future'[n].code \in {"MISSING_VAR", "PUBLISH_DUPLICATE"} => n \in Node'
         /\ future'[n].code = "MISSING_VAR" =>
              \E v \in nodes'[n].reads : \A i \in DOMAIN Ups(n)' :
                (\E j \in DOMAIN Pubs(Ups(n)[i])' : Pubs(Ups(n)[i])'[j] = v)
                  => outcomes'[Ups(n)'[i]] = "SKIPPED_BY_TRANSITION"
         /\ future'[n].code = "PUBLISH_DUPLICATE" =>
              \E i \in DOMAIN Pubs(n)' :
                registry'[Pubs(n)'[i]] \notin {Unbound, Binding(n, starts)}
<1> SUFFICES ASSUME future[n].code \in {"MISSING_VAR", "PUBLISH_DUPLICATE"}
             PROVE  /\ n \in Node'
                    /\ future[n].code = "MISSING_VAR" =>
                         \E v \in nodes'[n].reads : \A i \in DOMAIN Ups(n)' :
                           (\E j \in DOMAIN Pubs(Ups(n)[i])' : Pubs(Ups(n)[i])'[j] = v)
                             => outcomes'[Ups(n)'[i]] = "SKIPPED_BY_TRANSITION"
                    /\ future[n].code = "PUBLISH_DUPLICATE" =>
                         \E i \in DOMAIN Pubs(n)' :
                           registry'[Pubs(n)'[i]] \notin {Unbound, Binding(n, starts)}
  OBVIOUS
<1>1. n \in Node
  BY DEF ExplInv
<1>2. Ups(n)' = Ups(n) /\ Pubs(n)' = Pubs(n) /\ nodes'[n].reads = nodes[n].reads
  BY <1>1 DEF Ups, Pubs
<1>3. \A i \in DOMAIN Ups(n) :
        /\ Ups(n)[i] \in Node /\ Ups(n)[i] \in NodeId
        /\ Pubs(Ups(n)[i])' = Pubs(Ups(n)[i])
  <2>1. ASSUME NEW i \in DOMAIN Ups(n) PROVE Ups(n)[i] \in Node /\ Ups(n)[i] \in NodeId
    BY <1>1, UpsShape, NodeShape DEF SchedInv
  <2> QED
    BY <1>2, <2>1 DEF Pubs, Ups
<1>4. CASE future[n].code = "MISSING_VAR"
  <2>1. PICK v \in nodes[n].reads : \A i \in DOMAIN Ups(n) :
          (\E j \in DOMAIN Pubs(Ups(n)[i]) : Pubs(Ups(n)[i])[j] = v)
            => outcomes[Ups(n)[i]] = "SKIPPED_BY_TRANSITION"
    BY <1>4 DEF ExplInv, MissingVarExplained
  <2>2. ASSUME NEW i \in DOMAIN Ups(n),
               \E j \in DOMAIN Pubs(Ups(n)[i])' : Pubs(Ups(n)[i])'[j] = v
        PROVE  outcomes'[Ups(n)[i]] = "SKIPPED_BY_TRANSITION"
    <3>1. outcomes[Ups(n)[i]] = "SKIPPED_BY_TRANSITION"
      BY <1>3, <2>1, <2>2
    <3> QED
      BY <1>3, <3>1
  <2> QED
    BY <1>1, <1>2, <1>4, <2>1, <2>2
<1>5. CASE future[n].code = "PUBLISH_DUPLICATE"
  <2>1. PICK i \in DOMAIN Pubs(n) : registry[Pubs(n)[i]] \notin {Unbound, Binding(n, starts)}
    BY <1>5 DEF ExplInv, DuplicateExplained
  <2>2. Pubs(n)[i] \in Var
    BY <1>1, NodeShape
  <2>3. registry'[Pubs(n)[i]] = registry[Pubs(n)[i]]
    BY <2>1, <2>2
  <2> QED
    BY <1>1, <1>2, <1>5, <2>1, <2>3
<1> QED
  BY <1>4, <1>5

\* A step that leaves the registry and the futures alone.
LEMMA FrameExplInv ==
  ASSUME TypeOK, SchedInv, ExplInv, TypeOK',
         Node \subseteq Node', \A m \in Node : nodes'[m] = nodes[m],
         UNCHANGED <<starts, registry, bound, future>>,
         \A m \in NodeId : outcomes[m] # "NONE" => outcomes'[m] = outcomes[m]
  PROVE  ExplInv'
<1>1. \A n \in Node : Pubs(n)' = Pubs(n)
  BY DEF Pubs
<1>2. \A n \in NodeId, v \in Var :
        registry'[v] = Binding(n, starts') =>
          n \in Node' /\ \E j \in 1 .. bound'[n] : Pubs(n)'[j] = v
  BY <1>1 DEF ExplInv
<1>3. \A n \in NodeId : future'[n].code \in {"MISSING_VAR", "PUBLISH_DUPLICATE"} => n \in Node'
  BY DEF ExplInv
<1>4. MissingVarExplained' /\ DuplicateExplained'
  BY Explained DEF MissingVarExplained, DuplicateExplained
<1>5. \A v \in Var : registry'[v].start <= starts'
  BY DEF ExplInv
<1> QED
  BY <1>2, <1>3, <1>4, <1>5 DEF ExplInv

LEMMA StartExplInv ==
  ASSUME TypeOK, ExplInv, Start
  PROVE  ExplInv'
<1>1. /\ registry' = registry /\ starts' = starts + 1 /\ starts \in Nat
      /\ future' = [n \in NodeId |-> NoReport]
  BY BoundsAssumption DEF Start, TypeOK
<1>2. \A n \in NodeId : future'[n].code = ""
  BY <1>1 DEF NoReport, Report
<1>3. \A v \in Var : registry[v].start \in Nat /\ registry[v].start <= starts
  BY BoundsAssumption DEF ExplInv, TypeOK
<1>4. \A n \in NodeId : Binding(n, starts').start = starts + 1
  BY <1>1 DEF Binding
<1>5. \A n \in NodeId, v \in Var : registry'[v] # Binding(n, starts')
  BY <1>1, <1>3, <1>4
<1>6. MissingVarExplained' /\ DuplicateExplained'
  BY <1>2 DEF MissingVarExplained, DuplicateExplained
<1>7. \A v \in Var : registry'[v].start <= starts'
  BY <1>1, <1>3
<1> QED
  BY <1>2, <1>5, <1>6, <1>7 DEF ExplInv

\* A factory that misses a variable: an upstream that publishes it and had an
\* outcome that is eligible has bound it, so the upstream was skipped.
LEMMA MissingExplained ==
  ASSUME TypeOK, SchedInv, PublishInv, NEW n \in Node, pc[n] # "idle", Missing(n) # {}
  PROVE  \E v \in nodes[n].reads : \A i \in DOMAIN Ups(n) :
           (\E j \in DOMAIN Pubs(Ups(n)[i]) : Pubs(Ups(n)[i])[j] = v)
             => outcomes[Ups(n)[i]] = "SKIPPED_BY_TRANSITION"
<1>1. PICK v \in nodes[n].reads : registry[v] = Unbound
  BY DEF Missing
<1>2. ASSUME NEW i \in DOMAIN Ups(n), NEW j \in DOMAIN Pubs(Ups(n)[i]),
             Pubs(Ups(n)[i])[j] = v
      PROVE  outcomes[Ups(n)[i]] = "SKIPPED_BY_TRANSITION"
  <2> DEFINE u == Ups(n)[i]
  <2>1. n \in NodeId /\ u \in Node /\ u \in NodeId
    BY UpsShape, NodeShape DEF SchedInv
  <2>2. outcomes[u] \in Proceed
    BY <2>1 DEF SchedInv, SubmitInv, Unreleased
  <2>3. outcomes[u] \notin Eligible
    <3> SUFFICES ASSUME outcomes[u] \in Eligible PROVE FALSE
      OBVIOUS
    <3>1. pc[u] = "finished" /\ future[u].outcome = outcomes[u]
      BY <2>1 DEF SchedInv, FutureInv, Reported, Proceed
    <3>2. bound[u] = Len(Pubs(u))
      BY <2>1, <3>1 DEF PublishInv
    <3>3. j \in 1 .. bound[u]
      BY <2>1, <3>2, NodeShape
    <3>4. registry[v] = Binding(u, starts)
      BY <1>2, <2>1, <3>3 DEF PublishInv
    <3> QED
      BY <1>1, <2>1, <3>4 DEF Binding, Unbound, NodeId
  <2> QED
    BY <2>2, <2>3 DEF Proceed
<1> QED
  BY <1>1, <1>2

\* A name that is found bound was not bound by the node itself: it binds the
\* names of its callback, which are distinct, one after the other.
LEMMA DuplicateForeign ==
  ASSUME TypeOK, SchedInv, PublishInv, ExplInv, NEW n \in NodeId, BindDuplicate(n)
  PROVE  /\ n \in Node
         /\ \E i \in DOMAIN Pubs(n) : registry[Pubs(n)[i]] \notin {Unbound, Binding(n, starts)}
<1>1. pc[n] = "bind" /\ registry[Pubs(n)[bound[n] + 1]] # Unbound
  BY DEF BindDuplicate
<1>2. n \in Node
  BY <1>1 DEF SchedInv, SubmitInv
<1>3. /\ Pubs(n) \in Seq(Var) /\ bound[n] \in Nat /\ bound[n] < Len(Pubs(n))
      /\ \A i, j \in DOMAIN Pubs(n) : Pubs(n)[i] = Pubs(n)[j] => i = j
  BY <1>1, <1>2, NodeShape, PublishAssumption DEF PublishInv, TypeOK
<1> DEFINE k == bound[n] + 1
<1>4. k \in DOMAIN Pubs(n) /\ Pubs(n)[k] \in Var
  BY <1>3
<1>5. registry[Pubs(n)[k]] # Binding(n, starts)
  <2> SUFFICES ASSUME registry[Pubs(n)[k]] = Binding(n, starts) PROVE FALSE
    OBVIOUS
  <2>1. PICK j \in 1 .. bound[n] : Pubs(n)[j] = Pubs(n)[k]
    BY <1>4 DEF ExplInv
  <2>2. j \in DOMAIN Pubs(n) /\ j # k
    BY <1>3
  <2> QED
    BY <1>3, <1>4, <2>1, <2>2
<1> QED
  BY <1>1, <1>2, <1>4, <1>5

\* Only these two steps report a code that blames the registry.
LEMMA RunNodeCode ==
  ASSUME TypeOK, NEW n \in NodeId, RunNode(n), ~ ResolveMissing(n), ~ BindDuplicate(n)
  PROVE  future'[n] = future[n] \/ future'[n].code = ""
<1>1. ASSUME NEW o, Complete(n, Report(o, "")) \/ Publishing(n, o)
      PROVE  future'[n].code = ""
  <2>1. Report(o, "").code = ""
    BY DEF Report
  <2>2. future' = [future EXCEPT ![n] = Report(o, "")]
    BY <1>1 DEF Complete, Publishing
  <2> QED
    BY <2>1, <2>2 DEF TypeOK
<1>2. CASE ResolveFails(n) \/ AssessInvalid(n) \/ TransitionSkips(n)
           \/ Rollback(n) \/ PublishRaises(n)
  BY <1>1, <1>2 DEF ResolveFails, AssessInvalid, TransitionSkips, Rollback, PublishRaises
<1>3. CASE AssessApplied(n) \/ VerifyApplied(n)
  BY <1>1, <1>3 DEF AssessApplied, VerifyApplied
<1>4. CASE Raises(n)
  BY <1>1, <1>4 DEF Raises, Raised
<1>5. CASE Resolve(n) \/ AssessReady(n) \/ TransitionSucceeds(n)
           \/ TransitionFails(n) \/ VerifyMismatch(n) \/ PublishReturns(n)
  BY <1>5 DEF Resolve, AssessReady, TransitionSucceeds, TransitionFails,
              VerifyMismatch, PublishReturns, Goto
<1>6. CASE Bind(n)
  BY <1>6 DEF Bind
<1> QED
  BY <1>2, <1>3, <1>4, <1>5, <1>6 DEF RunNode

\* What Bind does to the registry.
LEMMA BindFrame ==
  ASSUME TypeOK, SchedInv, PublishInv, NEW n \in NodeId, Bind(n)
  PROVE  /\ n \in Node /\ Pubs(n)[bound[n] + 1] \in Var
         /\ registry[Pubs(n)[bound[n] + 1]] = Unbound
         /\ registry'[Pubs(n)[bound[n] + 1]] = Binding(n, starts)
         /\ \A w \in Var \ {Pubs(n)[bound[n] + 1]} : registry'[w] = registry[w]
         /\ bound[n] \in Nat /\ bound'[n] = bound[n] + 1
         /\ \A m \in NodeId \ {n} : bound'[m] = bound[m]
         /\ UNCHANGED <<nodes, starts, future, outcomes>>
<1>1. /\ pc[n] = "bind" /\ registry[Pubs(n)[bound[n] + 1]] = Unbound
      /\ registry' = [registry EXCEPT ![Pubs(n)[bound[n] + 1]] = Binding(n, starts)]
      /\ bound' = [bound EXCEPT ![n] = bound[n] + 1]
      /\ UNCHANGED <<nodes, starts, future, outcomes>>
  BY DEF Bind, graphVars, mainVars
<1>2. n \in Node
  BY <1>1 DEF SchedInv, SubmitInv
<1>3. bound[n] \in Nat /\ bound[n] < Len(Pubs(n)) /\ Pubs(n) \in Seq(Var)
  BY <1>1, <1>2, NodeShape DEF PublishInv, TypeOK
<1>4. Pubs(n)[bound[n] + 1] \in Var
  BY <1>3
<1> QED
  BY <1>1, <1>2, <1>3, <1>4 DEF TypeOK

\* The registry is write-once, and what it holds of this run is accounted for.
LEMMA RunNodeRegistry ==
  ASSUME TypeOK, SchedInv, PublishInv, ExplInv, NEW n \in NodeId, RunNode(n)
  PROVE  /\ \A v \in Var : registry[v] # Unbound => registry'[v] = registry[v]
         /\ \A v \in Var : registry'[v].start <= starts
         /\ \A m \in NodeId, v \in Var :
              registry'[v] = Binding(m, starts) =>
                m \in Node /\ \E j \in 1 .. bound'[m] : Pubs(m)[j] = v
<1>1. CASE UNCHANGED <<registry, bound>>
  BY <1>1 DEF ExplInv
<1>2. CASE Bind(n)
  <2> DEFINE w == Pubs(n)[bound[n] + 1]
  <2>1. /\ n \in Node /\ w \in Var /\ registry[w] = Unbound
        /\ registry'[w] = Binding(n, starts)
        /\ \A v \in Var \ {w} : registry'[v] = registry[v]
        /\ bound[n] \in Nat /\ bound'[n] = bound[n] + 1
        /\ \A m \in NodeId \ {n} : bound'[m] = bound[m]
    BY <1>2, BindFrame
  <2>2. Binding(n, starts).start = starts /\ starts \in Nat
        /\ \A m : Binding(m, starts) = Binding(n, starts) => m = n
    BY BoundsAssumption DEF Binding, TypeOK
  <2>3. ASSUME NEW m \in NodeId, NEW v \in Var, registry'[v] = Binding(m, starts)
        PROVE  m \in Node /\ \E j \in 1 .. bound'[m] : Pubs(m)[j] = v
    <3>1. CASE v = w
      <4>1. m = n /\ bound'[n] \in 1 .. bound'[n] /\ bound'[n] = bound[n] + 1
        BY <2>1, <2>2, <2>3, <3>1
      <4> QED
        BY <2>1, <3>1, <4>1
    <3>2. CASE v # w
      <4>1. m \in Node
        BY <2>1, <2>3, <3>2 DEF ExplInv
      <4>2. PICK j \in 1 .. bound[m] : Pubs(m)[j] = v
        BY <2>1, <2>3, <3>2 DEF ExplInv
      <4>3. j \in 1 .. bound'[m]
        <5>1. bound[m] \in Nat /\ (bound'[m] = bound[m] \/ bound'[m] = bound[m] + 1)
          BY <2>1 DEF TypeOK
        <5> QED
          BY <4>2, <5>1
      <4> QED
        BY <4>1, <4>2, <4>3
    <3> QED
      BY <3>1, <3>2
  <2>4. \A v \in Var : registry'[v].start <= starts
    BY <2>1, <2>2 DEF ExplInv
  <2> QED
    BY <2>1, <2>3, <2>4
<1> QED
  BY <1>1, <1>2, RunNodeBinds

LEMMA RunNodeExplInv ==
  ASSUME TypeOK, SchedInv, PublishInv, ExplInv, TypeOK', NEW n \in NodeId, RunNode(n)
  PROVE  ExplInv'
<1>1. /\ UNCHANGED <<nodes, starts, outcomes>> /\ pc[n] # "idle"
      /\ \A m \in NodeId \ {n} : future'[m] = future[m]
  BY RunNodeFrame DEF graphVars, mainVars
<1>2. Node' = Node /\ \A m : Pubs(m)' = Pubs(m) /\ Ups(m)' = Ups(m)
  BY <1>1 DEF Node, Pubs, Ups
<1>3. n \in Node
  BY <1>1 DEF SchedInv, SubmitInv
<1>4. \A v \in Var : registry[v] # Unbound => registry'[v] = registry[v]
  BY RunNodeRegistry
<1> DEFINE Holds(m) ==
      /\ future'[m].code \in {"MISSING_VAR", "PUBLISH_DUPLICATE"} => m \in Node'
      /\ future'[m].code = "MISSING_VAR" =>
           \E v \in nodes'[m].reads : \A i \in DOMAIN Ups(m)' :
             (\E j \in DOMAIN Pubs(Ups(m)[i])' : Pubs(Ups(m)[i])'[j] = v)
               => outcomes'[Ups(m)'[i]] = "SKIPPED_BY_TRANSITION"
      /\ future'[m].code = "PUBLISH_DUPLICATE" =>
           \E i \in DOMAIN Pubs(m)' :
             registry'[Pubs(m)'[i]] \notin {Unbound, Binding(m, starts)}
<1>5. ASSUME NEW m \in NodeId, future'[m] = future[m]
      PROVE  Holds(m)
  BY <1>1, <1>2, <1>4, <1>5, Explained
<1>6. Holds(n)
  <2>1. CASE ResolveMissing(n)
    <3>1. Missing(n) # {} /\ future'[n].code = "MISSING_VAR"
      BY <2>1 DEF ResolveMissing, Complete, Report, TypeOK
    <3>2. \E v \in nodes[n].reads : \A i \in DOMAIN Ups(n) :
            (\E j \in DOMAIN Pubs(Ups(n)[i]) : Pubs(Ups(n)[i])[j] = v)
              => outcomes[Ups(n)[i]] = "SKIPPED_BY_TRANSITION"
      BY <1>1, <1>3, <3>1, MissingExplained
    <3> QED
      BY <1>1, <1>2, <1>3, <3>1, <3>2
  <2>2. CASE BindDuplicate(n)
    <3>1. future'[n].code = "PUBLISH_DUPLICATE" /\ registry' = registry
      BY <2>2 DEF BindDuplicate, Complete, Report, TypeOK
    <3>2. \E i \in DOMAIN Pubs(n) : registry[Pubs(n)[i]] \notin {Unbound, Binding(n, starts)}
      BY <2>2, DuplicateForeign
    <3> QED
      BY <1>2, <1>3, <3>1, <3>2
  <2>3. CASE ~ ResolveMissing(n) /\ ~ BindDuplicate(n)
    <3>1. future'[n] = future[n] \/ future'[n].code = ""
      BY <2>3, RunNodeCode
    <3>2. CASE future'[n].code = ""
      BY <3>2
    <3> HIDE DEF Holds
    <3> QED
      BY <1>5, <3>1, <3>2
  <2> QED
    BY <2>1, <2>2, <2>3
<1>7. \A m \in NodeId : Holds(m)
  <2> HIDE DEF Holds
  <2> QED
    BY <1>1, <1>5, <1>6
<1>8. MissingVarExplained' /\ DuplicateExplained'
  BY <1>1, <1>7 DEF MissingVarExplained, DuplicateExplained
<1> QED
  BY <1>1, <1>2, <1>7, <1>8, RunNodeRegistry DEF ExplInv

LEMMA StepExplInv ==
  ASSUME TypeOK, SchedInv, PublishInv, ExplInv, [Next]_vars
  PROVE  ExplInv'
<1>0. TypeOK'
  BY StepInv
<1>1. ASSUME NEW ups \in DependsOn, NEW deferred \in BOOLEAN, NEW pubs \in PublishLists,
             NEW reads \in SUBSET Var, AddNode(ups, deferred, pubs, reads)
      PROVE  ExplInv'
  <2>1. /\ Node \subseteq Node' /\ \A m \in Node : nodes'[m] = nodes[m]
    BY <1>1, AddNodeFrame
  <2>2. UNCHANGED <<starts, registry, bound, future, outcomes>>
    BY <1>1 DEF AddNode, mainVars, workerVars
  <2> QED
    BY <1>0, <2>1, <2>2, FrameExplInv
<1>2. CASE Add
  <2>1. FALSE \in BOOLEAN /\ {} \in SUBSET Var
    OBVIOUS
  <2> QED
    BY <1>1, <1>2, <2>1 DEF Add
<1>3. CASE AddDeferred
  BY <1>1, <1>3, ReadAssumption DEF AddDeferred
<1>4. CASE Start
  BY <1>4, StartExplInv
<1>5. ASSUME UNCHANGED <<nodes, starts, registry, bound, future>>
      PROVE  ExplInv'
  <2>1. Node' = Node
    BY <1>5 DEF Node
  <2>2. \A m \in NodeId : outcomes[m] # "NONE" => outcomes'[m] = outcomes[m]
    BY <1>5, SettledStep
  <2> QED
    BY <1>0, <1>5, <2>1, <2>2, FrameExplInv
<1>6. CASE MainStep
  BY <1>5, <1>6 DEF MainStep, SubmitRoot, SubmitEnd, Wait, Return, AbsorbEnd, ReleaseEnd,
         BlockEnd, Drain, Absorb, AbsorbRaised, Block, Release, graphVars, workerVars
<1>7. ASSUME NEW n \in NodeId, Begin(n)
      PROVE  ExplInv'
  BY <1>5, <1>7 DEF Begin, graphVars
<1>8. ASSUME NEW n \in NodeId, RunNode(n)
      PROVE  ExplInv'
  BY <1>0, <1>8, RunNodeExplInv
<1>9. CASE UNCHANGED vars
  BY <1>5, <1>9 DEF vars
<1> QED
  BY <1>2, <1>3, <1>4, <1>6, <1>7, <1>8, <1>9 DEF Next, WorkerStep

\* The registry's bindings and the failures it causes are accounted for.
THEOREM RegistryAccounted == Spec => []ExplInv
<1>1. Init => ExplInv
  BY InitExplInv
<1>2. IInv /\ ExplInv /\ [Next]_vars => ExplInv'
  BY StepExplInv DEF IInv
<1> QED
  BY <1>1, <1>2, Invariant, PTL DEF Spec

\* A factory that reads only what its upstreams publish misses a variable only
\* when the upstream that publishes it was skipped by its transition
\* (_resolve_deferred, and the outcomes of _PUBLISH_ELIGIBLE).
THEOREM MissingOnlyAfterSkip == Spec => []MissingVarExplained
<1>1. ExplInv => MissingVarExplained
  BY DEF ExplInv
<1> QED
  BY <1>1, RegistryAccounted, PTL

\* bind() reports a duplicate only for a name that another node, or an earlier
\* start() on the same registry, has bound.
THEOREM DuplicateOnlyByOthers == Spec => []DuplicateExplained
<1>1. ExplInv => DuplicateExplained
  BY DEF ExplInv
<1> QED
  BY <1>1, RegistryAccounted, PTL

-----------------------------------------------------------------------------
(***************************************************************************)
(* The engine implements DagRun: under the mapping of the module StateCtl   *)
(* its initial state is one of DagRun, and each of its steps is a step of   *)
(* DagRun or leaves deps, status and phase alone.                           *)
(***************************************************************************)

\* While start() runs it has not come to an end.
EndedInv == main # "idle" => ended = "none"

RefInv == TypeOK /\ SchedInv /\ EndedInv

LEMMA RefInvStep ==
  ASSUME RefInv, [Next]_vars
  PROVE  RefInv'
<1>1. TypeOK' /\ SchedInv'
  BY StepInv DEF RefInv
<1>2. EndedInv'
  <2>1. CASE Add \/ AddDeferred
    BY <2>1 DEF Add, AddDeferred, AddNode, mainVars, RefInv, EndedInv
  <2>2. CASE Start
    BY <2>2 DEF Start, EndedInv
  <2>3. CASE MainStep
    BY <2>3 DEF MainStep, SubmitRoot, SubmitEnd, Wait, Return, AbsorbEnd, ReleaseEnd,
         BlockEnd, Drain, Absorb, AbsorbRaised, Block, Release, RefInv, EndedInv, LoopExit
  <2>4. ASSUME NEW n \in NodeId, WorkerStep(n) PROVE EndedInv'
    BY <2>4, RunNodeFrame DEF WorkerStep, Begin, mainVars, RefInv, EndedInv
  <2>5. CASE UNCHANGED vars
    BY <2>5 DEF vars, RefInv, EndedInv
  <2> QED
    BY <2>1, <2>2, <2>3, <2>4, <2>5 DEF Next
<1> QED
  BY <1>1, <1>2 DEF RefInv

\* What a node is for DagRun.
LEMMA StatusCases ==
  ASSUME TypeOK, NEW n \in NodeId
  PROVE  /\ outcomes[n] \in Proceed => RunStatus(n) = "ok"
         /\ outcomes[n] \in EngineFailure => RunStatus(n) = "failed"
         /\ outcomes[n] = "BLOCKED" => RunStatus(n) = "blocked"
         /\ outcomes[n] = "NONE" /\ pc[n] = "idle" => RunStatus(n) = "waiting"
         /\ outcomes[n] = "NONE" /\ pc[n] # "idle" => RunStatus(n) = "submitted"
         /\ RunStatus(n) = "ok" => outcomes[n] \in Proceed
BY DEF RunStatus, Proceed, Eligible, EngineFailure, TypeOK, Outcome, Reported

LEMMA SameStatus ==
  ASSUME NEW n \in NodeId, outcomes'[n] = outcomes[n], pc[n] = "idle" <=> pc'[n] = "idle"
  PROVE  RunStatus(n)' = RunStatus(n)
BY DEF RunStatus

\* A step that DagRun does not see.
LEMMA Stutters ==
  ASSUME nodes' = nodes, RunPhase' = RunPhase,
         \A n \in NodeId : RunStatus(n)' = RunStatus(n)
  PROVE  UNCHANGED Run!dagVars
<1>1. Node' = Node /\ \A n : Ups(n)' = Ups(n)
  BY DEF Node, Ups
<1>2. [n \in Node |-> {Ups(n)[i] : i \in DOMAIN Ups(n)}]'
        = [n \in Node |-> {Ups(n)[i] : i \in DOMAIN Ups(n)}]
  BY <1>1
<1>3. [n \in NodeId |-> RunStatus(n)]' = [n \in NodeId |-> RunStatus(n)]
  OBVIOUS
<1> QED
  BY <1>2, <1>3 DEF Run!dagVars

LEMMA InitRefines ==
  ASSUME Init
  PROVE  Run!Init
<1>1. Node = {}
  BY DEF Init, Node
<1>2. [n \in Node |-> {Ups(n)[i] : i \in DOMAIN Ups(n)}] = << >>
  BY <1>1
<1>3. \A n \in NodeId : RunStatus(n) = "waiting"
  BY DEF Init, RunStatus, Proceed, Eligible, EngineFailure
<1>4. RunPhase = "idle"
  BY DEF Init, RunPhase
<1> QED
  BY <1>2, <1>3, <1>4 DEF Run!Init

LEMMA AddRefines ==
  ASSUME RefInv, NEW ups \in DependsOn, NEW deferred \in BOOLEAN,
         NEW pubs \in PublishLists, NEW reads \in SUBSET Var,
         AddNode(ups, deferred, pubs, reads)
  PROVE  Run!AddNode
<1>0. PICK n : n = Len(nodes) + 1
  OBVIOUS
<1> DEFINE deps == [m \in Node |-> {Ups(m)[i] : i \in DOMAIN Ups(m)}]
<1>1. /\ Node' = Node \cup {n} /\ n \in NodeId \ Node
      /\ \A m \in Node : nodes'[m] = nodes[m]
  BY <1>0, AddNodeFrame DEF RefInv
<1>2. /\ main = "idle" /\ UNCHANGED <<main, ended, outcomes, pc>>
      /\ nodes' = Append(nodes, [upstreams |-> ups, deferred |-> deferred,
                                 publishes |-> pubs, reads |-> reads])
  BY DEF AddNode, mainVars, workerVars
<1>3. Ups(n)' = ups
  <2> DEFINE new == [upstreams |-> ups, deferred |-> deferred,
                     publishes |-> pubs, reads |-> reads]
  <2>1. nodes' = Append(nodes, new) /\ new.upstreams = ups
    BY <1>2
  <2> HIDE DEF new
  <2>2. nodes \in Seq(ExecutionNode)
    BY DEF RefInv, TypeOK
  <2>3. nodes'[n] = new
    BY <1>0, <2>1, <2>2
  <2> QED
    BY <2>1, <2>3 DEF Ups
<1>4. DOMAIN deps = Node
  OBVIOUS
<1>5. {ups[i] : i \in DOMAIN ups} \in SUBSET Node
  <2>1. PICK k \in 0 .. MaxDeps : ups \in [1 .. k -> Node]
    BY DEF DependsOn
  <2> QED
    BY <2>1
<1>6. \A m \in Node : Ups(m)' = Ups(m)
  BY <1>1 DEF Ups
<1>7. deps' = [m \in Node \cup {n} |-> IF m = n THEN {ups[i] : i \in DOMAIN ups} ELSE deps[m]]
  <2>1. deps' = [m \in Node \cup {n} |-> {Ups(m)'[i] : i \in DOMAIN Ups(m)'}]
    BY <1>1
  <2>2. ASSUME NEW m \in Node \cup {n}
        PROVE  {Ups(m)'[i] : i \in DOMAIN Ups(m)'}
                 = IF m = n THEN {ups[i] : i \in DOMAIN ups} ELSE deps[m]
    <3>1. CASE m = n
      <4>1. Ups(m)' = ups
        BY <1>3, <3>1
      <4> QED
        BY <3>1, <4>1
    <3>2. CASE m # n
      BY <1>6, <3>2
    <3> QED
      BY <3>1, <3>2
  <2> QED
    BY <2>1, <2>2
<1>8. RunPhase # "running" /\ RunPhase' = RunPhase
  BY <1>2 DEF RunPhase
<1>9. [m \in NodeId |-> RunStatus(m)]' = [m \in NodeId |-> RunStatus(m)]
  BY <1>2 DEF RunStatus
<1> QED
  BY <1>1, <1>4, <1>5, <1>7, <1>8, <1>9 DEF Run!AddNode, Run!Members

LEMMA StartRefines ==
  ASSUME RefInv, Start
  PROVE  Run!Open
<1>1. /\ main = "idle" /\ main' = "submit" /\ ended' = "none" /\ nodes' = nodes
      /\ outcomes' = [n \in NodeId |-> "NONE"] /\ pc' = [n \in NodeId |-> "idle"]
  BY DEF Start
<1>2. RunPhase # "running" /\ RunPhase' = "running"
  BY <1>1 DEF RunPhase
<1>3. \A n \in NodeId : RunStatus(n)' = "waiting"
  BY <1>1 DEF RunStatus, Proceed, Eligible, EngineFailure
<1>4. Node' = Node /\ \A n : Ups(n)' = Ups(n)
  BY <1>1 DEF Node, Ups
<1>5. [n \in Node |-> {Ups(n)[i] : i \in DOMAIN Ups(n)}]'
        = [n \in Node |-> {Ups(n)[i] : i \in DOMAIN Ups(n)}]
  BY <1>4
<1> QED
  BY <1>2, <1>3, <1>5 DEF Run!Open

\* A step within a run that changes the status of one node m, to s.
LEMMA OneStatus ==
  ASSUME nodes' = nodes, RunPhase = "running", RunPhase' = "running",
         NEW m \in NodeId, NEW s, RunStatus(m)' = s,
         \A n \in NodeId \ {m} : RunStatus(n)' = RunStatus(n)
  PROVE  /\ [n \in NodeId |-> RunStatus(n)]'
              = [[n \in NodeId |-> RunStatus(n)] EXCEPT ![m] = s]
         /\ [n \in Node |-> {Ups(n)[i] : i \in DOMAIN Ups(n)}]'
              = [n \in Node |-> {Ups(n)[i] : i \in DOMAIN Ups(n)}]
<1>1. Node' = Node /\ \A n : Ups(n)' = Ups(n)
  BY DEF Node, Ups
<1>2. [n \in Node |-> {Ups(n)[i] : i \in DOMAIN Ups(n)}]'
        = [n \in Node |-> {Ups(n)[i] : i \in DOMAIN Ups(n)}]
  BY <1>1
<1> QED
  BY <1>2

\* A node that enters the pool is submitted: it was waiting, and what it
\* depends on is ok.
LEMMA SubmitRefines ==
  ASSUME RefInv, RefInv', UNCHANGED <<nodes, outcomes>>,
         RunPhase = "running", RunPhase' = "running",
         \A n \in NodeId : pc'[n] = pc[n] \/ (pc[n] = "idle" /\ pc'[n] = "queued"),
         NEW m \in NodeId, pc[m] = "idle", outcomes[m] = "NONE", pc'[m] = "queued",
         \A n \in NodeId \ {m} : pc'[n] = pc[n]
  PROVE  Run!Submit(m)
<1>1. RunStatus(m) = "waiting" /\ RunStatus(m)' = "submitted"
  BY StatusCases DEF RefInv, RunStatus, Proceed, Eligible, EngineFailure
<1>2. \A n \in NodeId \ {m} : RunStatus(n)' = RunStatus(n)
  BY SameStatus
<1>3. m \in Node /\ \A i \in DOMAIN Ups(m) : outcomes[Ups(m)[i]] \in Proceed
  <2>1. (m \in Node /\ Unreleased(m) = {})'
    BY DEF RefInv, SchedInv, SubmitInv
  <2> QED
    BY <2>1 DEF Node, Ups, Unreleased
<1>4. \A d \in {Ups(m)[i] : i \in DOMAIN Ups(m)} : d \in NodeId /\ RunStatus(d) = "ok"
  <2>1. \A i \in DOMAIN Ups(m) : Ups(m)[i] \in NodeId
    BY <1>3, NodeShape DEF RefInv
  <2> QED
    BY <1>3, <2>1, StatusCases DEF RefInv
<1>5. /\ [n \in NodeId |-> RunStatus(n)]'
           = [[n \in NodeId |-> RunStatus(n)] EXCEPT ![m] = "submitted"]
      /\ [n \in Node |-> {Ups(n)[i] : i \in DOMAIN Ups(n)}]'
           = [n \in Node |-> {Ups(n)[i] : i \in DOMAIN Ups(n)}]
  BY <1>1, <1>2, OneStatus
<1> QED
  BY <1>1, <1>3, <1>4, <1>5 DEF Run!Submit, Run!Members

LEMMA SubmitRootRefines ==
  ASSUME RefInv, RefInv', SubmitRoot
  PROVE  [Run!Next]_Run!dagVars
<1>1. /\ main = "submit" /\ cursor \in Node /\ ended = "none"
      /\ UNCHANGED <<nodes, main, outcomes, ended>>
  BY DEF SubmitRoot, graphVars, RefInv, EndedInv
<1>2. RunPhase = "running" /\ RunPhase' = "running"
  BY <1>1 DEF RunPhase
<1>3. CASE UNCHANGED pc
  BY <1>1, <1>2, <1>3, SameStatus, Stutters
<1>4. CASE Submit(cursor)
  <2>1. /\ cursor \in NodeId /\ pc[cursor] = "idle" /\ outcomes[cursor] = "NONE"
        /\ cursor >= cursor
    BY <1>1, NodeShape DEF RefInv, SchedInv, SubmitInv, LoopInv, NodeId
  <2>2. pc'[cursor] = "queued" /\ \A n \in NodeId \ {cursor} : pc'[n] = pc[n]
    BY <1>4, <2>1 DEF Submit, RefInv, TypeOK
  <2>3. Run!Submit(cursor)
    BY <1>1, <1>2, <2>1, <2>2, SubmitRefines
  <2> QED
    BY <2>1, <2>3 DEF Run!Next, Run!Advance
<1> QED
  BY <1>3, <1>4 DEF SubmitRoot

LEMMA ReleaseRefines ==
  ASSUME RefInv, RefInv', NEW e \in edges, Release(e)
  PROVE  [Run!Next]_Run!dagVars
<1>1. /\ main = "release" /\ ended = "none"
      /\ UNCHANGED <<nodes, main, outcomes, ended>>
  BY DEF Release, graphVars, RefInv, EndedInv
<1>2. RunPhase = "running" /\ RunPhase' = "running"
  BY <1>1 DEF RunPhase
<1>3. CASE UNCHANGED pc
  BY <1>1, <1>2, <1>3, SameStatus, Stutters
<1>4. CASE Submit(e[1]) /\ outcomes[e[1]] = "NONE"
  <2>1. e[1] \in Node /\ e[1] \in NodeId /\ e[2] \in DOMAIN Ups(e[1]) /\ e = <<e[1], e[2]>>
    BY NodeShape DEF RefInv, SchedInv, LoopInv, TypeOK
  <2>2. e[2] \in Unreleased(e[1])
    BY <2>1 DEF Unreleased
  <2>3. pc[e[1]] = "idle"
    BY <2>1, <2>2 DEF RefInv, SchedInv, SubmitInv
  <2>4. pc'[e[1]] = "queued" /\ \A n \in NodeId \ {e[1]} : pc'[n] = pc[n]
    BY <1>4, <2>1 DEF Submit, RefInv, TypeOK
  <2>5. Run!Submit(e[1])
    BY <1>1, <1>2, <1>4, <2>1, <2>3, <2>4, SubmitRefines
  <2> QED
    BY <2>1, <2>5 DEF Run!Next, Run!Advance
<1> QED
  BY <1>3, <1>4 DEF Release

LEMMA AbsorbRefines ==
  ASSUME RefInv, NEW m \in NodeId, Absorb(m)
  PROVE  Run!Next
<1>1. /\ main = "absorb" /\ main' \in {"block", "release"} /\ ended = "none"
      /\ m \in done
      /\ outcomes' = [outcomes EXCEPT ![m] = future[m].outcome]
      /\ future[m].outcome # "RAISED"
      /\ UNCHANGED <<nodes, ended, pc>>
  BY DEF Absorb, graphVars, workerVars, RefInv, EndedInv
<1>2. RunPhase = "running" /\ RunPhase' = "running"
  BY <1>1 DEF RunPhase
<1>3. pc[m] = "finished" /\ outcomes[m] = "NONE"
  BY <1>1 DEF RefInv, SchedInv, FlightInv
<1>4. RunStatus(m) = "submitted"
  BY <1>3, StatusCases DEF RefInv
<1>5. future[m].outcome \in Reported
  BY <1>1, <1>3 DEF RefInv, SchedInv, FutureInv
<1>6. outcomes'[m] = future[m].outcome /\ \A n \in NodeId \ {m} : outcomes'[n] = outcomes[n]
  BY <1>1 DEF RefInv, TypeOK
<1>7. \A n \in NodeId \ {m} : RunStatus(n)' = RunStatus(n)
  BY <1>1, <1>6, SameStatus
<1>8. RunStatus(m)' \in {"ok", "failed"}
  BY <1>5, <1>6 DEF RunStatus, Reported, Proceed, Eligible, EngineFailure
<1>9. \A s : RunStatus(m)' = s =>
        /\ [n \in NodeId |-> RunStatus(n)]'
             = [[n \in NodeId |-> RunStatus(n)] EXCEPT ![m] = s]
        /\ [n \in Node |-> {Ups(n)[i] : i \in DOMAIN Ups(n)}]'
             = [n \in Node |-> {Ups(n)[i] : i \in DOMAIN Ups(n)}]
  BY <1>1, <1>2, <1>7, OneStatus
<1>10. Run!Finish(m, "ok") \/ Run!Finish(m, "failed")
  BY <1>2, <1>4, <1>8, <1>9 DEF Run!Finish
<1> QED
  BY <1>10 DEF Run!Next, Run!Advance

LEMMA AbsorbRaisedRefines ==
  ASSUME RefInv, NEW m \in NodeId, AbsorbRaised(m)
  PROVE  Run!Next
<1>1. /\ main = "absorb" /\ main' = "drain" /\ ended = "none" /\ m \in done
      /\ UNCHANGED <<nodes, ended, pc, outcomes>>
  BY DEF AbsorbRaised, graphVars, workerVars, RefInv, EndedInv
<1>2. RunPhase = "running" /\ RunPhase' = "raised"
  BY <1>1 DEF RunPhase
<1>3. pc[m] = "finished" /\ outcomes[m] = "NONE"
  BY <1>1 DEF RefInv, SchedInv, FlightInv
<1>4. m \in Node /\ RunStatus(m) = "submitted"
  BY <1>3, StatusCases DEF RefInv, SchedInv, SubmitInv
<1>5. [n \in NodeId |-> RunStatus(n)]' = [n \in NodeId |-> RunStatus(n)]
  BY <1>1 DEF RunStatus
<1>6. Node' = Node /\ \A n : Ups(n)' = Ups(n)
  BY <1>1 DEF Node, Ups
<1>7. [n \in Node |-> {Ups(n)[i] : i \in DOMAIN Ups(n)}]'
        = [n \in Node |-> {Ups(n)[i] : i \in DOMAIN Ups(n)}]
  BY <1>6
<1>8. m \in NodeId /\ [n \in NodeId |-> RunStatus(n)][m] = "submitted"
  BY <1>4
<1> QED
  BY <1>2, <1>4, <1>5, <1>7, <1>8 DEF Run!Next, Run!Advance, Run!Abandon, Run!Members

LEMMA BlockRefines ==
  ASSUME RefInv, NEW d \in NodeId, Block(d)
  PROVE  [Run!Next]_Run!dagVars
<1>1. /\ main = "block" /\ ended = "none" /\ d \in worklist
      /\ UNCHANGED <<nodes, main, ended, pc>>
  BY DEF Block, graphVars, workerVars, RefInv, EndedInv
<1>2. RunPhase = "running" /\ RunPhase' = "running"
  BY <1>1 DEF RunPhase
<1>3. CASE UNCHANGED outcomes
  BY <1>1, <1>2, <1>3, SameStatus, Stutters
<1>4. CASE outcomes[d] = "NONE" /\ outcomes' = [outcomes EXCEPT ![d] = "BLOCKED"]
  <2>1. PICK i \in DOMAIN Ups(d) : outcomes[Ups(d)[i]] \in Failure
    BY <1>1 DEF RefInv, SchedInv, LoopInv
  <2>2. d \in Node /\ Ups(d)[i] \in NodeId
    BY <1>1, NodeShape DEF RefInv, SchedInv, LoopInv
  <2>3. i \in Unreleased(d)
    BY <2>1 DEF Unreleased, Failure, Proceed, Eligible, EngineFailure
  <2>4. pc[d] = "idle"
    BY <2>3 DEF RefInv, SchedInv, SubmitInv
  <2>5. RunStatus(d) = "waiting"
    BY <1>4, <2>4, StatusCases DEF RefInv
  <2>6. RunStatus(Ups(d)[i]) \in {"failed", "blocked"}
    BY <2>1, <2>2, StatusCases DEF RefInv, Failure
  <2>7. outcomes'[d] = "BLOCKED" /\ \A n \in NodeId \ {d} : outcomes'[n] = outcomes[n]
    BY <1>4 DEF RefInv, TypeOK
  <2>8. RunStatus(d)' = "blocked" /\ \A n \in NodeId \ {d} : RunStatus(n)' = RunStatus(n)
    BY <1>1, <2>7, SameStatus DEF RunStatus, Proceed, Eligible, EngineFailure
  <2>9. /\ [n \in NodeId |-> RunStatus(n)]'
             = [[n \in NodeId |-> RunStatus(n)] EXCEPT ![d] = "blocked"]
        /\ [n \in Node |-> {Ups(n)[j] : j \in DOMAIN Ups(n)}]'
             = [n \in Node |-> {Ups(n)[j] : j \in DOMAIN Ups(n)}]
    BY <1>1, <1>2, <2>8, OneStatus
  <2>10. Run!Block(d)
    BY <1>2, <2>2, <2>5, <2>6, <2>9 DEF Run!Block, Run!Members
  <2> QED
    BY <2>10 DEF Run!Next, Run!Advance
<1> QED
  BY <1>3, <1>4 DEF Block

LEMMA ReturnRefines ==
  ASSUME RefInv, EveryNodeSettled, Return
  PROVE  Run!Next
<1>1. /\ main = "wait" /\ main' = "idle" /\ ended = "none" /\ ended' = "returned" /\ LoopExit
      /\ UNCHANGED <<nodes, pc, outcomes>>
  BY DEF Return, LoopExit, graphVars, workerVars, RefInv, EndedInv
<1>2. RunPhase = "running" /\ RunPhase' = "returned"
  BY <1>1 DEF RunPhase
<1>3. ASSUME NEW n \in Node
      PROVE  n \in NodeId /\ RunStatus(n) \in {"ok", "failed", "blocked"}
  <2>1. n \in NodeId /\ outcomes[n] # "NONE"
    BY <1>1, NodeShape DEF RefInv, EveryNodeSettled
  <2>2. outcomes[n] \in Outcome
    BY <2>1 DEF RefInv, TypeOK
  <2> QED
    BY <2>1, <2>2, StatusCases DEF RefInv, Outcome, Reported
<1>4. [n \in NodeId |-> RunStatus(n)]' = [n \in NodeId |-> RunStatus(n)]
  BY <1>1 DEF RunStatus
<1>5. Node' = Node /\ \A n : Ups(n)' = Ups(n)
  BY <1>1 DEF Node, Ups
<1>6. [n \in Node |-> {Ups(n)[i] : i \in DOMAIN Ups(n)}]'
        = [n \in Node |-> {Ups(n)[i] : i \in DOMAIN Ups(n)}]
  BY <1>5
<1> QED
  BY <1>2, <1>3, <1>4, <1>6 DEF Run!Next, Run!Advance, Run!Close, Run!Members

\* The other steps of the thread in start() only move it on.
LEMMA MoveStutters ==
  ASSUME RefInv, SubmitEnd \/ Wait \/ AbsorbEnd \/ ReleaseEnd \/ BlockEnd \/ Drain
  PROVE  UNCHANGED Run!dagVars
<1>1. UNCHANGED <<nodes, pc, outcomes>>
  BY DEF SubmitEnd, Wait, AbsorbEnd, ReleaseEnd, BlockEnd, Drain, graphVars, workerVars
<1>2. RunPhase' = RunPhase
  BY DEF SubmitEnd, Wait, AbsorbEnd, ReleaseEnd, BlockEnd, Drain, RunPhase, RefInv, EndedInv
<1> QED
  BY <1>1, <1>2, SameStatus, Stutters

\* The status of a node does not tell what its worker is doing.
LEMMA WorkerStutters ==
  ASSUME RefInv, NEW n \in NodeId, WorkerStep(n)
  PROVE  UNCHANGED Run!dagVars
<1>1. UNCHANGED <<nodes, main, ended, outcomes>>
  BY RunNodeFrame DEF WorkerStep, Begin, graphVars, mainVars, RefInv
<1>2. \A m \in NodeId : pc[m] = "idle" <=> pc'[m] = "idle"
  <2>1. CASE RunNode(n)
    BY <2>1, RunNodeFrame DEF RefInv
  <2>2. CASE Begin(n)
    <3>1. queue \in Seq(NodeId) /\ queue # << >> /\ n = Head(queue)
      BY <2>2 DEF Begin, RefInv, TypeOK
    <3>2. 1 \in DOMAIN queue /\ n = queue[1]
      BY <3>1
    <3>3. pc[n] = "queued"
      BY <3>2 DEF RefInv, SchedInv, QueueInv
    <3> QED
      BY <2>2, <3>3 DEF Begin, RefInv, TypeOK
  <2> QED
    BY <2>1, <2>2 DEF WorkerStep
<1>3. RunPhase' = RunPhase
  BY <1>1 DEF RunPhase
<1> QED
  BY <1>1, <1>2, <1>3, SameStatus, Stutters

LEMMA StepRefines ==
  ASSUME RefInv, EveryNodeSettled, [Next]_vars
  PROVE  [Run!Next]_Run!dagVars
<1>0. RefInv'
  BY RefInvStep
<1>1. CASE Add
  <2>1. FALSE \in BOOLEAN /\ {} \in SUBSET Var
    OBVIOUS
  <2> QED
    BY <1>1, <2>1, AddRefines DEF Add, Run!Next
<1>2. CASE AddDeferred
  BY <1>2, AddRefines, ReadAssumption DEF AddDeferred, Run!Next
<1>3. CASE Start
  BY <1>3, StartRefines DEF Run!Next
<1>4. CASE MainStep
  BY <1>0, <1>4, SubmitRootRefines, ReleaseRefines, AbsorbRefines, AbsorbRaisedRefines,
     BlockRefines, ReturnRefines, MoveStutters DEF MainStep
<1>5. ASSUME NEW n \in NodeId, WorkerStep(n)
      PROVE  UNCHANGED Run!dagVars
  BY <1>5, WorkerStutters
<1>6. CASE UNCHANGED vars
  <2>1. UNCHANGED <<nodes, main, ended, outcomes, pc>>
    BY <1>6 DEF vars
  <2>2. RunPhase' = RunPhase
    BY <2>1 DEF RunPhase
  <2> QED
    BY <2>1, <2>2, SameStatus, Stutters
<1> QED
  BY <1>1, <1>2, <1>3, <1>4, <1>5, <1>6 DEF Next

\* The engine with its threads, queue, counters and worklist does nothing that
\* DagRun does not allow: it works on a node only after what it depends on,
\* blocks only what is below a failure, and ends only when all is settled.
THEOREM Refines == Spec => ImplementsDagRun
<1>1. Init => RefInv
  BY InitInv DEF RefInv, EndedInv, Init
<1>2. RefInv /\ [Next]_vars => RefInv'
  BY RefInvStep
<1>3. Init => Run!Init
  BY InitRefines
<1>4. RefInv /\ EveryNodeSettled /\ [Next]_vars => [Run!Next]_Run!dagVars
  BY StepRefines
<1> QED
  BY <1>1, <1>2, <1>3, <1>4, AllSettled, PTL DEF Spec, ImplementsDagRun, Run!Spec
=============================================================================
