------------------------------ MODULE StateCtl ------------------------------
(***************************************************************************)
(* The engine of statectl (state_ctl.py, class StateCtl): the graph of     *)
(* execution nodes built by add and add_deferred, the thread pool driven   *)
(* by start, the life of one node in a worker thread (_run_node), and the  *)
(* write-once variable registry the nodes share.                           *)
(*                                                                         *)
(* Threads.  `main` is the thread that called start; it alone touches the  *)
(* run state (_RunState and in_flight).  A worker thread executes          *)
(* _run_node for one node; it touches that node, its future and the        *)
(* registry.  A step of the model is one iteration of a loop of the main   *)
(* thread, or one call of a worker into code outside the engine (factory,  *)
(* assess_state, transition, rollback, publish callback, bind).            *)
(*                                                                         *)
(* A changer is not part of the engine: every call into it may return any  *)
(* value its interface allows, or raise.                                   *)
(***************************************************************************)
EXTENDS Naturals, Sequences, FiniteSets

CONSTANTS
  MaxNodes,      \* bound on the number of nodes ever added
  MaxDeps,       \* bound on the length of a depends_on list
  MaxStarts,     \* bound on the number of calls of start()
  Workers,       \* max_workers of the pool
  Var,           \* variable names
  PublishLists,  \* the key sequences a publish callback may return;
                 \* << >> is a node without an effective callback
  ReadSets       \* the sets of variables a deferred factory may require

ASSUME BoundsAssumption ==
  /\ MaxNodes \in Nat \ {0}
  /\ MaxDeps \in Nat
  /\ MaxStarts \in Nat

\* ThreadPoolExecutor refuses max_workers <= 0; `os.cpu_count() or 1` is >= 1.
ASSUME WorkersAssumption == Workers \in Nat \ {0}

\* The callback returns a mapping, so its keys are distinct.
ASSUME PublishAssumption ==
  \A p \in PublishLists :
    /\ p \in Seq(Var)
    /\ \A i, j \in DOMAIN p : p[i] = p[j] => i = j

ASSUME ReadAssumption == \A r \in ReadSets : r \subseteq Var

NodeId == 1 .. MaxNodes

-----------------------------------------------------------------------------
(* Outcomes of a node (NodeOutcome); "NONE" is: not in state.outcomes.      *)

Eligible  == {"SUCCESS", "SKIPPED_ALREADY_APPLIED"}          \* _PUBLISH_ELIGIBLE
EngineFailure == {"FAILED_INVALID", "FAILED_TRANSITION"}     \* _ENGINE_FAILURE_OUTCOMES
Failure   == EngineFailure \cup {"BLOCKED"}                  \* _FAILURE_OUTCOMES
Proceed   == Eligible \cup {"SKIPPED_BY_TRANSITION"}
Reported  == Proceed \cup EngineFailure
Outcome   == Reported \cup {"BLOCKED"}

\* A future holds a report or an exception; "NONE" while it is pending.  Of
\* the code of the report's Result only what a property tells apart is kept.
Code == {"", "MISSING_VAR", "PUBLISH_DUPLICATE"}
Report(o, c) == [outcome |-> o, code |-> c]
NoReport == Report("NONE", "")
Raised   == Report("RAISED", "")
Reports  == [outcome : Reported \cup {"NONE", "RAISED"}, code : Code]

\* What _values holds for a name: who bound it, and during which start().
Binding(n, s) == [node |-> n, start |-> s]
Unbound == Binding(0, 0)

Worker == {"idle", "queued", "resolve", "assess", "transition", "verify",
           "rollback", "publish", "bind", "finished"}
Main   == {"idle", "submit", "wait", "absorb", "release", "block", "drain"}

ExecutionNode ==
  [upstreams : Seq(NodeId), deferred : BOOLEAN,
   publishes : PublishLists, reads : SUBSET Var]

VARIABLES
  nodes,      \* self._nodes
  registry,   \* self._registry: for each name, its binding
  starts,     \* number of start() calls so far
  main,       \* where the thread in start() is
  cursor,     \* the position of the loop that submits the roots
  remaining,  \* _RunState.remaining
  outcomes,   \* _RunState.outcomes
  inFlight,   \* the nodes of the in_flight futures
  done,       \* futures returned by wait() and not absorbed yet
  edges,      \* edges <<d, i>> (upstream i of d) left in the release loop
  worklist,   \* the deque of _mark_blocked
  ended,      \* how the last start() ended
  queue,      \* the work queue of the pool
  pc,         \* where each node is in a worker thread
  future,     \* the future of each node
  bound       \* how many of its names a node has bound in this run

graphVars  == <<nodes, starts>>
mainVars   == <<main, cursor, remaining, outcomes, inFlight, done, edges,
                worklist, ended>>
workerVars == <<queue, pc, future, bound, registry>>
vars == <<nodes, registry, starts, main, cursor, remaining, outcomes, inFlight,
          done, edges, worklist, ended, queue, pc, future, bound>>

Node      == 1 .. Len(nodes)
Ups(n)    == nodes[n].upstreams
Pubs(n)   == nodes[n].publishes
EdgesOf(n)   == {e \in Node \X (1 .. MaxDeps) :
                   e[2] \in DOMAIN Ups(e[1]) /\ Ups(e[1])[e[2]] = n}
Downstream(n) == {d \in Node : \E i \in DOMAIN Ups(d) : Ups(d)[i] = n}

Init ==
  /\ nodes = << >>
  /\ registry = [v \in Var |-> Unbound]
  /\ starts = 0
  /\ main = "idle"
  /\ cursor = 1
  /\ remaining = [n \in NodeId |-> 0]
  /\ outcomes = [n \in NodeId |-> "NONE"]
  /\ inFlight = {}
  /\ done = {}
  /\ edges = {}
  /\ worklist = {}
  /\ ended = "none"
  /\ queue = << >>
  /\ pc = [n \in NodeId |-> "idle"]
  /\ future = [n \in NodeId |-> NoReport]
  /\ bound = [n \in NodeId |-> 0]

-----------------------------------------------------------------------------
(* Building the graph.  A dependency that was never added is refused with   *)
(* UnknownDependencyError and a changer that was added already with         *)
(* DuplicateNodeError; neither changes the state (see HandleIds).  The list *)
(* depends_on may name the same node twice.                                 *)

DependsOn == UNION {[1 .. k -> Node] : k \in 0 .. MaxDeps}

AddNode(ups, deferred, pubs, reads) ==
  /\ main = "idle"
  /\ Len(nodes) < MaxNodes
  /\ nodes' = Append(nodes, [upstreams |-> ups, deferred |-> deferred,
                             publishes |-> pubs, reads |-> reads])
  /\ UNCHANGED <<starts, mainVars, workerVars>>

Add ==
  \E ups \in DependsOn, pubs \in PublishLists : AddNode(ups, FALSE, pubs, {})

\* DeferredWithoutDependenciesError: depends_on must not be empty.
AddDeferred ==
  \E ups \in DependsOn, pubs \in PublishLists, reads \in ReadSets :
    /\ ups # << >>
    /\ AddNode(ups, TRUE, pubs, reads)

-----------------------------------------------------------------------------
(* The thread in start().                                                   *)

\* Mutant: the in-degree counts an upstream named twice only once.
StartDistinctDegree ==
  /\ main = "idle"
  /\ starts < MaxStarts
  /\ starts' = starts + 1
  /\ main' = "submit"
  /\ remaining' = [n \in NodeId |-> IF n \in Node
                     THEN Cardinality({Ups(n)[i] : i \in DOMAIN Ups(n)}) ELSE 0]
  /\ UNCHANGED <<nodes, registry, cursor, outcomes, inFlight, done, edges,
                 worklist, ended, queue, pc, future, bound>>

Start ==
  /\ main = "idle"
  /\ starts < MaxStarts
  /\ starts' = starts + 1
  /\ main' = "submit"
  /\ cursor' = 1
  /\ remaining' = [n \in NodeId |-> IF n \in Node THEN Len(Ups(n)) ELSE 0]
  /\ outcomes' = [n \in NodeId |-> "NONE"]
  /\ inFlight' = {}
  /\ done' = {}
  /\ edges' = {}
  /\ worklist' = {}
  /\ ended' = "none"
  /\ queue' = << >>
  /\ pc' = [n \in NodeId |-> "idle"]
  /\ future' = [n \in NodeId |-> NoReport]
  /\ bound' = [n \in NodeId |-> 0]
  /\ UNCHANGED <<nodes, registry>>

\* submit(n): the future enters in_flight, the work item the queue.
Submit(n) ==
  /\ inFlight' = inFlight \cup {n}
  /\ queue' = Append(queue, n)
  /\ pc' = [pc EXCEPT ![n] = "queued"]

SubmitRoot ==
  /\ main = "submit"
  /\ cursor \in Node
  /\ IF remaining[cursor] = 0
     THEN Submit(cursor)
     ELSE UNCHANGED <<inFlight, queue, pc>>
  /\ cursor' = cursor + 1
  /\ UNCHANGED <<graphVars, main, remaining, outcomes, done, edges, worklist,
                 ended, future, bound, registry>>

SubmitEnd ==
  /\ main = "submit"
  /\ cursor > Len(nodes)
  /\ main' = "wait"
  /\ UNCHANGED <<graphVars, cursor, remaining, outcomes, inFlight, done, edges,
                 worklist, ended, workerVars>>

\* wait(..., FIRST_COMPLETED) returns some of the futures completed by now.
Wait ==
  /\ main = "wait"
  /\ \E D \in SUBSET {n \in inFlight : pc[n] = "finished"} :
       /\ D # {}
       /\ done' = D
  /\ main' = "absorb"
  /\ UNCHANGED <<graphVars, cursor, remaining, outcomes, inFlight, edges,
                 worklist, ended, workerVars>>

\* The loop ends with nothing in flight: the reports are built and returned.
LoopExit == main = "wait" /\ inFlight = {}
Return ==
  /\ LoopExit
  /\ main' = "idle"
  /\ ended' = "returned"
  /\ UNCHANGED <<graphVars, cursor, remaining, outcomes, inFlight, done, edges,
                 worklist, workerVars>>

\* Mutant: a failure stops every node that has not been absorbed yet.
AbsorbStopsAll(n) ==
  /\ main = "absorb"
  /\ n \in done
  /\ future[n].outcome # "RAISED"
  /\ done' = done \ {n}
  /\ inFlight' = inFlight \ {n}
  /\ outcomes' = [outcomes EXCEPT ![n] = future[n].outcome]
  /\ IF future[n].outcome \in EngineFailure
     THEN main' = "block" /\ worklist' = Node /\ UNCHANGED edges
     ELSE main' = "release" /\ edges' = EdgesOf(n) /\ UNCHANGED worklist
  /\ UNCHANGED <<graphVars, cursor, remaining, ended, workerVars>>

\* Mutant: the future stays in in_flight and is returned by wait() again.
AbsorbKeepsInFlight(n) ==
  /\ main = "absorb"
  /\ n \in done
  /\ future[n].outcome # "RAISED"
  /\ done' = done \ {n}
  /\ outcomes' = [outcomes EXCEPT ![n] = future[n].outcome]
  /\ IF future[n].outcome \in EngineFailure
     THEN main' = "block" /\ worklist' = Downstream(n) /\ UNCHANGED edges
     ELSE main' = "release" /\ edges' = EdgesOf(n) /\ UNCHANGED worklist
  /\ UNCHANGED <<graphVars, cursor, remaining, inFlight, ended, workerVars>>

\* _absorb_completion of one future of the batch, in no particular order.
Absorb(n) ==
  /\ main = "absorb"
  /\ n \in done
  /\ future[n].outcome # "RAISED"
  /\ done' = done \ {n}
  /\ inFlight' = inFlight \ {n}
  /\ outcomes' = [outcomes EXCEPT ![n] = future[n].outcome]
  /\ IF future[n].outcome \in EngineFailure
     THEN /\ main' = "block"
          /\ worklist' = Downstream(n)
          /\ UNCHANGED edges
     ELSE /\ main' = "release"
          /\ edges' = EdgesOf(n)
          /\ UNCHANGED worklist
  /\ UNCHANGED <<graphVars, cursor, remaining, ended, workerVars>>

\* fut.result() re-raises what the worker raised: the loop is left, and the
\* `with` block waits for everything submitted before start() re-raises.
AbsorbRaised(n) ==
  /\ main = "absorb"
  /\ n \in done
  /\ future[n].outcome = "RAISED"
  /\ done' = {}
  /\ inFlight' = inFlight \ {n}
  /\ main' = "drain"
  /\ UNCHANGED <<graphVars, cursor, remaining, outcomes, edges, worklist, ended,
                 workerVars>>

AbsorbEnd ==
  /\ main = "absorb"
  /\ done = {}
  /\ main' = "wait"
  /\ UNCHANGED <<graphVars, cursor, remaining, outcomes, inFlight, done, edges,
                 worklist, ended, workerVars>>

\* downstreams[node] lists d once per occurrence of node in d.upstreams, in
\* the order of the nodes.
FirstEdge(e) ==
  \A f \in edges : e[1] < f[1] \/ (e[1] = f[1] /\ e[2] <= f[2])

\* Mutant: the first upstream that completes lets the node run.
ReleaseEarly(e) ==
  /\ main = "release"
  /\ e \in edges
  /\ edges' = edges \ {e}
  /\ IF outcomes[e[1]] # "NONE"
     THEN UNCHANGED <<inFlight, queue, pc>>
     ELSE Submit(e[1])
  /\ UNCHANGED <<graphVars, main, cursor, remaining, outcomes, done, worklist,
                 ended, future, bound, registry>>

Release(e) ==
  /\ main = "release"
  /\ e \in edges
  /\ FirstEdge(e)
  /\ edges' = edges \ {e}
  /\ IF outcomes[e[1]] # "NONE"
     THEN UNCHANGED <<remaining, inFlight, queue, pc>>
     ELSE /\ remaining' = [remaining EXCEPT ![e[1]] = @ - 1]
          /\ IF remaining[e[1]] = 1
             THEN Submit(e[1])
             ELSE UNCHANGED <<inFlight, queue, pc>>
  /\ UNCHANGED <<graphVars, main, cursor, outcomes, done, worklist, ended,
                 future, bound, registry>>

ReleaseEnd ==
  /\ main = "release"
  /\ edges = {}
  /\ main' = "absorb"
  /\ UNCHANGED <<graphVars, cursor, remaining, outcomes, inFlight, done, edges,
                 worklist, ended, workerVars>>

\* Mutant: only the direct dependents of a failure are marked.
BlockShallow(d) ==
  /\ main = "block"
  /\ d \in worklist
  /\ outcomes' = [outcomes EXCEPT ![d] = IF @ = "NONE" THEN "BLOCKED" ELSE @]
  /\ worklist' = worklist \ {d}
  /\ UNCHANGED <<graphVars, main, cursor, remaining, inFlight, done, edges,
                 ended, workerVars>>

\* One iteration of _mark_blocked.  The deque is kept as a set: a second
\* occurrence is skipped by the test, and the order reaches only the log.
Block(d) ==
  /\ main = "block"
  /\ d \in worklist
  /\ IF outcomes[d] # "NONE"
     THEN /\ worklist' = worklist \ {d}
          /\ UNCHANGED outcomes
     ELSE /\ outcomes' = [outcomes EXCEPT ![d] = "BLOCKED"]
          /\ worklist' = (worklist \ {d}) \cup Downstream(d)
  /\ UNCHANGED <<graphVars, main, cursor, remaining, inFlight, done, edges,
                 ended, workerVars>>

BlockEnd ==
  /\ main = "block"
  /\ worklist = {}
  /\ main' = "absorb"
  /\ UNCHANGED <<graphVars, cursor, remaining, outcomes, inFlight, done, edges,
                 worklist, ended, workerVars>>

\* Mutant: start() re-raises without waiting for the other workers.
DrainNoWait ==
  /\ main = "drain"
  /\ main' = "idle"
  /\ ended' = "raised"
  /\ UNCHANGED <<graphVars, cursor, remaining, outcomes, inFlight, done, edges,
                 worklist, workerVars>>

\* ThreadPoolExecutor.__exit__: shutdown(wait=True) without cancel_futures.
Drain ==
  /\ main = "drain"
  /\ \A n \in NodeId : pc[n] \in {"idle", "finished"}
  /\ main' = "idle"
  /\ ended' = "raised"
  /\ UNCHANGED <<graphVars, cursor, remaining, outcomes, inFlight, done, edges,
                 worklist, workerVars>>

MainStep ==
  \/ SubmitRoot \/ SubmitEnd \/ Wait \/ Return \/ AbsorbEnd
  \/ ReleaseEnd \/ BlockEnd \/ Drain
  \/ \E n \in NodeId : Absorb(n) \/ AbsorbRaised(n) \/ Block(n)
  \/ \E e \in edges : Release(e)

-----------------------------------------------------------------------------
(* A worker thread running _run_node for node n.                            *)

Running == {n \in NodeId : pc[n] \notin {"idle", "queued", "finished"}}

\* Mutant: the shutdown cancels what is still queued.
BeginCancelled(n) ==
  /\ main # "drain"
  /\ queue # << >>
  /\ n = Head(queue)
  /\ Cardinality(Running) < Workers
  /\ queue' = Tail(queue)
  /\ pc' = [pc EXCEPT ![n] = IF nodes[n].deferred THEN "resolve" ELSE "assess"]
  /\ UNCHANGED <<graphVars, mainVars, future, bound, registry>>

Begin(n) ==
  /\ queue # << >>
  /\ n = Head(queue)
  /\ Cardinality(Running) < Workers
  /\ queue' = Tail(queue)
  /\ pc' = [pc EXCEPT ![n] = IF nodes[n].deferred THEN "resolve" ELSE "assess"]
  /\ UNCHANGED <<graphVars, mainVars, future, bound, registry>>

Goto(n, from, to) ==
  /\ pc[n] = from
  /\ pc' = [pc EXCEPT ![n] = to]
  /\ UNCHANGED <<graphVars, mainVars, queue, future, bound, registry>>

Complete(n, report) ==
  /\ pc' = [pc EXCEPT ![n] = "finished"]
  /\ future' = [future EXCEPT ![n] = report]
  /\ UNCHANGED <<graphVars, mainVars, queue, bound, registry>>

\* A report eligible for publishing goes through _maybe_publish first.
Publishing(n, outcome) ==
  /\ pc' = [pc EXCEPT ![n] = IF Pubs(n) = << >> THEN "finished" ELSE "publish"]
  /\ future' = [future EXCEPT ![n] = Report(outcome, "")]
  /\ UNCHANGED <<graphVars, mainVars, queue, bound, registry>>

\* _resolve_deferred: the factory reads the registry.  A name is never
\* unbound, so the reads of one factory may be taken together.
Missing(n) == {v \in nodes[n].reads : registry[v] = Unbound}

ResolveMissing(n) ==
  /\ pc[n] = "resolve"
  /\ Missing(n) # {}
  /\ Complete(n, Report("FAILED_INVALID", "MISSING_VAR"))

\* VariableTypeError, any other exception, or a value that is no StateChanger.
ResolveFails(n) ==
  /\ pc[n] = "resolve"
  /\ Complete(n, Report("FAILED_INVALID", ""))

Resolve(n) ==
  /\ pc[n] = "resolve"
  /\ Missing(n) = {}
  /\ Goto(n, "resolve", "assess")

AssessReady(n) == Goto(n, "assess", "transition")

\* Mutant: a node that had nothing to do does not publish.
AssessAppliedNoPublish(n) ==
  /\ pc[n] = "assess"
  /\ Complete(n, Report("SKIPPED_ALREADY_APPLIED", ""))

AssessApplied(n) ==
  /\ pc[n] = "assess"
  /\ Publishing(n, "SKIPPED_ALREADY_APPLIED")

AssessInvalid(n) ==
  /\ pc[n] = "assess"
  /\ Complete(n, Report("FAILED_INVALID", ""))

TransitionSucceeds(n) == Goto(n, "transition", "verify")

TransitionFails(n) == Goto(n, "transition", "rollback")

TransitionSkips(n) ==
  /\ pc[n] = "transition"
  /\ Complete(n, Report("SKIPPED_BY_TRANSITION", ""))

VerifyApplied(n) ==
  /\ pc[n] = "verify"
  /\ Publishing(n, "SUCCESS")

\* POST_ASSESS_MISMATCH
VerifyMismatch(n) == Goto(n, "verify", "rollback")

\* _maybe_rollback: its result is reported and changes nothing else.
Rollback(n) ==
  /\ pc[n] = "rollback"
  /\ Complete(n, Report("FAILED_TRANSITION", ""))

\* Any call into a changer may raise; _run_node does not catch it.  A publish
\* callback that returns no mapping escapes the second try in the same way.
Raises(n) ==
  /\ pc[n] \in {"assess", "transition", "verify", "rollback", "publish"}
  /\ Complete(n, Raised)

PublishRaises(n) ==
  /\ pc[n] = "publish"
  /\ Complete(n, Report("FAILED_TRANSITION", ""))

PublishReturns(n) == Goto(n, "publish", "bind")

\* Mutant: bind overwrites.
BindOverwrites(n) ==
  LET v == Pubs(n)[bound[n] + 1]
  IN /\ pc[n] = "bind"
     /\ registry' = [registry EXCEPT ![v] = Binding(n, starts)]
     /\ bound' = [bound EXCEPT ![n] = @ + 1]
     /\ pc' = [pc EXCEPT ![n] =
                 IF bound[n] + 1 = Len(Pubs(n)) THEN "finished" ELSE "bind"]
     /\ UNCHANGED <<graphVars, mainVars, queue, future>>

\* Mutant: the loop over produced.items() binds the first name again.
BindFirstAgain(n) ==
  LET v == Pubs(n)[1]
  IN /\ pc[n] = "bind"
     /\ registry[v] = Unbound
     /\ registry' = [registry EXCEPT ![v] = Binding(n, starts)]
     /\ pc' = [pc EXCEPT ![n] = IF Len(Pubs(n)) = 1 THEN "finished" ELSE "bind"]
     /\ UNCHANGED <<graphVars, mainVars, queue, future, bound>>

\* One registry.bind(name, value), atomic under the registry's lock.
Bind(n) ==
  LET v == Pubs(n)[bound[n] + 1]
  IN /\ pc[n] = "bind"
     /\ registry[v] = Unbound
     /\ registry' = [registry EXCEPT ![v] = Binding(n, starts)]
     /\ bound' = [bound EXCEPT ![n] = @ + 1]
     /\ pc' = [pc EXCEPT ![n] =
                 IF bound[n] + 1 = Len(Pubs(n)) THEN "finished" ELSE "bind"]
     /\ UNCHANGED <<graphVars, mainVars, queue, future>>

\* DuplicateVariableError: what was bound before stays bound.
BindDuplicate(n) ==
  /\ pc[n] = "bind"
  /\ registry[Pubs(n)[bound[n] + 1]] # Unbound
  /\ Complete(n, Report("FAILED_TRANSITION", "PUBLISH_DUPLICATE"))

RunNode(n) ==
  \/ ResolveMissing(n) \/ ResolveFails(n) \/ Resolve(n)
  \/ AssessReady(n) \/ AssessApplied(n) \/ AssessInvalid(n)
  \/ TransitionSucceeds(n) \/ TransitionFails(n) \/ TransitionSkips(n)
  \/ VerifyApplied(n) \/ VerifyMismatch(n) \/ Rollback(n) \/ Raises(n)
  \/ PublishRaises(n) \/ PublishReturns(n) \/ Bind(n) \/ BindDuplicate(n)

WorkerStep(n) == Begin(n) \/ RunNode(n)

-----------------------------------------------------------------------------

Next ==
  \/ Add \/ AddDeferred \/ Start
  \/ MainStep
  \/ \E n \in NodeId : WorkerStep(n)

Spec == Init /\ [][Next]_vars

\* start() runs to its end and the pool serves its queue, provided that every
\* call into a changer returns (the engine itself sets no timeout on them).
\* Nothing obliges the user to add a node or to call start().
Fairness == WF_vars(MainStep) /\ \A n \in NodeId : WF_vars(WorkerStep(n))

FairSpec == Spec /\ Fairness

-----------------------------------------------------------------------------
(* Properties.                                                              *)

TypeOK ==
  /\ nodes \in Seq(ExecutionNode)
  /\ Len(nodes) <= MaxNodes
  /\ registry \in [Var -> [node : 0 .. MaxNodes, start : 0 .. MaxStarts]]
  /\ starts \in 0 .. MaxStarts
  /\ main \in Main
  /\ cursor \in 1 .. MaxNodes + 1
  /\ remaining \in [NodeId -> Nat]
  /\ outcomes \in [NodeId -> Outcome \cup {"NONE"}]
  /\ inFlight \in SUBSET NodeId
  /\ done \in SUBSET NodeId
  /\ edges \in SUBSET (NodeId \X (1 .. MaxDeps))
  /\ worklist \in SUBSET NodeId
  /\ ended \in {"none", "returned", "raised"}
  /\ queue \in Seq(NodeId)
  /\ pc \in [NodeId -> Worker]
  /\ future \in [NodeId -> Reports]
  /\ bound \in [NodeId -> Nat]

\* A node reaches the pool only after every one of its upstreams was absorbed
\* with an outcome that is no failure, whatever the interleaving of roots still
\* being submitted, workers finishing and duplicate entries in depends_on.
UpstreamsProceeded ==
  \A n \in NodeId :
    pc[n] # "idle" =>
      n \in Node /\ \A i \in DOMAIN Ups(n) : outcomes[Ups(n)[i]] \in Proceed

\* A node is BLOCKED only because of a failed or blocked direct upstream:
\* siblings of a failure are never cut off.
BlockedByFailure ==
  \A n \in Node :
    outcomes[n] = "BLOCKED" =>
      \E i \in DOMAIN Ups(n) : outcomes[Ups(n)[i]] \in Failure

\* When the loop of _drive_pool ends, every node has been accounted for (the
\* default report in start() is never used), and exactly the nodes below a
\* failure are BLOCKED.
EveryNodeSettled ==
  LoopExit =>
    \A n \in Node :
      /\ outcomes[n] # "NONE"
      /\ (\E i \in DOMAIN Ups(n) : outcomes[Ups(n)[i]] \in Failure)
           => outcomes[n] = "BLOCKED"

\* Once start() has returned or raised, no worker touches the system any more.
QuietAfterStart ==
  main = "idle" => queue = << >> /\ \A n \in NodeId : pc[n] \in {"idle", "finished"}

\* A node whose outcome is eligible for publishing owns every name it
\* publishes: the value its dependents read is its own and of this run, and two
\* nodes that publish the same name never both succeed.
PublishedByOwner ==
  \A n \in Node :
    outcomes[n] \in Eligible =>
      \A i \in DOMAIN Pubs(n) : registry[Pubs(n)[i]] = Binding(n, starts)

\* A deferred factory that requires only names its upstreams publish misses one
\* only when an upstream was SKIPPED_BY_TRANSITION: that outcome lets the
\* dependents run but publishes nothing.
MissingVarExplained ==
  \A n \in NodeId :
    future[n].code = "MISSING_VAR" =>
      \E v \in nodes[n].reads : \A i \in DOMAIN Ups(n) :
        (\E j \in DOMAIN Pubs(Ups(n)[i]) : Pubs(Ups(n)[i])[j] = v)
          => outcomes[Ups(n)[i]] = "SKIPPED_BY_TRANSITION"

\* A node fails with PUBLISH_DUPLICATE only because of another node, or of an
\* earlier start() on the same registry, never because of its own bindings.
DuplicateExplained ==
  \A n \in NodeId :
    future[n].code = "PUBLISH_DUPLICATE" =>
      \E i \in DOMAIN Pubs(n) :
        registry[Pubs(n)[i]] \notin {Unbound, Binding(n, starts)}

\* No step but a new start() changes an outcome that was recorded.
SettledOnce ==
  [][starts' = starts =>
       \A n \in NodeId : outcomes[n] # "NONE" => outcomes'[n] = outcomes[n]]_vars

\* In one run a node is handed to the pool at most once.
SubmittedOnce ==
  [][starts' = starts =>
       \A n \in NodeId : pc'[n] = "queued" /\ pc[n] # "queued" => pc[n] = "idle"]_vars

\* start() always comes to an end, by returning or by raising.
StartEnds == main = "submit" ~> main = "idle"

\* Everything submitted runs to its end, also after another node has raised.
SubmittedRuns ==
  \A n \in NodeId : pc[n] = "queued" ~> pc[n] = "finished"

-----------------------------------------------------------------------------
(* The refinement of DagRun.                                                *)

\* A raise counts as soon as the loop of _drive_pool is left.
RunPhase ==
  IF main = "drain" \/ ended = "raised" THEN "raised"
  ELSE IF main # "idle" THEN "running"
  ELSE IF ended = "returned" THEN "returned"
  ELSE "idle"

RunStatus(n) ==
  CASE outcomes[n] \in Proceed       -> "ok"
    [] outcomes[n] \in EngineFailure -> "failed"
    [] outcomes[n] = "BLOCKED"       -> "blocked"
    [] outcomes[n] = "NONE"          -> IF pc[n] = "idle" THEN "waiting" ELSE "submitted"

Run == INSTANCE DagRun WITH
         Node   <- NodeId,
         deps   <- [n \in Node |-> {Ups(n)[i] : i \in DOMAIN Ups(n)}],
         status <- [n \in NodeId |-> RunStatus(n)],
         phase  <- RunPhase

\* The engine implements DagRun: every step of a thread is a step of the
\* abstract run or invisible to it.
ImplementsDagRun == Run!Spec

\* ... and with the fairness of its threads it makes the progress DagRun does.
ImplementsFairDagRun == Run!FairSpec
=============================================================================
