------------------------------ MODULE HandleIds ------------------------------
(***************************************************************************)
(* How StateCtl recognises what it was given: add, add_deferred and         *)
(* _resolve_upstreams look objects up in _node_by_handle_id, a dictionary   *)
(* keyed by id(object).  An id is an address: it identifies an object only  *)
(* while the object lives.  A node keeps its changer alive; nothing in the  *)
(* engine keeps a DeferredHandle alive, the caller of add_deferred does.    *)
(* When the caller lets go of it, the memory may be given to the next       *)
(* object, whose id is then found in the dictionary.                        *)
(***************************************************************************)
EXTENDS Naturals, Sequences, FiniteSets

CONSTANTS
  Changer,     \* the StateChanger objects a program may create
  Handle,      \* the DeferredHandle objects add_deferred may create
  Addr,        \* the addresses the allocator may hand out
  MaxDeps      \* bound on the length of a depends_on list

ASSUME KindsAssumption == Changer \cap Handle = {}

ASSUME MaxDepsAssumption == MaxDeps \in Nat

Object == Changer \cup Handle

VARIABLES
  keeps,    \* does the program hold on to every handle it receives?
  created,  \* objects created so far; none is created twice
  held,     \* objects the program refers to
  addr,     \* the address of every object created, also after its death
  nodes,    \* self._nodes: the object a node was added for, its depends_on,
            \* and the positions of its upstreams
  nodeOf,   \* self._node_by_handle_id: position of a node, 0 if absent
  raised    \* what the last call raised, and for which object

vars == <<keeps, created, held, addr, nodes, nodeOf, raised>>

Added == {nodes[i].object : i \in DOMAIN nodes}

\* Mutant: the nodes do not keep their changers alive.
LiveHeldOnly == held

\* ExecutionNode._changer refers to the changer, nothing to the handle.
Live == held \cup (Added \cap Changer)

FreeAddr == Addr \ {addr[o] : o \in created \cap Live}

NoError == [error |-> "none", object |-> "none"]

Init ==
  /\ keeps \in BOOLEAN
  /\ created = {}
  /\ held = {}
  /\ addr = [o \in Object |-> 0]
  /\ nodes = << >>
  /\ nodeOf = [a \in Addr |-> 0]
  /\ raised = NoError

Create(o, a) ==
  /\ o \in Object \ created
  /\ a \in FreeAddr
  /\ created' = created \cup {o}
  /\ addr' = [addr EXCEPT ![o] = a]

NewChanger(o) ==
  /\ o \in Changer
  /\ \E a \in FreeAddr : Create(o, a)
  /\ held' = held \cup {o}
  /\ raised' = NoError
  /\ UNCHANGED <<keeps, nodes, nodeOf>>

Drop(o) ==
  /\ o \in held
  /\ o \in Handle => ~keeps
  /\ held' = held \ {o}
  /\ raised' = NoError
  /\ UNCHANGED <<keeps, created, addr, nodes, nodeOf>>

\* Mutant: a dependency that is not found is not refused.
KnownAlways(deps) == TRUE

\* _resolve_upstreams: every dependency is looked up by its id.
Known(deps)     == \A i \in DOMAIN deps : nodeOf[addr[deps[i]]] # 0
Upstreams(deps) == [i \in DOMAIN deps |-> nodeOf[addr[deps[i]]]]

NewNode(o, a, deps) ==
  /\ nodes' = Append(nodes, [object |-> o, dependsOn |-> deps,
                             upstreams |-> Upstreams(deps)])
  /\ nodeOf' = [nodeOf EXCEPT ![a] = Len(nodes) + 1]
  /\ raised' = NoError

Raise(error, o) ==
  /\ raised' = [error |-> error, object |-> o]
  /\ UNCHANGED <<nodes, nodeOf>>

DependsOn == UNION {[1 .. k -> held] : k \in 0 .. MaxDeps}

\* Mutant: add does not look for the id of the changer.
AddUnchecked(o, deps) ==
  /\ o \in held \cap Changer
  /\ IF Known(deps) THEN NewNode(o, addr[o], deps)
     ELSE Raise("UnknownDependencyError", o)
  /\ UNCHANGED <<keeps, created, held, addr>>

Add(o, deps) ==
  /\ o \in held \cap Changer
  /\ IF nodeOf[addr[o]] # 0 THEN Raise("DuplicateNodeError", o)
     ELSE IF Known(deps) THEN NewNode(o, addr[o], deps)
     ELSE Raise("UnknownDependencyError", o)
  /\ UNCHANGED <<keeps, created, held, addr>>

\* The handle is made first; when a dependency is unknown it dies unreturned.
\* Its own id is not looked up: whatever had that id before is overwritten.
AddDeferred(h, deps) ==
  /\ h \in Handle
  /\ deps # << >>
  /\ \E a \in FreeAddr :
       /\ Create(h, a)
       /\ IF Known(deps)
          THEN NewNode(h, a, deps) /\ held' = held \cup {h}
          ELSE Raise("UnknownDependencyError", h) /\ UNCHANGED held
  /\ UNCHANGED keeps

Next ==
  \/ \E o \in Object : NewChanger(o) \/ Drop(o)
  \/ \E o \in Object, deps \in DependsOn : Add(o, deps) \/ AddDeferred(o, deps)

Spec == Init /\ [][Next]_vars

-----------------------------------------------------------------------------
(* Properties.                                                              *)

TypeOK ==
  /\ keeps \in BOOLEAN
  /\ created \subseteq Object
  /\ held \subseteq created
  /\ addr \in [Object -> Addr \cup {0}]
  /\ nodes \in Seq([object : Object, dependsOn : Seq(Object), upstreams : Seq(Nat \ {0})])
  /\ nodeOf \in [Addr -> 0 .. Len(nodes)]
  /\ raised.error \in {"none", "DuplicateNodeError", "UnknownDependencyError"}

\* A node is never created for an object that has one, and the upstreams of a
\* node were added before it: the graph that start() walks has no cycle.
GraphAcyclic ==
  \A i \in DOMAIN nodes :
    /\ \A j \in DOMAIN nodes : nodes[i].object = nodes[j].object => i = j
    /\ \A k \in DOMAIN nodes[i].upstreams : nodes[i].upstreams[k] \in 1 .. i - 1

\* What is alive is found under its id: every changer that was added, and
\* every handle the program still holds.
LiveObjectsResolve ==
  \A i \in DOMAIN nodes :
    nodes[i].object \in Live => nodeOf[addr[nodes[i].object]] = i

\* The upstreams of a node are the nodes of exactly the objects its caller
\* named in depends_on; an object that "was not added" is refused.
DependenciesResolved ==
  \A i \in DOMAIN nodes :
    \A k \in DOMAIN nodes[i].dependsOn :
      nodes[nodes[i].upstreams[k]].object = nodes[i].dependsOn[k]

\* A program that keeps its handles gets the graph it describes, and is told
\* that a changer "was added more than once" only when it was.
KeptHandlesSuffice ==
  keeps =>
    /\ DependenciesResolved
    /\ raised.error = "DuplicateNodeError" => raised.object \in Added
=============================================================================
