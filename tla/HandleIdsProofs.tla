--------------------------- MODULE HandleIdsProofs ---------------------------
(***************************************************************************)
(* Proofs about HandleIds, for every number of objects and addresses: the   *)
(* graph has no cycle, what is alive is found, and a program that keeps its *)
(* handles gets the graph it describes.                                     *)
(***************************************************************************)
EXTENDS HandleIds, TLAPS

\* Two objects that live at the same time have different addresses.
AddrInv ==
  /\ \A o \in created : addr[o] \in Addr
  /\ \A o, p \in created \cap Live : addr[o] = addr[p] => o = p

\* An entry of the dictionary leads to an object that has, or had, that id.
TableInv ==
  /\ \A i \in DOMAIN nodes :
       /\ nodes[i].object \in created
       /\ DOMAIN nodes[i].upstreams = DOMAIN nodes[i].dependsOn
  /\ \A a \in Addr : nodeOf[a] # 0 => addr[nodes[nodeOf[a]].object] = a

\* With its handles kept, no object of the graph dies.
KeepInv == keeps => Added \subseteq Live

IInv == /\ TypeOK /\ AddrInv /\ TableInv /\ KeepInv
        /\ GraphAcyclic /\ LiveObjectsResolve /\ KeptHandlesSuffice

LEMMA InitIInv == Init => IInv
<1> SUFFICES ASSUME Init PROVE IInv
  OBVIOUS
<1> USE DEF Init, NoError
<1>1. DOMAIN nodes = {} /\ Len(nodes) = 0
  OBVIOUS
<1>2. TypeOK
  BY <1>1 DEF TypeOK
<1>3. Added = {}
  BY <1>1 DEF Added
<1> QED
  BY <1>1, <1>2, <1>3 DEF IInv, AddrInv, TableInv, KeepInv, GraphAcyclic,
     LiveObjectsResolve, KeptHandlesSuffice, DependenciesResolved

\* What a depends_on list holds, and where its objects were added.
LEMMA DependsOnSeq ==
  ASSUME IInv, NEW deps \in DependsOn
  PROVE  /\ deps \in Seq(Object)
         /\ \A k \in DOMAIN deps : deps[k] \in held /\ addr[deps[k]] \in Addr
         /\ Known(deps) =>
              /\ Upstreams(deps) \in Seq(Nat \ {0})
              /\ DOMAIN Upstreams(deps) = DOMAIN deps
              /\ \A k \in DOMAIN deps : Upstreams(deps)[k] \in 1 .. Len(nodes)
<1>1. PICK n \in 0 .. MaxDeps : deps \in [1 .. n -> held]
  BY DEF DependsOn
<1>2. n \in Nat
  BY MaxDepsAssumption
<1>3. held \subseteq Object
  BY DEF IInv, TypeOK
<1>4. deps \in Seq(Object)
  BY <1>1, <1>2, <1>3
<1>5. \A k \in DOMAIN deps : deps[k] \in held /\ addr[deps[k]] \in Addr
  BY <1>1 DEF IInv, TypeOK, AddrInv
<1>6. ASSUME Known(deps)
      PROVE  /\ Upstreams(deps) \in Seq(Nat \ {0})
             /\ DOMAIN Upstreams(deps) = DOMAIN deps
             /\ \A k \in DOMAIN deps : Upstreams(deps)[k] \in 1 .. Len(nodes)
  <2>1. \A k \in DOMAIN deps : nodeOf[addr[deps[k]]] \in 1 .. Len(nodes)
    <3>1. Len(nodes) \in Nat
      BY DEF IInv, TypeOK
    <3> QED
      BY <1>5, <1>6, <3>1 DEF Known, IInv, TypeOK
  <2>2. Upstreams(deps) = [k \in 1 .. n |-> nodeOf[addr[deps[k]]]]
    BY <1>1 DEF Upstreams
  <2>3. DOMAIN deps = 1 .. n
    BY <1>1
  <2>4. \A k \in 1 .. n : nodeOf[addr[deps[k]]] \in Nat \ {0}
    BY <2>1, <2>3
  <2>5. Upstreams(deps) \in Seq(Nat \ {0})
    BY <1>2, <2>2, <2>4
  <2> QED
    BY <2>1, <2>2, <2>3, <2>5
<1> QED
  BY <1>4, <1>5, <1>6

\* An object that lives and has the id of a node whose object lives is the
\* object of that node.
LEMMA Found ==
  ASSUME IInv, NEW o \in held, nodeOf[addr[o]] # 0, keeps
  PROVE  nodes[nodeOf[addr[o]]].object = o
<1> DEFINE i == nodeOf[addr[o]]
<1>1. o \in created /\ o \in Live /\ addr[o] \in Addr
  BY DEF IInv, TypeOK, AddrInv, Live
<1>2. i \in DOMAIN nodes
  <2>1. Len(nodes) \in Nat /\ DOMAIN nodes = 1 .. Len(nodes) /\ i \in 0 .. Len(nodes)
    BY <1>1 DEF IInv, TypeOK
  <2> QED
    BY <2>1
<1>3. nodes[i].object \in created \cap Live
  BY <1>2 DEF IInv, TableInv, KeepInv, Added
<1>4. addr[nodes[i].object] = addr[o]
  BY <1>1 DEF IInv, TableInv
<1> QED
  BY <1>1, <1>3, <1>4 DEF IInv, AddrInv

\* A node is created for an object x that lives at address a: the object was
\* not added before and no other object that lives has that address.
LEMMA NewNodeIInv ==
  ASSUME IInv, NEW x \in Object, NEW a \in Addr, NEW deps \in DependsOn,
         Known(deps), NewNode(x, a, deps),
         keeps' = keeps, x \in created', x \in held', held' = held \cup {x},
         created' = created \cup {x}, addr' \in [Object -> Addr \cup {0}],
         addr'[x] = a, \A o \in created : addr'[o] = addr[o],
         x \notin Added,
         \A o \in created \cap Live : addr[o] = a => o = x
  PROVE  IInv'
<1> DEFINE new == [object |-> x, dependsOn |-> deps, upstreams |-> Upstreams(deps)]
           n   == Len(nodes)
<1>1. /\ deps \in Seq(Object)
      /\ Upstreams(deps) \in Seq(Nat \ {0})
      /\ DOMAIN Upstreams(deps) = DOMAIN deps
      /\ \A k \in DOMAIN deps : deps[k] \in held /\ Upstreams(deps)[k] \in 1 .. n
  BY DependsOnSeq
<1>2. new \in [object : Object, dependsOn : Seq(Object), upstreams : Seq(Nat \ {0})]
  BY <1>1
<1>3. /\ n \in Nat /\ DOMAIN nodes = 1 .. n
      /\ nodes' = Append(nodes, new)
      /\ DOMAIN nodes' = 1 .. n + 1 /\ Len(nodes') = n + 1
      /\ \A i \in 1 .. n : nodes'[i] = nodes[i]
      /\ nodes'[n + 1] = new
  <2>1. nodes \in Seq([object : Object, dependsOn : Seq(Object), upstreams : Seq(Nat \ {0})])
    BY DEF IInv, TypeOK
  <2>2. nodes' = Append(nodes, new)
    BY DEF NewNode
  <2> HIDE DEF new
  <2> QED
    BY <1>2, <2>1, <2>2
<1>4. /\ nodeOf' \in [Addr -> 0 .. n + 1]
      /\ nodeOf'[a] = n + 1
      /\ \A b \in Addr \ {a} : nodeOf'[b] = nodeOf[b]
  BY <1>3 DEF NewNode, IInv, TypeOK
<1>5. raised' = NoError
  BY DEF NewNode
<1>6. TypeOK'
  <2>1. nodes' \in Seq([object : Object, dependsOn : Seq(Object), upstreams : Seq(Nat \ {0})])
    <3> HIDE DEF new
    <3> QED
      BY <1>2, <1>3 DEF IInv, TypeOK
  <2>2. created' \subseteq Object /\ held' \subseteq created' /\ keeps' \in BOOLEAN
    BY DEF IInv, TypeOK
  <2>3. raised'.error = "none"
    BY <1>5 DEF NoError
  <2> QED
    BY <1>3, <1>4, <2>1, <2>2, <2>3 DEF TypeOK
<1>7. new.object = x /\ new.dependsOn = deps /\ new.upstreams = Upstreams(deps)
  OBVIOUS
<1> HIDE DEF new
<1>8. Added' = Added \cup {x}
  <2>1. ASSUME NEW o \in Added' PROVE o \in Added \cup {x}
    <3>1. PICK i \in 1 .. n + 1 : o = nodes'[i].object
      BY <1>3 DEF Added
    <3> QED
      BY <1>3, <1>7, <3>1 DEF Added
  <2>2. ASSUME NEW o \in Added PROVE o \in Added'
    <3>1. PICK i \in 1 .. n : o = nodes[i].object
      BY <1>3 DEF Added
    <3>2. i \in 1 .. n + 1 /\ nodes'[i].object = o
      BY <1>3, <3>1
    <3> QED
      BY <1>3, <3>2 DEF Added
  <2>3. n + 1 \in DOMAIN nodes' /\ nodes'[n + 1].object = x
    BY <1>3, <1>7
  <2>4. x \in Added'
    BY <2>3 DEF Added
  <2> QED
    BY <2>1, <2>2, <2>4
<1>9. Live' = Live \cup {x}
  BY <1>8 DEF Live
<1>10. AddrInv'
  BY <1>9 DEF AddrInv, IInv
<1>11. TableInv'
  <2>1. ASSUME NEW i \in 1 .. n + 1
        PROVE  /\ nodes'[i].object \in created'
               /\ DOMAIN nodes'[i].upstreams = DOMAIN nodes'[i].dependsOn
    <3>1. CASE i = n + 1
      BY <1>1, <1>3, <1>7, <3>1
    <3>2. CASE i \in 1 .. n
      BY <1>3, <3>2 DEF IInv, TableInv
    <3> QED
      BY <1>3, <3>1, <3>2
  <2>2. ASSUME NEW b \in Addr, nodeOf'[b] # 0
        PROVE  addr'[nodes'[nodeOf'[b]].object] = b
    <3>1. CASE b = a
      BY <1>3, <1>4, <1>7, <3>1
    <3>2. CASE b # a
      <4>1. nodeOf'[b] = nodeOf[b] /\ nodeOf[b] \in 1 .. n
        BY <1>3, <1>4, <2>2, <3>2 DEF IInv, TypeOK
      <4> QED
        BY <1>3, <4>1 DEF IInv, TableInv
    <3> QED
      BY <3>1, <3>2
  <2> QED
    BY <1>3, <2>1, <2>2 DEF TableInv
<1>12. KeepInv'
  BY <1>8, <1>9 DEF KeepInv, IInv
<1>13. GraphAcyclic'
  <2>1. \A i \in 1 .. n : nodes[i].object # x
    BY <1>3 DEF Added
  <2>2. ASSUME NEW i \in 1 .. n + 1, NEW j \in 1 .. n + 1,
               nodes'[i].object = nodes'[j].object
        PROVE  i = j
    <3>1. i \in 1 .. n \/ i = n + 1
      BY <1>3
    <3>2. j \in 1 .. n \/ j = n + 1
      BY <1>3
    <3> QED
      BY <1>3, <1>7, <2>1, <2>2, <3>1, <3>2 DEF IInv, GraphAcyclic
  <2>3. ASSUME NEW i \in 1 .. n + 1, NEW k \in DOMAIN nodes'[i].upstreams
        PROVE  nodes'[i].upstreams[k] \in 1 .. i - 1
    <3>1. CASE i \in 1 .. n
      BY <1>3, <2>3, <3>1 DEF IInv, GraphAcyclic
    <3>2. CASE i = n + 1
      BY <1>1, <1>3, <1>7, <2>3, <3>2
    <3> QED
      BY <1>3, <3>1, <3>2
  <2> QED
    BY <1>3, <2>2, <2>3 DEF GraphAcyclic
<1>14. LiveObjectsResolve'
  <2>1. ASSUME NEW i \in 1 .. n + 1, nodes'[i].object \in Live'
        PROVE  nodeOf'[addr'[nodes'[i].object]] = i
    <3>1. CASE i = n + 1
      BY <1>3, <1>4, <1>7, <3>1
    <3>2. CASE i \in 1 .. n
      <4> DEFINE o == nodes[i].object
      <4>1. nodes'[i].object = o /\ o \in created /\ o # x /\ o \in Live
        BY <1>3, <1>9, <2>1, <3>2 DEF IInv, TableInv, Added
      <4>2. nodeOf[addr[o]] = i /\ addr'[o] = addr[o]
        BY <1>3, <3>2, <4>1 DEF IInv, LiveObjectsResolve
      <4>3. addr[o] \in Addr \ {a}
        BY <4>1 DEF IInv, AddrInv
      <4> QED
        BY <1>4, <4>1, <4>2, <4>3
    <3> QED
      BY <1>3, <3>1, <3>2
  <2> QED
    BY <1>3, <2>1 DEF LiveObjectsResolve
<1>15. KeptHandlesSuffice'
  <2> SUFFICES ASSUME keeps PROVE DependenciesResolved'
    BY <1>5 DEF KeptHandlesSuffice, NoError
  <2>1. ASSUME NEW i \in 1 .. n + 1, NEW k \in DOMAIN nodes'[i].dependsOn
        PROVE  nodes'[nodes'[i].upstreams[k]].object = nodes'[i].dependsOn[k]
    <3>1. CASE i = n + 1
      <4>1. k \in DOMAIN deps /\ deps[k] \in held /\ Upstreams(deps)[k] \in 1 .. n
        BY <1>1, <1>3, <1>7, <2>1, <3>1
      <4>2. Upstreams(deps)[k] = nodeOf[addr[deps[k]]] /\ nodeOf[addr[deps[k]]] # 0
        BY <4>1 DEF Upstreams, Known
      <4>3. nodes[Upstreams(deps)[k]].object = deps[k]
        BY <4>1, <4>2, Found
      <4> QED
        BY <1>3, <1>7, <3>1, <4>1, <4>3
    <3>2. CASE i \in 1 .. n
      <4>1. k \in DOMAIN nodes[i].dependsOn
        BY <1>3, <2>1, <3>2
      <4>2. nodes[nodes[i].upstreams[k]].object = nodes[i].dependsOn[k]
        BY <1>3, <3>2, <4>1 DEF IInv, KeptHandlesSuffice, DependenciesResolved
      <4>3. k \in DOMAIN nodes[i].upstreams
        BY <1>3, <3>2, <4>1 DEF IInv, TableInv
      <4>4. nodes[i].upstreams[k] \in 1 .. i - 1 /\ i - 1 \in 0 .. n - 1
        BY <1>3, <3>2, <4>3 DEF IInv, GraphAcyclic
      <4>5. nodes[i].upstreams[k] \in 1 .. n
        BY <1>3, <4>4
      <4> QED
        BY <1>3, <3>2, <4>2, <4>5
    <3>3. i = n + 1 \/ i \in 1 .. n
      BY <1>3
    <3> QED
      BY <3>1, <3>2, <3>3
  <2> QED
    BY <1>3, <2>1 DEF DependenciesResolved
<1> QED
  BY <1>6, <1>10, <1>11, <1>12, <1>13, <1>14, <1>15 DEF IInv

-----------------------------------------------------------------------------
(* One lemma per action.                                                    *)

LEMMA NewChangerIInv ==
  ASSUME IInv, NEW o \in Object, NewChanger(o)
  PROVE  IInv'
<1>1. PICK a \in FreeAddr : Create(o, a)
  BY DEF NewChanger
<1>2. /\ a \in Addr /\ o \notin created
      /\ held' = held \cup {o} /\ created' = created \cup {o}
      /\ addr' = [addr EXCEPT ![o] = a]
      /\ raised' = NoError
      /\ UNCHANGED <<keeps, nodes, nodeOf>>
      /\ \A p \in created \cap Live : addr[p] # a
  BY <1>1 DEF NewChanger, Create, FreeAddr
<1>3. addr' \in [Object -> Addr \cup {0}] /\ addr'[o] = a
  BY <1>2 DEF IInv, TypeOK
<1>4. \A p \in created : addr'[p] = addr[p] /\ p # o
  BY <1>2 DEF IInv, TypeOK
<1>5. Added' = Added /\ Live' = Live \cup {o} /\ o \notin Added
  BY <1>2 DEF Added, Live, IInv, TableInv
<1>6. TypeOK'
  BY <1>2, <1>3 DEF IInv, TypeOK, NoError
<1>7. AddrInv'
  BY <1>2, <1>3, <1>4, <1>5 DEF IInv, AddrInv
<1>8. TableInv'
  <2>1. \A b \in Addr : nodeOf[b] # 0 => nodeOf[b] \in DOMAIN nodes
    BY DEF IInv, TypeOK
  <2> QED
    BY <1>2, <1>4, <2>1 DEF IInv, TableInv
<1>9. KeepInv' /\ GraphAcyclic'
  BY <1>2, <1>5 DEF IInv, KeepInv, GraphAcyclic
<1>10. LiveObjectsResolve'
  BY <1>2, <1>4, <1>5 DEF IInv, LiveObjectsResolve, TableInv, Added
<1>11. KeptHandlesSuffice'
  BY <1>2, <1>5 DEF IInv, KeptHandlesSuffice, DependenciesResolved, NoError
<1> QED
  BY <1>6, <1>7, <1>8, <1>9, <1>10, <1>11 DEF IInv

LEMMA DropIInv ==
  ASSUME IInv, NEW o \in Object, Drop(o)
  PROVE  IInv'
<1>1. /\ o \in held /\ held' = held \ {o} /\ raised' = NoError
      /\ o \in Handle => ~keeps
      /\ UNCHANGED <<keeps, created, addr, nodes, nodeOf>>
  BY DEF Drop
<1>2. Added' = Added /\ Live' \subseteq Live
  BY <1>1 DEF Added, Live
<1>3. TypeOK' /\ AddrInv' /\ TableInv' /\ GraphAcyclic'
  BY <1>1, <1>2 DEF IInv, TypeOK, AddrInv, TableInv, GraphAcyclic, NoError
<1>4. LiveObjectsResolve'
  BY <1>1, <1>2 DEF IInv, LiveObjectsResolve
<1>5. KeepInv'
  <2>1. ASSUME keeps, NEW p \in Added PROVE p \in Live'
    <3>1. p \in Live /\ o \in Object /\ o \notin Handle
      BY <1>1, <2>1 DEF IInv, KeepInv
    <3>2. p = o => p \in Changer
      BY <3>1 DEF Object
    <3> QED
      BY <1>1, <1>2, <3>1, <3>2 DEF Live
  <2> QED
    BY <1>1, <1>2, <2>1 DEF KeepInv
<1>6. KeptHandlesSuffice'
  BY <1>1, <1>2 DEF IInv, KeptHandlesSuffice, DependenciesResolved, NoError
<1> QED
  BY <1>3, <1>4, <1>5, <1>6 DEF IInv

LEMMA AddIInv ==
  ASSUME IInv, NEW o \in Object, NEW deps \in DependsOn, Add(o, deps)
  PROVE  IInv'
<1>1. o \in held \cap Changer /\ UNCHANGED <<keeps, created, held, addr>>
  BY DEF Add
<1>2. o \in created /\ o \in Live /\ addr[o] \in Addr
  BY <1>1 DEF IInv, TypeOK, AddrInv, Live
<1>3. CASE nodeOf[addr[o]] # 0 /\ Raise("DuplicateNodeError", o)
  <2>1. UNCHANGED <<nodes, nodeOf>> /\ raised' = [error |-> "DuplicateNodeError", object |-> o]
    BY <1>3 DEF Raise
  <2>2. Added' = Added /\ Live' = Live
    BY <1>1, <2>1 DEF Added, Live
  <2>3. keeps => o \in Added
    <3>1. nodeOf[addr[o]] \in DOMAIN nodes
      BY <1>2, <1>3 DEF IInv, TypeOK
    <3> QED
      BY <1>1, <1>3, <3>1, Found DEF Added
  <2>4. TypeOK'
    BY <1>1, <2>1 DEF IInv, TypeOK
  <2>5. AddrInv' /\ TableInv' /\ KeepInv' /\ GraphAcyclic' /\ LiveObjectsResolve'
    BY <1>1, <2>1, <2>2 DEF IInv, AddrInv, TableInv, KeepInv, GraphAcyclic, LiveObjectsResolve
  <2>6. KeptHandlesSuffice'
    BY <1>1, <2>1, <2>2, <2>3 DEF IInv, KeptHandlesSuffice, DependenciesResolved
  <2> QED
    BY <2>4, <2>5, <2>6 DEF IInv
<1>4. CASE Raise("UnknownDependencyError", o)
  <2>1. UNCHANGED <<nodes, nodeOf>> /\ raised' = [error |-> "UnknownDependencyError", object |-> o]
    BY <1>4 DEF Raise
  <2>2. Added' = Added /\ Live' = Live
    BY <1>1, <2>1 DEF Added, Live
  <2>3. TypeOK'
    BY <1>1, <2>1 DEF IInv, TypeOK
  <2>4. AddrInv' /\ TableInv' /\ KeepInv' /\ GraphAcyclic' /\ LiveObjectsResolve'
    BY <1>1, <2>1, <2>2 DEF IInv, AddrInv, TableInv, KeepInv, GraphAcyclic, LiveObjectsResolve
  <2>5. KeptHandlesSuffice'
    BY <1>1, <2>1, <2>2 DEF IInv, KeptHandlesSuffice, DependenciesResolved
  <2> QED
    BY <2>3, <2>4, <2>5 DEF IInv
<1>5. CASE nodeOf[addr[o]] = 0 /\ Known(deps) /\ NewNode(o, addr[o], deps)
  <2>1. o \notin Added
    <3> SUFFICES ASSUME NEW i \in DOMAIN nodes, nodes[i].object = o PROVE FALSE
      BY DEF Added
    <3>1. nodeOf[addr[o]] = i
      BY <1>2 DEF IInv, LiveObjectsResolve
    <3>2. i # 0
      BY DEF IInv, TypeOK
    <3> QED
      BY <1>5, <3>1, <3>2
  <2>2. \A p \in created \cap Live : addr[p] = addr[o] => p = o
    BY <1>2 DEF IInv, AddrInv
  <2>3. addr' \in [Object -> Addr \cup {0}]
    BY <1>1 DEF IInv, TypeOK
  <2> QED
    BY <1>1, <1>2, <1>5, <2>1, <2>2, <2>3, NewNodeIInv
<1> QED
  BY <1>3, <1>4, <1>5 DEF Add

LEMMA AddDeferredIInv ==
  ASSUME IInv, NEW h \in Object, NEW deps \in DependsOn, AddDeferred(h, deps)
  PROVE  IInv'
<1>1. PICK a \in FreeAddr :
        /\ Create(h, a)
        /\ IF Known(deps)
           THEN NewNode(h, a, deps) /\ held' = held \cup {h}
           ELSE Raise("UnknownDependencyError", h) /\ UNCHANGED held
  BY DEF AddDeferred
<1>2. /\ a \in Addr /\ h \notin created /\ keeps' = keeps
      /\ created' = created \cup {h}
      /\ addr' = [addr EXCEPT ![h] = a]
      /\ \A p \in created \cap Live : addr[p] # a
  BY <1>1 DEF AddDeferred, Create, FreeAddr
<1>3. addr' \in [Object -> Addr \cup {0}] /\ addr'[h] = a
  BY <1>2 DEF IInv, TypeOK
<1>4. \A p \in created : addr'[p] = addr[p] /\ p # h
  BY <1>2 DEF IInv, TypeOK
<1>5. h \notin Added /\ h \notin held
  BY <1>2 DEF Added, IInv, TableInv, TypeOK
<1>6. CASE Known(deps)
  BY <1>1, <1>2, <1>3, <1>4, <1>5, <1>6, NewNodeIInv
<1>7. CASE ~Known(deps)
  <2>1. /\ UNCHANGED <<nodes, nodeOf, held>>
        /\ raised' = [error |-> "UnknownDependencyError", object |-> h]
    BY <1>1, <1>7 DEF Raise
  <2>2. Added' = Added /\ Live' = Live /\ h \notin Live
    BY <1>5, <2>1 DEF Added, Live
  <2>3. TypeOK'
    BY <1>2, <1>3, <2>1 DEF IInv, TypeOK
  <2>4. AddrInv' /\ KeepInv' /\ GraphAcyclic'
    BY <1>2, <1>3, <1>4, <2>1, <2>2 DEF IInv, AddrInv, KeepInv, GraphAcyclic
  <2>5. TableInv'
    <3>1. \A b \in Addr : nodeOf[b] # 0 => nodeOf[b] \in DOMAIN nodes
      BY DEF IInv, TypeOK
    <3> QED
      BY <1>2, <1>4, <2>1, <3>1 DEF IInv, TableInv
  <2>6. LiveObjectsResolve'
    BY <1>4, <2>1, <2>2 DEF IInv, LiveObjectsResolve, TableInv
  <2>7. KeptHandlesSuffice'
    BY <1>2, <2>1, <2>2 DEF IInv, KeptHandlesSuffice, DependenciesResolved
  <2> QED
    BY <2>3, <2>4, <2>5, <2>6, <2>7 DEF IInv
<1> QED
  BY <1>6, <1>7

LEMMA StutterIInv ==
  ASSUME IInv, UNCHANGED vars
  PROVE  IInv'
<1>1. UNCHANGED <<keeps, created, held, addr, nodes, nodeOf, raised>>
  BY DEF vars
<1>2. Added' = Added /\ Live' = Live
  BY <1>1 DEF Added, Live
<1>3. TypeOK'
  BY <1>1 DEF IInv, TypeOK
<1>4. AddrInv' /\ TableInv' /\ KeepInv' /\ GraphAcyclic' /\ LiveObjectsResolve'
  BY <1>1, <1>2 DEF IInv, AddrInv, TableInv, KeepInv, GraphAcyclic, LiveObjectsResolve
<1>5. KeptHandlesSuffice'
  BY <1>1, <1>2 DEF IInv, KeptHandlesSuffice, DependenciesResolved
<1> QED
  BY <1>3, <1>4, <1>5 DEF IInv

\* The invariant is inductive.
THEOREM Invariant == Spec => []IInv
<1>1. ASSUME IInv, Next PROVE IInv'
  BY <1>1, NewChangerIInv, DropIInv, AddIInv, AddDeferredIInv DEF Next
<1>2. IInv /\ [Next]_vars => IInv'
  BY <1>1, StutterIInv
<1> QED
  BY InitIInv, <1>2, PTL DEF Spec

\* Every variable has its type, whatever objects and addresses there are.
THEOREM TypeCorrect == Spec => []TypeOK
<1>1. IInv => TypeOK
  BY DEF IInv
<1> QED
  BY Invariant, <1>1, PTL

\* add and add_deferred build a graph without cycles and with one node per
\* object, however the program creates, drops and re-creates objects.
THEOREM Acyclic == Spec => []GraphAcyclic
<1>1. IInv => GraphAcyclic
  BY DEF IInv
<1> QED
  BY Invariant, <1>1, PTL

\* _node_by_handle_id finds the node of every changer that was added and of
\* every handle the program still holds, although dead handles leave entries.
THEOREM LiveFound == Spec => []LiveObjectsResolve
<1>1. IInv => LiveObjectsResolve
  BY DEF IInv
<1> QED
  BY Invariant, <1>1, PTL

\* A program that keeps every handle gets exactly the edges of its depends_on
\* lists, and no DuplicateNodeError for an object it did not add before.
THEOREM KeepingSuffices == Spec => []KeptHandlesSuffice
<1>1. IInv => KeptHandlesSuffice
  BY DEF IInv
<1> QED
  BY Invariant, <1>1, PTL
=============================================================================
