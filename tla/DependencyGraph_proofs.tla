------------------------ MODULE DependencyGraph_proofs ------------------------
(***************************************************************************)
(* The answer of BuildGraph is right for every list of nodes.              *)
(*                                                                         *)
(* While the nodes are entered, the map holds exactly the nodes before i   *)
(* (Built).  While the entries are read, the edges are the entries read    *)
(* and an in-degree counts those of a node (EdgesInv).  In the visit, the  *)
(* count of a node is the number of its entries that are still pending, a  *)
(* node that is queued or visited has none, and no set of nodes that each  *)
(* depend on a node of the set contains a visited one (VisitInv): a cycle  *)
(* is never entered, and what is never entered is one.                     *)
(***************************************************************************)
EXTENDS DependencyGraph, FiniteSetTheorems, TLAPS

Done == 1 .. (i - 1)

\* The map of the nodes is the part of the list before i.
Built ==
    /\ \A j, k \in Done : input[j].id = input[k].id => j = k
    /\ Node = {input[k].id : k \in Done}
    /\ \A k \in Done : graph[input[k].id] = input[k].deps
    /\ pc \notin {"nodes", "duplicate"} => i = Len(input) + 1
    /\ pc = "duplicate" => i \in DOMAIN input /\ input[i].id \in Node

Types ==
    /\ input \in Seq(NodeType) /\ i \in 1 .. Len(input) + 1
    /\ pc \in {"nodes", "edges", "visit"} \cup Outcomes
    /\ Node \subseteq Id /\ graph \in [Node -> Seq(Id)]

BuiltInv == Types /\ Built

LEMMA BuiltInvariant == Spec => []BuiltInv
<1>1. Init => BuiltInv
  <2> SUFFICES ASSUME Init PROVE BuiltInv
    OBVIOUS
  <2>1. input \in Seq(NodeType) /\ Len(input) \in Nat
    BY DependencyGraphAssumption DEF Init
  <2>2. Node = {} /\ Done = {}
    BY DEF Init, Node, Empty, Done
  <2>3. Types
    BY <2>1, <2>2 DEF Init, Types, Node, Empty
  <2>4. Built
    BY <2>2 DEF Init, Built
  <2> QED
    BY <2>3, <2>4 DEF BuiltInv
<1>2. BuiltInv /\ [Next]_vars => BuiltInv'
  <2> SUFFICES ASSUME BuiltInv, [Next]_vars PROVE BuiltInv'
    OBVIOUS
  <2> USE DEF BuiltInv, Types
  <2>1. CASE AddNode /\ input[i].id \in Node
    <3>1. /\ pc' = "duplicate" /\ UNCHANGED <<input, i, graph>>
          /\ i \in DOMAIN input
      BY <2>1 DEF AddNode
    <3> QED
      BY <3>1, <2>1 DEF Built, Done, Node, Outcomes
  <2>2. CASE AddNode /\ input[i].id \notin Node
    <3> DEFINE n == input[i]
    <3>1. /\ i \in DOMAIN input /\ n \in NodeType
          /\ i' = i + 1 /\ pc' = pc /\ pc = "nodes" /\ input' = input
          /\ graph' = Put(graph, n.id, n.deps)
      BY <2>2 DEF AddNode
    <3>2. n.id \in Id /\ n.deps \in Seq(Id)
      BY <3>1 DEF NodeType
    <3>3. Node' = Node \cup {n.id}
      BY <3>1 DEF Put, Node
    <3>4. \A v \in Node' : graph'[v] = IF v = n.id THEN n.deps ELSE graph[v]
      BY <3>1, <3>3 DEF Put, Node
    <3>5. graph' \in [Node' -> Seq(Id)]
      BY <3>1, <3>2, <3>3 DEF Put, Node
    <3>6. Done' = Done \cup {i} /\ i \notin Done
      BY <3>1 DEF Done
    <3>7. \A k \in Done : input[k].id \in Node /\ input[k].id # n.id
      BY <2>2 DEF Built
    <3>8. Types'
      BY <3>1, <3>2, <3>3, <3>5
    <3>9. \A j, k \in Done' : input'[j].id = input'[k].id => j = k
      BY <3>1, <3>6, <3>7 DEF Built
    <3>10. Node' = {input'[k].id : k \in Done'}
      BY <3>1, <3>3, <3>6 DEF Built
    <3>11. \A k \in Done' : graph'[input'[k].id] = input'[k].deps
      BY <3>1, <3>3, <3>4, <3>6, <3>7 DEF Built
    <3> QED
      BY <3>1, <3>8, <3>9, <3>10, <3>11 DEF Built
  <2>3. CASE NodesAdded
    <3>1. i = Len(input) + 1
      BY <2>3 DEF NodesAdded
    <3> QED
      BY <2>3, <3>1 DEF NodesAdded, Built, Done, Node
  <2>4. ASSUME NEW e \in unread, AddEdge(e) PROVE BuiltInv'
    BY <2>4 DEF AddEdge, Built, Done, Node, Outcomes
  <2>5. CASE Seed
    BY <2>5 DEF Seed, Built, Done, Node
  <2>6. ASSUME NEW u \in queue, Pop(u) PROVE BuiltInv'
    BY <2>6 DEF Pop, Built, Done, Node
  <2>7. ASSUME NEW e \in todo, Decrement(e) PROVE BuiltInv'
    BY <2>7 DEF Decrement, Built, Done, Node
  <2>8. CASE Decide
    BY <2>8 DEF Decide, Built, Done, Node, Outcomes
  <2>9. CASE UNCHANGED vars
    BY <2>9 DEF vars, Built, Done, Node
  <2> QED
    BY <2>1, <2>2, <2>3, <2>4, <2>5, <2>6, <2>7, <2>8, <2>9 DEF Next
<1> QED
  BY <1>1, <1>2, PTL DEF Spec

-----------------------------------------------------------------------------
Read(v) == {k \in DOMAIN graph[v] : <<v, k>> \notin unread}

EdgesTyped ==
    /\ unread \subseteq Entries
    /\ edges \in [Node -> SUBSET Entries] /\ inDegree \in [Node -> Nat]

\* The edges are the entries read so far, an in-degree is their number.
EdgesRead ==
    /\ \A v \in Node : edges[v] = {e \in Entries \ unread : Names(e) = v}
    /\ \A v \in Node : inDegree[v] = Cardinality(Read(v))
    /\ \A e \in Entries \ unread : Names(e) \in Node

NoEdges == unread = {} /\ \A v \in Node : edges[v] = {} /\ inDegree[v] = 0

EdgesInv ==
    /\ EdgesTyped
    /\ pc = "nodes" => NoEdges
    /\ pc \in {"edges", "visit", "ok", "cycle"} => EdgesRead
    /\ pc \in {"visit", "ok", "cycle"} => unread = {}
    /\ pc = "unknown" => \E e \in Entries : Names(e) \notin Node

\* The positions of a node's dependencies are finitely many, and so is every
\* part of them.
LEMMA PositionsFinite ==
    ASSUME Types, NEW v \in Node, NEW S, S \subseteq DOMAIN graph[v]
    PROVE  IsFiniteSet(S) /\ Cardinality(S) \in Nat
<1>1. graph[v] \in Seq(Id)
  BY DEF Types
<1>2. DOMAIN graph[v] = 1 .. Len(graph[v]) /\ Len(graph[v]) \in Nat
  BY <1>1
<1>3. IsFiniteSet(DOMAIN graph[v])
  BY <1>2, FS_Interval
<1>4. IsFiniteSet(S)
  BY <1>3, FS_Subset
<1> QED
  BY <1>4, FS_CardinalityType

LEMMA EntriesFact ==
    \A v, k : <<v, k>> \in Entries <=> v \in Node /\ k \in DOMAIN graph[v]
BY DEF Entries

LEMMA EntryParts ==
    ASSUME NEW e \in Entries
    PROVE  e = <<e[1], e[2]>> /\ e[1] \in Node /\ e[2] \in DOMAIN graph[e[1]]
BY DEF Entries

LEMMA EdgesInvariant == Spec => []EdgesInv
<1>1. Init => EdgesInv
  BY DEF Init, EdgesInv, EdgesTyped, NoEdges, Node, Empty, Outcomes
<1>2. BuiltInv /\ EdgesInv /\ [Next]_vars => EdgesInv'
  <2> SUFFICES ASSUME BuiltInv, EdgesInv, [Next]_vars PROVE EdgesInv'
    OBVIOUS
  <2>0. Types /\ Built
    BY DEF BuiltInv
  <2>1. CASE AddNode
    <3>1. CASE input[i].id \in Node
      BY <2>1, <3>1 DEF AddNode, EdgesInv, EdgesTyped, Node, Entries
    <3>2. CASE input[i].id \notin Node
      <4> DEFINE n == input[i].id
      <4>1. /\ pc = "nodes" /\ pc' = "nodes" /\ unread' = unread
            /\ graph' = Put(graph, n, input[i].deps)
            /\ inDegree' = Put(inDegree, n, 0)
            /\ edges' = Put(edges, n, {})
        BY <2>1, <3>2 DEF AddNode
      <4>2. NoEdges /\ EdgesTyped
        BY <4>1 DEF EdgesInv
      <4>3. Node' = Node \cup {n}
        BY <4>1 DEF Put, Node
      <4>4. DOMAIN edges = Node /\ DOMAIN inDegree = Node
        BY <4>2 DEF EdgesTyped
      <4>5. \A v \in Node' : edges'[v] = {} /\ inDegree'[v] = 0
        BY <4>1, <4>2, <4>3, <4>4 DEF Put, NoEdges
      <4>6. edges' \in [Node' -> SUBSET Entries'] /\ inDegree' \in [Node' -> Nat]
        BY <4>1, <4>3, <4>4, <4>5 DEF Put
      <4> QED
        BY <4>1, <4>2, <4>5, <4>6 DEF EdgesInv, EdgesTyped, NoEdges
    <3> QED
      BY <3>1, <3>2
  <2>2. CASE NodesAdded
    <3>1. /\ pc = "nodes" /\ pc' = "edges" /\ unread' = Entries
          /\ UNCHANGED <<graph, edges, inDegree>>
      BY <2>2 DEF NodesAdded
    <3>2. NoEdges /\ EdgesTyped
      BY <3>1 DEF EdgesInv
    <3>3. Node' = Node /\ Entries' = Entries
      BY <3>1 DEF Node, Entries
    <3>4. \A v \in Node : Read(v)' = {}
      BY <3>1, EntriesFact DEF Read
    <3>5. Cardinality({}) = 0
      BY FS_EmptySet
    <3>6. EdgesRead'
      BY <3>1, <3>2, <3>3, <3>4, <3>5 DEF EdgesRead, NoEdges
    <3> QED
      BY <3>1, <3>2, <3>3, <3>6 DEF EdgesInv, EdgesTyped
  <2>3. ASSUME NEW e \in unread, AddEdge(e) PROVE EdgesInv'
    <3>1. /\ pc = "edges" /\ unread' = unread \ {e} /\ graph' = graph
      BY <2>3 DEF AddEdge
    <3>2. Node' = Node /\ Entries' = Entries /\ Names(e)' = Names(e)
      BY <3>1 DEF Node, Entries, Names
    <3>3. EdgesTyped /\ EdgesRead
      BY <3>1 DEF EdgesInv
    <3>4. e \in Entries
      BY <3>3 DEF EdgesTyped
    <3>5. CASE Names(e) \notin Node
      <4>1. pc' = "unknown" /\ UNCHANGED <<edges, inDegree>>
        BY <2>3, <3>5 DEF AddEdge
      <4> QED
        BY <4>1, <3>1, <3>2, <3>3, <3>4, <3>5 DEF EdgesInv, EdgesTyped
    <3>6. CASE Names(e) \in Node
      <4> DEFINE v == e[1]
      <4>1. /\ pc' = "edges"
            /\ edges' = [edges EXCEPT ![Names(e)] = @ \cup {e}]
            /\ inDegree' = [inDegree EXCEPT ![v] = @ + 1]
        BY <2>3, <3>1, <3>6 DEF AddEdge
      <4>2. e = <<v, e[2]>> /\ v \in Node /\ e[2] \in DOMAIN graph[v]
        BY <3>4, EntryParts
      <4>3. EdgesTyped'
        <5>1. edges' \in [Node -> SUBSET Entries]
          BY <4>1, <3>3, <3>4 DEF EdgesTyped
        <5>2. inDegree' \in [Node -> Nat]
          BY <4>1, <4>2, <3>3 DEF EdgesTyped
        <5> QED
          BY <5>1, <5>2, <3>1, <3>2, <3>3 DEF EdgesTyped
      <4>4. \A u : Names(u)' = Names(u)
        BY <3>1 DEF Names
      <4>5. \A u \in Node : edges'[u] = {x \in Entries \ unread' : Names(x) = u}
        BY <4>1, <3>1, <3>3, <3>4, <3>6 DEF EdgesRead, EdgesTyped
      <4>6. Read(v)' = Read(v) \cup {e[2]} /\ e[2] \notin Read(v)
        BY <4>2, <3>1 DEF Read
      <4>7. \A u \in Node : u # v => Read(u)' = Read(u)
        BY <4>2, <3>1 DEF Read
      <4>8. IsFiniteSet(Read(v)) /\ Cardinality(Read(v)) \in Nat
        BY <2>0, <4>2, PositionsFinite DEF Read
      <4>9. Cardinality(Read(v)') = Cardinality(Read(v)) + 1
        BY <4>6, <4>8, FS_AddElement
      <4>10. \A u \in Node : inDegree'[u] = Cardinality(Read(u)')
        BY <4>1, <4>2, <4>7, <4>9, <3>3 DEF EdgesRead, EdgesTyped
      <4>11. \A x \in Entries \ unread' : Names(x) \in Node
        BY <3>1, <3>3, <3>6 DEF EdgesRead
      <4>12. EdgesRead'
        BY <4>4, <4>5, <4>10, <4>11, <3>2 DEF EdgesRead
      <4> QED
        BY <4>1, <4>3, <4>12 DEF EdgesInv
    <3> QED
      BY <3>5, <3>6
  <2>4. CASE Seed
    <3>1. /\ pc = "edges" /\ pc' = "visit" /\ unread = {}
          /\ UNCHANGED <<graph, unread, edges, inDegree>>
      BY <2>4 DEF Seed
    <3> QED
      BY <3>1 DEF EdgesInv, EdgesTyped, EdgesRead, Read, Node, Entries, Names
  <2>5. ASSUME NEW u \in queue, Pop(u) PROVE EdgesInv'
    BY <2>5 DEF Pop, EdgesInv, EdgesTyped, EdgesRead, NoEdges, Read, Node, Entries, Names
  <2>6. ASSUME NEW e \in todo, Decrement(e) PROVE EdgesInv'
    BY <2>6 DEF Decrement, EdgesInv, EdgesTyped, EdgesRead, NoEdges, Read, Node, Entries, Names
  <2>7. CASE Decide
    BY <2>7 DEF Decide, EdgesInv, EdgesTyped, EdgesRead, Read, Node, Entries, Names, Outcomes
  <2>8. CASE UNCHANGED vars
    BY <2>8 DEF vars, EdgesInv, EdgesTyped, EdgesRead, NoEdges, Read, Node, Entries, Names
  <2> QED
    BY <2>1, <2>2, <2>3, <2>4, <2>5, <2>6, <2>7, <2>8 DEF Next
<1> QED
  BY <1>1, <1>2, BuiltInvariant, PTL DEF Spec

-----------------------------------------------------------------------------
Pending(v) ==
    {k \in DOMAIN graph[v] : graph[v][k] \notin visited \/ <<v, k>> \in todo}

\* The reference in terms of the map of the nodes.
Closed(S) == \A v \in S : \E k \in DOMAIN graph[v] : graph[v][k] \in S

Visiting ==
    /\ copy \in [Node -> Nat] /\ todo \subseteq Entries
    /\ visited \subseteq Node /\ count = Cardinality(visited)
    /\ \A v \in Node : copy[v] = Cardinality(Pending(v))
    /\ \A e \in todo : Names(e) \in visited
    /\ queue = {v \in Node \ visited : copy[v] = 0}
    /\ \A v \in visited : copy[v] = 0
    /\ \A S \in SUBSET Node : Closed(S) => S \cap visited = {}

VisitInv ==
    /\ pc \in {"visit", "ok", "cycle"} => Visiting
    /\ pc \in {"nodes", "edges", "duplicate", "unknown"} =>
         copy = Empty /\ todo = {} /\ visited = {} /\ count = 0 /\ queue = {}
    /\ pc = "ok" => count = Cardinality(Node)
    /\ pc = "cycle" => count # Cardinality(Node) /\ todo = {} /\ queue = {}

LEMMA NodesFinite == ASSUME Types, Built PROVE IsFiniteSet(Node)
<1> DEFINE idOf == [k \in Done |-> input[k].id]
<1>1. IsFiniteSet(Done)
  BY FS_Interval DEF Done, Types
<1>2. idOf \in Surjection(Done, Node)
  BY DEF Surjection, Built
<1> QED
  BY <1>1, <1>2, FS_Surjection

LEMMA VisitingKept ==
    ASSUME Visiting, UNCHANGED <<graph, copy, queue, todo, count, visited>>
    PROVE  Visiting'
<1>1. Node' = Node /\ Entries' = Entries
  BY DEF Node, Entries
<1>2. \A e : Names(e)' = Names(e)
  BY DEF Names
<1>3. \A v : Pending(v)' = Pending(v)
  BY DEF Pending
<1>4. \A S : Closed(S)' = Closed(S)
  BY DEF Closed
<1> QED
  BY <1>1, <1>2, <1>3, <1>4 DEF Visiting

LEMMA VisitInvariant == Spec => []VisitInv
<1>1. Init => VisitInv
  BY DEF Init, VisitInv
<1>2. BuiltInv /\ EdgesInv /\ EdgesInv' /\ VisitInv /\ [Next]_vars => VisitInv'
  <2> SUFFICES ASSUME BuiltInv, EdgesInv, EdgesInv', VisitInv, [Next]_vars PROVE VisitInv'
    OBVIOUS
  <2>0. Types /\ Built
    BY DEF BuiltInv
  <2>1. CASE AddNode
    BY <2>1 DEF AddNode, kahn, VisitInv
  <2>2. CASE NodesAdded
    BY <2>2 DEF NodesAdded, kahn, VisitInv
  <2>3. ASSUME NEW e \in unread, AddEdge(e) PROVE VisitInv'
    BY <2>3 DEF AddEdge, kahn, VisitInv
  <2>4. CASE Seed
    <3>1. /\ pc = "edges" /\ pc' = "visit" /\ copy' = inDegree
          /\ queue' = {v \in Node : inDegree[v] = 0} /\ unread = {}
          /\ UNCHANGED <<graph, edges, inDegree, todo, count, visited>>
      BY <2>4 DEF Seed
    <3>2. todo = {} /\ visited = {} /\ count = 0
      BY <3>1 DEF VisitInv
    <3>3. EdgesTyped /\ EdgesRead
      BY <3>1 DEF EdgesInv
    <3>4. \A v \in Node : Pending(v)' = Read(v)
      BY <3>1, <3>2 DEF Pending, Read
    <3>5. Node' = Node /\ Entries' = Entries
      BY <3>1 DEF Node, Entries
    <3>6. Cardinality({}) = 0
      BY FS_EmptySet
    <3>7. \A v \in Node' : copy'[v] = Cardinality(Pending(v)')
      BY <3>1, <3>3, <3>4, <3>5 DEF EdgesRead
    <3>8. Visiting'
      BY <3>1, <3>2, <3>3, <3>5, <3>6, <3>7 DEF Visiting, EdgesTyped
    <3> QED
      BY <3>1, <3>8 DEF VisitInv
  <2>5. ASSUME NEW u \in queue, Pop(u) PROVE VisitInv'
    <3>1. /\ pc = "visit" /\ pc' = pc /\ todo = {}
          /\ queue' = queue \ {u} /\ count' = count + 1
          /\ visited' = visited \cup {u} /\ todo' = edges[u]
          /\ UNCHANGED <<graph, unread, copy>>
      BY <2>5 DEF Pop
    <3>2. Visiting /\ EdgesTyped /\ EdgesRead /\ unread = {}
      BY <3>1 DEF VisitInv, EdgesInv
    <3>3. Node' = Node /\ Entries' = Entries
      BY <3>1 DEF Node, Entries
    <3>4. \A e : Names(e)' = Names(e)
      BY <3>1 DEF Names
    <3>5. u \in Node \ visited /\ copy[u] = 0
      BY <3>2 DEF Visiting
    <3>6. edges[u] = {e \in Entries : Names(e) = u}
      BY <3>2, <3>5 DEF EdgesRead
    <3>7. \A v \in Node : Pending(v)' = Pending(v)
      <4> SUFFICES ASSUME NEW v \in Node, NEW k \in DOMAIN graph[v]
                   PROVE  (graph[v][k] \notin visited \cup {u} \/ <<v, k>> \in edges[u])
                            <=> graph[v][k] \notin visited
        BY <3>1 DEF Pending
      <4>1. <<v, k>> \in edges[u] <=> graph[v][k] = u
        BY <3>6, EntriesFact DEF Names
      <4> QED
        BY <4>1, <3>5
    <3>8. \A k \in DOMAIN graph[u] : graph[u][k] \in visited
      <4>1. Cardinality(Pending(u)) = 0
        BY <3>2, <3>5 DEF Visiting
      <4>2. IsFiniteSet(Pending(u))
        BY <2>0, <3>5, PositionsFinite DEF Pending
      <4>3. Pending(u) = {}
        BY <4>1, <4>2, FS_EmptySet
      <4> QED
        BY <4>3 DEF Pending
    <3>9. ASSUME NEW S \in SUBSET Node, Closed(S)' PROVE S \cap visited' = {}
      <4>1. Closed(S)
        BY <3>9, <3>1 DEF Closed
      <4>2. S \cap visited = {}
        BY <4>1, <3>2 DEF Visiting
      <4>3. u \notin S
        BY <4>1, <4>2, <3>8 DEF Closed
      <4> QED
        BY <4>2, <4>3, <3>1
    <3>10. IsFiniteSet(visited)
      BY <2>0, <3>2, NodesFinite, FS_Subset DEF Visiting
    <3>11. Cardinality(visited') = Cardinality(visited) + 1
      BY <3>1, <3>5, <3>10, FS_AddElement
    <3>12. Visiting'
      <4>1. copy' \in [Node' -> Nat] /\ todo' \subseteq Entries'
        BY <3>1, <3>2, <3>3, <3>6 DEF Visiting
      <4>2. visited' \subseteq Node' /\ count' = Cardinality(visited')
        BY <3>1, <3>2, <3>3, <3>5, <3>11 DEF Visiting
      <4>3. \A v \in Node' : copy'[v] = Cardinality(Pending(v)')
        BY <3>1, <3>2, <3>3, <3>7 DEF Visiting
      <4>4. \A e \in todo' : Names(e)' \in visited'
        BY <3>1, <3>4, <3>6
      <4>5. queue' = {v \in Node' \ visited' : copy'[v] = 0}
        BY <3>1, <3>2, <3>3, <3>5 DEF Visiting
      <4>6. \A v \in visited' : copy'[v] = 0
        BY <3>1, <3>2, <3>5 DEF Visiting
      <4> QED
        BY <4>1, <4>2, <4>3, <4>4, <4>5, <4>6, <3>3, <3>9 DEF Visiting
    <3> QED
      BY <3>1, <3>12 DEF VisitInv
  <2>6. ASSUME NEW e \in todo, Decrement(e) PROVE VisitInv'
    <3> DEFINE w == e[1]
    <3>1. /\ pc = "visit" /\ pc' = pc /\ todo' = todo \ {e}
          /\ copy' = [copy EXCEPT ![w] = @ - 1]
          /\ queue' = IF copy'[w] = 0 THEN queue \cup {w} ELSE queue
          /\ UNCHANGED <<graph, unread, count, visited>>
      BY <2>6 DEF Decrement, Queued
    <3>2. Visiting
      BY <3>1 DEF VisitInv
    <3>3. Node' = Node /\ Entries' = Entries
      BY <3>1 DEF Node, Entries
    <3>4. \A x : Names(x)' = Names(x)
      BY <3>1 DEF Names
    <3>5. e \in Entries /\ Names(e) \in visited
      BY <3>2 DEF Visiting
    <3>6. e = <<w, e[2]>> /\ w \in Node /\ e[2] \in DOMAIN graph[w]
      BY <3>5, EntryParts
    <3>7. e[2] \in Pending(w) /\ Pending(w)' = Pending(w) \ {e[2]}
      BY <3>1, <3>5, <3>6 DEF Pending, Names
    <3>8. \A v \in Node : v # w => Pending(v)' = Pending(v)
      BY <3>1, <3>6 DEF Pending
    <3>9. IsFiniteSet(Pending(w)) /\ Cardinality(Pending(w)) \in Nat
      BY <2>0, <3>6, PositionsFinite DEF Pending
    <3>10. Cardinality(Pending(w)') = Cardinality(Pending(w)) - 1
      BY <3>7, <3>9, FS_RemoveElement
    <3>11. Cardinality(Pending(w)) > 0
      <4>1. Pending(w) # {}
        BY <3>7
      <4>2. Cardinality(Pending(w)) # 0
        BY <4>1, <3>9, FS_EmptySet
      <4> QED
        BY <4>2, <3>9
    <3>12. copy[w] = Cardinality(Pending(w)) /\ copy'[w] = copy[w] - 1 /\ copy'[w] \in Nat
      BY <3>1, <3>2, <3>6, <3>9, <3>11 DEF Visiting
    <3>13. w \notin visited /\ w \notin queue
      BY <3>2, <3>11, <3>12 DEF Visiting
    <3>14. \A v \in Node : v # w => copy'[v] = copy[v]
      BY <3>1, <3>2 DEF Visiting
    <3>15. Visiting'
      <4>1. copy' \in [Node' -> Nat] /\ todo' \subseteq Entries'
        BY <3>1, <3>2, <3>3, <3>6, <3>12 DEF Visiting
      <4>2. \A v \in Node' : copy'[v] = Cardinality(Pending(v)')
        BY <3>2, <3>3, <3>8, <3>10, <3>12, <3>14 DEF Visiting
      <4>3. queue' = {v \in Node' \ visited' : copy'[v] = 0}
        BY <3>1, <3>2, <3>3, <3>6, <3>11, <3>12, <3>13, <3>14 DEF Visiting
      <4>4. \A v \in visited' : copy'[v] = 0
        BY <3>1, <3>2, <3>13, <3>14 DEF Visiting
      <4>5. \A S \in SUBSET Node' : Closed(S)' => S \cap visited' = {}
        BY <3>1, <3>2, <3>3 DEF Visiting, Closed
      <4> QED
        BY <4>1, <4>2, <4>3, <4>4, <4>5, <3>1, <3>2, <3>3, <3>4 DEF Visiting
    <3> QED
      BY <3>1, <3>15 DEF VisitInv
  <2>7. CASE Decide
    <3>1. /\ pc = "visit" /\ todo = {} /\ queue = {}
          /\ pc' = IF count = Cardinality(Node) THEN "ok" ELSE "cycle"
          /\ UNCHANGED <<graph, copy, queue, todo, count, visited>>
      BY <2>7 DEF Decide, kahn
    <3>2. Visiting'
      BY <3>1, VisitingKept DEF VisitInv
    <3> QED
      BY <3>1, <3>2 DEF VisitInv, Node
  <2>8. CASE UNCHANGED vars
    <3>1. UNCHANGED <<graph, copy, queue, todo, count, visited, pc>>
      BY <2>8 DEF vars
    <3>2. Node' = Node
      BY <3>1 DEF Node
    <3> QED
      BY <3>1, <3>2, VisitingKept DEF VisitInv
  <2> QED
    BY <2>1, <2>2, <2>3, <2>4, <2>5, <2>6, <2>7, <2>8 DEF Next
<1> QED
  BY <1>1, <1>2, BuiltInvariant, EdgesInvariant, PTL DEF Spec

-----------------------------------------------------------------------------
\* A set of nodes is cyclic in the list exactly if it is closed in the map.
LEMMA CyclicIsClosed ==
    ASSUME Types, Built, i = Len(input) + 1
    PROVE  /\ Node = Ids /\ Distinct
           /\ \A S \in SUBSET Node : Cyclic(S) <=> Closed(S)
           /\ Known <=> \A e \in Entries : Names(e) \in Node
<1>1. Done = DOMAIN input
  BY DEF Types, Done
<1>2. Node = Ids /\ Distinct
  BY <1>1 DEF Built, Ids, Distinct
<1>3. \A k \in DOMAIN input : input[k].id \in Node /\ graph[input[k].id] = input[k].deps
  BY <1>1, <1>2 DEF Built, Ids
<1>4. ASSUME NEW S \in SUBSET Node PROVE Cyclic(S) <=> Closed(S)
  <2>1. ASSUME NEW v \in S
        PROVE  (\E k \in DOMAIN input : input[k].id = v
                  /\ \E d \in DOMAIN input[k].deps : input[k].deps[d] \in S)
               <=> \E d \in DOMAIN graph[v] : graph[v][d] \in S
    <3>1. PICK k \in DOMAIN input : input[k].id = v
      BY <1>2 DEF Ids
    <3>2. \A j \in DOMAIN input : input[j].id = v => j = k
      BY <1>2, <3>1 DEF Distinct
    <3> QED
      BY <1>3, <3>1, <3>2
  <2> QED
    BY <2>1 DEF Cyclic, Closed
<1>5. Known <=> \A e \in Entries : Names(e) \in Node
  <2>1. Known <=> \A v \in Node : \A d \in DOMAIN graph[v] : graph[v][d] \in Node
    BY <1>2, <1>3 DEF Known, Ids
  <2>2. ASSUME \A v \in Node : \A d \in DOMAIN graph[v] : graph[v][d] \in Node,
               NEW e \in Entries
        PROVE  Names(e) \in Node
    BY <2>2, EntryParts DEF Names
  <2>3. ASSUME \A e \in Entries : Names(e) \in Node,
               NEW v \in Node, NEW d \in DOMAIN graph[v]
        PROVE  graph[v][d] \in Node
    <3>1. <<v, d>> \in Entries
      BY EntriesFact
    <3> QED
      BY <2>3, <3>1 DEF Names
  <2> QED
    BY <2>1, <2>2, <2>3
<1> QED
  BY <1>2, <1>4, <1>5

\* BuildGraph accepts a list of nodes only if its ids are distinct, its
\* dependencies known and its graph acyclic, and when it rejects one it says
\* why, for every list of nodes and every order in which Go's maps are read.
THEOREM VerdictCorrect == Spec => []VerdictRight
<1>1. BuiltInv /\ EdgesInv /\ VisitInv => VerdictRight
  <2> SUFFICES ASSUME BuiltInv, EdgesInv, VisitInv PROVE VerdictRight
    OBVIOUS
  <2>0. Types /\ Built
    BY DEF BuiltInv
  <2>1. CASE pc = "duplicate"
    <3>1. PICK k \in Done : input[k].id = input[i].id
      BY <2>0, <2>1 DEF Built
    <3>2. k \in DOMAIN input /\ i \in DOMAIN input /\ k # i
      BY <2>0, <2>1 DEF Built, Done, Types
    <3>3. ~Distinct
      BY <3>1, <3>2 DEF Distinct
    <3> QED
      BY <2>1, <3>3 DEF VerdictRight
  <2>2. CASE pc = "unknown"
    BY <2>0, <2>2, CyclicIsClosed DEF VerdictRight, EdgesInv, Built
  <2>3. CASE pc \in {"ok", "cycle"}
    <3>1. i = Len(input) + 1
      BY <2>0, <2>3 DEF Built
    <3>2. EdgesRead /\ unread = {} /\ Visiting
      BY <2>3 DEF EdgesInv, VisitInv
    <3>3. Known /\ Distinct
      BY <2>0, <3>1, <3>2, CyclicIsClosed DEF EdgesRead
    <3>4. CASE pc = "ok"
      <4>1. Cardinality(visited) = Cardinality(Node) /\ visited \subseteq Node
        BY <3>2, <3>4 DEF VisitInv, Visiting
      <4>2. IsFiniteSet(Node)
        BY <2>0, NodesFinite
      <4>3. visited = Node
        BY <4>1, <4>2, FS_Subset
      <4>4. Acyclic
        BY <2>0, <3>1, <3>2, <4>3, CyclicIsClosed DEF Acyclic, Visiting
      <4> QED
        BY <3>3, <3>4, <4>4 DEF VerdictRight
    <3>5. CASE pc = "cycle"
      <4> DEFINE S == Node \ visited
      <4>1. count # Cardinality(Node) /\ todo = {} /\ queue = {}
        BY <3>5 DEF VisitInv
      <4>2. S # {}
        BY <4>1, <3>2 DEF Visiting
      <4>3. ASSUME NEW v \in S PROVE \E k \in DOMAIN graph[v] : graph[v][k] \in S
        <5>1. Cardinality(Pending(v)) # 0
          BY <3>2, <4>1 DEF Visiting
        <5>2. Pending(v) # {}
          BY <5>1, FS_EmptySet
        <5>3. PICK k \in DOMAIN graph[v] : graph[v][k] \notin visited
          BY <5>2, <4>1 DEF Pending
        <5>4. <<v, k>> \in Entries
          BY EntriesFact
        <5>5. graph[v][k] \in Node
          BY <5>4, <3>2 DEF EdgesRead, Names
        <5> QED
          BY <5>3, <5>5
      <4>4. Closed(S)
        BY <4>3 DEF Closed
      <4>5. ~Acyclic
        BY <2>0, <3>1, <4>2, <4>4, CyclicIsClosed DEF Acyclic
      <4> QED
        BY <3>3, <3>5, <4>5 DEF VerdictRight
    <3> QED
      BY <2>3, <3>4, <3>5
  <2> QED
    BY <2>1, <2>2, <2>3 DEF VerdictRight
<1> QED
  BY <1>1, BuiltInvariant, EdgesInvariant, VisitInvariant, PTL

\* Every variable keeps its type, and the visit only ever handles nodes and
\* entries of the map that BuildGraph entered.
THEOREM TypeCorrect == Spec => []TypeOK
<1>1. BuiltInv /\ EdgesInv /\ VisitInv => TypeOK
  <2> SUFFICES ASSUME BuiltInv, EdgesInv, VisitInv PROVE TypeOK
    OBVIOUS
  <2>0. Types /\ Built /\ EdgesTyped
    BY DEF BuiltInv, EdgesInv
  <2>1. CASE pc \in {"visit", "ok", "cycle"}
    <3>1. Visiting
      BY <2>1 DEF VisitInv
    <3>2. count \in Nat
      BY <2>0, <3>1, NodesFinite, FS_Subset, FS_CardinalityType DEF Visiting
    <3> QED
      BY <2>0, <3>1, <3>2 DEF TypeOK, Types, EdgesTyped, Visiting
  <2>2. CASE pc \in {"nodes", "edges", "duplicate", "unknown"}
    BY <2>0, <2>2 DEF TypeOK, Types, EdgesTyped, VisitInv
  <2> QED
    BY <2>0, <2>1, <2>2 DEF Types, Outcomes
<1> QED
  BY <1>1, BuiltInvariant, EdgesInvariant, VisitInvariant, PTL

\* The in-degrees of an accepted graph are those of its edges: each of the
\* entries of a node is the edge of exactly one other, and Run's main loop
\* counts a node down as often as it is counted here.
THEOREM DegreesCorrect == Spec => []DegreesMatchEdges
<1>1. BuiltInv /\ EdgesInv => DegreesMatchEdges
  <2> SUFFICES ASSUME BuiltInv, EdgesInv, pc = "ok", NEW v \in Node
               PROVE  inDegree[v] = Cardinality({e \in UNION {edges[u] : u \in Node} : e[1] = v})
    BY DEF DegreesMatchEdges
  <2> DEFINE E == {e \in UNION {edges[u] : u \in Node} : e[1] = v}
             edgeOf == [k \in Read(v) |-> <<v, k>>]
  <2>1. EdgesRead /\ unread = {} /\ Types
    BY DEF EdgesInv, BuiltInv
  <2>2. UNION {edges[u] : u \in Node} = Entries
    BY <2>1 DEF EdgesRead
  <2>3. E = {<<v, k>> : k \in DOMAIN graph[v]}
    BY <2>2, EntriesFact, EntryParts
  <2>4. Read(v) = DOMAIN graph[v]
    BY <2>1 DEF Read
  <2>5. edgeOf \in Bijection(Read(v), E)
    BY <2>3, <2>4 DEF Bijection, Injection, IsInjective, Surjection
  <2>6. IsFiniteSet(Read(v))
    BY <2>1, PositionsFinite DEF Read
  <2>7. Cardinality(Read(v)) = Cardinality(E)
    BY <2>5, <2>6, FS_Bijection DEF ExistsBijection
  <2> QED
    BY <2>1, <2>7 DEF EdgesRead
<1> QED
  BY <1>1, BuiltInvariant, EdgesInvariant, PTL

\* The visit takes no node before all the nodes it depends on.
THEOREM OrderCorrect == Spec => []VisitedInOrder
<1>1. BuiltInv /\ EdgesInv /\ VisitInv => VisitedInOrder
  <2> SUFFICES ASSUME BuiltInv, EdgesInv, VisitInv, NEW v \in visited, NEW d \in DOMAIN graph[v]
               PROVE  graph[v][d] \in visited
    BY DEF VisitedInOrder
  <2>1. Visiting /\ Types
    BY DEF VisitInv, BuiltInv, Types, Outcomes
  <2>2. v \in Node /\ Cardinality(Pending(v)) = 0
    BY <2>1 DEF Visiting
  <2>3. Pending(v) = {}
    BY <2>1, <2>2, PositionsFinite, FS_EmptySet DEF Pending
  <2> QED
    BY <2>3 DEF Pending
<1> QED
  BY <1>1, BuiltInvariant, EdgesInvariant, VisitInvariant, PTL
=============================================================================
