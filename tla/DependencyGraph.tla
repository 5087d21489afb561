---------------------------- MODULE DependencyGraph ----------------------------
(***************************************************************************)
(* BuildGraph: the graph that Run schedules from.  The nodes are entered   *)
(* one by one, then their depends_on entries, and detectCycles visits the  *)
(* graph with Kahn's algorithm: a node is queued when its in-degree has    *)
(* been counted down to zero, and a node that is never queued means a      *)
(* cycle.  An edge is named by the entry it comes from, <<node, position>>, *)
(* so a dependency that is listed twice is two edges, as in the code.      *)
(* The queue and the entries are sets: in which order Go's maps hand them  *)
(* out decides only which error of several is reported.                    *)
(***************************************************************************)
EXTENDS Naturals, Sequences, FiniteSets

CONSTANTS Id, Inputs

NodeType == [id : Id, deps : Seq(Id)]

ASSUME DependencyGraphAssumption == Inputs \subseteq Seq(NodeType)

VARIABLES
    input,     \* the plan's list of nodes
    i,         \* the node to be entered next
    graph,     \* Nodes: the dependencies of every node entered
    unread,    \* depends_on entries not looked at yet
    edges,     \* Edges: for every node the entries that name it
    inDegree,  \* InDegree
    copy,      \* inDegreeCopy
    queue, todo, \* nodes to be visited, edges of the node being visited
    count,     \* nodes taken from the queue
    visited,   \* history: those nodes
    pc         \* the loop, or the outcome

vars == <<input, i, graph, unread, edges, inDegree, copy, queue, todo, count,
          visited, pc>>
kahn == <<copy, queue, todo, count, visited>>

Outcomes == {"duplicate", "unknown", "cycle", "ok"}
Node == DOMAIN graph
Entries == UNION {{v} \X DOMAIN graph[v] : v \in Node}
Names(e) == graph[e[1]][e[2]]

\* An empty map, and a map with one more key.
Empty == [v \in {} |-> {}]
Put(f, k, x) == [y \in DOMAIN f \cup {k} |-> IF y = k THEN x ELSE f[y]]

Init ==
    /\ input \in Inputs /\ i = 1 /\ pc = "nodes"
    /\ graph = Empty /\ edges = Empty /\ inDegree = Empty
    /\ unread = {} /\ copy = Empty /\ queue = {} /\ todo = {}
    /\ count = 0 /\ visited = {}

AddNode ==
    /\ pc = "nodes" /\ i <= Len(input)
    /\ IF input[i].id \in Node
       THEN /\ pc' = "duplicate" /\ UNCHANGED <<i, graph, edges, inDegree>>
       ELSE /\ graph' = Put(graph, input[i].id, input[i].deps)
            /\ inDegree' = Put(inDegree, input[i].id, 0)
            /\ edges' = Put(edges, input[i].id, {})
            /\ i' = i + 1 /\ pc' = pc
    /\ UNCHANGED <<input, unread, kahn>>

NodesAdded ==
    /\ pc = "nodes" /\ i > Len(input)
    /\ pc' = "edges" /\ unread' = Entries
    /\ UNCHANGED <<input, i, graph, edges, inDegree, kahn>>

\* Mutants: a dependency is not looked up; one listed by several nodes counts
\* for the first only.
AddsAnyway(e) ==
    /\ pc = "edges" /\ e \in unread
    /\ unread' = unread \ {e} /\ pc' = pc
    /\ edges' = Put(edges, Names(e), {e})
    /\ inDegree' = [inDegree EXCEPT ![e[1]] = @ + 1]
    /\ UNCHANGED <<input, i, graph, kahn>>
AddEdgeOnce(e) ==
    /\ pc = "edges" /\ e \in unread
    /\ unread' = unread \ {e}
    /\ IF Names(e) \notin Node
       THEN pc' = "unknown" /\ UNCHANGED <<edges, inDegree>>
       ELSE /\ edges' = [edges EXCEPT ![Names(e)] = @ \cup {e}]
            /\ inDegree' = [inDegree EXCEPT ![e[1]] =
                              IF edges[Names(e)] = {} THEN @ + 1 ELSE @]
            /\ pc' = pc
    /\ UNCHANGED <<input, i, graph, kahn>>

AddEdge(e) ==
    /\ pc = "edges" /\ e \in unread
    /\ unread' = unread \ {e}
    /\ IF Names(e) \notin Node
       THEN pc' = "unknown" /\ UNCHANGED <<edges, inDegree>>
       ELSE /\ edges' = [edges EXCEPT ![Names(e)] = @ \cup {e}]
            /\ inDegree' = [inDegree EXCEPT ![e[1]] = @ + 1]
            /\ pc' = pc
    /\ UNCHANGED <<input, i, graph, kahn>>

\* detectCycles starts from the nodes without dependencies.
Seed ==
    /\ pc = "edges" /\ unread = {}
    /\ pc' = "visit" /\ copy' = inDegree
    /\ queue' = {v \in Node : inDegree[v] = 0}
    /\ UNCHANGED <<input, i, graph, unread, edges, inDegree, todo, count, visited>>

Pop(u) ==
    /\ pc = "visit" /\ todo = {} /\ u \in queue
    /\ queue' = queue \ {u} /\ count' = count + 1
    /\ visited' = visited \cup {u}
    /\ todo' = edges[u]
    /\ UNCHANGED <<input, i, graph, unread, edges, inDegree, copy, pc>>

\* Mutant: a node is queued with its first dependency.
QueuedAtOnce(v) == TRUE
Queued(v) == copy'[v] = 0

Decrement(e) ==
    /\ pc = "visit" /\ e \in todo
    /\ todo' = todo \ {e}
    /\ copy' = [copy EXCEPT ![e[1]] = @ - 1]
    /\ queue' = IF Queued(e[1]) THEN queue \cup {e[1]} ELSE queue
    /\ UNCHANGED <<input, i, graph, unread, edges, inDegree, count, visited, pc>>

\* Mutant: the loop waits for all nodes, as if every graph were acyclic.
DecideWhenAll ==
    /\ pc = "visit" /\ count = Cardinality(Node)
    /\ pc' = "ok"
    /\ UNCHANGED <<input, i, graph, unread, edges, inDegree, kahn>>

Decide ==
    /\ pc = "visit" /\ todo = {} /\ queue = {}
    /\ pc' = IF count = Cardinality(Node) THEN "ok" ELSE "cycle"
    /\ UNCHANGED <<input, i, graph, unread, edges, inDegree, kahn>>

Next ==
    \/ AddNode \/ NodesAdded
    \/ \E e \in unread : AddEdge(e)
    \/ Seed
    \/ \E u \in queue : Pop(u)
    \/ \E e \in todo : Decrement(e)
    \/ Decide

Spec == Init /\ [][Next]_vars
FairSpec == Spec /\ WF_vars(Next)

-----------------------------------------------------------------------------
(* Properties.                                                             *)

\* Every variable keeps its type.
TypeOK ==
    /\ input \in Seq(NodeType) /\ i \in 1 .. Len(input) + 1
    /\ pc \in {"nodes", "edges", "visit"} \cup Outcomes
    /\ Node \subseteq Id /\ graph \in [Node -> Seq(Id)]
    /\ unread \subseteq Entries /\ todo \subseteq Entries
    /\ edges \in [Node -> SUBSET Entries] /\ inDegree \in [Node -> Nat]
    /\ copy = Empty \/ copy \in [Node -> Nat]
    /\ queue \subseteq Node /\ visited \subseteq Node /\ count \in Nat

\* What a plan's graph should be, said of the list of nodes: ids that occur
\* once, dependencies that are nodes, and no set of nodes each of which has a
\* dependency in the set.
Ids == {input[k].id : k \in DOMAIN input}
Distinct == \A j, k \in DOMAIN input : input[j].id = input[k].id => j = k
Known == \A k \in DOMAIN input : \A d \in DOMAIN input[k].deps : input[k].deps[d] \in Ids
Cyclic(S) ==
    \A v \in S : \E k \in DOMAIN input :
        input[k].id = v /\ \E d \in DOMAIN input[k].deps : input[k].deps[d] \in S
Acyclic == \A S \in SUBSET Ids : Cyclic(S) => S = {}

\* BuildGraph accepts exactly the plans that have such a graph, and says what
\* is wrong with the others.
VerdictRight ==
    /\ pc = "duplicate" => ~Distinct
    /\ pc = "unknown" => ~Known
    /\ pc = "cycle" => Distinct /\ Known /\ ~Acyclic
    /\ pc = "ok" => Distinct /\ Known /\ Acyclic

\* The in-degrees that an accepted graph hands to Run, which counts one down
\* for every edge, are those of its edges: no node waits for ever.
DegreesMatchEdges ==
    pc = "ok" => \A v \in Node :
        inDegree[v] = Cardinality({e \in UNION {edges[u] : u \in Node} : e[1] = v})

\* The visit never takes a node before all its dependencies, and it ends.
VisitedInOrder ==
    \A v \in visited : \A d \in DOMAIN graph[v] : graph[v][d] \in visited

\* Whatever the plan, BuildGraph comes to an answer.
Decided == <>(pc \in Outcomes)
=============================================================================
