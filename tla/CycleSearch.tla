------------------------------ MODULE CycleSearch ---------------------------
(***************************************************************************)
(* The depth-first search for cycles that steps and primitives share       *)
(* (detectStepCycles and findPrimitiveCycles, internal/devlang/validate.go; *)
(* one is a copy of the other).                                            *)
(*                                                                         *)
(* dfs calls itself for every neighbour that has not been visited.  calls  *)
(* holds one entry per call that has not returned: its node and the        *)
(* neighbour it looks at.  recStack, which the code sets when a call       *)
(* starts and clears when it returns, is the set of the nodes in calls,    *)
(* and path, the argument that each call extends, is their sequence.       *)
(***************************************************************************)
EXTENDS Integers, Sequences, SequencesExt, Progress

VARIABLES
  uses,     \* the graph: the neighbours of every node that has any, in order
  starts,   \* the nodes the search has still to start from, in order
  calls,    \* the calls of dfs that have not returned
  visited,
  cycles,   \* what the search under way has found
  found     \* the searches that have ended, with what they found

searchVars == <<uses, starts, calls, visited, cycles, found>>

Neighbours(g, u) == IF u \in DOMAIN g THEN g[u] ELSE <<>>
Here == calls[Len(calls)]
recStack == {calls[h].node : h \in DOMAIN calls}

SearchInit ==
  uses = <<>> /\ starts = <<>> /\ calls = <<>> /\ visited = {} /\ cycles = {} /\ found = <<>>

\* Mutant: the search starts at one node only.
BeginSearchAtFirst(g, names) ==
  /\ uses' = g
  /\ starts' = SubSeq(names, 1, IF names = <<>> THEN 0 ELSE 1)
  /\ calls' = <<>> /\ visited' = {} /\ cycles' = {}
  /\ UNCHANGED found
\* A search of g, which starts at every one of these nodes that it has not
\* come to before.
BeginSearch(g, names) ==
  /\ uses' = g
  /\ starts' = names
  /\ calls' = <<>> /\ visited' = {} /\ cycles' = {}
  /\ UNCHANGED found

\* A call of dfs.
Visit(u) ==
  /\ calls' = Append(calls, [node |-> u, at |-> 1])
  /\ visited' = visited \cup {u}

StartFrom ==
  /\ calls = <<>> /\ starts # <<>>
  /\ Head(starts) \notin visited
  /\ Visit(Head(starts))
  /\ starts' = Tail(starts)
  /\ UNCHANGED <<uses, cycles, found>>

SkipStart ==
  /\ calls = <<>> /\ starts # <<>>
  /\ Head(starts) \in visited
  /\ starts' = Tail(starts)
  /\ UNCHANGED <<uses, calls, visited, cycles, found>>

AtNeighbour == calls # <<>> /\ Here.at <= Len(Neighbours(uses, Here.node))
Neighbour == Neighbours(uses, Here.node)[Here.at]
Advanced(stack) == [stack EXCEPT ![Len(stack)].at = @ + 1]

VisitNeighbour ==
  /\ AtNeighbour
  /\ Neighbour \notin visited
  /\ Visit(Neighbour)
  /\ UNCHANGED <<uses, starts, cycles, found>>

\* Mutant: the cycle starts one node too late.
CycleToNext(v) ==
  LET path == [h \in DOMAIN calls |-> calls[h].node]
      first == CHOOSE h \in DOMAIN path : path[h] = v
  IN Append(SubSeq(path, first + 1, Len(path)), v)
\* The part of the path from v on, and v again.  A node is on the path once.
CycleTo(v) ==
  LET path == [h \in DOMAIN calls |-> calls[h].node]
      first == CHOOSE h \in DOMAIN path : path[h] = v
  IN Append(SubSeq(path, first, Len(path)), v)

CloseCycle ==
  /\ AtNeighbour
  /\ Neighbour \in visited \cap recStack
  /\ cycles' = cycles \cup {CycleTo(Neighbour)}
  /\ calls' = Advanced(calls)
  /\ UNCHANGED <<uses, starts, visited, found>>

PassVisited ==
  /\ AtNeighbour
  /\ Neighbour \in visited \ recStack
  /\ calls' = Advanced(calls)
  /\ UNCHANGED <<uses, starts, visited, cycles, found>>

\* A call returns; its caller goes on to the next neighbour.
Leave ==
  /\ calls # <<>>
  /\ Here.at > Len(Neighbours(uses, Here.node))
  /\ calls' = IF Len(calls) = 1 THEN <<>> ELSE Advanced(Front(calls))
  /\ UNCHANGED <<uses, starts, visited, cycles, found>>

EndSearch ==
  /\ calls = <<>> /\ starts = <<>>
  /\ found' = Append(found, [uses |-> uses, cycles |-> cycles])
  /\ uses' = <<>> /\ visited' = {} /\ cycles' = {}
  /\ UNCHANGED <<starts, calls>>

SearchStep == StartFrom \/ SkipStart \/ VisitNeighbour \/ CloseCycle \/ PassVisited \/ Leave

\* What both callers give: sequences of neighbours, and every node that has
\* any among the names to start from.
Searchable(g, names) ==
  /\ \A u \in DOMAIN g : g[u] \in Seq(Range(g[u]))
  /\ names \in Seq(Range(names))
  /\ DOMAIN g \subseteq Range(names)

\* One search after the other.
SearchNext ==
  \/ \E g, names : Searchable(g, names) /\ BeginSearch(g, names)
  \/ SearchStep \/ EndSearch
SearchSpec == SearchInit /\ [][SearchNext]_searchVars

-----------------------------------------------------------------------------
(* Properties *)

\* The path of c leads along the edges of g and back to where it began.
IsCycle(g, c) ==
  /\ Len(c) > 1 /\ c[1] = c[Len(c)]
  /\ \A i \in 1..(Len(c) - 1) : c[i + 1] \in Range(Neighbours(g, c[i]))

\* No set of nodes has an edge from each of them to one of them: there are
\* no cycles.
Acyclic(g, ns) ==
  \A s \in SUBSET ns : s # {} => \E u \in s : Range(Neighbours(g, u)) \cap s = {}

\* What a search reports are cycles of its graph, and when it reports none
\* there is none: one cycle may hide another, never all of them.
\* detectStepCycles and findPrimitiveCycles (validate.go).
CyclesExact ==
  \A i \in DOMAIN found :
    /\ \A c \in found[i].cycles : IsCycle(found[i].uses, c)
    /\ found[i].cycles = {} => Acyclic(found[i].uses, DOMAIN found[i].uses)

\* However the graph goes round, every step of a search visits a node for the
\* first time, is done with a start, returns from a call, or goes on in one;
\* so it ends.  detectStepCycles and findPrimitiveCycles (validate.go).
Known == DOMAIN uses \cup (UNION {Range(uses[u]) : u \in DOMAIN uses}) \cup Range(starts)
SearchLeft ==
  <<Cardinality(Known \ visited), Len(starts), Len(calls),
    IF calls = <<>> THEN 0 ELSE Len(Neighbours(uses, Here.node)) + 1 - Here.at>>
SearchAdvances == [][SearchStep => Less(SearchLeft', SearchLeft)]_searchVars
=============================================================================
