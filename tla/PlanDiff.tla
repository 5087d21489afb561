------------------------------- MODULE PlanDiff -----------------------------
(***************************************************************************)
(* The comparison of two plans (Diff, internal/plan/diff.go).              *)
(*                                                                         *)
(* A node is a record with an id.  A plan is the sequence of its nodes and *)
(* how it came into memory: compiled, or loaded from the JSON of one that  *)
(* was.  What Diff returns are lists in the order of the plans; here they  *)
(* are sets: the order is for display.                                     *)
(***************************************************************************)
EXTENDS Integers, Sequences, SequencesExt

CONSTANTS
  OldPlans,  \* the nodes of plans an earlier run may have left
  Lost(_)    \* of a compiled node, what its JSON does not keep of its Go value

VARIABLES
  nodes,     \* the nodes of the plan
  compared   \* two plans and what Diff says of them, once asked

Ids(ns) == {n.id : n \in Range(ns)}

\* oldMap and newMap: of several nodes of an id the last stands for it.
OfId(ns, id) == ns[Max({i \in DOMAIN ns : ns[i].id = id})]

\* A node as a Go value: one that was loaded has float64 for int and nil for an
\* empty list or map that is left out of the JSON, and reflect.DeepEqual tells
\* these apart.
InGo(n, loaded) == [node |-> n, lost |-> IF loaded THEN {} ELSE Lost(n)]

Shared(old, new) ==
  {[old |-> n, new |-> OfId(new.nodes, n.id)] : n \in {m \in Range(old.nodes) : m.id \in Ids(new.nodes)}}
\* Mutant: only inputs are compared.
DiffOfInputs(old, new) ==
  [removed |-> {n \in Range(old.nodes) : n.id \notin Ids(new.nodes)},
   changed |-> {p \in Shared(old, new) : p.old.inputs # p.new.inputs},
   added   |-> {n \in Range(new.nodes) : n.id \notin Ids(old.nodes)}]
Diff(old, new) ==
  [removed |-> {n \in Range(old.nodes) : n.id \notin Ids(new.nodes)},
   changed |-> {p \in Shared(old, new) : InGo(p.old, old.loaded) # InGo(p.new, new.loaded)},
   added   |-> {n \in Range(new.nodes) : n.id \notin Ids(old.nodes)}]

\* planDiffCmd: either of the plans may be compiled or loaded.
CompareWith(old, loaded) ==
  LET new == [nodes |-> nodes, loaded |-> loaded]
  IN /\ compared = <<>>
     /\ compared' = <<[old |-> old, new |-> new, diff |-> Diff(old, new)]>>
     /\ UNCHANGED nodes

\* The plan of an earlier run, or this one, as it was built.
CompareSome ==
  \E old \in OldPlans \cup {nodes}, was, is \in BOOLEAN :
    CompareWith([nodes |-> old, loaded |-> was], is)

\* A plan, and its comparison with another.
DiffInit == compared = <<>> /\ nodes \in Seq(Range(nodes))
DiffSpec == DiffInit /\ [][CompareSome]_<<nodes, compared>>

-----------------------------------------------------------------------------
(* Properties *)

Unique(ns) == \A i, j \in DOMAIN ns : ns[i].id = ns[j].id => i = j

\* The difference of two plans with distinct ids leaves nothing out: with it
\* the new plan can be had from the old one.  A node that both have is named
\* only where a loaded plan is compared with a compiled one and the node has
\* something that JSON does not keep.  plan.Diff and what planDiffCmd gives it.
DiffExact ==
  compared # <<>> =>
    LET old == compared[1].old  new == compared[1].new  d == compared[1].diff
        kept == Range(old.nodes) \ (d.removed \cup {p.old : p \in d.changed})
    IN Unique(old.nodes) /\ Unique(new.nodes) =>
         /\ kept \cup d.added \cup {p.new : p \in d.changed} = Range(new.nodes)
         /\ \A n \in (Range(old.nodes) \cap Range(new.nodes)) \ kept :
              old.loaded # new.loaded /\ Lost(n) # {}
=============================================================================
