--------------------------- MODULE MC_DependencyGraph ---------------------------
(***************************************************************************)
(* Every list of two nodes over three ids, and the lists of three that     *)
(* start with "a", "b", with up to two dependencies each:                  *)
(* duplicate ids, unknown nodes, self-dependencies, an entry listed twice, *)
(* and every shape of cycle and of acyclic graph on three nodes.           *)
(***************************************************************************)
EXTENDS DependencyGraph

Deps == UNION {[1 .. k -> Id] : k \in 0 .. 2}
N(v, d) == [id |-> v, deps |-> d]

MCInputs ==
    {<< >>} \cup {<<N(v, x), N(w, y)>> : v, w \in Id, x, y \in Deps}
    \cup {<<N("a", x), N("b", y), N(w, z)>> : w \in Id, x, y, z \in Deps}
=============================================================================
