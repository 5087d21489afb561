----------------------------- MODULE MC_FileSync -----------------------------
(***************************************************************************)
(* Trees for FileSync: a file of two chunks that is empty or missing in    *)
(* other sources, a path that is a file or a directory, and the marker.    *)
(***************************************************************************)
EXTENDS FileSync

At(fs) == [p \in Path |-> IF p \in DOMAIN fs THEN fs[p] ELSE Absent]
Two == [a |-> File(<<1, 2>>), d |-> File(<<3>>)]
Empty == [a |-> File(<< >>), d |-> File(<<3>>)]
Other == [d |-> Dir]
Old == [a |-> File(<<7>>)]

MCSources == {At(Two), At(Empty), At(Other)}
MCDests == {Nothing, At(Old)}
=============================================================================
