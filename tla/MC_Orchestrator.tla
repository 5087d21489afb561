--------------------------- MODULE MC_Orchestrator --------------------------
(***************************************************************************)
(* Small plans for TLC to run the orchestrator on.                         *)
(***************************************************************************)
EXTENDS Orchestrator, TLC

CONSTANTS a, b, c, h1, h2, p1, p2

Exec(targets) ==
  [type |-> "process.exec", targets |-> targets, dependsOn |-> {},
   whenNode |-> NoNode, whenChanged |-> FALSE, failurePolicy |-> "halt",
   idempotent |-> FALSE, attempts |-> 1, rollbackCmd |-> FALSE,
   effectFree |-> FALSE, probe |-> FALSE]
Sync(targets) == [Exec(targets) EXCEPT !.type = "file.sync"]
Builtin(targets) == [Exec(targets) EXCEPT !.type = "builtin"]

NoOptions == [dryRun |-> FALSE, resume |-> FALSE, reconcile |-> FALSE,
              observe |-> FALSE, timeout |-> FALSE]
Apply == {NoOptions}
Resume == {[NoOptions EXCEPT !.resume = TRUE]}
DryRun == {[NoOptions EXCEPT !.dryRun = TRUE], [NoOptions EXCEPT !.observe = TRUE]}
DryRunOrApply == DryRun \cup Apply
Timed == {[NoOptions EXCEPT !.timeout = TRUE]}

\* The plans that are run have the same nodes.
OneHash == [h \in Plan |-> [n \in Node |-> 1]]

\* c waits for a and b and runs only when a has changed something; b is not to
\* run when a has, but does not wait for it.  a has two targets and is retried;
\* b's failure does not halt the run.
JoinNodes ==
  (a :> [Sync(<<h1, h2>>) EXCEPT !.attempts = 2]) @@
  (b :> [Exec(<<h1>>) EXCEPT !.failurePolicy = "continue", !.whenNode = a]) @@
  (c :> [Exec(<<h1>>) EXCEPT !.dependsOn = {a, b}, !.whenNode = a, !.whenChanged = TRUE])

\* A chain of commands that are not idempotent; b has two targets.
ChainNodes ==
  (a :> Exec(<<h1>>)) @@
  (b :> [Exec(<<h1, h2>>) EXCEPT !.dependsOn = {a}])

\* c's failure takes everything back; c itself cannot be undone, b can be
\* asked for.  Nothing that a dry run or observe would execute.
UndoNodes ==
  (a :> Sync(<<h1>>)) @@
  (b :> [Exec(<<h1>>) EXCEPT !.dependsOn = {a}, !.failurePolicy = "continue",
                             !.rollbackCmd = TRUE, !.probe = TRUE]) @@
  (c :> [Exec(<<h1>>) EXCEPT !.dependsOn = {b}, !.failurePolicy = "rollback"])

\* Two nodes that may both fail and roll back.
UndoBothNodes ==
  (a :> [Exec(<<h1>>) EXCEPT !.failurePolicy = "rollback", !.rollbackCmd = TRUE]) @@
  (b :> [Builtin(<<h1>>) EXCEPT !.failurePolicy = "rollback", !.probe = TRUE, !.attempts = 2])

SyncNodes == a :> Sync(<<h1>>)
BuiltinNodes == a :> Builtin(<<h1>>)
UndoableExecNodes == a :> [Exec(<<h1>>) EXCEPT !.rollbackCmd = TRUE]
=============================================================================
