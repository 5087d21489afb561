---------------------------- MODULE Orchestrator ----------------------------
(***************************************************************************)
(* The controller: Run, runNode and RollbackLast of                        *)
(* internal/controller/orchestrator.go over the graph of graph.go, the     *)
(* execution store of internal/state, and agents reached over connections  *)
(* that can break.  Commands (apply, apply --resume, reconcile, observe,   *)
(* rollback --last) run one after another against the same store, and the  *)
(* controller may crash during any of them.                                *)
(*                                                                         *)
(* Processes of a run: the main loop (Complete, Return), a goroutine per   *)
(* node (nodePc), a goroutine per (node, target) pair (pc) and the agents. *)
(***************************************************************************)
EXTENDS ExecutionLog, FiniteSets

CONSTANTS
  Node, Target,
  NodeDef,        \* what the plan says of each node, see NodeRecord
  Plan,           \* the hashes of the plans that are run
  NodeHash,       \* [Plan -> [Node -> hash]]: plan.Node.Hash
  Options,        \* the option records commands are run with
  Parallelism,    \* opts.Parallelism: the capacity of sem
  StoreMayFail,   \* store.Record can fail (the code only warns)
  Commands,       \* which of "run" and "rollback" the operator enters
  MaxRuns,        \* bound: commands that are run
  MaxCrashes,     \* bound: controller crashes
  MaxFaults,      \* bound: failed dials and checks, lost connections and replies
  CLI,            \* the rollback --last command, as a roller
  NoNode          \* whenNode of a node without a when condition

NodeType == {"file.sync", "process.exec", "builtin"}

\* plan.Node.  depends_on is a set: a repeated entry is counted once more in
\* InDegree and once more in Edges, and comes out the same.  attempts is 1
\* when retry is nil, failurePolicy is "halt" when empty.
NodeRecord ==
  [type : NodeType,
   targets : Seq(Target),
   dependsOn : SUBSET Node,
   whenNode : Node \cup {NoNode},
   whenChanged : BOOLEAN,
   failurePolicy : {"halt", "continue", "rollback"},
   idempotent : BOOLEAN,
   attempts : Nat \ {0},
   rollbackCmd : BOOLEAN,
   effectFree : BOOLEAN,       \* side_effects = "none"
   probe : BOOLEAN]            \* probe and desired are both present

OptionRecord ==
  [dryRun : BOOLEAN, resume : BOOLEAN, reconcile : BOOLEAN,
   observe : BOOLEAN, timeout : BOOLEAN]

ASSUME NodesAssumption ==
  /\ IsFiniteSet(Node)
  /\ NodeDef \in [Node -> NodeRecord]
  /\ NoNode \notin Node
  /\ CLI \notin Node
  /\ \A n \in Node : \A i, j \in DOMAIN NodeDef[n].targets :
       NodeDef[n].targets[i] = NodeDef[n].targets[j] => i = j
ASSUME RunsAssumption ==
  /\ Options \subseteq OptionRecord
  /\ Commands \subseteq {"run", "rollback"}
  /\ NodeHash \in [Plan -> [Node -> Nat]]
  /\ Parallelism \in Nat \ {0}
  /\ StoreMayFail \in BOOLEAN
  /\ MaxRuns \in Nat
  /\ MaxCrashes \in Nat
  /\ MaxFaults \in Nat

Pair == Node \X Target
Roller == Node \cup {CLI}

Type(n) == NodeDef[n].type
Targets(n) == NodeDef[n].targets
DependsOn(n) == NodeDef[n].dependsOn
PairsOf(n) == {<<n, Targets(n)[i]>> : i \in DOMAIN Targets(n)}

VARIABLES
  log,            \* the executions table
  phase,          \* what the controller process is doing, or how it ended
  plan, opts,     \* of the current run
  nodeState, nodeChanged, inDegree, haltExecution,  \* the maps and flag under mu
  nodePc,         \* where the goroutine of each node is
  cursor,         \* targets the goroutine's loop has passed
  cancelled,      \* ctx.Done() is closed
  sem,            \* slots taken of the target-level semaphore
  pc,             \* where the goroutine of each pair is
  attempt,        \* the a of its retry loop
  err, changed,   \* what its last runNode returned
  result,         \* how it ended: the status it reports
  rbTodo,         \* rows each RollbackLast in progress has still to roll back
  runs, crashes, faults,   \* bounded counters
  applies,        \* ghost: successful executions on the agent, per pair
  lost,           \* ghost: those of them that no row was written for
  reverted        \* ghost: rows an agent has rolled back, or says it has

runVars == <<phase, plan, opts, runs, crashes>>
nodeVars == <<nodeState, nodeChanged, inDegree, nodePc, cursor>>
ctxVars == <<haltExecution, cancelled>>
taskVars == <<pc, attempt, err, changed, result>>
ghostVars == <<applies, lost>>
rbVars == <<rbTodo, reverted>>
\* What a step of a node's, or of a pair's, goroutine leaves alone.
nodeOthers == <<runVars, ctxVars, sem, taskVars, faults, ghostVars, rbVars>>
pairOthers == <<runVars, nodeVars, ctxVars, rbVars>>
vars == <<log, runVars, nodeVars, ctxVars, sem, taskVars, faults, ghostVars, rbVars>>

Running == phase = "running"

Row(n, t, status, hasChanges) ==
  [node |-> n, target |-> t, plan |-> plan, hash |-> NodeHash[plan][n],
   status |-> status, changes |-> hasChanges, run |-> runs]

\* store.Record: the row is appended, or the error is dropped or warned of.
Recorded(row) ==
  \/ log' = Record(log, row)
  \/ StoreMayFail /\ log' = log

\* A node the main loop has not seen on doneChan yet.
Incomplete(n) == {d \in DependsOn(n) : nodePc[d] # "completed"}

-----------------------------------------------------------------------------
(* Commands *)

Init ==
  /\ log = <<>>
  /\ phase = "idle"
  /\ plan \in Plan
  /\ opts \in Options
  /\ nodeState = [n \in Node |-> "pending"]
  /\ nodeChanged = [n \in Node |-> FALSE]
  /\ inDegree = [n \in Node |-> Cardinality(DependsOn(n))]
  /\ nodePc = [n \in Node |-> "off"]
  /\ cursor = [n \in Node |-> 0]
  /\ haltExecution = FALSE
  /\ cancelled = FALSE
  /\ sem = 0
  /\ pc = [p \in Pair |-> "idle"]
  /\ attempt = [p \in Pair |-> 0]
  /\ err = [p \in Pair |-> FALSE]
  /\ changed = [p \in Pair |-> FALSE]
  /\ result = [p \in Pair |-> "none"]
  /\ rbTodo = [r \in Roller |-> {}]
  /\ runs = 0
  /\ crashes = 0
  /\ faults = 0
  /\ applies = [p \in Pair |-> 0]
  /\ lost = [p \in Pair |-> 0]
  /\ reverted = {}

\* Run, up to the dispatcher: the maps are reset, the nodes without
\* dependencies go to readyQueue.
StartRun(h, o) ==
  /\ "run" \in Commands
  /\ phase \in {"idle", "ok", "error", "crashed"}
  /\ runs < MaxRuns
  /\ phase' = "running"
  /\ runs' = runs + 1
  /\ plan' = h
  /\ opts' = o
  /\ nodeState' = [n \in Node |-> "pending"]
  /\ nodeChanged' = [n \in Node |-> FALSE]
  /\ inDegree' = [n \in Node |-> Cardinality(DependsOn(n))]
  /\ nodePc' = [n \in Node |-> IF DependsOn(n) = {} THEN "ready" ELSE "waiting"]
  /\ cursor' = [n \in Node |-> 0]
  /\ haltExecution' = FALSE
  /\ cancelled' = FALSE
  /\ sem' = 0
  /\ pc' = [p \in Pair |-> "idle"]
  /\ attempt' = [p \in Pair |-> 0]
  /\ err' = [p \in Pair |-> FALSE]
  /\ changed' = [p \in Pair |-> FALSE]
  /\ result' = [p \in Pair |-> "none"]
  /\ UNCHANGED <<log, crashes, faults, ghostVars, rbVars>>

\* The deadline of opts.Timeout passes.
TimeoutFires ==
  /\ Running /\ opts.timeout /\ ~cancelled
  /\ cancelled' = TRUE
  /\ UNCHANGED <<log, runVars, nodeVars, haltExecution, sem, taskVars, faults, ghostVars,
                 rbVars>>

-----------------------------------------------------------------------------
(* The main loop *)

\* Mutant: a dependant is queued when the first of its dependencies reports.
ReleasedByAny(m, n) == n \in DependsOn(m)

\* The report of n brings the in-degree of m to zero.
Released(m, n) == n \in DependsOn(m) /\ inDegree[m] = 1

\* <-doneChan: the dependants' in-degrees drop, those at zero become ready.
Complete(n) ==
  /\ Running
  /\ nodePc[n] = "done"
  /\ inDegree' = [m \in Node |-> IF n \in DependsOn(m) THEN inDegree[m] - 1 ELSE inDegree[m]]
  /\ nodePc' = [m \in Node |->
                  IF m = n THEN "completed"
                  ELSE IF Released(m, n) THEN "ready"
                  ELSE nodePc[m]]
  /\ UNCHANGED <<log, nodeState, nodeChanged, cursor, nodeOthers>>

\* Mutant: only a failure that halted the run counts.
HaltedErred == haltExecution

\* len(errs) > 0: a pair of some node ended in an error.
Erred == \E p \in Pair : err[p]

\* Mutant: a halted run does not wait for what is under way.
AllReportedOrHalted == haltExecution \/ \A n \in Node : nodePc[n] = "completed"

\* completed == len(graph.Nodes)
AllReported == \A n \in Node : nodePc[n] = "completed"

\* All nodes completed: Run returns an error exactly when errs is not empty.
Return ==
  /\ Running
  /\ AllReported
  /\ phase' = IF Erred THEN "error" ELSE "ok"
  /\ UNCHANGED <<log, plan, opts, runs, crashes, nodeVars, ctxVars, sem, taskVars, faults,
                 ghostVars, rbVars>>

-----------------------------------------------------------------------------
(* The goroutine of a node *)

\* Mutant: a node is skipped only when every dependency is down.
AllDependenciesDown(n) ==
  DependsOn(n) # {} /\ \A d \in DependsOn(n) : nodeState[d] \in {"failed", "skipped"}

DependencyDown(n) == \E d \in DependsOn(n) : nodeState[d] \in {"failed", "skipped"}

\* Mutant: only a change that is excluded keeps a node from running.
UnmetIfChanged(n) ==
  /\ NodeDef[n].whenNode # NoNode
  /\ nodeChanged[NodeDef[n].whenNode] /\ ~NodeDef[n].whenChanged

WhenUnmet(n) ==
  /\ NodeDef[n].whenNode # NoNode
  /\ nodeChanged[NodeDef[n].whenNode] # NodeDef[n].whenChanged

\* Mutant: every target of the named node has to have changed.
SkipUnlessAllChanged(n) ==
  \/ DependencyDown(n)
  \/ /\ NodeDef[n].whenNode # NoNode
     /\ \E p \in PairsOf(NodeDef[n].whenNode) : changed[p] # NodeDef[n].whenChanged

\* cascadeSkip
SkipCause(n) == DependencyDown(n) \/ WhenUnmet(n)

\* Once execution is halted a node is skipped without a row.
SkipHalted(n) ==
  /\ Running /\ nodePc[n] = "ready" /\ haltExecution
  /\ nodeState' = [nodeState EXCEPT ![n] = "skipped"]
  /\ nodePc' = [nodePc EXCEPT ![n] = "done"]
  /\ UNCHANGED <<log, nodeChanged, inDegree, cursor, nodeOthers>>

CascadeSkip(n) ==
  /\ Running /\ nodePc[n] = "ready" /\ ~haltExecution
  /\ SkipCause(n)
  /\ nodeState' = [nodeState EXCEPT ![n] = "skipped"]
  /\ nodePc' = [nodePc EXCEPT ![n] = "skipping"]
  /\ UNCHANGED <<log, nodeChanged, inDegree, cursor, nodeOthers>>

\* A "skipped" row per target of a skipped node, dry run or not.
RecordSkip(n) ==
  /\ Running /\ nodePc[n] = "skipping" /\ cursor[n] < Len(Targets(n))
  /\ Recorded(Row(n, Targets(n)[cursor[n] + 1], "skipped", FALSE))
  /\ cursor' = [cursor EXCEPT ![n] = @ + 1]
  /\ UNCHANGED <<nodeState, nodeChanged, inDegree, nodePc, nodeOthers>>

SkipDone(n) ==
  /\ Running /\ nodePc[n] = "skipping" /\ cursor[n] = Len(Targets(n))
  /\ nodePc' = [nodePc EXCEPT ![n] = "done"]
  /\ UNCHANGED <<log, nodeState, nodeChanged, inDegree, cursor, nodeOthers>>

BeginExecute(n) ==
  /\ Running /\ nodePc[n] = "ready" /\ ~haltExecution
  /\ ~SkipCause(n)
  /\ nodePc' = [nodePc EXCEPT ![n] = "executing"]
  /\ UNCHANGED <<log, nodeState, nodeChanged, inDegree, cursor, nodeOthers>>

\* sem <- struct{}{}: the next target in list order gets a slot.
Launch(n) ==
  /\ Running /\ nodePc[n] = "executing" /\ cursor[n] < Len(Targets(n))
  /\ sem < Parallelism
  /\ sem' = sem + 1
  /\ pc' = [pc EXCEPT ![<<n, Targets(n)[cursor[n] + 1]>>] = "launched"]
  /\ cursor' = [cursor EXCEPT ![n] = @ + 1]
  /\ UNCHANGED <<log, runVars, nodeState, nodeChanged, inDegree, nodePc, ctxVars, attempt,
                 err, changed, result, faults, ghostVars, rbVars>>

\* len(nodeErrs) > 0, and whether that ends the run.
Failed(n) == \E p \in PairsOf(n) : err[p]
Halts(n) == Failed(n) /\ NodeDef[n].failurePolicy \in {"halt", "rollback"}
Cancels(n) == Halts(n)

\* targetWg.Wait() returned: the node's verdict, and what its failure policy
\* does to the run.
Finish(n) ==
  /\ Running /\ nodePc[n] = "executing" /\ cursor[n] = Len(Targets(n))
  /\ \A p \in PairsOf(n) : pc[p] = "finished"
  /\ nodeChanged' = [nodeChanged EXCEPT ![n] = \E p \in PairsOf(n) : changed[p]]
  /\ nodeState' = [nodeState EXCEPT ![n] = IF Failed(n) THEN "failed" ELSE "applied"]
  /\ haltExecution' = (haltExecution \/ Halts(n))
  /\ cancelled' = (cancelled \/ Cancels(n))
  /\ nodePc' = [nodePc EXCEPT ![n] =
                  IF Failed(n) /\ NodeDef[n].failurePolicy = "rollback" THEN "rollback" ELSE "done"]
  /\ UNCHANGED <<log, runVars, inDegree, cursor, sem, taskVars, faults, ghostVars, rbVars>>

-----------------------------------------------------------------------------
(* The goroutine of a pair: the cancel check and the history *)

ReadOnly == opts.dryRun \/ opts.observe

\* Something outside the controller goes wrong.
Fault == faults < MaxFaults /\ faults' = faults + 1

\* select on ctx.Done(): a cancelled pair returns without error and without
\* a row.
CheckCancel(p) ==
  /\ Running /\ pc[p] = "launched"
  /\ pc' = [pc EXCEPT ![p] = IF cancelled THEN "returned" ELSE "checked"]
  /\ result' = [result EXCEPT ![p] = IF cancelled THEN "abandoned" ELSE @]
  /\ UNCHANGED <<log, sem, attempt, err, changed, faults, ghostVars, pairOthers>>

\* Mutant: as for the changed flag, the row must have changes.
ResumableIfChanged(p) ==
  LET latest == LatestExecution(log, p[1], p[2])
  IN opts.resume /\ latest.plan = plan /\ latest.status = "applied" /\ latest.changes

\* The latest row lets the pair be skipped: --resume of the same plan, or,
\* without --resume, a process.exec that is not idempotent and unchanged.
Resumable(p) ==
  LET latest == LatestExecution(log, p[1], p[2])
  IN opts.resume /\ latest.plan = plan /\ latest.status = "applied"

Reconciled(p) ==
  LET latest == LatestExecution(log, p[1], p[2])
  IN /\ opts.reconcile \/ ~opts.resume
     /\ Type(p[1]) = "process.exec" /\ ~NodeDef[p[1]].idempotent
     /\ latest.status = "applied" /\ latest.hash = NodeHash[plan][p[1]]

SettledByHistory(p) ==
  HasExecution(log, p[1], p[2]) /\ (Resumable(p) \/ Reconciled(p))

SkipFromHistory(p) ==
  /\ Running /\ pc[p] = "checked"
  /\ SettledByHistory(p)
  /\ changed' = [changed EXCEPT ![p] =
                   \/ LatestExecution(log, p[1], p[2]).changes
                   \/ Type(p[1]) = "process.exec"]
  /\ result' = [result EXCEPT ![p] = "from history"]
  /\ pc' = [pc EXCEPT ![p] = "returned"]
  /\ UNCHANGED <<log, sem, attempt, err, faults, ghostVars, pairOthers>>

\* A store that cannot be read counts as one without rows.
StartAttempts(p) ==
  /\ Running /\ pc[p] = "checked"
  /\ SettledByHistory(p) => StoreMayFail
  /\ pc' = [pc EXCEPT ![p] = "attempt"]
  /\ attempt' = [attempt EXCEPT ![p] = 1]
  /\ UNCHANGED <<log, sem, err, changed, result, faults, ghostVars, pairOthers>>

-----------------------------------------------------------------------------
(* The goroutine of a pair: runNode and its retry loop *)

\* runNode returns (c, status, e).  An error is retried while attempts are
\* left; neither the sleep before the retry nor the loop looks at ctx.
RunNodeReturns(p, e, c, status) ==
  IF e /\ attempt[p] < NodeDef[p[1]].attempts
  THEN /\ pc' = [pc EXCEPT ![p] = "attempt"]
       /\ attempt' = [attempt EXCEPT ![p] = @ + 1]
       /\ UNCHANGED <<err, changed, result>>
  ELSE /\ pc' = [pc EXCEPT ![p] = "returned"]
       /\ err' = [err EXCEPT ![p] = e]
       /\ changed' = [changed EXCEPT ![p] = c]
       /\ result' = [result EXCEPT ![p] = status]
       /\ UNCHANGED attempt

\* Only the report of a process.exec in a dry run or observe needs no agent.
Dials(p) == ~(ReadOnly /\ Type(p[1]) = "process.exec")

\* Secrets, the dial, the detect request, the source tree or the sending of
\* the apply request fail; with ctx done the dial always does.
FailEarly(p) ==
  /\ Running
  /\ \/ pc[p] = "attempt" /\ cancelled /\ Dials(p) /\ UNCHANGED faults
     \/ pc[p] \in {"attempt", "dialled"} /\ Fault
  /\ RunNodeReturns(p, TRUE, FALSE, "failed")
  /\ UNCHANGED <<log, sem, ghostVars, pairOthers>>

\* The probe answers: observe reports it, otherwise a match ends the attempt.
ProbeSettles(p) ==
  /\ Running /\ pc[p] = "attempt" /\ ~cancelled
  /\ NodeDef[p[1]].probe
  /\ \E inSync \in BOOLEAN :
       /\ ~inSync => opts.observe
       /\ RunNodeReturns(p, FALSE, ~inSync, "satisfied")
  /\ UNCHANGED <<log, sem, faults, ghostVars, pairOthers>>

\* The body is run for a node without a probe, a node whose probe did not
\* match, and, under observe, only for one whose probe failed.
PastProbe(p) ==
  IF opts.observe /\ NodeDef[p[1]].probe /\ ~cancelled THEN Fault ELSE UNCHANGED faults

\* file.sync finds nothing to change: success, and no row.
NothingToSync(p) ==
  /\ Running /\ pc[p] = "attempt" /\ ~cancelled
  /\ Type(p[1]) = "file.sync"
  /\ PastProbe(p)
  /\ RunNodeReturns(p, FALSE, FALSE, "satisfied")
  /\ UNCHANGED <<log, sem, ghostVars, pairOthers>>

\* A dry run or observe reports what it would do.  Builtins have no such case.
ReportOnly(p) ==
  /\ Running /\ pc[p] = "attempt" /\ ReadOnly
  /\ \/ Type(p[1]) = "process.exec"
     \/ Type(p[1]) = "file.sync" /\ ~cancelled
  /\ PastProbe(p)
  /\ RunNodeReturns(p, FALSE, TRUE, "dry-run")
  /\ UNCHANGED <<log, sem, ghostVars, pairOthers>>

\* Builtins are executed whatever the options say.
MayApply(p) == ReadOnly => Type(p[1]) = "builtin"

\* dialAgent(ctx) for the apply: it fails once ctx is done.
Connect(p) ==
  /\ Running /\ pc[p] = "attempt"
  /\ ~cancelled /\ MayApply(p)
  /\ PastProbe(p)
  /\ pc' = [pc EXCEPT ![p] = "dialled"]
  /\ UNCHANGED <<log, sem, attempt, err, changed, result, ghostVars, pairOthers>>

\* enc.Encode(applyReq) looks at no ctx: a connection that was dialled before
\* a cancel still carries its request.
SendApply(p) ==
  /\ Running /\ pc[p] = "dialled"
  /\ pc' = [pc EXCEPT ![p] = "connected"]
  /\ UNCHANGED <<log, sem, attempt, err, changed, result, faults, ghostVars, pairOthers>>

\* handleApply on the agent, and the response on its way back.
AgentResult(n) ==
  {"success", "failed"} \cup (IF Type(n) = "file.sync" THEN {"partial"} ELSE {})

Bump(f, p, when) == [f EXCEPT ![p] = IF when THEN @ + 1 ELSE @]

AgentApplies(p) ==
  /\ Running /\ pc[p] = "connected"
  /\ \E status \in AgentResult(p[1]) :
       /\ result' = [result EXCEPT ![p] = status]
       /\ applies' = Bump(applies, p, status = "success")
  /\ pc' = [pc EXCEPT ![p] = "executed"]
  /\ UNCHANGED <<log, sem, attempt, err, changed, faults, lost, pairOthers>>

\* The agent answers with an error (no context, path not allowed), or the
\* connection breaks before it answers; it may still carry the request out.
AgentFails(p) ==
  /\ Running /\ pc[p] = "connected"
  /\ Fault
  /\ \E ran \in BOOLEAN :
       /\ applies' = Bump(applies, p, ran)
       /\ lost' = Bump(lost, p, ran)
  /\ RunNodeReturns(p, TRUE, FALSE, "failed")
  /\ UNCHANGED <<log, sem, pairOthers>>

ReplyLost(p) ==
  /\ Running /\ pc[p] = "executed"
  /\ Fault
  /\ lost' = Bump(lost, p, result[p] = "success")
  /\ RunNodeReturns(p, TRUE, FALSE, "failed")
  /\ UNCHANGED <<log, sem, applies, pairOthers>>

\* Mutants: the row is written before the status is looked at; the agent's
\* status is written as it is.
AlwaysApplied(status) == "applied"
SameStatus(status) == status

\* dbStatus
RowStatus(status) == IF status = "success" THEN "applied" ELSE status

\* The response is recorded; success and partial end the attempt, a failed
\* file.sync is rolled back first.
RecordResult(p) ==
  /\ Running /\ pc[p] = "executed"
  /\ Recorded(Row(p[1], p[2], RowStatus(result[p]), Type(p[1]) = "file.sync"))
  /\ lost' = Bump(lost, p, log' = log /\ result[p] = "success")
  /\ IF result[p] = "failed" /\ Type(p[1]) = "file.sync"
     THEN pc' = [pc EXCEPT ![p] = "compensate"] /\ UNCHANGED <<attempt, err, changed, result>>
     ELSE RunNodeReturns(p, result[p] = "failed", TRUE, result[p])
  /\ UNCHANGED <<sem, faults, applies, pairOthers>>

\* doRollback after a failed file.sync, on a context of its own; its outcome
\* is only warned of.
Compensate(p) ==
  /\ Running /\ pc[p] = "compensate"
  /\ RunNodeReturns(p, TRUE, TRUE, "failed")
  /\ UNCHANGED <<log, sem, faults, ghostVars, pairOthers>>

\* Mutant: a pair that failed keeps its slot.
SlotsUnlessFailed(p) == IF err[p] THEN sem ELSE sem - 1

SlotsAfter(p) == sem - 1

\* The deferred <-sem and targetWg.Done().
Release(p) ==
  /\ Running /\ pc[p] = "returned"
  /\ pc' = [pc EXCEPT ![p] = "finished"]
  /\ sem' = SlotsAfter(p)
  /\ UNCHANGED <<log, attempt, err, changed, result, faults, ghostVars, pairOthers>>

-----------------------------------------------------------------------------
(* RollbackLast, called by rollback --last and by a node's rollback policy *)

Standing(row) == row.status \in {"applied", "partial"}
RollbackPlan == {i \in LastRun(log) : Standing(log[i])}

\* process.exec without a rollback_cmd cannot be undone.
Irreversible(row) == Type(row.node) = "process.exec" /\ ~NodeDef[row.node].rollbackCmd

\* Irreversible rows with side effects must be confirmed; a refusal ends it.
ChooseRollback(r) ==
  \/ rbTodo' = [rbTodo EXCEPT ![r] = RollbackPlan]
  \/ /\ \E i \in RollbackPlan : Irreversible(log[i]) /\ ~NodeDef[log[i].node].effectFree
     /\ rbTodo' = [rbTodo EXCEPT ![r] = {}]

RollbackCommand ==
  /\ "rollback" \in Commands
  /\ phase \in {"idle", "ok", "error", "crashed"}
  /\ runs < MaxRuns
  /\ runs' = runs + 1
  /\ phase' = "rollback"
  /\ ChooseRollback(CLI)
  /\ UNCHANGED <<log, plan, opts, crashes, nodeVars, ctxVars, sem, taskVars, faults,
                 ghostVars, reverted>>

PolicyRollback(n) ==
  /\ Running /\ nodePc[n] = "rollback"
  /\ nodePc' = [nodePc EXCEPT ![n] = "rollingback"]
  /\ ChooseRollback(n)
  /\ UNCHANGED <<log, runVars, nodeState, nodeChanged, inDegree, cursor, ctxVars, sem,
                 taskVars, faults, ghostVars, reverted>>

RollingBack(r) == IF r = CLI THEN phase = "rollback" ELSE Running /\ nodePc[r] = "rollingback"

\* handleExec takes its command in the form JSON gives the inputs; the
\* command of a rollback request comes in the form of RollbackReq.
ExecAccepts(form) == form = "[]any"

\* The agent undoes file.sync from its snapshot, and answers success for a
\* builtin without undoing anything.  It answers failed for a rollback_cmd
\* it does not accept, and for the builtin _exec.
AgentUndoes(row) == Type(row.node) = "process.exec" => ExecAccepts("[]string")
AgentRefuses(row) == Type(row.node) = "builtin" \/ ~AgentUndoes(row)

\* Mutants: the rows are taken oldest first; a row stays until the agent has
\* undone it.
IsOldest(i, ids) == i \in ids /\ \A j \in ids : i <= j
Undone(r, i) == IF AgentUndoes(log[i]) THEN rbTodo[r] \ {i} ELSE rbTodo[r]

IsNext(i, ids) == i \in ids /\ \A j \in ids : j <= i
RestOf(r, i) == rbTodo[r] \ {i}

\* One row, newest first: an irreversible one is recorded as skipped, the
\* agent's success as rolled_back, a failure not at all.
RollbackStep(r) ==
  /\ RollingBack(r)
  /\ \E i \in DOMAIN log :
       /\ IsNext(i, rbTodo[r])
       /\ rbTodo' = [rbTodo EXCEPT ![r] = RestOf(r, i)]
       /\ \/ /\ Irreversible(log[i])
             /\ Recorded([log[i] EXCEPT !.status = "skipped", !.run = runs])
             /\ UNCHANGED <<reverted, faults>>
          \/ /\ ~Irreversible(log[i]) /\ AgentUndoes(log[i])
             /\ Recorded([log[i] EXCEPT !.status = "rolled_back", !.run = runs])
             /\ reverted' = reverted \cup {i}
             /\ UNCHANGED faults
          \/ /\ ~Irreversible(log[i]) /\ AgentRefuses(log[i])
             /\ UNCHANGED <<log, reverted, faults>>
          \/ /\ ~Irreversible(log[i]) /\ Fault
             /\ \/ UNCHANGED reverted
                \/ AgentUndoes(log[i]) /\ reverted' = reverted \cup {i}
             /\ UNCHANGED log
  /\ UNCHANGED <<runVars, nodeVars, ctxVars, sem, taskVars, ghostVars>>

\* A rolled-back node reports to doneChan, the command ends.
RollbackDone(r) ==
  /\ RollingBack(r) /\ rbTodo[r] = {}
  /\ IF r = CLI
     THEN phase' = "idle" /\ UNCHANGED nodePc
     ELSE nodePc' = [nodePc EXCEPT ![r] = "done"] /\ UNCHANGED phase
  /\ UNCHANGED <<log, plan, opts, runs, crashes, nodeState, nodeChanged, inDegree, cursor,
                 ctxVars, sem, taskVars, faults, ghostVars, rbVars>>

-----------------------------------------------------------------------------
(* The controller dies *)

\* A row whose rollback request is on its way.
BeingUndone(i) ==
  /\ \E r \in Roller : RollingBack(r) /\ IsNext(i, rbTodo[r])
  /\ AgentUndoes(log[i])

\* Only the store and the agents keep their state.  The agents may still
\* carry out the requests they were sent.
Crash ==
  /\ phase \in {"running", "rollback"}
  /\ crashes < MaxCrashes
  /\ crashes' = crashes + 1
  /\ phase' = "crashed"
  /\ \E ran \in SUBSET {p \in Pair : pc[p] = "connected"} :
       /\ applies' = [p \in Pair |-> applies[p] + IF p \in ran THEN 1 ELSE 0]
       /\ lost' = [p \in Pair |-> lost[p] +
                     IF p \in ran \/ (pc[p] = "executed" /\ result[p] = "success") THEN 1 ELSE 0]
  /\ \E undone \in SUBSET {i \in DOMAIN log : BeingUndone(i)} :
       reverted' = reverted \cup undone
  /\ nodePc' = [n \in Node |-> "off"]
  /\ sem' = 0
  /\ pc' = [p \in Pair |-> "idle"]
  /\ rbTodo' = [r \in Roller |-> {}]
  /\ UNCHANGED <<log, plan, opts, runs, nodeState, nodeChanged, inDegree, cursor, ctxVars,
                 attempt, err, changed, result, faults>>

-----------------------------------------------------------------------------
NodeStep(n) ==
  \/ Complete(n) \/ SkipHalted(n) \/ CascadeSkip(n) \/ RecordSkip(n) \/ SkipDone(n)
  \/ BeginExecute(n) \/ Launch(n) \/ Finish(n) \/ PolicyRollback(n)

PairStep(p) ==
  \/ CheckCancel(p) \/ SkipFromHistory(p) \/ StartAttempts(p)
  \/ FailEarly(p) \/ ProbeSettles(p) \/ NothingToSync(p) \/ ReportOnly(p) \/ Connect(p)
  \/ SendApply(p) \/ AgentApplies(p) \/ AgentFails(p) \/ ReplyLost(p) \/ RecordResult(p) \/ Compensate(p)
  \/ Release(p)

\* A step of a command that is running.
Progress ==
  \/ Return
  \/ \E n \in Node : NodeStep(n)
  \/ \E p \in Pair : PairStep(p)
  \/ \E r \in Roller : RollbackStep(r) \/ RollbackDone(r)

Next ==
  \/ Progress
  \/ \E h \in Plan, o \in Options : StartRun(h, o)
  \/ RollbackCommand
  \/ TimeoutFires
  \/ Crash

Spec == Init /\ [][Next]_vars

\* While a command can take a step it does: goroutines are scheduled, agents
\* answer or their connections break.
FairSpec == Spec /\ WF_vars(Progress)

-----------------------------------------------------------------------------
(* Types *)

RowType ==
  [node : Node, target : Target, plan : Plan, hash : Nat,
   status : Status, changes : BOOLEAN, run : Nat]

NodePc == {"off", "waiting", "ready", "skipping", "executing", "rollback", "rollingback",
           "done", "completed"}
PairPc == {"idle", "launched", "checked", "attempt", "dialled", "connected", "executed",
           "compensate", "returned", "finished"}
PairResult == {"none", "abandoned", "from history", "satisfied", "dry-run",
               "success", "partial", "failed"}

CommandTypes ==
  /\ phase \in {"idle", "running", "rollback", "ok", "error", "crashed"}
  /\ plan \in Plan
  /\ opts \in Options
  /\ haltExecution \in BOOLEAN
  /\ cancelled \in BOOLEAN
  /\ runs \in Nat /\ crashes \in Nat /\ faults \in Nat

NodeTypes ==
  /\ nodeState \in [Node -> {"pending", "applied", "failed", "skipped"}]
  /\ nodeChanged \in [Node -> BOOLEAN]
  /\ inDegree \in [Node -> Int]
  /\ nodePc \in [Node -> NodePc]
  /\ cursor \in [Node -> Nat]

PairTypes ==
  /\ sem \in Int
  /\ pc \in [Pair -> PairPc]
  /\ attempt \in [Pair -> Nat]
  /\ err \in [Pair -> BOOLEAN]
  /\ changed \in [Pair -> BOOLEAN]
  /\ result \in [Pair -> PairResult]
  /\ \A p \in Pair : pc[p] = "executed" => result[p] \in {"success", "partial", "failed"}

LogTypes ==
  /\ log \in Seq(RowType)
  /\ rbTodo \in [Roller -> SUBSET (1..Len(log))]
  /\ reverted \subseteq 1..Len(log)

GhostTypes ==
  /\ applies \in [Pair -> Nat]
  /\ lost \in [Pair -> Nat]

\* Every variable has its type, and the rows waiting to be rolled back exist.
TypeOK == CommandTypes /\ NodeTypes /\ PairTypes /\ LogTypes /\ GhostTypes

-----------------------------------------------------------------------------
(* Safety *)

\* Goroutines of pairs that hold a slot.
Holding == {p \in Pair : pc[p] \notin {"idle", "finished"}}

\* The semaphore's tokens are exactly the pair goroutines that have not
\* released theirs, whichever way they ended, and never more than the
\* parallelism asked for: a leaked token would in the end block every node
\* (sem <- at orchestrator.go:229, the deferred <-sem at 231).
SlotsBalanced ==
  /\ sem = Cardinality(Holding)
  /\ sem <= Parallelism

\* A node's goroutine is past the dependency check only when every node it
\* depends on has reported and was applied, although nodes report, and the
\* main loop counts in-degrees down, in any order.
DependenciesFirst ==
  \A n \in Node :
    nodePc[n] \in {"executing", "rollback", "rollingback"} =>
      \A d \in DependsOn(n) : nodePc[d] = "completed" /\ nodeState[d] = "applied"

\* The in-degree of a node is the number of its dependencies the main loop
\* has not seen: it neither releases a node early nor forgets one.
InDegreeCounts ==
  phase = "running" =>
    \A n \in Node :
      /\ inDegree[n] = Cardinality(Incomplete(n))
      /\ nodePc[n] = "waiting" <=> Incomplete(n) # {}

\* A run that has returned, cancelled or not, leaves nothing behind: every
\* goroutine it started for a target has released its slot, no request is on
\* its way to an agent, no response waits for its row and no rollback is in
\* progress (the wait groups at 362 and 441, doneChan at 413; cancel() at 391
\* stops none of those that have dialled).
LeavesNothingBehind ==
  phase \in {"ok", "error"} =>
    /\ Holding = {}
    /\ \A r \in Roller : rbTodo[r] = {}

\* The exit status of Run: ok exactly when no pair ended in an error, and
\* then every node was applied or skipped for a reason that is not a failure.
VerdictMatchesPairs ==
  /\ phase = "ok" => \A n \in Node :
       nodeState[n] = "applied" \/ (nodeState[n] = "skipped" /\ ~haltExecution)
  /\ phase = "ok" => \A p \in Pair : ~err[p]
  /\ phase = "error" => \E p \in Pair : err[p] /\ nodeState[p[1]] = "failed"

\* The node that n's condition names is not one it waits for: validate.go:60
\* asks only that it is there.
WhenUnordered(n) == NodeDef[n].whenNode \notin DependsOn(n)

\* It asks for the change of such a node.
TooEarly(n) == NodeDef[n].whenNode # NoNode /\ NodeDef[n].whenChanged /\ WhenUnordered(n)

\* When a run has ended, a node was skipped only for a reason: the run was
\* halted, a dependency was down, or its condition was not met; a node that
\* asks for the change of one it does not wait for may have been too early.
SkipHasCause ==
  phase \in {"ok", "error"} =>
    \A n \in Node : nodeState[n] = "skipped" =>
      haltExecution \/ DependencyDown(n) \/ WhenUnmet(n) \/ TooEarly(n)

\* What a condition guarantees while its node executes, in any plan: if it
\* names a dependency, that node has been applied and has changed as the
\* condition says; if not, a change that is asked for has taken place, but one
\* that is excluded may come after the decision (orchestrator.go:167 reads the
\* flag of a node that may not have finished).
WhenHolds ==
  \A n \in Node :
    nodePc[n] = "executing" /\ NodeDef[n].whenNode # NoNode =>
      LET w == NodeDef[n].whenNode
      IN \/ nodeState[w] = "applied" /\ nodeChanged[w] = NodeDef[n].whenChanged
         \/ WhenUnordered(n) /\ (NodeDef[n].whenChanged => nodeChanged[w])

\* The store never claims an execution that did not take place and misses
\* only those whose response or row was lost: of each pair, the successful
\* executions are the applied rows, the lost ones and the one in flight.
AppliedRows(p) == {i \in RowsOf(log, p[1], p[2]) : log[i].status = "applied"}

LogIsHonest ==
  \A p \in Pair :
    applies[p] = Cardinality(AppliedRows(p)) + lost[p]
                 + (IF pc[p] = "executed" /\ result[p] = "success" THEN 1 ELSE 0)

\* Commands that resume the same plan, over any number of failures and
\* crashes, execute a pair successfully once: again only when the store never
\* learnt of the first time.
ResumedOnce == \A p \in Pair : applies[p] <= 1 + lost[p]

\* "--dry-run: Show changes without applying": a dry run or observe has an
\* agent neither execute nor undo anything.
ReadOnlyIsInert ==
  [][Running /\ ReadOnly => UNCHANGED <<applies, reverted>>]_vars

\* Rollback goes against the order of the dependencies within a run: when a
\* row is taken, no row that the same run wrote for a dependant of its node
\* is still waiting.
DependantsUndoneFirst ==
  [][\A r \in Roller : rbTodo[r] # {} /\ phase' # "crashed" =>
       \A i \in rbTodo[r] \ rbTodo'[r], j \in rbTodo'[r] :
         log[i].run = log[j].run => log[i].node \notin DependsOn(log[j].node)]_vars

\* "rollback_cmd = [...] (inverse operation for process.exec)": an execution
\* that has one is undone when its turn comes and nothing goes wrong.
RollbackCmdUndoes ==
  [][phase' # "crashed" /\ UNCHANGED faults =>
       \A r \in Roller : \A i \in rbTodo[r] \ rbTodo'[r] :
         Type(log[i].node) = "process.exec" /\ NodeDef[log[i].node].rollbackCmd =>
           i \in reverted']_vars

\* "--last: Rollback the most recent execution": a row is undone only if the
\* most recent run that applied anything wrote it.
LastApplyingRun ==
  LET ids == {i \in DOMAIN log : log[i].status \in {"applied", "partial"}}
  IN log[Newest(ids)].run

RollbackIsOfLastRun ==
  [][\A i \in reverted' : i \notin reverted => log[i].run = LastApplyingRun]_vars

-----------------------------------------------------------------------------
(* Liveness and refinement *)

\* A run that starts ends.
Termination == phase = "running" ~> phase # "running"

\* So does a rollback.
RollbackEnds == phase = "rollback" ~> phase # "rollback"

Execution == INSTANCE PlanExecution WITH
  Dependencies <- [n \in Node |-> DependsOn(n)],
  status <- nodeState,
  outcome <- IF phase \in {"running", "ok", "error"} THEN phase ELSE "stopped"

\* The orchestrator implements the promise of PlanExecution.
ImplementsPlanExecution == Execution!Spec
=============================================================================
