------------------------- MODULE Orchestrator_safety -------------------------
(***************************************************************************)
(* Slots, verdicts, skips and conditions, for every plan.                  *)
(*                                                                         *)
(* The semaphore counts the goroutines at work because a target is         *)
(* launched once in a run (LaunchInv).  The exit status is right because a *)
(* halt has a failed node and an abandoned pair a cancellation (HaltInv).  *)
(* A skip keeps its reason because verdicts are final (SkipInv); the flag  *)
(* a when condition reads is final only once it is raised (FlagInv), or if *)
(* the plan makes the node wait for the one it names.                      *)
(***************************************************************************)
EXTENDS Orchestrator_refinement

\* The targets the loop of a node has not come to have not been launched.
LaunchInv ==
  phase = "running" => \A n \in Node :
    /\ nodePc[n] \in {"waiting", "ready"} => cursor[n] = 0
    /\ nodePc[n] \in {"waiting", "ready", "executing"} =>
         \A k \in DOMAIN Targets(n) : k > cursor[n] => pc[<<n, Targets(n)[k]>>] = "idle"

SlotsInv == IsFiniteSet(Holding) /\ SlotsBalanced

\* A halt comes from a failed node.  Without a deadline only a halt cancels,
\* and only a cancelled run abandons pairs.
HaltInv ==
  phase = "running" =>
    /\ haltExecution => \E n \in Node : nodeState[n] = "failed"
    /\ cancelled /\ ~opts.timeout => haltExecution
    /\ \A p \in Pair : result[p] = "abandoned" => cancelled

\* A reason to skip that can no longer go away in this run, unless n decided
\* too early.
SettledReason(n) ==
  \/ haltExecution
  \/ DependencyDown(n)
  \/ WhenUnmet(n) /\ nodeState[NodeDef[n].whenNode] # "pending"
  \/ TooEarly(n)

\* A flag is raised with the verdict of its node.
FlagInv ==
  phase = "running" => \A n \in Node : nodeState[n] = "pending" => ~nodeChanged[n]

SkipInv ==
  phase = "running" => \A n \in Node : nodeState[n] = "skipped" => SettledReason(n)

-----------------------------------------------------------------------------
(* What steps leave alone *)

\* However runNode returns, only its own pair is touched, and the status it
\* reports is the old one or the one it returned.
LEMMA ReturnsShape ==
  ASSUME TypeOK, NEW p \in Pair, NEW e \in BOOLEAN, NEW c \in BOOLEAN, NEW status,
         RunNodeReturns(p, e, c, status)
  PROVE  /\ pc'[p] \in {"attempt", "returned"}
         /\ result'[p] \in {result[p], status}
         /\ \A q \in Pair : q # p => pc'[q] = pc[q] /\ result'[q] = result[q]
BY DEF RunNodeReturns, TypeOK, PairTypes

\* A step of a pair's goroutine keeps its slot or, in the end, gives it back;
\* it abandons the pair only when the run is cancelled.
LEMMA PairStepFrame ==
  ASSUME TypeOK, NEW p \in Pair, PairStep(p)
  PROVE  /\ Running /\ pc[p] \notin {"idle", "finished"}
         /\ UNCHANGED pairOthers
         /\ \A q \in Pair : q # p => pc'[q] = pc[q] /\ result'[q] = result[q]
         /\ \/ pc'[p] \notin {"idle", "finished"} /\ sem' = sem
            \/ pc'[p] = "finished" /\ sem' = sem - 1
         /\ result'[p] = "abandoned" => result[p] = "abandoned" \/ cancelled
<1> DEFINE Returned ==
             /\ pc'[p] \in {"attempt", "returned"}
             /\ \A q \in Pair : q # p => pc'[q] = pc[q] /\ result'[q] = result[q]
             /\ result'[p] = "abandoned" => result[p] = "abandoned"
<1>0. ASSUME NEW e \in BOOLEAN, NEW ch \in BOOLEAN, NEW status, status # "abandoned",
             RunNodeReturns(p, e, ch, status)
      PROVE  Returned
  BY <1>0, ReturnsShape
<1>1. CASE CheckCancel(p)
  BY <1>1 DEF CheckCancel, TypeOK, PairTypes
<1>2. CASE SkipFromHistory(p) \/ StartAttempts(p)
  BY <1>2 DEF SkipFromHistory, StartAttempts, TypeOK, PairTypes
<1>3. CASE FailEarly(p)
  <2>1. Returned
    BY <1>3, <1>0 DEF FailEarly
  <2>2. QED
    BY <1>3, <2>1 DEF FailEarly
<1>4. CASE ProbeSettles(p)
  <2>1. Returned
    BY <1>4, <1>0 DEF ProbeSettles
  <2>2. QED
    BY <1>4, <2>1 DEF ProbeSettles
<1>5. CASE NothingToSync(p)
  <2>1. Returned
    BY <1>5, <1>0 DEF NothingToSync
  <2>2. QED
    BY <1>5, <2>1 DEF NothingToSync
<1>6. CASE ReportOnly(p)
  <2>1. Returned
    BY <1>6, <1>0 DEF ReportOnly
  <2>2. QED
    BY <1>6, <2>1 DEF ReportOnly
<1>7. CASE Connect(p) \/ SendApply(p)
  BY <1>7 DEF Connect, SendApply, TypeOK, PairTypes
<1>8. CASE AgentApplies(p)
  BY <1>8 DEF AgentApplies, AgentResult, TypeOK, PairTypes
<1>9. CASE AgentFails(p)
  <2>1. Returned
    BY <1>9, <1>0 DEF AgentFails
  <2>2. QED
    BY <1>9, <2>1 DEF AgentFails
<1>10. CASE ReplyLost(p)
  <2>1. Returned
    BY <1>10, <1>0 DEF ReplyLost
  <2>2. QED
    BY <1>10, <2>1 DEF ReplyLost
<1>11. CASE RecordResult(p)
  <2>1. CASE pc' = [pc EXCEPT ![p] = "compensate"] /\ UNCHANGED <<attempt, err, changed, result>>
    BY <1>11, <2>1 DEF RecordResult, TypeOK, PairTypes
  <2>2. CASE RunNodeReturns(p, result[p] = "failed", TRUE, result[p])
    <3>1. Returned
      BY <1>11, <2>2, <1>0 DEF RecordResult, TypeOK, PairTypes
    <3>2. QED
      BY <1>11, <3>1 DEF RecordResult
  <2>3. QED
    BY <1>11, <2>1, <2>2, Zenon DEF RecordResult
<1>12. CASE Compensate(p)
  <2>1. Returned
    BY <1>12, <1>0 DEF Compensate
  <2>2. QED
    BY <1>12, <2>1 DEF Compensate
<1>13. CASE Release(p)
  BY <1>13 DEF Release, SlotsAfter, TypeOK, PairTypes
<1>14. QED
  BY <1>1, <1>2, <1>3, <1>4, <1>5, <1>6, <1>7, <1>8, <1>9, <1>10, <1>11, <1>12, <1>13, Zenon
  DEF PairStep

\* Only Launch touches the pairs, only Finish the context and the flags.
LEMMA NodeStepFrame ==
  ASSUME NEW n \in Node, NodeStep(n)
  PROVE  /\ Running
         /\ UNCHANGED <<runVars, attempt, err, changed, result, faults, ghostVars, reverted>>
         /\ Launch(n) \/ UNCHANGED <<pc, sem>>
         /\ Finish(n) \/ UNCHANGED <<ctxVars, nodeChanged>>
         /\ PolicyRollback(n) \/ UNCHANGED rbTodo
         /\ RecordSkip(n) \/ UNCHANGED log
<1> USE DEF nodeOthers, taskVars, rbVars, ctxVars
<1>1. CASE Complete(n) \/ SkipHalted(n) \/ CascadeSkip(n)
  BY <1>1 DEF Complete, SkipHalted, CascadeSkip
<1>2. CASE RecordSkip(n) \/ SkipDone(n) \/ BeginExecute(n)
  BY <1>2 DEF RecordSkip, SkipDone, BeginExecute
<1>3. CASE Launch(n) \/ Finish(n) \/ PolicyRollback(n)
  BY <1>3 DEF Launch, Finish, PolicyRollback
<1>4. QED
  BY <1>1, <1>2, <1>3, Zenon DEF NodeStep

\* The rest of a run: a deadline, a rollback that goes on, or nothing.
Quiet ==
  /\ Running
  /\ UNCHANGED <<runVars, nodeState, nodeChanged, inDegree, cursor, haltExecution, sem, taskVars>>
  /\ UNCHANGED cancelled \/ (opts.timeout /\ cancelled' = TRUE)
  /\ \/ UNCHANGED nodePc
     \/ \E r \in Node : nodePc[r] = "rollingback" /\ nodePc' = [nodePc EXCEPT ![r] = "done"]

\* A step after which a run is running starts it or is one of its own.
LEMMA RunningStep ==
  ASSUME [Next]_vars, phase' = "running"
  PROVE  \/ \E h \in Plan, o \in Options : StartRun(h, o)
         \/ \E n \in Node : NodeStep(n)
         \/ \E p \in Pair : PairStep(p)
         \/ Quiet
<1> USE DEF runVars, Running
<1>1. CASE Return \/ RollbackCommand \/ Crash
  BY <1>1 DEF Return, RollbackCommand, Crash
<1>2. CASE TimeoutFires
  BY <1>2 DEF TimeoutFires, Quiet, nodeVars
<1>3. ASSUME NEW r \in Roller, RollbackStep(r) \/ RollbackDone(r)
      PROVE  Quiet
  <2>1. CASE RollbackStep(r)
    BY <1>3, <2>1 DEF RollbackStep, RollingBack, Quiet, nodeVars, ctxVars
  <2>2. CASE RollbackDone(r)
    <3>1. r # CLI /\ r \in Node
      BY <1>3, <2>2 DEF RollbackDone, Roller
    <3>2. QED
      BY <1>3, <2>2, <3>1 DEF RollbackDone, RollingBack, Quiet, ctxVars
  <2>3. QED
    BY <1>3, <2>1, <2>2
<1>4. CASE UNCHANGED vars
  BY <1>4 DEF vars, Quiet, nodeVars, ctxVars
<1>5. QED
  BY <1>1, <1>2, <1>3, <1>4 DEF Next, Progress

\* A run ends by returning, and then nothing moves until the next command.
LEMMA EndStep ==
  ASSUME [Next]_vars, phase' \in {"ok", "error"}
  PROVE  Return \/ UNCHANGED vars
<1> USE DEF runVars, Running
<1>1. \A h \in Plan, o \in Options : ~StartRun(h, o)
  BY DEF StartRun
<1>2. ~RollbackCommand /\ ~Crash /\ ~TimeoutFires
  BY DEF RollbackCommand, Crash, TimeoutFires
<1>3. \A n \in Node : ~NodeStep(n)
  BY NodeStepFrame
<1>4. \A p \in Pair : ~PairStep(p)
  BY Zenon
  DEF PairStep, CheckCancel, SkipFromHistory, StartAttempts, FailEarly, ProbeSettles, NothingToSync,
      ReportOnly, Connect, SendApply, AgentApplies, AgentFails, ReplyLost, RecordResult, Compensate, Release,
      pairOthers
<1>5. \A r \in Roller : ~RollbackStep(r) /\ ~RollbackDone(r)
  BY DEF RollbackStep, RollbackDone, RollingBack
<1>6. QED
  BY <1>1, <1>2, <1>3, <1>4, <1>5 DEF Next, Progress

-----------------------------------------------------------------------------
(* Slots *)

\* What is to come is a list of different targets.
LEMMA TargetsDiffer ==
  ASSUME NEW n \in Node, NEW j \in DOMAIN Targets(n), NEW k \in DOMAIN Targets(n), j # k
  PROVE  Targets(n)[j] # Targets(n)[k]
BY NodesAssumption DEF Targets

LEMMA TargetsList ==
  ASSUME NEW n \in Node
  PROVE  /\ DOMAIN Targets(n) = 1..Len(Targets(n)) /\ Len(Targets(n)) \in Nat
         /\ \A k \in DOMAIN Targets(n) : <<n, Targets(n)[k]>> \in PairsOf(n)
<1>1. Targets(n) \in Seq(Target)
  BY NodesAssumption DEF Targets, NodeRecord
<1>2. QED
  BY <1>1 DEF PairsOf

\* A target is launched at most once in a run.
LEMMA LaunchInvariant == Spec => []LaunchInv
<1>1. Init => LaunchInv
  BY DEF Init, LaunchInv
<1>2. TypeOK /\ WorkInv /\ WorkInv' /\ LaunchInv /\ [Next]_vars => LaunchInv'
  <2> SUFFICES ASSUME TypeOK, WorkInv, WorkInv', LaunchInv, [Next]_vars, phase' = "running"
               PROVE  LaunchInv'
    BY DEF LaunchInv
  <2> DEFINE AtRest(n) == nodePc[n] \in {"waiting", "ready"} => cursor[n] = 0
             ToCome(n) == nodePc[n] \in {"waiting", "ready", "executing"} =>
                            \A k \in DOMAIN Targets(n) : k > cursor[n] => pc[<<n, Targets(n)[k]>>] = "idle"
  <2>1. ASSUME NEW h \in Plan, NEW o \in Options, StartRun(h, o) PROVE LaunchInv'
    <3>1. \A n \in Node : \A k \in DOMAIN Targets(n) : <<n, Targets(n)[k]>> \in Pair
      BY TargetsList, PairsOfType
    <3>2. QED
      BY <2>1, <3>1 DEF StartRun, LaunchInv
  <2>2. ASSUME Running, \A p \in Pair : pc[p] = "idle" => pc'[p] = "idle", UNCHANGED cursor,
               \A n \in Node : nodePc'[n] \in {"waiting", "ready"} => nodePc[n] \in {"waiting", "ready"},
               \A n \in Node : nodePc'[n] = "executing" => nodePc[n] \in {"ready", "executing"}
        PROVE  LaunchInv'
    <3>1. \A n \in Node : AtRest(n) /\ ToCome(n)
      BY <2>2 DEF LaunchInv, Running
    <3>2. \A n \in Node : \A k \in DOMAIN Targets(n) : <<n, Targets(n)[k]>> \in Pair
      BY TargetsList, PairsOfType
    <3>3. QED
      BY <2>2, <3>1, <3>2 DEF LaunchInv
  <2>3. ASSUME NEW n \in Node, NodeStep(n) PROVE LaunchInv'
    <3>1. Running /\ nodePc \in [Node -> NodePc] /\ cursor \in [Node -> Nat] /\ pc \in [Pair -> PairPc]
      BY <2>3, NodeStepFrame DEF TypeOK, NodeTypes, PairTypes
    <3>2. CASE Launch(n)
      <4> DEFINE c == cursor[n] + 1
      <4>1. /\ nodePc[n] = "executing" /\ UNCHANGED nodePc
            /\ pc' = [pc EXCEPT ![<<n, Targets(n)[c]>>] = "launched"]
            /\ cursor' = [cursor EXCEPT ![n] = c]
        BY <3>2 DEF Launch
      <4>2. c \in DOMAIN Targets(n) /\ cursor[n] \in Nat
        BY <3>1, <3>2, NextTarget, TargetsList DEF Launch, TypeOK
      <4>3. ASSUME NEW m \in Node, nodePc[m] \in {"waiting", "ready", "executing"},
                   NEW k \in DOMAIN Targets(m), k > cursor'[m]
            PROVE  pc'[<<m, Targets(m)[k]>>] = "idle"
        <5>1. k > cursor[m] /\ <<m, Targets(m)[k]>> \in Pair
          BY <3>1, <4>1, <4>2, <4>3, TargetsList, PairsOfType
        <5>2. pc[<<m, Targets(m)[k]>>] = "idle"
          BY <3>1, <4>3, <5>1 DEF LaunchInv, Running
        <5>3. m = n => k # c
          BY <3>1, <4>1, <4>2, <4>3
        <5>4. <<m, Targets(m)[k]>> # <<n, Targets(n)[c]>>
          BY <4>2, <5>3, TargetsDiffer
        <5>5. QED
          BY <3>1, <4>1, <5>1, <5>2, <5>4
      <4>4. \A m \in Node : nodePc[m] \in {"waiting", "ready"} => cursor'[m] = 0
        BY <3>1, <4>1 DEF LaunchInv, Running
      <4>5. QED
        BY <4>1, <4>3, <4>4 DEF LaunchInv
    <3>3. CASE RecordSkip(n)
      <4>1. /\ nodePc[n] = "skipping" /\ UNCHANGED <<nodePc, pc>>
            /\ \A m \in Node : m # n => cursor'[m] = cursor[m]
        BY <3>1, <3>3 DEF RecordSkip, nodeOthers, taskVars
      <4>2. QED
        BY <3>1, <4>1 DEF LaunchInv, Running
    <3>4. CASE Complete(n)
      <4>1. \A m \in Node : nodePc'[m] \in {"waiting", "ready"} => nodePc[m] \in {"waiting", "ready"}
        <5> SUFFICES ASSUME NEW m \in Node, nodePc'[m] \in {"waiting", "ready"}
                     PROVE  nodePc[m] \in {"waiting", "ready"}
          OBVIOUS
        <5>1. CASE Released(m, n)
          <6>1. n \in Incomplete(m)
            BY <3>4, <5>1 DEF Complete, Released, Incomplete
          <6>2. QED
            BY <3>1, <6>1 DEF WorkInv, ScheduleInv, InDegreeCounts, Running
        <5>2. CASE ~Released(m, n)
          BY <3>4, <5>2 DEF Complete
        <5>3. QED
          BY <5>1, <5>2
      <4>2. /\ \A m \in Node : nodePc'[m] = "executing" => nodePc[m] = "executing"
            /\ UNCHANGED <<pc, cursor>>
        BY <3>4 DEF Complete, nodeOthers, taskVars
      <4>3. QED
        BY <2>2, <3>1, <4>1, <4>2
    <3>5. CASE \/ SkipHalted(n) \/ CascadeSkip(n) \/ SkipDone(n) \/ BeginExecute(n) \/ Finish(n)
               \/ PolicyRollback(n)
      <4>1. /\ UNCHANGED <<pc, cursor>>
            /\ \E to \in {"done", "skipping", "executing", "rollback", "rollingback"} :
                 nodePc' = [nodePc EXCEPT ![n] = to] /\ (to = "executing" => nodePc[n] = "ready")
        BY <3>5 DEF SkipHalted, CascadeSkip, SkipDone, BeginExecute, Finish, PolicyRollback,
                    nodeOthers, taskVars
      <4>2. QED
        BY <2>2, <3>1, <4>1
    <3>6. QED
      BY <2>3, <3>2, <3>3, <3>4, <3>5, Zenon DEF NodeStep
  <2>4. ASSUME NEW p \in Pair, PairStep(p) PROVE LaunchInv'
    BY <2>2, <2>4, PairStepFrame DEF pairOthers, nodeVars
  <2>5. CASE Quiet
    <3>1. nodePc \in [Node -> NodePc]
      BY DEF TypeOK, NodeTypes
    <3>2. QED
      BY <2>2, <2>5, <3>1 DEF Quiet, taskVars
  <2>6. QED
    BY <2>1, <2>3, <2>4, <2>5, RunningStep
<1>3. Spec => []WorkInv
  BY WorkInvariant
<1>4. QED
  BY <1>1, <1>2, <1>3, TypeCorrect, PTL DEF Spec

LEMMA HoldingKept ==
  ASSUME SlotsInv, \A p \in Pair : pc'[p] \notin {"idle", "finished"} <=> pc[p] \notin {"idle", "finished"},
         UNCHANGED sem
  PROVE  SlotsInv'
<1>1. Holding' = Holding
  BY DEF Holding
<1>2. QED
  BY <1>1 DEF SlotsInv, SlotsBalanced

\* The next target takes a slot.
LEMMA LaunchSlots ==
  ASSUME TypeOK, WorkInv, LaunchInv, SlotsInv, NEW n \in Node, Launch(n)
  PROVE  SlotsInv'
<1> DEFINE q == <<n, Targets(n)[cursor[n] + 1]>>
<1>1. cursor[n] + 1 \in DOMAIN Targets(n) /\ cursor[n] \in Nat
  BY NextTarget, TargetsList DEF Launch, TypeOK, NodeTypes
<1>2. q \in Pair
  BY <1>1, TargetsList, PairsOfType
<1>3. pc[q] = "idle"
  BY <1>1 DEF Launch, LaunchInv, Running
<1>4. pc' = [pc EXCEPT ![q] = "launched"] /\ sem' = sem + 1 /\ sem < Parallelism
  BY DEF Launch
<1>5. Holding' = Holding \cup {q} /\ q \notin Holding
  BY <1>2, <1>3, <1>4 DEF Holding, TypeOK, PairTypes
<1>6. IsFiniteSet(Holding') /\ Cardinality(Holding') = Cardinality(Holding) + 1
  BY <1>5, FS_AddElement DEF SlotsInv
<1>7. sem \in Int /\ sem' <= Parallelism
  BY <1>4, RunsAssumption DEF TypeOK, PairTypes
<1>8. QED
  BY <1>4, <1>6, <1>7 DEF SlotsInv, SlotsBalanced

\* A pair that is done gives its slot back, and no other.
LEMMA ReleaseSlots ==
  ASSUME TypeOK, SlotsInv, NEW p \in Pair, PairStep(p)
  PROVE  SlotsInv'
<1>1. /\ pc[p] \notin {"idle", "finished"}
      /\ \A q \in Pair : q # p => pc'[q] = pc[q]
  BY PairStepFrame
<1>2. CASE pc'[p] \notin {"idle", "finished"} /\ sem' = sem
  <2>1. \A q \in Pair : pc'[q] \notin {"idle", "finished"} <=> pc[q] \notin {"idle", "finished"}
    BY <1>1, <1>2
  <2>2. QED
    BY <1>2, <2>1, HoldingKept
<1>3. CASE pc'[p] = "finished" /\ sem' = sem - 1
  <2>1. Holding' = Holding \ {p} /\ p \in Holding
    BY <1>1, <1>3 DEF Holding
  <2>2. IsFiniteSet(Holding') /\ Cardinality(Holding') = Cardinality(Holding) - 1
    BY <2>1, FS_RemoveElement DEF SlotsInv
  <2>3. sem - 1 <= Parallelism
    BY RunsAssumption DEF SlotsInv, SlotsBalanced, TypeOK, PairTypes
  <2>4. QED
    BY <1>3, <2>2, <2>3 DEF SlotsInv, SlotsBalanced
<1>4. QED
  BY <1>2, <1>3, PairStepFrame

\* No token of the semaphore is ever lost or given back twice, and no more
\* pairs are at work than the parallelism allows, for every plan.
THEOREM SlotsCorrect == Spec => []SlotsBalanced
<1>1. Init => SlotsInv
  <2> SUFFICES ASSUME Init PROVE SlotsInv
    OBVIOUS
  <2>1. Holding = {} /\ sem = 0
    BY DEF Init, Holding
  <2>2. QED
    BY <2>1, FS_EmptySet, RunsAssumption DEF SlotsInv, SlotsBalanced
<1>2. TypeOK /\ WorkInv /\ LaunchInv /\ SlotsInv /\ [Next]_vars => SlotsInv'
  <2> SUFFICES ASSUME TypeOK, WorkInv, LaunchInv, SlotsInv, [Next]_vars PROVE SlotsInv'
    OBVIOUS
  <2>1. ASSUME NEW h \in Plan, NEW o \in Options, StartRun(h, o) PROVE SlotsInv'
    <3>1. Holding' = {} /\ sem' = 0
      BY <2>1 DEF StartRun, Holding
    <3>2. QED
      BY <3>1, FS_EmptySet, RunsAssumption DEF SlotsInv, SlotsBalanced
  <2>2. CASE Crash
    <3>1. Holding' = {} /\ sem' = 0
      BY <2>2 DEF Crash, Holding
    <3>2. QED
      BY <3>1, FS_EmptySet, RunsAssumption DEF SlotsInv, SlotsBalanced
  <2>3. CASE TimeoutFires \/ Return \/ RollbackCommand \/ UNCHANGED vars
    <3>1. UNCHANGED <<pc, sem>>
      BY <2>3 DEF TimeoutFires, Return, RollbackCommand, vars, taskVars
    <3>2. QED
      BY <3>1, HoldingKept
  <2>4. ASSUME NEW r \in Roller, RollbackStep(r) \/ RollbackDone(r) PROVE SlotsInv'
    <3>1. UNCHANGED <<pc, sem>>
      BY <2>4 DEF RollbackStep, RollbackDone, taskVars
    <3>2. QED
      BY <3>1, HoldingKept
  <2>5. ASSUME NEW n \in Node, NodeStep(n) PROVE SlotsInv'
    BY <2>5, NodeStepFrame, LaunchSlots, HoldingKept
  <2>6. QED
    BY <2>1, <2>2, <2>3, <2>4, <2>5, ReleaseSlots DEF Next, Progress
<1>3. SlotsInv => SlotsBalanced
  BY DEF SlotsInv
<1>4. QED
  BY <1>1, <1>2, <1>3, TypeCorrect, WorkInvariant, LaunchInvariant, PTL DEF Spec

-----------------------------------------------------------------------------
(* Verdicts *)

\* Verdicts are final: what a step of a node's goroutine settles was pending.
LEMMA NodeStepVerdict ==
  ASSUME WorkInv, NEW n \in Node, NodeStep(n)
  PROVE  /\ \A m \in Node : nodeState[m] # "pending" =>
              nodeState'[m] = nodeState[m] /\ nodeChanged'[m] = nodeChanged[m]
         /\ haltExecution => haltExecution'
<1>1. /\ Running
      /\ nodeState \in [Node -> {"pending", "applied", "failed", "skipped"}]
      /\ nodeChanged \in [Node -> BOOLEAN]
      /\ \A m \in Node : nodePc[m] \in {"ready", "executing"} => nodeState[m] = "pending"
  BY NodeStepFrame DEF WorkInv, ScheduleInv, TypeOK, NodeTypes, VerdictInv, Running
<1>2. CASE SkipHalted(n) \/ CascadeSkip(n)
  <2>1. /\ nodePc[n] = "ready" /\ nodeState' = [nodeState EXCEPT ![n] = "skipped"]
        /\ UNCHANGED <<nodeChanged, haltExecution>>
    BY <1>2 DEF SkipHalted, CascadeSkip, nodeOthers, ctxVars
  <2>2. QED
    BY <1>1, <2>1
<1>3. CASE Finish(n)
  <2>1. /\ nodePc[n] = "executing" /\ haltExecution' = (haltExecution \/ Halts(n))
        /\ \A m \in Node : m # n => nodeState'[m] = nodeState[m] /\ nodeChanged'[m] = nodeChanged[m]
    BY <1>1, <1>3 DEF Finish
  <2>2. QED
    BY <1>1, <2>1
<1>4. CASE \/ Complete(n) \/ RecordSkip(n) \/ SkipDone(n) \/ BeginExecute(n) \/ Launch(n)
           \/ PolicyRollback(n)
  <2>1. UNCHANGED <<nodeState, nodeChanged, haltExecution>>
    BY <1>4 DEF Complete, RecordSkip, SkipDone, BeginExecute, Launch, PolicyRollback, nodeOthers, ctxVars
  <2>2. QED
    BY <2>1
<1>5. QED
  BY <1>2, <1>3, <1>4, Zenon DEF NodeStep

LEMMA HaltInvariant == Spec => []HaltInv
<1>1. Init => HaltInv
  BY DEF Init, HaltInv
<1>2. TypeOK /\ WorkInv /\ HaltInv /\ [Next]_vars => HaltInv'
  <2> SUFFICES ASSUME TypeOK, WorkInv, HaltInv, [Next]_vars, phase' = "running"
               PROVE  HaltInv'
    BY DEF HaltInv
  <2>1. ASSUME NEW h \in Plan, NEW o \in Options, StartRun(h, o) PROVE HaltInv'
    BY <2>1 DEF StartRun, HaltInv
  <2>2. ASSUME NEW n \in Node, NodeStep(n) PROVE HaltInv'
    <3>1. phase = "running" /\ UNCHANGED <<opts, result>>
      BY <2>2, NodeStepFrame DEF Running, runVars
    <3>2. \A m \in Node : nodeState[m] = "failed" => nodeState'[m] = "failed"
      BY <2>2, NodeStepVerdict
    <3>3. CASE Finish(n)
      <4>1. /\ haltExecution' = (haltExecution \/ Halts(n))
            /\ cancelled' = (cancelled \/ Cancels(n))
            /\ Failed(n) => nodeState'[n] = "failed"
        BY <3>3 DEF Finish, TypeOK, NodeTypes
      <4>2. QED
        BY <3>1, <3>2, <4>1 DEF HaltInv, Halts, Cancels
    <3>4. CASE UNCHANGED ctxVars
      BY <3>1, <3>2, <3>4 DEF HaltInv, ctxVars
    <3>5. QED
      BY <2>2, <3>3, <3>4, NodeStepFrame
  <2>3. ASSUME NEW p \in Pair, PairStep(p) PROVE HaltInv'
    <3>1. UNCHANGED <<phase, opts, nodeState, haltExecution, cancelled>> /\ Running
      BY <2>3, PairStepFrame DEF pairOthers, runVars, nodeVars, ctxVars
    <3>2. \A q \in Pair : result'[q] = "abandoned" => result[q] = "abandoned" \/ cancelled
      BY <2>3, PairStepFrame
    <3>3. QED
      BY <3>1, <3>2 DEF HaltInv, Running
  <2>4. CASE Quiet
    <3>1. /\ UNCHANGED <<phase, opts, nodeState, haltExecution, result>> /\ Running
          /\ UNCHANGED cancelled \/ (opts.timeout /\ cancelled' = TRUE)
      BY <2>4 DEF Quiet, runVars, taskVars
    <3>2. QED
      BY <3>1 DEF HaltInv, Running
  <2>5. QED
    BY <2>1, <2>2, <2>3, <2>4, RunningStep
<1>3. QED
  BY <1>1, <1>2, TypeCorrect, WorkInvariant, PTL DEF Spec

\* What is known when all nodes have reported.
LEMMA ReturnVerdicts ==
  ASSUME WorkInv, HaltInv, Return
  PROVE  /\ \A n \in Node : nodeState[n] \in {"applied", "failed", "skipped"}
         /\ Erred <=> \E n \in Node : nodeState[n] = "failed"
         /\ \A p \in Pair : err[p] => nodeState[p[1]] = "failed"
<1>1. phase = "running" /\ \A n \in Node : nodePc[n] = "completed"
  BY DEF Return, AllReported, Running
<1>2. \A n \in Node : nodeState[n] \in {"applied", "failed", "skipped"}
  BY <1>1 DEF WorkInv, ScheduleInv, VerdictInv, TypeOK, NodeTypes
<1>3. ASSUME NEW p \in Pair, err[p] PROVE p[1] \in Node /\ nodeState[p[1]] = "failed"
  BY <1>1, <1>2, <1>3 DEF WorkInv, ErrInv, Pair
<1>4. ASSUME NEW n \in Node, nodeState[n] = "failed" PROVE \E p \in Pair : err[p]
  BY <1>1, <1>4, PairsOfType DEF WorkInv, ErrInv
<1>5. QED
  BY <1>2, <1>3, <1>4 DEF Erred

\* The exit status of a run is ok exactly when no pair ended in an error, and
\* an error always belongs to a node that failed.
THEOREM VerdictsCorrect == Spec => []VerdictMatchesPairs
<1>1. Init => VerdictMatchesPairs
  BY DEF Init, VerdictMatchesPairs
<1>2. WorkInv /\ HaltInv /\ VerdictMatchesPairs /\ [Next]_vars => VerdictMatchesPairs'
  <2> SUFFICES ASSUME WorkInv, HaltInv, VerdictMatchesPairs, [Next]_vars, phase' \in {"ok", "error"}
               PROVE  VerdictMatchesPairs'
    BY DEF VerdictMatchesPairs
  <2>1. CASE Return
    <3>1. /\ Running /\ phase' = (IF Erred THEN "error" ELSE "ok")
          /\ UNCHANGED <<nodeState, haltExecution, err>>
      BY <2>1 DEF Return, nodeVars, ctxVars, taskVars
    <3>2. haltExecution => Erred
      BY <2>1, <3>1, ReturnVerdicts DEF HaltInv, Running
    <3>3. QED
      BY <2>1, <3>1, <3>2, ReturnVerdicts DEF VerdictMatchesPairs, Erred
  <2>2. CASE UNCHANGED vars
    BY <2>2 DEF vars, runVars, nodeVars, ctxVars, taskVars, VerdictMatchesPairs
  <2>3. QED
    BY <2>1, <2>2, EndStep
<1>3. QED
  BY <1>1, <1>2, WorkInvariant, HaltInvariant, PTL DEF Spec

-----------------------------------------------------------------------------
(* Skips and conditions *)

LEMMA WhenType ==
  ASSUME NEW n \in Node
  PROVE  NodeDef[n].whenNode \in Node \cup {NoNode} /\ NodeDef[n].whenChanged \in BOOLEAN
BY NodesAssumption DEF NodeRecord

\* A reason to skip that is based on verdicts stays one: verdicts are final.
LEMMA ReasonsStay ==
  ASSUME TypeOK, NEW m \in Node,
         haltExecution => haltExecution',
         \A n \in Node : nodeState[n] # "pending" =>
           nodeState'[n] = nodeState[n] /\ nodeChanged'[n] = nodeChanged[n]
  PROVE  SettledReason(m) => SettledReason(m)'
<1>1. DependsOn(m) \subseteq Node /\ NodeDef[m].whenNode \in Node \cup {NoNode}
  BY DegreeType, WhenType
<1>2. DependencyDown(m) => DependencyDown(m)'
  BY <1>1 DEF DependencyDown
<1>3. WhenUnmet(m) /\ nodeState[NodeDef[m].whenNode] # "pending" =>
        WhenUnmet(m)' /\ nodeState'[NodeDef[m].whenNode] # "pending"
  BY <1>1 DEF WhenUnmet
<1>4. QED
  BY <1>2, <1>3 DEF SettledReason, TooEarly, WhenUnordered

\* When a node is released a node it waits for has its verdict.
LEMMA WhenSettled ==
  ASSUME WorkInv, phase = "running", NEW n \in Node, nodePc[n] = "ready",
         NodeDef[n].whenNode # NoNode
  PROVE  /\ NodeDef[n].whenNode \in Node
         /\ ~WhenUnordered(n) => nodeState[NodeDef[n].whenNode] # "pending"
BY NoneIncomplete, WhenType DEF WorkInv, WhenUnordered

LEMMA FlagInvariant == Spec => []FlagInv
<1>1. Init => FlagInv
  BY DEF Init, FlagInv
<1>2. TypeOK /\ WorkInv /\ FlagInv /\ [Next]_vars => FlagInv'
  <2> SUFFICES ASSUME TypeOK, WorkInv, FlagInv, [Next]_vars, phase' = "running" PROVE FlagInv'
    BY DEF FlagInv
  <2>1. ASSUME NEW h \in Plan, NEW o \in Options, StartRun(h, o) PROVE FlagInv'
    BY <2>1 DEF StartRun, FlagInv
  <2>2. CASE phase = "running" /\ UNCHANGED <<nodeState, nodeChanged>>
    BY <2>2 DEF FlagInv
  <2>3. ASSUME NEW n \in Node, NodeStep(n) PROVE FlagInv'
    <3>1. phase = "running" /\ (Finish(n) \/ UNCHANGED nodeChanged)
      BY <2>3, NodeStepFrame DEF Running
    <3>2. \A m \in Node : nodeState'[m] = "pending" => nodeState[m] = "pending"
      BY <2>3, NodeStepVerdict
    <3>3. CASE Finish(n)
      <4>1. /\ nodeState'[n] # "pending"
            /\ \A m \in Node : m # n => nodeChanged'[m] = nodeChanged[m]
        BY <3>3 DEF Finish, TypeOK, NodeTypes
      <4>2. QED
        BY <3>1, <3>2, <4>1 DEF FlagInv
    <3>4. QED
      BY <3>1, <3>2, <3>3 DEF FlagInv
  <2>4. ASSUME NEW p \in Pair, PairStep(p) PROVE FlagInv'
    BY <2>2, <2>4, PairStepFrame DEF pairOthers, nodeVars, Running
  <2>5. CASE Quiet
    BY <2>2, <2>5 DEF Quiet, Running
  <2>6. QED
    BY <2>1, <2>3, <2>4, <2>5, RunningStep
<1>3. QED
  BY <1>1, <1>2, TypeCorrect, WorkInvariant, PTL DEF Spec

\* A condition that is not met when its node is released stays so, or the
\* node is too early: a flag that is up belongs to a node with a verdict.
LEMMA UnmetSettled ==
  ASSUME WorkInv, FlagInv, phase = "running", NEW n \in Node, nodePc[n] = "ready", WhenUnmet(n)
  PROVE  nodeState[NodeDef[n].whenNode] # "pending" \/ TooEarly(n)
<1> DEFINE w == NodeDef[n].whenNode
<1>1. w # NoNode /\ nodeChanged[w] # NodeDef[n].whenChanged
  BY DEF WhenUnmet
<1>2. w \in Node /\ nodeChanged[w] \in BOOLEAN /\ NodeDef[n].whenChanged \in BOOLEAN
  BY <1>1, WhenType DEF WorkInv, ScheduleInv, TypeOK, NodeTypes
<1>3. CASE ~WhenUnordered(n)
  BY <1>1, <1>3, WhenSettled
<1>4. CASE WhenUnordered(n) /\ NodeDef[n].whenChanged
  BY <1>1, <1>4 DEF TooEarly
<1>5. CASE ~NodeDef[n].whenChanged
  <2>1. nodeChanged[w]
    BY <1>1, <1>2, <1>5, Zenon
  <2>2. QED
    BY <1>2, <2>1 DEF FlagInv
<1>6. QED
  BY <1>3, <1>4, <1>5

LEMMA SkipInvariant == Spec => []SkipInv
<1>1. Init => SkipInv
  BY DEF Init, SkipInv
<1>2. TypeOK /\ WorkInv /\ FlagInv /\ SkipInv /\ [Next]_vars => SkipInv'
  <2> SUFFICES ASSUME TypeOK, WorkInv, FlagInv, SkipInv, [Next]_vars, phase' = "running"
               PROVE  SkipInv'
    BY DEF SkipInv
  <2>1. ASSUME NEW h \in Plan, NEW o \in Options, StartRun(h, o) PROVE SkipInv'
    BY <2>1 DEF StartRun, SkipInv
  <2>2. ASSUME NEW n \in Node, NodeStep(n) PROVE SkipInv'
    <3>1. phase = "running" /\ UNCHANGED phase
      BY <2>2, NodeStepFrame DEF Running, runVars
    <3>2. \A m \in Node : SettledReason(m) => SettledReason(m)'
      BY <2>2, NodeStepVerdict, ReasonsStay
    <3>3. CASE SkipHalted(n)
      <4>1. haltExecution'
        BY <3>3 DEF SkipHalted, nodeOthers, ctxVars
      <4>2. QED
        BY <4>1 DEF SkipInv, SettledReason
    <3>4. CASE CascadeSkip(n)
      <4>1. nodePc[n] = "ready" /\ nodeState' = [nodeState EXCEPT ![n] = "skipped"] /\ SkipCause(n)
        BY <3>4 DEF CascadeSkip
      <4>2. SettledReason(n)
        BY <3>1, <4>1, UnmetSettled DEF SkipCause, SettledReason
      <4>3. \A m \in Node : m # n => nodeState'[m] = nodeState[m]
        BY <4>1 DEF TypeOK, NodeTypes
      <4>4. \A m \in Node : nodeState'[m] = "skipped" => SettledReason(m)
        BY <3>1, <4>2, <4>3 DEF SkipInv
      <4>5. QED
        BY <3>1, <3>2, <4>4 DEF SkipInv
    <3>5. CASE Finish(n)
      <4>1. \A m \in Node : nodeState'[m] = "skipped" => nodeState[m] = "skipped"
        BY <3>5 DEF Finish, TypeOK, NodeTypes
      <4>2. QED
        BY <3>1, <3>2, <4>1 DEF SkipInv
    <3>6. CASE UNCHANGED nodeState
      BY <3>1, <3>2, <3>6 DEF SkipInv
    <3>7. UNCHANGED nodeState \/ SkipHalted(n) \/ CascadeSkip(n) \/ Finish(n)
      BY <2>2, Zenon
      DEF NodeStep, Complete, RecordSkip, SkipDone, BeginExecute, Launch, PolicyRollback
    <3>8. QED
      BY <3>3, <3>4, <3>5, <3>6, <3>7
  <2>3. CASE phase = "running" /\ UNCHANGED <<nodeState, nodeChanged, haltExecution>>
    BY <2>3 DEF SkipInv, SettledReason, DependencyDown, WhenUnmet, TooEarly, WhenUnordered
  <2>4. ASSUME NEW p \in Pair, PairStep(p) PROVE SkipInv'
    BY <2>3, <2>4, PairStepFrame DEF pairOthers, nodeVars, ctxVars, Running
  <2>5. CASE Quiet
    BY <2>3, <2>5 DEF Quiet, Running
  <2>6. QED
    BY <2>1, <2>2, <2>4, <2>5, RunningStep
<1>3. QED
  BY <1>1, <1>2, TypeCorrect, WorkInvariant, FlagInvariant, PTL DEF Spec

\* In every plan that is accepted, a node a run has skipped still has the
\* reason to be skipped when the run has ended, unless it asks for the change
\* of a node it does not wait for.
THEOREM SkipsCorrect == Spec => []SkipHasCause
<1>1. Init => SkipHasCause
  BY DEF Init, SkipHasCause
<1>2. SkipInv /\ SkipHasCause /\ [Next]_vars => SkipHasCause'
  <2> SUFFICES ASSUME SkipInv, SkipHasCause, [Next]_vars, phase' \in {"ok", "error"}
               PROVE  SkipHasCause'
    BY DEF SkipHasCause
  <2>1. CASE Return
    <3>1. phase = "running" /\ UNCHANGED <<nodeState, nodeChanged, haltExecution>>
      BY <2>1 DEF Return, nodeVars, ctxVars, Running
    <3>2. QED
      BY <3>1 DEF SkipInv, SettledReason, SkipHasCause, DependencyDown, WhenUnmet, TooEarly,
                       WhenUnordered
  <2>2. CASE UNCHANGED vars
    BY <2>2 DEF vars, runVars, nodeVars, ctxVars, SkipHasCause, DependencyDown, WhenUnmet,
                   TooEarly, WhenUnordered
  <2>3. QED
    BY <2>1, <2>2, EndStep
<1>3. QED
  BY <1>1, <1>2, SkipInvariant, PTL DEF Spec

\* A node that executes does so under its condition, from its first target
\* to its last, if it waits for the node the condition names; if not, a change
\* that is asked for has taken place.
THEOREM ConditionsCorrect == Spec => []WhenHolds
<1>1. Init => WhenHolds
  BY DEF Init, WhenHolds
<1> DEFINE w(m) == NodeDef[m].whenNode
           Settled(m) == nodeState[w(m)] = "applied" /\ nodeChanged[w(m)] = NodeDef[m].whenChanged
           Asked(m) == WhenUnordered(m) /\ (NodeDef[m].whenChanged => nodeChanged[w(m)])
<1>2. TypeOK /\ WorkInv /\ WorkInv' /\ FlagInv /\ WhenHolds /\ [Next]_vars => WhenHolds'
  <2> SUFFICES ASSUME TypeOK, WorkInv, WorkInv', FlagInv, WhenHolds, [Next]_vars,
                      NEW m \in Node, nodePc'[m] = "executing", w(m) # NoNode
               PROVE  Settled(m)' \/ Asked(m)'
    BY DEF WhenHolds
  <2>1. phase' = "running"
    BY DEF WorkInv, ScheduleInv, GoroutinesInv
  <2>2. w(m) \in Node /\ NodeDef[m].whenChanged \in BOOLEAN
    BY WhenType
  <2>3. ~\E h \in Plan, o \in Options : StartRun(h, o)
    BY DEF StartRun
  <2>4. ASSUME NEW n \in Node, NodeStep(n) PROVE Settled(m)' \/ Asked(m)'
    <3>1. phase = "running"
      BY <2>4, NodeStepFrame DEF Running
    <3>2. Settled(m) \/ Asked(m)
      <4>1. CASE nodePc[m] = "executing"
        BY <4>1 DEF WhenHolds
      <4>2. CASE nodePc[m] # "executing"
        <5>1. BeginExecute(n) /\ m = n
          BY <2>4, <4>2, <2>1
          DEF NodeStep, Complete, SkipHalted, CascadeSkip, RecordSkip, SkipDone, BeginExecute, Launch,
              Finish, PolicyRollback, TypeOK, NodeTypes
        <5>2. nodePc[m] = "ready" /\ ~WhenUnmet(m) /\ ~DependencyDown(m)
          BY <5>1 DEF BeginExecute, SkipCause
        <5>3. nodeChanged[w(m)] = NodeDef[m].whenChanged
          BY <5>2 DEF WhenUnmet
        <5>4. CASE ~WhenUnordered(m)
          <6>1. nodeState[w(m)] \notin {"pending", "failed", "skipped"}
            BY <3>1, <5>2, <5>4, WhenSettled DEF DependencyDown, WhenUnordered
          <6>2. QED
            BY <2>2, <5>3, <6>1 DEF TypeOK, NodeTypes
        <5>5. QED
          BY <5>3, <5>4, Zenon
      <4>3. QED
        BY <4>1, <4>2
    <3>3. CASE nodeState[w(m)] # "pending"
      <4>1. nodeState'[w(m)] = nodeState[w(m)] /\ nodeChanged'[w(m)] = nodeChanged[w(m)]
        BY <2>2, <2>4, <3>3, NodeStepVerdict
      <4>2. QED
        BY <3>2, <4>1, Zenon DEF WhenUnordered
    <3>4. CASE nodeState[w(m)] = "pending"
      <4>1. ~nodeChanged[w(m)]
        BY <2>2, <3>1, <3>4 DEF FlagInv
      <4>2. WhenUnordered(m) /\ ~NodeDef[m].whenChanged
        BY <3>2, <3>4, <4>1
      <4>3. QED
        BY <4>2 DEF WhenUnordered
    <3>5. QED
      BY <3>3, <3>4
  <2>5. CASE UNCHANGED <<nodePc, nodeState, nodeChanged>>
    BY <2>5 DEF WhenHolds, WhenUnordered
  <2>6. ASSUME NEW p \in Pair, PairStep(p) PROVE UNCHANGED <<nodePc, nodeState, nodeChanged>>
    BY <2>6, PairStepFrame DEF pairOthers, nodeVars
  <2>7. CASE Quiet
    <3>1. nodePc[m] = "executing" /\ UNCHANGED <<nodeState, nodeChanged>>
      BY <2>7 DEF Quiet, TypeOK, NodeTypes
    <3>2. QED
      BY <3>1 DEF WhenHolds, WhenUnordered
  <2>8. QED
    BY <2>1, <2>3, <2>4, <2>5, <2>6, <2>7, RunningStep
<1>3. QED
  BY <1>1, <1>2, TypeCorrect, WorkInvariant, FlagInvariant, PTL DEF Spec
=============================================================================
