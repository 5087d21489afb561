------------------------ MODULE Orchestrator_proofs -------------------------
(***************************************************************************)
(* Theorems about the orchestrator for every plan, every number of targets *)
(* and every value of the other constants.                                 *)
(***************************************************************************)
EXTENDS Orchestrator, FiniteSetTheorems, SequenceTheorems, TLAPS

-----------------------------------------------------------------------------
(* What the operators the actions are built from return *)

\* Recording keeps the log a log, and keeps every id.
LEMMA RecordedType ==
  ASSUME log \in Seq(RowType), NEW row \in RowType, Recorded(row)
  PROVE  /\ log' \in Seq(RowType)
         /\ 1..Len(log) \subseteq 1..Len(log')
<1>1. CASE log' = Append(log, row)
  BY <1>1, AppendProperties
<1>2. CASE log' = log
  BY <1>2
<1>3. QED
  BY <1>1, <1>2 DEF Recorded, Record

\* So do the sets of ids that point into it.
LEMMA LogTypesKept ==
  ASSUME LogTypes, log' \in Seq(RowType), 1..Len(log) \subseteq 1..Len(log'),
         UNCHANGED rbVars
  PROVE  LogTypes'
  BY DEF LogTypes, rbVars

\* A row written for a pair of the running plan is a row.
LEMMA RowIsRow ==
  ASSUME CommandTypes, NEW n \in Node, NEW t \in Target, NEW status \in Status,
         NEW c \in BOOLEAN
  PROVE  Row(n, t, status, c) \in RowType
  BY RunsAssumption DEF CommandTypes, Row, RowType

\* However runNode returns, the pair's variables keep their types.
LEMMA ReturnsType ==
  ASSUME PairTypes, NEW p \in Pair, NEW e \in BOOLEAN, NEW c \in BOOLEAN,
         NEW status \in PairResult, RunNodeReturns(p, e, c, status), UNCHANGED sem
  PROVE  PairTypes'
<1>1. CASE /\ pc' = [pc EXCEPT ![p] = "attempt"]
           /\ attempt' = [attempt EXCEPT ![p] = @ + 1]
           /\ UNCHANGED <<err, changed, result>>
  BY <1>1 DEF PairTypes, PairPc
<1>2. CASE /\ pc' = [pc EXCEPT ![p] = "returned"]
           /\ err' = [err EXCEPT ![p] = e]
           /\ changed' = [changed EXCEPT ![p] = c]
           /\ result' = [result EXCEPT ![p] = status]
           /\ UNCHANGED attempt
  BY <1>2 DEF PairTypes, PairPc
<1>3. QED
  BY <1>1, <1>2, Zenon DEF RunNodeReturns

LEMMA BumpType ==
  ASSUME NEW f \in [Pair -> Nat], NEW p \in Pair, NEW when \in BOOLEAN
  PROVE  Bump(f, p, when) \in [Pair -> Nat]
  BY DEF Bump

LEMMA FaultType ==
  ASSUME CommandTypes, Fault
  PROVE  faults' \in Nat
  BY DEF CommandTypes, Fault

LEMMA PastProbeType ==
  ASSUME CommandTypes, NEW p \in Pair, PastProbe(p)
  PROVE  faults' \in Nat
  BY FaultType DEF PastProbe, CommandTypes

\* The rows a rollback is to undo exist.
LEMMA ChooseRollbackType ==
  ASSUME LogTypes, NEW r \in Roller, ChooseRollback(r), UNCHANGED <<log, reverted>>
  PROVE  LogTypes'
<1>1. RollbackPlan \subseteq 1..Len(log)
  BY DEF LogTypes, RollbackPlan, LastRun
<1>2. rbTodo' = [rbTodo EXCEPT ![r] = RollbackPlan] \/ rbTodo' = [rbTodo EXCEPT ![r] = {}]
  BY Zenon DEF ChooseRollback
<1>3. QED
  BY <1>1, <1>2 DEF LogTypes

\* A target in a node's list makes a pair with it.
LEMMA ListedPair ==
  ASSUME NEW n \in Node, NEW i \in 1..Len(Targets(n))
  PROVE  Targets(n)[i] \in Target /\ <<n, Targets(n)[i]>> \in Pair
<1>1. Targets(n) \in Seq(Target)
  BY NodesAssumption DEF Targets, NodeRecord
<1>2. QED
  BY <1>1 DEF Pair

LEMMA NextTarget ==
  ASSUME NodeTypes, NEW n \in Node, cursor[n] < Len(Targets(n))
  PROVE  cursor[n] + 1 \in 1..Len(Targets(n))
<1>1. Targets(n) \in Seq(Target)
  BY NodesAssumption DEF Targets, NodeRecord
<1>2. cursor[n] \in Nat /\ Len(Targets(n)) \in Nat
  BY <1>1 DEF NodeTypes
<1>3. QED
  BY <1>2

LEMMA DegreeType ==
  ASSUME NEW n \in Node
  PROVE  /\ DependsOn(n) \subseteq Node
         /\ IsFiniteSet(DependsOn(n))
         /\ Cardinality(DependsOn(n)) \in Nat
<1>1. DependsOn(n) \subseteq Node
  BY NodesAssumption DEF DependsOn, NodeRecord
<1>2. QED
  BY <1>1, NodesAssumption, FS_Subset, FS_CardinalityType

-----------------------------------------------------------------------------
(* Types *)

LEMMA InitType == Init => TypeOK
<1> SUFFICES ASSUME Init PROVE TypeOK
  OBVIOUS
<1>1. CommandTypes
  BY DEF Init, CommandTypes
<1>2. NodeTypes
  BY DegreeType DEF Init, NodeTypes, NodePc
<1>3. PairTypes
  BY DEF Init, PairTypes, PairPc, PairResult
<1>4. LogTypes
  BY DEF Init, LogTypes
<1>5. GhostTypes
  BY DEF Init, GhostTypes
<1>6. QED
  BY <1>1, <1>2, <1>3, <1>4, <1>5 DEF TypeOK

LEMMA StartRunType ==
  ASSUME TypeOK, NEW h \in Plan, NEW o \in Options, StartRun(h, o)
  PROVE  TypeOK'
<1>1. CommandTypes'
  <2>1. runs' \in Nat /\ UNCHANGED <<crashes, faults>>
    BY DEF TypeOK, StartRun, CommandTypes
  <2>2. QED
    BY <2>1 DEF TypeOK, StartRun, CommandTypes
<1>2. NodeTypes'
  BY DegreeType DEF StartRun, NodeTypes, NodePc
<1>3. PairTypes'
  BY DEF StartRun, PairTypes, PairPc, PairResult
<1>4. LogTypes' /\ GhostTypes'
  BY DEF TypeOK, StartRun, LogTypes, GhostTypes, ghostVars, rbVars
<1>5. QED
  BY <1>1, <1>2, <1>3, <1>4 DEF TypeOK

\* The other commands and the main loop.
LEMMA CommandsType ==
  ASSUME TypeOK, TimeoutFires \/ Return \/ RollbackCommand \/ Crash
  PROVE  TypeOK'
<1> USE DEF TypeOK, CommandTypes, NodeTypes, PairTypes, GhostTypes,
            runVars, nodeVars, ctxVars, taskVars, ghostVars
<1>1. CASE TimeoutFires
  BY <1>1 DEF TimeoutFires, rbVars, LogTypes
<1>2. CASE Return
  BY <1>2 DEF Return, rbVars, LogTypes
<1>3. CASE RollbackCommand
  <2>1. LogTypes'
    BY <1>3, ChooseRollbackType DEF RollbackCommand, Roller
  <2>2. QED
    BY <1>3, <2>1 DEF RollbackCommand
<1>4. CASE Crash
  <2>1. PICK undone \in SUBSET {i \in DOMAIN log : BeingUndone(i)} : reverted' = reverted \cup undone
    BY <1>4 DEF Crash
  <2>2. LogTypes'
    <3>1. undone \subseteq 1..Len(log)
      BY <2>1 DEF LogTypes
    <3>2. log' = log /\ rbTodo' = [r \in Roller |-> {}]
      BY <1>4 DEF Crash
    <3>3. QED
      BY <2>1, <3>1, <3>2 DEF LogTypes
  <2>3. GhostTypes'
    BY <1>4 DEF Crash
  <2>4. QED
    BY <1>4, <2>2, <2>3 DEF Crash, NodePc, PairPc
<1>5. QED
  BY <1>1, <1>2, <1>3, <1>4

\* The goroutine of a node.
LEMMA NodeStepType ==
  ASSUME TypeOK, NEW n \in Node, NodeStep(n)
  PROVE  TypeOK'
<1> USE DEF TypeOK, CommandTypes, NodeTypes, PairTypes, GhostTypes, NodePc,
            nodeOthers, runVars, ctxVars, taskVars, ghostVars
<1>1. CASE Complete(n)
  BY <1>1 DEF Complete, LogTypes, rbVars
<1>2. CASE SkipHalted(n)
  BY <1>2 DEF SkipHalted, LogTypes, rbVars
<1>3. CASE CascadeSkip(n)
  BY <1>3 DEF CascadeSkip, LogTypes, rbVars
<1>4. CASE RecordSkip(n)
  <2> DEFINE t == Targets(n)[cursor[n] + 1]
  <2>1. t \in Target
    BY <1>4, ListedPair, NextTarget DEF RecordSkip
  <2>2. Row(n, t, "skipped", FALSE) \in RowType
    BY <2>1, RowIsRow DEF Status
  <2>3. LogTypes'
    BY <1>4, <2>2, RecordedType, LogTypesKept DEF RecordSkip, LogTypes
  <2>4. QED
    BY <1>4, <2>3 DEF RecordSkip
<1>5. CASE SkipDone(n)
  BY <1>5 DEF SkipDone, LogTypes, rbVars
<1>6. CASE BeginExecute(n)
  BY <1>6 DEF BeginExecute, LogTypes, rbVars
<1>7. CASE Launch(n)
  <2>1. NodeTypes' /\ CommandTypes' /\ GhostTypes'
    BY <1>7 DEF Launch
  <2>2. PairTypes'
    BY <1>7, ListedPair, NextTarget DEF Launch, PairPc
  <2>3. LogTypes'
    BY <1>7 DEF Launch, LogTypes, rbVars
  <2>4. QED
    BY <2>1, <2>2, <2>3
<1>8. CASE Finish(n)
  BY <1>8 DEF Finish, LogTypes, rbVars
<1>9. CASE PolicyRollback(n)
  <2>1. LogTypes'
    BY <1>9, ChooseRollbackType DEF PolicyRollback, Roller
  <2>2. QED
    BY <1>9, <2>1 DEF PolicyRollback
<1>10. QED
  BY <1>1, <1>2, <1>3, <1>4, <1>5, <1>6, <1>7, <1>8, <1>9, Zenon DEF NodeStep

\* The goroutine of a pair.
LEMMA PairStepType ==
  ASSUME TypeOK, NEW p \in Pair, PairStep(p)
  PROVE  TypeOK'
<1> USE DEF TypeOK, GhostTypes, pairOthers, runVars, ctxVars, ghostVars
<1>1. CASE CheckCancel(p)
  BY <1>1 DEF CheckCancel, CommandTypes, NodeTypes, PairTypes, LogTypes, PairPc, PairResult,
              nodeVars, rbVars
<1>2. CASE SkipFromHistory(p)
  BY <1>2 DEF SkipFromHistory, CommandTypes, NodeTypes, PairTypes, LogTypes, PairPc, PairResult,
              nodeVars, rbVars
<1>3. CASE StartAttempts(p)
  BY <1>3 DEF StartAttempts, CommandTypes, NodeTypes, PairTypes, LogTypes, PairPc,
              nodeVars, rbVars
<1>4. CASE FailEarly(p)
  <2>1. PairTypes'
    BY <1>4, ReturnsType DEF FailEarly, PairResult
  <2>2. CommandTypes'
    BY <1>4, FaultType DEF FailEarly, CommandTypes
  <2>3. QED
    BY <1>4, <2>1, <2>2 DEF FailEarly, NodeTypes, LogTypes, nodeVars, rbVars
<1>5. CASE ProbeSettles(p)
  <2>1. PICK inSync \in BOOLEAN : RunNodeReturns(p, FALSE, ~inSync, "satisfied")
    BY <1>5 DEF ProbeSettles
  <2>2. PairTypes'
    BY <1>5, <2>1, ReturnsType DEF ProbeSettles, PairResult
  <2>3. QED
    BY <1>5, <2>2 DEF ProbeSettles, CommandTypes, NodeTypes, LogTypes, nodeVars, rbVars
<1>6. CASE NothingToSync(p)
  <2>1. PairTypes'
    BY <1>6, ReturnsType DEF NothingToSync, PairResult
  <2>2. CommandTypes'
    BY <1>6, PastProbeType DEF NothingToSync, CommandTypes
  <2>3. QED
    BY <1>6, <2>1, <2>2 DEF NothingToSync, NodeTypes, LogTypes, nodeVars, rbVars
<1>7. CASE ReportOnly(p)
  <2>1. PairTypes'
    BY <1>7, ReturnsType DEF ReportOnly, PairResult
  <2>2. CommandTypes'
    BY <1>7, PastProbeType DEF ReportOnly, CommandTypes
  <2>3. QED
    BY <1>7, <2>1, <2>2 DEF ReportOnly, NodeTypes, LogTypes, nodeVars, rbVars
<1>8. CASE Connect(p)
  <2>1. CommandTypes'
    BY <1>8, PastProbeType DEF Connect, CommandTypes
  <2>2. QED
    BY <1>8, <2>1 DEF Connect, NodeTypes, PairTypes, LogTypes, PairPc, nodeVars, rbVars
<1>9. CASE AgentApplies(p)
  <2>1. PICK status \in AgentResult(p[1]) :
          /\ result' = [result EXCEPT ![p] = status]
          /\ applies' = Bump(applies, p, status = "success")
    BY <1>9 DEF AgentApplies
  <2>2. GhostTypes'
    BY <1>9, <2>1, BumpType DEF AgentApplies
  <2>3. PairTypes'
    BY <1>9, <2>1 DEF AgentApplies, AgentResult, PairTypes, PairPc, PairResult
  <2>4. QED
    BY <1>9, <2>2, <2>3 DEF AgentApplies, CommandTypes, NodeTypes, LogTypes, nodeVars, rbVars
<1>10. CASE AgentFails(p)
  <2>1. PICK ran \in BOOLEAN : applies' = Bump(applies, p, ran) /\ lost' = Bump(lost, p, ran)
    BY <1>10 DEF AgentFails
  <2>2. GhostTypes'
    BY <2>1, BumpType
  <2>3. PairTypes'
    BY <1>10, ReturnsType DEF AgentFails, PairResult
  <2>4. CommandTypes'
    BY <1>10, FaultType DEF AgentFails, CommandTypes
  <2>5. QED
    BY <1>10, <2>2, <2>3, <2>4 DEF AgentFails, NodeTypes, LogTypes, nodeVars, rbVars
<1>11. CASE ReplyLost(p)
  <2>1. GhostTypes'
    BY <1>11, BumpType DEF ReplyLost
  <2>2. PairTypes'
    BY <1>11, ReturnsType DEF ReplyLost, PairResult
  <2>3. CommandTypes'
    BY <1>11, FaultType DEF ReplyLost, CommandTypes
  <2>4. QED
    BY <1>11, <2>1, <2>2, <2>3 DEF ReplyLost, NodeTypes, LogTypes, nodeVars, rbVars
<1>12. CASE RecordResult(p)
  <2> DEFINE row == Row(p[1], p[2], RowStatus(result[p]), Type(p[1]) = "file.sync")
  <2>1. result[p] \in {"success", "partial", "failed"}
    BY <1>12 DEF RecordResult, PairTypes
  <2>2. row \in RowType
    BY <2>1, RowIsRow DEF RowStatus, Status, Pair
  <2>3. LogTypes'
    BY <1>12, <2>2, RecordedType, LogTypesKept DEF RecordResult, LogTypes
  <2>4. GhostTypes'
    BY <1>12, BumpType DEF RecordResult
  <2>5. PairTypes'
    <3>1. CASE /\ pc' = [pc EXCEPT ![p] = "compensate"]
               /\ UNCHANGED <<attempt, err, changed, result>>
      BY <1>12, <3>1 DEF RecordResult, PairTypes, PairPc
    <3>2. CASE RunNodeReturns(p, result[p] = "failed", TRUE, result[p])
      BY <1>12, <3>2, <2>1, ReturnsType DEF RecordResult, PairResult
    <3>3. QED
      BY <1>12, <3>1, <3>2, Zenon DEF RecordResult
  <2>6. QED
    BY <1>12, <2>3, <2>4, <2>5 DEF RecordResult, CommandTypes, NodeTypes, nodeVars, rbVars
<1>13. CASE Compensate(p)
  <2>1. PairTypes'
    BY <1>13, ReturnsType DEF Compensate, PairResult
  <2>2. QED
    BY <1>13, <2>1 DEF Compensate, CommandTypes, NodeTypes, LogTypes, nodeVars, rbVars
<1>14. CASE SendApply(p)
  <2>1. PairTypes'
    BY <1>14 DEF SendApply, PairTypes, PairPc
  <2>2. QED
    BY <1>14, <2>1 DEF SendApply, CommandTypes, NodeTypes, LogTypes, nodeVars, rbVars
<1>15. CASE Release(p)
  BY <1>15 DEF Release, SlotsAfter, CommandTypes, NodeTypes, PairTypes, LogTypes, PairPc,
               nodeVars, rbVars
<1>16. QED
  BY <1>1, <1>2, <1>3, <1>4, <1>5, <1>6, <1>7, <1>8, <1>9, <1>10, <1>11, <1>12, <1>13, <1>14, <1>15,
     Zenon
  DEF PairStep

\* RollbackLast.
LEMMA RollbackType ==
  ASSUME TypeOK, NEW r \in Roller, RollbackStep(r) \/ RollbackDone(r)
  PROVE  TypeOK'
<1> USE DEF TypeOK, CommandTypes, NodeTypes, PairTypes, GhostTypes,
            runVars, nodeVars, ctxVars, taskVars, ghostVars
<1>1. CASE RollbackStep(r)
  <2>1. PICK i \in DOMAIN log :
          /\ IsNext(i, rbTodo[r])
          /\ rbTodo' = [rbTodo EXCEPT ![r] = RestOf(r, i)]
          /\ \/ /\ Recorded([log[i] EXCEPT !.status = "skipped", !.run = runs])
                /\ UNCHANGED <<reverted, faults>>
             \/ /\ Recorded([log[i] EXCEPT !.status = "rolled_back", !.run = runs])
                /\ reverted' = reverted \cup {i}
                /\ UNCHANGED faults
             \/ UNCHANGED <<log, reverted, faults>>
             \/ /\ Fault
                /\ UNCHANGED reverted \/ reverted' = reverted \cup {i}
                /\ UNCHANGED log
    BY <1>1, Zenon DEF RollbackStep
  <2>2. i \in 1..Len(log) /\ log[i] \in RowType
    BY DEF LogTypes
  <2>3. /\ [log[i] EXCEPT !.status = "skipped", !.run = runs] \in RowType
        /\ [log[i] EXCEPT !.status = "rolled_back", !.run = runs] \in RowType
    BY <2>2 DEF RowType, Status
  <2>4. log' \in Seq(RowType) /\ 1..Len(log) \subseteq 1..Len(log')
    BY <2>1, <2>3, RecordedType DEF LogTypes
  <2>5. reverted' = reverted \/ reverted' = reverted \cup {i}
    BY <2>1
  <2>6. LogTypes'
    BY <2>1, <2>2, <2>4, <2>5 DEF LogTypes, RestOf
  <2>7. faults' \in Nat
    BY <2>1, FaultType
  <2>8. QED
    BY <1>1, <2>6, <2>7 DEF RollbackStep
<1>2. CASE RollbackDone(r)
  BY <1>2 DEF RollbackDone, NodePc, LogTypes, rbVars
<1>3. QED
  BY <1>1, <1>2

LEMMA StutterType == TypeOK /\ UNCHANGED vars => TypeOK'
  BY DEF TypeOK, CommandTypes, NodeTypes, PairTypes, LogTypes, GhostTypes, vars,
         runVars, nodeVars, ctxVars, taskVars, ghostVars, rbVars

\* The variables stay in their types: the orchestrator never writes a row
\* with a status or a row id that does not exist.
THEOREM TypeCorrect == Spec => []TypeOK
<1>1. TypeOK /\ [Next]_vars => TypeOK'
  BY StartRunType, CommandsType, NodeStepType, PairStepType, RollbackType, StutterType
  DEF Next, Progress
<1>2. QED
  BY InitType, <1>1, PTL DEF Spec

-----------------------------------------------------------------------------
(* Dependencies *)

\* Goroutines of nodes exist only while a run is running.
GoroutinesInv ==
  \A n \in Node : IF phase = "running" THEN nodePc[n] # "off"
                  ELSE nodePc[n] \in {"off", "completed"}

\* A node has its verdict exactly from the step that decides it.
VerdictInv ==
  phase = "running" =>
    \A n \in Node : nodeState[n] = "pending" <=> nodePc[n] \in {"waiting", "ready", "executing"}

ScheduleInv ==
  TypeOK /\ GoroutinesInv /\ InDegreeCounts /\ VerdictInv /\ DependenciesFirst

\* Once no dependency is incomplete, all have completed and have a verdict.
LEMMA NoneIncomplete ==
  ASSUME ScheduleInv, phase = "running", NEW n \in Node, nodePc[n] # "waiting"
  PROVE  /\ Incomplete(n) = {}
         /\ \A d \in DependsOn(n) : nodePc[d] = "completed" /\ nodeState[d] # "pending"
<1>1. Incomplete(n) = {}
  BY DEF ScheduleInv, InDegreeCounts
<1>2. \A d \in DependsOn(n) : nodePc[d] = "completed"
  BY <1>1 DEF Incomplete
<1>3. QED
  BY <1>1, <1>2, DegreeType DEF ScheduleInv, VerdictInv

\* A step that moves no goroutine to or from "waiting" and "completed", and
\* changes no verdict of a completed node, keeps what the counts and the
\* dependencies say.
LEMMA CountsKept ==
  ASSUME ScheduleInv, UNCHANGED <<phase, inDegree>>,
         \A n \in Node : nodePc'[n] = "waiting" <=> nodePc[n] = "waiting",
         \A n \in Node : nodePc'[n] = "completed" <=> nodePc[n] = "completed"
  PROVE  InDegreeCounts'
<1>1. \A n \in Node : Incomplete(n)' = Incomplete(n)
  BY DegreeType DEF Incomplete
<1>2. QED
  BY <1>1 DEF ScheduleInv, InDegreeCounts

LEMMA DependenciesKept ==
  ASSUME ScheduleInv,
         \A n \in Node : nodePc[n] = "completed" =>
            nodePc'[n] = "completed" /\ nodeState'[n] = nodeState[n],
         \A n \in Node : nodePc'[n] \in {"executing", "rollback", "rollingback"} =>
            nodePc[n] \in {"executing", "rollback", "rollingback"}
  PROVE  DependenciesFirst'
  BY DegreeType DEF ScheduleInv, DependenciesFirst

\* A step that leaves nodes alone keeps the invariant.
LEMMA NodesUntouched ==
  ASSUME ScheduleInv, TypeOK', UNCHANGED <<phase, nodeVars>>
  PROVE  ScheduleInv'
<1> USE DEF nodeVars
<1>1. InDegreeCounts'
  BY CountsKept
<1>2. DependenciesFirst'
  BY DependenciesKept
<1>3. QED
  BY <1>1, <1>2 DEF ScheduleInv, GoroutinesInv, VerdictInv

LEMMA InitSchedule == Init => ScheduleInv
  BY InitType DEF Init, ScheduleInv, GoroutinesInv, InDegreeCounts, VerdictInv, DependenciesFirst

LEMMA StartRunSchedule ==
  ASSUME ScheduleInv, TypeOK', NEW h \in Plan, NEW o \in Options, StartRun(h, o)
  PROVE  ScheduleInv'
<1>1. nodePc' = [n \in Node |-> IF DependsOn(n) = {} THEN "ready" ELSE "waiting"]
  BY DEF StartRun
<1>2. \A n \in Node : Incomplete(n)' = DependsOn(n)
  BY <1>1, DegreeType DEF Incomplete
<1>3. InDegreeCounts'
  BY <1>1, <1>2 DEF StartRun, InDegreeCounts
<1>4. GoroutinesInv' /\ VerdictInv' /\ DependenciesFirst'
  BY <1>1 DEF StartRun, GoroutinesInv, VerdictInv, DependenciesFirst
<1>5. QED
  BY <1>3, <1>4 DEF ScheduleInv

\* The main loop: a report removes its node from the incomplete dependencies
\* of the dependants, as their in-degrees count it out.
LEMMA CompleteSchedule ==
  ASSUME ScheduleInv, TypeOK', NEW n \in Node, Complete(n)
  PROVE  ScheduleInv'
<1>1. phase = "running" /\ phase' = "running" /\ nodePc[n] = "done"
  BY DEF Complete, Running, nodeOthers, runVars
<1>2. \A m \in Node : nodePc'[m] = IF m = n THEN "completed"
                                   ELSE IF Released(m, n) THEN "ready" ELSE nodePc[m]
  BY DEF Complete
<1>3. n \notin DependsOn(n)
  BY <1>1, NoneIncomplete
<1>4. \A m \in Node : Incomplete(m)' = Incomplete(m) \ {n}
  <2> SUFFICES ASSUME NEW m \in Node PROVE Incomplete(m)' = Incomplete(m) \ {n}
    OBVIOUS
  <2>1. \A d \in DependsOn(m) : nodePc'[d] # "completed" <=> nodePc[d] # "completed" /\ d # n
    <3> SUFFICES ASSUME NEW d \in DependsOn(m)
                 PROVE  nodePc'[d] # "completed" <=> nodePc[d] # "completed" /\ d # n
      OBVIOUS
    <3>1. d \in Node
      BY DegreeType
    <3>2. CASE d = n
      BY <3>1, <3>2, <1>2
    <3>3. CASE d # n /\ Released(d, n)
      <4>1. Incomplete(d) # {}
        BY <3>1, <3>3, <1>1 DEF Released, Incomplete
      <4>2. nodePc[d] = "waiting"
        BY <4>1, <3>1, <1>1 DEF ScheduleInv, InDegreeCounts
      <4>3. QED
        BY <4>2, <3>1, <3>3, <1>2
    <3>4. CASE d # n /\ ~Released(d, n)
      BY <3>1, <3>4, <1>2
    <3>5. QED
      BY <3>2, <3>3, <3>4
  <2>2. QED
    BY <2>1 DEF Incomplete
<1>5. \A m \in Node : n \in Incomplete(m) <=> n \in DependsOn(m)
  BY <1>1 DEF Incomplete
<1>6. \A m \in Node :
        /\ IsFiniteSet(Incomplete(m))
        /\ Cardinality(Incomplete(m)) \in Nat
        /\ Cardinality(Incomplete(m) \ {n}) =
             IF n \in DependsOn(m) THEN Cardinality(Incomplete(m)) - 1
             ELSE Cardinality(Incomplete(m))
        /\ Cardinality(Incomplete(m) \ {n}) = 0 <=> Incomplete(m) \ {n} = {}
  <2> SUFFICES ASSUME NEW m \in Node
               PROVE  /\ IsFiniteSet(Incomplete(m))
                      /\ Cardinality(Incomplete(m)) \in Nat
                      /\ Cardinality(Incomplete(m) \ {n}) =
                           IF n \in DependsOn(m) THEN Cardinality(Incomplete(m)) - 1
                           ELSE Cardinality(Incomplete(m))
                      /\ Cardinality(Incomplete(m) \ {n}) = 0 <=> Incomplete(m) \ {n} = {}
    OBVIOUS
  <2>1. IsFiniteSet(Incomplete(m))
    BY DegreeType, FS_Subset DEF Incomplete
  <2>2. QED
    BY <2>1, <1>5, FS_RemoveElement, FS_CardinalityType, FS_EmptySet
<1>7. \A m \in Node : inDegree'[m] = IF n \in DependsOn(m) THEN inDegree[m] - 1 ELSE inDegree[m]
  BY DEF Complete
<1>8. InDegreeCounts'
  <2> SUFFICES ASSUME NEW m \in Node
               PROVE  /\ inDegree'[m] = Cardinality(Incomplete(m)')
                      /\ nodePc'[m] = "waiting" <=> Incomplete(m)' # {}
    BY <1>1 DEF InDegreeCounts
  <2>1. inDegree[m] = Cardinality(Incomplete(m)) /\ (nodePc[m] = "waiting" <=> Incomplete(m) # {})
    BY <1>1 DEF ScheduleInv, InDegreeCounts
  <2>2. inDegree'[m] = Cardinality(Incomplete(m)')
    BY <2>1, <1>4, <1>6, <1>7
  <2>3. CASE m = n
    <3>1. Incomplete(m)' = {}
      BY <2>3, <2>1, <1>1, <1>4
    <3>2. nodePc'[m] = "completed"
      BY <2>3, <1>2
    <3>3. QED
      BY <2>2, <3>1, <3>2
  <2>4. CASE m # n /\ n \in DependsOn(m)
    <3>1. nodePc[m] = "waiting"
      BY <2>1, <2>4, <1>5
    <3>2. inDegree[m] = 1 <=> Incomplete(m) \ {n} = {}
      <4>1. /\ Cardinality(Incomplete(m)) \in Nat
            /\ Cardinality(Incomplete(m) \ {n}) = Cardinality(Incomplete(m)) - 1
            /\ Cardinality(Incomplete(m) \ {n}) = 0 <=> Incomplete(m) \ {n} = {}
        BY <2>4, <1>6
      <4>2. QED
        BY <4>1, <2>1
    <3>3. nodePc'[m] = IF inDegree[m] = 1 THEN "ready" ELSE "waiting"
      BY <3>1, <2>4, <1>2 DEF Released
    <3>4. Incomplete(m)' = Incomplete(m) \ {n}
      BY <1>4
    <3>5. QED
      BY <2>2, <3>2, <3>3, <3>4
  <2>5. CASE m # n /\ n \notin DependsOn(m)
    BY <2>5, <2>1, <1>2, <1>4, <1>5 DEF Released
  <2>6. QED
    BY <2>2, <2>3, <2>4, <2>5
<1>9. \A m \in Node : Released(m, n) => nodePc[m] = "waiting"
  BY <1>1, <1>5 DEF Released, ScheduleInv, InDegreeCounts
<1>10. UNCHANGED nodeState
  BY DEF Complete
<1>11. GoroutinesInv' /\ VerdictInv'
  BY <1>1, <1>2, <1>9, <1>10 DEF ScheduleInv, GoroutinesInv, VerdictInv
<1>12. DependenciesFirst'
  BY <1>2, <1>9, <1>10, DependenciesKept, NoneIncomplete
<1>13. QED
  BY <1>8, <1>11, <1>12 DEF ScheduleInv

\* The goroutine of a node: only BeginExecute looks at the dependencies.
LEMMA NodeStepSchedule ==
  ASSUME ScheduleInv, TypeOK', NEW n \in Node, NodeStep(n)
  PROVE  ScheduleInv'
<1> USE DEF nodeOthers, runVars
<1>1. nodePc \in [Node -> NodePc] /\ nodeState \in [Node -> {"pending", "applied", "failed", "skipped"}]
  BY DEF ScheduleInv, TypeOK, NodeTypes
<1>2. CASE Complete(n)
  BY <1>2, CompleteSchedule
<1>3. ASSUME NEW from \in {"ready", "executing"}, NEW to \in {"done", "skipping", "rollback"},
             NEW verdict \in {"applied", "failed", "skipped"},
             Running, nodePc[n] = from, to = "rollback" => from = "executing",
             nodePc' = [nodePc EXCEPT ![n] = to],
             nodeState' = [nodeState EXCEPT ![n] = verdict],
             UNCHANGED <<phase, inDegree>>
      PROVE  ScheduleInv'
  <2>1. InDegreeCounts'
    BY <1>1, <1>3, CountsKept
  <2>2. DependenciesFirst'
    BY <1>1, <1>3, DependenciesKept
  <2>3. GoroutinesInv' /\ VerdictInv'
    BY <1>1, <1>3 DEF ScheduleInv, GoroutinesInv, VerdictInv, Running
  <2>4. QED
    BY <2>1, <2>2, <2>3 DEF ScheduleInv
<1>4. ASSUME NEW from \in {"skipping", "rollback", "rollingback"}, NEW to \in {"done", "rollingback"},
             Running, nodePc[n] = from, to = "rollingback" => from = "rollback",
             nodePc' = [nodePc EXCEPT ![n] = to],
             UNCHANGED <<phase, inDegree, nodeState>>
      PROVE  ScheduleInv'
  <2>1. InDegreeCounts'
    BY <1>1, <1>4, CountsKept
  <2>2. DependenciesFirst'
    BY <1>1, <1>4, DependenciesKept
  <2>3. GoroutinesInv' /\ VerdictInv'
    BY <1>1, <1>4 DEF ScheduleInv, GoroutinesInv, VerdictInv, Running
  <2>4. QED
    BY <2>1, <2>2, <2>3 DEF ScheduleInv
<1>5. CASE SkipHalted(n)
  BY <1>5, <1>3 DEF SkipHalted
<1>6. CASE CascadeSkip(n)
  BY <1>6, <1>3 DEF CascadeSkip
<1>7. CASE RecordSkip(n) \/ Launch(n)
  <2>1. UNCHANGED <<phase, nodeState, nodePc, inDegree>>
    BY <1>7 DEF RecordSkip, Launch
  <2>2. InDegreeCounts' /\ DependenciesFirst'
    BY <2>1, CountsKept, DependenciesKept
  <2>3. QED
    BY <2>1, <2>2 DEF ScheduleInv, GoroutinesInv, VerdictInv
<1>8. CASE SkipDone(n)
  BY <1>8, <1>4 DEF SkipDone
<1>9. CASE BeginExecute(n)
  <2>1. /\ phase = "running" /\ nodePc[n] = "ready" /\ ~DependencyDown(n)
        /\ nodePc' = [nodePc EXCEPT ![n] = "executing"]
        /\ UNCHANGED <<phase, inDegree, nodeState>>
    BY <1>9 DEF BeginExecute, SkipCause, Running
  <2>2. \A d \in DependsOn(n) : nodePc[d] = "completed" /\ nodeState[d] = "applied"
    <3>1. \A d \in DependsOn(n) : nodePc[d] = "completed" /\ nodeState[d] # "pending"
      BY <2>1, NoneIncomplete
    <3>2. \A d \in DependsOn(n) : nodeState[d] \notin {"failed", "skipped"}
      BY <2>1 DEF DependencyDown
    <3>3. QED
      BY <3>1, <3>2, <1>1, DegreeType
  <2>3. InDegreeCounts'
    BY <1>1, <2>1, CountsKept
  <2>4. DependenciesFirst'
    <3> SUFFICES ASSUME NEW m \in Node, nodePc'[m] \in {"executing", "rollback", "rollingback"},
                        NEW d \in DependsOn(m)
                 PROVE  nodePc'[d] = "completed" /\ nodeState'[d] = "applied"
      BY DEF DependenciesFirst
    <3>1. d \in Node
      BY DegreeType
    <3>2. nodePc[d] = "completed" /\ nodeState[d] = "applied"
      BY <2>1, <2>2, <1>1 DEF ScheduleInv, DependenciesFirst
    <3>3. QED
      BY <3>1, <3>2, <2>1, <1>1
  <2>5. GoroutinesInv' /\ VerdictInv'
    BY <1>1, <2>1 DEF ScheduleInv, GoroutinesInv, VerdictInv
  <2>6. QED
    BY <2>3, <2>4, <2>5 DEF ScheduleInv
<1>10. CASE Finish(n)
  <2>1. PICK to \in {"done", "rollback"}, verdict \in {"applied", "failed"} :
          /\ nodePc' = [nodePc EXCEPT ![n] = to]
          /\ nodeState' = [nodeState EXCEPT ![n] = verdict]
    BY <1>10 DEF Finish
  <2>2. QED
    BY <1>10, <2>1, <1>3 DEF Finish
<1>11. CASE PolicyRollback(n)
  BY <1>11, <1>4 DEF PolicyRollback
<1>12. QED
  BY <1>2, <1>5, <1>6, <1>7, <1>8, <1>9, <1>10, <1>11, Zenon DEF NodeStep

\* The end of a command, and the rollback that precedes a node's report.
LEMMA CommandsSchedule ==
  ASSUME ScheduleInv, TypeOK', TimeoutFires \/ Return \/ RollbackCommand \/ Crash
  PROVE  ScheduleInv'
<1>1. CASE TimeoutFires
  BY <1>1, NodesUntouched DEF TimeoutFires, runVars
<1>2. CASE Return \/ RollbackCommand
  <2>1. phase' # "running" /\ UNCHANGED nodeVars
    BY <1>2 DEF Return, RollbackCommand
  <2>2. \A n \in Node : nodePc[n] \in {"off", "completed"}
    BY <1>2 DEF Return, AllReported, RollbackCommand, ScheduleInv, GoroutinesInv
  <2>3. QED
    BY <2>1, <2>2
    DEF nodeVars, ScheduleInv, GoroutinesInv, InDegreeCounts, VerdictInv, DependenciesFirst
<1>3. CASE Crash
  BY <1>3 DEF Crash, ScheduleInv, GoroutinesInv, InDegreeCounts, VerdictInv, DependenciesFirst
<1>4. QED
  BY <1>1, <1>2, <1>3

LEMMA RollbackSchedule ==
  ASSUME ScheduleInv, TypeOK', NEW r \in Roller, RollbackStep(r) \/ RollbackDone(r)
  PROVE  ScheduleInv'
<1>1. CASE RollbackStep(r)
  BY <1>1, NodesUntouched DEF RollbackStep, runVars
<1>2. CASE RollbackDone(r) /\ r = CLI
  <2>1. phase = "rollback" /\ phase' = "idle" /\ UNCHANGED <<nodePc, nodeState, inDegree>>
    BY <1>2 DEF RollbackDone, RollingBack
  <2>2. QED
    BY <2>1 DEF ScheduleInv, GoroutinesInv, InDegreeCounts, VerdictInv, DependenciesFirst
<1>3. CASE RollbackDone(r) /\ r # CLI
  <2>1. /\ r \in Node /\ phase = "running" /\ nodePc[r] = "rollingback"
        /\ nodePc' = [nodePc EXCEPT ![r] = "done"]
        /\ UNCHANGED <<phase, nodeState, inDegree>>
    BY <1>3 DEF RollbackDone, RollingBack, Roller, Running
  <2>2. nodePc \in [Node -> NodePc]
    BY DEF ScheduleInv, TypeOK, NodeTypes
  <2>3. InDegreeCounts'
    BY <2>1, <2>2, CountsKept
  <2>4. DependenciesFirst'
    BY <2>1, <2>2, DependenciesKept
  <2>5. QED
    BY <2>1, <2>2, <2>3, <2>4 DEF ScheduleInv, GoroutinesInv, VerdictInv
<1>4. QED
  BY <1>1, <1>2, <1>3

LEMMA ScheduleNext == ScheduleInv /\ TypeOK' /\ [Next]_vars => ScheduleInv'
<1> SUFFICES ASSUME ScheduleInv, TypeOK', [Next]_vars PROVE ScheduleInv'
  OBVIOUS
<1>1. ASSUME NEW p \in Pair, PairStep(p) PROVE ScheduleInv'
  <2>1. UNCHANGED <<runVars, nodeVars>>
    BY <1>1, Zenon
    DEF PairStep, CheckCancel, SkipFromHistory, StartAttempts, FailEarly, ProbeSettles, NothingToSync,
        ReportOnly, Connect, SendApply, AgentApplies, AgentFails, ReplyLost, RecordResult, Compensate, Release,
        pairOthers
  <2>2. QED
    BY <2>1, NodesUntouched DEF runVars
<1>2. CASE UNCHANGED vars
  BY <1>2, NodesUntouched DEF vars, runVars
<1>3. QED
  BY <1>1, <1>2, StartRunSchedule, NodeStepSchedule, CommandsSchedule, RollbackSchedule
  DEF Next, Progress

\* The counting of the main loop is exact, whatever the graph and whatever
\* the order of the reports: a node is released when, and only when, the last
\* of its dependencies has reported.
THEOREM CountsCorrect == Spec => []InDegreeCounts
<1>1. Spec => []ScheduleInv
  BY TypeCorrect, InitSchedule, ScheduleNext, PTL DEF Spec
<1>2. ScheduleInv => InDegreeCounts
  BY DEF ScheduleInv
<1>3. QED
  BY <1>1, <1>2, PTL

\* No node executes before every node it depends on has been applied.
THEOREM DependenciesRespected == Spec => []DependenciesFirst
<1>1. Spec => []ScheduleInv
  BY TypeCorrect, InitSchedule, ScheduleNext, PTL DEF Spec
<1>2. ScheduleInv => DependenciesFirst
  BY DEF ScheduleInv
<1>3. QED
  BY <1>1, <1>2, PTL
=============================================================================
