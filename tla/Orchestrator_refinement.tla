---------------------- MODULE Orchestrator_refinement -----------------------
(***************************************************************************)
(* The orchestrator implements PlanExecution: every step of it is a step   *)
(* of the promise or leaves the verdicts and the outcome alone.            *)
(***************************************************************************)
EXTENDS Orchestrator_proofs

\* A pair goroutine is at work only for a node that is executing and lists
\* the pair's target.
ActiveInv ==
  \A p \in Pair : pc[p] \notin {"idle", "finished"} =>
    phase = "running" /\ p \in PairsOf(p[1]) /\ nodePc[p[1]] = "executing"

\* Errors and failed nodes go together.
ErrInv ==
  phase = "running" =>
    /\ \A p \in Pair : err[p] =>
         /\ p \in PairsOf(p[1])
         /\ nodePc[p[1]] \notin {"waiting", "ready"}
         /\ nodeState[p[1]] \in {"pending", "failed"}
    /\ \A n \in Node : nodeState[n] = "failed" => \E p \in PairsOf(n) : err[p]

WorkInv == ScheduleInv /\ ActiveInv /\ ErrInv

LEMMA PairsOfType ==
  ASSUME NEW n \in Node
  PROVE  PairsOf(n) \subseteq Pair /\ \A p \in PairsOf(n) : p[1] = n
<1>1. Targets(n) \in Seq(Target)
  BY NodesAssumption DEF Targets, NodeRecord
<1>2. QED
  BY <1>1 DEF PairsOf, Pair

\* What a step of a pair's goroutine may do to the pairs.
LEMMA PairStepShape ==
  ASSUME TypeOK, NEW p \in Pair, PairStep(p)
  PROVE  /\ phase = "running" /\ pc[p] \notin {"idle", "finished"}
         /\ UNCHANGED <<runVars, nodeVars>>
         /\ \A q \in Pair : q # p => pc'[q] = pc[q] /\ err'[q] = err[q]
<1> USE DEF Running, pairOthers
<1>1. \A e, c, status : RunNodeReturns(p, e, c, status) =>
        \A q \in Pair : q # p => pc'[q] = pc[q] /\ err'[q] = err[q]
  BY DEF RunNodeReturns, TypeOK, PairTypes
<1>2. CASE CheckCancel(p) \/ SkipFromHistory(p) \/ StartAttempts(p)
  BY <1>2 DEF CheckCancel, SkipFromHistory, StartAttempts, TypeOK, PairTypes
<1>3. CASE FailEarly(p) \/ ProbeSettles(p) \/ NothingToSync(p) \/ ReportOnly(p)
  BY <1>3, <1>1 DEF FailEarly, ProbeSettles, NothingToSync, ReportOnly
<1>4. CASE Connect(p) \/ SendApply(p) \/ AgentApplies(p) \/ Release(p)
  BY <1>4 DEF Connect, SendApply, AgentApplies, Release, TypeOK, PairTypes
<1>5. CASE AgentFails(p) \/ ReplyLost(p) \/ Compensate(p)
  BY <1>5, <1>1 DEF AgentFails, ReplyLost, Compensate
<1>6. CASE RecordResult(p)
  <2>1. \/ pc' = [pc EXCEPT ![p] = "compensate"] /\ UNCHANGED err
        \/ \E e \in BOOLEAN : RunNodeReturns(p, e, TRUE, result[p])
    BY <1>6 DEF RecordResult
  <2>2. \A q \in Pair : q # p => pc'[q] = pc[q] /\ err'[q] = err[q]
    BY <2>1, <1>1 DEF TypeOK, PairTypes
  <2>3. QED
    BY <1>6, <2>2 DEF RecordResult
<1>7. QED
  BY <1>2, <1>3, <1>4, <1>5, <1>6, Zenon DEF PairStep

LEMMA InitWork == Init => WorkInv
  BY InitSchedule DEF Init, WorkInv, ActiveInv, ErrInv

LEMMA PairStepWork ==
  ASSUME WorkInv, ScheduleInv', NEW p \in Pair, PairStep(p)
  PROVE  WorkInv'
<1>1. /\ phase = "running" /\ pc[p] \notin {"idle", "finished"}
      /\ UNCHANGED <<phase, nodePc, nodeState>>
      /\ \A q \in Pair : q # p => pc'[q] = pc[q] /\ err'[q] = err[q]
  BY PairStepShape DEF WorkInv, ScheduleInv, runVars, nodeVars
<1>2. p \in PairsOf(p[1]) /\ nodePc[p[1]] = "executing" /\ p[1] \in Node
  BY <1>1 DEF WorkInv, ActiveInv, Pair
<1>3. nodeState[p[1]] = "pending"
  BY <1>1, <1>2 DEF WorkInv, ScheduleInv, VerdictInv
<1>4. ActiveInv'
  BY <1>1, <1>2 DEF WorkInv, ActiveInv
<1>5. ErrInv'
  <2>1. ASSUME NEW q \in Pair, err'[q]
        PROVE  /\ q \in PairsOf(q[1])
               /\ nodePc'[q[1]] \notin {"waiting", "ready"}
               /\ nodeState'[q[1]] \in {"pending", "failed"}
    BY <2>1, <1>1, <1>2, <1>3 DEF WorkInv, ErrInv
  <2>2. ASSUME NEW n \in Node, nodeState'[n] = "failed"
        PROVE  \E q \in PairsOf(n) : err'[q]
    <3>1. PICK q \in PairsOf(n) : err[q]
      BY <2>2, <1>1 DEF WorkInv, ErrInv
    <3>2. q \in Pair /\ q[1] = n
      BY PairsOfType
    <3>3. q # p
      BY <3>2, <2>2, <1>1, <1>3
    <3>4. QED
      BY <3>1, <3>2, <3>3, <1>1
  <2>3. QED
    BY <2>1, <2>2 DEF ErrInv
<1>6. QED
  BY <1>4, <1>5 DEF WorkInv

\* A node that is not executing has no pair at work.
LEMMA NodeStepWork ==
  ASSUME WorkInv, ScheduleInv', NEW n \in Node, NodeStep(n)
  PROVE  WorkInv'
<1> USE DEF nodeOthers, runVars, taskVars, Running
<1>1. /\ nodePc \in [Node -> NodePc]
      /\ nodeState \in [Node -> {"pending", "applied", "failed", "skipped"}]
      /\ pc \in [Pair -> PairPc] /\ err \in [Pair -> BOOLEAN]
      /\ \A p \in Pair : p[1] \in Node
  BY DEF WorkInv, ScheduleInv, TypeOK, NodeTypes, PairTypes, Pair
<1>2. CASE Complete(n)
  <2>1. phase = "running" /\ nodePc[n] = "done" /\ UNCHANGED <<phase, pc, err, nodeState>>
    BY <1>2 DEF Complete
  <2>2. \A m \in Node : nodePc[m] \notin {"waiting", "done"} => nodePc'[m] = nodePc[m]
    <3> SUFFICES ASSUME NEW m \in Node, nodePc[m] \notin {"waiting", "done"}
                 PROVE  nodePc'[m] = nodePc[m]
      OBVIOUS
    <3>1. n \notin DependsOn(m)
      BY <2>1, NoneIncomplete DEF WorkInv
    <3>2. QED
      BY <1>2, <3>1, <2>1 DEF Complete, Released
  <2>3. \A m \in Node : nodePc'[m] \in {"waiting", "ready"} => nodePc[m] \in {"waiting", "ready"}
    <3> SUFFICES ASSUME NEW m \in Node, nodePc'[m] \in {"waiting", "ready"}
                 PROVE  nodePc[m] \in {"waiting", "ready"}
      OBVIOUS
    <3>1. CASE nodePc[m] = "done"
      <4>1. n \notin DependsOn(m)
        BY <3>1, <2>1, NoneIncomplete DEF WorkInv
      <4>2. QED
        BY <1>2, <4>1, <3>1 DEF Complete, Released
    <3>2. QED
      BY <3>1, <2>2, <1>1 DEF NodePc
  <2>4. ActiveInv'
    BY <2>1, <2>2, <1>1 DEF WorkInv, ActiveInv
  <2>5. ErrInv'
    BY <2>1, <2>3, <1>1 DEF WorkInv, ErrInv
  <2>6. QED
    BY <2>4, <2>5 DEF WorkInv
<1>3. CASE SkipHalted(n) \/ CascadeSkip(n)
  <2>1. /\ phase = "running" /\ nodePc[n] = "ready" /\ UNCHANGED <<phase, pc, err>>
        /\ nodeState' = [nodeState EXCEPT ![n] = "skipped"]
        /\ nodePc' = [nodePc EXCEPT ![n] = "done"] \/ nodePc' = [nodePc EXCEPT ![n] = "skipping"]
    BY <1>3 DEF SkipHalted, CascadeSkip
  <2>2. ActiveInv'
    BY <2>1, <1>1 DEF WorkInv, ActiveInv
  <2>3. ErrInv'
    BY <2>1, <1>1 DEF WorkInv, ErrInv
  <2>4. QED
    BY <2>2, <2>3 DEF WorkInv
<1>4. CASE RecordSkip(n) \/ SkipDone(n) \/ PolicyRollback(n)
  <2>1. /\ phase = "running" /\ UNCHANGED <<phase, pc, err, nodeState>>
        /\ \/ nodePc' = nodePc
           \/ /\ nodePc[n] \in {"skipping", "rollback"}
              /\ \E to \in {"done", "rollingback"} : nodePc' = [nodePc EXCEPT ![n] = to]
    BY <1>4 DEF RecordSkip, SkipDone, PolicyRollback
  <2>2. ActiveInv'
    BY <2>1, <1>1 DEF WorkInv, ActiveInv
  <2>3. ErrInv'
    BY <2>1, <1>1 DEF WorkInv, ErrInv
  <2>4. QED
    BY <2>2, <2>3 DEF WorkInv
<1>5. CASE BeginExecute(n)
  <2>1. /\ phase = "running" /\ nodePc[n] = "ready" /\ UNCHANGED <<phase, pc, err, nodeState>>
        /\ nodePc' = [nodePc EXCEPT ![n] = "executing"]
    BY <1>5 DEF BeginExecute
  <2>2. QED
    BY <2>1, <1>1 DEF WorkInv, ActiveInv, ErrInv
<1>6. CASE Launch(n)
  <2> DEFINE q == <<n, Targets(n)[cursor[n] + 1]>>
  <2>1. /\ phase = "running" /\ nodePc[n] = "executing" /\ UNCHANGED <<phase, err, nodeState, nodePc>>
        /\ pc' = [pc EXCEPT ![q] = "launched"]
    BY <1>6 DEF Launch
  <2>2. cursor[n] + 1 \in 1..Len(Targets(n))
    BY <1>6, NextTarget DEF Launch, WorkInv, ScheduleInv, TypeOK
  <2>3. q \in Pair /\ q[1] = n
    BY <2>2, ListedPair
  <2>4. q \in PairsOf(n)
    <3>1. Targets(n) \in Seq(Target)
      BY NodesAssumption DEF Targets, NodeRecord
    <3>2. QED
      BY <2>2, <3>1 DEF PairsOf
  <2>5. ActiveInv'
    BY <2>1, <2>3, <2>4, <1>1 DEF WorkInv, ActiveInv
  <2>6. ErrInv'
    BY <2>1 DEF WorkInv, ErrInv
  <2>7. QED
    BY <2>5, <2>6 DEF WorkInv
<1>7. CASE Finish(n)
  <2>1. /\ phase = "running" /\ nodePc[n] = "executing" /\ UNCHANGED <<phase, pc, err>>
        /\ \A p \in PairsOf(n) : pc[p] = "finished"
        /\ nodeState' = [nodeState EXCEPT ![n] = IF Failed(n) THEN "failed" ELSE "applied"]
        /\ nodePc' = [nodePc EXCEPT ![n] =
                        IF Failed(n) /\ NodeDef[n].failurePolicy = "rollback" THEN "rollback" ELSE "done"]
    BY <1>7 DEF Finish
  <2>2. ActiveInv'
    BY <2>1, <1>1 DEF WorkInv, ActiveInv
  <2>3. ErrInv'
    <3>1. ASSUME NEW p \in Pair, err[p]
          PROVE  /\ p \in PairsOf(p[1])
                 /\ nodePc'[p[1]] \notin {"waiting", "ready"}
                 /\ nodeState'[p[1]] \in {"pending", "failed"}
      BY <3>1, <2>1, <1>1 DEF WorkInv, ErrInv, Failed
    <3>2. ASSUME NEW m \in Node, nodeState'[m] = "failed"
          PROVE  \E p \in PairsOf(m) : err[p]
      BY <3>2, <2>1, <1>1 DEF WorkInv, ErrInv, Failed
    <3>3. QED
      BY <2>1, <3>1, <3>2 DEF ErrInv
  <2>4. QED
    BY <2>2, <2>3 DEF WorkInv
<1>8. QED
  BY <1>2, <1>3, <1>4, <1>5, <1>6, <1>7, Zenon DEF NodeStep

\* The other steps: a command starts or ends, a rollback goes on.
LEMMA CommandsWork ==
  ASSUME WorkInv, ScheduleInv', NEW r \in Roller,
         \/ \E h \in Plan, o \in Options : StartRun(h, o)
         \/ TimeoutFires \/ Return \/ RollbackCommand \/ Crash
         \/ RollbackStep(r) \/ RollbackDone(r) \/ UNCHANGED vars
  PROVE  WorkInv'
<1> USE DEF runVars, nodeVars, taskVars, Running
<1>1. \A p \in Pair : p[1] \in Node
  BY DEF Pair
<1>2. CASE \E h \in Plan, o \in Options : StartRun(h, o)
  BY <1>2 DEF StartRun, WorkInv, ActiveInv, ErrInv
<1>3. CASE TimeoutFires \/ RollbackStep(r) \/ UNCHANGED vars
  <2>1. UNCHANGED <<phase, nodePc, nodeState, pc, err>>
    BY <1>3 DEF TimeoutFires, RollbackStep, vars
  <2>2. QED
    BY <2>1 DEF WorkInv, ActiveInv, ErrInv
<1>4. CASE Return \/ RollbackCommand
  <2>1. phase' # "running" /\ UNCHANGED pc
    BY <1>4 DEF Return, RollbackCommand
  <2>2. \A p \in Pair : pc[p] \in {"idle", "finished"}
    BY <1>1, <1>4 DEF Return, AllReported, RollbackCommand, WorkInv, ActiveInv
  <2>3. QED
    BY <2>1, <2>2 DEF WorkInv, ActiveInv, ErrInv
<1>5. CASE Crash
  BY <1>5 DEF Crash, WorkInv, ActiveInv, ErrInv
<1>6. CASE RollbackDone(r)
  <2>1. /\ UNCHANGED <<nodeState, pc, err>>
        /\ \/ r = CLI /\ phase = "rollback" /\ phase' = "idle"
           \/ /\ r # CLI /\ phase = "running" /\ nodePc[r] = "rollingback" /\ UNCHANGED phase
              /\ nodePc' = [nodePc EXCEPT ![r] = "done"]
    BY <1>6 DEF RollbackDone, RollingBack
  <2>2. nodePc \in [Node -> NodePc]
    BY DEF WorkInv, ScheduleInv, TypeOK, NodeTypes
  <2>3. QED
    BY <1>1, <2>1, <2>2 DEF WorkInv, ActiveInv, ErrInv
<1>7. QED
  BY <1>2, <1>3, <1>4, <1>5, <1>6

LEMMA WorkNext == WorkInv /\ ScheduleInv' /\ [Next]_vars => WorkInv'
<1> SUFFICES ASSUME WorkInv, ScheduleInv', [Next]_vars PROVE WorkInv'
  OBVIOUS
<1>1. CLI \in Roller
  BY DEF Roller
<1>2. QED
  BY <1>1, NodeStepWork, PairStepWork, CommandsWork DEF Next, Progress

LEMMA WorkInvariant == Spec => []WorkInv
<1>1. Spec => []ScheduleInv
  BY TypeCorrect, InitSchedule, ScheduleNext, PTL DEF Spec
<1>2. QED
  BY <1>1, InitWork, WorkNext, PTL DEF Spec

-----------------------------------------------------------------------------
(* The refinement *)

\* The verdict a step gives a node comes after those of its dependencies.
LEMMA SettleMapped ==
  ASSUME WorkInv, NEW n \in Node, SkipHalted(n) \/ CascadeSkip(n) \/ Finish(n)
  PROVE  \E verdict \in Execution!Verdict : Execution!Settle(n, verdict)
<1>1. /\ phase = "running" /\ phase' = phase
      /\ nodePc[n] \in {"ready", "executing"}
  BY DEF SkipHalted, CascadeSkip, Finish, nodeOthers, runVars, Running
<1>2. nodeState[n] = "pending"
  BY <1>1 DEF WorkInv, ScheduleInv, VerdictInv
<1>3. \A d \in DependsOn(n) : d \in Node /\ nodeState[d] # "pending"
  BY <1>1, NoneIncomplete, DegreeType DEF WorkInv
<1>4. PICK verdict \in {"applied", "failed", "skipped"} :
        /\ nodeState' = [nodeState EXCEPT ![n] = verdict]
        /\ verdict \in {"applied", "failed"} => nodePc[n] = "executing"
  BY DEF SkipHalted, CascadeSkip, Finish
<1>5. verdict \in {"applied", "failed"} => \A d \in DependsOn(n) : nodeState[d] = "applied"
  BY <1>4 DEF WorkInv, ScheduleInv, DependenciesFirst
<1>6. Execution!Settle(n, verdict)
  BY <1>1, <1>2, <1>3, <1>4, <1>5 DEF Execution!Settle
<1>7. QED
  BY <1>4, <1>6 DEF Execution!Verdict

\* Every other step of a node's goroutine is invisible.
LEMMA NodeStepMapped ==
  ASSUME WorkInv, NEW n \in Node, NodeStep(n)
  PROVE  [Execution!Next]_Execution!vars
<1>1. CASE SkipHalted(n) \/ CascadeSkip(n) \/ Finish(n)
  BY <1>1, SettleMapped DEF Execution!Next
<1>2. CASE \/ Complete(n) \/ RecordSkip(n) \/ SkipDone(n) \/ BeginExecute(n) \/ Launch(n)
           \/ PolicyRollback(n)
  <2>1. UNCHANGED <<phase, nodeState>>
    BY <1>2 DEF Complete, RecordSkip, SkipDone, BeginExecute, Launch, PolicyRollback,
                nodeOthers, runVars
  <2>2. QED
    BY <2>1 DEF Execution!vars
<1>3. QED
  BY <1>1, <1>2, Zenon DEF NodeStep

\* Run returns when every node has its verdict, with an error exactly when
\* one failed.
LEMMA ReturnMapped ==
  ASSUME WorkInv, Return
  PROVE  Execution!Finish
<1>1. phase = "running" /\ \A n \in Node : nodePc[n] = "completed"
  BY DEF Return, AllReported, Running
<1>2. \A n \in Node : nodeState[n] # "pending"
  BY <1>1 DEF WorkInv, ScheduleInv, VerdictInv
<1>3. Erred <=> \E n \in Node : nodeState[n] = "failed"
  <2>1. ASSUME NEW p \in Pair, err[p] PROVE p[1] \in Node /\ nodeState[p[1]] = "failed"
    BY <2>1, <1>1, <1>2 DEF WorkInv, ErrInv, Pair
  <2>2. ASSUME NEW n \in Node, nodeState[n] = "failed" PROVE \E p \in Pair : err[p]
    BY <2>2, <1>1, PairsOfType DEF WorkInv, ErrInv
  <2>3. QED
    BY <2>1, <2>2 DEF Erred
<1>4. phase' = (IF Erred THEN "error" ELSE "ok") /\ UNCHANGED nodeState
  BY DEF Return, nodeVars
<1>5. QED
  BY <1>1, <1>2, <1>3, <1>4 DEF Execution!Finish

LEMMA NextMapped == WorkInv /\ [Next]_vars => [Execution!Next]_Execution!vars
<1> SUFFICES ASSUME WorkInv, [Next]_vars PROVE [Execution!Next]_Execution!vars
  OBVIOUS
<1> USE DEF runVars, nodeVars
<1>1. ASSUME NEW h \in Plan, NEW o \in Options, StartRun(h, o)
      PROVE  Execution!Start
  BY <1>1 DEF StartRun, Execution!Start
<1>2. CASE RollbackCommand \/ Crash
  <2>1. phase' \in {"rollback", "crashed"} /\ UNCHANGED nodeState
    BY <1>2 DEF RollbackCommand, Crash
  <2>2. QED
    BY <2>1 DEF Execution!Next, Execution!Stop
<1>3. ASSUME NEW p \in Pair, PairStep(p) PROVE UNCHANGED Execution!vars
  BY <1>3, PairStepShape DEF WorkInv, ScheduleInv, Execution!vars
<1>4. CASE TimeoutFires \/ UNCHANGED vars
  <2>1. UNCHANGED <<phase, nodeState>>
    BY <1>4 DEF TimeoutFires, vars
  <2>2. QED
    BY <2>1 DEF Execution!vars
<1>5. ASSUME NEW r \in Roller, RollbackStep(r) \/ RollbackDone(r)
      PROVE  UNCHANGED Execution!vars
  <2>1. UNCHANGED nodeState /\ (UNCHANGED phase \/ (phase = "rollback" /\ phase' = "idle"))
    BY <1>5 DEF RollbackStep, RollbackDone, RollingBack
  <2>2. QED
    BY <2>1 DEF Execution!vars
<1>6. QED
  BY <1>1, <1>2, <1>3, <1>4, <1>5, NodeStepMapped, ReturnMapped
  DEF Next, Progress, Execution!Next

LEMMA InitMapped == Init => Execution!Init
  BY DEF Init, Execution!Init

\* Whatever the plan, its hosts, the options, the failures and the crashes,
\* the controller keeps the promise: verdicts are given once, in dependency
\* order, and the exit status says whether a node failed.
THEOREM OrchestratorImplementsPlanExecution == Spec => ImplementsPlanExecution
BY WorkInvariant, InitMapped, NextMapped, PTL DEF Spec, ImplementsPlanExecution, Execution!Spec
=============================================================================
