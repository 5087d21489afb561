------------------------ MODULE Orchestrator_history ------------------------
(***************************************************************************)
(* What the execution store says, for every plan: its applied rows are     *)
(* executions that took place, a rollback goes against the dependencies,   *)
(* and commands that resume a plan execute a pair successfully once.       *)
(***************************************************************************)
EXTENDS Orchestrator_safety, WellFoundedInduction

Applied(p) == AppliedRows(p) # {}

\* The rows of the run in progress belong to nodes whose dependencies have
\* reported, and no row is of a run to come.
RunRowsInv ==
  /\ \A j \in DOMAIN log : log[j].run <= runs
  /\ phase = "running" => \A j \in DOMAIN log :
       log[j].run = runs /\ Standing(log[j]) =>
         \A d \in DependsOn(log[j].node) : nodePc[d] = "completed"

\* Within a run a node's rows come after those of its dependencies.
OrderInv ==
  \A i, j \in DOMAIN log :
    Standing(log[i]) /\ Standing(log[j]) /\ log[i].run = log[j].run /\ j <= i =>
      log[i].node \notin DependsOn(log[j].node)

\* Only a rollback in progress has rows to undo, and they are standing ones.
TodoInv ==
  \A r \in Roller :
    /\ rbTodo[r] # {} => RollingBack(r)
    /\ \A i \in rbTodo[r] : i \in DOMAIN log /\ Standing(log[i])

\* The commands that ResumedOnce is about.  The rows of the other nodes, or
\* of a rollback, do not say whether the pair has been executed: file.sync
\* writes none when there is nothing to do, a condition that no longer holds
\* and a rollback write one over the applied row, and a row that is not
\* written is not read back.  Every node has a target (plan/validate.go:44).
ResumeOnly ==
  /\ Commands \subseteq {"run"}
  /\ \A g, h \in Plan : g = h
  /\ \A o \in Options : o.resume /\ ~o.dryRun /\ ~o.observe
  /\ ~StoreMayFail
  /\ \A n \in Node :
       /\ Type(n) # "file.sync" /\ ~NodeDef[n].probe
       /\ NodeDef[n].whenNode = NoNode
       /\ NodeDef[n].failurePolicy # "rollback"
       /\ Targets(n) # <<>>

\* A pair that has been applied is left alone: its applied row stays its last
\* one.
LastRowInv == \A p \in Pair : \A i \in AppliedRows(p), j \in RowsOf(log, p[1], p[2]) : j <= i

\* A node is applied somewhere only when its dependencies are everywhere.
DownwardInv ==
  \A n \in Node : (\E p \in PairsOf(n) : Applied(p)) =>
    \A d \in DependsOn(n) : \A q \in PairsOf(d) : Applied(q)

AtWork == {"attempt", "dialled", "connected", "executed", "compensate"}

\* What the goroutines know of the rows.
PairsKnowInv ==
  /\ \A p \in Pair : pc[p] \in AtWork => ~Applied(p)
  /\ \A p \in Pair : pc[p] = "executed" => result[p] # "partial"
  /\ phase = "running" => \A p \in Pair :
       /\ err[p] => pc[p] \in {"returned", "finished"} /\ ~Applied(p)
       /\ pc[p] \in {"returned", "finished"} /\ ~err[p] => Applied(p) \/ result[p] = "abandoned"
       /\ pc[p] \in AtWork \cup {"checked"} =>
            \A d \in DependsOn(p[1]) : \A q \in PairsOf(d) : result[q] # "abandoned"

NodesKnowInv ==
  /\ \A n \in Node : nodePc[n] = "skipping" => \A p \in PairsOf(n) : ~Applied(p)
  /\ phase = "running" => \A n \in Node :
       /\ ~haltExecution /\ nodeState[n] \in {"failed", "skipped"} => \E p \in PairsOf(n) : ~Applied(p)
       /\ nodeState[n] = "applied" => \A p \in PairsOf(n) : Applied(p) \/ result[p] = "abandoned"

NoRollbackInv ==
  phase # "rollback" /\ \A n \in Node : nodePc[n] \notin {"rollback", "rollingback"}

ResumeInv == LastRowInv /\ DownwardInv /\ PairsKnowInv /\ NodesKnowInv /\ NoRollbackInv

-----------------------------------------------------------------------------
(* Rows *)

LEMMA AppendedRow ==
  ASSUME log \in Seq(RowType), NEW row \in RowType, log' = Append(log, row)
  PROVE  /\ DOMAIN log = 1..Len(log) /\ Len(log) \in Nat
         /\ DOMAIN log' = DOMAIN log \cup {Len(log) + 1}
         /\ log'[Len(log) + 1] = row
         /\ \A i \in DOMAIN log : log'[i] = log[i]
<1>1. DOMAIN log = 1..Len(log) /\ Len(log) \in Nat
  OBVIOUS
<1>2. Len(log') = Len(log) + 1 /\ DOMAIN log' = 1..Len(log')
  BY AppendProperties
<1>3. QED
  BY <1>1, <1>2, AppendProperties

\* A new row is one of its own pair, and an applied one if it says so.
LEMMA AppendedRows ==
  ASSUME log \in Seq(RowType), NEW row \in RowType, log' = Append(log, row), NEW p \in Pair
  PROVE  /\ RowsOf(log, p[1], p[2])' =
              RowsOf(log, p[1], p[2]) \cup
                (IF p = <<row.node, row.target>> THEN {Len(log) + 1} ELSE {})
         /\ AppliedRows(p)' =
              AppliedRows(p) \cup
                (IF p = <<row.node, row.target>> /\ row.status = "applied" THEN {Len(log) + 1} ELSE {})
<1>1. p = <<row.node, row.target>> <=> row.node = p[1] /\ row.target = p[2]
  BY DEF Pair
<1>2. RowsOf(log, p[1], p[2])' =
        RowsOf(log, p[1], p[2]) \cup
          (IF p = <<row.node, row.target>> THEN {Len(log) + 1} ELSE {})
  BY <1>1, AppendedRow DEF RowsOf
<1>3. \A i \in RowsOf(log, p[1], p[2]) : i \in DOMAIN log /\ log'[i] = log[i]
  BY AppendedRow DEF RowsOf
<1>4. log'[Len(log) + 1] = row
  BY AppendedRow
<1>5. QED
  BY <1>2, <1>3, <1>4 DEF AppliedRows

LEMMA AppliedFinite ==
  ASSUME log \in Seq(RowType), NEW p \in Pair
  PROVE  /\ AppliedRows(p) \subseteq 1..Len(log)
         /\ IsFiniteSet(AppliedRows(p)) /\ Cardinality(AppliedRows(p)) \in Nat
<1>1. AppliedRows(p) \subseteq 1..Len(log) /\ Len(log) \in Nat
  BY DEF AppliedRows, RowsOf
<1>2. IsFiniteSet(1..Len(log))
  BY <1>1, FS_Interval
<1>3. QED
  BY <1>1, <1>2, FS_Subset, FS_CardinalityType

\* An applied row counts once more for its pair, and nothing else counts.
LEMMA AppliedCounts ==
  ASSUME log \in Seq(RowType), NEW row \in RowType, log' = Append(log, row), NEW p \in Pair
  PROVE  /\ p = <<row.node, row.target>> /\ row.status = "applied" =>
              Cardinality(AppliedRows(p)') = Cardinality(AppliedRows(p)) + 1
         /\ p # <<row.node, row.target>> \/ row.status # "applied" =>
              AppliedRows(p)' = AppliedRows(p)
<1>1. Len(log) + 1 \notin AppliedRows(p) /\ IsFiniteSet(AppliedRows(p))
  BY AppliedFinite
<1>2. ASSUME p = <<row.node, row.target>> /\ row.status = "applied"
      PROVE  Cardinality(AppliedRows(p)') = Cardinality(AppliedRows(p)) + 1
  <2>1. AppliedRows(p)' = AppliedRows(p) \cup {Len(log) + 1}
    BY <1>2, AppendedRows
  <2>2. Cardinality(AppliedRows(p) \cup {Len(log) + 1}) = Cardinality(AppliedRows(p)) + 1
    BY <1>1, FS_AddElement
  <2>3. QED
    BY <2>1, <2>2
<1>3. ASSUME p # <<row.node, row.target>> \/ row.status # "applied"
      PROVE  AppliedRows(p)' = AppliedRows(p)
  <2>1. AppliedRows(p)' = AppliedRows(p) \cup {}
    BY <1>3, AppendedRows, Zenon
  <2>2. QED
    BY <2>1
<1>4. QED
  BY <1>2, <1>3

\* What RollbackStep writes is a row, and not an applied one.
LEMMA RolledBackRow ==
  ASSUME TypeOK, NEW i \in DOMAIN log, NEW status \in {"skipped", "rolled_back"}
  PROVE  /\ [log[i] EXCEPT !.status = status, !.run = runs] \in RowType
         /\ [log[i] EXCEPT !.status = status, !.run = runs].status = status
         /\ [log[i] EXCEPT !.status = status, !.run = runs].run = runs
<1>1. log[i] \in RowType /\ runs \in Nat
  BY DEF TypeOK, LogTypes, CommandTypes
<1>2. QED
  BY <1>1 DEF RowType, Status

\* The rows a step of the system may add: one, by a pair, a skipped node or
\* a rollback.
Unapplied(row) == row \in RowType /\ row.run = runs /\ row.status \in {"skipped", "rolled_back"}

LEMMA RollbackRow ==
  ASSUME TypeOK, NEW r \in Roller, RollbackStep(r)
  PROVE  log' = log \/ \E row : Unapplied(row) /\ log' = Append(log, row)
<1>1. PICK i \in DOMAIN log :
        \/ log' = log
        \/ \E status \in {"skipped", "rolled_back"} :
             Recorded([log[i] EXCEPT !.status = status, !.run = runs])
  BY Zenon DEF RollbackStep
<1>2. QED
  BY <1>1, RolledBackRow DEF Recorded, Record, Unapplied

LEMMA SkipRow ==
  ASSUME TypeOK, NEW n \in Node, RecordSkip(n)
  PROVE  \E t \in Target :
           LET row == Row(n, t, "skipped", FALSE)
           IN /\ Unapplied(row) /\ <<n, t>> \in PairsOf(n)
              /\ log' = log \/ log' = Append(log, row)
<1> DEFINE t == Targets(n)[cursor[n] + 1]
           row == Row(n, t, "skipped", FALSE)
<1>1. cursor[n] + 1 \in 1..Len(Targets(n))
  BY NextTarget DEF RecordSkip, TypeOK
<1>2. t \in Target /\ <<n, t>> \in PairsOf(n)
  BY <1>1, ListedPair, TargetsList
<1>3. row \in RowType
  BY <1>2, RowIsRow DEF TypeOK, Status
<1>4. Unapplied(row)
  BY <1>3 DEF Row, Unapplied
<1>5. log' = log \/ log' = Append(log, row)
  BY DEF RecordSkip, Recorded, Record
<1>6. QED
  BY <1>2, <1>4, <1>5

\* The row of a response is one of its pair, applied if the response is.
LEMMA ResultRow ==
  ASSUME TypeOK, NEW p \in Pair, NEW status \in {"success", "partial", "failed"}
  PROVE  LET row == Row(p[1], p[2], RowStatus(status), Type(p[1]) = "file.sync")
         IN /\ row \in RowType /\ p = <<row.node, row.target>> /\ row.run = runs
            /\ row.status = "applied" <=> status = "success"
            /\ row.status = "partial" <=> status = "partial"
<1>1. p[1] \in Node /\ p[2] \in Target /\ p = <<p[1], p[2]>>
  BY DEF Pair
<1>2. RowStatus(status) \in Status
  BY DEF RowStatus, Status
<1>3. Row(p[1], p[2], RowStatus(status), Type(p[1]) = "file.sync") \in RowType
  BY <1>1, <1>2, RowIsRow DEF TypeOK
<1>4. QED
  BY <1>1, <1>3 DEF Row, RowStatus

-----------------------------------------------------------------------------
(* The store is honest *)

InFlight(p) == IF pc[p] = "executed" /\ result[p] = "success" THEN 1 ELSE 0
One(when) == IF when THEN 1 ELSE 0

\* The account of one pair moves and stays balanced.
LEMMA Balanced ==
  ASSUME TypeOK, TypeOK', LogIsHonest, NEW p \in Pair, NEW x \in BOOLEAN, NEW y \in BOOLEAN,
         applies' = Bump(applies, p, x), lost' = Bump(lost, p, y),
         \A q \in Pair : q # p =>
           pc'[q] = pc[q] /\ result'[q] = result[q] /\ AppliedRows(q)' = AppliedRows(q),
         Cardinality(AppliedRows(p)') + InFlight(p)' + One(y) =
           Cardinality(AppliedRows(p)) + InFlight(p) + One(x)
  PROVE  LogIsHonest'
<1>1. /\ applies \in [Pair -> Nat] /\ lost \in [Pair -> Nat]
      /\ log \in Seq(RowType) /\ log' \in Seq(RowType)
  BY DEF TypeOK, GhostTypes, LogTypes
<1>2. /\ applies'[p] = applies[p] + One(x) /\ lost'[p] = lost[p] + One(y)
      /\ \A q \in Pair : q # p => applies'[q] = applies[q] /\ lost'[q] = lost[q]
  BY <1>1 DEF Bump, One
<1>3. Cardinality(AppliedRows(p)) \in Nat
  BY <1>1, AppliedFinite
<1>4. Cardinality(AppliedRows(p)') \in Nat
  <2>1. AppliedRows(p)' \subseteq 1..Len(log') /\ Len(log') \in Nat
    BY <1>1 DEF AppliedRows, RowsOf
  <2>2. IsFiniteSet(1..Len(log'))
    BY <2>1, FS_Interval
  <2>3. IsFiniteSet(AppliedRows(p)')
    BY <2>1, <2>2, FS_Subset
  <2>4. QED
    BY <2>3, FS_CardinalityType
<1>5. applies[p] = Cardinality(AppliedRows(p)) + lost[p] + InFlight(p)
  BY DEF LogIsHonest, InFlight
<1>6. applies'[p] = Cardinality(AppliedRows(p)') + lost'[p] + InFlight(p)'
  <2>1. InFlight(p) \in Nat /\ InFlight(p)' \in Nat /\ One(x) \in Nat /\ One(y) \in Nat
    BY DEF InFlight, One
  <2>2. applies[p] \in Nat /\ lost[p] \in Nat
    BY <1>1
  <2>3. QED
    BY <2>1, <2>2, <1>2, <1>3, <1>4, <1>5
<1>7. \A q \in Pair : applies'[q] = Cardinality(AppliedRows(q)') + lost'[q] + InFlight(q)'
  BY <1>2, <1>6 DEF LogIsHonest, InFlight
<1>8. QED
  BY <1>7 DEF LogIsHonest, InFlight

LEMMA ReturnedAttempt ==
  ASSUME TypeOK, NEW p \in Pair, NEW e \in BOOLEAN, NEW c \in BOOLEAN, NEW status,
         RunNodeReturns(p, e, c, status)
  PROVE  /\ InFlight(p)' = 0
         /\ \A q \in Pair : q # p => pc'[q] = pc[q] /\ result'[q] = result[q]
BY ReturnsShape DEF InFlight

LEMMA BumpNot ==
  ASSUME NEW f \in [Pair -> Nat], NEW p \in Pair
  PROVE  Bump(f, p, FALSE) = f
BY DEF Bump

\* A step of a pair moves its account.
LEMMA PairStepHonest ==
  ASSUME TypeOK, TypeOK', LogIsHonest, NEW p \in Pair, PairStep(p)
  PROVE  LogIsHonest'
<1>1. /\ applies \in [Pair -> Nat] /\ lost \in [Pair -> Nat] /\ log \in Seq(RowType)
      /\ pc \in [Pair -> PairPc] /\ result \in [Pair -> PairResult]
      /\ \A q \in Pair : q # p => pc'[q] = pc[q] /\ result'[q] = result[q]
      /\ Bump(applies, p, FALSE) = applies /\ Bump(lost, p, FALSE) = lost
  BY PairStepFrame, BumpNot DEF TypeOK, GhostTypes, LogTypes, PairTypes
<1>2. \A q \in Pair : UNCHANGED log => AppliedRows(q)' = AppliedRows(q)
  BY DEF AppliedRows, RowsOf
<1>3. ASSUME UNCHANGED <<log, ghostVars>>, InFlight(p)' = 0, InFlight(p) = 0
      PROVE  LogIsHonest'
  BY <1>1, <1>2, <1>3, Balanced DEF ghostVars, One
<1>4. CASE CheckCancel(p) \/ SkipFromHistory(p) \/ StartAttempts(p) \/ Connect(p) \/ SendApply(p) \/ Release(p)
  <2>1. UNCHANGED <<log, ghostVars>> /\ InFlight(p) = 0 /\ InFlight(p)' = 0
    BY <1>1, <1>4 DEF CheckCancel, SkipFromHistory, StartAttempts, Connect, SendApply, Release,
                         InFlight
  <2>2. QED
    BY <2>1, <1>3
<1>5. CASE FailEarly(p) \/ ProbeSettles(p) \/ NothingToSync(p) \/ ReportOnly(p) \/ Compensate(p)
  <2>1. UNCHANGED <<log, ghostVars>> /\ InFlight(p) = 0
    BY <1>5 DEF FailEarly, ProbeSettles, NothingToSync, ReportOnly, Compensate, InFlight
  <2>2. InFlight(p)' = 0
    BY <1>5, ReturnedAttempt DEF FailEarly, ProbeSettles, NothingToSync, ReportOnly, Compensate
  <2>3. QED
    BY <2>1, <2>2, <1>3
<1>6. CASE AgentApplies(p)
  <2>1. PICK status \in AgentResult(p[1]) :
          result' = [result EXCEPT ![p] = status] /\ applies' = Bump(applies, p, status = "success")
    BY <1>6 DEF AgentApplies
  <2>2. UNCHANGED <<log, lost>> /\ InFlight(p) = 0 /\ InFlight(p)' = One(status = "success")
    BY <1>1, <1>6, <2>1 DEF AgentApplies, InFlight, One
  <2>3. lost' = Bump(lost, p, FALSE) /\ AppliedRows(p)' = AppliedRows(p)
    BY <1>1, <1>2, <2>2
  <2>4. Cardinality(AppliedRows(p)') + InFlight(p)' + One(FALSE) =
          Cardinality(AppliedRows(p)) + InFlight(p) + One(status = "success")
    BY <1>1, <2>2, <2>3, AppliedFinite DEF One
  <2>5. QED
    BY <1>1, <1>2, <2>1, <2>2, <2>3, <2>4, Balanced
<1>7. CASE AgentFails(p)
  <2>1. PICK ran \in BOOLEAN : applies' = Bump(applies, p, ran) /\ lost' = Bump(lost, p, ran)
    BY <1>7 DEF AgentFails
  <2>2. UNCHANGED log /\ InFlight(p) = 0 /\ InFlight(p)' = 0
    BY <1>7, ReturnedAttempt DEF AgentFails, InFlight
  <2>3. Cardinality(AppliedRows(p)') + InFlight(p)' + One(ran) =
          Cardinality(AppliedRows(p)) + InFlight(p) + One(ran)
    BY <1>2, <2>2
  <2>4. QED
    BY <1>1, <1>2, <2>1, <2>2, <2>3, Balanced
<1>8. CASE ReplyLost(p)
  <2>1. /\ UNCHANGED <<log, applies>> /\ lost' = Bump(lost, p, result[p] = "success")
        /\ InFlight(p) = One(result[p] = "success")
    BY <1>8 DEF ReplyLost, InFlight, One
  <2>2. InFlight(p)' = 0
    BY <1>8, ReturnedAttempt DEF ReplyLost
  <2>3. applies' = Bump(applies, p, FALSE) /\ AppliedRows(p)' = AppliedRows(p)
    BY <1>1, <1>2, <2>1
  <2>4. Cardinality(AppliedRows(p)') + InFlight(p)' + One(result[p] = "success") =
          Cardinality(AppliedRows(p)) + InFlight(p) + One(FALSE)
    BY <1>1, <2>1, <2>2, <2>3, AppliedFinite DEF One
  <2>5. QED
    BY <1>1, <1>2, <2>1, <2>3, <2>4, Balanced
<1>9. CASE RecordResult(p)
  <2> DEFINE row == Row(p[1], p[2], RowStatus(result[p]), Type(p[1]) = "file.sync")
             unwritten == log' = log /\ result[p] = "success"
  <2>1. /\ pc[p] = "executed" /\ UNCHANGED applies /\ lost' = Bump(lost, p, unwritten)
        /\ log' = log \/ log' = Append(log, row)
        /\ InFlight(p) = One(result[p] = "success")
    BY <1>9 DEF RecordResult, Recorded, Record, InFlight, One
  <2>2. InFlight(p)' = 0
    <3>1. CASE pc' = [pc EXCEPT ![p] = "compensate"]
      BY <1>1, <3>1 DEF InFlight
    <3>2. CASE RunNodeReturns(p, result[p] = "failed", TRUE, result[p])
      BY <3>2, ReturnedAttempt
    <3>3. QED
      BY <1>9, <3>1, <3>2, Zenon DEF RecordResult
  <2>3. result[p] \in {"success", "partial", "failed"}
    BY <2>1 DEF TypeOK, PairTypes
  <2>4. /\ row \in RowType /\ p = <<row.node, row.target>>
        /\ row.status = "applied" <=> result[p] = "success"
    BY <2>3, ResultRow
  <2> HIDE DEF row, unwritten
  <2>5. CASE log' = log
    <3>1. One(unwritten) = One(result[p] = "success") /\ unwritten \in BOOLEAN
      BY <2>5 DEF unwritten, One
    <3>2. applies' = Bump(applies, p, FALSE) /\ AppliedRows(p)' = AppliedRows(p)
      BY <1>1, <1>2, <2>1, <2>5
    <3>3. Cardinality(AppliedRows(p)') + InFlight(p)' + One(unwritten) =
            Cardinality(AppliedRows(p)) + InFlight(p) + One(FALSE)
      BY <1>1, <2>1, <2>2, <3>1, <3>2, AppliedFinite DEF One, unwritten
    <3>4. QED
      BY <1>1, <1>2, <2>1, <2>5, <3>1, <3>2, <3>3, Balanced
  <2>6. CASE log' = Append(log, row)
    <3>1. log' # log
      BY <1>1, <2>4, <2>6, AppendProperties
    <3>2. \A q \in Pair : q # p => AppliedRows(q)' = AppliedRows(q)
      BY <1>1, <2>4, <2>6, AppliedCounts
    <3>3. Cardinality(AppliedRows(p)') = Cardinality(AppliedRows(p)) + One(result[p] = "success")
      BY <1>1, <2>4, <2>6, AppliedCounts, AppliedFinite DEF One
    <3>4. unwritten = FALSE /\ applies' = Bump(applies, p, FALSE)
      BY <1>1, <2>1, <3>1 DEF unwritten
    <3>5. Cardinality(AppliedRows(p)') + InFlight(p)' + One(FALSE) =
            Cardinality(AppliedRows(p)) + InFlight(p) + One(FALSE)
      BY <1>1, <2>1, <2>2, <3>3, AppliedFinite DEF One
    <3>6. QED
      BY <1>1, <2>1, <3>2, <3>4, <3>5, Balanced
  <2>7. QED
    BY <2>1, <2>5, <2>6
<1>10. QED
  BY <1>4, <1>5, <1>6, <1>7, <1>8, <1>9, Zenon DEF PairStep

\* The next target of a node has not been launched.
LEMMA LaunchIdle ==
  ASSUME TypeOK, LaunchInv, NEW n \in Node, Launch(n)
  PROVE  \E q \in PairsOf(n) : q \in Pair /\ pc[q] = "idle" /\ pc' = [pc EXCEPT ![q] = "launched"]
<1>1. cursor[n] + 1 \in DOMAIN Targets(n) /\ cursor[n] \in Nat
  BY NextTarget, TargetsList DEF Launch, TypeOK, NodeTypes
<1>2. <<n, Targets(n)[cursor[n] + 1]>> \in PairsOf(n)
  BY <1>1, TargetsList
<1>3. pc[<<n, Targets(n)[cursor[n] + 1]>>] = "idle"
  BY <1>1 DEF Launch, LaunchInv, Running
<1>4. QED
  BY <1>2, <1>3, PairsOfType DEF Launch

\* Every other step leaves the accounts alone or, in a crash, settles them.
LEMMA AccountsKept ==
  ASSUME TypeOK, LogIsHonest, UNCHANGED ghostVars,
         \A q \in Pair : AppliedRows(q)' = AppliedRows(q) /\ InFlight(q)' = InFlight(q)
  PROVE  LogIsHonest'
BY DEF LogIsHonest, InFlight, ghostVars

LEMMA CrashHonest ==
  ASSUME TypeOK, LogIsHonest, Crash
  PROVE  LogIsHonest'
<1>1. PICK ran \in SUBSET {p \in Pair : pc[p] = "connected"} :
        /\ applies' = [p \in Pair |-> applies[p] + IF p \in ran THEN 1 ELSE 0]
        /\ lost' = [p \in Pair |-> lost[p] +
                      IF p \in ran \/ (pc[p] = "executed" /\ result[p] = "success") THEN 1 ELSE 0]
  BY DEF Crash
<1>2. ASSUME NEW p \in Pair
      PROVE  applies'[p] = Cardinality(AppliedRows(p)') + lost'[p] + InFlight(p)'
  <2>1. AppliedRows(p)' = AppliedRows(p) /\ InFlight(p)' = 0
    BY DEF Crash, AppliedRows, RowsOf, InFlight
  <2>2. applies[p] = Cardinality(AppliedRows(p)) + lost[p] + InFlight(p)
    BY DEF LogIsHonest, InFlight
  <2>3. applies[p] \in Nat /\ lost[p] \in Nat /\ Cardinality(AppliedRows(p)) \in Nat
    BY AppliedFinite DEF TypeOK, GhostTypes, LogTypes
  <2>4. /\ applies'[p] = applies[p] + One(p \in ran)
        /\ lost'[p] = lost[p] + One(p \in ran) + InFlight(p)
    BY <1>1, <2>3 DEF One, InFlight
  <2>5. One(p \in ran) \in Nat /\ InFlight(p) \in Nat
    BY DEF One, InFlight
  <2>6. QED
    BY <2>1, <2>2, <2>3, <2>4, <2>5
<1>3. QED
  BY <1>2 DEF LogIsHonest, InFlight

\* The store never claims an execution that did not take place, and misses
\* only those whose response or row was lost.
THEOREM HonestyCorrect == Spec => []LogIsHonest
<1>1. Init => LogIsHonest
  <2> SUFFICES ASSUME Init, NEW p \in Pair
               PROVE  applies[p] = Cardinality(AppliedRows(p)) + lost[p] + InFlight(p)
    BY DEF LogIsHonest, InFlight
  <2>1. AppliedRows(p) = {}
    BY DEF Init, AppliedRows, RowsOf
  <2>2. QED
    BY <2>1, FS_EmptySet DEF Init, InFlight
<1>2. TypeOK /\ TypeOK' /\ WorkInv /\ LaunchInv /\ LogIsHonest /\ [Next]_vars => LogIsHonest'
  <2> SUFFICES ASSUME TypeOK, TypeOK', WorkInv, LaunchInv, LogIsHonest, [Next]_vars
               PROVE  LogIsHonest'
    OBVIOUS
  <2>1. \A q \in Pair : UNCHANGED log => AppliedRows(q)' = AppliedRows(q)
    BY DEF AppliedRows, RowsOf
  <2>2. \A q \in Pair : UNCHANGED <<pc, result>> => InFlight(q)' = InFlight(q)
    BY DEF InFlight
  <2>3. ASSUME NEW row, Unapplied(row), log' = Append(log, row), NEW q \in Pair
        PROVE  AppliedRows(q)' = AppliedRows(q)
    BY <2>3, AppliedCounts DEF Unapplied, TypeOK, LogTypes
  <2>4. ASSUME NEW h \in Plan, NEW o \in Options, StartRun(h, o) PROVE LogIsHonest'
    <3>1. \A q \in Pair : InFlight(q)' = 0 /\ InFlight(q) = 0
      BY <2>4 DEF StartRun, InFlight, WorkInv, ActiveInv
    <3>2. UNCHANGED <<log, ghostVars>>
      BY <2>4 DEF StartRun
    <3>3. QED
      BY <2>1, <3>1, <3>2, AccountsKept
  <2>5. CASE TimeoutFires \/ Return \/ RollbackCommand \/ UNCHANGED vars
    <3>1. UNCHANGED <<log, pc, result, ghostVars>>
      BY <2>5 DEF TimeoutFires, Return, RollbackCommand, vars, taskVars
    <3>2. QED
      BY <2>1, <2>2, <3>1, AccountsKept
  <2>6. ASSUME NEW r \in Roller, RollbackStep(r) \/ RollbackDone(r) PROVE LogIsHonest'
    <3>1. UNCHANGED <<pc, result, ghostVars>>
      BY <2>6 DEF RollbackStep, RollbackDone, taskVars
    <3>2. log' = log \/ \E row : Unapplied(row) /\ log' = Append(log, row)
      BY <2>6, RollbackRow DEF RollbackDone
    <3>3. QED
      BY <2>1, <2>2, <2>3, <3>1, <3>2, AccountsKept
  <2>7. ASSUME NEW n \in Node, NodeStep(n) PROVE LogIsHonest'
    <3>1. UNCHANGED <<result, ghostVars>>
      BY <2>7, NodeStepFrame
    <3>2. \A q \in Pair : InFlight(q)' = InFlight(q)
      <4>1. CASE Launch(n)
        BY <3>1, <4>1, LaunchIdle DEF InFlight, TypeOK, PairTypes
      <4>2. CASE UNCHANGED pc
        BY <3>1, <4>2 DEF InFlight
      <4>3. QED
        BY <2>7, <4>1, <4>2, NodeStepFrame
    <3>3. log' = log \/ \E row : Unapplied(row) /\ log' = Append(log, row)
      BY <2>7, NodeStepFrame, SkipRow, Zenon
    <3>4. QED
      BY <2>1, <2>3, <3>1, <3>2, <3>3, AccountsKept
  <2>8. QED
    BY <2>4, <2>5, <2>6, <2>7, PairStepHonest, CrashHonest DEF Next, Progress
<1>3. QED
  BY <1>1, <1>2, TypeCorrect, WorkInvariant, LaunchInvariant, PTL DEF Spec

-----------------------------------------------------------------------------
(* The order of rollbacks *)

\* A step adds at most one row, and a standing row is the result of a pair.
LEMMA RowAdded ==
  ASSUME TypeOK, [Next]_vars
  PROVE  \/ log' = log
         \/ \E row : Unapplied(row) /\ log' = Append(log, row)
         \/ \E p \in Pair, status \in {"success", "partial", "failed"} :
              /\ PairStep(p)
              /\ log' = Append(log, Row(p[1], p[2], RowStatus(status), Type(p[1]) = "file.sync"))
<1>1. ASSUME NEW n \in Node, NodeStep(n)
      PROVE  log' = log \/ \E row : Unapplied(row) /\ log' = Append(log, row)
  BY <1>1, NodeStepFrame, SkipRow, Zenon
<1>2. ASSUME NEW r \in Roller, RollbackStep(r) \/ RollbackDone(r)
      PROVE  log' = log \/ \E row : Unapplied(row) /\ log' = Append(log, row)
  BY <1>2, RollbackRow DEF RollbackDone
<1>3. ASSUME NEW p \in Pair, PairStep(p), ~RecordResult(p) PROVE log' = log
  BY <1>3, Zenon
  DEF PairStep, CheckCancel, SkipFromHistory, StartAttempts, FailEarly, ProbeSettles, NothingToSync,
      ReportOnly, Connect, SendApply, AgentApplies, AgentFails, ReplyLost, Compensate, Release
<1>4. ASSUME NEW p \in Pair, RecordResult(p)
      PROVE  \/ log' = log
             \/ \E status \in {"success", "partial", "failed"} :
                  log' = Append(log, Row(p[1], p[2], RowStatus(status), Type(p[1]) = "file.sync"))
  <2>1. result[p] \in {"success", "partial", "failed"}
    BY <1>4 DEF RecordResult, TypeOK, PairTypes
  <2>2. QED
    BY <1>4, <2>1 DEF RecordResult, Recorded, Record
<1>5. CASE TimeoutFires \/ Return \/ RollbackCommand \/ Crash \/ UNCHANGED vars
  BY <1>5 DEF TimeoutFires, Return, RollbackCommand, Crash, vars
<1>6. ASSUME NEW h \in Plan, NEW o \in Options, StartRun(h, o) PROVE log' = log
  BY <1>6 DEF StartRun
<1>7. QED
  BY <1>1, <1>2, <1>3, <1>4, <1>5, <1>6 DEF Next, Progress

\* While a run is running a node that has reported stays reported, and the
\* number of the run stays.
LEMMA RunningKeeps ==
  ASSUME TypeOK, WorkInv, [Next]_vars, phase' = "running"
  PROVE  \/ runs' = runs + 1 /\ log' = log
         \/ /\ phase = "running" /\ runs' = runs
            /\ \A d \in Node : nodePc[d] = "completed" => nodePc'[d] = "completed"
<1>1. nodePc \in [Node -> NodePc]
  BY DEF TypeOK, NodeTypes
<1>2. ASSUME NEW h \in Plan, NEW o \in Options, StartRun(h, o) PROVE runs' = runs + 1 /\ log' = log
  BY <1>2 DEF StartRun
<1>3. ASSUME NEW n \in Node, NodeStep(n)
      PROVE  /\ phase = "running" /\ runs' = runs
             /\ \A d \in Node : nodePc[d] = "completed" => nodePc'[d] = "completed"
  <2>1. phase = "running" /\ runs' = runs
    BY <1>3, NodeStepFrame DEF Running, runVars
  <2>2. CASE Complete(n)
    <3>1. \A m \in Node : nodePc[m] = "completed" => n \notin DependsOn(m)
      BY <2>1, <2>2, NoneIncomplete DEF Complete, WorkInv
    <3>2. QED
      BY <2>1, <2>2, <3>1 DEF Complete, Released
  <2>3. CASE ~Complete(n)
    <3>1. \/ UNCHANGED nodePc
          \/ /\ nodePc[n] \in {"ready", "skipping", "executing", "rollback"}
             /\ \E to : nodePc' = [nodePc EXCEPT ![n] = to]
      BY <1>3, <2>3, Zenon
      DEF NodeStep, SkipHalted, CascadeSkip, RecordSkip, SkipDone, BeginExecute, Launch, Finish,
          PolicyRollback
    <3>2. QED
      BY <1>1, <2>1, <3>1
  <2>4. QED
    BY <2>2, <2>3
<1>4. ASSUME NEW p \in Pair, PairStep(p) PROVE phase = "running" /\ UNCHANGED <<runs, nodePc>>
  BY <1>4, PairStepFrame DEF pairOthers, runVars, nodeVars, Running
<1>5. CASE Quiet
  BY <1>1, <1>5 DEF Quiet, Running, runVars
<1>6. QED
  BY <1>2, <1>3, <1>4, <1>5, RunningStep

LEMMA PairStepRun ==
  ASSUME NEW p \in Pair, PairStep(p)
  PROVE  UNCHANGED pairOthers /\ runs' = runs
<1>1. UNCHANGED pairOthers
  BY Zenon
  DEF PairStep, CheckCancel, SkipFromHistory, StartAttempts, FailEarly, ProbeSettles, NothingToSync,
      ReportOnly, Connect, SendApply, AgentApplies, AgentFails, ReplyLost, RecordResult, Compensate, Release
<1>2. QED
  BY <1>1 DEF pairOthers, runVars

LEMMA RunsGrow ==
  ASSUME [Next]_vars
  PROVE  runs' = runs \/ runs' = runs + 1
<1> USE DEF runVars
<1>1. CASE TimeoutFires \/ Return \/ RollbackCommand \/ Crash \/ UNCHANGED vars
  BY <1>1 DEF TimeoutFires, Return, RollbackCommand, Crash, vars
<1>2. ASSUME NEW h \in Plan, NEW o \in Options, StartRun(h, o) PROVE runs' = runs + 1
  BY <1>2 DEF StartRun
<1>3. ASSUME NEW n \in Node, NodeStep(n) PROVE runs' = runs
  BY <1>3, NodeStepFrame
<1>4. ASSUME NEW p \in Pair, PairStep(p) PROVE runs' = runs
  BY <1>4, PairStepRun
<1>5. ASSUME NEW r \in Roller, RollbackStep(r) \/ RollbackDone(r) PROVE runs' = runs
  BY <1>5 DEF RollbackStep, RollbackDone
<1>6. QED
  BY <1>1, <1>2, <1>3, <1>4, <1>5 DEF Next, Progress

\* No row is written by the step that starts a command.
LEMMA AppendsKeepRun ==
  ASSUME [Next]_vars, log' # log
  PROVE  runs' = runs
<1> USE DEF runVars
<1>1. CASE TimeoutFires \/ Return \/ RollbackCommand \/ Crash \/ UNCHANGED vars
  BY <1>1 DEF TimeoutFires, Return, RollbackCommand, Crash, vars
<1>2. ASSUME NEW h \in Plan, NEW o \in Options, StartRun(h, o) PROVE FALSE
  BY <1>2 DEF StartRun
<1>3. ASSUME NEW n \in Node, NodeStep(n) PROVE runs' = runs
  BY <1>3, NodeStepFrame
<1>4. ASSUME NEW p \in Pair, PairStep(p) PROVE runs' = runs
  BY <1>4, PairStepRun
<1>5. ASSUME NEW r \in Roller, RollbackStep(r) \/ RollbackDone(r) PROVE runs' = runs
  BY <1>5 DEF RollbackStep, RollbackDone
<1>6. QED
  BY <1>1, <1>2, <1>3, <1>4, <1>5 DEF Next, Progress

\* A standing row is written by a node whose dependencies have reported.
LEMMA StandingRow ==
  ASSUME TypeOK, WorkInv, NEW p \in Pair, PairStep(p), NEW status \in {"success", "partial", "failed"},
         NEW row, row = Row(p[1], p[2], RowStatus(status), Type(p[1]) = "file.sync")
  PROVE  /\ row \in RowType /\ row.run = runs /\ row.node \in Node
         /\ phase = "running" /\ UNCHANGED <<runs, phase, nodePc>>
         /\ nodePc[row.node] # "completed"
         /\ \A d \in DependsOn(row.node) : nodePc[d] = "completed"
<1>1. row \in RowType /\ row.run = runs /\ p = <<row.node, row.target>>
  BY ResultRow
<1>2. /\ phase = "running" /\ UNCHANGED <<runs, phase, nodePc>>
      /\ nodePc[p[1]] = "executing" /\ p[1] \in Node
  BY PairStepShape DEF WorkInv, ActiveInv, runVars, nodeVars, Pair
<1>3. row.node = p[1]
  BY <1>1
<1>4. QED
  BY <1>1, <1>2, <1>3 DEF WorkInv, ScheduleInv, DependenciesFirst

LEMMA OrderNext ==
  ASSUME TypeOK, WorkInv, RunRowsInv, OrderInv, [Next]_vars
  PROVE  RunRowsInv' /\ OrderInv'
<1>1. log \in Seq(RowType) /\ runs \in Nat
  BY DEF TypeOK, LogTypes, CommandTypes
<1>2. \A j \in DOMAIN log : log[j] \in RowType /\ log[j].run \in Nat /\ log[j].node \in Node
  <2>1. \A j \in DOMAIN log : log[j] \in RowType
    BY <1>1
  <2>2. QED
    BY <2>1 DEF RowType
<1>3. CASE log' = log
  <2>1. OrderInv'
    BY <1>3 DEF OrderInv, Standing
  <2>2. \A j \in DOMAIN log' : log'[j].run <= runs'
    BY <1>1, <1>2, <1>3, RunsGrow DEF RunRowsInv
  <2>3. ASSUME phase' = "running", NEW j \in DOMAIN log, log[j].run = runs', Standing(log[j]),
               NEW d \in DependsOn(log[j].node)
        PROVE  nodePc'[d] = "completed"
    <3>1. runs' # runs + 1
      BY <1>1, <1>2, <2>3 DEF RunRowsInv
    <3>2. d \in Node
      BY <1>2, DegreeType
    <3>3. QED
      BY <2>3, <3>1, <3>2, RunningKeeps DEF RunRowsInv
  <2>4. QED
    BY <1>3, <2>1, <2>2, <2>3 DEF RunRowsInv, Standing
<1>4. ASSUME NEW row, Unapplied(row), log' = Append(log, row), phase' = "running" => phase = "running",
             \A d \in Node : phase' = "running" /\ nodePc[d] = "completed" => nodePc'[d] = "completed",
             runs' = runs
      PROVE  RunRowsInv' /\ OrderInv'
  <2>1. /\ DOMAIN log' = DOMAIN log \cup {Len(log) + 1} /\ log'[Len(log) + 1] = row
        /\ \A j \in DOMAIN log : log'[j] = log[j]
    BY <1>1, <1>4, AppendedRow DEF Unapplied
  <2>2. ~Standing(row) /\ row.run = runs
    BY <1>4 DEF Unapplied, Standing
  <2>3. \A j \in DOMAIN log' : Standing(log'[j]) => j \in DOMAIN log
    BY <2>1, <2>2
  <2>4. OrderInv'
    BY <2>1, <2>3 DEF OrderInv
  <2>5. \A j \in DOMAIN log : \A d \in DependsOn(log[j].node) : d \in Node
    BY <1>2, DegreeType
  <2>6. RunRowsInv'
    BY <1>1, <1>4, <2>1, <2>2, <2>3, <2>5 DEF RunRowsInv
  <2>7. QED
    BY <2>4, <2>6
<1>5. ASSUME NEW p \in Pair, NEW status \in {"success", "partial", "failed"}, PairStep(p),
             log' = Append(log, Row(p[1], p[2], RowStatus(status), Type(p[1]) = "file.sync"))
      PROVE  RunRowsInv' /\ OrderInv'
  <2> DEFINE row == Row(p[1], p[2], RowStatus(status), Type(p[1]) = "file.sync")
             new == Len(log) + 1
  <2>1. /\ row \in RowType /\ row.run = runs /\ row.node \in Node
        /\ phase = "running" /\ UNCHANGED <<runs, phase, nodePc>>
        /\ nodePc[row.node] # "completed"
        /\ \A d \in DependsOn(row.node) : nodePc[d] = "completed"
    BY <1>5, StandingRow
  <2>2. /\ DOMAIN log' = DOMAIN log \cup {new} /\ log'[new] = row /\ log' = Append(log, row)
        /\ DOMAIN log = 1..Len(log) /\ Len(log) \in Nat
        /\ \A j \in DOMAIN log : log'[j] = log[j]
    BY <1>1, <1>5, <2>1, AppendedRow
  <2> HIDE DEF row
  <2>3. RunRowsInv'
    BY <1>1, <2>1, <2>2 DEF RunRowsInv
  <2>4. ASSUME NEW i \in DOMAIN log', NEW j \in DOMAIN log',
               Standing(log'[i]), Standing(log'[j]), log'[i].run = log'[j].run, j <= i
        PROVE  log'[i].node \notin DependsOn(log'[j].node)
    <3>1. CASE i = new
      <4>1. log'[i].node = row.node /\ log'[j].run = runs
        BY <2>1, <2>2, <2>4, <3>1
      <4>2. \A d \in DependsOn(log'[j].node) : nodePc'[d] = "completed"
        BY <2>1, <2>3, <2>4, <4>1 DEF RunRowsInv
      <4>3. QED
        BY <2>1, <4>1, <4>2
    <3>2. CASE i # new
      <4>1. i \in DOMAIN log /\ j \in DOMAIN log
        BY <2>2, <2>4, <3>2
      <4>2. QED
        BY <2>2, <2>4, <4>1 DEF OrderInv
    <3>3. QED
      BY <3>1, <3>2
  <2>5. QED
    BY <2>3, <2>4 DEF OrderInv
<1>6. ASSUME NEW row, Unapplied(row), log' = Append(log, row) PROVE RunRowsInv' /\ OrderInv'
  <2>1. log' # log
    BY <1>1, <1>6, AppendProperties DEF Unapplied
  <2>2. runs' = runs
    BY <2>1, AppendsKeepRun
  <2>3. phase' = "running" => /\ phase = "running"
                              /\ \A d \in Node : nodePc[d] = "completed" => nodePc'[d] = "completed"
    BY <1>1, <2>1, RunningKeeps
  <2>4. QED
    BY <1>4, <1>6, <2>2, <2>3
<1>7. QED
  BY <1>3, <1>5, <1>6, RowAdded

LEMMA LogGrows ==
  ASSUME TypeOK, [Next]_vars
  PROVE  \A i \in DOMAIN log : i \in DOMAIN log' /\ log'[i] = log[i]
<1>1. log \in Seq(RowType)
  BY DEF TypeOK, LogTypes
<1>2. ASSUME NEW row \in RowType, log' = Append(log, row)
      PROVE  \A i \in DOMAIN log : i \in DOMAIN log' /\ log'[i] = log[i]
  BY <1>1, <1>2, AppendedRow
<1>3. QED
  BY <1>2, RowAdded, ResultRow DEF Unapplied

LEMMA RollbackPlanStands == \A i \in RollbackPlan : i \in DOMAIN log /\ Standing(log[i])
BY DEF RollbackPlan, LastRun

\* What a step may do to the rows a rollback has still to undo.
LEMMA TodoStep ==
  ASSUME TypeOK, TodoInv, [Next]_vars, NEW r \in Roller
  PROVE  \/ rbTodo'[r] = rbTodo[r]
         \/ rbTodo'[r] = {}
         \/ rbTodo[r] = {} /\ \A i \in rbTodo'[r] : i \in DOMAIN log /\ Standing(log[i])
         \/ \E i : IsNext(i, rbTodo[r]) /\ rbTodo'[r] = rbTodo[r] \ {i}
<1> USE DEF rbVars
<1>1. rbTodo \in [Roller -> SUBSET (1..Len(log))]
  BY DEF TypeOK, LogTypes
<1>2. CASE TimeoutFires \/ Return \/ Crash \/ UNCHANGED vars
  BY <1>2 DEF TimeoutFires, Return, Crash, vars
<1>3. ASSUME NEW h \in Plan, NEW o \in Options, StartRun(h, o) PROVE rbTodo' = rbTodo
  BY <1>3 DEF StartRun
<1>4. ASSUME NEW n \in Node, NodeStep(n), ~PolicyRollback(n) PROVE rbTodo' = rbTodo
  BY <1>4, NodeStepFrame
<1>5. ASSUME NEW p \in Pair, PairStep(p) PROVE rbTodo' = rbTodo
  BY <1>5, PairStepRun DEF pairOthers
<1>6. ASSUME NEW s \in Roller, ~RollingBack(s), ChooseRollback(s)
      PROVE  \/ rbTodo'[r] = rbTodo[r] \/ rbTodo'[r] = {}
             \/ rbTodo[r] = {} /\ \A i \in rbTodo'[r] : i \in DOMAIN log /\ Standing(log[i])
  <2>1. rbTodo[s] = {}
    BY <1>6 DEF TodoInv
  <2>2. rbTodo' = [rbTodo EXCEPT ![s] = RollbackPlan] \/ rbTodo' = [rbTodo EXCEPT ![s] = {}]
    BY <1>6, Zenon DEF ChooseRollback
  <2>3. QED
    BY <1>1, <2>1, <2>2, RollbackPlanStands
<1>7. CASE RollbackCommand
  <2>1. CLI \in Roller /\ ~RollingBack(CLI) /\ ChooseRollback(CLI)
    BY <1>7 DEF RollbackCommand, RollingBack, Roller
  <2>2. QED
    BY <2>1, <1>6
<1>8. ASSUME NEW n \in Node, PolicyRollback(n)
      PROVE  \/ rbTodo'[r] = rbTodo[r] \/ rbTodo'[r] = {}
             \/ rbTodo[r] = {} /\ \A i \in rbTodo'[r] : i \in DOMAIN log /\ Standing(log[i])
  <2>1. n \in Roller /\ n # CLI
    BY NodesAssumption DEF Roller
  <2>2. ~RollingBack(n) /\ ChooseRollback(n)
    BY <1>8, <2>1 DEF PolicyRollback, RollingBack
  <2>3. QED
    BY <2>1, <2>2, <1>6
<1>9. ASSUME NEW s \in Roller, RollbackStep(s)
      PROVE  rbTodo'[r] = rbTodo[r] \/ \E i : IsNext(i, rbTodo[r]) /\ rbTodo'[r] = rbTodo[r] \ {i}
  <2>1. PICK i \in DOMAIN log :
          IsNext(i, rbTodo[s]) /\ rbTodo' = [rbTodo EXCEPT ![s] = RestOf(s, i)]
    BY <1>9, Zenon DEF RollbackStep
  <2>2. QED
    BY <1>1, <2>1 DEF RestOf
<1>10. ASSUME NEW s \in Roller, RollbackDone(s) PROVE rbTodo' = rbTodo
  BY <1>10 DEF RollbackDone
<1>11. QED
  BY <1>2, <1>3, <1>4, <1>5, <1>7, <1>8, <1>9, <1>10 DEF Next, Progress

\* A rollback lives as long as it has rows to undo, or the controller does.
LEMMA TodoRolls ==
  ASSUME TypeOK, WorkInv, TodoInv, [Next]_vars, NEW r \in Roller, rbTodo'[r] # {}
  PROVE  RollingBack(r)'
<1> USE DEF rbVars, runVars, nodeVars
<1>1. /\ rbTodo \in [Roller -> SUBSET (1..Len(log))] /\ nodePc \in [Node -> NodePc]
      /\ r # CLI => r \in Node
      /\ rbTodo[r] # {} => RollingBack(r)
  BY DEF TypeOK, LogTypes, NodeTypes, TodoInv, Roller
<1>2. CASE UNCHANGED <<phase, nodePc>> /\ rbTodo[r] # {}
  BY <1>1, <1>2 DEF RollingBack, Running
<1>3. CASE TimeoutFires \/ UNCHANGED vars
  BY <1>2, <1>3 DEF TimeoutFires, vars
<1>4. ASSUME \/ \E h \in Plan, o \in Options : StartRun(h, o)
             \/ Return \/ Crash
      PROVE  FALSE
  <2>1. CASE \E h \in Plan, o \in Options : StartRun(h, o)
    BY <1>1, <2>1 DEF StartRun, RollingBack, Running
  <2>2. CASE Return
    BY <1>1, <2>2 DEF Return, AllReported, RollingBack, Running
  <2>3. CASE Crash
    BY <2>3 DEF Crash
  <2>4. QED
    BY <1>4, <2>1, <2>2, <2>3
<1>5. CASE RollbackCommand
  <2>1. ~RollingBack(r) /\ phase' = "rollback" /\ ChooseRollback(CLI)
    BY <1>5 DEF RollbackCommand, RollingBack, Running
  <2>2. rbTodo' = [rbTodo EXCEPT ![CLI] = RollbackPlan] \/ rbTodo' = [rbTodo EXCEPT ![CLI] = {}]
    BY <2>1, Zenon DEF ChooseRollback
  <2>3. r = CLI
    BY <1>1, <2>1, <2>2
  <2>4. QED
    BY <2>1, <2>3 DEF RollingBack
<1>6. ASSUME NEW n \in Node, NodeStep(n) PROVE RollingBack(r)'
  <2>1. Running /\ phase' = phase
    BY <1>6, NodeStepFrame
  <2>2. CASE PolicyRollback(n) /\ r = n
    BY <1>1, <2>1, <2>2, NodesAssumption DEF PolicyRollback, RollingBack, Running
  <2>3. CASE ~(PolicyRollback(n) /\ r = n)
    <3>1. rbTodo[r] # {}
      <4>1. CASE PolicyRollback(n)
        <5>1. rbTodo' = [rbTodo EXCEPT ![n] = RollbackPlan] \/ rbTodo' = [rbTodo EXCEPT ![n] = {}]
          BY <4>1, Zenon DEF PolicyRollback, ChooseRollback
        <5>2. QED
          BY <1>1, <2>3, <4>1, <5>1
      <4>2. CASE ~PolicyRollback(n)
        BY <1>6, <4>2, NodeStepFrame
      <4>3. QED
        BY <4>1, <4>2
    <3>2. r # CLI /\ r \in Node /\ nodePc[r] = "rollingback"
      BY <1>1, <2>1, <3>1 DEF RollingBack, Running
    <3>3. nodePc'[r] = "rollingback"
      <4>1. CASE Complete(n)
        <5>1. n \notin DependsOn(r) /\ n # r
          BY <2>1, <3>2, <4>1, NoneIncomplete DEF Complete, WorkInv, Running
        <5>2. QED
          BY <3>2, <4>1, <5>1 DEF Complete, Released
      <4>2. CASE ~Complete(n)
        <5>1. \/ UNCHANGED nodePc
              \/ /\ nodePc[n] \in {"ready", "skipping", "executing", "rollback"}
                 /\ \E to : nodePc' = [nodePc EXCEPT ![n] = to]
          BY <1>6, <4>2, Zenon
          DEF NodeStep, SkipHalted, CascadeSkip, RecordSkip, SkipDone, BeginExecute, Launch, Finish,
              PolicyRollback
        <5>2. QED
          BY <1>1, <3>2, <5>1
      <4>3. QED
        BY <4>1, <4>2
    <3>4. QED
      BY <2>1, <3>2, <3>3 DEF RollingBack, Running
  <2>4. QED
    BY <2>2, <2>3
<1>7. ASSUME NEW p \in Pair, PairStep(p) PROVE RollingBack(r)'
  BY <1>2, <1>7, PairStepRun DEF pairOthers
<1>8. ASSUME NEW s \in Roller, RollbackStep(s) PROVE RollingBack(r)'
  <2>1. PICK i \in DOMAIN log : rbTodo' = [rbTodo EXCEPT ![s] = RestOf(s, i)]
    BY <1>8, Zenon DEF RollbackStep
  <2>2. rbTodo[r] # {}
    BY <1>1, <2>1 DEF RestOf
  <2>3. QED
    BY <1>2, <1>8, <2>2 DEF RollbackStep
<1>9. ASSUME NEW s \in Roller, RollbackDone(s) PROVE RollingBack(r)'
  <2>1. rbTodo' = rbTodo /\ RollingBack(r) /\ r # s /\ RollingBack(s)
    BY <1>1, <1>9 DEF RollbackDone
  <2>2. s # CLI /\ s \in Node /\ r # CLI /\ r \in Node
    BY <1>1, <2>1 DEF RollingBack, Running, Roller
  <2>3. QED
    BY <1>1, <1>9, <2>1, <2>2 DEF RollbackDone, RollingBack, Running
<1>10. QED
  BY <1>3, <1>4, <1>5, <1>6, <1>7, <1>8, <1>9 DEF Next, Progress

LEMMA HistoryInvariant == Spec => [](RunRowsInv /\ OrderInv /\ TodoInv)
<1>1. Init => RunRowsInv /\ OrderInv /\ TodoInv
  BY DEF Init, RunRowsInv, OrderInv, TodoInv
<1>2. TypeOK /\ WorkInv /\ TodoInv /\ [Next]_vars => TodoInv'
  <2> SUFFICES ASSUME TypeOK, WorkInv, TodoInv, [Next]_vars, NEW r \in Roller
               PROVE  /\ rbTodo'[r] # {} => RollingBack(r)'
                      /\ \A i \in rbTodo'[r] : i \in DOMAIN log' /\ Standing(log'[i])
    BY DEF TodoInv
  <2>1. \A i \in rbTodo'[r] : i \in DOMAIN log /\ Standing(log[i])
    BY TodoStep DEF TodoInv
  <2>2. \A i \in DOMAIN log : i \in DOMAIN log' /\ log'[i] = log[i]
    BY LogGrows
  <2>3. QED
    BY <2>1, <2>2, TodoRolls
<1>3. QED
  BY <1>1, <1>2, OrderNext, TypeCorrect, WorkInvariant, PTL DEF Spec

\* A rollback, of a command or of a failed node, never undoes a node before
\* the nodes of the same run that depend on it.
THEOREM RollbackOrderCorrect == Spec => DependantsUndoneFirst
<1>1. TypeOK /\ OrderInv /\ TodoInv /\ [Next]_vars =>
        (\A r \in Roller : rbTodo[r] # {} /\ phase' # "crashed" =>
           \A i \in rbTodo[r] \ rbTodo'[r], j \in rbTodo'[r] :
             log[i].run = log[j].run => log[i].node \notin DependsOn(log[j].node))
  <2> SUFFICES ASSUME TypeOK, OrderInv, TodoInv, [Next]_vars, NEW r \in Roller,
                      NEW i \in rbTodo[r] \ rbTodo'[r], NEW j \in rbTodo'[r],
                      log[i].run = log[j].run
               PROVE  log[i].node \notin DependsOn(log[j].node)
    OBVIOUS
  <2>1. j \in rbTodo[r] /\ j <= i
    BY TodoStep DEF IsNext
  <2>2. QED
    BY <2>1 DEF TodoInv, OrderInv
<1>2. QED
  BY <1>1, TypeCorrect, HistoryInvariant, PTL DEF Spec, DependantsUndoneFirst

\* When Run returns, whether it was halted, cancelled or ran to its end,
\* nothing it started is still going on: no goroutine of a target, no request
\* and no rollback.
THEOREM RunsEndClean == Spec => []LeavesNothingBehind
<1>1. WorkInv /\ TodoInv => LeavesNothingBehind
  <2> SUFFICES ASSUME WorkInv, TodoInv, phase \in {"ok", "error"}
               PROVE  Holding = {} /\ \A r \in Roller : rbTodo[r] = {}
    BY DEF LeavesNothingBehind
  <2>1. Holding = {}
    BY DEF WorkInv, ActiveInv, Holding
  <2>2. \A r \in Roller : ~RollingBack(r)
    BY DEF RollingBack, Running
  <2>3. QED
    BY <2>1, <2>2 DEF TodoInv
<1>2. QED
  BY <1>1, WorkInvariant, HistoryInvariant, PTL

-----------------------------------------------------------------------------
(* Resumed commands *)

\* ORDER BY id DESC LIMIT 1 finds the row with the largest id.
LEMMA NewestRow ==
  ASSUME NEW k \in Nat, NEW ids \in SUBSET (1..k), ids # {}
  PROVE  Newest(ids) \in ids /\ \A j \in ids : j <= Newest(ids)
<1> DEFINE Less == OpToRel(<, Nat)
           T == {k - i : i \in ids}
<1>1. T \subseteq Nat /\ T # {}
  <2>1. \A i \in ids : i \in 1..k
    OBVIOUS
  <2>2. \A i \in ids : k - i \in Nat
    BY <2>1
  <2>3. QED
    BY <2>2
<1>2. IsWellFoundedOn(Less, Nat)
  BY NatLessThanWellFounded
<1>3. PICK x \in T : \A y \in T : ~(<<y, x>> \in Less)
  <2> HIDE DEF T, Less
  <2>1. QED
  BY <1>1, <1>2, WFMin
<1>4. \A y \in T : ~(y < x)
  BY <1>1, <1>3 DEF OpToRel
<1>5. \E i \in ids : \A j \in ids : j <= i
  <2>1. PICK i \in ids : x = k - i
    OBVIOUS
  <2>2. ASSUME NEW j \in ids PROVE j <= i
    <3>1. j \in 1..k /\ i \in 1..k
      OBVIOUS
    <3>2. ~(k - j < k - i)
      BY <1>4, <2>1
    <3>3. QED
      BY <3>1, <3>2
  <2>3. QED
    BY <2>1, <2>2
<1>6. QED
  BY <1>5 DEF Newest

LEMMA RowIds ==
  ASSUME log \in Seq(RowType), NEW p \in Pair
  PROVE  /\ Len(log) \in Nat
         /\ RowsOf(log, p[1], p[2]) \in SUBSET (1..Len(log))
         /\ AppliedRows(p) \subseteq RowsOf(log, p[1], p[2])
BY DEF RowsOf, AppliedRows

\* Under resume a pair is settled by history exactly when it has been applied.
LEMMA SettledIsApplied ==
  ASSUME ResumeOnly, TypeOK, LastRowInv, NEW p \in Pair
  PROVE  SettledByHistory(p) <=> Applied(p)
<1> DEFINE ids == RowsOf(log, p[1], p[2])
<1>1. log \in Seq(RowType) /\ plan \in Plan /\ opts \in Options
  BY DEF TypeOK, LogTypes, CommandTypes
<1>2. Len(log) \in Nat /\ ids \in SUBSET (1..Len(log)) /\ AppliedRows(p) \subseteq ids
  BY <1>1, RowIds
<1>3. ids # {} => Newest(ids) \in ids /\ \A j \in ids : j <= Newest(ids)
  BY <1>2, NewestRow
<1>4. SettledByHistory(p) => Applied(p)
  BY <1>3 DEF SettledByHistory, HasExecution, Resumable, Reconciled, LatestExecution, Applied, AppliedRows
<1>5. ASSUME Applied(p) PROVE SettledByHistory(p)
  <2>1. PICK i \in AppliedRows(p) : \A j \in ids : j <= i
    BY <1>5 DEF Applied, LastRowInv
  <2>2. i \in ids /\ Newest(ids) \in ids /\ i \in 1..Len(log) /\ Newest(ids) \in 1..Len(log)
    BY <1>2, <1>3, <2>1
  <2>3. Newest(ids) = i
    <3>1. i <= Newest(ids) /\ Newest(ids) <= i
      BY <1>3, <2>1, <2>2
    <3>2. QED
      BY <2>2, <3>1
  <2>4. log[i].status = "applied" /\ log[i] \in RowType
    BY <1>1, <2>1, <2>2 DEF AppliedRows
  <2>5. log[i].plan = plan /\ opts.resume
    BY <1>1, <2>4 DEF RowType, ResumeOnly
  <2>6. QED
    BY <2>2, <2>3, <2>4, <2>5 DEF SettledByHistory, HasExecution, Resumable, LatestExecution
<1>6. QED
  BY <1>4, <1>5

\* What a new row, or none, means for the pairs that have been applied.
LEMMA HistoryKept ==
  ASSUME LastRowInv, DownwardInv, log' = log
  PROVE  LastRowInv' /\ DownwardInv' /\ \A p \in Pair : Applied(p)' = Applied(p)
<1>1. \A p \in Pair : AppliedRows(p)' = AppliedRows(p) /\ Applied(p)' = Applied(p)
  BY DEF Applied, AppliedRows, RowsOf
<1>2. LastRowInv'
  BY <1>1 DEF LastRowInv, RowsOf
<1>3. DownwardInv'
  BY DEF DownwardInv, Applied, AppliedRows, RowsOf
<1>4. QED
  BY <1>1, <1>2, <1>3

LEMMA UnappliedRow ==
  ASSUME LastRowInv, DownwardInv, log \in Seq(RowType), NEW p \in Pair, ~Applied(p),
         NEW row \in RowType, p = <<row.node, row.target>>, row.status # "applied",
         log' = Append(log, row)
  PROVE  LastRowInv' /\ DownwardInv' /\ \A q \in Pair : Applied(q)' = Applied(q)
<1>1. \A q \in Pair : AppliedRows(q)' = AppliedRows(q)
  BY AppliedCounts
<1>2. \A q \in Pair : Applied(q)' = Applied(q)
  BY <1>1 DEF Applied
<1>3. \A q \in Pair : q # p => RowsOf(log, q[1], q[2])' = RowsOf(log, q[1], q[2])
  <2> SUFFICES ASSUME NEW q \in Pair, q # p
               PROVE  RowsOf(log, q[1], q[2])' = RowsOf(log, q[1], q[2])
    OBVIOUS
  <2>1. RowsOf(log, q[1], q[2])' = RowsOf(log, q[1], q[2]) \cup {}
    BY AppendedRows, Zenon
  <2>2. QED
    BY <2>1
<1>4. LastRowInv'
  BY <1>1, <1>3 DEF LastRowInv, Applied
<1>5. DownwardInv'
  <2>1. \A n, d \in Node : PairsOf(n) \subseteq Pair /\ PairsOf(d) \subseteq Pair
    BY PairsOfType
  <2>2. QED
    BY <1>2, <2>1, DegreeType DEF DownwardInv
<1>6. QED
  BY <1>2, <1>4, <1>5

LEMMA AppliedRow ==
  ASSUME LastRowInv, DownwardInv, log \in Seq(RowType), NEW p \in Pair, ~Applied(p),
         \A d \in DependsOn(p[1]) : \A q \in PairsOf(d) : Applied(q),
         NEW row \in RowType, p = <<row.node, row.target>>, row.status = "applied",
         log' = Append(log, row)
  PROVE  LastRowInv' /\ DownwardInv' /\ \A q \in Pair : Applied(q)' <=> Applied(q) \/ q = p
<1> DEFINE new == Len(log) + 1
<1>1. AppliedRows(p)' = AppliedRows(p) \cup {new}
  BY AppendedRows
<1>2. RowsOf(log, p[1], p[2])' = RowsOf(log, p[1], p[2]) \cup {new}
  BY AppendedRows
<1>3. \A q \in Pair : q # p => AppliedRows(q)' = AppliedRows(q)
  BY AppliedCounts
<1>4. \A q \in Pair : q # p => RowsOf(log, q[1], q[2])' = RowsOf(log, q[1], q[2])
  <2> SUFFICES ASSUME NEW q \in Pair, q # p
               PROVE  RowsOf(log, q[1], q[2])' = RowsOf(log, q[1], q[2])
    OBVIOUS
  <2>1. RowsOf(log, q[1], q[2])' = RowsOf(log, q[1], q[2]) \cup {}
    BY AppendedRows, Zenon
  <2>2. QED
    BY <2>1
<1>5. \A q \in Pair : Applied(q)' <=> Applied(q) \/ q = p
  BY <1>1, <1>3 DEF Applied
<1>6. LastRowInv'
  <2>1. Len(log) \in Nat /\ RowsOf(log, p[1], p[2]) \in SUBSET (1..Len(log)) /\ AppliedRows(p) = {}
    BY RowIds DEF Applied
  <2>2. \A i \in AppliedRows(p)', j \in RowsOf(log, p[1], p[2])' : j <= i
    <3>1. AppliedRows(p)' = {new}
      BY <1>1, <2>1
    <3>2. \A j \in RowsOf(log, p[1], p[2]) \cup {new} : j <= new
      BY <2>1
    <3>3. QED
      BY <1>2, <3>1, <3>2
  <2>3. \A q \in Pair : q # p => \A i \in AppliedRows(q)', j \in RowsOf(log, q[1], q[2])' : j <= i
    BY <1>3, <1>4 DEF LastRowInv
  <2>4. QED
    BY <2>2, <2>3 DEF LastRowInv
<1>7. DownwardInv'
  <2> SUFFICES ASSUME NEW n \in Node, NEW r \in PairsOf(n), Applied(r)',
                      NEW d \in DependsOn(n), NEW q \in PairsOf(d)
               PROVE  Applied(q)'
    BY DEF DownwardInv
  <2>1. r \in Pair /\ r[1] = n /\ q \in Pair
    BY PairsOfType, DegreeType
  <2>2. Applied(q)
    BY <1>5, <2>1 DEF DownwardInv
  <2>3. QED
    BY <1>5, <2>1, <2>2
<1>8. QED
  BY <1>5, <1>6, <1>7

\* The steps that settle nothing: the goroutines go on.
LEMMA SettlesNothing ==
  ASSUME ResumeInv, UNCHANGED <<log, result, err, nodeState, haltExecution>>,
         phase' = "running" => phase = "running", phase' # "rollback",
         \A p \in Pair : pc'[p] = pc[p] \/ pc'[p] \in {"idle", "launched"},
         \A p \in Pair : pc[p] \in {"returned", "finished"} /\ phase' = "running" => pc'[p] = pc[p],
         \A n \in Node : nodePc'[n] \notin {"rollback", "rollingback"},
         \A n \in Node : nodePc'[n] = "skipping" => nodePc[n] = "skipping"
  PROVE  ResumeInv'
<1>1. LastRowInv' /\ DownwardInv' /\ \A p \in Pair : Applied(p)' = Applied(p)
  BY HistoryKept DEF ResumeInv
<1>2. \A n \in Node : PairsOf(n) \subseteq Pair
  BY PairsOfType
<1>3. PairsKnowInv'
  <2>1. \A p \in Pair : pc'[p] \in AtWork => ~Applied(p)'
    BY <1>1 DEF AtWork, ResumeInv, PairsKnowInv
  <2>2. \A p \in Pair : pc'[p] = "executed" => result'[p] # "partial"
    BY DEF ResumeInv, PairsKnowInv
  <2>3. ASSUME phase' = "running", NEW p \in Pair
        PROVE  /\ err'[p] => pc'[p] \in {"returned", "finished"} /\ ~Applied(p)'
               /\ pc'[p] \in {"returned", "finished"} /\ ~err'[p] => Applied(p)' \/ result'[p] = "abandoned"
               /\ pc'[p] \in AtWork \cup {"checked"} =>
                    \A d \in DependsOn(p[1]) : \A q \in PairsOf(d) : result'[q] # "abandoned"
    BY <1>1, <2>3 DEF AtWork, ResumeInv, PairsKnowInv
  <2>4. QED
    BY <2>1, <2>2, <2>3 DEF PairsKnowInv
<1>4. NodesKnowInv'
  BY <1>1, <1>2 DEF ResumeInv, NodesKnowInv
<1>5. QED
  BY <1>1, <1>3, <1>4 DEF ResumeInv, NoRollbackInv

LEMMA StartRunResume ==
  ASSUME ResumeInv, NEW h \in Plan, NEW o \in Options, StartRun(h, o)
  PROVE  ResumeInv'
<1>1. LastRowInv' /\ DownwardInv' /\ \A p \in Pair : Applied(p)' = Applied(p)
  BY HistoryKept DEF ResumeInv, StartRun
<1>2. /\ \A p \in Pair : pc'[p] = "idle" /\ ~err'[p]
      /\ \A n \in Node : nodePc'[n] \in {"waiting", "ready"} /\ nodeState'[n] = "pending"
      /\ phase' = "running"
  BY DEF StartRun
<1>3. QED
  BY <1>1, <1>2 DEF ResumeInv, PairsKnowInv, NodesKnowInv, NoRollbackInv, AtWork

LEMMA NonEmptyPairs ==
  ASSUME ResumeOnly, NEW n \in Node
  PROVE  PairsOf(n) # {}
<1>1. Targets(n) \in Seq(Target) /\ Targets(n) # <<>>
  BY NodesAssumption DEF ResumeOnly, Targets, NodeRecord
<1>2. 1 \in DOMAIN Targets(n)
  BY <1>1
<1>3. QED
  BY <1>2 DEF PairsOf

\* A node is skipped, with no halt, only where it has not been applied.
LEMMA SkippedUnapplied ==
  ASSUME ResumeOnly, WorkInv, ResumeInv, NEW n \in Node, CascadeSkip(n)
  PROVE  PairsOf(n) # {} /\ \A p \in PairsOf(n) : ~Applied(p)
<1>1. phase = "running" /\ ~haltExecution /\ SkipCause(n)
  BY DEF CascadeSkip, Running
<1>2. PICK d \in DependsOn(n) : nodeState[d] \in {"failed", "skipped"}
  BY <1>1 DEF SkipCause, DependencyDown, WhenUnmet, ResumeOnly
<1>3. PICK q \in PairsOf(d) : ~Applied(q)
  BY <1>1, <1>2, DegreeType DEF ResumeInv, NodesKnowInv
<1>4. \A p \in PairsOf(n) : ~Applied(p)
  BY <1>3 DEF ResumeInv, DownwardInv
<1>5. PairsOf(n) # {}
  BY NonEmptyPairs
<1>6. QED
  BY <1>4, <1>5

LEMMA NodeStepResume ==
  ASSUME ResumeOnly, TypeOK, WorkInv, LaunchInv, ResumeInv, NEW n \in Node, NodeStep(n)
  PROVE  ResumeInv'
<1>1. /\ phase = "running" /\ phase' = "running" /\ UNCHANGED <<err, result>>
      /\ nodePc \in [Node -> NodePc] /\ nodeState \in [Node -> {"pending", "applied", "failed", "skipped"}]
      /\ log \in Seq(RowType)
      /\ PairsOf(n) \subseteq Pair
  BY NodeStepFrame, PairsOfType DEF Running, runVars, TypeOK, NodeTypes, LogTypes
<1>2. CASE Complete(n)
  <2>1. /\ UNCHANGED <<log, pc, nodeState, haltExecution>>
        /\ \A m \in Node : nodePc'[m] \in {"completed", "ready", nodePc[m]}
    BY <1>2 DEF Complete, nodeOthers, taskVars, ctxVars
  <2>2. QED
    BY <1>1, <2>1, SettlesNothing DEF ResumeInv, NoRollbackInv
<1>3. CASE SkipDone(n) \/ BeginExecute(n)
  <2>1. /\ UNCHANGED <<log, pc, nodeState, haltExecution>>
        /\ \A m \in Node : nodePc'[m] \in {"done", "executing", nodePc[m]}
    BY <1>1, <1>3 DEF SkipDone, BeginExecute, nodeOthers, taskVars, ctxVars
  <2>2. QED
    BY <1>1, <2>1, SettlesNothing DEF ResumeInv, NoRollbackInv
<1>4. CASE Launch(n)
  <2>1. UNCHANGED <<log, nodePc, nodeState, haltExecution>>
    BY <1>4 DEF Launch, ctxVars
  <2>2. \A p \in Pair : pc'[p] = pc[p] \/ (pc[p] = "idle" /\ pc'[p] = "launched")
    BY <1>4, LaunchIdle DEF TypeOK, PairTypes
  <2>3. QED
    BY <1>1, <2>1, <2>2, SettlesNothing DEF ResumeInv, NoRollbackInv
<1>5. CASE PolicyRollback(n)
  BY <1>5 DEF PolicyRollback, ResumeInv, NoRollbackInv
<1>6. CASE RecordSkip(n)
  <2>1. /\ nodePc[n] = "skipping"
        /\ UNCHANGED <<pc, nodePc, nodeState, haltExecution>>
    BY <1>6 DEF RecordSkip, nodeOthers, taskVars, ctxVars
  <2>2. PICK t \in Target : LET row == Row(n, t, "skipped", FALSE)
                            IN /\ Unapplied(row) /\ <<n, t>> \in PairsOf(n)
                               /\ log' = log \/ log' = Append(log, row)
    BY <1>6, SkipRow
  <2>3. PICK p \in Pair, row \in RowType :
          /\ p = <<row.node, row.target>> /\ row.status # "applied" /\ ~Applied(p)
          /\ log' = log \/ log' = Append(log, row)
    <3>1. <<n, t>> \in Pair /\ ~Applied(<<n, t>>)
      BY <1>1, <2>1, <2>2 DEF ResumeInv, NodesKnowInv
    <3>2. Row(n, t, "skipped", FALSE).node = n /\ Row(n, t, "skipped", FALSE).target = t
      BY DEF Row
    <3>3. QED
      BY <2>2, <3>1, <3>2 DEF Unapplied
  <2>4. LastRowInv' /\ DownwardInv' /\ \A q \in Pair : Applied(q)' = Applied(q)
    <3>1. CASE log' = log
      BY <3>1, HistoryKept DEF ResumeInv
    <3>2. CASE log' = Append(log, row)
      BY <1>1, <2>3, <3>2, UnappliedRow DEF ResumeInv
    <3>3. QED
      BY <2>3, <3>1, <3>2
  <2>5. \A m \in Node : PairsOf(m) \subseteq Pair
    BY PairsOfType
  <2>6. PairsKnowInv' /\ NodesKnowInv'
    BY <1>1, <2>1, <2>4, <2>5 DEF ResumeInv, PairsKnowInv, NodesKnowInv
  <2>7. QED
    BY <1>1, <2>1, <2>4, <2>6 DEF ResumeInv, NoRollbackInv
<1>7. CASE SkipHalted(n) \/ CascadeSkip(n) \/ Finish(n)
  <2>1. /\ UNCHANGED <<log, pc>> /\ (haltExecution => haltExecution')
        /\ \A m \in Node : m # n => nodePc'[m] = nodePc[m] /\ nodeState'[m] = nodeState[m]
        /\ nodePc'[n] = "skipping" => CascadeSkip(n)
        /\ nodeState'[n] = "skipped" => haltExecution' \/ CascadeSkip(n)
        /\ nodeState'[n] \in {"failed", "applied"} => Finish(n)
        /\ nodePc'[n] \notin {"rollback", "rollingback"}
    <3>1. CASE SkipHalted(n) \/ CascadeSkip(n)
      BY <1>1, <3>1 DEF SkipHalted, CascadeSkip, nodeOthers, taskVars, ctxVars
    <3>2. CASE Finish(n)
      BY <1>1, <3>2 DEF Finish, taskVars, ResumeOnly
    <3>3. QED
      BY <1>7, <3>1, <3>2
  <2>2. LastRowInv' /\ DownwardInv' /\ \A q \in Pair : Applied(q)' = Applied(q)
    BY <2>1, HistoryKept DEF ResumeInv
  <2>3. PairsKnowInv'
    BY <1>1, <2>1, <2>2 DEF ResumeInv, PairsKnowInv
  <2>4. CascadeSkip(n) => PairsOf(n) # {} /\ \A p \in PairsOf(n) : ~Applied(p)
    BY SkippedUnapplied
  <2>5. CASE ~Finish(n)
    <3>1. \A m \in Node : PairsOf(m) \subseteq Pair
      BY PairsOfType
    <3>2. nodeState'[n] = "skipped"
      BY <1>1, <1>7, <2>5 DEF SkipHalted, CascadeSkip
    <3>3. NodesKnowInv'
      BY <1>1, <2>1, <2>2, <2>4, <3>1, <3>2 DEF ResumeInv, NodesKnowInv
    <3>4. QED
      BY <2>1, <2>2, <2>3, <3>3, <1>1 DEF ResumeInv, NoRollbackInv
  <2>6. CASE Finish(n)
    <3>1. \A m \in Node : PairsOf(m) \subseteq Pair
      BY PairsOfType
    <3>2. /\ \A p \in PairsOf(n) : pc[p] = "finished"
          /\ nodeState'[n] = (IF Failed(n) THEN "failed" ELSE "applied")
      BY <1>1, <2>6 DEF Finish
    <3>3. nodeState'[n] = "failed" => \E p \in PairsOf(n) : ~Applied(p)'
      BY <1>1, <2>2, <3>1, <3>2 DEF Failed, ResumeInv, PairsKnowInv
    <3>4. nodeState'[n] = "applied" => \A p \in PairsOf(n) : Applied(p)' \/ result'[p] = "abandoned"
      BY <1>1, <2>2, <3>1, <3>2 DEF Failed, ResumeInv, PairsKnowInv
    <3>5. nodePc'[n] # "skipping" /\ nodeState'[n] # "skipped"
      BY <1>1, <2>6, <3>2 DEF Finish
    <3>6. NodesKnowInv'
      BY <1>1, <2>1, <2>2, <3>1, <3>3, <3>4, <3>5 DEF ResumeInv, NodesKnowInv
    <3>7. QED
      BY <2>1, <2>2, <2>3, <3>6, <1>1 DEF ResumeInv, NoRollbackInv
  <2>7. QED
    BY <2>5, <2>6
<1>8. QED
  BY <1>2, <1>3, <1>4, <1>5, <1>6, <1>7, Zenon DEF NodeStep

\* What a pair's goroutine does in such a command.
LEMMA ResumePairStep ==
  ASSUME ResumeOnly, TypeOK, LastRowInv, NEW p \in Pair, PairStep(p)
  PROVE  \/ /\ log' = log /\ err'[p] = err[p]
            /\ \/ pc[p] = "launched" /\ pc'[p] = "returned" /\ result'[p] = "abandoned"
               \/ pc[p] = "launched" /\ pc'[p] = "checked" /\ ~cancelled
               \/ pc[p] = "checked" /\ pc'[p] = "returned" /\ Applied(p)
               \/ pc[p] = "checked" /\ pc'[p] = "attempt" /\ ~Applied(p)
               \/ pc[p] = "returned" /\ pc'[p] = "finished" /\ result'[p] = result[p]
               \/ /\ pc[p] \in AtWork /\ pc'[p] \in AtWork
                  /\ pc'[p] = "executed" => result'[p] # "partial"
         \/ /\ pc[p] \in AtWork /\ pc'[p] = "returned" /\ err'[p] /\ log' = log
         \/ /\ pc[p] = "executed"
            /\ \E status \in {"success", "failed", "partial"} :
                 /\ status = result[p]
                 /\ log' = Append(log, Row(p[1], p[2], RowStatus(status), Type(p[1]) = "file.sync"))
                 /\ \/ pc'[p] = "attempt" /\ status = "failed" /\ err'[p] = err[p]
                    \/ pc'[p] = "returned" /\ err'[p] = (status = "failed")
<1> USE DEF AtWork
<1>1. /\ pc \in [Pair -> PairPc] /\ err \in [Pair -> BOOLEAN] /\ result \in [Pair -> PairResult]
      /\ opts \in Options /\ p[1] \in Node
  BY DEF TypeOK, PairTypes, CommandTypes, Pair
<1>2. /\ ~ReadOnly /\ ~StoreMayFail /\ ~NodeDef[p[1]].probe /\ Type(p[1]) # "file.sync"
  BY <1>1 DEF ResumeOnly, ReadOnly
<1>3. ASSUME NEW c, NEW status, RunNodeReturns(p, TRUE, c, status)
      PROVE  \/ pc'[p] = "attempt" /\ err'[p] = err[p]
             \/ pc'[p] = "returned" /\ err'[p]
  BY <1>1, <1>3 DEF RunNodeReturns
<1>4. CASE CheckCancel(p) \/ SkipFromHistory(p) \/ StartAttempts(p) \/ Release(p)
  BY <1>1, <1>2, <1>4, SettledIsApplied DEF CheckCancel, SkipFromHistory, StartAttempts, Release
<1>5. CASE FailEarly(p)
  <2>1. log' = log /\ pc[p] \in {"attempt", "dialled"} /\ RunNodeReturns(p, TRUE, FALSE, "failed")
    BY <1>5 DEF FailEarly
  <2>2. QED
    BY <2>1, <1>3
<1>6. CASE ProbeSettles(p) \/ NothingToSync(p) \/ ReportOnly(p)
  BY <1>2, <1>6 DEF ProbeSettles, NothingToSync, ReportOnly
<1>7. CASE Connect(p) \/ SendApply(p)
  BY <1>1, <1>7 DEF Connect, SendApply
<1>8. CASE AgentApplies(p)
  BY <1>1, <1>2, <1>8 DEF AgentApplies, AgentResult
<1>9. CASE AgentFails(p) \/ ReplyLost(p) \/ Compensate(p)
  <2>1. log' = log /\ pc[p] \in AtWork /\ \E c : RunNodeReturns(p, TRUE, c, "failed")
    BY <1>9 DEF AgentFails, ReplyLost, Compensate
  <2>2. QED
    BY <2>1, <1>3
<1>10. CASE RecordResult(p)
  <2>1. pc[p] = "executed" /\ result[p] \in {"success", "failed", "partial"}
    BY <1>10 DEF RecordResult, TypeOK, PairTypes
  <2>2. log' = Append(log, Row(p[1], p[2], RowStatus(result[p]), Type(p[1]) = "file.sync"))
    BY <1>2, <1>10 DEF RecordResult, Recorded, Record
  <2>3. RunNodeReturns(p, result[p] = "failed", TRUE, result[p])
    BY <1>2, <1>10 DEF RecordResult
  <2>4. \/ pc'[p] = "attempt" /\ result[p] = "failed" /\ err'[p] = err[p]
        \/ pc'[p] = "returned" /\ err'[p] = (result[p] = "failed")
    BY <1>1, <2>3 DEF RunNodeReturns
  <2>5. QED
    BY <2>1, <2>2, <2>4
<1>11. QED
  BY <1>4, <1>5, <1>6, <1>7, <1>8, <1>9, <1>10, Zenon DEF PairStep

\* A pair at work has its dependencies applied everywhere.
LEMMA DependenciesApplied ==
  ASSUME WorkInv, ResumeInv, NEW p \in Pair, pc[p] \in AtWork
  PROVE  \A d \in DependsOn(p[1]) : \A q \in PairsOf(d) : Applied(q)
<1>1. p[1] \in Node /\ phase = "running" /\ nodePc[p[1]] = "executing"
  BY DEF WorkInv, ActiveInv, AtWork, Pair
<1>2. \A d \in DependsOn(p[1]) : d \in Node /\ nodeState[d] = "applied"
  BY <1>1, DegreeType DEF WorkInv, ScheduleInv, DependenciesFirst
<1>3. \A d \in DependsOn(p[1]) : \A q \in PairsOf(d) : result[q] # "abandoned"
  BY <1>1 DEF ResumeInv, PairsKnowInv
<1>4. QED
  BY <1>1, <1>2, <1>3 DEF ResumeInv, NodesKnowInv

LEMMA PairStepResume ==
  ASSUME ResumeOnly, TypeOK, WorkInv, HaltInv, ResumeInv, NEW p \in Pair, PairStep(p)
  PROVE  ResumeInv'
<1>1. /\ phase = "running" /\ UNCHANGED <<phase, nodePc, nodeState, haltExecution>>
      /\ p[1] \in Node /\ pc[p] \notin {"idle", "finished"}
      /\ \A q \in Pair : q # p => pc'[q] = pc[q] /\ err'[q] = err[q] /\ result'[q] = result[q]
      /\ log \in Seq(RowType)
  BY PairStepFrame, PairStepShape DEF Running, pairOthers, runVars, nodeVars, ctxVars, Pair, TypeOK, LogTypes
<1>2. /\ nodePc[p[1]] = "executing" /\ nodeState[p[1]] = "pending" /\ p \in PairsOf(p[1])
      /\ \A d \in DependsOn(p[1]) : nodePc[d] = "completed"
  BY <1>1 DEF WorkInv, ActiveInv, ScheduleInv, VerdictInv, DependenciesFirst
<1>3. \A n \in Node : PairsOf(n) \subseteq Pair /\ \A q \in PairsOf(n) : q[1] = n
  BY PairsOfType
<1>4. \A q \in Pair : pc[q] \in AtWork \cup {"checked"} =>
        \A d \in DependsOn(q[1]) : \A r \in PairsOf(d) : r # p
  <2> SUFFICES ASSUME NEW q \in Pair, pc[q] \in AtWork \cup {"checked"}, p[1] \in DependsOn(q[1])
               PROVE  FALSE
    BY <1>3, DegreeType DEF Pair
  <2>1. nodePc[q[1]] = "executing" /\ q[1] \in Node
    BY DEF WorkInv, ActiveInv, AtWork, Pair
  <2>2. QED
    BY <1>2, <2>1 DEF WorkInv, ScheduleInv, DependenciesFirst
<1>5. NoRollbackInv'
  BY <1>1 DEF ResumeInv, NoRollbackInv
<1>6. ASSUME LastRowInv', DownwardInv', \A q \in Pair : Applied(q)' <=> Applied(q) \/ (q = p /\ Applied(p)'),
             pc'[p] \in AtWork => ~Applied(p)' /\ pc[p] \in AtWork \cup {"checked"},
             pc'[p] = "executed" => result'[p] # "partial",
             pc'[p] = "checked" => ~cancelled,
             pc[p] \in {"launched", "checked"} \cup AtWork => ~err[p],
             err'[p] => pc'[p] \in {"returned", "finished"} /\ ~Applied(p)',
             pc'[p] \in {"returned", "finished"} /\ ~err'[p] => Applied(p)' \/ result'[p] = "abandoned"
      PROVE  ResumeInv'
  <2>1. \A q \in Pair : pc'[q] \in AtWork => ~Applied(q)'
    BY <1>1, <1>6 DEF ResumeInv, PairsKnowInv
  <2>2. \A q \in Pair : pc'[q] = "executed" => result'[q] # "partial"
    BY <1>1, <1>6 DEF ResumeInv, PairsKnowInv
  <2>3. \A q \in Pair : err'[q] => pc'[q] \in {"returned", "finished"} /\ ~Applied(q)'
    BY <1>1, <1>6 DEF ResumeInv, PairsKnowInv
  <2>4. \A q \in Pair : pc'[q] \in {"returned", "finished"} /\ ~err'[q] =>
          Applied(q)' \/ result'[q] = "abandoned"
    BY <1>1, <1>6 DEF ResumeInv, PairsKnowInv
  <2>5. ASSUME NEW q \in Pair, pc'[q] \in AtWork \cup {"checked"},
               NEW d \in DependsOn(q[1]), NEW r \in PairsOf(d)
        PROVE  result'[r] # "abandoned"
    <3>1. r \in Pair /\ q[1] \in Node /\ d \in Node
      BY <1>3, DegreeType DEF Pair
    <3>2. CASE pc[q] \in AtWork \cup {"checked"}
      BY <1>1, <1>4, <2>5, <3>1, <3>2 DEF ResumeInv, PairsKnowInv
    <3>3. CASE pc[q] \notin AtWork \cup {"checked"}
      <4>1. q = p /\ ~cancelled
        BY <1>1, <1>6, <2>5, <3>3
      <4>2. result[r] # "abandoned"
        BY <1>1, <3>1, <4>1 DEF HaltInv
      <4>3. r # p
        BY <1>2, <1>3, <2>5, <3>1, <4>1
      <4>4. QED
        BY <1>1, <3>1, <4>2, <4>3
    <3>4. QED
      BY <3>2, <3>3
  <2>6. PairsKnowInv'
    BY <2>1, <2>2, <2>3, <2>4, <2>5 DEF PairsKnowInv
  <2>7. NodesKnowInv'
    <3>1. ASSUME NEW n \in Node, nodeState[n] # "pending", NEW q \in PairsOf(n)
          PROVE  q \in Pair /\ Applied(q)' = Applied(q) /\ result'[q] = result[q]
      <4>1. q \in Pair /\ q # p
        BY <1>2, <1>3, <3>1
      <4>2. QED
        BY <1>1, <1>6, <4>1 DEF Applied
    <3>2. \A n \in Node : nodePc[n] = "skipping" => nodeState[n] # "pending"
      BY <1>1 DEF WorkInv, ScheduleInv, VerdictInv
    <3>3. QED
      BY <1>1, <3>1, <3>2 DEF ResumeInv, NodesKnowInv
  <2>8. QED
    BY <1>5, <1>6, <2>6, <2>7 DEF ResumeInv
<1>7. /\ err[p] => pc[p] \in {"returned", "finished"} /\ ~Applied(p)
      /\ pc[p] \in AtWork => ~Applied(p)
      /\ pc[p] = "executed" => result[p] # "partial"
      /\ pc[p] = "returned" /\ ~err[p] => Applied(p) \/ result[p] = "abandoned"
  BY <1>1 DEF ResumeInv, PairsKnowInv
<1>8. CASE log' = log
  <2>1. LastRowInv' /\ DownwardInv' /\ \A q \in Pair : Applied(q)' = Applied(q)
    BY <1>8, HistoryKept DEF ResumeInv
  <2>2. \/ /\ err'[p] = err[p]
           /\ \/ pc[p] = "launched" /\ pc'[p] = "returned" /\ result'[p] = "abandoned"
              \/ pc[p] = "launched" /\ pc'[p] = "checked" /\ ~cancelled
              \/ pc[p] = "checked" /\ pc'[p] = "returned" /\ Applied(p)
              \/ pc[p] = "checked" /\ pc'[p] = "attempt" /\ ~Applied(p)
              \/ pc[p] = "returned" /\ pc'[p] = "finished" /\ result'[p] = result[p]
              \/ /\ pc[p] \in AtWork /\ pc'[p] \in AtWork
                 /\ pc'[p] = "executed" => result'[p] # "partial"
        \/ pc[p] \in AtWork /\ pc'[p] = "returned" /\ err'[p]
    <3>1. \A row \in RowType : log' # Append(log, row)
      BY <1>1, <1>8, AppendProperties
    <3>2. \A status \in {"success", "failed", "partial"} :
            log' # Append(log, Row(p[1], p[2], RowStatus(status), Type(p[1]) = "file.sync"))
      BY <3>1, ResultRow
    <3>3. QED
      BY <3>2, ResumePairStep DEF ResumeInv
  <2>3. /\ pc'[p] \in AtWork => ~Applied(p)' /\ pc[p] \in AtWork \cup {"checked"}
        /\ pc'[p] = "executed" => result'[p] # "partial"
        /\ pc'[p] = "checked" => ~cancelled
        /\ err'[p] => pc'[p] \in {"returned", "finished"} /\ ~Applied(p)'
        /\ pc'[p] \in {"returned", "finished"} /\ ~err'[p] => Applied(p)' \/ result'[p] = "abandoned"
    BY <1>7, <2>1, <2>2 DEF AtWork
  <2>4. pc[p] \in {"launched", "checked"} \cup AtWork => ~err[p]
    BY <1>7 DEF AtWork
  <2>5. QED
    BY <1>6, <2>1, <2>3, <2>4
<1>9. CASE log' # log
  <2>1. PICK status \in {"success", "failed", "partial"} :
          /\ pc[p] = "executed" /\ status = result[p]
          /\ log' = Append(log, Row(p[1], p[2], RowStatus(status), Type(p[1]) = "file.sync"))
          /\ \/ pc'[p] = "attempt" /\ status = "failed" /\ err'[p] = err[p]
             \/ pc'[p] = "returned" /\ err'[p] = (status = "failed")
    BY <1>9, ResumePairStep DEF ResumeInv
  <2> DEFINE row == Row(p[1], p[2], RowStatus(status), Type(p[1]) = "file.sync")
  <2>2. /\ row \in RowType /\ p = <<row.node, row.target>>
        /\ row.status = "applied" <=> status = "success"
    BY ResultRow
  <2>3. log' = Append(log, row)
    BY <2>1
  <2> HIDE DEF row
  <2>4. ~Applied(p) /\ ~err[p] /\ status # "partial"
    BY <1>7, <2>1 DEF AtWork
  <2>5. CASE status = "success"
    <3>1. \A d \in DependsOn(p[1]) : \A q \in PairsOf(d) : Applied(q)
      BY <2>1, DependenciesApplied DEF AtWork
    <3>2. LastRowInv' /\ DownwardInv' /\ \A q \in Pair : Applied(q)' <=> Applied(q) \/ q = p
      BY <1>1, <2>2, <2>3, <2>4, <2>5, <3>1, AppliedRow DEF ResumeInv
    <3>3. pc'[p] = "returned" /\ ~err'[p]
      BY <2>1, <2>5
    <3>4. Applied(p)'
      BY <3>2
    <3>5. QED
      BY <1>6, <2>4, <3>2, <3>3, <3>4 DEF AtWork
  <2>6. CASE status = "failed"
    <3>1. LastRowInv' /\ DownwardInv' /\ \A q \in Pair : Applied(q)' = Applied(q)
      BY <1>1, <2>2, <2>3, <2>4, <2>6, UnappliedRow DEF ResumeInv
    <3>2. ~Applied(p)'
      BY <2>4, <3>1
    <3>3. pc'[p] \in {"attempt", "returned"} /\ (err'[p] <=> pc'[p] = "returned")
      BY <2>1, <2>4, <2>6
    <3>4. QED
      BY <1>6, <2>1, <2>4, <3>1, <3>2, <3>3 DEF AtWork
  <2>7. QED
    BY <2>4, <2>5, <2>6
<1>10. QED
  BY <1>8, <1>9

\* Of commands that only resume none rolls back, so the rest is their start
\* and their end.
LEMMA CommandsResume ==
  ASSUME ResumeOnly, WorkInv, ResumeInv, NEW r \in Roller,
         \/ TimeoutFires \/ Return \/ RollbackCommand \/ Crash
         \/ RollbackStep(r) \/ RollbackDone(r) \/ UNCHANGED vars
  PROVE  ResumeInv'
<1> USE DEF runVars, nodeVars, ctxVars, taskVars
<1>1. phase # "rollback" /\ \A n \in Node : nodePc[n] \notin {"rollback", "rollingback"}
  BY DEF ResumeInv, NoRollbackInv
<1>2. CASE TimeoutFires \/ UNCHANGED vars
  <2>1. UNCHANGED <<log, phase, result, err, nodeState, haltExecution, pc, nodePc>>
    BY <1>2 DEF TimeoutFires, vars
  <2>2. QED
    BY <1>1, <2>1, SettlesNothing
<1>3. CASE Return
  <2>1. /\ UNCHANGED <<log, result, err, nodeState, haltExecution, pc, nodePc>>
        /\ phase' \in {"ok", "error"}
    BY <1>3 DEF Return
  <2>2. QED
    BY <1>1, <2>1, SettlesNothing
<1>4. CASE Crash
  <2>1. /\ UNCHANGED <<log, result, err, nodeState, haltExecution>>
        /\ phase' = "crashed"
        /\ \A p \in Pair : pc'[p] = "idle"
        /\ \A n \in Node : nodePc'[n] = "off"
    BY <1>4 DEF Crash
  <2>2. QED
    BY <2>1, SettlesNothing
<1>5. CASE RollbackCommand
  BY <1>5 DEF RollbackCommand, ResumeOnly
<1>6. CASE RollbackStep(r) \/ RollbackDone(r)
  BY <1>1, <1>6 DEF RollbackStep, RollbackDone, RollingBack, Roller
<1>7. QED
  BY <1>2, <1>3, <1>4, <1>5, <1>6

LEMMA ResumeInvariant ==
  ASSUME ResumeOnly
  PROVE  Spec => []ResumeInv
<1>1. Init => ResumeInv
  <2> SUFFICES ASSUME Init PROVE ResumeInv
    OBVIOUS
  <2>1. \A p \in Pair : AppliedRows(p) = {}
    BY DEF Init, AppliedRows, RowsOf
  <2>2. \A n \in Node : PairsOf(n) \subseteq Pair
    BY PairsOfType
  <2>3. LastRowInv /\ DownwardInv
    BY <2>1, <2>2 DEF LastRowInv, DownwardInv, Applied
  <2>4. PairsKnowInv /\ NodesKnowInv /\ NoRollbackInv
    BY DEF Init, PairsKnowInv, NodesKnowInv, NoRollbackInv, AtWork
  <2>5. QED
    BY <2>3, <2>4 DEF ResumeInv
<1>2. TypeOK /\ WorkInv /\ LaunchInv /\ HaltInv /\ ResumeInv /\ [Next]_vars => ResumeInv'
  <2> SUFFICES ASSUME TypeOK, WorkInv, LaunchInv, HaltInv, ResumeInv, [Next]_vars PROVE ResumeInv'
    OBVIOUS
  <2>1. CLI \in Roller
    BY DEF Roller
  <2>2. QED
    BY <2>1, StartRunResume, NodeStepResume, PairStepResume, CommandsResume DEF Next, Progress
<1>3. QED
  BY <1>1, <1>2, TypeCorrect, WorkInvariant, LaunchInvariant, HaltInvariant, PTL DEF Spec

\* Commands that resume a plan of commands and builtins, over any number of
\* failures, timeouts and crashes, execute a pair successfully once: again
\* only when the store never learnt of the first time.
THEOREM ResumeCorrect ==
  ASSUME ResumeOnly
  PROVE  Spec => []ResumedOnce
<1>1. TypeOK /\ ResumeInv /\ LogIsHonest => ResumedOnce
  <2> SUFFICES ASSUME TypeOK, ResumeInv, LogIsHonest, NEW p \in Pair
               PROVE  applies[p] <= 1 + lost[p]
    BY DEF ResumedOnce
  <2>1. /\ lost[p] \in Nat /\ applies[p] \in Nat /\ log \in Seq(RowType)
        /\ applies[p] = Cardinality(AppliedRows(p)) + lost[p] + InFlight(p)
    BY DEF TypeOK, GhostTypes, LogTypes, LogIsHonest, InFlight
  <2>2. CASE AppliedRows(p) = {}
    BY <2>1, <2>2, FS_EmptySet DEF InFlight
  <2>3. CASE AppliedRows(p) # {}
    <3>1. PICK i \in AppliedRows(p) : TRUE
      BY <2>3
    <3>2. AppliedRows(p) = {i}
      <4>1. \A j \in AppliedRows(p) : j \in RowsOf(log, p[1], p[2]) /\ j \in Nat
        <5>1. \A j \in 1..Len(log) : j \in Nat
          BY <2>1
        <5>2. QED
          BY <2>1, <5>1, RowIds
      <4>2. \A j \in AppliedRows(p) : j <= i /\ i <= j
        BY <4>1 DEF ResumeInv, LastRowInv
      <4>3. \A j \in AppliedRows(p) : j = i
        BY <4>1, <4>2
      <4>4. QED
        BY <3>1, <4>3
    <3>3. Cardinality(AppliedRows(p)) = 1
      BY <3>2, FS_Singleton
    <3>4. InFlight(p) = 0
      BY <2>3 DEF InFlight, ResumeInv, PairsKnowInv, AtWork, Applied
    <3>5. QED
      BY <2>1, <3>3, <3>4
  <2>4. QED
    BY <2>2, <2>3
<1>2. QED
  BY <1>1, TypeCorrect, ResumeInvariant, HonestyCorrect, PTL
=============================================================================
