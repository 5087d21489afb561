--------------------------- MODULE FileSync_outcomes ---------------------------
(***************************************************************************)
(* What an apply and a rollback of FileSync leave behind: a torn file is   *)
(* reported, a recorded "applied" is a destination with at most one file   *)
(* that is behind, and the first rollback of the last apply, if it says    *)
(* that it is complete, has brought back what was there.                   *)
(*                                                                         *)
(* StreamInv relates the open temporary file to the chunks of the source   *)
(* that have been sent; with it, and PlanInv for what the change set says  *)
(* of the source, OutcomeInv says of every path of the change set how far  *)
(* it has come, and that only the last one may have stopped unheard.       *)
(* SnapInv makes everything recoverable while an apply is under way;       *)
(* LedgerInv tells its row from earlier ones, and RecoverInv says that all *)
(* stays recoverable until the first rollback, as long as the marker is    *)
(* its own.                                                                *)
(***************************************************************************)
EXTENDS FileSync_proofs

\* What the change set says of the source that it was computed from.
Agrees(c, s) ==
    /\ \A p \in Transfers(c) : s[p].kind = "file"
    /\ \A p \in c.mkdir : s[p] = Dir
    /\ \A p \in c.delete : s[p] = Absent

PlanInv == pc \in {"detected", "streaming", "deleting"} => Agrees(cs, src)

LEMMA DiffAgrees ==
    ASSUME NEW s \in Sources, NEW d
    PROVE  Agrees(Diff(s, d), s)
<1>1. \A p \in Path : s[p] \in Entry
  BY SourceType DEF Tree
<1>2. \A e \in Entry : (e.kind = "dir" => e = Dir) /\ (e.kind = "absent" => e = Absent)
  BY KindsDiffer DEF Entry
<1> QED
  BY <1>1, <1>2 DEF Agrees, Diff, Transfers

LEMMA PlanInvariant == Spec => []PlanInv
<1>1. Init => PlanInv
  BY DEF Init, PlanInv
<1>2. ControlInv /\ PlanInv /\ [Next]_vars => PlanInv'
  <2> SUFFICES ASSUME ControlInv, PlanInv, [Next]_vars PROVE PlanInv'
    OBVIOUS
  <2>0. src \in Sources
    BY DEF ControlInv, Control
  <2> USE DEF world, sync, transfer, result, ledger
  <2>1. CASE pc' \notin {"detected", "streaming", "deleting"}
    BY <2>1 DEF PlanInv
  <2>2. CASE /\ UNCHANGED <<cs, src>>
             /\ pc' = pc \/ pc \in {"detected", "streaming", "deleting"}
    BY <2>2 DEF PlanInv
  <2>3. CASE Sync
    BY <2>3, <2>0, DiffAgrees DEF Sync, PlanInv
  <2>4. CASE EditSource
    BY <2>4, <2>1 DEF EditSource
  <2>5. ASSUME NEW p \in Path, EditDest(p) \/ NextFile(p) \/ Delete(p) PROVE PlanInv'
    BY <2>5, <2>2 DEF EditDest, NextFile, Delete
  <2>6. CASE BeginApply \/ ReceiveMore \/ ReceiveFirst
    BY <2>6, <2>2 DEF BeginApply, ReceiveMore, ReceiveFirst
  <2>7. CASE EndOfStream \/ StreamBreaks \/ ReplyLost
    BY <2>7, <2>2 DEF EndOfStream, StreamBreaks, LeaveLoop, ReplyLost
  <2>8. CASE Reply \/ AgentDies \/ Abandon
    BY <2>8, <2>1 DEF Reply, AgentDies, Abandon
  <2>9. CASE Compensate \/ RollbackCommand \/ UndoRow \/ UndoEnds
    BY <2>9, <2>1, <2>2 DEF Compensate, RollbackCommand, UndoRow, UndoEnds
  <2>10. CASE UNCHANGED vars
    BY <2>10, <2>2 DEF vars
  <2> QED
    BY <2>3, <2>4, <2>5, <2>6, <2>7, <2>8, <2>9, <2>10 DEF Next
<1> QED
  BY <1>1, <1>2, ControlInvariant, PTL DEF Spec

\* d is the first n elements of s.
FirstOf(d, s, n) == Len(d) = n /\ \A i \in 1 .. n : d[i] = s[i]

\* What the open temporary file should hold.
Expected == IF tmp.path = sending THEN sent ELSE Len(src[tmp.path].data)
StreamInv ==
    pc = "streaming" =>
        /\ tmp.path # NoPath =>
             \/ tmp.path \in failed
             \/ ~tmp.closed /\ FirstOf(tmp.data, src[tmp.path].data, Expected)
        /\ sending # NoPath /\ sending # tmp.path => sent = 0 \/ sending \in failed

LEMMA NextOfFirst ==
    ASSUME NEW s \in Seq(Nat), NEW n \in Nat, n < Len(s),
           NEW d \in Seq(Nat), FirstOf(d, s, n)
    PROVE  FirstOf(Append(d, s[n + 1]), s, n + 1)
<1>1. Len(d) = n /\ \A i \in 1 .. n : d[i] = s[i]
  BY DEF FirstOf
<1>2. s[n + 1] \in Nat
  OBVIOUS
<1>3. Len(Append(d, s[n + 1])) = n + 1
  BY <1>1, <1>2
<1>4. \A i \in 1 .. n + 1 : Append(d, s[n + 1])[i] = s[i]
  BY <1>1, <1>2
<1> QED
  BY <1>3, <1>4 DEF FirstOf

LEMMA FirstIsAll ==
    ASSUME NEW s \in Seq(Nat), NEW d \in Seq(Nat), FirstOf(d, s, Len(s))
    PROVE  d = s
BY SeqEqual DEF FirstOf

\* What the agent makes of the open file when the next one comes.
LEMMA TmpFinishedCases ==
    ASSUME Stream, NEW done
    PROVE  \/ TmpFinished(done) = NoTmp
           \/ /\ tmp.path \in Unfinished(done)
              /\ TmpFinished(done).path = tmp.path /\ TmpFinished(done).closed
<1>1. tmp \in TmpType
  BY DEF Stream
<1>2. CASE Unfinished(done) = {}
  BY <1>2 DEF TmpFinished
<1>3. CASE Unfinished(done) # {}
  BY <1>1, <1>3 DEF TmpFinished, Unfinished, TmpType
<1> QED
  BY <1>2, <1>3

LEMMA StreamInvariant == Spec => []StreamInv
<1>1. Init => StreamInv
  BY DEF Init, StreamInv
<1>2. ControlInv /\ ControlInv' /\ StreamInv /\ [Next]_vars => StreamInv'
  <2> SUFFICES ASSUME ControlInv, ControlInv', StreamInv, [Next]_vars PROVE StreamInv'
    OBVIOUS
  <2>0. Control /\ Stream /\ Control' /\ Stream'
    BY DEF ControlInv
  <2> USE DEF world, sync, transfer, result, ledger
  <2>1. CASE pc' # "streaming"
    BY <2>1 DEF StreamInv
  <2>2. CASE UNCHANGED <<pc, tmp, sending, sent, failed, src>>
    BY <2>2 DEF StreamInv, Expected
  <2>3. CASE BeginApply
    BY <2>3, NoTmpIsNone DEF BeginApply, StreamInv
  <2>4. ASSUME NEW p \in Path, NextFile(p) PROVE StreamInv'
    <3>1. /\ pc = "streaming" /\ sending = NoPath /\ p \in left /\ sent' = 0
          /\ sending' \in {p, NoPath}
          /\ UNCHANGED <<tmp, failed, src>>
      BY <2>4 DEF NextFile
    <3>2. tmp.path # p /\ (tmp.path # NoPath => tmp.path # sending')
      BY <3>1, <2>0 DEF Stream
    <3>3. tmp.path # NoPath => Expected' = Expected
      BY <3>1, <3>2 DEF Expected
    <3> QED
      BY <3>1, <3>3 DEF StreamInv
  <2>5. CASE ReceiveMore
    <3>1. /\ pc = "streaming" /\ sending # NoPath /\ tmp.path = sending
          /\ sent' = sent + 1
          /\ sending' = IF sent' = Len(src[sending].data) THEN NoPath ELSE sending
          /\ UNCHANGED src /\ failed \subseteq failed'
      BY <2>5 DEF ReceiveMore, Advance
    <3>2. sending \in Path /\ src[sending].data \in Seq(Nat) /\ tmp \in TmpType
          /\ sent \in Nat /\ sent < Len(src[sending].data)
      BY <3>1, <2>0, TransfersType, SourceType DEF Control, Stream
    <3>3. tmp'.path = tmp.path /\ tmp'.closed = tmp.closed
      BY <2>5, <3>2 DEF ReceiveMore, TmpType
    <3>4. Expected = sent /\ Expected' = sent + 1
      BY <3>1, <3>2, <3>3, FileSyncAssumption DEF Expected
    <3>5. CASE sending \in failed'
      BY <3>1, <3>3, <3>5 DEF StreamInv
    <3>6. CASE sending \notin failed'
      <4>1. tmp' = [tmp EXCEPT !.data = Append(@, src[sending].data[sent + 1])]
        BY <2>5, <3>6 DEF ReceiveMore
      <4>2. tmp'.data = Append(tmp.data, src[sending].data[sent + 1])
        BY <4>1, <3>2 DEF TmpType
      <4>3. ~tmp.closed /\ FirstOf(tmp.data, src[sending].data, sent)
        BY <3>1, <3>4, <3>6 DEF StreamInv
      <4>4. tmp.data \in Seq(Nat)
        BY <3>2 DEF TmpType
      <4>5. FirstOf(tmp'.data, src[sending].data, sent + 1)
        BY <3>2, <4>2, <4>3, <4>4, NextOfFirst
      <4> QED
        BY <3>1, <3>3, <3>4, <4>3, <4>5 DEF StreamInv
    <3> QED
      BY <3>5, <3>6
  <2>6. CASE ReceiveFirst
    <3>1. /\ pc = "streaming" /\ sending # NoPath /\ tmp.path # sending
          /\ sent' = sent + 1
          /\ sending' = IF sent' = Len(src[sending].data) THEN NoPath ELSE sending
          /\ UNCHANGED src
      BY <2>6 DEF ReceiveFirst, Advance
    <3>1b. PICK done :
             /\ failed \cup Unfinished(done) \subseteq failed'
             /\ \/ tmp' = OpenTmp(<<src[sending].data[sent + 1]>>)
                \/ sending \in failed' /\ tmp' \in {TmpFinished(done), OpenTmp(<< >>)}
      BY <2>6 DEF ReceiveFirst, HeadLost
    <3>2. sending \in Path /\ src[sending].data \in Seq(Nat)
          /\ sent \in Nat /\ sent < Len(src[sending].data)
      BY <3>1, <2>0, TransfersType, SourceType DEF Control, Stream
    <3>3. CASE sending \in failed'
      <4>1. tmp'.path = NoPath \/ tmp'.path \in failed'
        BY <3>1b, <3>3, <2>0, TmpFinishedCases, NoTmpIsNone DEF OpenTmp
      <4> QED
        BY <3>1, <3>1b, <3>3, <4>1 DEF StreamInv
    <3>4. CASE sending \notin failed'
      <4>1. sent = 0
        BY <3>1, <3>1b, <3>4 DEF StreamInv
      <4>2. tmp' = OpenTmp(<<src[sending].data[1]>>)
        BY <3>1b, <3>4, <4>1
      <4>3. tmp'.path = sending /\ ~tmp'.closed /\ tmp'.data = <<src[sending].data[1]>>
        BY <4>2 DEF OpenTmp
      <4>4. Expected' = 1
        BY <3>1, <3>2, <4>1, <4>3, FileSyncAssumption DEF Expected
      <4>5. FirstOf(tmp'.data, src[sending].data, 1)
        BY <4>3 DEF FirstOf
      <4>6. sending' # NoPath => sending' = tmp'.path
        BY <3>1, <4>3
      <4> QED
        BY <3>1, <4>3, <4>4, <4>5, <4>6 DEF StreamInv
    <3> QED
      BY <3>3, <3>4
  <2>7. ASSUME NEW p \in Path, EditDest(p) \/ Delete(p) PROVE StreamInv'
    BY <2>7, <2>1 DEF EditDest, Delete
  <2>8. CASE EndOfStream \/ StreamBreaks \/ ReplyLost
    BY <2>8, <2>1, <2>2 DEF EndOfStream, StreamBreaks, LeaveLoop, ReplyLost
  <2>9. CASE EditSource \/ Sync \/ Abandon \/ Reply \/ AgentDies
    BY <2>9, <2>1 DEF EditSource, Sync, Abandon, Reply, AgentDies
  <2>10. CASE Compensate \/ RollbackCommand \/ UndoRow \/ UndoEnds
    BY <2>10, <2>1 DEF Compensate, RollbackCommand, UndoRow, UndoEnds
  <2>11. CASE UNCHANGED vars
    BY <2>11, <2>2 DEF vars
  <2> QED
    BY <2>3, <2>4, <2>5, <2>6, <2>7, <2>8, <2>9, <2>10, <2>11 DEF Next
<1> QED
  BY <1>1, <1>2, ControlInvariant, PTL DEF Spec

-----------------------------------------------------------------------------
AsSource(p) == dest[p] = src[p]

\* How far a path that is to be transferred has come.
Settled(p) == p \in failed \/ src[p].data = << >> \/ AsSource(p)
OnItsWay(p) == p \in left \/ p = sending \/ p = tmp.path

OutcomeInv ==
    Applying /\ ~lost =>
        /\ \A p \in Path : Was(p) \/ AsSource(p) \/ p \in failed
        /\ pc = "streaming" => \A p \in Transfers(cs) : OnItsWay(p) \/ Settled(p)
        /\ pc = "deleting" =>
             /\ \A p, q \in Transfers(cs) : Settled(p) \/ Settled(q) \/ p = q
             /\ \A p \in cs.delete : p \in dels \/ p \in failed \/ dest[p] = Absent

\* A file is renamed into place when all of it has been sent, or it is known to
\* have failed; another path is left alone.
LEMMA FinishedIsSource ==
    ASSUME Control, Stream, PlanInv, StreamInv, pc = "streaming", tmp.path # sending,
           NEW done, Done(done)
    PROVE  \A p \in Path :
             \/ DestFinished(done)[p] = dest[p] /\ p \notin done
             \/ p = tmp.path /\ (p \in failed \/ DestFinished(done)[p] = src[p])
<1> SUFFICES ASSUME NEW p \in Path, p \in done, p \notin failed
             PROVE  p = tmp.path /\ DestFinished(done)[p] = src[p]
  <2>1. done \subseteq {tmp.path}
    BY FinishableType
  <2> QED
    BY <2>1 DEF DestFinished
<1>1. p = tmp.path /\ p # NoPath /\ ~tmp.closed
  BY FinishableType
<1>2. FirstOf(tmp.data, src[p].data, Len(src[p].data))
  BY <1>1 DEF StreamInv, Expected
<1>3. tmp.data \in Seq(Nat) /\ src[p].data \in Seq(Nat)
  BY SourceType DEF Stream, Control, TmpType
<1>4. tmp.data = src[p].data
  BY <1>2, <1>3, FirstIsAll
<1>5. src[p].kind = "file" /\ src[p] \in Entry
  BY <1>1, SourceType DEF Stream, PlanInv, Agrees, Control, Tree
<1>6. src[p] = File(src[p].data)
  BY <1>5, KindsDiffer DEF Entry, File
<1> QED
  BY <1>1, <1>4, <1>6 DEF DestFinished

LEMMA OutcomeInvariant == Spec => []OutcomeInv
<1>1. Init => OutcomeInv
  BY DEF Init, OutcomeInv, Applying
<1>2. ControlInv /\ ControlInv' /\ TreesInv /\ PlanInv /\ StreamInv /\ OutcomeInv
        /\ [Next]_vars => OutcomeInv'
  <2> SUFFICES ASSUME ControlInv, ControlInv', TreesInv, PlanInv, StreamInv, OutcomeInv,
                      [Next]_vars, Applying', ~lost'
               PROVE  OutcomeInv'
    BY DEF OutcomeInv
  <2>0. Control /\ Stream /\ TreesTyped /\ Control' /\ Stream'
    BY DEF ControlInv, TreesInv
  <2>p. Transfers(cs) \subseteq Path /\ cs.delete \subseteq Path /\ cs.mkdir \subseteq Path
    BY <2>0, TransfersType DEF Control, ChangeSet
  <2> USE DEF world, sync, transfer, result, ledger
  <2>1. CASE UNCHANGED <<dest, before, src, pc, cs, left, sending, tmp, failed, dels, lost>>
    BY <2>1 DEF OutcomeInv, Applying, Was, AsSource, OnItsWay, Settled
  <2>2. CASE BeginApply
    <3>1. /\ before' = dest /\ left' = Transfers(cs) /\ pc' = "streaming"
          /\ UNCHANGED <<cs, src>> /\ pc = "detected"
      BY <2>2 DEF BeginApply
    <3>2. PICK bad \in SUBSET cs.mkdir :
            dest' = [p \in Path |-> IF p \in cs.mkdir \ bad THEN Dir ELSE dest[p]]
      BY <2>2 DEF BeginApply
    <3>3. \A p \in cs.mkdir : src[p] = Dir
      BY <3>1 DEF PlanInv, Agrees
    <3>4. \A p \in Path : Was(p)' \/ AsSource(p)'
      BY <3>1, <3>2, <3>3 DEF Was, AsSource
    <3> QED
      BY <3>1, <3>4 DEF OutcomeInv, OnItsWay
  <2>3. ASSUME NEW p \in Path, NextFile(p) PROVE OutcomeInv'
    <3>1. /\ pc = "streaming" /\ sending = NoPath /\ p \in left /\ left' = left \ {p}
          /\ sending' = IF src[p].data = << >> THEN NoPath ELSE p
          /\ UNCHANGED <<dest, before, src, pc, cs, tmp, failed, dels, lost>>
      BY <2>3 DEF NextFile
    <3>2. Applying /\ ~lost
      BY <3>1 DEF Applying
    <3>3. \A q \in Path : Was(q)' \/ AsSource(q)' \/ q \in failed'
      BY <3>1, <3>2 DEF OutcomeInv, Was, AsSource
    <3>4. ASSUME NEW q \in Transfers(cs) PROVE OnItsWay(q)' \/ Settled(q)'
      <4>1. q # NoPath
        BY <2>p, FileSyncAssumption
      <4>2. OnItsWay(q) \/ Settled(q)
        BY <3>1, <3>2 DEF OutcomeInv
      <4> QED
        BY <3>1, <4>1, <4>2 DEF OnItsWay, Settled, AsSource
    <3> QED
      BY <3>1, <3>3, <3>4 DEF OutcomeInv
  <2>4. CASE ReceiveMore
    <3>1. /\ pc = "streaming" /\ sending # NoPath /\ tmp.path = sending
          /\ sending' \in {sending, NoPath} /\ failed \subseteq failed'
          /\ UNCHANGED <<dest, before, src, pc, cs, left, dels, lost>>
      BY <2>4 DEF ReceiveMore, Advance
    <3>2. tmp'.path = tmp.path
      BY <2>4, <2>0 DEF ReceiveMore, Stream, TmpType
    <3>3. Applying /\ ~lost
      BY <3>1 DEF Applying
    <3>4. \A q \in Path : Was(q)' \/ AsSource(q)' \/ q \in failed'
      BY <3>1, <3>3 DEF OutcomeInv, Was, AsSource
    <3>5. ASSUME NEW q \in Transfers(cs) PROVE OnItsWay(q)' \/ Settled(q)'
      BY <3>1, <3>2, <3>3 DEF OutcomeInv, OnItsWay, Settled, AsSource
    <3> QED
      BY <3>1, <3>4, <3>5 DEF OutcomeInv
  <2>5. ASSUME NEW done, Done(done), pc = "streaming", tmp.path # sending, ~lost,
               dest' = DestFinished(done), failed \subseteq failed',
               UNCHANGED <<before, src, cs>>
        PROVE  /\ \A p \in Path : Was(p)' \/ AsSource(p)' \/ p \in failed'
               /\ \A p \in Transfers(cs) : Settled(p) => Settled(p)'
               /\ \A p \in Transfers(cs) :
                     p = tmp.path /\ Unfinished(done) \subseteq failed' => Settled(p)'
    <3>1. \A p \in Path :
            \/ dest'[p] = dest[p] /\ p \notin done
            \/ p = tmp.path /\ (p \in failed \/ dest'[p] = src[p])
      BY <2>0, <2>5, FinishedIsSource
    <3>2. \A p \in Path : Was(p) \/ AsSource(p) \/ p \in failed
      BY <2>5 DEF OutcomeInv, Applying
    <3>3. \A p \in Path : Was(p)' \/ AsSource(p)' \/ p \in failed'
      BY <2>5, <3>1, <3>2 DEF Was, AsSource
    <3>4. ASSUME NEW p \in Transfers(cs), p = tmp.path, Unfinished(done) \subseteq failed'
          PROVE  Settled(p)'
      <4>1. p \in Path /\ p # NoPath
        BY <2>p, FileSyncAssumption
      <4>2. p \in done \/ p \in failed'
        BY <3>4, <4>1 DEF Unfinished
      <4> QED
        BY <2>5, <3>1, <4>1, <4>2 DEF Settled, AsSource
    <3>5. ASSUME NEW p \in Transfers(cs), Settled(p) PROVE Settled(p)'
      <4>1. p \in failed \/ dest'[p] = dest[p] \/ dest'[p] = src[p]
        BY <2>p, <3>1
      <4> QED
        BY <2>5, <3>5, <4>1 DEF Settled, AsSource
    <3> QED
      BY <3>3, <3>4, <3>5
  <2>6. CASE ReceiveFirst
    <3>1. /\ pc = "streaming" /\ sending # NoPath /\ tmp.path # sending
          /\ UNCHANGED <<before, src, pc, cs, left, lost>>
      BY <2>6 DEF ReceiveFirst
    <3>1b. PICK done :
             /\ Done(done) /\ dest' = DestFinished(done)
             /\ failed \subseteq failed' /\ Unfinished(done) \subseteq failed'
             /\ \/ tmp' = OpenTmp(<<src[sending].data[sent + 1]>>)
                \/ sending \in failed'
      BY <2>6 DEF ReceiveFirst, HeadLost, Done
    <3>2. /\ \A p \in Path : Was(p)' \/ AsSource(p)' \/ p \in failed'
          /\ \A p \in Transfers(cs) : p = tmp.path \/ Settled(p) => Settled(p)'
      BY <3>1, <3>1b, <2>5
    <3>3. sending \in failed' \/ tmp'.path = sending
      BY <3>1b DEF OpenTmp
    <3>4. ASSUME NEW q \in Transfers(cs) PROVE OnItsWay(q)' \/ Settled(q)'
      <4>1. OnItsWay(q) \/ Settled(q)
        <5>1. Applying /\ ~lost
          BY <3>1 DEF Applying
        <5> QED
          BY <3>1, <5>1 DEF OutcomeInv
      <4>2. CASE q = sending
        BY <3>1, <3>3, <4>2 DEF OnItsWay, Settled
      <4>3. CASE q \in left
        BY <3>1, <4>3 DEF OnItsWay
      <4>4. CASE q = tmp.path \/ Settled(q)
        BY <3>2, <4>4
      <4> QED
        BY <4>1, <4>2, <4>3, <4>4 DEF OnItsWay
    <3> QED
      BY <3>1, <3>2, <3>4 DEF OutcomeInv
  <2>7. CASE EndOfStream
    <3>1. /\ left = {} /\ sending = NoPath /\ pc = "streaming" /\ pc' = "deleting"
          /\ dels' = cs.delete /\ UNCHANGED <<before, src, cs, failed, lost>>
      BY <2>7 DEF EndOfStream, LeaveLoop
    <3>1b. PICK done : Done(done) /\ dest' = DestFinished(done)
      BY <2>7 DEF EndOfStream, LeaveLoop, Done
    <3>3. Applying /\ ~lost
      BY <3>1 DEF Applying
    <3>4. \A q \in Transfers(cs) : q = tmp.path \/ Settled(q)
      BY <3>1, <3>3, <2>p, FileSyncAssumption DEF OutcomeInv, OnItsWay
    <3>5. /\ \A p \in Path : Was(p)' \/ AsSource(p)' \/ p \in failed'
          /\ \A p \in Transfers(cs) : Settled(p) => Settled(p)'
      <4>1. CASE tmp.path # sending
        BY <3>1, <3>1b, <3>3, <4>1, <2>5
      <4>2. CASE tmp.path = NoPath
        <5>1. done = {}
          BY <3>1b, <4>2, <2>0, FinishableType
        <5>2. dest' = dest
          BY <3>1b, <5>1, <2>0 DEF DestFinished, TreesTyped, Tree
        <5> QED
          BY <3>1, <3>3, <5>2 DEF OutcomeInv, Was, AsSource, Settled
      <4> QED
        BY <3>1, <4>1, <4>2
    <3>6. \A p, q \in Transfers(cs) : Settled(p)' \/ Settled(q)' \/ p = q
      BY <3>4, <3>5
    <3> QED
      BY <3>1, <3>5, <3>6 DEF OutcomeInv
  <2>8. ASSUME NEW p \in Path, Delete(p) PROVE OutcomeInv'
    <3>1. /\ pc = "deleting" /\ p \in dels /\ dels' = dels \ {p}
          /\ UNCHANGED <<before, src, pc, cs, left, sending, tmp, lost>>
          /\ failed \subseteq failed'
          /\ \/ dest' = dest /\ p \in failed'
             \/ dest' = [dest EXCEPT ![p] = Absent]
      BY <2>8 DEF Delete
    <3>2. /\ \A q \in Path \ {p} : dest'[q] = dest[q]
          /\ dest'[p] = Absent \/ (dest'[p] = dest[p] /\ p \in failed')
      BY <3>1, <2>0 DEF TreesTyped, Tree
    <3>3. p \in cs.delete /\ src[p] = Absent
      BY <3>1, <2>0 DEF Stream, PlanInv, Agrees
    <3>4. Applying /\ ~lost
      BY <3>1 DEF Applying
    <3>5. \A q \in Path : Was(q)' \/ AsSource(q)' \/ q \in failed'
      BY <3>1, <3>2, <3>3, <3>4 DEF OutcomeInv, Was, AsSource
    <3>6. ASSUME NEW q \in Transfers(cs), Settled(q) PROVE Settled(q)'
      <4>1. q # p /\ q \in Path
        BY <3>3, <2>0, <2>p DEF Stream, Apart
      <4> QED
        BY <3>1, <3>2, <3>6, <4>1 DEF Settled, AsSource
    <3>7. \A q, r \in Transfers(cs) : Settled(q)' \/ Settled(r)' \/ q = r
      BY <3>1, <3>4, <3>6 DEF OutcomeInv
    <3>8. \A q \in cs.delete : q \in dels' \/ q \in failed' \/ dest'[q] = Absent
      BY <3>1, <3>2, <3>4, <2>p DEF OutcomeInv
    <3> QED
      BY <3>1, <3>5, <3>7, <3>8 DEF OutcomeInv
  <2>9. CASE StreamBreaks \/ ReplyLost
    BY <2>9 DEF StreamBreaks, ReplyLost
  <2>10. CASE EditSource \/ Sync \/ Abandon \/ Reply \/ AgentDies
    BY <2>10 DEF EditSource, Sync, Abandon, Reply, AgentDies, Applying
  <2>11. CASE Compensate \/ RollbackCommand \/ UndoRow \/ UndoEnds
    BY <2>11 DEF Compensate, RollbackCommand, UndoRow, UndoEnds, Applying
  <2>12. ASSUME NEW p \in Path, EditDest(p) PROVE OutcomeInv'
    BY <2>12 DEF EditDest, Applying
  <2>13. CASE UNCHANGED vars
    BY <2>13, <2>1 DEF vars
  <2> QED
    BY <2>2, <2>3, <2>4, <2>6, <2>7, <2>8, <2>9, <2>10, <2>11, <2>12, <2>13 DEF Next
<1> QED
  BY <1>1, <1>2, ControlInvariant, TreesInvariant, PlanInvariant, StreamInvariant, PTL
  DEF Spec

\* As long as the result can still reach the controller, a file that is neither
\* what it was nor what the source has is listed as failed: no lost chunk, no
\* failed write and no failed rename leaves a file that passes for complete.
THEOREM TornCorrect == Spec => []TornIsReported
<1>1. OutcomeInv => TornIsReported
  BY DEF OutcomeInv, TornIsReported, Was, AsSource
<1> QED
  BY <1>1, OutcomeInvariant, PTL

\* A row says "applied" only of a destination where what was to be deleted is
\* gone and nothing is torn, and where of the files to be transferred that are
\* not empty at most one is still what it was: the one that was being finished
\* when the stream ended, whose error apply.go:144 drops.
THEOREM AppliedRowsCorrect == Spec => AppliedIsSynced
<1> DEFINE Synced ==
    Len(rows') > Len(rows) /\ rows'[Len(rows')].status = "applied" =>
        /\ \A p \in Transfers(cs) : dest[p] \in {src[p], before[p]}
        /\ \A p, q \in Behind : p = q
        /\ \A p \in cs.delete : dest[p] = Absent
<1>1. ControlInv /\ TreesInv /\ RowsInv /\ OutcomeInv /\ [Next]_vars => [Synced]_vars
  <2> SUFFICES ASSUME ControlInv, RowsInv, OutcomeInv, [Next]_vars,
                      Len(rows') > Len(rows), rows'[Len(rows')].status = "applied"
               PROVE  Synced
    OBVIOUS
  <2> USE DEF world, sync, transfer, result, ledger
  <2>1. Len(rows) \in Nat /\ rows' # rows
    BY DEF RowsInv
  <2>2. Reply
    BY <2>1 DEF Next, vars, EditSource, EditDest, Sync, Abandon, BeginApply, NextFile,
       ReceiveMore, ReceiveFirst, EndOfStream, StreamBreaks, LeaveLoop, Delete, ReplyLost,
       AgentDies, Compensate, RollbackCommand, UndoRow, UndoEnds
  <2>3. /\ pc = "deleting" /\ dels = {} /\ ~lost
        /\ rows' = Append(rows, [cs |-> cs, status |-> Status,
                                 snap |-> applies, before |-> before])
    BY <2>1, <2>2 DEF Reply
  <2>4. failed = {}
    <3>1. Status = "applied"
      BY <2>3 DEF RowsInv
    <3> QED
      BY <3>1 DEF Status
  <2>5. Transfers(cs) \subseteq Path
    BY TransfersType DEF ControlInv, Control
  <2>6. /\ \A p \in Path : Was(p) \/ AsSource(p) \/ p \in failed
        /\ \A p, q \in Transfers(cs) : Settled(p) \/ Settled(q) \/ p = q
        /\ \A p \in cs.delete : p \in dels \/ p \in failed \/ dest[p] = Absent
    BY <2>3 DEF OutcomeInv, Applying
  <2>7. \A p \in Transfers(cs) : dest[p] \in {src[p], before[p]}
    BY <2>4, <2>5, <2>6 DEF Was, AsSource
  <2>8. \A p \in Behind : p \in Transfers(cs) /\ ~Settled(p)
    BY <2>4 DEF Behind, Settled, AsSource
  <2> QED
    BY <2>3, <2>4, <2>6, <2>7, <2>8
<1> QED
  BY <1>1, ControlInvariant, TreesInvariant, RowsInvariant, OutcomeInvariant, PTL
  DEF Spec, AppliedIsSynced

-----------------------------------------------------------------------------
\* The snapshot directories of applies to come are empty, and the one of the
\* apply under way has copies of what was there and no other.
FaithfulCopy(p) == Snap[p] \in {Absent, before[p]}
SnapInv ==
    /\ \A n \in 1 .. MaxApplies : n > applies => snaps[n] = Nothing
    /\ Applying => \A p \in Path \ uncopied : before[p].kind = "file" => FaithfulCopy(p)

LEMMA FaithfulStays ==
    ASSUME TreesTyped, Control, Applying, NEW p \in Path, Was(p), CopyTried(p),
           UNCHANGED <<before, applies>>
    PROVE  \A q \in Path \ uncopied' :
               (before[q].kind = "file" => FaithfulCopy(q))
               => (before'[q].kind = "file" => FaithfulCopy(q)')
<1>1. applies \in 1 .. MaxApplies
  BY FileSyncAssumption DEF Control
<1>2. snaps[applies] \in [Path -> Entry]
  BY <1>1 DEF TreesTyped, Tree
<1>3. CASE dest[p] = Absent
  <2>1. snaps' = snaps /\ uncopied' = uncopied
    BY <1>3, KindsDiffer DEF Copied, CopyTried, Snapshot, CopyFails
  <2> QED
    BY <2>1 DEF FaithfulCopy, Snap
<1>4. CASE CopyFails(p)
  <2>1. Snap' \in {Snap, [Snap EXCEPT ![p] = File(<< >>)]}
    BY <1>1, <1>2, <1>4 DEF CopyFails, Snap, TreesTyped
  <2>2. uncopied' = uncopied \cup {p}
    BY <1>4 DEF CopyFails
  <2> QED
    BY <1>2, <2>1, <2>2 DEF FaithfulCopy, Snap
<1>5. CASE dest[p] # Absent /\ Copied(p) /\ uncopied' = uncopied
  <2>1. Snap' = [Snap EXCEPT ![p] = CopyOf(dest[p])]
    BY <1>1, <1>2, <1>5 DEF Copied, Snap, TreesTyped
  <2>2. before[p].kind = "file" => CopyOf(dest[p]) = before[p]
    BY DEF CopyOf, Was
  <2> QED
    BY <1>2, <1>5, <2>1, <2>2 DEF FaithfulCopy, Snap
<1> QED
  BY <1>3, <1>4, <1>5 DEF CopyTried, Snapshot

\* Only the snapshot directory of the apply under way is written to, and a
\* rollback empties the one it reads.
LEMMA OthersStay ==
    ASSUME TreesTyped, Control, NEW n \in 1 .. MaxApplies, n > applies, snaps[n] = Nothing
    PROVE  /\ \A p \in Path : CopyTried(p) => snaps'[n] = Nothing
           /\ \A c : Rollback(c) => snaps'[n] = Nothing
<1>1. n # applies /\ snaps \in [1 .. MaxApplies -> Tree]
  BY DEF Control, TreesTyped
<1>2. ASSUME NEW p \in Path, CopyTried(p) PROVE snaps'[n] = Nothing
  BY <1>1, <1>2 DEF CopyTried, Snapshot, Copied, CopyFails
<1>3. ASSUME NEW c, Rollback(c) PROVE snaps'[n] = Nothing
  <2>1. CASE UNCHANGED <<dest, snaps>>
    BY <2>1
  <2>2. ASSUME NEW done, NEW torn, NEW kept, NEW unmarked \in BOOLEAN,
               Touches(c, done, torn, kept, unmarked)
        PROVE  snaps'[n] = Nothing
    <3>1. snaps'[n] = IF n # MarkedSnap THEN snaps[n]
                      ELSE [p \in Path |-> IF p \in kept THEN snaps[n][p] ELSE Absent]
      BY <2>2 DEF Touches, Leaves
    <3> QED
      BY <3>1 DEF Nothing
  <2> QED
    BY <1>3, <2>1, <2>2, RollbackCases
<1> QED
  BY <1>2, <1>3

LEMMA SnapInvariant == Spec => []SnapInv
<1>1. Init => SnapInv
  BY DEF Init, SnapInv, Applying
<1>2. ControlInv /\ TreesInv /\ CopiesInv /\ SnapInv /\ [Next]_vars => SnapInv'
  <2> SUFFICES ASSUME ControlInv, TreesInv, CopiesInv, SnapInv, [Next]_vars PROVE SnapInv'
    OBVIOUS
  <2>0. Control /\ Stream /\ TreesTyped
    BY DEF ControlInv, TreesInv
  <2> USE DEF world, sync, transfer, result, ledger
  <2>1. CASE UNCHANGED <<snaps, applies, before, uncopied>> /\ (Applying' => Applying)
    BY <2>1 DEF SnapInv, FaithfulCopy, Snap
  <2>2. CASE BeginApply
    <3>1. applies' = applies + 1 /\ snaps' = snaps /\ applies < MaxApplies /\ applies \in Nat
      BY <2>2, <2>0 DEF BeginApply, Control
    <3>2. \A n \in 1 .. MaxApplies : n > applies => snaps[n] = Nothing
      BY DEF SnapInv
    <3>3. applies' \in 1 .. MaxApplies /\ applies' > applies
      BY <3>1, FileSyncAssumption
    <3>4. Snap' = Nothing
      BY <3>1, <3>2, <3>3 DEF Snap
    <3>5. \A n \in 1 .. MaxApplies : n > applies' => snaps'[n] = Nothing
      BY <3>1, <3>2
    <3> QED
      BY <3>4, <3>5 DEF SnapInv, FaithfulCopy, Nothing
  <2>3. ASSUME Applying, UNCHANGED <<before, applies>>, NEW p \in Path, Was(p), CopyTried(p)
        PROVE  SnapInv'
    <3>1. \A n \in 1 .. MaxApplies : n > applies' => snaps'[n] = Nothing
      BY <2>0, <2>3, OthersStay DEF SnapInv
    <3>2. \A q \in Path \ uncopied' :
               (before[q].kind = "file" => FaithfulCopy(q))
               => (before'[q].kind = "file" => FaithfulCopy(q)')
      BY <2>0, <2>3, FaithfulStays
    <3>3. uncopied \subseteq uncopied'
      BY <2>3 DEF CopyTried, Snapshot, CopyFails
    <3>4. \A q \in Path \ uncopied' : before'[q].kind = "file" => FaithfulCopy(q)'
      BY <2>3, <3>2, <3>3 DEF SnapInv
    <3> QED
      BY <3>1, <3>4 DEF SnapInv
  <2>4. CASE ReceiveFirst
    <3>1. /\ pc = "streaming" /\ sending # NoPath /\ UNCHANGED <<before, applies>>
          /\ CopyTried(sending)
      BY <2>4 DEF ReceiveFirst, CopyTried
    <3>2. sending \in Path /\ Applying /\ Was(sending)
      BY <3>1, <2>0, TransfersType DEF Control, Stream, CopiesInv, Applying
    <3> QED
      BY <3>1, <3>2, <2>3
  <2>5. ASSUME NEW p \in Path, Delete(p) PROVE SnapInv'
    <3>1. /\ pc = "deleting" /\ p \in dels /\ UNCHANGED <<before, applies>> /\ CopyTried(p)
      BY <2>5 DEF Delete, CopyTried
    <3>2. Applying /\ Was(p)
      BY <3>1 DEF CopiesInv, Applying
    <3> QED
      BY <3>1, <3>2, <2>3
  <2>6. ASSUME NEW c, Rollback(c) \/ snaps' = snaps, UNCHANGED applies, ~Applying'
        PROVE  SnapInv'
    <3>1. \A n \in 1 .. MaxApplies : n > applies' => snaps'[n] = Nothing
      BY <2>0, <2>6, OthersStay DEF SnapInv
    <3> QED
      BY <2>6, <3>1 DEF SnapInv
  <2>7. CASE Compensate
    <3>1. ~Applying' /\ applies' = applies /\ (Rollback(cs) \/ snaps' = snaps)
      BY <2>7 DEF Compensate, Applying
    <3> QED
      BY <3>1, <2>6
  <2>8. CASE UndoRow
    <3>1. ~Applying' /\ applies' = applies /\ (Rollback(rows[undo].cs) \/ snaps' = snaps)
      BY <2>8 DEF UndoRow, Applying
    <3> QED
      BY <3>1, <2>6
  <2>9. CASE EditSource \/ Sync \/ Abandon \/ RollbackCommand \/ UndoEnds
    BY <2>9, <2>1 DEF EditSource, Sync, Abandon, RollbackCommand, UndoEnds, Applying
  <2>10. ASSUME NEW p \in Path, EditDest(p) \/ NextFile(p) PROVE SnapInv'
    BY <2>10, <2>1 DEF EditDest, NextFile, Applying
  <2>11. CASE ReceiveMore \/ EndOfStream \/ StreamBreaks \/ ReplyLost
    BY <2>11, <2>1 DEF ReceiveMore, EndOfStream, StreamBreaks, LeaveLoop, ReplyLost, Applying
  <2>12. CASE Reply \/ AgentDies
    BY <2>12, <2>1 DEF Reply, AgentDies, Applying
  <2>13. CASE UNCHANGED vars
    BY <2>13, <2>1 DEF vars, Applying
  <2> QED
    BY <2>2, <2>4, <2>5, <2>7, <2>8, <2>9, <2>10, <2>11, <2>12, <2>13 DEF Next
<1> QED
  BY <1>1, <1>2, ControlInvariant, TreesInvariant, CopiesInvariant, PTL DEF Spec

-----------------------------------------------------------------------------
\* The rows of earlier applies name earlier snapshots; that of the last one
\* knows what was there before it.
LedgerInv ==
    /\ \A i \in 1 .. Len(rows) :
         /\ rows[i].snap \in 1 .. applies /\ Apart(rows[i].cs)
         /\ rows[i].snap = applies => ~Applying /\ rows[i].before = before
    /\ pc = "compensating" => rows # << >> /\ rows[Len(rows)].cs = cs

LEMMA RowTypes ==
    ASSUME RowsInv, NEW i \in 1 .. Len(rows)
    PROVE  rows[i].cs \in ChangeSet /\ rows[i].snap \in Nat
<1>1. rows[i] \in RowRecord
  BY DEF RowsInv
<1> QED
  BY <1>1 DEF RowRecord

NewRow == [cs |-> cs, status |-> Status, snap |-> applies, before |-> before]

LEMMA ReplyRecords ==
    ASSUME Reply, RowsInv
    PROVE  \/ rows' = rows /\ pc' = "idle"
           \/ /\ Len(rows') = Len(rows) + 1 /\ rows'[Len(rows) + 1] = NewRow
              /\ \A i \in 1 .. Len(rows) : rows'[i] = rows[i]
BY DEF Reply, RowsInv, NewRow

LEMMA LedgerInvariant == Spec => []LedgerInv
<1>1. Init => LedgerInv
  BY DEF Init, LedgerInv
<1>2. ControlInv /\ RowsInv /\ LedgerInv /\ [Next]_vars => LedgerInv'
  <2> SUFFICES ASSUME ControlInv, RowsInv, LedgerInv, [Next]_vars PROVE LedgerInv'
    OBVIOUS
  <2>0. Control /\ Stream
    BY DEF ControlInv
  <2> USE DEF world, sync, transfer, result, ledger
  <2>1. CASE UNCHANGED <<rows, applies, before>> /\ (Applying' => Applying) /\ pc' # "compensating"
    BY <2>1 DEF LedgerInv
  <2>2. CASE BeginApply
    <3>1. applies' = applies + 1 /\ rows' = rows /\ pc' # "compensating"
      BY <2>2 DEF BeginApply
    <3>2. \A i \in 1 .. Len(rows) :
            rows[i].snap \in 1 .. applies /\ Apart(rows[i].cs)
      BY RowTypes DEF LedgerInv
    <3>3. applies \in Nat
      BY <2>0 DEF Control
    <3>4. \A i \in 1 .. Len(rows) : rows[i].snap < applies'
      BY <3>1, <3>2, <3>3
    <3> QED
      BY <3>1, <3>2, <3>3, <3>4 DEF LedgerInv
  <2>3. CASE Reply
    <3>1. /\ UNCHANGED <<applies, before, cs>> /\ ~Applying' /\ Applying
          /\ rows' = rows => pc' = "idle"
      <4>1. rows' # rows \/ pc' = "idle"
        <5>1. Len(Append(rows, NewRow)) # Len(rows)
          BY DEF RowsInv
        <5> QED
          BY <2>3, <5>1 DEF Reply, NewRow
      <4> QED
        BY <2>3, <4>1 DEF Reply, Applying
    <3>2. CASE rows' = rows
      BY <3>1, <3>2 DEF LedgerInv
    <3>3. CASE /\ Len(rows') = Len(rows) + 1 /\ rows'[Len(rows) + 1] = NewRow
               /\ \A i \in 1 .. Len(rows) : rows'[i] = rows[i]
      <4>1. NewRow.snap = applies /\ NewRow.cs = cs /\ NewRow.before = before
        BY DEF NewRow
      <4>2. Len(rows) \in Nat /\ applies \in 1 .. applies
        BY <3>1, <2>0 DEF RowsInv, Control
      <4>3. \A i \in 1 .. Len(rows') : i \in 1 .. Len(rows) \/ i = Len(rows) + 1
        BY <3>3, <4>2
      <4>4. ASSUME NEW i \in 1 .. Len(rows')
            PROVE  /\ rows'[i].snap \in 1 .. applies /\ Apart(rows'[i].cs)
                   /\ rows'[i].snap = applies => rows'[i].before = before
        <5>1. CASE i = Len(rows) + 1
          BY <5>1, <3>3, <4>1, <4>2, <2>0 DEF Stream
        <5>2. CASE i \in 1 .. Len(rows)
          BY <5>2, <3>1, <3>3 DEF LedgerInv
        <5> QED
          BY <4>3, <5>1, <5>2
      <4>5. rows' # << >> /\ rows'[Len(rows')].cs = cs
        BY <3>3, <4>1, <4>2
      <4> QED
        BY <3>1, <4>4, <4>5 DEF LedgerInv
    <3> QED
      BY <2>3, <3>2, <3>3, ReplyRecords
  <2>4. CASE EditSource \/ Sync \/ Abandon \/ RollbackCommand \/ UndoEnds
    BY <2>4, <2>1 DEF EditSource, Sync, Abandon, RollbackCommand, UndoEnds, Applying
  <2>5. ASSUME NEW p \in Path, EditDest(p) \/ NextFile(p) \/ Delete(p) PROVE LedgerInv'
    BY <2>5, <2>1 DEF EditDest, NextFile, Delete, Applying
  <2>6. CASE ReceiveMore \/ ReceiveFirst
    BY <2>6, <2>1 DEF ReceiveMore, ReceiveFirst, Applying
  <2>7. CASE EndOfStream \/ StreamBreaks \/ ReplyLost \/ AgentDies
    BY <2>7, <2>1 DEF EndOfStream, StreamBreaks, LeaveLoop, ReplyLost, AgentDies, Applying
  <2>8. CASE Compensate \/ UndoRow
    BY <2>8, <2>1 DEF Compensate, UndoRow, Applying
  <2>9. CASE UNCHANGED vars
    BY <2>9 DEF vars, LedgerInv, Applying
  <2> QED
    BY <2>2, <2>3, <2>4, <2>5, <2>6, <2>7, <2>8, <2>9 DEF Next
<1> QED
  BY <1>1, <1>2, ControlInvariant, RowsInvariant, PTL DEF Spec

-----------------------------------------------------------------------------
\* A complete rollback of the last apply would bring p back.
Recoverable(p) == Snap[p] = before[p] \/ (Was(p) /\ Snap[p] = Absent)
AllRecoverable(c) ==
    \A p \in (c.update \cup c.delete) \ (touched \cup uncopied \cup {Marker}) :
        before[p].kind = "file" => Recoverable(p)

RecoverInv ==
    ~Applying /\ answer = "none" /\ Marked /\ MarkedSnap = applies =>
        \A i \in 1 .. Len(rows) :
            rows[i].snap = applies => AllRecoverable(rows[i].cs)

\* As long as an apply is under way everything that it replaces or deletes can
\* be recovered.
LEMMA RecoverableWhileApplying ==
    ASSUME ControlInv, CopiesInv, SnapInv, Applying
    PROVE  AllRecoverable(cs)
<1> SUFFICES ASSUME NEW p \in (cs.update \cup cs.delete)
                              \ (touched \cup uncopied \cup {Marker}),
                    before[p].kind = "file"
             PROVE  Recoverable(p)
  BY DEF AllRecoverable
<1>1. p \in Path /\ p \in Transfers(cs) \cup cs.delete
  BY DEF ControlInv, Control, ChangeSet, Transfers
<1>2. FaithfulCopy(p)
  BY <1>1 DEF SnapInv
<1>3. Was(p) \/ Snap[p] = before[p]
  BY <1>1 DEF CopiesInv, HasCopy
<1> QED
  BY <1>2, <1>3 DEF Recoverable, FaithfulCopy

LEMMA RecoverInvariant == Spec => []RecoverInv
<1>1. Init => RecoverInv
  BY DEF Init, RecoverInv
<1>2. ControlInv /\ TreesInv /\ RowsInv /\ CopiesInv /\ SnapInv
        /\ LedgerInv /\ LedgerInv' /\ RecoverInv /\ [Next]_vars => RecoverInv'
  <2> SUFFICES ASSUME ControlInv, TreesInv, RowsInv, CopiesInv, SnapInv,
                      LedgerInv, LedgerInv', RecoverInv, [Next]_vars,
                      ~Applying', answer' = "none", Marked', MarkedSnap' = applies',
                      NEW i \in 1 .. Len(rows'), rows'[i].snap = applies'
               PROVE  AllRecoverable(rows[i].cs)'
    BY DEF RecoverInv
  <2>0. Control /\ Stream /\ TreesTyped
    BY DEF ControlInv, TreesInv
  <2> USE DEF world, sync, transfer, result, ledger
  <2>1. CASE UNCHANGED <<dest, snaps, rows, answer, applies, before, touched, uncopied>> /\ ~Applying
    <3>1. Marked /\ MarkedSnap = applies
      BY <2>1 DEF Marked, MarkedSnap
    <3>2. AllRecoverable(rows[i].cs)
      BY <2>1, <3>1 DEF RecoverInv
    <3> QED
      BY <2>1, <3>2 DEF AllRecoverable, Recoverable, Was, Snap
  <2>2. CASE Reply
    <3>1. /\ UNCHANGED <<snaps, applies, before, touched, uncopied, cs>>
          /\ dest' = dest \/ \E m : dest' = [dest EXCEPT ![Marker] = m]
          /\ Applying
      BY <2>2 DEF Reply, Applying
    <3>2. AllRecoverable(cs)
      BY <3>1, RecoverableWhileApplying
    <3>3. \A p \in Path \ {Marker} : dest'[p] = dest[p]
      BY <3>1, <2>0 DEF TreesTyped, Tree
    <3>4. rows'[i].cs = cs
      <4>1. CASE rows' = rows
        BY <4>1, <3>1 DEF LedgerInv
      <4>2. CASE /\ Len(rows') = Len(rows) + 1 /\ rows'[Len(rows) + 1] = NewRow
                 /\ \A k \in 1 .. Len(rows) : rows'[k] = rows[k]
        <5>1. Len(rows) \in Nat
          BY DEF RowsInv
        <5>2. CASE i \in 1 .. Len(rows)
          BY <4>2, <5>2, <3>1 DEF LedgerInv
        <5>3. CASE i = Len(rows) + 1
          BY <4>2, <5>3 DEF NewRow
        <5> QED
          BY <4>2, <5>1, <5>2, <5>3
      <4> QED
        BY <2>2, <4>1, <4>2, ReplyRecords
    <3>5. cs.update \cup cs.delete \subseteq Path
      BY <2>0 DEF Control, ChangeSet
    <3>6. ASSUME NEW p \in (cs.update \cup cs.delete)
                           \ (touched \cup uncopied \cup {Marker}),
                 before[p].kind = "file"
          PROVE  Recoverable(p)'
      <4>1. Recoverable(p) /\ dest'[p] = dest[p]
        BY <3>2, <3>3, <3>5, <3>6 DEF AllRecoverable
      <4> QED
        BY <3>1, <4>1 DEF Recoverable, Was, Snap
    <3> QED
      BY <3>1, <3>4, <3>6 DEF AllRecoverable
  <2>3. CASE AgentDies
    BY <2>3 DEF AgentDies, LedgerInv, Applying
  <2>4. ASSUME NEW q \in Path, EditDest(q) PROVE AllRecoverable(rows[i].cs)'
    <3>1. /\ ~Applying /\ q # Marker /\ touched' = touched \cup {q}
          /\ UNCHANGED <<snaps, rows, answer, applies, before, uncopied>>
          /\ \E e : dest' = [dest EXCEPT ![q] = e]
      BY <2>4 DEF EditDest, Applying
    <3>2. \A p \in Path \ {q} : dest'[p] = dest[p]
      BY <3>1, <2>0 DEF TreesTyped, Tree
    <3>3. Marked /\ MarkedSnap = applies
      BY <3>1, <3>2, FileSyncAssumption DEF Marked, MarkedSnap
    <3>4. AllRecoverable(rows[i].cs)
      BY <3>1, <3>3 DEF RecoverInv
    <3>5. rows[i].cs \in ChangeSet
      BY <3>1, RowTypes
    <3>6. ASSUME NEW p \in (rows[i].cs.update \cup rows[i].cs.delete)
                           \ (touched' \cup uncopied \cup {Marker}),
                 before[p].kind = "file"
          PROVE  Recoverable(p)'
      <4>1. p \in Path \ {q}
        BY <3>1, <3>5 DEF ChangeSet
      <4>2. Recoverable(p)
        BY <3>1, <3>4, <3>6 DEF AllRecoverable
      <4> QED
        BY <3>1, <3>2, <4>1, <4>2 DEF Recoverable, Was, Snap
    <3> QED
      BY <3>1, <3>6 DEF AllRecoverable
  <2>5. ASSUME NEW c, Rollback(c) PROVE FALSE
    BY <2>5 DEF Rollback, RollbackRuns, RollbackSkipped, RollbackLost
  <2>6. CASE Compensate \/ UndoRow
    BY <2>6, <2>5, <2>1 DEF Compensate, UndoRow, Applying
  <2>7. CASE EditSource \/ Sync \/ Abandon \/ RollbackCommand \/ UndoEnds
    BY <2>7, <2>1 DEF EditSource, Sync, Abandon, RollbackCommand, UndoEnds, Applying
  <2>8. ASSUME NEW p \in Path, NextFile(p) \/ Delete(p) PROVE AllRecoverable(rows[i].cs)'
    BY <2>8 DEF NextFile, Delete, Applying
  <2>9. CASE BeginApply \/ ReceiveMore \/ ReceiveFirst
    BY <2>9 DEF BeginApply, ReceiveMore, ReceiveFirst, Applying
  <2>10. CASE EndOfStream \/ StreamBreaks \/ ReplyLost
    BY <2>10 DEF EndOfStream, StreamBreaks, LeaveLoop, ReplyLost, Applying
  <2>11. CASE UNCHANGED vars
    BY <2>11, <2>1 DEF vars, Applying
  <2> QED
    BY <2>2, <2>3, <2>4, <2>6, <2>7, <2>8, <2>9, <2>10, <2>11 DEF Next
<1> QED
  BY <1>1, <1>2, ControlInvariant, TreesInvariant, RowsInvariant, CopiesInvariant,
     SnapInvariant, LedgerInvariant, PTL DEF Spec

\* A rollback that says it is complete has copied back all there was to copy,
\* and removed all that was created.
LEMMA CompleteLeaves ==
    ASSUME NEW c, Rollback(c), answer' = "complete"
    PROVE  Marked /\ \E kept : \E unmarked \in BOOLEAN :
                        Leaves(c, Restorable(c) \cup c.create, {}, kept, unmarked)
<1> DEFINE todo == Restorable(c) \cup c.create
           free == {p \in todo : p \in c.create \/ dest[p].kind # "dir"}
<1>1. Marked /\ RollbackRuns(c)
  BY DEF Rollback, RollbackSkipped, RollbackLost
<1>2. /\ free = todo
      /\ \E kept : \E unmarked \in BOOLEAN : Leaves(c, free, {}, kept, unmarked)
  BY <1>1 DEF RollbackRuns
<1> QED
  BY <1>1, <1>2

\* The first rollback of the last apply, at once after it failed or with
\* rollback --last, brings back every file it updated or deleted and removes
\* what it created, if it says it is complete, the marker is still that of the
\* apply and nobody has touched the file since.
THEOREM UndoCorrect == Spec => UndoRestores
<1> DEFINE Restoring ==
    answer = "none" /\ answer' = "complete"
    /\ UndoneRow.snap = applies /\ MarkedSnap = applies =>
        /\ \A p \in (UndoneRow.cs.update \cup UndoneRow.cs.delete)
                     \ (touched \cup uncopied \cup {Marker}) :
             UndoneRow.before[p].kind = "file" => dest'[p] = UndoneRow.before[p]
        /\ \A p \in UndoneRow.cs.create :
             UndoneRow.before[p] = Absent => dest'[p] = Absent
<1>1. ControlInv /\ TreesInv /\ RowsInv /\ LedgerInv /\ RecoverInv /\ [Next]_vars
        => [Restoring]_vars
  <2> SUFFICES ASSUME ControlInv, TreesInv, RowsInv, LedgerInv, RecoverInv, [Next]_vars,
                      answer = "none", answer' = "complete",
                      UndoneRow.snap = applies, MarkedSnap = applies
               PROVE  Restoring
    OBVIOUS
  <2> USE DEF world, sync, transfer, result, ledger
  <2>1. Compensate \/ UndoRow
    BY DEF Next, vars, EditSource, EditDest, Sync, Abandon, BeginApply, NextFile,
       ReceiveMore, ReceiveFirst, EndOfStream, StreamBreaks, LeaveLoop, Delete, Reply,
       ReplyLost, AgentDies, RollbackCommand, UndoEnds
  <2>2. PICK i \in 1 .. Len(rows) : UndoneRow = rows[i] /\ Rollback(rows[i].cs)
    <3>1. CASE Compensate
      <4>1. Rollback(cs) /\ pc = "compensating"
        BY <3>1 DEF Compensate
      <4>2. rows # << >> /\ rows[Len(rows)].cs = cs /\ UndoneRow = rows[Len(rows)]
        BY <4>1 DEF LedgerInv, UndoneRow
      <4>3. Len(rows) \in 1 .. Len(rows)
        BY <4>2 DEF RowsInv
      <4> QED
        BY <4>1, <4>2, <4>3
    <3>2. CASE UndoRow
      <4>1. Rollback(rows[undo].cs) /\ UndoneRow = rows[undo] /\ undo > 0
        BY <3>2 DEF UndoRow, UndoneRow
      <4>2. undo \in 1 .. Len(rows)
        BY <4>1 DEF RowsInv
      <4> QED
        BY <4>1, <4>2
    <3> QED
      BY <2>1, <3>1, <3>2
  <2>3. PICK c \in ChangeSet : c = rows[i].cs
    BY RowTypes
  <2>4. Marked /\ \E kept : \E unmarked \in BOOLEAN :
                     Leaves(c, Restorable(c) \cup c.create, {}, kept, unmarked)
    BY <2>2, <2>3, CompleteLeaves
  <2>5. ~Applying
    BY <2>1 DEF Compensate, UndoRow, Applying
  <2>6. rows[i].before = before /\ Apart(c) /\ AllRecoverable(c) /\ applies # 0
    <3>1. rows[i].snap \in 1 .. applies /\ Apart(rows[i].cs) /\ rows[i].before = before
      BY <2>2 DEF LedgerInv
    <3>2. AllRecoverable(rows[i].cs)
      BY <2>2, <2>4, <2>5 DEF RecoverInv
    <3> QED
      BY <3>1, <3>2, <2>3 DEF ControlInv, Control
  <2>7. MarkedTree = Snap
    BY <2>6 DEF MarkedTree, Snap
  <2>8. ASSUME NEW p \in Path, p # Marker
        PROVE  dest'[p] = IF p \in Restorable(c) \cup c.create
                          THEN IF p \in c.create THEN Absent ELSE Snap[p] ELSE dest[p]
    BY <2>4, <2>7, <2>8 DEF Leaves
  <2>9. ASSUME NEW p \in (c.update \cup c.delete) \ (touched \cup uncopied \cup {Marker}),
               before[p].kind = "file"
        PROVE  dest'[p] = before[p]
    <3>1. p \in Path /\ p # Marker /\ p \notin c.create
      BY <2>6 DEF ChangeSet, Apart, Transfers
    <3>2. p \in Restorable(c) <=> Snap[p].kind = "file"
      BY <2>7 DEF Restorable
    <3>3. dest'[p] = IF Snap[p].kind = "file" THEN Snap[p] ELSE dest[p]
      BY <2>8, <3>1, <3>2
    <3>4. Recoverable(p)
      BY <2>6, <2>9 DEF AllRecoverable
    <3> QED
      BY <2>9, <3>3, <3>4, KindsDiffer DEF Recoverable, Was
  <2>10. ASSUME NEW p \in c.create PROVE dest'[p] = Absent
    <3>1. p \in Path /\ p # Marker
      BY <2>6 DEF ChangeSet, Apart, Transfers
    <3> QED
      BY <2>8, <3>1
  <2> QED
    BY <2>2, <2>3, <2>6, <2>9, <2>10
<1> QED
  BY <1>1, ControlInvariant, TreesInvariant, RowsInvariant, LedgerInvariant,
     RecoverInvariant, PTL DEF Spec, UndoRestores
=============================================================================
