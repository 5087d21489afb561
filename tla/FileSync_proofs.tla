---------------------------- MODULE FileSync_proofs ----------------------------
(***************************************************************************)
(* Type correctness of FileSync, and that Apply replaces and deletes no    *)
(* file without a faithful copy, for all trees, bounds and faults.         *)
(*                                                                         *)
(* ControlInv follows the stream: a file is still to come, on its way, or  *)
(* open, and never two of them again.  TreesInv types the trees, and says  *)
(* that a marker, wherever there is one, is empty or names an apply that   *)
(* has begun.  CopiesInv is the reason why the copies are faithful:        *)
(* whatever is still to be replaced or deleted is what it was when the     *)
(* apply began, and what is open for replacement has been copied.          *)
(***************************************************************************)
EXTENDS FileSync, SequenceTheorems, TLAPS

Control ==
    /\ src \in Sources /\ cs \in ChangeSet
    /\ pc \in {"idle", "detected", "streaming", "deleting", "compensating", "undoing"}
    /\ applied \subseteq Path /\ failed \subseteq Path /\ lost \in BOOLEAN
    /\ applies \in 0 .. MaxApplies /\ faults \in 0 .. MaxFaults /\ edits \in 0 .. MaxEdits
    /\ touched \subseteq Path
    /\ pc = "detected" => applies < MaxApplies
    /\ Applying => applies > 0

\* What is created, updated, deleted and made a directory are different paths,
\* and the marker is at most deleted.
Apart(c) ==
    /\ c.create \cap c.update = {}
    /\ Transfers(c) \cap c.delete = {} /\ Transfers(c) \cap c.mkdir = {}
    /\ c.mkdir \cap c.delete = {}
    /\ Marker \notin Transfers(c) \cup c.mkdir

TmpType == [path : Path \cup {NoPath}, data : Seq(Nat), closed : BOOLEAN]

Stream ==
    /\ Apart(cs)
    /\ left \subseteq Transfers(cs) /\ sent \in Nat
    /\ sending \in (Transfers(cs) \cup {NoPath}) \ left
    /\ tmp.path \in (Transfers(cs) \cup {NoPath}) \ left /\ tmp \in TmpType
    /\ sending # NoPath => sent < Len(src[sending].data)
    /\ pc # "streaming" => left = {} /\ sending = NoPath /\ tmp = NoTmp
    /\ dels \subseteq cs.delete /\ (pc # "deleting" => dels = {})

ControlInv == Control /\ Stream

LEMMA SourceType ==
    ASSUME NEW s \in Sources
    PROVE  s \in Tree /\ s[Marker] = Absent /\ \A p \in Path : s[p].data \in Seq(Nat)
<1>1. s \in Tree /\ s[Marker] = Absent
  BY FileSyncAssumption
<1>2. \A p \in Path : s[p] \in Entry
  BY <1>1 DEF Tree
<1>3. \A e \in Entry : e.data \in Seq(Nat)
  <2>1. << >> \in Seq(Nat)
    OBVIOUS
  <2>2. Absent.data = << >> /\ Dir.data = << >>
    BY DEF Absent, Dir
  <2>3. \A e \in [kind : {"file"}, data : Seq(Nat)] : e.data \in Seq(Nat)
    OBVIOUS
  <2> QED
    BY <2>1, <2>2, <2>3 DEF Entry
<1> QED
  BY <1>1, <1>2, <1>3

LEMMA DiffApart ==
    ASSUME NEW s \in Sources, NEW d
    PROVE  Diff(s, d) \in ChangeSet /\ Apart(Diff(s, d))
<1>1. Diff(s, d) \in ChangeSet
  BY DEF Diff, ChangeSet
<1>2. s[Marker].kind = "absent"
  BY SourceType DEF Absent
<1> QED
  BY <1>1, <1>2 DEF Diff, Apart, Transfers

LEMMA TransfersType == ASSUME NEW c \in ChangeSet PROVE Transfers(c) \subseteq Path
BY DEF ChangeSet, Transfers

LEMMA FaultsBounded ==
    ASSUME Control, Fault \/ faults' = faults
    PROVE  faults' \in 0 .. MaxFaults
BY FileSyncAssumption DEF Control, Fault

\* What finishCurrentFile may have done.
Done(done) == done \in {Finishable, {}}

LEMMA FinishableType ==
    ASSUME Control, Stream, NEW done, Done(done)
    PROVE  /\ done \subseteq Path /\ done \subseteq Transfers(cs)
           /\ done \subseteq {tmp.path} /\ Marker \notin done /\ Unfinished(done) \subseteq Path
           /\ done # {} => ~tmp.closed /\ tmp.path # NoPath
<1>1. tmp.path \in Transfers(cs) \cup {NoPath} /\ Transfers(cs) \subseteq Path
  BY TransfersType DEF Control, Stream
<1>2. Marker \notin Transfers(cs)
  BY DEF Stream, Apart
<1> QED
  BY <1>1, <1>2 DEF Done, Finishable, Unfinished

LEMMA NoTmpType == NoTmp \in TmpType
<1>1. << >> \in Seq(Nat)
  OBVIOUS
<1> QED
  BY <1>1 DEF NoTmp, TmpType

LEMMA NextChunk ==
    ASSUME Control, Stream, sending # NoPath
    PROVE  src[sending].data[sent + 1] \in Nat
<1>1. sending \in Path
  BY TransfersType DEF Control, Stream
<1>2. src[sending].data \in Seq(Nat)
  BY <1>1, SourceType DEF Control
<1>3. sent \in Nat /\ sent < Len(src[sending].data)
  BY DEF Stream
<1> QED
  BY <1>2, <1>3

LEMMA NoTmpIsNone == NoTmp.path = NoPath
BY DEF NoTmp

LEMMA ControlInvariant == Spec => []ControlInv
<1>1. Init => ControlInv
  <2> SUFFICES ASSUME Init PROVE ControlInv
    OBVIOUS
  <2>1. cs \in ChangeSet /\ Apart(cs)
    BY DiffApart DEF Init
  <2> QED
    <3>1. Control
      <4>1. 0 \in 0 .. MaxApplies /\ 0 \in 0 .. MaxFaults /\ 0 \in 0 .. MaxEdits
        BY FileSyncAssumption
      <4>2. pc = "idle" /\ ~Applying
        BY DEF Init, Applying
      <4> QED
        BY <2>1, <4>1, <4>2 DEF Init, Control
    <3>2. Stream
      BY <2>1, FileSyncAssumption, NoTmpType DEF Init, Stream, NoTmp
    <3> QED
      BY <3>1, <3>2 DEF ControlInv
<1>2. ControlInv /\ [Next]_vars => ControlInv'
  <2> SUFFICES ASSUME ControlInv, [Next]_vars PROVE ControlInv'
    OBVIOUS
  <2>0. Control /\ Stream
    BY DEF ControlInv
  <2> USE DEF world, sync, transfer, result, ledger
  <2>1. CASE EditSource
    <3>1. pc = "idle" /\ src' \in Sources
          /\ UNCHANGED <<pc, left, sending, sent, tmp, applied, failed, lost, cs,
                         dels, applies, faults, edits, touched>>
      BY <2>1 DEF EditSource
    <3> QED
      BY <3>1, <2>0 DEF ControlInv, Control, Stream, Applying, Apart, Transfers
  <2>2. ASSUME NEW p \in Path, EditDest(p) PROVE ControlInv'
    <3>1. UNCHANGED <<src, pc, left, sending, sent, tmp, applied, failed, lost, cs,
                      dels, applies, faults>>
          /\ edits' = edits + 1 /\ edits < MaxEdits /\ touched' = touched \cup {p}
      BY <2>2 DEF EditDest
    <3>2. edits' \in 0 .. MaxEdits
      BY <3>1, <2>0, FileSyncAssumption DEF Control
    <3> QED
      BY <3>1, <3>2, <2>0 DEF ControlInv, Control, Stream, Applying, Apart, Transfers
  <2>3. CASE Sync
    <3>1. /\ pc = "idle" /\ applies < MaxApplies /\ cs' = Diff(src, dest)
          /\ pc' \in {"idle", "detected"}
          /\ UNCHANGED <<src, left, sending, sent, tmp, applied, failed, lost,
                         dels, applies, faults, edits, touched>>
      BY <2>3 DEF Sync
    <3>2. cs' \in ChangeSet /\ Apart(cs')
      BY <3>1, <2>0, DiffApart DEF Control
    <3>3. left = {} /\ sending = NoPath /\ tmp = NoTmp /\ dels = {}
      BY <3>1, <2>0 DEF Stream
    <3> QED
      BY <3>1, <3>2, <3>3, <2>0 DEF ControlInv, Control, Stream, Applying, NoTmp
  <2>4. CASE Abandon
    BY <2>4, <2>0, FileSyncAssumption
    DEF Abandon, Fault, ControlInv, Control, Stream, Applying, Apart, Transfers
  <2>5. CASE BeginApply
    <3>1. /\ pc = "detected" /\ pc' = "streaming" /\ applies' = applies + 1
          /\ left' = Transfers(cs) /\ sending' = NoPath /\ sent' = 0 /\ tmp' = NoTmp
          /\ lost' = FALSE /\ dels' = {} /\ touched' = {}
          /\ UNCHANGED <<src, cs, edits>>
      BY <2>5 DEF BeginApply
    <3>2. applied' \subseteq Path /\ failed' \subseteq Path /\ faults' \in 0 .. MaxFaults
      <4>1. applied' \subseteq Path /\ failed' \subseteq Path
        BY <2>5, <2>0 DEF BeginApply, Control, ChangeSet
      <4>2. Fault \/ faults' = faults
        BY <2>5 DEF BeginApply, FaultUnless
      <4> QED
        BY <4>1, <4>2, <2>0, FaultsBounded
    <3>3. applies' \in 0 .. MaxApplies /\ applies' > 0
      BY <3>1, <2>0, FileSyncAssumption DEF Control
    <3>4. NoPath \notin Transfers(cs)
      BY <2>0, TransfersType, FileSyncAssumption DEF Control
    <3> QED
      BY <3>1, <3>2, <3>3, <3>4, <2>0, NoTmpType DEF ControlInv, Control, Stream, Applying, NoTmp, Apart, Transfers
  <2>6. ASSUME NEW p \in Path, NextFile(p) PROVE ControlInv'
    <3>1. /\ pc = "streaming" /\ p \in left /\ left' = left \ {p} /\ sent' = 0
          /\ sending' = IF src[p].data = << >> THEN NoPath ELSE p
          /\ UNCHANGED <<src, pc, tmp, applied, failed, lost, cs,
                         dels, applies, faults, edits, touched>>
      BY <2>6 DEF NextFile
    <3>2. src[p].data \in Seq(Nat)
      BY <2>0, SourceType DEF Control
    <3>3. sending' # NoPath => sent' < Len(src'[sending'].data)
      BY <3>1, <3>2
    <3>4. NoPath \notin left'
      BY <3>1, <2>0, TransfersType, FileSyncAssumption DEF Control, Stream
    <3> QED
      BY <3>1, <3>3, <3>4, <2>0 DEF ControlInv, Control, Stream, Applying, Apart, Transfers
  <2>7. ASSUME Advance, pc = "streaming", sending # NoPath,
               UNCHANGED <<src, pc, left, lost, cs, dels, applies, edits, touched>>,
               applied' \subseteq Path, failed' \subseteq Path,
               faults' \in 0 .. MaxFaults, tmp' \in TmpType,
               tmp'.path \in {tmp.path, sending, NoPath}
        PROVE  ControlInv'
    <3>1. sending \in Transfers(cs) \ left
      BY <2>7, <2>0 DEF Stream
    <3>2. sending \in Path /\ NoPath \notin left
      BY <3>1, <2>0, TransfersType, FileSyncAssumption DEF Control, Stream
    <3>3. src[sending].data \in Seq(Nat)
      BY <3>2, <2>0, SourceType DEF Control
    <3>4. sent \in Nat /\ sent < Len(src[sending].data)
      BY <2>7, <2>0 DEF Stream
    <3>5. sent' \in Nat /\ sending' \in {sending, NoPath}
          /\ (sending' # NoPath => sent' < Len(src'[sending'].data))
      BY <2>7, <3>3, <3>4 DEF Advance
    <3> QED
      BY <2>7, <3>1, <3>2, <3>5, <2>0 DEF ControlInv, Control, Stream, Applying, Apart, Transfers
  <2>8. CASE ReceiveMore
    <3>1. Advance /\ pc = "streaming" /\ sending # NoPath
          /\ UNCHANGED <<src, pc, left, lost, cs, dels, applies, edits, touched, applied>>
      BY <2>8 DEF ReceiveMore
    <3>2. sending \in Path
      BY <3>1, <2>0, TransfersType DEF Control, Stream
    <3>3. failed' \subseteq Path /\ faults' \in 0 .. MaxFaults
      <4>1. Fault \/ faults' = faults
        BY <2>8 DEF ReceiveMore
      <4>2. failed' \subseteq Path
        BY <2>8, <3>2, <2>0 DEF ReceiveMore, Control
      <4> QED
        BY <4>1, <4>2, <2>0, FaultsBounded
    <3>4. tmp'.path = tmp.path /\ tmp' \in TmpType
      <4>1. src[sending].data[sent + 1] \in Nat
        BY <3>1, <2>0, NextChunk
      <4>2. tmp' = tmp \/ tmp' = [tmp EXCEPT !.data = Append(@, src[sending].data[sent + 1])]
        BY <2>8 DEF ReceiveMore
      <4>3. tmp \in TmpType
        BY <2>0 DEF Stream
      <4>4. Append(tmp.data, src[sending].data[sent + 1]) \in Seq(Nat)
        BY <4>1, <4>3, AppendProperties DEF TmpType
      <4> QED
        BY <4>2, <4>3, <4>4 DEF TmpType
    <3> QED
      BY <2>7, <3>1, <3>3, <3>4, <2>0 DEF Control
  <2>9. CASE ReceiveFirst
    <3>1. PICK done : /\ Done(done) /\ applied' = applied \cup done
                      /\ Fault \/ faults' = faults
                      /\ failed' \subseteq failed \cup Unfinished(done) \cup {sending}
                      /\ tmp' \in {OpenTmp(<<src[sending].data[sent + 1]>>), OpenTmp(<< >>),
                                   TmpFinished(done)}
      BY <2>9 DEF ReceiveFirst, HeadLost, FaultUnless, Done
    <3>2. Advance /\ pc = "streaming" /\ sending # NoPath
          /\ UNCHANGED <<src, pc, left, lost, cs, dels, applies, edits, touched>>
      BY <2>9 DEF ReceiveFirst
    <3>3. sending \in Path
      BY <3>2, <2>0, TransfersType DEF Control, Stream
    <3>4. done \subseteq Path /\ Unfinished(done) \subseteq Path
      BY <3>1, <2>0, FinishableType
    <3>5. applied' \subseteq Path /\ failed' \subseteq Path /\ faults' \in 0 .. MaxFaults
      <4>1. applied' \subseteq Path /\ failed' \subseteq Path
        BY <3>1, <3>3, <3>4, <2>0 DEF Control
      <4> QED
        BY <4>1, <3>1, <2>0, FaultsBounded
    <3>6. tmp'.path \in {tmp.path, sending, NoPath} /\ tmp' \in TmpType
      <4>1. src[sending].data[sent + 1] \in Nat
        BY <3>2, <2>0, NextChunk
      <4>2. CASE tmp' = TmpFinished(done)
        BY <4>2, <2>0, NoTmpType DEF TmpFinished, NoTmp, Stream, TmpType
      <4>3. CASE tmp' # TmpFinished(done)
        <5>1. <<src[sending].data[sent + 1]>> \in Seq(Nat) /\ << >> \in Seq(Nat)
          BY <4>1
        <5>2. \A d \in Seq(Nat) : OpenTmp(d) \in TmpType /\ OpenTmp(d).path = sending
          BY <3>3 DEF OpenTmp, TmpType
        <5> QED
          BY <5>1, <5>2, <3>1, <4>3
      <4> QED
        BY <4>2, <4>3
    <3> QED
      BY <2>7, <3>2, <3>5, <3>6
  <2>10. CASE EndOfStream \/ StreamBreaks
    <3>1. /\ pc = "streaming" /\ pc' = "deleting"
          /\ tmp' = NoTmp /\ dels' = cs.delete
          /\ left' = {} /\ sending' = NoPath
          /\ UNCHANGED <<src, edits, touched, cs, sent, failed, applies>>
          /\ \E done : Done(done) /\ applied' = applied \cup done
      BY <2>10 DEF EndOfStream, StreamBreaks, LeaveLoop, Done
    <3>2. lost' \in BOOLEAN /\ faults' \in 0 .. MaxFaults
      <4>1. Fault \/ faults' = faults
        BY <2>10 DEF EndOfStream, StreamBreaks, FaultUnless
      <4>2. lost' \in BOOLEAN
        BY <2>10, <2>0 DEF EndOfStream, StreamBreaks, Control
      <4> QED
        BY <4>1, <4>2, <2>0, FaultsBounded
    <3>3. applied' \subseteq Path
      BY <3>1, <2>0, FinishableType DEF Control
    <3> QED
      BY <3>1, <3>2, <3>3, <2>0, NoTmpType DEF ControlInv, Control, Stream, Applying, NoTmp, Apart, Transfers
  <2>11. ASSUME NEW p \in Path, Delete(p) PROVE ControlInv'
    <3>1. /\ pc = "deleting" /\ p \in dels /\ dels' = dels \ {p}
          /\ UNCHANGED <<src, edits, touched, pc, cs, left, sending, sent, tmp, lost, applies>>
      BY <2>11 DEF Delete
    <3>2. applied' \subseteq Path /\ failed' \subseteq Path /\ faults' \in 0 .. MaxFaults
      <4>1. Fault \/ faults' = faults
        BY <2>11 DEF Delete, FaultUnless
      <4>2. applied' \subseteq Path /\ failed' \subseteq Path
        BY <2>11, <2>0 DEF Delete, Control
      <4> QED
        BY <4>1, <4>2, <2>0, FaultsBounded
    <3> QED
      BY <3>1, <3>2, <2>0 DEF ControlInv, Control, Stream, Applying, Apart, Transfers
  <2>12. CASE Reply
    <3>1. /\ pc = "deleting" /\ pc' \in {"idle", "compensating"} /\ dels = {}
          /\ faults' \in 0 .. MaxFaults
          /\ UNCHANGED <<src, edits, touched, cs, left, sending, sent, tmp, lost, applied, failed, dels, applies>>
      <4>1. Fault \/ faults' = faults
        BY <2>12 DEF Reply, FaultUnless
      <4> QED
        BY <4>1, <2>12, <2>0, FaultsBounded DEF Reply
    <3> QED
      BY <3>1, <2>0 DEF ControlInv, Control, Stream, Applying, Apart, Transfers
  <2>13. CASE ReplyLost
    <3>1. faults' \in 0 .. MaxFaults
      BY <2>13, <2>0, FaultsBounded DEF ReplyLost
    <3> QED
      BY <3>1, <2>13, <2>0 DEF ReplyLost, ControlInv, Control, Stream, Applying, Apart, Transfers
  <2>14. CASE AgentDies
    <3>1. /\ pc' = "idle" /\ lost' = TRUE /\ faults' \in 0 .. MaxFaults
          /\ left' = {} /\ sending' = NoPath /\ tmp' = NoTmp /\ dels' = {}
          /\ UNCHANGED <<src, edits, touched, cs, sent, applied, failed, applies>>
      BY <2>14, <2>0, FaultsBounded DEF AgentDies
    <3> QED
      BY <3>1, <2>0, NoTmpType DEF ControlInv, Control, Stream, Applying, NoTmp, Apart, Transfers
  <2>15. CASE Compensate \/ RollbackCommand \/ UndoRow \/ UndoEnds
    <3>1. /\ pc \in {"compensating", "idle", "undoing"} /\ pc' \in {"idle", "undoing"}
          /\ UNCHANGED <<src, edits, touched, cs, left, sending, sent, tmp, lost, applied, failed, dels, applies>>
      BY <2>15 DEF Compensate, RollbackCommand, UndoRow, UndoEnds
    <3>2. faults' \in 0 .. MaxFaults
      <4>1. Fault \/ faults' = faults
        <5>1. ASSUME NEW c, Rollback(c) PROVE Fault \/ faults' = faults
          BY <5>1 DEF Rollback, RollbackRuns, RollbackSkipped, RollbackLost, FaultUnless
        <5> QED
          BY <2>15, <5>1 DEF Compensate, RollbackCommand, UndoRow, UndoEnds
      <4> QED
        BY <4>1, <2>0, FaultsBounded
    <3> QED
      BY <3>1, <3>2, <2>0 DEF ControlInv, Control, Stream, Applying, Apart, Transfers
  <2>16. CASE UNCHANGED vars
    BY <2>16, <2>0 DEF vars, ControlInv, Control, Stream, Applying, Apart, Transfers
  <2> QED
    BY <2>1, <2>2, <2>3, <2>4, <2>5, <2>6, <2>8, <2>9, <2>10, <2>11, <2>12, <2>13,
       <2>14, <2>15, <2>16 DEF Next
<1> QED
  BY <1>1, <1>2, PTL DEF Spec

-----------------------------------------------------------------------------
\* A marker is empty or names an apply that has begun, and so does every copy
\* of one.
IsMarker(e, last) == e = Absent \/ e = File(<< >>) \/ \E n \in 1 .. last : e = File(<<n>>)
MarkerInv ==
    /\ IsMarker(dest[Marker], applies)
    /\ \A n \in 1 .. MaxApplies : IsMarker(snaps[n][Marker], applies)

TreesTyped ==
    /\ dest \in Tree /\ before \in Tree
    /\ snaps \in [1 .. MaxApplies -> Tree]

TreesInv == TreesTyped /\ MarkerInv

LEMMA EntryTypes ==
    /\ Absent \in Entry /\ Dir \in Entry /\ Nothing \in Tree
    /\ \A d \in Seq(Nat) : File(d) \in Entry
    /\ \A e \in Entry : CopyOf(e) \in Entry
<1>1. << >> \in Seq(Nat)
  OBVIOUS
<1>2. Absent \in Entry /\ Dir \in Entry /\ \A d \in Seq(Nat) : File(d) \in Entry
  BY <1>1 DEF Absent, Dir, File, Entry
<1>3. \A e \in Entry : CopyOf(e) \in Entry
  BY <1>1, <1>2 DEF CopyOf
<1> QED
  BY <1>2, <1>3 DEF Nothing, Tree

LEMMA KindsDiffer ==
    Absent.kind = "absent" /\ Dir.kind = "dir" /\ \A d : File(d).kind = "file" /\ File(d).data = d
BY DEF Absent, Dir, File

LEMMA DestFinishedType ==
    ASSUME TreesTyped, tmp \in TmpType, NEW done
    PROVE  DestFinished(done) \in Tree
<1>1. File(tmp.data) \in Entry
  BY EntryTypes DEF TmpType
<1> QED
  BY <1>1 DEF DestFinished, TreesTyped, Tree

\* What an attempt to copy leaves.
CopyTried(p) == \E copied \in BOOLEAN : Snapshot(p, copied)

LEMMA CopyWrites ==
    ASSUME TreesTyped, Control, Applying, NEW p \in Path, CopyTried(p)
    PROVE  /\ applies \in 1 .. MaxApplies
           /\ \/ snaps' = snaps
              \/ \E e \in {CopyOf(dest[p]), File(<< >>)} :
                    /\ e \in Entry /\ snaps' \in [1 .. MaxApplies -> Tree]
                    /\ \A n \in 1 .. MaxApplies, q \in Path :
                          snaps'[n][q] = IF n = applies /\ q = p THEN e ELSE snaps[n][q]
<1>1. applies \in 1 .. MaxApplies
  BY FileSyncAssumption DEF Control
<1>2. snaps \in [1 .. MaxApplies -> [Path -> Entry]]
  BY DEF TreesTyped, Tree
<1>3. CopyOf(dest[p]) \in Entry /\ File(<< >>) \in Entry
  <2>1. << >> \in Seq(Nat)
    OBVIOUS
  <2> QED
    BY <2>1, EntryTypes DEF TreesTyped, Tree
<1>4. \/ snaps' = snaps
      \/ \E e \in {CopyOf(dest[p]), File(<< >>)} : snaps' = [snaps EXCEPT ![applies][p] = e]
  BY DEF CopyTried, Snapshot, Copied, CopyFails
<1>5. ASSUME NEW e \in Entry, snaps' = [snaps EXCEPT ![applies][p] = e]
      PROVE  /\ snaps' \in [1 .. MaxApplies -> Tree]
             /\ \A n \in 1 .. MaxApplies, q \in Path :
                   snaps'[n][q] = IF n = applies /\ q = p THEN e ELSE snaps[n][q]
  <2>1. [snaps[applies] EXCEPT ![p] = e] \in Tree
    BY <1>1, <1>2, <1>5 DEF Tree
  <2> QED
    BY <1>1, <1>2, <1>5, <2>1 DEF Tree
<1> QED
  BY <1>1, <1>3, <1>4, <1>5

LEMMA SnapshotType ==
    ASSUME TreesTyped, Control, Applying, NEW p \in Path, CopyTried(p)
    PROVE  snaps' \in [1 .. MaxApplies -> Tree]
BY CopyWrites DEF TreesTyped

\* A copy of a marker is a marker.
LEMMA CopyKeepsMarkers ==
    ASSUME TreesInv, Control, Applying, NEW p \in Path, CopyTried(p), UNCHANGED applies
    PROVE  \A n \in 1 .. MaxApplies : IsMarker(snaps'[n][Marker], applies')
<1> SUFFICES ASSUME NEW n \in 1 .. MaxApplies PROVE IsMarker(snaps'[n][Marker], applies)
  OBVIOUS
<1>1. IsMarker(snaps[n][Marker], applies) /\ IsMarker(dest[Marker], applies)
  BY DEF TreesInv, MarkerInv
<1>2. CopyOf(dest[Marker]) = dest[Marker] /\ IsMarker(File(<< >>), applies)
  BY <1>1, KindsDiffer DEF CopyOf, IsMarker
<1>3. snaps'[n][Marker] \in {snaps[n][Marker], dest[Marker], File(<< >>)}
  <2>1. CASE snaps' = snaps
    BY <2>1
  <2>2. CASE \E e \in {CopyOf(dest[p]), File(<< >>)} :
                \A k \in 1 .. MaxApplies, q \in Path :
                    snaps'[k][q] = IF k = applies /\ q = p THEN e ELSE snaps[k][q]
    BY <2>2, <1>2, FileSyncAssumption
  <2> QED
    BY <2>1, <2>2, CopyWrites DEF TreesInv
<1> QED
  BY <1>1, <1>2, <1>3

LEMMA MarkedType ==
    ASSUME TreesInv, Control, Marked
    PROVE  /\ MarkedSnap \in 0 .. MaxApplies /\ MarkedTree \in Tree
           /\ MarkedSnap # 0 => MarkedTree = snaps[MarkedSnap]
           /\ IsMarker(MarkedTree[Marker], applies)
<1>1. IsMarker(dest[Marker], applies) /\ dest[Marker] # Absent
  BY KindsDiffer DEF TreesInv, MarkerInv, Marked
<1>2. CASE dest[Marker] = File(<< >>)
  <2>1. MarkedSnap = 0 /\ MarkedTree = Nothing /\ 0 \in 0 .. MaxApplies
    BY <1>2, KindsDiffer, FileSyncAssumption DEF MarkedSnap, MarkedTree
  <2> QED
    BY <2>1, EntryTypes, FileSyncAssumption DEF IsMarker, Nothing
<1>3. CASE \E n \in 1 .. applies : dest[Marker] = File(<<n>>)
  <2>1. PICK n \in 1 .. applies : dest[Marker] = File(<<n>>)
    BY <1>3
  <2>2. MarkedSnap = n
    <3>1. <<n>> # << >> /\ <<n>>[1] = n
      OBVIOUS
    <3> QED
      BY <2>1, <3>1, KindsDiffer DEF MarkedSnap
  <2>3. n \in 1 .. MaxApplies /\ n # 0
    BY FileSyncAssumption DEF Control
  <2> QED
    BY <2>2, <2>3 DEF MarkedTree, TreesInv, TreesTyped, MarkerInv
<1> QED
  BY <1>1, <1>2, <1>3 DEF IsMarker

\* What a rollback may leave of a file, and of the snapshot it has read.
Touches(c, done, torn, kept, unmarked) ==
    /\ Leaves(c, done, torn, kept, unmarked)
    /\ done \subseteq Restorable(c) \cup c.create /\ torn \subseteq Restorable(c)

LEMMA RollbackCases ==
    ASSUME NEW c, Rollback(c)
    PROVE  \/ Marked /\ \E done, torn, kept : \E unmarked \in BOOLEAN :
                           Touches(c, done, torn, kept, unmarked)
           \/ UNCHANGED <<dest, snaps>>
<1>1. CASE Marked /\ RollbackRuns(c)
  <2> DEFINE todo == Restorable(c) \cup c.create
             free == {p \in todo : p \in c.create \/ dest[p].kind # "dir"}
             Partly == \E done \in SUBSET free, torn \in SUBSET (free \ c.create) :
                       \E kept : \E unmarked \in BOOLEAN : Leaves(c, done, torn, kept, unmarked)
  <2>1. ASSUME Leaves(c, free, {}, {}, TRUE) PROVE Partly
    BY <2>1
  <2>2. ASSUME NEW p \in free, NEW torn \in {{}} \cup {{q} : q \in {p} \ c.create},
               Leaves(c, free \ {p}, torn, {}, TRUE)
        PROVE  Partly
    BY <2>2
  <2>3. ASSUME NEW kept, NEW unmarked \in BOOLEAN, Leaves(c, free, {}, kept, unmarked)
        PROVE  Partly
    BY <2>3
  <2>4. ASSUME NEW done \in SUBSET free, NEW kept,
               NEW torn \in {{}} \cup {{q} : q \in (free \ done) \ c.create},
               Leaves(c, done, torn, kept, FALSE)
        PROVE  Partly
    BY <2>4
  <2>5. Partly
    <3> HIDE DEF Partly
    <3> QED
      BY <1>1, <2>1, <2>2, <2>3, <2>4 DEF RollbackRuns
  <2> QED
    BY <1>1, <2>5 DEF Touches
<1>2. CASE RollbackSkipped \/ RollbackLost
  BY <1>2 DEF RollbackSkipped, RollbackLost
<1> QED
  BY <1>1, <1>2 DEF Rollback

LEMMA LeavesType ==
    ASSUME TreesInv, Control, Marked, NEW c, NEW done, NEW torn, NEW kept,
           NEW unmarked \in BOOLEAN,
           Touches(c, done, torn, kept, unmarked), UNCHANGED <<before, applies>>
    PROVE  TreesTyped' /\ MarkerInv'
<1>1. MarkedTree \in [Path -> Entry] /\ IsMarker(MarkedTree[Marker], applies)
  BY MarkedType DEF Tree
<1>2. dest \in [Path -> Entry] /\ snaps \in [1 .. MaxApplies -> [Path -> Entry]]
  BY DEF TreesInv, TreesTyped, Tree
<1>3. Absent \in Entry /\ File(<< >>) \in Entry
  <2>1. << >> \in Seq(Nat)
    OBVIOUS
  <2> QED
    BY <2>1, EntryTypes
<1>4. dest' \in Tree
  BY <1>1, <1>2, <1>3 DEF Touches, Leaves, Tree
<1>5. snaps' \in [1 .. MaxApplies -> Tree]
  BY <1>2, <1>3 DEF Touches, Leaves, Tree
<1>6. IsMarker(dest'[Marker], applies)
  <2>1. dest'[Marker] \in {Absent, MarkedTree[Marker], File(<< >>), dest[Marker]}
    BY FileSyncAssumption DEF Touches, Leaves
  <2> QED
    BY <1>1, <2>1 DEF IsMarker, TreesInv, MarkerInv
<1>7. ASSUME NEW n \in 1 .. MaxApplies PROVE IsMarker(snaps'[n][Marker], applies)
  <2>1. snaps'[n][Marker] \in {Absent, snaps[n][Marker]}
    BY FileSyncAssumption DEF Touches, Leaves
  <2> QED
    BY <2>1 DEF IsMarker, TreesInv, MarkerInv
<1>8. MarkerInv'
  BY <1>6, <1>7 DEF MarkerInv, IsMarker
<1> QED
  BY <1>4, <1>5, <1>8 DEF TreesTyped, TreesInv

LEMMA RollbackType ==
    ASSUME TreesInv, Control, NEW c, Rollback(c), UNCHANGED <<before, applies>>
    PROVE  TreesTyped' /\ MarkerInv'
<1>1. CASE UNCHANGED <<dest, snaps>>
  BY <1>1 DEF TreesInv, TreesTyped, MarkerInv, IsMarker
<1>2. CASE Marked /\ \E done, torn, kept : \E unmarked \in BOOLEAN :
                        Touches(c, done, torn, kept, unmarked)
  BY <1>2, LeavesType
<1> QED
  BY <1>1, <1>2, RollbackCases

LEMMA TreesInvariant == Spec => []TreesInv
<1>1. Init => TreesInv
  BY FileSyncAssumption, EntryTypes DEF Init, TreesInv, TreesTyped, MarkerInv, IsMarker, Nothing
<1>2. ControlInv /\ TreesInv /\ [Next]_vars => TreesInv'
  <2> SUFFICES ASSUME ControlInv, TreesInv, [Next]_vars PROVE TreesInv'
    OBVIOUS
  <2>0. Control /\ Stream /\ TreesTyped /\ MarkerInv
    BY DEF ControlInv, TreesInv
  <2> USE DEF world, sync, transfer, result, ledger
  <2>1. CASE UNCHANGED <<dest, before, snaps, applies>>
    BY <2>1, <2>0 DEF TreesInv, TreesTyped, MarkerInv, IsMarker
  <2>a. ASSUME NEW e, IsMarker(e, applies), applies' = applies \/ applies' = applies + 1
        PROVE  IsMarker(e, applies')
    <3>1. ASSUME NEW n \in 1 .. applies PROVE n \in 1 .. applies'
      BY <2>a, <2>0 DEF Control
    <3> QED
      BY <2>a, <3>1 DEF IsMarker
  <2>b. ASSUME dest' \in Tree, before' \in Tree, snaps' = snaps,
               applies' = applies \/ applies' = applies + 1, IsMarker(dest'[Marker], applies')
        PROVE  TreesInv'
    <3>1. \A n \in 1 .. MaxApplies : IsMarker(snaps'[n][Marker], applies')
      <4> SUFFICES ASSUME NEW n \in 1 .. MaxApplies PROVE IsMarker(snaps'[n][Marker], applies')
        OBVIOUS
      <4>1. PICK e : e = snaps[n][Marker]
        OBVIOUS
      <4>2. IsMarker(e, applies)
        BY <4>1, <2>0 DEF MarkerInv
      <4> QED
        BY <4>1, <4>2, <2>b, <2>a DEF IsMarker
    <3> QED
      BY <2>b, <3>1, <2>0 DEF TreesInv, TreesTyped, MarkerInv, IsMarker
  <2>2. ASSUME NEW p \in Path, EditDest(p) PROVE TreesInv'
    <3>1. PICK e \in {Absent, File(<<0>>)} : dest' = [dest EXCEPT ![p] = e]
      BY <2>2 DEF EditDest
    <3>2. e \in Entry
      <4>1. <<0>> \in Seq(Nat)
        OBVIOUS
      <4> QED
        BY <4>1, <3>1, EntryTypes
    <3>3. p # Marker /\ UNCHANGED <<snaps, before, applies>>
      BY <2>2 DEF EditDest
    <3>4. dest' \in Tree
      BY <3>1, <3>2, <2>0 DEF TreesTyped, Tree
    <3>5. dest'[Marker] = dest[Marker]
      BY <3>1, <3>3, <2>0, FileSyncAssumption DEF TreesTyped, Tree
    <3> QED
      BY <3>3, <3>4, <3>5, <2>0, <2>b DEF TreesTyped, MarkerInv, IsMarker
  <2>3. CASE BeginApply
    <3>1. /\ UNCHANGED snaps /\ before' = dest /\ applies' = applies + 1
      BY <2>3 DEF BeginApply
    <3>2. PICK bad \in SUBSET cs.mkdir :
            dest' = [p \in Path |-> IF p \in cs.mkdir \ bad THEN Dir ELSE dest[p]]
      BY <2>3 DEF BeginApply
    <3>3. dest' \in Tree
      BY <3>2, <2>0, EntryTypes DEF TreesTyped, Tree
    <3>4. dest'[Marker] = dest[Marker]
      BY <3>2, <2>0, FileSyncAssumption DEF Stream, Apart
    <3>5. PICK e : e = dest[Marker]
      OBVIOUS
    <3>6. IsMarker(e, applies')
      BY <3>1, <3>5, <2>a, <2>0 DEF MarkerInv
    <3>7. IsMarker(dest'[Marker], applies')
      BY <3>4, <3>5, <3>6 DEF IsMarker
    <3> QED
      BY <3>1, <3>3, <3>7, <2>0, <2>b DEF TreesTyped
  <2>4. ASSUME NEW done, Done(done), dest' = DestFinished(done), UNCHANGED <<before, applies>>,
               snaps' = snaps \/ \E p \in Path : Applying /\ CopyTried(p)
        PROVE  TreesInv'
    <3>1. dest' \in Tree
      BY <2>4, <2>0, DestFinishedType DEF Stream
    <3>2. Marker \notin done
      BY <2>0, <2>4, FinishableType
    <3>3. dest'[Marker] = dest[Marker]
      BY <2>4, <3>2, FileSyncAssumption DEF DestFinished
    <3>4. CASE snaps' = snaps
      BY <2>4, <3>1, <3>3, <3>4, <2>0 DEF TreesInv, TreesTyped, MarkerInv, IsMarker
    <3>5. ASSUME NEW p \in Path, Applying, CopyTried(p) PROVE TreesInv'
      <4>1. snaps' \in [1 .. MaxApplies -> Tree]
        BY <2>0, <3>5, SnapshotType
      <4>2. \A n \in 1 .. MaxApplies : IsMarker(snaps'[n][Marker], applies')
        BY <2>0, <2>4, <3>5, CopyKeepsMarkers
      <4>3. IsMarker(dest'[Marker], applies')
        BY <2>4, <3>3, <2>0 DEF MarkerInv, IsMarker
      <4> QED
        BY <2>4, <3>1, <4>1, <4>2, <4>3, <2>0 DEF TreesInv, TreesTyped, MarkerInv
    <3> QED
      BY <2>4, <3>4, <3>5
  <2>5. CASE ReceiveFirst
    <3>1. /\ \E done : Done(done) /\ dest' = DestFinished(done)
          /\ UNCHANGED <<before, applies>>
          /\ pc = "streaming" /\ sending # NoPath
          /\ CopyTried(sending)
      BY <2>5 DEF ReceiveFirst, CopyTried, Done
    <3>2. sending \in Path
      BY <3>1, <2>0, TransfersType DEF Control, Stream
    <3> QED
      BY <2>4, <3>1, <3>2 DEF Applying
  <2>6. CASE EndOfStream \/ StreamBreaks
    <3>1. /\ UNCHANGED <<before, applies, snaps>>
          /\ \E done : Done(done) /\ dest' = DestFinished(done)
      BY <2>6 DEF EndOfStream, StreamBreaks, LeaveLoop, Done
    <3> QED
      BY <2>4, <3>1
  <2>7. ASSUME NEW p \in Path, Delete(p) PROVE TreesInv'
    <3>1. /\ dest' = dest \/ dest' = [dest EXCEPT ![p] = Absent]
          /\ UNCHANGED <<before, applies>> /\ pc = "deleting"
          /\ CopyTried(p)
      BY <2>7 DEF Delete, CopyTried
    <3>2. dest' \in Tree /\ (dest'[Marker] = dest[Marker] \/ dest'[Marker] = Absent)
      BY <3>1, <2>0, EntryTypes, FileSyncAssumption DEF TreesTyped, Tree
    <3>3. snaps' \in [1 .. MaxApplies -> Tree]
      BY <3>1, <2>0, SnapshotType DEF Applying
    <3>4. \A n \in 1 .. MaxApplies : IsMarker(snaps'[n][Marker], applies')
      BY <3>1, <2>0, CopyKeepsMarkers DEF Applying
    <3>5. IsMarker(dest'[Marker], applies')
      BY <3>1, <3>2, <2>0 DEF MarkerInv, IsMarker
    <3> QED
      BY <3>1, <3>2, <3>3, <3>4, <3>5, <2>0 DEF TreesInv, TreesTyped, MarkerInv
  <2>8. CASE Reply
    <3>1. /\ \/ dest' = dest
             \/ \E m \in {File(<<applies>>), File(<< >>), dest[Marker]} :
                   dest' = [dest EXCEPT ![Marker] = m]
          /\ UNCHANGED <<before, applies, snaps>> /\ applies \in 1 .. applies
      BY <2>8, <2>0, FileSyncAssumption DEF Reply, Control, Applying
    <3>2. File(<<applies>>) \in Entry /\ File(<< >>) \in Entry
      <4>1. <<applies>> \in Seq(Nat) /\ << >> \in Seq(Nat)
        BY <2>0 DEF Control
      <4> QED
        BY <4>1, EntryTypes
    <3>3. dest' \in Tree
      BY <3>1, <3>2, <2>0, FileSyncAssumption DEF TreesTyped, Tree
    <3>4. dest'[Marker] \in {dest[Marker], File(<<applies>>), File(<< >>)}
      BY <3>1, <2>0, FileSyncAssumption DEF TreesTyped, Tree
    <3>5. IsMarker(dest'[Marker], applies')
      BY <3>1, <3>4, <2>0 DEF MarkerInv, IsMarker
    <3> QED
      BY <3>1, <3>3, <3>5, <2>0, <2>b DEF TreesTyped
  <2>9. CASE Compensate
    BY <2>9, <2>1, <2>0, RollbackType DEF Compensate, TreesInv
  <2>10. CASE UndoRow
    BY <2>10, <2>1, <2>0, RollbackType DEF UndoRow, TreesInv
  <2>11. CASE EditSource \/ Sync \/ Abandon
    BY <2>11, <2>1 DEF EditSource, Sync, Abandon
  <2>12. ASSUME NEW p \in Path, NextFile(p) PROVE TreesInv'
    BY <2>12, <2>1 DEF NextFile
  <2>13. CASE ReceiveMore \/ ReplyLost \/ AgentDies
    BY <2>13, <2>1 DEF ReceiveMore, ReplyLost, AgentDies
  <2>14. CASE RollbackCommand \/ UndoEnds
    BY <2>14, <2>1 DEF RollbackCommand, UndoEnds
  <2>15. CASE UNCHANGED vars
    BY <2>15, <2>1 DEF vars
  <2> QED
    BY <2>2, <2>3, <2>5, <2>6, <2>7, <2>8, <2>9, <2>10, <2>11, <2>12, <2>13, <2>14,
       <2>15 DEF Next
<1> QED
  BY <1>1, <1>2, ControlInvariant, PTL DEF Spec

-----------------------------------------------------------------------------
RowsInv == rows \in Seq(RowRecord) /\ undo \in 0 .. Len(rows) /\ answer \in Answers

LEMMA RowsInvariant == Spec => []RowsInv
<1>1. Init => RowsInv
  BY DEF Init, RowsInv, Answers
<1>2. ControlInv /\ TreesInv /\ RowsInv /\ [Next]_vars => RowsInv'
  <2> SUFFICES ASSUME ControlInv, TreesInv, RowsInv, [Next]_vars PROVE RowsInv'
    OBVIOUS
  <2>1. CASE UNCHANGED ledger
    BY <2>1 DEF RowsInv, ledger
  <2>a. \A c : Rollback(c) => answer' \in Answers
    BY DEF Rollback, RollbackRuns, RollbackSkipped, RollbackLost, Answers
  <2>2. CASE Reply
    <3>1. undo' = undo /\ answer' = answer
      BY <2>2 DEF Reply
    <3> DEFINE r == [cs |-> cs, status |-> Status, snap |-> applies, before |-> before]
    <3>2. rows' = rows \/ rows' = Append(rows, r)
      BY <2>2 DEF Reply
    <3>3. r \in RowRecord
      BY DEF Status, Statuses, RowRecord, ControlInv, Control, TreesInv, TreesTyped
    <3>4. rows' \in Seq(RowRecord) /\ Len(rows') >= Len(rows)
      BY <3>2, <3>3, AppendProperties DEF RowsInv
    <3> QED
      BY <3>1, <3>4 DEF RowsInv
  <2>3. CASE RollbackCommand
    BY <2>3 DEF RollbackCommand, RowsInv
  <2>4. CASE UndoRow
    <3>1. undo' \in 0 .. Len(rows) /\ rows' = rows
      BY <2>4 DEF UndoRow, RowsInv
    <3>2. answer' = answer \/ Rollback(rows[undo].cs)
      BY <2>4 DEF UndoRow
    <3> QED
      BY <3>1, <3>2, <2>a DEF RowsInv
  <2>5. CASE EditSource \/ Sync \/ Abandon
    BY <2>5, <2>1 DEF EditSource, Sync, Abandon
  <2>5b. CASE BeginApply
    BY <2>5b DEF BeginApply, RowsInv, Answers
  <2>6. ASSUME NEW p \in Path, EditDest(p) \/ NextFile(p) \/ Delete(p) PROVE RowsInv'
    BY <2>6, <2>1 DEF EditDest, NextFile, Delete
  <2>7. CASE ReceiveMore \/ ReceiveFirst \/ ReplyLost \/ AgentDies
    BY <2>7, <2>1 DEF ReceiveMore, ReceiveFirst, ReplyLost, AgentDies
  <2>8. CASE EndOfStream \/ StreamBreaks
    BY <2>8, <2>1 DEF EndOfStream, StreamBreaks, LeaveLoop
  <2>9. CASE UndoEnds
    BY <2>9, <2>1 DEF UndoEnds
  <2>9b. CASE Compensate
    BY <2>9b, <2>a DEF Compensate, RowsInv
  <2>10. CASE UNCHANGED vars
    BY <2>10, <2>1 DEF vars, ledger
  <2> QED
    BY <2>2, <2>3, <2>4, <2>5, <2>5b, <2>6, <2>7, <2>8, <2>9, <2>9b,
       <2>10 DEF Next
<1> QED
  BY <1>1, <1>2, ControlInvariant, TreesInvariant, PTL DEF Spec

UncopiedInv == uncopied \subseteq Path

LEMMA UncopiedInvariant == Spec => []UncopiedInv
<1>1. Init => UncopiedInv
  BY DEF Init, UncopiedInv
<1>2. ControlInv /\ UncopiedInv /\ [Next]_vars => UncopiedInv'
  <2> SUFFICES ASSUME ControlInv, uncopied \subseteq Path, [Next]_vars
               PROVE  uncopied' \subseteq Path
    BY DEF UncopiedInv
  <2>1. CASE ReceiveFirst
    <3>1. sending \in Path
      BY <2>1, TransfersType DEF ReceiveFirst, ControlInv, Control, Stream
    <3> QED
      BY <2>1, <3>1 DEF ReceiveFirst, Snapshot, CopyFails
  <2>2. ASSUME NEW p \in Path, Delete(p) PROVE uncopied' \subseteq Path
    BY <2>2 DEF Delete, Snapshot, CopyFails
  <2>3. CASE BeginApply
    BY <2>3 DEF BeginApply
  <2>4. CASE EditSource \/ Sync \/ Abandon \/ \E p \in Path : EditDest(p) \/ NextFile(p)
    BY <2>4 DEF EditSource, Sync, Abandon, EditDest, NextFile
  <2>5. CASE ReceiveMore \/ EndOfStream \/ StreamBreaks \/ Reply \/ ReplyLost \/ AgentDies
    BY <2>5 DEF ReceiveMore, EndOfStream, StreamBreaks, LeaveLoop, Reply, ReplyLost, AgentDies
  <2>6. CASE Compensate \/ RollbackCommand \/ UndoRow \/ UndoEnds \/ UNCHANGED vars
    BY <2>6 DEF Compensate, RollbackCommand, UndoRow, UndoEnds, vars
  <2> QED
    BY <2>1, <2>2, <2>3, <2>4, <2>5, <2>6 DEF Next
<1> QED
  BY <1>1, <1>2, ControlInvariant, PTL DEF Spec

\* The trees, the stream, the rows and the counters keep their types, for
\* every set of paths, all trees and every bound.
THEOREM TypeCorrect == Spec => []TypeOK
<1>1. ControlInv /\ TreesInv /\ RowsInv /\ UncopiedInv => TypeOK
  <2> SUFFICES ASSUME ControlInv, TreesInv, RowsInv, UncopiedInv PROVE TypeOK
    OBVIOUS
  <2>1. Control /\ Stream /\ TreesTyped
    BY DEF ControlInv, TreesInv
  <2>2. Transfers(cs) \subseteq Path /\ cs.delete \subseteq Path
    BY <2>1, TransfersType DEF Control, ChangeSet
  <2>3. left \subseteq Path /\ sending \in Path \cup {NoPath} /\ dels \subseteq Path
    BY <2>1, <2>2 DEF Stream
  <2> QED
    BY <2>1, <2>3 DEF TypeOK, Control, Stream, TreesTyped, RowsInv, TmpType, UncopiedInv
<1> QED
  BY <1>1, ControlInvariant, TreesInvariant, RowsInvariant, UncopiedInvariant, PTL

-----------------------------------------------------------------------------
\* The tree of the snapshot directory of the apply under way.
Snap == snaps[applies]
Was(p) == dest[p] = before[p]
HasCopy(p) == before[p].kind = "file" /\ p \notin uncopied => Snap[p] = before[p]

CopiesInv ==
    Applying =>
        /\ \A p \in Path : ~Was(p) => HasCopy(p)
        /\ tmp.path # NoPath => HasCopy(tmp.path)
        /\ \A p \in left \cup dels : Was(p)
        /\ sending # NoPath => Was(sending)
        /\ pc = "streaming" => \A p \in cs.delete : Was(p)

\* A copy of what is still as it was is a copy of what was there before, or it
\* is known to have failed; the copies of other paths stay.
LEMMA CopyIsFaithful ==
    ASSUME TreesTyped, Control, Applying, NEW p \in Path, Was(p), CopyTried(p),
           UNCHANGED <<before, applies>>
    PROVE  HasCopy(p)' /\ \A q \in Path : HasCopy(q) => HasCopy(q)'
<1>1. applies \in 1 .. MaxApplies
  BY FileSyncAssumption DEF Control
<1>2. snaps[applies] \in [Path -> Entry]
  BY <1>1 DEF TreesTyped, Tree
<1>3. CASE dest[p] = Absent
  <2>1. snaps' = snaps /\ uncopied' = uncopied
    BY <1>3, KindsDiffer DEF Copied, CopyTried, Snapshot, CopyFails
  <2> QED
    BY <1>3, <2>1, KindsDiffer DEF HasCopy, Snap, Was
<1>4. CASE CopyFails(p)
  <2>1. Snap' \in {Snap, [Snap EXCEPT ![p] = File(<< >>)]}
    BY <1>1, <1>2, <1>4 DEF CopyFails, Snap, TreesTyped
  <2>2. uncopied' = uncopied \cup {p}
    BY <1>4 DEF CopyFails
  <2> QED
    BY <1>2, <2>1, <2>2 DEF HasCopy, Snap
<1>5. CASE dest[p] # Absent /\ Copied(p) /\ uncopied' = uncopied
  <2>1. Snap' = [Snap EXCEPT ![p] = CopyOf(dest[p])]
    BY <1>1, <1>2, <1>5 DEF Copied, Snap, TreesTyped
  <2>2. before[p].kind = "file" => CopyOf(dest[p]) = before[p]
    BY DEF CopyOf, Was
  <2> QED
    BY <1>2, <1>5, <2>1, <2>2 DEF HasCopy, Snap
<1> QED
  BY <1>3, <1>4, <1>5 DEF CopyTried, Snapshot

LEMMA CopiesInvariant == Spec => []CopiesInv
<1>1. Init => CopiesInv
  BY DEF Init, CopiesInv, Applying
<1>2. ControlInv /\ ControlInv' /\ TreesInv /\ CopiesInv /\ [Next]_vars => CopiesInv'
  <2> SUFFICES ASSUME ControlInv, ControlInv', TreesInv, CopiesInv, [Next]_vars
               PROVE  CopiesInv'
    OBVIOUS
  <2>0. Control /\ Stream /\ TreesTyped
    BY DEF ControlInv, TreesInv
  <2> USE DEF world, sync, transfer, result, ledger
  <2>1. CASE ~Applying'
    BY <2>1 DEF CopiesInv
  <2>2. CASE UNCHANGED <<dest, before, uncopied, snaps, applies, tmp, left, dels, sending, cs>> /\ pc' = pc
    BY <2>2 DEF CopiesInv, Applying, Was, HasCopy, Snap
  <2>3. CASE BeginApply
    <3>1. /\ before' = dest /\ tmp' = NoTmp /\ left' = Transfers(cs) /\ dels' = {}
          /\ sending' = NoPath /\ cs' = cs
      BY <2>3 DEF BeginApply
    <3>2. PICK bad \in SUBSET cs.mkdir :
            /\ {p \in cs.mkdir : dest[p].kind = "file"} \subseteq bad
            /\ dest' = [p \in Path |-> IF p \in cs.mkdir \ bad THEN Dir ELSE dest[p]]
      BY <2>3 DEF BeginApply
    <3>3. \A p \in Path : ~Was(p)' => p \in cs.mkdir \ bad
      BY <3>1, <3>2 DEF Was
    <3>4. \A p \in Path : ~Was(p)' => HasCopy(p)'
      BY <3>1, <3>2, <3>3 DEF HasCopy
    <3>5. \A p \in Transfers(cs) \cup cs.delete : Was(p)'
      <4>1. Transfers(cs) \cup cs.delete \subseteq Path
        BY <2>0, TransfersType DEF Control, ChangeSet
      <4> QED
        BY <4>1, <3>3, <2>0 DEF Stream, Apart
    <3> QED
      BY <3>1, <3>4, <3>5, NoTmpIsNone DEF CopiesInv
  <2>4. ASSUME NEW p \in Path, NextFile(p) PROVE CopiesInv'
    <3>1. /\ pc = "streaming" /\ pc' = pc /\ p \in left /\ left' = left \ {p}
          /\ sending' \in {p, NoPath}
          /\ UNCHANGED <<dest, before, uncopied, snaps, applies, tmp, dels, cs>>
      BY <2>4 DEF NextFile
    <3> QED
      BY <3>1 DEF CopiesInv, Applying, Was, HasCopy, Snap
  <2>5. CASE ReceiveMore
    <3>1. /\ pc = "streaming" /\ pc' = pc
          /\ sending' \in {sending, NoPath}
          /\ UNCHANGED <<dest, before, uncopied, snaps, applies, left, dels, cs>>
      BY <2>5 DEF ReceiveMore, Advance
    <3>2. tmp'.path = tmp.path
      BY <2>5, <2>0 DEF ReceiveMore, Stream, TmpType
    <3> QED
      BY <3>1, <3>2 DEF CopiesInv, Applying, Was, HasCopy, Snap
  <2>6. ASSUME NEW done, Done(done), dest' = DestFinished(done), UNCHANGED <<before, applies, cs>>, pc = "streaming",
               \A q \in Path : HasCopy(q) => HasCopy(q)'
        PROVE  /\ \A p \in Path : ~Was(p)' => HasCopy(p)'
               /\ \A p \in Path : Was(p) /\ p # tmp.path => Was(p)'
    <3>1. \A p \in Path : p # tmp.path => dest'[p] = dest[p]
      <4>1. done \subseteq {tmp.path}
        BY <2>0, <2>6, FinishableType
      <4> QED
        BY <2>6, <4>1 DEF DestFinished
    <3>2. \A p \in Path : ~Was(p) => HasCopy(p)
      BY <2>6 DEF CopiesInv, Applying
    <3>3. tmp.path # NoPath => HasCopy(tmp.path)
      BY <2>6 DEF CopiesInv, Applying
    <3>4. ASSUME NEW p \in Path, ~Was(p)' PROVE HasCopy(p)
      <4>1. CASE p = tmp.path
        BY <4>1, <3>3, FileSyncAssumption
      <4>2. CASE p # tmp.path
        BY <4>2, <3>1, <3>2, <3>4, <2>6 DEF Was
      <4> QED
        BY <4>1, <4>2
    <3>5. \A p \in Path : Was(p) /\ p # tmp.path => Was(p)'
      BY <3>1, <2>6 DEF Was
    <3> QED
      BY <3>4, <3>5, <2>6
  <2>7. CASE ReceiveFirst
    <3>1. /\ pc = "streaming" /\ pc' = pc /\ sending # NoPath /\ tmp.path # sending
          /\ sending' \in {sending, NoPath}
          /\ UNCHANGED <<before, applies, left, dels, cs>>
      BY <2>7 DEF ReceiveFirst, Advance
    <3>2. CopyTried(sending)
      BY <2>7 DEF ReceiveFirst, CopyTried
    <3>2b. PICK done : /\ Done(done) /\ dest' = DestFinished(done)
                       /\ tmp' \in {OpenTmp(<<src[sending].data[sent + 1]>>), OpenTmp(<< >>),
                                    TmpFinished(done)}
      BY <2>7 DEF ReceiveFirst, HeadLost, Done
    <3>3. sending \in Path /\ left \subseteq Path
      BY <3>1, <2>0, TransfersType DEF Control, Stream
    <3>4. PICK s \in Path : s = sending
      BY <3>3
    <3>5. Was(s) /\ Applying /\ CopyTried(s)
      BY <3>1, <3>2, <3>4 DEF CopiesInv, Applying
    <3>6. HasCopy(s)' /\ \A q \in Path : HasCopy(q) => HasCopy(q)'
      BY <2>0, <3>1, <3>5, CopyIsFaithful
    <3>7. /\ \A p \in Path : ~Was(p)' => HasCopy(p)'
          /\ \A p \in Path : Was(p) /\ p # tmp.path => Was(p)'
      BY <3>1, <3>2b, <3>6, <2>6
    <3>8. tmp'.path \in {s, NoPath, tmp.path}
      <4>2. TmpFinished(done).path \in {NoPath, tmp.path}
        BY <2>0 DEF TmpFinished, NoTmp, Stream, TmpType
      <4>3. \A d : OpenTmp(d).path = s
        BY <3>4 DEF OpenTmp
      <4> QED
        BY <3>2b, <4>2, <4>3
    <3>9. ASSUME NEW q \in Path, q = tmp'.path PROVE HasCopy(q)'
      <4>1. q = s \/ (q = tmp.path /\ HasCopy(q))
        BY <3>5, <3>8, <3>9, FileSyncAssumption DEF CopiesInv
      <4> QED
        BY <4>1, <3>6
    <3>10. tmp'.path # NoPath => HasCopy(tmp.path)'
      <4>1. tmp'.path # NoPath => tmp'.path \in Path
        BY <3>8, <2>0 DEF Stream, TmpType
      <4> QED
        BY <4>1, <3>9 DEF HasCopy, Snap
    <3>11. tmp.path \notin left /\ tmp.path \notin cs.delete /\ cs.delete \subseteq Path
      BY <2>0, TransfersType, FileSyncAssumption DEF Stream, Apart, Control, ChangeSet
    <3>12. dels' = {}
      BY <3>1, <2>0 DEF Stream
    <3>13. \A p \in left' \cup dels' : Was(p)'
      BY <3>1, <3>3, <3>5, <3>7, <3>11, <3>12 DEF CopiesInv
    <3>14. Was(s)'
      BY <3>1, <3>4, <3>5, <3>7
    <3>15. sending' # NoPath => Was(sending)'
      BY <3>1, <3>4, <3>14 DEF Was
    <3>16. \A p \in cs'.delete : Was(p)'
      BY <3>1, <3>5, <3>7, <3>11 DEF CopiesInv
    <3> QED
      BY <3>7, <3>10, <3>13, <3>15, <3>16 DEF CopiesInv
  <2>8. CASE EndOfStream \/ StreamBreaks
    <3>1. /\ pc = "streaming" /\ pc' = "deleting"
          /\ \E done : Done(done) /\ dest' = DestFinished(done)
          /\ tmp' = NoTmp /\ left' = {} /\ sending' = NoPath /\ dels' = cs.delete
          /\ UNCHANGED <<before, uncopied, applies, cs, snaps>>
      BY <2>8 DEF EndOfStream, StreamBreaks, LeaveLoop, Done
    <3>2. \A q \in Path : HasCopy(q) => HasCopy(q)'
      BY <3>1 DEF HasCopy, Snap
    <3>3. /\ \A p \in Path : ~Was(p)' => HasCopy(p)'
          /\ \A p \in Path : Was(p) /\ p # tmp.path => Was(p)'
      BY <3>1, <3>2, <2>6
    <3>4. tmp.path \notin cs.delete /\ cs.delete \subseteq Path
      BY <2>0, FileSyncAssumption DEF Stream, Apart, Control, ChangeSet
    <3>5. \A p \in dels' : Was(p)'
      BY <3>1, <3>3, <3>4 DEF CopiesInv, Applying
    <3> QED
      BY <3>1, <3>3, <3>5, NoTmpIsNone DEF CopiesInv
  <2>9. ASSUME NEW p \in Path, Delete(p) PROVE CopiesInv'
    <3>1. /\ pc = "deleting" /\ pc' = pc /\ p \in dels /\ dels' = dels \ {p}
          /\ dest' = dest \/ dest' = [dest EXCEPT ![p] = Absent]
          /\ UNCHANGED <<before, applies, cs, left, sending, tmp>>
      BY <2>9 DEF Delete
    <3>2. CopyTried(p)
      BY <2>9 DEF Delete, CopyTried
    <3>3. Was(p) /\ Applying
      BY <3>1 DEF CopiesInv, Applying
    <3>4. HasCopy(p)' /\ \A q \in Path : HasCopy(q) => HasCopy(q)'
      BY <2>0, <3>1, <3>2, <3>3, CopyIsFaithful
    <3>5. \A q \in Path \ {p} : dest'[q] = dest[q]
      BY <3>1, <2>0 DEF TreesTyped, Tree
    <3>6. \A q \in Path \ {p} : Was(q)' <=> Was(q)
      BY <3>1, <3>5 DEF Was
    <3>7. \A q \in Path : ~Was(q)' => HasCopy(q)'
      BY <3>3, <3>4, <3>6 DEF CopiesInv
    <3>8. left = {} /\ sending = NoPath /\ tmp.path = NoPath /\ dels \subseteq Path
      BY <3>1, <2>0, NoTmpIsNone DEF Stream, Control, ChangeSet
    <3>9. \A q \in dels' : Was(q)'
      BY <3>1, <3>3, <3>6, <3>8 DEF CopiesInv
    <3> QED
      BY <3>1, <3>7, <3>8, <3>9 DEF CopiesInv
  <2>10. CASE ReplyLost
    BY <2>10, <2>2 DEF ReplyLost
  <2>11. CASE UNCHANGED vars
    BY <2>11, <2>2 DEF vars
  <2>12. CASE EditSource \/ Sync \/ Abandon
    BY <2>12, <2>1 DEF EditSource, Sync, Abandon, Applying
  <2>13. ASSUME NEW p \in Path, EditDest(p) PROVE CopiesInv'
    BY <2>13, <2>1 DEF EditDest, Applying
  <2>14. CASE Reply \/ AgentDies
    BY <2>14, <2>1 DEF Reply, AgentDies, Applying
  <2>15. CASE Compensate \/ RollbackCommand \/ UndoRow \/ UndoEnds
    BY <2>15, <2>1 DEF Compensate, RollbackCommand, UndoRow, UndoEnds, Applying
  <2> QED
    BY <2>3, <2>4, <2>5, <2>7, <2>8, <2>9, <2>10, <2>11, <2>12, <2>13, <2>14, <2>15
    DEF Next
<1> QED
  BY <1>1, <1>2, ControlInvariant, TreesInvariant, PTL DEF Spec

\* Apply has a faithful copy of every file it has replaced or deleted and could
\* copy, at every moment, whatever else fails.
THEOREM CopiesFirst == Spec => []CopyBeforeChange
<1>1. CopiesInv => CopyBeforeChange
  BY DEF CopiesInv, CopyBeforeChange, Was, HasCopy, Snap
<1> QED
  BY <1>1, CopiesInvariant, PTL
=============================================================================
