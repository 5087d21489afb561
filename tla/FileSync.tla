------------------------------- MODULE FileSync -------------------------------
(***************************************************************************)
(* file.sync between one controller and one agent: the change set that     *)
(* Diff computes from the two trees, the stream of chunks with which       *)
(* streamFiles and Apply carry it out, the snapshots that Apply takes of   *)
(* what it replaces, the marker that names them, and Rollback, which reads *)
(* the marker.  A tree says for every path whether there is nothing, a     *)
(* directory or a file with its chunks.  The marker is itself a file of    *)
(* the destination: Detect sees it and delete_extra deletes it.            *)
(*                                                                         *)
(* A directory is a leaf here: that a file's parent is missing or is a     *)
(* file shows as a temporary file that cannot be created.  Modes and       *)
(* owners are left out: the controller asks Diff for none.                 *)
(***************************************************************************)
EXTENDS Naturals, Sequences, FiniteSets

CONSTANTS
    Path,          \* relative paths
    Marker,        \* the path .devopsctl_last_snap
    NoPath,
    Sources,       \* the trees the source directory may hold
    Dests,         \* the trees the destination may hold at first
    DeleteExtra,   \* the delete_extra input
    MaxApplies, MaxFaults, MaxEdits

Absent == [kind |-> "absent", data |-> << >>]
Dir == [kind |-> "dir", data |-> << >>]
File(d) == [kind |-> "file", data |-> d]

Entry == {Absent, Dir} \cup [kind : {"file"}, data : Seq(Nat)]
Tree == [Path -> Entry]
Nothing == [p \in Path |-> Absent]

ASSUME FileSyncAssumption ==
    /\ Marker \in Path /\ NoPath \notin Path
    /\ Sources \subseteq Tree /\ Sources # {}
    /\ Dests \subseteq Tree /\ Dests # {}
    /\ \A s \in Sources : s[Marker] = Absent
    /\ \A d \in Dests : d[Marker] = Absent
    /\ DeleteExtra \in BOOLEAN
    /\ MaxApplies \in Nat /\ MaxFaults \in Nat /\ MaxEdits \in Nat

ChangeSet == [mkdir : SUBSET Path, create : SUBSET Path,
              update : SUBSET Path, delete : SUBSET Path]

\* The change set that takes the tree d to the tree s.  What is in both is
\* compared by hash and size: a directory never equals a file.
Diff(s, d) ==
    LET In(t, k) == {p \in Path : t[p].kind = k} IN
    [mkdir  |-> In(s, "dir") \cap In(d, "absent"),
     create |-> In(s, "file") \cap In(d, "absent"),
     update |-> {p \in In(s, "file") \ In(d, "absent") : s[p] # d[p]},
     delete |-> IF DeleteExtra THEN In(d, "file") \cap In(s, "absent") ELSE {}]

Transfers(c) == c.create \cup c.update
IsEmpty(c) == c.mkdir \cup Transfers(c) \cup c.delete = {}

-----------------------------------------------------------------------------

VARIABLES
    src, dest,     \* the source directory and the destination
    snaps,         \* the snapshot directory of every apply
    pc,            \* where the controller and the agent are
    cs,            \* the change set of the sync under way
    left,          \* the files still to be streamed
    sending, sent, \* the file being streamed and the chunks of it received
    tmp,           \* the agent's open temporary file, and the path it is for
    applied, failed, \* the result so far
    dels,          \* what is still to be deleted
    lost,          \* the controller will not get the response
    rows,          \* the recorded applies
    undo,          \* rollback --last: the row it has come down to
    answer,        \* how the last rollback since the last apply has ended
    applies, faults, edits,
    before,        \* history: the destination when the last apply began
    touched,       \* history: what others have changed in it since
    uncopied       \* history: files whose copy the last apply failed to make

transfer == <<left, sending, sent, tmp>>
result == <<applied, failed, lost>>
sync == <<transfer, result, cs, dels>>
world == <<src, edits, touched>>
ledger == <<rows, undo, answer>>
vars == <<src, dest, snaps, pc, cs, left, sending, sent, tmp, applied, failed,
          dels, lost, rows, undo, answer, applies, faults, edits, before, touched, uncopied>>

NoTmp == [path |-> NoPath, data |-> << >>, closed |-> FALSE]
Answers == {"none", "complete", "incomplete", "skipped", "lost"}
Statuses == {"applied", "partial", "failed"}
RowRecord == [cs : ChangeSet, status : Statuses, snap : Nat, before : Tree]

Init ==
    /\ src \in Sources /\ dest \in Dests
    /\ snaps = [n \in 1 .. MaxApplies |-> Nothing]
    /\ pc = "idle" /\ cs = Diff(src, src)
    /\ left = {} /\ sending = NoPath /\ sent = 0 /\ tmp = NoTmp
    /\ applied = {} /\ failed = {} /\ lost = FALSE /\ dels = {}
    /\ rows = << >> /\ undo = 0 /\ answer = "none"
    /\ applies = 0 /\ faults = 0 /\ edits = 0
    /\ before = dest /\ touched = {} /\ uncopied = {}

Fault == faults < MaxFaults /\ faults' = faults + 1
FaultUnless(ok) == IF ok THEN faults' = faults ELSE Fault

-----------------------------------------------------------------------------
(* The world around: the source is edited between two syncs, and somebody  *)
(* changes a file of the destination, at the latest after it was detected. *)

EditSource ==
    /\ pc = "idle"
    /\ src' \in Sources \ {src}
    /\ UNCHANGED <<dest, snaps, pc, sync, ledger, applies, faults, edits,
                   before, touched, uncopied>>

EditDest(p) ==
    /\ pc \in {"idle", "detected"} /\ edits < MaxEdits
    /\ p # Marker /\ dest[p].kind # "dir"
    /\ \E e \in {Absent, File(<<0>>)} \ {dest[p]} : dest' = [dest EXCEPT ![p] = e]
    /\ edits' = edits + 1 /\ touched' = touched \cup {p}
    /\ UNCHANGED <<src, snaps, pc, sync, ledger, applies, faults, before,
                   uncopied>>

-----------------------------------------------------------------------------
(* Controller: detect, diff, and the connection for the apply.             *)

Sync ==
    /\ pc = "idle" /\ applies < MaxApplies
    /\ cs' = Diff(src, dest)
    /\ pc' = IF IsEmpty(cs') THEN "idle" ELSE "detected"
    /\ UNCHANGED <<world, dest, snaps, transfer, result, dels, ledger,
                   applies, faults, before, uncopied>>

Abandon ==
    /\ pc = "detected" /\ Fault
    /\ pc' = "idle"
    /\ UNCHANGED <<world, dest, snaps, sync, ledger, applies, before,
                   uncopied>>

\* The agent takes a new snapshot directory and makes the directories.
BeginApply ==
    LET blocked == {p \in cs.mkdir : dest[p].kind = "file"} IN
    /\ pc = "detected" /\ pc' = "streaming"
    /\ applies' = applies + 1
    /\ \E bad \in SUBSET cs.mkdir :
        /\ blocked \subseteq bad
        /\ FaultUnless(bad = blocked)
        /\ failed' = bad /\ applied' = cs.mkdir \ bad
        /\ dest' = [p \in Path |-> IF p \in cs.mkdir \ bad THEN Dir ELSE dest[p]]
    /\ left' = Transfers(cs) /\ sending' = NoPath /\ sent' = 0 /\ tmp' = NoTmp
    /\ lost' = FALSE /\ dels' = {}
    /\ before' = dest /\ touched' = {} /\ uncopied' = {} /\ answer' = "none"
    /\ UNCHANGED <<src, snaps, cs, rows, undo, edits>>

\* streamFiles opens the next file, in any order but creates before updates;
\* of an empty one it sends nothing.
NextFile(p) ==
    /\ pc = "streaming" /\ sending = NoPath
    /\ p \in left /\ (p \in cs.update => left \cap cs.create = {})
    /\ left' = left \ {p} /\ sent' = 0
    /\ sending' = IF src[p].data = << >> THEN NoPath ELSE p
    /\ UNCHANGED <<world, dest, snaps, pc, cs, tmp, result, dels, ledger,
                   applies, faults, before, uncopied>>

-----------------------------------------------------------------------------
(* Agent: Apply.                                                           *)

\* finishCurrentFile: close the temporary file and rename it into place.  Each
\* of its steps may fail, the rename over a directory does; then the closed
\* file stays current.  done is what is renamed, Finishable or nothing.
Finishable ==
    IF tmp.path # NoPath /\ ~tmp.closed /\ dest[tmp.path].kind # "dir"
    THEN {tmp.path} ELSE {}
\* Mutant: as at the end of the loop, the error is dropped.
UnfinishedSilently(done) == {}
Unfinished(done) == {tmp.path} \ (done \cup {NoPath})
DestFinished(done) ==
    [p \in Path |-> IF p \in done THEN File(tmp.data) ELSE dest[p]]
TmpFinished(done) ==
    IF Unfinished(done) = {} THEN NoTmp ELSE [tmp EXCEPT !.closed = TRUE]

\* copyFileSimple into the snapshot directory: of a directory it makes an
\* empty file, and its errors are ignored.
CopyOf(e) == IF e.kind = "dir" THEN File(<< >>) ELSE e
\* Mutants: what is to be created is taken to have nothing to copy.
CopiedIfUpdate(p) ==
    snaps' = IF dest[p] = Absent \/ p \in cs.create THEN snaps
             ELSE [snaps EXCEPT ![applies][p] = CopyOf(dest[p])]

Copied(p) ==
    snaps' = IF dest[p] = Absent THEN snaps
             ELSE [snaps EXCEPT ![applies][p] = CopyOf(dest[p])]
CopyFails(p) ==
    /\ dest[p].kind = "file"
    /\ snaps' \in {snaps, [snaps EXCEPT ![applies][p] = File(<< >>)]}
    /\ uncopied' = uncopied \cup {p}
Snapshot(p, copied) ==
    IF copied THEN Copied(p) /\ UNCHANGED uncopied ELSE CopyFails(p)

Advance ==
    /\ sent' = sent + 1
    /\ sending' = IF sent' = Len(src[sending].data) THEN NoPath ELSE sending

\* A chunk of the file that is open.
ReceiveMore ==
    /\ pc = "streaming" /\ sending # NoPath /\ tmp.path = sending
    /\ Advance
    /\ \/ /\ tmp' = [tmp EXCEPT !.data = Append(@, src[sending].data[sent + 1])]
          /\ UNCHANGED <<failed, faults>>
       \/ Fault /\ failed' = failed \cup {sending} /\ tmp' = tmp
    /\ UNCHANGED <<world, dest, snaps, pc, cs, left, applied, lost, dels, ledger,
                   applies, before, uncopied>>

OpenTmp(d) == [path |-> sending, data |-> d, closed |-> FALSE]

\* Mutant: the failure is not reported.
HeadLostSilently(done) ==
    /\ tmp' \in {TmpFinished(done), OpenTmp(<< >>)}
    /\ failed' = failed \cup Unfinished(done)

\* The head of a file is lost: its temporary file cannot be created, and the
\* next chunk of the same file tries again, or the chunk cannot be written.
HeadLost(done) ==
    /\ tmp' \in {TmpFinished(done), OpenTmp(<< >>)}
    /\ failed' = failed \cup Unfinished(done) \cup {sending}

\* A chunk of another file: the open one is finished, what is at the new path
\* is copied, and a temporary file created.
ReceiveFirst ==
    /\ pc = "streaming" /\ sending # NoPath /\ tmp.path # sending
    /\ Advance
    /\ \E done \in {Finishable, {}}, copied, whole \in BOOLEAN :
        /\ FaultUnless(done = Finishable /\ copied /\ whole)
        /\ dest' = DestFinished(done) /\ applied' = applied \cup done
        /\ Snapshot(sending, copied)
        /\ IF whole
           THEN /\ tmp' = OpenTmp(<<src[sending].data[sent + 1]>>)
                /\ failed' = failed \cup Unfinished(done)
           ELSE HeadLost(done)
    /\ UNCHANGED <<world, pc, cs, left, lost, dels, ledger, applies, before>>

\* The loop over the chunks ends, with the sentinel or with the connection;
\* either way the open file is finished, and nobody hears if that fails.
LeaveLoop(done) ==
    /\ pc = "streaming" /\ pc' = "deleting"
    /\ dest' = DestFinished(done) /\ applied' = applied \cup done
    /\ tmp' = NoTmp /\ dels' = cs.delete
    /\ left' = {} /\ sending' = NoPath
    /\ UNCHANGED <<world, snaps, cs, sent, failed, ledger, applies, before,
                   uncopied>>

EndOfStream ==
    /\ left = {} /\ sending = NoPath
    /\ \E done \in {Finishable, {}} : FaultUnless(done = Finishable) /\ LeaveLoop(done)
    /\ UNCHANGED lost
StreamBreaks ==
    /\ Fault /\ lost' = TRUE
    /\ \E done \in {Finishable, {}} : LeaveLoop(done)

Delete(p) ==
    /\ pc = "deleting" /\ p \in dels
    /\ dels' = dels \ {p}
    /\ \E copied, removed \in BOOLEAN :
        /\ FaultUnless(copied /\ (removed \/ dest[p] = Absent))
        /\ Snapshot(p, copied)
        /\ IF removed
           THEN /\ dest[p] # Absent /\ dest' = [dest EXCEPT ![p] = Absent]
                /\ applied' = applied \cup {p} /\ UNCHANGED failed
           ELSE failed' = failed \cup {p} /\ UNCHANGED <<dest, applied>>
    /\ UNCHANGED <<world, pc, cs, transfer, lost, ledger, applies, before>>

\* Mutant: the agent's own word is recorded.
StatusRaw == IF failed = {} THEN "success" ELSE IF applied = {} THEN "failed" ELSE "partial"

Status ==
    IF failed = {} THEN "applied" ELSE IF applied = {} THEN "failed" ELSE "partial"

\* The marker is written, or left as it was or empty if that fails; the answer
\* is sent and, unless the connection is gone, recorded.  A failed apply is
\* rolled back at once.
Reply ==
    /\ pc = "deleting" /\ dels = {}
    /\ IF snaps[applies] = Nothing THEN UNCHANGED <<dest, faults>>
       ELSE \E m \in {File(<<applies>>), File(<< >>), dest[Marker]} :
             /\ FaultUnless(m = File(<<applies>>))
             /\ dest' = [dest EXCEPT ![Marker] = m]
    /\ IF lost THEN pc' = "idle" /\ rows' = rows
       ELSE /\ pc' = IF Status = "failed" THEN "compensating" ELSE "idle"
            /\ rows' = Append(rows, [cs |-> cs, status |-> Status,
                                     snap |-> applies, before |-> before])
    /\ UNCHANGED <<world, snaps, sync, undo, answer, applies, before, uncopied>>

ReplyLost ==
    /\ pc = "deleting" /\ ~lost /\ Fault
    /\ lost' = TRUE
    /\ UNCHANGED <<world, dest, snaps, pc, cs, transfer, applied, failed, dels,
                   ledger, applies, before, uncopied>>

\* The agent's process ends in the middle of an apply: no marker, no answer.
AgentDies ==
    /\ pc \in {"streaming", "deleting"} /\ Fault
    /\ pc' = "idle" /\ lost' = TRUE
    /\ left' = {} /\ sending' = NoPath /\ tmp' = NoTmp /\ dels' = {}
    /\ UNCHANGED <<world, dest, snaps, cs, sent, applied, failed, ledger,
                   applies, before, uncopied>>

-----------------------------------------------------------------------------
(* Rollback, from a failed apply and from rollback --last.                 *)

\* The marker names a snapshot directory; an empty one names none.
Marked == dest[Marker].kind = "file"
MarkedSnap == IF dest[Marker].data = << >> THEN 0 ELSE dest[Marker].data[1]
MarkedTree == IF MarkedSnap = 0 THEN Nothing ELSE snaps[MarkedSnap]

\* Mutant: deletions are not undone.
RestorableUpdates(c) == {p \in c.update : MarkedTree[p].kind = "file"}

\* What there is to copy back, whether or not it is still in the snapshot of
\* this change set.
Restorable(c) == {p \in c.update \cup c.delete : MarkedTree[p].kind = "file"}

\* What Rollback leaves: done is what it has copied back or removed, torn what
\* it has emptied and not written, kept what is left of the snapshot.
Leaves(c, done, torn, kept, unmarked) ==
    /\ dest' = [p \in Path |->
         IF p = Marker /\ unmarked THEN Absent
         ELSE IF p \in done THEN IF p \in c.create THEN Absent ELSE MarkedTree[p]
         ELSE IF p \in torn THEN File(<< >>) ELSE dest[p]]
    /\ snaps' = [n \in 1 .. MaxApplies |->
         IF n # MarkedSnap THEN snaps[n]
         ELSE [p \in Path |-> IF p \in kept THEN snaps[n][p] ELSE Absent]]

\* Rollback of a change set.  What it updated or deleted is copied back from
\* the snapshot, though never over a directory, and what it created is removed,
\* whether or not there is a copy of it; then the snapshot directory goes, and
\* the marker.  One of these calls may fail, and the process may end anywhere.
RollbackRuns(c) ==
    LET todo == Restorable(c) \cup c.create
        free == {p \in todo : p \in c.create \/ dest[p].kind # "dir"}
        copies == {p \in Path : MarkedTree[p] # Absent}
        said == IF free = todo THEN "complete" ELSE "incomplete"
        Torn(ps) == {{}} \cup {{p} : p \in ps \ c.create} IN
    \/ Leaves(c, free, {}, {}, TRUE) /\ answer' = said /\ faults' = faults
    \/ /\ Fault
       /\ \/ \E p \in free : \E torn \in Torn({p}) :
               Leaves(c, free \ {p}, torn, {}, TRUE) /\ answer' = "incomplete"
          \/ \E kept \in SUBSET copies, unmarked \in BOOLEAN :
               Leaves(c, free, {}, kept, unmarked) /\ answer' \in {said, "lost"}
          \/ \E done \in SUBSET free : \E torn \in Torn(free \ done) :
               Leaves(c, done, torn, copies, FALSE) /\ answer' = "lost"

\* Without a marker there is nothing to do, which passes for a success.
RollbackSkipped ==
    /\ FaultUnless(~Marked) /\ answer' = "skipped"
    /\ UNCHANGED <<dest, snaps>>

\* The request or the process is lost before anything has been done.
RollbackLost == Fault /\ answer' = "lost" /\ UNCHANGED <<dest, snaps>>

Rollback(c) == (Marked /\ RollbackRuns(c)) \/ RollbackSkipped \/ RollbackLost

Compensate ==
    /\ pc = "compensating" /\ pc' = "idle"
    /\ Rollback(cs)
    /\ UNCHANGED <<world, sync, rows, undo, applies, before, uncopied>>

RollbackCommand ==
    /\ pc = "idle" /\ rows # << >>
    /\ pc' = "undoing" /\ undo' = Len(rows)
    /\ UNCHANGED <<world, dest, snaps, sync, rows, answer, applies, faults, before,
                   uncopied>>

UndoRow ==
    /\ pc = "undoing" /\ undo > 0
    /\ undo' = undo - 1
    /\ IF rows[undo].status \in {"applied", "partial"}
       THEN Rollback(rows[undo].cs)
       ELSE UNCHANGED <<dest, snaps, answer, faults>>
    /\ UNCHANGED <<world, pc, sync, rows, applies, before, uncopied>>

UndoEnds ==
    /\ pc = "undoing" /\ undo = 0
    /\ pc' = "idle"
    /\ UNCHANGED <<world, dest, snaps, sync, ledger, applies, faults,
                   before, uncopied>>

-----------------------------------------------------------------------------

Next ==
    \/ EditSource
    \/ \E p \in Path : EditDest(p)
    \/ Sync \/ Abandon \/ BeginApply
    \/ \E p \in Path : NextFile(p)
    \/ ReceiveMore \/ ReceiveFirst
    \/ EndOfStream \/ StreamBreaks
    \/ \E p \in Path : Delete(p)
    \/ Reply \/ ReplyLost \/ AgentDies
    \/ Compensate \/ RollbackCommand \/ UndoRow \/ UndoEnds

Spec == Init /\ [][Next]_vars

-----------------------------------------------------------------------------
(* Properties.                                                             *)

\* Every variable keeps its type.
TypeOK ==
    /\ src \in Sources /\ dest \in Tree
    /\ snaps \in [1 .. MaxApplies -> Tree]
    /\ pc \in {"idle", "detected", "streaming", "deleting", "compensating", "undoing"}
    /\ cs \in ChangeSet
    /\ left \subseteq Path /\ sending \in Path \cup {NoPath} /\ sent \in Nat
    /\ tmp \in [path : Path \cup {NoPath}, data : Seq(Nat), closed : BOOLEAN]
    /\ applied \subseteq Path /\ failed \subseteq Path /\ dels \subseteq Path
    /\ lost \in BOOLEAN
    /\ rows \in Seq(RowRecord) /\ undo \in 0 .. Len(rows) /\ answer \in Answers
    /\ applies \in 0 .. MaxApplies /\ faults \in 0 .. MaxFaults /\ edits \in 0 .. MaxEdits
    /\ before \in Tree /\ touched \subseteq Path /\ uncopied \subseteq Path

Applying == pc \in {"streaming", "deleting"}

\* While an apply is under way, whatever file it has replaced or deleted has a
\* faithful copy in the snapshot directory, unless copying failed: apply.go
\* copies before it renames or removes, also when a temporary file fails and
\* the path is tried again.
CopyBeforeChange ==
    Applying => \A p \in Path :
        before[p].kind = "file" /\ dest[p] # before[p] /\ p \notin uncopied =>
            snaps[applies][p] = before[p]

\* A file that is neither what it was nor what it should be is in the result's
\* failed list, unless the stream broke and nobody gets the result: a chunk or
\* a write that was lost does not end in a file that passes for complete.
TornIsReported ==
    Applying /\ ~lost => \A p \in Path :
        \/ dest[p] \in {before[p], src[p]}
        \/ p \in failed

\* What an apply has left behind of the files it was to transfer; of an empty
\* one, for which no chunk is sent, Apply cannot know.
Behind == {p \in Transfers(cs) : src[p].data # << >> /\ dest[p] # src[p]}

\* When an apply is recorded as applied, what it was to delete is gone, every
\* file it was to transfer is what the source has or what it was before, and
\* at most one is not transferred: the last one, when closing or renaming its
\* temporary file failed after the last chunk, of which nobody hears.
AppliedIsSynced ==
    [][Len(rows') > Len(rows) /\ rows'[Len(rows')].status = "applied" =>
        /\ \A p \in Transfers(cs) : dest[p] \in {src[p], before[p]}
        /\ \A p, q \in Behind : p = q
        /\ \A p \in cs.delete : dest[p] = Absent]_vars

UndoneRow == IF pc = "undoing" THEN rows[undo] ELSE rows[Len(rows)]

\* The first rollback of the last apply that says it is complete is, if the
\* marker is that apply's: every file it updated or deleted is back, unless
\* somebody has changed it since or its copy failed, of which Apply takes no
\* notice, and every file it created where there was none is gone.
UndoRestores ==
    [][answer = "none" /\ answer' = "complete"
       /\ UndoneRow.snap = applies /\ MarkedSnap = applies =>
        /\ \A p \in (UndoneRow.cs.update \cup UndoneRow.cs.delete)
                     \ (touched \cup uncopied \cup {Marker}) :
             UndoneRow.before[p].kind = "file" => dest'[p] = UndoneRow.before[p]
        /\ \A p \in UndoneRow.cs.create :
             UndoneRow.before[p] = Absent => dest'[p] = Absent]_vars
=============================================================================
