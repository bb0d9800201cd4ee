--------------------------- MODULE TransferImport ---------------------------
(***************************************************************************)
(* One import at its destination executor: the private temporary file that *)
(* receives the bytes, its metadata, the destination, and for a directory  *)
(* the archive, the staging directory, the backup of what was there, and   *)
(* the two durable receipts.  A command changes one of these at a time and *)
(* is interrupted between any two changes; what is on disk is all that the *)
(* next command knows.  Commands run one after the other, in the order     *)
(* they were offered.                                                      *)
(***************************************************************************)
EXTENDS Naturals, Sequences

CONSTANTS MaxCrashes,  \* bound: interruptions of a command or of the executor
          MaxEdits     \* bound: changes by others at the destination

VARIABLES
    kind,       \* "file" or "dir", fixed for the transfer
    overwrite,  \* whether the destination may be replaced
    original,   \* what was at the destination before: "old" or "none"
    dest,       \* what is there: "none", "old", "new", or "edited" by someone else
    archive,    \* the received archive of a directory exists
    temp,       \* the temporary file: "none", "partial" or "full"
    meta,       \* its metadata file exists
    wrec,       \* the write receipt
    staging,    \* the unpacked tree: "none", "partial" or "full"
    backup,     \* what was moved away from the destination, or "none"
    urec,       \* the unpack receipt
    exec,       \* the command that runs and its next step
    result,     \* the result of the command that ended last
    published,  \* history: publications at the destination
    crashes,    \* interruptions so far
    edits       \* changes by others so far

contract == <<kind, overwrite, original>>
disk == <<dest, archive, temp, meta, wrec, staging, backup, urec>>
tvars == <<contract, disk, exec, result, published, crashes, edits>>

NoWrite == [status |-> "none", leaving |-> "none"]
NoUnpack == [status |-> "none", leaving |-> "none", existed |-> FALSE]
Idle == [op |-> "idle", at |-> "start"]

TransferInit ==
    /\ kind \in {"file", "dir"} /\ overwrite \in BOOLEAN
    /\ original \in {"none", "old"} /\ dest = original
    /\ archive = FALSE /\ temp = "none" /\ meta = FALSE /\ wrec = NoWrite
    /\ staging = "none" /\ backup = "none" /\ urec = NoUnpack
    /\ exec = Idle /\ result = "none"
    /\ published = 0 /\ crashes = 0 /\ edits = 0

Starts(op) == /\ exec = Idle /\ exec' = [op |-> op, at |-> "start"]
              /\ UNCHANGED <<contract, disk, result, published, crashes, edits>>

At(op, step) == exec.op = op /\ exec.at = step
GoesTo(step) == exec' = [exec EXCEPT !.at = step] /\ UNCHANGED result
Replies(r) == exec' = Idle /\ result' = r
Others == UNCHANGED <<contract, crashes, edits>>
Quiet == Others /\ UNCHANGED published

-----------------------------------------------------------------------------
(* What a write publishes: the destination, or the archive of a directory. *)

TargetPresent == IF kind = "dir" THEN archive ELSE dest # "none"
TargetIntact == IF kind = "dir" THEN archive ELSE dest = "new"

\* A completed unpack has consumed the archive the write published.
Consumed == /\ kind = "dir" /\ wrec.status = "completed" /\ ~archive
            /\ urec.status = "completed"

Committed == \/ wrec.status = "completed"
             \/ wrec.status = "committing" /\ temp = "none"

\* Only a file write can be told not to overwrite; the archive is scratch.
Forbidden == kind = "file" /\ ~overwrite /\ TargetPresent

\* Status of a receipt that is rewritten.
Receipt(status) == [wrec EXCEPT !.status = status]
RestOfWrite == UNCHANGED <<staging, backup, urec>>

(* transfer_begin_write: a receipt of a commit is the answer; otherwise the
   receipt, the temporary file and its metadata are created or taken up.     *)
BeginCommitted ==
    /\ At("begin", "start") /\ wrec.leaving = "none" /\ Committed
    /\ \/ /\ TargetIntact \/ Consumed
          /\ wrec' = Receipt("completed") /\ meta' = FALSE /\ Replies("completed")
       \/ ~(TargetIntact \/ Consumed) /\ Replies("error") /\ UNCHANGED <<wrec, meta>>
    /\ UNCHANGED <<dest, archive, temp>> /\ RestOfWrite /\ Quiet

BeginRefused ==
    /\ \/ At("begin", "start") /\ wrec.leaving # "none"
       \/ At("begin", "start") /\ ~Committed /\ Forbidden
       \/ At("begin", "temp") /\ temp # "none" /\ ~meta
    /\ Replies("error") /\ UNCHANGED disk /\ Quiet

BeginReceipt ==
    /\ At("begin", "start") /\ wrec.leaving = "none"
    /\ ~Committed /\ ~Forbidden
    /\ wrec' = IF wrec = NoWrite THEN Receipt("receiving") ELSE wrec
    /\ GoesTo("temp")
    /\ UNCHANGED <<dest, archive, temp, meta>> /\ RestOfWrite /\ Quiet

BeginTemp ==
    /\ At("begin", "temp") /\ temp = "none"
    /\ temp' = "partial" /\ GoesTo("metadata")
    /\ UNCHANGED <<dest, archive, meta, wrec>> /\ RestOfWrite /\ Quiet

BeginMetadata ==
    /\ At("begin", "metadata")
    /\ \/ meta' = TRUE /\ Replies("ok") /\ UNCHANGED temp
       \/ temp' = "none" /\ Replies("error") /\ UNCHANGED meta
    /\ UNCHANGED <<dest, archive, wrec>> /\ RestOfWrite /\ Quiet

BeginResumed ==
    /\ At("begin", "temp") /\ temp # "none" /\ meta
    /\ Replies("ok") /\ UNCHANGED disk /\ Quiet

(* The download writes its chunks (transfer_write_bytes) unless begin found all
   of them; it can fail after some.                                          *)
MayReceive == /\ wrec.status = "receiving" /\ wrec.leaving = "none"
              /\ temp = "partial" /\ meta

Receives ==
    /\ At("download", "start")
    /\ \/ MayReceive /\ temp' = "full" /\ Replies("ok")
       \/ temp = "full" /\ Replies("ok") /\ UNCHANGED temp
       \/ Replies("error") /\ UNCHANGED temp
    /\ UNCHANGED <<dest, archive, meta, wrec>> /\ RestOfWrite /\ Quiet

(* transfer_finish_write: mark the commit, replace, mark it completed        *)
MayFinish == /\ wrec.status # "completed"
             /\ wrec.leaving = "none" /\ temp = "full" /\ meta /\ ~Forbidden

\* Variant: the commit is not marked before the destination is replaced.
FinishMarks_Unmarked ==
    /\ At("finish", "start")
    /\ \/ MayFinish /\ GoesTo("replace")
       \/ ~MayFinish /\ Replies("error")
    /\ UNCHANGED disk /\ Quiet

FinishMarks ==
    /\ At("finish", "start")
    /\ \/ MayFinish /\ wrec' = Receipt("committing") /\ GoesTo("replace")
       \/ ~MayFinish /\ Replies("error") /\ UNCHANGED wrec
    /\ UNCHANGED <<dest, archive, temp, meta>> /\ RestOfWrite /\ Quiet

FinishReplaces ==
    /\ At("finish", "replace") /\ temp' = "none"
    /\ \/ kind = "dir" /\ archive' = TRUE /\ UNCHANGED <<dest, published>>
       \/ kind = "file" /\ dest' = "new" /\ published' = published + 1
          /\ UNCHANGED archive
    /\ GoesTo("metadata")
    /\ UNCHANGED <<meta, wrec>> /\ RestOfWrite /\ Others

FinishCompletes ==
    /\ \/ At("finish", "metadata") /\ meta' = FALSE /\ GoesTo("complete")
          /\ UNCHANGED wrec
       \/ At("finish", "complete") /\ wrec' = Receipt("completed") /\ Replies("ok")
          /\ UNCHANGED meta
    /\ UNCHANGED <<dest, archive, temp>> /\ RestOfWrite /\ Quiet

-----------------------------------------------------------------------------
(* transfer_unpack_archive: the receipt's status says which step is next.   *)

Absent == dest = "none"
BackedUp == backup # "none"
Unpack(status) == exec.op = "unpack" /\ urec.status = status
Status(status) == [urec EXCEPT !.status = status]
RestOfUnpack == UNCHANGED <<temp, meta, wrec>>

\* The first call checks the archive and the destination, and records whether
\* the destination was there.
UnpackReceipt ==
    /\ Unpack("none")
    /\ LET refused == \/ BackedUp \/ ~archive
                      \/ ~Absent /\ ~overwrite
       IN \/ refused /\ Replies("error") /\ UNCHANGED <<urec, staging>>
          \/ /\ ~refused /\ GoesTo("start") /\ staging' = "none"
             /\ urec' = [status |-> "extracting", leaving |-> "none",
                         existed |-> ~Absent]
    /\ UNCHANGED <<dest, archive, backup>> /\ RestOfUnpack /\ Quiet

\* The topology the receipt leads a call in this status to expect.
Expected ==
    CASE urec.status = "extracting" ->
           (IF urec.existed THEN ~Absent ELSE Absent) /\ ~BackedUp /\ archive
      [] urec.status = "prepared" ->
           /\ staging # "none"
           /\ IF urec.existed THEN BackedUp = Absent ELSE Absent
      [] urec.status = "backup_moved" ->
           urec.existed /\ staging # "none" /\ BackedUp /\ Absent
      [] urec.status = "publishing" ->
           IF staging # "none" THEN Absent /\ (urec.existed => BackedUp)
           ELSE ~Absent /\ (urec.existed => BackedUp)
      [] urec.status = "completed" -> ~Absent

UnpackRefused ==
    /\ exec.op = "unpack" /\ urec.status # "none" /\ exec.at = "start" /\ ~Expected
    /\ Replies("error") /\ UNCHANGED disk /\ Quiet

\* A partial tree is removed and extracted again; an extraction that fails
\* removes it as well.
Extracts ==
    /\ Unpack("extracting")
    /\ \/ /\ exec.at = "start" /\ Expected
          /\ staging' = "partial" /\ GoesTo("extract") /\ UNCHANGED urec
       \/ /\ exec.at = "extract" /\ staging = "partial"
          /\ staging' \in {"full", "none"}
          /\ IF staging' = "full" THEN GoesTo("extract") ELSE Replies("error")
          /\ UNCHANGED urec
       \/ /\ exec.at = "extract" /\ staging = "full"
          /\ urec' = Status("prepared") /\ GoesTo("start") /\ UNCHANGED staging
    /\ UNCHANGED <<dest, archive, backup>> /\ RestOfUnpack /\ Quiet

MovesAway ==
    /\ Unpack("prepared") /\ exec.at = "start" /\ Expected
    /\ \/ /\ urec.existed /\ ~BackedUp
          /\ backup' = dest /\ dest' = "none" /\ UNCHANGED urec
       \/ /\ urec.existed /\ BackedUp
          /\ urec' = Status("backup_moved") /\ UNCHANGED <<backup, dest>>
       \/ /\ ~urec.existed
          /\ urec' = Status("publishing") /\ UNCHANGED <<backup, dest>>
    /\ GoesTo("start") /\ UNCHANGED <<archive, staging>> /\ RestOfUnpack /\ Quiet

MarksPublishing ==
    /\ Unpack("backup_moved") /\ exec.at = "start" /\ Expected
    /\ urec' = Status("publishing") /\ GoesTo("start")
    /\ UNCHANGED <<dest, archive, staging, backup>> /\ RestOfUnpack /\ Quiet

Publishes ==
    /\ Unpack("publishing")
    /\ \/ exec.at = "published"
       \/ exec.at = "start" /\ Expected
    /\ \/ /\ staging # "none"
          /\ dest' = (IF staging = "full" THEN "new" ELSE "torn")
          /\ staging' = "none" /\ published' = published + 1
          /\ GoesTo("published") /\ UNCHANGED urec
       \/ /\ staging = "none" /\ urec' = Status("completed")
          /\ GoesTo("start") /\ UNCHANGED <<dest, staging, published>>
    /\ UNCHANGED <<archive, backup>> /\ RestOfUnpack /\ Others

\* The backup and the archive are removed; a removal that fails is reported in
\* the answer and leaves its file.
UnpackCleans ==
    /\ Unpack("completed") /\ exec.at = "start" /\ Expected
    /\ \/ /\ BackedUp /\ backup' = "none" /\ GoesTo("start") /\ UNCHANGED archive
       \/ /\ ~BackedUp /\ archive /\ archive' = FALSE /\ GoesTo("start")
          /\ UNCHANGED backup
       \/ Replies("ok") /\ UNCHANGED <<backup, archive>>
    /\ UNCHANGED <<dest, staging, urec>> /\ RestOfUnpack /\ Quiet

(* transfer_release_receipts                                                 *)
Releases ==
    /\ \/ At("release", "start") /\ wrec' = NoWrite /\ GoesTo("unpack")
          /\ UNCHANGED urec
       \/ At("release", "unpack") /\ urec' = NoUnpack /\ Replies("ok")
          /\ UNCHANGED wrec
    /\ UNCHANGED <<dest, archive, temp, meta, staging, backup>> /\ Quiet

-----------------------------------------------------------------------------
(* transfer_abandon_import: the write first, then the unpack.  What is dropped
   is marked in the receipt before anything is removed, so that an interrupted
   abandonment is taken up where it was.                                      *)

Leaves(what) == wrec' = [wrec EXCEPT !.leaving = what]
RestOfDisk == UNCHANGED <<dest, staging, backup, urec>>
Abandons == At("abandon", "start")

\* The committed write is what it should be, or was consumed by the unpack.
CommitStands == temp = "none" /\ (TargetIntact \/ Consumed)

NoWriteToAbandon ==
    /\ Abandons /\ wrec = NoWrite
    /\ GoesTo("unpack") /\ UNCHANGED disk /\ Quiet

MarksTemp ==
    /\ Abandons /\ wrec.leaving = "none"
    /\ \/ wrec.status = "receiving"
       \/ wrec.status = "committing" /\ temp # "none" /\ ~(kind = "dir" /\ archive)
    /\ Leaves("temp") /\ GoesTo("start")
    /\ UNCHANGED <<archive, temp, meta>> /\ RestOfDisk /\ Quiet

DropsTemp ==
    /\ Abandons /\ wrec.leaving = "temp"
    /\ \/ /\ temp # "none" /\ temp' = "none" /\ GoesTo("start")
          /\ UNCHANGED <<meta, wrec>>
       \/ /\ temp = "none" /\ meta /\ meta' = FALSE /\ GoesTo("start")
          /\ UNCHANGED <<temp, wrec>>
       \/ /\ temp = "none" /\ ~meta /\ wrec' = NoWrite /\ GoesTo("unpack")
          /\ UNCHANGED <<temp, meta>>
    /\ UNCHANGED archive /\ RestOfDisk /\ Quiet

\* A committed file stays; a committed archive is dropped.
KeepsCommit ==
    /\ Abandons /\ wrec.leaving = "none" /\ Committed /\ CommitStands
    /\ IF kind = "dir" THEN Leaves("archive") /\ GoesTo("start")
                       ELSE GoesTo("settle") /\ UNCHANGED wrec
    /\ UNCHANGED <<archive, temp, meta>> /\ RestOfDisk /\ Quiet

SettlesCommit ==
    /\ \/ At("abandon", "settle")
       \/ Abandons /\ wrec.leaving = "archive" /\ temp = "none"
    /\ \/ /\ kind = "dir" /\ archive /\ archive' = FALSE
          /\ GoesTo(exec.at) /\ UNCHANGED <<meta, wrec>>
       \/ /\ ~(kind = "dir" /\ archive) /\ meta /\ meta' = FALSE
          /\ GoesTo(exec.at) /\ UNCHANGED <<archive, wrec>>
       \/ /\ ~(kind = "dir" /\ archive) /\ ~meta /\ wrec' = NoWrite
          /\ GoesTo("unpack") /\ UNCHANGED <<archive, meta>>
    /\ UNCHANGED temp /\ RestOfDisk /\ Quiet

\* What the write cannot account for is left to a later attempt.
WriteStays ==
    /\ Abandons
    /\ \/ wrec.leaving = "none" /\ Committed /\ ~CommitStands
       \/ /\ wrec.leaving = "none" /\ wrec.status = "committing"
          /\ temp # "none" /\ kind = "dir" /\ archive
       \/ wrec.leaving = "archive" /\ temp # "none"
    /\ Replies("error") /\ UNCHANGED disk /\ Quiet

Unpacking == At("abandon", "unpack")
Undo(what) == urec' = [urec EXCEPT !.leaving = what]
RestOfUndo == UNCHANGED <<temp, meta, wrec>>

NoUnpackToAbandon ==
    /\ Unpacking /\ urec = NoUnpack
    /\ Replies("ok") /\ UNCHANGED disk /\ Quiet

\* Whether the original is in place, has been moved away, or never was.
Unmoved == (IF urec.existed THEN ~Absent ELSE Absent) /\ ~BackedUp
MovedAway == urec.existed /\ BackedUp /\ Absent

\* Variant: an interruption right after the original was moved is not foreseen.
CanRollBack_Unmoved ==
    CASE urec.status \in {"extracting", "prepared"} -> Unmoved
      [] urec.status = "backup_moved" -> MovedAway
      [] urec.status = "publishing" ->
           staging # "none" /\ (IF urec.existed THEN MovedAway ELSE ~BackedUp)
      [] urec.status = "completed" -> FALSE

CanRollBack ==
    CASE urec.status = "extracting" -> Unmoved
      [] urec.status = "prepared" -> IF urec.existed THEN BackedUp = Absent ELSE ~BackedUp
      [] urec.status = "backup_moved" -> MovedAway
      [] urec.status = "publishing" ->
           staging # "none" /\ (IF urec.existed THEN MovedAway ELSE ~BackedUp)
      [] urec.status = "completed" -> FALSE

CanCommit ==
    \/ urec.status = "completed" /\ ~Absent
    \/ /\ urec.status = "publishing" /\ staging = "none" /\ ~Absent
       /\ BackedUp = urec.existed

Decides ==
    /\ Unpacking /\ urec # NoUnpack /\ urec.leaving = "none"
    /\ \/ CanRollBack /\ Undo("rollback") /\ GoesTo("unpack")
       \/ CanCommit /\ Undo("commit") /\ GoesTo("unpack")
       \/ ~CanRollBack /\ ~CanCommit /\ Replies("error") /\ UNCHANGED urec
    /\ UNCHANGED <<dest, archive, staging, backup>> /\ RestOfUndo /\ Quiet

RollsBack ==
    /\ Unpacking /\ urec.leaving = "rollback"
    /\ \/ /\ MovedAway /\ backup' = "none" /\ dest' = backup
          /\ GoesTo("unpack") /\ UNCHANGED <<staging, urec>>
       \/ /\ Unmoved /\ staging # "none" /\ staging' \in {"none", "partial"}
          /\ GoesTo("unpack") /\ UNCHANGED <<dest, backup, urec>>
       \/ /\ Unmoved /\ staging = "none" /\ Undo("rollback_archive")
          /\ GoesTo("unpack") /\ UNCHANGED <<dest, staging, backup>>
       \/ /\ ~MovedAway /\ ~Unmoved /\ Replies("error")
          /\ UNCHANGED <<dest, staging, backup, urec>>
    /\ UNCHANGED archive /\ RestOfUndo /\ Quiet

ConfirmsCommit ==
    /\ Unpacking /\ urec.leaving = "commit"
    /\ \/ /\ ~Absent /\ BackedUp /\ urec.existed /\ backup' = "none"
          /\ GoesTo("unpack") /\ UNCHANGED urec
       \/ /\ ~Absent /\ ~BackedUp /\ Undo("commit_archive")
          /\ GoesTo("unpack") /\ UNCHANGED backup
       \/ /\ Absent \/ (BackedUp /\ ~urec.existed)
          /\ Replies("error") /\ UNCHANGED <<backup, urec>>
    /\ UNCHANGED <<dest, archive, staging>> /\ RestOfUndo /\ Quiet

\* The last check before the receipt goes.
Settled == /\ ~BackedUp /\ staging = "none"
           /\ IF urec.leaving = "rollback_archive" THEN urec.existed = ~Absent
                                                  ELSE ~Absent

Forgets ==
    /\ Unpacking /\ urec.leaving \in {"rollback_archive", "commit_archive"}
    /\ \/ /\ Settled /\ archive /\ archive' = FALSE
          /\ GoesTo("unpack") /\ UNCHANGED urec
       \/ /\ Settled /\ ~archive /\ urec' = NoUnpack
          /\ Replies("ok") /\ UNCHANGED archive
       \/ ~Settled /\ Replies("error") /\ UNCHANGED <<archive, urec>>
    /\ UNCHANGED <<dest, staging, backup>> /\ RestOfUndo /\ Quiet

-----------------------------------------------------------------------------
(* The executor stops between any two steps; someone else changes or removes
   the destination between any two.                                          *)

Crash ==
    /\ exec # Idle /\ crashes < MaxCrashes /\ crashes' = crashes + 1
    /\ Replies("error") /\ UNCHANGED <<contract, disk, published, edits>>

UserEdits ==
    /\ edits < MaxEdits /\ edits' = edits + 1
    /\ dest' \in {"edited", "none"} \ {dest}
    /\ UNCHANGED <<contract, archive, temp, meta, wrec, staging, backup, urec,
                   exec, result, published, crashes>>

Begins == \/ BeginCommitted \/ BeginRefused \/ BeginReceipt
          \/ BeginTemp \/ BeginMetadata \/ BeginResumed
Finishes == FinishMarks \/ FinishReplaces \/ FinishCompletes
Unpacks == \/ UnpackReceipt \/ UnpackRefused \/ Extracts \/ MovesAway
           \/ MarksPublishing \/ Publishes \/ UnpackCleans
AbandonsWrite == \/ NoWriteToAbandon \/ MarksTemp \/ DropsTemp
                 \/ KeepsCommit \/ SettlesCommit \/ WriteStays
AbandonsUnpack == \/ NoUnpackToAbandon \/ Decides \/ RollsBack
                  \/ ConfirmsCommit \/ Forgets

\* A step of the command that runs.
ExecutorStep == \/ Begins \/ Receives \/ Finishes \/ Unpacks \/ Releases
                \/ AbandonsWrite \/ AbandonsUnpack
=============================================================================
