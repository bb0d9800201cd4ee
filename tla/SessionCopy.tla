---------------------------- MODULE SessionCopy -----------------------------
(***************************************************************************)
(* A copy between executors over the route that Control retains: Control   *)
(* holds the exported payload and a checkpoint, and drives the import at   *)
(* the destination executor by calls that may be lost, answered too late,  *)
(* or interrupted by a crash of either side.  A command that was offered   *)
(* runs even if Control no longer waits for it; commands of one transfer   *)
(* run in the order of their offers.  When the copy has ended the          *)
(* checkpoint becomes a tombstone until the executor has confirmed that    *)
(* nothing private is left.                                                *)
(***************************************************************************)
EXTENDS TransferImport

CONSTANTS MaxLost,     \* bound: calls whose answer Control does not get
          MaxRetries   \* bound: retries of a managed copy

VARIABLES
    managed,   \* the copy is a managed job (else it runs in the foreground)
    ckpt,      \* Control's durable checkpoint
    payload,   \* the exported payload is retained
    job,       \* "running", "failed", "succeeded" or "deleted"
    pc,        \* what the attempt does next
    waiting,   \* Control awaits the last command it offered
    queue,     \* commands offered and not started
    lost,      \* calls without an answer so far
    retries    \* retries so far

control == <<managed, ckpt, payload, job, pc, waiting, lost, retries>>
copyvars == <<tvars, control, queue>>

NoCheckpoint == [step |-> "none", released |-> FALSE, abandoning |-> FALSE]
AtStep(step) == [ckpt EXCEPT !.step = step]

CopyInit ==
    /\ TransferInit /\ managed \in BOOLEAN
    /\ ckpt = NoCheckpoint /\ payload = FALSE
    /\ job = "running" /\ pc = "start" /\ waiting = FALSE
    /\ queue = <<>> /\ lost = 0 /\ retries = 0

\* The command of each call the attempt makes, and of the abandonment.
Command == [begin |-> "begin", download |-> "download", finish |-> "finish",
            again |-> "begin", unpack |-> "unpack", reunpack |-> "unpack",
            release |-> "release", abandon |-> "abandon"]

-----------------------------------------------------------------------------
(* The attempt                                                               *)

AttemptEnds(how) == job' = how /\ pc' = "idle"

\* Exports (the payload and the first checkpoint are committed together), or
\* takes up the checkpoint of an earlier attempt.
AttemptStarts ==
    /\ job = "running" /\ pc = "start"
    /\ \/ /\ ckpt.step = "none"
          /\ \/ ckpt' = AtStep("exported") /\ payload' = TRUE /\ UNCHANGED <<job, pc>>
             \/ AttemptEnds("failed") /\ UNCHANGED <<ckpt, payload>>
       \/ /\ ckpt.step \in {"exported", "importing"}
          /\ ckpt' = AtStep("importing") /\ pc' = "begin" /\ UNCHANGED <<payload, job>>
       \/ /\ ckpt.step = "imported"
          /\ \/ pc' = "release" /\ UNCHANGED job
             \/ AttemptEnds("succeeded")
          /\ UNCHANGED <<ckpt, payload>>
    /\ UNCHANGED <<tvars, managed, waiting, queue, lost, retries>>

Calls ==
    /\ pc \in DOMAIN Command /\ ~waiting
    /\ queue' = Append(queue, Command[pc]) /\ waiting' = TRUE
    /\ UNCHANGED <<tvars, managed, ckpt, payload, job, pc, lost, retries>>

GoOn(step) == pc' = step /\ UNCHANGED <<ckpt, job>>
Written == GoOn(IF kind = "dir" THEN "unpack" ELSE "record")

\* What the attempt does with the answer of its call: a lost finish is settled
\* by beginning again, a lost unpack by unpacking again.
Outcome(r) ==
    /\ waiting /\ waiting' = FALSE
    /\ CASE pc = "begin" /\ r = "completed" -> Written
         [] pc = "begin" /\ r = "ok" -> GoOn("download")
         [] pc = "download" /\ r = "ok" -> GoOn("finish")
         [] pc = "finish" -> IF r = "ok" THEN Written ELSE GoOn("again")
         [] pc = "again" /\ r = "completed" -> Written
         [] pc \in {"unpack", "reunpack"} /\ r = "ok" -> GoOn("record")
         [] pc = "unpack" /\ r # "ok" -> GoOn("reunpack")
         [] pc = "release" ->
              /\ AttemptEnds("succeeded")
              /\ ckpt' = [ckpt EXCEPT !.released = (r = "ok")]
         [] pc = "abandon" ->
              /\ pc' = "idle" /\ UNCHANGED job
              /\ ckpt' = IF r = "ok" THEN NoCheckpoint ELSE ckpt
         [] OTHER -> AttemptEnds("failed") /\ UNCHANGED ckpt

Hears ==
    /\ exec = Idle /\ queue = <<>> /\ Outcome(result)
    /\ UNCHANGED <<tvars, managed, payload, queue, lost, retries>>

\* The call times out, its answer is lost, or the executor cannot be reached.
LosesAnswer ==
    /\ lost < MaxLost /\ lost' = lost + 1 /\ Outcome("error")
    /\ \/ UNCHANGED queue
       \/ queue # <<>> /\ queue' = SubSeq(queue, 1, Len(queue) - 1)
    /\ UNCHANGED <<tvars, managed, payload, retries>>

Records ==
    /\ pc = "record" /\ pc' = "release" /\ ckpt' = AtStep("imported")
    /\ UNCHANGED <<tvars, managed, payload, job, waiting, queue, lost, retries>>

-----------------------------------------------------------------------------
(* The job                                                                   *)

Cancel ==
    /\ job = "running" /\ lost < MaxLost /\ lost' = lost + 1
    /\ AttemptEnds("failed") /\ waiting' = FALSE
    /\ UNCHANGED <<tvars, managed, ckpt, payload, queue, retries>>

Retry ==
    /\ managed /\ job = "failed" /\ ~ckpt.abandoning
    /\ retries < MaxRetries /\ retries' = retries + 1
    /\ job' = "running" /\ pc' = "start"
    /\ UNCHANGED <<tvars, managed, ckpt, payload, waiting, queue, lost>>

Delete ==
    /\ managed /\ job = "failed" /\ job' = "deleted"
    /\ UNCHANGED <<tvars, managed, ckpt, payload, pc, waiting, queue, lost, retries>>

(* The abandonment                                                           *)

\* Nothing can use the checkpoint again.
Ended == IF managed THEN job \in {"succeeded", "deleted"} ELSE job # "running"

Abandon ==
    /\ Ended /\ ckpt.step # "none" /\ ~ckpt.abandoning
    /\ ckpt' = [ckpt EXCEPT !.abandoning = TRUE]
    /\ UNCHANGED <<tvars, managed, payload, job, pc, waiting, queue, lost, retries>>

Prune ==
    /\ payload /\ (ckpt.abandoning \/ ckpt.step = "none") /\ payload' = FALSE
    /\ UNCHANGED <<tvars, managed, ckpt, job, pc, waiting, queue, lost, retries>>

Reconcile ==
    /\ ckpt.abandoning /\ pc = "idle"
    /\ IF ckpt.step = "exported" \/ ckpt.released
       THEN ckpt' = NoCheckpoint /\ UNCHANGED pc
       ELSE pc' = "abandon" /\ UNCHANGED ckpt
    /\ UNCHANGED <<tvars, managed, payload, job, waiting, queue, lost, retries>>

-----------------------------------------------------------------------------
(* The executor and the crashes                                              *)

TakesCommand ==
    /\ queue # <<>> /\ Starts(Head(queue)) /\ queue' = Tail(queue)
    /\ UNCHANGED control

ExecutorActs == ExecutorStep /\ UNCHANGED <<control, queue>>

ExecutorCrash == Crash /\ queue' = <<>> /\ UNCHANGED control

\* Calls that the executor has not taken are gone with Control.
ControlCrash ==
    /\ lost < MaxLost /\ lost' = lost + 1
    /\ waiting' = FALSE /\ pc' = "idle"
    /\ job' = (IF job = "running" THEN "failed" ELSE job)
    /\ queue' \in {queue, <<>>}
    /\ UNCHANGED <<tvars, managed, ckpt, payload, retries>>

SomeoneEdits == UserEdits /\ UNCHANGED <<control, queue>>

ControlStep == \/ AttemptStarts \/ Calls \/ Hears \/ Records
               \/ Abandon \/ Prune \/ Reconcile

CopyNext == \/ ControlStep \/ LosesAnswer \/ Cancel \/ Retry \/ Delete
            \/ TakesCommand \/ ExecutorActs
            \/ ExecutorCrash \/ ControlCrash \/ SomeoneEdits

CopySpec == CopyInit /\ [][CopyNext]_copyvars

\* The executor's command loop, the attempt and the reconciliations that every
\* copy and every reconnection start are fair; faults and users are not.
CopyFairness == /\ WF_copyvars(TakesCommand) /\ WF_copyvars(ExecutorActs)
                /\ WF_copyvars(ControlStep)

FairCopySpec == CopySpec /\ CopyFairness

-----------------------------------------------------------------------------
(* Properties                                                                *)

\* The type invariant of the import and its copy.
CopyTypeOK ==
    /\ dest \in {"none", "old", "new", "edited"}
    /\ temp \in {"none", "partial", "full"} /\ staging \in {"none", "partial", "full"}
    /\ backup \in {"none", "old", "edited"}
    /\ wrec.status \in {"none", "receiving", "committing", "completed"}
    /\ urec.status \in {"none", "extracting", "prepared", "backup_moved",
                        "publishing", "completed"}
    /\ ckpt.step \in {"none", "exported", "importing", "imported"}
    /\ pc \in DOMAIN Command \cup {"start", "record", "idle"}

\* Until the new content is published whole, what was at the destination is
\* there or in the backup the unpack receipt will restore it from, whatever
\* calls were lost and wherever either side stopped.
OriginalIsSafe ==
    edits = 0 /\ original = "old" /\ published = 0 =>
        \/ dest = "old"
        \/ dest = "none" /\ backup = "old" /\ urec.existed
           /\ urec.status \in {"prepared", "backup_moved", "publishing"}

\* A retained payload: no attempt imports from a payload that is gone.
PayloadRetained == job = "running" /\ ckpt.step # "none" => payload

\* A copy is published once, however often it is begun, finished or unpacked
\* again, and reported as copied only when it was.
PublishedOnce ==
    /\ published <= 1
    /\ ckpt.step = "imported" \/ job = "succeeded" => published = 1

\* When Control has forgotten the copy the executor holds nothing private of
\* it, and what is at the destination is the original or the whole copy.  (A
\* backup or archive that a successful unpack could not remove is reported.)
ForgottenIsClean ==
    ckpt.step = "none" /\ job # "running" =>
        /\ temp = "none" /\ ~meta /\ staging = "none"
        /\ wrec = NoWrite /\ urec = NoUnpack
        /\ published = 0 => ~archive /\ backup = "none"
        /\ edits = 0 => dest = IF published = 1 THEN "new" ELSE original

CopyInv == /\ CopyTypeOK /\ OriginalIsSafe /\ PayloadRetained
           /\ PublishedOnce /\ ForgottenIsClean

\* The docstring of transfer_begin_write promises to create or to resume a
\* write: one that is receiving and may be committed can be begun again.
WriteCanBeResumed ==
    wrec.status = "receiving" /\ wrec.leaving = "none" /\ exec = Idle =>
        temp = "none" \/ meta

\* Once nothing can use the checkpoint, it is abandoned, confirmed by the
\* executor and forgotten, unless someone changed the destination meanwhile.
AbandonmentCompletes ==
    (Ended /\ ckpt.step # "none") ~> (ckpt.step = "none" \/ edits > 0)
=============================================================================
