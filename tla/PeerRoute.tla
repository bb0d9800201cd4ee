----------------------------- MODULE PeerRoute ------------------------------
(***************************************************************************)
(* A file copied directly between two executors.  The destination opens a  *)
(* one-use receiver for an uncommitted write, the source sends to it, and  *)
(* Control publishes only after it has recorded that it will; if anything  *)
(* fails before, the receiver is torn down and the copy goes through       *)
(* Control.  The receiver's lease can at any time be ended by its expiry,  *)
(* by a change of the session and by the end of its process, all under     *)
(* one lock; receiving and reading the state do not take it.               *)
(***************************************************************************)
EXTENDS Naturals, Sequences

CONSTANTS MaxFaults,  \* bound: faults, interruptions and outside changes
          MaxRetries  \* bound: retries of the copy job

ASSUME RetriesAssumption == MaxRetries \in Nat

VARIABLES
    pc, waiting,  \* Control's attempt: its next step, and whether it awaits the answer
    failedAt,     \* the step whose failure made it cancel the receiver
    ckpt,         \* the durable checkpoint: its route and the version to publish
    frozen,       \* the version this attempt has prepared
    resumed,      \* this attempt continues the checkpoint of an earlier one
    source,       \* the version at the source
    sender,       \* the send command at the source executor
    queue, exec,  \* the destination's commands: offered, and the one that runs
    result,       \* the result of the command that ended last
    lease,        \* the receiver
    receiver,     \* the task that receives
    expiry,       \* its timer: "off", "armed", or "locking" once it has fired
    holder,       \* who holds the manager's lock, and how far
    write,        \* the uncommitted bytes and their receipt
    dest,         \* the version at the destination, "none" before
    faults, retries,
    forfeited     \* history: received bytes were given up while Control meant to publish

control == <<pc, waiting, failedAt, ckpt, frozen, resumed>>
commands == <<queue, exec, result>>
manager == <<lease, receiver, expiry, holder>>
peervars == <<control, source, sender, commands, manager, write, dest, faults,
              retries, forfeited>>

NoLease == [id |-> 0, state |-> "none", version |-> "none"]
NoWrite == [status |-> "none", got |-> "none", version |-> "none", unclaimed |-> FALSE]
NoCall == [op |-> "idle", id |-> 0, version |-> "none"]
NoSend == [stage |-> "idle", to |-> 0, version |-> "none"]
Free == [who |-> "none", at |-> "none", keep |-> FALSE]

PeerInit ==
    /\ pc = "start" /\ waiting = FALSE /\ failedAt = "none"
    /\ ckpt = [route |-> "none", version |-> "none", imported |-> FALSE]
    /\ frozen = "none" /\ resumed = FALSE /\ source = "a" /\ sender = NoSend
    /\ queue = <<>> /\ exec = NoCall /\ result = "none"
    /\ lease = NoLease /\ receiver = "none" /\ expiry = "off" /\ holder = Free
    /\ write = NoWrite /\ dest = "none"
    /\ faults = 0 /\ retries = 0 /\ forfeited = FALSE

Fault == faults < MaxFaults /\ faults' = faults + 1

-----------------------------------------------------------------------------
(* Control: _copy_cross_executor and _copy_cross_executor_via_peer           *)

\* The command of each step that calls the destination.
Command == [prepare |-> "prepare", verify |-> "status", cancel |-> "cancel",
            undo |-> "cancel", begin |-> "begin", finish |-> "finish",
            again |-> "begin", release |-> "release", claim |-> "claim",
            relay |-> "relay"]

RestOfControl == UNCHANGED <<source, sender, manager, write, dest, retries, forfeited>>

\* A checkpoint of an earlier attempt decides the route and the version.
Starts ==
    /\ pc = "start" /\ resumed' = (ckpt.route # "none")
    /\ \/ /\ ckpt.route = "none" /\ pc' = "prepare" /\ frozen' = source
       \/ /\ ckpt.route # "none" /\ frozen' = ckpt.version
          /\ pc' = IF ckpt.imported THEN "release"
                   ELSE IF ckpt.route = "peer" THEN "begin" ELSE "relay"
    /\ UNCHANGED <<waiting, failedAt, ckpt, commands, faults>> /\ RestOfControl

Calls ==
    /\ pc \in DOMAIN Command /\ ~waiting
    /\ queue' = Append(queue, [op |-> Command[pc], id |-> retries + 1, version |-> frozen])
    /\ waiting' = TRUE
    /\ UNCHANGED <<pc, failedAt, ckpt, frozen, resumed, exec, result, faults>> /\ RestOfControl

Sends ==
    /\ pc = "send" /\ ~waiting /\ sender.stage = "idle" /\ waiting' = TRUE
    /\ sender' = [stage |-> "connecting", to |-> retries + 1, version |-> source]
    /\ UNCHANGED <<pc, failedAt, ckpt, frozen, resumed, source, commands, manager, write,
                   dest, faults, retries, forfeited>>

GoOn(step) == pc' = step /\ UNCHANGED <<failedAt, ckpt>>
Cancels == pc' = "cancel" /\ failedAt' = pc /\ UNCHANGED ckpt

\* An attempt that has opened a receiver, whichever retry it is, claims in its finally
\* what was received; one that continues a checkpoint has no such clause.
Claims == GoOn(IF ~resumed THEN "claim" ELSE IF ckpt.imported THEN "done" ELSE "failed")

\* Variant: the copy goes through Control although the receiver may still be open.
FallsBack_Unconfirmed(r) == r # "error"

\* Control falls back only when the receiver's end is confirmed, or when there
\* never was one.
FallsBack(r) == r = "yes" \/ (r = "no" /\ failedAt = "prepare")

Outcome(r) ==
    /\ waiting /\ waiting' = FALSE
    /\ \/ pc = "prepare" /\ IF r = "opened" THEN GoOn("send") ELSE Cancels
       \/ pc = "send" /\ IF r = "ok" THEN GoOn("verify") ELSE Cancels
       \/ pc = "verify" /\ IF r = "received" THEN GoOn("checkpoint") ELSE Cancels
       \/ /\ pc = "cancel"
          /\ IF FallsBack(r)
             THEN /\ ckpt' = [route |-> "relay", version |-> frozen, imported |-> FALSE]
                  /\ pc' = "relay" /\ UNCHANGED failedAt
             ELSE GoOn("failed")
       \/ pc = "undo" /\ GoOn("failed")
       \/ /\ pc = "begin" /\ r = "completed" /\ GoOn("record")
       \/ /\ pc = "begin" /\ r = "ok" /\ GoOn("finish")
       \/ /\ pc = "begin" /\ r \notin {"ok", "completed"} /\ Claims
       \/ pc = "finish" /\ GoOn(IF r = "ok" THEN "record" ELSE "again")
       \/ pc = "again" /\ IF r = "completed" THEN GoOn("record") ELSE Claims
       \/ pc = "release" /\ IF ckpt.route = "peer" THEN Claims ELSE GoOn("done")
       \/ pc = "claim" /\ GoOn(IF ckpt.imported THEN "done" ELSE "failed")
       \/ pc = "relay" /\ GoOn(IF r = "ok" THEN "record" ELSE "failed")
    /\ UNCHANGED <<frozen, resumed>>

Hears ==
    /\ pc \in DOMAIN Command /\ exec = NoCall /\ queue = <<>> /\ Outcome(result)
    /\ UNCHANGED <<commands, faults>> /\ RestOfControl

HearsSender ==
    /\ pc = "send" /\ sender.stage \in {"ok", "error"} /\ Outcome(sender.stage)
    /\ sender' = NoSend
    /\ UNCHANGED <<source, commands, manager, write, dest, faults, retries, forfeited>>

\* A call that ends without an answer was offered all the same, or is withdrawn.
Abandons ==
    \/ UNCHANGED queue
    \/ waiting /\ queue # <<>> /\ queue' = SubSeq(queue, 1, Len(queue) - 1)

LosesAnswer ==
    /\ Fault /\ Outcome("lost") /\ Abandons /\ UNCHANGED <<exec, result>> /\ RestOfControl

\* begin_peer_import, before the first call that can publish; and the end.
Records ==
    /\ \/ /\ pc = "checkpoint" /\ pc' = "begin"
          /\ ckpt' = [route |-> "peer", version |-> frozen, imported |-> FALSE]
       \/ pc = "record" /\ pc' = "release" /\ ckpt' = [ckpt EXCEPT !.imported = TRUE]
    /\ UNCHANGED <<waiting, failedAt, frozen, resumed, commands, faults>> /\ RestOfControl

\* The checkpoint cannot be written: before the first, nothing is kept of the receiver.
RecordFails ==
    /\ Fault
    /\ \/ pc = "checkpoint" /\ GoOn("undo")
       \/ pc = "record" /\ IF ckpt.route = "peer" THEN Claims ELSE GoOn("failed")
    /\ UNCHANGED <<waiting, frozen, resumed, commands>> /\ RestOfControl

\* The attempt is cancelled: its finally still cancels or claims the receiver.
Interrupted ==
    /\ Fault /\ waiting' = FALSE
    /\ \/ pc \in {"prepare", "send", "verify"} /\ GoOn("undo")
       \/ pc \in {"begin", "finish", "again"} /\ Claims
       \/ pc \in {"cancel", "undo", "relay", "claim"} /\ GoOn("failed")
    /\ Abandons /\ UNCHANGED <<frozen, resumed, exec, result>> /\ RestOfControl

\* Calls that the destination has not taken are gone with Control.
ControlCrash ==
    /\ Fault /\ pc \notin {"failed", "done"} /\ pc' = "failed" /\ waiting' = FALSE
    /\ queue' \in {queue, <<>>}
    /\ UNCHANGED <<failedAt, ckpt, frozen, resumed, exec, result>> /\ RestOfControl

Retry ==
    /\ pc = "failed" /\ retries < MaxRetries /\ retries' = retries + 1 /\ pc' = "start"
    /\ UNCHANGED <<waiting, failedAt, ckpt, frozen, resumed, source, sender, commands,
                   manager, write, dest, faults, forfeited>>

ControlStep == Starts \/ Calls \/ Sends \/ Hears \/ HearsSender \/ Records

-----------------------------------------------------------------------------
(* Teardown of a lease: _cancel_locked.  Every caller holds the lock.        *)

Outside == UNCHANGED <<control, source, sender, dest, retries>>

\* transfer_abort_write leaves what is committed.
Aborted(w) == IF w.status = "receiving" THEN NoWrite ELSE w
Claimed(w) == IF w.status = "receiving" THEN [w EXCEPT !.unclaimed = FALSE] ELSE w

\* Bytes that Control has recorded as its own and not published yet.
Promised == ckpt.route = "peer" /\ ~ckpt.imported
Forfeits(w) == (forfeited \/ (Promised /\ write.got = "full" /\ w = NoWrite))

\* Only a whole payload is worth keeping.
Keepable == lease.state \in {"received", "cancelling"}

Teardown(who, keep) ==
    /\ holder' = [who |-> who, keep |-> keep,
                  at |-> IF receiver = "none" THEN "disk" ELSE "join"]
    /\ lease' = [lease EXCEPT !.state = "cancelling"]
    /\ receiver' = IF receiver = "none" THEN "none" ELSE "aborting"
    /\ expiry' = "off"

Locked(who, keep) == holder = Free /\ lease.id # 0 /\ Teardown(who, keep)

\* The receiving task has ended.
Joins ==
    /\ holder.at = "join" /\ receiver = "none" /\ holder' = [holder EXCEPT !.at = "disk"]
    /\ UNCHANGED <<lease, receiver, expiry, write, commands, faults, forfeited>> /\ Outside

Replies(r) == exec' = NoCall /\ result' = r /\ UNCHANGED queue
Done(r) == IF holder.who \in {"cancel", "claim"} THEN Replies(r) ELSE UNCHANGED commands

\* The receipt is kept or dropped, then the lease goes; if the disk fails, the
\* lease stays to be cancelled again.
Settles ==
    /\ holder.at = "disk" /\ holder.who # "prepare" /\ holder' = Free
    /\ \/ /\ lease' = NoLease /\ Done("yes") /\ UNCHANGED faults
          /\ write' = IF ~holder.keep THEN Aborted(write)
                      ELSE IF holder.who = "claim" THEN Claimed(write) ELSE write
       \/ /\ Fault /\ ~(holder.keep /\ holder.who = "expiry")
          /\ lease' = [lease EXCEPT !.state = "cleanup_failed"] /\ Done("error")
          /\ UNCHANGED write
    /\ forfeited' = IF holder.who = "session" THEN Forfeits(Aborted(write)) ELSE forfeited
    /\ UNCHANGED <<receiver, expiry>> /\ Outside

-----------------------------------------------------------------------------
(* Commands at the destination, in the order of their offers                 *)

Takes ==
    /\ exec = NoCall /\ queue # <<>> /\ exec' = Head(queue) /\ queue' = Tail(queue)
    /\ UNCHANGED <<result, manager, write, faults, forfeited>> /\ Outside

Unmoved == UNCHANGED <<manager, faults, forfeited>> /\ Outside

\* prepare: a new lease over a new write.
PrepareRefused ==
    /\ exec.op = "prepare" /\ holder = Free /\ Replies("error")
    /\ \/ (lease.id # 0 \/ write.status # "none") /\ UNCHANGED faults
       \/ Fault
    /\ UNCHANGED <<write, manager, forfeited>> /\ Outside

PrepareBegins ==
    /\ exec.op = "prepare" /\ holder = Free /\ lease.id = 0 /\ write.status = "none"
    /\ holder' = [Free EXCEPT !.who = "prepare", !.at = "serve"]
    /\ write' = [NoWrite EXCEPT !.status = "receiving"]
    /\ UNCHANGED <<lease, receiver, expiry, commands, faults, forfeited>> /\ Outside

\* The receiver listens, or the write is aborted again.
PrepareServes ==
    /\ holder.who = "prepare" /\ holder' = Free /\ UNCHANGED <<receiver, forfeited>>
    /\ \/ /\ lease' = [id |-> exec.id, state |-> "pending", version |-> exec.version]
          /\ expiry' = "armed" /\ Replies("opened") /\ UNCHANGED <<write, faults>>
       \/ /\ Fault /\ Replies("error") /\ UNCHANGED expiry
          /\ \/ write' = Aborted(write) /\ UNCHANGED lease
             \/ /\ lease' = [id |-> exec.id, state |-> "cleanup_failed",
                             version |-> exec.version]
                /\ UNCHANGED write
    /\ Outside

StatusReplies == exec.op = "status" /\ Replies(lease.state) /\ UNCHANGED write /\ Unmoved

CancelBegins ==
    /\ \/ exec.op = "cancel" /\ Locked("cancel", FALSE)
       \/ exec.op = "claim" /\ Locked("claim", Keepable)
    /\ UNCHANGED <<commands, write, faults, forfeited>> /\ Outside

\* Without a lease a claim still takes the deadline from the receipt.
CancelFindsNone ==
    /\ exec.op \in {"cancel", "claim"} /\ holder = Free /\ lease.id = 0 /\ Replies("no")
    /\ write' = IF exec.op = "claim" THEN Claimed(write) ELSE write
    /\ Unmoved

\* transfer_begin_write, transfer_finish_write, transfer_release_receipts: they
\* take the locks of the files and not the manager's.
BeginWrite ==
    /\ exec.op = "begin" /\ Unmoved
    /\ IF write.status = "committed" THEN Replies("completed") /\ UNCHANGED write
       ELSE /\ Replies("ok")
            /\ write' = IF write.status = "none" THEN [NoWrite EXCEPT !.status = "receiving"]
                        ELSE write

FinishWrite(version) ==
    IF write.status = "receiving" /\ write.got = "full" /\ write.version = version
    THEN /\ write' = [write EXCEPT !.status = "committed"] /\ dest' = version /\ Replies("ok")
    ELSE UNCHANGED <<write, dest>> /\ Replies("error")

Publishes ==
    /\ exec.op = "finish" /\ FinishWrite(exec.version)
    /\ UNCHANGED <<control, source, sender, manager, faults, retries, forfeited>>

ReleaseReceipts ==
    /\ exec.op = "release" /\ Replies("ok") /\ write' = NoWrite /\ Unmoved

\* The whole import over Control's route: it resumes what it finds.
Relays ==
    /\ exec.op = "relay"
    /\ LET found == IF write.got = "none" THEN exec.version ELSE write.version
           whole == IF write.got = "full" \/ found = exec.version THEN found ELSE "mixed"
       IN \/ write.status = "committed" /\ Replies("ok") /\ UNCHANGED <<write, dest>>
          \/ /\ write.status # "committed" /\ whole = exec.version
             /\ write' = [write EXCEPT !.status = "committed", !.got = "full", !.version = exec.version]
             /\ dest' = exec.version /\ Replies("ok")
          \/ /\ write.status # "committed" /\ whole # exec.version
             /\ write' = [write EXCEPT !.got = "full", !.version = whole]
             /\ Replies("error") /\ UNCHANGED dest
    /\ UNCHANGED <<control, source, sender, manager, faults, retries, forfeited>>

DestinationStep == \/ Takes \/ PrepareRefused \/ PrepareBegins \/ PrepareServes
               \/ StatusReplies \/ CancelBegins \/ CancelFindsNone
               \/ BeginWrite \/ Publishes \/ ReleaseReceipts \/ Relays

-----------------------------------------------------------------------------
(* The bytes                                                                 *)

RestOfReceiving ==
    UNCHANGED <<control, source, commands, expiry, holder, dest, retries>>

\* The first connection with the token claims the receiver and closes its listener.
Connects ==
    /\ sender.stage = "connecting" /\ sender.to = lease.id /\ lease.state = "pending"
    /\ sender' = [sender EXCEPT !.stage = "sending"]
    /\ lease' = [lease EXCEPT !.state = "receiving"] /\ receiver' = "reading"
    /\ UNCHANGED <<write, faults, forfeited>> /\ RestOfReceiving

Receives ==
    /\ receiver = "reading" /\ sender.stage = "sending" /\ write.got # "full"
    /\ write' = [write EXCEPT !.got = IF @ = "none" THEN "part" ELSE "full",
                              !.version = sender.version]
    /\ UNCHANGED <<sender, lease, receiver, faults, forfeited>> /\ RestOfReceiving

\* The digest is right: the deadline is written before the sender can see OK.
Marks ==
    /\ receiver = "reading" /\ write.got = "full" /\ write.version = lease.version
    /\ write' = [write EXCEPT !.unclaimed = TRUE] /\ receiver' = "answering"
    /\ UNCHANGED <<sender, lease, faults, forfeited>> /\ RestOfReceiving

\* OK is on its way before the lease says so.
Answers ==
    /\ \/ /\ receiver = "answering" /\ receiver' = "draining" /\ UNCHANGED lease
          /\ sender' = IF sender.stage = "sending" THEN [sender EXCEPT !.stage = "ok"]
                       ELSE sender
       \/ /\ receiver = "draining" /\ receiver' = "none" /\ UNCHANGED sender
          /\ lease' = [lease EXCEPT !.state = "received"]
    /\ UNCHANGED <<write, faults, forfeited>> /\ RestOfReceiving

\* The connection ends, is idle too long, or the digest is wrong.
ReceiveFails ==
    /\ \/ receiver = "reading" /\ write.got = "full" /\ write.version # lease.version
          /\ UNCHANGED faults
       \/ receiver = "reading" /\ sender.stage # "sending" /\ UNCHANGED faults
       \/ receiver \in {"reading", "answering", "draining"} /\ Fault
    /\ receiver' = "aborting" /\ lease' = [lease EXCEPT !.state = "failed"]
    /\ UNCHANGED <<sender, write, forfeited>> /\ RestOfReceiving

ReceiveAborts ==
    /\ receiver = "aborting" /\ receiver' = "none"
    /\ \/ /\ write' = Aborted(write) /\ lease' = [lease EXCEPT !.state = "failed"]
          /\ UNCHANGED faults
       \/ /\ Fault /\ lease' = [lease EXCEPT !.state = "cleanup_failed"] /\ UNCHANGED write
    /\ UNCHANGED <<sender, forfeited>> /\ RestOfReceiving

\* No listener, a broken connection, a source that has changed, or a stop.
SenderFails ==
    /\ \/ sender.stage = "connecting" /\ (sender.to # lease.id \/ lease.state # "pending")
          /\ UNCHANGED faults
       \/ sender.stage = "sending" /\ receiver \notin {"reading", "answering"}
          /\ UNCHANGED faults
       \/ sender.stage \in {"connecting", "sending"} /\ Fault
    /\ sender' = [sender EXCEPT !.stage = "error"]
    /\ UNCHANGED <<control, source, commands, manager, write, dest, retries, forfeited>>

\* The result of a send that nobody waits for is dropped.
SenderIgnored ==
    /\ sender.stage \in {"ok", "error"} /\ ~(pc = "send" /\ waiting) /\ sender' = NoSend
    /\ UNCHANGED <<control, source, commands, manager, write, dest, faults, retries, forfeited>>

ReceiverStep == \/ Connects \/ Receives \/ Marks \/ Answers \/ ReceiveFails
                \/ ReceiveAborts \/ SenderFails \/ SenderIgnored

-----------------------------------------------------------------------------
(* The other ends of a lease                                                 *)

Aside == UNCHANGED <<control, source, sender, dest, retries>>

\* Variant: the timer is for the connection only.
Expires_Pending ==
    /\ expiry = "armed" /\ UNCHANGED <<lease, receiver, holder, commands, write, faults, forfeited>>
    /\ expiry' = IF lease.state = "pending" THEN "locking" ELSE "off"
    /\ Aside

\* _expire: it waits while bytes arrive, then for the lock.
Expires ==
    /\ expiry = "armed" /\ lease.state # "receiving" /\ expiry' = "locking"
    /\ UNCHANGED <<lease, receiver, holder, commands, write, faults, forfeited>> /\ Aside

ExpiryLocks ==
    /\ expiry = "locking" /\ Locked("expiry", Keepable)
    /\ UNCHANGED <<commands, write, faults, forfeited>> /\ Aside

\* The session is changed or terminated; a copy that runs has its lock.
SessionChanges ==
    /\ Fault /\ pc \in {"failed", "done"} /\ Locked("session", FALSE)
    /\ UNCHANGED <<commands, write, forfeited>> /\ Aside

\* An orderly stop cancels the commands, waits for the lock and ends the lease;
\* only one that is received is kept.
Stops ==
    /\ Fault /\ holder.who # "expiry" /\ expiry' = "off" /\ exec' = NoCall /\ result' = "error" /\ queue' = <<>>
    /\ LET kept == lease.id = 0 \/ lease.state = "received" \/ write.status = "committed"
       IN write' = IF kept THEN write ELSE Aborted(write)
    /\ lease' = NoLease /\ receiver' = "none" /\ holder' = Free
    /\ forfeited' = IF lease.state = "received" THEN forfeited ELSE Forfeits(write')
    /\ Aside

\* The process is killed: what is on disk stays.
Killed ==
    /\ Fault /\ lease' = NoLease /\ receiver' = "none" /\ expiry' = "off" /\ holder' = Free
    /\ exec' = NoCall /\ result' = "error" /\ queue' = <<>>
    /\ UNCHANGED <<write, forfeited>> /\ Aside

\* _prune_transfer_scratch: an unclaimed receipt past its grace, which is longer
\* than any attempt.
Prunes ==
    /\ Fault /\ pc \in {"failed", "done"} /\ write.status = "receiving" /\ write.unclaimed /\ lease.id = 0
    /\ write' = NoWrite /\ forfeited' = Forfeits(write')
    /\ UNCHANGED <<commands, manager>> /\ Aside

SourceChanges ==
    /\ Fault /\ source = "a" /\ source' = "b"
    /\ UNCHANGED <<control, sender, commands, manager, write, dest, retries, forfeited>>

PeerNext ==
    \/ ControlStep \/ RecordFails \/ LosesAnswer \/ Interrupted \/ ControlCrash \/ Retry
    \/ DestinationStep \/ ReceiverStep \/ Joins \/ Settles
    \/ Expires \/ ExpiryLocks \/ SessionChanges \/ Stops \/ Killed \/ Prunes
    \/ SourceChanges

PeerSpec == PeerInit /\ [][PeerNext]_peervars

-----------------------------------------------------------------------------
(* Properties                                                                *)

Versions == {"none", "a", "b", "mixed"}

Call == [op: {"idle"} \cup {Command[step] : step \in DOMAIN Command},
         id: 0..MaxRetries + 1, version: Versions]

PeerTypeOK ==
    /\ pc \in DOMAIN Command \cup {"start", "send", "checkpoint", "record", "failed", "done"}
    /\ waiting \in BOOLEAN /\ resumed \in BOOLEAN /\ ckpt.route \in {"none", "peer", "relay"}
    /\ sender.stage \in {"idle", "connecting", "sending", "ok", "error"}
    /\ exec \in Call /\ \A i \in DOMAIN queue : queue[i] \in Call
    /\ lease.state \in {"none", "pending", "receiving", "received", "failed", "cancelling",
                        "cleanup_failed"}
    /\ receiver \in {"none", "reading", "answering", "draining", "aborting"}
    /\ expiry \in {"off", "armed", "locking"}
    /\ write.status \in {"none", "receiving", "committed"} /\ dest \in Versions

\* The copy goes through Control only when no receiver of this copy is left, nor a
\* command that could open one, that would write to the same transfer.
RoutesExclude ==
    pc = "relay" => /\ lease.id = 0 /\ receiver = "none" /\ exec.op # "prepare"
                    /\ \A i \in DOMAIN queue : queue[i].op # "prepare"

\* Nothing is published that Control has not recorded, and nothing but the version
\* it has recorded, whatever an earlier attempt or another sender left.
PublishedIsRecorded == dest # "none" => dest = ckpt.version

\* Bytes that Control has recorded stay until they are published, however the lease
\* ends: a claim, the expiry, a kill, and a stop that finds them received.
PromiseIsKept == Promised /\ ~forfeited => write.got = "full"

\* What a lease calls received is whole and of the version it was opened for; and
\* the deadline of what nobody may claim is written before the sender hears OK.
ReceivedIsWhole ==
    /\ lease.state = "received" /\ write.status = "receiving" =>
         write.got = "full" /\ write.version = lease.version
    /\ sender.stage = "ok" /\ sender.to = retries + 1 /\ ckpt.route = "none" =>
         (write.status = "receiving" => write.unclaimed)

PeerInv ==
    PeerTypeOK /\ RoutesExclude /\ PublishedIsRecorded /\ PromiseIsKept /\ ReceivedIsWhole

\* Whatever Control does, a lease ends, or says that its bytes could not be removed;
\* it never holds a place for ever.
LeaseEnds == lease.id # 0 ~> lease.id = 0 \/ lease.state = "cleanup_failed"
=============================================================================
