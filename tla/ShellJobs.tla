----------------------------- MODULE ShellJobs ------------------------------
(***************************************************************************)
(* One shell-backed job of an executor session                             *)
(* (src/src/workgate/executor/jobs/shell.py): its durable row, the         *)
(* terminal sessions its attempts run in (executor/shell.py), the receipts *)
(* their runners leave (executor/jobs/runner.py) and the session's durable *)
(* list of its shells (executor/tool_session/store.py).                    *)
(*                                                                         *)
(* Every operation holds the session's lifecycle lock over its awaits, so  *)
(* one is under way at a time (op); the terminal server and the runners go *)
(* on by themselves, and survive a crash of the executor.  A transaction   *)
(* of the job store is one step, a request to the terminal server another. *)
(* Each attempt has a terminal session of its own name, here its number.   *)
(***************************************************************************)
EXTENDS Naturals, FiniteSets

CONSTANT MaxShellAttempts  \* bound on the attempts explored

ASSUME MaxShellAttemptsAssumption == MaxShellAttempts \in Nat \ {0}

VARIABLES
  owner,       \* is there a record of the session?
  job,         \* the row; shell and log name the attempts its paths belong to
  shell,       \* per attempt: "none", "working", "done" (receipt written) or "gone"
  receipt,     \* per attempt: the status file, "none", "ok" or "bad"
  reserved,    \* persistent_shell_ids of the session
  op,          \* the operation under way, and what it saw of the terminal server
  unconfirmed  \* history: attempts that failed to start and may run nevertheless

shellvars == <<owner, job, shell, receipt, reserved, op, unconfirmed>>

Attempts == 1..MaxShellAttempts
Live == {n \in Attempts : shell[n] \in {"working", "done"}}

NoOp == [kind |-> "none", at |-> "none", attempt |-> 0, known |-> FALSE, live |-> {},
         ending |-> FALSE, cancelled |-> FALSE]

ShellInit ==
  /\ owner = TRUE
  /\ job = [status |-> "none", attempt |-> 0, shell |-> 0, log |-> 0, pending |-> 0,
            paths |-> FALSE]
  /\ shell = [n \in Attempts |-> "none"]
  /\ receipt = [n \in Attempts |-> "none"]
  /\ reserved = {}
  /\ op = NoOp
  /\ unconfirmed = {}

InTransition == {"starting", "stopping", "retrying"}
ConfirmedTerminal == {"succeeded", "failed", "stopped"}
Tracked == job.status \notin {"none", "pruned"}

-----------------------------------------------------------------------------
(* Reconciliation of a row with its receipt and an observed inventory *)

\* The row of a pending retry as the attempt it has become.
Adopted == [job EXCEPT !.attempt = job.pending, !.shell = job.pending,
                       !.log = IF job.paths THEN job.pending ELSE job.log,
                       !.pending = 0, !.paths = FALSE]

\* What an interrupted or unnoticed end is taken for once the shell is absent.
WhenAbsent(status) == IF status \in {"starting", "retrying"} THEN "failed"
                      ELSE IF status = "stopping" THEN "stopped" ELSE "lost"

\* Variant: an interrupted retry is left to the next retry.
Reconciled_KeepsRetry ==
  LET end == IF job.log = 0 THEN "none" ELSE receipt[job.log]
  IN IF job.status \notin {"starting", "stopping", "running", "lost"} THEN job
     ELSE IF end # "none"
          THEN [job EXCEPT !.status = IF end = "ok" THEN "succeeded" ELSE "failed"]
     ELSE IF ~op.known THEN job
     ELSE [job EXCEPT !.status = IF job.shell \in op.live THEN "running"
                                 ELSE WhenAbsent(job.status)]

\* reconcile_job: a receipt decides, then the inventory, and an unknown one
\* decides nothing.  The inventory is older than the receipts that are read.
Reconciled ==
  LET about == IF job.status = "retrying" THEN Adopted ELSE job
      end   == IF about.log = 0 \/ (job.status = "retrying" /\ ~job.paths)
               THEN "none" ELSE receipt[about.log]
  IN IF job.status \notin InTransition \cup {"running", "lost"} THEN job
     ELSE IF end # "none"
          THEN [about EXCEPT !.status = IF end = "ok" THEN "succeeded" ELSE "failed"]
     ELSE IF ~op.known THEN job
     ELSE [about EXCEPT !.status = IF about.shell \in op.live THEN "running"
                                   ELSE WhenAbsent(job.status)]

-----------------------------------------------------------------------------
(* The terminal server, as an operation meets it *)

\* release_persistent_shell and release_session_persistent_shell
Released(n) == reserved' = reserved \ {n}

\* reconcile_persistent_shells discards the reservations of shells that are gone.
Retained(live) == reserved' = reserved \cap live

\* authoritative_persistent_shell_ids_execute: the inventory, which also drops
\* reservations of shells that are gone, except those to be kept.
Observes(next, kept) ==
  /\ op' = [op EXCEPT !.at = next, !.known = TRUE, !.live = Live]
  /\ Retained(Live \cup kept)

\* The inventory is unavailable, or not authoritative.
ObservesNothing(next) ==
  /\ op' = [op EXCEPT !.at = next, !.known = FALSE, !.live = {}]
  /\ UNCHANGED reserved

\* kill-session succeeds.
Killed(n) ==
  /\ n \in Live
  /\ shell' = [shell EXCEPT ![n] = "gone"]

\* kill-session fails, or its answer is not awaited, with or without effect.
NotKilled(n) == UNCHANGED shell \/ Killed(n)

\* remove_attempt_paths
WithoutFiles(n) == [receipt EXCEPT ![n] = "none"]

Ends == op' = NoOp

-----------------------------------------------------------------------------
(* Operations begin *)

\* list, tail and reconcile ("look"), start, retry, stop and the termination of the
\* session ("end"), admitted by the session's lock.
Ask(kind) ==
  /\ op = NoOp
  /\ kind = "start" => owner /\ job.status = "none"
  /\ kind = "retry" => owner /\ Tracked
  /\ kind = "stop" => Tracked
  /\ kind = "end" => owner
  /\ op' = [NoOp EXCEPT !.kind = kind, !.at = "asked"]
  /\ UNCHANGED <<owner, job, shell, receipt, reserved, unconfirmed>>

LookUp ==
  /\ op.at = "asked"
  /\ Observes("looked", {}) \/ ObservesNothing("looked")
  /\ UNCHANGED <<owner, job, shell, receipt, unconfirmed>>

\* list_shell_jobs_unlocked, tail_shell_job_unlocked, reconcile_shell_jobs_execute
CommitLook ==
  /\ op.kind = "look" /\ op.at = "looked"
  /\ job' = Reconciled
  /\ Ends
  /\ UNCHANGED <<owner, shell, receipt, reserved, unconfirmed>>

-----------------------------------------------------------------------------
(* Start and retry: a row, a shell, the row again *)

\* start_shell_job_unlocked: the row is saved before its shell exists.
StartCommits ==
  /\ op.kind = "start" /\ op.at = "looked"
  /\ job' = [status |-> "starting", attempt |-> 1, shell |-> 1, log |-> 1, pending |-> 0,
             paths |-> FALSE]
  /\ op' = [op EXCEPT !.at = "reserving", !.attempt = 1]
  /\ UNCHANGED <<owner, shell, receipt, reserved, unconfirmed>>

MayRetry ==
  /\ Reconciled.status \notin InTransition \cup {"running"}
  /\ op.known /\ Reconciled.shell \notin op.live

\* retry_shell_job_unlocked refuses while the last attempt may run; nothing is saved.
RefuseRetry ==
  /\ op.kind = "retry" /\ op.at = "looked"
  /\ ~Tracked \/ ~MayRetry
  /\ Ends
  /\ UNCHANGED <<owner, job, shell, receipt, reserved, unconfirmed>>

CommitRetry ==
  /\ op.kind = "retry" /\ op.at = "looked"
  /\ Tracked /\ MayRetry
  /\ Reconciled.attempt < MaxShellAttempts
  /\ job' = [Reconciled EXCEPT !.status = "retrying", !.pending = Reconciled.attempt + 1]
  /\ op' = [op EXCEPT !.at = "preparing", !.attempt = Reconciled.attempt + 1]
  /\ UNCHANGED <<owner, shell, receipt, reserved, unconfirmed>>

\* _prepare_attempt removes what an attempt of that number left, and the row is
\* told the new paths, or the transaction fails.
RetryPrepares ==
  /\ op.at = "preparing"
  /\ receipt' = WithoutFiles(op.attempt)
  /\ \/ job' = [job EXCEPT !.paths = TRUE] /\ op' = [op EXCEPT !.at = "reserving"]
     \/ op' = [op EXCEPT !.at = "failed"] /\ UNCHANGED job
  /\ UNCHANGED <<owner, shell, reserved, unconfirmed>>

\* start_persistent_shell_execute: the session owns the shell before it exists.
Reserve ==
  /\ op.at = "reserving"
  /\ reserved' = reserved \cup {op.attempt}
  /\ op' = [op EXCEPT !.at = "counting"]
  /\ UNCHANGED <<owner, job, shell, receipt, unconfirmed>>

\* Variant: the shell that is being created is not preserved.
Count_Forgets ==
  /\ op.at = "counting"
  /\ Observes("creating", {})
  /\ UNCHANGED <<owner, job, shell, receipt, unconfirmed>>

\* _start_persistent_shell_locked counts the shells that exist.
Count ==
  /\ op.at = "counting"
  /\ Observes("creating", {op.attempt})
  /\ UNCHANGED <<owner, job, shell, receipt, unconfirmed>>

\* ... and refuses: the inventory is unknown, the limit is reached, the shell
\* program is missing, or the caller was cancelled.
CountRefuses ==
  /\ op.at = "counting"
  /\ Released(op.attempt)
  /\ Ends \/ op' = [op EXCEPT !.at = "failed"]
  /\ UNCHANGED <<owner, job, shell, receipt, unconfirmed>>

\* new-session succeeds, or does not answer or is not awaited, with or without effect.
Create ==
  /\ op.at = "creating"
  /\ \/ shell' = [shell EXCEPT ![op.attempt] = "working"]
     \/ UNCHANGED shell
  /\ \/ op' = [op EXCEPT !.at = "created"] /\ shell'[op.attempt] = "working"
     \/ \E c \in BOOLEAN : op' = [op EXCEPT !.at = "cleanup", !.cancelled = c]
  /\ UNCHANGED <<owner, job, receipt, reserved, unconfirmed>>

\* _cleanup_failed_tmux_start: confirmed if the session was killed or the server
\* has none; otherwise the reservation stays.
Cleanup ==
  /\ op.at = "cleanup"
  /\ \/ /\ Killed(op.attempt) \/ (Live = {} /\ UNCHANGED shell)
        /\ Released(op.attempt)
        /\ op' = IF op.cancelled THEN NoOp ELSE [op EXCEPT !.at = "failed"]
        /\ UNCHANGED unconfirmed
     \/ /\ NotKilled(op.attempt)
        /\ unconfirmed' = unconfirmed \cup {op.attempt}
        /\ op' = [op EXCEPT !.at = "failed"]
        /\ UNCHANGED reserved
  /\ UNCHANGED <<owner, job, receipt>>

\* The attempt failed to start: a retry's number is used up, its shell forgotten.
LaunchFails ==
  /\ op.at = "failed"
  /\ receipt' = WithoutFiles(op.attempt)
  /\ job' = IF op.kind = "retry"
            THEN [job EXCEPT !.status = "failed", !.attempt = job.pending, !.pending = 0,
                             !.paths = FALSE]
            ELSE [job EXCEPT !.status = "failed"]
  /\ Ends
  /\ UNCHANGED <<owner, shell, reserved, unconfirmed>>

\* The row is running; the files of other attempts go.
LaunchCommits ==
  /\ op.at = "created"
  /\ IF op.kind = "retry"
     THEN /\ job' = [Adopted EXCEPT !.status = "running"]
          /\ receipt' = [n \in Attempts |-> IF n = op.attempt THEN receipt[n] ELSE "none"]
     ELSE job' = [job EXCEPT !.status = "running"] /\ UNCHANGED receipt
  /\ Ends
  /\ UNCHANGED <<owner, shell, reserved, unconfirmed>>

\* The store is busy: the shell is killed if it can be, the row stays in transition.
LaunchIsUndone ==
  /\ op.at = "created"
  /\ \/ Killed(op.attempt) /\ Released(op.attempt)
     \/ NotKilled(op.attempt) /\ UNCHANGED reserved
  /\ receipt' = WithoutFiles(op.attempt)
  /\ Ends
  /\ UNCHANGED <<owner, job, unconfirmed>>

-----------------------------------------------------------------------------
(* Stop, and the termination of the session *)

\* stop_shell_job_unlocked: a lost job is stopped if its shell is absent, a running
\* one is to be killed, any other is answered as it is.
StopCommits ==
  LET r == Reconciled
      s == IF r.status # "lost" \/ ~op.known THEN r.status
           ELSE IF r.shell \in op.live THEN "running" ELSE "stopped"
  IN /\ op.kind = "stop" /\ op.at = "looked" /\ Tracked
     /\ job' = [r EXCEPT !.status = IF s = "running" THEN "stopping" ELSE s]
     /\ op' = IF s = "running" THEN [op EXCEPT !.at = "killing", !.attempt = r.shell]
              ELSE IF op.ending /\ s \in ConfirmedTerminal THEN [op EXCEPT !.at = "discover"]
              ELSE NoOp
     /\ UNCHANGED <<owner, shell, receipt, reserved, unconfirmed>>

StopKills ==
  /\ op.at = "killing"
  /\ \/ /\ Killed(op.attempt)
        /\ Released(op.attempt)
        /\ op' = [op EXCEPT !.at = "checked", !.known = TRUE, !.live = {}]
     \/ /\ NotKilled(op.attempt)
        /\ op' = [op EXCEPT !.at = "unsure"]
        /\ UNCHANGED reserved
  /\ UNCHANGED <<owner, job, receipt, unconfirmed>>

\* A kill that was not confirmed is checked against the inventory.
StopChecks ==
  /\ op.at = "unsure"
  /\ Observes("checked", {}) \/ ObservesNothing("checked")
  /\ UNCHANGED <<owner, job, shell, receipt, unconfirmed>>

StillThere == ~op.known \/ op.attempt \in op.live

StopSettles ==
  /\ op.at = "checked"
  /\ job' = [job EXCEPT !.status = IF StillThere THEN "running" ELSE "stopped"]
  /\ op' = IF op.ending /\ ~StillThere THEN [op EXCEPT !.at = "discover"] ELSE NoOp
  /\ UNCHANGED <<owner, shell, receipt, reserved, unconfirmed>>

\* ExecutorSessionService.terminate lists the jobs and stops the unfinished one.
EndLists ==
  /\ op.kind = "end" /\ op.at = "looked"
  /\ job' = Reconciled
  /\ op' = IF ~Tracked \/ Reconciled.status \in ConfirmedTerminal
           THEN [op EXCEPT !.at = "discover"]
           ELSE [op EXCEPT !.kind = "stop", !.at = "asked", !.ending = TRUE]
  /\ UNCHANGED <<owner, shell, receipt, reserved, unconfirmed>>

\* ShellService.stop_owned takes the shells the terminal server says the session owns.
EndDiscovers ==
  /\ op.at = "discover"
  /\ \/ /\ op' = [op EXCEPT !.at = "sweeping", !.live = Live]
        /\ reserved' = Live
     \/ Ends /\ UNCHANGED reserved
  /\ UNCHANGED <<owner, job, shell, receipt, unconfirmed>>

\* Each is looked for again, killed, and looked for once more if the kill failed.
EndKills(n) ==
  /\ op.at = "sweeping" /\ n \in op.live
  /\ \/ n \notin Live /\ reserved' = Live /\ UNCHANGED shell
     \/ Killed(n) /\ Released(n)
  /\ op' = [op EXCEPT !.live = op.live \ {n}]
  /\ UNCHANGED <<owner, job, receipt, unconfirmed>>

\* ... or the termination gives up and the record of the session stays.
EndGivesUp ==
  /\ op.at = "sweeping" /\ op.live # {}
  /\ \E n \in op.live : NotKilled(n)
  /\ Ends
  /\ UNCHANGED <<owner, job, receipt, reserved, unconfirmed>>

\* end_session
EndRemoves ==
  /\ op.at = "sweeping" /\ op.live = {}
  /\ owner' = FALSE /\ reserved' = {}
  /\ Ends
  /\ UNCHANGED <<job, shell, receipt, unconfirmed>>

-----------------------------------------------------------------------------
(* Failures and what goes on by itself *)

\* A transaction of the store fails, or finds the row pruned: the operation raises.
StoreFails ==
  /\ op.at \in {"looked", "checked", "failed"}
  /\ receipt' = IF op.at = "failed" THEN WithoutFiles(op.attempt) ELSE receipt
  /\ Ends
  /\ UNCHANGED <<owner, job, shell, reserved, unconfirmed>>

\* The executor stops, or the operation is cancelled at an await; what it had asked
\* of the terminal server may still happen.
Interrupted ==
  /\ op # NoOp
  /\ \/ UNCHANGED shell
     \/ op.at = "creating" /\ shell' = [shell EXCEPT ![op.attempt] = "working"]
     \/ op.at \in {"killing", "cleanup"} /\ Killed(op.attempt)
  /\ Ends
  /\ UNCHANGED <<owner, job, receipt, reserved, unconfirmed>>

\* prune_store drops finished rows, with their files, in any transaction.
Prune ==
  /\ job.status \in ConfirmedTerminal \cup {"lost"}
  /\ job' = [job EXCEPT !.status = "pruned", !.shell = 0, !.log = 0]
  /\ receipt' = [n \in Attempts |-> "none"]
  /\ UNCHANGED <<owner, shell, reserved, op, unconfirmed>>

\* The runner writes its receipt and ends its shell,
RunnerReports(n) ==
  /\ shell[n] = "working"
  /\ shell' = [shell EXCEPT ![n] = "done"]
  /\ \E r \in {"ok", "bad"} : receipt' = [receipt EXCEPT ![n] = r]
  /\ UNCHANGED <<owner, job, reserved, op, unconfirmed>>

\* or a shell ends before or after that.
ShellEnds(n) ==
  /\ Killed(n)
  /\ UNCHANGED <<owner, job, receipt, reserved, op, unconfirmed>>

\* ShellService.kill, for a shell that no job claims.
UserKills(n) ==
  /\ owner /\ n \notin {job.shell, job.pending}
  /\ Killed(n) /\ Released(n)
  /\ UNCHANGED <<owner, job, receipt, op, unconfirmed>>

\* One step of the operation under way.
OperationStep ==
  \/ LookUp \/ CommitLook
  \/ StartCommits \/ RefuseRetry \/ CommitRetry \/ RetryPrepares
  \/ Reserve \/ Count \/ CountRefuses \/ Create \/ Cleanup
  \/ LaunchFails \/ LaunchCommits \/ LaunchIsUndone
  \/ StopCommits \/ StopKills \/ StopChecks \/ StopSettles
  \/ EndLists \/ EndDiscovers \/ EndGivesUp \/ EndRemoves
  \/ \E n \in Attempts : EndKills(n)
  \/ StoreFails

ShellNext ==
  \/ \E kind \in {"look", "start", "retry", "stop", "end"} : Ask(kind)
  \/ OperationStep
  \/ Interrupted \/ Prune
  \/ \E n \in Attempts : RunnerReports(n) \/ ShellEnds(n) \/ UserKills(n)

ShellSpec == ShellInit /\ [][ShellNext]_shellvars

SightedLook == op.kind = "look" /\ LookUp /\ op'.known
SightedCommit == op.known /\ CommitLook

\* Operations go on: every request to the terminal server has a time limit.  Of the
\* looks that hellos and users keep taking, some find the server and the store.
ShellFairness ==
  /\ WF_shellvars(OperationStep)
  /\ SF_shellvars(Ask("look"))
  /\ SF_shellvars(SightedLook)
  /\ SF_shellvars(SightedCommit)

-----------------------------------------------------------------------------
(* Properties *)

ShellTypeOK ==
  /\ owner \in BOOLEAN
  /\ job \in [status : {"none", "pruned", "running", "lost"} \cup InTransition
                         \cup ConfirmedTerminal,
              attempt : 0..MaxShellAttempts, shell : 0..MaxShellAttempts,
              log : 0..MaxShellAttempts, pending : 0..MaxShellAttempts, paths : BOOLEAN]
  /\ shell \in [Attempts -> {"none", "working", "done", "gone"}]
  /\ receipt \in [Attempts -> {"none", "ok", "bad"}]
  /\ reserved \subseteq Attempts /\ unconfirmed \subseteq Attempts
  /\ op \in [kind : {"none", "look", "start", "retry", "stop", "end"},
             at : {"none", "asked", "looked", "preparing", "reserving", "counting",
                   "creating", "created", "cleanup", "failed", "killing", "unsure",
                   "checked", "discover", "sweeping"},
             attempt : 0..MaxShellAttempts, known : BOOLEAN, live : SUBSET Attempts,
             ending : BOOLEAN, cancelled : BOOLEAN]

Working == {n \in Attempts : shell[n] = "working"}

\* Two attempts of a job never work at the same time, whatever was interrupted or
\* lost between them; except one that a failed retry could not confirm dead, which the
\* row no longer names.
AttemptsExclude ==
  \A m, n \in Working : m # n => {m, n} \cap (unconfirmed \ {job.shell}) # {}

\* A job reported finished or lost has nothing at work: no end is recorded from an
\* inventory that was unknown, or older than the shell.
FinishedIsAtRest ==
  job.status \in ConfirmedTerminal \cup {"lost"} =>
    \A n \in Working : n \in unconfirmed

\* A job's end is its own runner's: no receipt of an earlier attempt ends a later one,
\* success is never invented, and a lost job has no receipt that was missed.
OutcomeIsItsOwn ==
  /\ job.status \in {"running", "stopping", "lost", "succeeded"} =>
       job.shell = job.attempt /\ job.log = job.attempt
  /\ job.status = "succeeded" => receipt[job.log] = "ok"
  /\ job.status = "lost" => receipt[job.log] = "none"

\* A live shell is durably the session's: neither an inventory, a rollback nor a crash
\* between creation and bookkeeping leaves one that termination would not look for, and
\* a session that is gone has none.
LiveIsOwned == IF owner THEN Live \subseteq reserved ELSE Live = {}

ShellJobsInv == /\ ShellTypeOK /\ AttemptsExclude /\ FinishedIsAtRest
                /\ OutcomeIsItsOwn /\ LiveIsOwned

\* A row that an interrupted operation left in transition, or whose shell has gone
\* unnoticed, is settled: by a later look at the latest.
Unsettled == \/ job.status \in InTransition
             \/ job.status = "running" /\ shell[job.shell] = "gone"
ShellJobSettles == Unsettled ~> ~Unsettled
=============================================================================
