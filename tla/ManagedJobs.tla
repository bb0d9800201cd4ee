---------------------------- MODULE ManagedJobs ----------------------------
(***************************************************************************)
(* One control-managed job (src/src/workgate/jobs/managed.py) with the     *)
(* journal of deferred updates (jobs/recovery.py), the reconciliation of   *)
(* its row (jobs/status.py, jobs/reconciliation.py) and its liveness lease *)
(* (utils/runtime_identity.py), through stops, retries, crashes and        *)
(* contention for the job store.                                           *)
(*                                                                         *)
(* A store transaction is one action: it replays the journal, applies its  *)
(* change and saves.  Coroutines of the event loop interleave at their     *)
(* awaits only, so a start or a retry holds the loop from its first        *)
(* transaction to its last; the threads that write terminal states, and    *)
(* those that look at the store, run beside it.                            *)
(***************************************************************************)
EXTENDS Naturals, Sequences

CONSTANTS
  Calls,         \* requests under way: starts, stops and retries
  NoCall,
  MaxAttempts,   \* bound on the attempts explored
  MaxCrashes     \* bound on the crashes explored

ASSUME MaxAttemptsAssumption == MaxAttempts \in Nat \ {0}
ASSUME MaxCrashesAssumption == MaxCrashes \in Nat
ASSUME NoCallAssumption == NoCall \notin Calls

VARIABLES
  row,       \* the durable row; its attempt is the launch it is about
  journal,   \* deferred terminal updates, oldest first
  task,      \* runtime.tasks: the attempt it runs and how far it is
  lease,     \* is the liveness lease held by this process?
  writers,   \* terminal updates a thread has yet to write
  ops,       \* _ACTIVE_JOB_OPERATIONS
  call,      \* each request, and the attempt it awaits
  loop,      \* the request that holds the event loop
  closed,    \* has aclose stopped admission?
  crashes,
  misfiled,  \* history: a late update of an earlier attempt ended a later one
  aborted    \* history: a task was cancelled while it awaited its write

vars == <<row, journal, task, lease, writers, ops, call, loop, closed, crashes,
          misfiled, aborted>>

ActiveStatuses == {"running", "stopping", "retrying"}
TerminalStatuses == {"succeeded", "failed", "stopped", "lost"}

Update == [attempt : 1..MaxAttempts, status : {"succeeded", "failed", "stopped"}]
NoTask == [attempt |-> 0, stage |-> "none", cancel |-> FALSE, status |-> "none"]
Idle == [pc |-> "idle", attempt |-> 0]

TypeOK ==
  /\ row \in [status : {"absent"} \cup ActiveStatuses \cup TerminalStatuses,
              attempt : 0..MaxAttempts, op : Calls \cup {NoCall}]
  /\ journal \in Seq([attempt : 1..MaxAttempts, applied : BOOLEAN,
                      status : {"succeeded", "failed", "stopped"}])
  /\ task \in [attempt : 0..MaxAttempts, cancel : BOOLEAN,
               stage : {"none", "created", "running", "logging", "ending"},
               status : {"none", "succeeded", "failed", "stopped"}]
  /\ lease \in BOOLEAN
  /\ writers \subseteq Update
  /\ ops \subseteq Calls
  /\ call \in [Calls -> [pc : {"idle", "launch", "stopping", "commit", "adopt", "undo", "unwind"},
                         attempt : 0..MaxAttempts]]
  /\ loop \in Calls \cup {NoCall}
  /\ closed \in BOOLEAN /\ misfiled \in BOOLEAN /\ aborted \in BOOLEAN
  /\ crashes \in 0..MaxCrashes

Init ==
  /\ row = [status |-> "absent", attempt |-> 0, op |-> NoCall]
  /\ journal = <<>>
  /\ task = NoTask
  /\ lease = FALSE
  /\ writers = {}
  /\ ops = {}
  /\ call = [x \in Calls |-> Idle]
  /\ loop = NoCall
  /\ closed = FALSE
  /\ crashes = 0
  /\ misfiled = FALSE
  /\ aborted = FALSE

----------------------------------------------------------------------------
(* Rows and transactions *)

Active(r) == r.status \in ActiveStatuses

Completed(r, status) == [r EXCEPT !.status = status, !.op = NoCall]

\* apply_managed_update, "finish": a completed row is not overwritten.
Finished(r, u) == IF Active(r) THEN Completed(r, u.status) ELSE r

Pending == {i \in DOMAIN journal : ~journal[i].applied}
Oldest == journal[CHOOSE i \in Pending : \A k \in Pending : i <= k]

\* The row as every transaction sees it.  The oldest deferred update completes an
\* active row, and the others find it complete.  An update whose file outlived its
\* replay is known by the ids the row keeps.
Replayed == IF Pending = {} THEN row ELSE Finished(row, Oldest)

\* Does applying u to r end another attempt than the one u is about?
Misfiles(r, u) == Active(r) /\ u.attempt # r.attempt

\* ... and does the replay?
ReplayMisfiles == Replayed # row /\ Oldest.attempt # row.attempt

TaskDone == task.stage = "none"

\* The local task first, then managed_job_lease_state.
LooksDead_Mutant == TaskDone   \* does not probe the lease

LooksDead == TaskDone /\ ~lease

\* _refresh_job_status: an active row that nobody works on any more.
Refreshed_Mutant(r) ==   \* leaves an interrupted stop alone
  IF r.status \in {"running", "retrying"} /\ r.op \notin ops /\ LooksDead
  THEN Completed(r, "lost")
  ELSE r

Refreshed(r) ==
  IF Active(r) /\ r.op \notin ops /\ LooksDead
  THEN Completed(r, IF r.status = "stopping" THEN "stopped" ELSE "lost")
  ELSE r

\* What a transaction leaves behind when it stores r: the files of the journal go
\* after the row is saved, unless removing them fails.
Stores(r) ==
  /\ row' = r
  /\ journal' \in {<<>>, [i \in DOMAIN journal |-> [journal[i] EXCEPT !.applied = TRUE]]}

\* Tokens that go because the row that carries them is completed.
Cleared == IF Replayed.op = NoCall THEN {row.op} ELSE {}

LoopFree == loop = NoCall

Cancelled == IF TaskDone THEN task ELSE [task EXCEPT !.cancel = TRUE]

----------------------------------------------------------------------------
(* The managed task and the thread that writes its end *)

TaskRuns ==
  /\ LoopFree
  /\ task.stage = "created" /\ ~task.cancel
  /\ task' = [task EXCEPT !.stage = "running"]
  /\ UNCHANGED <<row, journal, lease, writers, ops, call, loop, closed, crashes, misfiled, aborted>>

\* A task cancelled before its first step runs no line of _run_managed_job: its
\* lease stays.
TaskNeverRuns ==
  /\ LoopFree
  /\ task.stage = "created" /\ task.cancel
  /\ task' = NoTask
  /\ UNCHANGED <<row, journal, lease, writers, ops, call, loop, closed, crashes, misfiled, aborted>>

\* A thread is to write how the attempt ended.
Writes(status) ==
  /\ task' = [task EXCEPT !.stage = "ending", !.status = status]
  /\ writers' = writers \cup {[attempt |-> task.attempt, status |-> status]}

HandlerSucceeds ==
  /\ LoopFree
  /\ task.stage = "running" /\ ~task.cancel
  /\ Writes("succeeded")
  /\ UNCHANGED <<row, journal, lease, ops, call, loop, closed, crashes, misfiled, aborted>>

\* A failure, and a cancellation, is written to the job's log first.
HandlerStops ==
  /\ LoopFree
  /\ task.stage = "running"
  /\ task' = [task EXCEPT !.stage = "logging", !.cancel = FALSE,
                          !.status = IF task.cancel THEN "stopped" ELSE "failed"]
  /\ UNCHANGED <<row, journal, lease, writers, ops, call, loop, closed, crashes, misfiled, aborted>>

Logged ==
  /\ LoopFree
  /\ task.stage = "logging" /\ ~task.cancel
  /\ Writes(task.status)
  /\ UNCHANGED <<row, journal, lease, ops, call, loop, closed, crashes, misfiled, aborted>>

Unwritten == \E u \in writers : u.attempt = task.attempt

\* The finally clause: after the write was awaited, or because the task was
\* cancelled meanwhile.  Then the thread goes on, or was never started.
TaskEnds ==
  /\ LoopFree
  /\ \/ task.stage = "ending" /\ ~task.cancel /\ ~Unwritten /\ aborted' = aborted
     \/ task.stage \in {"logging", "ending"} /\ task.cancel /\ aborted' = TRUE
  /\ task' = NoTask
  /\ lease' = FALSE
  /\ UNCHANGED <<row, journal, writers, ops, call, loop, closed, crashes, misfiled>>

\* _managed_store_update in its thread: one transaction, or the journal after the
\* store was busy for too long.
WriterCommits(u) ==
  /\ u \in writers
  /\ writers' = writers \ {u}
  /\ Stores(Finished(Replayed, u))
  /\ ops' = ops \ (IF Finished(Replayed, u).op = NoCall THEN {row.op} ELSE {})
  /\ misfiled' = (misfiled \/ ReplayMisfiles \/ Misfiles(Replayed, u))
  /\ UNCHANGED <<task, lease, call, loop, closed, crashes, aborted>>

WriterDefers(u) ==
  /\ u \in writers
  /\ writers' = writers \ {u}
  /\ journal' = Append(journal, [attempt |-> u.attempt, status |-> u.status, applied |-> FALSE])
  /\ UNCHANGED <<row, task, lease, ops, call, loop, closed, crashes, misfiled, aborted>>

\* A transaction that only looks: list, tail, a stop that is refused, or the check of
\* auto cleanup, which runs in a thread.
Observe ==
  /\ row.status # "absent"
  /\ Stores(Refreshed(Replayed))
  /\ ops' = ops \ Cleared
  /\ misfiled' = (misfiled \/ ReplayMisfiles)
  /\ UNCHANGED <<task, lease, writers, call, loop, closed, crashes, aborted>>

----------------------------------------------------------------------------
(* Starts and stops *)

\* Starts and retries of a job hold the locks of the sessions it refers to.
Admitted(x) ==
  /\ LoopFree /\ ~closed
  /\ call[x].pc = "idle"
  /\ \A y \in Calls : call[y].pc \in {"idle", "stopping"}

\* The lease comes before the row, and the row before the task.
Start(x) ==
  /\ Admitted(x)
  /\ row.status = "absent"
  /\ row' = [row EXCEPT !.status = "running", !.attempt = 1]
  /\ lease' = TRUE
  /\ loop' = x
  /\ call' = [call EXCEPT ![x].pc = "launch"]
  /\ UNCHANGED <<journal, task, writers, ops, closed, crashes, misfiled, aborted>>

\* _launch_managed_job for a start.
Launch(x) ==
  /\ call[x].pc = "launch"
  /\ task' = [NoTask EXCEPT !.attempt = row.attempt, !.stage = "created"]
  /\ loop' = NoCall
  /\ call' = [call EXCEPT ![x] = Idle]
  /\ UNCHANGED <<row, journal, lease, writers, ops, closed, crashes, misfiled, aborted>>

StopBegins(x) ==
  LET r == Refreshed(Replayed) IN
  /\ LoopFree
  /\ call[x].pc = "idle"
  /\ r.status = "running" /\ ~TaskDone
  /\ Stores([r EXCEPT !.status = "stopping", !.op = x])
  /\ ops' = ops \cup {x}
  /\ task' = Cancelled
  /\ call' = [call EXCEPT ![x] = [pc |-> "stopping", attempt |-> task.attempt]]
  /\ UNCHANGED <<lease, writers, loop, closed, crashes, misfiled, aborted>>

AwaitsTask(x) ==
  /\ call[x].pc \in {"stopping", "undo", "unwind"}
  /\ ~TaskDone /\ task.attempt = call[x].attempt

\* The awaited task is over; the store may be busy.
StopEnds(x) ==
  /\ LoopFree
  /\ call[x].pc = "stopping" /\ ~AwaitsTask(x)
  /\ \/ /\ Stores(IF Replayed.status = "stopping" /\ Replayed.op = x
                  THEN Completed(Replayed, "stopped") ELSE Replayed)
        /\ misfiled' = (misfiled \/ ReplayMisfiles)
        /\ ops' = ops \ (Cleared \cup {x})
     \/ /\ ops' = ops \ {x}
        /\ UNCHANGED <<row, journal, misfiled>>
  /\ call' = [call EXCEPT ![x] = Idle]
  /\ UNCHANGED <<task, lease, writers, loop, closed, crashes, aborted>>

\* Whoever awaits the task hands its own cancellation down to it, and swallows it.
WaiterIsCancelled(x) ==
  /\ LoopFree
  /\ AwaitsTask(x)
  /\ task' = Cancelled
  /\ UNCHANGED <<row, journal, lease, writers, ops, call, loop, closed, crashes, misfiled, aborted>>

----------------------------------------------------------------------------
(* Retries *)

\* The except clause: whatever task there is is cancelled and awaited.
GivesUp(x, pc) ==
  /\ task' = Cancelled
  /\ loop' = IF TaskDone THEN x ELSE NoCall
  /\ call' = [call EXCEPT ![x] = [pc |-> pc, attempt |-> task.attempt]]

\* The first transaction finds the row active, or terminal with the lease held, or is
\* timed out.
RetryRefused(x) ==
  LET r == Refreshed(Replayed) IN
  /\ Admitted(x)
  /\ row.attempt \in 1..(MaxAttempts - 1)
  /\ \/ /\ ~Active(r) /\ lease
        /\ Stores(r)
        /\ ops' = ops \ Cleared
        /\ misfiled' = (misfiled \/ ReplayMisfiles)
     \/ UNCHANGED <<row, journal, ops, misfiled>>
  /\ GivesUp(x, "undo")
  /\ UNCHANGED <<lease, writers, closed, crashes, aborted>>

RetryBegins_Mutant(x) ==   \* takes the lease of whoever holds it
  LET r == Refreshed(Replayed) IN
  /\ Admitted(x)
  /\ row.attempt \in 1..(MaxAttempts - 1)
  /\ ~Active(r)
  /\ Stores(r)
  /\ ops' = ops \ Cleared
  /\ misfiled' = (misfiled \/ ReplayMisfiles)
  /\ lease' = TRUE
  /\ loop' = x
  /\ call' = [call EXCEPT ![x].pc = "commit"]
  /\ UNCHANGED <<task, writers, closed, crashes, aborted>>

\* ... or terminal, and the lease can be taken.
RetryBegins(x) ==
  LET r == Refreshed(Replayed) IN
  /\ Admitted(x)
  /\ row.attempt \in 1..(MaxAttempts - 1)
  /\ ~Active(r) /\ ~lease
  /\ Stores(r)
  /\ ops' = ops \ Cleared
  /\ misfiled' = (misfiled \/ ReplayMisfiles)
  /\ lease' = TRUE
  /\ loop' = x
  /\ call' = [call EXCEPT ![x].pc = "commit"]
  /\ UNCHANGED <<task, writers, closed, crashes, aborted>>

\* The second transaction and the launch.  The row is still terminal: only a retry
\* makes it active again.
RetryCommits(x) ==
  /\ call[x].pc = "commit"
  /\ \/ /\ Stores([Replayed EXCEPT !.status = "retrying", !.attempt = @ + 1, !.op = x])
        /\ ops' = ops \cup {x}
        /\ misfiled' = (misfiled \/ ReplayMisfiles)
        /\ task' = [NoTask EXCEPT !.attempt = row.attempt + 1, !.stage = "created"]
        /\ call' = [call EXCEPT ![x].pc = "adopt"]
        /\ loop' = loop
     \/ /\ GivesUp(x, "undo")
        /\ UNCHANGED <<row, journal, ops, misfiled>>
  /\ UNCHANGED <<lease, writers, closed, crashes, aborted>>

RetryAdopts(x) ==
  /\ call[x].pc = "adopt"
  /\ \/ /\ Stores(IF Replayed.status = "retrying" /\ Replayed.op = x
                  THEN Completed(Replayed, "running") ELSE Replayed)
        /\ ops' = ops \ (Cleared \cup {x})
        /\ misfiled' = (misfiled \/ ReplayMisfiles)
        /\ call' = [call EXCEPT ![x] = Idle]
        /\ loop' = NoCall
        /\ task' = task
     \/ /\ GivesUp(x, "unwind")
        /\ UNCHANGED <<row, journal, ops, misfiled>>
  /\ UNCHANGED <<lease, writers, closed, crashes, aborted>>

\* The rest of the except clause.  A retry that wrote the row fails it, unless the
\* store is busy.
RetryFails(x) ==
  /\ loop \in {x, NoCall}
  /\ call[x].pc \in {"undo", "unwind"} /\ ~AwaitsTask(x)
  /\ lease' = FALSE
  /\ \/ /\ call[x].pc = "unwind"
        /\ Stores(IF Replayed.op = x THEN Completed(Replayed, "failed") ELSE Replayed)
        /\ ops' = ops \ (Cleared \cup {x})
        /\ misfiled' = (misfiled \/ ReplayMisfiles)
     \/ /\ ops' = ops \ {x}
        /\ UNCHANGED <<row, journal, misfiled>>
  /\ call' = [call EXCEPT ![x] = Idle]
  /\ loop' = NoCall
  /\ UNCHANGED <<task, writers, closed, crashes, aborted>>

----------------------------------------------------------------------------
(* Close and crash *)

CloseBegins ==
  /\ LoopFree /\ ~closed
  /\ closed' = TRUE
  /\ task' = Cancelled
  /\ UNCHANGED <<row, journal, lease, writers, ops, call, loop, crashes, misfiled, aborted>>

CloseEnds ==
  /\ LoopFree
  /\ closed /\ TaskDone /\ lease
  /\ lease' = FALSE
  /\ UNCHANGED <<row, journal, task, writers, ops, call, loop, closed, crashes, misfiled, aborted>>

\* The row and the journal outlive the process, and the next one starts.
Restarts ==
  /\ task' = NoTask
  /\ lease' = FALSE
  /\ writers' = {}
  /\ ops' = {}
  /\ call' = [x \in Calls |-> Idle]
  /\ loop' = NoCall
  /\ closed' = FALSE
  /\ UNCHANGED <<row, journal, misfiled, aborted>>

Crash ==
  /\ crashes < MaxCrashes
  /\ crashes' = crashes + 1
  /\ Restarts

\* A process that was closed waits for its threads.
Exit ==
  /\ closed /\ TaskDone /\ ~lease /\ writers = {}
  /\ crashes' = crashes
  /\ Restarts

TaskStep == TaskRuns \/ TaskNeverRuns \/ HandlerSucceeds \/ HandlerStops \/ Logged \/ TaskEnds

WriterStep == \E u \in Update : WriterCommits(u) \/ WriterDefers(u)

\* What a request does once it has begun.
CallStep(x) ==
  Launch(x) \/ StopEnds(x) \/ RetryCommits(x) \/ RetryAdopts(x) \/ RetryFails(x)

Request(x) == Start(x) \/ StopBegins(x) \/ RetryRefused(x) \/ RetryBegins(x) \/ WaiterIsCancelled(x)

Next ==
  \/ TaskStep \/ WriterStep \/ Observe
  \/ \E x \in Calls : CallStep(x) \/ Request(x)
  \/ CloseBegins \/ CloseEnds \/ Crash \/ Exit

Spec == Init /\ [][Next]_vars

\* Handlers end, threads run, the loop is a queue that passes nobody over (strong
\* fairness: a retry may hold it again and again), and somebody looks at the store now
\* and then: automatic cleanup checks references, users list jobs.
Fairness ==
  /\ SF_vars(TaskStep)
  /\ WF_vars(WriterStep)
  /\ WF_vars(Observe)
  /\ \A x \in Calls : SF_vars(CallStep(x))

FairSpec == Spec /\ Fairness

----------------------------------------------------------------------------
(* Properties *)

Works == task.stage \in {"running", "logging"}

\* While a handler runs, its row says so and its lease is held, so that neither this
\* process nor another one takes the job for lost or runs it twice.  The exception is
\* what follows a write that was abandoned: managed.py:456-500 does not await it again.
WorkIsCovered == (Works /\ ~aborted) => (Active(row) /\ row.attempt = task.attempt /\ lease)

\* An attempt is launched only when no earlier one is running, whatever became of its
\* row (_launch_managed_job overwrites the task it finds).
AttemptsNeverOverlap ==
  [][(task'.attempt # task.attempt /\ task'.attempt # 0) => TaskDone]_vars

\* A terminal update ends another attempt than its own only if the task that wrote it
\* was cancelled while it waited: the awaits of _run_managed_job, the refusal to
\* overwrite a completed row and the ids of applied updates exclude every other way.
OnlyAbortedWritesMisfile == misfiled => aborted

\* Well-typed; task, row and lease agree, and updates end what they belong to.
Inv == TypeOK /\ WorkIsCovered /\ OnlyAbortedWritesMisfile

\* A job that is active is reported terminal in the end, unless a lease without a task
\* keeps it from being found lost.
JobSettles == ([]<>(~Active(row))) \/ <>[](TaskDone /\ lease)

\* A retry that finds the job active is an error and leaves the job alone:
\* "Relaunch one terminal managed operation" (managed.py:810).
RefusedRetryLeavesJob ==
  [][\A x \in Calls : (RetryRefused(x) /\ task.stage = "running") => task' = task]_vars
=============================================================================
