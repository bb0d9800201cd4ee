-------------------------- MODULE ControlSessions --------------------------
(***************************************************************************)
(* The lifecycle of execution sessions in Control                          *)
(* (src/src/workgate/control/sessions.py) for the sessions of one Executor.*)
(* Every operation holds the session's lock across its RPCs; admission     *)
(* holds the capacity lock as well.  Reconciliation with a hello holds no  *)
(* lock at all and may run between any two steps of the others.            *)
(*                                                                         *)
(* RPCs follow CommandContract: a command is queued, offered at most once, *)
(* executed, and answered; the caller can be interrupted or fenced before  *)
(* it resumes.  The executor runs the create and terminate commands of a   *)
(* session in offer order and says hello only when none of them is left    *)
(* (SerialPerKey and HelloInventoryIsStable in ExecutorConnection).        *)
(* Activity times are abstracted to "older than every cut-off or not".     *)
(***************************************************************************)
EXTENDS Naturals, FiniteSets, Sequences

CONSTANTS
  Sessions,     \* session ids that may be allocated
  MaxSessions,  \* max_agent_sessions
  MaxFaults,    \* bound on executor restarts, state losses and Control restarts
  MaxMail       \* bound on the commands of a session the executor works on

ASSUME MaxSessionsAssumption == MaxSessions \in Nat \ {0}
ASSUME MaxFaultsAssumption == MaxFaults \in Nat
ASSUME SessionsAssumption == IsFiniteSet(Sessions)
ASSUME MaxMailAssumption == MaxMail \in Nat

VARIABLES
  record,     \* durable status of each session; "forgotten" is a removed record
  confirmed,  \* executor_absence_confirmed
  old,        \* sessions whose updated_at lies before the cleanup cut-offs
  missing,    \* _missing_by_executor: not observed, observed, observed long ago
  admission,  \* _capacity_lock is held by a start_session that reaps
  op,         \* the operation that holds a session's lock, and for whom
  seen,       \* the record an automatic end read when it took the lock
  tasks,      \* scheduled _continue_termination tasks
  rpc,        \* stage of the RPC the operation awaits
  reply,      \* and its answer
  online,     \* the transport counts the executor as online
  link,       \* the executor is connected, away, or its hello is on its way
  inventory,  \* the sessions listed in that hello
  mail,       \* create and terminate commands the executor received
  exists,     \* sessions the executor has
  idle,       \* ... whose last activity lies before the cleanup cut-offs
  faults      \* faults so far

control  == <<record, confirmed, old, missing>>
locks    == <<admission, op, seen, tasks>>
request  == <<rpc, reply>>
executor == <<online, link, inventory, mail, exists, idle, faults>>
vars == <<control, locks, request, executor>>

Free == [at |-> "free", for |-> "nobody"]

NonEnded == {s \in Sessions : record[s] \in {"creating", "active", "terminating"}}

Commands == [op : {"create", "terminate"}, awaited : BOOLEAN]

TypeOK ==
  /\ record \in [Sessions -> {"none", "creating", "active", "terminating", "ended",
                              "forgotten"}]
  /\ confirmed \subseteq Sessions
  /\ old \subseteq Sessions
  /\ missing \in [Sessions -> {"no", "recent", "old"}]
  /\ admission \in {"free", "held"}
  /\ op \in [Sessions -> [at : {"free", "creating", "confirming", "tool", "checking",
                                "looking", "preparing", "ending"},
                          for : {"nobody", "user", "force", "hello", "sweep",
                                 "admission"}]]
  /\ seen \in [Sessions -> {"none", "creating", "stale creating", "active"}]
  /\ tasks \in [Sessions -> SUBSET {"continue", "only if creating"}]
  /\ rpc \in [Sessions -> {"none", "queued", "offered", "lost", "executed", "answered"}]
  /\ reply \in [Sessions -> {"none", "ok", "absent", "error", "unconfirmed", "busy"}]
  /\ online \in BOOLEAN
  /\ link \in {"connected", "away", "hello"}
  /\ inventory \subseteq Sessions
  /\ \A s \in Sessions : mail[s] \in Seq(Commands) /\ Len(mail[s]) <= MaxMail
  /\ exists \subseteq Sessions
  /\ idle \subseteq Sessions
  /\ faults \in 0..MaxFaults

Init ==
  /\ record = [s \in Sessions |-> "none"]
  /\ confirmed = {}
  /\ old = {}
  /\ missing = [s \in Sessions |-> "no"]
  /\ admission = "free"
  /\ op = [s \in Sessions |-> Free]
  /\ seen = [s \in Sessions |-> "none"]
  /\ tasks = [s \in Sessions |-> {}]
  /\ rpc = [s \in Sessions |-> "none"]
  /\ reply = [s \in Sessions |-> "none"]
  /\ online = FALSE
  /\ link = "away"
  /\ inventory = {}
  /\ mail = [s \in Sessions |-> <<>>]
  /\ exists = {}
  /\ idle = {}
  /\ faults = 0

----------------------------------------------------------------------------
(* Durable records, locks and RPCs *)

\* update_session stamps updated_at.
SetStatus(s, status) ==
  /\ record' = [record EXCEPT ![s] = status]
  /\ old' = old \ {s}

MarkEnded_Optimistic(s, confirm) ==   \* every end counts as confirmed
  /\ SetStatus(s, "ended")
  /\ confirmed' = confirmed \cup {s}
  /\ missing' = [missing EXCEPT ![s] = "no"]

\* _mark_ended: the flag is written, not merged.
MarkEnded(s, confirm) ==
  /\ SetStatus(s, "ended")
  /\ confirmed' = IF confirm THEN confirmed \cup {s} ELSE confirmed \ {s}
  /\ missing' = [missing EXCEPT ![s] = "no"]

\* _discard_failed_create.  A session attached to a task that was there before keeps
\* its record once a hello has made it active; one whose task was created for it
\* loses its record whatever it says.
Discard(s) ==
  \/ /\ record' = [record EXCEPT ![s] = "forgotten"]
     /\ old' = old \ {s}
     /\ UNCHANGED <<confirmed, missing>>
  \/ record[s] # "creating" /\ UNCHANGED control

Take(s, at, for) == op' = [op EXCEPT ![s] = [at |-> at, for |-> for]]
Proceed(s, at)   == op' = [op EXCEPT ![s].at = at]

\* An RPC that nobody awaits any more still runs on the executor.
Unawaited(s) ==
  [mail EXCEPT ![s] = [i \in DOMAIN mail[s] |-> [mail[s][i] EXCEPT !.awaited = FALSE]]]

Ask(s) ==
  /\ rpc' = [rpc EXCEPT ![s] = "queued"]
  /\ reply' = [reply EXCEPT ![s] = "none"]

\* The operation is over: its lock and its RPC are released.
Release(s) ==
  /\ op' = [op EXCEPT ![s] = Free]
  /\ seen' = [seen EXCEPT ![s] = "none"]
  /\ rpc' = [rpc EXCEPT ![s] = "none"]
  /\ reply' = [reply EXCEPT ![s] = "none"]
  /\ mail' = Unawaited(s)

network == <<online, link, inventory, exists, idle, faults>>

----------------------------------------------------------------------------
(* start_session *)

\* A start_session takes the capacity lock; it may reap sessions before it admits.
BeginAdmission ==
  /\ admission = "free"
  /\ admission' = "held"
  /\ UNCHANGED <<control, op, seen, tasks, request, executor>>

\* Automatic ends of one owner run one after the other.
Reaping(owner) == \E s \in Sessions : op[s].for = owner

HasCapacity_Mutant == Cardinality({s \in NonEnded : record[s] # "terminating"}) < MaxSessions

HasCapacity == Cardinality(NonEnded) < MaxSessions

\* The record is durable before the create command is queued, and the session's
\* lock is taken without a suspension in between.
Admit(s) ==
  /\ admission = "held"
  /\ ~Reaping("admission")
  /\ record[s] = "none"
  /\ HasCapacity
  /\ online
  /\ SetStatus(s, "creating")
  /\ Take(s, "creating", "user")
  /\ Ask(s)
  /\ admission' = "free"
  /\ UNCHANGED <<confirmed, missing, seen, tasks, executor>>

\* No capacity, no eligible executor, or the caller is cancelled.
RefuseAdmission ==
  /\ admission = "held"
  /\ ~Reaping("admission")
  /\ admission' = "free"
  /\ UNCHANGED <<control, op, seen, tasks, request, executor>>

\* _finish_create; an answer that leaves the outcome open keeps the record.
CreateReturns(s) ==
  /\ op[s].at = "creating"
  /\ rpc[s] = "answered"
  /\ CASE reply[s] = "ok"          -> SetStatus(s, "active") /\ UNCHANGED <<confirmed, missing>>
       [] reply[s] = "absent"      -> Discard(s)
       [] reply[s] = "unconfirmed" -> UNCHANGED control
  /\ Release(s)
  /\ UNCHANGED <<admission, tasks, network>>

\* The call ends without its answer: interrupted, or fenced while its command was
\* retained.  Only an offer counts as a possible side effect; an interruption
\* that overtakes the answer carries no delivery state at all.
MayHaveRun(s) == rpc[s] \in {"offered", "lost", "executed"}

CreateFails(s) ==
  /\ op[s].at = "creating"
  /\ \/ /\ ~MayHaveRun(s)
        /\ Discard(s)
        /\ Release(s)
     \/ /\ MayHaveRun(s)
        /\ online
        /\ Proceed(s, "confirming")
        /\ Ask(s)
        /\ mail' = Unawaited(s)
        /\ UNCHANGED <<control, seen>>
     \/ /\ MayHaveRun(s)
        /\ ~online
        /\ Release(s)
        /\ UNCHANGED control
  /\ UNCHANGED <<admission, tasks, network>>

\* _reconcile_ambiguous_create: only a positive lookup decides.
ConfirmReturns(s) ==
  /\ op[s].at = "confirming"
  /\ rpc[s] = "answered"
  /\ IF reply[s] = "absent" THEN UNCHANGED control
     ELSE SetStatus(s, "active") /\ UNCHANGED <<confirmed, missing>>
  /\ Release(s)
  /\ UNCHANGED <<admission, tasks, network>>

----------------------------------------------------------------------------
(* Work in an active session *)

\* call_session_tool and change_workdir.
CallTool(s) ==
  /\ op[s] = Free
  /\ record[s] = "active"
  /\ online
  /\ missing[s] = "no"
  /\ Take(s, "tool", "user")
  /\ Ask(s)
  /\ UNCHANGED <<control, admission, seen, tasks, executor>>

ToolReturns(s) ==
  /\ op[s].at = "tool"
  /\ rpc[s] = "answered"
  /\ Release(s)
  /\ UNCHANGED <<control, admission, tasks, network>>

\* What a read-only lookup outside the lifecycle operations observes: after a
\* tool error, before a missing session is swept, for an overflow candidate.
Observes(s) ==
  /\ record[s] = "active"
  /\ online
  /\ missing' = [missing EXCEPT ![s] = IF s \in exists THEN "no"
                                       ELSE IF @ = "no" THEN "recent" ELSE @]
  /\ UNCHANGED <<record, confirmed, old, locks, request, executor>>

----------------------------------------------------------------------------
(* Ending a session *)

\* _end_record_locked: the intent is durable before anything is stopped.
BeginEnd(s, for) ==
  /\ IF record[s] = "terminating" THEN UNCHANGED <<record, old>>
     ELSE SetStatus(s, "terminating")
  /\ Take(s, "preparing", for)
  /\ seen' = [seen EXCEPT ![s] = "none"]
  /\ UNCHANGED <<confirmed, missing>>

EndSession(s, for) ==
  /\ op[s] = Free
  /\ s \in NonEnded
  /\ BeginEnd(s, for)
  /\ UNCHANGED <<admission, tasks, request, executor>>

\* Control-owned resources are released first; then the terminate command is
\* queued.
AskTermination(s) ==
  /\ op[s].at = "preparing"
  /\ online
  /\ Proceed(s, "ending")
  /\ Ask(s)
  /\ UNCHANGED <<control, admission, seen, tasks, executor>>

\* A resource cannot be released, or the transport refuses the call: force ends
\* the session without it.
CannotAskTermination(s) ==
  /\ op[s].at = "preparing"
  /\ \/ op[s].for = "force" /\ MarkEnded(s, FALSE)
     \/ UNCHANGED control
  /\ Release(s)
  /\ UNCHANGED <<admission, tasks, network>>

EndReturns(s) ==
  /\ op[s].at = "ending"
  /\ rpc[s] = "answered"
  /\ IF reply[s] = "absent" THEN MarkEnded(s, TRUE) ELSE UNCHANGED control
  /\ Release(s)
  /\ UNCHANGED <<admission, tasks, network>>

\* The terminate call is fenced (force then releases the session), or interrupted.
EndFails(s) ==
  /\ op[s].at = "ending"
  /\ \/ rpc[s] # "answered" /\ op[s].for = "force" /\ MarkEnded(s, FALSE)
     \/ UNCHANGED control
  /\ Release(s)
  /\ UNCHANGED <<admission, tasks, network>>

\* Tool calls and lookups that end without an answer.
ReadFails(s) ==
  /\ op[s].at \in {"tool", "confirming", "looking"}
  /\ Release(s)
  /\ UNCHANGED <<control, admission, tasks, network>>

----------------------------------------------------------------------------
(* Automatic ends: the retention sweep, and admission that needs room *)

\* _auto_end_if_eligible reads the record under the lock and asks whether a
\* control-owned resource blocks the cleanup, which suspends.
AutoEnd(s, for) ==
  /\ op[s] = Free
  /\ ~Reaping(for)
  /\ IF for = "sweep" THEN record[s] = "active" /\ missing[s] = "no"
     ELSE admission = "held" /\ record[s] \in {"creating", "active"}
  /\ Take(s, "checking", for)
  /\ seen' = [seen EXCEPT ![s] = IF record[s] = "creating" /\ s \in old
                                 THEN "stale creating" ELSE record[s]]
  /\ UNCHANGED <<control, admission, tasks, request, executor>>

\* _cleanup_activity_before_cutoff, on the record that was read before.
AutoEndChecked(s) ==
  /\ op[s].at = "checking"
  /\ \/ /\ \/ seen[s] = "stale creating"
           \/ seen[s] = "active" /\ missing[s] = "old" /\ online
        /\ BeginEnd(s, op[s].for)
        /\ UNCHANGED <<request, mail>>
     \/ /\ seen[s] = "active" /\ missing[s] = "no" /\ online
        /\ Proceed(s, "looking")
        /\ Ask(s)
        /\ UNCHANGED <<control, seen, mail>>
     \/ Release(s) /\ UNCHANGED control   \* blocked, too recent, or offline
  /\ UNCHANGED <<admission, tasks, network>>

\* The executor's own view of the session's activity decides.
AutoEndLookedUp(s) ==
  /\ op[s].at = "looking"
  /\ rpc[s] = "answered"
  /\ \/ /\ reply[s] = "ok"
        /\ BeginEnd(s, op[s].for)
        /\ rpc' = [rpc EXCEPT ![s] = "none"]
        /\ UNCHANGED <<reply, mail>>
     \/ /\ reply[s] # "ok"
        /\ missing' = [missing EXCEPT ![s] = IF reply[s] = "busy" THEN "no"
                                             ELSE IF @ = "no" THEN "recent" ELSE @]
        /\ Release(s)
        /\ UNCHANGED <<record, confirmed, old>>
  /\ UNCHANGED <<admission, tasks, network>>

----------------------------------------------------------------------------
(* Hello *)

\* reconcile_hello, one session at a time, without its lock.
Reconciled(s) ==
  IF record[s] = "terminating" /\ s \notin inventory THEN "ended"
  ELSE IF record[s] = "creating" /\ s \in inventory THEN "active"
  ELSE record[s]

Scheduled_Mutant(s) ==   \* a reported terminating session is left alone
  IF record[s] = "creating" /\ s \notin inventory /\ s \in old
  THEN {"only if creating"} ELSE {}

Scheduled(s) ==
  IF record[s] = "terminating" /\ s \in inventory THEN {"continue"}
  ELSE IF record[s] = "creating" /\ s \notin inventory /\ s \in old
       THEN {"only if creating"} ELSE {}

Observed(s) ==
  IF record[s] # "active" \/ s \in inventory THEN "no"
  ELSE IF missing[s] = "no" THEN "recent" ELSE missing[s]

ProcessHello ==
  /\ link = "hello"
  /\ record' = [s \in Sessions |-> Reconciled(s)]
  /\ old' = {s \in old : record'[s] = record[s]}
  /\ confirmed' = confirmed \cup {s \in Sessions : record[s] # record'[s]
                                                   /\ record'[s] = "ended"}
  /\ missing' = [s \in Sessions |-> Observed(s)]
  /\ tasks' = [s \in Sessions |-> tasks[s] \cup Scheduled(s)]
  /\ online' = TRUE
  /\ link' = "connected"
  /\ inventory' = {}
  /\ UNCHANGED <<admission, op, seen, request, mail, exists, idle, faults>>

\* _continue_termination, once it has the lock.
StillApplies_Mutant(s, kind) == s \in NonEnded   \* forgets only_if_creating

StillApplies(s, kind) ==
  s \in NonEnded /\ (kind = "only if creating" => record[s] = "creating")

ContinueTermination(s, kind) ==
  /\ kind \in tasks[s]
  /\ op[s] = Free
  /\ tasks' = [tasks EXCEPT ![s] = @ \ {kind}]
  /\ IF StillApplies(s, kind) THEN BeginEnd(s, "hello") ELSE UNCHANGED <<control, op, seen>>
  /\ UNCHANGED <<admission, request, executor>>

----------------------------------------------------------------------------
(* The executor, the network and the environment *)

OrderedOp(s) == IF op[s].at = "creating" THEN "create" ELSE "terminate"

\* A poll takes the command; the answer of the poll may be lost with it.
Offer(s, arrives) ==
  /\ link = "connected"
  /\ rpc[s] = "queued"
  /\ rpc' = [rpc EXCEPT ![s] = IF arrives THEN "offered" ELSE "lost"]
  /\ arrives => Len(mail[s]) < MaxMail
  /\ mail' = IF arrives /\ op[s].at \in {"creating", "ending"}
             THEN [mail EXCEPT ![s] = Append(@, [op |-> OrderedOp(s), awaited |-> TRUE])]
             ELSE mail
  /\ UNCHANGED <<control, locks, reply, online, link, inventory, exists, idle, faults>>

\* The executor runs the oldest create or terminate of a session.
Execute(s, result) ==
  /\ mail[s] # <<>>
  /\ mail' = [mail EXCEPT ![s] = Tail(@)]
  /\ LET m == Head(mail[s]) IN
       /\ IF m.op = "create"
          THEN \/ result = "ok" /\ exists' = exists \cup {s}
               \/ result = "absent" /\ exists' = exists \ {s}
               \/ result = "unconfirmed" /\ exists' \in {exists, exists \cup {s}}
          ELSE \/ result = "absent" /\ exists' = exists \ {s}
               \/ result = "error" /\ exists' = exists
       /\ rpc' = IF m.awaited THEN [rpc EXCEPT ![s] = "executed"] ELSE rpc
       /\ reply' = IF m.awaited THEN [reply EXCEPT ![s] = result] ELSE reply
       /\ idle' = IF m.op = "create" THEN idle \ {s} ELSE idle
  /\ UNCHANGED <<control, locks, online, link, inventory, faults>>

\* The executor serves a lookup or a tool call.
Serve(s) ==
  /\ rpc[s] = "offered"
  /\ op[s].at \in {"tool", "confirming", "looking"}
  /\ rpc' = [rpc EXCEPT ![s] = "executed"]
  /\ reply' = [reply EXCEPT ![s] = IF s \notin exists THEN "absent"
                                   ELSE IF s \in idle THEN "ok" ELSE "busy"]
  /\ idle' = IF op[s].at = "tool" THEN idle \ {s} ELSE idle
  /\ UNCHANGED <<control, locks, online, link, inventory, mail, exists, faults>>

\* Control accepts the result.
Answer(s) ==
  /\ rpc[s] = "executed"
  /\ rpc' = [rpc EXCEPT ![s] = "answered"]
  /\ UNCHANGED <<control, locks, reply, executor>>

LinkDrops ==
  /\ link = "connected"
  /\ link' = "away"
  /\ UNCHANGED <<control, locks, request, online, inventory, mail, exists, idle, faults>>

SendHello ==
  /\ link = "away"
  /\ \A s \in Sessions : mail[s] = <<>>
  /\ link' = "hello"
  /\ inventory' = exists
  /\ UNCHANGED <<control, locks, request, online, mail, exists, idle, faults>>

LoseHello ==
  /\ link = "hello"
  /\ link' = "away"
  /\ inventory' = {}
  /\ UNCHANGED <<control, locks, request, online, mail, exists, idle, faults>>

PresenceLapses ==
  /\ online
  /\ online' = FALSE
  /\ UNCHANGED <<control, locks, request, link, inventory, mail, exists, idle, faults>>

Heartbeat ==
  /\ ~online
  /\ link = "connected"
  /\ online' = TRUE
  /\ UNCHANGED <<control, locks, request, link, inventory, mail, exists, idle, faults>>

\* Commands in progress, and results that are not delivered, die with the executor
\* process; its sessions are durable unless its state directory is replaced.
ExecutorRestarts(keepsState) ==
  /\ faults < MaxFaults
  /\ faults' = faults + 1
  /\ link' = "away"
  /\ inventory' = {}
  /\ mail' = [s \in Sessions |-> <<>>]
  /\ exists' = IF keepsState THEN exists ELSE {}
  /\ rpc' = [s \in Sessions |-> IF rpc[s] \in {"offered", "executed"} THEN "lost"
                                                                     ELSE rpc[s]]
  /\ reply' = [s \in Sessions |-> IF rpc[s] = "executed" THEN "none" ELSE reply[s]]
  /\ UNCHANGED <<control, locks, online, idle>>

\* Only the durable records survive a restart of Control.
ControlRestarts ==
  /\ faults < MaxFaults
  /\ faults' = faults + 1
  /\ missing' = [s \in Sessions |-> "no"]
  /\ admission' = "free"
  /\ op' = [s \in Sessions |-> Free]
  /\ seen' = [s \in Sessions |-> "none"]
  /\ tasks' = [s \in Sessions |-> {}]
  /\ rpc' = [s \in Sessions |-> "none"]
  /\ reply' = [s \in Sessions |-> "none"]
  /\ online' = FALSE
  /\ link' = "away"
  /\ inventory' = {}
  /\ mail' = [s \in Sessions |-> [i \in DOMAIN mail[s] |->
                                    [mail[s][i] EXCEPT !.awaited = FALSE]]]
  /\ UNCHANGED <<record, confirmed, old, exists, idle>>

\* Hours pass: everything that was recent lies before the cut-offs.
TimePasses ==
  /\ old' = NonEnded
  /\ idle' = exists
  /\ missing' = [s \in Sessions |-> IF missing[s] = "no" THEN "no" ELSE "old"]
  /\ UNCHANGED <<record, confirmed, locks, request, online, link, inventory, mail,
                 exists, faults>>

----------------------------------------------------------------------------
(* Specification *)

Results == {"ok", "absent", "unconfirmed", "error"}

UserStep(s) ==
  \/ Admit(s) \/ CallTool(s) \/ \E for \in {"user", "force"} : EndSession(s, for)
  \/ \E for \in {"sweep", "admission"} : AutoEnd(s, for)

\* An operation that holds the lock goes on.
Continue(s) ==
  \/ CreateReturns(s) \/ ConfirmReturns(s) \/ ToolReturns(s) \/ EndReturns(s)
  \/ AskTermination(s) \/ AutoEndChecked(s) \/ AutoEndLookedUp(s)

Fail(s) == CannotAskTermination(s) \/ CreateFails(s) \/ EndFails(s) \/ ReadFails(s)

Environment ==
  \/ LinkDrops \/ SendHello \/ LoseHello \/ PresenceLapses \/ Heartbeat
  \/ ControlRestarts \/ TimePasses
  \/ \E keepsState \in BOOLEAN : ExecutorRestarts(keepsState)
  \/ \E s \in Sessions : \/ \E arrives \in BOOLEAN : Offer(s, arrives)
                         \/ \E result \in Results : Execute(s, result)
                         \/ Serve(s) \/ Answer(s)

\* The executor no longer has the command whose answer the operation awaits: the
\* answer of the poll was lost, or the process restarted.
Lost(s) == rpc[s] = "lost"

\* The tool watchdog ends a user's call, and a lookup has a timeout of its own.
\* Nothing bounds the terminate commands that a hello or the sweep sends.
Unbounded == {"hello", "sweep"}

Watchdog(s) ==
  Lost(s) /\ (op[s].at = "looking" \/ op[s].for \notin Unbounded) /\ Fail(s)

\* A loss of the connection that fences nobody.
Reconnects == LinkDrops /\ \A s \in Sessions : op[s] = Free

\* Steps that keep an operation from doing what it set out to do.
Disturbance ==
  \/ LinkDrops /\ ~Reconnects
  \/ LoseHello \/ PresenceLapses \/ ControlRestarts
  \/ \E keepsState \in BOOLEAN : ExecutorRestarts(keepsState)
  \/ \E s \in Sessions : \/ Fail(s) /\ ~Lost(s)
                         \/ Offer(s, FALSE)
                         \/ \E result \in Results \ {"absent"} : Execute(s, result)

Next ==
  \/ BeginAdmission \/ RefuseAdmission \/ ProcessHello
  \/ \E s \in Sessions :
       \/ UserStep(s) \/ Continue(s) \/ Fail(s) \/ Observes(s)
       \/ \E kind \in {"continue", "only if creating"} : ContinueTermination(s, kind)
  \/ Environment

Spec == Init /\ [][Next]_vars

\* The event loop runs what is ready and the executor polls, works and, from time
\* to time, says hello again.
Fairness ==
  /\ \A s \in Sessions :
       /\ WF_vars(Continue(s)) /\ WF_vars(Watchdog(s))
       /\ \A kind \in {"continue", "only if creating"} :
            WF_vars(ContinueTermination(s, kind))
       /\ WF_vars(Offer(s, TRUE)) /\ WF_vars(Answer(s)) /\ WF_vars(Serve(s))
       /\ WF_vars(Execute(s, "absent"))
  /\ SF_vars(Reconnects) /\ WF_vars(SendHello) /\ WF_vars(ProcessHello)
  /\ WF_vars(Heartbeat)

FairSpec == Spec /\ Fairness

----------------------------------------------------------------------------
(* Properties *)

\* executor_absence_confirmed is evidence: task expiry archives on the strength of
\* it.  The executor has no such session and no command left that could make one.
ConfirmedIsAbsent ==
  \A s \in confirmed :
    /\ s \notin exists
    /\ \A i \in DOMAIN mail[s] : mail[s][i].op # "create"

\* max_agent_sessions bounds the sessions that are not ended, also while admission
\* waits for the sessions it reaps.
CapacityBounded == Cardinality(NonEnded) <= MaxSessions

\* A tool works only in an active session: whatever ends the session waits for
\* the tool or finds the lock taken.
ToolInActiveSession ==
  \A s \in Sessions : op[s].at = "tool" => record[s] = "active"

\* Well-typed; absence is confirmed and tools work only where they may.
SessionsInv == TypeOK /\ ConfirmedIsAbsent /\ ToolInActiveSession

\* What a step may do to a session's row.
StaysEnding(s) ==
  /\ record[s] = "terminating" => record'[s] \in {"terminating", "ended"}
  /\ record[s] \in {"ended", "forgotten"} => record'[s] = record[s]

SparedByHellos(s) ==
  record[s] = "active" /\ record'[s] \in {"terminating", "ended"}
    => record'[s] = "terminating" /\ op'[s].for # "hello"

ForgottenUnstarted(s) ==
  record'[s] # record[s] /\ record'[s] = "forgotten"
    /\ ~(rpc[s] = "answered" /\ reply[s] # "absent")
  => s \notin exists /\ \A i \in DOMAIN mail[s] : mail[s][i].op # "create"

\* Rows only move forward.  Terminating and ended are final: neither a hello built before
\* the intent was recorded nor an answer that arrives late brings a session back to work.
\* A hello never costs an active session ("Never terminate a newly active Session because
\* of an earlier observation of absence").  And while the delivery state of the create
\* command is known, a record is removed only if the executor has no session and cannot
\* come to have one.
RowsMoveForward ==
  [][\A s \in Sessions : StaysEnding(s) /\ SparedByHellos(s) /\ ForgottenUnstarted(s)]_vars

\* The docstring of remove_session: "Durably forget a checkpoint only when no
\* executor side effect exists".
ForgottenHasNoSideEffect ==
  \A s \in Sessions : record[s] = "forgotten" => s \notin exists

\* The docstring of _cleanup_activity_before_cutoff: "Return authoritative cleanup
\* age without guessing executor activity".  An active session is ended
\* automatically only after a lookup, or after the executor reported it missing.
AutoEndHasEvidence ==
  [][\A s \in Sessions :
       op[s].at = "checking" /\ op'[s].at = "preparing" /\ record[s] = "active"
          => missing[s] # "no"]_vars

\* Termination converges: once failures stop, a session whose end was requested or
\* left over ends, at the latest after the executor's next hello; except that a
\* terminate command of a hello or the sweep that was lost holds the session's lock
\* until a fence.
TerminationConverges ==
  <>[][~Disturbance]_vars =>
     \A s \in Sessions :
       record[s] = "terminating"
         ~> (record[s] = "ended" \/ (Lost(s) /\ op[s].for \in Unbounded))
=============================================================================
