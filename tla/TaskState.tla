----------------------------- MODULE TaskState ------------------------------
(***************************************************************************)
(* One semantic task: its durable file, written under the lock of the      *)
(* task; the session rows that name it, which live in another file and are *)
(* mostly written without that lock; the idle sweep, which blocks a task   *)
(* that nothing can still be working for; and the continuation claims by   *)
(* which user interfaces dispatch the agent again, at most MaxAttempts     *)
(* times.  Control may stop between the two writes of an operation.        *)
(***************************************************************************)
EXTENDS Naturals, FiniteSets

CONSTANTS Slots,        \* session rows
          Hosts,        \* user interfaces that may dispatch a continuation
          MaxAttempts,  \* _CONTINUATION_MAX_ATTEMPTS
          MaxClaims,    \* bound: claims issued
          MaxAdmitted,  \* bound: sessions ever admitted to the task
          MaxStops      \* bound: stops of Control

ASSUME SlotsAssumption ==
    IsFiniteSet(Slots) /\ Slots \cap {"free", "uncount", "remove", "sweep"} = {}
ASSUME MaxAttemptsAssumption == MaxAttempts \in Nat

VARIABLES
    task,     \* the durable file of the task
    rows,     \* the durable session rows: life, attachment, created with the task
    holder,   \* the operation that holds the task's lock, and what it still writes
    absent,   \* history: sessions the executor was confirmed not to have
    dropping, \* an implicit task whose session could not be created is discarded
    age,      \* since the last activity: 0, 1 (continuation idle), 2 (sweep idle)
    backoff,  \* retry_after lies ahead
    held,     \* the claim each host holds, 0 for none
    issued,   \* claims issued so far
    sent,     \* history: claims validated for dispatch
    touched,  \* history: claims that saw activity before they were validated
    stops     \* stops so far

taskvars == <<task, rows, absent, holder, dropping, age, backoff, held, issued,
              sent, touched, stops>>

NoTask == [status |-> "absent", work |-> FALSE, count |-> 0,
           claim |-> 0, expired |-> FALSE, reserved |-> FALSE, attempts |-> 0]
NoRow == [life |-> "none", attached |-> FALSE, implicit |-> FALSE]
NoHolder == [op |-> "free", row |-> NoRow]

TaskInit ==
    /\ task = NoTask /\ rows = [s \in Slots |-> NoRow] /\ holder = NoHolder
    /\ absent = {} /\ dropping = FALSE /\ age = 0 /\ backoff = FALSE
    /\ held = [h \in Hosts |-> 0] /\ issued = 0 /\ sent = {} /\ touched = {}
    /\ stops = 0

Exists == task.status # "absent"
Terminal == task.status \in {"completed", "cancelled"}
Attached == {s \in Slots : rows[s].attached}
Unlocked == holder = NoHolder

History == UNCHANGED <<held, issued, sent, stops>>

\* Claims of a task that is gone are unknown to its successor.
NoClaims == /\ held' = [h \in Hosts |-> 0] /\ issued' = 0
            /\ sent' = {} /\ touched' = {}
Quiet == UNCHANGED <<age, backoff, touched>> /\ History

\* Variant: a claim survives activity.
Withdrawn_Kept(t) == t

\* Activity resets the clock and withdraws a claim that is not yet reserved.
Withdrawn(t) == IF t.reserved THEN t ELSE [t EXCEPT !.claim = 0, !.expired = FALSE]
Touch == /\ age' = 0 /\ UNCHANGED backoff
         /\ touched' = IF task.claim = 0 \/ task.reserved THEN touched
                       ELSE touched \cup {task.claim}

-----------------------------------------------------------------------------
(* The document                                                              *)

Create ==
    /\ Unlocked /\ ~Exists
    /\ task' = [NoTask EXCEPT !.status = "active"]
    /\ age' = 0 /\ backoff' = FALSE /\ UNCHANGED <<rows, absent, holder, dropping, touched>>
    /\ History

\* _mutate: a plan, a report or a status, which also counts as activity.
Mutate ==
    /\ Unlocked /\ Exists
    /\ \/ ~Terminal /\ \E w \in BOOLEAN : task' = [Withdrawn(task) EXCEPT !.work = w]
       \/ task.status = "active" /\ task' = [Withdrawn(task) EXCEPT !.status = "blocked"]
       \/ /\ task.status \in {"blocked", "completed"}
          /\ task' = [Withdrawn(task) EXCEPT !.status = "active"]
       \/ /\ task.status \in {"active", "blocked"} /\ ~task.work
          /\ task' = [Withdrawn(task) EXCEPT !.status = "completed"]
       \/ /\ task.status \in {"active", "blocked"}
          /\ task' = [Withdrawn(task) EXCEPT !.status = "cancelled"]
    /\ Touch /\ History /\ UNCHANGED <<rows, absent, holder, dropping>>

Observe ==
    /\ Unlocked /\ Exists
    /\ task' = Withdrawn(task) /\ Touch
    /\ History /\ UNCHANGED <<rows, absent, holder, dropping>>

\* A deletion, or the pruning of old terminal tasks: the rows are detached
\* first, then the file goes.
Remove ==
    /\ Unlocked /\ Terminal
    /\ \/ ~\E s \in Attached : rows[s].implicit /\ rows[s].life = "creating"
       \/ \A s \in Attached : rows[s].life \in {"ended", "gone"}
    /\ rows' = [s \in Slots |-> IF s \in Attached
                    THEN [rows[s] EXCEPT !.attached = FALSE, !.implicit = FALSE]
                    ELSE rows[s]]
    /\ holder' = [NoHolder EXCEPT !.op = "remove"]
    /\ UNCHANGED <<task, absent, dropping>> /\ Quiet

-----------------------------------------------------------------------------
(* The sessions                                                              *)

\* A session is admitted to the task, or a task is created for it: the count
\* is written first, the row second.  An implicit task is created with no
\* session and then counts this one; the two writes are one step here, as what
\* lies between them is a state that Create reaches.
AdmitSession(s, implicit) ==
    /\ Unlocked /\ rows[s] = NoRow /\ task.count < MaxAdmitted
    /\ IF implicit THEN ~Exists ELSE Exists /\ ~Terminal
    /\ task' = IF implicit THEN [NoTask EXCEPT !.status = "active", !.count = 1]
                           ELSE [task EXCEPT !.count = @ + 1]
    /\ holder' = [op |-> s, row |-> [life |-> "creating", attached |-> TRUE,
                                     implicit |-> implicit]]
    /\ age' = (IF implicit THEN 0 ELSE age)
    /\ backoff' = (IF implicit THEN FALSE ELSE backoff)
    /\ UNCHANGED <<rows, absent, dropping, touched>> /\ History

PutRow ==
    /\ holder.op \in Slots
    /\ rows' = [rows EXCEPT ![holder.op] = holder.row]
    /\ holder' = NoHolder /\ UNCHANGED <<task, absent, dropping>> /\ Quiet

\* What becomes of a session: while its create is awaited, a hello may report it;
\* it ends, confirmed or by force; and a forced end whose call fails after a hello
\* has confirmed the absence takes the confirmation back.
LifeChanges == {<<"creating", "reported">>, <<"creating", "live">>,
                <<"reported", "live">>, <<"live", "ended">>, <<"live", "gone">>,
                <<"gone", "ended">>}

Lives(s, from, to) ==
    /\ rows[s].life = from /\ rows' = [rows EXCEPT ![s].life = to]
    /\ absent' = IF to = "gone" THEN absent \cup {s} ELSE absent
    /\ UNCHANGED <<task, holder, dropping>> /\ Quiet

\* A create that definitely failed: the row goes first; the count follows, or the
\* task that was created for it.  Only the explicit attachment asks whether the row
\* is still being created.  A row a hello reported may have lost its task since.
FailCreate(s) ==
    /\ \/ /\ rows[s].life = "creating" /\ ~rows[s].implicit /\ Unlocked
          /\ holder' = [NoHolder EXCEPT !.op = IF rows[s].attached THEN "uncount" ELSE "free"]
          /\ UNCHANGED dropping
       \/ /\ rows[s].life \in {"creating", "reported"} /\ rows[s].implicit
          /\ dropping' = TRUE /\ UNCHANGED holder
       \/ /\ rows[s].life = "reported" /\ ~rows[s].attached
          /\ UNCHANGED <<holder, dropping>>
    /\ rows' = [rows EXCEPT ![s] = NoRow]
    /\ UNCHANGED <<task, absent>> /\ Quiet

SecondWrite ==
    /\ \/ /\ holder.op = "uncount"
          /\ task' = [task EXCEPT !.count = IF @ > 0 THEN @ - 1 ELSE 0]
          /\ Quiet /\ UNCHANGED dropping
       \/ /\ holder.op = "remove" /\ task' = NoTask /\ dropping' = FALSE
          /\ NoClaims /\ UNCHANGED <<age, backoff, stops>>
    /\ holder' = NoHolder /\ UNCHANGED <<rows, absent>>

DiscardImplicit ==
    /\ dropping /\ Unlocked /\ dropping' = FALSE
    /\ IF Attached = {}
       THEN task' = NoTask /\ NoClaims /\ UNCHANGED <<age, backoff, stops>>
       ELSE UNCHANGED task /\ Quiet
    /\ UNCHANGED <<rows, absent, holder>>

-----------------------------------------------------------------------------
(* The idle sweep reads the rows under the task's lock and then decides.     *)

Over(s) == rows[s].life = "gone"

\* Variant: as many rows as were counted are taken for idle ones.
SweepReads_CountsOnly ==
    /\ Unlocked /\ task.status = "active" /\ age = 2
    /\ task.claim = 0 \/ task.expired
    /\ task.count = Cardinality(Attached)
    /\ task' = Withdrawn([task EXCEPT !.reserved = FALSE])
    /\ holder' = [NoHolder EXCEPT !.op = "sweep"]
    /\ UNCHANGED <<rows, absent, dropping>> /\ Quiet

SweepReads ==
    /\ Unlocked /\ task.status = "active" /\ age = 2
    /\ task.claim = 0 \/ task.expired
    /\ task.count = Cardinality(Attached) /\ \A s \in Attached : Over(s)
    /\ task' = Withdrawn([task EXCEPT !.reserved = FALSE])
    /\ holder' = [NoHolder EXCEPT !.op = "sweep"]
    /\ UNCHANGED <<rows, absent, dropping>> /\ Quiet

SweepWrites ==
    /\ holder.op = "sweep"
    /\ task' = [task EXCEPT !.status = "blocked"]
    /\ holder' = NoHolder /\ age' = 0
    /\ UNCHANGED <<rows, absent, dropping, backoff, touched>> /\ History

-----------------------------------------------------------------------------
(* The continuation                                                          *)

Expired == task.claim # 0 /\ task.expired
Cleared(t) == [t EXCEPT !.claim = 0, !.expired = FALSE, !.reserved = FALSE]
Current == IF Expired THEN Cleared(task) ELSE task

Eligible == /\ Current.status = "active" /\ Current.work /\ Current.claim = 0
            /\ Current.attempts < MaxAttempts /\ age > 0 /\ ~backoff

Claim(h) ==
    /\ Unlocked /\ Exists /\ held[h] = 0 /\ Eligible /\ issued < MaxClaims
    /\ issued' = issued + 1 /\ held' = [held EXCEPT ![h] = issued']
    /\ task' = [Current EXCEPT !.claim = issued']
    /\ UNCHANGED <<rows, absent, holder, dropping, age, backoff, sent, touched, stops>>

MayDispatch(c) == /\ Current.claim = c /\ Current.status = "active" /\ Current.work
                  /\ Current.reserved \/ Current.attempts < MaxAttempts
                  /\ age > 0

Validate(h) ==
    /\ Unlocked /\ Exists /\ held[h] # 0
    /\ LET c == held[h] IN
       \/ /\ MayDispatch(c) /\ sent' = sent \cup {c} /\ UNCHANGED held
          /\ task' = IF Current.reserved THEN Current
                     ELSE [Current EXCEPT !.reserved = TRUE, !.attempts = @ + 1]
       \/ /\ ~MayDispatch(c) /\ held' = [held EXCEPT ![h] = 0] /\ UNCHANGED sent
          /\ task' = IF Current.claim = c THEN Cleared(Current) ELSE Current
    /\ UNCHANGED <<rows, absent, holder, dropping, age, backoff, issued, touched, stops>>

\* The host reports whether its dispatch was accepted; if not, a back-off.
Report(h, accepted) ==
    /\ Unlocked /\ Exists /\ held[h] \in sent
    /\ held' = [held EXCEPT ![h] = 0]
    /\ IF task.claim = held[h]
       THEN /\ task' = Cleared(task)
            /\ age' = (IF accepted THEN 0 ELSE age) /\ backoff' = ~accepted
       ELSE UNCHANGED <<task, age, backoff>>
    /\ UNCHANGED <<rows, absent, holder, dropping, issued, sent, touched, stops>>

-----------------------------------------------------------------------------
(* Time and stops                                                            *)

Elapse ==
    /\ \/ age < 2 /\ age' = age + 1 /\ UNCHANGED <<task, backoff>>
       \/ backoff /\ backoff' = FALSE /\ UNCHANGED <<task, age>>
       \/ /\ Unlocked /\ task.claim # 0 /\ ~task.expired
          /\ task' = [task EXCEPT !.expired = TRUE] /\ UNCHANGED <<age, backoff>>
    /\ UNCHANGED <<rows, absent, holder, dropping, touched>> /\ History

Stop ==
    /\ ~Unlocked \/ dropping
    /\ stops < MaxStops /\ stops' = stops + 1
    /\ holder' = NoHolder /\ dropping' = FALSE
    /\ UNCHANGED <<task, rows, absent, age, backoff, touched, held, issued, sent>>

TaskNext ==
    \/ Create \/ Mutate \/ Observe \/ Remove \/ PutRow \/ SecondWrite
    \/ DiscardImplicit \/ SweepReads \/ SweepWrites \/ Elapse \/ Stop
    \/ \E s \in Slots : \/ \E implicit \in BOOLEAN : AdmitSession(s, implicit)
                        \/ \E c \in LifeChanges : Lives(s, c[1], c[2])
                        \/ FailCreate(s)
    \/ \E h \in Hosts : \/ Claim(h) \/ Validate(h)
                        \/ \E accepted \in BOOLEAN : Report(h, accepted)

TaskSpec == TaskInit /\ [][TaskNext]_taskvars

-----------------------------------------------------------------------------
(* Properties                                                                *)

\* The stored count of attachments is never below the rows that name the task,
\* at whichever write Control stopped: "a conservative overcount, never an
\* unsafe undercount".
CountIsConservative == task.count >= Cardinality(Attached)

\* A row never names a task that is gone.
AttachedTaskExists == Attached # {} => Exists

\* However many hosts claim, retry or let claims expire, a task is continued at
\* most MaxAttempts times in its life, and a claim that saw activity before it
\* was validated is never dispatched.
DispatchesAreBounded == /\ Cardinality(sent) <= MaxAttempts
                        /\ sent \cap touched = {}

TaskInv == CountIsConservative /\ AttachedTaskExists /\ DispatchesAreBounded

\* The sweep blocks a task only when every session that names it has ended and the
\* executor was found not to have it, although rows change without the task's lock
\* and a forced end may take the confirmation back while the sweep decides.
SweepBlocksTheIdle ==
    [][holder.op = "sweep" /\ task'.status = "blocked"
        => \A s \in Attached : s \in absent /\ rows[s].life \in {"ended", "gone"}]_taskvars
=============================================================================
