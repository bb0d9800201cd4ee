----------------------------- MODULE JobsProofs -----------------------------
(***************************************************************************)
(* Proofs about what is started and has to end: the managed jobs of        *)
(* Control (ManagedJobs), the shell-backed jobs of an executor session     *)
(* (ShellJobs) and shell commands with a time limit (BoundedCommand).  For *)
(* every set of requests and of processes, any number of attempts,         *)
(* crashes, closes, cancellations and deferred updates.                    *)
(***************************************************************************)
EXTENDS ManagedJobs, ShellJobs, BoundedCommand, FiniteSetTheorems, WellFoundedInduction,
        TLAPS

-----------------------------------------------------------------------------
(* Managed jobs: the journal                                                 *)

LEMMA LeastExists ==
    ASSUME NEW S \in SUBSET Nat, S # {}
    PROVE  \E x \in S : \A y \in S : x <= y
  <1>. DEFINE R == {p \in Nat \X Nat : p[1] < p[2]}
  <1>1. IsWellFoundedOn(R, Nat)
    BY NatLessThanWellFounded DEF OpToRel
  <1>2. PICK x \in S : \A y \in S : ~(<<y, x>> \in R)
    <2>. HIDE DEF R
    <2>. QED  BY <1>1, WFMin
  <1>3. ASSUME NEW y \in S PROVE x <= y
    <2>1. x \in Nat /\ y \in Nat /\ ~(y < x)
      BY <1>2
    <2>. QED  BY <2>1
  <1>. QED  BY <1>3

JournalEntries == [attempt : 1..MaxAttempts, applied : BOOLEAN,
                   status : {"succeeded", "failed", "stopped"}]

\* The oldest deferred update is one of them.
LEMMA OldestIsPending ==
    ASSUME journal \in Seq(JournalEntries), Pending # {}
    PROVE  \E i \in Pending : Oldest = journal[i] /\ Oldest \in JournalEntries
  <1>1. Pending \in SUBSET Nat
    BY DEF Pending
  <1>2. \E i \in Pending : \A k \in Pending : i <= k
    BY <1>1, LeastExists
  <1>3. PICK i \in Pending : i = CHOOSE m \in Pending : \A k \in Pending : m <= k
    BY <1>2
  <1>4. Oldest = journal[i] /\ i \in DOMAIN journal
    BY <1>3 DEF Oldest, Pending
  <1>. QED  BY <1>4

-----------------------------------------------------------------------------
(* Managed jobs: what holds in every state                                   *)

\* The requests that are starting or retrying an attempt, or undoing that.
Busy == {"launch", "commit", "adopt", "undo", "unwind"}

OneAtATime == \A x, y \in Calls : x # y => ~(call[x].pc \in Busy /\ call[y].pc \in Busy)

\* What a request knows while others run.
CallKnows(x) ==
    /\ loop = x => call[x].pc \in Busy
    /\ call[x].pc \in {"launch", "commit", "adopt"} => loop = x
    /\ call[x].pc = "launch" => TaskDone /\ lease /\ row.attempt = 1
    /\ call[x].pc = "commit" => TaskDone /\ lease /\ row.attempt \in 1..(MaxAttempts - 1)
    /\ call[x].pc \in {"undo", "unwind"} => TaskDone \/ task.attempt = call[x].attempt

\* ... as long as no task was cancelled while it awaited its last write.
CoveredCall(x) ==
    /\ call[x].pc = "launch" => Active(row) /\ Pending = {}
    /\ call[x].pc = "commit" => Pending = {}
    /\ call[x].pc = "stopping" /\ row.status = "stopping" /\ row.op = x =>
         call[x].attempt = row.attempt

\* Updates on their way are about the attempt of the row and of the task, and until
\* the attempt's own there are none.
UpdatesAreOwn ==
    /\ \A i \in Pending : journal[i].attempt = row.attempt
    /\ \A u \in writers : u.attempt = task.attempt /\ task.stage = "ending"
    /\ ~TaskDone => row.attempt = task.attempt
    /\ task.stage \in {"created", "running", "logging"} => Active(row) /\ Pending = {}

Covered == UpdatesAreOwn /\ (\A x \in Calls : CoveredCall(x)) /\ ~misfiled

TaskIsNumbered ==
    /\ TaskDone <=> task.attempt = 0
    /\ task.stage = "logging" => task.status # "none"

ManagedSound ==
    /\ TypeOK /\ OneAtATime /\ TaskIsNumbered
    /\ TaskDone \/ lease
    /\ row.status = "absent" => row.attempt = 0 /\ TaskDone
    /\ \A x \in Calls : CallKnows(x)

ManagedIInv == ManagedSound /\ (aborted \/ Covered)

-----------------------------------------------------------------------------
(* Managed jobs: rows and transactions                                       *)

Rows == [status : {"absent"} \cup ActiveStatuses \cup TerminalStatuses,
         attempt : 0..MaxAttempts, op : Calls \cup {NoCall}]
Tasks == [attempt : 0..MaxAttempts, cancel : BOOLEAN,
          stage : {"none", "created", "running", "logging", "ending"},
          status : {"none", "succeeded", "failed", "stopped"}]
CallRecords == [pc : {"idle", "launch", "stopping", "commit", "adopt", "undo", "unwind"},
                attempt : 0..MaxAttempts]

LEMMA ManagedTypes ==
    TypeOK <=> /\ row \in Rows /\ journal \in Seq(JournalEntries) /\ task \in Tasks
               /\ lease \in BOOLEAN /\ writers \subseteq Update /\ ops \subseteq Calls
               /\ call \in [Calls -> CallRecords] /\ loop \in Calls \cup {NoCall}
               /\ closed \in BOOLEAN /\ misfiled \in BOOLEAN /\ aborted \in BOOLEAN
               /\ crashes \in 0..MaxCrashes
  BY DEF TypeOK, Rows, JournalEntries, Tasks, CallRecords

\* What becomes of a row that is only looked at: nothing, or an active one ends.
Ages(r, s) ==
    /\ r \in Rows /\ s \in Rows /\ s.attempt = r.attempt
    /\ s = r \/ (Active(r) /\ s.status \in TerminalStatuses /\ s.op = NoCall)

LEMMA AgesFacts ==
    /\ \A r, s, z : Ages(r, s) /\ Ages(s, z) => Ages(r, z)
    /\ \A r, s : Ages(r, s) /\ Active(s) => r = s
    /\ \A r, s : Ages(r, s) /\ r.status = "absent" => s = r
    /\ \A r, s : Ages(r, s) /\ s.status = "absent" => s = r
  BY DEF Ages, Active, ActiveStatuses, TerminalStatuses

LEMMA CompletedAges ==
    ASSUME NEW r \in Rows, Active(r), NEW s \in TerminalStatuses
    PROVE  Ages(r, Completed(r, s)) /\ Completed(r, s).status = s
  BY DEF Rows, Ages, Completed

LEMMA FinishedAges ==
    ASSUME NEW r \in Rows, NEW u, u.status \in {"succeeded", "failed", "stopped"}
    PROVE  Ages(r, Finished(r, u)) /\ ~Active(Finished(r, u))
  <1>1. CASE Active(r)
    <2>1. Ages(r, Completed(r, u.status)) /\ Completed(r, u.status).status = u.status
      BY <1>1, CompletedAges DEF TerminalStatuses
    <2>2. Finished(r, u) = Completed(r, u.status)
      BY <1>1 DEF Finished
    <2>. QED  BY <2>1, <2>2 DEF Active, ActiveStatuses
  <1>2. CASE ~Active(r)
    BY <1>2 DEF Finished, Ages
  <1>. QED  BY <1>1, <1>2

LEMMA ReplayedAges ==
    ASSUME row \in Rows, journal \in Seq(JournalEntries)
    PROVE  Ages(row, Replayed) /\ (Pending = {} => Replayed = row)
  <1>1. CASE Pending = {}
    BY <1>1 DEF Replayed, Ages
  <1>2. CASE Pending # {}
    <2>1. Oldest.status \in {"succeeded", "failed", "stopped"}
      BY <1>2, OldestIsPending DEF JournalEntries
    <2>. QED  BY <1>2, <2>1, FinishedAges DEF Replayed
  <1>. QED  BY <1>1, <1>2

LEMMA RefreshedAges ==
    ASSUME NEW r \in Rows
    PROVE  Ages(r, Refreshed(r)) /\ (~LooksDead => Refreshed(r) = r)
  <1>1. CASE Active(r) /\ r.op \notin ops /\ LooksDead
    <2>1. PICK s \in TerminalStatuses : s = IF r.status = "stopping" THEN "stopped" ELSE "lost"
      BY DEF TerminalStatuses
    <2>2. Refreshed(r) = Completed(r, s)
      BY <1>1, <2>1 DEF Refreshed
    <2>. QED  BY <1>1, <2>2, CompletedAges
  <1>2. CASE ~(Active(r) /\ r.op \notin ops /\ LooksDead)
    <2>1. Refreshed(r) = r
      BY <1>2 DEF Refreshed
    <2>. QED  BY <2>1 DEF Ages
  <1>. QED  BY <1>1, <1>2

\* The row as a transaction finds it.
LEMMA LookedAges ==
    ASSUME row \in Rows, journal \in Seq(JournalEntries)
    PROVE  /\ Ages(row, Replayed) /\ Ages(row, Refreshed(Replayed))
           /\ Pending = {} => Replayed = row
           /\ Pending = {} /\ ~LooksDead => Refreshed(Replayed) = row
  <1>1. Ages(row, Replayed) /\ (Pending = {} => Replayed = row)
    BY ReplayedAges
  <1>2. Replayed \in Rows
    BY <1>1 DEF Ages
  <1>. QED  BY <1>1, <1>2, RefreshedAges, AgesFacts

\* A replay is about the row's attempt when the updates are.
LEMMA ReplayIsOwn ==
    ASSUME row \in Rows, journal \in Seq(JournalEntries),
           \A i \in Pending : journal[i].attempt = row.attempt
    PROVE  ~ReplayMisfiles
  <1>1. CASE Pending = {}
    BY <1>1 DEF ReplayMisfiles, Replayed
  <1>2. CASE Pending # {}
    BY <1>2, OldestIsPending DEF ReplayMisfiles
  <1>. QED  BY <1>1, <1>2

LEMMA StoresFacts ==
    ASSUME journal \in Seq(JournalEntries), NEW r, Stores(r)
    PROVE  row' = r /\ journal' \in Seq(JournalEntries) /\ Pending' = {}
  <1>1. CASE journal' = <<>>
    BY <1>1 DEF Stores, Pending
  <1>2. CASE journal' = [i \in DOMAIN journal |-> [journal[i] EXCEPT !.applied = TRUE]]
    <2>1. /\ Len(journal) \in Nat /\ DOMAIN journal = 1..Len(journal)
          /\ \A i \in DOMAIN journal : journal[i] \in JournalEntries
      OBVIOUS
    <2>2. \A i \in DOMAIN journal : /\ [journal[i] EXCEPT !.applied = TRUE] \in JournalEntries
                                    /\ [journal[i] EXCEPT !.applied = TRUE].applied
      BY <2>1 DEF JournalEntries
    <2>3. journal' \in Seq(JournalEntries)
      BY <1>2, <2>1, <2>2
    <2>4. \A i \in DOMAIN journal' : journal'[i].applied
      BY <1>2, <2>2
    <2>. QED  BY <2>3, <2>4 DEF Stores, Pending
  <1>. QED  BY <1>1, <1>2 DEF Stores

-----------------------------------------------------------------------------
(* Managed jobs: the start, and the steps of the task                        *)

LEMMA ManagedStart == Init => ManagedIInv
  <1>. SUFFICES ASSUME Init PROVE ManagedIInv
    OBVIOUS
  <1>1. TypeOK
    <2>1. /\ 0 \in 0..MaxAttempts /\ 0 \in 0..MaxCrashes
          /\ journal \in Seq([attempt : 1..MaxAttempts, applied : BOOLEAN,
                               status : {"succeeded", "failed", "stopped"}])
      BY MaxAttemptsAssumption, MaxCrashesAssumption DEF Init
    <2>. QED  BY <2>1 DEF Init, TypeOK, NoTask, Idle
  <1>2. Pending = {} /\ TaskDone
    BY DEF Init, Pending, TaskDone, NoTask
  <1>3. \A x \in Calls : call[x].pc = "idle" /\ loop # x
    BY NoCallAssumption DEF Init, Idle
  <1>4. ManagedSound
    BY <1>1, <1>2, <1>3 DEF ManagedSound, OneAtATime, CallKnows, Busy, TaskIsNumbered, Init,
       NoTask
  <1>5. Covered
    BY <1>2, <1>3 DEF Covered, UpdatesAreOwn, CoveredCall, Init, NoTask
  <1>. QED  BY <1>4, <1>5 DEF ManagedIInv

\* What is left to show of a step that leaves the rows, the journal and the calls alone.
LEMMA AsideStep ==
    ASSUME ManagedSound, UNCHANGED <<row, journal, call, ops, loop, crashes, misfiled>>,
           LoopFree, task' \in Tasks, lease' \in BOOLEAN, closed' \in BOOLEAN,
           aborted' \in BOOLEAN, writers' \subseteq Update,
           TaskIsNumbered', TaskDone' \/ (lease' /\ task'.attempt = task.attempt),
           TaskDone => TaskDone'
    PROVE  ManagedSound' /\ (Covered /\ UpdatesAreOwn' => Covered')
  <1>1. TypeOK'
    BY DEF ManagedSound, TypeOK, Tasks
  <1>2. \A x \in Calls : CallKnows(x)'
    BY NoCallAssumption DEF ManagedSound, CallKnows, LoopFree
  <1>3. ManagedSound'
    BY <1>1, <1>2 DEF ManagedSound, OneAtATime
  <1>4. \A x \in Calls : CoveredCall(x) => CoveredCall(x)'
    BY DEF CoveredCall, Active, Pending
  <1>. QED  BY <1>3, <1>4 DEF Covered

LEMMA TaskKeeps == ASSUME ManagedIInv, TaskStep PROVE ManagedIInv'
  <1>1. ManagedSound /\ task \in Tasks /\ writers \subseteq Update /\ lease \in BOOLEAN
        /\ closed \in BOOLEAN /\ aborted \in BOOLEAN
    BY ManagedTypes DEF ManagedIInv, ManagedSound
  <1>2. /\ LoopFree /\ ~TaskDone /\ lease
        /\ task.attempt \in 1..MaxAttempts
        /\ UNCHANGED <<row, journal, call, ops, loop, crashes, misfiled, closed>>
    <2>1. /\ LoopFree /\ task.stage # "none"
          /\ UNCHANGED <<row, journal, call, ops, loop, crashes, misfiled, closed>>
      BY DEF TaskStep, TaskRuns, TaskNeverRuns, HandlerSucceeds, HandlerStops, Logged, TaskEnds
    <2>. QED  BY <1>1, <2>1, MaxAttemptsAssumption DEF ManagedSound, TaskDone, TaskIsNumbered,
                 Tasks
  <1>3. CASE TaskRuns \/ HandlerStops
    <2>1. /\ task' \in Tasks /\ task'.attempt = task.attempt
          /\ task.stage \in {"created", "running"} /\ task'.stage \in {"running", "logging"}
          /\ task'.stage = "logging" => task'.status # "none"
          /\ UNCHANGED <<lease, writers, aborted>>
      BY <1>1, <1>3 DEF TaskRuns, HandlerStops, Tasks
    <2>2. ~TaskDone' /\ TaskIsNumbered'
      BY <1>2, <2>1 DEF TaskDone, TaskIsNumbered
    <2>3. ManagedSound' /\ (Covered /\ UpdatesAreOwn' => Covered')
      BY <1>1, <1>2, <2>1, <2>2, AsideStep
    <2>4. ASSUME Covered PROVE UpdatesAreOwn'
      <3>1. Active(row)' = Active(row) /\ Pending' = Pending
        BY <1>2 DEF Active, Pending
      <3>. QED  BY <1>2, <2>1, <2>4, <3>1 DEF Covered, UpdatesAreOwn, TaskDone
    <2>. QED  BY <2>1, <2>3, <2>4 DEF ManagedIInv
  <1>4. CASE HandlerSucceeds \/ Logged
    <2>1. PICK status \in {"succeeded", "failed", "stopped"} :
            /\ task' = [task EXCEPT !.stage = "ending", !.status = status]
            /\ writers' = writers \cup {[attempt |-> task.attempt, status |-> status]}
            /\ task.stage \in {"running", "logging"} /\ UNCHANGED <<lease, aborted>>
      <3>1. CASE HandlerSucceeds
        BY <3>1 DEF HandlerSucceeds, Writes
      <3>2. CASE Logged
        <4>1. task.status \in {"succeeded", "failed", "stopped"}
          BY <1>1, <3>2 DEF Logged, Tasks, ManagedSound, TaskIsNumbered
        <4>. QED  BY <3>2, <4>1 DEF Logged, Writes
      <3>. QED  BY <1>4, <3>1, <3>2
    <2>2. /\ task' \in Tasks /\ task'.attempt = task.attempt /\ task'.stage = "ending"
          /\ writers' \subseteq Update
      <3>1. task' = [attempt |-> task.attempt, cancel |-> task.cancel, stage |-> "ending",
                     status |-> status]
        BY <1>1, <2>1 DEF Tasks
      <3>2. [attempt |-> task.attempt, status |-> status] \in Update
        BY <1>2, <2>1 DEF Update
      <3>. QED  BY <1>1, <2>1, <3>1, <3>2 DEF Tasks
    <2>3. ~TaskDone' /\ TaskIsNumbered'
      BY <1>2, <2>2 DEF TaskDone, TaskIsNumbered
    <2>4. ManagedSound' /\ (Covered /\ UpdatesAreOwn' => Covered')
      BY <1>1, <1>2, <2>1, <2>2, <2>3, AsideStep
    <2>5. ASSUME Covered PROVE UpdatesAreOwn'
      <3>1. Pending' = Pending
        BY <1>2 DEF Pending
      <3>. QED  BY <1>2, <2>1, <2>2, <2>5, <3>1 DEF Covered, UpdatesAreOwn, TaskDone
    <2>. QED  BY <2>1, <2>4, <2>5 DEF ManagedIInv
  <1>5. CASE TaskNeverRuns \/ TaskEnds
    <2>1. /\ task' = NoTask /\ lease' \in BOOLEAN /\ UNCHANGED writers
          /\ aborted' = aborted \/ aborted' = TRUE
          /\ aborted' => aborted \/ aborted'
          /\ ~aborted' => ~Unwritten \/ task.stage = "created"
      BY <1>1, <1>5 DEF TaskNeverRuns, TaskEnds
    <2>2. task' \in Tasks /\ TaskDone' /\ TaskIsNumbered' /\ aborted' \in BOOLEAN
      <3>1. 0 \in 0..MaxAttempts
        BY MaxAttemptsAssumption
      <3>. QED  BY <1>1, <2>1, <3>1 DEF NoTask, Tasks, TaskDone, TaskIsNumbered
    <2>3. ManagedSound' /\ (Covered /\ UpdatesAreOwn' => Covered')
      BY <1>1, <1>2, <2>1, <2>2, AsideStep
    <2>4. ASSUME Covered, ~aborted' PROVE UpdatesAreOwn'
      <3>1. writers = {}
        BY <2>1, <2>4 DEF Covered, UpdatesAreOwn, Unwritten
      <3>2. Pending' = Pending
        BY <1>2 DEF Pending
      <3>. QED  BY <1>2, <2>1, <2>2, <2>4, <3>1, <3>2 DEF Covered, UpdatesAreOwn, TaskDone
    <2>. QED  BY <2>1, <2>3, <2>4 DEF ManagedIInv
  <1>. QED  BY <1>3, <1>4, <1>5 DEF TaskStep

-----------------------------------------------------------------------------
(* Managed jobs: the threads, the close and the crash                        *)

\* What is left to show of a step that is no request's and leaves the task alone.
LEMMA ThreadStep ==
    ASSUME ManagedSound, UNCHANGED <<task, lease, call, loop, closed, crashes, aborted>>,
           Ages(row, row'), journal' \in Seq(JournalEntries), ops' \subseteq Calls,
           misfiled' \in BOOLEAN, writers' \subseteq writers
    PROVE  /\ ManagedSound'
           /\ (/\ Covered /\ ~misfiled' /\ (Pending' = {} \/ task.stage = "ending")
               /\ \A i \in Pending' : journal'[i].attempt = row.attempt
               /\ task.stage # "ending" /\ lease /\ Pending = {} => row' = row) => Covered'
  <1>1. TypeOK'
    BY DEF ManagedSound, TypeOK, Ages, Rows, JournalEntries
  <1>2. row'.attempt = row.attempt /\ (row'.status = "absent" => row.status = "absent")
    BY AgesFacts DEF Ages
  <1>3. \A x \in Calls : CallKnows(x)'
    BY <1>2 DEF ManagedSound, CallKnows, TaskDone
  <1>4. ManagedSound'
    BY <1>1, <1>2, <1>3 DEF ManagedSound, OneAtATime, TaskIsNumbered, TaskDone
  <1>5. ASSUME Covered, ~misfiled', Pending' = {} \/ task.stage = "ending",
               \A i \in Pending' : journal'[i].attempt = row.attempt,
               task.stage # "ending" /\ lease /\ Pending = {} => row' = row
        PROVE  Covered'
    <2>1. TaskDone \/ lease
      BY DEF ManagedSound
    <2>2. UpdatesAreOwn'
      BY <1>2, <1>5, <2>1 DEF Covered, UpdatesAreOwn, TaskDone, Active
    <2>3. ASSUME NEW x \in Calls PROVE CoveredCall(x)'
      <3>1. CallKnows(x) /\ CoveredCall(x)
        BY <1>5 DEF ManagedSound, Covered
      <3>2. CASE call[x].pc \in {"launch", "commit"}
        <4>1. task.stage # "ending" /\ lease /\ Pending = {}
          BY <3>1, <3>2 DEF CallKnows, CoveredCall, TaskDone
        <4>2. row' = row /\ Pending' = {}
          BY <1>5, <4>1
        <4>. QED  BY <3>1, <3>2, <4>2 DEF CoveredCall, Active
      <3>3. CASE call[x].pc \notin {"launch", "commit"}
        <4>1. row'.status = "stopping" => row' = row
          BY DEF Ages, TerminalStatuses
        <4>. QED  BY <3>1, <3>3, <4>1 DEF CoveredCall
      <3>. QED  BY <3>2, <3>3
    <2>. QED  BY <1>5, <2>2, <2>3 DEF Covered
  <1>. QED  BY <1>4, <1>5

LEMMA ManagedFacts ==
    ASSUME ManagedSound
    PROVE  /\ row \in Rows /\ journal \in Seq(JournalEntries) /\ task \in Tasks
           /\ call \in [Calls -> CallRecords] /\ ops \subseteq Calls
           /\ writers \subseteq Update /\ misfiled \in BOOLEAN /\ lease \in BOOLEAN
           /\ Ages(row, Replayed) /\ Ages(row, Refreshed(Replayed))
           /\ Pending = {} => Replayed = row
           /\ Pending = {} /\ ~LooksDead => Refreshed(Replayed) = row
           /\ ReplayMisfiles \in BOOLEAN
           /\ Covered => ~ReplayMisfiles /\ ~misfiled
           /\ \A i \in Pending : journal[i].attempt \in 1..MaxAttempts
  <1>1. TypeOK
    BY DEF ManagedSound
  <1>2. row \in Rows /\ journal \in Seq(JournalEntries)
    BY <1>1, ManagedTypes
  <1>3. Covered => ~ReplayMisfiles /\ ~misfiled
    BY <1>2, ReplayIsOwn DEF Covered, UpdatesAreOwn
  <1>4. \A i \in Pending : journal[i].attempt \in 1..MaxAttempts
    <2>1. \A i \in DOMAIN journal : journal[i] \in JournalEntries
      BY <1>2
    <2>. QED  BY <2>1 DEF Pending, JournalEntries
  <1>5. ReplayMisfiles \in BOOLEAN
    BY DEF ReplayMisfiles
  <1>. QED  BY <1>1, <1>2, <1>3, <1>4, <1>5, ManagedTypes, LookedAges

LEMMA ObserveKeeps == ASSUME ManagedIInv, Observe PROVE ManagedIInv'
  <1>1. ManagedSound
    BY DEF ManagedIInv
  <1>2. /\ row' = Refreshed(Replayed) /\ journal' \in Seq(JournalEntries) /\ Pending' = {}
        /\ UNCHANGED <<task, lease, writers, call, loop, closed, crashes, aborted>>
    BY <1>1, ManagedFacts, StoresFacts DEF Observe
  <1>3. ops' \subseteq Calls /\ misfiled' \in BOOLEAN /\ (Covered => ~misfiled')
    BY <1>1, ManagedFacts DEF Observe
  <1>4. ~(task.stage # "ending" /\ lease /\ Pending = {}) \/ row' = row
    BY <1>1, <1>2, ManagedFacts DEF LooksDead
  <1>. QED  BY <1>1, <1>2, <1>3, <1>4, ManagedFacts, ThreadStep DEF ManagedIInv

LEMMA WriterKeeps == ASSUME ManagedIInv, WriterStep PROVE ManagedIInv'
  <1>1. ManagedSound
    BY DEF ManagedIInv
  <1>2. PICK u \in Update : u \in writers /\ (WriterCommits(u) \/ WriterDefers(u))
    BY DEF WriterStep, WriterCommits, WriterDefers
  <1>3. u.status \in {"succeeded", "failed", "stopped"} /\ u.attempt \in 1..MaxAttempts
    BY <1>2 DEF Update
  <1>4. Covered => u.attempt = row.attempt /\ task.stage = "ending"
    BY <1>2 DEF Covered, UpdatesAreOwn, TaskDone
  <1>5. CASE WriterCommits(u)
    <2>1. /\ row' = Finished(Replayed, u) /\ journal' \in Seq(JournalEntries) /\ Pending' = {}
          /\ UNCHANGED <<task, lease, call, loop, closed, crashes, aborted>>
          /\ writers' \subseteq writers
      BY <1>1, <1>5, ManagedFacts, StoresFacts DEF WriterCommits
    <2>2. Ages(row, row')
      <3>1. Replayed \in Rows /\ Ages(row, Replayed)
        BY <1>1, ManagedFacts DEF Ages
      <3>2. Ages(Replayed, Finished(Replayed, u))
        BY <1>3, <3>1, FinishedAges
      <3>. QED  BY <2>1, <3>1, <3>2, AgesFacts
    <2>3. Misfiles(Replayed, u) \in BOOLEAN /\ (Covered => ~Misfiles(Replayed, u))
      <3>1. Replayed.attempt = row.attempt
        BY <1>1, ManagedFacts DEF Ages
      <3>. QED  BY <1>4, <3>1 DEF Misfiles, Active
    <2>4. ops' \subseteq Calls /\ misfiled' \in BOOLEAN /\ (Covered => ~misfiled')
      BY <1>1, <1>5, <2>3, ManagedFacts DEF WriterCommits
    <2>. QED  BY <1>1, <1>4, <2>1, <2>2, <2>4, ThreadStep DEF ManagedIInv
  <1>6. CASE WriterDefers(u)
    <2>1. PICK e \in JournalEntries : journal' = Append(journal, e) /\ e.attempt = u.attempt
      <3>1. [attempt |-> u.attempt, status |-> u.status, applied |-> FALSE] \in JournalEntries
        BY <1>3 DEF JournalEntries
      <3>. QED  BY <1>6, <3>1 DEF WriterDefers
    <2>2. /\ journal' \in Seq(JournalEntries) /\ Ages(row, row') /\ row' = row
          /\ UNCHANGED <<task, lease, call, loop, closed, crashes, aborted, ops, misfiled>>
          /\ writers' \subseteq writers
      BY <1>1, <1>6, <2>1, ManagedFacts DEF WriterDefers, Ages
    <2>3. Covered => \A i \in Pending' : journal'[i].attempt = row.attempt
      <3>. SUFFICES ASSUME Covered, NEW i \in Pending'
                    PROVE  journal'[i].attempt = row.attempt
        OBVIOUS
      <3>1. journal \in Seq(JournalEntries)
        BY <1>1, ManagedFacts
      <3>2. i \in 1..(Len(journal) + 1) /\ ~journal'[i].applied
        BY <2>1, <3>1 DEF Pending
      <3>3. CASE i = Len(journal) + 1
        BY <1>4, <2>1, <3>1, <3>3
      <3>4. CASE i # Len(journal) + 1
        <4>1. i \in 1..Len(journal) /\ journal'[i] = journal[i]
          BY <2>1, <3>1, <3>2, <3>4
        <4>2. i \in Pending
          BY <3>1, <3>2, <4>1 DEF Pending
        <4>. QED  BY <4>1, <4>2 DEF Covered, UpdatesAreOwn
      <3>. QED  BY <3>3, <3>4
    <2>4. ops' \subseteq Calls /\ misfiled' \in BOOLEAN /\ (Covered => ~misfiled')
      BY <1>1, <2>2, ManagedFacts
    <2>. QED  BY <1>1, <1>4, <2>2, <2>3, <2>4, ThreadStep DEF ManagedIInv
  <1>. QED  BY <1>2, <1>5, <1>6

LEMMA CancelledFacts ==
    ASSUME ManagedSound
    PROVE  /\ Cancelled \in Tasks /\ Cancelled.stage = task.stage
           /\ Cancelled.attempt = task.attempt /\ Cancelled.status = task.status
  <1>1. task \in Tasks
    BY ManagedFacts
  <1>. QED  BY <1>1 DEF Cancelled, Tasks

LEMMA CloseKeeps ==
    ASSUME ManagedIInv, CloseBegins \/ CloseEnds \/ \E x \in Calls : WaiterIsCancelled(x)
    PROVE  ManagedIInv'
  <1>1. ManagedSound
    BY DEF ManagedIInv
  <1>2. /\ LoopFree /\ lease' \in BOOLEAN /\ closed' \in BOOLEAN /\ aborted' \in BOOLEAN
        /\ UNCHANGED <<row, journal, writers, ops, call, loop, crashes, misfiled, aborted>>
        /\ task' = Cancelled \/ task' = task
        /\ TaskDone \/ lease' = lease
    BY <1>1 DEF CloseBegins, CloseEnds, WaiterIsCancelled, ManagedSound, TypeOK
  <1>3. /\ task' \in Tasks /\ task'.stage = task.stage /\ task'.attempt = task.attempt
        /\ task'.status = task.status
    BY <1>1, <1>2, CancelledFacts, ManagedFacts
  <1>4. writers' \subseteq Update /\ TaskIsNumbered' /\ (TaskDone <=> TaskDone')
        /\ (TaskDone' \/ lease')
    BY <1>1, <1>2, <1>3, ManagedFacts DEF ManagedSound, TaskIsNumbered, TaskDone
  <1>5. ManagedSound' /\ (Covered /\ UpdatesAreOwn' => Covered')
    BY <1>1, <1>2, <1>3, <1>4, AsideStep
  <1>6. Covered => UpdatesAreOwn'
    <2>1. Pending' = Pending /\ Active(row)' = Active(row)
      BY <1>2 DEF Pending, Active
    <2>. QED  BY <1>2, <1>3, <2>1 DEF Covered, UpdatesAreOwn, TaskDone
  <1>. QED  BY <1>2, <1>5, <1>6 DEF ManagedIInv

LEMMA CrashKeeps == ASSUME ManagedIInv, Crash \/ Exit PROVE ManagedIInv'
  <1>1. ManagedSound /\ TypeOK
    BY DEF ManagedIInv, ManagedSound
  <1>2. Restarts /\ crashes' \in 0..MaxCrashes
    BY <1>1, MaxCrashesAssumption DEF Crash, Exit, TypeOK
  <1>3. /\ task' = NoTask /\ TaskDone' /\ TaskIsNumbered' /\ writers' = {} /\ loop' = NoCall
        /\ \A x \in Calls : call'[x].pc = "idle"
        /\ UNCHANGED <<row, journal, misfiled, aborted>>
    BY <1>2 DEF Restarts, NoTask, TaskDone, TaskIsNumbered, Idle
  <1>4. TypeOK'
    <2>1. 0 \in 0..MaxAttempts
      BY MaxAttemptsAssumption
    <2>. QED  BY <1>1, <1>2, <2>1 DEF TypeOK, Restarts, NoTask, Idle
  <1>5. ManagedSound'
    BY <1>1, <1>3, <1>4, NoCallAssumption DEF ManagedSound, OneAtATime, CallKnows, Busy
  <1>6. Covered => Covered'
    <2>1. Pending' = Pending
      BY <1>3 DEF Pending
    <2>. QED  BY <1>3, <2>1 DEF Covered, UpdatesAreOwn, CoveredCall, NoTask
  <1>. QED  BY <1>3, <1>5, <1>6 DEF ManagedIInv

-----------------------------------------------------------------------------
(* Managed jobs: the requests                                                *)

\* What is left to show of a request's step.  The other requests are not starting or
\* retrying, or the step leaves alone what they rely on.
LEMMA RequestStep ==
    ASSUME ManagedSound, NEW x \in Calls, TypeOK', TaskIsNumbered', TaskDone' \/ lease',
           row'.status = "absent" => row'.attempt = 0 /\ TaskDone',
           CallKnows(x)', loop' \in {x, NoCall},
           \A y \in Calls \ {x} : call'[y] = call[y],
           \/ \A y \in Calls \ {x} : call[y].pc \notin Busy
           \/ /\ LoopFree /\ (TaskDone => TaskDone') /\ task'.attempt = task.attempt
              /\ call'[x].pc \notin Busy
    PROVE  /\ ManagedSound'
           /\ (/\ Covered /\ UpdatesAreOwn' /\ ~misfiled' /\ CoveredCall(x)'
               /\ Ages(row, row') \/ row'.status # "stopping" \/ row'.op = x) => Covered'
  <1>1. OneAtATime'
    BY DEF ManagedSound, OneAtATime
  <1>2. ASSUME NEW y \in Calls PROVE CallKnows(y)'
    <2>1. CASE y # x
      <3>1. CallKnows(y) /\ loop' # y /\ call'[y] = call[y]
        BY <2>1, NoCallAssumption DEF ManagedSound
      <3>2. CASE call[y].pc \notin Busy
        BY <3>1, <3>2 DEF CallKnows, Busy
      <3>3. CASE LoopFree /\ (TaskDone => TaskDone') /\ task'.attempt = task.attempt
        BY <3>1, <3>3, NoCallAssumption DEF CallKnows, LoopFree
      <3>. QED  BY <2>1, <3>2, <3>3
    <2>. QED  BY <2>1
  <1>3. ManagedSound'
    BY <1>1, <1>2 DEF ManagedSound
  <1>4. ASSUME Covered, Ages(row, row') \/ row'.status # "stopping" \/ row'.op = x,
               NEW y \in Calls \ {x}
        PROVE  CoveredCall(y)'
    <2>1. call'[y] = call[y] /\ call[y].pc \notin {"launch", "commit"}
      BY NoCallAssumption DEF ManagedSound, CallKnows, Busy, LoopFree
    <2>2. Ages(row, row') /\ row'.status = "stopping" => row' = row
      BY DEF Ages, TerminalStatuses
    <2>. QED  BY <1>4, <2>1, <2>2 DEF Covered, CoveredCall
  <1>. QED  BY <1>3, <1>4 DEF Covered

LEMMA AdmittedFacts ==
    ASSUME NEW x \in Calls, Admitted(x)
    PROVE  LoopFree /\ call[x].pc = "idle" /\ \A y \in Calls : call[y].pc \notin Busy
  BY DEF Admitted, Busy

LEMMA StartKeeps == ASSUME ManagedIInv, NEW x \in Calls, Start(x) PROVE ManagedIInv'
  <1>1. ManagedSound /\ TypeOK
    BY DEF ManagedIInv, ManagedSound
  <1>2. /\ row.status = "absent" /\ row.attempt = 0 /\ TaskDone
        /\ LoopFree /\ \A y \in Calls : call[y].pc \notin Busy
        /\ lease' = TRUE /\ loop' = x
        /\ UNCHANGED <<journal, task, writers, ops, closed, crashes, misfiled, aborted>>
    BY <1>1, AdmittedFacts DEF Start, ManagedSound
  <1>3. /\ row' \in Rows /\ row'.status = "running" /\ row'.attempt = 1
    <2>1. 1 \in 0..MaxAttempts /\ row \in Rows
      BY <1>1, MaxAttemptsAssumption, ManagedFacts
    <2>2. row' = [row EXCEPT !.status = "running", !.attempt = 1]
      BY DEF Start
    <2>. QED  BY <2>1, <2>2 DEF Rows, ActiveStatuses
  <1>4. /\ call' \in [Calls -> CallRecords] /\ call'[x].pc = "launch"
        /\ \A y \in Calls \ {x} : call'[y] = call[y]
    BY <1>1, ManagedFacts DEF Start, CallRecords
  <1>5. TypeOK'
    BY <1>1, <1>2, <1>3, <1>4 DEF TypeOK, Rows, CallRecords
  <1>6. CallKnows(x)'
    BY <1>2, <1>3, <1>4 DEF CallKnows, Busy, TaskDone
  <1>7. TaskIsNumbered' /\ (TaskDone' \/ lease')
    BY <1>1, <1>2 DEF ManagedSound, TaskIsNumbered, TaskDone
  <1>8. Covered => UpdatesAreOwn' /\ CoveredCall(x)' /\ ~misfiled'
    <2>. SUFFICES ASSUME Covered PROVE UpdatesAreOwn' /\ CoveredCall(x)' /\ ~misfiled'
      OBVIOUS
    <2>1. Pending = {}
      <3>1. \A i \in Pending : journal[i].attempt = 0 /\ journal[i].attempt \in 1..MaxAttempts
        BY <1>1, <1>2, ManagedFacts DEF Covered, UpdatesAreOwn
      <3>. QED  BY <3>1
    <2>2. Pending' = {} /\ Active(row)'
      BY <1>2, <1>3, <2>1 DEF Pending, Active, ActiveStatuses
    <2>. QED  BY <1>2, <1>4, <2>2 DEF Covered, UpdatesAreOwn, CoveredCall, TaskDone
  <1>. QED  BY <1>1, <1>2, <1>3, <1>4, <1>5, <1>6, <1>7, <1>8, RequestStep DEF ManagedIInv

LEMMA LaunchKeeps == ASSUME ManagedIInv, NEW x \in Calls, Launch(x) PROVE ManagedIInv'
  <1>1. ManagedSound /\ TypeOK
    BY DEF ManagedIInv, ManagedSound
  <1>2. /\ TaskDone /\ lease /\ row.attempt = 1 /\ loop = x
        /\ \A y \in Calls \ {x} : call[y].pc \notin Busy
        /\ call[x].pc = "launch"
    BY <1>1 DEF Launch, ManagedSound, CallKnows, OneAtATime, Busy
  <1>3. /\ task' \in Tasks /\ task'.stage = "created" /\ task'.attempt = 1
        /\ loop' = NoCall
        /\ UNCHANGED <<row, journal, lease, writers, ops, closed, crashes, misfiled, aborted>>
    <2>1. 1 \in 0..MaxAttempts
      BY MaxAttemptsAssumption
    <2>. QED  BY <1>2, <2>1 DEF Launch, NoTask, Tasks
  <1>4. /\ call' \in [Calls -> CallRecords] /\ call'[x].pc = "idle"
        /\ \A y \in Calls \ {x} : call'[y] = call[y]
    <2>1. 0 \in 0..MaxAttempts
      BY MaxAttemptsAssumption
    <2>. QED  BY <1>1, <2>1, ManagedFacts DEF Launch, CallRecords, Idle
  <1>5. TypeOK'
    BY <1>1, <1>2, <1>3, <1>4 DEF TypeOK, Tasks, CallRecords
  <1>6. CallKnows(x)'
    BY <1>3, <1>4, NoCallAssumption DEF CallKnows
  <1>7. TaskIsNumbered' /\ ~TaskDone'
    BY <1>3 DEF TaskIsNumbered, TaskDone
  <1>8. row'.status # "absent"
    BY <1>1, <1>2, <1>3 DEF ManagedSound
  <1>9. Covered => UpdatesAreOwn' /\ CoveredCall(x)' /\ ~misfiled'
    <2>. SUFFICES ASSUME Covered PROVE UpdatesAreOwn' /\ CoveredCall(x)' /\ ~misfiled'
      OBVIOUS
    <2>1. Pending' = {} /\ Active(row)'
      BY <1>2, <1>3 DEF Covered, CoveredCall, Pending, Active
    <2>. QED  BY <1>2, <1>3, <1>4, <2>1 DEF Covered, UpdatesAreOwn, CoveredCall, TaskDone
  <1>10. Ages(row, row')
    BY <1>1, <1>3, ManagedFacts DEF Ages
  <1>. QED  BY <1>1, <1>2, <1>3, <1>4, <1>5, <1>6, <1>7, <1>8, <1>9, <1>10, RequestStep
            DEF ManagedIInv

LEMMA StopBeginsKeeps == ASSUME ManagedIInv, NEW x \in Calls, StopBegins(x) PROVE ManagedIInv'
  <1>1. ManagedSound /\ TypeOK
    BY DEF ManagedIInv, ManagedSound
  <1>2. PICK r \in Rows : r = Refreshed(Replayed)
    BY <1>1, ManagedFacts DEF Ages
  <1>3. /\ LoopFree /\ ~TaskDone /\ call[x].pc = "idle" /\ r.status = "running"
        /\ UNCHANGED <<lease, writers, loop, closed, crashes, misfiled, aborted>>
        /\ task' = Cancelled /\ ops' = ops \cup {x}
        /\ row' = [r EXCEPT !.status = "stopping", !.op = x]
        /\ journal' \in Seq(JournalEntries) /\ Pending' = {}
    BY <1>1, <1>2, ManagedFacts, StoresFacts DEF StopBegins
  <1>4. r = row
    BY <1>1, <1>2, <1>3, ManagedFacts, AgesFacts DEF Active, ActiveStatuses
  <1>5. /\ row' \in Rows /\ row'.status = "stopping" /\ row'.op = x
        /\ row'.attempt = row.attempt
    BY <1>2, <1>3, <1>4 DEF Rows, ActiveStatuses
  <1>6. /\ task' \in Tasks /\ task'.stage = task.stage /\ task'.attempt = task.attempt
        /\ task'.status = task.status
    BY <1>1, <1>3, CancelledFacts
  <1>7. /\ call' \in [Calls -> CallRecords] /\ call'[x].pc = "stopping"
        /\ call'[x].attempt = task.attempt
        /\ \A y \in Calls \ {x} : call'[y] = call[y]
    BY <1>1, ManagedFacts DEF StopBegins, CallRecords, Tasks
  <1>8. TypeOK'
    BY <1>1, <1>3, <1>5, <1>6, <1>7 DEF TypeOK, Rows, Tasks, CallRecords, JournalEntries
  <1>9. CallKnows(x)'
    BY <1>3, <1>7, NoCallAssumption DEF CallKnows, LoopFree
  <1>10. TaskIsNumbered' /\ ~TaskDone' /\ (TaskDone' \/ lease')
    BY <1>1, <1>3, <1>6 DEF ManagedSound, TaskIsNumbered, TaskDone
  <1>11. Covered => UpdatesAreOwn' /\ CoveredCall(x)' /\ ~misfiled'
    <2>. SUFFICES ASSUME Covered PROVE UpdatesAreOwn' /\ CoveredCall(x)' /\ ~misfiled'
      OBVIOUS
    <2>1. Active(row)'
      BY <1>5 DEF Active, ActiveStatuses
    <2>. QED  BY <1>3, <1>5, <1>6, <1>7, <2>1
              DEF Covered, UpdatesAreOwn, CoveredCall, TaskDone
  <1>12. loop' \in {x, NoCall} /\ call'[x].pc \notin Busy
    BY <1>3, <1>7 DEF LoopFree, Busy
  <1>. QED  BY <1>1, <1>3, <1>5, <1>6, <1>7, <1>8, <1>9, <1>10, <1>11, <1>12, RequestStep
            DEF ManagedIInv

\* Updates stay each attempt's own when a transaction that only looks replays them.
LEMMA UpdatesKept ==
    ASSUME Covered, task'.stage = task.stage, task'.attempt = task.attempt,
           writers' = writers, Ages(row, row'), Pending' = {} \/ journal' = journal,
           task.stage \in {"created", "running", "logging"} => row' = row
    PROVE  UpdatesAreOwn'
  <1>1. row'.attempt = row.attempt
    BY DEF Ages
  <1>2. journal' = journal => Pending' = Pending
    BY DEF Pending
  <1>. QED  BY <1>1, <1>2 DEF Covered, UpdatesAreOwn, TaskDone, Active

LEMMA StopEndsKeeps == ASSUME ManagedIInv, NEW x \in Calls, StopEnds(x) PROVE ManagedIInv'
  <1>1. ManagedSound /\ TypeOK
    BY DEF ManagedIInv, ManagedSound
  <1>2. /\ LoopFree /\ call[x].pc = "stopping" /\ ~AwaitsTask(x)
        /\ UNCHANGED <<task, lease, writers, loop, closed, crashes, aborted>>
    BY DEF StopEnds
  <1>3. /\ call' \in [Calls -> CallRecords] /\ call'[x].pc = "idle"
        /\ \A y \in Calls \ {x} : call'[y] = call[y]
    <2>1. 0 \in 0..MaxAttempts
      BY MaxAttemptsAssumption
    <2>. QED  BY <1>1, <2>1, ManagedFacts DEF StopEnds, CallRecords, Idle
  <1>4. /\ Ages(row, row') /\ journal' \in Seq(JournalEntries)
        /\ Pending' = {} \/ journal' = journal
        /\ row' = row \/ row' = Replayed \/ (row.status = "stopping" /\ row.op = x)
    <2>1. Ages(row, Replayed) /\ journal \in Seq(JournalEntries) /\ row \in Rows
      BY <1>1, ManagedFacts
    <2>2. CASE row' = row /\ journal' = journal
      BY <2>1, <2>2 DEF Ages
    <2>3. CASE Stores(IF Replayed.status = "stopping" /\ Replayed.op = x
                      THEN Completed(Replayed, "stopped") ELSE Replayed)
      <3>1. /\ row' = IF Replayed.status = "stopping" /\ Replayed.op = x
                      THEN Completed(Replayed, "stopped") ELSE Replayed
            /\ journal' \in Seq(JournalEntries) /\ Pending' = {}
        BY <2>1, <2>3, StoresFacts
      <3>2. CASE Replayed.status = "stopping" /\ Replayed.op = x
        <4>1. Replayed \in Rows /\ Active(Replayed) /\ Replayed = row
          BY <2>1, <3>2, AgesFacts DEF Ages, Active, ActiveStatuses
        <4>2. Ages(row, row')
          BY <3>1, <3>2, <4>1, CompletedAges DEF TerminalStatuses
        <4>. QED  BY <3>1, <3>2, <4>1, <4>2
      <3>3. CASE ~(Replayed.status = "stopping" /\ Replayed.op = x)
        BY <2>1, <3>1, <3>3
      <3>. QED  BY <3>2, <3>3
    <2>. QED  BY <2>2, <2>3 DEF StopEnds
  <1>5. ops' \subseteq Calls /\ misfiled' \in BOOLEAN /\ (Covered => ~misfiled')
    BY <1>1, ManagedFacts DEF StopEnds
  <1>6. TypeOK'
    BY <1>1, <1>2, <1>3, <1>4, <1>5 DEF TypeOK, Ages, Rows, CallRecords, JournalEntries
  <1>7. CallKnows(x)' /\ call'[x].pc \notin Busy
    BY <1>2, <1>3, NoCallAssumption DEF CallKnows, LoopFree, Busy
  <1>8. /\ TaskIsNumbered' /\ (TaskDone' \/ lease') /\ (TaskDone => TaskDone')
        /\ row'.status = "absent" => row'.attempt = 0 /\ TaskDone'
    BY <1>1, <1>2, <1>4, AgesFacts DEF ManagedSound, TaskIsNumbered, TaskDone
  <1>9. Covered => UpdatesAreOwn' /\ CoveredCall(x)'
    <2>. SUFFICES ASSUME Covered PROVE UpdatesAreOwn' /\ CoveredCall(x)'
      OBVIOUS
    <2>1. ASSUME task.stage \in {"created", "running", "logging"} PROVE row' = row
      <3>1. Replayed = row /\ ~TaskDone /\ row.attempt = task.attempt
        BY <1>1, <2>1, ManagedFacts DEF Covered, UpdatesAreOwn, TaskDone
      <3>2. ~(row.status = "stopping" /\ row.op = x)
        BY <1>2, <3>1 DEF Covered, CoveredCall, AwaitsTask
      <3>. QED  BY <1>4, <3>1, <3>2
    <2>2. UpdatesAreOwn'
      BY <1>2, <1>4, <2>1, UpdatesKept
    <2>. QED  BY <1>3, <2>2 DEF CoveredCall
  <1>10. loop' \in {x, NoCall} /\ task'.attempt = task.attempt
    BY <1>2 DEF LoopFree
  <1>. QED  BY <1>1, <1>2, <1>3, <1>4, <1>5, <1>6, <1>7, <1>8, <1>9, <1>10, RequestStep
            DEF ManagedIInv

LEMMA RetryRefusedKeeps ==
    ASSUME ManagedIInv, NEW x \in Calls, RetryRefused(x) PROVE ManagedIInv'
  <1>1. ManagedSound /\ TypeOK
    BY DEF ManagedIInv, ManagedSound
  <1>2. /\ \A y \in Calls : call[y].pc \notin Busy
        /\ task' = Cancelled /\ loop' = IF TaskDone THEN x ELSE NoCall
        /\ call' = [call EXCEPT ![x] = [pc |-> "undo", attempt |-> task.attempt]]
        /\ UNCHANGED <<lease, writers, closed, crashes, aborted>>
    BY AdmittedFacts DEF RetryRefused, GivesUp
  <1>3. /\ task' \in Tasks /\ task'.stage = task.stage /\ task'.attempt = task.attempt
        /\ task'.status = task.status
    BY <1>1, <1>2, CancelledFacts
  <1>4. /\ call' \in [Calls -> CallRecords] /\ call'[x].pc = "undo"
        /\ call'[x].attempt = task.attempt
        /\ \A y \in Calls \ {x} : call'[y] = call[y]
    BY <1>1, <1>2, ManagedFacts DEF CallRecords, Tasks
  <1>5. /\ Ages(row, row') /\ journal' \in Seq(JournalEntries)
        /\ Pending' = {} \/ journal' = journal
        /\ row' = row \/ (row' = Refreshed(Replayed) /\ ~Active(row'))
    <2>1. Ages(row, Refreshed(Replayed)) /\ journal \in Seq(JournalEntries) /\ row \in Rows
      BY <1>1, ManagedFacts
    <2>. QED  BY <2>1, StoresFacts DEF RetryRefused, Ages, Active
  <1>6. ops' \subseteq Calls /\ misfiled' \in BOOLEAN /\ (Covered => ~misfiled')
    BY <1>1, ManagedFacts DEF RetryRefused
  <1>7. TypeOK'
    BY <1>1, <1>2, <1>3, <1>4, <1>5, <1>6
       DEF TypeOK, Ages, Rows, Tasks, CallRecords, JournalEntries
  <1>8. CallKnows(x)' /\ loop' \in {x, NoCall}
    BY <1>2, <1>3, <1>4 DEF CallKnows, Busy, TaskDone
  <1>9. /\ TaskIsNumbered' /\ (TaskDone' \/ lease')
        /\ row'.status = "absent" => row'.attempt = 0 /\ TaskDone'
    BY <1>1, <1>2, <1>3, <1>5, AgesFacts DEF ManagedSound, TaskIsNumbered, TaskDone
  <1>10. Covered => UpdatesAreOwn' /\ CoveredCall(x)'
    <2>. SUFFICES ASSUME Covered PROVE UpdatesAreOwn' /\ CoveredCall(x)'
      OBVIOUS
    <2>1. ASSUME task.stage \in {"created", "running", "logging"} PROVE row' = row
      <3>1. ~LooksDead /\ Pending = {} /\ Active(row)
        BY <2>1 DEF Covered, UpdatesAreOwn, TaskDone, LooksDead
      <3>2. Refreshed(Replayed) = row
        BY <1>1, <3>1, ManagedFacts
      <3>. QED  BY <1>5, <3>1, <3>2 DEF Active
    <2>2. UpdatesAreOwn'
      BY <1>2, <1>3, <1>5, <2>1, UpdatesKept
    <2>. QED  BY <1>4, <2>2 DEF CoveredCall
  <1>. QED  BY <1>1, <1>2, <1>4, <1>5, <1>6, <1>7, <1>8, <1>9, <1>10, RequestStep
            DEF ManagedIInv

LEMMA RetryBeginsKeeps ==
    ASSUME ManagedIInv, NEW x \in Calls, RetryBegins(x) PROVE ManagedIInv'
  <1>1. ManagedSound /\ TypeOK
    BY DEF ManagedIInv, ManagedSound
  <1>2. /\ \A y \in Calls : call[y].pc \notin Busy
        /\ row.attempt \in 1..(MaxAttempts - 1) /\ ~lease /\ lease' = TRUE /\ loop' = x
        /\ call' = [call EXCEPT ![x].pc = "commit"]
        /\ UNCHANGED <<task, writers, closed, crashes, aborted>>
    BY AdmittedFacts DEF RetryBegins
  <1>3. TaskDone /\ TaskDone'
    BY <1>1, <1>2 DEF ManagedSound, TaskDone
  <1>4. /\ call' \in [Calls -> CallRecords] /\ call'[x].pc = "commit"
        /\ \A y \in Calls \ {x} : call'[y] = call[y]
    BY <1>1, <1>2, ManagedFacts DEF CallRecords
  <1>5. Ages(row, row') /\ journal' \in Seq(JournalEntries) /\ Pending' = {}
    BY <1>1, ManagedFacts, StoresFacts DEF RetryBegins
  <1>6. ops' \subseteq Calls /\ misfiled' \in BOOLEAN /\ (Covered => ~misfiled')
    BY <1>1, ManagedFacts DEF RetryBegins
  <1>7. TypeOK'
    BY <1>1, <1>2, <1>4, <1>5, <1>6 DEF TypeOK, Ages, Rows, CallRecords, JournalEntries
  <1>8. CallKnows(x)' /\ loop' \in {x, NoCall}
    BY <1>2, <1>3, <1>4, <1>5 DEF CallKnows, Busy, Ages
  <1>9. /\ TaskIsNumbered' /\ (TaskDone' \/ lease')
        /\ row'.status = "absent" => row'.attempt = 0 /\ TaskDone'
    BY <1>1, <1>2, <1>3, <1>5, AgesFacts DEF ManagedSound, TaskIsNumbered, TaskDone
  <1>10. Covered => UpdatesAreOwn' /\ CoveredCall(x)'
    <2>. SUFFICES ASSUME Covered PROVE UpdatesAreOwn' /\ CoveredCall(x)'
      OBVIOUS
    <2>1. UpdatesAreOwn'
      BY <1>2, <1>3, <1>5, UpdatesKept DEF TaskDone
    <2>. QED  BY <1>4, <1>5, <2>1 DEF CoveredCall
  <1>. QED  BY <1>1, <1>2, <1>4, <1>5, <1>6, <1>7, <1>8, <1>9, <1>10, RequestStep
            DEF ManagedIInv

\* Giving up cancels the task there is, and remembers which one that was.
LEMMA GivesUpFacts ==
    ASSUME ManagedSound, NEW x \in Calls, NEW pc \in {"undo", "unwind"}, GivesUp(x, pc)
    PROVE  /\ task' \in Tasks /\ task'.stage = task.stage /\ task'.attempt = task.attempt
           /\ task'.status = task.status
           /\ loop' \in {x, NoCall} /\ call' \in [Calls -> CallRecords]
           /\ call'[x].pc = pc /\ call'[x].attempt = task.attempt
           /\ \A y \in Calls \ {x} : call'[y] = call[y]
  <1>1. /\ task' \in Tasks /\ task'.stage = task.stage /\ task'.attempt = task.attempt
        /\ task'.status = task.status
    BY CancelledFacts DEF GivesUp
  <1>2. task \in Tasks /\ call \in [Calls -> CallRecords]
    BY ManagedFacts
  <1>3. [pc |-> pc, attempt |-> task.attempt] \in CallRecords
    BY <1>2 DEF Tasks, CallRecords
  <1>. QED  BY <1>1, <1>2, <1>3 DEF GivesUp

\* A request that gives up leaves the rows alone.
LEMMA GivesUpKeeps ==
    ASSUME ManagedIInv, NEW x \in Calls, NEW pc \in {"undo", "unwind"}, GivesUp(x, pc),
           \A y \in Calls \ {x} : call[y].pc \notin Busy,
           UNCHANGED <<row, journal, ops, misfiled, lease, writers, closed, crashes, aborted>>
    PROVE  ManagedIInv'
  <1>1. ManagedSound /\ TypeOK
    BY DEF ManagedIInv, ManagedSound
  <1>2. /\ task' \in Tasks /\ task'.stage = task.stage /\ task'.attempt = task.attempt
        /\ task'.status = task.status
        /\ loop' \in {x, NoCall} /\ call' \in [Calls -> CallRecords]
        /\ call'[x].pc = pc /\ call'[x].attempt = task.attempt
        /\ \A y \in Calls \ {x} : call'[y] = call[y]
    BY <1>1, GivesUpFacts
  <1>3. TypeOK'
    BY <1>1, <1>2 DEF TypeOK, Tasks, CallRecords
  <1>4. CallKnows(x)'
    BY <1>2 DEF CallKnows, Busy, TaskDone
  <1>5. /\ TaskIsNumbered' /\ (TaskDone' \/ lease')
        /\ row'.status = "absent" => row'.attempt = 0 /\ TaskDone'
    BY <1>1, <1>2 DEF ManagedSound, TaskIsNumbered, TaskDone
  <1>6. Ages(row, row')
    BY <1>1, ManagedFacts DEF Ages
  <1>7. Covered => UpdatesAreOwn' /\ CoveredCall(x)' /\ ~misfiled'
    <2>1. Covered => UpdatesAreOwn'
      BY <1>2, <1>6, UpdatesKept
    <2>. QED  BY <1>2, <2>1 DEF CoveredCall, Covered
  <1>. QED  BY <1>1, <1>2, <1>3, <1>4, <1>5, <1>6, <1>7, RequestStep DEF ManagedIInv

LEMMA RetryCommitsKeeps ==
    ASSUME ManagedIInv, NEW x \in Calls, RetryCommits(x) PROVE ManagedIInv'
  <1>1. ManagedSound /\ TypeOK
    BY DEF ManagedIInv, ManagedSound
  <1>2. /\ call[x].pc = "commit" /\ loop = x /\ TaskDone /\ lease
        /\ row.attempt \in 1..(MaxAttempts - 1)
        /\ \A y \in Calls \ {x} : call[y].pc \notin Busy
        /\ UNCHANGED <<lease, writers, closed, crashes, aborted>>
    BY <1>1 DEF RetryCommits, ManagedSound, CallKnows, OneAtATime, Busy
  <1>3. CASE GivesUp(x, "undo") /\ UNCHANGED <<row, journal, ops, misfiled>>
    BY <1>2, <1>3, GivesUpKeeps
  <1>4. CASE ~(GivesUp(x, "undo") /\ UNCHANGED <<row, journal, ops, misfiled>>)
    <2>1. /\ Stores([Replayed EXCEPT !.status = "retrying", !.attempt = @ + 1, !.op = x])
          /\ ops' = ops \cup {x} /\ misfiled' = (misfiled \/ ReplayMisfiles)
          /\ task' = [NoTask EXCEPT !.attempt = row.attempt + 1, !.stage = "created"]
          /\ call' = [call EXCEPT ![x].pc = "adopt"] /\ loop' = loop
      BY <1>4 DEF RetryCommits
    <2>2. PICK n \in 0..MaxAttempts : n = row.attempt + 1 /\ n # 0
      BY <1>2, MaxAttemptsAssumption
    <2>3. Replayed \in Rows /\ Replayed.attempt = row.attempt
      BY <1>1, ManagedFacts DEF Ages
    <2>4. /\ row' = [Replayed EXCEPT !.status = "retrying", !.attempt = @ + 1, !.op = x]
          /\ journal' \in Seq(JournalEntries) /\ Pending' = {}
      BY <1>1, <2>1, ManagedFacts, StoresFacts
    <2>5. row' \in Rows /\ row'.status = "retrying" /\ row'.attempt = n /\ row'.op = x
      BY <2>2, <2>3, <2>4 DEF Rows, ActiveStatuses
    <2>6. task' \in Tasks /\ task'.stage = "created" /\ task'.attempt = n
      BY <2>1, <2>2 DEF NoTask, Tasks
    <2>7. /\ call' \in [Calls -> CallRecords] /\ call'[x].pc = "adopt"
          /\ \A y \in Calls \ {x} : call'[y] = call[y]
      BY <1>1, <2>1, ManagedFacts DEF CallRecords
    <2>8. ops' \subseteq Calls /\ misfiled' \in BOOLEAN /\ (Covered => ~misfiled')
      BY <1>1, <2>1, ManagedFacts
    <2>9. TypeOK'
      BY <1>1, <1>2, <2>1, <2>4, <2>5, <2>6, <2>7, <2>8
         DEF TypeOK, Rows, Tasks, CallRecords, JournalEntries
    <2>10. CallKnows(x)'
      BY <1>2, <2>1, <2>7 DEF CallKnows, Busy
    <2>11. TaskIsNumbered' /\ lease' /\ row'.status # "absent"
      BY <1>2, <2>2, <2>5, <2>6 DEF TaskIsNumbered, TaskDone
    <2>12. Covered => UpdatesAreOwn' /\ CoveredCall(x)'
      <3>. SUFFICES ASSUME Covered PROVE UpdatesAreOwn' /\ CoveredCall(x)'
        OBVIOUS
      <3>1. Active(row)' /\ writers' = {}
        BY <1>2, <2>5 DEF Covered, UpdatesAreOwn, TaskDone, Active, ActiveStatuses
      <3>. QED  BY <2>4, <2>5, <2>6, <2>7, <3>1 DEF UpdatesAreOwn, CoveredCall, TaskDone
    <2>. QED  BY <1>1, <1>2, <2>1, <2>5, <2>7, <2>8, <2>9, <2>10, <2>11, <2>12, RequestStep
              DEF ManagedIInv
  <1>. QED  BY <1>3, <1>4

LEMMA RetryAdoptsKeeps ==
    ASSUME ManagedIInv, NEW x \in Calls, RetryAdopts(x) PROVE ManagedIInv'
  <1>1. ManagedSound /\ TypeOK
    BY DEF ManagedIInv, ManagedSound
  <1>2. /\ call[x].pc = "adopt" /\ loop = x
        /\ \A y \in Calls \ {x} : call[y].pc \notin Busy
        /\ UNCHANGED <<lease, writers, closed, crashes, aborted>>
    BY <1>1 DEF RetryAdopts, ManagedSound, CallKnows, OneAtATime, Busy
  <1>3. CASE GivesUp(x, "unwind") /\ UNCHANGED <<row, journal, ops, misfiled>>
    BY <1>2, <1>3, GivesUpKeeps
  <1>4. CASE ~(GivesUp(x, "unwind") /\ UNCHANGED <<row, journal, ops, misfiled>>)
    <2>. DEFINE r == IF Replayed.status = "retrying" /\ Replayed.op = x
                     THEN Completed(Replayed, "running") ELSE Replayed
    <2>1. /\ Stores(r) /\ ops' = ops \ (Cleared \cup {x})
          /\ misfiled' = (misfiled \/ ReplayMisfiles)
          /\ call' = [call EXCEPT ![x] = Idle] /\ loop' = NoCall /\ task' = task
      BY <1>4 DEF RetryAdopts
    <2>2. Replayed \in Rows /\ Ages(row, Replayed) /\ Replayed.attempt = row.attempt
      BY <1>1, ManagedFacts DEF Ages
    <2>3. /\ r \in Rows /\ r.attempt = row.attempt
          /\ (r.status = "absent" => row.status = "absent")
          /\ Active(Replayed) => Active(r)
          /\ r = Replayed \/ r.status = "running"
      <3>1. CASE Replayed.status = "retrying" /\ Replayed.op = x
        <4>1. r = [Replayed EXCEPT !.status = "running", !.op = NoCall]
          BY <3>1 DEF Completed
        <4>. QED  BY <2>2, <4>1 DEF Rows, Active, ActiveStatuses
      <3>2. CASE ~(Replayed.status = "retrying" /\ Replayed.op = x)
        <4>1. r = Replayed
          BY <3>2
        <4>. QED  BY <2>2, <4>1, AgesFacts
      <3>. QED  BY <3>1, <3>2
    <2>4. row' = r /\ journal' \in Seq(JournalEntries) /\ Pending' = {}
      BY <1>1, <2>1, ManagedFacts, StoresFacts
    <2>. HIDE DEF r
    <2>5. /\ call' \in [Calls -> CallRecords] /\ call'[x].pc = "idle"
          /\ \A y \in Calls \ {x} : call'[y] = call[y]
      <3>1. 0 \in 0..MaxAttempts
        BY MaxAttemptsAssumption
      <3>. QED  BY <1>1, <2>1, <3>1, ManagedFacts DEF CallRecords, Idle
    <2>6. ops' \subseteq Calls /\ misfiled' \in BOOLEAN /\ (Covered => ~misfiled')
      BY <1>1, <2>1, ManagedFacts
    <2>7. TypeOK'
      BY <1>1, <1>2, <2>1, <2>3, <2>4, <2>5, <2>6
         DEF TypeOK, Rows, CallRecords, JournalEntries
    <2>8. CallKnows(x)'
      BY <2>1, <2>5, NoCallAssumption DEF CallKnows
    <2>9. /\ TaskIsNumbered' /\ (TaskDone' \/ lease')
          /\ row'.status = "absent" => row'.attempt = 0 /\ TaskDone'
      BY <1>1, <1>2, <2>1, <2>3, <2>4 DEF ManagedSound, TaskIsNumbered, TaskDone
    <2>10. Covered => UpdatesAreOwn' /\ CoveredCall(x)'
      <3>. SUFFICES ASSUME Covered PROVE UpdatesAreOwn' /\ CoveredCall(x)'
        OBVIOUS
      <3>1. ASSUME task.stage \in {"created", "running", "logging"} PROVE Active(row)'
        <4>1. Active(row) /\ Replayed = row
          BY <1>1, <3>1, ManagedFacts DEF Covered, UpdatesAreOwn
        <4>2. Active(r)
          BY <2>3, <4>1
        <4>. QED  BY <2>4, <4>2 DEF Active
      <3>. QED  BY <1>2, <2>1, <2>3, <2>4, <2>5, <3>1
                DEF Covered, UpdatesAreOwn, CoveredCall, TaskDone
    <2>11. Ages(row, row') \/ row'.status # "stopping"
      BY <2>2, <2>3, <2>4
    <2>. QED  BY <1>1, <1>2, <2>1, <2>5, <2>6, <2>7, <2>8, <2>9, <2>10, <2>11, RequestStep
              DEF ManagedIInv
  <1>. QED  BY <1>3, <1>4

LEMMA RetryFailsKeeps ==
    ASSUME ManagedIInv, NEW x \in Calls, RetryFails(x) PROVE ManagedIInv'
  <1>1. ManagedSound /\ TypeOK
    BY DEF ManagedIInv, ManagedSound
  <1>2. /\ call[x].pc \in {"undo", "unwind"} /\ ~AwaitsTask(x) /\ lease' = FALSE
        /\ loop' = NoCall
        /\ call' = [call EXCEPT ![x] = Idle]
        /\ UNCHANGED <<task, writers, closed, crashes, aborted>>
    BY DEF RetryFails
  <1>3. TaskDone /\ \A y \in Calls \ {x} : call[y].pc \notin Busy
    BY <1>1, <1>2 DEF ManagedSound, CallKnows, OneAtATime, Busy, AwaitsTask
  <1>4. /\ call' \in [Calls -> CallRecords] /\ call'[x].pc = "idle"
        /\ \A y \in Calls \ {x} : call'[y] = call[y]
    <2>1. 0 \in 0..MaxAttempts
      BY MaxAttemptsAssumption
    <2>. QED  BY <1>1, <1>2, <2>1, ManagedFacts DEF CallRecords, Idle
  <1>5. /\ row' \in Rows /\ row'.attempt = row.attempt /\ journal' \in Seq(JournalEntries)
        /\ Pending' = {} \/ (journal' = journal /\ Pending' = Pending)
        /\ Ages(row, row') \/ row'.status = "failed"
    <2>1. Ages(row, Replayed) /\ journal \in Seq(JournalEntries) /\ row \in Rows
          /\ Replayed \in Rows /\ Replayed.attempt = row.attempt
      BY <1>1, ManagedFacts DEF Ages
    <2>2. CASE row' = row /\ journal' = journal
      BY <2>1, <2>2 DEF Ages, Pending
    <2>3. CASE Stores(IF Replayed.op = x THEN Completed(Replayed, "failed") ELSE Replayed)
      <3>1. /\ row' = IF Replayed.op = x THEN Completed(Replayed, "failed") ELSE Replayed
            /\ journal' \in Seq(JournalEntries) /\ Pending' = {}
        BY <2>1, <2>3, StoresFacts
      <3>2. CASE Replayed.op = x
        <4>1. row' = [Replayed EXCEPT !.status = "failed", !.op = NoCall]
          BY <3>1, <3>2 DEF Completed
        <4>. QED  BY <2>1, <3>1, <4>1 DEF Rows, TerminalStatuses
      <3>3. CASE Replayed.op # x
        BY <2>1, <3>1, <3>3
      <3>. QED  BY <3>2, <3>3
    <2>. QED  BY <2>2, <2>3 DEF RetryFails
  <1>6. ops' \subseteq Calls /\ misfiled' \in BOOLEAN /\ (Covered => ~misfiled')
    BY <1>1, ManagedFacts DEF RetryFails
  <1>7. TypeOK'
    BY <1>1, <1>2, <1>4, <1>5, <1>6 DEF TypeOK, Rows, CallRecords, JournalEntries
  <1>8. CallKnows(x)'
    BY <1>2, <1>4, NoCallAssumption DEF CallKnows
  <1>9. TaskIsNumbered' /\ TaskDone'
    BY <1>1, <1>2, <1>3 DEF ManagedSound, TaskIsNumbered, TaskDone
  <1>10. row'.status = "absent" => row'.attempt = 0
    BY <1>1, <1>5, AgesFacts DEF ManagedSound
  <1>11. Covered => UpdatesAreOwn' /\ CoveredCall(x)'
    <2>1. Covered => UpdatesAreOwn'
      BY <1>2, <1>3, <1>5 DEF Covered, UpdatesAreOwn, TaskDone
    <2>. QED  BY <1>4, <2>1 DEF CoveredCall
  <1>12. Ages(row, row') \/ row'.status # "stopping"
    BY <1>5
  <1>. QED  BY <1>1, <1>2, <1>3, <1>4, <1>6, <1>7, <1>8, <1>9, <1>10, <1>11, <1>12, RequestStep
            DEF ManagedIInv

LEMMA ManagedKeep == ManagedIInv /\ [Next]_vars => ManagedIInv'
  <1>. SUFFICES ASSUME ManagedIInv, [Next]_vars PROVE ManagedIInv'
    OBVIOUS
  <1>1. CASE TaskStep \/ WriterStep \/ Observe
    BY <1>1, TaskKeeps, WriterKeeps, ObserveKeeps
  <1>2. CASE CloseBegins \/ CloseEnds \/ Crash \/ Exit
    BY <1>2, CloseKeeps, CrashKeeps
  <1>3. ASSUME NEW x \in Calls, CallStep(x) PROVE ManagedIInv'
    BY <1>3, LaunchKeeps, StopEndsKeeps, RetryCommitsKeeps, RetryAdoptsKeeps, RetryFailsKeeps
       DEF CallStep
  <1>4. ASSUME NEW x \in Calls, Request(x) PROVE ManagedIInv'
    BY <1>4, StartKeeps, StopBeginsKeeps, RetryRefusedKeeps, RetryBeginsKeeps, CloseKeeps
       DEF Request
  <1>5. CASE UNCHANGED vars
    BY <1>5 DEF vars, ManagedIInv, ManagedSound, Covered, TypeOK, OneAtATime, TaskIsNumbered,
         TaskDone, CallKnows, CoveredCall, UpdatesAreOwn, Pending, Active
  <1>. QED  BY <1>1, <1>2, <1>3, <1>4, <1>5 DEF Next

\* In every state, a handler that runs has its row active, for its attempt, and its lease
\* held; and an update ends another attempt only if a task was cancelled while it awaited
\* its write (managed.py:378-548, jobs/recovery.py).
THEOREM ManagedIsSound == Spec => []Inv
  <1>1. ManagedIInv => Inv
    <2>. SUFFICES ASSUME ManagedIInv PROVE Inv
      OBVIOUS
    <2>1. WorkIsCovered
      <3>1. Works => ~TaskDone
        BY DEF Works, TaskDone
      <3>. QED  BY <3>1
           DEF ManagedIInv, ManagedSound, Covered, UpdatesAreOwn, WorkIsCovered, Works
    <2>2. OnlyAbortedWritesMisfile /\ TypeOK
      BY DEF ManagedIInv, ManagedSound, Covered, OnlyAbortedWritesMisfile
    <2>. QED  BY <2>1, <2>2 DEF Inv
  <1>. QED  BY <1>1, ManagedStart, ManagedKeep, PTL DEF Spec

\* What a step does to the task: an attempt that was not there before is launched by a
\* start or by a retry.
LEMMA AttemptsAreLaunched ==
    ASSUME ManagedSound, Next, task'.attempt # task.attempt, task'.attempt # 0
    PROVE  \E x \in Calls : Launch(x) \/ RetryCommits(x)
  <1>1. task \in Tasks /\ Cancelled.attempt = task.attempt
    BY ManagedFacts, CancelledFacts
  <1>2. NoTask.attempt = 0
    BY DEF NoTask
  <1>3. CASE TaskStep
    <2>1. task'.attempt = task.attempt \/ task' = NoTask
      BY <1>1, <1>3 DEF TaskStep, TaskRuns, TaskNeverRuns, HandlerSucceeds, HandlerStops,
         Logged,
           TaskEnds, Writes, Tasks
    <2>. QED  BY <1>2, <2>1
  <1>4. CASE WriterStep \/ Observe \/ CloseBegins \/ CloseEnds \/ Crash \/ Exit
    <2>1. task' = task \/ task' = Cancelled \/ task' = NoTask
      BY <1>4 DEF WriterStep, WriterCommits, WriterDefers, Observe, CloseBegins, CloseEnds,
         Crash,
           Exit, Restarts
    <2>. QED  BY <1>1, <1>2, <2>1
  <1>5. ASSUME NEW x \in Calls, Request(x) PROVE FALSE
    <2>1. task' = task \/ task' = Cancelled
      BY <1>5 DEF Request, Start, StopBegins, RetryRefused, RetryBegins, WaiterIsCancelled,
         GivesUp
    <2>. QED  BY <1>1, <2>1
  <1>6. ASSUME NEW x \in Calls, CallStep(x) PROVE Launch(x) \/ RetryCommits(x)
    <2>1. CASE StopEnds(x) \/ RetryAdopts(x) \/ RetryFails(x)
      <3>1. task' = task \/ task' = Cancelled
        BY <2>1 DEF StopEnds, RetryAdopts, RetryFails, GivesUp
      <3>. QED  BY <1>1, <3>1
    <2>. QED  BY <1>6, <2>1 DEF CallStep
  <1>. QED  BY <1>3, <1>4, <1>5, <1>6 DEF Next

\* An attempt is launched only when the task of the one before is over, whatever became of
\* the row (managed.py:_launch_managed_job).
THEOREM AttemptsDoNotOverlap == Spec => AttemptsNeverOverlap
  <1>1. ManagedIInv /\ [Next]_vars =>
          [(task'.attempt # task.attempt /\ task'.attempt # 0) => TaskDone]_vars
    <2>. SUFFICES ASSUME ManagedIInv, Next, task'.attempt # task.attempt, task'.attempt # 0
                  PROVE  TaskDone
      OBVIOUS
    <2>1. PICK x \in Calls : Launch(x) \/ RetryCommits(x)
      BY AttemptsAreLaunched DEF ManagedIInv
    <2>2. call[x].pc \in {"launch", "commit"} /\ CallKnows(x)
      BY <2>1 DEF Launch, RetryCommits, ManagedIInv, ManagedSound
    <2>. QED  BY <2>2 DEF CallKnows
  <1>. QED  BY <1>1, ManagedStart, ManagedKeep, PTL DEF Spec, AttemptsNeverOverlap

-----------------------------------------------------------------------------
(* Shell-backed jobs: what the row says                                      *)

\* The attempt a row is about.
Named(r) == IF r.status = "retrying" THEN r.pending ELSE r.shell

\* The numbers in a row.
RowIs(r) ==
    /\ r.status = "none" => r.attempt = 0
    /\ r.status = "retrying" => r.pending = r.attempt + 1
    /\ r.status # "retrying" => r.pending = 0 /\ ~r.paths
    /\ r.shell <= r.attempt /\ r.log <= r.attempt
    /\ r.status \notin {"none", "pruned"} => r.attempt >= 1 /\ r.shell >= 1 /\ r.log >= 1
    /\ r.status \in {"starting", "running", "stopping", "lost", "succeeded"} =>
         r.shell = r.attempt /\ r.log = r.attempt

\* How a row stands to the shells: no attempt has a number above its own, none works but
\* the one it is about and those it could not confirm dead, and what it says of an end
\* is so.
ShellsAre(r) ==
    /\ \A n \in Attempts : n > r.attempt /\ n # r.pending => shell[n] = "none"
    /\ r.status = "retrying" /\ ~r.paths => shell[r.pending] = "none"
    /\ \A n \in unconfirmed : n <= r.attempt \/ n = r.pending
    /\ \A n \in Working : n = Named(r) \/ n \in unconfirmed \ {r.shell}
    /\ r.status \in ConfirmedTerminal \cup {"lost"} => Working \subseteq unconfirmed
    /\ r.status = "lost" => r.shell \notin Live /\ receipt[r.log] = "none"
    /\ r.status = "succeeded" => receipt[r.log] = "ok"

\* A receipt is written by the runner that ends.
ReceiptsAreLast == \A n \in Attempts : receipt[n] # "none" => shell[n] \in {"done", "gone"}

-----------------------------------------------------------------------------
(* What the operation under way knows                                        *)

Starting == {"reserving", "counting", "creating", "created", "cleanup"}
Launching == Starting \cup {"preparing", "failed"}

\* An inventory shows every shell that is alive, even when it is old: only this operation
\* can start one.
InventoryHolds ==
    /\ op.at = "looked" /\ op.known =>
         Live \subseteq op.live /\ \A n \in op.live : shell[n] # "none"
    /\ op.at = "sweeping" => Live \subseteq op.live
    /\ op.at = "checked" /\ op.known /\ op.attempt \notin op.live => op.attempt \notin Live

OperationFits ==
    /\ op.kind = "none" => op = NoOp
    /\ op.kind \in {"start", "retry"} => owner
    /\ op.kind = "start" /\ op.at \in {"asked", "looked"} => job.status = "none"
    /\ op.at \in {"killing", "unsure", "checked"} =>
         job.status = "stopping" /\ op.attempt = job.shell
    /\ op.at \in Launching => op.kind \in {"start", "retry"} /\ op.attempt = Named(job)
    /\ op.at \in Launching /\ op.kind = "start" => job.status = "starting"
       /\ op.at # "preparing"
    /\ op.at \in Launching /\ op.kind = "retry" => job.status = "retrying"
    /\ op.at \in Starting /\ op.kind = "retry" => job.paths
    /\ op.at = "preparing" => ~job.paths

AttemptFits ==
    /\ op.at \in {"preparing", "reserving", "counting", "creating"}
       => shell[op.attempt] = "none"
    /\ op.at \in {"counting", "creating"} => op.attempt \in reserved
    /\ op.at = "failed" => op.attempt \notin Working \/ op.attempt \in unconfirmed

ShellIInv ==
    /\ ShellTypeOK /\ LiveIsOwned
    /\ RowIs(job) /\ ShellsAre(job) /\ ReceiptsAreLast
    /\ InventoryHolds /\ OperationFits /\ AttemptFits

LEMMA ShellInvImplied == ShellIInv => ShellJobsInv
  <1>. SUFFICES ASSUME ShellIInv PROVE ShellJobsInv
    OBVIOUS
  <1>. USE DEF ShellIInv, ShellTypeOK
  <1>1. AttemptsExclude
    BY DEF ShellsAre, RowIs, AttemptsExclude, Named, Working, Attempts
  <1>2. FinishedIsAtRest /\ OutcomeIsItsOwn
    BY DEF ShellsAre, RowIs, FinishedIsAtRest, OutcomeIsItsOwn
  <1>. QED  BY <1>1, <1>2 DEF ShellJobsInv

LEMMA ShellStarts == ShellInit => ShellIInv
  <1>. SUFFICES ASSUME ShellInit PROVE ShellIInv
    OBVIOUS
  <1>. USE MaxShellAttemptsAssumption DEF ShellInit, NoOp
  <1>1. ShellTypeOK
    BY DEF ShellTypeOK, Attempts
  <1>2. RowIs(job) /\ ShellsAre(job) /\ ReceiptsAreLast /\ LiveIsOwned
    BY DEF RowIs, ShellsAre, ReceiptsAreLast, LiveIsOwned, Named, Working, Live,
         ConfirmedTerminal
  <1>3. InventoryHolds /\ OperationFits /\ AttemptFits
    BY DEF InventoryHolds, OperationFits, AttemptFits, Launching, Starting
  <1>. QED  BY <1>1, <1>2, <1>3 DEF ShellIInv

-----------------------------------------------------------------------------
(* Steps that leave the row and the receipts                                 *)

RowSound == RowIs(job) /\ ShellsAre(job) /\ ReceiptsAreLast
OpSound == InventoryHolds /\ OperationFits /\ AttemptFits

LEMMA ShellFacts ==
    ASSUME ShellIInv
    PROVE  /\ ShellTypeOK /\ LiveIsOwned /\ RowSound /\ OpSound
           /\ RowIs(job) /\ ShellsAre(job) /\ ReceiptsAreLast
           /\ InventoryHolds /\ OperationFits /\ AttemptFits
           /\ owner \in BOOLEAN
           /\ job.status \in {"none", "pruned", "running", "lost", "starting", "stopping",
                              "retrying", "succeeded", "failed", "stopped"}
           /\ job.attempt \in Nat /\ job.shell \in Nat /\ job.log \in Nat /\ job.pending \in Nat
           /\ shell \in [Attempts -> {"none", "working", "done", "gone"}]
           /\ receipt \in [Attempts -> {"none", "ok", "bad"}]
           /\ reserved \subseteq Attempts /\ unconfirmed \subseteq Attempts
           /\ op.attempt \in Nat /\ op.live \subseteq Attempts /\ Attempts \subseteq Nat
  BY MaxShellAttemptsAssumption
     DEF ShellIInv, ShellTypeOK, RowSound, OpSound, Attempts, InTransition, ConfirmedTerminal

\* Shells only end.
ShellsEnd ==
    /\ shell' \in [Attempts -> {"none", "working", "done", "gone"}]
    /\ \A n \in Attempts : \/ shell'[n] = shell[n]
                           \/ shell[n] \in {"working", "done"} /\ shell'[n] \in {"done", "gone"}

LEMMA ShellKillsEnd ==
    ASSUME ShellIInv, NEW n, Killed(n) \/ NotKilled(n) PROVE ShellsEnd /\ Live' \subseteq Live
  BY ShellFacts DEF Killed, NotKilled, ShellsEnd, Live

LEMMA KilledIsGone ==
    ASSUME ShellIInv, NEW n, Killed(n) PROVE Live' = Live \ {n} /\ n \in Attempts
  BY ShellFacts DEF Killed, Live

LEMMA RestIsEnd ==
    ASSUME ShellIInv, UNCHANGED shell PROVE ShellsEnd /\ Live' = Live /\ Working' = Working
  BY ShellFacts DEF ShellsEnd, Live, Working

LEMMA EndedAreFewer ==
    ASSUME ShellIInv, ShellsEnd
    PROVE  /\ Live' \subseteq Live /\ Working' \subseteq Working
           /\ \A n \in Attempts : shell[n] = "none" <=> shell'[n] = "none"
           /\ \A n \in Attempts : shell[n] \in {"done", "gone"}
              => shell'[n] \in {"done", "gone"}
  BY ShellFacts DEF ShellsEnd, Live, Working

LEMMA RowRests ==
    ASSUME ShellIInv, ShellsEnd, UNCHANGED <<job, receipt>>,
           unconfirmed \subseteq unconfirmed',
           \A n \in unconfirmed' : n \in unconfirmed \/ n = Named(job)
    PROVE  RowSound'
  <1>. USE ShellFacts, EndedAreFewer
  <1>1. RowIs(job)'
    BY DEF RowIs
  <1>2. ReceiptsAreLast'
    BY DEF ReceiptsAreLast
  <1>3. Named(job)' = Named(job) /\ (Named(job) <= job.attempt \/ Named(job) = job.pending)
    BY DEF Named, RowIs
  <1>4. /\ \A n \in Attempts : n > job.attempt /\ n # job.pending => shell'[n] = "none"
        /\ job.status = "lost" => job.shell \notin Live' /\ receipt[job.log] = "none"
        /\ job.status = "succeeded" => receipt[job.log] = "ok"
    BY DEF ShellsAre
  <1>5. job.status = "retrying" /\ ~job.paths => shell'[job.pending] = "none"
    <2>1. job.status = "retrying" => job.pending \in Attempts
      BY DEF RowIs, ShellTypeOK, Attempts
    <2>. QED  BY <2>1 DEF ShellsAre
  <1>6. \A n \in unconfirmed' : n <= job.attempt \/ n = job.pending
    BY <1>3 DEF ShellsAre
  <1>7. /\ \A n \in Working' : n = Named(job) \/ n \in unconfirmed' \ {job.shell}
        /\ job.status \in ConfirmedTerminal \cup {"lost"} => Working' \subseteq unconfirmed'
    BY DEF ShellsAre
  <1>8. ShellsAre(job)'
    BY <1>3, <1>4, <1>5, <1>6, <1>7 DEF ShellsAre
  <1>. QED  BY <1>1, <1>2, <1>8 DEF RowSound

\* What the operation knows stays so when shells end.
LEMMA KnowledgeAges ==
    ASSUME ShellIInv, ShellsEnd, UNCHANGED op PROVE InventoryHolds'
  BY ShellFacts, EndedAreFewer DEF InventoryHolds

LEMMA OwnedStay ==
    ASSUME ShellIInv, Live' \subseteq Live, UNCHANGED owner,
           Live' \cap reserved \subseteq reserved'
    PROVE  LiveIsOwned'
  BY ShellFacts DEF LiveIsOwned

\* No operation is under way when one ends.
LEMMA NoOpIsSound == ASSUME op' = NoOp PROVE OpSound'
  BY DEF NoOp, OpSound, InventoryHolds, OperationFits, AttemptFits, Launching, Starting

LEMMA NoOpIsTyped == NoOp \in [kind : {"none", "look", "start", "retry", "stop", "end"},
             at : {"none", "asked", "looked", "preparing", "reserving", "counting",
                   "creating", "created", "cleanup", "failed", "killing", "unsure",
                   "checked", "discover", "sweeping"},
             attempt : 0..MaxShellAttempts, known : BOOLEAN, live : SUBSET Attempts,
             ending : BOOLEAN, cancelled : BOOLEAN]
  <1>1. 0 \in 0..MaxShellAttempts
    BY MaxShellAttemptsAssumption
  <1>. QED  BY <1>1 DEF NoOp

-----------------------------------------------------------------------------
(* The operation asks the terminal server                                    *)

ShellSound == /\ ShellTypeOK /\ LiveIsOwned /\ RowSound /\ OpSound

LEMMA SoundIsInvariant == ASSUME ShellSound' PROVE ShellIInv'
  BY DEF ShellSound, RowSound, OpSound, ShellIInv

\* Which types a step has to show when the row and the receipts rest.
LEMMA TypesWhenRowRests ==
    ASSUME ShellIInv, UNCHANGED <<job, receipt>>, owner' \in BOOLEAN, ShellsEnd,
           reserved' \subseteq Attempts, unconfirmed' \subseteq Attempts,
           op' = NoOp \/ op' \in [kind : {"none", "look", "start", "retry", "stop", "end"},
             at : {"none", "asked", "looked", "preparing", "reserving", "counting",
                   "creating", "created", "cleanup", "failed", "killing", "unsure",
                   "checked", "discover", "sweeping"},
             attempt : 0..MaxShellAttempts, known : BOOLEAN, live : SUBSET Attempts,
             ending : BOOLEAN, cancelled : BOOLEAN]
    PROVE  ShellTypeOK'
  BY ShellFacts, NoOpIsTyped DEF ShellTypeOK, ShellsEnd

LEMMA AskKeeps == ASSUME ShellIInv, NEW kind \in {"look", "start", "retry", "stop", "end"},
  Ask(kind)
                  PROVE  ShellIInv'
  <1>. USE ShellFacts, RestIsEnd
  <1>1. /\ UNCHANGED <<owner, job, shell, receipt, reserved, unconfirmed>>
        /\ op' = [NoOp EXCEPT !.kind = kind, !.at = "asked"]
        /\ kind \in {"start", "retry"} => owner
        /\ kind = "start" => job.status = "none"
    BY DEF Ask
  <1>2. ShellTypeOK'
    BY <1>1, NoOpIsTyped, TypesWhenRowRests
  <1>3. LiveIsOwned' /\ RowSound'
    BY <1>1, RowRests DEF LiveIsOwned
  <1>4. OpSound'
    BY <1>1 DEF OpSound, NoOp, InventoryHolds, OperationFits, AttemptFits, Launching, Starting
  <1>. QED  BY <1>2, <1>3, <1>4, SoundIsInvariant DEF ShellSound

LEMMA LookUpKeeps == ASSUME ShellIInv, LookUp PROVE ShellIInv'
  <1>. USE ShellFacts, RestIsEnd
  <1>1. /\ UNCHANGED <<owner, job, shell, receipt, unconfirmed>>
        /\ op.at = "asked"
        /\ \E known \in BOOLEAN, live \in SUBSET Attempts :
             /\ op' = [op EXCEPT !.at = "looked", !.known = known, !.live = live]
             /\ known => live = Live
        /\ reserved' \in {reserved, reserved \cap Live}
    BY DEF LookUp, Observes, ObservesNothing, Retained, Live
  <1>2. PICK known \in BOOLEAN, live \in SUBSET Attempts :
             /\ op' = [op EXCEPT !.at = "looked", !.known = known, !.live = live]
             /\ known => live = Live
    BY <1>1
  <1>3. ShellTypeOK'
    BY <1>1, <1>2, TypesWhenRowRests DEF ShellTypeOK
  <1>4. LiveIsOwned' /\ RowSound'
    BY <1>1, RowRests, OwnedStay
  <1>5. InventoryHolds' /\ AttemptFits'
    BY <1>1, <1>2 DEF InventoryHolds, AttemptFits, ShellTypeOK, Live
  <1>6. op.kind # "none"
    BY <1>1 DEF OperationFits, NoOp
  <1>7. OperationFits'
    BY <1>1, <1>2, <1>6 DEF OperationFits, Launching, Starting, ShellTypeOK
  <1>. QED  BY <1>3, <1>4, <1>5, <1>7, SoundIsInvariant DEF ShellSound, OpSound

\* An operation ends, and its last request may still have an effect.
LEMMA EndingKeeps ==
    ASSUME ShellIInv, op' = NoOp, ShellsEnd, UNCHANGED <<owner, job, receipt, unconfirmed>>,
           reserved' \subseteq reserved, Live' \cap reserved \subseteq reserved'
    PROVE  ShellIInv'
  <1>. USE ShellFacts
  <1>1. ShellTypeOK'
    BY TypesWhenRowRests
  <1>2. LiveIsOwned' /\ RowSound'
    BY RowRests, OwnedStay, EndedAreFewer
  <1>. QED  BY <1>1, <1>2, NoOpIsSound, SoundIsInvariant DEF ShellSound

LEMMA ReserveKeeps == ASSUME ShellIInv, Reserve PROVE ShellIInv'
  <1>. USE ShellFacts, RestIsEnd
  <1>1. /\ UNCHANGED <<owner, job, shell, receipt, unconfirmed>>
        /\ op.at = "reserving" /\ op' = [op EXCEPT !.at = "counting"]
        /\ reserved' = reserved \cup {op.attempt}
    BY DEF Reserve
  <1>2. op.attempt \in Attempts
    BY <1>1 DEF OperationFits, Launching, Starting, Named, RowIs, ShellTypeOK, Attempts
  <1>3. ShellTypeOK'
    BY <1>1, <1>2, TypesWhenRowRests DEF ShellTypeOK
  <1>4. LiveIsOwned' /\ RowSound'
    BY <1>1, RowRests, OwnedStay
  <1>5. InventoryHolds' /\ AttemptFits'
    BY <1>1 DEF InventoryHolds, AttemptFits, ShellTypeOK
  <1>6. OperationFits'
    BY <1>1 DEF OperationFits, Launching, Starting, ShellTypeOK, NoOp
  <1>. QED  BY <1>3, <1>4, <1>5, <1>6, SoundIsInvariant DEF ShellSound, OpSound

LEMMA CountKeeps == ASSUME ShellIInv, Count PROVE ShellIInv'
  <1>. USE ShellFacts, RestIsEnd
  <1>1. /\ UNCHANGED <<owner, job, shell, receipt, unconfirmed>>
        /\ op.at = "counting"
        /\ op' = [op EXCEPT !.at = "creating", !.known = TRUE, !.live = Live]
        /\ reserved' = reserved \cap (Live \cup {op.attempt})
    BY DEF Count, Observes, Retained
  <1>2. ShellTypeOK'
    BY <1>1, TypesWhenRowRests DEF ShellTypeOK, Live
  <1>3. LiveIsOwned' /\ RowSound'
    BY <1>1, RowRests, OwnedStay
  <1>4. InventoryHolds' /\ AttemptFits'
    BY <1>1 DEF InventoryHolds, AttemptFits, ShellTypeOK
  <1>5. OperationFits'
    BY <1>1 DEF OperationFits, Launching, Starting, ShellTypeOK, NoOp
  <1>. QED  BY <1>2, <1>3, <1>4, <1>5, SoundIsInvariant DEF ShellSound, OpSound

LEMMA CountRefusesKeeps == ASSUME ShellIInv, CountRefuses PROVE ShellIInv'
  <1>. USE ShellFacts, RestIsEnd
  <1>1. /\ UNCHANGED <<owner, job, shell, receipt, unconfirmed>>
        /\ op.at = "counting" /\ reserved' = reserved \ {op.attempt}
        /\ op' = NoOp \/ op' = [op EXCEPT !.at = "failed"]
    BY DEF CountRefuses, Released, Ends
  <1>2. op.attempt \notin Live /\ op.attempt \notin Working
    BY <1>1 DEF AttemptFits, Live, Working
  <1>3. CASE op' = NoOp
    BY <1>1, <1>2, <1>3, EndingKeeps
  <1>4. CASE op' = [op EXCEPT !.at = "failed"]
    <2>1. ShellTypeOK'
      BY <1>1, <1>4, TypesWhenRowRests DEF ShellTypeOK
    <2>2. LiveIsOwned' /\ RowSound'
      BY <1>1, <1>2, RowRests, OwnedStay
    <2>3. InventoryHolds' /\ AttemptFits'
      BY <1>1, <1>2, <1>4 DEF InventoryHolds, AttemptFits, ShellTypeOK
    <2>4. OperationFits'
      BY <1>1, <1>4 DEF OperationFits, Launching, Starting, ShellTypeOK, NoOp
    <2>. QED  BY <2>1, <2>2, <2>3, <2>4, SoundIsInvariant DEF ShellSound, OpSound
  <1>. QED  BY <1>1, <1>3, <1>4

\* A failed start is cleaned up: the shell is dead, or counted as unconfirmed.
LEMMA CleanupKeeps == ASSUME ShellIInv, Cleanup PROVE ShellIInv'
  <1>. USE ShellFacts
  <1>1. /\ UNCHANGED <<owner, job, receipt>> /\ op.at = "cleanup"
    BY DEF Cleanup
  <1>2. op.attempt = Named(job) /\ op.attempt \in Attempts /\ op.kind # "none"
    BY <1>1 DEF OperationFits, Launching, Starting, Named, RowIs, ShellTypeOK, Attempts, NoOp
  <1>3. ShellsEnd /\ Live' \subseteq Live /\ Working' \subseteq Working
    BY ShellKillsEnd, RestIsEnd, EndedAreFewer DEF Cleanup
  <1>4. CASE /\ op.attempt \notin Live' /\ Live' \subseteq Live \ {op.attempt}
             /\ reserved' = reserved \ {op.attempt} /\ UNCHANGED unconfirmed
             /\ op' = NoOp \/ op' = [op EXCEPT !.at = "failed"]
    <2>1. CASE op' = NoOp
      BY <1>1, <1>3, <1>4, <2>1, EndingKeeps
    <2>2. CASE op' = [op EXCEPT !.at = "failed"]
      <3>1. ShellTypeOK'
        BY <1>1, <1>3, <1>4, <2>2, TypesWhenRowRests DEF ShellTypeOK
      <3>2. LiveIsOwned' /\ RowSound'
        BY <1>1, <1>3, <1>4, RowRests, OwnedStay
      <3>3. InventoryHolds' /\ AttemptFits'
        BY <1>1, <1>4, <2>2 DEF InventoryHolds, AttemptFits, ShellTypeOK, Live, Working
      <3>4. OperationFits'
        BY <1>1, <1>2, <2>2 DEF OperationFits, Launching, Starting, ShellTypeOK, Named
      <3>. QED  BY <3>1, <3>2, <3>3, <3>4, SoundIsInvariant DEF ShellSound, OpSound
    <2>. QED  BY <1>4, <2>1, <2>2
  <1>5. CASE /\ unconfirmed' = unconfirmed \cup {op.attempt} /\ UNCHANGED reserved
             /\ op' = [op EXCEPT !.at = "failed"]
    <2>1. ShellTypeOK'
      BY <1>1, <1>2, <1>3, <1>5, TypesWhenRowRests DEF ShellTypeOK
    <2>2. LiveIsOwned' /\ RowSound'
      BY <1>1, <1>2, <1>3, <1>5, RowRests, OwnedStay
    <2>3. InventoryHolds' /\ AttemptFits'
      BY <1>1, <1>5 DEF InventoryHolds, AttemptFits, ShellTypeOK
    <2>4. OperationFits'
      BY <1>1, <1>2, <1>5 DEF OperationFits, Launching, Starting, ShellTypeOK, Named
    <2>. QED  BY <2>1, <2>2, <2>3, <2>4, SoundIsInvariant DEF ShellSound, OpSound
  <1>6. Killed(op.attempt) \/ (Live = {} /\ UNCHANGED shell) =>
          op.attempt \notin Live' /\ Live' \subseteq Live \ {op.attempt}
    BY KilledIsGone, RestIsEnd
  <1>. QED  BY <1>4, <1>5, <1>6 DEF Cleanup, Released

LEMMA StopKillsKeeps == ASSUME ShellIInv, StopKills PROVE ShellIInv'
  <1>. USE ShellFacts
  <1>1. /\ UNCHANGED <<owner, job, receipt, unconfirmed>> /\ op.at = "killing"
        /\ op.kind # "none"
    BY DEF StopKills, OperationFits, NoOp
  <1>2. CASE Killed(op.attempt) /\ Released(op.attempt)
             /\ op' = [op EXCEPT !.at = "checked", !.known = TRUE, !.live = {}]
    <2>1. ShellsEnd /\ Live' = Live \ {op.attempt} /\ reserved' = reserved \ {op.attempt}
      BY <1>2, ShellKillsEnd, KilledIsGone DEF Released
    <2>2. ShellTypeOK'
      BY <1>1, <1>2, <2>1, TypesWhenRowRests DEF ShellTypeOK
    <2>3. LiveIsOwned' /\ RowSound'
      BY <1>1, <2>1, RowRests, OwnedStay
    <2>4. InventoryHolds' /\ AttemptFits'
      BY <1>1, <1>2, <2>1 DEF InventoryHolds, AttemptFits, ShellTypeOK
    <2>5. OperationFits'
      BY <1>1, <1>2 DEF OperationFits, Launching, Starting, ShellTypeOK
    <2>. QED  BY <2>2, <2>3, <2>4, <2>5, SoundIsInvariant DEF ShellSound, OpSound
  <1>3. CASE NotKilled(op.attempt) /\ op' = [op EXCEPT !.at = "unsure"] /\ UNCHANGED reserved
    <2>1. ShellsEnd /\ Live' \subseteq Live
      BY <1>3, ShellKillsEnd
    <2>2. ShellTypeOK'
      BY <1>1, <1>3, <2>1, TypesWhenRowRests DEF ShellTypeOK
    <2>3. LiveIsOwned' /\ RowSound'
      BY <1>1, <1>3, <2>1, RowRests, OwnedStay
    <2>4. InventoryHolds' /\ AttemptFits'
      BY <1>1, <1>3 DEF InventoryHolds, AttemptFits, ShellTypeOK
    <2>5. OperationFits'
      BY <1>1, <1>3 DEF OperationFits, Launching, Starting, ShellTypeOK
    <2>. QED  BY <2>2, <2>3, <2>4, <2>5, SoundIsInvariant DEF ShellSound, OpSound
  <1>. QED  BY <1>2, <1>3 DEF StopKills

LEMMA StopChecksKeeps == ASSUME ShellIInv, StopChecks PROVE ShellIInv'
  <1>. USE ShellFacts, RestIsEnd
  <1>1. /\ UNCHANGED <<owner, job, shell, receipt, unconfirmed>>
        /\ op.at = "unsure"
        /\ \E known \in BOOLEAN, live \in SUBSET Attempts :
             /\ op' = [op EXCEPT !.at = "checked", !.known = known, !.live = live]
             /\ known => live = Live
        /\ reserved' \in {reserved, reserved \cap Live}
    BY DEF StopChecks, Observes, ObservesNothing, Retained, Live
  <1>2. PICK known \in BOOLEAN, live \in SUBSET Attempts :
             /\ op' = [op EXCEPT !.at = "checked", !.known = known, !.live = live]
             /\ known => live = Live
    BY <1>1
  <1>3. ShellTypeOK'
    BY <1>1, <1>2, TypesWhenRowRests DEF ShellTypeOK
  <1>4. LiveIsOwned' /\ RowSound'
    BY <1>1, RowRests, OwnedStay
  <1>5. InventoryHolds' /\ AttemptFits'
    BY <1>1, <1>2 DEF InventoryHolds, AttemptFits, ShellTypeOK
  <1>6. op.kind # "none"
    BY <1>1 DEF OperationFits, NoOp
  <1>7. OperationFits'
    BY <1>1, <1>2, <1>6 DEF OperationFits, Launching, Starting, ShellTypeOK
  <1>. QED  BY <1>3, <1>4, <1>5, <1>7, SoundIsInvariant DEF ShellSound, OpSound

-----------------------------------------------------------------------------
(* The termination of the session, and operations that are cut short          *)

LEMMA EndDiscoversKeeps == ASSUME ShellIInv, EndDiscovers PROVE ShellIInv'
  <1>. USE ShellFacts, RestIsEnd
  <1>1. UNCHANGED <<owner, job, shell, receipt, unconfirmed>> /\ op.at = "discover"
    BY DEF EndDiscovers
  <1>2. CASE op' = NoOp /\ UNCHANGED reserved
    BY <1>1, <1>2, EndingKeeps
  <1>3. CASE op' = [op EXCEPT !.at = "sweeping", !.live = Live] /\ reserved' = Live
    <2>1. ShellTypeOK'
      BY <1>1, <1>3, TypesWhenRowRests DEF ShellTypeOK, Live
    <2>2. LiveIsOwned' /\ RowSound'
      BY <1>1, <1>3, RowRests, OwnedStay
    <2>3. InventoryHolds' /\ AttemptFits'
      BY <1>1, <1>3 DEF InventoryHolds, AttemptFits, ShellTypeOK
    <2>4. op.kind # "none"
      BY <1>1 DEF OperationFits, NoOp
    <2>5. OperationFits'
      BY <1>1, <1>3, <2>4 DEF OperationFits, Launching, Starting, ShellTypeOK
    <2>. QED  BY <2>1, <2>2, <2>3, <2>5, SoundIsInvariant DEF ShellSound, OpSound
  <1>. QED  BY <1>2, <1>3 DEF EndDiscovers, Ends

LEMMA EndKillsKeeps == ASSUME ShellIInv, NEW n \in Attempts, EndKills(n) PROVE ShellIInv'
  <1>. USE ShellFacts
  <1>1. /\ UNCHANGED <<owner, job, receipt, unconfirmed>> /\ op.at = "sweeping"
        /\ op' = [op EXCEPT !.live = op.live \ {n}] /\ Live \subseteq op.live
    BY DEF EndKills, InventoryHolds
  <1>2. ShellsEnd /\ Live' \subseteq Live \ {n} /\ reserved' \subseteq Attempts
        /\ Live' \cap reserved \subseteq reserved'
    <2>1. CASE n \notin Live /\ reserved' = Live /\ UNCHANGED shell
      BY <2>1, RestIsEnd DEF Live
    <2>2. CASE Killed(n) /\ Released(n)
      BY <2>2, ShellKillsEnd, KilledIsGone DEF Released
    <2>. QED  BY <2>1, <2>2 DEF EndKills
  <1>3. ShellTypeOK'
    BY <1>1, <1>2, TypesWhenRowRests DEF ShellTypeOK
  <1>4. LiveIsOwned' /\ RowSound'
    BY <1>1, <1>2, RowRests, OwnedStay
  <1>5. InventoryHolds' /\ AttemptFits'
    BY <1>1, <1>2 DEF InventoryHolds, AttemptFits, ShellTypeOK
  <1>6. op.kind # "none"
    BY <1>1 DEF OperationFits, NoOp
  <1>7. OperationFits'
    BY <1>1, <1>6 DEF OperationFits, Launching, Starting, ShellTypeOK
  <1>. QED  BY <1>3, <1>4, <1>5, <1>7, SoundIsInvariant DEF ShellSound, OpSound

LEMMA EndGivesUpKeeps == ASSUME ShellIInv, EndGivesUp PROVE ShellIInv'
  <1>1. PICK n \in op.live : NotKilled(n)
    BY DEF EndGivesUp
  <1>. QED  BY <1>1, ShellKillsEnd, EndingKeeps DEF EndGivesUp, Ends

LEMMA EndRemovesKeeps == ASSUME ShellIInv, EndRemoves PROVE ShellIInv'
  <1>. USE ShellFacts, RestIsEnd
  <1>1. /\ UNCHANGED <<job, shell, receipt, unconfirmed>> /\ op' = NoOp
        /\ op.at = "sweeping" /\ op.live = {} /\ owner' = FALSE /\ reserved' = {}
    BY DEF EndRemoves, Ends
  <1>2. ShellTypeOK'
    BY <1>1, TypesWhenRowRests
  <1>3. LiveIsOwned'
    BY <1>1 DEF InventoryHolds, LiveIsOwned
  <1>4. RowSound' /\ OpSound'
    BY <1>1, RowRests, NoOpIsSound
  <1>. QED  BY <1>2, <1>3, <1>4, SoundIsInvariant DEF ShellSound

\* Removing the files of an attempt that the row does not rely on.
LEMMA FilesGo ==
    ASSUME ShellIInv, op.at \in Launching, receipt' = WithoutFiles(op.attempt)
    PROVE  /\ receipt' \in [Attempts -> {"none", "ok", "bad"}]
           /\ \A n \in Attempts : receipt'[n] # "none" => receipt[n] # "none"
           /\ job.status \in {"starting", "retrying"}
  BY ShellFacts DEF WithoutFiles, OperationFits

LEMMA StoreFailsKeeps == ASSUME ShellIInv, StoreFails PROVE ShellIInv'
  <1>. USE ShellFacts, RestIsEnd
  <1>1. UNCHANGED <<owner, job, shell, reserved, unconfirmed>> /\ op' = NoOp
    BY DEF StoreFails, Ends
  <1>2. CASE UNCHANGED receipt
    BY <1>1, <1>2, EndingKeeps
  <1>3. CASE op.at = "failed" /\ receipt' = WithoutFiles(op.attempt)
    <2>1. /\ receipt' \in [Attempts -> {"none", "ok", "bad"}]
          /\ \A n \in Attempts : receipt'[n] # "none" => receipt[n] # "none"
          /\ job.status \in {"starting", "retrying"}
      BY <1>3, FilesGo DEF Launching
    <2>2. ShellTypeOK'
      BY <1>1, <2>1, NoOpIsTyped DEF ShellTypeOK
    <2>3. LiveIsOwned' /\ RowIs(job)' /\ ReceiptsAreLast'
      BY <1>1, <2>1 DEF LiveIsOwned, RowIs, ReceiptsAreLast, Live
    <2>4. ShellsAre(job)'
      BY <1>1, <2>1 DEF ShellsAre, Named, ConfirmedTerminal
    <2>. QED  BY <1>1, <2>2, <2>3, <2>4, NoOpIsSound, SoundIsInvariant DEF ShellSound, RowSound
  <1>. QED  BY <1>2, <1>3 DEF StoreFails

\* The shell of an attempt is created.
LEMMA CreatedKeepsRow ==
    ASSUME ShellIInv, op.at = "creating", shell' = [shell EXCEPT ![op.attempt] = "working"],
           UNCHANGED <<owner, job, receipt, reserved, unconfirmed>>
    PROVE  /\ LiveIsOwned' /\ RowSound' /\ op.attempt \in Attempts
           /\ shell' \in [Attempts -> {"none", "working", "done", "gone"}]
  <1>. USE ShellFacts
  <1>1. /\ op.attempt = Named(job) /\ op.attempt \in reserved /\ shell[op.attempt] = "none"
        /\ owner /\ job.status \in {"starting", "retrying"}
        /\ job.status = "retrying" => job.paths
    BY DEF OperationFits, AttemptFits, Launching, Starting
  <1>2. /\ \A n \in Attempts : n # op.attempt => shell'[n] = shell[n]
        /\ op.attempt \in Attempts
        /\ op.attempt <= job.attempt \/ op.attempt = job.pending
    BY <1>1 DEF Named, RowIs
  <1>3. /\ Live' = Live \cup {op.attempt} /\ Working' = Working \cup {op.attempt}
        /\ shell' \in [Attempts -> {"none", "working", "done", "gone"}]
    BY <1>2 DEF Live, Working
  <1>4. LiveIsOwned' /\ RowIs(job)' /\ ReceiptsAreLast'
    BY <1>1, <1>2, <1>3 DEF LiveIsOwned, RowIs, ReceiptsAreLast
  <1>5. ShellsAre(job)'
    BY <1>1, <1>2, <1>3 DEF ShellsAre, Named, ConfirmedTerminal
  <1>. QED  BY <1>2, <1>3, <1>4, <1>5 DEF RowSound

LEMMA InterruptedKeeps == ASSUME ShellIInv, Interrupted PROVE ShellIInv'
  <1>. USE ShellFacts
  <1>1. UNCHANGED <<owner, job, receipt, reserved, unconfirmed>> /\ op' = NoOp
    BY DEF Interrupted, Ends
  <1>2. CASE UNCHANGED shell \/ Killed(op.attempt)
    BY <1>1, <1>2, RestIsEnd, ShellKillsEnd, EndingKeeps
  <1>3. CASE op.at = "creating" /\ shell' = [shell EXCEPT ![op.attempt] = "working"]
    <2>1. LiveIsOwned' /\ RowSound'
          /\ shell' \in [Attempts -> {"none", "working", "done", "gone"}]
      BY <1>1, <1>3, CreatedKeepsRow
    <2>2. ShellTypeOK'
      BY <1>1, <2>1, NoOpIsTyped DEF ShellTypeOK
    <2>. QED  BY <1>1, <2>1, <2>2, NoOpIsSound, SoundIsInvariant DEF ShellSound
  <1>. QED  BY <1>2, <1>3 DEF Interrupted

LEMMA CreateKeeps == ASSUME ShellIInv, Create PROVE ShellIInv'
  <1>. USE ShellFacts
  <1>1. /\ UNCHANGED <<owner, job, receipt, reserved, unconfirmed>> /\ op.at = "creating"
        /\ \E at \in {"created", "cleanup"}, c \in BOOLEAN :
             op' = [op EXCEPT !.at = at, !.cancelled = c]
    <2>1. op.cancelled \in BOOLEAN
          /\ [op EXCEPT !.at = "created"] = [op EXCEPT !.at = "created",
             !.cancelled = op.cancelled]
      BY DEF ShellTypeOK
    <2>. QED  BY <2>1 DEF Create
  <1>2. PICK at \in {"created", "cleanup"}, c \in BOOLEAN :
             op' = [op EXCEPT !.at = at, !.cancelled = c]
    BY <1>1
  <1>3. LiveIsOwned' /\ RowSound'
        /\ shell' \in [Attempts -> {"none", "working", "done", "gone"}]
    <2>1. CASE UNCHANGED shell
      BY <1>1, <2>1, RestIsEnd, RowRests, OwnedStay
    <2>. QED  BY <1>1, <2>1, CreatedKeepsRow DEF Create
  <1>4. ShellTypeOK'
    BY <1>1, <1>2, <1>3 DEF ShellTypeOK
  <1>5. InventoryHolds' /\ AttemptFits'
    BY <1>1, <1>2 DEF InventoryHolds, AttemptFits, ShellTypeOK
  <1>6. op.kind # "none"
    BY <1>1 DEF OperationFits, NoOp
  <1>7. OperationFits'
    BY <1>1, <1>2, <1>6 DEF OperationFits, Launching, Starting, ShellTypeOK, Named
  <1>. QED  BY <1>3, <1>4, <1>5, <1>7, SoundIsInvariant DEF ShellSound, OpSound

-----------------------------------------------------------------------------
(* What goes on by itself                                                    *)

LEMMA RunnerReportsKeeps ==
    ASSUME ShellIInv, NEW n \in Attempts, RunnerReports(n) PROVE ShellIInv'
  <1>. USE ShellFacts
  <1>1. /\ UNCHANGED <<owner, job, reserved, op, unconfirmed>>
        /\ shell[n] = "working" /\ shell' = [shell EXCEPT ![n] = "done"]
    BY DEF RunnerReports
  <1>2. PICK r \in {"ok", "bad"} : receipt' = [receipt EXCEPT ![n] = r]
    BY DEF RunnerReports
  <1>3. ShellsEnd /\ Live' = Live /\ Working' \subseteq Working
    BY <1>1 DEF ShellsEnd, Live, Working
  <1>4. ShellTypeOK'
    BY <1>1, <1>2 DEF ShellTypeOK
  <1>5. LiveIsOwned' /\ RowIs(job)'
    BY <1>1, <1>3 DEF LiveIsOwned, RowIs
  <1>6. ReceiptsAreLast'
    BY <1>1, <1>2 DEF ReceiptsAreLast
  <1>7. \A m \in Attempts : shell[m] = "none" <=> shell'[m] = "none"
    BY <1>3, EndedAreFewer
  <1>8. job.status = "lost" \/ job.status = "succeeded" =>
          job.log \in Attempts /\ receipt'[job.log] = receipt[job.log]
    <2>1. job.status = "lost" \/ job.status = "succeeded" =>
            job.log \in Attempts /\ job.log = job.shell
      BY DEF RowIs, ShellTypeOK, Attempts
    <2>2. job.status = "lost" => job.log # n
      BY <1>1, <2>1 DEF ShellsAre, Live
    <2>3. job.status = "succeeded" => job.log # n
      BY <1>1, <2>1 DEF ShellsAre, ReceiptsAreLast
    <2>. QED  BY <1>2, <2>1, <2>2, <2>3
  <1>9. job.status = "retrying" => job.pending \in Attempts
    BY DEF RowIs, ShellTypeOK, Attempts
  <1>10. ShellsAre(job)'
    BY <1>1, <1>3, <1>7, <1>8, <1>9 DEF ShellsAre, Named
  <1>11. InventoryHolds'
    BY <1>1, <1>3, KnowledgeAges
  <1>12. AttemptFits'
    BY <1>1, <1>3 DEF AttemptFits
  <1>13. OperationFits'
    BY <1>1 DEF OperationFits, Named
  <1>. QED  BY <1>4, <1>5, <1>6, <1>10, <1>11, <1>12, <1>13, SoundIsInvariant
            DEF ShellSound, OpSound, RowSound

LEMMA ShellGoesKeeps ==
    ASSUME ShellIInv, NEW n \in Attempts, ShellEnds(n) \/ UserKills(n) PROVE ShellIInv'
  <1>. USE ShellFacts
  <1>1. /\ UNCHANGED <<owner, job, receipt, op, unconfirmed>> /\ Killed(n)
        /\ reserved' = reserved
           \/ (reserved' = reserved \ {n} /\ n \notin {job.shell, job.pending})
    BY DEF ShellEnds, UserKills, Released
  <1>2. ShellsEnd /\ Live' = Live \ {n} /\ Working' \subseteq Working
    BY <1>1, ShellKillsEnd, KilledIsGone, EndedAreFewer
  <1>3. ShellTypeOK'
    BY <1>1, <1>2, TypesWhenRowRests DEF ShellTypeOK
  <1>4. LiveIsOwned' /\ RowSound'
    BY <1>1, <1>2, RowRests, OwnedStay
  <1>5. InventoryHolds'
    BY <1>1, <1>2, KnowledgeAges
  <1>6. AttemptFits'
    <2>1. op.at \in {"counting", "creating"} => op.attempt \in {job.shell, job.pending}
      BY DEF OperationFits, Launching, Starting, Named
    <2>2. op.at \in {"preparing", "reserving", "counting", "creating"} =>
            op.attempt \in Attempts /\ shell'[op.attempt] = "none"
      <3>1. op.at \in {"preparing", "reserving", "counting", "creating"}
            => op.attempt \in Attempts
        BY DEF OperationFits, Launching, Starting, Named, RowIs, ShellTypeOK, Attempts
      <3>. QED  BY <1>2, <3>1, EndedAreFewer DEF AttemptFits
    <2>. QED  BY <1>1, <1>2, <2>1, <2>2 DEF AttemptFits
  <1>7. OperationFits'
    BY <1>1 DEF OperationFits, Named
  <1>. QED  BY <1>3, <1>4, <1>5, <1>6, <1>7, SoundIsInvariant DEF ShellSound, OpSound

LEMMA PruneKeeps == ASSUME ShellIInv, Prune PROVE ShellIInv'
  <1>. USE ShellFacts
  <1>1. /\ UNCHANGED <<owner, shell, reserved, op, unconfirmed>>
        /\ job.status \in {"succeeded", "failed", "stopped", "lost"}
        /\ job' = [job EXCEPT !.status = "pruned", !.shell = 0, !.log = 0]
        /\ receipt' = [n \in Attempts |-> "none"]
    BY DEF Prune, ConfirmedTerminal
  <1>2. /\ job'.status = "pruned" /\ job'.attempt = job.attempt /\ job'.shell = 0
        /\ job'.log = 0
        /\ job'.pending = job.pending /\ job'.paths = job.paths
    BY <1>1 DEF ShellTypeOK
  <1>3. ShellTypeOK'
    <2>1. 0 \in 0..MaxShellAttempts
      BY MaxShellAttemptsAssumption
    <2>. QED  BY <1>1, <2>1, ZenonT(60) DEF ShellTypeOK
  <1>4. LiveIsOwned' /\ RowIs(job)' /\ ReceiptsAreLast'
    BY <1>1, <1>2 DEF LiveIsOwned, Live, RowIs, ReceiptsAreLast
  <1>5. ShellsAre(job)'
    <2>1. Working' \subseteq unconfirmed' /\ Working' = Working
      BY <1>1 DEF ShellsAre, ConfirmedTerminal, Working
    <2>. QED  BY <1>1, <1>2, <2>1 DEF ShellsAre, Named, ConfirmedTerminal
  <1>6. InventoryHolds' /\ AttemptFits'
    BY <1>1, <1>2 DEF InventoryHolds, AttemptFits, Live, Working
  <1>7. OperationFits'
    BY <1>1, <1>2 DEF OperationFits, Launching, Starting
  <1>. QED  BY <1>3, <1>4, <1>5, <1>6, <1>7, SoundIsInvariant DEF ShellSound, OpSound, RowSound

LEMMA LaunchIsUndoneKeeps == ASSUME ShellIInv, LaunchIsUndone PROVE ShellIInv'
  <1>. USE ShellFacts
  <1>1. UNCHANGED <<owner, job, unconfirmed>> /\ op' = NoOp /\ op.at = "created"
        /\ receipt' = WithoutFiles(op.attempt)
    BY DEF LaunchIsUndone, Ends
  <1>2. ShellsEnd /\ reserved' \subseteq reserved /\ Live' \cap reserved \subseteq reserved'
    BY ShellKillsEnd, KilledIsGone DEF LaunchIsUndone, Released
  <1>3. /\ receipt' \in [Attempts -> {"none", "ok", "bad"}]
        /\ \A n \in Attempts : receipt'[n] # "none" => receipt[n] # "none"
        /\ job.status \in {"starting", "retrying"}
    BY <1>1, FilesGo DEF Launching, Starting
  <1>4. Working' \subseteq Working /\ Live' \subseteq Live
        /\ \A m \in Attempts : /\ shell[m] = "none" <=> shell'[m] = "none"
                               /\ shell[m] \in {"done", "gone"}
                                  => shell'[m] \in {"done", "gone"}
    BY <1>2, EndedAreFewer
  <1>5. ShellTypeOK'
    BY <1>1, <1>2, <1>3, NoOpIsTyped DEF ShellTypeOK, ShellsEnd
  <1>6. LiveIsOwned' /\ RowIs(job)' /\ ReceiptsAreLast'
    BY <1>1, <1>2, <1>3, <1>4, OwnedStay DEF RowIs, ReceiptsAreLast
  <1>7. ShellsAre(job)'
    <2>1. job.status = "retrying" => job.pending \in Attempts
      BY DEF RowIs, ShellTypeOK, Attempts
    <2>. QED  BY <1>1, <1>3, <1>4, <2>1 DEF ShellsAre, Named, ConfirmedTerminal
  <1>. QED  BY <1>1, <1>5, <1>6, <1>7, NoOpIsSound, SoundIsInvariant DEF ShellSound, RowSound

-----------------------------------------------------------------------------
(* Reconciliation                                                            *)

ShellRows == [status : {"none", "pruned", "running", "lost"} \cup InTransition
                         \cup ConfirmedTerminal,
         attempt : 0..MaxShellAttempts, shell : 0..MaxShellAttempts,
         log : 0..MaxShellAttempts, pending : 0..MaxShellAttempts, paths : BOOLEAN]

\* A row that says nothing wrong.
SoundRow(r) == r \in ShellRows /\ RowIs(r) /\ ShellsAre(r)

\* What a receipt, or a shell that is absent, allows a row to say.
MaySettle(r, s) ==
    /\ SoundRow(r) /\ r.status \in {"starting", "stopping", "running", "lost"}
    /\ \/ s \in {"running", "stopping"}
       \/ s \in {"succeeded", "failed"}
            /\ receipt[r.log] = (IF s = "succeeded" THEN "ok" ELSE "bad")
       \/ r.shell \notin Live /\ receipt[r.log] = "none" /\ s = "lost"
       \/ r.shell \notin Live /\ s \in {"failed", "stopped"}

LEMMA SettledIs ==
    ASSUME ShellIInv, NEW r, NEW s, MaySettle(r, s)
    PROVE  SoundRow([r EXCEPT !.status = s])
  <1>. USE ShellFacts
  <1>. DEFINE t == [r EXCEPT !.status = s]
  <1>0. /\ r \in ShellRows /\ RowIs(r) /\ ShellsAre(r)
        /\ r.status \in {"starting", "stopping", "running", "lost"}
        /\ s \in {"running", "stopping", "succeeded", "failed", "lost", "stopped"}
    BY DEF MaySettle, SoundRow
  <1>1. /\ t.status = s /\ t.attempt = r.attempt /\ t.shell = r.shell /\ t.log = r.log
        /\ t.pending = r.pending /\ t.paths = r.paths /\ t \in ShellRows
    BY <1>0 DEF ShellRows, InTransition, ConfirmedTerminal
  <1>2. r.shell = r.attempt /\ r.log = r.attempt /\ r.log \in Attempts
    BY <1>0 DEF RowIs, ShellRows, Attempts
  <1>3. r.shell \in Working => s \in {"running", "stopping"}
    BY <1>2 DEF ReceiptsAreLast, Working, Live, MaySettle
  <1>. HIDE DEF t
  <1>4. RowIs(t)
    BY <1>0, <1>1, <1>2 DEF RowIs
  <1>5. ShellsAre(t)
    <2>1. /\ \A n \in Attempts : n > t.attempt /\ n # t.pending => shell[n] = "none"
          /\ t.status = "retrying" /\ ~t.paths => shell[t.pending] = "none"
          /\ \A n \in unconfirmed : n <= t.attempt \/ n = t.pending
      BY <1>0, <1>1 DEF ShellsAre
    <2>2. Named(t) = Named(r) /\ Named(r) = r.shell
      BY <1>0, <1>1 DEF Named
    <2>3. \A n \in Working : n = Named(t) \/ n \in unconfirmed \ {t.shell}
      BY <1>0, <1>1, <2>2 DEF ShellsAre
    <2>4. t.status \in ConfirmedTerminal \cup {"lost"} => Working \subseteq unconfirmed
      BY <1>0, <1>1, <1>3, <2>2, <2>3 DEF ConfirmedTerminal
    <2>5. /\ t.status = "lost" => t.shell \notin Live /\ receipt[t.log] = "none"
          /\ t.status = "succeeded" => receipt[t.log] = "ok"
      BY <1>0, <1>1 DEF MaySettle
    <2>. QED  BY <2>1, <2>3, <2>4, <2>5 DEF ShellsAre
  <1>. QED  BY <1>1, <1>4, <1>5 DEF t, SoundRow

\* A row whose retry was interrupted, as the attempt it has become.
LEMMA AdoptedIs ==
    ASSUME ShellIInv, job.status = "retrying",
           NEW s \in {"running", "succeeded", "failed"},
           s # "failed" => job.paths,
           job.pending \in Working => s = "running",
           s = "succeeded" => receipt[job.pending] = "ok"
    PROVE  SoundRow([Adopted EXCEPT !.status = s])
  <1>. USE ShellFacts
  <1>. DEFINE t == [Adopted EXCEPT !.status = s]
  <1>1. /\ t.status = s /\ t.attempt = job.pending /\ t.shell = job.pending
        /\ t.log = (IF job.paths THEN job.pending ELSE job.log)
        /\ t.pending = 0 /\ t.paths = FALSE /\ t \in ShellRows
    <2>1. 0 \in 0..MaxShellAttempts /\ job.log \in 0..MaxShellAttempts
          /\ job.pending \in 0..MaxShellAttempts
      BY MaxShellAttemptsAssumption DEF ShellTypeOK
    <2>2. /\ t.status = s /\ t.attempt = job.pending /\ t.shell = job.pending
          /\ t.log = (IF job.paths THEN job.pending ELSE job.log)
          /\ t.pending = 0 /\ t.paths = FALSE
      BY DEF Adopted, ShellTypeOK
    <2>3. job \in ShellRows /\ s \in {"none", "pruned", "running", "lost"} \cup InTransition
                                \cup ConfirmedTerminal
      BY DEF ShellTypeOK, ShellRows, ConfirmedTerminal
    <2>4. Adopted \in ShellRows
      <3>1. \A l \in 0..MaxShellAttempts :
              [job EXCEPT !.attempt = job.pending, !.shell = job.pending, !.log = l,
                          !.pending = 0, !.paths = FALSE] \in ShellRows
        BY ONLY <2>1, <2>3 DEF ShellRows
      <3>. QED  BY <2>1, <3>1 DEF Adopted
    <2>5. t \in ShellRows
      BY ONLY <2>3, <2>4 DEF ShellRows, t
    <2>. QED  BY <2>2, <2>5
  <1>. HIDE DEF t
  <1>2. job.pending = job.attempt + 1 /\ job.pending \in Attempts
    BY DEF RowIs, ShellTypeOK, Attempts
  <1>3. RowIs(t)
    BY <1>1, <1>2 DEF RowIs
  <1>4. /\ \A n \in Attempts : n > t.attempt /\ n # t.pending => shell[n] = "none"
        /\ \A n \in unconfirmed : n <= t.attempt \/ n = t.pending
    BY <1>1, <1>2 DEF ShellsAre
  <1>5. \A n \in Working : n = job.pending \/ n \in unconfirmed
    BY DEF ShellsAre, Named
  <1>6. ShellsAre(t)
    BY <1>1, <1>4, <1>5 DEF ShellsAre, Named, ConfirmedTerminal
  <1>. QED  BY <1>1, <1>3, <1>6 DEF t, SoundRow

LEMMA ReconciledIs ==
    ASSUME ShellIInv, op.at = "looked"
    PROVE  /\ SoundRow(Reconciled)
           /\ Reconciled.status \in {"starting", "stopping", "retrying"} =>
                ~op.known /\ Reconciled = job
           /\ job.status = "none" => Reconciled = job
           /\ Reconciled.status \in {"none", "pruned"} => Reconciled = job
  <1>. USE ShellFacts
  <1>1. SoundRow(job) /\ job \in ShellRows
    BY DEF ShellTypeOK, ShellRows, SoundRow
  <1>2. CASE job.status \notin InTransition \cup {"running", "lost"}
    <2>1. Reconciled = job
      BY <1>2 DEF Reconciled
    <2>. QED  BY <1>1, <1>2, <2>1 DEF InTransition
  <1>3. op.known => Live \subseteq op.live
    BY DEF InventoryHolds
  <1>4. CASE job.status \in {"starting", "stopping", "running", "lost"}
    <2>1. job.log # 0 /\ job.shell = job.log /\ job.log \in Attempts
      BY <1>4 DEF RowIs, ShellTypeOK, Attempts
    <2>2. Reconciled =
            IF receipt[job.log] # "none"
            THEN [job EXCEPT !.status = IF receipt[job.log] = "ok" THEN "succeeded" ELSE "failed"]
            ELSE IF ~op.known THEN job
            ELSE [job EXCEPT !.status = IF job.shell \in op.live THEN "running"
                                        ELSE WhenAbsent(job.status)]
      BY <1>4, <2>1 DEF Reconciled, InTransition
    <2>3. CASE receipt[job.log] # "none"
      <3>1. PICK s \in {"succeeded", "failed"} :
                   /\ Reconciled = [job EXCEPT !.status = s]
                   /\ receipt[job.log] = IF s = "succeeded" THEN "ok" ELSE "bad"
        BY <2>1, <2>2, <2>3
      <3>2. Reconciled.status = s
        BY <1>1, <3>1 DEF ShellRows
      <3>3. MaySettle(job, s)
        BY <1>1, <1>4, <3>1 DEF MaySettle
      <3>. QED  BY <1>4, <3>1, <3>2, <3>3, SettledIs
    <2>4. CASE receipt[job.log] = "none" /\ ~op.known
      BY <1>1, <1>4, <2>2, <2>4
    <2>5. CASE receipt[job.log] = "none" /\ op.known
      <3>1. PICK s \in {"running", "failed", "lost", "stopped"} :
                   /\ Reconciled = [job EXCEPT !.status = s]
                   /\ s # "running" => job.shell \notin Live
        BY <1>3, <2>2, <2>5 DEF WhenAbsent
      <3>2. Reconciled.status = s
        BY <1>1, <3>1 DEF ShellRows
      <3>3. MaySettle(job, s)
        BY <1>1, <1>4, <2>5, <3>1 DEF MaySettle
      <3>. QED  BY <1>4, <3>1, <3>2, <3>3, SettledIs
    <2>. QED  BY <2>3, <2>4, <2>5
  <1>5. CASE job.status = "retrying"
    <2>1. job.pending \in Attempts /\ job.pending # 0
      BY <1>5 DEF RowIs, ShellTypeOK, Attempts
    <2>2. Adopted.log = (IF job.paths THEN job.pending ELSE job.log)
          /\ Adopted.shell = job.pending
          /\ Adopted.status = "retrying"
      BY <1>5 DEF Adopted, ShellTypeOK
    <2>3. Reconciled =
            IF job.paths /\ receipt[job.pending] # "none"
            THEN [Adopted EXCEPT !.status = IF receipt[job.pending] = "ok" THEN "succeeded"
                                                                           ELSE "failed"]
            ELSE IF ~op.known THEN job
            ELSE [Adopted EXCEPT !.status = IF job.pending \in op.live THEN "running"
                                            ELSE "failed"]
      BY <1>5, <2>1, <2>2 DEF Reconciled, InTransition, WhenAbsent
    <2>4. CASE job.paths /\ receipt[job.pending] # "none"
      <3>1. PICK s \in {"succeeded", "failed"} :
                   /\ Reconciled = [Adopted EXCEPT !.status = s]
                   /\ s = "succeeded" => receipt[job.pending] = "ok"
        BY <2>1, <2>3, <2>4
      <3>2. job.pending \notin Working
        BY <2>1, <2>4 DEF ReceiptsAreLast, Working
      <3>3. Reconciled.status = s
        BY <3>1 DEF ShellTypeOK, Adopted
      <3>. QED  BY <1>5, <2>4, <3>1, <3>2, <3>3, AdoptedIs
    <2>5. CASE ~(job.paths /\ receipt[job.pending] # "none") /\ ~op.known
      BY <1>1, <1>5, <2>3, <2>5
    <2>6. CASE ~(job.paths /\ receipt[job.pending] # "none") /\ op.known
      <3>1. PICK s \in {"running", "failed"} :
                   /\ Reconciled = [Adopted EXCEPT !.status = s]
                   /\ s = "running" <=> job.pending \in op.live
        BY <2>3, <2>6
      <3>2. /\ s = "failed" => job.pending \notin Working
            /\ s = "running" => job.paths
        BY <1>3, <1>5, <2>6, <3>1 DEF Working, Live, ShellsAre, InventoryHolds
      <3>3. Reconciled.status = s
        BY <3>1 DEF ShellTypeOK, Adopted
      <3>. QED  BY <1>5, <3>1, <3>2, <3>3, AdoptedIs
    <2>. QED  BY <2>4, <2>5, <2>6
  <1>. QED  BY <1>2, <1>4, <1>5 DEF InTransition


-----------------------------------------------------------------------------
(* Steps that rewrite the row                                                *)

Operations == [kind : {"none", "look", "start", "retry", "stop", "end"},
               at : {"none", "asked", "looked", "preparing", "reserving", "counting",
                     "creating", "created", "cleanup", "failed", "killing", "unsure",
                     "checked", "discover", "sweeping"},
               attempt : 0..MaxShellAttempts, known : BOOLEAN, live : SUBSET Attempts,
               ending : BOOLEAN, cancelled : BOOLEAN]

LEMMA OpIsTyped == ASSUME ShellIInv PROVE op \in Operations /\ NoOp \in Operations
  BY NoOpIsTyped DEF ShellIInv, ShellTypeOK, Operations

LEMMA RowReplaced ==
    ASSUME ShellIInv, NEW r, SoundRow(r), job' = r, op' \in Operations,
           UNCHANGED <<owner, shell, reserved, unconfirmed>>,
           receipt' \in [Attempts -> {"none", "ok", "bad"}],
           \A n \in Attempts : receipt'[n] # "none" => receipt[n] # "none",
           UNCHANGED receipt \/ r.status \notin {"lost", "succeeded"}
    PROVE  ShellTypeOK' /\ LiveIsOwned' /\ RowSound'
  <1>. USE ShellFacts, RestIsEnd
  <1>1. ShellTypeOK'
    BY DEF ShellTypeOK, SoundRow, ShellRows, Operations
  <1>2. LiveIsOwned' /\ RowIs(job)' /\ ReceiptsAreLast'
    BY DEF LiveIsOwned, RowIs, ReceiptsAreLast, SoundRow
  <1>3. ShellsAre(job)'
    BY DEF ShellsAre, SoundRow, Named
  <1>. QED  BY <1>1, <1>2, <1>3 DEF RowSound

LEMMA CommitLookKeeps == ASSUME ShellIInv, CommitLook PROVE ShellIInv'
  <1>. USE ShellFacts
  <1>1. /\ UNCHANGED <<owner, shell, receipt, reserved, unconfirmed>> /\ op' = NoOp
        /\ job' = Reconciled /\ op.at = "looked"
    BY DEF CommitLook, Ends
  <1>2. PICK r : r = Reconciled
    OBVIOUS
  <1>3. SoundRow(r) /\ job' = r
    BY <1>1, <1>2, ReconciledIs
  <1>4. ShellTypeOK' /\ LiveIsOwned' /\ RowSound'
    BY <1>1, <1>3, OpIsTyped, RowReplaced
  <1>. QED  BY <1>1, <1>4, NoOpIsSound, SoundIsInvariant DEF ShellSound

LEMMA StartCommitsKeeps == ASSUME ShellIInv, StartCommits PROVE ShellIInv'
  <1>. USE ShellFacts
  <1>. DEFINE r == [status |-> "starting", attempt |-> 1, shell |-> 1, log |-> 1,
                    pending |-> 0, paths |-> FALSE]
  <1>1. /\ UNCHANGED <<owner, shell, receipt, reserved, unconfirmed>>
        /\ op.kind = "start" /\ op.at = "looked"
        /\ job' = r /\ op' = [op EXCEPT !.at = "reserving", !.attempt = 1]
    BY DEF StartCommits
  <1>2. job.status = "none" /\ job.attempt = 0 /\ job.pending = 0 /\ owner
    BY <1>1 DEF OperationFits, RowIs
  <1>3. 1 \in Attempts /\ 1 \in 0..MaxShellAttempts /\ 0 \in 0..MaxShellAttempts
    BY MaxShellAttemptsAssumption DEF Attempts
  <1>4. /\ \A n \in Attempts : n > 0 /\ shell[n] = "none"
        /\ Working = {} /\ unconfirmed = {}
    <2>1. \A n \in Attempts : n > 0
      BY DEF Attempts
    <2>. QED  BY <1>2, <2>1 DEF ShellsAre, Working
  <1>5. SoundRow(r)
    <2>1. r \in ShellRows
      BY <1>3 DEF ShellRows, InTransition
    <2>2. RowIs(r)
      BY DEF RowIs
    <2>3. ShellsAre(r)
      BY <1>4 DEF ShellsAre, ConfirmedTerminal
    <2>. QED  BY <2>1, <2>2, <2>3 DEF SoundRow
  <1>6. op' \in Operations
    BY <1>1, <1>3, OpIsTyped DEF Operations
  <1>7. ShellTypeOK' /\ LiveIsOwned' /\ RowSound'
    BY <1>1, <1>5, <1>6, RowReplaced
  <1>8. op'.at = "reserving" /\ op'.attempt = 1 /\ op'.kind = "start"
    BY <1>1, OpIsTyped DEF Operations
  <1>9. InventoryHolds' /\ AttemptFits'
    BY <1>1, <1>3, <1>4, <1>8 DEF InventoryHolds, AttemptFits
  <1>10. OperationFits'
    BY <1>1, <1>2, <1>8 DEF OperationFits, Launching, Starting, Named
  <1>. QED  BY <1>7, <1>9, <1>10, SoundIsInvariant DEF ShellSound, OpSound

LEMMA RefuseRetryKeeps == ASSUME ShellIInv, RefuseRetry PROVE ShellIInv'
  BY EndingKeeps, RestIsEnd DEF RefuseRetry, Ends

LEMMA CommitRetryKeeps == ASSUME ShellIInv, CommitRetry PROVE ShellIInv'
  <1>. USE ShellFacts
  <1>1. PICK r : r = Reconciled
    OBVIOUS
  <1>2. /\ UNCHANGED <<owner, shell, receipt, reserved, unconfirmed>>
        /\ op.kind = "retry" /\ op.at = "looked" /\ op.known
        /\ r.status \in {"none", "pruned", "lost"} \cup ConfirmedTerminal
        /\ r.shell \notin op.live /\ r.attempt < MaxShellAttempts
        /\ job.status \notin {"none", "pruned"}
        /\ job' = [r EXCEPT !.status = "retrying", !.pending = r.attempt + 1]
        /\ op' = [op EXCEPT !.at = "preparing", !.attempt = r.attempt + 1]
        /\ SoundRow(r)
    <2>1. SoundRow(r)
      BY <1>1, ReconciledIs DEF CommitRetry
    <2>2. r.status \notin InTransition \cup {"running"}
      BY <1>1 DEF CommitRetry, MayRetry
    <2>3. r.status \in {"none", "pruned", "lost"} \cup ConfirmedTerminal
      BY <2>1, <2>2 DEF SoundRow, ShellRows
    <2>. QED  BY <1>1, <2>1, <2>3 DEF CommitRetry, MayRetry, Tracked
  <1>3. r.status \notin {"none", "pruned"}
    BY <1>1, <1>2, ReconciledIs
  <1>4. /\ r \in ShellRows /\ RowIs(r) /\ ShellsAre(r) /\ owner
        /\ r.attempt \in Nat /\ r.attempt + 1 \in Attempts /\ r.pending = 0 /\ ~r.paths
        /\ r.shell <= r.attempt /\ r.log <= r.attempt /\ r.shell >= 1 /\ r.log >= 1
        /\ r.attempt >= 1 /\ r.shell \in Nat /\ r.attempt + 1 \in 0..MaxShellAttempts
    BY <1>2, <1>3, MaxShellAttemptsAssumption
       DEF SoundRow, RowIs, ShellRows, Attempts, OperationFits, ConfirmedTerminal
  <1>5. PICK t : t = [r EXCEPT !.status = "retrying", !.pending = r.attempt + 1]
    OBVIOUS
  <1>6. /\ t.status = "retrying" /\ t.attempt = r.attempt /\ t.shell = r.shell
        /\ t.log = r.log /\ t.pending = r.attempt + 1 /\ t.paths = r.paths /\ t \in ShellRows
    BY ONLY <1>4, <1>5 DEF ShellRows, InTransition
  <1>7. shell[r.attempt + 1] = "none"
    BY <1>4 DEF ShellsAre
  <1>8. RowIs(t)
    BY <1>4, <1>6 DEF RowIs
  <1>9. ShellsAre(t)
    <2>1. \A n \in Attempts : n > t.attempt /\ n # t.pending => shell[n] = "none"
      BY <1>4, <1>6 DEF ShellsAre
    <2>2. \A n \in unconfirmed : n <= t.attempt \/ n = t.pending
      BY <1>4, <1>6 DEF ShellsAre
    <2>3. r.shell \notin Working
      BY <1>2 DEF InventoryHolds, Live, Working
    <2>4. \A n \in Working : n \in unconfirmed \ {t.shell}
      BY <1>2, <1>4, <1>6, <2>3 DEF ShellsAre, Named, ConfirmedTerminal
    <2>. QED  BY <1>6, <1>7, <2>1, <2>2, <2>4 DEF ShellsAre, ConfirmedTerminal
  <1>10. op' \in Operations
    BY <1>2, <1>4, OpIsTyped DEF Operations
  <1>11. ShellTypeOK' /\ LiveIsOwned' /\ RowSound'
    BY <1>2, <1>5, <1>6, <1>8, <1>9, <1>10, RowReplaced DEF SoundRow
  <1>12. op'.at = "preparing" /\ op'.attempt = r.attempt + 1 /\ op'.kind = "retry"
    BY <1>2, OpIsTyped DEF Operations
  <1>13. InventoryHolds' /\ AttemptFits'
    BY <1>2, <1>7, <1>12 DEF InventoryHolds, AttemptFits
  <1>14. OperationFits'
    BY <1>2, <1>4, <1>5, <1>6, <1>12 DEF OperationFits, Launching, Starting, Named
  <1>. QED  BY <1>11, <1>13, <1>14, SoundIsInvariant DEF ShellSound, OpSound

LEMMA RetryPreparesKeeps == ASSUME ShellIInv, RetryPrepares PROVE ShellIInv'
  <1>. USE ShellFacts
  <1>1. /\ UNCHANGED <<owner, shell, reserved, unconfirmed>> /\ op.at = "preparing"
        /\ receipt' = WithoutFiles(op.attempt) /\ op.at \in Launching
    BY DEF RetryPrepares, Launching
  <1>2. /\ op.kind = "retry" /\ job.status = "retrying" /\ ~job.paths /\ owner
        /\ op.attempt = job.pending /\ shell[op.attempt] = "none"
        /\ op.attempt \in Attempts
    BY <1>1 DEF OperationFits, AttemptFits, Launching, Named, RowIs, ShellTypeOK, Attempts
  <1>3. /\ receipt' \in [Attempts -> {"none", "ok", "bad"}]
        /\ \A n \in Attempts : receipt'[n] # "none" => receipt[n] # "none"
    BY <1>1, FilesGo
  <1>4. PICK p \in BOOLEAN, at \in {"reserving", "failed"} :
          /\ job' = [job EXCEPT !.paths = p] /\ op' = [op EXCEPT !.at = at]
          /\ at = "reserving" => p
    <2>1. [job EXCEPT !.paths = job.paths] = job /\ job.paths \in BOOLEAN
      BY DEF ShellTypeOK
    <2>. QED  BY <2>1 DEF RetryPrepares
  <1>5. PICK t : t = [job EXCEPT !.paths = p]
    OBVIOUS
  <1>6. /\ t.status = "retrying" /\ t.attempt = job.attempt /\ t.shell = job.shell
        /\ t.log = job.log /\ t.pending = job.pending /\ t.paths = p /\ t \in ShellRows
    BY <1>2, <1>5 DEF ShellRows, ShellTypeOK
  <1>7. SoundRow(t)
    <2>1. RowIs(t)
      BY <1>2, <1>6 DEF RowIs
    <2>2. Named(t) = job.pending /\ Named(job) = job.pending
      BY <1>2, <1>6 DEF Named
    <2>3. ShellsAre(t)
      BY <1>2, <1>6, <2>2 DEF ShellsAre, ConfirmedTerminal
    <2>. QED  BY <1>6, <2>1, <2>3 DEF SoundRow
  <1>8. op' \in Operations /\ op'.at = at /\ op'.kind = "retry" /\ op'.attempt = op.attempt
    BY <1>2, <1>4, OpIsTyped DEF Operations
  <1>9. ShellTypeOK' /\ LiveIsOwned' /\ RowSound'
    BY <1>1, <1>3, <1>4, <1>5, <1>6, <1>7, <1>8, RowReplaced
  <1>10. InventoryHolds' /\ AttemptFits'
    BY <1>1, <1>2, <1>8 DEF InventoryHolds, AttemptFits, Working
  <1>11. OperationFits'
    BY <1>1, <1>2, <1>4, <1>5, <1>6, <1>8 DEF OperationFits, Launching, Starting, Named
  <1>. QED  BY <1>9, <1>10, <1>11, SoundIsInvariant DEF ShellSound, OpSound

\* The row of an attempt that failed to start.
FailedRow == IF op.kind = "retry"
             THEN [job EXCEPT !.status = "failed", !.attempt = job.pending, !.pending = 0,
                              !.paths = FALSE]
             ELSE [job EXCEPT !.status = "failed"]

LEMMA FailedIsSound == ASSUME ShellIInv, op.at = "failed" PROVE SoundRow(FailedRow)
  <1>. USE ShellFacts
  <1>1. /\ op.attempt = Named(job) /\ op.kind \in {"start", "retry"}
        /\ op.attempt \notin Working \/ op.attempt \in unconfirmed
    BY DEF OperationFits, AttemptFits, Launching
  <1>2. job \in ShellRows /\ 0 \in 0..MaxShellAttempts /\ job.pending \in 0..MaxShellAttempts
    BY MaxShellAttemptsAssumption DEF ShellTypeOK, ShellRows
  <1>3. PICK t : t = FailedRow
    OBVIOUS
  <1>4. CASE op.kind = "retry"
    <2>1. /\ job.status = "retrying" /\ op.attempt = job.pending
          /\ job.pending = job.attempt + 1 /\ job.attempt >= 1 /\ job.shell >= 1
          /\ job.log >= 1 /\ job.shell <= job.attempt /\ job.log <= job.attempt
      BY <1>1, <1>4 DEF OperationFits, Launching, Named, RowIs
    <2>2. /\ t.status = "failed" /\ t.attempt = job.pending /\ t.shell = job.shell
          /\ t.log = job.log /\ t.pending = 0 /\ t.paths = FALSE /\ t \in ShellRows
      <3>1. t = [job EXCEPT !.status = "failed", !.attempt = job.pending, !.pending = 0,
                            !.paths = FALSE]
        BY <1>3, <1>4 DEF FailedRow
      <3>. QED  BY ONLY <3>1, <1>2 DEF ShellRows, ConfirmedTerminal
    <2>3. RowIs(t)
      BY <2>1, <2>2 DEF RowIs
    <2>4. /\ \A n \in Attempts : n > t.attempt /\ n # t.pending => shell[n] = "none"
          /\ \A n \in unconfirmed : n <= t.attempt \/ n = t.pending
      BY <2>1, <2>2 DEF ShellsAre
    <2>5. \A n \in Working : n \in unconfirmed \ {t.shell}
      BY <1>1, <2>1, <2>2 DEF ShellsAre, Named
    <2>6. ShellsAre(t)
      BY <2>2, <2>4, <2>5 DEF ShellsAre, ConfirmedTerminal
    <2>. QED  BY <1>3, <2>2, <2>3, <2>6 DEF SoundRow
  <1>5. CASE op.kind = "start"
    <2>1. job.status = "starting" /\ op.attempt = job.shell
      BY <1>1, <1>5 DEF OperationFits, Launching, Named
    <2>2. /\ t.status = "failed" /\ t.attempt = job.attempt /\ t.shell = job.shell
          /\ t.log = job.log /\ t.pending = job.pending /\ t.paths = job.paths
             /\ t \in ShellRows
      <3>1. t = [job EXCEPT !.status = "failed"]
        BY <1>3, <1>5 DEF FailedRow
      <3>. QED  BY ONLY <3>1, <1>2 DEF ShellRows, ConfirmedTerminal
    <2>3. RowIs(t)
      BY <2>1, <2>2 DEF RowIs
    <2>4. /\ \A n \in Attempts : n > t.attempt /\ n # t.pending => shell[n] = "none"
          /\ \A n \in unconfirmed : n <= t.attempt \/ n = t.pending
          /\ \A n \in Working : n = t.shell \/ n \in unconfirmed \ {t.shell}
      BY <2>1, <2>2 DEF ShellsAre, Named
    <2>5. Working \subseteq unconfirmed
      BY <1>1, <2>1, <2>2, <2>4
    <2>6. ShellsAre(t)
      BY <2>2, <2>4, <2>5 DEF ShellsAre, ConfirmedTerminal, Named
    <2>. QED  BY <1>3, <2>2, <2>3, <2>6 DEF SoundRow
  <1>. QED  BY <1>1, <1>4, <1>5

LEMMA LaunchFailsKeeps == ASSUME ShellIInv, LaunchFails PROVE ShellIInv'
  <1>. USE ShellFacts
  <1>1. /\ UNCHANGED <<owner, shell, reserved, unconfirmed>> /\ op.at = "failed" /\ op' = NoOp
        /\ receipt' = WithoutFiles(op.attempt) /\ job' = FailedRow /\ op.at \in Launching
    BY DEF LaunchFails, Ends, FailedRow, Launching
  <1>2. PICK r : r = FailedRow
    OBVIOUS
  <1>3. SoundRow(r) /\ job' = r /\ r.status = "failed"
    BY <1>1, <1>2, FailedIsSound DEF FailedRow, ShellTypeOK
  <1>4. /\ receipt' \in [Attempts -> {"none", "ok", "bad"}]
        /\ \A n \in Attempts : receipt'[n] # "none" => receipt[n] # "none"
    BY <1>1, FilesGo
  <1>5. ShellTypeOK' /\ LiveIsOwned' /\ RowSound'
    BY <1>1, <1>3, <1>4, OpIsTyped, RowReplaced
  <1>. QED  BY <1>1, <1>5, NoOpIsSound, SoundIsInvariant DEF ShellSound

LEMMA LaunchCommitsKeeps == ASSUME ShellIInv, LaunchCommits PROVE ShellIInv'
  <1>. USE ShellFacts
  <1>1. /\ UNCHANGED <<owner, shell, reserved, unconfirmed>> /\ op.at = "created"
        /\ op' = NoOp /\ op.at \in Launching /\ op.at \in Starting
    BY DEF LaunchCommits, Ends, Launching, Starting
  <1>2. CASE op.kind = "retry"
    <2>1. job.status = "retrying" /\ job.paths
      BY <1>1, <1>2 DEF OperationFits
    <2>2. PICK r : r = [Adopted EXCEPT !.status = "running"]
      OBVIOUS
    <2>3. SoundRow(r) /\ job' = r /\ r.status = "running"
      BY <1>2, <2>1, <2>2, AdoptedIs DEF LaunchCommits, Adopted, ShellTypeOK
    <2>4. receipt' = [n \in Attempts |-> IF n = op.attempt THEN receipt[n] ELSE "none"]
      BY <1>2 DEF LaunchCommits
    <2>5. ShellTypeOK' /\ LiveIsOwned' /\ RowSound'
      BY <1>1, <2>3, <2>4, OpIsTyped, RowReplaced
    <2>. QED  BY <1>1, <2>5, NoOpIsSound, SoundIsInvariant DEF ShellSound
  <1>3. CASE op.kind = "start"
    <2>1. job.status = "starting"
      BY <1>1, <1>3 DEF OperationFits
    <2>2. MaySettle(job, "running")
      BY <2>1 DEF MaySettle, SoundRow, ShellTypeOK, ShellRows
    <2>3. PICK r : r = [job EXCEPT !.status = "running"]
      OBVIOUS
    <2>4. SoundRow(r) /\ job' = r /\ UNCHANGED receipt
      BY <1>3, <2>2, <2>3, SettledIs DEF LaunchCommits
    <2>5. ShellTypeOK' /\ LiveIsOwned' /\ RowSound'
      BY <1>1, <2>4, OpIsTyped, RowReplaced
    <2>. QED  BY <1>1, <2>5, NoOpIsSound, SoundIsInvariant DEF ShellSound
  <1>. QED  BY <1>1, <1>2, <1>3 DEF OperationFits

LEMMA StopSettlesKeeps == ASSUME ShellIInv, StopSettles PROVE ShellIInv'
  <1>. USE ShellFacts
  <1>1. /\ UNCHANGED <<owner, shell, receipt, reserved, unconfirmed>> /\ op.at = "checked"
        /\ job.status = "stopping" /\ op.attempt = job.shell
        /\ op' \in {[op EXCEPT !.at = "discover"], NoOp}
    BY DEF StopSettles, OperationFits
  <1>2. PICK s \in {"running", "stopped"} :
          /\ job' = [job EXCEPT !.status = s]
          /\ s = "stopped" => ~StillThere
    BY DEF StopSettles
  <1>3. MaySettle(job, s)
    <2>1. SoundRow(job)
      BY DEF SoundRow, ShellTypeOK, ShellRows
    <2>2. s = "stopped" => job.shell \notin Live
      BY <1>1, <1>2 DEF StillThere, InventoryHolds
    <2>. QED  BY ONLY <1>1, <2>1, <2>2, s \in {"running", "stopped"} DEF MaySettle
  <1>4. PICK r : r = [job EXCEPT !.status = s]
    OBVIOUS
  <1>5. SoundRow(r) /\ job' = r
    <2>1. SoundRow([job EXCEPT !.status = s])
      BY ONLY ShellIInv, <1>3, SettledIs
    <2>. QED  BY ONLY <1>2, <1>4, <2>1
  <1>6. op' \in Operations
    BY <1>1, OpIsTyped DEF Operations
  <1>7. ShellTypeOK' /\ LiveIsOwned' /\ RowSound'
    BY <1>1, <1>5, <1>6, RowReplaced
  <1>8. CASE op' = NoOp
    BY <1>7, <1>8, NoOpIsSound, SoundIsInvariant DEF ShellSound
  <1>9. CASE op' = [op EXCEPT !.at = "discover"]
    <2>1. op'.at = "discover" /\ op'.kind = op.kind /\ op.kind # "none"
      BY <1>1, <1>9, OpIsTyped DEF Operations, OperationFits, NoOp
    <2>2. op.kind \in {"start", "retry"} => owner
      BY DEF OperationFits
    <2>3. OpSound'
      BY <1>1, <2>1, <2>2
         DEF OpSound, InventoryHolds, AttemptFits, OperationFits, Launching, Starting
    <2>. QED  BY <1>7, <2>3, SoundIsInvariant DEF ShellSound
  <1>. QED  BY <1>1, <1>8, <1>9

LEMMA EndListsKeeps == ASSUME ShellIInv, EndLists PROVE ShellIInv'
  <1>. USE ShellFacts
  <1>1. /\ UNCHANGED <<owner, shell, receipt, reserved, unconfirmed>> /\ op.at = "looked"
        /\ op.kind = "end" /\ job' = Reconciled
        /\ op' \in {[op EXCEPT !.at = "discover"],
                    [op EXCEPT !.kind = "stop", !.at = "asked", !.ending = TRUE]}
    BY DEF EndLists
  <1>2. PICK r : r = Reconciled
    OBVIOUS
  <1>3. SoundRow(r) /\ job' = r
    BY <1>1, <1>2, ReconciledIs
  <1>4. op' \in Operations /\ op'.at \in {"discover", "asked"} /\ op'.kind \in {"end", "stop"}
    BY <1>1, OpIsTyped DEF Operations
  <1>5. ShellTypeOK' /\ LiveIsOwned' /\ RowSound'
    BY <1>1, <1>3, <1>4, RowReplaced
  <1>6. OpSound'
    BY <1>4 DEF OpSound, InventoryHolds, AttemptFits, OperationFits, Launching, Starting
  <1>. QED  BY <1>5, <1>6, SoundIsInvariant DEF ShellSound

LEMMA StopCommitsKeeps == ASSUME ShellIInv, StopCommits PROVE ShellIInv'
  <1>. USE ShellFacts
  <1>1. PICK r : r = Reconciled
    OBVIOUS
  <1>2. PICK s : s = IF r.status # "lost" \/ ~op.known THEN r.status
                     ELSE IF r.shell \in op.live THEN "running" ELSE "stopped"
    OBVIOUS
  <1>3. /\ UNCHANGED <<owner, shell, receipt, reserved, unconfirmed>> /\ op.at = "looked"
        /\ op.kind = "stop"
        /\ job' = [r EXCEPT !.status = IF s = "running" THEN "stopping" ELSE s]
        /\ op' = IF s = "running" THEN [op EXCEPT !.at = "killing", !.attempt = r.shell]
                 ELSE IF op.ending /\ s \in ConfirmedTerminal THEN [op EXCEPT !.at = "discover"]
                 ELSE NoOp
    BY <1>1, <1>2 DEF StopCommits
  <1>4. SoundRow(r) /\ r \in ShellRows /\ r.shell \in 0..MaxShellAttempts
    BY <1>1, <1>3, ReconciledIs DEF SoundRow, ShellRows
  <1>5. PICK t : t = [r EXCEPT !.status = IF s = "running" THEN "stopping" ELSE s]
    OBVIOUS
  <1>6. SoundRow(t)
    <2>1. CASE s = "running"
      <3>1. r.status \in {"running", "lost"}
        BY <1>2, <2>1
      <3>2. MaySettle(r, "stopping")
        BY <1>4, <3>1 DEF MaySettle
      <3>. QED  BY <1>5, <2>1, <3>2, SettledIs
    <2>2. CASE s = r.status /\ s # "running"
      <3>1. t = r
        BY <1>4, <1>5, <2>2 DEF ShellRows
      <3>. QED  BY <1>4, <3>1
    <2>3. CASE r.status = "lost" /\ op.known /\ r.shell \notin op.live /\ s = "stopped"
      <3>1. MaySettle(r, "stopped")
        BY <1>3, <1>4, <2>3 DEF MaySettle, InventoryHolds
      <3>. QED  BY <1>5, <2>3, <3>1, SettledIs
    <2>. QED  BY <1>2, <2>1, <2>2, <2>3
  <1>7. op' \in Operations
    <2>1. /\ [op EXCEPT !.at = "killing", !.attempt = r.shell] \in Operations
          /\ [op EXCEPT !.at = "discover"] \in Operations
      BY ONLY ShellIInv, <1>4, OpIsTyped DEF Operations
    <2>. QED  BY ONLY ShellIInv, <1>3, <2>1, OpIsTyped
  <1>8. ShellTypeOK' /\ LiveIsOwned' /\ RowSound'
    BY <1>3, <1>5, <1>6, <1>7, RowReplaced
  <1>9. CASE op' = NoOp
    BY <1>8, <1>9, NoOpIsSound, SoundIsInvariant DEF ShellSound
  <1>10. CASE op' = [op EXCEPT !.at = "discover"]
    <2>1. op'.at = "discover" /\ op'.kind = "stop"
      BY <1>3, <1>10, OpIsTyped DEF Operations
    <2>2. OpSound'
      BY <2>1 DEF OpSound, InventoryHolds, AttemptFits, OperationFits, Launching, Starting
    <2>. QED  BY <1>8, <2>2, SoundIsInvariant DEF ShellSound
  <1>11. CASE s = "running"
    <2>1. op'.at = "killing" /\ op'.kind = "stop" /\ op'.attempt = r.shell
      BY <1>3, <1>11, OpIsTyped DEF Operations
    <2>2. job'.status = "stopping" /\ job'.shell = r.shell
      BY <1>3, <1>4, <1>11 DEF ShellRows
    <2>3. OpSound'
      BY <2>1, <2>2
         DEF OpSound, InventoryHolds, AttemptFits, OperationFits, Launching, Starting
    <2>. QED  BY <1>8, <2>3, SoundIsInvariant DEF ShellSound
  <1>. QED  BY <1>3, <1>9, <1>10, <1>11

LEMMA ShellStepKeeps == ShellIInv /\ [ShellNext]_shellvars => ShellIInv'
  <1>. SUFFICES ASSUME ShellIInv, [ShellNext]_shellvars PROVE ShellIInv'
    OBVIOUS
  <1>1. CASE UNCHANGED shellvars
    BY <1>1 DEF shellvars, ShellIInv, ShellTypeOK, LiveIsOwned, RowIs, ShellsAre,
         ReceiptsAreLast, InventoryHolds, OperationFits, AttemptFits, Live, Working, Named
  <1>2. CASE \E kind \in {"look", "start", "retry", "stop", "end"} : Ask(kind)
    BY <1>2, AskKeeps
  <1>3. CASE OperationStep
    BY <1>3, LookUpKeeps, CommitLookKeeps, StartCommitsKeeps, RefuseRetryKeeps,
       CommitRetryKeeps, RetryPreparesKeeps, ReserveKeeps, CountKeeps, CountRefusesKeeps,
       CreateKeeps, CleanupKeeps, LaunchFailsKeeps, LaunchCommitsKeeps, LaunchIsUndoneKeeps,
       StopCommitsKeeps, StopKillsKeeps, StopChecksKeeps, StopSettlesKeeps, EndListsKeeps,
       EndDiscoversKeeps, EndGivesUpKeeps, EndRemovesKeeps, EndKillsKeeps, StoreFailsKeeps
       DEF OperationStep
  <1>4. CASE Interrupted \/ Prune
    BY <1>4, InterruptedKeeps, PruneKeeps
  <1>5. CASE \E n \in Attempts : RunnerReports(n) \/ ShellEnds(n) \/ UserKills(n)
    BY <1>5, RunnerReportsKeeps, ShellGoesKeeps
  <1>. QED  BY <1>1, <1>2, <1>3, <1>4, <1>5 DEF ShellNext

\* Shell-backed jobs are sound, for any number of attempts: no two attempts of a job work
\* at the same time but for one that could not be confirmed dead and that the row no longer
\* names, an end is never recorded while something works, it is that of the job's own
\* runner, and every live shell is durably its session's.
THEOREM ShellJobsAreSound == ShellSpec => []ShellJobsInv
  <1>1. ShellInit => ShellIInv
    BY ShellStarts
  <1>2. ShellIInv /\ [ShellNext]_shellvars => ShellIInv'
    BY ShellStepKeeps
  <1>3. ShellIInv => ShellJobsInv
    BY ShellInvImplied
  <1>. QED  BY <1>1, <1>2, <1>3, PTL DEF ShellSpec

-----------------------------------------------------------------------------
(* A bounded command: the processes and who waits for them                   *)

\* Where the chain of parents of a process ends.
Heirs == {"runner", "init"}

\* A process that is there has a parent that lives, and the chain of its parents leads to
\* the runner while there is one, and to init afterwards: no set of processes is closed
\* under parenthood.
TreeHolds ==
    /\ \A p \in Present : parent[p] \in Living \cup Heirs
    /\ \A p \in Present : parent[p] # IF RunnerLives THEN "init" ELSE "runner"
    /\ \A S \in SUBSET Present : S # {} => \E p \in S : parent[p] \notin S

Unlaunched == runner \in {"absent", "booting", "ready"} => \A p \in Procs : proc[p] = "unborn"

\* A listing under way will find a child of the runner, or there is nothing to find.
Seeable == \/ Present = {}
           \/ \E p \in ChildrenOf("runner") :
                p \in scan.todo \/ (p \in DOMAIN scan.seen /\ scan.seen[p] = "runner")

ScanSees ==
    /\ runner = "scan" => Seeable
    /\ runner = "verdict" /\ scan.why = "clean" => Present = {}

CallFits ==
    /\ shellCall = "queued" => runner = "absent"
    /\ ender # "none" => shellCall \in {"timedOut", "cancelled", "over"}
    /\ ender = "over" /\ RunnerLives => twice

ScanTyped ==
    /\ scan = [why |-> scan.why, todo |-> scan.todo, seen |-> scan.seen, again |-> scan.again]
    /\ DOMAIN scan.seen \subseteq Procs

BoundedIInv ==
    /\ BoundedTypeOK /\ ScanTyped
    /\ TreeHolds /\ Unlaunched /\ ScanSees /\ CallFits
    /\ CleanMeansGone /\ SlotCoversRunner

LEMMA BoundedFacts ==
    ASSUME BoundedIInv
    PROVE  /\ BoundedTypeOK /\ ScanTyped /\ TreeHolds /\ Unlaunched /\ ScanSees /\ CallFits
           /\ CleanMeansGone /\ SlotCoversRunner
           /\ proc \in [Procs -> {"unborn", "alive", "zombie", "gone"}]
           /\ parent \in [Procs -> Procs \cup Heirs] /\ group \subseteq Procs
           /\ Present \subseteq Procs /\ Living \subseteq Present
           /\ Root \in Procs /\ "runner" \notin Procs /\ "init" \notin Procs
  BY RootAssumption DEF BoundedIInv, BoundedTypeOK, Heirs, Present, Living, Zombies

\* Nobody is born where nobody lives.
LEMMA NobodyForks ==
    ASSUME BoundedIInv, ProcessStep, Present = {} PROVE Present' = {}
  BY BoundedFacts DEF ProcessStep, ProcessEnds, Waits, LeavesGroup, Fork, Present, Living,
     Zombies

\* Processes exit.
LEMMA ExitsKeepTree ==
    ASSUME BoundedIInv, NEW dead \in SUBSET Living, Exits(dead, Heir),
           RunnerLives' <=> RunnerLives
    PROVE  /\ TreeHolds' /\ Present' \subseteq Present
           /\ proc' \in [Procs -> {"unborn", "alive", "zombie", "gone"}]
           /\ parent' \in [Procs -> Procs \cup Heirs]
           /\ RunnerLives => \A p \in ChildrenOf("runner") : p \in ChildrenOf("runner")'
  <1>. USE BoundedFacts
  <1>1. Heir = (IF RunnerLives THEN "runner" ELSE "init") /\ Heir \in Heirs
    BY DEF Heir, Heirs
  <1>2. PICK heir \in Heirs : heir = Heir
    BY <1>1
  <1>3. /\ parent' = [p \in Procs |-> IF parent[p] \in dead THEN heir ELSE parent[p]]
        /\ proc' = [p \in Procs |->
                     IF p \notin dead \cup Zombies THEN proc[p]
                     ELSE IF parent'[p] = "init" THEN "gone" ELSE "zombie"]
    BY <1>2 DEF Exits
  <1>4. /\ proc' \in [Procs -> {"unborn", "alive", "zombie", "gone"}]
        /\ parent' \in [Procs -> Procs \cup Heirs]
    BY <1>3
  <1>5. Living' = Living \ dead /\ Present' \subseteq Present
    BY <1>3 DEF Living, Zombies, Present
  <1>6. \A p \in Present : parent[p] \in Living \cup Heirs
        /\ parent[p] # IF RunnerLives THEN "init" ELSE "runner"
    BY DEF TreeHolds
  <1>7. \A p \in Present' : /\ parent'[p] \in Living' \cup Heirs
                            /\ parent'[p] # IF RunnerLives' THEN "init" ELSE "runner"
    BY <1>1, <1>2, <1>3, <1>5, <1>6
  <1>8. ASSUME NEW S \in SUBSET Present', S # {} PROVE \E p \in S : parent'[p] \notin S
    <2>1. PICK p \in S : parent[p] \notin S
      BY <1>5, <1>8 DEF TreeHolds
    <2>2. parent'[p] \in {heir, parent[p]} /\ heir \notin S
      BY <1>3, <1>5, <2>1 DEF Heirs
    <2>. QED  BY <2>1, <2>2
  <1>9. ASSUME RunnerLives, NEW p \in ChildrenOf("runner") PROVE p \in ChildrenOf("runner")'
    <2>1. p \in Present /\ p \in Procs /\ parent[p] = "runner" /\ parent[p] \notin dead
      BY DEF ChildrenOf
    <2>2. parent'[p] = "runner" /\ p \in Present'
      BY <1>3, <2>1 DEF Present, Living, Zombies
    <2>. QED  BY <2>2 DEF ChildrenOf
  <1>. QED  BY <1>4, <1>5, <1>7, <1>8, <1>9 DEF TreeHolds

\* The runner exits: what it adopted goes to init, which waits for its zombies.
LEMMA RunnerLeavesTree ==
    ASSUME BoundedIInv, Exits({"runner"}, "init"), ~RunnerLives'
    PROVE  /\ TreeHolds' /\ Present' \subseteq Present
           /\ proc' \in [Procs -> {"unborn", "alive", "zombie", "gone"}]
           /\ parent' \in [Procs -> Procs \cup Heirs]
  <1>. USE BoundedFacts
  <1>3. /\ parent' = [p \in Procs |-> IF parent[p] = "runner" THEN "init" ELSE parent[p]]
        /\ proc' = [p \in Procs |->
                     IF p \notin Zombies THEN proc[p]
                     ELSE IF parent'[p] = "init" THEN "gone" ELSE "zombie"]
    <2>1. \A p \in Procs : p \notin {"runner"} \cup Zombies <=> p \notin Zombies
      OBVIOUS
    <2>. QED  BY <2>1 DEF Exits
  <1>4. /\ proc' \in [Procs -> {"unborn", "alive", "zombie", "gone"}]
        /\ parent' \in [Procs -> Procs \cup Heirs]
    BY <1>3 DEF Heirs
  <1>5. Living' = Living /\ Present' \subseteq Present
    BY <1>3 DEF Living, Zombies, Present
  <1>7. \A p \in Present' : /\ parent'[p] \in Living' \cup Heirs
                            /\ parent'[p] # IF RunnerLives' THEN "init" ELSE "runner"
    BY <1>3, <1>5 DEF TreeHolds, Heirs
  <1>8. ASSUME NEW S \in SUBSET Present', S # {} PROVE \E p \in S : parent'[p] \notin S
    <2>1. PICK p \in S : parent[p] \notin S
      BY <1>5, <1>8 DEF TreeHolds
    <2>. QED  BY <1>3, <1>5, <2>1
  <1>. QED  BY <1>4, <1>5, <1>7, <1>8 DEF TreeHolds

\* Zombies are waited for.
LEMMA WaitedKeepsTree ==
    ASSUME BoundedIInv, NEW S \in SUBSET Zombies, Waited(S), UNCHANGED parent,
           RunnerLives' <=> RunnerLives
    PROVE  /\ TreeHolds' /\ Present' = Present \ S
           /\ proc' \in [Procs -> {"unborn", "alive", "zombie", "gone"}]
  <1>. USE BoundedFacts
  <1>1. Living' = Living /\ Present' = Present \ S
        /\ proc' \in [Procs -> {"unborn", "alive", "zombie", "gone"}]
    BY DEF Waited, Living, Present, Zombies
  <1>. QED  BY <1>1 DEF TreeHolds

\* A command forks.
LEMMA ForkKeepsTree ==
    ASSUME BoundedIInv, NEW p \in Procs, NEW child \in Procs, Fork(p, child),
           RunnerLives' <=> RunnerLives
    PROVE  /\ TreeHolds' /\ Living # {} /\ Present \subseteq Present'
           /\ proc' \in [Procs -> {"unborn", "alive", "zombie", "gone"}]
           /\ parent' \in [Procs -> Procs \cup Heirs] /\ group' \subseteq Procs
           /\ \A q \in ChildrenOf("runner") : q \in ChildrenOf("runner")'
  <1>. USE BoundedFacts
  <1>1. /\ p \in Living /\ proc[child] = "unborn" /\ p # child
        /\ proc' = [proc EXCEPT ![child] = "alive"] /\ parent' = [parent EXCEPT ![child] = p]
        /\ group' \in {group \cup {child}, group}
    BY DEF Fork, Living
  <1>2. /\ Living' = Living \cup {child} /\ Present' = Present \cup {child}
        /\ child \notin Present
    BY <1>1 DEF Living, Zombies, Present
  <1>3. \A q \in Present : q # child /\ parent[q] # child /\ parent'[q] = parent[q]
    BY <1>1, <1>2 DEF TreeHolds, Heirs
  <1>4. \A q \in Present' : /\ parent'[q] \in Living' \cup Heirs
                            /\ parent'[q] # IF RunnerLives' THEN "init" ELSE "runner"
    <2>1. \A q \in Present : /\ parent'[q] \in Living' \cup Heirs
                             /\ parent'[q] # IF RunnerLives' THEN "init" ELSE "runner"
      BY <1>2, <1>3 DEF TreeHolds
    <2>2. parent'[child] = p /\ p \in Living'
      BY <1>1, <1>2
    <2>. QED  BY <1>2, <2>1, <2>2
  <1>5. ASSUME NEW S \in SUBSET Present', S # {} PROVE \E q \in S : parent'[q] \notin S
    <2>1. CASE S \subseteq {child}
      BY <1>1, <1>5, <2>1
    <2>2. CASE S \ {child} # {}
      <3>1. PICK q \in S \ {child} : parent[q] \notin S \ {child}
        BY <1>2, <2>2 DEF TreeHolds
      <3>2. parent'[q] = parent[q] /\ parent[q] # child
        BY <1>2, <1>3, <3>1
      <3>. QED  BY <3>1, <3>2
    <2>. QED  BY <2>1, <2>2
  <1>6. \A q \in ChildrenOf("runner") : q \in ChildrenOf("runner")'
    BY <1>2, <1>3 DEF ChildrenOf
  <1>. QED  BY <1>1, <1>2, <1>4, <1>5, <1>6 DEF TreeHolds

\* The processes themselves never make a listing miss what it would have found.
LEMMA ProcessKeeps == ASSUME BoundedIInv, ProcessStep PROVE BoundedIInv'
  <1>. USE BoundedFacts
  <1>1. UNCHANGED <<listing, runner, told, answer, groupClean, scan, shellCall, ender, slot,
        twice>>
        /\ (RunnerLives' <=> RunnerLives)
    BY DEF ProcessStep, runnervars, callvars, RunnerLives
  <1>2. /\ TreeHolds' /\ proc' \in [Procs -> {"unborn", "alive", "zombie", "gone"}]
        /\ parent' \in [Procs -> Procs \cup Heirs] /\ group' \subseteq Procs
        /\ RunnerLives => \A q \in ChildrenOf("runner") : q \in ChildrenOf("runner")'
    <2>1. PICK p \in Procs : ProcessEnds(p) \/ Waits(p) \/ LeavesGroup(p)
                              \/ \E q \in Procs : Fork(p, q)
      BY DEF ProcessStep
    <2>2. CASE ProcessEnds(p)
      <3>1. {p} \in SUBSET Living
        BY <2>2 DEF ProcessEnds
      <3>. QED  BY <1>1, <2>2, <3>1, ExitsKeepTree DEF ProcessEnds
    <2>3. CASE Waits(p)
      <3>1. {p} \in SUBSET Zombies /\ parent[p] \in Procs /\ Waited({p})
            /\ UNCHANGED <<parent, group>>
        BY <2>3 DEF Waits, Living
      <3>2. /\ TreeHolds' /\ Present' = Present \ {p}
            /\ proc' \in [Procs -> {"unborn", "alive", "zombie", "gone"}]
        BY <1>1, <3>1, WaitedKeepsTree
      <3>. QED  BY <3>1, <3>2 DEF ChildrenOf
    <2>4. CASE LeavesGroup(p)
      BY <1>1, <2>4 DEF LeavesGroup, TreeHolds, Present, Living, Zombies, ChildrenOf
    <2>5. CASE \E q \in Procs : Fork(p, q)
      BY <1>1, <2>5, ForkKeepsTree
    <2>. QED  BY <2>1, <2>2, <2>3, <2>4, <2>5
  <1>3. BoundedTypeOK' /\ ScanTyped' /\ CallFits' /\ SlotCoversRunner'
    BY <1>1, <1>2 DEF BoundedTypeOK, Heirs, ScanTyped, CallFits, SlotCoversRunner
  <1>4. Present = {} => Present' = {}
    BY NobodyForks
  <1>5. CleanMeansGone'
    BY <1>1, <1>4 DEF CleanMeansGone
  <1>6. Unlaunched'
    <2>1. ASSUME \A p \in Procs : proc[p] = "unborn" PROVE UNCHANGED proc
      BY <2>1 DEF ProcessStep, ProcessEnds, Waits, LeavesGroup, Fork, Living, Zombies
    <2>. QED  BY <1>1, <2>1 DEF Unlaunched
  <1>7. ScanSees'
    <2>1. runner = "scan" => RunnerLives
      BY DEF RunnerLives, Exited
    <2>. QED  BY <1>1, <1>2, <1>4, <2>1 DEF ScanSees, Seeable
  <1>. QED  BY <1>2, <1>3, <1>5, <1>6, <1>7 DEF BoundedIInv

-----------------------------------------------------------------------------
(* A bounded command: what a listing shows                                   *)

\* What a listing places directly under the runner is among what it found.
LEMMA PlacedShows ==
    ASSUME NEW seen PROVE {p \in DOMAIN seen : seen[p] = "runner"} \subseteq Placed(seen)
  <1>. DEFINE N == Cardinality(Procs)
              A == {p \in DOMAIN seen : seen[p] = "runner"}
              IsUnder(f, n) ==
                f = [i \in 0..n |-> IF i = 0 THEN A
                                    ELSE f[i - 1] \cup {p \in DOMAIN seen :
                                      seen[p] \in f[i - 1]}]
  <1>1. N \in Nat
    BY RootAssumption, FS_CardinalityType
  <1>2. \A n \in Nat : \E f : IsUnder(f, n)
    <2>. DEFINE Bad == {n \in Nat : ~\E f : IsUnder(f, n)}
    <2>1. SUFFICES ASSUME Bad # {} PROVE FALSE
      BY ZenonT(60)
    <2>2. PICK n \in Bad : \A m \in Bad : n <= m
      <3>. HIDE DEF Bad
      <3>1. Bad \in SUBSET Nat
        BY DEF Bad
      <3>. QED  BY <2>1, <3>1, LeastExists
    <2>3. CASE n = 0
      <3>1. IsUnder([i \in 0..0 |-> A], 0)
        <4>1. \A i \in 0..0 : i = 0
          OBVIOUS
        <4>. QED  BY <4>1
      <3>. QED  BY <2>2, <2>3, <3>1
    <2>4. CASE n # 0
      <3>1. n \in Nat /\ n - 1 \in Nat /\ n - 1 \notin Bad
        BY <2>2, <2>4, SMTT(20)
      <3>2. PICK f : IsUnder(f, n - 1)
        BY <3>1
      <3>. DEFINE g == [i \in 0..n |->
                         IF i < n THEN f[i]
                         ELSE f[n - 1] \cup {p \in DOMAIN seen : seen[p] \in f[n - 1]}]
      <3>3. /\ g[0] = A /\ f[0] = A
            /\ \A i \in 0..n : i # 0 => i - 1 \in 0..(n - 1) /\ g[i - 1] = f[i - 1]
        <4>1. f[0] = A
          <5>1. 0 \in 0..(n - 1)
            BY <3>1
          <5>. HIDE DEF A
          <5>. QED  BY <3>2, <5>1
        <4>2. \A i \in 0..n : i < n => g[i] = f[i]
          OBVIOUS
        <4>3. 0 \in 0..n /\ 0 < n
          BY <2>4, <3>1
        <4>4. ASSUME NEW i \in 0..n, i # 0
              PROVE  i - 1 \in 0..(n - 1) /\ i - 1 \in 0..n /\ i - 1 < n
          BY <3>1, <4>4
        <4>. HIDE DEF g, A, IsUnder
        <4>. QED  BY <4>1, <4>2, <4>3, <4>4
      <3>4. \A i \in 0..n : i # 0 =>
              g[i] = g[i - 1] \cup {p \in DOMAIN seen : seen[p] \in g[i - 1]}
        <4>1. ASSUME NEW i \in 0..n, i # 0 PROVE g[i - 1] = f[i - 1] /\ i - 1 \in 0..(n - 1)
          BY <3>3, <4>1
        <4>2. ASSUME NEW i \in 0..n, i # 0, i < n
              PROVE  g[i] = f[i - 1] \cup {p \in DOMAIN seen : seen[p] \in f[i - 1]}
          <5>1. g[i] = f[i] /\ i \in 0..(n - 1)
            BY <3>1, <4>2
          <5>. HIDE DEF g, A
          <5>. QED  BY <3>2, <4>2, <5>1
        <4>3. ASSUME NEW i \in 0..n, i = n
              PROVE  g[i] = f[i - 1] \cup {p \in DOMAIN seen : seen[p] \in f[i - 1]}
          BY <3>1, <4>3
        <4>4. \A i \in 0..n : i < n \/ i = n
          BY <3>1
        <4>. HIDE DEF g, A, IsUnder
        <4>. QED  BY <4>1, <4>2, <4>3, <4>4
      <3>5. IsUnder(g, n)
        BY <3>3, <3>4
      <3>. QED  BY <2>2, <3>5
    <2>. QED  BY <2>3, <2>4
  <1>. DEFINE under[n \in 0..N] ==
                IF n = 0 THEN A
                ELSE under[n - 1] \cup {p \in DOMAIN seen : seen[p] \in under[n - 1]}
  <1>3. IsUnder(under, N)
    <2>1. under = CHOOSE f : IsUnder(f, N)
      OBVIOUS
    <2>. HIDE DEF under, IsUnder, N
    <2>. QED  BY <1>1, <1>2, <2>1
  <1>4. Placed(seen) = under[N]
    BY DEF Placed
  <1>5. \A i \in 0..N : A \subseteq under[i]
    <2>. DEFINE Bad == {n \in 0..N : ~(A \subseteq under[n])}
    <2>1. SUFFICES ASSUME Bad # {} PROVE FALSE
      OBVIOUS
    <2>2. PICK n \in Bad : \A m \in Bad : n <= m
      <3>1. Bad \in SUBSET Nat
        BY <1>1
      <3>. HIDE DEF Bad
      <3>. QED  BY <2>1, <3>1, LeastExists
    <2>. HIDE DEF under, A
    <2>3. n # 0
      BY <1>1, <1>3, <2>2
    <2>4. n - 1 \in 0..N /\ A \subseteq under[n - 1]
      BY <1>1, <2>2, <2>3
    <2>5. under[n - 1] \subseteq under[n]
      BY <1>1, <1>3, <2>2, <2>3
    <2>. QED  BY <2>2, <2>4, <2>5
  <1>. HIDE DEF under, A
  <1>. QED  BY <1>1, <1>4, <1>5 DEF A

-----------------------------------------------------------------------------
(* A bounded command: the runner                                             *)

RunnerSide ==
    /\ proc \in [Procs -> {"unborn", "alive", "zombie", "gone"}]
    /\ parent \in [Procs -> Procs \cup Heirs] /\ group \subseteq Procs
    /\ answer \in {"none", "code", "mirror", "unclean", "noShell"}
    /\ ScanTyped /\ TreeHolds /\ Unlaunched /\ ScanSees /\ CleanMeansGone

CallSide ==
    /\ shellCall \in {"queued", "spawning", "waiting", "timedOut", "cancelled", "over"}
    /\ CallFits /\ SlotCoversRunner

LEMMA SidesAreAll ==
    /\ BoundedIInv => RunnerSide /\ CallSide
    /\ RunnerSide' /\ CallSide' => BoundedIInv'
  BY DEF RunnerSide, CallSide, BoundedIInv, BoundedTypeOK, Heirs

\* A step of the runner alone.
LEMMA CallRests ==
    ASSUME BoundedIInv, RunnerIsAlone, RunnerLives, RunnerSide' PROVE BoundedIInv'
  <1>1. CallSide'
    BY BoundedFacts DEF BoundedTypeOK, CallSide, RunnerIsAlone, callvars, CallFits,
       SlotCoversRunner, RunnerLives
  <1>. QED  BY <1>1, SidesAreAll

LEMMA TreeRests ==
    ASSUME BoundedIInv, UNCHANGED treevars, RunnerLives' <=> RunnerLives
    PROVE  /\ TreeHolds' /\ Present' = Present /\ UNCHANGED <<proc, parent, group>>
           /\ ChildrenOf("runner")' = ChildrenOf("runner")
  BY BoundedFacts DEF treevars, TreeHolds, Present, Living, Zombies, ChildrenOf

LEMMA LeaveKeeps ==
    ASSUME BoundedIInv, NEW code \in {"none", "code", "mirror", "unclean", "noShell"},
           RunnerLives, Leave(code), code \in {"code", "mirror"} => Present = {}
    PROVE  RunnerSide' /\ ~RunnerLives'
  <1>. USE BoundedFacts
  <1>1. /\ runner' = "exited" /\ answer' = code /\ Exits({"runner"}, "init")
        /\ scan' = NoScan /\ UNCHANGED group /\ ~RunnerLives'
    BY DEF Leave, RunnerLives, Exited
  <1>2. /\ TreeHolds' /\ Present' \subseteq Present
        /\ proc' \in [Procs -> {"unborn", "alive", "zombie", "gone"}]
        /\ parent' \in [Procs -> Procs \cup Heirs]
    BY <1>1, RunnerLeavesTree
  <1>3. ScanTyped'
    BY <1>1 DEF ScanTyped, NoScan
  <1>4. Unlaunched' /\ ScanSees' /\ CleanMeansGone'
    BY <1>1, <1>2 DEF Unlaunched, ScanSees, CleanMeansGone
  <1>. QED  BY <1>1, <1>2, <1>3, <1>4 DEF RunnerSide

LEMMA KillsRunnerKeeps ==
    ASSUME BoundedIInv, KillsRunner
    PROVE  RunnerSide' /\ ~RunnerLives' /\ (runner = "absent" => runner' = "absent")
  <1>. USE BoundedFacts
  <1>1. CASE ~RunnerLives /\ UNCHANGED <<treevars, runnervars>>
    <2>1. ~RunnerLives' /\ UNCHANGED <<runner, told, answer, groupClean, scan>>
      BY <1>1 DEF runnervars, RunnerLives
    <2>2. TreeHolds' /\ Present' = Present /\ UNCHANGED <<proc, parent, group>>
      BY <1>1, <2>1, TreeRests
    <2>3. ScanTyped' /\ Unlaunched' /\ CleanMeansGone'
      BY <2>1, <2>2 DEF ScanTyped, Unlaunched, CleanMeansGone
    <2>4. ScanSees'
      BY <1>1, <2>1 DEF ScanSees, RunnerLives, Exited
    <2>. QED  BY <2>1, <2>2, <2>3, <2>4 DEF RunnerSide, BoundedTypeOK
  <1>2. CASE /\ RunnerLives /\ runner' = "killed" /\ Exits({"runner"}, "init")
             /\ scan' = NoScan /\ UNCHANGED <<group, told, answer, groupClean>>
    <2>1. ~RunnerLives' /\ runner # "absent"
      BY <1>2 DEF RunnerLives, Exited
    <2>2. /\ TreeHolds' /\ Present' \subseteq Present
          /\ proc' \in [Procs -> {"unborn", "alive", "zombie", "gone"}]
          /\ parent' \in [Procs -> Procs \cup Heirs]
      BY <1>2, <2>1, RunnerLeavesTree
    <2>3. ScanTyped'
      BY <1>2 DEF ScanTyped, NoScan
    <2>4. Unlaunched' /\ ScanSees' /\ CleanMeansGone'
      BY <1>2, <2>2 DEF Unlaunched, ScanSees, CleanMeansGone
    <2>. QED  BY <1>2, <2>1, <2>2, <2>3, <2>4 DEF RunnerSide, BoundedTypeOK
  <1>. QED  BY <1>1, <1>2 DEF KillsRunner

LEMMA TerminatesKeeps ==
    ASSUME BoundedIInv, Terminates
    PROVE  RunnerSide' /\ (RunnerLives' => RunnerLives)
      /\ (runner = "absent" => runner' = "absent")
  <1>. USE BoundedFacts
  <1>1. CASE runner = "booting" /\ Leave("mirror")
    <2>1. RunnerLives /\ Present = {}
      BY <1>1 DEF RunnerLives, Exited, Unlaunched, Present, Living, Zombies
    <2>. QED  BY <1>1, <2>1, LeaveKeeps
  <1>2. CASE UNCHANGED <<treevars, runner, answer, groupClean, scan>>
    <2>1. (RunnerLives' <=> RunnerLives) /\ UNCHANGED <<runner, answer, groupClean, scan>>
      BY <1>2 DEF RunnerLives
    <2>2. /\ TreeHolds' /\ Present' = Present /\ UNCHANGED <<proc, parent, group>>
          /\ ChildrenOf("runner")' = ChildrenOf("runner")
      BY <1>2, <2>1, TreeRests
    <2>3. ScanTyped' /\ Unlaunched' /\ CleanMeansGone' /\ ScanSees'
      BY <2>1, <2>2 DEF ScanTyped, Unlaunched, CleanMeansGone, ScanSees, Seeable
    <2>. QED  BY <2>1, <2>2, <2>3 DEF RunnerSide, BoundedTypeOK
  <1>. QED  BY <1>1, <1>2 DEF Terminates

\* A listing that begins has before it a child of the runner, if anybody is there.
LEMMA ScanBegins ==
    ASSUME BoundedIInv, RunnerLives, NEW why, NEW gone, StartScan(why, gone),
           UNCHANGED <<parent, group, answer>>,
           \/ gone = {} /\ UNCHANGED proc
           \/ gone \in SUBSET Zombies /\ Waited(gone)
    PROVE  RunnerSide'
  <1>. USE BoundedFacts
  <1>1. /\ runner' = "scan" /\ RunnerLives'
        /\ scan' = [why |-> why, todo |-> Listed(gone), seen |-> NoScan.seen, again |-> FALSE]
    BY DEF StartScan, RunnerLives, Exited
  <1>2. /\ TreeHolds' /\ Present' = Present \ gone /\ gone \subseteq Procs
        /\ proc' \in [Procs -> {"unborn", "alive", "zombie", "gone"}]
    <2>1. CASE gone = {} /\ UNCHANGED proc
      <3>1. UNCHANGED treevars
        BY <2>1 DEF treevars
      <3>. QED  BY <1>1, <2>1, <3>1, TreeRests
    <2>2. CASE gone \in SUBSET Zombies /\ Waited(gone)
      BY <1>1, <2>2, WaitedKeepsTree DEF Zombies
    <2>. QED  BY <2>1, <2>2
  <1>3. ChildrenOf("runner")' \subseteq scan'.todo
    BY <1>1, <1>2 DEF Listed, ChildrenOf
  <1>4. Seeable'
    <2>1. Present' \subseteq Procs
      BY <1>2
    <2>2. Present' # {} => \E p \in Present' : parent'[p] \notin Present'
      BY <1>2 DEF TreeHolds
    <2>3. Present' # {} => \E p \in Present' : parent'[p] = "runner"
      BY <1>1, <1>2, <2>2 DEF TreeHolds, Heirs, Present
    <2>. QED  BY <1>3, <2>3 DEF Seeable, ChildrenOf
  <1>5. ScanTyped'
    BY <1>1, <1>3 DEF ScanTyped, NoScan
  <1>6. Unlaunched' /\ ScanSees' /\ CleanMeansGone'
    BY <1>1, <1>4 DEF Unlaunched, ScanSees, CleanMeansGone
  <1>. QED  BY <1>2, <1>5, <1>6 DEF RunnerSide, BoundedTypeOK, Heirs

\* Nothing is found only if nothing is there.
LEMMA NothingIsThere == ASSUME BoundedIInv, Scanned, Found = {} PROVE Present = {}
  <1>1. {p \in DOMAIN scan.seen : scan.seen[p] = "runner"} = {}
    BY PlacedShows DEF Found
  <1>2. Seeable
    BY BoundedFacts DEF ScanSees, Scanned
  <1>. QED  BY <1>1, <1>2 DEF Seeable, Scanned

LEMMA ReadsKeeps == ASSUME BoundedIInv, NEW p \in Procs, Reads(p) PROVE BoundedIInv'
  <1>. USE BoundedFacts
  <1>. DEFINE note == IF listing = "children" THEN [q \in {p} |-> "runner"]
                      ELSE [q \in {p} \cap Present |-> parent[p]]
              next == IF listing = "children" THEN ChildrenOf(p) \ DOMAIN scan.seen ELSE {}
              known == DOMAIN scan.seen \cup DOMAIN note
  <1>1. /\ runner = "scan" /\ runner' = "scan" /\ RunnerLives /\ RunnerLives' /\ RunnerIsAlone
        /\ UNCHANGED <<treevars, runner, told, answer, groupClean>>
        /\ scan' = [scan EXCEPT !.todo = (scan.todo \ {p}) \cup next,
                                !.seen = [q \in known |-> IF q \in DOMAIN note THEN note[q]
                                                         ELSE scan.seen[q]]]
    BY DEF Reads, RunnerLives, Exited
  <1>2. /\ scan'.todo = (scan.todo \ {p}) \cup next /\ scan'.why = scan.why
        /\ scan'.seen = [q \in known |-> IF q \in DOMAIN note THEN note[q] ELSE scan.seen[q]]
        /\ scan' = [why |-> scan'.why, todo |-> scan'.todo, seen |-> scan'.seen,
                    again |-> scan'.again]
    <2>. HIDE DEF note, next, known
    <2>. QED  BY <1>1 DEF ScanTyped
  <1>3. /\ TreeHolds' /\ Present' = Present /\ UNCHANGED <<proc, parent, group>>
        /\ ChildrenOf("runner")' = ChildrenOf("runner")
    BY <1>1, TreeRests
  <1>4. /\ known \subseteq Procs
        /\ DOMAIN note \subseteq {p} /\ DOMAIN note \subseteq known
        /\ DOMAIN scan.seen \subseteq known
        /\ p \in ChildrenOf("runner") => p \in DOMAIN note /\ note[p] = "runner"
    BY DEF ScanTyped, ChildrenOf
  <1>. HIDE DEF note, next, known
  <1>5. ScanTyped'
    BY ONLY <1>2, <1>4 DEF ScanTyped
  <1>6. Seeable'
    <2>1. CASE Present = {}
      BY <1>3, <2>1 DEF Seeable
    <2>2. ASSUME NEW q \in ChildrenOf("runner"),
                 q \in scan.todo \/ (q \in DOMAIN scan.seen /\ scan.seen[q] = "runner")
          PROVE  Seeable'
      <3>1. q = p => q \in known /\ scan'.seen[q] = "runner"
        <4>1. q = p => q \in DOMAIN note /\ q \in known /\ note[q] = "runner"
          BY ONLY <1>4, <2>2
        <4>. QED  BY <1>2, <4>1
      <3>2. q # p => q \in scan'.todo \/ (q \in known /\ scan'.seen[q] = "runner")
        <4>1. CASE q \in scan.todo
          BY <1>2, <4>1
        <4>2. CASE q \in DOMAIN scan.seen /\ scan.seen[q] = "runner"
          <5>1. q # p => q \in known /\ q \notin DOMAIN note
            BY ONLY <1>4, <4>2
          <5>. QED  BY <1>2, <4>2, <5>1
        <4>. QED  BY <2>2, <4>1, <4>2
      <3>3. DOMAIN scan'.seen = known
        BY <1>2
      <3>. QED  BY <1>3, <3>1, <3>2, <3>3 DEF Seeable
    <2>. QED  BY <1>1, <2>1, <2>2 DEF ScanSees, Seeable
  <1>7. Unlaunched' /\ ScanSees' /\ CleanMeansGone'
    BY <1>1, <1>6 DEF Unlaunched, ScanSees, CleanMeansGone
  <1>8. RunnerSide'
    BY <1>1, <1>3, <1>5, <1>7 DEF RunnerSide, BoundedTypeOK
  <1>. QED  BY <1>1, <1>8, CallRests

LEMMA RunnerStartKeeps == ASSUME BoundedIInv, Boots \/ Launches \/ StopsWatching
  PROVE BoundedIInv'
  <1>. USE BoundedFacts
  <1>1. CASE Boots
    <2>1. RunnerLives /\ RunnerIsAlone /\ runner = "booting"
      BY <1>1 DEF Boots, RunnerLives, Exited
    <2>2. CASE Leave("unclean")
      BY <2>1, <2>2, LeaveKeeps, CallRests
    <2>3. CASE runner' = "ready" /\ UNCHANGED <<treevars, told, answer, groupClean, scan>>
      <3>1. RunnerLives'
        BY <2>3 DEF RunnerLives, Exited
      <3>2. TreeHolds' /\ Present' = Present /\ UNCHANGED <<proc, parent, group>>
        BY <2>1, <2>3, <3>1, TreeRests
      <3>3. ScanTyped' /\ Unlaunched' /\ ScanSees' /\ CleanMeansGone'
        BY <2>1, <2>3, <3>2 DEF ScanTyped, Unlaunched, ScanSees, CleanMeansGone
      <3>4. RunnerSide'
        BY <2>3, <3>2, <3>3 DEF RunnerSide, BoundedTypeOK
      <3>. QED  BY <2>1, <3>4, CallRests
    <2>. QED  BY <1>1, <2>2, <2>3 DEF Boots
  <1>2. CASE Launches
    <2>1. RunnerLives /\ RunnerIsAlone /\ runner = "ready" /\ \A p \in Procs :
          proc[p] = "unborn"
      BY <1>2 DEF Launches, RunnerLives, Exited, Unlaunched
    <2>2. CASE Leave("noShell")
      BY <2>1, <2>2, LeaveKeeps, CallRests
    <2>3. CASE /\ runner' = "watching" /\ proc' = [proc EXCEPT ![Root] = "alive"]
               /\ parent' = [parent EXCEPT ![Root] = "runner"] /\ group' = {Root}
               /\ UNCHANGED <<told, answer, groupClean, scan>>
      <3>1. RunnerLives'
        BY <2>3 DEF RunnerLives, Exited
      <3>2. Present' = {Root} /\ parent'[Root] = "runner"
            /\ proc' \in [Procs -> {"unborn", "alive", "zombie", "gone"}]
            /\ parent' \in [Procs -> Procs \cup Heirs]
        BY <2>1, <2>3 DEF Present, Living, Zombies, Heirs
      <3>3. TreeHolds'
        <4>1. ASSUME NEW S \in SUBSET Present', S # {} PROVE \E p \in S : parent'[p] \notin S
          BY <3>2, <4>1
        <4>. QED  BY <3>1, <3>2, <4>1 DEF TreeHolds, Heirs
      <3>4. ScanTyped' /\ Unlaunched' /\ ScanSees' /\ CleanMeansGone'
        BY <2>1, <2>3 DEF ScanTyped, Unlaunched, ScanSees, CleanMeansGone
      <3>5. RunnerSide'
        BY <2>3, <3>2, <3>3, <3>4 DEF RunnerSide, BoundedTypeOK
      <3>. QED  BY <2>1, <3>5, CallRests
    <2>. QED  BY <1>2, <2>2, <2>3 DEF Launches
  <1>3. CASE StopsWatching
    <2>1. /\ RunnerLives /\ RunnerIsAlone /\ runner = "watching" /\ runner' = "group"
          /\ RunnerLives' /\ Waited({Root} \cap Zombies) /\ UNCHANGED <<parent, group>>
          /\ answer' \in {"code", "mirror"} /\ UNCHANGED scan
      BY <1>3 DEF StopsWatching, RunnerLives, Exited
    <2>2. {Root} \cap Zombies \in SUBSET Zombies
      OBVIOUS
    <2>3. TreeHolds' /\ proc' \in [Procs -> {"unborn", "alive", "zombie", "gone"}]
      BY <2>1, <2>2, WaitedKeepsTree
    <2>4. ScanTyped' /\ Unlaunched' /\ ScanSees' /\ CleanMeansGone'
      BY <2>1 DEF ScanTyped, Unlaunched, ScanSees, CleanMeansGone
    <2>5. RunnerSide'
      BY <2>1, <2>3, <2>4 DEF RunnerSide, BoundedTypeOK
    <2>. QED  BY <2>1, <2>5, CallRests
  <1>. QED  BY <1>1, <1>2, <1>3

\* Steps that leave the processes alone, and whose next phase claims nothing of them.
LEMMA PhaseKeeps ==
    ASSUME BoundedIInv, RunnerLives, RunnerIsAlone, UNCHANGED <<treevars, answer>>,
           runner' \in {"groupTerm", "kill", "verdict", "scan"}, ScanTyped', ScanSees'
    PROVE  BoundedIInv'
  <1>. USE BoundedFacts
  <1>1. RunnerLives'
    BY DEF RunnerLives, Exited
  <1>2. TreeHolds' /\ UNCHANGED <<proc, parent, group>>
    BY <1>1, TreeRests
  <1>3. Unlaunched' /\ CleanMeansGone'
    BY DEF Unlaunched, CleanMeansGone
  <1>4. RunnerSide'
    BY <1>2, <1>3 DEF RunnerSide, BoundedTypeOK
  <1>. QED  BY <1>4, CallRests

LEMMA ReapsKeep ==
    ASSUME BoundedIInv, RunnerLives, RunnerIsAlone, NEW why, ReapAndScan(why), UNCHANGED answer
    PROVE  BoundedIInv'
  <1>1. Reapable \in SUBSET Zombies
    BY DEF Reapable
  <1>2. StartScan(why, Reapable) /\ Waited(Reapable) /\ UNCHANGED <<parent, group>>
    BY DEF ReapAndScan
  <1>. QED  BY <1>1, <1>2, ScanBegins, CallRests

LEMMA LookKeeps ==
    ASSUME BoundedIInv, RunnerLives, RunnerIsAlone, NEW why, StartScan(why, {}),
           UNCHANGED <<treevars, answer>>
    PROVE  BoundedIInv'
  <1>1. UNCHANGED <<proc, parent, group>>
    BY DEF treevars
  <1>. QED  BY <1>1, ScanBegins, CallRests

\* A verdict that everything is gone is given when it is.
LEMMA ConcludesKeeps ==
    ASSUME BoundedIInv, RunnerLives, RunnerIsAlone, UNCHANGED <<treevars, answer>>,
           NEW clean \in BOOLEAN, Concludes(clean), clean => Present = {}
    PROVE  BoundedIInv'
  <1>1. /\ runner' = "verdict"
        /\ scan' = [NoScan EXCEPT !.why = IF clean THEN "clean" ELSE "unclean"]
    BY DEF Concludes
  <1>2. ScanTyped' /\ (scan'.why = "clean" => clean)
    BY <1>1 DEF ScanTyped, NoScan
  <1>3. Present' = Present
    BY DEF treevars, Present, Living, Zombies
  <1>4. ScanSees'
    BY <1>1, <1>2, <1>3 DEF ScanSees
  <1>. QED  BY <1>1, <1>2, <1>4, PhaseKeeps

LEMMA GroupKeeps == ASSUME BoundedIInv, GroupStarts \/ GroupGone \/ GroupTimesOut
  PROVE BoundedIInv'
  <1>. USE BoundedFacts
  <1>1. RunnerLives /\ RunnerIsAlone /\ UNCHANGED answer
    BY DEF GroupStarts, GroupGone, GroupTimesOut, RunnerLives, Exited
  <1>2. CASE GroupStarts
    <2>1. CASE StartScan("look", {})
      BY <1>1, <1>2, <2>1, LookKeeps DEF GroupStarts
    <2>2. CASE runner' = "groupTerm" /\ UNCHANGED <<groupClean, scan>>
      <3>1. ScanTyped' /\ ScanSees'
        BY <2>2 DEF ScanTyped, ScanSees
      <3>. QED  BY <1>1, <1>2, <2>2, <3>1, PhaseKeeps DEF GroupStarts
    <2>. QED  BY <1>2, <2>1, <2>2 DEF GroupStarts
  <1>3. CASE GroupGone
    BY <1>1, <1>3, ReapsKeep DEF GroupGone
  <1>4. CASE GroupTimesOut
    <2>1. CASE ReapAndScan("look")
      BY <1>1, <2>1, ReapsKeep
    <2>2. CASE /\ runner = "groupTerm" /\ runner' = "groupKill"
               /\ Exits(group \cap Living, Heir) /\ UNCHANGED <<group, scan>>
      <3>1. RunnerLives' /\ group \cap Living \in SUBSET Living
        BY <2>2 DEF RunnerLives, Exited
      <3>2. /\ TreeHolds' /\ proc' \in [Procs -> {"unborn", "alive", "zombie", "gone"}]
            /\ parent' \in [Procs -> Procs \cup Heirs]
        BY <1>1, <2>2, <3>1, ExitsKeepTree
      <3>3. ScanTyped' /\ Unlaunched' /\ ScanSees' /\ CleanMeansGone'
        BY <2>2 DEF ScanTyped, Unlaunched, ScanSees, CleanMeansGone
      <3>4. RunnerSide'
        BY <1>1, <2>2, <3>2, <3>3 DEF RunnerSide, BoundedTypeOK
      <3>. QED  BY <1>1, <3>4, CallRests
    <2>. QED  BY <1>4, <2>1, <2>2 DEF GroupTimesOut
  <1>. QED  BY <1>2, <1>3, <1>4

LEMMA KillsKeeps == ASSUME BoundedIInv, NEW p \in Procs, Kills(p) PROVE BoundedIInv'
  <1>. USE BoundedFacts
  <1>1. /\ RunnerLives /\ RunnerLives' /\ RunnerIsAlone /\ runner = "kill" /\ runner' = "kill"
        /\ UNCHANGED <<group, answer>> /\ {p} \cap Living \in SUBSET Living
        /\ Exits({p} \cap Living, Heir) /\ scan' = [scan EXCEPT !.todo = @ \ {p}]
    BY DEF Kills, RunnerLives, Exited
  <1>2. /\ TreeHolds' /\ proc' \in [Procs -> {"unborn", "alive", "zombie", "gone"}]
        /\ parent' \in [Procs -> Procs \cup Heirs]
    BY <1>1, ExitsKeepTree
  <1>3. ScanTyped' /\ Unlaunched' /\ ScanSees' /\ CleanMeansGone'
    BY <1>1 DEF ScanTyped, Unlaunched, ScanSees, CleanMeansGone
  <1>4. RunnerSide'
    BY <1>1, <1>2, <1>3 DEF RunnerSide, BoundedTypeOK
  <1>. QED  BY <1>1, <1>4, CallRests

LEMMA ListingKeeps ==
    ASSUME BoundedIInv,
           \/ Repeats \/ ScanFails \/ NothingFound \/ SomethingFound \/ SweepEnds \/ KillsEnd
           \/ TreeTimesOut
    PROVE  BoundedIInv'
  <1>. USE BoundedFacts
  <1>1. RunnerLives /\ RunnerIsAlone /\ UNCHANGED answer
    BY DEF Repeats, ScanFails, NothingFound, SomethingFound, SweepEnds, KillsEnd, TreeTimesOut,
       Concluded, Scanned, RunnerLives, Exited
  <1>2. CASE Repeats
    <2>1. /\ runner = "scan" /\ runner' = "scan" /\ UNCHANGED treevars
          /\ scan' = [scan EXCEPT !.todo = Present, !.seen = NoScan.seen, !.again = TRUE]
      BY <1>2 DEF Repeats, Scanned
    <2>2. ScanTyped'
      BY <2>1 DEF ScanTyped, NoScan
    <2>3. Present = {}
      BY <1>2, NothingIsThere DEF Repeats
    <2>4. ScanSees'
      BY <2>1, <2>3 DEF ScanSees, Seeable, Present, Living, Zombies, treevars
    <2>. QED  BY <1>1, <2>1, <2>2, <2>4, PhaseKeeps
  <1>3. CASE ScanFails
    <2>1. UNCHANGED treevars
      BY <1>3 DEF ScanFails
    <2>2. CASE StartScan("sweep", {})
      BY <1>1, <2>1, <2>2, LookKeeps
    <2>3. CASE Concludes(FALSE)
      BY <1>1, <2>1, <2>3, ConcludesKeeps
    <2>. QED  BY <1>3, <2>2, <2>3 DEF ScanFails
  <1>4. CASE NothingFound
    <2>1. Present = {}
      BY <1>4, NothingIsThere DEF NothingFound, Concluded
    <2>. QED  BY <1>1, <1>4, <2>1, ConcludesKeeps DEF NothingFound
  <1>5. CASE SomethingFound
    BY <1>1, <1>5, ReapsKeep DEF SomethingFound
  <1>6. CASE SweepEnds
    <2>1. /\ runner' = "kill" /\ scan' = [scan EXCEPT !.todo = Found] /\ UNCHANGED treevars
      BY <1>6 DEF SweepEnds
    <2>2. ScanTyped' /\ ScanSees'
      BY <2>1 DEF ScanTyped, ScanSees
    <2>. QED  BY <1>1, <2>1, <2>2, PhaseKeeps
  <1>7. CASE KillsEnd
    BY <1>1, <1>7, ReapsKeep DEF KillsEnd
  <1>8. CASE TreeTimesOut
    <2>1. UNCHANGED treevars
      BY <1>8 DEF TreeTimesOut
    <2>2. CASE StartScan("sweep", {})
      BY <1>1, <2>1, <2>2, LookKeeps
    <2>3. CASE Concludes(FALSE)
      BY <1>1, <2>1, <2>3, ConcludesKeeps
    <2>. QED  BY <1>8, <2>2, <2>3 DEF TreeTimesOut
  <1>. QED  BY <1>2, <1>3, <1>4, <1>5, <1>6, <1>7, <1>8

LEMMA JudgesKeeps == ASSUME BoundedIInv, Judges PROVE BoundedIInv'
  <1>. USE BoundedFacts
  <1>1. RunnerLives /\ RunnerIsAlone /\ runner = "verdict"
    BY DEF Judges, RunnerLives, Exited
  <1>2. PICK code \in {"none", "code", "mirror", "unclean", "noShell"} :
          /\ Leave(code)
          /\ code \in {"code", "mirror"} => scan.why = "clean"
    BY DEF Judges, BoundedTypeOK
  <1>3. code \in {"code", "mirror"} => Present = {}
    BY <1>1, <1>2 DEF ScanSees
  <1>. QED  BY <1>1, <1>2, <1>3, LeaveKeeps, CallRests

-----------------------------------------------------------------------------
(* A bounded command: the call                                               *)

\* The call goes on without touching the runner.
LEMMA RunnerRests ==
    ASSUME BoundedIInv, CallOnly
    PROVE  RunnerSide' /\ runner' = runner /\ (RunnerLives' <=> RunnerLives)
  <1>. USE BoundedFacts
  <1>1. UNCHANGED <<treevars, runner, answer, scan>> /\ (RunnerLives' <=> RunnerLives)
    BY DEF CallOnly, runnervars, RunnerLives
  <1>2. /\ TreeHolds' /\ Present' = Present /\ UNCHANGED <<proc, parent, group>>
        /\ ChildrenOf("runner")' = ChildrenOf("runner")
    BY <1>1, TreeRests
  <1>3. ScanTyped' /\ Unlaunched' /\ CleanMeansGone' /\ ScanSees'
    BY <1>1, <1>2 DEF ScanTyped, Unlaunched, CleanMeansGone, ScanSees, Seeable
  <1>. QED  BY <1>1, <1>2, <1>3 DEF RunnerSide, BoundedTypeOK

LEMMA CallOnlyKeeps ==
    ASSUME BoundedIInv,
           \/ Acquires \/ HasRunner \/ Answers \/ EnderReturns \/ Returns \/ GivesUpQueue
           \/ CancelledAgain
    PROVE  BoundedIInv'
  <1>. USE BoundedFacts
  <1>1. CallOnly
    BY DEF Acquires, HasRunner, Answers, EnderReturns, Returns, GivesUpQueue, CancelledAgain
  <1>2. RunnerSide' /\ runner' = runner /\ (RunnerLives' <=> RunnerLives)
    BY <1>1, RunnerRests
  <1>3. runner \in Exited \cup {"absent"} => ~RunnerLives
    BY DEF RunnerLives
  <1>4. CallSide'
    BY <1>2, <1>3
       DEF Acquires, HasRunner, Answers, EnderReturns, Returns, GivesUpQueue, CancelledAgain,
           CallEnds, CallSide, CallFits, SlotCoversRunner, BoundedTypeOK
  <1>. QED  BY <1>2, <1>4, SidesAreAll

LEMMA StartsRunnerKeeps == ASSUME BoundedIInv, StartsRunner PROVE BoundedIInv'
  <1>. USE BoundedFacts
  <1>1. /\ UNCHANGED <<treevars, answer, scan, shellCall, ender, slot, twice>>
        /\ shellCall = "spawning" /\ runner = "absent" /\ runner' = "booting"
    BY DEF StartsRunner, callvars
  <1>2. Present = {} /\ \A p \in Procs : proc[p] = "unborn"
    BY <1>1 DEF Unlaunched, Present, Living, Zombies
  <1>3. TreeHolds'
    BY <1>1, <1>2 DEF TreeHolds, Present, Living, Zombies, treevars
  <1>4. ScanTyped' /\ Unlaunched' /\ ScanSees' /\ CleanMeansGone'
    BY <1>1, <1>2 DEF ScanTyped, Unlaunched, ScanSees, CleanMeansGone, treevars
  <1>5. RunnerSide'
    BY <1>1, <1>3, <1>4 DEF RunnerSide, BoundedTypeOK, treevars
  <1>6. CallSide'
    BY <1>1 DEF CallSide, CallFits, SlotCoversRunner, BoundedTypeOK
  <1>. QED  BY <1>5, <1>6, SidesAreAll

LEMMA EndingKeepsBounded ==
    ASSUME BoundedIInv, GivesUpStart \/ Escalates \/ \E how \in {"timedOut", "cancelled"} :
           Interrupts(how)
    PROVE  BoundedIInv'
  <1>. USE BoundedFacts
  <1>1. CASE GivesUpStart
    <2>1. RunnerSide' /\ ~RunnerLives'
      BY <1>1, KillsRunnerKeeps DEF GivesUpStart
    <2>2. CallSide'
      BY <1>1, <2>1 DEF GivesUpStart, CallEnds, CallSide, CallFits, SlotCoversRunner,
         BoundedTypeOK
    <2>. QED  BY <2>1, <2>2, SidesAreAll
  <1>2. CASE Escalates
    <2>1. RunnerSide' /\ ~RunnerLives'
      BY <1>2, KillsRunnerKeeps DEF Escalates
    <2>2. CallSide'
      BY <1>2, <2>1 DEF Escalates, CallSide, CallFits, SlotCoversRunner, BoundedTypeOK
    <2>. QED  BY <2>1, <2>2, SidesAreAll
  <1>3. ASSUME NEW how \in {"timedOut", "cancelled"}, Interrupts(how) PROVE BoundedIInv'
    <2>1. RunnerSide'
      BY <1>3, TerminatesKeeps DEF Interrupts
    <2>2. CallSide'
      BY <1>3, <2>1 DEF Interrupts, CallSide, CallFits, SlotCoversRunner, BoundedTypeOK
    <2>. QED  BY <2>1, <2>2, SidesAreAll
  <1>. QED  BY <1>1, <1>2, <1>3

LEMMA BoundedStarts == BoundedInit => BoundedIInv
  <1>. SUFFICES ASSUME BoundedInit PROVE BoundedIInv
    OBVIOUS
  <1>. USE RootAssumption DEF BoundedInit
  <1>1. BoundedTypeOK /\ ScanTyped
    BY DEF BoundedTypeOK, ScanTyped, NoScan
  <1>2. Present = {}
    BY DEF Present, Living, Zombies
  <1>3. TreeHolds /\ Unlaunched /\ ScanSees
    BY <1>2 DEF TreeHolds, Unlaunched, ScanSees
  <1>4. CallFits /\ CleanMeansGone /\ SlotCoversRunner
    BY DEF CallFits, CleanMeansGone, SlotCoversRunner
  <1>. QED  BY <1>1, <1>3, <1>4 DEF BoundedIInv

LEMMA BoundedStepKeeps == BoundedIInv /\ [BoundedNext]_boundedvars => BoundedIInv'
  <1>. SUFFICES ASSUME BoundedIInv, [BoundedNext]_boundedvars PROVE BoundedIInv'
    OBVIOUS
  <1>1. CASE UNCHANGED boundedvars
    <2>1. CallOnly /\ UNCHANGED <<shellCall, ender, slot, twice>>
      BY <1>1 DEF boundedvars, callvars, CallOnly
    <2>2. RunnerSide' /\ runner' = runner /\ (RunnerLives' <=> RunnerLives)
      BY <2>1, RunnerRests
    <2>3. CallSide'
      BY <2>1, <2>2, BoundedFacts DEF CallSide, CallFits, SlotCoversRunner, BoundedTypeOK
    <2>. QED  BY <2>2, <2>3, SidesAreAll
  <1>2. CASE ProcessStep
    BY <1>2, ProcessKeeps
  <1>3. CASE RunnerStep
    BY <1>3, RunnerStartKeeps, GroupKeeps, ListingKeeps, JudgesKeeps, ReadsKeeps, KillsKeeps
       DEF RunnerStep
  <1>4. CASE RunnerTimesOut
    BY <1>4, GroupKeeps, ListingKeeps DEF RunnerTimesOut
  <1>5. CASE RunShellStep
    BY <1>5, CallOnlyKeeps, StartsRunnerKeeps, EndingKeepsBounded DEF RunShellStep
  <1>6. CASE Caller
    BY <1>6, CallOnlyKeeps, EndingKeepsBounded DEF Caller
  <1>. QED  BY <1>1, <1>2, <1>3, <1>4, <1>5, <1>6 DEF BoundedNext

\* A shell command with a time limit, for any finite set of processes and however they
\* fork, leave their group and are orphaned: a runner that answers with the command's
\* code or its signal leaves none of them, and a command counts against the limit of
\* concurrent commands for as long as its runner works.
THEOREM BoundedIsClean == BoundedSpec => []BoundedInv
  <1>1. BoundedInit => BoundedIInv
    BY BoundedStarts
  <1>2. BoundedIInv /\ [BoundedNext]_boundedvars => BoundedIInv'
    BY BoundedStepKeeps
  <1>3. BoundedIInv => BoundedInv
    BY DEF BoundedIInv, BoundedInv
  <1>. QED  BY <1>1, <1>2, <1>3, PTL DEF BoundedSpec
=============================================================================
