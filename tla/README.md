# A TLA+ verification project for workgate

Workgate lets a remote agent (an MCP client) work on machines that are behind
NAT.  **Control** is the public process: it serves the MCP tools, the owner's web
UI, OAuth, and the state that outlives a connection.  Each **Executor** is a
process on a machine; it opens outgoing HTTP requests to Control (hello,
heartbeat, long poll, result) and runs the commands it is handed.  Paths below are
relative to `src/src/workgate/`.

The project models the coordination in this program: who may do what in which
order, what is kept when a request is lost, a task cancelled, a bearer revoked or
a process restarted.  It leaves out presentation, argument validation and what the
operating system does with files, terminals and processes.

1. [Inventory](#1-inventory)
2. [Modules and how they correspond to the code](#2-modules-and-how-they-correspond-to-the-code)
3. [Runs, bounds and what they show](#3-runs-bounds-and-what-they-show)
4. [Fairness](#4-fairness)
5. [Proofs](#5-proofs)
6. [Findings](#6-findings)
7. [What is not modelled](#7-what-is-not-modelled)
8. [Plan](#8-plan)

To check a run: `tlc -workers 2 -config MCX.cfg MCX` in this directory.  To check
the proofs: `tlapm ExecutorTransportProofs.tla`, and the same for the other `*Proofs` modules.

## 1. Inventory

Control and each Executor are asyncio programs: a coroutine runs until it awaits
something that is not ready.  Where the code says `async with lock:` around a body
without such an await, the body is atomic; the interesting interleavings are
between the awaits, between Control, Executors and the network, and between
threads and the loop where the code uses `asyncio.to_thread`.

### Coordination between Control and an Executor

| component (source) | state | operations | correct when |
| --- | --- | --- | --- |
| **Executor transport** (`control/executor_transport.py`) | per executor: hello, poll token, wake event, deque of queued commands, `pending` correlations with their Futures, trust record, last activity | hello, heartbeat, poll, call, abandon, submit_result, revoke, replace, reset, close | a command is handed over at most once and only to the current bearer; every caller is answered or fenced; no wake-up is lost; the delivery state in an error is true |
| **Executor connection** (`executor/connection.py`) | tail of each order key, command tasks, count of inventory mutations, owner action error, the heartbeat and poll tasks | barrier, hello, drain and policy, connected loop, receive, execute, submit, back-off, stop | the hello inventory is settled; commands of a session or transfer keep their order; concurrency is bounded; an update waits for all work |
| **HTTP between the two** (`control/http/`, `executor/control_client.py`) | requests and answers on their way | each may be lost; a result may arrive twice | at most once end to end, in call order; reconciliation sees what was replied |

### Control

| component (source) | state | operations | correct when |
| --- | --- | --- | --- |
| **Sessions** (`control/sessions.py`, `control/state.py`) | durable rows creating/active/terminating/ended, session locks, capacity lock, missing observations, termination tasks | start, tool, end (soft, forced), hello reconciliation, continue termination, capacity admission, automatic end | no session is resurrected, forgotten while it exists, or ended while it works; terminating sessions end; the limit holds |
| **Pairing** (`control/pairing.py`, `control/executors.py`) | attempts by device code, trust records, bearers not proved yet | authorize, approve, deny, poll, prove, revoke, expire, close | one decision per attempt; only the current, unrevoked bearer can be fetched; proved bearers are erased |
| **Stream hub** (`control/streams.py`, `control/http/stream_routes.py`, `ui/http/terminals.py`) | streams by token, attachments, expiry timers, relays, slots of the UI | issue, attach (both sides), ready, relay, close, close by executor, aclose | slots are exact; a fenced bearer is cut off; unpaired streams end; nothing outlives aclose |
| **Managed jobs** (`jobs/managed.py`, `jobs/recovery.py`, `jobs/status.py`, `jobs/reconciliation.py`) | job rows in a file under a lock, a journal of deferred updates, in-process tasks, liveness leases | start, end, deferred update, reconcile, stop, retry, close, crash | attempts never overlap; a row follows its own attempt; an active job settles |
| **Tasks** (`control/task_state.py`) | semantic tasks, continuation claims | create, claim, attach, expire | one claimant; expiry never cuts a live session |
| **Session copy** (`control/session_copy.py`), **transfer gateway** and **payload store** (`control/transfer_gateway.py`, `control/payload_store.py`) | resumable copies with receipts, one-shot capabilities, immutable payloads | begin, chunk, finish, claim, release, sweep | a capability is claimed once; a payload in use is not swept; a resumed copy neither skips nor repeats |
| **Registry recovery** (`control/registry_recovery.py`, `persistence/store.py`) | marker, primary and backup files | write, load, recover | after a crash between two renames the newest complete generation is loaded |
| **OAuth** (`oauth/`) | clients, codes, refresh tokens, consents | authorize, exchange, refresh, revoke | a code or refresh token is used once |
| **Control runtime** (`control/runtime.py`, `control/server.py`) | the order of start and close, the retention loop | start, sweep, close | closing ends, cuts no termination of the sweep and leaves nobody behind |

### Executor and shared parts

| component | state | operations | correct when |
| --- | --- | --- | --- |
| **Tool sessions** (executor) | sessions with lifecycle locks | create, use, terminate, inventory | a terminate excludes tools; the inventory is exact |
| **Shell jobs and runner** (`executor/jobs/`, `executor/shell.py`) | job rows, reservations of shells in the session's row, terminal sessions, the runners' receipts | start, look, stop, retry, termination of the session | attempts never overlap; an end is its own attempt's; a live shell has an owner; an interrupted row settles |
| **Bounded commands** (`executor/shell.py`, `executor/bounded_runner.py`, `platform/posix/process.py`) | a slot, the runner process, the command's processes | acquire, start, limit, cancel, terminate; watch, read /proc, signal, judge | a clean answer leaves no process; a call ends, and its runner |
| **File transfer and peer links** | receipts, resumable writes, routes | begin, write, publish | publication is atomic and once |
| **Path locks** | two levels of locks | acquire in order | no deadlock, no lost update |
| **Supervisor and cutover** (`supervisor.py`, `config/`) | the children and what each is known to run, the text last known to work, the apply in progress; the runtime generation | spawn, record, apply, restore, restart; stage, switch | a failed apply goes back to a text that has worked; no save is undone; one runtime works at a time |

`PROJECT.json` lists all parts with what is modelled of each, and the hazards: the
places, with their lines, where the code is exposed to something a test would hardly
reach.

### How they interact

A tool call (MCP) enters a session operation, which takes the session's lock and
*calls* the transport; the transport hands the command to the long poll of the
Executor's connection; the connection orders it behind the commands of the same
session, runs it, and submits the result; the transport resolves the Future, and
the session operation resumes.  Each arrow can fail by itself.  A *hello* (on every
reconnect) carries the Executor's inventory; Control reconciles its rows with it,
without a lock, while calls are under way.  The owner *revokes* or *replaces* an
executor: pairing writes the trust record, the transport fences its channel, and the
callback closes terminal streams one at a time.  Managed jobs run in Control and keep
their rows in a store shared with threads and other processes.

### What is hard

* **Interleavings at an await**: hello reconciliation against every session
  operation; an owner's fence against a poll that has been woken and has not run; a
  retry against a thread that is still writing the previous end.
* **State read before an await and used after it**: the record in automatic end, the
  bearer an executor's socket was authenticated with, the pairing attempt behind a
  replacement that suspends.
* **Lost, repeated and late messages**: any HTTP request or answer; a poll whose client
  has gone; an answer after its caller gave up.
* **Crash and restart**: durable session rows against sessions that live in Executor
  memory; active job rows against a task and a lease that die with the process.
* **Cancellation**: approval, shutdown, sweeps and waits for a write are all
  cancellable half-way.
* **Limits**: pending commands, concurrent commands, sessions, attempts, streams.

## 2. Modules and how they correspond to the code

| module | models | used by |
| --- | --- | --- |
| `CommandContract` | abstract: the life of one remote command, at most once | refined by `ExecutorTransport` |
| `ExecutorTransport` | one executor's channel in Control | `CommandDelivery`, proofs |
| `ExecutorTransportProofs` | theorems about it | |
| `ExecutorConnection` | the executor's delivery loop | `CommandDelivery`, `MCExecutorConnection`, proofs |
| `ExecutorConnectionProofs` | theorems about it | |
| `PeerRoute` | a copy sent directly from executor to executor, with its receiver | `MCExecutorConnection`, proofs |
| `PeerRouteProofs` | theorems about it | |
| `CommandDelivery` | both, joined by lossy HTTP, with executor restarts | `MCCommandDelivery`, proofs |
| `DeliveryProofs` | theorems about it | |
| `ControlSessions` | session rows against the executor's sessions | `MCSessions`, `MCAdmission`, proofs |
| `ControlShutdown` | sessions that are being ended while Control stops | `MCSessions`, proofs |
| `TaskState` | one semantic task: its count of sessions, its rows, its lifetime, its continuation | `MCAdmission`, proofs |
| `SessionsProofs` | theorems about `MCAdmission` (`ControlSessions`, `TaskState` and admission) and `ControlShutdown` | |
| `ExecutorPairing` | device codes, trust and delivery of bearers | `MCStores`, proofs |
| `RegistryRecovery` | a restart-critical registry as marker, primary and backup | `MCStores`, proofs |
| `FileLinks` | the table of download links, its two files and the payloads | `MCStores`, proofs |
| `OAuthGrants` | registrations, approvals and one-time codes | `MCStores`, proofs |
| `PathLocks` | the two levels of locks files are changed under | `MCStores`, proofs |
| `ConfigApply` | the supervisor, its children and the configuration files they apply | `MCStores`, proofs |
| `StoresProofs` | theorems about pairing, registries, links, grants, path locks and configuration files | |
| `StreamHub` | terminal streams and the sweeps that fence them | `MCTransfers`, proofs |
| `TransferImport` | one import at its destination: the files, the two receipts, every step of every command | `SessionCopy` |
| `SessionCopy` | Control's side of a copy between executors, composed with the import | `MCTransfers`, proofs |
| `PayloadExports` | uploads that compete for Control's payload store | `MCTransfers`, proofs |
| `TransfersProofs` | theorems about `StreamHub`, `PayloadExports` and `SessionCopy` | |
| `ManagedJobs` | one control-managed job, its store, journal and lease | `MCManagedJobs`, proofs |
| `ShellJobs` | one shell-backed job of an executor, its shells and its session | `MCManagedJobs`, proofs |
| `BoundedCommand` | one shell command with a time limit on Linux: its call, its runner and its processes | `MCManagedJobs`, proofs |
| `JobsProofs` | theorems about the three | |
| `MC*` | model values, order keys and symmetry sets for TLC | |

`map` in `PROJECT.json` gives the lines of every definition.

**ExecutorTransport.**  Every method of the class is one action, up to its first real
suspension: a poll suspends in `wake.wait()`, a call on its Future, and nothing else
does, since the bodies under `channel.lock` do not await.  `pending`, `queue`, `token`
and `hello` are the channel's fields; `queue` is a set whose order is that of `stamp`,
the position at which a command was appended.  `future` and `caller` are separate
because a resolved Future is not yet a resumed coroutine: a timeout or a cancellation
can arrive between the two, and `abandon` decides what to tell the caller by what it
finds in `pending` at that moment.  `trust` has the bearer, the revoked flag and the
retired bearers; `online` abstracts the clock to "within `offline_after_s` or not".
`offers`, `offeredTo`, `answeredBy` and `superseded` are history: who was handed a command, who
answered, and which open polls a hello or a fence has overtaken.

**ExecutorConnection.**  `phase` is the point `run_forever` has reached; the outcome of
an HTTP request is a parameter of the action that consumes it, so the module runs
alone (any outcome) and inside `CommandDelivery` (the outcomes of Control and the
network).  `task`, `pred` and `tail` are the chain of ordered commands
(`_command_order_tails`), `mutations` the commands counted by `_inventory_mutations`.

**CommandDelivery** instantiates the two and adds the messages.  A hello, poll or result
request and its answer are separate; each may be lost; a result may be delivered twice;
a poll whose client gave up stays open in Control as an orphan until it is superseded or
answered into the void; the executor process may stop and start with empty memory.
One assumption is a constant: with `LateHello = FALSE` a hello the client gave up on is
not processed after a later one.  The code does not order two hellos of one bearer; if
the older one is processed last, it publishes the older inventory until the next
hello.  `HelloCoversReplies` needs the assumption, the other properties do not.

**ControlSessions** takes two facts from the modules above in place of their detail: an
RPC follows `CommandContract`, and the executor runs the create and terminate
commands of a session in offer order and says hello only when none is left
(`SerialPerKey`, `HelloInventoryIsStable`).  `record`, `confirmed` and `missing` are
Control's; `exists`, `mail` and `idle` the executor's.  A command whose poll was answered into the void, or whose
executor process ended before its result was accepted, is `"lost"`: nobody will answer it.  A creation that failed keeps its record
if a hello has meanwhile made it active and its task was there before (`Discard`).  An operation (`op`) holds the
session's lock over its RPCs and goes through stages, one for each await;
reconciliation (`ProcessHello`) takes no lock and is enabled between any two of
them.  Time is abstracted to "older than every cut-off or not".

**ControlShutdown** looks at a session from the side of the process: `status` is its row, `ending` what a user's request, a hello's task and the
retention sweep do about it (wait for its lock, look it up, stop its jobs, call the executor), and `command` the command of the one that has the lock.  The HTTP
server drains, then stops and cancels the requests; only then does `ControlRuntime.aclose` begin (`stage`): it waits for the sweep's pass, which is
shielded from the cancellation, and later cancels the hellos' tasks and closes the transport.  Once the server has stopped no executor
can poll or answer.  The services between the two close without waiting for anybody outside and are one step.

**ExecutorPairing.**  Every operation holds the service's lock, and only the approval of
a replacement suspends while it does (it awaits the closing of streams with the trust
record already replaced), so that approval is the one operation in two steps; revocation
(`executors.py`) writes the record and then clears the delivery, also in two.  Both can be
cancelled in between: `stale` and `uncleared` remember for whom.

**StreamHub.**  Bodies under the hub's lock do not suspend, so each is an action.  What
runs between two of them are the sends and closes of sockets.  The executor-side handler
authenticates, then claims: a fence may fall between.  A sweep (`close_executor`,
`aclose`) pops its streams first and then closes them one by one.  Cancelling a running
relay leaves its two pumps orphaned until their sockets close: `relay = "orphaned"`.

**ManagedJobs.**  A store transaction (take the file lock, replay the journal, apply the
change, save) is one action, with "store busy" as an outcome.  A start and a retry make
several transactions without an await between them, so `loop` holds the event loop from
the first to the last; the threads that write terminal states and those that look at the
store interleave with them.  Starts and retries of one session are serialised by its
admission lock (`Admitted`); stops are not.  `attempt` is the identity of a launch; the
code's own number may repeat when a launch fails.

**ShellJobs.**  An operation holds the session's lifecycle lock over its awaits, so `op` is the one that is under way;
the job store's transactions and the requests to the terminal server are its steps.  The server and the runners go on by
themselves and survive a crash of the executor.  A request that is not answered, or not awaited any more, happened or did not,
and has by the time its client ended (the client is killed when its limit passes).  Because the lock excludes every other
writer of the row, the code's operation tokens never differ from what the row says and are left out.  The backend is tmux; a
shell's name, which the code derives from job and attempt, is the attempt's number.  `unconfirmed` is history: attempts whose
start failed and whose clean-up could not be confirmed.

**BoundedCommand.**  Three actors: `run_shell` (`shellCall`, `ender`, `slot`), the runner it starts in a process group of its own
(`runner`, `told`, `answer`, `scan`), and the command's processes (`proc`, `parent`, `group`), which fork, leave the shell's
group, exit and wait whenever they like.  The kernel's part is external: whoever exits stays a zombie until its parent waits; its
children go to the runner while that lives, to init afterwards.  The runner learns what exists by reading /proc one process at a
time (`Reads`), from its own children downwards, or, on a host without `children` files (`listing`), every process's parent from a
directory read before; an empty result of the latter is read again (`Repeats`).  What it found it kills one by one, and listing,
killing and waiting interleave with forks.  A process need not obey SIGTERM, so asking it to end is no step of its own; SIGKILL to
the group is atomic, as in the kernel.  A signal to the runner ends it before its handlers are installed and is noted after.
Signal numbers, output and the runner's wait for a shell it has already reaped are left out; a process identity is used once.

**TaskState.**  A mutation of a task holds the state lock over its writes, of which there may be two (the task, then
the session row; or the row, then the task); `holder` is what is still to be written, and Control may stop between the two.
`task.count` is the stored number of attachments and `rows` the session rows that name the task.  The idle sweep reads
the session rows first and writes later (`SweepReads`, `SweepWrites`), while rows change without the task's lock (`Lives`): a hello may
make a row active whose creation is still awaited, confirm an end, and a forced end that resumes after it takes the confirmation back.
`absent` is history: the sessions an executor was found not to have.  What a failed creation does depends on whether its task was made
for it (`FailCreate`).  A continuation is claimed with a
token by a host; a report is accepted only under the current token and generation.

**RegistryRecovery.**  One file at a time: the generation marker, then the primary, then the backup, in the order of
`write_registry`; `load_registry`'s four outcomes (primary, backup under the fenced generation, nothing there, refusal) are one
action each.  Between any two writes the process may crash, a write may fail, a file may be lost or damaged.  `committed` is
history: the last primary that was published.

**FileLinks.**  The same for the table of download links, where the order is the opposite: the spare copy is *removed* before
the primary is written, so that no older table can come back and revive a link.  A claim counts the download before the answer
is sent.

**OAuthGrants.**  A form is validated when it is shown and again when it is submitted; in between, the registration may
expire, the limit be reached, or Control restart.  `stored` is the registry file; codes live in memory.

**PathLocks.**  A thread registers with its process's entry for each path, takes the entries' locks in the order of the paths
and then the shard files in the order of the shards; the last user drops the entry.

**ConfigApply.**  The Parent of `supervisor.py` polls its children, so each turn of its loop that finds something is an action,
and what it does between two reads of a file (take the file's lock, look, write, stop the children, start them) is a step each (`parent`).
A Child loads its file, tells what it loaded, tells that it has started, and then serves: it may be edited through (a save looks and
writes under the file's lock) and asked to apply the file.  `mail` is its one unanswered message.  `child[r].registered` and `.status`
are the Parent's record of a Child, `good` the text a rollback restores.  `proven` and `overwritten` are history.  An editor may change the
files at any moment, without the lock.  Left out: an answer that takes longer than the Child waits for it,
restarts that change no file, and files that cannot be read.

**TransferImport** and **SessionCopy.**  Every durable change at the executor (a receipt, a rename, a removal) is one step and the
executor may crash between any two; the receipts are all that the next command knows.  Control's attempt (`pc`) begins,
downloads, finishes, unpacks, records and releases; each call may lose its answer after it was offered, and a command that
was offered runs although nobody waits.  `Abandon`, `Prune` and `Reconcile` are the tombstone: the checkpoint goes only when the
executor has confirmed that it holds nothing private.  The bytes of a file are "partial" or "full".

**PayloadExports.**  The upload handler and the attempt that waits for it are tasks of their own.  A claim takes the capability
out of the table before a byte is received; the handler owns the staging file until it reports, the attempt afterwards; a crash
leaves staging files that only the next prune removes (`left`).  The transfer's row is written with its payload's size before
the upload begins, which is what the limit counts.  The sweeps go by age: an attempt may wait for its executor without a limit, so a
sweep may take the staging file of an upload that is under way, or the row of a foreground copy (`ExportSweep`, at the cost of a mishap);
`pruned` and `released` are history, of uploads that lost theirs.  Such an attempt then fails to commit, or to import.

**PeerRoute.**  Control's attempt and its checkpoint, the source's send, and at the destination the commands of one transfer (in
order), the receiving task, the expiry timer and the manager's lock.  A command and its answer are separate: Control may stop
waiting for either.  Tearing a receiver down takes the lock for several steps (`holder`), and receiving does not take it.  When the
direct route fails before Control has recorded a version to publish, the copy goes through Control to the same write.  An attempt
that has opened a receiver, a managed retry included, claims in its `finally` what was received if it got as far as the checkpoint, and
removes it otherwise, also when writing the checkpoint is what failed (`RecordFails`); an attempt that continues a checkpoint (`resumed`)
has no such clause.

**The composed instances.**  `MCSessions`, `MCAdmission`, `MCStores`, `MCTransfers`, `MCExecutorConnection` and `MCManagedJobs` each put several components with no common
variable into one specification: `part` is chosen at the start, one component runs, and the others rest in one initial state.
A behaviour of the composition is a behaviour of one component, and each property speaks about its own.

## 3. Runs, bounds and what they show

Bounds are constants of the configurations or of the modules.  Deadlock checking is off in
runs whose system may rightly stop: every command used up, every attempt decided,
Control closed.  The runs of `ManagedJobs` keep it on.

| run | instance | states | shows |
| --- | --- | --- | --- |
| `transport` | 2 commands, 2 polls, 2 bearers, `MaxPending` 2 | 197,735 | queue, correlations, callers and poll ownership agree, no wake-up is lost (`IInv`); definite delivery states are true; superseded polls take nothing; call order; the contract is implemented; close frees every caller and poll; every decided call ends |
| `connection` | delivery: 4 commands, 3 of one session or transfer, 2 of them inventory mutations, and 1 not ordered; `MaxConcurrent` 3. Peer copy: 4 faults, 1 retry | 403,582 | settled inventory at hello, order per key, bounded work, quiescent updates; received commands and demanded updates end (`WorkEnds`); the two routes of a copy exclude each other, only a recorded version is published, received bytes outlive every teardown once Control means to publish them, a lease ends |
| `delivery` | 2 ordered commands, 1 mutating, 2 polls, 1 bearer, 2 hellos | 744,960 | at most once end to end; "queued" means it never runs; the reconciled inventory covers every reply; call order |
| `sessions` | sessions: 1, 3 faults, 3 commands on their way. Shutdown: 2 sessions | 292,604 | confirmed absence is absence; tools run in active sessions; rows only move forward: no resurrection, a hello costs no active session, only an unstarted session is forgotten; termination converges; closing cuts no termination of the sweep, leaves nobody behind, and ends |
| `admission` | sessions: 2 with a limit of 1. Tasks: 2 session slots, 2 hosts | 3,267,678 | the limit holds while admission reaps; `AdmissionInv`: the count of attachments is never too low, a row never names a task that is gone, a task is continued a bounded number of times; the idle sweep blocks only a task whose sessions have ended and were found absent |
| `jobs` | managed: 1 job, 2 concurrent requests, 2 attempts, 1 crash. Shell: 1 job, 2 attempts, any number of interruptions. Bounded command: 3 processes, both kinds of /proc | 65,648 | attempts never overlap; ends are filed with their attempt; both kinds of job settle (`JobsSettle`); a shell-backed job ends from its own receipt or a known absence, its live shells stay owned; a bounded command that is reported clean has no process left (`CleanMeansGone`), and its call and runner end (`CommandEnds`) |
| `transfers` | streams: 2 streams, 1 executor, 1 handler, 2 sweeps, 2 slots. Copy: 1 file or directory, lost calls, crashes of either side, edits of the destination. Exports: 2 transfers, room for 1, 2 tries, 2 mishaps | 516,368 | slots are exact, a fence cuts off, sweeps and unpaired streams end; the original survives until the copy is published whole, a copy is published once, a forgotten copy left nothing, an abandonment completes; an acknowledged upload is stored until it is old, the limit holds, nothing outlives its owner |
| `stores` | pairing: 3 devices, 2 executors, 3 bearers, 2 attempts at a time. Registry: 2 contents. Links: 2, for one and two downloads. OAuth: 2 clients, 3 codes. Locks: 3 threads in 2 processes, 2 paths, 2 shards. Configuration: 2 roles, 2 files or 1, 2 texts, 2 edits | 1,315,312 | what can be fetched is current, unrevoked and unproved, decisions are final; a registry serves what was published last and one fault is survived; an ended link is never revived or overserved; a code is spent once, an approval is durable; exclusion without deadlock; a rollback restores what all readers of the file have started with, never goes back behind what runs, and undoes no save |
| `sessions_forgotten`, `sessions_autoend`, `jobs_retry`, `copy_resume` | smallest | | [findings](#6-findings) |

Why the bounds are enough to be interesting:

* **Transport.**  Two polls are what supersession needs, two bearers what replacement needs (old and new,
  with a poll of each inside), two commands what order and a limit need.  Liveness concerns a caller and the poll next
  to it.  The theorems of section 5 lift the safety properties to all values; the same properties were checked
  with three commands against `MaxPending` 2 (369,661 states), where a third call is refused.
* **Connection.**  A chain of three on one key, and an independent command; with `MaxConcurrent` 3 one
  of the four waits for capacity: every way a chain can be entered, finished and drained.
* **Delivery.**  Two hellos give a reconnect with a command in flight; two polls in Control
  give an orphan and its successor.  One bearer: trust is explored in the transport on its own.
* **Sessions.**  Sessions share only the capacity lock and the hello, so interference is
  within a session; capacity is the exception and has its own run.  Three faults allow an
  executor that loses its state, a Control restart, and a fault during the recovery.
* **Pairing.**  Three devices against a limit of two: a refused attempt, and a second
  approval for an executor while a first is undelivered.  Two executors tell clearing by
  executor from clearing everything.
* **Streams.**  Two sweeps: fence against fence and fence against shutdown, which is where one
  sweep finds what another has popped but not closed.
* **Jobs.**  Two requests race (stop against stop, stop against retry, retry against retry) over
  two attempts, so that a late write of the first can meet the second.  The same properties were
  checked with three requests and three attempts (647,840 states).
* **Shell jobs.**  Two attempts: the first can be lost, finished, half started or half stopped when the second is made.
  Interruptions are not counted.  With three attempts (353,514 states of the job alone) the same properties hold; the overlap that
  `AttemptsExclude` excepts needs the third.
* **Bounded commands.**  Three processes: the shell, one that leaves its group, and one forked by either while the runner reads;
  with two, no orphan can appear behind a reading.  With four (688,012 states of the command alone) the safety properties hold.
* **Peer copy.**  Four faults: the direct route fails, its cancellation or its claim is uncertain, and a change of the session
  fails on the disk in the meantime.  One retry starts again from a checkpoint.  The invariant was also checked with nine faults
  (2,017,072 states), and with seven faults and two retries (6,499,490 states).
* **Exports.**  Two transfers of which one fits; the one that belongs to a job can be tried twice, so that the upload of the first
  try can meet the second; a foreground copy has one try under its name.  Two mishaps are enough for a file and a row that grow old,
  or for one of them and a crash.
* **Tasks.**  Two slots let one session end while another begins; two hosts race for a continuation.
* **Registry and links.**  Faults are counted since the files last agreed, so two faults are two that can combine; the third
  generation is the first at which an old backup could pass for a current one.  One damaged file of the links makes every later start
  choose between the two copies; with two (692,482 states of the links alone) the same invariant holds.
* **Copy.**  One lost call, one crash, one edit by somebody else and one retry: each can fall at every step of the attempt, of the
  abandonment and of the executor's commands, in every combination.
* **Locks.**  Two threads of one process and one of another, with shards in the opposite order of the paths: a wait
  inside the process, a wait between processes, and the pair of orders that could deadlock.

* **Configuration.**  One edit is applied and fails while another is made: two edits and two texts, so that a later edit may also restore
  what an earlier one changed.  Both roles may read one file or each its own.  The files are interchangeable, so Control reads the first.  The same invariant was checked with three edits.

Some properties carry an exception, each of which is a behaviour of the code the run found:

* `DeliveryIsCurrent` and `RevokedIsNotDelivered` except executors whose replacement or
  revocation was *cancelled* between the trust record and the clearing: the bearer
  is refused by the transport, but a device can still fetch it.
* `FencedIsCutOff` excepts the pumps of a stream that another sweep popped first and has yet to
  close.  A sweep that is itself cancelled leaves the rest of its streams.
* `TerminationConverges` excepts a lost terminate command sent on behalf of a hello or
  the sweep: nothing bounds that wait, and it holds the session's lock until a fence.
* `CloseEnds` excepts a sweep that is held (`Held`): it waits, without a limit, for a termination whose executor can no longer answer because the
  server has stopped, or for the lock of a hello's task that waits so and would be cancelled only later.  `runtime.py:178` promises to "finish any in-flight session
  termination"; a supervised Control is killed after the Parent's grace period, another one waits until a second signal.
* `WorkIsCovered` and `OnlyAbortedWritesMisfile` except what follows a task cancelled while it
  waited for its terminal write: the write goes on in its thread and is not awaited again, so it can
  meet a later attempt.
* `JobSettles` excepts a lease without a task: a task cancelled before its first step never
  reaches the `finally` that releases its lease, and the job is then never found lost in this process.
* `RefusesOnlyAfterTwoFaults` excepts the very first write of a registry: a crash after its marker leaves a marker without a
  primary, which a start refuses although nothing was ever committed.
* `AttemptsExclude` and `FinishedIsAtRest` except an attempt that failed to start and could not be confirmed dead.  A failed
  *retry* drops the pending shell's name from the row (`executor/jobs/shell.py:757`), so the next retry looks only for the attempt
  before it and may run beside a shell that came up after all; the shell stays reserved, and the end of the session finds it.
* `PromiseIsKept` excepts (`forfeited`) received bytes that were given up while Control meant to publish them: by a change of the
  session, by a prune after the grace period, and by an orderly stop that interrupts a claim (the lease then says "cancelling", and
  the stop keeps only leases that say "received").
* `SlotCoversRunner` excepts a call that is cancelled while it terminates its runner: its place under `max_concurrent_commands` is
  free again while the runner still cleans up.  After its limit nobody escalates to SIGKILL then; the runner ends by its own limits.
* `CapacityKept` excepts a foreground upload that waited for a day (its reservation is released), and `AcknowledgedIsStored` an upload
  whose attempt waited for an hour after its last byte (its file is pruned, `payload_store.py:157-170`): nothing limits that wait
  (`session_copy.py:1980`), and the copy then fails although every byte had arrived.
* `CapacityKept` counts the rows of the payload store.  Files that a failed save leaves without a row are counted by the next prune.
* `SavesAreNotLost` is about what was saved through a Child.  An owner's editor takes no lock, and what it writes between a look at the file and the
  write that follows is lost.
* `ForgottenIsClean` excepts the backup or the archive that a *successful* unpack could not remove: the answer reports it.
* `AbandonmentCompletes` excepts a destination that somebody else changed: the executor then keeps what it cannot account for.

## 4. Fairness

Safety runs assume nothing.  Liveness assumes what the scheduler gives, never that a peer answers:

* **Transport** (`LoopFairness`): a poll that was woken and a call whose Future is resolved run
  (weak fairness: the event loop runs what is ready).  No timer fires, no executor polls by assumption.
* **Connection**: a command task whose predecessor is done runs, a running command ends, a
  submission ends (it gives up on a terminal answer or when told to); a drained connection goes on.
  The clients' requests have time limits; the handlers of commands are assumed to end.
* **Sessions**: an operation whose RPC is answered goes on, scheduled terminations run, and the executor
  polls, works and answers.  The tool watchdog ends a user's call whose command was lost (`Watchdog`); nothing is assumed
  to end the calls that a hello or the sweep makes.  Strong fairness of `Reconnects`: from time to time, while
  nobody waits, the executor says hello again (a deploy, a sleep, a new address), which is enabled again and
  again but not continuously.  This is an assumption about the environment, and convergence is claimed "at the
  latest after the next hello" for that reason.  It is claimed only once the disturbances listed in `Disturbance` stop.
* **Shutdown**: operations on sessions and the steps of closing go on, lookups have a time limit, the server stops within its graceful limit.
  That an executor polls or answers is not assumed.
* **Streams**: armed timers fire, a stopped relay closes its stream, a sweep goes on, and the sockets of a removed
  stream close: the handlers on both sides return on the stream's `closed` event.
* **Copy**: the executor's command loop goes on, Control's attempt goes on, and abandoned checkpoints are reconciled (every copy
  and every reconnection start that).  Lost calls, crashes and edits are bounded and never assumed.
* **Peer copy**: the destination's commands, the receiving task and its sender, teardowns and the expiry timer go on.
  Nothing is assumed of Control: a lease ends without it.
* **Shell jobs**: an operation goes on, because every request to the terminal server has a time limit.  Of the looks that users and
  hellos keep taking, some find the server and the store (strong fairness: an assumption about the environment).
* **Bounded commands**: the call and the runner go on, and their time limits pass.  The limits for what is found in /proc are looked
  at only between two readings, which go on meanwhile, hence strong fairness (`TreeTimesOut`).  Nothing is assumed of the command's
  processes: they may fork and ignore the request to end.  A call waits for its turn without a promise (`GivesUpQueue` ends it too).
* **Jobs**: weak fairness for writer threads and for a look at the store now and then (automatic cleanup checks
  references, users list jobs).  Strong fairness for task steps and requests: they are ready on a FIFO loop, and lose
  their turn only while a start or a retry holds it.

## 5. Proofs

`ExecutorTransportProofs` holds for every finite set of commands, any sets of polls and bearers, and
every positive `MaxPending`.  Its assumptions are those in `ExecutorTransport`: `Cmds` is finite,
`MaxPending` is a positive integer, `NoCred` and `NoPoll` are not a bearer and not a poll.

| theorem | states |
| --- | --- |
| `TypeCorrect` | `Spec => []TypeOK` |
| `InvCorrect` | `Spec => []IInv` |
| `CorrelationCorrect` | `NoStrandedCaller`, with queue and dictionary in agreement |
| `FencesCorrect` | a revoked executor retains nothing; only a compatible one has queued work |
| `WakeupCorrect` | `NoLostWakeup`, and the delivery token has a live owner |
| `AtMostOnce` | a command is offered at most once, and answered only by the bearer that took it |
| `ReportCorrect` | `DefiniteReportIsTrue`, a conjunct of the invariant |
| `CapacityCorrect` | `max_pending_commands` bounds retained correlations |
| `CallOrder` | `OfferedInCallOrder` |
| `OfferFence` | a command is handed out only by a running Control to the current bearer of a compatible runtime |
| `Refinement` | `Spec => Contract!Spec` |

**The argument.**  `NoStrandedCaller` is not inductive by itself.  It says that the open Future of a waiting
caller is exactly a retained correlation; a step that removes a correlation must resolve its Future, and for
that one has to know that fences find all of them (`UntrustedIsFenced`), that a fresh command was neither
queued nor awaited (`FreshCalls`), and that the deque holds what the dictionary calls queued
(`QueueMirrorsPending`).  `NoLostWakeup` (an owning poll that sleeps has its wake event clear only if nothing is
deliverable) needs `QueuedOnlyWhenCompatible` and `TokenHasOwner`.  `DefiniteReportIsTrue` speaks of the future:
a caller told "queued" removed the command from the queue, so that it can never be offered; its proof uses
`OfferedAtMostOnce` and the mirror.  `OfferedInCallOrder` uses `DistinctStamps`: the oldest stamp in the queue is
unique, and later calls have larger ones.  That a superseded poll takes nothing (`SupersededTakesNothing`) is proved from what happened
to it: a hello took its token, and a fence left it the token but closed the channel, revoked the executor or retired the bearer the poll
was opened with, which nothing brings back (`SupersededIsFenced`, `PollBearersAreKnown`).  `IInv` is the conjunction; there is one lemma for each action, with
one step per conjunct that the action can disturb, and the theorems are corollaries of `InvCorrect`.

**Refinement.**  The phase of a command in the contract is a function of `pending`, `future` and the history
(`Phase`), its outcome of `caller` (`Outcome`).  Each action maps to Submit, Offer, Answer, Drop of a
set of commands (a fence drops all at once), a Return, or a stutter; that a poll is an Offer of one queued command
and a result an Answer of one offered command uses `IInv`.

### The delivery loop: `ExecutorConnectionProofs`

For every finite set of commands, any order keys and mutations, and every positive `MaxConcurrent`: `ConnectionCorrect`
(`Spec => []Inv`), and from it `InventoryCorrect` (`HelloInventoryIsStable`) and `UpdateCorrect` (`UpdateIsQuiescent`).
`Inv` says that commands of one key run one at a time in their order of arrival.  For that the chain has to be known: the tail of a key is
its last arrival (`TailIsLast`), a blocked command waits for the unfinished one before it (`WaitsForPrevious`), what has
finished came before what has not (`FinishedAreOldest`), arrivals are distinct (`ArrivalsAreDistinct`).  A stable inventory needs that the count
of mutations misses none (`MutationsAreCounted`); the limit needs that an open poll has room for what it brings
(`PollHasRoom`), since the room is taken before the poll and not after it.

### The direct copy: `PeerRouteProofs`

`PeerCopiesAreSound` (`PeerSpec => []PeerInv`) holds for any number of faults and of retries.  `PeerIInv` says what the step of Control tells of its
checkpoint (`StepIs`), that the commands the destination has not ended belong to the route of that checkpoint, with its version (`CommandsFit`: a
late `prepare` cannot meet a relay, a late `finish` publishes nothing else), what lease, receiver, timer and lock know of
each other (`LeaseIs`, `HolderIs`), and that an answer Control still awaits is that of its own last command (`AnswerIs`: when it
reads "received" and records the promise, nobody holds the lock but an expiry that keeps the bytes).  Bytes that are promised
are `Kept` because the attempt that wrote the checkpoint claims once and those that continue it do not (`ClaimsOnce`): a lease whose claim
failed is cancelled by no second claim.

`PromiseIsKept` excepts what a session change, a stop or the pruning gives up.  The attempt to prove it showed that the exception has to begin when the
session change *decides*, not when the disk obeys: if the removal fails, the lease stays `cleanup_failed`, and a claim that was
still queued removes the bytes (`_cancel_locked` keeps only "received" and "cancelling").  It takes four faults in a row, one more than
the run allowed before; the history variable and the bound are what they have to be now.

### End to end: `DeliveryProofs`

`DeliveryIsSound`, `EffectsFollowCalls` and `HelloIsComplete` (`Spec => []Inv`, `RunsInCallOrder`, `HelloCoversReplies`) hold for every finite set of
commands and any polls, bearers and keys, with requests that are lost, repeated and late and any number of restarts of the executor.  The invariants of the two sides are
taken as they are, through the instances `Transport!IInv` and `Connection!IInv`: each step is a step of both, of one, or of
the network, and a restart keeps the connection's because what has stopped has nothing live (`StoppedIsIdle`).  What is new is the network: whoever is
offered a command has it at most once (`Delivered`), one poll of the executor is on its way (`OnePoll`), what it brings
comes in the order of the calls (`InCallOrder`), and a hello that is on its way has the effect of every reply before it (`HelloCovers`).
`HelloCoversReplies` holds unless a hello was processed after a later one was sent (`LateHello`), which is the hazard listed without a property.

### Sessions and tasks: `SessionsProofs`

For every finite set of sessions, any backlog of commands, any number of faults and any limit.  `SessionsAreSound` (`SessionsInv`) and
`RowsOnlyMoveForward` (`RowsMoveForward`): hellos change rows without the locks under which create, end and tool calls await, so that what an operation
may still rely on when it resumes has to be known (`OperationKnowsTheRow`), as has the order of its commands (`CommandsAreOrdered`: the create command is
the first and nothing exists before it, `StartsFromNothing`), that an absence an answer or a hello reports lasts until it is heard
(`AbsenceLasts`, `HelloIsCurrent`), and that a confirmed end is one (`ConfirmedHasEnded`).

`TasksAreSound`, `SweepsOnlyTheIdle` (`SweepBlocksTheIdle`) and `AdmissionIsSound` (`AdmissionInv`) hold for any slots, hosts and number of attempts.  A task counts
no fewer sessions than it has because of every difference the holder of its lock owes the write (`CountsAreOwed`); what it has
read it may use because others need the lock (`HolderKnows`).  Rows do change without the lock, so the sweep's look is not
what the row says when it writes: what lasts is that the session had ended and was found absent, which a forced end does not undo.
A claim is spent once (`AttemptsAreSpent`).

### Streams, exports and copies: `TransfersProofs`

`StreamsAreSound` (`Inv` of the hub) for any streams, executors, handlers and sweeps: a relay that nobody owns is waited for by the
sweep that popped it (`PumpsAreAwaited`), a sweep has before it whatever it must close (`SweepSound`).
`ExportsAreSound` (`ExportsInv`) for every finite set of copies, every capacity and any number of tries: the store holds at most its capacity because room is
reserved before it is written, and each upload knows the attempt that asked for it (`TransferSound`, `UploadSound`).  Sweeps by age are
part of every step: what they may take from an attempt that lives is exactly what the histories say.

`CopiesAreSound` (`CopyInv`) for any number of crashes, outside changes, lost answers and retries.  `CopyIInv` relates two machines that see each other only
through answers.  On the disk of the destination, the receipts tell which files are there at every step of every command (`WriteIs`, `UnpackIs`,
`DestinationIs`, `ReceiptsTell`).  Between them, the commands that are queued are imports, then at most a release, then abandonments (`CommandsAre`), and the
answer an attempt waits for is that of the last (`AnswerIs`).  So an attempt that hears "completed" knows it was
published, whoever published it (`ImportedIs`), and a checkpoint that is forgotten has nothing left to remove.

### Jobs: `JobsProofs`

`ManagedIsSound` (`Inv`) and `AttemptsDoNotOverlap` (`AttemptsNeverOverlap`) for any requests, attempts, crashes, closes and deferred updates.  `ManagedIInv` is
`ManagedSound` (one call at a time has the lock, and knows the row it read; a task is that of its row's attempt or of an earlier one), with
`aborted \/ Covered`: unless a task was cancelled while it awaited its write, every update is the running attempt's own and its call is
covered by the row.

`ShellJobsAreSound` (`ShellJobsInv`) for any number of attempts, with an interruption between any two requests to the terminal server: what a
row says of its shells (`RowIs`, `ShellsAre`), what the inventory holds (`InventoryHolds`), and what a suspended operation may still do with both
(`OperationFits`, `AttemptFits`).

`BoundedIsClean` (`BoundedInv`) for every finite set of processes.  What matters is that two readings of `/proc` in a row find the end of a tree that forks while it is
read: no set of processes is closed under parenthood (`TreeHolds`), and a listing that is under way will find a child of the
runner, or none is there (`ScanSees`).  That the recursive function which places a process in a tree is right needs a
least counterexample (well-founded induction is out of reach, its theorems take an operator as parameter).

### Pairing: `StoresProofs`

For any executors and bearers, every finite set of device codes and every limit: `PairingCorrect` (`Spec => []Inv`),
`DeliveryCorrect` (`DeliveryIsCurrent`, `RevokedIsNotDelivered`), `ErasureCorrect` (`ProvedIsErased`) and `DecisionsCorrect`
(`DecisionIsFinal`).  The invariant adds what a suspended approval may rely on when it resumes: its attempt is still
undecided and its bearer has never been fetched (`ApprovalStands`); that only approved attempts carry a bearer, the one issued
for them (`CarriesItsOwn`); that what is proved was issued (`ProofsAreIssued`), and that a revoked executor had a bearer.

### Registries: `StoresProofs`

`RegistrySafety` (`RegistrySpec => []RegistrySafe`): for every set of contents and any number of generations and faults, what
is loaded is the last publication, or the start is refused.  `RegistrySafe` is not inductive: the steps of a write have to
know what they write and how its generation stands to the fence (`Writing`), that the last publication is not beyond the
fence, and what the absence of all three files says.

`OneFaultIsSurvived` (`RefusesOnlyAfterTwoFaults`): a start is refused only if two faults have fallen since the three files last
agreed; it follows from what each single fault leaves readable.

### OAuth: `StoresProofs`

For every finite set of codes, any clients, every limit and any number of restarts: `OAuthCorrect` (`OAuthSpec => []OAuthInv`: a code
is spent once, and belongs to a client of the registry file, which holds every client the user has approved and no other).
The file is written from memory, so that a write could drop a client; it does not because memory covers the file
(`MemoryCoversFile`) until the service is closed.

### Download links: `StoresProofs`

`LinksAreSafe` (`LinksSpec => []LinksSafe`) holds for any set of links, any limits, any bound on counts and any number of damaged files.  What is inductive is that two tables
are `Trusted` at every step, the one in memory and the one the next operation will find: they hold no ended link, have counted every body
handed out, and what they let out has a payload that nobody is about to release.  Damage then costs nothing, because the two readable files agree
and the spare one is gone before the primary changes (`FilesAgree`); a failed registration may take its payload back because its link is fresh
(`RegisterIsFresh`), and an answer may end a link because the saved table already says so (`ChangeIsMade`).

### Path locks: `StoresProofs`

`LocksAreSound` (`PathLocksInv`) for any threads of any processes, any finite set of paths and any assignment of paths to shards: holders of a path exclude each
other, an entry of the registry has exactly the users it counts (`Counted`), and if somebody waits, somebody inside can
go on.  `LocksIInv` says where a call stands: it registers, locks and takes lock files in order (`CallSound`), with entries that
are in its process's registry (`EntrySound`).  A new entry is always to be had, since there are more than uses of the path (a pigeonhole
argument).  There is no circle because the thread that waits for the greatest resource waits for one that waits for nothing.

### Configuration files: `StoresProofs`

`ApplyCorrect` (`ApplySpec => []ApplyInv`) holds for any roles, files and texts and any number of edits.  `GoodIsProven` (a rollback goes back to a text with which all
readers of the file have started) rests on the order in which a Child reports (`StartsInOrder`) and on the Parent's record being no
newer than the Child; `SavesAreNotLost` on the lock: whoever is between a look and a write holds it, and only an editor can have changed the
file since (`WritersHoldTheLock`).  `GoodIsRunning` is not inductive: it follows from what is known outside an apply (`GoodIsKept`)
and during one (`ApplyIsKnown`: until the readers are stopped they run the old text, and afterwards none is well).

### Shutdown: `SessionsProofs`

`ShutdownCorrect` (`ShutdownSpec => []ShutdownInv`) holds for any set of sessions.  That the transport interrupts no termination of the sweep needs the order in
which things stop (`StopsInOrder`): a sweep that has ended has nothing left to look at, aclose goes on only when it has, the server's end takes the
users' requests and the sessions' close the hellos' tasks, and none of them begins again.

### Assumptions

Every theorem assumes what its module's `ASSUME`s say of the constants, and nothing else; TLC evaluates them in each run.  Limits and bounds are natural numbers
(`MaxPending`, `MaxConcurrent`, `MaxSessions`, `MaxStreams` and the like positive); the markers (`NoCred`, `NoPoll`, `NoCmd`, `NoCall`, `None`) are
not among what they mark the absence of.  Finite are only the commands (one process calls them), the sessions, pairing attempts and codes, streams and
copies that a limit counts, the threads and paths of the locks with an unlimited supply of entries for them, and the processes of a
machine, of which the runner's own names are none.  The bounds on crashes, faults and tries are parameters: the theorems hold for each value.

### Only model-checked

Every invariant and every action property that a run checks is also a theorem.  What TLC alone checks is liveness
(`CloseFreesEveryone`, the fair contract `Contract!LiveSpec`, `WorkEnds`, `LeaseEnds`, `TerminationConverges`, `CloseEnds`, `JobsSettle`, `CommandEnds`,
`StreamsEnd`, `AbandonmentCompletes`), which is out of the prover's reach, as is everything about ENABLED.

## 6. Findings

Each has a run whose single property is what the code's own text promises, and which TLC violates.

* **`sessions_forgotten`** (`control/sessions.py:247`).  A `start_session` that is cancelled after the answer
  to its create command was accepted and before it resumes carries no delivery state, because `abandon` finds
  the correlation gone.  The handler takes "no state" for "nothing was sent" and removes the record of
  a session the executor has; `remove_session` is documented as "Durably forget a checkpoint only when
  no executor side effect exists" (`control/state.py:248`).
  `RowsMoveForward` (`ForgottenUnstarted`) shows that this is the only way to forget an existing session.
* **`sessions_autoend`** (`control/sessions.py:478`).  `_auto_end_if_eligible` reads the record, awaits
  `auto_cleanup_blocked`, and decides on the record it had read.  If a hello has made the session active
  meanwhile, the branch for creating sessions returns the record's age without asking the executor, where
  the docstring promises an "authoritative cleanup age without guessing executor activity".
* **`jobs_retry`** (`jobs/managed.py:822`).  A retry of a job that is still active raises "job is
  still active" inside the `try` whose `except` cancels the job's task, awaits it and releases its lease, although
  this request launched nothing: the refused retry stops the running job.

* **`copy_resume`** (`executor/transfer.py:1497`).  A write's temporary file is created before its metadata, and `transfer_begin_write` is
  documented as "Create or resume a write".  An executor that stops between the two leaves a temporary file without metadata, and
  every later begin of that transfer is refused.

## 7. What is not modelled

* **Formats**: requests, argument validation, wording of answers, HTML.  A command is an identity with an order key
  and a flag for "changes the inventory".
* **Clocks**: a time limit may pass at any moment it is armed; ages are older or younger than every cut-off.  Rate
  windows in pairing are left out.
* **The HTTP server**: a request is processed at most once for each time it is sent.
* **Several executors** in the transport: channels share only the start/close flag.  Pairing has several.
* **Session rows as files**: a row is durable when the action that writes it has happened.  `RegistryRecovery` models the registries
  that are written with a marker and a backup; a session row is one atomic replace.
* **Of jobs**: progress updates, logs, several shell jobs of one session, the ConPTY backend.
* **Of transfers**: the object store as a route, copies inside one executor, the version probe and its overlay, directories over the direct
  route, and the binding of a capability to an executor and a token, which is checked where it is used.
* **Bounded commands elsewhere**: containment by launchd and kqueue on macOS and by job objects on Windows; the tails of the output.
* **Terminal bridges, the staging of new sources and the undoing of a failed start of Control** are not modelled.
* **Parts with no protocol state** (parsing of configuration, audit, telemetry, presentation, file and search tools), and
  parts that are mostly external services (agent bridge, browser and GUI tools).

## 8. Plan

Done, in this order: transport and contract, its proofs, connection, their composition, sessions, pairing, stream
hub, managed jobs; registries with their proof, download links, imports and copies, tasks, path locks, OAuth with its proof, payload
exports, direct routes, shell jobs; the proofs of pairing, connection and download links; the supervisor's applies with their proof; shutdown
with its proof; bounded commands; then the inductive invariants of every component that was only model-checked.

Next modules, most important first:

| module | code | what to state |
| --- | --- | --- |
| `RuntimeCutover` | staging of new sources | one runtime works at a time |
| `TerminalBridge` | attachments to multiplexed terminals | slots and detachment |
| `ObjectRoute` | the object store between two executors | a copy is published once, from what was uploaded whole |

Theorems to add: that `TransferImport` and `SessionCopy` implement a copy that happens in one step (abstractly: the destination has the original or the
whole), that `PathLocks` implements one lock for each path, and that the two sides of `CommandDelivery` implement `CommandContract` with an outcome for
the executor's restart.

Runs are kept few: components that share nothing share a run, and a component gets a second instance only when liveness
or another limit needs one.
