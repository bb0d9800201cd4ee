------------------------- MODULE ExecutorConnection -------------------------
(***************************************************************************)
(* The Executor's delivery loop                                            *)
(* (src/src/workgate/executor/connection.py): hello after a barrier on     *)
(* inventory mutations, the runtime policy, the connected loop with its    *)
(* heartbeat and poll tasks, and one task per received command that keeps  *)
(* offer order per session or transfer and submits its result until the    *)
(* submission is terminal.                                                 *)
(*                                                                         *)
(* The outcome of every HTTP request is a parameter of the action that     *)
(* consumes it, so the module is used on its own (any outcome at any time) *)
(* and inside CommandDelivery (the outcomes Control and the network give). *)
(***************************************************************************)
EXTENDS Naturals, FiniteSets

CONSTANTS
  Cmds,           \* commands Control may deliver
  Keys,           \* order keys: a session, or a transfer
  NoKey,          \* the command is not ordered
  KeyOf,          \* _command_order_key
  Mutating,       \* commands for which _affects_reconnect_inventory holds
  NoCmd,          \* no tail, no predecessor, a 204 response
  MaxConcurrent   \* max_concurrent_commands

ASSUME KeyAssumption == KeyOf \in [Cmds -> Keys \cup {NoKey}] /\ NoKey \notin Keys
ASSUME MutatingAssumption == Mutating \subseteq Cmds
ASSUME NoCmdAssumption == NoCmd \notin Cmds
ASSUME MaxConcurrentAssumption == MaxConcurrent \in Nat \ {0}
ASSUME FiniteAssumption == IsFiniteSet(Cmds)

VARIABLES
  phase,       \* where run_forever is
  update,      \* the hello response demanded a runtime update
  polling,     \* the poll task: off, waiting for capacity, or a request is open
  task,        \* the task of each command
  pred,        \* the predecessor a command task awaits
  tail,        \* _command_order_tails
  mutations,   \* _inventory_mutations
  owner,       \* _owner_action_error is set
  received,    \* history: number of commands received
  arrival,     \* history: position at which a command was received
  executions   \* history: how often a command was executed

vars == <<phase, update, polling, task, pred, tail, mutations, owner, received,
          arrival, executions>>

\* Tasks in _command_tasks, and those that still hold their place in the order.
Live == {c \in Cmds : task[c] \in {"blocked", "executing", "submitting"}}

Phases == {"barrier", "hello", "draining", "policy", "connected", "backoff",
           "parked", "stopped"}

TypeOK ==
  /\ phase \in Phases
  /\ update \in BOOLEAN
  /\ polling \in {"off", "capacity", "open"}
  /\ task \in [Cmds -> {"none", "blocked", "executing", "submitting", "done"}]
  /\ pred \in [Cmds -> Cmds \cup {NoCmd}]
  /\ tail \in [Keys -> Cmds \cup {NoCmd}]
  /\ mutations \in SUBSET Mutating
  /\ owner \in BOOLEAN
  /\ received \in Nat
  /\ arrival \in [Cmds -> Nat]
  /\ executions \in [Cmds -> Nat]

Init ==
  /\ phase = "barrier"
  /\ update = FALSE
  /\ polling = "off"
  /\ task = [c \in Cmds |-> "none"]
  /\ pred = [c \in Cmds |-> NoCmd]
  /\ tail = [k \in Keys |-> NoCmd]
  /\ mutations = {}
  /\ owner = FALSE
  /\ received = 0
  /\ arrival = [c \in Cmds |-> 0]
  /\ executions = [c \in Cmds |-> 0]

taskVars == <<task, pred, tail, mutations, received, arrival, executions>>

----------------------------------------------------------------------------
(* run_forever *)

\* The head of the loop: owner action ends it, otherwise it waits at the barrier.
LoopHead == phase' = IF owner THEN "parked" ELSE "barrier"

\* _wait_for_inventory_mutations, then the hello is built and sent; owner action
\* raised during the wait is noticed only later.
BarrierOpen_Mutant == TRUE   \* no barrier

BarrierOpen == mutations = {}

SendHello ==
  /\ phase = "barrier"
  /\ BarrierOpen
  /\ phase' = "hello"
  /\ UNCHANGED <<update, polling, owner, taskVars>>

\* A mismatching runtime first waits for the commands it still works on.
HelloAccepted(u) ==
  /\ phase = "hello"
  /\ update' = u
  /\ phase' = IF u THEN "draining" ELSE "policy"
  /\ UNCHANGED <<polling, owner, taskVars>>

Drained ==
  /\ phase = "draining"
  /\ Live = {}
  /\ phase' = "policy"
  /\ UNCHANGED <<update, polling, owner, taskVars>>

\* The handler's answer: go on, restart the process (owner action), or stay
\* quiescent until it is stopped (HANDOFF, BLOCK).
PolicyDecides(action) ==
  /\ phase = "policy"
  /\ phase' = IF action = "continue" THEN "connected" ELSE "parked"
  /\ polling' = IF action = "continue" THEN "capacity" ELSE "off"
  /\ owner' = (owner \/ action = "restart")
  /\ UNCHANGED <<update, taskVars>>

\* A request of run_forever fails: the loop reconnects after a delay, or needs
\* the owner.  Leaving the connected loop cancels the poll.
ConnectionFails(kind) ==
  /\ phase \in {"hello", "connected"}
  /\ polling' = "off"
  /\ phase' = IF kind = "reconnect" THEN "backoff" ELSE "parked"
  /\ owner' = (owner \/ kind # "reconnect")
  /\ UNCHANGED <<update, taskVars>>

\* The heartbeat asks for a new hello: back to the barrier without a delay.
HeartbeatEndsLoop ==
  /\ phase = "connected"
  /\ LoopHead
  /\ polling' = "off"
  /\ UNCHANGED <<update, owner, taskVars>>

RetryAfterDelay ==
  /\ phase = "backoff"
  /\ LoopHead
  /\ UNCHANGED <<update, polling, owner, taskVars>>

\* Owner action raised by a command task ends the connected loop.
ParkForOwner ==
  /\ owner
  /\ phase = "connected"
  /\ phase' = "parked"
  /\ polling' = "off"
  /\ UNCHANGED <<update, owner, taskVars>>

\* aclose cancels the loop and every command task.
Stop ==
  /\ phase # "stopped"
  /\ phase' = "stopped"
  /\ polling' = "off"
  /\ task' = [c \in Cmds |-> IF c \in Live THEN "done" ELSE task[c]]
  /\ tail' = [k \in Keys |-> NoCmd]
  /\ mutations' = {c \in mutations : task[c] = "blocked"}
  /\ UNCHANGED <<update, owner, pred, received, arrival, executions>>

----------------------------------------------------------------------------
(* The poll task *)

HasCapacity == Cardinality(Live) < MaxConcurrent

SendPoll ==
  /\ phase = "connected"
  /\ polling = "capacity"
  /\ ~owner
  /\ HasCapacity
  /\ polling' = "open"
  /\ UNCHANGED <<phase, update, owner, taskVars>>

PollEmpty ==
  /\ polling = "open"
  /\ polling' = "capacity"
  /\ UNCHANGED <<phase, update, owner, taskVars>>

\* The task's place in the order of its key.
Predecessor_Mutant(c) == NoCmd   \* nothing is ordered

Predecessor(c) == IF KeyOf[c] = NoKey THEN NoCmd ELSE tail[KeyOf[c]]

RegisteredMutations(c) == IF c \in Mutating THEN mutations \cup {c} ELSE mutations

\* The command's order, its inventory mutation and its task are registered in
\* the step that receives it.  Nothing remembers which commands have run.
PollDelivers(c) ==
  /\ polling = "open"
  /\ c \notin Live
  /\ polling' = "capacity"
  /\ pred' = [pred EXCEPT ![c] = Predecessor(c)]
  /\ task' = [task EXCEPT ![c] = IF Predecessor(c) = NoCmd THEN "executing"
                                                           ELSE "blocked"]
  /\ tail' = [k \in Keys |-> IF k = KeyOf[c] THEN c ELSE tail[k]]
  /\ mutations' = RegisteredMutations(c)
  /\ received' = received + 1
  /\ arrival' = [arrival EXCEPT ![c] = received']
  /\ UNCHANGED <<phase, update, owner, executions>>

----------------------------------------------------------------------------
(* Command tasks *)

\* The predecessor's completion is resolved.
Unblock(c) ==
  /\ task[c] = "blocked"
  /\ task[pred[c]] = "done"
  /\ task' = [task EXCEPT ![c] = "executing"]
  /\ UNCHANGED <<phase, update, polling, pred, tail, mutations, owner, received,
                 arrival, executions>>

\* The handler returns or raises; both give a result to submit.  The inventory
\* mutation is over before the result is submitted.
FinishExecution(c) ==
  /\ task[c] = "executing"
  /\ task' = [task EXCEPT ![c] = "submitting"]
  /\ mutations' = mutations \ {c}
  /\ executions' = [executions EXCEPT ![c] = @ + 1]
  /\ UNCHANGED <<phase, update, polling, pred, tail, owner, received, arrival>>

\* The task ends and gives up its place in the order.
Complete_Unresolved(c) ==   \* the completion future is never resolved
  /\ task' = [task EXCEPT ![c] = "none"]
  /\ UNCHANGED tail

Complete(c) ==
  /\ task' = [task EXCEPT ![c] = "done"]
  /\ tail' = [k \in Keys |-> IF tail[k] = c THEN NoCmd ELSE tail[k]]

\* Accepted, or UNKNOWN_COMMAND.
SubmitEnds(c) ==
  /\ task[c] = "submitting"
  /\ Complete(c)
  /\ UNCHANGED <<phase, update, polling, pred, mutations, owner, received,
                 arrival, executions>>

\* Rejected for good: the whole executor stops for its owner.
SubmitRejected(c) ==
  /\ task[c] = "submitting"
  /\ ~owner
  /\ Complete(c)
  /\ owner' = TRUE
  /\ UNCHANGED <<phase, update, polling, pred, mutations, received, arrival,
                 executions>>

\* Another task raised owner action between two attempts.
SubmitGivesUp(c) ==
  /\ task[c] = "submitting"
  /\ owner
  /\ Complete(c)
  /\ UNCHANGED <<phase, update, polling, pred, mutations, owner, received,
                 arrival, executions>>

----------------------------------------------------------------------------
(* Specification of the executor on its own: every request may have every outcome *)

LoopStep ==
  \/ SendHello \/ Drained \/ HeartbeatEndsLoop \/ RetryAfterDelay \/ ParkForOwner
  \/ \E u \in BOOLEAN : HelloAccepted(u)
  \/ \E a \in {"continue", "restart", "quiet"} : PolicyDecides(a)
  \/ \E kind \in {"reconnect", "owner"} : ConnectionFails(kind)
  \/ SendPoll \/ PollEmpty

\* Control offers a command once (AtMostOnce in ExecutorTransportProofs).
Fresh(c) == task[c] = "none"

CommandStep(c) ==
  \/ Fresh(c) /\ PollDelivers(c)
  \/ Unblock(c) \/ FinishExecution(c)
  \/ SubmitEnds(c) \/ SubmitRejected(c) \/ SubmitGivesUp(c)

Next == LoopStep \/ Stop \/ \E c \in Cmds : CommandStep(c)

Spec == Init /\ [][Next]_vars

\* Handlers end, an unblocked task runs, and submissions do not fail for ever.
TaskFairness ==
  \A c \in Cmds : WF_vars(Unblock(c) \/ FinishExecution(c) \/ SubmitEnds(c))

FairSpec == Spec /\ TaskFairness /\ WF_vars(Drained)

----------------------------------------------------------------------------
(* Properties *)

\* The inventory a hello carries is complete: while it is built and until Control
\* has answered it, no command that changes the inventory is waiting or running.
HelloInventoryIsStable ==
  phase \in {"hello", "draining", "policy"} =>
    \A c \in Mutating : task[c] \notin {"blocked", "executing"}

\* Commands of one session or transfer never overlap and run in the order in
\* which Control offered them.
SerialPerKey ==
  \A c, d \in Cmds :
    /\ KeyOf[c] # NoKey /\ KeyOf[c] = KeyOf[d] /\ c # d
    /\ task[c] \in {"executing", "submitting"} /\ d \in Live
    => arrival[c] < arrival[d]

\* At most max_concurrent_commands are in flight, blocked and submitting ones
\* included.
ConcurrencyBounded == Cardinality(Live) <= MaxConcurrent

\* The runtime is updated only when the old runtime works on nothing.
UpdateIsQuiescent == phase = "policy" /\ update => Live = {}

\* Well-typed, in order per key and bounded; hello and update find what they need.
Inv == /\ TypeOK /\ SerialPerKey /\ ConcurrencyBounded
       /\ HelloInventoryIsStable /\ UpdateIsQuiescent

\* A chain of ordered commands drains: nothing waits for a predecessor for ever.
ReceivedCommandsEnd ==
  \A c \in Cmds : (task[c] = "blocked") ~> (task[c] # "blocked")

\* A demanded update is not starved by commands that are still at work.
DrainEnds == (phase = "draining") ~> (phase # "draining")

\* Nothing the executor works on or waits for stays for ever.
WorkEnds == ReceivedCommandsEnd /\ DrainEnds
=============================================================================
