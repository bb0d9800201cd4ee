-------------------------- MODULE CommandDelivery --------------------------
(***************************************************************************)
(* Control's transport and the Executor's connection joined by HTTP: hello,*)
(* poll and result requests travel and answer separately, each request and *)
(* each answer can be lost, a result can arrive twice, a poll whose client *)
(* gave up stays open in Control, and the Executor process can stop and    *)
(* start again.                                                            *)
(*                                                                         *)
(* One bearer and a matching runtime: trust changes and version changes    *)
(* are explored in ExecutorTransport on its own.  A hello the client gave  *)
(* up on is not processed after a later one (LateHello = FALSE); with      *)
(* LateHello = TRUE it may be.                                             *)
(***************************************************************************)
EXTENDS Naturals, FiniteSets

CONSTANTS Cmds, Polls, Creds, NoCred, NoPoll, MaxPending,
          Keys, NoKey, KeyOf, Mutating, NoCmd, MaxConcurrent,
          MaxHellos,   \* bound on the number of hellos the executor sends
          LateHello    \* an abandoned hello request may still be processed

ASSUME ControlAssumption ==
  /\ MaxPending \in Nat \ {0} /\ IsFiniteSet(Cmds)
  /\ NoCred \notin Creds /\ NoPoll \notin Polls
ASSUME ExecutorAssumption ==
  /\ KeyOf \in [Cmds -> Keys \cup {NoKey}] /\ NoKey \notin Keys
  /\ Mutating \subseteq Cmds /\ NoCmd \notin Cmds /\ MaxConcurrent \in Nat \ {0}
ASSUME NetworkAssumption ==
  MaxHellos \in Nat /\ LateHello \in BOOLEAN /\ "empty" \notin Cmds \cup {NoCmd}

VARIABLES lifecycle, trust, online, hello, token, poll, pending, queue, stamp,
          calls, future, caller, delivery, offers, offeredTo, answeredBy,
          superseded, phase, update, polling, task, pred, tail, mutations, owner, received,
          arrival, executions

VARIABLES
  hellos,      \* hello requests on their way, with the inventory they carry
  attempt,     \* number of hellos sent
  helloAnswer, \* the last hello was answered and the answer is on its way
  inventory,   \* Control: the inventory of the hello it processed last
  processed,   \* history: number of hellos Control has processed
  pollRequest, \* a poll request on its way: "none", "mine", or "orphan"
  myPoll,      \* the poll in Control that the executor's open request waits for
  pollAnswer,  \* its answer on the way: NoCmd, "empty", or a command
  results,     \* result requests on their way
  acks         \* answers to result requests on their way

Control == INSTANCE ExecutorTransport
Executor == INSTANCE ExecutorConnection

control  == <<lifecycle, trust, online, hello, token, poll, pending, queue, stamp,
              calls, future, caller, delivery, offers, offeredTo, answeredBy, superseded>>
executor == <<phase, update, polling, task, pred, tail, mutations, owner, received,
              arrival, executions>>
helloLink  == <<hellos, attempt, helloAnswer, inventory, processed>>
pollLink   == <<pollRequest, myPoll, pollAnswer>>
resultLink == <<results, acks>>
network == <<helloLink, pollLink, resultLink>>
vars == <<control, executor, network>>

TypeOK ==
  /\ Control!TypeOK
  /\ Executor!TypeOK
  /\ hellos \subseteq [n : 1..MaxHellos, snapshot : SUBSET Mutating]
  /\ attempt \in 0..MaxHellos
  /\ helloAnswer \in BOOLEAN
  /\ inventory \subseteq Mutating
  /\ processed \in 0..MaxHellos
  /\ pollRequest \in {"none", "mine", "orphan"}
  /\ myPoll \in Polls \cup {NoPoll}
  /\ pollAnswer \in Cmds \cup {NoCmd, "empty"}
  /\ results \subseteq Cmds
  /\ acks \subseteq Cmds

Init ==
  /\ Control!Init
  /\ Executor!Init
  /\ hellos = {}
  /\ attempt = 0
  /\ helloAnswer = FALSE
  /\ inventory = {}
  /\ processed = 0
  /\ pollRequest = "none"
  /\ myPoll = NoPoll
  /\ pollAnswer = NoCmd
  /\ results = {}
  /\ acks = {}

----------------------------------------------------------------------------
(* Hello *)

\* What the executor's session and resource owners report.
Snapshot == {c \in Mutating : executions[c] > 0}

ExecutorSendsHello ==
  /\ attempt < MaxHellos
  /\ Executor!SendHello
  /\ attempt' = attempt + 1
  /\ hellos' = (IF LateHello THEN hellos ELSE {})
                 \cup {[n |-> attempt', snapshot |-> Snapshot]}
  /\ helloAnswer' = FALSE
  /\ UNCHANGED <<control, inventory, processed, pollLink, resultLink>>

ControlProcessesHello ==
  \E m \in hellos, k \in Creds :
    /\ Control!Hello(k, "match")
    /\ inventory' = m.snapshot
    /\ processed' = processed + 1
    /\ helloAnswer' = (helloAnswer \/ m.n = attempt)
    /\ hellos' = hellos \ {m}
    /\ UNCHANGED <<executor, attempt, pollLink, resultLink>>

LoseHello ==
  /\ \E m \in hellos : hellos' = hellos \ {m}
  /\ UNCHANGED <<control, executor, attempt, helloAnswer, inventory,
                 processed, pollLink, resultLink>>

ExecutorIsWelcome ==
  /\ helloAnswer
  /\ Executor!HelloAccepted(FALSE)
  /\ helloAnswer' = FALSE
  /\ UNCHANGED <<control, hellos, attempt, inventory, processed, pollLink, resultLink>>

\* The executor leaves its connected loop: its open poll request, wherever it
\* is, no longer has a client.
DropPollClient ==
  /\ pollRequest' \in IF pollRequest = "none" THEN {"none"} ELSE {"none", "orphan"}
  /\ myPoll' = NoPoll
  /\ pollAnswer' = NoCmd

ConnectionFails ==
  /\ Executor!ConnectionFails("reconnect")
  /\ DropPollClient
  /\ UNCHANGED <<control, helloLink, resultLink>>

----------------------------------------------------------------------------
(* Polls *)

ExecutorSendsPoll ==
  /\ Executor!SendPoll
  /\ pollRequest' = "mine"
  /\ UNCHANGED <<control, helloLink, myPoll, pollAnswer, resultLink>>

\* The answer of a poll that has ended; nobody reads that of an orphaned one.
Answer(p, mine) ==
  pollAnswer' = IF ~mine \/ poll'[p].status # "idle" THEN pollAnswer
                ELSE IF offers' = offers THEN "empty"
                ELSE CHOOSE c \in Cmds : offers'[c] # offers[c]

ControlOpensPoll(p) ==
  /\ pollRequest # "none"
  /\ \E k \in Creds : Control!OpenPoll(p, k)
  /\ myPoll' = IF pollRequest = "mine" THEN p ELSE myPoll
  /\ Answer(p, pollRequest = "mine")
  /\ pollRequest' = "none"
  /\ UNCHANGED <<executor, helloLink, resultLink>>

\* 409: another poll owns delivery, or the hello was not seen.
ControlRefusesPoll ==
  /\ pollRequest = "mine"
  /\ token # NoPoll \/ hello # "match"
  /\ Executor!ConnectionFails("reconnect")
  /\ pollRequest' = "none"
  /\ UNCHANGED <<control, helloLink, myPoll, pollAnswer, resultLink>>

ControlContinuesPoll(p) ==
  /\ Control!PollStep(p)
  /\ Answer(p, p = myPoll)
  /\ UNCHANGED <<executor, helloLink, pollRequest, myPoll, resultLink>>

ExecutorReceivesCommand(c) ==
  /\ pollAnswer = c
  /\ Executor!PollDelivers(c)
  /\ pollAnswer' = NoCmd
  /\ myPoll' = NoPoll
  /\ UNCHANGED <<control, helloLink, pollRequest, resultLink>>

ExecutorReceivesNothing ==
  /\ pollAnswer = "empty"
  /\ Executor!PollEmpty
  /\ pollAnswer' = NoCmd
  /\ myPoll' = NoPoll
  /\ UNCHANGED <<control, helloLink, pollRequest, resultLink>>

----------------------------------------------------------------------------
(* Results *)

ExecutorSendsResult(c) ==
  /\ task[c] = "submitting"
  /\ results' = results \cup {c}
  /\ UNCHANGED <<control, executor, helloLink, pollLink, acks>>

\* A result request may be delivered more than once.
ControlReceivesResult(c) ==
  /\ c \in results
  /\ \E k \in Creds : Control!SubmitResult(k, c)
  /\ results' \in {results, results \ {c}}
  /\ acks' = acks \cup {c}
  /\ UNCHANGED <<executor, helloLink, pollLink>>

LoseResult(c) ==
  /\ \/ /\ c \in results
        /\ results' = results \ {c}
        /\ UNCHANGED acks
     \/ /\ c \in acks
        /\ acks' = acks \ {c}
        /\ UNCHANGED results
  /\ UNCHANGED <<control, executor, helloLink, pollLink>>

ExecutorSeesAck(c) ==
  /\ c \in acks
  /\ Executor!SubmitEnds(c)
  /\ acks' = acks \ {c}
  /\ UNCHANGED <<control, helloLink, pollLink, results>>

----------------------------------------------------------------------------
(* Either side on its own *)

ExecutorWorks ==
  /\ \/ Executor!RetryAfterDelay
     \/ Executor!PolicyDecides("continue")
     \/ \E c \in Cmds : Executor!Unblock(c) \/ Executor!FinishExecution(c)
  /\ UNCHANGED <<control, network>>

\* The heartbeat keeps presence, or ends the loop to say hello again.
HeartbeatKeepsPresence ==
  /\ phase = "connected"
  /\ \E k \in Creds : Control!Heartbeat(k)
  /\ UNCHANGED <<executor, network>>

HeartbeatAsksForHello ==
  /\ Executor!HeartbeatEndsLoop
  /\ DropPollClient
  /\ UNCHANGED <<control, helloLink, resultLink>>

ExecutorStops ==
  /\ Executor!Stop
  /\ DropPollClient
  /\ UNCHANGED <<control, helloLink, resultLink>>

\* A new executor process: command tasks and order are gone.
ExecutorRestarts ==
  /\ phase = "stopped"
  /\ phase' = "barrier"
  /\ update' = FALSE
  /\ owner' = FALSE
  /\ mutations' = {}
  /\ UNCHANGED <<control, network, polling, task, pred, tail, received,
                 arrival, executions>>

ControlWorks ==
  /\ \/ Control!Start \/ Control!PresenceLapses \/ Control!ResetQueued
     \/ \E k \in Creds : Control!PutExecutor(k)
     \/ \E c \in Cmds : Control!CallStep(c)
  /\ UNCHANGED <<executor, network>>

Next ==
  \/ ExecutorSendsHello \/ ControlProcessesHello \/ LoseHello \/ ExecutorIsWelcome
  \/ ConnectionFails \/ ExecutorSendsPoll \/ ControlRefusesPoll
  \/ ExecutorReceivesNothing \/ ExecutorWorks \/ HeartbeatKeepsPresence
  \/ HeartbeatAsksForHello \/ ExecutorStops \/ ExecutorRestarts \/ ControlWorks
  \/ \E p \in Polls : ControlOpensPoll(p) \/ ControlContinuesPoll(p)
  \/ \E c \in Cmds : \/ ExecutorReceivesCommand(c) \/ ExecutorSendsResult(c)
                     \/ ControlReceivesResult(c) \/ LoseResult(c)
                     \/ ExecutorSeesAck(c)

Spec == Init /\ [][Next]_vars

----------------------------------------------------------------------------
(* Properties *)

\* Whatever is lost, repeated or restarted, no command runs twice.
ExecutedAtMostOnce == \A c \in Cmds : executions[c] <= 1

\* A call that returned was executed, to the end, by the executor.
ReplyWasExecuted ==
  \A c \in Cmds : caller[c] = "returned" => executions[c] = 1

\* A call that is told its command was still queued can count on it never running:
\* create_session forgets the session it announced on the strength of it.
ReportedQueuedNeverRuns ==
  \A c \in Cmds : delivery[c] = "queued" => task[c] = "none" /\ pollAnswer # c

\* Well-typed; no second execution, no reply without one, and a true report.
Inv == TypeOK /\ ExecutedAtMostOnce /\ ReplyWasExecuted /\ ReportedQueuedNeverRuns

\* The inventory Control reconciles against contains the effect of every inventory
\* command whose success it has already reported.  This is what the barrier before
\* a hello is for.
HelloCoversReplies ==
  [][processed' # processed =>
       \A c \in Mutating : future[c] = "result" => c \in inventory']_vars

\* Commands of one session or transfer take effect in the order in which they were
\* called, across Control's queue and the executor's tasks.
RunsInCallOrder ==
  [][\A c, d \in Cmds :
       /\ KeyOf[c] # NoKey /\ KeyOf[c] = KeyOf[d]
       /\ executions'[c] # executions[c] /\ stamp[c] < stamp[d]
       => executions[d] = 0]_vars
=============================================================================
