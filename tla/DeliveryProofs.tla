--------------------------- MODULE DeliveryProofs ---------------------------
(***************************************************************************)
(* Control's transport and the executor's connection over a network that   *)
(* loses, repeats and delays (CommandDelivery): no command runs twice, no  *)
(* reply is invented and no report is false.  What each side guarantees on *)
(* its own is taken from its own proofs, as instances of them.             *)
(***************************************************************************)
EXTENDS CommandDelivery, FiniteSetTheorems, TLAPS

Transport == INSTANCE ExecutorTransportProofs
Connection == INSTANCE ExecutorConnectionProofs

-----------------------------------------------------------------------------
(* Each side's own invariant                                                 *)

\* The steps Control takes are steps of the transport, whose invariant they keep.
LEMMA TransportSteps ==
    /\ \A k \in Creds : Control!Hello(k, "match") => Transport!Hello(k, "match")
    /\ \A k \in Creds : Control!Heartbeat(k) => Transport!Heartbeat(k)
    /\ \A k \in Creds : Control!PutExecutor(k) => Transport!PutExecutor(k)
    /\ \A k \in Creds, p \in Polls : Control!OpenPoll(p, k) => Transport!OpenPoll(p, k)
    /\ \A k \in Creds, c \in Cmds : Control!SubmitResult(k, c) => Transport!SubmitResult(k, c)
    /\ \A p \in Polls : Control!PollStep(p) => Transport!PollStep(p)
    /\ \A c \in Cmds : Control!CallStep(c) => Transport!CallStep(c)
    /\ Control!Start => Transport!Start
    /\ Control!PresenceLapses => Transport!PresenceLapses
    /\ Control!ResetQueued => Transport!ResetQueued
  <1>. USE DEF Control!Running, Transport!Running, Control!Authenticated,
         Transport!Authenticated, Control!Trusted, Transport!Trusted, Control!channelVars,
         Transport!channelVars, Control!callVars, Transport!callVars, Control!handovers,
           Control!history,
         Transport!handovers, Transport!history, Control!Queued, Transport!Queued,
           Control!WokenPolls,
         Transport!WokenPolls, Control!Settle, Transport!Settle, Control!IdlePoll,
           Control!OpenPolls, Transport!OpenPolls,
         Transport!IdlePoll
  <1>1. ASSUME NEW k \in Creds, Control!Hello(k, "match") PROVE Transport!Hello(k, "match")
    BY <1>1 DEF Control!Hello, Transport!Hello, Control!DropIncompatible,
         Transport!DropIncompatible
  <1>2. ASSUME NEW k \in Creds, Control!Heartbeat(k) PROVE Transport!Heartbeat(k)
    BY <1>2 DEF Control!Heartbeat, Transport!Heartbeat
  <1>3. ASSUME NEW k \in Creds, Control!PutExecutor(k) PROVE Transport!PutExecutor(k)
    BY <1>3 DEF Control!PutExecutor, Transport!PutExecutor
  <1>4. ASSUME NEW k, NEW p \in Polls, Control!OfferNext(p, k) PROVE Transport!OfferNext(p, k)
    BY <1>4 DEF Control!OfferNext, Transport!OfferNext, Control!IsNext, Transport!IsNext,
         Control!TakeFromQueue, Transport!TakeFromQueue
  <1>5. ASSUME NEW k, NEW p \in Polls, Control!AwaitWork(p, k) PROVE Transport!AwaitWork(p, k)
    BY <1>5 DEF Control!AwaitWork, Transport!AwaitWork
  <1>6. ASSUME NEW k \in Creds, NEW p \in Polls, Control!OpenPoll(p, k)
        PROVE  Transport!OpenPoll(p, k)
    BY <1>4, <1>5, <1>6 DEF Control!OpenPoll, Transport!OpenPoll
  <1>7. ASSUME NEW p \in Polls, Control!PollStep(p) PROVE Transport!PollStep(p)
    BY <1>4, <1>5, <1>7 DEF Control!PollStep, Transport!PollStep, Control!WokenPollEnds,
         Transport!WokenPollEnds, Control!WokenPollPasses, Transport!WokenPollPasses,
         Control!PollTimesOut, Transport!PollTimesOut, Control!LeavePoll, Transport!LeavePoll,
         Control!MayDeliver, Transport!MayDeliver
  <1>8. ASSUME NEW k \in Creds, NEW c \in Cmds, Control!SubmitResult(k, c)
        PROVE  Transport!SubmitResult(k, c)
    BY <1>8 DEF Control!SubmitResult, Transport!SubmitResult, Control!AwaitsResult,
         Transport!AwaitsResult
  <1>9. ASSUME NEW c \in Cmds, Control!CallStep(c) PROVE Transport!CallStep(c)
    <2>1. Control!Call(c) => Transport!Call(c)
      BY DEF Control!Call, Transport!Call, Control!HasCapacity, Transport!HasCapacity,
           Control!Retained, Transport!Retained, Cardinality, Control!Cardinality,
           Transport!Cardinality
    <2>2. Control!Resume(c) => Transport!Resume(c)
      BY DEF Control!Resume, Transport!Resume
    <2>3. Control!Interrupt(c) => Transport!Interrupt(c)
      BY DEF Control!Interrupt, Transport!Interrupt
    <2>. QED  BY <1>9, <2>1, <2>2, <2>3 DEF Control!CallStep, Transport!CallStep
  <1>10. /\ Control!Start => Transport!Start
         /\ Control!PresenceLapses => Transport!PresenceLapses
    BY DEF Control!Start, Transport!Start, Control!PresenceLapses, Transport!PresenceLapses
  <1>11. Control!ResetQueued => Transport!ResetQueued
    BY DEF Control!ResetQueued, Transport!ResetQueued
  <1>. QED  BY <1>1, <1>2, <1>3, <1>6, <1>7, <1>8, <1>9, <1>10, <1>11

\* The executor's steps are steps of the connection, or start a new process.
LEMMA ConnectionSteps ==
    /\ Executor!SendHello => Connection!SendHello
    /\ Executor!HelloAccepted(FALSE) => Connection!HelloAccepted(FALSE)
    /\ Executor!PolicyDecides("continue") => Connection!PolicyDecides("continue")
    /\ Executor!ConnectionFails("reconnect") => Connection!ConnectionFails("reconnect")
    /\ Executor!HeartbeatEndsLoop => Connection!HeartbeatEndsLoop
    /\ Executor!RetryAfterDelay => Connection!RetryAfterDelay
    /\ Executor!Stop => Connection!Stop
    /\ Executor!SendPoll => Connection!SendPoll
    /\ Executor!PollEmpty => Connection!PollEmpty
    /\ \A c \in Cmds : Executor!PollDelivers(c) => Connection!PollDelivers(c)
    /\ \A c \in Cmds : Executor!Unblock(c) => Connection!Unblock(c)
    /\ \A c \in Cmds : Executor!FinishExecution(c) => Connection!FinishExecution(c)
    /\ \A c \in Cmds : Executor!SubmitEnds(c) => Connection!SubmitEnds(c)
  <1>. USE DEF Executor!taskVars, Connection!taskVars, Executor!LoopHead, Connection!LoopHead,
         Executor!Live, Connection!Live
  <1>1. /\ Executor!SendHello => Connection!SendHello
        /\ Executor!HelloAccepted(FALSE) => Connection!HelloAccepted(FALSE)
        /\ Executor!PolicyDecides("continue") => Connection!PolicyDecides("continue")
        /\ Executor!ConnectionFails("reconnect") => Connection!ConnectionFails("reconnect")
    BY DEF Executor!SendHello, Connection!SendHello, Executor!BarrierOpen,
         Connection!BarrierOpen, Executor!HelloAccepted, Connection!HelloAccepted,
         Executor!PolicyDecides, Connection!PolicyDecides, Executor!ConnectionFails,
         Connection!ConnectionFails
  <1>2. /\ Executor!HeartbeatEndsLoop => Connection!HeartbeatEndsLoop
        /\ Executor!RetryAfterDelay => Connection!RetryAfterDelay
        /\ Executor!PollEmpty => Connection!PollEmpty
    BY DEF Executor!HeartbeatEndsLoop, Connection!HeartbeatEndsLoop, Executor!RetryAfterDelay,
         Connection!RetryAfterDelay, Executor!PollEmpty, Connection!PollEmpty
  <1>3. Executor!Stop => Connection!Stop
    BY DEF Executor!Stop, Connection!Stop
  <1>4. Executor!SendPoll => Connection!SendPoll
    BY DEF Executor!SendPoll, Connection!SendPoll, Executor!HasCapacity, Connection!HasCapacity,
         Cardinality, Executor!Cardinality, Connection!Cardinality
  <1>5. ASSUME NEW c \in Cmds, Executor!PollDelivers(c) PROVE Connection!PollDelivers(c)
    BY <1>5 DEF Executor!PollDelivers, Connection!PollDelivers, Executor!Predecessor,
         Connection!Predecessor, Executor!RegisteredMutations, Connection!RegisteredMutations
  <1>6. ASSUME NEW c \in Cmds
        PROVE  /\ Executor!Unblock(c) => Connection!Unblock(c)
               /\ Executor!FinishExecution(c) => Connection!FinishExecution(c)
               /\ Executor!SubmitEnds(c) => Connection!SubmitEnds(c)
    BY DEF Executor!Unblock, Connection!Unblock, Executor!FinishExecution,
         Connection!FinishExecution, Executor!SubmitEnds, Connection!SubmitEnds,
         Executor!Complete, Connection!Complete
  <1>. QED  BY <1>1, <1>2, <1>3, <1>4, <1>5, <1>6

LEMMA TransportKeeps ==
    ASSUME Transport!IInv, Transport!Next \/ UNCHANGED control PROVE Transport!IInv'
  <1>1. [Transport!Next]_Transport!vars
    BY DEF control, Transport!vars, Transport!channelVars, Transport!callVars,
         Transport!handovers, Transport!history
  <1>. QED  BY <1>1, Transport!InvStep, ControlAssumption DEF IsFiniteSet, Transport!IsFiniteSet

LEMMA ConnectionKeeps ==
    ASSUME Connection!IInv, Connection!Next \/ UNCHANGED executor PROVE Connection!IInv'
  <1>1. [Connection!Next]_Connection!vars
    BY DEF executor, Connection!vars
  <1>. QED  BY <1>1, Connection!NextPreserves, ControlAssumption, ExecutorAssumption
            DEF IsFiniteSet, Connection!IsFiniteSet

LEMMA SidesStart == Init => Transport!IInv /\ Connection!IInv
  <1>1. Control!Init => Transport!Init
    BY DEF Control!Init, Transport!Init, Control!IdlePoll, Transport!IdlePoll
  <1>2. Executor!Init => Connection!Init
    BY DEF Executor!Init, Connection!Init
  <1>3. Transport!Init => Transport!IInv
    BY Transport!InvInit, ControlAssumption DEF IsFiniteSet, Transport!IsFiniteSet
  <1>4. Connection!Init => Connection!IInv
    BY Connection!InitEstablishes, ControlAssumption, ExecutorAssumption
       DEF IsFiniteSet, Connection!IsFiniteSet
  <1>. QED  BY <1>1, <1>2, <1>3, <1>4 DEF Init

-----------------------------------------------------------------------------
(* What holds between the two sides                                          *)

NetworkTyped ==
    /\ hellos \subseteq [n : 1..MaxHellos, snapshot : SUBSET Mutating] /\ IsFiniteSet(hellos)
    /\ attempt \in 0..MaxHellos /\ helloAnswer \in BOOLEAN /\ inventory \subseteq Mutating
    /\ processed \in Nat /\ processed + Cardinality(hellos) <= attempt
    /\ pollRequest \in {"none", "mine", "orphan"} /\ myPoll \in Polls \cup {NoPoll}
    /\ pollAnswer \in Cmds \cup {NoCmd, "empty"} /\ results \subseteq Cmds
       /\ acks \subseteq Cmds

\* The executor has one poll: a request on its way, in Control, or answered.
OnePoll ==
    /\ pollRequest = "mine" => polling = "open" /\ myPoll = NoPoll
    /\ myPoll # NoPoll => polling = "open" /\ pollRequest = "none"
    /\ pollAnswer # NoCmd => myPoll # NoPoll /\ poll[myPoll].status = "idle"

\* What the executor has was offered; how often a command has run can be told from its
\* task; and what Control takes for done was done.
Delivered ==
    /\ \A c \in Cmds : task[c] # "none" \/ pollAnswer = c => offers[c] # 0
    /\ \A c \in Cmds : pollAnswer = c => task[c] = "none"
    /\ \A c \in Cmds : task[c] \in {"none", "blocked", "executing"} => executions[c] = 0
    /\ \A c \in Cmds : task[c] = "submitting" => executions[c] = 1
    /\ \A c \in Cmds : executions[c] <= 1
    /\ \A c \in Cmds : c \in results \/ future[c] = "result" \/ caller[c] = "returned" =>
           executions[c] = 1

\* Commands are offered, and received, in the order in which they were called.
InCallOrder ==
    /\ \A c \in Cmds : stamp[c] = 0 <=> caller[c] = "idle"
    /\ \A c, d \in Cmds : stamp[c] = stamp[d] /\ stamp[c] # 0 => c = d
    /\ \A c, d \in Cmds : offers[d] # 0 /\ pending[c] = "queued" => stamp[d] < stamp[c]
    /\ \A c, d \in Cmds : pollAnswer = c /\ task[d] # "none" => stamp[d] < stamp[c]
    /\ \A c, d \in Cmds : task[c] # "none" /\ task[d] # "none" /\ arrival[c] < arrival[d] =>
           stamp[c] < stamp[d]

StoppedIsIdle == phase = "stopped" => \A c \in Cmds : task[c] \in {"none", "done"}

\* While a hello is on its way, nothing happens that its inventory would miss.
HelloCovers ==
    ~LateHello /\ hellos # {} =>
        /\ ~helloAnswer /\ phase \in {"hello", "backoff", "barrier", "parked", "stopped"}
        /\ \A c \in Mutating : task[c] \notin {"blocked", "executing"}
        /\ \A m \in hellos : Snapshot \subseteq m.snapshot
        /\ \A m, n \in hellos : m = n

DeliveryIInv ==
    /\ Transport!IInv /\ Connection!IInv
    /\ NetworkTyped /\ OnePoll /\ Delivered /\ InCallOrder /\ StoppedIsIdle /\ HelloCovers

\* What the transport's invariant says of a command.
LEMMA TransportFacts ==
    ASSUME Transport!IInv
    PROVE  /\ offers \in [Cmds -> Nat] /\ stamp \in [Cmds -> Nat] /\ calls \in Nat
           /\ pending \in [Cmds -> {"absent", "queued", "offered"}]
           /\ future \in [Cmds -> {"none", "open", "result", "error", "cancelled"}]
           /\ caller \in [Cmds -> {"idle", "waiting", "returned", "raised", "interrupted"}]
           /\ poll \in [Polls -> [status : {"idle", "waiting", "woken"},
                                  cred : Creds \cup {NoCred}]]
           /\ \A c \in Cmds : pending[c] = "queued" => offers[c] = 0
           /\ \A c \in Cmds : c \in queue <=> pending[c] = "queued"
           /\ \A c \in Cmds : caller[c] = "idle" => future[c] = "none" /\ offers[c] = 0
           /\ \A c \in Cmds : future[c] = "none" => caller[c] = "idle"
           /\ \A c \in Cmds : delivery[c] = "queued" => offers[c] = 0
           /\ \A c \in Cmds : stamp[c] <= calls
           /\ \A c, d \in Cmds : pending[c] = "queued" /\ pending[d] = "queued"
                                    /\ stamp[c] = stamp[d] => c = d
  <1>1. /\ Transport!TypeOK /\ Transport!QueueMirrorsPending /\ Transport!FreshCalls
        /\ Transport!OfferedAtMostOnce /\ Transport!DefiniteReportIsTrue
        /\ Transport!DistinctStamps
    BY DEF Transport!IInv
  <1>2. queue = {c \in Cmds : pending[c] = "queued"}
    BY <1>1 DEF Transport!QueueMirrorsPending, Transport!Queued
  <1>. QED  BY <1>1, <1>2 DEF Transport!TypeOK, Transport!FreshCalls,
              Transport!OfferedAtMostOnce, Transport!DefiniteReportIsTrue,
              Transport!DistinctStamps

\* What the connection's invariant says of a command.
LEMMA ConnectionFacts ==
    ASSUME Connection!IInv
    PROVE  /\ phase \in {"barrier", "hello", "draining", "policy", "connected", "backoff",
                         "parked", "stopped"}
           /\ polling \in {"off", "capacity", "open"}
           /\ task \in [Cmds -> {"none", "blocked", "executing", "submitting", "done"}]
           /\ mutations \subseteq Mutating
           /\ received \in Nat /\ arrival \in [Cmds -> Nat] /\ executions \in [Cmds -> Nat]
           /\ polling # "off" => phase = "connected"
           /\ phase # "stopped" =>
                \A c \in Mutating : task[c] \in {"blocked", "executing"} => c \in mutations
           /\ \A c \in Cmds : task[c] # "none" => arrival[c] <= received
  <1>1. /\ Connection!TypeOK /\ Connection!PollHasRoom /\ Connection!MutationsAreCounted
        /\ Connection!ArrivalsAreDistinct
    BY DEF Connection!IInv, Connection!Inv
  <1>. QED  BY <1>1 DEF Connection!TypeOK, Connection!PollHasRoom, Connection!Phases,
              Connection!MutationsAreCounted, Connection!ArrivalsAreDistinct

-----------------------------------------------------------------------------
(* The steps of either side, as far as the other side can tell              *)

\* Control neither offers a command nor takes a result nor a new call.
ControlIsQuiet ==
    /\ offers' = offers /\ stamp' = stamp
    /\ \A c \in Cmds : caller'[c] = "idle" <=> caller[c] = "idle"
    /\ \A c \in Cmds : pending'[c] = "queued" => pending[c] = "queued"
    /\ \A c \in Cmds : future'[c] = "result" => future[c] = "result"
    /\ \A c \in Cmds : caller'[c] = "returned" => caller[c] = "returned" \/ future[c] = "result"

\* A poll that has ended stays so.
EndedPollsRest == \A p \in Polls : poll[p].status = "idle" => poll'[p].status = "idle"

LEMMA QuietWhenUnchanged ==
    ASSUME UNCHANGED control PROVE ControlIsQuiet /\ EndedPollsRest
  BY DEF control, ControlIsQuiet, EndedPollsRest

LEMMA PollsRestWhenWoken ==
    ASSUME Transport!IInv, poll' = Control!WokenPolls PROVE EndedPollsRest
  BY TransportFacts DEF Control!WokenPolls, EndedPollsRest

LEMMA SettleIsQuiet ==
    ASSUME Transport!IInv, NEW gone, NEW state, Control!Settle(gone, state),
           UNCHANGED <<offers, stamp, caller>>
    PROVE  ControlIsQuiet
  BY TransportFacts DEF Control!Settle, ControlIsQuiet

LEMMA RequestsAreQuiet ==
    ASSUME Transport!IInv, NEW k \in Creds, Control!Hello(k, "match")
           \/ Control!Heartbeat(k) \/ Control!PutExecutor(k)
    PROVE  ControlIsQuiet /\ EndedPollsRest
  <1>1. CASE Control!Hello(k, "match")
    <2>1. ControlIsQuiet
      BY <1>1 DEF Control!Hello, Control!DropIncompatible, Control!handovers, Control!history,
         ControlIsQuiet
    <2>2. EndedPollsRest
      BY <1>1, PollsRestWhenWoken DEF Control!Hello, EndedPollsRest
    <2>. QED  BY <2>1, <2>2
  <1>2. CASE Control!Heartbeat(k) \/ Control!PutExecutor(k)
    BY <1>2 DEF Control!Heartbeat, Control!PutExecutor, Control!channelVars, Control!callVars,
         Control!handovers, Control!history, ControlIsQuiet, EndedPollsRest
  <1>. QED  BY <1>1, <1>2

LEMMA OwnWorkIsQuiet ==
    ASSUME Transport!IInv, Control!Start \/ Control!PresenceLapses \/ Control!ResetQueued
    PROVE  ControlIsQuiet /\ EndedPollsRest
  <1>1. CASE Control!Start \/ Control!PresenceLapses
    BY <1>1 DEF Control!Start, Control!PresenceLapses, Control!channelVars, Control!callVars,
         Control!handovers, Control!history, ControlIsQuiet, EndedPollsRest
  <1>2. CASE Control!ResetQueued
    BY <1>2, SettleIsQuiet DEF Control!ResetQueued, Control!handovers, Control!history,
       EndedPollsRest
  <1>. QED  BY <1>1, <1>2

LEMMA CallersAreQuiet ==
    ASSUME Transport!IInv, NEW c \in Cmds, Control!Resume(c) \/ Control!Interrupt(c)
    PROVE  ControlIsQuiet /\ EndedPollsRest
  <1>1. CASE Control!Resume(c)
    BY <1>1, TransportFacts DEF Control!Resume, Control!channelVars, Control!handovers,
       Control!history,
         ControlIsQuiet, EndedPollsRest
  <1>2. CASE Control!Interrupt(c)
    BY <1>2, TransportFacts DEF Control!Interrupt, Control!handovers, Control!history,
       ControlIsQuiet,
       EndedPollsRest
  <1>. QED  BY <1>1, <1>2

\* What a poll does when it offers command c.
Offers(p, c) ==
    /\ pending[c] = "queued" /\ offers' = [offers EXCEPT ![c] = @ + 1]
    /\ pending' = [pending EXCEPT ![c] = "offered"]
    /\ \A d \in Cmds : pending[d] = "queued" => stamp[c] <= stamp[d]
    /\ poll' = [poll EXCEPT ![p] = Control!IdlePoll]
    /\ UNCHANGED <<stamp, caller, future>>

LEMMA OfferIsOfNext ==
    ASSUME Transport!IInv, NEW p \in Polls, NEW k, Control!OfferNext(p, k),
           UNCHANGED Control!callVars
    PROVE  \E c \in Cmds : Offers(p, c)
  <1>1. PICK c \in queue : /\ Control!IsNext(c) /\ Control!TakeFromQueue(c)
                           /\ offers' = [offers EXCEPT ![c] = @ + 1]
                           /\ poll' = [poll EXCEPT ![p] = Control!IdlePoll]
                           /\ UNCHANGED stamp
    BY DEF Control!OfferNext
  <1>2. queue \subseteq Cmds
    BY DEF Transport!IInv, Transport!TypeOK
  <1>3. \A d \in Cmds : pending[d] = "queued" => stamp[c] <= stamp[d]
    BY <1>1, TransportFacts DEF Control!IsNext
  <1>. QED  BY <1>1, <1>2, <1>3 DEF Offers, Control!IsNext, Control!TakeFromQueue,
               Control!callVars

LEMMA WaitingIsQuiet ==
    ASSUME NEW p \in Polls, NEW k, Control!AwaitWork(p, k), UNCHANGED Control!callVars
    PROVE  ControlIsQuiet
  BY DEF Control!AwaitWork, Control!callVars, Control!handovers, Control!history, ControlIsQuiet

LEMMA PollStepsAre ==
    ASSUME Transport!IInv, NEW p \in Polls, Control!PollStep(p)
    PROVE  \/ ControlIsQuiet /\ EndedPollsRest
           \/ \E c \in Cmds : Offers(p, c)
  <1>1. CASE Control!WokenPollEnds(p) \/ Control!PollTimesOut(p)
    BY <1>1, TransportFacts DEF Control!WokenPollEnds, Control!PollTimesOut, Control!LeavePoll,
         Control!channelVars, Control!callVars, Control!handovers, Control!history,
           Control!IdlePoll,
         ControlIsQuiet, EndedPollsRest
  <1>2. CASE Control!WokenPollPasses(p)
    <2>1. CASE Control!AwaitWork(p, poll[p].cred)
      <3>1. ControlIsQuiet
        BY <1>2, <2>1, WaitingIsQuiet DEF Control!WokenPollPasses
      <3>2. EndedPollsRest
        BY <1>2, <2>1, TransportFacts DEF Control!WokenPollPasses, Control!AwaitWork,
             EndedPollsRest
      <3>. QED  BY <3>1, <3>2
    <2>2. CASE Control!OfferNext(p, poll[p].cred)
      BY <1>2, <2>2, OfferIsOfNext DEF Control!WokenPollPasses
    <2>. QED  BY <1>2, <2>1, <2>2 DEF Control!WokenPollPasses
  <1>. QED  BY <1>1, <1>2 DEF Control!PollStep

-----------------------------------------------------------------------------
(* What the executor has and what Control believes: Delivered, InCallOrder   *)

LEMMA CrossFacts ==
    ASSUME DeliveryIInv
    PROVE  /\ Transport!IInv /\ Connection!IInv
           /\ NetworkTyped /\ OnePoll /\ Delivered /\ InCallOrder /\ StoppedIsIdle
           /\ NoCmd \notin Cmds /\ "empty" \notin Cmds /\ NoCmd # "empty"
  BY ExecutorAssumption, NetworkAssumption DEF DeliveryIInv

\* Steps that change neither what is offered nor what is done.
LEMMA QuietKeepsOrder ==
    ASSUME DeliveryIInv, ControlIsQuiet, UNCHANGED <<task, arrival, executions>>,
           pollAnswer' \in {pollAnswer, NoCmd, "empty"},
           \A c \in Cmds : c \in results' => executions[c] = 1
    PROVE  Delivered' /\ InCallOrder'
  <1>. USE CrossFacts
  <1>1. \A c \in Cmds : pollAnswer' = c => pollAnswer = c
    OBVIOUS
  <1>2. Delivered'
    BY <1>1 DEF Delivered, ControlIsQuiet
  <1>3. InCallOrder'
    BY <1>1 DEF InCallOrder, ControlIsQuiet
  <1>. QED  BY <1>2, <1>3

\* A new call gets the latest stamp, and nothing it could have been offered to.
LEMMA CallKeepsOrder ==
    ASSUME DeliveryIInv, NEW c \in Cmds, Control!Call(c), UNCHANGED <<executor, network>>
    PROVE  /\ Delivered' /\ InCallOrder' /\ EndedPollsRest
  <1>. USE CrossFacts, TransportFacts
  <1>1. /\ UNCHANGED <<offers, task, arrival, executions, results, pollAnswer>>
        /\ poll' = Control!WokenPolls
        /\ caller[c] = "idle" /\ caller' = [caller EXCEPT ![c] = "waiting"]
        /\ future' = [future EXCEPT ![c] = "open"]
        /\ pending' = [pending EXCEPT ![c] = "queued"]
        /\ stamp' = [stamp EXCEPT ![c] = calls + 1]
    BY DEF Control!Call, Control!handovers, Control!history, executor, network, pollLink,
       resultLink
  <1>2. offers[c] = 0 /\ task[c] = "none" /\ pollAnswer # c /\ stamp[c] = 0
    BY <1>1 DEF Delivered, InCallOrder
  <1>3. Delivered'
    BY <1>1, <1>2 DEF Delivered
  <1>4. /\ \A d \in Cmds : stamp'[d] = 0 <=> caller'[d] = "idle"
        /\ \A d, e \in Cmds : stamp'[d] = stamp'[e] /\ stamp'[d] # 0 => d = e
    BY <1>1, <1>2 DEF InCallOrder
  <1>5. \A d, e \in Cmds : offers'[e] # 0 /\ pending'[d] = "queued" => stamp'[e] < stamp'[d]
    BY <1>1, <1>2 DEF InCallOrder
  <1>6. \A d, e \in Cmds : pollAnswer' = d /\ task'[e] # "none" => stamp'[e] < stamp'[d]
    BY <1>1, <1>2 DEF InCallOrder
  <1>7. \A d, e \in Cmds : task'[d] # "none" /\ task'[e] # "none"
        /\ arrival'[d] < arrival'[e] =>
           stamp'[d] < stamp'[e]
    BY <1>1, <1>2 DEF InCallOrder
  <1>8. InCallOrder'
    BY <1>4, <1>5, <1>6, <1>7 DEF InCallOrder
  <1>. QED  BY <1>1, <1>3, <1>8, PollsRestWhenWoken

\* The offered command is the oldest queued one, and newer than all that were offered.
LEMMA OfferKeepsOrder ==
    ASSUME DeliveryIInv, NEW p \in Polls, NEW c \in Cmds, Offers(p, c),
           UNCHANGED <<executor, results>>, pollAnswer' = pollAnswer \/ pollAnswer' = c
    PROVE  Delivered' /\ InCallOrder'
  <1>. USE CrossFacts, TransportFacts
  <1>1. /\ UNCHANGED <<task, arrival, executions, results, stamp, caller, future>>
        /\ pending[c] = "queued" /\ offers[c] = 0
        /\ pending' = [pending EXCEPT ![c] = "offered"]
        /\ offers' = [offers EXCEPT ![c] = @ + 1]
    BY DEF Offers, executor
  <1>2. task[c] = "none" /\ pollAnswer # c
    BY <1>1 DEF Delivered
  <1>3. Delivered'
    BY <1>1, <1>2 DEF Delivered
  <1>4. \A d \in Cmds : pending[d] = "queued" /\ d # c => stamp[c] < stamp[d]
    <2>1. \A d \in Cmds : pending[d] = "queued" => stamp[c] <= stamp[d]
      BY DEF Offers
    <2>2. \A d \in Cmds : pending[d] = "queued" /\ d # c => stamp[d] # stamp[c]
      BY <1>1
    <2>. QED  BY <2>1, <2>2
  <1>5. \A d, e \in Cmds : offers'[e] # 0 /\ pending'[d] = "queued" => stamp'[e] < stamp'[d]
    BY <1>1, <1>4 DEF InCallOrder
  <1>6. \A d, e \in Cmds : pollAnswer' = d /\ task'[e] # "none" => stamp'[e] < stamp'[d]
    BY <1>1 DEF InCallOrder, Delivered
  <1>7. InCallOrder'
    BY <1>1, <1>5, <1>6 DEF InCallOrder
  <1>. QED  BY <1>3, <1>7

\* A result is taken for a command that was executed.
LEMMA ResultKeepsOrder ==
    ASSUME DeliveryIInv, NEW k \in Creds, NEW c \in results, Control!SubmitResult(k, c),
           results' \subseteq results, UNCHANGED <<executor, pollLink>>
    PROVE  Delivered' /\ InCallOrder' /\ EndedPollsRest
  <1>. USE CrossFacts, TransportFacts
  <1>1. c \in Cmds /\ executions[c] = 1
    BY DEF NetworkTyped, Delivered
  <1>2. /\ UNCHANGED <<offers, task, arrival, executions, pollAnswer, stamp, caller, poll>>
        /\ \A d \in Cmds : future'[d] = "result" => future[d] = "result" \/ d = c
        /\ \A d \in Cmds : pending'[d] = "queued" => pending[d] = "queued"
    BY <1>1 DEF Control!SubmitResult, executor, pollLink
  <1>3. Delivered'
    BY <1>1, <1>2 DEF Delivered
  <1>4. InCallOrder'
    BY <1>1, <1>2 DEF InCallOrder
  <1>. QED  BY <1>2, <1>3, <1>4 DEF EndedPollsRest

\* What a step of the executor does to one command.
TaskMoves(c) ==
    \/ task'[c] = task[c] /\ executions'[c] = executions[c]
    \/ task[c] = "blocked" /\ task'[c] = "executing" /\ executions'[c] = executions[c]
    \/ task[c] = "executing" /\ task'[c] = "submitting" /\ executions'[c] = executions[c] + 1
    \/ task[c] # "none" /\ task'[c] = "done" /\ executions'[c] = executions[c]

\* Tasks that move on keep the order in which their commands were received.
LEMMA TasksKeepOrder ==
    ASSUME DeliveryIInv, UNCHANGED <<control, arrival, results>>,
           pollAnswer' \in {pollAnswer, NoCmd}, \A c \in Cmds : TaskMoves(c)
    PROVE  Delivered' /\ InCallOrder'
  <1>. USE CrossFacts, TransportFacts, ConnectionFacts
  <1>1. /\ UNCHANGED <<offers, stamp, caller, future, pending>>
        /\ \A c \in Cmds : pollAnswer' = c => pollAnswer = c
        /\ \A c \in Cmds : task'[c] = "none" <=> task[c] = "none"
    BY DEF control, TaskMoves
  <1>2. \A c \in Cmds :
           /\ task'[c] \in {"none", "blocked", "executing"} => executions'[c] = 0
           /\ task'[c] = "submitting" => executions'[c] = 1
           /\ executions'[c] <= 1 /\ (executions[c] = 1 => executions'[c] = 1)
    BY DEF TaskMoves, Delivered
  <1>3. Delivered'
    BY <1>1, <1>2 DEF Delivered
  <1>4. InCallOrder'
    BY <1>1 DEF InCallOrder
  <1>. QED  BY <1>3, <1>4

LEMMA TaskStepsMove ==
    ASSUME DeliveryIInv, NEW c \in Cmds,
           Executor!Unblock(c) \/ Executor!FinishExecution(c) \/ Executor!SubmitEnds(c)
    PROVE  /\ \A d \in Cmds : TaskMoves(d)
           /\ UNCHANGED <<arrival, phase, polling>>
  <1>. USE CrossFacts, ConnectionFacts
  <1>1. CASE Executor!Unblock(c)
    BY <1>1 DEF Executor!Unblock, TaskMoves
  <1>2. CASE Executor!FinishExecution(c)
    BY <1>2 DEF Executor!FinishExecution, TaskMoves
  <1>3. CASE Executor!SubmitEnds(c)
    BY <1>3 DEF Executor!SubmitEnds, Executor!Complete, TaskMoves
  <1>. QED  BY <1>1, <1>2, <1>3

LEMMA StopMoves ==
    ASSUME DeliveryIInv, Executor!Stop
    PROVE  /\ \A c \in Cmds : TaskMoves(c)
           /\ \A c \in Cmds : task'[c] \in {"none", "done"}
           /\ UNCHANGED <<arrival, executions>> /\ phase' = "stopped" /\ polling' = "off"
  <1>. USE CrossFacts, ConnectionFacts
  <1>1. /\ UNCHANGED <<arrival, executions>> /\ phase' = "stopped" /\ polling' = "off"
        /\ task' = [c \in Cmds |-> IF c \in Executor!Live THEN "done" ELSE task[c]]
    BY DEF Executor!Stop
  <1>2. \A c \in Cmds : TaskMoves(c) /\ task'[c] \in {"none", "done"}
    BY <1>1 DEF Executor!Live, TaskMoves
  <1>. QED  BY <1>1, <1>2

\* A received command is the newest the executor has.
LEMMA ReceiveKeepsOrder ==
    ASSUME DeliveryIInv, NEW c \in Cmds, pollAnswer = c, pollAnswer' = NoCmd,
           Executor!PollDelivers(c), UNCHANGED <<control, results>>
    PROVE  Delivered' /\ InCallOrder'
  <1>. USE CrossFacts, TransportFacts, ConnectionFacts
  <1>1. /\ UNCHANGED <<offers, stamp, caller, future, pending, executions, results>>
        /\ arrival' = [arrival EXCEPT ![c] = received + 1]
        /\ task' = [task EXCEPT ![c] = IF Executor!Predecessor(c) = NoCmd THEN "executing"
                                                                          ELSE "blocked"]
    BY DEF control, Executor!PollDelivers
  <1>2. task[c] = "none" /\ offers[c] # 0 /\ task'[c] \in {"blocked", "executing"}
    BY <1>1 DEF Delivered
  <1>3. \A d \in Cmds : d # c => task'[d] = task[d] /\ arrival'[d] = arrival[d]
    BY <1>1
  <1>4. Delivered'
    BY <1>1, <1>2, <1>3 DEF Delivered
  <1>5. \A d, e \in Cmds : task'[d] # "none" /\ task'[e] # "none"
        /\ arrival'[d] < arrival'[e] =>
           stamp'[d] < stamp'[e]
    <2>. SUFFICES ASSUME NEW d \in Cmds, NEW e \in Cmds, task'[d] # "none", task'[e] # "none",
                         arrival'[d] < arrival'[e]
                  PROVE  stamp[d] < stamp[e]
      BY <1>1
    <2>1. arrival'[c] = received + 1
      BY <1>1
    <2>2. d # c
      BY <1>3, <2>1
    <2>3. CASE e = c
      BY <1>3, <2>2, <2>3 DEF InCallOrder
    <2>4. CASE e # c
      BY <1>3, <2>2, <2>4 DEF InCallOrder
    <2>. QED  BY <2>3, <2>4
  <1>6. InCallOrder'
    BY <1>1, <1>5 DEF InCallOrder
  <1>. QED  BY <1>4, <1>6

-----------------------------------------------------------------------------
(* What is on its way: NetworkTyped, OnePoll, StoppedIsIdle, HelloCovers      *)

Links == NetworkTyped /\ OnePoll /\ StoppedIsIdle /\ HelloCovers

WhileHelloTravels == {"hello", "backoff", "barrier", "parked", "stopped"}

LEMMA HelloStaysCovered ==
    ASSUME DeliveryIInv, UNCHANGED <<hellos, helloAnswer>>,
           phase \in WhileHelloTravels => phase' \in WhileHelloTravels,
           \A c \in Mutating :
             /\ task'[c] \in {"blocked", "executing"} => task[c] \in {"blocked", "executing"}
             /\ executions'[c] = executions[c] \/ task[c] = "executing"
    PROVE  HelloCovers'
  <1>. SUFFICES ASSUME ~LateHello, hellos # {}
                PROVE  /\ ~helloAnswer /\ phase' \in WhileHelloTravels
                       /\ \A c \in Mutating : task'[c] \notin {"blocked", "executing"}
                       /\ \A m \in hellos : Snapshot' \subseteq m.snapshot
                       /\ \A m, n \in hellos : m = n
    BY DEF HelloCovers, WhileHelloTravels
  <1>1. /\ ~helloAnswer /\ phase \in WhileHelloTravels
        /\ \A c \in Mutating : task[c] \notin {"blocked", "executing"}
        /\ \A m \in hellos : Snapshot \subseteq m.snapshot
        /\ \A m, n \in hellos : m = n
    BY DEF DeliveryIInv, HelloCovers, WhileHelloTravels
  <1>2. Snapshot' = Snapshot
    BY <1>1 DEF Snapshot
  <1>. QED  BY <1>1, <1>2

\* Nothing on its way but results.
LEMMA LinksStay ==
    ASSUME DeliveryIInv, EndedPollsRest, UNCHANGED <<executor, helloLink, pollLink>>,
           results' \subseteq Cmds, acks' \subseteq Cmds
    PROVE  Links'
  <1>. USE CrossFacts
  <1>1. UNCHANGED <<phase, polling, task, executions, hellos, attempt, helloAnswer, inventory,
                    processed, pollRequest, myPoll, pollAnswer>>
    BY DEF executor, helloLink, pollLink
  <1>2. NetworkTyped'
    BY <1>1 DEF NetworkTyped
  <1>3. OnePoll'
    BY <1>1 DEF OnePoll, NetworkTyped, EndedPollsRest
  <1>4. StoppedIsIdle'
    BY <1>1 DEF StoppedIsIdle
  <1>5. HelloCovers'
    BY <1>1, HelloStaysCovered
  <1>. QED  BY <1>2, <1>3, <1>4, <1>5 DEF Links

\* The executor's command tasks at work.
LEMMA LinksWhileWorking ==
    ASSUME DeliveryIInv, NEW c \in Cmds,
           Executor!Unblock(c) \/ Executor!FinishExecution(c) \/ Executor!SubmitEnds(c),
           UNCHANGED <<control, helloLink, pollLink, results>>, acks' \subseteq Cmds
    PROVE  Links'
  <1>. USE CrossFacts, ConnectionFacts
  <1>1. UNCHANGED <<phase, polling, poll, hellos, attempt, helloAnswer, inventory, processed,
                    pollRequest, myPoll, pollAnswer>>
    BY TaskStepsMove DEF control, helloLink, pollLink
  <1>2. NetworkTyped' /\ OnePoll'
    BY <1>1 DEF NetworkTyped, OnePoll
  <1>3. task[c] \in {"blocked", "executing", "submitting"}
    BY DEF Executor!Unblock, Executor!FinishExecution, Executor!SubmitEnds
  <1>4. StoppedIsIdle'
    BY <1>1, <1>3 DEF StoppedIsIdle
  <1>5. \A d \in Cmds : TaskMoves(d)
    BY TaskStepsMove
  <1>6. HelloCovers'
    BY <1>1, <1>5, HelloStaysCovered, ExecutorAssumption DEF TaskMoves
  <1>. QED  BY <1>2, <1>4, <1>6 DEF Links

\* The client of the poll goes away, and the connection with it.
LEMMA LinksWhenPollDrops ==
    ASSUME DeliveryIInv, DropPollClient, UNCHANGED <<control, helloLink, resultLink>>,
           polling' = "off", executions' = executions,
           phase' \in {"backoff", "barrier", "parked", "stopped"},
           \/ task' = task /\ phase' # "stopped"
           \/ \A c \in Cmds : task'[c] \in {"none", "done"}
    PROVE  Links'
  <1>. USE CrossFacts
  <1>1. /\ UNCHANGED <<hellos, attempt, helloAnswer, inventory, processed, results, acks>>
        /\ pollRequest' \in {"none", "orphan"} /\ myPoll' = NoPoll /\ pollAnswer' = NoCmd
    BY DEF helloLink, resultLink, DropPollClient
  <1>2. NetworkTyped' /\ OnePoll'
    BY <1>1 DEF NetworkTyped, OnePoll
  <1>3. StoppedIsIdle'
    BY DEF StoppedIsIdle
  <1>4. HelloCovers'
    BY <1>1, HelloStaysCovered, ExecutorAssumption DEF WhileHelloTravels
  <1>. QED  BY <1>2, <1>3, <1>4 DEF Links

\* The executor's loop moves on without leaving a poll behind.
LEMMA LinksInLoop ==
    ASSUME DeliveryIInv, UNCHANGED <<control, network>>,
           Executor!RetryAfterDelay \/ Executor!PolicyDecides("continue")
    PROVE  Links'
  <1>. USE CrossFacts, ConnectionFacts
  <1>1. UNCHANGED <<poll, task, executions, hellos, attempt, helloAnswer, inventory, processed,
                    pollRequest, myPoll, pollAnswer, results, acks>>
    BY DEF control, network, helloLink, pollLink, resultLink, Executor!RetryAfterDelay,
         Executor!PolicyDecides, Executor!taskVars
  <1>2. polling = "off" /\ polling' \in {"off", "capacity"} /\ phase' # "stopped"
    BY DEF Executor!RetryAfterDelay, Executor!PolicyDecides, Executor!LoopHead
  <1>3. NetworkTyped' /\ OnePoll'
    BY <1>1, <1>2 DEF NetworkTyped, OnePoll
  <1>4. StoppedIsIdle'
    BY <1>2 DEF StoppedIsIdle
  <1>5. phase \in WhileHelloTravels => phase' \in WhileHelloTravels
    BY DEF Executor!RetryAfterDelay, Executor!PolicyDecides, Executor!LoopHead,
         WhileHelloTravels
  <1>6. HelloCovers'
    BY <1>1, <1>5, HelloStaysCovered
  <1>. QED  BY <1>3, <1>4, <1>6 DEF Links

\* The answer of a poll that ended is read.
LEMMA LinksWhenAnswered ==
    ASSUME DeliveryIInv, pollAnswer # NoCmd, pollAnswer' = NoCmd, myPoll' = NoPoll,
           UNCHANGED <<control, helloLink, pollRequest, resultLink, phase, executions>>
    PROVE  Links'
  <1>. USE CrossFacts, ConnectionFacts
  <1>1. /\ UNCHANGED <<hellos, attempt, helloAnswer, inventory, processed, results, acks>>
        /\ pollRequest = "none" /\ polling = "open" /\ phase = "connected"
    BY DEF helloLink, resultLink, OnePoll
  <1>2. NetworkTyped' /\ OnePoll'
    BY <1>1 DEF NetworkTyped, OnePoll
  <1>3. StoppedIsIdle'
    BY <1>1 DEF StoppedIsIdle
  <1>4. HelloCovers'
    BY <1>1 DEF HelloCovers, DeliveryIInv
  <1>. QED  BY <1>2, <1>3, <1>4 DEF Links

\* A hello is sent only after the barrier, and replaces the one that was given up on.
LEMMA LinksWhenHelloIsSent ==
    ASSUME DeliveryIInv, ExecutorSendsHello PROVE Links'
  <1>. USE CrossFacts, ConnectionFacts
  <1>. DEFINE m == [n |-> attempt + 1, snapshot |-> Snapshot]
              before == IF LateHello THEN hellos ELSE {}
  <1>1. /\ phase = "barrier" /\ phase' = "hello" /\ mutations = {}
        /\ UNCHANGED <<polling, task, executions, poll, inventory, processed, pollRequest,
                       myPoll, pollAnswer, results, acks>>
        /\ attempt < MaxHellos /\ attempt' = attempt + 1 /\ helloAnswer' = FALSE
        /\ hellos' = before \cup {m}
    BY DEF ExecutorSendsHello, Executor!SendHello, Executor!BarrierOpen, Executor!taskVars,
         control, pollLink, resultLink
  <1>2. /\ before \subseteq hellos /\ IsFiniteSet(before) /\ Cardinality(before) \in Nat
        /\ Cardinality(before) <= Cardinality(hellos) /\ Cardinality(hellos) \in Nat
    BY FS_EmptySet, FS_CardinalityType DEF NetworkTyped
  <1>3. IsFiniteSet(hellos') /\ Cardinality(hellos') <= Cardinality(hellos) + 1
        /\ Cardinality(hellos') \in Nat
    <2>. HIDE DEF m, before
    <2>1. /\ IsFiniteSet(before \cup {m})
          /\ Cardinality(before \cup {m}) =
               IF m \in before THEN Cardinality(before) ELSE Cardinality(before) + 1
      BY <1>2, FS_AddElement
    <2>. QED  BY <1>1, <1>2, <2>1
  <1>4. m \in [n : 1..MaxHellos, snapshot : SUBSET Mutating]
    BY <1>1, NetworkAssumption DEF Snapshot, NetworkTyped
  <1>5. NetworkTyped'
    <2>1. hellos' \subseteq [n : 1..MaxHellos, snapshot : SUBSET Mutating]
      BY <1>1, <1>4 DEF NetworkTyped
    <2>2. /\ attempt' \in 0..MaxHellos /\ processed' \in Nat
          /\ processed' + Cardinality(hellos') <= attempt'
      BY <1>1, <1>2, <1>3, NetworkAssumption DEF NetworkTyped
    <2>3. /\ helloAnswer' \in BOOLEAN /\ inventory' \subseteq Mutating
          /\ pollRequest' \in {"none", "mine", "orphan"} /\ myPoll' \in Polls \cup {NoPoll}
          /\ pollAnswer' \in Cmds \cup {NoCmd, "empty"}
          /\ results' \subseteq Cmds /\ acks' \subseteq Cmds
      BY <1>1 DEF NetworkTyped
    <2>. QED  BY <1>3, <2>1, <2>2, <2>3 DEF NetworkTyped
  <1>6. OnePoll' /\ StoppedIsIdle'
    BY <1>1 DEF OnePoll, StoppedIsIdle
  <1>7. \A c \in Mutating : task'[c] \notin {"blocked", "executing"}
    BY <1>1
  <1>8. HelloCovers'
    <2>1. Snapshot' = Snapshot
      BY <1>1 DEF Snapshot
    <2>2. ~LateHello => hellos' = {m}
      BY <1>1
    <2>. HIDE DEF before
    <2>3. ~LateHello => \A x \in hellos' : x.snapshot = Snapshot
      BY <2>2
    <2>. QED  BY <1>1, <1>7, <2>1, <2>2, <2>3 DEF HelloCovers
  <1>. QED  BY <1>5, <1>6, <1>8 DEF Links

\* A hello is taken from the network, or lost there.
LEMMA LinksWhenHelloIsTaken ==
    ASSUME DeliveryIInv, EndedPollsRest, UNCHANGED <<executor, attempt, pollLink, resultLink>>,
           NEW m \in hellos, hellos' = hellos \ {m},
           \/ UNCHANGED <<helloAnswer, inventory, processed>>
           \/ /\ inventory' = m.snapshot /\ processed' = processed + 1
              /\ helloAnswer' = (helloAnswer \/ m.n = attempt)
    PROVE  Links'
  <1>. USE CrossFacts
  <1>1. UNCHANGED <<phase, polling, task, executions, attempt, pollRequest, myPoll, pollAnswer,
                    results, acks>>
    BY DEF executor, pollLink, resultLink
  <1>2. /\ IsFiniteSet(hellos') /\ Cardinality(hellos') = Cardinality(hellos) - 1
        /\ Cardinality(hellos') \in Nat /\ Cardinality(hellos) \in Nat
    BY FS_RemoveElement, FS_CardinalityType DEF NetworkTyped
  <1>3. NetworkTyped'
    <2>1. m.snapshot \subseteq Mutating /\ helloAnswer' \in BOOLEAN
      BY DEF NetworkTyped
    <2>2. processed' \in Nat /\ processed' + Cardinality(hellos') <= attempt
      BY <1>2 DEF NetworkTyped
    <2>. QED  BY <1>1, <1>2, <2>1, <2>2 DEF NetworkTyped
  <1>4. OnePoll' /\ StoppedIsIdle'
    BY <1>1 DEF OnePoll, StoppedIsIdle, EndedPollsRest, NetworkTyped
  <1>5. HelloCovers'
    <2>1. ~LateHello => hellos' = {}
      BY DEF DeliveryIInv, HelloCovers
    <2>. QED  BY <2>1 DEF HelloCovers
  <1>. QED  BY <1>3, <1>4, <1>5 DEF Links

\* The answer to a hello, which is the last one, is read.
LEMMA LinksWhenWelcome ==
    ASSUME DeliveryIInv, ExecutorIsWelcome PROVE Links'
  <1>. USE CrossFacts
  <1>1. /\ UNCHANGED <<polling, poll, task, executions, hellos, attempt, inventory, processed,
                       pollRequest, myPoll, pollAnswer, results, acks>>
        /\ helloAnswer /\ helloAnswer' = FALSE /\ phase' = "policy"
    BY DEF ExecutorIsWelcome, Executor!HelloAccepted, Executor!taskVars, control, pollLink,
         resultLink
  <1>2. NetworkTyped' /\ OnePoll' /\ StoppedIsIdle'
    BY <1>1 DEF NetworkTyped, OnePoll, StoppedIsIdle
  <1>3. HelloCovers'
    BY <1>1 DEF HelloCovers, DeliveryIInv
  <1>. QED  BY <1>2, <1>3 DEF Links

\* A poll is sent, or refused by Control.
LEMMA LinksWhenPollIsSent ==
    ASSUME DeliveryIInv, ExecutorSendsPoll PROVE Links'
  <1>. USE CrossFacts, ConnectionFacts
  <1>1. /\ UNCHANGED <<phase, poll, task, executions, hellos, attempt, helloAnswer, inventory,
                       processed, myPoll, pollAnswer, results, acks>>
        /\ polling = "capacity" /\ polling' = "open" /\ pollRequest' = "mine"
    BY DEF ExecutorSendsPoll, Executor!SendPoll, Executor!taskVars, control, helloLink,
         resultLink
  <1>2. NetworkTyped' /\ OnePoll' /\ StoppedIsIdle'
    BY <1>1 DEF NetworkTyped, OnePoll, StoppedIsIdle
  <1>3. HelloCovers'
    BY <1>1, HelloStaysCovered
  <1>. QED  BY <1>2, <1>3 DEF Links

LEMMA LinksWhenPollIsRefused ==
    ASSUME DeliveryIInv, ControlRefusesPoll PROVE Links'
  <1>. USE CrossFacts
  <1>1. /\ UNCHANGED <<control, helloLink, resultLink, task, executions>>
        /\ polling' = "off" /\ phase' = "backoff"
        /\ pollRequest = "mine" /\ pollRequest' = "none" /\ UNCHANGED <<myPoll, pollAnswer>>
    BY DEF ControlRefusesPoll, Executor!ConnectionFails, Executor!taskVars
  <1>2. myPoll = NoPoll /\ pollAnswer = NoCmd
    BY <1>1 DEF OnePoll
  <1>3. DropPollClient
    BY <1>1, <1>2 DEF DropPollClient
  <1>. QED  BY <1>1, <1>3, LinksWhenPollDrops

\* What the executor's poll, in Control, answers: a command that was offered, or nothing.
LEMMA AnswerIs ==
    ASSUME DeliveryIInv, NEW p \in Polls, NEW mine \in BOOLEAN, Answer(p, mine)
    PROVE  /\ ~mine \/ poll'[p].status # "idle" => pollAnswer' = pollAnswer
           /\ offers' = offers => pollAnswer' \in {pollAnswer, "empty"}
           /\ \A c \in Cmds : Offers(p, c) => pollAnswer' = IF mine THEN c ELSE pollAnswer
  <1>. USE CrossFacts, TransportFacts
  <1>1. ASSUME NEW c \in Cmds, Offers(p, c), mine PROVE pollAnswer' = c
    <2>1. poll'[p].status = "idle"
      BY <1>1 DEF Offers, Control!IdlePoll
    <2>2. \A d \in Cmds : offers'[d] # offers[d] <=> d = c
      BY <1>1 DEF Offers
    <2>3. offers' # offers
      BY <2>2
    <2>4. (CHOOSE d \in Cmds : offers'[d] # offers[d]) = c
      BY <2>2
    <2>. QED  BY <1>1, <2>1, <2>3, <2>4 DEF Answer
  <1>. QED  BY <1>1 DEF Answer

\* A poll in Control goes on: the executor's own, or one that nobody reads.
LEMMA PollGoesOn ==
    ASSUME DeliveryIInv, NEW p \in Polls, ControlContinuesPoll(p)
    PROVE  Links' /\ Delivered' /\ InCallOrder'
  <1>. USE CrossFacts, TransportFacts
  <1>1. /\ Control!PollStep(p) /\ Answer(p, p = myPoll)
        /\ UNCHANGED <<executor, hellos, attempt, helloAnswer, inventory, processed, phase,
                       polling, task, arrival, executions, pollRequest, myPoll, results, acks>>
    BY DEF ControlContinuesPoll, executor, helloLink, resultLink
  <1>2. /\ p # myPoll \/ poll'[p].status # "idle" => pollAnswer' = pollAnswer
        /\ offers' = offers => pollAnswer' \in {pollAnswer, "empty"}
        /\ \A c \in Cmds : Offers(p, c) => pollAnswer' \in {pollAnswer, c}
    BY <1>1, AnswerIs
  <1>3. \A c \in Cmds : Offers(p, c) => EndedPollsRest
    BY DEF Offers, Control!IdlePoll, EndedPollsRest
  <1>4. EndedPollsRest
    BY <1>1, <1>3, PollStepsAre
  <1>5. OnePoll'
    BY <1>1, <1>2, <1>4, ControlAssumption DEF OnePoll, NetworkTyped, EndedPollsRest
  <1>6. Delivered' /\ InCallOrder'
    <2>1. CASE ControlIsQuiet
      BY <1>1, <1>2, <2>1, QuietKeepsOrder DEF ControlIsQuiet, Delivered
    <2>2. ASSUME NEW c \in Cmds, Offers(p, c) PROVE Delivered' /\ InCallOrder'
      BY <1>1, <1>2, <2>2, OfferKeepsOrder
    <2>. QED  BY <1>1, <2>1, <2>2, PollStepsAre
  <1>7. pollAnswer' \in Cmds \cup {NoCmd, "empty"}
    <2>1. CASE ControlIsQuiet
      BY <1>2, <2>1 DEF ControlIsQuiet, NetworkTyped
    <2>2. ASSUME NEW c \in Cmds, Offers(p, c) PROVE pollAnswer' \in Cmds \cup {NoCmd, "empty"}
      BY <1>2, <2>2 DEF NetworkTyped
    <2>. QED  BY <1>1, <2>1, <2>2, PollStepsAre
  <1>8. NetworkTyped' /\ StoppedIsIdle'
    BY <1>1, <1>7 DEF NetworkTyped, StoppedIsIdle
  <1>9. HelloCovers'
    BY <1>1, HelloStaysCovered
  <1>. QED  BY <1>5, <1>6, <1>8, <1>9 DEF Links

\* A poll request reaches Control: what it returns at once is its answer.
LEMMA PollOpens ==
    ASSUME DeliveryIInv, NEW p \in Polls, ControlOpensPoll(p)
    PROVE  Links' /\ Delivered' /\ InCallOrder'
  <1>. USE CrossFacts, TransportFacts
  <1>. DEFINE mine == pollRequest = "mine"
  <1>1. PICK k \in Creds : Control!OpenPoll(p, k)
    BY DEF ControlOpensPoll
  <1>2. /\ Answer(p, mine) /\ pollRequest # "none" /\ pollRequest' = "none"
        /\ myPoll' = IF mine THEN p ELSE myPoll
        /\ UNCHANGED <<executor, hellos, attempt, helloAnswer, inventory, processed, phase,
                       polling, task, arrival, executions, results, acks>>
    BY DEF ControlOpensPoll, executor, helloLink, resultLink
  <1>3. myPoll = NoPoll /\ pollAnswer = NoCmd /\ poll[p].status = "idle"
    BY <1>1, <1>2 DEF OnePoll, Control!OpenPoll
  <1>4. /\ ~mine \/ poll'[p].status # "idle" => pollAnswer' = NoCmd
        /\ offers' = offers => pollAnswer' \in {NoCmd, "empty"}
        /\ \A c \in Cmds : Offers(p, c) => pollAnswer' \in {NoCmd, c}
    BY <1>2, <1>3, AnswerIs
  <1>5. \/ ControlIsQuiet
        \/ \E c \in Cmds : Offers(p, c)
    BY <1>1, OfferIsOfNext, WaitingIsQuiet DEF Control!OpenPoll
  <1>6. OnePoll'
    BY <1>2, <1>3, <1>4, ControlAssumption DEF OnePoll
  <1>7. /\ Delivered' /\ InCallOrder'
        /\ pollAnswer' \in Cmds \cup {NoCmd, "empty"}
    <2>1. CASE ControlIsQuiet
      BY <1>2, <1>3, <1>4, <2>1, QuietKeepsOrder DEF ControlIsQuiet, Delivered
    <2>2. ASSUME NEW c \in Cmds, Offers(p, c)
          PROVE  Delivered' /\ InCallOrder' /\ pollAnswer' \in Cmds \cup {NoCmd, "empty"}
      BY <1>2, <1>3, <1>4, <2>2, OfferKeepsOrder
    <2>. QED  BY <1>5, <2>1, <2>2
  <1>8. NetworkTyped' /\ StoppedIsIdle'
    BY <1>2, <1>3, <1>7 DEF NetworkTyped, StoppedIsIdle
  <1>9. HelloCovers'
    BY <1>2, HelloStaysCovered
  <1>. QED  BY <1>6, <1>7, <1>8, <1>9 DEF Links

-----------------------------------------------------------------------------
(* Each side on its own, again: every step of the network is one of its steps *)

\* A process that has stopped has nothing live, so that a new one starts in order.
LEMMA RestartKeeps ==
    ASSUME DeliveryIInv, ExecutorRestarts PROVE Connection!IInv'
  <1>. USE CrossFacts
  <1>1. Connection!IInv
    OBVIOUS
  <1>2. /\ phase = "stopped" /\ phase' = "barrier" /\ update' = FALSE /\ owner' = FALSE
        /\ mutations' = {}
        /\ UNCHANGED <<polling, task, pred, tail, received, arrival, executions>>
    BY DEF ExecutorRestarts
  <1>3. Connection!Live = {} /\ Connection!Live' = {}
    BY <1>2 DEF StoppedIsIdle, Connection!Live
  <1>4. Connection!TypeOK' /\ Connection!SerialPerKey' /\ Connection!UpdateIsQuiescent'
        /\ Connection!HelloInventoryIsStable' /\ Connection!ConcurrencyBounded'
    <2>1. Connection!TypeOK'
      BY <1>1, <1>2 DEF Connection!IInv, Connection!Inv, Connection!TypeOK, Connection!Phases
    <2>2. Connection!SerialPerKey'
      BY <1>3 DEF Connection!SerialPerKey
    <2>3. Connection!UpdateIsQuiescent' /\ Connection!HelloInventoryIsStable'
      BY <1>2 DEF Connection!UpdateIsQuiescent, Connection!HelloInventoryIsStable
    <2>4. Connection!ConcurrencyBounded'
      BY <1>1, <1>3 DEF Connection!IInv, Connection!Inv, Connection!ConcurrencyBounded
    <2>. QED  BY <2>1, <2>2, <2>3, <2>4
  <1>5. Connection!Inv'
    BY <1>4 DEF Connection!Inv
  <1>6. Connection!PollHasRoom' /\ Connection!MutationsAreCounted'
        /\ Connection!ArrivalsAreDistinct' /\ Connection!TailIsLast'
        /\ Connection!WaitsForPrevious' /\ Connection!FinishedAreOldest'
    <2>1. Connection!PollHasRoom' /\ Connection!MutationsAreCounted'
      BY <1>1, <1>2, <1>3, ExecutorAssumption DEF Connection!IInv, Connection!PollHasRoom,
           Connection!MutationsAreCounted, StoppedIsIdle
    <2>2. Connection!ArrivalsAreDistinct' /\ Connection!TailIsLast'
      BY <1>1, <1>2, <1>3 DEF Connection!IInv, Connection!ArrivalsAreDistinct,
           Connection!TailIsLast
    <2>3. Connection!WaitsForPrevious' /\ Connection!FinishedAreOldest'
      BY <1>1, <1>2, <1>3 DEF Connection!IInv, Connection!WaitsForPrevious,
           Connection!FinishedAreOldest, StoppedIsIdle
    <2>. QED  BY <2>1, <2>2, <2>3
  <1>. QED  BY <1>5, <1>6 DEF Connection!IInv

LEMMA ControlSideKeeps ==
    ASSUME DeliveryIInv, [Next]_vars PROVE Transport!IInv'
  <1>. USE TransportSteps
  <1>1. CASE UNCHANGED control
    BY <1>1, CrossFacts, TransportKeeps
  <1>2. ASSUME Transport!Next PROVE Transport!IInv'
    BY <1>2, CrossFacts, TransportKeeps
  <1>3. CASE ControlProcessesHello
    BY <1>2, <1>3 DEF ControlProcessesHello, Transport!Next, Transport!ExecutorRequest
  <1>4. CASE HeartbeatKeepsPresence
    BY <1>2, <1>4 DEF HeartbeatKeepsPresence, Transport!Next, Transport!ExecutorRequest
  <1>5. CASE ControlWorks
    BY <1>2, <1>5 DEF ControlWorks, Transport!Next, Transport!OwnerAction
  <1>6. ASSUME NEW p \in Polls, ControlOpensPoll(p) PROVE Transport!IInv'
    BY <1>2, <1>6 DEF ControlOpensPoll, Transport!Next, Transport!ExecutorRequest
  <1>7. ASSUME NEW p \in Polls, ControlContinuesPoll(p) PROVE Transport!IInv'
    BY <1>2, <1>7 DEF ControlContinuesPoll, Transport!Next
  <1>8. ASSUME NEW c \in Cmds, ControlReceivesResult(c) PROVE Transport!IInv'
    BY <1>2, <1>8 DEF ControlReceivesResult, Transport!Next, Transport!ExecutorRequest
  <1>. QED
    BY <1>1, <1>3, <1>4, <1>5, <1>6, <1>7, <1>8
       DEF Next, vars, ExecutorSendsHello, LoseHello, ExecutorIsWelcome, ConnectionFails,
           ExecutorSendsPoll, ControlRefusesPoll, ExecutorReceivesNothing, ExecutorWorks,
           HeartbeatAsksForHello, ExecutorStops, ExecutorRestarts, ExecutorReceivesCommand,
           ExecutorSendsResult, LoseResult, ExecutorSeesAck

LEMMA ExecutorSideKeeps ==
    ASSUME DeliveryIInv, [Next]_vars PROVE Connection!IInv'
  <1>. USE ConnectionSteps
  <1>1. CASE UNCHANGED executor
    BY <1>1, CrossFacts, ConnectionKeeps
  <1>2. ASSUME Connection!LoopStep \/ Connection!Stop PROVE Connection!IInv'
    BY <1>2, CrossFacts, ConnectionKeeps DEF Connection!Next
  <1>3. ASSUME NEW c \in Cmds, Connection!CommandStep(c) PROVE Connection!IInv'
    BY <1>3, CrossFacts, ConnectionKeeps DEF Connection!Next
  <1>4. CASE ExecutorRestarts
    BY <1>4, RestartKeeps
  <1>5. ASSUME NEW c \in Cmds, ExecutorReceivesCommand(c) PROVE Connection!IInv'
    <2>1. task[c] = "none"
      BY <1>5, CrossFacts DEF ExecutorReceivesCommand, Delivered
    <2>. QED  BY <1>3, <1>5, <2>1 DEF ExecutorReceivesCommand, Connection!CommandStep,
                Connection!Fresh
  <1>6. ASSUME NEW c \in Cmds, ExecutorSeesAck(c) PROVE Connection!IInv'
    BY <1>3, <1>6 DEF ExecutorSeesAck, Connection!CommandStep
  <1>7. CASE ExecutorWorks
    BY <1>2, <1>3, <1>7 DEF ExecutorWorks, Connection!CommandStep, Connection!LoopStep
  <1>8. CASE \/ ExecutorSendsHello \/ ExecutorIsWelcome \/ ConnectionFails \/ ExecutorSendsPoll
             \/ ControlRefusesPoll \/ ExecutorReceivesNothing \/ HeartbeatAsksForHello
             \/ ExecutorStops
    BY <1>2, <1>8 DEF ExecutorSendsHello, ExecutorIsWelcome, ConnectionFails,
         ExecutorSendsPoll, ControlRefusesPoll, ExecutorReceivesNothing,
         HeartbeatAsksForHello, ExecutorStops, Connection!LoopStep
  <1>. QED
    BY <1>1, <1>4, <1>5, <1>6, <1>7, <1>8
       DEF Next, vars, ControlProcessesHello, LoseHello, HeartbeatKeepsPresence, ControlWorks,
           ControlOpensPoll, ControlContinuesPoll, ControlReceivesResult, ExecutorSendsResult,
           LoseResult

-----------------------------------------------------------------------------
(* The invariant of the whole                                                *)

CrossKeeps == Links' /\ Delivered' /\ InCallOrder'

\* Steps of the executor that leave its tasks, and of the network.
LEMMA QuietExecutorKeeps ==
    ASSUME DeliveryIInv,
           \/ ExecutorSendsHello \/ LoseHello \/ ExecutorIsWelcome \/ ConnectionFails
           \/ ExecutorSendsPoll \/ ControlRefusesPoll \/ ExecutorReceivesNothing
           \/ HeartbeatAsksForHello \/ ExecutorRestarts \/ UNCHANGED vars
    PROVE  CrossKeeps
  <1>. USE CrossFacts, ConnectionFacts
  <1>1. /\ UNCHANGED <<control, task, arrival, executions, results>>
        /\ pollAnswer' \in {pollAnswer, NoCmd}
    BY DEF ExecutorSendsHello, LoseHello, ExecutorIsWelcome, ConnectionFails,
         ExecutorSendsPoll, ControlRefusesPoll, ExecutorReceivesNothing, ExecutorRestarts,
         HeartbeatAsksForHello, vars, executor, network, pollLink, resultLink, DropPollClient,
         Executor!SendHello, Executor!HelloAccepted, Executor!ConnectionFails,
         Executor!SendPoll, Executor!PollEmpty, Executor!HeartbeatEndsLoop, Executor!taskVars
  <1>2. ControlIsQuiet /\ EndedPollsRest
    BY <1>1, QuietWhenUnchanged
  <1>3. Delivered' /\ InCallOrder'
    BY <1>1, <1>2, QuietKeepsOrder DEF Delivered
  <1>4. ASSUME LoseHello PROVE Links'
    BY <1>2, <1>4, LinksWhenHelloIsTaken DEF LoseHello
  <1>5. ASSUME ConnectionFails \/ HeartbeatAsksForHello PROVE Links'
    <2>1. phase' \in {"backoff", "barrier", "parked"} /\ polling' = "off"
      BY <1>5 DEF ConnectionFails, HeartbeatAsksForHello, Executor!ConnectionFails,
           Executor!HeartbeatEndsLoop, Executor!LoopHead
    <2>2. DropPollClient /\ UNCHANGED <<helloLink, resultLink>>
      BY <1>5 DEF ConnectionFails, HeartbeatAsksForHello
    <2>. QED  BY <1>1, <2>1, <2>2, LinksWhenPollDrops
  <1>6. ASSUME ExecutorReceivesNothing PROVE Links'
    BY <1>6, LinksWhenAnswered DEF ExecutorReceivesNothing, Executor!PollEmpty,
         Executor!taskVars
  <1>7. ASSUME ExecutorRestarts PROVE Links'
    <2>1. /\ UNCHANGED <<hellos, attempt, helloAnswer, inventory, processed, pollRequest,
                         myPoll, pollAnswer, results, acks, polling, poll, task, executions>>
          /\ phase = "stopped" /\ phase' = "barrier"
      BY <1>1, <1>7 DEF ExecutorRestarts, network, helloLink, pollLink, resultLink, control
    <2>2. NetworkTyped' /\ OnePoll' /\ StoppedIsIdle'
      BY <2>1 DEF NetworkTyped, OnePoll, StoppedIsIdle
    <2>3. HelloCovers'
      BY <2>1, HelloStaysCovered DEF WhileHelloTravels
    <2>. QED  BY <2>2, <2>3 DEF Links
  <1>8. ASSUME UNCHANGED vars PROVE Links'
    <2>1. UNCHANGED <<executor, helloLink, pollLink, results, acks>>
      BY <1>8 DEF vars, network, resultLink
    <2>. QED  BY <1>2, <2>1, LinksStay DEF NetworkTyped
  <1>9. Links'
    BY <1>4, <1>5, <1>6, <1>7, <1>8, LinksWhenHelloIsSent, LinksWhenWelcome,
       LinksWhenPollIsSent, LinksWhenPollIsRefused
  <1>. QED  BY <1>3, <1>9 DEF CrossKeeps

\* Steps of the executor's command tasks.
LEMMA TasksKeep ==
    ASSUME DeliveryIInv,
           \/ ExecutorWorks \/ ExecutorStops
           \/ \E c \in Cmds : ExecutorReceivesCommand(c) \/ ExecutorSeesAck(c)
    PROVE  CrossKeeps
  <1>. USE CrossFacts, ConnectionFacts
  <1>1. CASE ExecutorStops
    <2>1. /\ Executor!Stop /\ DropPollClient /\ UNCHANGED <<control, helloLink, resultLink>>
          /\ UNCHANGED results /\ pollAnswer' = NoCmd
      BY <1>1 DEF ExecutorStops, DropPollClient, resultLink
    <2>2. Delivered' /\ InCallOrder'
      BY <2>1, StopMoves, TasksKeepOrder
    <2>3. Links'
      BY <2>1, StopMoves, LinksWhenPollDrops
    <2>. QED  BY <2>2, <2>3 DEF CrossKeeps
  <1>2. ASSUME NEW c \in Cmds, Executor!Unblock(c) \/ Executor!FinishExecution(c),
               UNCHANGED <<control, network>>
        PROVE  CrossKeeps
    <2>1. UNCHANGED <<helloLink, pollLink, pollAnswer, results, acks>>
      BY <1>2 DEF network, pollLink, resultLink
    <2>2. acks' \subseteq Cmds
      BY <2>1 DEF NetworkTyped
    <2>3. Delivered' /\ InCallOrder'
      BY <1>2, <2>1, TaskStepsMove, TasksKeepOrder
    <2>. QED  BY <1>2, <2>1, <2>2, <2>3, LinksWhileWorking DEF CrossKeeps
  <1>3. ASSUME Executor!RetryAfterDelay \/ Executor!PolicyDecides("continue"),
               UNCHANGED <<control, network>>
        PROVE  CrossKeeps
    <2>1. UNCHANGED <<task, arrival, executions, pollAnswer, results>>
      BY <1>3 DEF network, pollLink, resultLink, Executor!RetryAfterDelay,
           Executor!PolicyDecides, Executor!taskVars
    <2>2. Delivered' /\ InCallOrder'
      BY <1>3, <2>1, QuietWhenUnchanged, QuietKeepsOrder DEF Delivered
    <2>. QED  BY <1>3, <2>2, LinksInLoop DEF CrossKeeps
  <1>4. ASSUME NEW c \in Cmds, ExecutorReceivesCommand(c) PROVE CrossKeeps
    <2>1. /\ pollAnswer = c /\ pollAnswer' = NoCmd /\ myPoll' = NoPoll
          /\ Executor!PollDelivers(c)
          /\ UNCHANGED <<control, helloLink, pollRequest, resultLink, results, phase,
             executions>>
      BY <1>4 DEF ExecutorReceivesCommand, Executor!PollDelivers, resultLink
    <2>. QED  BY <2>1, ReceiveKeepsOrder, LinksWhenAnswered DEF CrossKeeps
  <1>5. ASSUME NEW c \in Cmds, ExecutorSeesAck(c) PROVE CrossKeeps
    <2>1. /\ Executor!SubmitEnds(c) /\ acks' \subseteq Cmds
          /\ UNCHANGED <<control, helloLink, pollLink, pollAnswer, results>>
      BY <1>5 DEF ExecutorSeesAck, pollLink, NetworkTyped
    <2>2. Delivered' /\ InCallOrder'
      BY <2>1, TaskStepsMove, TasksKeepOrder
    <2>. QED  BY <2>1, <2>2, LinksWhileWorking DEF CrossKeeps
  <1>. QED  BY <1>1, <1>2, <1>3, <1>4, <1>5 DEF ExecutorWorks

\* Steps of Control, and results on their way to it.
LEMMA ControlKeeps ==
    ASSUME DeliveryIInv,
           \/ ControlProcessesHello \/ HeartbeatKeepsPresence \/ ControlWorks
           \/ \E c \in Cmds : ControlReceivesResult(c) \/ ExecutorSendsResult(c)
              \/ LoseResult(c)
    PROVE  CrossKeeps
  <1>. USE CrossFacts
  <1>1. CASE ControlProcessesHello
    <2>1. PICK m \in hellos, k \in Creds :
             /\ Control!Hello(k, "match")
             /\ inventory' = m.snapshot /\ processed' = processed + 1
             /\ helloAnswer' = (helloAnswer \/ m.n = attempt)
             /\ hellos' = hellos \ {m}
             /\ UNCHANGED <<executor, attempt, pollLink, resultLink>>
      BY <1>1 DEF ControlProcessesHello
    <2>2. ControlIsQuiet /\ EndedPollsRest
      BY <2>1, RequestsAreQuiet
    <2>3. UNCHANGED <<task, arrival, executions, pollAnswer, results>>
      BY <2>1 DEF executor, pollLink, resultLink
    <2>4. Delivered' /\ InCallOrder'
      BY <2>2, <2>3, QuietKeepsOrder DEF Delivered
    <2>. QED  BY <2>1, <2>2, <2>4, LinksWhenHelloIsTaken DEF CrossKeeps
  <1>2. ASSUME EndedPollsRest, UNCHANGED <<executor, helloLink, pollLink>>,
               results' \subseteq Cmds, acks' \subseteq Cmds
        PROVE  Links'
    BY <1>2, LinksStay
  <1>3. ASSUME ControlIsQuiet, EndedPollsRest, UNCHANGED <<executor, network>>
        PROVE  CrossKeeps
    <2>1. UNCHANGED <<task, arrival, executions, helloLink, pollLink, pollAnswer, results,
          acks>>
      BY <1>3 DEF executor, network, pollLink, resultLink
    <2>2. Delivered' /\ InCallOrder'
      BY <1>3, <2>1, QuietKeepsOrder DEF Delivered
    <2>. QED  BY <1>2, <1>3, <2>1, <2>2 DEF CrossKeeps, NetworkTyped
  <1>4. CASE HeartbeatKeepsPresence
    BY <1>3, <1>4, RequestsAreQuiet DEF HeartbeatKeepsPresence
  <1>5. ASSUME NEW c \in Cmds, Control!Call(c), UNCHANGED <<executor, network>>
        PROVE  CrossKeeps
    <2>1. UNCHANGED <<helloLink, pollLink, results, acks>>
      BY <1>5 DEF network, resultLink
    <2>. QED  BY <1>2, <1>5, <2>1, CallKeepsOrder DEF CrossKeeps, NetworkTyped
  <1>6. CASE ControlWorks
    BY <1>3, <1>5, <1>6, RequestsAreQuiet, OwnWorkIsQuiet, CallersAreQuiet
       DEF ControlWorks, Control!CallStep
  <1>7. ASSUME NEW c \in Cmds, ControlReceivesResult(c) PROVE CrossKeeps
    <2>1. PICK k \in Creds : Control!SubmitResult(k, c)
      BY <1>7 DEF ControlReceivesResult
    <2>2. /\ c \in results /\ results' \subseteq results /\ acks' \subseteq Cmds
          /\ results' \subseteq Cmds /\ UNCHANGED <<executor, helloLink, pollLink>>
      BY <1>7 DEF ControlReceivesResult, NetworkTyped
    <2>. QED  BY <1>2, <2>1, <2>2, ResultKeepsOrder DEF CrossKeeps
  <1>8. ASSUME NEW c \in Cmds, ExecutorSendsResult(c) \/ LoseResult(c) PROVE CrossKeeps
    <2>1. /\ results' \subseteq Cmds /\ acks' \subseteq Cmds
          /\ UNCHANGED <<control, executor, helloLink, pollLink>>
      BY <1>8 DEF ExecutorSendsResult, LoseResult, NetworkTyped
    <2>2. \A d \in Cmds : d \in results' => executions[d] = 1
      BY <1>8 DEF ExecutorSendsResult, LoseResult, Delivered
    <2>3. UNCHANGED <<task, arrival, executions, pollAnswer>>
      BY <2>1 DEF executor, pollLink
    <2>4. Delivered' /\ InCallOrder'
      BY <2>1, <2>2, <2>3, QuietWhenUnchanged, QuietKeepsOrder
    <2>. QED  BY <1>2, <2>1, <2>4, QuietWhenUnchanged DEF CrossKeeps
  <1>. QED  BY <1>1, <1>4, <1>6, <1>7, <1>8

LEMMA DeliveryKeeps ==
    DeliveryIInv /\ [Next]_vars => DeliveryIInv'
  <1>. SUFFICES ASSUME DeliveryIInv, [Next]_vars PROVE DeliveryIInv'
    OBVIOUS
  <1>1. CrossKeeps
    BY QuietExecutorKeeps, TasksKeep, ControlKeeps, PollOpens, PollGoesOn DEF Next, CrossKeeps
  <1>. QED  BY <1>1, ControlSideKeeps, ExecutorSideKeeps DEF CrossKeeps, Links, DeliveryIInv

LEMMA DeliveryStarts == Init => DeliveryIInv
  <1>. SUFFICES ASSUME Init PROVE DeliveryIInv
    OBVIOUS
  <1>1. Transport!IInv /\ Connection!IInv
    BY SidesStart
  <1>2. /\ hellos = {} /\ attempt = 0 /\ helloAnswer = FALSE /\ inventory = {} /\ processed = 0
        /\ pollRequest = "none" /\ myPoll = NoPoll /\ pollAnswer = NoCmd /\ results = {}
        /\ acks = {} /\ phase = "barrier"
        /\ \A c \in Cmds : /\ offers[c] = 0 /\ stamp[c] = 0 /\ caller[c] = "idle"
                           /\ future[c] = "none" /\ task[c] = "none" /\ executions[c] = 0
                           /\ pending[c] = "absent"
    BY DEF Init, Control!Init, Executor!Init
  <1>3. NetworkTyped
    <2>1. IsFiniteSet(hellos) /\ Cardinality(hellos) = 0
      BY <1>2, FS_EmptySet
    <2>2. /\ attempt \in 0..MaxHellos /\ processed \in Nat
          /\ processed + Cardinality(hellos) <= attempt
      BY <1>2, <2>1, NetworkAssumption
    <2>. QED  BY <1>2, <2>1, <2>2 DEF NetworkTyped
  <1>4. OnePoll /\ StoppedIsIdle /\ HelloCovers
    BY <1>2 DEF OnePoll, StoppedIsIdle, HelloCovers
  <1>5. Delivered /\ InCallOrder
    BY <1>2, ExecutorAssumption DEF Delivered, InCallOrder
  <1>. QED  BY <1>1, <1>3, <1>4, <1>5 DEF DeliveryIInv

-----------------------------------------------------------------------------
(* Theorems                                                                  *)

LEMMA DeliveryInvariance == Spec => []DeliveryIInv
  BY DeliveryStarts, DeliveryKeeps, PTL DEF Spec

LEMMA DeliveryImplies == DeliveryIInv => Inv
  <1>. SUFFICES ASSUME DeliveryIInv PROVE Inv
    OBVIOUS
  <1>. USE CrossFacts
  <1>1. Control!TypeOK
    BY DEF Transport!IInv, Transport!TypeOK, Control!TypeOK
  <1>2. Executor!TypeOK
    BY DEF Connection!IInv, Connection!Inv, Connection!TypeOK, Connection!Phases,
         Executor!TypeOK, Executor!Phases
  <1>3. processed \in 0..MaxHellos
    <2>1. Cardinality(hellos) \in Nat
      BY FS_CardinalityType DEF NetworkTyped
    <2>. QED  BY <2>1, NetworkAssumption DEF NetworkTyped
  <1>4. TypeOK
    BY <1>1, <1>2, <1>3 DEF TypeOK, NetworkTyped
  <1>5. ExecutedAtMostOnce /\ ReplyWasExecuted
    BY DEF Delivered, ExecutedAtMostOnce, ReplyWasExecuted
  <1>6. ReportedQueuedNeverRuns
    BY TransportFacts DEF Delivered, ReportedQueuedNeverRuns
  <1>. QED  BY <1>4, <1>5, <1>6 DEF Inv

\* Whatever the network loses, repeats or delays and however often the executor process
\* restarts: no command runs twice (the executor keeps no record of those it has run),
\* a call that returned was executed, and a call told that its command was still queued
\* can count on it never running.
THEOREM DeliveryIsSound == Spec => []Inv
  BY DeliveryInvariance, DeliveryImplies, PTL

\* How often a command ran changes only when its own execution finishes.
LEMMA OnlyFinishingCounts ==
    ASSUME DeliveryIInv, [Next]_vars, NEW c \in Cmds, executions'[c] # executions[c]
    PROVE  task[c] = "executing" /\ \A d \in Cmds : d # c => executions'[d] = executions[d]
  <1>. USE CrossFacts, ConnectionFacts
  <1>1. ASSUME NEW d \in Cmds, Executor!FinishExecution(d)
        PROVE  task[c] = "executing" /\ \A e \in Cmds : e # c => executions'[e] = executions[e]
    BY <1>1 DEF Executor!FinishExecution
  <1>2. CASE UNCHANGED executions
    BY <1>2
  <1>3. CASE ExecutorWorks
    BY <1>1, <1>2, <1>3 DEF ExecutorWorks, Executor!RetryAfterDelay, Executor!PolicyDecides,
         Executor!Unblock, Executor!taskVars
  <1>4. \/ ExecutorWorks
        \/ UNCHANGED executions
    <2>1. CASE UNCHANGED executor
      BY <2>1 DEF executor
    <2>. QED
      BY <2>1 DEF Next, vars, ExecutorSendsHello, ControlProcessesHello, LoseHello,
           ExecutorIsWelcome, ConnectionFails, ExecutorSendsPoll, ControlRefusesPoll,
           ExecutorReceivesNothing, HeartbeatKeepsPresence, HeartbeatAsksForHello,
           ExecutorStops, ExecutorRestarts, ControlWorks, ControlOpensPoll,
           ControlContinuesPoll, ExecutorReceivesCommand, ExecutorSendsResult,
           ControlReceivesResult, LoseResult, ExecutorSeesAck, Executor!SendHello,
           Executor!HelloAccepted, Executor!ConnectionFails, Executor!SendPoll,
           Executor!PollEmpty, Executor!HeartbeatEndsLoop, Executor!Stop,
           Executor!PollDelivers, Executor!SubmitEnds, Executor!taskVars
  <1>. QED  BY <1>2, <1>3, <1>4

\* Commands of one session or transfer take effect in the order in which they were
\* called: Control offers them in that order, the executor receives them in it, and a
\* command runs only when none that arrived before it can still run.
THEOREM EffectsFollowCalls == Spec => RunsInCallOrder
  <1>. DEFINE A == \A c, d \in Cmds :
                     /\ KeyOf[c] # NoKey /\ KeyOf[c] = KeyOf[d]
                     /\ executions'[c] # executions[c] /\ stamp[c] < stamp[d]
                     => executions[d] = 0
  <1>1. ASSUME DeliveryIInv, [Next]_vars PROVE [A]_vars
    <2>. USE <1>1, CrossFacts, TransportFacts, ConnectionFacts
    <2>. SUFFICES ASSUME NEW c \in Cmds, NEW d \in Cmds, KeyOf[c] # NoKey, KeyOf[c] = KeyOf[d],
                         executions'[c] # executions[c], stamp[c] < stamp[d],
                         executions[d] # 0
                  PROVE  FALSE
      OBVIOUS
    <2>1. task[c] = "executing" /\ c # d
      BY OnlyFinishingCounts
    <2>2. task[d] \in {"submitting", "done"}
      BY DEF Delivered
    <2>3. arrival[c] < arrival[d]
      <3>1. ~(arrival[d] < arrival[c])
        BY <2>1, <2>2 DEF InCallOrder
      <3>2. arrival[c] # arrival[d]
        BY <2>1, <2>2 DEF Connection!IInv, Connection!ArrivalsAreDistinct
      <3>3. arrival[c] \in Nat /\ arrival[d] \in Nat
        BY ConnectionFacts
      <3>. QED  BY ONLY <3>1, <3>2, <3>3
    <2>4. c \in Connection!Live
      BY <2>1 DEF Connection!Live
    <2>5. CASE task[d] = "submitting"
      <3>1. arrival[d] < arrival[c]
        BY <2>1, <2>4, <2>5 DEF Connection!IInv, Connection!Inv, Connection!SerialPerKey
      <3>. QED  BY <2>3, <3>1
    <2>6. CASE task[d] = "done"
      <3>1. arrival[d] < arrival[c]
        BY <2>4, <2>6 DEF Connection!IInv, Connection!FinishedAreOldest, Connection!SameKey
      <3>. QED  BY <2>3, <3>1
    <2>. QED  BY <2>2, <2>5, <2>6
  <1>. QED  BY <1>1, DeliveryInvariance, PTL DEF Spec, RunsInCallOrder

\* Where no hello is processed after a later one was sent, the inventory Control
\* reconciles against has the effect of every command whose success it has reported.
THEOREM HelloIsComplete == ~LateHello /\ Spec => HelloCoversReplies
  <1>. SUFFICES ASSUME ~LateHello PROVE Spec => HelloCoversReplies
    OBVIOUS
  <1>. DEFINE A == processed' # processed =>
                     \A c \in Mutating : future[c] = "result" => c \in inventory'
  <1>1. ASSUME DeliveryIInv, [Next]_vars PROVE [A]_vars
    <2>. USE <1>1, CrossFacts
    <2>. SUFFICES ASSUME processed' # processed, NEW c \in Mutating, future[c] = "result"
                  PROVE  c \in inventory'
      OBVIOUS
    <2>1. ControlProcessesHello
      BY DEF Next, vars, network, helloLink, ExecutorSendsHello, LoseHello, ExecutorIsWelcome,
           ConnectionFails, ExecutorSendsPoll, ControlRefusesPoll, ExecutorReceivesNothing,
           ExecutorWorks, HeartbeatKeepsPresence, HeartbeatAsksForHello, ExecutorStops,
           ExecutorRestarts, ControlWorks, ControlOpensPoll, ControlContinuesPoll,
           ExecutorReceivesCommand, ExecutorSendsResult, ControlReceivesResult, LoseResult,
           ExecutorSeesAck
    <2>2. PICK m \in hellos : inventory' = m.snapshot
      BY <2>1 DEF ControlProcessesHello
    <2>3. executions[c] = 1
      BY ExecutorAssumption DEF Delivered
    <2>4. c \in Snapshot
      BY <2>3 DEF Snapshot
    <2>. QED  BY <2>2, <2>4 DEF DeliveryIInv, HelloCovers
  <1>. QED  BY <1>1, DeliveryInvariance, PTL DEF Spec, HelloCoversReplies
=============================================================================
