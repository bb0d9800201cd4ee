---------------------- MODULE ExecutorTransportProofs ----------------------
(***************************************************************************)
(* Theorems of ExecutorTransport for every set of commands, polls and      *)
(* bearers, checked by TLAPS.                                              *)
(***************************************************************************)
EXTENDS ExecutorTransport, FiniteSetTheorems, TLAPS

\* What Settle does to the types of the three functions it changes.
LEMMA SettleType ==
  ASSUME TypeOK, NEW gone, NEW state \in [Cmds -> {"none", "queued", "offered"}],
         Settle(gone, state)
  PROVE  /\ pending' \in [Cmds -> {"absent", "queued", "offered"}]
         /\ future' \in [Cmds -> {"none", "open", "result", "error", "cancelled"}]
         /\ delivery' \in [Cmds -> {"none", "queued", "offered"}]
  BY DEF TypeOK, Settle

\* Waking polls keeps the type of poll.
LEMMA WokenPollsType ==
  ASSUME TypeOK
  PROVE  WokenPolls \in [Polls -> [status : {"idle", "waiting", "woken"},
                                   cred : Creds \cup {NoCred}]]
  BY DEF TypeOK, WokenPolls

\* Type correctness of one step of the transport.
LEMMA TypeStep == TypeOK /\ [Next]_vars => TypeOK'
<1> SUFFICES ASSUME TypeOK, [Next]_vars PROVE TypeOK'
  OBVIOUS
<1> USE DEF channelVars, callVars, handovers, history, OpenPolls
<1>1. CASE Start
  BY <1>1 DEF TypeOK, Start
<1>2. CASE Close
  <2>1. InterruptChannel([c \in Cmds |-> "none"]) /\ poll' = WokenPolls
    BY <1>2 DEF Close
  <2> QED
    BY <1>2, <2>1, SettleType, WokenPollsType DEF TypeOK, Close, InterruptChannel
<1>3. CASE RevokeExecutor \/ \E k \in Creds : ReplaceExecutor(k)
  <2>1. FenceChannel /\ UNCHANGED <<lifecycle, token, handovers>>
    BY <1>3 DEF RevokeExecutor, ReplaceExecutor
  <2>2. /\ Settle(Retained, [c \in Cmds |-> IF pending[c] = "absent"
                                            THEN "none" ELSE pending[c]])
        /\ queue' = {} /\ UNCHANGED <<stamp, calls, caller>>
    BY <2>1 DEF FenceChannel, InterruptChannel, Settle, Retained, TypeOK
  <2>3. trust' \in [cred : Creds \cup {NoCred}, revoked : BOOLEAN,
                    retired : SUBSET Creds]
    <3>1. CASE RevokeExecutor
      BY <3>1 DEF RevokeExecutor, TypeOK
    <3>2. ASSUME NEW k \in Creds, ReplaceExecutor(k)
          PROVE  trust' \in [cred : Creds \cup {NoCred}, revoked : BOOLEAN,
                             retired : SUBSET Creds]
      <4>1. trust.retired \cup {trust.cred} \subseteq Creds
        BY <3>2 DEF ReplaceExecutor, TypeOK
      <4> QED
        BY <3>2, <4>1 DEF ReplaceExecutor
    <3> QED
      BY <1>3, <3>1, <3>2
  <2>4. [c \in Cmds |-> IF pending[c] = "absent" THEN "none" ELSE pending[c]]
          \in [Cmds -> {"none", "queued", "offered"}]
    BY DEF TypeOK
  <2> QED
    BY <2>1, <2>2, <2>3, <2>4, SettleType, WokenPollsType
    DEF TypeOK, FenceChannel
<1>4. CASE ResetQueued
  <2>1. Settle(Queued, [c \in Cmds |-> "queued"])
    BY <1>4 DEF ResetQueued
  <2> QED
    BY <1>4, <2>1, SettleType DEF TypeOK, ResetQueued
<1>5. ASSUME NEW k \in Creds, PutExecutor(k) PROVE TypeOK'
  BY <1>5 DEF TypeOK, PutExecutor
<1>6. CASE PresenceLapses
  BY <1>6 DEF TypeOK, PresenceLapses
<1>7. ASSUME NEW k \in Creds, NEW runtime \in {"match", "mismatch"},
             Hello(k, runtime)
      PROVE  TypeOK'
  <2>1. poll' \in [Polls -> [status : {"idle", "waiting", "woken"},
                             cred : Creds \cup {NoCred}]]
    BY <1>7, WokenPollsType DEF Hello, TypeOK
  <2>2. CASE runtime = "mismatch"
    <3>1. Settle(queue \cap Queued, [c \in Cmds |-> "queued"])
      BY <1>7, <2>2 DEF Hello, DropIncompatible
    <3> QED
      BY <1>7, <2>1, <2>2, <3>1, SettleType DEF TypeOK, Hello, DropIncompatible
  <2>3. CASE runtime = "match"
    BY <1>7, <2>1, <2>3 DEF TypeOK, Hello, DropIncompatible
  <2> QED
    BY <2>2, <2>3
<1>8. ASSUME NEW k \in Creds, Heartbeat(k) PROVE TypeOK'
  BY <1>8 DEF TypeOK, Heartbeat
<1>9. ASSUME NEW p \in Polls, NEW k \in Creds \cup {NoCred},
             OfferNext(p, k) \/ AwaitWork(p, k),
             online' \in BOOLEAN,
             UNCHANGED <<lifecycle, trust, hello, callVars>>
      PROVE  TypeOK'
  <2>1. CASE OfferNext(p, k)
    BY <1>9, <2>1 DEF TypeOK, OfferNext, TakeFromQueue, IdlePoll
  <2>2. CASE AwaitWork(p, k)
    BY <1>9, <2>2 DEF TypeOK, AwaitWork
  <2> QED
    BY <1>9, <2>1, <2>2
<1>10. ASSUME NEW k \in Creds, NEW p \in Polls, OpenPoll(p, k) PROVE TypeOK'
  BY <1>9, <1>10 DEF OpenPoll
<1>11. ASSUME NEW k \in Creds, NEW c \in Cmds, SubmitResult(k, c) PROVE TypeOK'
  BY <1>11 DEF TypeOK, SubmitResult, AwaitsResult
<1>12. ASSUME NEW p \in Polls, PollStep(p) PROVE TypeOK'
  <2>1. CASE WokenPollEnds(p) \/ PollTimesOut(p)
    <3>1. /\ LeavePoll(p)
          /\ UNCHANGED <<lifecycle, trust, online, hello, channelVars, callVars,
                        handovers>>
      BY <2>1 DEF WokenPollEnds, PollTimesOut
    <3>2. poll' \in [Polls -> [status : {"idle", "waiting", "woken"},
                              cred : Creds \cup {NoCred}]]
      BY <3>1 DEF TypeOK, LeavePoll, IdlePoll
    <3> QED
      BY <3>1, <3>2 DEF TypeOK, LeavePoll
  <2>2. CASE WokenPollPasses(p)
    <3>1. poll[p].cred \in Creds \cup {NoCred}
      BY DEF TypeOK
    <3> QED
      BY <1>9, <2>2, <3>1 DEF WokenPollPasses
  <2> QED
    BY <1>12, <2>1, <2>2 DEF PollStep
<1>13. ASSUME NEW c \in Cmds, Call(c) PROVE TypeOK'
  <2>1. poll' = WokenPolls
    BY <1>13 DEF Call
  <2> QED
    BY <1>13, <2>1, WokenPollsType DEF TypeOK, Call
<1>14. ASSUME NEW c \in Cmds, Resume(c) PROVE TypeOK'
  BY <1>14 DEF TypeOK, Resume
<1>15. ASSUME NEW c \in Cmds, Interrupt(c) PROVE TypeOK'
  BY <1>15 DEF TypeOK, Interrupt
<1>16. CASE UNCHANGED vars
  BY <1>16 DEF TypeOK, vars
<1>17. CASE OwnerAction
  BY <1>1, <1>2, <1>3, <1>4, <1>5, <1>17 DEF OwnerAction
<1>18. ASSUME NEW k \in Creds, ExecutorRequest(k) PROVE TypeOK'
  BY <1>7, <1>8, <1>10, <1>11, <1>18 DEF ExecutorRequest
<1>19. ASSUME NEW c \in Cmds, CallStep(c) PROVE TypeOK'
  BY <1>13, <1>14, <1>15, <1>19 DEF CallStep
<1> QED
  BY <1>6, <1>12, <1>16, <1>17, <1>18, <1>19 DEF Next

\* The initial state is well typed.
LEMMA InitType == Init => TypeOK
<1> SUFFICES ASSUME Init PROVE TypeOK
  OBVIOUS
<1>1. trust \in [cred : Creds \cup {NoCred}, revoked : BOOLEAN,
                 retired : SUBSET Creds]
  <2>1. /\ NoCred \in Creds \cup {NoCred} /\ FALSE \in BOOLEAN
        /\ {} \in SUBSET Creds
    OBVIOUS
  <2> QED
    BY <2>1, Zenon DEF Init
<1>2. poll \in [Polls -> [status : {"idle", "waiting", "woken"},
                          cred : Creds \cup {NoCred}]]
  BY DEF Init, IdlePoll
<1> QED
  BY <1>1, <1>2 DEF Init, TypeOK

\* Every reachable state of the transport is well typed, whatever the numbers of
\* commands, polls and bearers.
THEOREM TypeCorrect == Spec => []TypeOK
  BY InitType, TypeStep, PTL DEF Spec

----------------------------------------------------------------------------
(* The inductive invariant *)

\* The steps of the transport by what they do to the channel: fences drop retained
\* work, deliveries hand out a command or put a poll to sleep, quiet steps touch
\* neither correlations nor callers.
FenceAction ==
  \/ Close \/ RevokeExecutor \/ ResetQueued
  \/ \E k \in Creds : ReplaceExecutor(k)

HelloAction ==
  \E k \in Creds, runtime \in {"match", "mismatch"} : Hello(k, runtime)

DeliveryAction ==
  \E p \in Polls : WokenPollPasses(p) \/ \E k \in Creds : OpenPoll(p, k)

ResultAction == \E k \in Creds, c \in Cmds : SubmitResult(k, c)

CallAction == \E c \in Cmds : Call(c)

CallerAction == \E c \in Cmds : Resume(c) \/ Interrupt(c)

PollEnds == \E p \in Polls : WokenPollEnds(p) \/ PollTimesOut(p)

QuietAction ==
  \/ Start \/ PresenceLapses \/ UNCHANGED vars
  \/ \E k \in Creds : PutExecutor(k) \/ Heartbeat(k)

\* Every step is of one of these kinds.
LEMMA NextCases ==
  ASSUME [Next]_vars
  PROVE  \/ FenceAction \/ HelloAction \/ DeliveryAction \/ ResultAction
         \/ CallAction \/ CallerAction \/ PollEnds \/ QuietAction
  BY DEF Next, OwnerAction, ExecutorRequest, PollStep, CallStep, FenceAction,
         HelloAction, DeliveryAction, ResultAction, CallAction, CallerAction,
         PollEnds, QuietAction

\* The deque, the retained correlations and the waiting callers stay in
\* agreement.
LEMMA CorrelationStep ==
  ASSUME IInv, [Next]_vars
  PROVE  (QueueMirrorsPending /\ NoStrandedCaller
          /\ FreshCalls /\ DistinctStamps)'
<1> USE DEF IInv, TypeOK, QueueMirrorsPending, NoStrandedCaller, FreshCalls,
           DistinctStamps, OfferedAtMostOnce, Queued, Retained, channelVars,
           callVars, handovers, history
<1>1. CASE FenceAction
  BY <1>1 DEF FenceAction, Close, RevokeExecutor, ReplaceExecutor, ResetQueued,
    FenceChannel, InterruptChannel, Settle
<1>2. CASE HelloAction
  BY <1>2 DEF HelloAction, Hello, DropIncompatible, Settle
<1>3. CASE DeliveryAction
  <2>1. PICK p \in Polls, k \in Creds \cup {NoCred} :
           OfferNext(p, k) \/ AwaitWork(p, k)
    BY <1>3 DEF DeliveryAction, OpenPoll, WokenPollPasses
  <2>2. UNCHANGED <<future, caller, delivery>>
    BY <1>3 DEF DeliveryAction, OpenPoll, WokenPollPasses
  <2>3. CASE AwaitWork(p, k)
    BY <2>2, <2>3 DEF AwaitWork
  <2>4. CASE OfferNext(p, k)
    <3>1. PICK c \in queue : /\ IsNext(c)
                             /\ pending' = [pending EXCEPT ![c] = "offered"]
                             /\ queue' = {d \in queue : stamp[d] > stamp[c]}
                             /\ offers' = [offers EXCEPT ![c] = @ + 1]
                             /\ UNCHANGED <<stamp, calls, answeredBy>>
      BY <2>4 DEF OfferNext, TakeFromQueue
    <3>2. queue' = queue \ {c}
      <4>1. \A d \in queue : stamp[c] <= stamp[d] /\ stamp[d] \in Nat
        BY <3>1 DEF IsNext
      <4>2. \A d \in queue \ {c} : stamp[d] # stamp[c]
        BY <3>1
      <4>3. \A d \in queue : stamp[d] > stamp[c] <=> d # c
        <5> HIDE DEF IInv
        <5> QED
          BY <4>1, <4>2
      <4> HIDE DEF IInv, TypeOK
      <4> QED
        BY <3>1, <4>3
    <3> QED
      BY <2>2, <3>1, <3>2
  <2> QED
    BY <2>1, <2>3, <2>4
<1>4. CASE ResultAction
  BY <1>4, NoCredAssumption DEF ResultAction, SubmitResult, AwaitsResult
<1>5. CASE CallAction
  BY <1>5 DEF CallAction, Call, HasCapacity
<1>6. CASE CallerAction
  BY <1>6 DEF CallerAction, Resume, Interrupt
<1>7. CASE PollEnds
  BY <1>7 DEF PollEnds, WokenPollEnds, PollTimesOut, LeavePoll
<1>8. CASE QuietAction
  BY <1>8 DEF QuietAction, Start, PutExecutor, PresenceLapses, Heartbeat, vars
<1> QED
  BY NextCases, <1>1, <1>2, <1>3, <1>4, <1>5, <1>6, <1>7, <1>8

\* Nothing is retained without trust and nothing queued without compatibility.
LEMMA FencesStep ==
  ASSUME IInv, [Next]_vars
  PROVE  (UntrustedIsFenced /\ QueuedOnlyWhenCompatible)'
<1> USE DEF IInv, TypeOK, UntrustedIsFenced, QueuedOnlyWhenCompatible,
           QueueMirrorsPending, Trusted, Authenticated, Queued, Retained,
           channelVars, callVars, handovers, history
<1>1. CASE FenceAction
  BY <1>1 DEF FenceAction, Close, RevokeExecutor, ReplaceExecutor, ResetQueued,
    FenceChannel, InterruptChannel, Settle
<1>2. CASE HelloAction
  BY <1>2 DEF HelloAction, Hello, DropIncompatible, Settle
<1>3. CASE DeliveryAction
  BY <1>3 DEF DeliveryAction, OpenPoll, WokenPollPasses, OfferNext, AwaitWork,
    TakeFromQueue, IsNext
<1>4. CASE ResultAction
  BY <1>4 DEF ResultAction, SubmitResult, AwaitsResult
<1>5. CASE CallAction
  BY <1>5 DEF CallAction, Call, HasCapacity
<1>6. CASE CallerAction
  BY <1>6 DEF CallerAction, Resume, Interrupt
<1>7. CASE PollEnds
  BY <1>7 DEF PollEnds, WokenPollEnds, PollTimesOut, LeavePoll
<1>8. CASE QuietAction
  BY <1>8 DEF QuietAction, Start, PutExecutor, PresenceLapses, Heartbeat, vars
<1> QED
  BY NextCases, <1>1, <1>2, <1>3, <1>4, <1>5, <1>6, <1>7, <1>8

\* The poll that owns delivery exists and does not sleep beside queued work.
LEMMA DeliveryStep ==
  ASSUME IInv, [Next]_vars
  PROVE  (NoLostWakeup /\ TokenHasOwner)'
<1> USE DEF IInv, TypeOK, NoLostWakeup, TokenHasOwner, WokenPolls, IdlePoll,
           channelVars, callVars, handovers, history
<1>1. CASE FenceAction
  BY <1>1 DEF FenceAction, Close, RevokeExecutor, ReplaceExecutor, ResetQueued,
    FenceChannel, InterruptChannel, Settle
<1>2. CASE HelloAction
  BY <1>2 DEF HelloAction, Hello, DropIncompatible, Settle
<1>3. CASE DeliveryAction
  BY <1>3 DEF DeliveryAction, OpenPoll, WokenPollPasses, OfferNext, AwaitWork,
    TakeFromQueue, IsNext
<1>4. CASE ResultAction
  BY <1>4 DEF ResultAction, SubmitResult, AwaitsResult
<1>5. CASE CallAction
  BY <1>5 DEF CallAction, Call, HasCapacity
<1>6. CASE CallerAction
  BY <1>6 DEF CallerAction, Resume, Interrupt
<1>7. CASE PollEnds
  BY <1>7 DEF PollEnds, WokenPollEnds, PollTimesOut, LeavePoll
<1>8. CASE QuietAction
  BY <1>8 DEF QuietAction, Start, PutExecutor, PresenceLapses, Heartbeat, vars
<1> QED
  BY NextCases, <1>1, <1>2, <1>3, <1>4, <1>5, <1>6, <1>7, <1>8

\* Open polls keep the bearer they were opened with, and a replaced bearer does not
\* come back.
LEMMA PollBearersStep ==
  ASSUME IInv, [Next]_vars
  PROVE  PollBearersAreKnown'
<1> USE DEF IInv, TypeOK, PollBearersAreKnown, OpenPolls, WokenPolls, IdlePoll,
           Authenticated, channelVars, callVars, handovers, history
<1>1. CASE FenceAction
  BY <1>1, NoCredAssumption DEF FenceAction, Close, RevokeExecutor, ReplaceExecutor,
    ResetQueued, FenceChannel
<1>2. CASE HelloAction
  BY <1>2 DEF HelloAction, Hello
<1>3. CASE DeliveryAction
  BY <1>3 DEF DeliveryAction, OpenPoll, WokenPollPasses, MayDeliver, OfferNext, AwaitWork
<1>4. CASE ResultAction
  BY <1>4 DEF ResultAction, SubmitResult
<1>5. CASE CallAction
  BY <1>5 DEF CallAction, Call
<1>6. CASE CallerAction
  BY <1>6 DEF CallerAction, Resume, Interrupt
<1>7. CASE PollEnds
  BY <1>7 DEF PollEnds, WokenPollEnds, PollTimesOut, LeavePoll
<1>8. CASE QuietAction
  BY <1>8 DEF QuietAction, Start, PutExecutor, PresenceLapses, Heartbeat, vars
<1> QED
  BY NextCases, <1>1, <1>2, <1>3, <1>4, <1>5, <1>6, <1>7, <1>8

\* What a hello or a fence has overtaken stays unable to deliver.
LEMMA SupersededStep ==
  ASSUME IInv, [Next]_vars
  PROVE  SupersededIsFenced'
<1> USE DEF IInv, TypeOK, SupersededIsFenced, PollBearersAreKnown, OpenPolls,
           WokenPolls, IdlePoll, Authenticated, Running, channelVars, callVars,
           handovers, history
<1>1. CASE FenceAction
  BY <1>1, NoCredAssumption DEF FenceAction, Close, RevokeExecutor, ReplaceExecutor,
    ResetQueued, FenceChannel
<1>2. CASE HelloAction
  BY <1>2, NoPollAssumption DEF HelloAction, Hello
<1>3. CASE DeliveryAction
  BY <1>3, NoPollAssumption DEF DeliveryAction, OpenPoll, WokenPollPasses, MayDeliver,
    OfferNext, AwaitWork
<1>4. CASE ResultAction
  BY <1>4 DEF ResultAction, SubmitResult
<1>5. CASE CallAction
  BY <1>5 DEF CallAction, Call
<1>6. CASE CallerAction
  BY <1>6 DEF CallerAction, Resume, Interrupt
<1>7. CASE PollEnds
  BY <1>7, NoPollAssumption DEF PollEnds, WokenPollEnds, PollTimesOut, LeavePoll
<1>8. CASE QuietAction
  BY <1>8 DEF QuietAction, Start, PutExecutor, PresenceLapses, Heartbeat, vars
<1> QED
  BY NextCases, <1>1, <1>2, <1>3, <1>4, <1>5, <1>6, <1>7, <1>8

\* Hand-overs, answers and reports agree with what happened.
LEMMA HistoryStep ==
  ASSUME IInv, [Next]_vars
  PROVE  (OfferedAtMostOnce /\ OfferedToCurrent
          /\ AnswerFromRecipient /\ DefiniteReportIsTrue)'
<1> USE DEF IInv, TypeOK, OfferedAtMostOnce, OfferedToCurrent,
           AnswerFromRecipient, DefiniteReportIsTrue, FreshCalls,
           NoStrandedCaller, UntrustedIsFenced, QueueMirrorsPending, Queued,
           Retained, Authenticated, Trusted, channelVars, callVars, handovers, history
<1>1. CASE FenceAction
  BY <1>1 DEF FenceAction, Close, RevokeExecutor, ReplaceExecutor, ResetQueued,
    FenceChannel, InterruptChannel, Settle
<1>2. CASE HelloAction
  BY <1>2 DEF HelloAction, Hello, DropIncompatible, Settle
<1>3. CASE DeliveryAction
  <2>1. PICK p \in Polls, k \in Creds \cup {NoCred} :
           /\ OfferNext(p, k) \/ AwaitWork(p, k)
           /\ trust.cred = k
           /\ UNCHANGED <<trust, callVars>>
    BY <1>3 DEF DeliveryAction, OpenPoll, WokenPollPasses, MayDeliver
  <2>2. CASE OfferNext(p, k)
    BY <2>1, <2>2 DEF OfferNext, TakeFromQueue, IsNext
  <2>3. CASE AwaitWork(p, k)
    BY <2>1, <2>3 DEF AwaitWork
  <2> QED
    BY <2>1, <2>2, <2>3
<1>4. CASE ResultAction
  BY <1>4 DEF ResultAction, SubmitResult, AwaitsResult
<1>5. CASE CallAction
  BY <1>5 DEF CallAction, Call, HasCapacity
<1>6. CASE CallerAction
  BY <1>6 DEF CallerAction, Resume, Interrupt
<1>7. CASE PollEnds
  BY <1>7 DEF PollEnds, WokenPollEnds, PollTimesOut, LeavePoll
<1>8. CASE QuietAction
  BY <1>8 DEF QuietAction, Start, PutExecutor, PresenceLapses, Heartbeat, vars
<1> QED
  BY NextCases, <1>1, <1>2, <1>3, <1>4, <1>5, <1>6, <1>7, <1>8

\* Only a call adds a retained correlation, and it adds its own.
LEMMA RetainedStep ==
  ASSUME IInv, [Next]_vars
  PROVE  \/ Retained' \subseteq Retained
         \/ /\ Cardinality(Retained) < MaxPending
            /\ \E c \in Cmds : Retained' = Retained \cup {c}
<1> USE DEF IInv, TypeOK, Retained, Queued, channelVars, callVars, handovers, history
<1>1. CASE FenceAction
  BY <1>1 DEF FenceAction, Close, RevokeExecutor, ReplaceExecutor, ResetQueued,
    FenceChannel, InterruptChannel, Settle
<1>2. CASE HelloAction
  BY <1>2 DEF HelloAction, Hello, DropIncompatible, Settle
<1>3. CASE DeliveryAction
  BY <1>3 DEF DeliveryAction, OpenPoll, WokenPollPasses, OfferNext, AwaitWork,
    TakeFromQueue, IsNext
<1>4. CASE ResultAction
  BY <1>4 DEF ResultAction, SubmitResult, AwaitsResult
<1>5. CASE CallAction
  BY <1>5 DEF CallAction, Call, HasCapacity
<1>6. CASE CallerAction
  BY <1>6 DEF CallerAction, Resume, Interrupt
<1>7. CASE PollEnds
  BY <1>7 DEF PollEnds, WokenPollEnds, PollTimesOut, LeavePoll
<1>8. CASE QuietAction
  BY <1>8 DEF QuietAction, Start, PutExecutor, PresenceLapses, Heartbeat, vars
<1> QED
  BY NextCases, <1>1, <1>2, <1>3, <1>4, <1>5, <1>6, <1>7, <1>8

\* The bound on retained correlations survives every step.
LEMMA CapacityStep ==
  ASSUME IInv, [Next]_vars
  PROVE  CapacityRespected'
<1>1. IsFiniteSet(Retained) /\ Cardinality(Retained) \in Nat
  BY CmdsAssumption, FS_Subset, FS_CardinalityType DEF Retained
<1>2. Cardinality(Retained) <= MaxPending
  BY DEF IInv, CapacityRespected
<1>3. CASE Retained' \subseteq Retained
  <2>1. /\ IsFiniteSet(Retained')
        /\ Cardinality(Retained') \in Nat
        /\ Cardinality(Retained') <= Cardinality(Retained)
    BY <1>1, <1>3, FS_Subset, FS_CardinalityType
  <2> QED
    BY <1>1, <1>2, <2>1, MaxPendingAssumption DEF CapacityRespected
<1>4. CASE /\ Cardinality(Retained) < MaxPending
           /\ \E c \in Cmds : Retained' = Retained \cup {c}
  <2>1. PICK c \in Cmds : Retained' = Retained \cup {c}
    BY <1>4
  <2>2. Cardinality(Retained \cup {c})
          = IF c \in Retained THEN Cardinality(Retained)
                              ELSE Cardinality(Retained) + 1
    BY <1>1, FS_AddElement
  <2> QED
    BY <1>1, <1>4, <2>1, <2>2, MaxPendingAssumption DEF CapacityRespected
<1> QED
  BY RetainedStep, <1>3, <1>4

\* Initially nothing is retained, so every part of the invariant holds.
LEMMA InvInit == Init => IInv
<1> SUFFICES ASSUME Init PROVE IInv
  OBVIOUS
<1>1. TypeOK
  BY InitType
<1>2. CapacityRespected
  <2>1. Retained = {}
    BY DEF Init, Retained
  <2> QED
    BY <2>1, FS_EmptySet, MaxPendingAssumption DEF CapacityRespected
<1> QED
  BY <1>1, <1>2
  DEF Init, IInv, QueueMirrorsPending, NoStrandedCaller, FreshCalls,
      DistinctStamps, UntrustedIsFenced, QueuedOnlyWhenCompatible, NoLostWakeup,
      TokenHasOwner, OfferedAtMostOnce, OfferedToCurrent, AnswerFromRecipient,
      DefiniteReportIsTrue, Trusted, Queued, Retained, PollBearersAreKnown,
      SupersededIsFenced, OpenPolls, IdlePoll

\* The invariant is inductive.
LEMMA InvStep == IInv /\ [Next]_vars => IInv'
<1> SUFFICES ASSUME IInv, [Next]_vars PROVE IInv'
  OBVIOUS
<1>1. TypeOK'
  BY TypeStep DEF IInv
<1> QED
  BY <1>1, CorrelationStep, FencesStep, DeliveryStep, HistoryStep, CapacityStep,
    PollBearersStep, SupersededStep
  DEF IInv

\* Every reachable state satisfies the inductive invariant.
THEOREM InvCorrect == Spec => []IInv
  BY InvInit, InvStep, PTL DEF Spec

----------------------------------------------------------------------------
(* The safety properties *)

\* No call is ever left waiting on a Future that nothing in Control can resolve,
\* and the deque never disagrees with the retained correlations.
THEOREM CorrelationCorrect == Spec => [](NoStrandedCaller /\ QueueMirrorsPending)
<1>1. IInv => NoStrandedCaller /\ QueueMirrorsPending
  BY DEF IInv
<1> QED
  BY <1>1, InvCorrect, PTL

\* Revoke, replace and an incompatible hello leave no command behind that a later
\* poll could take.
THEOREM FencesCorrect == Spec => [](UntrustedIsFenced /\ QueuedOnlyWhenCompatible)
<1>1. IInv => UntrustedIsFenced /\ QueuedOnlyWhenCompatible
  BY DEF IInv
<1> QED
  BY <1>1, InvCorrect, PTL

\* The delivery poll never sleeps beside queued work, and delivery is never owned
\* by a poll that is gone.
THEOREM WakeupCorrect == Spec => [](NoLostWakeup /\ TokenHasOwner)
<1>1. IInv => NoLostWakeup /\ TokenHasOwner
  BY DEF IInv
<1> QED
  BY <1>1, InvCorrect, PTL

\* A command is handed to at most one poll, and a call returns only what the
\* bearer that took its command submitted.
THEOREM AtMostOnce == Spec => [](OfferedAtMostOnce /\ AnswerFromRecipient)
<1>1. IInv => OfferedAtMostOnce /\ AnswerFromRecipient
  BY DEF IInv
<1> QED
  BY <1>1, InvCorrect, PTL

\* A caller that is told a delivery state is told the truth.
THEOREM ReportCorrect == Spec => []DefiniteReportIsTrue
<1>1. IInv => DefiniteReportIsTrue
  BY DEF IInv
<1> QED
  BY <1>1, InvCorrect, PTL

\* max_pending_commands is never exceeded.
THEOREM CapacityCorrect == Spec => []CapacityRespected
<1>1. IInv => CapacityRespected
  BY DEF IInv
<1> QED
  BY <1>1, InvCorrect, PTL

\* Only a delivery step hands out a command, and then exactly one, the head of the
\* queue, with the bearer of the poll that takes it.
LEMMA OffersStep ==
  ASSUME IInv, [Next]_vars, NEW c \in Cmds, offers'[c] # offers[c]
  PROVE  /\ IsNext(c) /\ Running /\ Authenticated(offeredTo'[c])
         /\ DeliveryAction
<1> USE DEF IInv, TypeOK, channelVars, callVars, handovers, history
<1>1. DeliveryAction
  <2>1. CASE FenceAction
    BY <2>1 DEF FenceAction, Close, RevokeExecutor, ReplaceExecutor,
      ResetQueued, FenceChannel, InterruptChannel
  <2>2. CASE HelloAction
    BY <2>2 DEF HelloAction, Hello
  <2>3. CASE ResultAction
    BY <2>3 DEF ResultAction, SubmitResult, AwaitsResult
  <2>4. CASE CallAction \/ CallerAction
    BY <2>4 DEF CallAction, Call, CallerAction, Resume, Interrupt
  <2>5. CASE PollEnds
    BY <2>5 DEF PollEnds, WokenPollEnds, PollTimesOut, LeavePoll
  <2>6. CASE QuietAction
    BY <2>6 DEF QuietAction, Start, PutExecutor, PresenceLapses, Heartbeat, vars
  <2> QED
    BY NextCases, <2>1, <2>2, <2>3, <2>4, <2>5, <2>6
<1>2. PICK p \in Polls, k \in Creds \cup {NoCred} :
           /\ OfferNext(p, k) \/ AwaitWork(p, k)
           /\ Running /\ Authenticated(k)
  BY <1>1 DEF DeliveryAction, OpenPoll, WokenPollPasses, MayDeliver
<1>3. OfferNext(p, k)
  BY <1>2 DEF AwaitWork
<1>4. offeredTo'[c] = k /\ IsNext(c)
  BY <1>3 DEF OfferNext
<1> QED
  BY <1>1, <1>2, <1>4

\* Commands leave for the executor in the order in which they were called.
THEOREM CallOrder == Spec => OfferedInCallOrder
<1>1. IInv /\ [Next]_vars =>
        [\A c, d \in Cmds : offers'[c] # offers[c] /\ pending[d] = "queued"
                              => stamp[c] <= stamp[d]]_vars
  BY OffersStep DEF IInv, QueueMirrorsPending, Queued, IsNext
<1> QED
  BY <1>1, InvCorrect, PTL DEF Spec, OfferedInCallOrder

\* A poll that a hello or a fence has overtaken ends without a command: the step that
\* hands one out admits a poll anew, or is a pass of the poll that owns delivery and
\* whose bearer, by SupersededIsFenced, nothing has overtaken.
THEOREM SupersededTakesNothing == Spec => SupersededPollTakesNothing
<1> DEFINE A == \A p \in superseded : poll'[p].status = "idle" => offers' = offers
<1>1. ASSUME IInv, [Next]_vars PROVE [A]_vars
  <2> SUFFICES ASSUME offers' # offers, NEW p \in superseded, poll'[p].status = "idle"
               PROVE  FALSE
    OBVIOUS
  <2>1. TypeOK /\ TypeOK' /\ SupersededIsFenced /\ PollBearersAreKnown
    BY <1>1, TypeStep DEF IInv
  <2>2. PICK c \in Cmds : offers'[c] # offers[c]
    BY <2>1 DEF TypeOK
  <2>3. DeliveryAction
    BY <1>1, <2>2, OffersStep
  <2>4. PICK q \in Polls : /\ \/ poll[q].status = "idle"
                              \/ token = q /\ Running /\ Authenticated(poll[q].cred)
                           /\ \A o \in Polls : o # q => poll'[o] = poll[o]
    BY <2>1, <2>3 DEF DeliveryAction, OpenPoll, WokenPollPasses, MayDeliver, OfferNext,
      AwaitWork, TypeOK
  <2>5. p \in Polls /\ poll[p].status # "idle"
    BY <2>1 DEF TypeOK, SupersededIsFenced
  <2>6. p = q /\ token = p /\ Running /\ Authenticated(poll[p].cred)
    BY <2>4, <2>5
  <2> QED
    BY <2>1, <2>6 DEF SupersededIsFenced, PollBearersAreKnown, Running, Authenticated
<1> QED
  BY <1>1, InvCorrect, PTL DEF Spec, SupersededPollTakesNothing

\* A command is handed out only while Control runs, to the current unrevoked
\* bearer, and to a runtime that matches.
THEOREM OfferFence == Spec => OfferIsFenced
<1>1. ASSUME IInv, [Next]_vars, NEW c \in Cmds, offers'[c] # offers[c]
      PROVE  Running /\ Authenticated(offeredTo'[c]) /\ hello = "match"
  <2>1. c \in Queued
    BY <1>1, OffersStep DEF IsNext, Queued
  <2> QED
    BY <1>1, <2>1, OffersStep DEF IInv, QueuedOnlyWhenCompatible
<1>2. IInv /\ [Next]_vars =>
        [\A c \in Cmds : offers'[c] # offers[c] =>
           /\ Running /\ Authenticated(offeredTo'[c]) /\ hello = "match"]_vars
  BY <1>1
<1> QED
  BY <1>2, InvCorrect, PTL DEF Spec, OfferIsFenced

----------------------------------------------------------------------------
(* The transport implements the command contract *)

\* A command's place in the contract is determined by what Control retains.
LEMMA PhaseOf ==
  ASSUME IInv, NEW c \in Cmds
  PROVE  /\ pending[c] # "absent" => Phase(c) = pending[c]
         /\ Phase(c) = "new" <=> caller[c] = "idle"
         /\ Phase(c) = "queued" <=> pending[c] = "queued"
         /\ Phase(c) = "offered" <=> pending[c] = "offered"
         /\ Phase(c) = "answered" <=> future[c] = "result"
         /\ Outcome(c) = "none" <=> caller[c] \in {"idle", "waiting"}
  BY DEF IInv, TypeOK, NoStrandedCaller, FreshCalls, Phase, Outcome

\* A step that settles a set of retained correlations and nothing else drops
\* exactly those commands.
LEMMA SettleDrops ==
  ASSUME IInv, NEW gone, gone \subseteq Retained, NEW state, Settle(gone, state),
         UNCHANGED <<caller, answeredBy>>
  PROVE  Contract!Next
<1>1. \A c \in gone : Phase(c) \in {"queued", "offered"} /\ c \in Cmds
  BY PhaseOf DEF IInv, TypeOK, Retained
<1>2. \A c \in Cmds : Phase(c)' = IF c \in gone THEN "dropped" ELSE Phase(c)
  BY DEF IInv, TypeOK, FreshCalls, NoStrandedCaller, Retained, Settle, Phase
<1>3. \A c \in Cmds : Outcome(c)' = Outcome(c)
  BY DEF Outcome
<1>4. Contract!Drop(gone)
  BY <1>1, <1>2, <1>3 DEF Contract!Drop, Contract!Live
<1> QED
  BY <1>1, <1>4 DEF Contract!Next

\* Every step of the transport is a step of the contract or changes none of it.
LEMMA ContractStep ==
  ASSUME IInv, [Next]_vars
  PROVE  [Contract!Next]_(Contract!vars)
<1> USE DEF channelVars, callVars, handovers, history
<1>1. CASE FenceAction
  <2>1. \E gone \in SUBSET Retained : \E state : Settle(gone, state)
    BY <1>1 DEF FenceAction, Close, RevokeExecutor, ReplaceExecutor,
      ResetQueued, FenceChannel, InterruptChannel, Queued, Retained
  <2>2. UNCHANGED <<caller, answeredBy>>
    BY <1>1 DEF FenceAction, Close, RevokeExecutor, ReplaceExecutor,
      ResetQueued, FenceChannel, InterruptChannel
  <2> QED
    BY <2>1, <2>2, SettleDrops
<1>2. CASE HelloAction
  <2>1. UNCHANGED <<caller, answeredBy>>
    BY <1>2 DEF HelloAction, Hello
  <2>2. CASE \E state : Settle(queue \cap Queued, state)
    BY <2>1, <2>2, SettleDrops DEF Queued, Retained
  <2>3. CASE UNCHANGED pending
    BY <2>1, <2>3 DEF Contract!vars, Phase, Outcome
  <2> QED
    BY <1>2, <2>2, <2>3 DEF HelloAction, Hello, DropIncompatible
<1>3. CASE DeliveryAction
  <2>1. PICK p \in Polls, k \in Creds \cup {NoCred} :
           /\ OfferNext(p, k) \/ AwaitWork(p, k)
           /\ UNCHANGED <<caller, answeredBy>>
    <3>1. \A p \in Polls : poll[p].cred \in Creds \cup {NoCred}
      BY DEF IInv, TypeOK
    <3> QED
      BY <1>3, <3>1
      DEF DeliveryAction, OpenPoll, WokenPollPasses, OfferNext, AwaitWork
  <2>2. CASE OfferNext(p, k)
    <3>1. PICK c \in queue : /\ IsNext(c)
                             /\ pending' = [pending EXCEPT ![c] = "offered"]
      BY <2>2 DEF OfferNext, TakeFromQueue
    <3>2. c \in Cmds /\ Phase(c) = "queued" /\ caller[c] = "waiting"
      BY <3>1, PhaseOf DEF IInv, TypeOK, IsNext, NoStrandedCaller
    <3>3. \A d \in Cmds : Phase(d)' = IF d = c THEN "offered" ELSE Phase(d)
      BY <2>1, <3>1, <3>2 DEF IInv, TypeOK, Phase
    <3>4. \A d \in Cmds : Outcome(d)' = Outcome(d)
      BY <2>1 DEF Outcome
    <3>5. Contract!Offer(c)
      BY <3>2, <3>3, <3>4 DEF Contract!Offer
    <3> QED
      BY <3>2, <3>5 DEF Contract!Next
  <2>3. CASE AwaitWork(p, k)
    BY <2>1, <2>3 DEF AwaitWork, Contract!vars, Phase, Outcome
  <2> QED
    BY <2>1, <2>2, <2>3
<1>4. CASE ResultAction
  <2>1. PICK k \in Creds, c \in Cmds : SubmitResult(k, c)
    BY <1>4 DEF ResultAction
  <2>2. \A d \in Cmds : Outcome(d)' = Outcome(d)
    BY <2>1 DEF SubmitResult, Outcome
  <2>3. CASE pending[c] = "offered"
    <3>1. Phase(c) = "offered" /\ caller[c] = "waiting"
      BY <2>3, PhaseOf DEF IInv, NoStrandedCaller
    <3>2. \A d \in Cmds : Phase(d)' = IF d = c THEN "answered" ELSE Phase(d)
      BY <2>1, <2>3, <3>1, NoCredAssumption DEF SubmitResult, AwaitsResult, IInv,
        TypeOK, Phase
    <3>3. Contract!Answer(c)
      BY <2>2, <3>1, <3>2 DEF Contract!Answer
    <3> QED
      BY <3>3 DEF Contract!Next
  <2>4. CASE pending[c] # "offered"
    BY <2>1, <2>4 DEF SubmitResult, AwaitsResult, Contract!vars, Phase, Outcome
  <2> QED
    BY <2>3, <2>4
<1>5. CASE CallAction
  <2>1. PICK c \in Cmds : Call(c)
    BY <1>5 DEF CallAction
  <2>2. Phase(c) = "new"
    BY <2>1, PhaseOf DEF Call
  <2>3. \A d \in Cmds : Phase(d)' = IF d = c THEN "queued" ELSE Phase(d)
    <3>1. caller'[c] = "waiting" /\ pending'[c] = "queued"
      BY <2>1 DEF Call, IInv, TypeOK
    <3>2. \A d \in Cmds \ {c} : /\ pending'[d] = pending[d]
                                /\ caller'[d] = caller[d]
                                /\ answeredBy'[d] = answeredBy[d]
      BY <2>1 DEF Call, IInv, TypeOK
    <3>3. Phase(c)' = "queued"
      BY <3>1 DEF Phase
    <3>4. \A d \in Cmds \ {c} : Phase(d)' = Phase(d)
      BY <3>2 DEF Phase
    <3> QED
      BY <3>3, <3>4
  <2>4. \A d \in Cmds : Outcome(d)' = Outcome(d)
    BY <2>1 DEF Call, IInv, TypeOK, Outcome
  <2>5. Contract!Submit(c)
    BY <2>2, <2>3, <2>4 DEF Contract!Submit
  <2> QED
    BY <2>5 DEF Contract!Next
<1>6. CASE CallerAction
  <2>1. PICK c \in Cmds : Resume(c) \/ Interrupt(c)
    BY <1>6 DEF CallerAction
  <2>2. caller[c] = "waiting" /\ Outcome(c) = "none" /\ Phase(c) # "new"
    BY <2>1, PhaseOf DEF Resume, Interrupt
  <2>3. CASE Resume(c) /\ future[c] = "result"
    <3>1. Phase(c) = "answered"
      BY <2>3, PhaseOf
    <3>2. \A d \in Cmds : Phase(d)' = Phase(d)
      BY <2>2, <2>3 DEF Resume, IInv, TypeOK, Phase
    <3>3. \A d \in Cmds : Outcome(d)' = IF d = c THEN "reply" ELSE Outcome(d)
      BY <2>3 DEF Resume, IInv, TypeOK, Outcome
    <3>4. Contract!Return(c)
      BY <2>2, <3>1, <3>2, <3>3 DEF Contract!Return
    <3> QED
      BY <3>4 DEF Contract!Next
  <2>4. CASE (Resume(c) /\ future[c] = "error") \/ Interrupt(c)
    <3>1. pending'[c] = "absent" /\ caller'[c] \in {"raised", "interrupted"}
      BY <2>2, <2>4 DEF Resume, Interrupt, IInv, TypeOK, NoStrandedCaller
    <3>2. \A d \in Cmds \ {c} : /\ pending'[d] = pending[d]
                                /\ caller'[d] = caller[d]
      BY <2>4 DEF Resume, Interrupt, IInv, TypeOK
    <3>3. UNCHANGED answeredBy
      BY <2>4 DEF Resume, Interrupt
    <3>4. \A d \in Cmds \ {c} : Phase(d)' = Phase(d) /\ Outcome(d)' = Outcome(d)
      BY <3>2, <3>3 DEF Phase, Outcome
    <3>5. Outcome(c)' = "failure"
      BY <3>1 DEF Outcome
    <3>6. Phase(c)' = IF Phase(c) \in {"queued", "offered"} THEN "dropped"
                                                            ELSE Phase(c)
      BY <2>2, <3>1, <3>3 DEF Phase, IInv, TypeOK, NoStrandedCaller, FreshCalls
    <3>7. Contract!Fail(c)
      BY <2>2, <3>4, <3>5, <3>6 DEF Contract!Fail, Contract!Live
    <3> QED
      BY <3>7 DEF Contract!Next
  <2> QED
    BY <2>1, <2>3, <2>4 DEF Resume
<1>7. CASE PollEnds \/ QuietAction
  <2>1. UNCHANGED <<pending, caller, answeredBy>>
    BY <1>7 DEF PollEnds, WokenPollEnds, PollTimesOut, LeavePoll, QuietAction,
      Start, PutExecutor, PresenceLapses, Heartbeat, vars
  <2> QED
    BY <2>1 DEF Contract!vars, Phase, Outcome
<1> QED
  BY NextCases, <1>1, <1>2, <1>3, <1>4, <1>5, <1>6, <1>7

\* The transport implements the at-most-once command contract, for every number
\* of commands, polls and bearers.
THEOREM Refinement == Spec => ImplementsContract
<1>1. Init => Contract!Init
  BY DEF Init, Contract!Init, Phase, Outcome
<1> QED
  BY <1>1, ContractStep, InvCorrect, PTL DEF Spec, ImplementsContract, Contract!Spec
=============================================================================
