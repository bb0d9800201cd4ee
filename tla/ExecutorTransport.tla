------------------------- MODULE ExecutorTransport -------------------------
(***************************************************************************)
(* Control's in-memory coordination of one paired Executor                 *)
(* (src/src/workgate/control/executor_transport.py).  A tool call queues a *)
(* command and waits on a Future; the Executor takes commands with a long  *)
(* poll and submits results; hello, revoke, replace, owner reset and close *)
(* fence the work that is still retained.                                  *)
(*                                                                         *)
(* Every "async with channel.lock" body of the class runs without          *)
(* suspending, and no handler awaits anything while it holds the lock.  A  *)
(* handler therefore is one atomic step up to its first real suspension:   *)
(* a poll suspends in wake.wait(), a call suspends on its Future.  These   *)
(* two are the only operations that take several steps.                    *)
(*                                                                         *)
(* Distinct executors share nothing but the start/close flag, so the       *)
(* module follows one executor and its channel.                            *)
(***************************************************************************)
EXTENDS Naturals, FiniteSets

CONSTANTS
  Cmds,        \* commands: new_command_id() is fresh, so each is called once
  Polls,       \* delivery poll requests that may be open in Control at a time
  Creds,       \* executor bearers ever issued to this executor
  NoCred,      \* no trust record yet
  NoPoll,      \* channel.poll_token is None
  MaxPending   \* max_pending_commands

ASSUME MaxPendingAssumption == MaxPending \in Nat \ {0}
ASSUME CmdsAssumption == IsFiniteSet(Cmds)
ASSUME NoCredAssumption == NoCred \notin Creds
ASSUME NoPollAssumption == NoPoll \notin Polls

VARIABLES
  lifecycle,   \* _started/_closed: "new", "started", "closed"
  trust,       \* the trust record: current bearer, revoked flag, retired bearers
  online,      \* last_activity is at most offline_after_s old
  hello,       \* channel.hello: "none", or its runtime "match"es Control's or not
  token,       \* channel.poll_token: the poll that owns delivery
  poll,        \* the poll requests inside Control and the bearer of each
  pending,     \* channel.pending: "absent", "queued" or "offered" for each command
  queue,       \* channel.queue as a set; its order is the order of stamp
  stamp,       \* position at which a command was appended to channel.queue
  calls,       \* number of commands appended so far
  future,      \* the Future of each call
  caller,      \* the coroutine inside call()
  delivery,    \* delivery state carried by the exception the caller sees
  offers,      \* history: how often a command was handed to a poll
  offeredTo,   \* history: the bearer of the poll that took a command
  answeredBy,  \* history: the bearer that submitted the accepted result
  superseded   \* history: the open polls that a hello or a fence has overtaken

channelVars == <<pending, queue, stamp, calls>>
callVars    == <<future, caller, delivery>>
handovers   == <<offers, offeredTo, answeredBy>>
history     == <<handovers, superseded>>
vars == <<lifecycle, trust, online, hello, token, poll, channelVars,
          callVars, history>>

----------------------------------------------------------------------------
(* Type invariant and initial state *)

TypeOK ==
  /\ lifecycle \in {"new", "started", "closed"}
  /\ trust \in [cred : Creds \cup {NoCred}, revoked : BOOLEAN,
                retired : SUBSET Creds]
  /\ online \in BOOLEAN
  /\ hello \in {"none", "match", "mismatch"}
  /\ token \in Polls \cup {NoPoll}
  /\ poll \in [Polls -> [status : {"idle", "waiting", "woken"},
                         cred : Creds \cup {NoCred}]]
  /\ pending \in [Cmds -> {"absent", "queued", "offered"}]
  /\ queue \in SUBSET Cmds
  /\ stamp \in [Cmds -> Nat]
  /\ calls \in Nat
  /\ future \in [Cmds -> {"none", "open", "result", "error", "cancelled"}]
  /\ caller \in [Cmds -> {"idle", "waiting", "returned", "raised", "interrupted"}]
  /\ delivery \in [Cmds -> {"none", "queued", "offered"}]
  /\ offers \in [Cmds -> Nat]
  /\ offeredTo \in [Cmds -> Creds \cup {NoCred}]
  /\ answeredBy \in [Cmds -> Creds \cup {NoCred}]
  /\ superseded \in SUBSET Polls

IdlePoll == [status |-> "idle", cred |-> NoCred]

Init ==
  /\ lifecycle = "new"
  /\ trust = [cred |-> NoCred, revoked |-> FALSE, retired |-> {}]
  /\ online = FALSE
  /\ hello = "none"
  /\ token = NoPoll
  /\ poll = [p \in Polls |-> IdlePoll]
  /\ pending = [c \in Cmds |-> "absent"]
  /\ queue = {}
  /\ stamp = [c \in Cmds |-> 0]
  /\ calls = 0
  /\ future = [c \in Cmds |-> "none"]
  /\ caller = [c \in Cmds |-> "idle"]
  /\ delivery = [c \in Cmds |-> "none"]
  /\ offers = [c \in Cmds |-> 0]
  /\ offeredTo = [c \in Cmds |-> NoCred]
  /\ answeredBy = [c \in Cmds |-> NoCred]
  /\ superseded = {}

----------------------------------------------------------------------------
(* Helpers *)

Running == lifecycle = "started"

\* The bearer of a request is the current, unrevoked one.
Authenticated(k) == trust.cred = k /\ k # NoCred /\ ~trust.revoked

Trusted == trust.cred # NoCred /\ ~trust.revoked

Retained == {c \in Cmds : pending[c] # "absent"}
Queued   == {c \in Cmds : pending[c] = "queued"}

\* The delivery polls that are inside Control.
OpenPolls == {p \in Polls : poll[p].status # "idle"}

\* channel.wake.set(): every coroutine suspended in wake.wait() is made ready
\* at once, and a later clear() does not take that back.
WokenPolls_Mutant == poll   \* nobody is woken

WokenPolls ==
  [p \in Polls |-> IF poll[p].status = "waiting"
                   THEN [poll[p] EXCEPT !.status = "woken"] ELSE poll[p]]

\* Drop the correlations in "gone"; their open Futures get an exception that
\* carries "state" (None is "none").
Settle_Strands(gone, state) ==   \* forgets to resolve the Futures
  /\ pending' = [c \in Cmds |-> IF c \in gone THEN "absent" ELSE pending[c]]
  /\ UNCHANGED <<future, delivery>>

Settle(gone, state) ==
  /\ pending' = [c \in Cmds |-> IF c \in gone THEN "absent" ELSE pending[c]]
  /\ future' = [c \in Cmds |-> IF c \in gone /\ future[c] = "open"
                               THEN "error" ELSE future[c]]
  /\ delivery' = [c \in Cmds |-> IF c \in gone /\ future[c] = "open"
                                 THEN state[c] ELSE delivery[c]]

\* The command at the head of the queue once the entries that are no longer
\* queued have been popped.
IsNext_Unordered(c) == c \in queue /\ pending[c] = "queued"   \* any entry

IsNext(c) ==
  /\ c \in queue
  /\ pending[c] = "queued"
  /\ \A d \in queue : pending[d] = "queued" => stamp[c] <= stamp[d]

\* Take the head of the queue: entries before it are popped with it.
TakeFromQueue_Peek(c) == UNCHANGED <<pending, queue>>   \* reads without popping

TakeFromQueue(c) ==
  /\ pending' = [pending EXCEPT ![c] = "offered"]
  /\ queue' = {d \in queue : stamp[d] > stamp[c]}

----------------------------------------------------------------------------
(* Process lifecycle and trust *)

Start ==
  /\ lifecycle # "closed"
  /\ lifecycle' = "started"
  /\ UNCHANGED <<trust, online, hello, token, poll, channelVars, callVars,
                 history>>

\* _interrupt_channel: nothing stays retained.
InterruptChannel_KeepsQueue(state) ==   \* leaves the ids in the deque
  /\ Settle(Retained, state)
  /\ UNCHANGED <<queue, stamp, calls, caller>>

InterruptChannel(state) ==
  /\ queue' = {}
  /\ Settle(Retained, state)
  /\ UNCHANGED <<stamp, calls, caller>>

\* aclose interrupts with ExecutorTransportClosedError, which carries no
\* delivery state.
Close ==
  /\ lifecycle # "closed"
  /\ lifecycle' = "closed"
  /\ InterruptChannel([c \in Cmds |-> "none"])
  /\ poll' = WokenPolls
  /\ superseded' = OpenPolls
  /\ UNCHANGED <<trust, online, hello, token, handovers>>

\* Pairing approves a new executor.
PutExecutor(k) ==
  /\ Running
  /\ trust.cred = NoCred
  /\ trust' = [trust EXCEPT !.cred = k]
  /\ UNCHANGED <<lifecycle, online, hello, token, poll, channelVars, callVars,
                 history>>

\* What revoke and replace do to the channel after the trust record is durable.
\* The poll token is left alone: the poll that owns it fails to
\* re-authenticate when it wakes and clears the token itself.
FenceChannel ==
  /\ InterruptChannel(pending)
  /\ online' = FALSE
  /\ hello' = "none"
  /\ poll' = WokenPolls
  /\ superseded' = OpenPolls

RevokeExecutor ==
  /\ Running
  /\ trust.cred # NoCred
  /\ trust' = [trust EXCEPT !.revoked = TRUE]
  /\ FenceChannel
  /\ UNCHANGED <<lifecycle, token, handovers>>

ReplaceExecutor(k) ==
  /\ Running
  /\ trust.cred # NoCred
  /\ k \notin trust.retired \cup {trust.cred}
  /\ trust' = [cred |-> k, revoked |-> FALSE,
               retired |-> trust.retired \cup {trust.cred}]
  /\ FenceChannel
  /\ UNCHANGED <<lifecycle, token, handovers>>

----------------------------------------------------------------------------
(* Presence *)

\* _interrupt_queued_incompatible.
DropIncompatible(runtime) ==
  IF runtime = "mismatch"
  THEN /\ queue' = {}
       /\ Settle(queue \cap Queued, [c \in Cmds |-> "queued"])
  ELSE UNCHANGED <<queue, pending, future, delivery>>

\* A full hello: it takes delivery away from an older poll, publishes the
\* runtime, and drops queued work the runtime cannot be given.
Hello_LeavesToken(k, runtime) ==   \* leaves delivery with the older poll
  /\ Running
  /\ Authenticated(k)
  /\ hello' = runtime
  /\ online' = TRUE
  /\ DropIncompatible(runtime)
  /\ superseded' = OpenPolls
  /\ UNCHANGED <<lifecycle, trust, token, poll, stamp, calls, caller, handovers>>

Hello(k, runtime) ==
  /\ Running
  /\ Authenticated(k)
  /\ token' = NoPoll
  /\ poll' = IF token = NoPoll THEN poll ELSE WokenPolls
  /\ hello' = runtime
  /\ online' = TRUE
  /\ DropIncompatible(runtime)
  /\ superseded' = OpenPolls
  /\ UNCHANGED <<lifecycle, trust, stamp, calls, caller, handovers>>

Heartbeat(k) ==
  /\ Running
  /\ Authenticated(k)
  /\ online' = TRUE
  /\ UNCHANGED <<lifecycle, trust, hello, token, poll, channelVars, callVars,
                 history>>

\* offline_after_s passes without an authenticated request.
PresenceLapses ==
  /\ online
  /\ online' = FALSE
  /\ UNCHANGED <<lifecycle, trust, hello, token, poll, channelVars, callVars,
                 history>>

----------------------------------------------------------------------------
(* Delivery polls *)

\* _offer_next found a command: the poll returns it and gives up the token.
OfferNext(p, k) ==
  \E c \in queue :
    /\ IsNext(c)
    /\ TakeFromQueue(c)
    /\ offers' = [offers EXCEPT ![c] = @ + 1]
    /\ offeredTo' = [offeredTo EXCEPT ![c] = k]
    /\ poll' = [poll EXCEPT ![p] = IdlePoll]
    /\ token' = NoPoll
    /\ superseded' = superseded \ {p}
    /\ UNCHANGED <<stamp, calls, answeredBy>>

\* _offer_next found nothing: the poll clears wake and suspends, still owning
\* delivery.
AwaitWork(p, k) ==
  /\ queue \cap Queued = {}
  /\ queue' = {}
  /\ poll' = [poll EXCEPT ![p] = [status |-> "waiting", cred |-> k]]
  /\ token' = p
  /\ UNCHANGED <<pending, stamp, calls, history>>

\* A poll ends without a command; its finally clause drops a token it still owns.
LeavePoll(p) ==
  /\ poll' = [poll EXCEPT ![p] = IdlePoll]
  /\ token' = IF token = p THEN NoPoll ELSE token
  /\ superseded' = superseded \ {p}

\* A poll is admitted and makes its first pass in the same step.
OpenPoll(p, k) ==
  /\ poll[p].status = "idle"
  /\ Running
  /\ Authenticated(k)
  /\ hello = "match"
  /\ token = NoPoll
  /\ online' = TRUE
  /\ OfferNext(p, k) \/ AwaitWork(p, k)
  /\ UNCHANGED <<lifecycle, trust, hello, callVars>>

\* What a woken poll checks before it offers again.  The runtime is not compared.
MayDeliver(p) == token = p /\ Running /\ Authenticated(poll[p].cred)

\* A woken poll that lost delivery, or may no longer have it, ends.
WokenPollEnds(p) ==
  /\ poll[p].status = "woken"
  /\ ~MayDeliver(p)
  /\ LeavePoll(p)
  /\ UNCHANGED <<lifecycle, trust, online, hello, channelVars, callVars,
                 handovers>>

\* A woken poll that still owns delivery makes another pass.
WokenPollPasses(p) ==
  /\ poll[p].status = "woken"
  /\ MayDeliver(p)
  /\ online' = TRUE
  /\ OfferNext(p, poll[p].cred) \/ AwaitWork(p, poll[p].cred)
  /\ UNCHANGED <<lifecycle, trust, hello, callVars>>

\* The wait times out (before or after the wake-up was scheduled), or the HTTP
\* handler is cancelled.
PollTimesOut(p) ==
  /\ poll[p].status # "idle"
  /\ LeavePoll(p)
  /\ UNCHANGED <<lifecycle, trust, online, hello, channelVars, callVars,
                 handovers>>

----------------------------------------------------------------------------
(* Calls and results *)

HasCapacity == Cardinality(Retained) < MaxPending

Call(c) ==
  /\ caller[c] = "idle"
  /\ Running
  /\ Trusted
  /\ online
  /\ hello = "match"
  /\ HasCapacity
  /\ pending' = [pending EXCEPT ![c] = "queued"]
  /\ queue' = queue \cup {c}
  /\ calls' = calls + 1
  /\ stamp' = [stamp EXCEPT ![c] = calls']
  /\ future' = [future EXCEPT ![c] = "open"]
  /\ caller' = [caller EXCEPT ![c] = "waiting"]
  /\ poll' = WokenPolls
  /\ UNCHANGED <<lifecycle, trust, online, hello, token, delivery, history>>

\* The caller resumes with its resolved Future.
Resume(c) ==
  /\ caller[c] = "waiting"
  /\ future[c] \in {"result", "error"}
  /\ caller' = [caller EXCEPT ![c] = IF future[c] = "result"
                                     THEN "returned" ELSE "raised"]
  /\ UNCHANGED <<lifecycle, trust, online, hello, token, poll, channelVars,
                 future, delivery, history>>

\* The caller is cancelled or times out and runs _abandon.  The Future may
\* already be resolved: the interruption can arrive before the caller resumes.
Interrupt(c) ==
  /\ caller[c] = "waiting"
  /\ caller' = [caller EXCEPT ![c] = "interrupted"]
  /\ delivery' = [delivery EXCEPT ![c] = IF pending[c] = "absent"
                                         THEN "none" ELSE pending[c]]
  /\ pending' = [pending EXCEPT ![c] = "absent"]
  /\ queue' = IF pending[c] = "queued" THEN queue \ {c} ELSE queue
  /\ future' = [future EXCEPT ![c] = IF pending[c] # "absent" /\ @ = "open"
                                     THEN "cancelled" ELSE @]
  /\ UNCHANGED <<lifecycle, trust, online, hello, token, poll, stamp, calls,
                 history>>

AwaitsResult_Mutant(c) == pending[c] # "absent"   \* queued commands too

AwaitsResult(c) == pending[c] = "offered"

\* A result is accepted only for an offered command; any authenticated
\* submission counts as presence, UNKNOWN_COMMAND included.
SubmitResult(k, c) ==
  /\ Running
  /\ Authenticated(k)
  /\ online' = TRUE
  /\ \/ /\ AwaitsResult(c)
        /\ pending' = [pending EXCEPT ![c] = "absent"]
        /\ future' = [future EXCEPT ![c] = IF @ = "open" THEN "result" ELSE @]
        /\ answeredBy' = [answeredBy EXCEPT ![c] = k]
     \/ /\ ~AwaitsResult(c)
        /\ UNCHANGED <<pending, future, answeredBy>>
  /\ UNCHANGED <<lifecycle, trust, hello, token, poll, queue, stamp, calls,
                 caller, delivery, offers, offeredTo, superseded>>

\* The owner resets the queue; offered commands are left to finish.
ResetQueued ==
  /\ Running
  /\ Trusted
  /\ queue' = queue \ Queued
  /\ Settle(Queued, [c \in Cmds |-> "queued"])
  /\ UNCHANGED <<lifecycle, trust, online, hello, token, poll, stamp, calls,
                 caller, history>>

----------------------------------------------------------------------------
(* Specification *)

ExecutorRequest(k) ==
  \/ \E runtime \in {"match", "mismatch"} : Hello(k, runtime)
  \/ Heartbeat(k)
  \/ \E p \in Polls : OpenPoll(p, k)
  \/ \E c \in Cmds : SubmitResult(k, c)

PollStep(p) == WokenPollEnds(p) \/ WokenPollPasses(p) \/ PollTimesOut(p)

CallStep(c) == Call(c) \/ Resume(c) \/ Interrupt(c)

OwnerAction ==
  \/ Start \/ Close \/ RevokeExecutor \/ ResetQueued
  \/ \E k \in Creds : PutExecutor(k) \/ ReplaceExecutor(k)

Next ==
  \/ OwnerAction
  \/ PresenceLapses
  \/ \E k \in Creds : ExecutorRequest(k)
  \/ \E p \in Polls : PollStep(p)
  \/ \E c \in Cmds : CallStep(c)

Spec == Init /\ [][Next]_vars

\* The event loop runs every coroutine that is ready.  No timer is assumed to fire
\* and no executor to poll.
LoopFairness ==
  /\ \A p \in Polls : WF_vars(WokenPollEnds(p) \/ WokenPollPasses(p))
  /\ \A c \in Cmds : WF_vars(Resume(c))

FairSpec == Spec /\ LoopFairness

----------------------------------------------------------------------------
(* Safety *)

\* The deque and the dictionary never disagree about what is queued: an id left
\* behind by abandon, reset or hello would be offered after its caller gave up,
\* a missing one would never be offered.
QueueMirrorsPending == queue = Queued

\* No caller is stranded: a call() whose Future is still open is exactly one
\* whose correlation Control retains, so that a result, a fence or close can
\* still end it.
NoStrandedCaller ==
  \A c \in Cmds : (pending[c] # "absent")
                     <=> (caller[c] = "waiting" /\ future[c] = "open")

\* max_pending_commands bounds queued plus offered correlations.
CapacityRespected == Cardinality(Retained) <= MaxPending

\* Revocation, and the absence of trust, leave no command behind and no presence
\* or inventory through which a new one could be admitted.
UntrustedIsFenced == ~Trusted => Retained = {} /\ hello = "none"

\* Queued work exists only for an executor whose published runtime matches.
QueuedOnlyWhenCompatible == Queued # {} => hello = "match"

\* The poll that owns delivery never sleeps while there is something to offer.
NoLostWakeup ==
  token # NoPoll /\ poll[token].status = "waiting" => queue = {}

\* The right to deliver is never leaked: a poll owns it, so that the executor's
\* next poll is not refused for ever with "already has an active delivery poll".
TokenHasOwner == token # NoPoll => poll[token].status # "idle"

\* poll() marks a command "offered exactly once".
OfferedAtMostOnce ==
  \A c \in Cmds : /\ offers[c] <= 1
                  /\ pending[c] = "queued" => offers[c] = 0

\* "Accept a result only for this current bearer": a call returns only what
\* was submitted with the bearer whose poll took the command.
AnswerFromRecipient ==
  \A c \in Cmds : future[c] = "result" =>
                    offers[c] = 1 /\ answeredBy[c] = offeredTo[c]

\* A poll that was open when a hello was processed, or when revocation, replacement
\* or close fenced the channel, never takes a command, however late it runs on: its
\* HTTP client may be gone, and the command with it.  ("The old poll observes the
\* token mismatch before offering work and exits.")  A hello takes the token from it;
\* a fence leaves it the token, and relies on the bearer it was opened with.
SupersededPollTakesNothing ==
  [][\A p \in superseded : poll'[p].status = "idle" => offers' = offers]_vars

\* A poll takes a command only while Control runs, with the current unrevoked
\* bearer, and while the published runtime matches: the pass of a woken poll does
\* not compare the runtime, so the last part rests on what hello drops.
OfferIsFenced ==
  [][\A c \in Cmds : offers'[c] # offers[c] =>
       /\ Running /\ Authenticated(offeredTo'[c]) /\ hello = "match"]_vars

\* Commands are offered in the order in which they were called.
OfferedInCallOrder ==
  [][\A c, d \in Cmds :
       offers'[c] # offers[c] /\ pending[d] = "queued" => stamp[c] <= stamp[d]]_vars

\* A definite delivery state is never wrong: a call told "queued" was not and
\* will never be handed to the executor (create_session then forgets the session
\* it announced), a call told "offered" was.
DefiniteReportIsTrue ==
  \A c \in Cmds : /\ delivery[c] = "queued" => offers[c] = 0
                  /\ delivery[c] = "offered" => offers[c] = 1

----------------------------------------------------------------------------
(* Inductive invariant *)

\* A command that was not called has left no trace; a retained one is undecided.
FreshCalls ==
  \A c \in Cmds :
    /\ caller[c] = "idle" => /\ future[c] = "none" /\ offers[c] = 0
                              /\ answeredBy[c] = NoCred
    /\ caller[c] = "idle" \/ pending[c] # "absent" => delivery[c] = "none"
    /\ future[c] = "none" => caller[c] = "idle"
    /\ future[c] = "result" <=> answeredBy[c] # NoCred

\* Positions in the queue are distinct, so that popping the head pops one command.
DistinctStamps ==
  /\ \A c \in Cmds : stamp[c] <= calls
  /\ \A c, d \in queue : stamp[c] = stamp[d] => c = d

\* An offered command was taken by the bearer that is still current: replacing
\* the bearer dropped all others.
OfferedToCurrent ==
  \A c \in Cmds : pending[c] = "offered" =>
                    offers[c] = 1 /\ offeredTo[c] = trust.cred

\* A bearer that was replaced stays retired, and every open poll presented the
\* current one or a retired one.
PollBearersAreKnown ==
  /\ trust.cred \notin trust.retired /\ NoCred \notin trust.retired
  /\ trust.cred = NoCred => trust.retired = {} /\ OpenPolls = {}
  /\ \A p \in OpenPolls : poll[p].cred \in trust.retired \cup {trust.cred}

\* A superseded poll is still open, and if it owns delivery yet, a fence has taken
\* for good what it needs to use it.
SupersededIsFenced ==
  \A p \in superseded :
    /\ poll[p].status # "idle"
    /\ token = p => \/ lifecycle = "closed"
                    \/ poll[p].cred \in trust.retired
                    \/ trust.revoked

\* The conjunction that every step preserves.
IInv ==
  /\ TypeOK
  /\ QueueMirrorsPending /\ NoStrandedCaller /\ FreshCalls /\ DistinctStamps
  /\ UntrustedIsFenced /\ QueuedOnlyWhenCompatible
  /\ NoLostWakeup /\ TokenHasOwner /\ PollBearersAreKnown /\ SupersededIsFenced
  /\ OfferedAtMostOnce /\ OfferedToCurrent /\ AnswerFromRecipient
  /\ DefiniteReportIsTrue
  /\ CapacityRespected

----------------------------------------------------------------------------
(* Liveness *)

\* close() "interrupts ordinary RPC waiters and polls": nothing keeps waiting.
CloseFreesEveryone ==
  lifecycle = "closed" ~> /\ \A c \in Cmds : caller[c] # "waiting"
                          /\ \A p \in Polls : poll[p].status = "idle"

----------------------------------------------------------------------------
(* Refinement *)

Phase(c) ==
  IF pending[c] # "absent" THEN pending[c]
  ELSE IF caller[c] = "idle" THEN "new"
  ELSE IF answeredBy[c] # NoCred THEN "answered" ELSE "dropped"

Outcome(c) ==
  CASE caller[c] = "returned"                   -> "reply"
    [] caller[c] \in {"raised", "interrupted"} -> "failure"
    [] OTHER                                    -> "none"

Contract == INSTANCE CommandContract
              WITH phase <- [c \in Cmds |-> Phase(c)],
                   outcome <- [c \in Cmds |-> Outcome(c)]

\* Every behaviour of the transport is one that the at-most-once command
\* contract allows: polls, bearers, presence and fences never show through as a
\* second hand-over, a hand-over after the caller gave up, or an invented reply.
ImplementsContract == Contract!Spec

\* ... and every call whose command was answered or dropped ends.
ImplementsLiveContract == Contract!LiveSpec
=============================================================================
