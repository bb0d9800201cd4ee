----------------------------- MODULE StreamHub -----------------------------
(***************************************************************************)
(* The rendezvous of browser and executor terminal sockets in Control      *)
(* (src/src/workgate/control/streams.py) with its callers: the executor's  *)
(* websocket handler (control/http/stream_routes.py), the attach request   *)
(* of the web UI (ui/http/terminals.py), the owner's fencing of an         *)
(* executor, whose callback is close_executor, and the hub's own shutdown. *)
(*                                                                         *)
(* No body under the hub's lock suspends, so each is one action; what runs *)
(* between two of them are the sends and closes of sockets.                *)
(***************************************************************************)
EXTENDS Naturals, FiniteSets

CONSTANTS
  Streams,      \* stream ids
  Executors,    \* executor ids
  Handlers,     \* websocket connections opened by executors
  Sweeps,       \* runs of close_executor and aclose
  None,
  MaxStreams    \* max_streams and the UI's terminal connection limit

ASSUME MaxStreamsAssumption == MaxStreams \in Nat \ {0}
ASSUME NoneAssumption == None \notin Executors \cup Streams \cup Handlers
ASSUME FiniteStreams == IsFiniteSet(Streams) /\ IsFiniteSet(Sweeps)

VARIABLES
  stream,    \* _streams, with the streams that were removed
  handler,   \* the executor-side handler of each websocket
  sweep,     \* close_executor and aclose in progress
  slots,     \* slots reserved in the UI's connection registry
  fences,    \* how often the trust of each executor was revoked or replaced
  closed     \* _closed

vars == <<stream, handler, sweep, slots, fences, closed>>

Sides == {"browser", "executor"}

Unused == [state |-> "unused", executor |-> None, born |-> 0, attach |-> "none",
           claimed |-> FALSE, peer |-> None, ready |-> FALSE, lapsed |-> FALSE,
           expiry |-> FALSE, relay |-> "none", sockets |-> {}]

NoHandler == [stage |-> "none", stream |-> None]

NoSweep == [stage |-> "none", executor |-> None, todo |-> {}, now |-> None, seen |-> 0]

TypeOK ==
  /\ stream \in [Streams ->
       [state : {"unused", "live", "gone"}, executor : Executors \cup {None},
        born : Nat, attach : {"none", "calling", "granted", "failed"},
        claimed : BOOLEAN, peer : Handlers \cup {None}, ready : BOOLEAN,
        lapsed : BOOLEAN, expiry : BOOLEAN,
        relay : {"none", "running", "stopped", "orphaned"}, sockets : SUBSET Sides]]
  /\ handler \in [Handlers ->
       [stage : {"none", "authenticated", "claimed", "greeted", "waiting", "over"},
        stream : Streams \cup {None}]]
  /\ sweep \in [Sweeps ->
       [stage : {"none", "closing", "done", "cancelled"}, executor : Executors \cup {None},
        todo : SUBSET Streams, now : Streams \cup {None}, seen : Nat]]
  /\ slots \in Nat
  /\ fences \in [Executors -> Nat]
  /\ closed \in BOOLEAN

Init ==
  /\ stream = [s \in Streams |-> Unused]
  /\ handler = [h \in Handlers |-> NoHandler]
  /\ sweep = [f \in Sweeps |-> NoSweep]
  /\ slots = 0
  /\ fences = [e \in Executors |-> 0]
  /\ closed = FALSE

----------------------------------------------------------------------------
(* Closing and pairing *)

IsLive(s) == stream[s].state = "live"
LiveStreams == {s \in Streams : IsLive(s)}

\* Cancelling a relay leaves its two pumps behind if it had started them.
AfterCancel(relay) == IF relay = "running" THEN {"stopped", "orphaned"} ELSE {relay}

\* The record is dropped; sockets that are still open, pumps and the attach request
\* live on.
Removed(s, relay) ==
  [Unused EXCEPT !.state = "gone", !.executor = stream[s].executor, !.born = stream[s].born,
                 !.attach = stream[s].attach, !.relay = relay, !.sockets = stream[s].sockets]

\* _close_stream up to its first suspension: of several closers only the one that
\* removes the stream does anything.
CloseStream_Mutant(s) ==   \* the slot is released also when the stream was gone
  /\ \E r \in AfterCancel(stream[s].relay) : stream' = [stream EXCEPT ![s] = Removed(s, r)]
  /\ slots' = slots - 1

CloseStream(s) ==
  IF IsLive(s)
  THEN /\ \E r \in AfterCancel(stream[s].relay) : stream' = [stream EXCEPT ![s] = Removed(s, r)]
       /\ slots' = slots - 1
  ELSE UNCHANGED <<stream, slots>>

\* _maybe_pair_locked, applied to the stream's new record.
MaybePair_DropsExpiry(r) ==   \* the expiry is cancelled before both sides are there
  [r EXCEPT !.expiry = FALSE,
            !.relay = IF r.claimed /\ r.peer # None /\ r.ready THEN "running" ELSE @]

MaybePair(r) ==
  IF r.claimed /\ r.peer # None /\ r.ready /\ r.relay = "none"
  THEN [r EXCEPT !.expiry = FALSE, !.relay = "running"]
  ELSE r

----------------------------------------------------------------------------
(* The attach request of the web UI *)

Create(s, e) ==
  /\ ~closed
  /\ stream[s].state = "unused"
  /\ Cardinality(LiveStreams) < MaxStreams
  /\ slots < MaxStreams
  /\ slots' = slots + 1
  /\ stream' = [stream EXCEPT ![s] = [Unused EXCEPT
       !.state = "live", !.executor = e, !.born = fences[e], !.attach = "calling",
       !.expiry = TRUE]]
  /\ UNCHANGED <<handler, sweep, fences, closed>>

Greeted(s) ==
  \E h \in Handlers : handler[h].stream = s /\ handler[h].stage \in {"greeted", "waiting"}

\* terminal.attach answered "connected", and the token is still good.
AttachGranted(s) ==
  /\ stream[s].attach = "calling"
  /\ Greeted(s) /\ IsLive(s)
  /\ ~stream[s].claimed /\ ~stream[s].lapsed
  /\ stream' = [stream EXCEPT ![s].attach = "granted"]
  /\ UNCHANGED <<handler, sweep, slots, fences, closed>>

\* Any failure, also a cancellation, gives the stream up (hub.cancel).
AttachFails(s) ==
  /\ stream[s].attach = "calling"
  /\ \/ /\ IsLive(s)
        /\ \E r \in AfterCancel(stream[s].relay) :
             stream' = [stream EXCEPT ![s] = [Removed(s, r) EXCEPT !.attach = "failed"]]
        /\ slots' = slots - 1
     \/ /\ ~IsLive(s)
        /\ stream' = [stream EXCEPT ![s].attach = "failed"]
        /\ UNCHANGED slots
  /\ UNCHANGED <<handler, sweep, fences, closed>>

ClaimBrowser(s) ==
  /\ stream[s].attach = "granted"
  /\ IsLive(s) /\ ~stream[s].lapsed /\ ~stream[s].claimed
  /\ LET sockets == stream[s].sockets \cup {"browser"} IN
       stream' = [stream EXCEPT ![s] =
                    MaybePair([@ EXCEPT !.claimed = TRUE, !.sockets = sockets])]
  /\ UNCHANGED <<handler, sweep, slots, fences, closed>>

----------------------------------------------------------------------------
(* The executor's websocket handler *)

\* The bearer, current by now, and the expected executor are checked before the socket
\* is accepted.
Authenticate(h, s) ==
  /\ handler[h].stage = "none"
  /\ IsLive(s)
  /\ handler' = [handler EXCEPT ![h] = [stage |-> "authenticated", stream |-> s]]
  /\ UNCHANGED <<stream, sweep, slots, fences, closed>>

\* claim_executor, after the accept; trust is not looked at again.
Claimable(s) == IsLive(s) /\ ~stream[s].lapsed /\ stream[s].peer = None

ClaimExecutor(h) ==
  /\ handler[h].stage = "authenticated"
  /\ LET s == handler[h].stream IN
       /\ Claimable(s)
       /\ stream' = [stream EXCEPT ![s].peer = h, ![s].sockets = @ \cup {"executor"},
                                   ![s].expiry = TRUE]
       /\ handler' = [handler EXCEPT ![h].stage = "claimed"]
  /\ UNCHANGED <<sweep, slots, fences, closed>>

ClaimRefused(h) ==
  /\ handler[h].stage = "authenticated"
  /\ ~Claimable(handler[h].stream)
  /\ handler' = [handler EXCEPT ![h].stage = "over"]
  /\ UNCHANGED <<stream, sweep, slots, fences, closed>>

\* "stream-accepted" is sent: the executor answers the attach command now.
Greet(h) ==
  /\ handler[h].stage = "claimed"
  /\ "executor" \in stream[handler[h].stream].sockets
  /\ handler' = [handler EXCEPT ![h].stage = "greeted"]
  /\ UNCHANGED <<stream, sweep, slots, fences, closed>>

\* The send fails, or the stream is gone when it returns: hub.cancel.
HandshakeFails(h) ==
  /\ \/ handler[h].stage = "claimed"
     \/ handler[h].stage = "greeted" /\ ~IsLive(handler[h].stream)
  /\ handler' = [handler EXCEPT ![h].stage = "over"]
  /\ CloseStream(handler[h].stream)
  /\ UNCHANGED <<sweep, fences, closed>>

Activate(h) ==
  /\ handler[h].stage = "greeted"
  /\ IsLive(handler[h].stream)
  /\ stream' = [stream EXCEPT ![handler[h].stream] = MaybePair([@ EXCEPT !.ready = TRUE])]
  /\ handler' = [handler EXCEPT ![h].stage = "waiting"]
  /\ UNCHANGED <<sweep, slots, fences, closed>>

----------------------------------------------------------------------------
(* Relay, sockets and time *)

\* A pump returned or failed, or the relay was idle: the other tasks are cancelled.
RelayStops(s) ==
  /\ IsLive(s) /\ stream[s].relay = "running"
  /\ stream' = [stream EXCEPT ![s].relay = "stopped"]
  /\ UNCHANGED <<handler, sweep, slots, fences, closed>>

RelayCloses(s) ==
  /\ IsLive(s) /\ stream[s].relay = "stopped"
  /\ CloseStream(s)
  /\ UNCHANGED <<handler, sweep, fences, closed>>

\* By the closer, by the handler's return after the closed event, or by the peer.
SocketCloses(s, side) ==
  /\ side \in stream[s].sockets
  /\ stream' = [stream EXCEPT ![s].sockets = @ \ {side}]
  /\ UNCHANGED <<handler, sweep, slots, fences, closed>>

\* The wall-clock deadline passes; the timer is another clock.
Lapse(s) ==
  /\ IsLive(s) /\ ~stream[s].lapsed
  /\ stream' = [stream EXCEPT ![s].lapsed = TRUE]
  /\ UNCHANGED <<handler, sweep, slots, fences, closed>>

Expire(s) ==
  /\ IsLive(s) /\ stream[s].expiry
  /\ CloseStream(s)
  /\ UNCHANGED <<handler, sweep, fences, closed>>

----------------------------------------------------------------------------
(* Fencing an executor, and shutdown *)

\* close_executor: the streams of this moment.
Snapshot(e) == {s \in LiveStreams : stream[s].executor = e}

\* revoke_executor or replace_executor, then the callback.
Fence(f, e) ==
  /\ sweep[f] = NoSweep
  /\ fences' = [fences EXCEPT ![e] = @ + 1]
  /\ sweep' = [sweep EXCEPT ![f] = [stage |-> "closing", executor |-> e,
                 todo |-> Snapshot(e), now |-> None, seen |-> fences[e] + 1]]
  /\ UNCHANGED <<stream, handler, slots, closed>>

AClose(f) ==
  /\ sweep[f] = NoSweep
  /\ ~closed
  /\ closed' = TRUE
  /\ sweep' = [sweep EXCEPT ![f] = [stage |-> "closing", executor |-> None,
                 todo |-> LiveStreams, now |-> None, seen |-> 0]]
  /\ UNCHANGED <<stream, handler, slots, fences>>

\* One stream after the other, waiting for both sockets of each.
SweepNext(f) ==
  /\ sweep[f].stage = "closing" /\ sweep[f].now = None
  /\ \E s \in sweep[f].todo :
       /\ CloseStream(s)
       /\ sweep' = [sweep EXCEPT ![f].todo = @ \ {s}, ![f].now = IF IsLive(s) THEN s ELSE None]
  /\ UNCHANGED <<handler, fences, closed>>

SocketsClosed(s) == stream[s].sockets = {}

SweepReturns(f) ==
  /\ sweep[f].stage = "closing"
  /\ \/ /\ sweep[f].now # None
        /\ SocketsClosed(sweep[f].now)
        /\ sweep' = [sweep EXCEPT ![f].now = None]
     \/ /\ sweep[f].now = None /\ sweep[f].todo = {}
        /\ sweep' = [sweep EXCEPT ![f].stage = "done"]
  /\ UNCHANGED <<stream, handler, slots, fences, closed>>

\* The revoking or replacing request is cancelled while it waits.
SweepCancelled(f) ==
  /\ sweep[f].stage = "closing" /\ sweep[f].now # None
  /\ sweep[f].executor # None
  /\ sweep' = [sweep EXCEPT ![f].stage = "cancelled"]
  /\ UNCHANGED <<stream, handler, slots, fences, closed>>

----------------------------------------------------------------------------

StreamStep(s) ==
  \/ \E e \in Executors : Create(s, e)
  \/ AttachGranted(s) \/ AttachFails(s) \/ ClaimBrowser(s)
  \/ RelayStops(s) \/ RelayCloses(s) \/ Lapse(s) \/ Expire(s)
  \/ \E side \in Sides : SocketCloses(s, side)

HandlerStep(h) ==
  \/ \E s \in Streams : Authenticate(h, s)
  \/ ClaimExecutor(h) \/ ClaimRefused(h)
  \/ Greet(h) \/ HandshakeFails(h) \/ Activate(h)

SweepStep(f) ==
  \/ \E e \in Executors : Fence(f, e)
  \/ AClose(f) \/ SweepNext(f) \/ SweepReturns(f) \/ SweepCancelled(f)

Next ==
  \/ \E s \in Streams : StreamStep(s)
  \/ \E h \in Handlers : HandlerStep(h)
  \/ \E f \in Sweeps : SweepStep(f)

Spec == Init /\ [][Next]_vars

\* Timers fire, a relay that stopped goes on to close, sweeps run, and the sockets of
\* a removed stream close: its handlers return on the closed event at the latest.
Fairness ==
  /\ \A s \in Streams :
       /\ WF_vars(Expire(s)) /\ WF_vars(RelayCloses(s))
       /\ \A side \in Sides : WF_vars(~IsLive(s) /\ SocketCloses(s, side))
  /\ \A f \in Sweeps : WF_vars(SweepNext(f)) /\ WF_vars(SweepReturns(f))

FairSpec == Spec /\ Fairness

----------------------------------------------------------------------------
(* Properties *)

Forwarding(s) == stream[s].relay \in {"running", "orphaned"} /\ stream[s].sockets = Sides

\* No live stream can be forgotten: its expiry is armed or its relay will close it.
LiveStreamIsWatched ==
  \A s \in LiveStreams : stream[s].expiry \/ stream[s].relay \in {"running", "stopped"}

\* When aclose returns the hub is empty and stays empty, and holds no slot.
ClosedHubIsEmpty ==
  \A f \in Sweeps :
    sweep[f].stage = "done" /\ sweep[f].executor = None => LiveStreams = {} /\ slots = 0

\* Every live stream holds exactly one slot of the UI's connection registry, and a
\* removed one none, whichever of its many closers come first, second or together.
SlotsMatchStreams == slots = Cardinality(LiveStreams)

\* When revoke_executor or replace_executor returns, no stream of the fenced bearer is
\* or can ever be paired, also if its socket was authenticated before the fence and
\* claimed after it; and none forwards a byte, but for the pumps of a relay that
\* another sweep cancelled first and whose sockets that sweep is yet to close.
FencedIsCutOff ==
  \A f \in Sweeps, s \in Streams :
    /\ sweep[f].stage = "done"
    /\ stream[s].executor = sweep[f].executor
    /\ stream[s].born < sweep[f].seen
    => /\ ~IsLive(s)
       /\ Forwarding(s) => \E g \in Sweeps : g # f /\ sweep[g].now = s

\* Well-typed; nothing is forgotten or left behind, slots are what they count, and
\* what was fenced is cut off.
Inv == /\ TypeOK /\ LiveStreamIsWatched /\ ClosedHubIsEmpty
       /\ SlotsMatchStreams /\ FencedIsCutOff

\* A stream that is never paired gives its slot back.
UnpairedEnds ==
  \A s \in Streams : IsLive(s) ~> ~IsLive(s) \/ stream[s].relay = "running"

\* Revocation, replacement and shutdown return, however many streams they close.
SweepsEnd == \A f \in Sweeps : sweep[f].stage = "closing" ~> sweep[f].stage # "closing"

\* Streams and sweeps end.
StreamsEnd == UnpairedEnds /\ SweepsEnd
=============================================================================
