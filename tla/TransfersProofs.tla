--------------------------- MODULE TransfersProofs --------------------------
(***************************************************************************)
(* Proofs about what crosses Control: terminal streams (StreamHub), the    *)
(* copies that compete for the payload store (PayloadExports), and one     *)
(* copy that must survive crashes of both sides (SessionCopy).             *)
(***************************************************************************)
EXTENDS StreamHub, SessionCopy, PayloadExports, FiniteSetTheorems, SequenceTheorems, TLAPS

-----------------------------------------------------------------------------
(* Terminal streams: what holds in every state                               *)

\* A stream between its creation and its removal.
StreamSound(s) ==
    /\ stream[s].state = "unused" => stream[s] = Unused
    /\ IsLive(s) =>
         /\ stream[s].executor \in Executors
         /\ stream[s].born <= fences[stream[s].executor]
         /\ stream[s].relay \in {"none", "running", "stopped"}
         /\ stream[s].relay = "none" => stream[s].expiry
    /\ ~IsLive(s) => stream[s].relay # "running" /\ ~stream[s].expiry
    /\ stream[s].relay = "running" =>
         stream[s].claimed /\ stream[s].ready /\ ~stream[s].expiry
    /\ stream[s].claimed => stream[s].attach = "granted"
    /\ stream[s].ready => stream[s].peer # None

\* Only a sweep leaves pumps behind, and it waits for their sockets.
PumpsAreAwaited(s) ==
    stream[s].relay = "orphaned" /\ stream[s].sockets # {} => \E g \in Sweeps : sweep[g].now = s

\* The handler that claimed a live stream is its peer.
HandlerSound(h) ==
    /\ handler[h].stage # "none" =>
         handler[h].stream \in Streams /\ stream[handler[h].stream].state # "unused"
    /\ handler[h].stage \in {"claimed", "greeted"} /\ IsLive(handler[h].stream) =>
         stream[handler[h].stream].peer = h /\ ~stream[handler[h].stream].ready

\* A sweep has all that it must close before it.
SweepSound(f) ==
    /\ sweep[f].stage = "none" => sweep[f] = NoSweep
    /\ sweep[f].executor # None => sweep[f].seen <= fences[sweep[f].executor]
    /\ sweep[f].stage \in {"closing", "done"} /\ sweep[f].executor = None => closed
    /\ sweep[f].stage \in {"closing", "done"} =>
         \A s \in LiveStreams :
           sweep[f].executor = None
             \/ (stream[s].executor = sweep[f].executor /\ stream[s].born < sweep[f].seen)
           => s \in sweep[f].todo
    /\ sweep[f].stage = "done" => sweep[f].todo = {} /\ sweep[f].now = None

HubIInv ==
    /\ TypeOK /\ SlotsMatchStreams
    /\ \A s \in Streams : StreamSound(s) /\ PumpsAreAwaited(s)
    /\ \A h \in Handlers : HandlerSound(h)
    /\ \A f \in Sweeps : SweepSound(f)

StreamRecords ==
    [state : {"unused", "live", "gone"}, executor : Executors \cup {None},
     born : Nat, attach : {"none", "calling", "granted", "failed"},
     claimed : BOOLEAN, peer : Handlers \cup {None}, ready : BOOLEAN,
     lapsed : BOOLEAN, expiry : BOOLEAN,
     relay : {"none", "running", "stopped", "orphaned"}, sockets : SUBSET Sides]
HandlerRecords ==
    [stage : {"none", "authenticated", "claimed", "greeted", "waiting", "over"},
     stream : Streams \cup {None}]
SweepRecords ==
    [stage : {"none", "closing", "done", "cancelled"}, executor : Executors \cup {None},
     todo : SUBSET Streams, now : Streams \cup {None}, seen : Nat]

HubTyped ==
    /\ stream \in [Streams -> StreamRecords]
    /\ handler \in [Handlers -> HandlerRecords]
    /\ sweep \in [Sweeps -> SweepRecords]
    /\ slots \in Nat /\ fences \in [Executors -> Nat] /\ closed \in BOOLEAN

LEMMA HubTypes == TypeOK <=> HubTyped
  BY DEF TypeOK, HubTyped, StreamRecords, HandlerRecords, SweepRecords

LEMMA UnusedFacts ==
    /\ Unused \in StreamRecords /\ Unused.state = "unused" /\ Unused.relay = "none"
    /\ ~Unused.expiry /\ ~Unused.claimed /\ ~Unused.ready /\ Unused.executor = None
    /\ Unused.peer = None /\ Unused.sockets = {}
  BY DEF Unused, StreamRecords

LEMMA NoSweepFacts ==
    /\ NoSweep \in SweepRecords /\ NoSweep.stage = "none" /\ NoSweep.executor = None
    /\ NoSweep.now = None /\ NoSweep.todo = {}
  BY DEF NoSweep, SweepRecords

LEMMA LiveIsFinite == IsFiniteSet(LiveStreams) /\ Cardinality(LiveStreams) \in Nat
  <1>1. LiveStreams \subseteq Streams
    BY DEF LiveStreams
  <1>2. IsFiniteSet(LiveStreams)
    BY <1>1, FiniteStreams, FS_Subset
  <1>. QED  BY <1>2, FS_CardinalityType

LEMMA HubInitEstablishes == Init => HubIInv
  <1>. SUFFICES ASSUME Init PROVE HubIInv
    OBVIOUS
  <1>1. /\ \A s \in Streams : stream[s] = Unused
        /\ \A h \in Handlers : handler[h] = NoHandler
        /\ \A f \in Sweeps : sweep[f] = NoSweep
        /\ slots = 0
    BY DEF Init
  <1>2. NoHandler \in HandlerRecords /\ NoHandler.stage = "none"
    BY DEF NoHandler, HandlerRecords
  <1>3. HubTyped
    <2>1. stream \in [Streams -> StreamRecords]
      BY UnusedFacts DEF Init
    <2>2. handler \in [Handlers -> HandlerRecords]
      BY <1>2 DEF Init
    <2>3. sweep \in [Sweeps -> SweepRecords]
      BY NoSweepFacts DEF Init
    <2>4. slots \in Nat /\ fences \in [Executors -> Nat] /\ closed \in BOOLEAN
      BY DEF Init
    <2>. QED  BY <2>1, <2>2, <2>3, <2>4 DEF HubTyped
  <1>4. LiveStreams = {}
    BY <1>1, UnusedFacts DEF LiveStreams, IsLive
  <1>5. SlotsMatchStreams
    BY <1>1, <1>4, FS_EmptySet DEF SlotsMatchStreams
  <1>6. ASSUME NEW s \in Streams PROVE StreamSound(s) /\ PumpsAreAwaited(s)
    BY <1>1, UnusedFacts DEF StreamSound, PumpsAreAwaited, IsLive
  <1>7. ASSUME NEW h \in Handlers PROVE HandlerSound(h)
    BY <1>1, <1>2 DEF HandlerSound
  <1>8. ASSUME NEW f \in Sweeps PROVE SweepSound(f)
    BY <1>1, NoSweepFacts DEF SweepSound
  <1>. QED  BY <1>3, <1>5, <1>6, <1>7, <1>8, HubTypes DEF HubIInv

\* A stream's record changes, but not its place among the live ones.
LEMMA RecordSuffices ==
    ASSUME HubIInv, NEW s \in Streams, NEW r \in StreamRecords,
           stream' = [stream EXCEPT ![s] = r],
           r.state = stream[s].state, r.executor = stream[s].executor, r.born = stream[s].born,
           UNCHANGED <<sweep, slots, fences, closed>>,
           StreamSound(s)', PumpsAreAwaited(s)',
           handler' \in [Handlers -> HandlerRecords], \A h \in Handlers : HandlerSound(h)'
    PROVE  HubIInv'
  <1>1. HubTyped /\ SlotsMatchStreams
    BY HubTypes DEF HubIInv
  <1>2. /\ stream' \in [Streams -> StreamRecords] /\ stream'[s] = r
        /\ \A t \in Streams \ {s} : stream'[t] = stream[t]
    BY <1>1 DEF HubTyped
  <1>3. TypeOK'
    <2>1. HubTyped'
      BY <1>1, <1>2 DEF HubTyped
    <2>. QED  BY <2>1, HubTypes, PTL
  <1>4. LiveStreams' = LiveStreams /\ \A t \in Streams : IsLive(t)' <=> IsLive(t)
    BY <1>2 DEF LiveStreams, IsLive
  <1>5. SlotsMatchStreams'
    BY <1>1, <1>4 DEF SlotsMatchStreams
  <1>6. ASSUME NEW t \in Streams PROVE StreamSound(t)' /\ PumpsAreAwaited(t)'
    <2>1. CASE t # s
      <3>1. StreamSound(t) /\ PumpsAreAwaited(t) /\ stream'[t] = stream[t]
        BY <1>2, <2>1 DEF HubIInv
      <3>. QED  BY <1>4, <3>1 DEF StreamSound, PumpsAreAwaited
    <2>. QED  BY <2>1
  <1>7. ASSUME NEW f \in Sweeps PROVE SweepSound(f)'
    <2>1. SweepSound(f)
      BY DEF HubIInv
    <2>2. \A t \in Streams : stream'[t].executor = stream[t].executor
          /\ stream'[t].born = stream[t].born
      BY <1>2
    <2>. QED  BY <1>4, <2>1, <2>2 DEF SweepSound, LiveStreams
  <1>. QED  BY <1>3, <1>5, <1>6, <1>7 DEF HubIInv

\* A live stream is removed; whoever removes it, its pumps are awaited.
LEMMA RemovalSuffices ==
    ASSUME HubIInv, NEW s \in Streams, IsLive(s), NEW r \in StreamRecords,
           stream' = [stream EXCEPT ![s] = r],
           r.state = "gone", ~r.expiry, ~r.claimed, ~r.ready, r.relay # "running",
           slots' = slots - 1, UNCHANGED <<fences, closed>>,
           handler' \in [Handlers -> HandlerRecords], \A h \in Handlers : HandlerSound(h)',
           sweep' \in [Sweeps -> SweepRecords], \A f \in Sweeps : SweepSound(f)',
           \A t \in Streams : PumpsAreAwaited(t)'
    PROVE  HubIInv'
  <1>1. HubTyped /\ SlotsMatchStreams
    BY HubTypes DEF HubIInv
  <1>2. /\ stream' \in [Streams -> StreamRecords] /\ stream'[s] = r
        /\ \A t \in Streams \ {s} : stream'[t] = stream[t]
    BY <1>1 DEF HubTyped
  <1>3. LiveStreams' = LiveStreams \ {s} /\ s \in LiveStreams
    BY <1>2 DEF LiveStreams, IsLive
  <1>4. Cardinality(LiveStreams') = Cardinality(LiveStreams) - 1
        /\ Cardinality(LiveStreams') \in Nat
    <2>1. Cardinality(LiveStreams') = Cardinality(LiveStreams) - 1 /\ IsFiniteSet(LiveStreams')
      BY <1>3, LiveIsFinite, FS_RemoveElement
    <2>. QED  BY <2>1, FS_CardinalityType
  <1>5. SlotsMatchStreams' /\ slots' \in Nat
    BY <1>1, <1>4 DEF SlotsMatchStreams
  <1>6. TypeOK'
    <2>1. HubTyped'
      BY <1>1, <1>2, <1>5 DEF HubTyped
    <2>. QED  BY <2>1, HubTypes, PTL
  <1>7. ASSUME NEW t \in Streams PROVE StreamSound(t)'
    <2>1. CASE t = s
      BY <1>2, <2>1 DEF StreamSound, IsLive
    <2>2. CASE t # s
      <3>1. StreamSound(t) /\ stream'[t] = stream[t]
        BY <1>2, <2>2 DEF HubIInv
      <3>. QED  BY <3>1 DEF StreamSound, IsLive
    <2>. QED  BY <2>1, <2>2
  <1>. QED  BY <1>5, <1>6, <1>7 DEF HubIInv

-----------------------------------------------------------------------------
(* Terminal streams: each step                                               *)

\* A handler that is no peer of s does not notice what happens to its record.
LEMMA OtherHandlers ==
    ASSUME HubIInv, NEW s \in Streams, NEW r \in StreamRecords,
           stream' = [stream EXCEPT ![s] = r], UNCHANGED handler,
           \/ r.state = "gone"
           \/ r.state = stream[s].state /\ r.peer = stream[s].peer /\ r.ready = stream[s].ready
    PROVE  /\ handler' \in [Handlers -> HandlerRecords]
           /\ \A h \in Handlers : HandlerSound(h)'
  <1>1. HubTyped
    BY HubTypes DEF HubIInv
  <1>2. /\ stream'[s] = r
        /\ \A t \in Streams \ {s} : stream'[t] = stream[t]
    BY <1>1 DEF HubTyped
  <1>3. ASSUME NEW h \in Handlers PROVE HandlerSound(h)'
    <2>1. HandlerSound(h)
      BY DEF HubIInv
    <2>. QED  BY <1>2, <2>1 DEF HandlerSound, IsLive
  <1>. QED  BY <1>1, <1>3 DEF HubTyped

LEMMA AttachGrantedPreserves ==
    ASSUME HubIInv, NEW s \in Streams, AttachGranted(s) PROVE HubIInv'
  <1>1. HubTyped /\ StreamSound(s) /\ PumpsAreAwaited(s)
    BY HubTypes DEF HubIInv
  <1>. DEFINE r == [stream[s] EXCEPT !.attach = "granted"]
  <1>2. /\ stream' = [stream EXCEPT ![s] = r]
        /\ UNCHANGED <<handler, sweep, slots, fences, closed>>
    BY DEF AttachGranted
  <1>3. stream[s] \in StreamRecords
    BY <1>1 DEF HubTyped
  <1>4. /\ r \in StreamRecords /\ r.state = stream[s].state /\ r.executor = stream[s].executor
        /\ r.born = stream[s].born /\ r.attach = "granted" /\ r.claimed = stream[s].claimed
        /\ r.peer = stream[s].peer /\ r.ready = stream[s].ready /\ r.expiry = stream[s].expiry
        /\ r.relay = stream[s].relay /\ r.sockets = stream[s].sockets
    BY <1>3 DEF StreamRecords
  <1>5. stream'[s] = r
    BY <1>1, <1>2 DEF HubTyped
  <1>6. stream[s].state = "live"
    BY DEF AttachGranted, IsLive
  <1>. HIDE DEF r
  <1>7. StreamSound(s)' /\ PumpsAreAwaited(s)'
    BY <1>1, <1>2, <1>4, <1>5, <1>6 DEF StreamSound, PumpsAreAwaited, IsLive
  <1>. QED  BY <1>2, <1>4, <1>7, OtherHandlers, RecordSuffices

LEMMA AttachFailsWhenGonePreserves ==
    ASSUME HubIInv, NEW s \in Streams, stream[s].attach = "calling", ~IsLive(s),
           stream' = [stream EXCEPT ![s].attach = "failed"],
           UNCHANGED <<handler, sweep, slots, fences, closed>>
    PROVE  HubIInv'
  <1>1. HubTyped /\ StreamSound(s) /\ PumpsAreAwaited(s)
    BY HubTypes DEF HubIInv
  <1>. DEFINE r == [stream[s] EXCEPT !.attach = "failed"]
  <1>2. stream' = [stream EXCEPT ![s] = r]
    OBVIOUS
  <1>3. stream[s] \in StreamRecords
    BY <1>1 DEF HubTyped
  <1>4. /\ r \in StreamRecords /\ r.state = stream[s].state /\ r.executor = stream[s].executor
        /\ r.born = stream[s].born /\ r.attach = "failed" /\ r.claimed = stream[s].claimed
        /\ r.peer = stream[s].peer /\ r.ready = stream[s].ready /\ r.expiry = stream[s].expiry
        /\ r.relay = stream[s].relay /\ r.sockets = stream[s].sockets
    BY <1>3 DEF StreamRecords
  <1>5. stream'[s] = r
    BY <1>1, <1>2 DEF HubTyped
  <1>. HIDE DEF r
  <1>7. r \in StreamRecords /\ UNCHANGED sweep
    BY <1>4
  <1>6. PumpsAreAwaited(s)'
    BY <1>1, <1>4, <1>5, <1>7 DEF PumpsAreAwaited
  <1>8. stream[s].attach # "none" /\ ~stream[s].claimed
    BY <1>1 DEF StreamSound
  <1>9. stream[s].state # "unused"
    BY <1>1, <1>8 DEF StreamSound, Unused
  <1>10. StreamSound(s)'
    BY <1>1, <1>4, <1>5, <1>8, <1>9 DEF StreamSound, IsLive
  <1>. QED  BY <1>2, <1>4, <1>6, <1>10, OtherHandlers, RecordSuffices

\* Pairing only starts the relay, of a stream that is claimed and ready.
LEMMA MaybePairFacts ==
    ASSUME NEW q \in StreamRecords
    PROVE  LET r == MaybePair(q) IN
           /\ r \in StreamRecords /\ r.state = q.state /\ r.executor = q.executor
           /\ r.born = q.born /\ r.attach = q.attach /\ r.claimed = q.claimed
           /\ r.peer = q.peer /\ r.ready = q.ready
           /\ \/ r.expiry = q.expiry /\ r.relay = q.relay
              \/ ~r.expiry /\ r.relay = "running" /\ r.claimed /\ r.ready
  <1>1. CASE q.claimed /\ q.peer # None /\ q.ready /\ q.relay = "none"
    <2>1. MaybePair(q) = [q EXCEPT !.expiry = FALSE, !.relay = "running"]
      BY <1>1 DEF MaybePair
    <2>. QED  BY <1>1, <2>1 DEF StreamRecords
  <1>2. CASE ~(q.claimed /\ q.peer # None /\ q.ready /\ q.relay = "none")
    <2>1. MaybePair(q) = q
      BY <1>2 DEF MaybePair
    <2>. QED  BY <2>1
  <1>. QED  BY <1>1, <1>2

LEMMA ClaimBrowserPreserves ==
    ASSUME HubIInv, NEW s \in Streams, ClaimBrowser(s) PROVE HubIInv'
  <1>1. HubTyped /\ StreamSound(s) /\ PumpsAreAwaited(s)
    BY HubTypes DEF HubIInv
  <1>. DEFINE q == [stream[s] EXCEPT !.claimed = TRUE,
       !.sockets = stream[s].sockets \cup {"browser"}]
              r == MaybePair(q)
  <1>2. /\ stream' = [stream EXCEPT ![s] = r]
        /\ UNCHANGED <<handler, sweep, slots, fences, closed>>
    BY DEF ClaimBrowser
  <1>3. stream[s] \in StreamRecords
    BY <1>1 DEF HubTyped
  <1>4. /\ q \in StreamRecords /\ q.state = stream[s].state /\ q.executor = stream[s].executor
        /\ q.born = stream[s].born /\ q.attach = stream[s].attach /\ q.claimed
        /\ q.peer = stream[s].peer /\ q.ready = stream[s].ready /\ q.expiry = stream[s].expiry
        /\ q.relay = stream[s].relay
    BY <1>3 DEF StreamRecords, Sides
  <1>5. stream'[s] = r
    BY <1>1, <1>2 DEF HubTyped
  <1>6. stream[s].state = "live" /\ stream[s].attach = "granted" /\ ~stream[s].claimed
    BY DEF ClaimBrowser, IsLive
  <1>. HIDE DEF q
  <1>7. /\ r \in StreamRecords /\ r.state = q.state /\ r.executor = q.executor
        /\ r.born = q.born /\ r.attach = q.attach /\ r.claimed = q.claimed
        /\ r.peer = q.peer /\ r.ready = q.ready
        /\ \/ r.expiry = q.expiry /\ r.relay = q.relay
           \/ ~r.expiry /\ r.relay = "running" /\ r.claimed /\ r.ready
    BY <1>4, MaybePairFacts
  <1>. HIDE DEF r
  <1>8. StreamSound(s)'
    BY <1>1, <1>4, <1>5, <1>6, <1>7, <1>2 DEF StreamSound, IsLive
  <1>9. PumpsAreAwaited(s)'
    <2>1. stream[s].relay # "orphaned"
      BY <1>1, <1>6 DEF StreamSound, IsLive
    <2>. QED  BY <2>1, <1>4, <1>5, <1>7 DEF PumpsAreAwaited
  <1>10. r.state = stream[s].state /\ r.peer = stream[s].peer /\ r.ready = stream[s].ready
         /\ r.executor = stream[s].executor /\ r.born = stream[s].born /\ r \in StreamRecords
    BY <1>4, <1>7
  <1>. QED  BY <1>2, <1>10, <1>8, <1>9, OtherHandlers, RecordSuffices

\* Only one handler moves; where the streams stand is not its doing.
LEMMA HandlerSuffices ==
    ASSUME HubIInv, NEW h \in Handlers, NEW k \in HandlerRecords,
           handler' = [handler EXCEPT ![h] = k],
           UNCHANGED <<stream, sweep, slots, fences, closed>>, HandlerSound(h)'
    PROVE  HubIInv'
  <1>1. HubTyped /\ SlotsMatchStreams
    BY HubTypes DEF HubIInv
  <1>2. /\ handler' \in [Handlers -> HandlerRecords]
        /\ \A j \in Handlers \ {h} : handler'[j] = handler[j]
    BY <1>1 DEF HubTyped
  <1>3. TypeOK'
    <2>1. HubTyped'
      BY <1>1, <1>2 DEF HubTyped
    <2>. QED  BY <2>1, HubTypes, PTL
  <1>4. SlotsMatchStreams'
    BY <1>1 DEF SlotsMatchStreams, LiveStreams, IsLive
  <1>5. ASSUME NEW t \in Streams PROVE StreamSound(t)' /\ PumpsAreAwaited(t)'
    <2>1. StreamSound(t) /\ PumpsAreAwaited(t)
      BY DEF HubIInv
    <2>. QED  BY <2>1 DEF StreamSound, PumpsAreAwaited, IsLive
  <1>6. ASSUME NEW j \in Handlers PROVE HandlerSound(j)'
    <2>1. HandlerSound(j)
      BY DEF HubIInv
    <2>. QED  BY <1>2, <2>1 DEF HandlerSound, IsLive
  <1>7. ASSUME NEW f \in Sweeps PROVE SweepSound(f)'
    <2>1. SweepSound(f)
      BY DEF HubIInv
    <2>. QED  BY <2>1 DEF SweepSound, LiveStreams, IsLive
  <1>. QED  BY <1>3, <1>4, <1>5, <1>6, <1>7 DEF HubIInv

LEMMA HandlerStepsPreserve ==
    ASSUME HubIInv, NEW h \in Handlers,
           (\E s \in Streams : Authenticate(h, s)) \/ ClaimRefused(h) \/ Greet(h)
    PROVE  HubIInv'
  <1>1. HubTyped /\ HandlerSound(h)
    BY HubTypes DEF HubIInv
  <1>2. handler[h] \in HandlerRecords
    BY <1>1 DEF HubTyped
  <1>3. ASSUME NEW s \in Streams, Authenticate(h, s) PROVE HubIInv'
    <2>. DEFINE k == [stage |-> "authenticated", stream |-> s]
    <2>1. k \in HandlerRecords /\ k.stage = "authenticated" /\ k.stream \in Streams
      BY DEF HandlerRecords
    <2>2. handler' = [handler EXCEPT ![h] = k]
          /\ UNCHANGED <<stream, sweep, slots, fences, closed>>
      BY <1>3 DEF Authenticate
    <2>3. handler'[h] = k
      BY <1>1, <2>2 DEF HubTyped
    <2>. HIDE DEF k
    <2>4. HandlerSound(h)'
      BY <1>3, <2>1, <2>2, <2>3 DEF HandlerSound, Authenticate, IsLive
    <2>. QED  BY <2>1, <2>2, <2>4, HandlerSuffices
  <1>4. ASSUME NEW stage \in {"greeted", "over"}, handler[h].stage # "none",
               stage = "greeted" => handler[h].stage = "claimed",
               handler' = [handler EXCEPT ![h].stage = stage],
               UNCHANGED <<stream, sweep, slots, fences, closed>>
        PROVE  HubIInv'
    <2>. DEFINE k == [handler[h] EXCEPT !.stage = stage]
    <2>1. k \in HandlerRecords /\ k.stage = stage /\ k.stream = handler[h].stream
      BY <1>2 DEF HandlerRecords
    <2>2. handler' = [handler EXCEPT ![h] = k]
      BY <1>4
    <2>3. handler'[h] = k
      BY <1>1, <2>2 DEF HubTyped
    <2>. HIDE DEF k
    <2>4. HandlerSound(h)'
      BY <1>1, <1>4, <2>1, <2>3 DEF HandlerSound, IsLive
    <2>. QED  BY <1>4, <2>1, <2>2, <2>4, HandlerSuffices
  <1>5. CASE ClaimRefused(h)
    BY <1>4, <1>5 DEF ClaimRefused
  <1>6. CASE Greet(h)
    BY <1>4, <1>6 DEF Greet
  <1>. QED  BY <1>3, <1>5, <1>6

\* A step that changes no more of a stream than its sockets, its lapse or its relay.
LEMMA WireSuffices ==
    ASSUME HubIInv, NEW s \in Streams, NEW r \in StreamRecords,
           stream' = [stream EXCEPT ![s] = r],
           r.state = stream[s].state, r.executor = stream[s].executor, r.born = stream[s].born,
           r.attach = stream[s].attach, r.claimed = stream[s].claimed, r.peer = stream[s].peer,
           r.ready = stream[s].ready, r.expiry = stream[s].expiry,
           r.sockets \subseteq stream[s].sockets,
           r.relay = stream[s].relay \/ (IsLive(s) /\ r.relay = "stopped"),
           stream[s].state # "unused",
           UNCHANGED <<handler, sweep, slots, fences, closed>>
    PROVE  HubIInv'
  <1>1. HubTyped /\ StreamSound(s) /\ PumpsAreAwaited(s)
    BY HubTypes DEF HubIInv
  <1>2. stream'[s] = r
    BY <1>1 DEF HubTyped
  <1>3. StreamSound(s)'
    BY <1>1, <1>2 DEF StreamSound, IsLive
  <1>4. PumpsAreAwaited(s)'
    BY <1>1, <1>2 DEF PumpsAreAwaited
  <1>. QED  BY <1>3, <1>4, OtherHandlers, RecordSuffices

LEMMA WireStepsPreserve ==
    ASSUME HubIInv, NEW s \in Streams,
           RelayStops(s) \/ Lapse(s) \/ \E side \in Sides : SocketCloses(s, side)
    PROVE  HubIInv'
  <1>1. HubTyped /\ StreamSound(s)
    BY HubTypes DEF HubIInv
  <1>2. stream[s] \in StreamRecords
    BY <1>1 DEF HubTyped
  <1>3. CASE RelayStops(s)
    <2>. DEFINE r == [stream[s] EXCEPT !.relay = "stopped"]
    <2>1. stream' = [stream EXCEPT ![s] = r]
          /\ UNCHANGED <<handler, sweep, slots, fences, closed>>
      BY <1>3 DEF RelayStops
    <2>2. IsLive(s) /\ stream[s].state # "unused"
      BY <1>3 DEF RelayStops, IsLive
    <2>3. /\ r \in StreamRecords /\ r.state = stream[s].state /\ r.executor = stream[s].executor
          /\ r.born = stream[s].born /\ r.attach = stream[s].attach
          /\ r.claimed = stream[s].claimed /\ r.peer = stream[s].peer
          /\ r.ready = stream[s].ready /\ r.expiry = stream[s].expiry
          /\ r.sockets = stream[s].sockets /\ r.relay = "stopped"
      BY <1>2 DEF StreamRecords
    <2>. HIDE DEF r
    <2>. QED  BY <2>1, <2>2, <2>3, WireSuffices
  <1>4. CASE Lapse(s)
    <2>. DEFINE r == [stream[s] EXCEPT !.lapsed = TRUE]
    <2>1. stream' = [stream EXCEPT ![s] = r]
          /\ UNCHANGED <<handler, sweep, slots, fences, closed>>
      BY <1>4 DEF Lapse
    <2>2. stream[s].state # "unused"
      BY <1>4 DEF Lapse, IsLive
    <2>3. /\ r \in StreamRecords /\ r.state = stream[s].state /\ r.executor = stream[s].executor
          /\ r.born = stream[s].born /\ r.attach = stream[s].attach
          /\ r.claimed = stream[s].claimed /\ r.peer = stream[s].peer
          /\ r.ready = stream[s].ready /\ r.expiry = stream[s].expiry
          /\ r.sockets = stream[s].sockets /\ r.relay = stream[s].relay
      BY <1>2 DEF StreamRecords
    <2>. HIDE DEF r
    <2>. QED  BY <2>1, <2>2, <2>3, WireSuffices
  <1>5. ASSUME NEW side \in Sides, SocketCloses(s, side) PROVE HubIInv'
    <2>. DEFINE r == [stream[s] EXCEPT !.sockets = stream[s].sockets \ {side}]
    <2>1. stream' = [stream EXCEPT ![s] = r]
          /\ UNCHANGED <<handler, sweep, slots, fences, closed>>
      BY <1>5 DEF SocketCloses
    <2>2. stream[s].state # "unused"
      <3>1. stream[s].sockets # {}
        BY <1>5 DEF SocketCloses
      <3>. QED  BY <1>1, <3>1, UnusedFacts DEF StreamSound
    <2>3. /\ r \in StreamRecords /\ r.state = stream[s].state /\ r.executor = stream[s].executor
          /\ r.born = stream[s].born /\ r.attach = stream[s].attach
          /\ r.claimed = stream[s].claimed /\ r.peer = stream[s].peer
          /\ r.ready = stream[s].ready /\ r.expiry = stream[s].expiry
          /\ r.sockets = stream[s].sockets \ {side} /\ r.relay = stream[s].relay
      BY <1>2 DEF StreamRecords
    <2>. HIDE DEF r
    <2>4. r.sockets \subseteq stream[s].sockets
      BY <2>3
    <2>. QED  BY <2>1, <2>2, <2>3, <2>4, WireSuffices
  <1>. QED  BY <1>3, <1>4, <1>5

LEMMA ClaimExecutorPreserves ==
    ASSUME HubIInv, NEW h \in Handlers, ClaimExecutor(h) PROVE HubIInv'
  <1>1. HubTyped /\ HandlerSound(h)
    BY HubTypes DEF HubIInv
  <1>2. PICK s \in Streams : s = handler[h].stream
    BY <1>1 DEF HandlerSound, ClaimExecutor
  <1>. DEFINE r == [stream[s] EXCEPT !.peer = h,
       !.sockets = stream[s].sockets \cup {"executor"},
                                     !.expiry = TRUE]
              k == [handler[h] EXCEPT !.stage = "claimed"]
  <1>3. StreamSound(s) /\ PumpsAreAwaited(s)
    BY DEF HubIInv
  <1>4. stream[s] \in StreamRecords /\ handler[h] \in HandlerRecords
    BY <1>1 DEF HubTyped
  <1>5. /\ stream' = [stream EXCEPT ![s] = r] /\ handler' = [handler EXCEPT ![h] = k]
        /\ UNCHANGED <<sweep, slots, fences, closed>>
    BY <1>2 DEF ClaimExecutor
  <1>6. IsLive(s) /\ stream[s].state = "live" /\ stream[s].peer = None
    BY <1>2 DEF ClaimExecutor, Claimable, IsLive
  <1>7. /\ r \in StreamRecords /\ r.state = stream[s].state /\ r.executor = stream[s].executor
        /\ r.born = stream[s].born /\ r.attach = stream[s].attach
           /\ r.claimed = stream[s].claimed
        /\ r.peer = h /\ r.ready = stream[s].ready /\ r.expiry /\ r.relay = stream[s].relay
    <2>1. stream[s].sockets \cup {"executor"} \in SUBSET Sides
      BY <1>4 DEF StreamRecords, Sides
    <2>. QED  BY <1>4, <2>1 DEF StreamRecords
  <1>8. k \in HandlerRecords /\ k.stage = "claimed" /\ k.stream = s
    BY <1>2, <1>4 DEF HandlerRecords
  <1>9. /\ stream'[s] = r /\ handler'[h] = k
        /\ handler' \in [Handlers -> HandlerRecords]
        /\ \A t \in Streams \ {s} : stream'[t] = stream[t]
        /\ \A j \in Handlers \ {h} : handler'[j] = handler[j]
    BY <1>1, <1>2, <1>5, <1>8 DEF HubTyped
  <1>. HIDE DEF r, k
  <1>10. ~stream[s].ready /\ stream[s].relay \in {"none", "stopped"}
    BY <1>3, <1>6 DEF StreamSound
  <1>11. h # None
    BY NoneAssumption
  <1>12. StreamSound(s)'
    BY <1>3, <1>5, <1>6, <1>7, <1>9, <1>10, <1>11 DEF StreamSound, IsLive
  <1>13. PumpsAreAwaited(s)'
    BY <1>7, <1>9, <1>10 DEF PumpsAreAwaited
  <1>14. ASSUME NEW j \in Handlers PROVE HandlerSound(j)'
    <2>1. CASE j = h
      BY <1>2, <1>6, <1>7, <1>8, <1>9, <1>10, <2>1 DEF HandlerSound
    <2>2. CASE j # h
      <3>1. HandlerSound(j) /\ handler'[j] = handler[j]
        BY <1>9, <2>2 DEF HubIInv
      <3>2. j # None
        BY NoneAssumption
      <3>. QED  BY <1>6, <1>7, <1>9, <3>1, <3>2 DEF HandlerSound, IsLive
    <2>. QED  BY <2>1, <2>2
  <1>. QED  BY <1>2, <1>5, <1>7, <1>9, <1>12, <1>13, <1>14, RecordSuffices

LEMMA ActivatePreserves ==
    ASSUME HubIInv, NEW h \in Handlers, Activate(h) PROVE HubIInv'
  <1>1. HubTyped /\ HandlerSound(h)
    BY HubTypes DEF HubIInv
  <1>2. PICK s \in Streams : s = handler[h].stream
    BY <1>1 DEF HandlerSound, Activate
  <1>. DEFINE q == [stream[s] EXCEPT !.ready = TRUE]
              r == MaybePair(q)
              k == [handler[h] EXCEPT !.stage = "waiting"]
  <1>3. StreamSound(s) /\ PumpsAreAwaited(s)
    BY DEF HubIInv
  <1>4. stream[s] \in StreamRecords /\ handler[h] \in HandlerRecords
    BY <1>1 DEF HubTyped
  <1>5. /\ stream' = [stream EXCEPT ![s] = r] /\ handler' = [handler EXCEPT ![h] = k]
        /\ UNCHANGED <<sweep, slots, fences, closed>>
    BY <1>2 DEF Activate
  <1>6. stream[s].state = "live" /\ stream[s].peer = h /\ ~stream[s].ready
    BY <1>1, <1>2 DEF Activate, HandlerSound, IsLive
  <1>7. /\ q \in StreamRecords /\ q.state = stream[s].state /\ q.executor = stream[s].executor
        /\ q.born = stream[s].born /\ q.attach = stream[s].attach
           /\ q.claimed = stream[s].claimed
        /\ q.peer = stream[s].peer /\ q.ready /\ q.expiry = stream[s].expiry
        /\ q.relay = stream[s].relay
    BY <1>4 DEF StreamRecords
  <1>8. k \in HandlerRecords /\ k.stage = "waiting" /\ k.stream = s
    BY <1>2, <1>4 DEF HandlerRecords
  <1>. HIDE DEF q
  <1>9. /\ r \in StreamRecords /\ r.state = q.state /\ r.executor = q.executor
        /\ r.born = q.born /\ r.attach = q.attach /\ r.claimed = q.claimed
        /\ r.peer = q.peer /\ r.ready = q.ready
        /\ \/ r.expiry = q.expiry /\ r.relay = q.relay
           \/ ~r.expiry /\ r.relay = "running" /\ r.claimed /\ r.ready
    BY <1>7, MaybePairFacts
  <1>10. /\ stream'[s] = r /\ handler'[h] = k
         /\ handler' \in [Handlers -> HandlerRecords]
         /\ \A t \in Streams \ {s} : stream'[t] = stream[t]
         /\ \A j \in Handlers \ {h} : handler'[j] = handler[j]
    BY <1>1, <1>2, <1>5, <1>8 DEF HubTyped
  <1>. HIDE DEF r, k
  <1>11. stream[s].relay \in {"none", "stopped"}
    BY <1>3, <1>6 DEF StreamSound, IsLive
  <1>12. h # None
    BY NoneAssumption
  <1>13. StreamSound(s)'
    BY <1>3, <1>5, <1>6, <1>7, <1>9, <1>10, <1>11, <1>12, ZenonT(60) DEF StreamSound, IsLive
  <1>14. PumpsAreAwaited(s)'
    BY <1>7, <1>9, <1>10, <1>11 DEF PumpsAreAwaited
  <1>15. ASSUME NEW j \in Handlers PROVE HandlerSound(j)'
    <2>1. CASE j = h
      BY <1>2, <1>6, <1>7, <1>8, <1>9, <1>10, <2>1 DEF HandlerSound
    <2>2. CASE j # h
      <3>1. HandlerSound(j) /\ handler'[j] = handler[j]
        BY <1>10, <2>2 DEF HubIInv
      <3>. QED  BY <1>6, <1>7, <1>9, <1>10, <2>2, <3>1 DEF HandlerSound, IsLive
    <2>. QED  BY <2>1, <2>2
  <1>. QED  BY <1>2, <1>5, <1>7, <1>9, <1>10, <1>13, <1>14, <1>15, RecordSuffices, ZenonT(60)

\* What is left of a stream that its closer removed.
LEMMA RemovedFacts ==
    ASSUME HubIInv, NEW s \in Streams, NEW relay \in {"none", "running", "stopped", "orphaned"}
    PROVE  LET r == Removed(s, relay) IN
           /\ r \in StreamRecords /\ r.state = "gone" /\ r.executor = stream[s].executor
           /\ r.born = stream[s].born /\ ~r.expiry /\ ~r.claimed /\ ~r.ready
           /\ r.relay = relay /\ r.sockets = stream[s].sockets
  <1>1. stream[s] \in StreamRecords
    BY HubTypes DEF HubIInv, HubTyped
  <1>2. /\ stream[s].executor \in Executors \cup {None} /\ stream[s].born \in Nat
        /\ stream[s].attach \in {"none", "calling", "granted", "failed"}
        /\ stream[s].sockets \in SUBSET Sides
    BY <1>1 DEF StreamRecords
  <1>3. Removed(s, relay) \in StreamRecords
    BY <1>2, UnusedFacts DEF Removed, StreamRecords
  <1>. QED  BY <1>2, <1>3, UnusedFacts DEF Removed, StreamRecords

\* A stream that no relay serves is removed by someone other than a sweep.
LEMMA QuietRemoval ==
    ASSUME HubIInv, NEW s \in Streams, IsLive(s), stream[s].relay # "running",
           NEW r \in StreamRecords, stream' = [stream EXCEPT ![s] = r],
           r.state = "gone", ~r.expiry, ~r.claimed, ~r.ready, r.relay = stream[s].relay,
           slots' = slots - 1, UNCHANGED <<sweep, fences, closed>>,
           handler' \in [Handlers -> HandlerRecords], \A h \in Handlers : HandlerSound(h)'
    PROVE  HubIInv'
  <1>1. HubTyped /\ StreamSound(s)
    BY HubTypes DEF HubIInv
  <1>2. /\ stream'[s] = r
        /\ \A t \in Streams \ {s} : stream'[t] = stream[t]
    BY <1>1 DEF HubTyped
  <1>3. ASSUME NEW t \in Streams PROVE PumpsAreAwaited(t)'
    <2>1. CASE t = s
      <3>1. r.relay # "orphaned"
        BY <1>1 DEF StreamSound
      <3>. QED  BY <1>2, <2>1, <3>1 DEF PumpsAreAwaited
    <2>2. CASE t # s
      <3>1. PumpsAreAwaited(t) /\ stream'[t] = stream[t]
        BY <1>2, <2>2 DEF HubIInv
      <3>. QED  BY <3>1 DEF PumpsAreAwaited
    <2>. QED  BY <2>1, <2>2
  <1>4. ASSUME NEW f \in Sweeps PROVE SweepSound(f)'
    <2>1. SweepSound(f)
      BY DEF HubIInv
    <2>2. \A t \in LiveStreams' : t \in LiveStreams /\ stream'[t] = stream[t]
      BY <1>2 DEF LiveStreams, IsLive
    <2>. QED  BY <2>1, <2>2 DEF SweepSound
  <1>5. r.relay # "running" /\ sweep' \in [Sweeps -> SweepRecords]
    BY <1>1 DEF HubTyped
  <1>. QED  BY <1>3, <1>4, <1>5, RemovalSuffices

LEMMA QuietClosePreserves ==
    ASSUME HubIInv, NEW s \in Streams, IsLive(s), stream[s].relay # "running", CloseStream(s),
           UNCHANGED <<sweep, fences, closed>>,
           handler' \in [Handlers -> HandlerRecords], \A h \in Handlers : HandlerSound(h)'
    PROVE  HubIInv'
  <1>1. stream[s].relay \in {"none", "running", "stopped", "orphaned"}
    BY HubTypes DEF HubIInv, HubTyped, StreamRecords
  <1>2. stream' = [stream EXCEPT ![s] = Removed(s, stream[s].relay)] /\ slots' = slots - 1
    BY DEF CloseStream, AfterCancel
  <1>. QED  BY <1>1, <1>2, RemovedFacts, QuietRemoval

\* The relay closes what it served, and the expiry what was never paired.
LEMMA ClosesPreserve ==
    ASSUME HubIInv, NEW s \in Streams, RelayCloses(s) \/ Expire(s) PROVE HubIInv'
  <1>1. HubTyped /\ StreamSound(s)
    BY HubTypes DEF HubIInv
  <1>2. /\ IsLive(s) /\ CloseStream(s) /\ UNCHANGED <<handler, sweep, fences, closed>>
        /\ stream[s].relay = "stopped" \/ stream[s].expiry
    BY DEF RelayCloses, Expire
  <1>3. stream[s].relay # "running"
    BY <1>1, <1>2 DEF StreamSound
  <1>4. stream[s].relay \in {"none", "running", "stopped", "orphaned"}
    BY <1>1 DEF HubTyped, StreamRecords
  <1>5. stream' = [stream EXCEPT ![s] = Removed(s, stream[s].relay)]
    BY <1>2, <1>3 DEF CloseStream, AfterCancel
  <1>6. /\ handler' \in [Handlers -> HandlerRecords]
        /\ \A h \in Handlers : HandlerSound(h)'
    BY <1>2, <1>4, <1>5, RemovedFacts, OtherHandlers
  <1>. QED  BY <1>2, <1>3, <1>6, QuietClosePreserves

LEMMA AttachFailsPreserves ==
    ASSUME HubIInv, NEW s \in Streams, AttachFails(s) PROVE HubIInv'
  <1>1. HubTyped /\ StreamSound(s)
    BY HubTypes DEF HubIInv
  <1>2. CASE ~IsLive(s)
    BY <1>2, AttachFailsWhenGonePreserves DEF AttachFails
  <1>3. CASE IsLive(s)
    <2>1. stream[s].attach = "calling" /\ stream[s].relay # "running"
      BY <1>1 DEF AttachFails, StreamSound
    <2>2. /\ stream[s].relay \in {"none", "running", "stopped", "orphaned"}
          /\ stream[s].state = "live"
      BY <1>1, <1>3 DEF HubTyped, StreamRecords, IsLive
    <2>. DEFINE q == Removed(s, stream[s].relay)
                r == [q EXCEPT !.attach = "failed"]
    <2>3. /\ stream' = [stream EXCEPT ![s] = r] /\ slots' = slots - 1
          /\ UNCHANGED <<handler, sweep, fences, closed>>
      BY <1>3, <2>1 DEF AttachFails, AfterCancel
    <2>4. /\ q \in StreamRecords /\ q.state = "gone" /\ ~q.expiry /\ ~q.claimed /\ ~q.ready
          /\ q.relay = stream[s].relay
      BY <2>2, RemovedFacts
    <2>. HIDE DEF q
    <2>5. /\ r \in StreamRecords /\ r.state = "gone" /\ ~r.expiry /\ ~r.claimed /\ ~r.ready
          /\ r.relay = stream[s].relay
      BY <2>4 DEF StreamRecords
    <2>. HIDE DEF r
    <2>6. /\ handler' \in [Handlers -> HandlerRecords]
          /\ \A h \in Handlers : HandlerSound(h)'
      BY <2>3, <2>5, OtherHandlers
    <2>. QED  BY <1>3, <2>1, <2>3, <2>5, <2>6, QuietRemoval
  <1>. QED  BY <1>2, <1>3

LEMMA HandshakeFailsPreserves ==
    ASSUME HubIInv, NEW h \in Handlers, HandshakeFails(h) PROVE HubIInv'
  <1>1. HubTyped /\ HandlerSound(h)
    BY HubTypes DEF HubIInv
  <1>2. PICK s \in Streams : s = handler[h].stream
    BY <1>1 DEF HandlerSound, HandshakeFails
  <1>. DEFINE k == [handler[h] EXCEPT !.stage = "over"]
  <1>3. handler[h] \in HandlerRecords
    BY <1>1 DEF HubTyped
  <1>4. k \in HandlerRecords /\ k.stage = "over" /\ k.stream = s
    BY <1>2, <1>3 DEF HandlerRecords
  <1>5. /\ handler' = [handler EXCEPT ![h] = k] /\ CloseStream(s)
        /\ UNCHANGED <<sweep, fences, closed>>
    BY <1>2 DEF HandshakeFails
  <1>6. /\ handler'[h] = k /\ handler' \in [Handlers -> HandlerRecords]
        /\ \A j \in Handlers \ {h} : handler'[j] = handler[j]
    BY <1>1, <1>4, <1>5 DEF HubTyped
  <1>. HIDE DEF k
  <1>7. HandlerSound(h)'
    <2>1. stream[s].state # "unused"
      BY <1>1, <1>2 DEF HandlerSound, HandshakeFails
    <2>2. stream[s].relay \in {"none", "running", "stopped", "orphaned"}
      BY <1>1 DEF HubTyped, StreamRecords
    <2>3. stream'[s].state # "unused"
      BY <1>1, <1>5, <2>1, <2>2, RemovedFacts DEF CloseStream, AfterCancel, HubTyped
    <2>. QED  BY <1>4, <1>6, <2>3 DEF HandlerSound
  <1>8. CASE ~IsLive(s)
    <2>1. UNCHANGED <<stream, sweep, slots, fences, closed>>
      BY <1>5, <1>8 DEF CloseStream
    <2>. QED  BY <1>4, <1>5, <1>7, <2>1, HandlerSuffices
  <1>9. CASE IsLive(s)
    <2>1. stream[s].relay # "running"
      <3>1. ~stream[s].ready
        BY <1>1, <1>2, <1>9 DEF HandshakeFails, HandlerSound
      <3>2. StreamSound(s)
        BY DEF HubIInv
      <3>. QED  BY <3>1, <3>2 DEF StreamSound
    <2>2. stream[s].relay \in {"none", "running", "stopped", "orphaned"}
      BY <1>1 DEF HubTyped, StreamRecords
    <2>3. stream' = [stream EXCEPT ![s] = Removed(s, stream[s].relay)]
      BY <1>5, <1>9, <2>1 DEF CloseStream, AfterCancel
    <2>4. /\ stream'[s].state = "gone" /\ \A t \in Streams \ {s} : stream'[t] = stream[t]
      BY <1>1, <2>2, <2>3, RemovedFacts DEF HubTyped
    <2>5. ASSUME NEW j \in Handlers PROVE HandlerSound(j)'
      <3>1. CASE j = h
        BY <1>7, <3>1
      <3>2. CASE j # h
        <4>1. HandlerSound(j) /\ handler'[j] = handler[j]
          BY <1>6, <3>2 DEF HubIInv
        <4>. QED  BY <2>4, <4>1 DEF HandlerSound, IsLive
      <3>. QED  BY <3>1, <3>2
    <2>. QED  BY <1>5, <1>6, <1>9, <2>1, <2>5, QuietClosePreserves
  <1>. QED  BY <1>8, <1>9

\* One sweep moves, and what it fences or closes, it fences or closes for good.
LEMMA SweepSuffices ==
    ASSUME HubIInv, NEW f \in Sweeps, NEW k \in SweepRecords,
           sweep' = [sweep EXCEPT ![f] = k], UNCHANGED <<stream, handler, slots>>,
           fences' \in [Executors -> Nat], \A e \in Executors : fences[e] <= fences'[e],
           closed' \in BOOLEAN, closed => closed',
           SweepSound(f)', \A t \in Streams : PumpsAreAwaited(t)'
    PROVE  HubIInv'
  <1>1. HubTyped /\ SlotsMatchStreams
    BY HubTypes DEF HubIInv
  <1>2. /\ sweep' \in [Sweeps -> SweepRecords]
        /\ \A g \in Sweeps \ {f} : sweep'[g] = sweep[g]
    BY <1>1 DEF HubTyped
  <1>3. TypeOK'
    <2>1. HubTyped'
      BY <1>1, <1>2 DEF HubTyped
    <2>. QED  BY <2>1, HubTypes, PTL
  <1>4. SlotsMatchStreams'
    BY <1>1 DEF SlotsMatchStreams, LiveStreams, IsLive
  <1>5. ASSUME NEW t \in Streams PROVE StreamSound(t)'
    <2>1. StreamSound(t) /\ stream[t] \in StreamRecords
      BY <1>1 DEF HubIInv, HubTyped
    <2>2. ASSUME IsLive(t) PROVE stream[t].born <= fences'[stream[t].executor]
      <3>1. /\ stream[t].executor \in Executors /\ stream[t].born \in Nat
            /\ stream[t].born <= fences[stream[t].executor]
        BY <2>1, <2>2 DEF StreamSound, StreamRecords
      <3>2. fences[stream[t].executor] \in Nat /\ fences'[stream[t].executor] \in Nat
        BY <1>1, <3>1 DEF HubTyped
      <3>. QED  BY <3>1, <3>2
    <2>. QED  BY <2>1, <2>2 DEF StreamSound, IsLive
  <1>6. ASSUME NEW h \in Handlers PROVE HandlerSound(h)'
    <2>1. HandlerSound(h)
      BY DEF HubIInv
    <2>. QED  BY <2>1 DEF HandlerSound, IsLive
  <1>7. ASSUME NEW g \in Sweeps PROVE SweepSound(g)'
    <2>1. CASE g = f
      BY <2>1
    <2>2. CASE g # f
      <3>1. SweepSound(g) /\ sweep'[g] = sweep[g] /\ sweep[g] \in SweepRecords
        BY <1>1, <1>2, <2>2 DEF HubIInv, HubTyped
      <3>2. sweep[g].executor # None => sweep[g].seen <= fences'[sweep[g].executor]
        <4>. SUFFICES ASSUME sweep[g].executor # None
                      PROVE  sweep[g].seen <= fences'[sweep[g].executor]
          OBVIOUS
        <4>1. /\ sweep[g].executor \in Executors /\ sweep[g].seen \in Nat
              /\ sweep[g].seen <= fences[sweep[g].executor]
          BY <3>1 DEF SweepSound, SweepRecords
        <4>2. fences[sweep[g].executor] \in Nat /\ fences'[sweep[g].executor] \in Nat
          BY <1>1, <4>1 DEF HubTyped
        <4>. QED  BY <4>1, <4>2
      <3>. QED  BY <3>1, <3>2 DEF SweepSound, LiveStreams, IsLive
    <2>. QED  BY <2>1, <2>2
  <1>. QED  BY <1>3, <1>4, <1>5, <1>6, <1>7 DEF HubIInv

\* The pumps that a sweep awaits are awaited by it still, or their sockets are closed.
LEMMA AwaitedStill ==
    ASSUME HubIInv, NEW f \in Sweeps, NEW k \in SweepRecords,
           sweep' = [sweep EXCEPT ![f] = k], UNCHANGED stream,
           k.now = sweep[f].now \/ sweep[f].now = None \/ SocketsClosed(sweep[f].now)
    PROVE  \A t \in Streams : PumpsAreAwaited(t)'
  <1>1. HubTyped
    BY HubTypes DEF HubIInv
  <1>2. /\ sweep'[f] = k
        /\ \A g \in Sweeps \ {f} : sweep'[g] = sweep[g]
    BY <1>1 DEF HubTyped
  <1>3. ASSUME NEW t \in Streams PROVE PumpsAreAwaited(t)'
    <2>1. PumpsAreAwaited(t) /\ t # None
      BY NoneAssumption DEF HubIInv
    <2>. QED  BY <1>2, <2>1 DEF PumpsAreAwaited, SocketsClosed
  <1>. QED  BY <1>3

LEMMA FencePreserves ==
    ASSUME HubIInv, NEW f \in Sweeps, NEW e \in Executors, Fence(f, e) PROVE HubIInv'
  <1>1. HubTyped
    BY HubTypes DEF HubIInv
  <1>. DEFINE k == [stage |-> "closing", executor |-> e, todo |-> Snapshot(e), now |-> None,
                    seen |-> fences[e] + 1]
  <1>2. /\ sweep' = [sweep EXCEPT ![f] = k] /\ fences' = [fences EXCEPT ![e] = @ + 1]
        /\ UNCHANGED <<stream, handler, slots, closed>> /\ sweep[f] = NoSweep
    BY DEF Fence
  <1>3. Snapshot(e) \subseteq Streams
    BY DEF Snapshot, LiveStreams
  <1>4. /\ k \in SweepRecords /\ k.stage = "closing" /\ k.executor = e /\ k.todo = Snapshot(e)
        /\ k.now = None /\ k.seen = fences[e] + 1
    BY <1>1, <1>3 DEF HubTyped, SweepRecords
  <1>5. /\ fences' \in [Executors -> Nat] /\ \A d \in Executors : fences[d] <= fences'[d]
        /\ fences'[e] = fences[e] + 1
    BY <1>1, <1>2 DEF HubTyped
  <1>6. sweep'[f] = k
    BY <1>1, <1>2, <1>4 DEF HubTyped
  <1>. HIDE DEF k
  <1>7. SweepSound(f)'
    <2>1. \A s \in LiveStreams' : s \in LiveStreams /\ stream'[s] = stream[s]
      BY <1>2 DEF LiveStreams, IsLive
    <2>2. k.seen <= fences'[e] /\ e # None
      BY <1>1, <1>4, <1>5, NoneAssumption DEF HubTyped
    <2>. QED  BY <1>4, <1>6, <2>1, <2>2 DEF SweepSound, Snapshot
  <1>8. \A t \in Streams : PumpsAreAwaited(t)'
    BY <1>2, <1>4, NoSweepFacts, AwaitedStill
  <1>9. closed' \in BOOLEAN /\ (closed => closed')
    BY <1>1, <1>2 DEF HubTyped
  <1>. QED  BY <1>2, <1>4, <1>5, <1>7, <1>8, <1>9, SweepSuffices

LEMMA ACloseStartPreserves ==
    ASSUME HubIInv, NEW f \in Sweeps, AClose(f) PROVE HubIInv'
  <1>1. HubTyped
    BY HubTypes DEF HubIInv
  <1>. DEFINE k == [stage |-> "closing", executor |-> None, todo |-> LiveStreams, now |-> None,
                    seen |-> 0]
  <1>2. /\ sweep' = [sweep EXCEPT ![f] = k] /\ closed' = TRUE
        /\ UNCHANGED <<stream, handler, slots, fences>> /\ sweep[f] = NoSweep
    BY DEF AClose
  <1>3. LiveStreams \subseteq Streams
    BY DEF LiveStreams
  <1>4. /\ k \in SweepRecords /\ k.stage = "closing" /\ k.executor = None
        /\ k.todo = LiveStreams
        /\ k.now = None
    BY <1>3 DEF SweepRecords
  <1>5. /\ fences' \in [Executors -> Nat] /\ \A d \in Executors : fences[d] <= fences'[d]
    BY <1>1, <1>2 DEF HubTyped
  <1>6. sweep'[f] = k
    BY <1>1, <1>2, <1>4 DEF HubTyped
  <1>. HIDE DEF k
  <1>7. SweepSound(f)'
    <2>1. \A s \in LiveStreams' : s \in LiveStreams
      BY <1>2 DEF LiveStreams, IsLive
    <2>. QED  BY <1>2, <1>4, <1>6, <2>1 DEF SweepSound
  <1>8. \A t \in Streams : PumpsAreAwaited(t)'
    BY <1>2, <1>4, NoSweepFacts, AwaitedStill
  <1>. QED  BY <1>2, <1>4, <1>5, <1>7, <1>8, SweepSuffices

\* The wait for one stream's sockets ends, or the sweep itself does.
LEMMA SweepWaitsPreserve ==
    ASSUME HubIInv, NEW f \in Sweeps, SweepReturns(f) \/ SweepCancelled(f) PROVE HubIInv'
  <1>1. HubTyped /\ SweepSound(f)
    BY HubTypes DEF HubIInv
  <1>2. sweep[f] \in SweepRecords
    BY <1>1 DEF HubTyped
  <1>3. ASSUME NEW k \in SweepRecords, sweep' = [sweep EXCEPT ![f] = k],
               UNCHANGED <<stream, handler, slots, fences, closed>>,
               k.executor = sweep[f].executor, k.todo = sweep[f].todo, k.seen = sweep[f].seen,
               k.now = sweep[f].now \/ (k.now = None /\ SocketsClosed(sweep[f].now)),
               \/ k.stage = sweep[f].stage /\ sweep[f].stage = "closing"
               \/ k.stage = "done" /\ sweep[f].stage = "closing" /\ k.now = None /\ k.todo = {}
               \/ k.stage = "cancelled"
        PROVE  HubIInv'
    <2>1. sweep'[f] = k
      BY <1>1, <1>3 DEF HubTyped
    <2>2. \A s \in LiveStreams' : s \in LiveStreams /\ stream'[s] = stream[s]
      BY <1>3 DEF LiveStreams, IsLive
    <2>3. SweepSound(f)'
      BY <1>1, <1>3, <2>1, <2>2 DEF SweepSound
    <2>4. \A t \in Streams : PumpsAreAwaited(t)'
      BY <1>3, AwaitedStill
    <2>5. /\ fences' \in [Executors -> Nat] /\ \A e \in Executors : fences[e] <= fences'[e]
          /\ closed' \in BOOLEAN /\ (closed => closed')
      BY <1>1, <1>3 DEF HubTyped
    <2>. QED  BY <1>3, <2>3, <2>4, <2>5, SweepSuffices
  <1>4. CASE /\ sweep[f].stage = "closing" /\ sweep[f].now # None /\ SocketsClosed(sweep[f].now)
             /\ sweep' = [sweep EXCEPT ![f].now = None]
             /\ UNCHANGED <<stream, handler, slots, fences, closed>>
    <2>. DEFINE k == [sweep[f] EXCEPT !.now = None]
    <2>1. sweep' = [sweep EXCEPT ![f] = k]
      BY <1>4
    <2>2. /\ k \in SweepRecords /\ k.stage = sweep[f].stage /\ k.executor = sweep[f].executor
          /\ k.todo = sweep[f].todo /\ k.seen = sweep[f].seen /\ k.now = None
      BY <1>2 DEF SweepRecords
    <2>. HIDE DEF k
    <2>. QED  BY <1>3, <1>4, <2>1, <2>2
  <1>5. ASSUME NEW stage \in {"done", "cancelled"}, sweep[f].stage = "closing",
               stage = "done" => sweep[f].now = None /\ sweep[f].todo = {},
               sweep' = [sweep EXCEPT ![f].stage = stage],
               UNCHANGED <<stream, handler, slots, fences, closed>>
        PROVE  HubIInv'
    <2>. DEFINE k == [sweep[f] EXCEPT !.stage = stage]
    <2>1. sweep' = [sweep EXCEPT ![f] = k]
      BY <1>5
    <2>2. /\ k \in SweepRecords /\ k.stage = stage /\ k.executor = sweep[f].executor
          /\ k.todo = sweep[f].todo /\ k.seen = sweep[f].seen /\ k.now = sweep[f].now
      BY <1>2 DEF SweepRecords
    <2>. HIDE DEF k
    <2>. QED  BY <1>3, <1>5, <2>1, <2>2
  <1>6. CASE SweepReturns(f)
    BY <1>4, <1>5, <1>6 DEF SweepReturns
  <1>7. CASE SweepCancelled(f)
    BY <1>5, <1>7 DEF SweepCancelled
  <1>. QED  BY <1>6, <1>7

LEMMA SweepNextPreserves ==
    ASSUME HubIInv, NEW f \in Sweeps, SweepNext(f) PROVE HubIInv'
  <1>1. HubTyped /\ SweepSound(f) /\ sweep[f] \in SweepRecords
    BY HubTypes DEF HubIInv, HubTyped
  <1>2. PICK s \in Streams :
           /\ s \in sweep[f].todo /\ CloseStream(s)
           /\ sweep' = [sweep EXCEPT ![f].todo = sweep[f].todo \ {s},
                                     ![f].now = IF IsLive(s) THEN s ELSE None]
    BY <1>1 DEF SweepNext, SweepRecords
  <1>3. /\ sweep[f].stage = "closing" /\ sweep[f].now = None
        /\ UNCHANGED <<handler, fences, closed>>
    BY DEF SweepNext
  <1>. DEFINE next == IF IsLive(s) THEN s ELSE None
              k == [sweep[f] EXCEPT !.todo = sweep[f].todo \ {s}, !.now = next]
  <1>4. sweep' = [sweep EXCEPT ![f] = k]
    BY <1>2
  <1>5. /\ k \in SweepRecords /\ k.stage = "closing" /\ k.executor = sweep[f].executor
        /\ k.todo = sweep[f].todo \ {s} /\ k.seen = sweep[f].seen /\ k.now = next
    <2>1. next \in Streams \cup {None} /\ sweep[f].todo \ {s} \in SUBSET Streams
      BY <1>1 DEF SweepRecords
    <2>. HIDE DEF next
    <2>. QED  BY <1>1, <1>3, <2>1 DEF SweepRecords
  <1>6. /\ sweep'[f] = k /\ sweep' \in [Sweeps -> SweepRecords]
        /\ \A g \in Sweeps \ {f} : sweep'[g] = sweep[g]
    BY <1>1, <1>4, <1>5 DEF HubTyped
  <1>. HIDE DEF k
  <1>7. CASE ~IsLive(s)
    <2>1. UNCHANGED <<stream, handler, slots, fences, closed>>
      BY <1>2, <1>3, <1>7 DEF CloseStream
    <2>2. \A t \in LiveStreams' : t \in LiveStreams /\ stream'[t] = stream[t] /\ t # s
      BY <1>7, <2>1 DEF LiveStreams, IsLive
    <2>3. SweepSound(f)'
      BY <1>1, <1>3, <1>5, <1>6, <2>1, <2>2 DEF SweepSound
    <2>4. \A t \in Streams : PumpsAreAwaited(t)'
      BY <1>3, <1>4, <1>5, <1>7, <2>1, AwaitedStill
    <2>5. /\ fences' \in [Executors -> Nat] /\ \A e \in Executors : fences[e] <= fences'[e]
          /\ closed' \in BOOLEAN /\ (closed => closed')
      BY <1>1, <2>1 DEF HubTyped
    <2>. QED  BY <1>4, <1>5, <2>1, <2>3, <2>4, <2>5, SweepSuffices
  <1>8. CASE IsLive(s)
    <2>1. PICK relay \in AfterCancel(stream[s].relay) :
             stream' = [stream EXCEPT ![s] = Removed(s, relay)]
      BY <1>2, <1>8 DEF CloseStream
    <2>2. /\ relay \in {"none", "running", "stopped", "orphaned"} /\ relay # "running"
          /\ slots' = slots - 1
      <3>1. stream[s].relay \in {"none", "running", "stopped", "orphaned"}
        BY <1>1 DEF HubTyped, StreamRecords
      <3>. QED  BY <1>2, <1>8, <3>1 DEF AfterCancel, CloseStream
    <2>. DEFINE r == Removed(s, relay)
    <2>3. /\ r \in StreamRecords /\ r.state = "gone" /\ ~r.expiry /\ ~r.claimed /\ ~r.ready
          /\ r.relay = relay
      BY <2>2, RemovedFacts
    <2>4. stream' = [stream EXCEPT ![s] = r]
      BY <2>1
    <2>. HIDE DEF r
    <2>5. /\ stream'[s] = r /\ \A t \in Streams \ {s} : stream'[t] = stream[t]
      BY <1>1, <2>3, <2>4 DEF HubTyped
    <2>6. /\ handler' \in [Handlers -> HandlerRecords] /\ \A h \in Handlers : HandlerSound(h)'
      BY <1>3, <2>3, <2>4, OtherHandlers
    <2>7. \A t \in LiveStreams' : t \in LiveStreams /\ stream'[t] = stream[t] /\ t # s
      BY <2>3, <2>5 DEF LiveStreams, IsLive
    <2>8. ASSUME NEW g \in Sweeps PROVE SweepSound(g)'
      <3>1. SweepSound(g)
        BY DEF HubIInv
      <3>2. CASE g = f
        BY <1>1, <1>3, <1>5, <1>6, <2>7, <3>2 DEF SweepSound
      <3>3. CASE g # f
        BY <1>3, <1>6, <2>7, <3>1, <3>3 DEF SweepSound
      <3>. QED  BY <3>2, <3>3
    <2>9. ASSUME NEW t \in Streams PROVE PumpsAreAwaited(t)'
      <3>1. CASE t = s
        BY <1>5, <1>6, <1>8, <3>1 DEF PumpsAreAwaited
      <3>2. CASE t # s
        <4>1. PumpsAreAwaited(t) /\ stream'[t] = stream[t] /\ t # None
          BY <2>5, <3>2, NoneAssumption DEF HubIInv
        <4>. QED  BY <1>3, <1>6, <4>1 DEF PumpsAreAwaited
      <3>. QED  BY <3>1, <3>2
    <2>. QED  BY <1>3, <1>6, <1>8, <2>2, <2>3, <2>4, <2>6, <2>8, <2>9, RemovalSuffices
  <1>. QED  BY <1>7, <1>8

LEMMA CreatePreserves ==
    ASSUME HubIInv, NEW s \in Streams, NEW e \in Executors, Create(s, e) PROVE HubIInv'
  <1>1. HubTyped /\ SlotsMatchStreams
    BY HubTypes DEF HubIInv
  <1>. DEFINE r == [Unused EXCEPT !.state = "live", !.executor = e, !.born = fences[e],
                                  !.attach = "calling", !.expiry = TRUE]
  <1>2. /\ stream' = [stream EXCEPT ![s] = r] /\ slots' = slots + 1 /\ ~closed
        /\ stream[s].state = "unused" /\ UNCHANGED <<handler, sweep, fences, closed>>
    BY DEF Create
  <1>3. fences[e] \in Nat
    BY <1>1 DEF HubTyped
  <1>4. /\ r \in StreamRecords /\ r.state = "live" /\ r.executor = e /\ r.born = fences[e]
        /\ r.attach = "calling" /\ r.expiry /\ r.relay = "none" /\ ~r.claimed /\ ~r.ready
    BY <1>3, UnusedFacts DEF StreamRecords
  <1>5. /\ stream' \in [Streams -> StreamRecords] /\ stream'[s] = r
        /\ \A t \in Streams \ {s} : stream'[t] = stream[t]
    BY <1>1, <1>2, <1>4 DEF HubTyped
  <1>. HIDE DEF r
  <1>6. LiveStreams' = LiveStreams \cup {s} /\ s \notin LiveStreams
    BY <1>2, <1>4, <1>5 DEF LiveStreams, IsLive
  <1>7. SlotsMatchStreams' /\ slots' \in Nat
    <2>1. Cardinality(LiveStreams') = Cardinality(LiveStreams) + 1
      BY <1>6, LiveIsFinite, FS_AddElement
    <2>. QED  BY <1>1, <1>2, <2>1, LiveIsFinite DEF SlotsMatchStreams
  <1>8. TypeOK'
    <2>1. HubTyped'
      BY <1>1, <1>2, <1>5, <1>7 DEF HubTyped
    <2>. QED  BY <2>1, HubTypes, PTL
  <1>9. ASSUME NEW t \in Streams PROVE StreamSound(t)' /\ PumpsAreAwaited(t)'
    <2>1. CASE t = s
      BY <1>2, <1>3, <1>4, <1>5, <2>1 DEF StreamSound, PumpsAreAwaited, IsLive
    <2>2. CASE t # s
      <3>1. StreamSound(t) /\ PumpsAreAwaited(t) /\ stream'[t] = stream[t]
        BY <1>5, <2>2 DEF HubIInv
      <3>. QED  BY <1>2, <3>1 DEF StreamSound, PumpsAreAwaited, IsLive
    <2>. QED  BY <2>1, <2>2
  <1>10. ASSUME NEW h \in Handlers PROVE HandlerSound(h)'
    <2>1. HandlerSound(h)
      BY DEF HubIInv
    <2>. QED  BY <1>2, <1>5, <2>1 DEF HandlerSound, IsLive
  <1>11. ASSUME NEW f \in Sweeps PROVE SweepSound(f)'
    <2>1. SweepSound(f) /\ sweep[f] \in SweepRecords
      BY <1>1 DEF HubIInv, HubTyped
    <2>2. \A t \in LiveStreams' : t = s \/ (t \in LiveStreams /\ stream'[t] = stream[t])
      BY <1>5, <1>6 DEF LiveStreams
    <2>3. sweep[f].stage \in {"closing", "done"} => sweep[f].executor # None
      BY <1>2, <2>1 DEF SweepSound
    <2>4. sweep[f].executor = e => ~(fences[e] < sweep[f].seen)
      <3>. SUFFICES ASSUME sweep[f].executor = e PROVE ~(fences[e] < sweep[f].seen)
        OBVIOUS
      <3>1. sweep[f].seen <= fences[e] /\ sweep[f].seen \in Nat
        BY <2>1, NoneAssumption DEF SweepSound, SweepRecords
      <3>. QED  BY <1>3, <3>1
    <2>. QED  BY <1>2, <1>4, <1>5, <2>1, <2>2, <2>3, <2>4 DEF SweepSound
  <1>. QED  BY <1>7, <1>8, <1>9, <1>10, <1>11 DEF HubIInv

LEMMA HubNextPreserves ==
    ASSUME HubIInv, [Next]_vars PROVE HubIInv'
  <1>1. ASSUME NEW s \in Streams, StreamStep(s) PROVE HubIInv'
    BY <1>1, CreatePreserves, AttachGrantedPreserves, AttachFailsPreserves,
       ClaimBrowserPreserves, WireStepsPreserve, ClosesPreserve DEF StreamStep
  <1>2. ASSUME NEW h \in Handlers, HandlerStep(h) PROVE HubIInv'
    BY <1>2, HandlerStepsPreserve, ClaimExecutorPreserves, HandshakeFailsPreserves,
       ActivatePreserves DEF HandlerStep
  <1>3. ASSUME NEW f \in Sweeps, SweepStep(f) PROVE HubIInv'
    BY <1>3, FencePreserves, ACloseStartPreserves, SweepNextPreserves, SweepWaitsPreserve
       DEF SweepStep
  <1>4. CASE UNCHANGED vars
    <2>1. UNCHANGED <<stream, handler, sweep, slots, fences, closed>>
      BY <1>4 DEF vars
    <2>2. (HubTyped <=> HubTyped') /\ (SlotsMatchStreams <=> SlotsMatchStreams')
      BY <2>1 DEF HubTyped, SlotsMatchStreams, LiveStreams, IsLive
    <2>3. ASSUME NEW s \in Streams
          PROVE  (StreamSound(s) => StreamSound(s)')
            /\ (PumpsAreAwaited(s) => PumpsAreAwaited(s)')
      BY <2>1 DEF StreamSound, PumpsAreAwaited, IsLive
    <2>4. ASSUME NEW h \in Handlers PROVE HandlerSound(h) => HandlerSound(h)'
      BY <2>1 DEF HandlerSound, IsLive
    <2>5. ASSUME NEW f \in Sweeps PROVE SweepSound(f) => SweepSound(f)'
      BY <2>1 DEF SweepSound, LiveStreams, IsLive
    <2>6. TypeOK => TypeOK'
      BY <2>2, HubTypes, PTL
    <2>. QED  BY <2>2, <2>3, <2>4, <2>5, <2>6 DEF HubIInv
  <1>. QED  BY <1>1, <1>2, <1>3, <1>4 DEF Next

LEMMA HubIInvImpliesInv == HubIInv => Inv
  <1>. SUFFICES ASSUME HubIInv PROVE Inv
    OBVIOUS
  <1>1. HubTyped /\ TypeOK /\ SlotsMatchStreams
    BY HubTypes DEF HubIInv
  <1>2. LiveStreamIsWatched
    <2>1. ASSUME NEW s \in LiveStreams PROVE stream[s].expiry
                 \/ stream[s].relay \in {"running", "stopped"}
      <3>1. s \in Streams /\ IsLive(s)
        BY DEF LiveStreams
      <3>2. StreamSound(s)
        BY <3>1 DEF HubIInv
      <3>. QED  BY <3>1, <3>2 DEF StreamSound
    <2>. QED  BY <2>1 DEF LiveStreamIsWatched
  <1>3. ClosedHubIsEmpty
    <2>1. ASSUME NEW f \in Sweeps, sweep[f].stage = "done", sweep[f].executor = None
          PROVE  LiveStreams = {} /\ slots = 0
      <3>1. SweepSound(f)
        BY DEF HubIInv
      <3>2. LiveStreams = {}
        BY <2>1, <3>1 DEF SweepSound
      <3>. QED  BY <1>1, <3>2, FS_EmptySet DEF SlotsMatchStreams
    <2>. QED  BY <2>1 DEF ClosedHubIsEmpty
  <1>4. FencedIsCutOff
    <2>1. ASSUME NEW f \in Sweeps, NEW s \in Streams, sweep[f].stage = "done",
                 stream[s].executor = sweep[f].executor, stream[s].born < sweep[f].seen
          PROVE  /\ ~IsLive(s)
                 /\ Forwarding(s) => \E g \in Sweeps : g # f /\ sweep[g].now = s
      <3>1. SweepSound(f) /\ StreamSound(s) /\ PumpsAreAwaited(s)
        BY DEF HubIInv
      <3>2. ~IsLive(s)
        BY <2>1, <3>1 DEF SweepSound, LiveStreams
      <3>3. s # None /\ sweep[f].now = None
        BY <2>1, <3>1, NoneAssumption DEF SweepSound
      <3>. QED  BY <3>1, <3>2, <3>3 DEF StreamSound, PumpsAreAwaited, Forwarding, Sides
    <2>. QED  BY <2>1 DEF FencedIsCutOff
  <1>. QED  BY <1>1, <1>2, <1>3, <1>4 DEF Inv

\* Terminal streams are sound for any number of streams, connections and fences: none
\* is forgotten, each holds the one slot it was counted in, a hub that was shut down is
\* empty, and what was paired under a fenced bearer forwards nothing once the fence
\* has returned, but for sockets another sweep is closing.
THEOREM StreamsAreSound == Spec => []Inv
  <1>1. Init => HubIInv
    BY HubInitEstablishes
  <1>2. HubIInv /\ [Next]_vars => HubIInv'
    BY HubNextPreserves
  <1>3. HubIInv => Inv
    BY HubIInvImpliesInv
  <1>. QED  BY <1>1, <1>2, <1>3, PTL DEF Spec

-----------------------------------------------------------------------------
(* Competing copies: what holds in every state                               *)

PutRecords == [sent : 0..2, handlers : 0..2, answered : BOOLEAN]

ExportTyped ==
    /\ entry \in [Exports -> {"none", "reserved", "retained", "abandoning"}]
    /\ stored \in [Exports -> BOOLEAN]
    /\ attempt \in [Exports -> {"off", "uploading", "importing", "failed", "done"}]
    /\ tries \in [Exports -> 0..MaxTries]
    /\ cap \in [Uploads -> {"none", "upload", "download"}]
    /\ put \in [Uploads -> PutRecords]
    /\ staged \in [Uploads -> {"none", "part", "full"}]
    /\ owner \in [Exports -> BOOLEAN] /\ left \subseteq Uploads
    /\ pruned \subseteq Exports /\ released \subseteq Exports

\* The upload of an attempt that is under way.
Uploading(u) == u[2] = tries[u[1]] /\ attempt[u[1]] = "uploading"

\* An attempt has its room while it uploads and an owner while it lives.
TransferSound(t) ==
    /\ attempt[t] # "off" => tries[t] > 0
    /\ t \in Managed /\ ~owner[t] => attempt[t] = "off"
    /\ attempt[t] = "uploading" => entry[t] = "reserved" \/ t \in released \ Managed
    /\ entry[t] = "retained" => stored[t]

\* One handler at most is ever let in: it uses the capability up.
UploadSound(u) ==
    /\ u[2] > tries[u[1]] => put[u] = NoPut /\ u \notin left
    /\ put[u].handlers > 0 => put[u].handlers = 1 /\ ~put[u].answered /\ cap[u] # "upload"
    /\ cap[u] = "upload" =>
         put[u].handlers = 0 /\ ~put[u].answered /\ staged[u] = "none" /\ Uploading(u)
    /\ cap[u] = "download" => u[2] = tries[u[1]] /\ attempt[u[1]] = "importing"
    /\ staged[u] # "none" => u \in left \/ Uploading(u)
    /\ Uploading(u) =>
         /\ u \notin left
         /\ put[u].handlers > 0 => staged[u] # "none" \/ u[1] \in pruned
         /\ put[u].answered => staged[u] = "full" \/ u[1] \in pruned

ExportIInv ==
    /\ ExportTyped /\ Cardinality(Held) <= MaxStore
    /\ \A t \in Exports : TransferSound(t)
    /\ \A u \in Uploads : UploadSound(u)

LEMMA UploadFacts == \A u \in Uploads : u[1] \in Exports /\ u[2] \in 1..MaxTries
  BY DEF Uploads

\* The upload that an attempt names is its last one.
LEMMA CurrentFacts ==
    ASSUME NEW t \in Exports
    PROVE  /\ \A u \in Uploads : u = Current(t) <=> u[1] = t /\ u[2] = tries[t]
           /\ tries[t] \in 1..MaxTries => Current(t) \in Uploads
  BY DEF Uploads, Current

LEMMA BoundsFacts == MaxStore \in Nat /\ MaxTries \in Nat /\ MaxMishaps \in Nat
  BY ExportsAssumption

LEMMA HeldIsFinite == IsFiniteSet(Held) /\ Cardinality(Held) \in Nat
  <1>1. Held \subseteq Exports
    BY DEF Held
  <1>2. IsFiniteSet(Held)
    BY <1>1, ExportsAssumption, FS_Subset
  <1>. QED  BY <1>2, FS_CardinalityType

LEMMA HeldShrinks ==
    ASSUME ExportIInv, Held' \subseteq Held PROVE Cardinality(Held') <= MaxStore
  <1>1. Cardinality(Held') <= Cardinality(Held) /\ IsFiniteSet(Held')
    BY HeldIsFinite, FS_Subset
  <1>2. Cardinality(Held') \in Nat
    BY <1>1, FS_CardinalityType
  <1>. QED  BY <1>1, <1>2, HeldIsFinite, BoundsFacts DEF ExportIInv

LEMMA ExportInitEstablishes == ExportInit => ExportIInv
  <1>. SUFFICES ASSUME ExportInit PROVE ExportIInv
    OBVIOUS
  <1>1. NoPut \in PutRecords /\ NoPut.handlers = 0 /\ NoPut.sent = 0 /\ ~NoPut.answered
    BY DEF NoPut, PutRecords
  <1>2. ExportTyped
    <2>1. put \in [Uploads -> PutRecords]
      BY <1>1 DEF ExportInit
    <2>. QED  BY <2>1, BoundsFacts DEF ExportInit, ExportTyped
  <1>3. Cardinality(Held) <= MaxStore
    <2>1. Held = {}
      BY DEF Held, ExportInit
    <2>. QED  BY <2>1, FS_EmptySet, BoundsFacts
  <1>4. ASSUME NEW t \in Exports PROVE TransferSound(t)
    BY DEF TransferSound, ExportInit
  <1>5. ASSUME NEW u \in Uploads PROVE UploadSound(u)
    BY <1>1, UploadFacts DEF UploadSound, Uploading, ExportInit
  <1>. QED  BY <1>2, <1>3, <1>4, <1>5 DEF ExportIInv

\* What happens to one request changes nothing else.
LEMMA RequestSuffices ==
    ASSUME ExportIInv, NEW u \in Uploads,
           UNCHANGED <<entry, stored, attempt, tries, owner, left, pruned, released>>,
           NEW c \in {"none", "upload", "download"}, cap' = [cap EXCEPT ![u] = c],
           NEW p \in PutRecords, put' = [put EXCEPT ![u] = p],
           NEW g \in {"none", "part", "full"}, staged' = [staged EXCEPT ![u] = g],
           UploadSound(u)'
    PROVE  ExportIInv'
  <1>1. ExportTyped /\ Cardinality(Held) <= MaxStore
    BY DEF ExportIInv
  <1>2. \A v \in Uploads \ {u} : cap'[v] = cap[v] /\ put'[v] = put[v] /\ staged'[v] = staged[v]
    BY <1>1 DEF ExportTyped
  <1>3. ExportTyped'
    BY <1>1 DEF ExportTyped, Uploads
  <1>4. Cardinality(Held)' <= MaxStore
    BY <1>1 DEF Held
  <1>5. ASSUME NEW t \in Exports PROVE TransferSound(t)'
    <2>1. TransferSound(t)
      BY DEF ExportIInv
    <2>. QED  BY <2>1 DEF TransferSound
  <1>6. ASSUME NEW v \in Uploads PROVE UploadSound(v)'
    <2>1. CASE v = u
      BY <2>1
    <2>2. CASE v # u
      <3>1. UploadSound(v)
        BY DEF ExportIInv
      <3>. QED  BY <1>2, <2>2, <3>1 DEF UploadSound, Uploading
    <2>. QED  BY <2>1, <2>2
  <1>7. \A v \in Uploads : UploadSound(v)'
    BY <1>6
  <1>8. (\A v \in Uploads : UploadSound(v))'
    BY <1>7 DEF Uploads
  <1>. QED  BY <1>3, <1>4, <1>5, <1>8 DEF ExportIInv

\* What happens to one transfer and its uploads changes no other.
LEMMA TransferSuffices ==
    ASSUME ExportIInv, NEW t \in Exports, ExportTyped', UNCHANGED left,
           Cardinality(Held') <= MaxStore,
           \A s \in Exports \ {t} :
             /\ entry'[s] = entry[s] /\ stored'[s] = stored[s] /\ attempt'[s] = attempt[s]
             /\ tries'[s] = tries[s] /\ owner'[s] = owner[s]
             /\ (s \in pruned' <=> s \in pruned) /\ (s \in released' <=> s \in released),
           \A u \in Uploads : u[1] # t =>
             cap'[u] = cap[u] /\ put'[u] = put[u] /\ staged'[u] = staged[u],
           TransferSound(t)', \A u \in Uploads : u[1] = t => UploadSound(u)'
    PROVE  ExportIInv'
  <1>1. ASSUME NEW s \in Exports PROVE TransferSound(s)'
    <2>1. CASE s # t
      <3>1. TransferSound(s)
        BY DEF ExportIInv
      <3>. QED  BY <2>1, <3>1 DEF TransferSound
    <2>. QED  BY <2>1
  <1>2. ASSUME NEW u \in Uploads PROVE UploadSound(u)'
    <2>1. CASE u[1] # t
      <3>1. UploadSound(u) /\ u[1] \in Exports \ {t}
        BY <2>1, UploadFacts DEF ExportIInv
      <3>. QED  BY <2>1, <3>1 DEF UploadSound, Uploading
    <2>. QED  BY <2>1
  <1>. QED  BY <1>1, <1>2 DEF ExportIInv, Uploads

-----------------------------------------------------------------------------
(* Competing copies: each step                                               *)

\* A handler is let in, and one answers.
LetIn(q, a, b) == [q EXCEPT !.sent = a, !.handlers = b]
Answering(q, b) == [q EXCEPT !.handlers = b, !.answered = TRUE]

LEMMA PutChanges ==
    ASSUME NEW q \in PutRecords, NEW a \in 0..2, NEW b \in 0..2
    PROVE  /\ LetIn(q, a, b) \in PutRecords /\ LetIn(q, a, b).handlers = b
           /\ LetIn(q, a, b).answered = q.answered
           /\ Answering(q, b) \in PutRecords /\ Answering(q, b).handlers = b
           /\ Answering(q, b).answered
  <1>. DEFINE S == 0..2
              R == [sent : S, handlers : S, answered : BOOLEAN]
  <1>1. R = PutRecords /\ a \in S /\ b \in S
    BY DEF PutRecords
  <1>. HIDE DEF S
  <1>. QED  BY <1>1 DEF LetIn, Answering

LEMMA SendsUploadPreserves ==
    ASSUME ExportIInv, NEW u \in Uploads, SendsUpload(u) \/ MissesUpload(u)
    PROVE  ExportIInv'
  <1>1. ExportTyped /\ UploadSound(u)
    BY DEF ExportIInv
  <1>2. put[u] \in PutRecords /\ u[1] \in Exports /\ u[2] \in 1..MaxTries
    BY <1>1, UploadFacts DEF ExportTyped
  <1>3. PICK n \in 0..2 : /\ put' = [put EXCEPT ![u].sent = n]
                          /\ n > 0 \/ put[u].sent > 0
    <2>1. CASE SendsUpload(u)
      <3>1. put[u].sent \in 0..2 /\ put[u].sent < 2
        BY <1>2, <2>1 DEF SendsUpload, PutRecords
      <3>2. put[u].sent + 1 \in 0..2 /\ put[u].sent + 1 > 0
        BY <3>1
      <3>3. put' = [put EXCEPT ![u].sent = put[u].sent + 1]
        BY <2>1 DEF SendsUpload
      <3>. QED  BY <3>2, <3>3
    <2>2. CASE MissesUpload(u)
      <3>1. put[u].sent - 1 \in 0..2
        BY <1>2, <2>2 DEF MissesUpload, PutRecords
      <3>. QED  BY <2>2, <3>1 DEF MissesUpload
    <2>. QED  BY <2>1, <2>2
  <1>. DEFINE p == [put[u] EXCEPT !.sent = n]
  <1>4. put' = [put EXCEPT ![u] = p]
    BY <1>3
  <1>5. p \in PutRecords /\ p.handlers = put[u].handlers /\ p.answered = put[u].answered
    BY <1>2 DEF PutRecords
  <1>6. put'[u] = p
    BY <1>1, <1>4 DEF ExportTyped
  <1>. HIDE DEF p
  <1>7. UNCHANGED <<cap, staged, entry, stored, attempt, tries, owner, left, pruned, released>>
    BY DEF SendsUpload, MissesUpload, RestOfGateway, Histories
  <1>8. u[2] <= tries[u[1]]
    <2>1. CASE cap[u] = "upload"
      BY <1>1, <1>2, <2>1 DEF UploadSound, Uploading, ExportTyped
    <2>2. CASE put[u].sent > 0
      <3>1. put[u] # NoPut
        BY <2>2 DEF NoPut
      <3>. QED  BY <1>1, <1>2, <3>1, BoundsFacts DEF UploadSound, ExportTyped
    <2>. QED  BY <2>1, <2>2 DEF SendsUpload, MissesUpload
  <1>9. UploadSound(u)'
    <2>1. tries[u[1]] \in Nat /\ ~(u[2] > tries[u[1]])
      BY <1>1, <1>2, <1>8, BoundsFacts DEF ExportTyped
    <2>. QED  BY <1>1, <1>5, <1>6, <1>7, <2>1 DEF UploadSound, Uploading
  <1>10. /\ cap[u] \in {"none", "upload", "download"} /\ cap' = [cap EXCEPT ![u] = cap[u]]
         /\ staged[u] \in {"none", "part", "full"} /\ staged' = [staged EXCEPT ![u] = staged[u]]
    BY <1>1, <1>7 DEF ExportTyped
  <1>. QED  BY <1>4, <1>5, <1>7, <1>9, <1>10, RequestSuffices

\* The first request is let in; there is no file it could collide with.
LEMMA ClaimsUploadPreserves ==
    ASSUME ExportIInv, NEW u \in Uploads, ClaimsUpload(u)
    PROVE  ExportIInv'
  <1>1. ExportTyped /\ UploadSound(u)
    BY DEF ExportIInv
  <1>2. put[u] \in PutRecords /\ u[1] \in Exports /\ u[2] \in 1..MaxTries
    BY <1>1, UploadFacts DEF ExportTyped
  <1>3. /\ put[u].sent > 0 /\ cap[u] = "upload" /\ cap' = [cap EXCEPT ![u] = "none"]
        /\ UNCHANGED <<entry, stored, attempt, tries, owner, left, pruned, released>>
    BY DEF ClaimsUpload, RestOfGateway, Histories
  <1>4. put[u].handlers = 0 /\ ~put[u].answered /\ staged[u] = "none" /\ Uploading(u)
    BY <1>1, <1>3 DEF UploadSound
  <1>. DEFINE p == [put[u] EXCEPT !.sent = put[u].sent - 1, !.handlers = put[u].handlers + 1]
  <1>5. put' = [put EXCEPT ![u] = p] /\ staged' = [staged EXCEPT ![u] = "part"]
    BY <1>4 DEF ClaimsUpload, Opens
  <1>6. p \in PutRecords /\ p.handlers = 1 /\ ~p.answered
    <2>1. PICK n \in 0..2 : n = put[u].sent - 1
      BY <1>2, <1>3 DEF PutRecords
    <2>2. p = LetIn(put[u], n, 1)
      BY <1>4, <2>1 DEF LetIn
    <2>3. 1 \in 0..2
      OBVIOUS
    <2>. HIDE DEF p
    <2>4. p \in PutRecords /\ p.handlers = 1 /\ p.answered = put[u].answered
      BY <1>2, <2>1, <2>2, <2>3, PutChanges
    <2>. QED  BY <1>4, <2>4
  <1>7. put'[u] = p /\ staged'[u] = "part" /\ cap'[u] = "none"
    BY <1>1, <1>3, <1>5 DEF ExportTyped
  <1>. HIDE DEF p
  <1>8. tries[u[1]] \in Nat /\ u[2] = tries[u[1]] /\ attempt[u[1]] = "uploading"
    BY <1>1, <1>2, <1>4, BoundsFacts DEF ExportTyped, Uploading
  <1>9. UploadSound(u)'
    BY <1>1, <1>3, <1>4, <1>6, <1>7, <1>8 DEF UploadSound, Uploading
  <1>. QED  BY <1>3, <1>5, <1>6, <1>9, RequestSuffices

LEMMA HandlerEndsPreserves ==
    ASSUME ExportIInv, NEW u \in Uploads, UploadEnds(u) \/ UploadFails(u)
    PROVE  ExportIInv'
  <1>1. ExportTyped /\ UploadSound(u)
    BY DEF ExportIInv
  <1>2. put[u] \in PutRecords /\ u[1] \in Exports /\ u[2] \in 1..MaxTries
        /\ staged[u] \in {"none", "part", "full"} /\ cap[u] \in {"none", "upload", "download"}
    BY <1>1, UploadFacts DEF ExportTyped
  <1>3. /\ put[u].handlers > 0
        /\ UNCHANGED <<cap, entry, stored, attempt, tries, owner, left, pruned, released>>
    BY DEF UploadEnds, UploadFails, RestOfGateway, Histories
  <1>4. put[u].handlers = 1 /\ ~put[u].answered /\ cap[u] # "upload"
    BY <1>1, <1>3 DEF UploadSound
  <1>5. ~(u[2] > tries[u[1]])
    <2>1. put[u] # NoPut
      BY <1>3 DEF NoPut
    <2>. QED  BY <1>1, <2>1 DEF UploadSound
  <1>6. cap' = [cap EXCEPT ![u] = cap[u]]
    BY <1>1, <1>3 DEF ExportTyped
  <1>7. CASE UploadEnds(u)
    <2>. DEFINE p == [put[u] EXCEPT !.handlers = put[u].handlers - 1, !.answered = TRUE]
                g == IF staged[u] = "none" THEN "none" ELSE "full"
    <2>1. put' = [put EXCEPT ![u] = p] /\ staged' = [staged EXCEPT ![u] = g]
      BY <1>7 DEF UploadEnds
    <2>2. p \in PutRecords /\ p.handlers = 0 /\ p.answered /\ g \in {"none", "part", "full"}
      <3>1. p = Answering(put[u], 0)
        BY <1>4 DEF Answering
      <3>2. 0 \in 0..2
        OBVIOUS
      <3>. HIDE DEF p
      <3>. QED  BY <1>2, <3>1, <3>2, PutChanges
    <2>3. put'[u] = p /\ staged'[u] = g
      BY <1>1, <2>1 DEF ExportTyped
    <2>. HIDE DEF p
    <2>4. UploadSound(u)'
      BY <1>1, <1>3, <1>4, <1>5, <2>2, <2>3 DEF UploadSound, Uploading
    <2>. HIDE DEF g
    <2>. QED  BY <1>2, <1>3, <1>6, <2>1, <2>2, <2>4, RequestSuffices
  <1>8. CASE UploadFails(u)
    <2>. DEFINE p == [put[u] EXCEPT !.handlers = put[u].handlers - 1]
    <2>1. put' = [put EXCEPT ![u] = p] /\ staged' = [staged EXCEPT ![u] = "none"]
      BY <1>8 DEF UploadFails
    <2>2. p \in PutRecords /\ p.handlers = 0 /\ ~p.answered
      BY <1>2, <1>4 DEF PutRecords
    <2>3. put'[u] = p /\ staged'[u] = "none"
      BY <1>1, <2>1 DEF ExportTyped
    <2>. HIDE DEF p
    <2>4. UploadSound(u)'
      BY <1>1, <1>3, <1>4, <1>5, <2>2, <2>3 DEF UploadSound, Uploading
    <2>. QED  BY <1>2, <1>3, <1>6, <2>1, <2>2, <2>4, RequestSuffices
  <1>. QED  BY <1>7, <1>8

LEMMA ExpiresPreserves ==
    ASSUME ExportIInv, NEW u \in Uploads, Expires(u)
    PROVE  ExportIInv'
  <1>1. ExportTyped /\ UploadSound(u)
    BY DEF ExportIInv
  <1>2. put[u] \in PutRecords /\ staged[u] \in {"none", "part", "full"}
        /\ cap[u] \in {"none", "upload", "download"}
    BY <1>1 DEF ExportTyped
  <1>3. /\ UNCHANGED <<staged, entry, stored, attempt, tries, owner, left, pruned, released>>
        /\ staged' = [staged EXCEPT ![u] = staged[u]]
    BY <1>1 DEF Expires, RestOfGateway, Histories, ExportTyped
  <1>4. CASE cap' = [cap EXCEPT ![u] = "none"] /\ UNCHANGED put
    <2>1. cap'[u] = "none" /\ put' = [put EXCEPT ![u] = put[u]]
      BY <1>1, <1>4 DEF ExportTyped
    <2>2. UploadSound(u)'
      BY <1>1, <1>3, <1>4, <2>1 DEF UploadSound, Uploading
    <2>. QED  BY <1>2, <1>3, <1>4, <2>1, <2>2, RequestSuffices
  <1>5. CASE put[u].answered /\ put' = [put EXCEPT ![u].answered = FALSE] /\ UNCHANGED cap
    <2>. DEFINE p == [put[u] EXCEPT !.answered = FALSE]
    <2>1. put' = [put EXCEPT ![u] = p] /\ cap' = [cap EXCEPT ![u] = cap[u]]
      BY <1>1, <1>5 DEF ExportTyped
    <2>2. p \in PutRecords /\ p.handlers = put[u].handlers /\ ~p.answered
      BY <1>2 DEF PutRecords
    <2>3. put'[u] = p
      BY <1>1, <2>1 DEF ExportTyped
    <2>. HIDE DEF p
    <2>4. ~(u[2] > tries[u[1]])
      <3>1. put[u] # NoPut
        BY <1>5 DEF NoPut
      <3>. QED  BY <1>1, <3>1 DEF UploadSound
    <2>5. UploadSound(u)'
      BY <1>1, <1>3, <1>5, <2>2, <2>3, <2>4 DEF UploadSound, Uploading
    <2>. QED  BY <1>2, <1>3, <2>1, <2>2, <2>5, RequestSuffices
  <1>. QED  BY <1>4, <1>5 DEF Expires

LEMMA RevokesFacts ==
    ASSUME ExportTyped, NEW t \in Exports, tries[t] \in 1..MaxTries, Revokes(t)
    PROVE  /\ cap' \in [Uploads -> {"none", "upload", "download"}]
           /\ staged' \in [Uploads -> {"none", "part", "full"}]
           /\ \A u \in Uploads : u[1] = t => cap'[u] = "none"
           /\ \A u \in Uploads : u[1] = t /\ u[2] = tries[t] => staged'[u] = "none"
           /\ \A u \in Uploads : u[1] # t => cap'[u] = cap[u]
           /\ \A u \in Uploads : ~(u[1] = t /\ u[2] = tries[t]) => staged'[u] = staged[u]
  <1>1. Current(t) \in Uploads /\ \A u \in Uploads : u = Current(t) <=> u[1] = t
        /\ u[2] = tries[t]
    BY CurrentFacts
  <1>2. /\ cap' = [u \in Uploads |-> IF u \in Of(t) THEN "none" ELSE cap[u]]
        /\ staged' = [staged EXCEPT ![Current(t)] = "none"]
    BY DEF Revokes
  <1>3. \A u \in Uploads : u \in Of(t) <=> u[1] = t
    BY DEF Of
  <1>4. /\ cap' \in [Uploads -> {"none", "upload", "download"}]
        /\ \A u \in Uploads : u[1] = t => cap'[u] = "none"
        /\ \A u \in Uploads : u[1] # t => cap'[u] = cap[u]
    <2>. HIDE DEF Uploads
    <2>. QED  BY <1>2, <1>3 DEF ExportTyped
  <1>5. /\ staged' \in [Uploads -> {"none", "part", "full"}]
        /\ \A u \in Uploads : u = Current(t) => staged'[u] = "none"
        /\ \A u \in Uploads : u # Current(t) => staged'[u] = staged[u]
    BY <1>1, <1>2 DEF ExportTyped
  <1>. QED  BY <1>1, <1>4, <1>5

\* An upload that is over leaves no capability and no file, and what it held is kept.
LEMMA UploadIsOver ==
    ASSUME ExportIInv, NEW t \in Exports, attempt[t] = "uploading", Revokes(t),
           NEW a \in {"importing", "failed"}, attempt' = [attempt EXCEPT ![t] = a],
           NEW e \in {"none", "reserved", "retained", "abandoning"},
           entry' = [entry EXCEPT ![t] = e], e \in {"reserved", "retained"} => t \in Held,
           NEW b \in BOOLEAN, stored' = [stored EXCEPT ![t] = b], e = "retained" => b,
           UNCHANGED <<tries, put, owner, left>>
    PROVE  ExportIInv'
  <1>1. ExportTyped /\ TransferSound(t) /\ Cardinality(Held) <= MaxStore
    BY DEF ExportIInv
  <1>2. tries[t] \in 1..MaxTries
    BY <1>1, BoundsFacts DEF TransferSound, ExportTyped
  <1>3. /\ cap' \in [Uploads -> {"none", "upload", "download"}]
        /\ staged' \in [Uploads -> {"none", "part", "full"}]
        /\ \A u \in Uploads : u[1] = t => cap'[u] = "none"
        /\ \A u \in Uploads : u[1] = t /\ u[2] = tries[t] => staged'[u] = "none"
        /\ \A u \in Uploads : u[1] # t => cap'[u] = cap[u]
        /\ \A u \in Uploads : ~(u[1] = t /\ u[2] = tries[t]) => staged'[u] = staged[u]
    BY <1>1, <1>2, RevokesFacts
  <1>4. /\ attempt'[t] = a /\ entry'[t] = e /\ stored'[t] = b
        /\ \A s \in Exports \ {t} :
             entry'[s] = entry[s] /\ stored'[s] = stored[s] /\ attempt'[s] = attempt[s]
    BY <1>1 DEF ExportTyped
  <1>5. /\ pruned' \subseteq Exports /\ released' \subseteq Exports
        /\ \A s \in Exports \ {t} :
             (s \in pruned' <=> s \in pruned) /\ (s \in released' <=> s \in released)
    BY <1>1 DEF Revokes, ExportTyped
  <1>6. ExportTyped'
    BY <1>1, <1>3, <1>5 DEF ExportTyped, Uploads
  <1>7. Held' \subseteq Held
    BY <1>4 DEF Held
  <1>8. TransferSound(t)'
    BY <1>1, <1>4 DEF TransferSound
  <1>9. ASSUME NEW u \in Uploads, u[1] = t PROVE UploadSound(u)'
    <2>1. UploadSound(u)
      BY DEF ExportIInv
    <2>2. ~Uploading(u)' /\ cap'[u] = "none"
      BY <1>3, <1>4, <1>9 DEF Uploading
    <2>3. staged'[u] # "none" => u \in left
      BY <1>3, <1>9, <2>1 DEF UploadSound, Uploading
    <2>. QED  BY <2>1, <2>2, <2>3 DEF UploadSound
  <1>. QED
    BY <1>3, <1>4, <1>5, <1>6, <1>7, <1>8, <1>9, HeldShrinks, TransferSuffices

LEMMA UploadIsOverPreserves ==
    ASSUME ExportIInv, NEW t \in Exports, Commits(t) \/ ExportFails(t)
    PROVE  ExportIInv'
  <1>1. ExportTyped /\ TransferSound(t)
    BY DEF ExportIInv
  <1>2. CASE Commits(t)
    <2>1. /\ attempt[t] = "uploading" /\ entry[t] = "reserved" /\ Revokes(t)
          /\ stored' = [stored EXCEPT ![t] = TRUE] /\ UNCHANGED <<tries, put, owner, left>>
      BY <1>2 DEF Commits
    <2>2. \/ /\ entry' = [entry EXCEPT ![t] = "retained"]
             /\ attempt' = [attempt EXCEPT ![t] = "importing"]
          \/ UNCHANGED entry /\ attempt' = [attempt EXCEPT ![t] = "failed"]
      BY <1>2 DEF Commits
    <2>3. UNCHANGED entry => entry' = [entry EXCEPT ![t] = "reserved"]
      BY <1>1, <2>1 DEF ExportTyped
    <2>4. t \in Held
      BY <2>1 DEF Held
    <2>. QED  BY <2>1, <2>2, <2>3, <2>4, UploadIsOver
  <1>3. CASE ExportFails(t)
    <2>1. /\ attempt[t] = "uploading" /\ attempt' = [attempt EXCEPT ![t] = "failed"]
          /\ Revokes(t) /\ UNCHANGED <<entry, stored, tries, put, owner, left>>
      BY <1>3 DEF ExportFails
    <2>2. /\ entry[t] \in {"none", "reserved", "retained", "abandoning"}
          /\ entry[t] \in {"reserved", "retained"} => t \in Held
          /\ stored[t] \in BOOLEAN /\ (entry[t] = "retained" => stored[t])
      BY <1>1 DEF TransferSound, ExportTyped, Held
    <2>3. entry' = [entry EXCEPT ![t] = entry[t]]
          /\ stored' = [stored EXCEPT ![t] = stored[t]]
      BY <1>1, <2>1, <2>2 DEF ExportTyped
    <2>. QED  BY <2>1, <2>2, <2>3, UploadIsOver
  <1>. QED  BY <1>2, <1>3

LEMMA ReservesPreserves ==
    ASSUME ExportIInv, NEW t \in Exports, Reserves(t) PROVE ExportIInv'
  <1>1. ExportTyped /\ TransferSound(t) /\ Cardinality(Held) <= MaxStore
    BY DEF ExportIInv
  <1>2. /\ attempt[t] = "off" /\ tries[t] < MaxTries /\ owner[t]
        /\ entry[t] \in {"none", "reserved"}
        /\ tries' = [tries EXCEPT ![t] = @ + 1]
        /\ UNCHANGED <<stored, put, staged, owner, left, pruned, released>>
    BY DEF Reserves, Histories
  <1>. DEFINE n == tries[t] + 1
              v == <<t, n>>
  <1>3. tries[t] \in Nat /\ n \in 1..MaxTries /\ n \in 0..MaxTries /\ v \in Uploads
    BY <1>1, <1>2, BoundsFacts DEF ExportTyped, Uploads
  <1>4. \A u \in Uploads : u = v <=> u[1] = t /\ u[2] = n
    BY DEF Uploads
  <1>5. /\ tries' = [tries EXCEPT ![t] = n] /\ tries'[t] = n
        /\ \A s \in Exports \ {t} : tries'[s] = tries[s]
        /\ tries' \in [Exports -> 0..MaxTries]
    BY <1>1, <1>2, <1>3 DEF ExportTyped
  <1>6. ASSUME NEW u \in Uploads, u[1] = t
        PROVE  /\ cap[u] = "none" /\ (staged[u] # "none" => u \in left)
               /\ u[2] >= n => put[u] = NoPut /\ u \notin left /\ staged[u] = "none"
    <2>1. UploadSound(u) /\ cap[u] \in {"none", "upload", "download"} /\ u[2] \in 1..MaxTries
      BY <1>1, UploadFacts DEF ExportIInv, ExportTyped
    <2>2. u[2] >= n => u[2] > tries[t]
      BY <1>3, <2>1
    <2>. QED  BY <1>2, <1>6, <2>1, <2>2 DEF UploadSound, Uploading
  <1>. HIDE DEF n
  <1>7. CASE Admits(t)
    <2>1. /\ entry' = [entry EXCEPT ![t] = "reserved"]
          /\ attempt' = [attempt EXCEPT ![t] = "uploading"]
          /\ cap' = [cap EXCEPT ![v] = "upload"]
      BY <1>7 DEF Reserves, n
    <2>2. /\ attempt'[t] = "uploading" /\ entry'[t] = "reserved"
          /\ \A s \in Exports \ {t} : entry'[s] = entry[s] /\ attempt'[s] = attempt[s]
      BY <1>1, <2>1 DEF ExportTyped
    <2>3. /\ cap' \in [Uploads -> {"none", "upload", "download"}] /\ cap'[v] = "upload"
          /\ \A u \in Uploads : u # v => cap'[u] = cap[u]
      BY <1>1, <1>3, <2>1 DEF ExportTyped
    <2>4. ExportTyped'
      BY <1>1, <1>2, <1>5, <2>1, <2>3 DEF ExportTyped, Uploads
    <2>5. Cardinality(Held') <= MaxStore
      <3>1. Held' = Held \cup {t}
        BY <2>2 DEF Held
      <3>2. CASE t \in Held
        <4>1. Held' = Held
          BY <3>1, <3>2
        <4>. QED  BY <1>1, <4>1
      <3>3. CASE t \notin Held
        <4>1. Cardinality(Held) < MaxStore
          BY <1>7, <3>3 DEF Admits, Held
        <4>2. Cardinality(Held') = Cardinality(Held) + 1
          BY <3>1, <3>3, HeldIsFinite, FS_AddElement
        <4>. QED  BY <4>1, <4>2, HeldIsFinite, BoundsFacts
      <3>. QED  BY <3>2, <3>3
    <2>6. TransferSound(t)'
      BY <1>1, <1>2, <1>3, <1>5, <2>2 DEF TransferSound
    <2>7. ASSUME NEW u \in Uploads, u[1] = t PROVE UploadSound(u)'
      <3>0. u[2] \in Nat /\ n \in Nat
        BY <1>3, UploadFacts
      <3>1. /\ cap[u] = "none" /\ (staged[u] # "none" => u \in left)
            /\ u[2] >= n => put[u] = NoPut /\ u \notin left /\ staged[u] = "none"
        BY <1>6, <2>7
      <3>2. UploadSound(u)
        BY DEF ExportIInv
      <3>3. CASE u = v
        <4>1. u[2] = n /\ put[u] = NoPut /\ u \notin left /\ staged[u] = "none"
          BY <1>4, <3>0, <3>1, <3>3
        <4>2. NoPut.handlers = 0 /\ ~NoPut.answered
          BY DEF NoPut
        <4>3. Uploading(u)' /\ ~(u[2] > tries'[u[1]]) /\ cap'[u] = "upload"
          BY <1>5, <2>2, <2>3, <2>7, <3>0, <3>3, <4>1 DEF Uploading
        <4>. QED  BY <1>2, <4>1, <4>2, <4>3 DEF UploadSound
      <3>4. CASE u # v
        <4>1. u[2] # n /\ ~Uploading(u)' /\ cap'[u] = "none"
          BY <1>4, <1>5, <2>3, <2>7, <3>1, <3>4 DEF Uploading
        <4>2. u[2] > tries'[u[1]] => put'[u] = NoPut /\ u \notin left'
          BY <1>2, <1>5, <2>7, <3>0, <3>1
        <4>. QED  BY <1>2, <3>1, <3>2, <4>1, <4>2 DEF UploadSound
      <3>. QED  BY <3>3, <3>4
    <2>8. ASSUME NEW u \in Uploads, u[1] # t
          PROVE  cap'[u] = cap[u] /\ put'[u] = put[u] /\ staged'[u] = staged[u]
      BY <1>2, <1>4, <2>3, <2>8
    <2>9. ASSUME NEW s \in Exports \ {t}
          PROVE  /\ entry'[s] = entry[s] /\ stored'[s] = stored[s] /\ attempt'[s] = attempt[s]
                 /\ tries'[s] = tries[s] /\ owner'[s] = owner[s]
                 /\ (s \in pruned' <=> s \in pruned) /\ (s \in released' <=> s \in released)
      BY <1>2, <1>5, <2>2
    <2>. QED  BY <1>2, <2>4, <2>5, <2>6, <2>7, <2>8, <2>9, TransferSuffices
  <1>8. CASE ~Admits(t)
    <2>1. attempt' = [attempt EXCEPT ![t] = "failed"] /\ UNCHANGED <<entry, cap>>
      BY <1>8 DEF Reserves
    <2>2. attempt'[t] = "failed" /\ \A s \in Exports \ {t} : attempt'[s] = attempt[s]
      BY <1>1, <2>1 DEF ExportTyped
    <2>3. ExportTyped'
      BY <1>1, <1>2, <1>5, <2>1 DEF ExportTyped, Uploads
    <2>4. Cardinality(Held') <= MaxStore
      <3>1. Held' = Held
        BY <2>1 DEF Held
      <3>. QED  BY <1>1, <3>1
    <2>5. TransferSound(t)'
      BY <1>1, <1>2, <1>3, <1>5, <2>1, <2>2 DEF TransferSound
    <2>6. ASSUME NEW u \in Uploads, u[1] = t PROVE UploadSound(u)'
      <3>0. u[2] \in Nat /\ n \in Nat
        BY <1>3, UploadFacts
      <3>1. /\ cap[u] = "none" /\ (staged[u] # "none" => u \in left)
            /\ u[2] >= n => put[u] = NoPut /\ u \notin left /\ staged[u] = "none"
        BY <1>6, <2>6
      <3>2. UploadSound(u)
        BY DEF ExportIInv
      <3>3. ~Uploading(u)' /\ cap'[u] = "none"
        BY <2>1, <2>2, <2>6, <3>1 DEF Uploading
      <3>4. u[2] > tries'[u[1]] => put'[u] = NoPut /\ u \notin left'
        BY <1>2, <1>5, <2>6, <3>0, <3>1
      <3>. QED  BY <1>2, <3>1, <3>2, <3>3, <3>4 DEF UploadSound
    <2>7. ASSUME NEW s \in Exports \ {t}
          PROVE  /\ entry'[s] = entry[s] /\ stored'[s] = stored[s] /\ attempt'[s] = attempt[s]
                 /\ tries'[s] = tries[s] /\ owner'[s] = owner[s]
                 /\ (s \in pruned' <=> s \in pruned) /\ (s \in released' <=> s \in released)
      BY <1>2, <1>5, <2>1, <2>2
    <2>. QED  BY <1>2, <2>1, <2>3, <2>4, <2>5, <2>6, <2>7, TransferSuffices
  <1>. QED  BY <1>7, <1>8

\* The payload is offered again.
LEMMA IssuesDownloadPreserves ==
    ASSUME ExportIInv, NEW t \in Exports, IssuesDownload(t) PROVE ExportIInv'
  <1>1. ExportTyped /\ TransferSound(t)
    BY DEF ExportIInv
  <1>2. /\ attempt[t] = "importing" /\ cap[Current(t)] = "none"
        /\ cap' = [cap EXCEPT ![Current(t)] = "download"]
        /\ UNCHANGED <<put, staged, entry, stored, attempt, tries, owner, left, pruned,
           released>>
    BY DEF IssuesDownload, RestOfGateway, Histories
  <1>3. tries[t] \in 1..MaxTries
    BY <1>1, <1>2, BoundsFacts DEF TransferSound, ExportTyped
  <1>4. PICK u \in Uploads : u = Current(t) /\ u[1] = t /\ u[2] = tries[t]
    BY <1>3, CurrentFacts
  <1>5. UploadSound(u)
    BY DEF ExportIInv
  <1>6. /\ cap'[u] = "download" /\ cap' = [cap EXCEPT ![u] = "download"]
        /\ put[u] \in PutRecords /\ put' = [put EXCEPT ![u] = put[u]]
        /\ staged[u] \in {"none", "part", "full"} /\ staged' = [staged EXCEPT ![u] = staged[u]]
    BY <1>1, <1>2, <1>4 DEF ExportTyped
  <1>7. UploadSound(u)'
    BY <1>2, <1>4, <1>5, <1>6 DEF UploadSound, Uploading
  <1>. QED  BY <1>2, <1>6, <1>7, RequestSuffices

\* The import reads the payload, or fails.
LEMMA ImportIsOverPreserves ==
    ASSUME ExportIInv, NEW t \in Exports, ClaimsDownload(t) \/ ImportFails(t)
    PROVE  ExportIInv'
  <1>1. ExportTyped /\ TransferSound(t) /\ Cardinality(Held) <= MaxStore
    BY DEF ExportIInv
  <1>2. PICK a \in {"done", "failed"} : attempt' = [attempt EXCEPT ![t] = a]
    BY DEF ClaimsDownload, ImportFails
  <1>3. /\ attempt[t] = "importing" /\ cap' = [cap EXCEPT ![Current(t)] = "none"]
        /\ UNCHANGED <<entry, stored, tries, put, staged, owner, left, pruned, released>>
    BY DEF ClaimsDownload, ImportFails, Histories
  <1>4. tries[t] \in 1..MaxTries
    BY <1>1, <1>3, BoundsFacts DEF TransferSound, ExportTyped
  <1>5. PICK v \in Uploads : v = Current(t) /\ v[1] = t /\ v[2] = tries[t]
    BY <1>4, CurrentFacts
  <1>6. \A u \in Uploads : u = v <=> u[1] = t /\ u[2] = tries[t]
    BY <1>5, CurrentFacts
  <1>7. /\ cap' \in [Uploads -> {"none", "upload", "download"}] /\ cap'[v] = "none"
        /\ \A u \in Uploads : u # v => cap'[u] = cap[u]
    BY <1>1, <1>3, <1>5 DEF ExportTyped
  <1>8. attempt'[t] = a /\ \A s \in Exports \ {t} : attempt'[s] = attempt[s]
    BY <1>1, <1>2 DEF ExportTyped
  <1>9. ExportTyped'
    BY <1>1, <1>2, <1>3, <1>7 DEF ExportTyped, Uploads
  <1>10. Held' = Held
    BY <1>3 DEF Held
  <1>11. TransferSound(t)'
    BY <1>1, <1>3, <1>8 DEF TransferSound
  <1>12. ASSUME NEW u \in Uploads, u[1] = t PROVE UploadSound(u)'
    <2>1. UploadSound(u) /\ cap[u] \in {"none", "upload", "download"}
      BY <1>1 DEF ExportIInv, ExportTyped
    <2>2. ~Uploading(u)' /\ ~Uploading(u)
      BY <1>3, <1>8, <1>12 DEF Uploading
    <2>3. cap'[u] = "none"
      BY <1>6, <1>7, <1>12, <2>1, <2>2 DEF UploadSound
    <2>. QED  BY <1>3, <2>1, <2>2, <2>3 DEF UploadSound
  <1>13. ASSUME NEW u \in Uploads, u[1] # t
         PROVE  cap'[u] = cap[u] /\ put'[u] = put[u] /\ staged'[u] = staged[u]
    BY <1>3, <1>5, <1>7, <1>13
  <1>14. ASSUME NEW s \in Exports \ {t}
         PROVE  /\ entry'[s] = entry[s] /\ stored'[s] = stored[s] /\ attempt'[s] = attempt[s]
                /\ tries'[s] = tries[s] /\ owner'[s] = owner[s]
                /\ (s \in pruned' <=> s \in pruned) /\ (s \in released' <=> s \in released)
    BY <1>3, <1>8
  <1>. QED  BY <1>1, <1>3, <1>9, <1>10, <1>11, <1>12, <1>13, <1>14, TransferSuffices

\* Rows are given up, retried or removed by what takes no room and no upload; files
\* that a crash left may go, and those of an upload that waits for long.
LEMMA RowsSuffice ==
    ASSUME ExportIInv, UNCHANGED <<tries, cap, put>>, ExportTyped', Held' \subseteq Held,
           left' \subseteq left, pruned \subseteq pruned',
           \A s \in Exports : \/ attempt'[s] = attempt[s]
                              \/ /\ attempt[s] \in {"failed", "done"}
                                 /\ attempt'[s] \in {"off", "importing"},
           \A u \in Uploads : \/ staged'[u] = staged[u] /\ (u \in left => u \in left')
                              \/ /\ u \in left \/ u[1] \in pruned'
                                 /\ staged'[u] = "none",
           \A s \in Exports : TransferSound(s)'
    PROVE  ExportIInv'
  <1>1. Cardinality(Held') <= MaxStore
    BY HeldShrinks
  <1>2. ASSUME NEW u \in Uploads PROVE UploadSound(u)'
    <2>1. UploadSound(u) /\ u[1] \in Exports
      BY UploadFacts DEF ExportIInv
    <2>2. Uploading(u)' <=> Uploading(u)
      BY <2>1 DEF Uploading
    <2>3. attempt[u[1]] = "importing" => attempt'[u[1]] = "importing"
      BY <2>1
    <2>. QED  BY <2>1, <2>2, <2>3 DEF UploadSound
  <1>. QED  BY <1>1, <1>2 DEF ExportIInv, Uploads

\* Giving up releases reservations and keeps what is retained out of reach.
LEMMA GivenUpFacts ==
    ASSUME ExportTyped, NEW ts \in SUBSET Exports
    PROVE  /\ GivenUp(ts) \in [Exports -> {"none", "reserved", "retained", "abandoning"}]
           /\ \A s \in Exports \ ts : GivenUp(ts)[s] = entry[s]
           /\ \A s \in ts : GivenUp(ts)[s] \notin {"reserved", "retained"}
  <1>1. \A s \in Exports : entry[s] \in {"none", "reserved", "retained", "abandoning"}
    BY DEF ExportTyped
  <1>2. \A s \in Exports \ ts : GivenUp(ts)[s] = entry[s]
    BY DEF GivenUp
  <1>3. ASSUME NEW s \in ts PROVE GivenUp(ts)[s] \in {"none", "abandoning"}
    <2>1. CASE entry[s] = "reserved"
      BY <2>1 DEF GivenUp
    <2>2. CASE entry[s] = "retained"
      BY <2>2 DEF GivenUp
    <2>3. CASE entry[s] \in {"none", "abandoning"}
      BY <2>3 DEF GivenUp
    <2>. QED  BY <1>1, <2>1, <2>2, <2>3
  <1>4. DOMAIN GivenUp(ts) = Exports /\ GivenUp(ts) = [s \in Exports |-> GivenUp(ts)[s]]
    BY DEF GivenUp
  <1>5. \A s \in Exports : GivenUp(ts)[s] \in {"none", "reserved", "retained", "abandoning"}
    BY <1>1, <1>2, <1>3
  <1>. QED  BY <1>2, <1>3, <1>4, <1>5

LEMMA ForegroundEndsPreserves ==
    ASSUME ExportIInv, NEW t \in Exports, ForegroundEnds(t) PROVE ExportIInv'
  <1>1. ExportTyped
    BY DEF ExportIInv
  <1>2. /\ attempt[t] \in {"failed", "done"} /\ attempt' = [attempt EXCEPT ![t] = "off"]
        /\ entry' = GivenUp({t})
        /\ UNCHANGED <<owner, tries, cap, put, staged, left, pruned, released>>
        /\ stored' = IF entry[t] = "reserved" \/ entry[t] = "none"
                     THEN stored ELSE Pruned(entry')
    BY DEF ForegroundEnds, RestOfEnd, Histories
  <1>3. /\ entry' \in [Exports -> {"none", "reserved", "retained", "abandoning"}]
        /\ \A s \in Exports \ {t} : entry'[s] = entry[s]
        /\ entry'[t] \notin {"reserved", "retained"}
    BY <1>1, <1>2, GivenUpFacts
  <1>4. attempt'[t] = "off" /\ \A s \in Exports \ {t} : attempt'[s] = attempt[s]
    BY <1>1, <1>2 DEF ExportTyped
  <1>5. /\ stored' \in [Exports -> BOOLEAN]
        /\ \A s \in Exports : stored[s] /\ entry'[s] = "retained" => stored'[s]
    BY <1>1, <1>2 DEF ExportTyped, Pruned
  <1>6. ExportTyped'
    BY <1>1, <1>2, <1>3, <1>5 DEF ExportTyped, Uploads
  <1>7. Held' \subseteq Held
    BY <1>3 DEF Held
  <1>8. ASSUME NEW s \in Exports PROVE TransferSound(s)'
    <2>1. TransferSound(s)
      BY DEF ExportIInv
    <2>. QED  BY <1>2, <1>3, <1>4, <1>5, <2>1 DEF TransferSound
  <1>. QED  BY <1>2, <1>4, <1>6, <1>7, <1>8, RowsSuffice

LEMMA JobStepsPreserve ==
    ASSUME ExportIInv, NEW t \in Exports, JobRetries(t) \/ JobEnds(t) \/ Removes(t)
    PROVE  ExportIInv'
  <1>1. ExportTyped
    BY DEF ExportIInv
  <1>2. UNCHANGED <<tries, cap, put, staged, left, pruned, released>>
    BY DEF JobRetries, JobEnds, Removes, RestOfEnd, Histories
  <1>3. CASE JobRetries(t)
    <2>1. PICK a \in {"off", "importing"} : attempt' = [attempt EXCEPT ![t] = a]
      BY <1>3 DEF JobRetries
    <2>2. /\ attempt[t] = "failed" /\ owner[t] /\ UNCHANGED <<entry, stored, owner>>
      BY <1>3 DEF JobRetries
    <2>3. attempt'[t] = a /\ \A s \in Exports \ {t} : attempt'[s] = attempt[s]
      BY <1>1, <2>1 DEF ExportTyped
    <2>4. ExportTyped' /\ Held' \subseteq Held
      BY <1>1, <1>2, <2>1, <2>2 DEF ExportTyped, Uploads, Held
    <2>5. ASSUME NEW s \in Exports PROVE TransferSound(s)'
      <3>1. TransferSound(s)
        BY DEF ExportIInv
      <3>. QED  BY <1>2, <2>2, <2>3, <3>1 DEF TransferSound
    <2>. QED  BY <1>2, <2>2, <2>3, <2>4, <2>5, RowsSuffice
  <1>4. CASE JobEnds(t)
    <2>1. /\ attempt[t] \in {"failed", "done"} /\ attempt' = [attempt EXCEPT ![t] = "off"]
          /\ owner' = [owner EXCEPT ![t] = FALSE] /\ UNCHANGED <<entry, stored>>
      BY <1>4 DEF JobEnds
    <2>2. /\ attempt'[t] = "off"
          /\ \A s \in Exports \ {t} : attempt'[s] = attempt[s] /\ owner'[s] = owner[s]
      BY <1>1, <2>1 DEF ExportTyped
    <2>3. ExportTyped' /\ Held' \subseteq Held
      BY <1>1, <1>2, <2>1 DEF ExportTyped, Uploads, Held
    <2>4. ASSUME NEW s \in Exports PROVE TransferSound(s)'
      <3>1. TransferSound(s)
        BY DEF ExportIInv
      <3>. QED  BY <1>2, <2>1, <2>2, <3>1 DEF TransferSound
    <2>. QED  BY <1>2, <2>1, <2>2, <2>3, <2>4, RowsSuffice
  <1>5. CASE Removes(t)
    <2>1. /\ entry[t] = "abandoning" /\ entry' = [entry EXCEPT ![t] = "none"]
          /\ stored' = [stored EXCEPT ![t] = FALSE] /\ UNCHANGED <<attempt, owner>>
      BY <1>5 DEF Removes
    <2>2. /\ entry'[t] = "none"
          /\ \A s \in Exports \ {t} : entry'[s] = entry[s] /\ stored'[s] = stored[s]
      BY <1>1, <2>1 DEF ExportTyped
    <2>3. ExportTyped'
      BY <1>1, <1>2, <2>1 DEF ExportTyped, Uploads
    <2>4. Held' \subseteq Held
      BY <2>2 DEF Held
    <2>5. ASSUME NEW s \in Exports PROVE TransferSound(s)'
      <3>1. TransferSound(s)
        BY DEF ExportIInv
      <3>. QED  BY <1>2, <2>1, <2>2, <3>1 DEF TransferSound
    <2>. QED  BY <1>2, <2>1, <2>3, <2>4, <2>5, RowsSuffice
  <1>. QED  BY <1>3, <1>4, <1>5

LEMMA ExportSweepPreserves ==
    ASSUME ExportIInv, ExportSweep PROVE ExportIInv'
  <1>1. ExportTyped
    BY DEF ExportIInv
  <1>2. PICK old \in SUBSET Waiting, files \in SUBSET {u \in Uploads : staged[u] # "none"} :
           /\ entry' = GivenUp({t \in Exports : Unwanted(t)} \cup old)
           /\ stored' = Pruned(entry')
           /\ staged' = [u \in Uploads |-> IF u \in files THEN "none" ELSE staged[u]]
           /\ left' = left \ files /\ pruned' = pruned \cup {u[1] : u \in files \ left}
           /\ released' = released \cup {t \in old : attempt[t] = "uploading"}
           /\ UNCHANGED <<attempt, tries, cap, put, owner>>
    BY DEF ExportSweep
  <1>. DEFINE ts == {t \in Exports : Unwanted(t)} \cup old
  <1>3. ASSUME NEW s \in ts
        PROVE  attempt[s] = "uploading" => s \in released' \ Managed
    <2>1. TransferSound(s)
      BY DEF ExportIInv, Waiting
    <2>2. CASE s \in old
      BY <1>2, <2>2 DEF Waiting
    <2>3. CASE s \in Exports /\ Unwanted(s)
      BY <2>1, <2>3 DEF Unwanted, TransferSound
    <2>. QED  BY <2>2, <2>3
  <1>4. /\ entry' \in [Exports -> {"none", "reserved", "retained", "abandoning"}]
        /\ \A s \in Exports \ ts : entry'[s] = entry[s]
        /\ \A s \in ts : entry'[s] \notin {"reserved", "retained"}
    <2>1. ts \in SUBSET Exports
      BY DEF Waiting
    <2>. QED  BY <1>1, <1>2, <2>1, GivenUpFacts
  <1>5. /\ stored' \in [Exports -> BOOLEAN]
        /\ \A s \in Exports : stored[s] /\ entry'[s] = "retained" => stored'[s]
    BY <1>1, <1>2 DEF ExportTyped, Pruned
  <1>6. /\ staged' \in [Uploads -> {"none", "part", "full"}]
        /\ \A u \in Uploads : staged'[u] = IF u \in files THEN "none" ELSE staged[u]
    BY <1>1, <1>2 DEF ExportTyped
  <1>7. pruned' \subseteq Exports /\ released' \subseteq Exports
    BY <1>1, <1>2, UploadFacts DEF ExportTyped, Waiting
  <1>. HIDE DEF ts
  <1>8. ExportTyped'
    BY <1>1, <1>2, <1>4, <1>5, <1>6, <1>7 DEF ExportTyped, Uploads
  <1>9. Held' \subseteq Held
    BY <1>4 DEF Held
  <1>10. ASSUME NEW s \in Exports PROVE TransferSound(s)'
    <2>1. TransferSound(s)
      BY DEF ExportIInv
    <2>2. CASE s \in ts
      BY <1>2, <1>3, <1>4, <2>1, <2>2 DEF TransferSound
    <2>3. CASE s \notin ts
      BY <1>2, <1>4, <1>5, <2>1, <2>3 DEF TransferSound
    <2>. QED  BY <2>2, <2>3
  <1>11. ASSUME NEW u \in Uploads
         PROVE  \/ staged'[u] = staged[u] /\ (u \in left => u \in left')
                \/ /\ u \in left \/ u[1] \in pruned'
                   /\ staged'[u] = "none"
    BY <1>2, <1>6
  <1>. QED  BY <1>2, <1>8, <1>9, <1>10, <1>11, RowsSuffice

LEMMA ExportCrashPreserves ==
    ASSUME ExportIInv, ExportCrash PROVE ExportIInv'
  <1>1. ExportTyped /\ Cardinality(Held) <= MaxStore
    BY DEF ExportIInv
  <1>2. /\ attempt' = [t \in Exports |-> IF attempt[t] \in {"uploading", "importing"}
                                         THEN "failed" ELSE attempt[t]]
        /\ cap' = [u \in Uploads |-> "none"] /\ put' = [u \in Uploads |-> NoPut]
        /\ left' = left \cup {u \in Uploads : staged[u] # "none"}
        /\ pruned' = {} /\ released' = {}
        /\ UNCHANGED <<entry, stored, tries, staged, owner>>
    BY DEF ExportCrash
  <1>3. NoPut \in PutRecords /\ NoPut.handlers = 0 /\ ~NoPut.answered
    BY DEF NoPut, PutRecords
  <1>4. /\ attempt' \in [Exports -> {"off", "uploading", "importing", "failed", "done"}]
        /\ \A t \in Exports : /\ attempt'[t] # "uploading"
                              /\ (attempt[t] = "off" => attempt'[t] = "off")
                              /\ attempt'[t] # "off" => attempt[t] # "off"
    BY <1>1, <1>2 DEF ExportTyped
  <1>5. /\ put' \in [Uploads -> PutRecords]
        /\ cap' \in [Uploads -> {"none", "upload", "download"}]
        /\ \A u \in Uploads : put'[u] = NoPut /\ cap'[u] = "none"
    BY <1>2, <1>3
  <1>6. ExportTyped'
    BY <1>1, <1>2, <1>4, <1>5 DEF ExportTyped, Uploads
  <1>7. Cardinality(Held') <= MaxStore
    <2>1. Held' = Held
      BY <1>2 DEF Held
    <2>. QED  BY <1>1, <2>1
  <1>8. ASSUME NEW s \in Exports PROVE TransferSound(s)'
    <2>1. TransferSound(s)
      BY DEF ExportIInv
    <2>. QED  BY <1>2, <1>4, <2>1 DEF TransferSound
  <1>9. ASSUME NEW u \in Uploads PROVE UploadSound(u)'
    <2>1. UploadSound(u) /\ u[1] \in Exports
      BY UploadFacts DEF ExportIInv
    <2>2. ~Uploading(u)'
      BY <1>4, <2>1 DEF Uploading
    <2>3. u[2] > tries[u[1]] => staged[u] = "none"
      <3>1. u[2] \in Nat /\ tries[u[1]] \in Nat
        BY <1>1, <2>1, UploadFacts, BoundsFacts DEF ExportTyped
      <3>. QED  BY <2>1, <3>1 DEF UploadSound, Uploading
    <2>4. u[2] > tries'[u[1]] => put'[u] = NoPut /\ u \notin left'
      BY <1>2, <1>5, <2>1, <2>3 DEF UploadSound
    <2>5. staged'[u] # "none" => u \in left'
      BY <1>2
    <2>. QED  BY <1>3, <1>5, <2>2, <2>4, <2>5 DEF UploadSound
  <1>. QED  BY <1>6, <1>7, <1>8, <1>9 DEF ExportIInv, Uploads

LEMMA ExportNextPreserves ==
    ASSUME ExportIInv, [ExportNext]_exportvars PROVE ExportIInv'
  <1>1. ASSUME NEW t \in Exports,
               \/ Reserves(t) \/ Commits(t) \/ ExportFails(t) \/ IssuesDownload(t)
               \/ ClaimsDownload(t) \/ ImportFails(t) \/ ForegroundEnds(t) \/ JobRetries(t)
               \/ JobEnds(t) \/ Removes(t)
        PROVE  ExportIInv'
    BY <1>1, ReservesPreserves, UploadIsOverPreserves, IssuesDownloadPreserves,
       ImportIsOverPreserves, ForegroundEndsPreserves, JobStepsPreserve
  <1>2. ASSUME NEW u \in Uploads,
               \/ SendsUpload(u) \/ ClaimsUpload(u) \/ MissesUpload(u) \/ UploadEnds(u)
               \/ UploadFails(u) \/ Expires(u)
        PROVE  ExportIInv'
    BY <1>2, SendsUploadPreserves, ClaimsUploadPreserves, HandlerEndsPreserves,
       ExpiresPreserves
  <1>3. CASE UNCHANGED exportvars
    <2>1. UNCHANGED <<entry, stored, attempt, tries, cap, put, staged, owner, left, pruned,
          released>>
      BY <1>3 DEF exportvars
    <2>2. ExportTyped' /\ Held' \subseteq Held
      BY <2>1 DEF ExportIInv, ExportTyped, Uploads, Held
    <2>3. ASSUME NEW s \in Exports PROVE TransferSound(s)'
      <3>1. TransferSound(s)
        BY DEF ExportIInv
      <3>. QED  BY <2>1, <3>1 DEF TransferSound
    <2>. QED  BY <2>1, <2>2, <2>3, RowsSuffice
  <1>. QED  BY <1>1, <1>2, <1>3, ExportSweepPreserves, ExportCrashPreserves DEF ExportNext

LEMMA ExportIInvImpliesInv == ExportIInv => ExportsInv
  <1>. SUFFICES ASSUME ExportIInv PROVE ExportsInv
    OBVIOUS
  <1>1. ExportTyped
    BY DEF ExportIInv
  <1>2. ExportTypeOK
    <2>1. ASSUME NEW u \in Uploads PROVE put[u].sent \in 0..2 /\ put[u].handlers \in 0..2
      <3>1. put[u] \in PutRecords
        BY <1>1 DEF ExportTyped
      <3>. QED  BY <3>1 DEF PutRecords
    <2>. QED  BY <1>1, <2>1 DEF ExportTyped, ExportTypeOK
  <1>3. CapacityKept /\ RetainedIsStored
    BY DEF ExportIInv, TransferSound, CapacityKept, RetainedIsStored
  <1>4. AcknowledgedIsStored
    <2>1. ASSUME NEW t \in Exports, attempt[t] = "uploading", put[Current(t)].answered
          PROVE  staged[Current(t)] = "full" \/ t \in pruned
      <3>1. tries[t] \in 1..MaxTries
        <4>1. TransferSound(t)
          BY DEF ExportIInv
        <4>. QED  BY <1>1, <2>1, <4>1, BoundsFacts DEF TransferSound, ExportTyped
      <3>2. PICK u \in Uploads : u = Current(t) /\ u[1] = t /\ u[2] = tries[t]
        BY <3>1, CurrentFacts
      <3>3. UploadSound(u)
        BY DEF ExportIInv
      <3>. QED  BY <2>1, <3>2, <3>3 DEF UploadSound, Uploading
    <2>. QED  BY <2>1 DEF AcknowledgedIsStored
  <1>5. NothingOutlives
    <2>1. ASSUME NEW u \in Uploads
          PROVE  /\ cap[u] # "none" =>
                      u = Current(u[1]) /\ attempt[u[1]] \in {"uploading", "importing"}
                 /\ staged[u] # "none" =>
                      u \in left \/ (u = Current(u[1]) /\ attempt[u[1]] = "uploading")
      <3>1. UploadSound(u) /\ u[1] \in Exports /\ cap[u] \in {"none", "upload", "download"}
        BY <1>1, UploadFacts DEF ExportIInv, ExportTyped
      <3>2. u = Current(u[1]) <=> u[2] = tries[u[1]]
        BY <3>1, CurrentFacts
      <3>. QED  BY <3>1, <3>2 DEF UploadSound, Uploading
    <2>. QED  BY <2>1 DEF NothingOutlives
  <1>. QED  BY <1>2, <1>3, <1>4, <1>5 DEF ExportsInv

\* However many copies overlap, retry, fail and crash, the payload store keeps to its
\* limit, what is retained is on disk, and so is what was acknowledged, unless its attempt
\* waited for longer than the sweeps allow; an attempt leaves no capability and no file.
THEOREM ExportsAreSound == ExportSpec => []ExportsInv
  <1>1. ExportInit => ExportIInv
    BY ExportInitEstablishes
  <1>2. ExportIInv /\ [ExportNext]_exportvars => ExportIInv'
    BY ExportNextPreserves
  <1>3. ExportIInv => ExportsInv
    BY ExportIInvImpliesInv
  <1>. QED  BY <1>1, <1>2, <1>3, PTL DEF ExportSpec

-----------------------------------------------------------------------------
(* A session copy: what the disk of the destination and the records of      *)
(* Control tell of each other                                               *)

Imports == {"begin", "download", "finish", "unpack"}
Commands == Imports \cup {"release", "abandon"}

\* The steps of an attempt that need the import to be undecided.
Importing == {"begin", "download", "finish", "again", "unpack", "reunpack", "record"}

WriteRecords == [status : {"none", "receiving", "committing", "completed"},
                 leaving : {"none", "temp", "archive"}]
UnpackRecords ==
    [status : {"none", "extracting", "prepared", "backup_moved", "publishing", "completed"},
     leaving : {"none", "rollback", "rollback_archive", "commit", "commit_archive"},
     existed : BOOLEAN]
ExecRecords ==
    [op : Commands \cup {"idle"},
     at : {"start", "temp", "metadata", "replace", "complete", "extract", "published",
           "unpack", "settle"}]
Checkpoints == [step : {"none", "exported", "importing", "imported"},
                released : BOOLEAN, abandoning : BOOLEAN]

\* The types of the disk and of the control, of which CopyTypeOK is a consequence.
DiskTyped ==
    /\ kind \in {"file", "dir"} /\ original \in {"none", "old"}
    /\ dest \in {"none", "old", "new", "edited"} /\ archive \in BOOLEAN
    /\ temp \in {"none", "partial", "full"} /\ meta \in BOOLEAN /\ wrec \in WriteRecords
    /\ staging \in {"none", "partial", "full"} /\ backup \in {"none", "old", "edited"}
    /\ urec \in UnpackRecords /\ exec \in ExecRecords
    /\ published \in {0, 1} /\ edits \in Nat

ControlTyped ==
    /\ managed \in BOOLEAN /\ ckpt \in Checkpoints /\ payload \in BOOLEAN
    /\ job \in {"running", "failed", "succeeded", "deleted"}
    /\ pc \in DOMAIN Command \cup {"start", "record", "idle"} /\ waiting \in BOOLEAN
    /\ queue \in Seq(Commands)

\* What the step of a command that runs tells of the disk.
StepIs ==
    /\ exec.op = "idle" => exec = Idle
    /\ exec.op = "begin" => exec.at \in {"start", "temp", "metadata"}
    /\ exec.op = "begin" /\ exec.at # "start" =>
         wrec.status = "receiving" \/ (wrec.status = "committing" /\ temp # "none")
    /\ At("begin", "metadata") => temp = "partial" /\ ~meta
    /\ exec.op = "download" => exec.at = "start"
    /\ exec.op = "finish" => exec.at \in {"start", "replace", "metadata", "complete"}
    /\ exec.op = "finish" /\ exec.at # "start" => wrec.status = "committing"
    /\ At("finish", "replace") => temp = "full" /\ meta
    /\ At("finish", "metadata") \/ At("finish", "complete") => temp = "none"
    /\ At("finish", "complete") => ~meta
    /\ exec.op = "unpack" => exec.at \in {"start", "extract", "published"} /\ kind = "dir"
    /\ At("unpack", "extract") => urec.status = "extracting" /\ staging # "none"
    /\ At("unpack", "published") => urec.status = "publishing" /\ staging = "none"
    /\ exec.op = "release" => exec.at \in {"start", "unpack"}
    /\ exec.op = "abandon" => exec.at \in {"start", "settle", "unpack"}
    /\ At("release", "unpack") \/ At("abandon", "unpack") => wrec = NoWrite
    /\ At("abandon", "settle") =>
         kind = "file" /\ wrec.leaving = "none" /\ Committed /\ temp = "none"

\* What the write receipt tells of the temporary file, its metadata and the archive.
WriteIs ==
    /\ wrec.status = "none" => wrec = NoWrite /\ temp = "none" /\ ~meta
    /\ wrec.status = "receiving" => wrec.leaving # "archive"
    /\ wrec.leaving = "none" /\ wrec.status = "receiving" /\ temp = "none" => ~meta
    /\ wrec.leaving = "none" /\ wrec.status = "receiving" /\ temp = "full" => meta
    /\ wrec.leaving = "none" /\ wrec.status = "committing" /\ temp # "none" =>
         temp = "full" /\ meta
    /\ wrec.status = "completed" => wrec.leaving # "temp" /\ temp = "none" /\ ~meta
    /\ wrec.leaving = "archive" => kind = "dir" /\ temp = "none"
    /\ archive =>
         /\ kind = "dir"
         /\ \/ Committed /\ temp = "none" /\ wrec.leaving # "temp"
            \/ wrec = NoWrite /\ published = 1

\* What the unpack receipt tells of the staging directory, the backup and the
\* publication.
UnpackIs ==
    /\ kind = "file" => urec = NoUnpack /\ backup = "none"
    /\ urec.status = "none" => urec = NoUnpack /\ staging = "none"
    /\ urec.status = "none" /\ backup # "none" => published = 1
    /\ urec.status \in {"extracting", "prepared", "backup_moved"} => published = 0
    /\ urec.status = "extracting" => backup = "none"
    /\ urec.status \in {"prepared", "backup_moved"} /\ urec.leaving = "none" =>
         staging = "full"
    /\ urec.status = "backup_moved" => urec.existed
    /\ urec.status = "publishing" /\ urec.leaving = "none" =>
         staging = IF published = 0 THEN "full" ELSE "none"
    /\ urec.status = "completed" => published = 1
    /\ published = 0 /\ backup # "none" => urec.existed
    /\ published = 1 => staging = "none"
    /\ urec.leaving \in {"rollback", "rollback_archive"} => published = 0
    /\ urec.leaving = "rollback_archive" => staging = "none" /\ backup = "none"
    /\ urec.leaving \in {"commit", "commit_archive"} => published = 1

\* The destination, unless someone else has changed it: the original, the copy, or
\* nothing while the backup has the original.
DestinationIs ==
    /\ published = 0 => dest # "new"
    /\ edits = 0 /\ published = 1 => dest = "new"
    /\ edits = 0 /\ published = 0 =>
         \/ dest = original /\ backup = "none"
         \/ /\ dest = "none" /\ backup = "old" /\ original = "old" /\ urec.existed
            /\ urec.status \in {"prepared", "backup_moved", "publishing"}
    /\ edits = 0 /\ published = 0 /\ urec.status # "none" =>
         (urec.existed <=> original = "old")
    /\ edits = 0 /\ published = 0 /\ urec.leaving = "none"
         /\ urec.status \in {"backup_moved", "publishing"} => dest = "none"

\* A command other than an abandonment may still run.
StillImports ==
    \/ ~ckpt.abandoning
    \/ exec.op \notin {"idle", "abandon"}
    \/ \E i \in DOMAIN queue : queue[i] # "abandon"

\* Until then nothing is marked to be dropped.
Undecided == StillImports => wrec.leaving = "none" /\ urec.leaving = "none"

\* While an import may still run, the receipts show whether the copy has been
\* published.
PublicationShows ==
    /\ kind = "file" => published = IF Committed THEN 1 ELSE 0
    /\ kind = "dir" /\ published = 1 => urec.status \in {"publishing", "completed"}
    /\ kind = "dir" /\ urec.status # "none" => Committed
ReceiptsTell ==
    ckpt.step \in {"exported", "importing"} /\ StillImports => PublicationShows

Nothing == /\ temp = "none" /\ ~meta /\ staging = "none"
           /\ wrec = NoWrite /\ urec = NoUnpack

\* A copy that Control has recorded leaves receipts at most, and what was not needed.
ImportedIs ==
    ckpt.step = "imported" =>
      /\ published = 1 /\ temp = "none" /\ ~meta
      /\ wrec.status \in {"none", "completed"} /\ urec.status \in {"none", "completed"}

\* The commands that may be under way: imports, then releases, then abandonments.
CommandsAre ==
    /\ ckpt.step \in {"none", "exported"} => exec = Idle /\ queue = <<>> /\ Nothing
    /\ ckpt.step = "importing" =>
         exec.op # "release" /\ \A i \in DOMAIN queue : queue[i] # "release"
    /\ ckpt.step = "imported" =>
         exec.op \notin Imports /\ \A i \in DOMAIN queue : queue[i] \notin Imports
    /\ ~ckpt.abandoning =>
         exec.op # "abandon" /\ \A i \in DOMAIN queue : queue[i] # "abandon"
    /\ exec.op = "abandon" => \A i \in DOMAIN queue : queue[i] = "abandon"
    /\ \A i, j \in DOMAIN queue : i < j /\ queue[i] = "abandon" => queue[j] = "abandon"
    /\ kind = "file" => \A i \in DOMAIN queue : queue[i] # "unpack"

\* The checkpoint, and what the attempt and the abandonment know at their steps.
CheckpointIs ==
    /\ ckpt.abandoning => Ended /\ ckpt.step # "none"
    /\ ckpt.step # "none" /\ ~ckpt.abandoning => payload
    /\ ckpt.released =>
         /\ ckpt.step = "imported" /\ job = "succeeded"
         /\ exec = Idle /\ queue = <<>> /\ Nothing
    /\ job = "succeeded" => ckpt.step \in {"imported", "none"} /\ published = 1
    /\ ckpt.step = "exported" => published = 0
    /\ ckpt.step = "none" /\ ~Ended => published = 0

AttemptIs ==
    /\ pc \in {"idle", "abandon"} <=> job # "running"
    /\ waiting => pc \in DOMAIN Command
    /\ pc = "abandon" =>
         ckpt.abandoning /\ ckpt.step \in {"importing", "imported"} /\ ~ckpt.released
    /\ pc \in Importing => ckpt.step = "importing"
    /\ pc = "release" => ckpt.step = "imported"
    /\ pc \in {"unpack", "reunpack"} => kind = "dir" /\ wrec.status = "completed"
    /\ pc = "record" =>
         /\ exec = Idle /\ queue = <<>> /\ published = 1
         /\ wrec.status = "completed" /\ urec.status \in {"none", "completed"}

\* What the last answer says that the command has achieved.
Achieved(op) ==
    /\ op = "begin" /\ result = "completed" =>
         wrec.status = "completed" /\ (kind = "file" => published = 1)
    /\ op = "finish" /\ result = "ok" => wrec.status = "completed"
    /\ op = "unpack" /\ result = "ok" => published = 1 /\ urec.status = "completed"
    /\ op \in {"release", "abandon"} /\ result = "ok" => Nothing

\* The command whose answer the attempt awaits is the last one.
AnswerIs ==
    waiting =>
      /\ queue # <<>> => queue[Len(queue)] = Command[pc]
      /\ queue = <<>> /\ exec # Idle => exec.op = Command[pc]
      /\ queue = <<>> /\ exec = Idle => Achieved(Command[pc])

CopyIInv ==
    /\ DiskTyped /\ ControlTyped /\ StepIs /\ WriteIs /\ UnpackIs /\ DestinationIs
    /\ Undecided /\ ReceiptsTell /\ ImportedIs
    /\ CommandsAre /\ CheckpointIs /\ AttemptIs /\ AnswerIs

-----------------------------------------------------------------------------
(* Copies: records that are rewritten                                        *)

LEMMA RecordUpdates == ASSUME DiskTyped
  PROVE  /\ NoWrite \in WriteRecords /\ NoWrite.status = "none" /\ NoWrite.leaving = "none"
         /\ \A s \in {"receiving", "committing", "completed"} :
              /\ Receipt(s) \in WriteRecords
              /\ Receipt(s).status = s /\ Receipt(s).leaving = wrec.leaving
         /\ \A l \in {"temp", "archive"} :
              Leaves(l) => wrec' \in WriteRecords /\ wrec'.leaving = l
                             /\ wrec'.status = wrec.status
         /\ /\ NoUnpack \in UnpackRecords /\ NoUnpack.status = "none"
            /\ NoUnpack.leaving = "none" /\ ~NoUnpack.existed
         /\ \A s \in {"prepared", "backup_moved", "publishing", "completed"} :
              /\ Status(s) \in UnpackRecords /\ Status(s).status = s
              /\ Status(s).leaving = urec.leaving /\ Status(s).existed = urec.existed
         /\ \A l \in {"rollback", "rollback_archive", "commit", "commit_archive"} :
              Undo(l) => urec' \in UnpackRecords /\ urec'.leaving = l
                           /\ urec'.status = urec.status /\ urec'.existed = urec.existed
         /\ Idle \in ExecRecords /\ Idle.op = "idle" /\ Idle.at = "start"
         /\ \A s \in {"start", "temp", "metadata", "replace", "complete", "extract",
                      "published", "unpack", "settle"} :
              GoesTo(s) => exec' \in ExecRecords /\ exec'.op = exec.op /\ exec'.at = s
                             /\ result' = result
         /\ \A r : Replies(r) => exec' = Idle /\ result' = r
  <1>1. exec \in ExecRecords /\ wrec \in WriteRecords /\ urec \in UnpackRecords
    BY DEF DiskTyped
  <1>2. NoWrite \in WriteRecords /\ NoWrite.status = "none" /\ NoWrite.leaving = "none"
    BY DEF NoWrite, WriteRecords
  <1>3. ASSUME NEW s \in {"receiving", "committing", "completed"}
        PROVE  /\ Receipt(s) \in WriteRecords
               /\ Receipt(s).status = s /\ Receipt(s).leaving = wrec.leaving
    BY <1>1 DEF Receipt, WriteRecords
  <1>4. ASSUME NEW l \in {"temp", "archive"}, Leaves(l)
        PROVE  wrec' \in WriteRecords /\ wrec'.leaving = l /\ wrec'.status = wrec.status
    BY <1>1, <1>4 DEF Leaves, WriteRecords
  <1>5. /\ NoUnpack \in UnpackRecords /\ NoUnpack.status = "none"
        /\ NoUnpack.leaving = "none" /\ ~NoUnpack.existed
    BY DEF NoUnpack, UnpackRecords
  <1>6. ASSUME NEW s \in {"prepared", "backup_moved", "publishing", "completed"}
        PROVE  /\ Status(s) \in UnpackRecords /\ Status(s).status = s
               /\ Status(s).leaving = urec.leaving /\ Status(s).existed = urec.existed
    BY <1>1 DEF Status, UnpackRecords
  <1>7. ASSUME NEW l \in {"rollback", "rollback_archive", "commit", "commit_archive"}, Undo(l)
        PROVE  /\ urec' \in UnpackRecords /\ urec'.leaving = l
               /\ urec'.status = urec.status /\ urec'.existed = urec.existed
    BY <1>1, <1>7 DEF Undo, UnpackRecords
  <1>8. Idle \in ExecRecords /\ Idle.op = "idle" /\ Idle.at = "start"
    BY DEF Idle, ExecRecords
  <1>9. ASSUME NEW s \in {"start", "temp", "metadata", "replace", "complete", "extract",
                          "published", "unpack", "settle"}, GoesTo(s)
        PROVE  /\ exec' \in ExecRecords /\ exec'.op = exec.op /\ exec'.at = s
               /\ result' = result
    BY <1>1, <1>9 DEF GoesTo, ExecRecords
  <1>10. \A r : Replies(r) => exec' = Idle /\ result' = r
    BY DEF Replies
  <1>. QED  BY <1>2, <1>3, <1>4, <1>5, <1>6, <1>7, <1>8, <1>9, <1>10

-----------------------------------------------------------------------------
(* Copies: an import runs only while it is undecided, a release once it is   *)
(* recorded, and an abandonment when nothing else can come                   *)

LEMMA ImportRuns == ASSUME CopyIInv, exec.op \in Imports
  PROVE  /\ ckpt.step = "importing" /\ PublicationShows
         /\ wrec.leaving = "none" /\ urec.leaving = "none"
         /\ exec # Idle /\ ~ckpt.released
  BY DEF CopyIInv, ControlTyped, Checkpoints, CommandsAre, CheckpointIs, StillImports,
         Undecided, ReceiptsTell, Imports, Idle

LEMMA ImportGoesOn ==
    ASSUME CopyIInv, NEW op \in Imports, exec.op = op, UNCHANGED <<control, queue>>,
           DiskTyped', StepIs', WriteIs', UnpackIs', DestinationIs', PublicationShows',
           kind' = kind, exec' = Idle \/ exec'.op = op,
           wrec'.leaving = "none" /\ urec'.leaving = "none",
           wrec.status = "completed" => wrec'.status = "completed",
           exec' = Idle => Achieved(op)'
    PROVE  CopyIInv'
  <1>1. ckpt.step = "importing" /\ exec # Idle /\ ~ckpt.released
    BY ImportRuns
  <1>2. exec'.op \in {op, "idle"}
    BY DEF Idle
  <1>3. /\ ControlTyped /\ CommandsAre /\ CheckpointIs /\ AttemptIs /\ AnswerIs
        /\ UNCHANGED <<managed, ckpt, payload, job, pc, waiting, queue>>
    BY DEF CopyIInv, control
  <1>4. ControlTyped' /\ Undecided' /\ ReceiptsTell' /\ ImportedIs'
    BY <1>1, <1>3 DEF ControlTyped, Undecided, ReceiptsTell, ImportedIs
  <1>5. CommandsAre'
    BY <1>1, <1>2, <1>3 DEF CommandsAre, Imports
  <1>6. CheckpointIs' /\ AttemptIs'
    BY <1>1, <1>3 DEF CheckpointIs, AttemptIs, Ended
  <1>7. AnswerIs'
    BY <1>1, <1>3 DEF AnswerIs, Achieved
  <1>. QED  BY <1>4, <1>5, <1>6, <1>7 DEF CopyIInv

LEMMA ReleaseRuns == ASSUME CopyIInv, exec.op = "release"
  PROVE  /\ ckpt.step = "imported" /\ ImportedIs
         /\ wrec.leaving = "none" /\ urec.leaving = "none"
         /\ exec # Idle /\ ~ckpt.released
  BY DEF CopyIInv, ControlTyped, Checkpoints, CommandsAre, CheckpointIs, StillImports,
         Undecided, Idle

LEMMA ReleaseGoesOn ==
    ASSUME CopyIInv, exec.op = "release", UNCHANGED <<control, queue>>,
           DiskTyped', StepIs', WriteIs', UnpackIs', DestinationIs', ImportedIs',
           kind' = kind, exec' = Idle \/ exec'.op = "release", published' = published,
           wrec'.leaving = "none" /\ urec'.leaving = "none",
           exec' = Idle => Achieved("release")'
    PROVE  CopyIInv'
  <1>1. ckpt.step = "imported" /\ exec # Idle /\ ~ckpt.released
    BY ReleaseRuns
  <1>2. exec'.op \in {"release", "idle"}
    BY DEF Idle
  <1>3. /\ ControlTyped /\ CommandsAre /\ CheckpointIs /\ AttemptIs /\ AnswerIs
        /\ UNCHANGED <<managed, ckpt, payload, job, pc, waiting, queue>>
    BY DEF CopyIInv, control
  <1>4. ControlTyped' /\ Undecided' /\ ReceiptsTell'
    BY <1>1, <1>3 DEF ControlTyped, Undecided, ReceiptsTell
  <1>5. CommandsAre'
    BY <1>1, <1>2, <1>3 DEF CommandsAre, Imports
  <1>6. CheckpointIs' /\ AttemptIs'
    BY <1>1, <1>3 DEF CheckpointIs, AttemptIs, Importing, Ended
  <1>7. AnswerIs'
    BY <1>1, <1>3 DEF AnswerIs, Achieved
  <1>. QED  BY <1>4, <1>5, <1>6, <1>7 DEF CopyIInv

LEMMA AbandonRuns == ASSUME CopyIInv, exec.op = "abandon"
  PROVE  /\ ckpt.step \in {"importing", "imported"} /\ ckpt.abandoning
         /\ \A i \in DOMAIN queue : queue[i] = "abandon"
         /\ pc \in {"idle", "abandon"} /\ ImportedIs
         /\ exec # Idle /\ ~ckpt.released
  <1>1. exec # Idle
    BY DEF Idle
  <1>. QED  BY <1>1 DEF CopyIInv, ControlTyped, Checkpoints, CommandsAre, CheckpointIs,
                        AttemptIs, Ended

LEMMA AbandonGoesOn ==
    ASSUME CopyIInv, exec.op = "abandon", UNCHANGED <<control, queue>>,
           DiskTyped', StepIs', WriteIs', UnpackIs', DestinationIs', ImportedIs',
           kind' = kind, exec' = Idle \/ exec'.op = "abandon", published' = published,
           exec' = Idle => Achieved("abandon")'
    PROVE  CopyIInv'
  <1>1. /\ ckpt.step \in {"importing", "imported"} /\ ckpt.abandoning
        /\ \A i \in DOMAIN queue : queue[i] = "abandon"
        /\ pc \in {"idle", "abandon"} /\ exec # Idle /\ ~ckpt.released
    BY AbandonRuns
  <1>2. exec'.op \in {"abandon", "idle"}
    BY DEF Idle
  <1>3. /\ ControlTyped /\ CommandsAre /\ CheckpointIs /\ AttemptIs /\ AnswerIs
        /\ UNCHANGED <<managed, ckpt, payload, job, pc, waiting, queue>>
    BY DEF CopyIInv, control
  <1>4. ControlTyped' /\ Undecided' /\ ReceiptsTell'
    BY <1>1, <1>2, <1>3 DEF ControlTyped, StillImports, Undecided, ReceiptsTell
  <1>5. CommandsAre'
    BY <1>1, <1>2, <1>3 DEF CommandsAre, Imports
  <1>6. CheckpointIs' /\ AttemptIs'
    BY <1>1, <1>3 DEF CheckpointIs, AttemptIs, Importing, Ended
  <1>7. AnswerIs'
    BY <1>1, <1>3 DEF AnswerIs, Achieved
  <1>. QED  BY <1>4, <1>5, <1>6, <1>7 DEF CopyIInv

-----------------------------------------------------------------------------
(* Copies: the steps of the commands                                         *)

LEMMA BeginCommittedKeeps == ASSUME CopyIInv, BeginCommitted,
  UNCHANGED <<control, queue>> PROVE CopyIInv'
  <1>1. /\ DiskTyped /\ StepIs /\ WriteIs /\ UnpackIs /\ DestinationIs
        /\ exec.op = "begin" /\ PublicationShows
        /\ wrec.leaving = "none" /\ urec.leaving = "none"
    BY ImportRuns DEF CopyIInv, Imports, BeginCommitted, At, Unpack, Abandons, Unpacking
  <1>2. DiskTyped'
    <2>1. exec' \in ExecRecords
      BY <1>1, RecordUpdates DEF BeginCommitted, At, Others, Quiet, TargetIntact, Consumed,
         Committed, RestOfWrite, contract
    <2>2. wrec' \in WriteRecords /\ urec' \in UnpackRecords
      BY <1>1, RecordUpdates DEF DiskTyped, BeginCommitted, At, Others, Quiet, TargetIntact,
         Consumed, Committed, RestOfWrite, contract
    <2>3. archive' \in BOOLEAN /\ meta' \in BOOLEAN
      BY <1>1 DEF DiskTyped, BeginCommitted, At, Others, Quiet, TargetIntact, Consumed,
         Committed, RestOfWrite, contract
    <2>4. /\ temp' \in {"none", "partial", "full"} /\ staging' \in {"none", "partial", "full"}
          /\ published' \in {0, 1}
      BY <1>1 DEF DiskTyped, UnpackIs, PublicationShows, BeginCommitted, At, Others, Quiet,
         TargetIntact, Consumed, Committed, RestOfWrite, contract
    <2>5. dest' \in {"none", "old", "new", "edited"} /\ backup' \in {"none", "old", "edited"}
      BY <1>1 DEF DiskTyped, UnpackIs, DestinationIs, BeginCommitted, At, Others, Quiet,
         TargetIntact, Consumed, Committed, RestOfWrite, contract
    <2>. QED  BY <1>1, <2>1, <2>2, <2>3, <2>4, <2>5 DEF DiskTyped, BeginCommitted, At, Others,
                 Quiet, TargetIntact, Consumed, Committed, RestOfWrite, contract
  <1>3. StepIs'
    BY <1>1, <1>2, RecordUpdates DEF DiskTyped, StepIs, WriteIs, UnpackIs, WriteRecords,
       ExecRecords, BeginCommitted, At, Others, Quiet, TargetIntact, Consumed, Committed,
         RestOfWrite, contract
  <1>4. WriteIs'
    BY <1>1, <1>2, RecordUpdates DEF DiskTyped, StepIs, WriteIs, UnpackIs, PublicationShows,
       WriteRecords, ExecRecords, BeginCommitted, At, Others, Quiet, TargetIntact, Consumed,
         Committed, RestOfWrite, contract
  <1>5. UnpackIs' /\ DestinationIs'
    BY <1>1 DEF UnpackIs, DestinationIs, BeginCommitted, Others, Quiet, RestOfWrite, contract
  <1>6. /\ PublicationShows' /\ kind' = kind
        /\ wrec'.leaving = "none" /\ urec'.leaving = "none"
        /\ wrec.status = "completed" => wrec'.status = "completed"
        /\ exec' = Idle \/ exec'.op = "begin"
    BY <1>1, <1>2, RecordUpdates DEF DiskTyped, WriteRecords, ExecRecords, WriteIs, StepIs,
       PublicationShows, UnpackIs, BeginCommitted, At, Others, Quiet, TargetIntact, Consumed,
         Committed, RestOfWrite, contract
  <1>7. exec' = Idle => Achieved("begin")'
    BY <1>1, <1>2, RecordUpdates DEF DiskTyped, WriteRecords, ExecRecords, WriteIs, StepIs,
       Achieved, PublicationShows, UnpackIs, BeginCommitted, At, Others, Quiet, TargetIntact,
         Consumed, Committed, RestOfWrite, contract
  <1>. QED  BY <1>1, <1>2, <1>3, <1>4, <1>5, <1>6, <1>7, ImportGoesOn DEF Imports

LEMMA BeginRefusedKeeps == ASSUME CopyIInv, BeginRefused, UNCHANGED <<control, queue>>
  PROVE CopyIInv'
  <1>1. /\ DiskTyped /\ StepIs /\ WriteIs /\ UnpackIs /\ DestinationIs
        /\ exec.op = "begin" /\ PublicationShows
        /\ wrec.leaving = "none" /\ urec.leaving = "none"
    BY ImportRuns DEF CopyIInv, Imports, BeginRefused, At, Unpack, Abandons, Unpacking
  <1>2. DiskTyped'
    BY <1>1, RecordUpdates DEF DiskTyped, PublicationShows, UnpackIs, WriteRecords,
       ExecRecords, BeginRefused, At, Others, Quiet, TargetPresent, Committed, Forbidden, disk,
         contract
  <1>3. StepIs'
    BY <1>1, <1>2, RecordUpdates DEF DiskTyped, StepIs, WriteIs, UnpackIs, WriteRecords,
       ExecRecords, BeginRefused, At, Others, Quiet, TargetPresent, Committed, Forbidden, disk,
         contract
  <1>4. WriteIs'
    BY <1>1 DEF WriteIs, Committed, BeginRefused, Others, Quiet, disk, contract
  <1>5. UnpackIs' /\ DestinationIs'
    BY <1>1 DEF UnpackIs, DestinationIs, BeginRefused, Others, Quiet, disk, contract
  <1>6. /\ PublicationShows' /\ kind' = kind
        /\ wrec'.leaving = "none" /\ urec'.leaving = "none"
        /\ wrec.status = "completed" => wrec'.status = "completed"
        /\ exec' = Idle \/ exec'.op = "begin"
    BY <1>1, <1>2, RecordUpdates DEF DiskTyped, WriteRecords, ExecRecords, WriteIs, StepIs,
       PublicationShows, UnpackIs, BeginRefused, At, Others, Quiet, TargetPresent, Committed,
         Forbidden, disk, contract
  <1>7. exec' = Idle => Achieved("begin")'
    BY <1>1, <1>2, RecordUpdates DEF DiskTyped, WriteRecords, ExecRecords, WriteIs, StepIs,
       Achieved, PublicationShows, UnpackIs, BeginRefused, At, Others, Quiet, TargetPresent,
         Committed, Forbidden, disk, contract
  <1>. QED  BY <1>1, <1>2, <1>3, <1>4, <1>5, <1>6, <1>7, ImportGoesOn DEF Imports

LEMMA BeginReceiptKeeps == ASSUME CopyIInv, BeginReceipt, UNCHANGED <<control, queue>>
  PROVE CopyIInv'
  <1>1. /\ DiskTyped /\ StepIs /\ WriteIs /\ UnpackIs /\ DestinationIs
        /\ exec.op = "begin" /\ PublicationShows
        /\ wrec.leaving = "none" /\ urec.leaving = "none"
    BY ImportRuns DEF CopyIInv, Imports, BeginReceipt, At, Unpack, Abandons, Unpacking
  <1>2. DiskTyped'
    BY <1>1, RecordUpdates DEF DiskTyped, PublicationShows, UnpackIs, WriteRecords,
       ExecRecords, BeginReceipt, At, Others, Quiet, TargetPresent, Committed, Forbidden,
         RestOfWrite, contract
  <1>3. StepIs'
    BY <1>1, <1>2, RecordUpdates DEF DiskTyped, StepIs, WriteIs, UnpackIs, WriteRecords,
       ExecRecords, BeginReceipt, At, Others, Quiet, TargetPresent, Committed, Forbidden,
         RestOfWrite, contract
  <1>4. WriteIs'
    BY <1>1, <1>2, RecordUpdates DEF DiskTyped, StepIs, WriteIs, UnpackIs, PublicationShows,
       WriteRecords, ExecRecords, BeginReceipt, At, Others, Quiet, TargetPresent, Committed,
         Forbidden, RestOfWrite, contract
  <1>5. UnpackIs' /\ DestinationIs'
    BY <1>1 DEF UnpackIs, DestinationIs, BeginReceipt, Others, Quiet, RestOfWrite, contract
  <1>6. /\ PublicationShows' /\ kind' = kind
        /\ wrec'.leaving = "none" /\ urec'.leaving = "none"
        /\ wrec.status = "completed" => wrec'.status = "completed"
        /\ exec' = Idle \/ exec'.op = "begin"
    BY <1>1, <1>2, RecordUpdates DEF DiskTyped, WriteRecords, ExecRecords, WriteIs, StepIs,
       PublicationShows, UnpackIs, BeginReceipt, At, Others, Quiet, TargetPresent, Committed,
         Forbidden, RestOfWrite, contract
  <1>7. exec' = Idle => Achieved("begin")'
    BY <1>1, <1>2, RecordUpdates DEF DiskTyped, WriteRecords, ExecRecords, WriteIs, StepIs,
       Achieved, PublicationShows, UnpackIs, BeginReceipt, At, Others, Quiet, TargetPresent,
         Committed, Forbidden, RestOfWrite, contract
  <1>. QED  BY <1>1, <1>2, <1>3, <1>4, <1>5, <1>6, <1>7, ImportGoesOn DEF Imports

LEMMA BeginTempKeeps == ASSUME CopyIInv, BeginTemp, UNCHANGED <<control, queue>> PROVE CopyIInv'
  <1>1. /\ DiskTyped /\ StepIs /\ WriteIs /\ UnpackIs /\ DestinationIs
        /\ exec.op = "begin" /\ PublicationShows
        /\ wrec.leaving = "none" /\ urec.leaving = "none"
    BY ImportRuns DEF CopyIInv, Imports, BeginTemp, At, Unpack, Abandons, Unpacking
  <1>2. DiskTyped'
    BY <1>1, RecordUpdates DEF DiskTyped, PublicationShows, UnpackIs, WriteRecords,
       ExecRecords, BeginTemp, At, Others, Quiet, RestOfWrite, contract
  <1>3. StepIs'
    BY <1>1, <1>2, RecordUpdates DEF DiskTyped, StepIs, WriteIs, UnpackIs, WriteRecords,
       ExecRecords, BeginTemp, At, Others, Quiet, Committed, RestOfWrite, contract
  <1>4. WriteIs'
    BY <1>1, <1>2, RecordUpdates DEF DiskTyped, StepIs, WriteIs, UnpackIs, PublicationShows,
       WriteRecords, ExecRecords, BeginTemp, At, Others, Quiet, Committed, RestOfWrite, contract
  <1>5. UnpackIs' /\ DestinationIs'
    BY <1>1 DEF UnpackIs, DestinationIs, BeginTemp, Others, Quiet, RestOfWrite, contract
  <1>6. /\ PublicationShows' /\ kind' = kind
        /\ wrec'.leaving = "none" /\ urec'.leaving = "none"
        /\ wrec.status = "completed" => wrec'.status = "completed"
        /\ exec' = Idle \/ exec'.op = "begin"
    BY <1>1, <1>2, RecordUpdates DEF DiskTyped, WriteRecords, ExecRecords, WriteIs, StepIs,
       PublicationShows, UnpackIs, BeginTemp, At, Others, Quiet, Committed, RestOfWrite,
         contract
  <1>7. exec' = Idle => Achieved("begin")'
    BY <1>1, <1>2, RecordUpdates DEF DiskTyped, WriteRecords, ExecRecords, WriteIs, StepIs,
       Achieved, PublicationShows, UnpackIs, BeginTemp, At, Others, Quiet, Committed,
         RestOfWrite, contract
  <1>. QED  BY <1>1, <1>2, <1>3, <1>4, <1>5, <1>6, <1>7, ImportGoesOn DEF Imports

LEMMA BeginMetadataKeeps == ASSUME CopyIInv, BeginMetadata, UNCHANGED <<control, queue>>
  PROVE CopyIInv'
  <1>1. /\ DiskTyped /\ StepIs /\ WriteIs /\ UnpackIs /\ DestinationIs
        /\ exec.op = "begin" /\ PublicationShows
        /\ wrec.leaving = "none" /\ urec.leaving = "none"
    BY ImportRuns DEF CopyIInv, Imports, BeginMetadata, At, Unpack, Abandons, Unpacking
  <1>2. DiskTyped'
    <2>1. exec' \in ExecRecords
      BY <1>1, RecordUpdates DEF BeginMetadata, At, Others, Quiet, RestOfWrite, contract
    <2>2. wrec' \in WriteRecords /\ urec' \in UnpackRecords
      BY <1>1, RecordUpdates DEF DiskTyped, BeginMetadata, At, Others, Quiet, RestOfWrite,
         contract
    <2>3. archive' \in BOOLEAN /\ meta' \in BOOLEAN
      BY <1>1 DEF DiskTyped, BeginMetadata, At, Others, Quiet, RestOfWrite, contract
    <2>4. /\ temp' \in {"none", "partial", "full"} /\ staging' \in {"none", "partial", "full"}
          /\ published' \in {0, 1}
      BY <1>1 DEF DiskTyped, UnpackIs, PublicationShows, BeginMetadata, At, Others, Quiet,
         RestOfWrite, contract
    <2>5. dest' \in {"none", "old", "new", "edited"} /\ backup' \in {"none", "old", "edited"}
      BY <1>1 DEF DiskTyped, UnpackIs, DestinationIs, BeginMetadata, At, Others, Quiet,
         RestOfWrite, contract
    <2>. QED  BY <1>1, <2>1, <2>2, <2>3, <2>4, <2>5 DEF DiskTyped, BeginMetadata, At, Others,
                 Quiet, RestOfWrite, contract
  <1>3. StepIs'
    BY <1>1, <1>2, RecordUpdates DEF DiskTyped, StepIs, WriteIs, UnpackIs, WriteRecords,
       ExecRecords, BeginMetadata, At, Others, Quiet, Committed, RestOfWrite, contract
  <1>4. WriteIs'
    BY <1>1, <1>2, RecordUpdates DEF DiskTyped, StepIs, WriteIs, UnpackIs, PublicationShows,
       WriteRecords, ExecRecords, BeginMetadata, At, Others, Quiet, Committed, RestOfWrite,
         contract
  <1>5. UnpackIs' /\ DestinationIs'
    BY <1>1 DEF UnpackIs, DestinationIs, BeginMetadata, Others, Quiet, RestOfWrite, contract
  <1>6. /\ PublicationShows' /\ kind' = kind
        /\ wrec'.leaving = "none" /\ urec'.leaving = "none"
        /\ wrec.status = "completed" => wrec'.status = "completed"
        /\ exec' = Idle \/ exec'.op = "begin"
    BY <1>1, <1>2, RecordUpdates DEF DiskTyped, WriteRecords, ExecRecords, WriteIs, StepIs,
       PublicationShows, UnpackIs, BeginMetadata, At, Others, Quiet, Committed, RestOfWrite,
         contract
  <1>7. exec' = Idle => Achieved("begin")'
    BY <1>1, <1>2, RecordUpdates DEF DiskTyped, WriteRecords, ExecRecords, WriteIs, StepIs,
       Achieved, PublicationShows, UnpackIs, BeginMetadata, At, Others, Quiet, Committed,
         RestOfWrite, contract
  <1>. QED  BY <1>1, <1>2, <1>3, <1>4, <1>5, <1>6, <1>7, ImportGoesOn DEF Imports

LEMMA BeginResumedKeeps == ASSUME CopyIInv, BeginResumed, UNCHANGED <<control, queue>>
  PROVE CopyIInv'
  <1>1. /\ DiskTyped /\ StepIs /\ WriteIs /\ UnpackIs /\ DestinationIs
        /\ exec.op = "begin" /\ PublicationShows
        /\ wrec.leaving = "none" /\ urec.leaving = "none"
    BY ImportRuns DEF CopyIInv, Imports, BeginResumed, At, Unpack, Abandons, Unpacking
  <1>2. DiskTyped'
    BY <1>1, RecordUpdates DEF DiskTyped, PublicationShows, UnpackIs, WriteRecords,
       ExecRecords, BeginResumed, At, Others, Quiet, disk, contract
  <1>3. StepIs'
    BY <1>1, <1>2, RecordUpdates DEF DiskTyped, StepIs, WriteIs, UnpackIs, WriteRecords,
       ExecRecords, BeginResumed, At, Others, Quiet, Committed, disk, contract
  <1>4. WriteIs'
    BY <1>1 DEF WriteIs, Committed, BeginResumed, Others, Quiet, disk, contract
  <1>5. UnpackIs' /\ DestinationIs'
    BY <1>1 DEF UnpackIs, DestinationIs, BeginResumed, Others, Quiet, disk, contract
  <1>6. /\ PublicationShows' /\ kind' = kind
        /\ wrec'.leaving = "none" /\ urec'.leaving = "none"
        /\ wrec.status = "completed" => wrec'.status = "completed"
        /\ exec' = Idle \/ exec'.op = "begin"
    BY <1>1, <1>2, RecordUpdates DEF DiskTyped, WriteRecords, ExecRecords, WriteIs, StepIs,
       PublicationShows, UnpackIs, BeginResumed, At, Others, Quiet, Committed, disk, contract
  <1>7. exec' = Idle => Achieved("begin")'
    BY <1>1, <1>2, RecordUpdates DEF DiskTyped, WriteRecords, ExecRecords, WriteIs, StepIs,
       Achieved, PublicationShows, UnpackIs, BeginResumed, At, Others, Quiet, Committed, disk,
         contract
  <1>. QED  BY <1>1, <1>2, <1>3, <1>4, <1>5, <1>6, <1>7, ImportGoesOn DEF Imports

LEMMA ReceivesKeeps == ASSUME CopyIInv, Receives, UNCHANGED <<control, queue>> PROVE CopyIInv'
  <1>1. /\ DiskTyped /\ StepIs /\ WriteIs /\ UnpackIs /\ DestinationIs
        /\ exec.op = "download" /\ PublicationShows
        /\ wrec.leaving = "none" /\ urec.leaving = "none"
    BY ImportRuns DEF CopyIInv, Imports, Receives, At, Unpack, Abandons, Unpacking
  <1>2. DiskTyped'
    BY <1>1, RecordUpdates DEF DiskTyped, PublicationShows, UnpackIs, WriteRecords,
       ExecRecords, Receives, At, Others, Quiet, RestOfWrite, MayReceive, contract
  <1>3. StepIs'
    BY <1>1, <1>2, RecordUpdates DEF DiskTyped, StepIs, WriteIs, UnpackIs, WriteRecords,
       ExecRecords, Receives, At, Others, Quiet, Committed, RestOfWrite, MayReceive, contract
  <1>4. WriteIs'
    BY <1>1, <1>2, RecordUpdates DEF DiskTyped, StepIs, WriteIs, UnpackIs, PublicationShows,
       WriteRecords, ExecRecords, Receives, At, Others, Quiet, Committed, RestOfWrite,
         MayReceive, contract
  <1>5. UnpackIs' /\ DestinationIs'
    BY <1>1 DEF UnpackIs, DestinationIs, Receives, Others, Quiet, RestOfWrite, contract
  <1>6. /\ PublicationShows' /\ kind' = kind
        /\ wrec'.leaving = "none" /\ urec'.leaving = "none"
        /\ wrec.status = "completed" => wrec'.status = "completed"
        /\ exec' = Idle \/ exec'.op = "download"
    BY <1>1, <1>2, RecordUpdates DEF DiskTyped, WriteRecords, ExecRecords, WriteIs, StepIs,
       PublicationShows, UnpackIs, Receives, At, Others, Quiet, Committed, RestOfWrite,
         MayReceive, contract
  <1>7. exec' = Idle => Achieved("download")'
    BY <1>1, <1>2, RecordUpdates DEF DiskTyped, WriteRecords, ExecRecords, WriteIs, StepIs,
       Achieved, PublicationShows, UnpackIs, Receives, At, Others, Quiet, Committed,
         RestOfWrite, MayReceive, contract
  <1>. QED  BY <1>1, <1>2, <1>3, <1>4, <1>5, <1>6, <1>7, ImportGoesOn DEF Imports

LEMMA FinishMarksKeeps == ASSUME CopyIInv, FinishMarks, UNCHANGED <<control, queue>>
  PROVE CopyIInv'
  <1>1. /\ DiskTyped /\ StepIs /\ WriteIs /\ UnpackIs /\ DestinationIs
        /\ exec.op = "finish" /\ PublicationShows
        /\ wrec.leaving = "none" /\ urec.leaving = "none"
    BY ImportRuns DEF CopyIInv, Imports, FinishMarks, At, Unpack, Abandons, Unpacking
  <1>2. DiskTyped'
    BY <1>1, RecordUpdates DEF DiskTyped, PublicationShows, UnpackIs, WriteRecords,
       ExecRecords, FinishMarks, At, Others, Quiet, TargetPresent, Forbidden, RestOfWrite,
         MayFinish, contract
  <1>3. StepIs'
    BY <1>1, <1>2, RecordUpdates DEF DiskTyped, StepIs, WriteIs, UnpackIs, WriteRecords,
       ExecRecords, FinishMarks, At, Others, Quiet, TargetPresent, Committed, Forbidden,
         RestOfWrite, MayFinish, contract
  <1>4. WriteIs'
    BY <1>1, <1>2, RecordUpdates DEF DiskTyped, StepIs, WriteIs, UnpackIs, PublicationShows,
       WriteRecords, ExecRecords, FinishMarks, At, Others, Quiet, TargetPresent, Committed,
         Forbidden, RestOfWrite, MayFinish, contract
  <1>5. UnpackIs' /\ DestinationIs'
    BY <1>1 DEF UnpackIs, DestinationIs, FinishMarks, Others, Quiet, RestOfWrite, contract
  <1>6. /\ PublicationShows' /\ kind' = kind
        /\ wrec'.leaving = "none" /\ urec'.leaving = "none"
        /\ wrec.status = "completed" => wrec'.status = "completed"
        /\ exec' = Idle \/ exec'.op = "finish"
    BY <1>1, <1>2, RecordUpdates DEF DiskTyped, WriteRecords, ExecRecords, WriteIs, StepIs,
       PublicationShows, UnpackIs, FinishMarks, At, Others, Quiet, TargetPresent, Committed,
         Forbidden, RestOfWrite, MayFinish, contract
  <1>7. exec' = Idle => Achieved("finish")'
    BY <1>1, <1>2, RecordUpdates DEF DiskTyped, WriteRecords, ExecRecords, WriteIs, StepIs,
       Achieved, PublicationShows, UnpackIs, FinishMarks, At, Others, Quiet, TargetPresent,
         Committed, Forbidden, RestOfWrite, MayFinish, contract
  <1>. QED  BY <1>1, <1>2, <1>3, <1>4, <1>5, <1>6, <1>7, ImportGoesOn DEF Imports

LEMMA FinishReplacesKeeps == ASSUME CopyIInv, FinishReplaces,
  UNCHANGED <<control, queue>> PROVE CopyIInv'
  <1>1. /\ DiskTyped /\ StepIs /\ WriteIs /\ UnpackIs /\ DestinationIs
        /\ exec.op = "finish" /\ PublicationShows
        /\ wrec.leaving = "none" /\ urec.leaving = "none"
    BY ImportRuns DEF CopyIInv, Imports, FinishReplaces, At, Unpack, Abandons, Unpacking
  <1>2. DiskTyped'
    <2>1. exec' \in ExecRecords
      BY <1>1, RecordUpdates DEF FinishReplaces, At, Others, RestOfWrite, contract
    <2>2. wrec' \in WriteRecords /\ urec' \in UnpackRecords
      BY <1>1, RecordUpdates DEF DiskTyped, FinishReplaces, At, Others, RestOfWrite, contract
    <2>3. archive' \in BOOLEAN /\ meta' \in BOOLEAN
      BY <1>1 DEF DiskTyped, FinishReplaces, At, Others, RestOfWrite, contract
    <2>4. /\ temp' \in {"none", "partial", "full"} /\ staging' \in {"none", "partial", "full"}
          /\ published' \in {0, 1}
      BY <1>1 DEF DiskTyped, UnpackIs, StepIs, Committed, PublicationShows, FinishReplaces, At,
         Others, RestOfWrite, contract
    <2>5. dest' \in {"none", "old", "new", "edited"} /\ backup' \in {"none", "old", "edited"}
      BY <1>1 DEF DiskTyped, UnpackIs, DestinationIs, FinishReplaces, At, Others, RestOfWrite,
         contract
    <2>. QED  BY <1>1, <2>1, <2>2, <2>3, <2>4, <2>5 DEF DiskTyped, FinishReplaces, At, Others,
                 RestOfWrite, contract
  <1>3. StepIs'
    BY <1>1, <1>2, RecordUpdates DEF DiskTyped, StepIs, WriteIs, UnpackIs, WriteRecords,
       UnpackRecords, ExecRecords, FinishReplaces, At, Others, Committed, RestOfWrite, contract
  <1>4. WriteIs'
    BY <1>1, <1>2, RecordUpdates DEF DiskTyped, StepIs, WriteIs, UnpackIs, PublicationShows,
       WriteRecords, UnpackRecords, ExecRecords, FinishReplaces, At, Others, Committed,
         RestOfWrite, contract
  <1>5. UnpackIs'
    BY <1>1, <1>2, RecordUpdates DEF DiskTyped, StepIs, WriteIs, UnpackIs, PublicationShows,
       WriteRecords, UnpackRecords, ExecRecords, FinishReplaces, At, Others, Committed,
         RestOfWrite, contract
  <1>6. DestinationIs'
    BY <1>1, <1>2, RecordUpdates DEF DiskTyped, StepIs, UnpackIs, DestinationIs,
       PublicationShows, WriteRecords, UnpackRecords, ExecRecords, FinishReplaces, At, Others,
         Committed, RestOfWrite, contract
  <1>7. /\ PublicationShows' /\ kind' = kind
        /\ wrec'.leaving = "none" /\ urec'.leaving = "none"
        /\ wrec.status = "completed" => wrec'.status = "completed"
        /\ exec' = Idle \/ exec'.op = "finish"
    BY <1>1, <1>2, RecordUpdates DEF DiskTyped, WriteRecords, UnpackRecords, ExecRecords,
       WriteIs, StepIs, PublicationShows, UnpackIs, FinishReplaces, At, Others, Committed,
         RestOfWrite, contract
  <1>8. exec' = Idle => Achieved("finish")'
    BY <1>1, <1>2, RecordUpdates DEF DiskTyped, WriteRecords, UnpackRecords, ExecRecords,
       WriteIs, StepIs, Achieved, PublicationShows, UnpackIs, FinishReplaces, At, Others,
         Committed, RestOfWrite, contract
  <1>. QED  BY <1>1, <1>2, <1>3, <1>4, <1>5, <1>6, <1>7, <1>8, ImportGoesOn DEF Imports

LEMMA FinishCompletesKeeps == ASSUME CopyIInv, FinishCompletes,
  UNCHANGED <<control, queue>> PROVE CopyIInv'
  <1>1. /\ DiskTyped /\ StepIs /\ WriteIs /\ UnpackIs /\ DestinationIs
        /\ exec.op = "finish" /\ PublicationShows
        /\ wrec.leaving = "none" /\ urec.leaving = "none"
    BY ImportRuns DEF CopyIInv, Imports, FinishCompletes, At, Unpack, Abandons, Unpacking
  <1>2. DiskTyped'
    <2>1. exec' \in ExecRecords
      BY <1>1, RecordUpdates DEF FinishCompletes, At, Others, Quiet, RestOfWrite, contract
    <2>2. wrec' \in WriteRecords /\ urec' \in UnpackRecords
      BY <1>1, RecordUpdates DEF DiskTyped, FinishCompletes, At, Others, Quiet, RestOfWrite,
         contract
    <2>3. archive' \in BOOLEAN /\ meta' \in BOOLEAN
      BY <1>1 DEF DiskTyped, FinishCompletes, At, Others, Quiet, RestOfWrite, contract
    <2>4. /\ temp' \in {"none", "partial", "full"} /\ staging' \in {"none", "partial", "full"}
          /\ published' \in {0, 1}
      BY <1>1 DEF DiskTyped, UnpackIs, PublicationShows, FinishCompletes, At, Others, Quiet,
         RestOfWrite, contract
    <2>5. dest' \in {"none", "old", "new", "edited"} /\ backup' \in {"none", "old", "edited"}
      BY <1>1 DEF DiskTyped, UnpackIs, DestinationIs, FinishCompletes, At, Others, Quiet,
         RestOfWrite, contract
    <2>. QED  BY <1>1, <2>1, <2>2, <2>3, <2>4, <2>5 DEF DiskTyped, FinishCompletes, At, Others,
                 Quiet, RestOfWrite, contract
  <1>3. StepIs'
    BY <1>1, <1>2, RecordUpdates DEF DiskTyped, StepIs, WriteIs, UnpackIs, WriteRecords,
       ExecRecords, FinishCompletes, At, Others, Quiet, Committed, RestOfWrite, contract
  <1>4. WriteIs'
    BY <1>1, <1>2, RecordUpdates DEF DiskTyped, StepIs, WriteIs, UnpackIs, PublicationShows,
       WriteRecords, ExecRecords, FinishCompletes, At, Others, Quiet, Committed, RestOfWrite,
         contract
  <1>5. UnpackIs' /\ DestinationIs'
    BY <1>1 DEF UnpackIs, DestinationIs, FinishCompletes, Others, Quiet, RestOfWrite, contract
  <1>6. /\ PublicationShows' /\ kind' = kind
        /\ wrec'.leaving = "none" /\ urec'.leaving = "none"
        /\ wrec.status = "completed" => wrec'.status = "completed"
        /\ exec' = Idle \/ exec'.op = "finish"
    BY <1>1, <1>2, RecordUpdates DEF DiskTyped, WriteRecords, ExecRecords, WriteIs, StepIs,
       PublicationShows, UnpackIs, FinishCompletes, At, Others, Quiet, Committed, RestOfWrite,
         contract
  <1>7. exec' = Idle => Achieved("finish")'
    BY <1>1, <1>2, RecordUpdates DEF DiskTyped, WriteRecords, ExecRecords, WriteIs, StepIs,
       Achieved, PublicationShows, UnpackIs, FinishCompletes, At, Others, Quiet, Committed,
         RestOfWrite, contract
  <1>. QED  BY <1>1, <1>2, <1>3, <1>4, <1>5, <1>6, <1>7, ImportGoesOn DEF Imports

LEMMA UnpackReceiptKeeps == ASSUME CopyIInv, UnpackReceipt, UNCHANGED <<control, queue>>
  PROVE CopyIInv'
  <1>1. /\ DiskTyped /\ StepIs /\ WriteIs /\ UnpackIs /\ DestinationIs
        /\ exec.op = "unpack" /\ PublicationShows
        /\ wrec.leaving = "none" /\ urec.leaving = "none"
    BY ImportRuns DEF CopyIInv, Imports, UnpackReceipt, At, Unpack, Abandons, Unpacking
  <1>2. DiskTyped'
    BY <1>1, RecordUpdates DEF DiskTyped, PublicationShows, UnpackIs, UnpackRecords,
       ExecRecords, UnpackReceipt, Others, Quiet, Absent, BackedUp, Unpack, RestOfUnpack,
         contract
  <1>3. StepIs'
    BY <1>1, <1>2, RecordUpdates DEF DiskTyped, StepIs, WriteIs, UnpackIs, UnpackRecords,
       ExecRecords, UnpackReceipt, At, Others, Quiet, Committed, Absent, BackedUp, Unpack,
         RestOfUnpack, contract
  <1>4. WriteIs'
    BY <1>1 DEF WriteIs, Committed, UnpackReceipt, Others, Quiet, RestOfUnpack, contract
  <1>5. UnpackIs'
    BY <1>1, <1>2, RecordUpdates DEF DiskTyped, StepIs, WriteIs, UnpackIs, PublicationShows,
       UnpackRecords, ExecRecords, UnpackReceipt, At, Others, Quiet, Committed, Absent,
         BackedUp, Unpack, RestOfUnpack, contract
  <1>6. DestinationIs'
    BY <1>1, <1>2, RecordUpdates DEF DiskTyped, StepIs, UnpackIs, DestinationIs,
       PublicationShows, UnpackRecords, ExecRecords, UnpackReceipt, At, Others, Quiet,
         Committed, Absent, BackedUp, Unpack, RestOfUnpack, contract
  <1>7. /\ PublicationShows' /\ kind' = kind
        /\ wrec'.leaving = "none" /\ urec'.leaving = "none"
        /\ wrec.status = "completed" => wrec'.status = "completed"
        /\ exec' = Idle \/ exec'.op = "unpack"
    BY <1>1, <1>2, RecordUpdates DEF DiskTyped, UnpackRecords, ExecRecords, WriteIs, StepIs,
       PublicationShows, UnpackIs, UnpackReceipt, At, Others, Quiet, Committed, Absent,
         BackedUp, Unpack, RestOfUnpack, contract
  <1>8. exec' = Idle => Achieved("unpack")'
    BY <1>1, <1>2, RecordUpdates DEF DiskTyped, UnpackRecords, ExecRecords, WriteIs, StepIs,
       Achieved, PublicationShows, UnpackIs, UnpackReceipt, At, Others, Quiet, Committed,
         Absent, BackedUp, Unpack, RestOfUnpack, contract
  <1>. QED  BY <1>1, <1>2, <1>3, <1>4, <1>5, <1>6, <1>7, <1>8, ImportGoesOn DEF Imports

LEMMA UnpackRefusedKeeps == ASSUME CopyIInv, UnpackRefused, UNCHANGED <<control, queue>>
  PROVE CopyIInv'
  <1>1. /\ DiskTyped /\ StepIs /\ WriteIs /\ UnpackIs /\ DestinationIs
        /\ exec.op = "unpack" /\ PublicationShows
        /\ wrec.leaving = "none" /\ urec.leaving = "none"
    BY ImportRuns DEF CopyIInv, Imports, UnpackRefused, At, Unpack, Abandons, Unpacking
  <1>2. DiskTyped'
    BY <1>1, RecordUpdates DEF DiskTyped, PublicationShows, UnpackIs, WriteRecords,
       ExecRecords, UnpackRefused, Others, Quiet, Absent, BackedUp, Expected, disk, contract
  <1>3. StepIs'
    BY <1>1, <1>2, RecordUpdates DEF DiskTyped, StepIs, WriteIs, UnpackIs, WriteRecords,
       ExecRecords, UnpackRefused, At, Others, Quiet, Committed, Absent, BackedUp, Expected,
         disk, contract
  <1>4. WriteIs'
    BY <1>1 DEF WriteIs, Committed, UnpackRefused, Others, Quiet, disk, contract
  <1>5. UnpackIs' /\ DestinationIs'
    BY <1>1 DEF UnpackIs, DestinationIs, UnpackRefused, Others, Quiet, disk, contract
  <1>6. /\ PublicationShows' /\ kind' = kind
        /\ wrec'.leaving = "none" /\ urec'.leaving = "none"
        /\ wrec.status = "completed" => wrec'.status = "completed"
        /\ exec' = Idle \/ exec'.op = "unpack"
    BY <1>1, <1>2, RecordUpdates DEF DiskTyped, WriteRecords, ExecRecords, WriteIs, StepIs,
       PublicationShows, UnpackIs, UnpackRefused, At, Others, Quiet, Committed, Absent,
         BackedUp, Expected, disk, contract
  <1>7. exec' = Idle => Achieved("unpack")'
    BY <1>1, <1>2, RecordUpdates DEF DiskTyped, WriteRecords, ExecRecords, WriteIs, StepIs,
       Achieved, PublicationShows, UnpackIs, UnpackRefused, At, Others, Quiet, Committed,
         Absent, BackedUp, Expected, disk, contract
  <1>. QED  BY <1>1, <1>2, <1>3, <1>4, <1>5, <1>6, <1>7, ImportGoesOn DEF Imports

LEMMA ExtractsKeeps == ASSUME CopyIInv, Extracts, UNCHANGED <<control, queue>> PROVE CopyIInv'
  <1>1. /\ DiskTyped /\ StepIs /\ WriteIs /\ UnpackIs /\ DestinationIs
        /\ exec.op = "unpack" /\ PublicationShows
        /\ wrec.leaving = "none" /\ urec.leaving = "none"
    BY ImportRuns DEF CopyIInv, Imports, Extracts, At, Unpack, Abandons, Unpacking
  <1>2. DiskTyped'
    BY <1>1, RecordUpdates DEF DiskTyped, PublicationShows, UnpackIs, UnpackRecords,
       ExecRecords, Extracts, Others, Quiet, Absent, BackedUp, Unpack, RestOfUnpack, Expected,
         contract
  <1>3. StepIs'
    BY <1>1, <1>2, RecordUpdates DEF DiskTyped, StepIs, WriteIs, UnpackIs, UnpackRecords,
       ExecRecords, Extracts, At, Others, Quiet, Committed, Absent, BackedUp, Unpack,
         RestOfUnpack, Expected, contract
  <1>4. WriteIs'
    BY <1>1 DEF WriteIs, Committed, Extracts, Others, Quiet, RestOfUnpack, contract
  <1>5. UnpackIs'
    BY <1>1, <1>2, RecordUpdates DEF DiskTyped, StepIs, WriteIs, UnpackIs, PublicationShows,
       UnpackRecords, ExecRecords, Extracts, At, Others, Quiet, Committed, Absent, BackedUp,
         Unpack, RestOfUnpack, Expected, contract
  <1>6. DestinationIs'
    BY <1>1, <1>2, RecordUpdates DEF DiskTyped, StepIs, UnpackIs, DestinationIs,
       PublicationShows, UnpackRecords, ExecRecords, Extracts, At, Others, Quiet, Committed,
         Absent, BackedUp, Unpack, RestOfUnpack, Expected, contract
  <1>7. /\ PublicationShows' /\ kind' = kind
        /\ wrec'.leaving = "none" /\ urec'.leaving = "none"
        /\ wrec.status = "completed" => wrec'.status = "completed"
        /\ exec' = Idle \/ exec'.op = "unpack"
    BY <1>1, <1>2, RecordUpdates DEF DiskTyped, UnpackRecords, ExecRecords, WriteIs, StepIs,
       PublicationShows, UnpackIs, Extracts, At, Others, Quiet, Committed, Absent, BackedUp,
         Unpack, RestOfUnpack, Expected, contract
  <1>8. exec' = Idle => Achieved("unpack")'
    BY <1>1, <1>2, RecordUpdates DEF DiskTyped, UnpackRecords, ExecRecords, WriteIs, StepIs,
       Achieved, PublicationShows, UnpackIs, Extracts, At, Others, Quiet, Committed, Absent,
         BackedUp, Unpack, RestOfUnpack, Expected, contract
  <1>. QED  BY <1>1, <1>2, <1>3, <1>4, <1>5, <1>6, <1>7, <1>8, ImportGoesOn DEF Imports

LEMMA MovesAwayKeeps == ASSUME CopyIInv, MovesAway, UNCHANGED <<control, queue>> PROVE CopyIInv'
  <1>1. /\ DiskTyped /\ StepIs /\ WriteIs /\ UnpackIs /\ DestinationIs
        /\ exec.op = "unpack" /\ PublicationShows
        /\ wrec.leaving = "none" /\ urec.leaving = "none"
    BY ImportRuns DEF CopyIInv, Imports, MovesAway, At, Unpack, Abandons, Unpacking
  <1>2. DiskTyped'
    <2>1. exec' \in ExecRecords
      BY <1>1, RecordUpdates DEF MovesAway, Others, Quiet, Absent, BackedUp, Unpack,
         RestOfUnpack, Expected, contract
    <2>2. wrec' \in WriteRecords /\ urec' \in UnpackRecords
      BY <1>1, RecordUpdates DEF DiskTyped, MovesAway, Others, Quiet, Absent, BackedUp, Unpack,
         RestOfUnpack, Expected, contract
    <2>3. archive' \in BOOLEAN /\ meta' \in BOOLEAN
      BY <1>1 DEF DiskTyped, MovesAway, Others, Quiet, Absent, BackedUp, Unpack, RestOfUnpack,
         Expected, contract
    <2>4. /\ temp' \in {"none", "partial", "full"} /\ staging' \in {"none", "partial", "full"}
          /\ published' \in {0, 1}
      BY <1>1 DEF DiskTyped, UnpackIs, PublicationShows, MovesAway, Others, Quiet, Absent,
         BackedUp, Unpack, RestOfUnpack, Expected, contract
    <2>5. dest' \in {"none", "old", "new", "edited"} /\ backup' \in {"none", "old", "edited"}
      BY <1>1 DEF DiskTyped, UnpackIs, DestinationIs, MovesAway, Others, Quiet, Absent,
         BackedUp, Unpack, RestOfUnpack, Expected, contract
    <2>. QED  BY <1>1, <2>1, <2>2, <2>3, <2>4, <2>5 DEF DiskTyped, MovesAway, Others, Quiet,
                 Absent, BackedUp, Unpack, RestOfUnpack, Expected, contract
  <1>3. StepIs'
    BY <1>1, <1>2, RecordUpdates DEF DiskTyped, StepIs, WriteIs, UnpackIs, UnpackRecords,
       ExecRecords, MovesAway, At, Others, Quiet, Committed, Absent, BackedUp, Unpack,
         RestOfUnpack, Expected, contract
  <1>4. WriteIs'
    BY <1>1 DEF WriteIs, Committed, MovesAway, Others, Quiet, RestOfUnpack, contract
  <1>5. UnpackIs'
    BY <1>1, <1>2, RecordUpdates DEF DiskTyped, StepIs, WriteIs, UnpackIs, PublicationShows,
       UnpackRecords, ExecRecords, MovesAway, At, Others, Quiet, Committed, Absent, BackedUp,
         Unpack, RestOfUnpack, Expected, contract
  <1>6. DestinationIs'
    BY <1>1, <1>2, RecordUpdates DEF DiskTyped, StepIs, UnpackIs, DestinationIs,
       PublicationShows, UnpackRecords, ExecRecords, MovesAway, At, Others, Quiet, Committed,
         Absent, BackedUp, Unpack, RestOfUnpack, Expected, contract
  <1>7. /\ PublicationShows' /\ kind' = kind
        /\ wrec'.leaving = "none" /\ urec'.leaving = "none"
        /\ wrec.status = "completed" => wrec'.status = "completed"
        /\ exec' = Idle \/ exec'.op = "unpack"
    BY <1>1, <1>2, RecordUpdates DEF DiskTyped, UnpackRecords, ExecRecords, WriteIs, StepIs,
       PublicationShows, UnpackIs, MovesAway, At, Others, Quiet, Committed, Absent, BackedUp,
         Unpack, RestOfUnpack, Expected, contract
  <1>8. exec' = Idle => Achieved("unpack")'
    BY <1>1, <1>2, RecordUpdates DEF DiskTyped, UnpackRecords, ExecRecords, WriteIs, StepIs,
       Achieved, PublicationShows, UnpackIs, MovesAway, At, Others, Quiet, Committed, Absent,
         BackedUp, Unpack, RestOfUnpack, Expected, contract
  <1>. QED  BY <1>1, <1>2, <1>3, <1>4, <1>5, <1>6, <1>7, <1>8, ImportGoesOn DEF Imports

LEMMA MarksPublishingKeeps == ASSUME CopyIInv, MarksPublishing,
  UNCHANGED <<control, queue>> PROVE CopyIInv'
  <1>1. /\ DiskTyped /\ StepIs /\ WriteIs /\ UnpackIs /\ DestinationIs
        /\ exec.op = "unpack" /\ PublicationShows
        /\ wrec.leaving = "none" /\ urec.leaving = "none"
    BY ImportRuns DEF CopyIInv, Imports, MarksPublishing, At, Unpack, Abandons, Unpacking
  <1>2. DiskTyped'
    BY <1>1, RecordUpdates DEF DiskTyped, PublicationShows, UnpackIs, UnpackRecords,
       ExecRecords, MarksPublishing, Others, Quiet, Absent, BackedUp, Unpack, RestOfUnpack,
         Expected, contract
  <1>3. StepIs'
    BY <1>1, <1>2, RecordUpdates DEF DiskTyped, StepIs, WriteIs, UnpackIs, UnpackRecords,
       ExecRecords, MarksPublishing, At, Others, Quiet, Committed, Absent, BackedUp, Unpack,
         RestOfUnpack, Expected, contract
  <1>4. WriteIs'
    BY <1>1 DEF WriteIs, Committed, MarksPublishing, Others, Quiet, RestOfUnpack, contract
  <1>5. UnpackIs'
    BY <1>1, <1>2, RecordUpdates DEF DiskTyped, StepIs, WriteIs, UnpackIs, PublicationShows,
       UnpackRecords, ExecRecords, MarksPublishing, At, Others, Quiet, Committed, Absent,
         BackedUp, Unpack, RestOfUnpack, Expected, contract
  <1>6. DestinationIs'
    BY <1>1, <1>2, RecordUpdates DEF DiskTyped, StepIs, UnpackIs, DestinationIs,
       PublicationShows, UnpackRecords, ExecRecords, MarksPublishing, At, Others, Quiet,
         Committed, Absent, BackedUp, Unpack, RestOfUnpack, Expected, contract
  <1>7. /\ PublicationShows' /\ kind' = kind
        /\ wrec'.leaving = "none" /\ urec'.leaving = "none"
        /\ wrec.status = "completed" => wrec'.status = "completed"
        /\ exec' = Idle \/ exec'.op = "unpack"
    BY <1>1, <1>2, RecordUpdates DEF DiskTyped, UnpackRecords, ExecRecords, WriteIs, StepIs,
       PublicationShows, UnpackIs, MarksPublishing, At, Others, Quiet, Committed, Absent,
         BackedUp, Unpack, RestOfUnpack, Expected, contract
  <1>8. exec' = Idle => Achieved("unpack")'
    BY <1>1, <1>2, RecordUpdates DEF DiskTyped, UnpackRecords, ExecRecords, WriteIs, StepIs,
       Achieved, PublicationShows, UnpackIs, MarksPublishing, At, Others, Quiet, Committed,
         Absent, BackedUp, Unpack, RestOfUnpack, Expected, contract
  <1>. QED  BY <1>1, <1>2, <1>3, <1>4, <1>5, <1>6, <1>7, <1>8, ImportGoesOn DEF Imports

LEMMA PublishesKeeps == ASSUME CopyIInv, Publishes, UNCHANGED <<control, queue>> PROVE CopyIInv'
  <1>1. /\ DiskTyped /\ StepIs /\ WriteIs /\ UnpackIs /\ DestinationIs
        /\ exec.op = "unpack" /\ PublicationShows
        /\ wrec.leaving = "none" /\ urec.leaving = "none"
    BY ImportRuns DEF CopyIInv, Imports, Publishes, At, Unpack, Abandons, Unpacking
  <1>2. DiskTyped'
    BY <1>1, RecordUpdates DEF DiskTyped, PublicationShows, UnpackIs, WriteRecords,
       UnpackRecords, ExecRecords, Publishes, Others, Absent, BackedUp, Unpack, RestOfUnpack,
         Expected, contract
  <1>3. StepIs'
    BY <1>1, <1>2, RecordUpdates DEF DiskTyped, StepIs, WriteIs, UnpackIs, WriteRecords,
       UnpackRecords, ExecRecords, Publishes, At, Others, Committed, Absent, BackedUp, Unpack,
         RestOfUnpack, Expected, contract
  <1>4. WriteIs'
    BY <1>1, <1>2, RecordUpdates DEF DiskTyped, StepIs, WriteIs, UnpackIs, PublicationShows,
       WriteRecords, UnpackRecords, ExecRecords, Publishes, At, Others, Committed, Absent,
         BackedUp, Unpack, RestOfUnpack, Expected, contract
  <1>5. UnpackIs'
    BY <1>1, <1>2, RecordUpdates DEF DiskTyped, StepIs, WriteIs, UnpackIs, PublicationShows,
       WriteRecords, UnpackRecords, ExecRecords, Publishes, At, Others, Committed, Absent,
         BackedUp, Unpack, RestOfUnpack, Expected, contract
  <1>6. DestinationIs'
    BY <1>1, <1>2, RecordUpdates DEF DiskTyped, StepIs, UnpackIs, DestinationIs,
       PublicationShows, WriteRecords, UnpackRecords, ExecRecords, Publishes, At, Others,
         Committed, Absent, BackedUp, Unpack, RestOfUnpack, Expected, contract
  <1>7. /\ PublicationShows' /\ kind' = kind
        /\ wrec'.leaving = "none" /\ urec'.leaving = "none"
        /\ wrec.status = "completed" => wrec'.status = "completed"
        /\ exec' = Idle \/ exec'.op = "unpack"
    BY <1>1, <1>2, RecordUpdates DEF DiskTyped, WriteRecords, UnpackRecords, ExecRecords,
       WriteIs, StepIs, PublicationShows, UnpackIs, Publishes, At, Others, Committed, Absent,
         BackedUp, Unpack, RestOfUnpack, Expected, contract
  <1>8. exec' = Idle => Achieved("unpack")'
    BY <1>1, <1>2, RecordUpdates DEF DiskTyped, WriteRecords, UnpackRecords, ExecRecords,
       WriteIs, StepIs, Achieved, PublicationShows, UnpackIs, Publishes, At, Others, Committed,
         Absent, BackedUp, Unpack, RestOfUnpack, Expected, contract
  <1>. QED  BY <1>1, <1>2, <1>3, <1>4, <1>5, <1>6, <1>7, <1>8, ImportGoesOn DEF Imports

LEMMA UnpackCleansKeeps == ASSUME CopyIInv, UnpackCleans, UNCHANGED <<control, queue>>
  PROVE CopyIInv'
  <1>1. /\ DiskTyped /\ StepIs /\ WriteIs /\ UnpackIs /\ DestinationIs
        /\ exec.op = "unpack" /\ PublicationShows
        /\ wrec.leaving = "none" /\ urec.leaving = "none"
    BY ImportRuns DEF CopyIInv, Imports, UnpackCleans, At, Unpack, Abandons, Unpacking
  <1>2. DiskTyped'
    <2>1. exec' \in ExecRecords
      BY <1>1, RecordUpdates DEF UnpackCleans, Others, Quiet, Absent, BackedUp, Unpack,
         RestOfUnpack, Expected, contract
    <2>2. wrec' \in WriteRecords /\ urec' \in UnpackRecords
      BY <1>1, RecordUpdates DEF DiskTyped, UnpackCleans, Others, Quiet, Absent, BackedUp,
         Unpack, RestOfUnpack, Expected, contract
    <2>3. archive' \in BOOLEAN /\ meta' \in BOOLEAN
      BY <1>1 DEF DiskTyped, UnpackCleans, Others, Quiet, Absent, BackedUp, Unpack,
         RestOfUnpack, Expected, contract
    <2>4. /\ temp' \in {"none", "partial", "full"} /\ staging' \in {"none", "partial", "full"}
          /\ published' \in {0, 1}
      BY <1>1 DEF DiskTyped, UnpackIs, PublicationShows, UnpackCleans, Others, Quiet, Absent,
         BackedUp, Unpack, RestOfUnpack, Expected, contract
    <2>5. dest' \in {"none", "old", "new", "edited"} /\ backup' \in {"none", "old", "edited"}
      BY <1>1 DEF DiskTyped, UnpackIs, DestinationIs, UnpackCleans, Others, Quiet, Absent,
         BackedUp, Unpack, RestOfUnpack, Expected, contract
    <2>. QED  BY <1>1, <2>1, <2>2, <2>3, <2>4, <2>5 DEF DiskTyped, UnpackCleans, Others, Quiet,
                 Absent, BackedUp, Unpack, RestOfUnpack, Expected, contract
  <1>3. StepIs'
    BY <1>1, <1>2, RecordUpdates DEF DiskTyped, StepIs, WriteIs, UnpackIs, WriteRecords,
       UnpackRecords, ExecRecords, UnpackCleans, At, Others, Quiet, Committed, Absent,
         BackedUp, Unpack, RestOfUnpack, Expected, contract
  <1>4. WriteIs'
    BY <1>1, <1>2, RecordUpdates DEF DiskTyped, StepIs, WriteIs, UnpackIs, PublicationShows,
       WriteRecords, UnpackRecords, ExecRecords, UnpackCleans, At, Others, Quiet, Committed,
         Absent, BackedUp, Unpack, RestOfUnpack, Expected, contract
  <1>5. UnpackIs'
    BY <1>1, <1>2, RecordUpdates DEF DiskTyped, StepIs, WriteIs, UnpackIs, PublicationShows,
       WriteRecords, UnpackRecords, ExecRecords, UnpackCleans, At, Others, Quiet, Committed,
         Absent, BackedUp, Unpack, RestOfUnpack, Expected, contract
  <1>6. DestinationIs'
    BY <1>1, <1>2, RecordUpdates DEF DiskTyped, StepIs, UnpackIs, DestinationIs,
       PublicationShows, WriteRecords, UnpackRecords, ExecRecords, UnpackCleans, At, Others,
         Quiet, Committed, Absent, BackedUp, Unpack, RestOfUnpack, Expected, contract
  <1>7. /\ PublicationShows' /\ kind' = kind
        /\ wrec'.leaving = "none" /\ urec'.leaving = "none"
        /\ wrec.status = "completed" => wrec'.status = "completed"
        /\ exec' = Idle \/ exec'.op = "unpack"
    BY <1>1, <1>2, RecordUpdates DEF DiskTyped, WriteRecords, UnpackRecords, ExecRecords,
       WriteIs, StepIs, PublicationShows, UnpackIs, UnpackCleans, At, Others, Quiet, Committed,
         Absent, BackedUp, Unpack, RestOfUnpack, Expected, contract
  <1>8. exec' = Idle => Achieved("unpack")'
    BY <1>1, <1>2, RecordUpdates DEF DiskTyped, WriteRecords, UnpackRecords, ExecRecords,
       WriteIs, StepIs, Achieved, PublicationShows, UnpackIs, UnpackCleans, At, Others, Quiet,
         Committed, Absent, BackedUp, Unpack, RestOfUnpack, Expected, contract
  <1>. QED  BY <1>1, <1>2, <1>3, <1>4, <1>5, <1>6, <1>7, <1>8, ImportGoesOn DEF Imports

LEMMA ReleasesKeeps == ASSUME CopyIInv, Releases, UNCHANGED <<control, queue>> PROVE CopyIInv'
  <1>1. /\ DiskTyped /\ StepIs /\ WriteIs /\ UnpackIs /\ DestinationIs
        /\ exec.op = "release" /\ ImportedIs /\ ckpt.step = "imported"
        /\ wrec.leaving = "none" /\ urec.leaving = "none"
    BY ReleaseRuns DEF CopyIInv, Imports, Releases, At, Unpack, Abandons, Unpacking
  <1>2. DiskTyped'
    BY <1>1, RecordUpdates DEF DiskTyped, ImportedIs, UnpackIs, WriteRecords, UnpackRecords,
       ExecRecords, Releases, At, Others, Quiet, contract
  <1>3. StepIs'
    BY <1>1, <1>2, RecordUpdates DEF DiskTyped, StepIs, WriteIs, UnpackIs, WriteRecords,
       UnpackRecords, ExecRecords, Releases, At, Others, Quiet, Committed, contract
  <1>4. WriteIs'
    BY <1>1, <1>2, RecordUpdates DEF DiskTyped, StepIs, WriteIs, UnpackIs, ImportedIs,
       WriteRecords, UnpackRecords, ExecRecords, Releases, At, Others, Quiet, Committed,
         contract
  <1>5. UnpackIs'
    BY <1>1, <1>2, RecordUpdates DEF DiskTyped, StepIs, WriteIs, UnpackIs, ImportedIs,
       WriteRecords, UnpackRecords, ExecRecords, Releases, At, Others, Quiet, Committed,
         contract
  <1>6. DestinationIs'
    BY <1>1, <1>2, RecordUpdates DEF DiskTyped, StepIs, UnpackIs, DestinationIs, ImportedIs,
       WriteRecords, UnpackRecords, ExecRecords, Releases, At, Others, Quiet, Committed,
         contract
  <1>7. /\ ImportedIs' /\ kind' = kind /\ published' = published
        /\ wrec'.leaving = "none" /\ urec'.leaving = "none"
        /\ exec' = Idle \/ exec'.op = "release"
    BY <1>1, <1>2, RecordUpdates DEF DiskTyped, WriteIs, WriteRecords, UnpackRecords,
       ExecRecords, StepIs, ImportedIs, UnpackIs, control, Releases, At, Others, Quiet,
         Committed, contract
  <1>8. exec' = Idle => Achieved("release")'
    BY <1>1, <1>2, RecordUpdates DEF DiskTyped, WriteIs, WriteRecords, UnpackRecords,
       ExecRecords, StepIs, Achieved, Nothing, ImportedIs, UnpackIs, Releases, At, Others,
         Quiet, Committed, contract
  <1>. QED  BY <1>1, <1>2, <1>3, <1>4, <1>5, <1>6, <1>7, <1>8, ReleaseGoesOn

LEMMA NoWriteToAbandonKeeps == ASSUME CopyIInv, NoWriteToAbandon,
  UNCHANGED <<control, queue>> PROVE CopyIInv'
  <1>1. /\ DiskTyped /\ StepIs /\ WriteIs /\ UnpackIs /\ DestinationIs
        /\ exec.op = "abandon" /\ ImportedIs
    BY AbandonRuns DEF CopyIInv, Imports, NoWriteToAbandon, At, Unpack, Abandons, Unpacking
  <1>2. DiskTyped'
    BY <1>1, RecordUpdates DEF DiskTyped, ImportedIs, UnpackIs, WriteRecords, ExecRecords,
       NoWriteToAbandon, At, Others, Quiet, Abandons, disk, contract
  <1>3. StepIs'
    BY <1>1, <1>2, RecordUpdates DEF DiskTyped, StepIs, WriteIs, UnpackIs, WriteRecords,
       ExecRecords, NoWriteToAbandon, At, Others, Quiet, Committed, Abandons, disk, contract
  <1>4. WriteIs'
    BY <1>1 DEF WriteIs, Committed, NoWriteToAbandon, Others, Quiet, disk, contract
  <1>5. UnpackIs' /\ DestinationIs'
    BY <1>1 DEF UnpackIs, DestinationIs, NoWriteToAbandon, Others, Quiet, disk, contract
  <1>6. /\ ImportedIs' /\ kind' = kind /\ published' = published
        /\ exec' = Idle \/ exec'.op = "abandon"
    BY <1>1, <1>2, RecordUpdates DEF DiskTyped, WriteIs, WriteRecords, ExecRecords, StepIs,
       ImportedIs, UnpackIs, control, NoWriteToAbandon, At, Others, Quiet, Committed, Abandons,
         disk, contract
  <1>7. exec' = Idle => Achieved("abandon")'
    BY <1>1, <1>2, RecordUpdates DEF DiskTyped, WriteIs, WriteRecords, ExecRecords, StepIs,
       Achieved, Nothing, ImportedIs, UnpackIs, NoWriteToAbandon, At, Others, Quiet, Committed,
         Abandons, disk, contract
  <1>. QED  BY <1>1, <1>2, <1>3, <1>4, <1>5, <1>6, <1>7, AbandonGoesOn

LEMMA MarksTempKeeps == ASSUME CopyIInv, MarksTemp, UNCHANGED <<control, queue>> PROVE CopyIInv'
  <1>1. /\ DiskTyped /\ StepIs /\ WriteIs /\ UnpackIs /\ DestinationIs
        /\ exec.op = "abandon" /\ ImportedIs
    BY AbandonRuns DEF CopyIInv, Imports, MarksTemp, At, Unpack, Abandons, Unpacking
  <1>2. DiskTyped'
    BY <1>1, RecordUpdates DEF DiskTyped, ImportedIs, UnpackIs, WriteRecords, ExecRecords,
       MarksTemp, At, Others, Quiet, RestOfDisk, Abandons, contract
  <1>3. StepIs'
    BY <1>1, <1>2, RecordUpdates DEF DiskTyped, StepIs, WriteIs, UnpackIs, WriteRecords,
       ExecRecords, MarksTemp, At, Others, Quiet, Committed, RestOfDisk, Abandons, contract
  <1>4. WriteIs'
    BY <1>1, <1>2, RecordUpdates DEF DiskTyped, StepIs, WriteIs, UnpackIs, ImportedIs,
       WriteRecords, ExecRecords, MarksTemp, At, Others, Quiet, Committed, RestOfDisk,
         Abandons, contract
  <1>5. UnpackIs' /\ DestinationIs'
    BY <1>1 DEF UnpackIs, DestinationIs, MarksTemp, Others, Quiet, RestOfDisk, contract
  <1>6. /\ ImportedIs' /\ kind' = kind /\ published' = published
        /\ exec' = Idle \/ exec'.op = "abandon"
    BY <1>1, <1>2, RecordUpdates DEF DiskTyped, WriteIs, WriteRecords, ExecRecords, StepIs,
       ImportedIs, UnpackIs, control, MarksTemp, At, Others, Quiet, Committed, RestOfDisk,
         Abandons, contract
  <1>7. exec' = Idle => Achieved("abandon")'
    BY <1>1, <1>2, RecordUpdates DEF DiskTyped, WriteIs, WriteRecords, ExecRecords, StepIs,
       Achieved, Nothing, ImportedIs, UnpackIs, MarksTemp, At, Others, Quiet, Committed,
         RestOfDisk, Abandons, contract
  <1>. QED  BY <1>1, <1>2, <1>3, <1>4, <1>5, <1>6, <1>7, AbandonGoesOn

LEMMA DropsTempKeeps == ASSUME CopyIInv, DropsTemp, UNCHANGED <<control, queue>> PROVE CopyIInv'
  <1>1. /\ DiskTyped /\ StepIs /\ WriteIs /\ UnpackIs /\ DestinationIs
        /\ exec.op = "abandon" /\ ImportedIs
    BY AbandonRuns DEF CopyIInv, Imports, DropsTemp, At, Unpack, Abandons, Unpacking
  <1>2. DiskTyped'
    <2>1. exec' \in ExecRecords
      BY <1>1, RecordUpdates DEF DropsTemp, At, Others, Quiet, RestOfDisk, Abandons, contract
    <2>2. wrec' \in WriteRecords /\ urec' \in UnpackRecords
      BY <1>1, RecordUpdates DEF DiskTyped, DropsTemp, At, Others, Quiet, RestOfDisk, Abandons,
         contract
    <2>3. archive' \in BOOLEAN /\ meta' \in BOOLEAN
      BY <1>1 DEF DiskTyped, DropsTemp, At, Others, Quiet, RestOfDisk, Abandons, contract
    <2>4. /\ temp' \in {"none", "partial", "full"} /\ staging' \in {"none", "partial", "full"}
          /\ published' \in {0, 1}
      BY <1>1 DEF DiskTyped, UnpackIs, ImportedIs, DropsTemp, At, Others, Quiet, RestOfDisk,
         Abandons, contract
    <2>5. dest' \in {"none", "old", "new", "edited"} /\ backup' \in {"none", "old", "edited"}
      BY <1>1 DEF DiskTyped, UnpackIs, DestinationIs, DropsTemp, At, Others, Quiet, RestOfDisk,
         Abandons, contract
    <2>. QED  BY <1>1, <2>1, <2>2, <2>3, <2>4, <2>5 DEF DiskTyped, DropsTemp, At, Others,
                 Quiet, RestOfDisk, Abandons, contract
  <1>3. StepIs'
    BY <1>1, <1>2, RecordUpdates DEF DiskTyped, StepIs, WriteIs, UnpackIs, WriteRecords,
       ExecRecords, DropsTemp, At, Others, Quiet, Committed, RestOfDisk, Abandons, contract
  <1>4. WriteIs'
    BY <1>1, <1>2, RecordUpdates DEF DiskTyped, StepIs, WriteIs, UnpackIs, ImportedIs,
       WriteRecords, ExecRecords, DropsTemp, At, Others, Quiet, Committed, RestOfDisk,
         Abandons, contract
  <1>5. UnpackIs' /\ DestinationIs'
    BY <1>1 DEF UnpackIs, DestinationIs, DropsTemp, Others, Quiet, RestOfDisk, contract
  <1>6. /\ ImportedIs' /\ kind' = kind /\ published' = published
        /\ exec' = Idle \/ exec'.op = "abandon"
    BY <1>1, <1>2, RecordUpdates DEF DiskTyped, WriteIs, WriteRecords, ExecRecords, StepIs,
       ImportedIs, UnpackIs, control, DropsTemp, At, Others, Quiet, Committed, RestOfDisk,
         Abandons, contract
  <1>7. exec' = Idle => Achieved("abandon")'
    BY <1>1, <1>2, RecordUpdates DEF DiskTyped, WriteIs, WriteRecords, ExecRecords, StepIs,
       Achieved, Nothing, ImportedIs, UnpackIs, DropsTemp, At, Others, Quiet, Committed,
         RestOfDisk, Abandons, contract
  <1>. QED  BY <1>1, <1>2, <1>3, <1>4, <1>5, <1>6, <1>7, AbandonGoesOn

LEMMA KeepsCommitKeeps == ASSUME CopyIInv, KeepsCommit, UNCHANGED <<control, queue>>
  PROVE CopyIInv'
  <1>1. /\ DiskTyped /\ StepIs /\ WriteIs /\ UnpackIs /\ DestinationIs
        /\ exec.op = "abandon" /\ ImportedIs
    BY AbandonRuns DEF CopyIInv, Imports, KeepsCommit, At, Unpack, Abandons, Unpacking
  <1>2. DiskTyped'
    BY <1>1, RecordUpdates DEF DiskTyped, ImportedIs, UnpackIs, WriteRecords, ExecRecords,
       KeepsCommit, At, Others, Quiet, TargetIntact, Consumed, Committed, RestOfDisk, Abandons,
         CommitStands, contract
  <1>3. StepIs'
    BY <1>1, <1>2, RecordUpdates DEF DiskTyped, StepIs, WriteIs, UnpackIs, WriteRecords,
       ExecRecords, KeepsCommit, At, Others, Quiet, TargetIntact, Consumed, Committed,
         RestOfDisk, Abandons, CommitStands, contract
  <1>4. WriteIs'
    BY <1>1, <1>2, RecordUpdates DEF DiskTyped, StepIs, WriteIs, UnpackIs, ImportedIs,
       WriteRecords, ExecRecords, KeepsCommit, At, Others, Quiet, TargetIntact, Consumed,
         Committed, RestOfDisk, Abandons, CommitStands, contract
  <1>5. UnpackIs' /\ DestinationIs'
    BY <1>1 DEF UnpackIs, DestinationIs, KeepsCommit, Others, Quiet, RestOfDisk, contract
  <1>6. /\ ImportedIs' /\ kind' = kind /\ published' = published
        /\ exec' = Idle \/ exec'.op = "abandon"
    BY <1>1, <1>2, RecordUpdates DEF DiskTyped, WriteIs, WriteRecords, ExecRecords, StepIs,
       ImportedIs, UnpackIs, control, KeepsCommit, At, Others, Quiet, TargetIntact, Consumed,
         Committed, RestOfDisk, Abandons, CommitStands, contract
  <1>7. exec' = Idle => Achieved("abandon")'
    BY <1>1, <1>2, RecordUpdates DEF DiskTyped, WriteIs, WriteRecords, ExecRecords, StepIs,
       Achieved, Nothing, ImportedIs, UnpackIs, KeepsCommit, At, Others, Quiet, TargetIntact,
         Consumed, Committed, RestOfDisk, Abandons, CommitStands, contract
  <1>. QED  BY <1>1, <1>2, <1>3, <1>4, <1>5, <1>6, <1>7, AbandonGoesOn

LEMMA SettlesCommitKeeps == ASSUME CopyIInv, SettlesCommit, UNCHANGED <<control, queue>>
  PROVE CopyIInv'
  <1>1. /\ DiskTyped /\ StepIs /\ WriteIs /\ UnpackIs /\ DestinationIs
        /\ exec.op = "abandon" /\ ImportedIs
    BY AbandonRuns DEF CopyIInv, Imports, SettlesCommit, At, Unpack, Abandons, Unpacking
  <1>2. DiskTyped'
    <2>1. exec' \in ExecRecords
      BY <1>1, RecordUpdates DEF SettlesCommit, At, Others, Quiet, RestOfDisk, Abandons,
         contract
    <2>2. wrec' \in WriteRecords /\ urec' \in UnpackRecords
      BY <1>1, RecordUpdates DEF DiskTyped, SettlesCommit, At, Others, Quiet, RestOfDisk,
         Abandons, contract
    <2>3. archive' \in BOOLEAN /\ meta' \in BOOLEAN
      BY <1>1 DEF DiskTyped, SettlesCommit, At, Others, Quiet, RestOfDisk, Abandons, contract
    <2>4. /\ temp' \in {"none", "partial", "full"} /\ staging' \in {"none", "partial", "full"}
          /\ published' \in {0, 1}
      BY <1>1 DEF DiskTyped, UnpackIs, ImportedIs, SettlesCommit, At, Others, Quiet,
         RestOfDisk, Abandons, contract
    <2>5. dest' \in {"none", "old", "new", "edited"} /\ backup' \in {"none", "old", "edited"}
      BY <1>1 DEF DiskTyped, UnpackIs, DestinationIs, SettlesCommit, At, Others, Quiet,
         RestOfDisk, Abandons, contract
    <2>. QED  BY <1>1, <2>1, <2>2, <2>3, <2>4, <2>5 DEF DiskTyped, SettlesCommit, At, Others,
                 Quiet, RestOfDisk, Abandons, contract
  <1>3. StepIs'
    BY <1>1, <1>2, RecordUpdates DEF DiskTyped, StepIs, WriteIs, UnpackIs, WriteRecords,
       ExecRecords, SettlesCommit, At, Others, Quiet, Committed, RestOfDisk, Abandons, contract
  <1>4. WriteIs'
    BY <1>1, <1>2, RecordUpdates DEF DiskTyped, StepIs, WriteIs, UnpackIs, ImportedIs,
       WriteRecords, ExecRecords, SettlesCommit, At, Others, Quiet, Committed, RestOfDisk,
         Abandons, contract
  <1>5. UnpackIs' /\ DestinationIs'
    BY <1>1 DEF UnpackIs, DestinationIs, SettlesCommit, Others, Quiet, RestOfDisk, contract
  <1>6. /\ ImportedIs' /\ kind' = kind /\ published' = published
        /\ exec' = Idle \/ exec'.op = "abandon"
    BY <1>1, <1>2, RecordUpdates DEF DiskTyped, WriteIs, WriteRecords, ExecRecords, StepIs,
       ImportedIs, UnpackIs, control, SettlesCommit, At, Others, Quiet, Committed, RestOfDisk,
         Abandons, contract
  <1>7. exec' = Idle => Achieved("abandon")'
    BY <1>1, <1>2, RecordUpdates DEF DiskTyped, WriteIs, WriteRecords, ExecRecords, StepIs,
       Achieved, Nothing, ImportedIs, UnpackIs, SettlesCommit, At, Others, Quiet, Committed,
         RestOfDisk, Abandons, contract
  <1>. QED  BY <1>1, <1>2, <1>3, <1>4, <1>5, <1>6, <1>7, AbandonGoesOn

LEMMA WriteStaysKeeps == ASSUME CopyIInv, WriteStays, UNCHANGED <<control, queue>>
  PROVE CopyIInv'
  <1>1. /\ DiskTyped /\ StepIs /\ WriteIs /\ UnpackIs /\ DestinationIs
        /\ exec.op = "abandon" /\ ImportedIs
    BY AbandonRuns DEF CopyIInv, Imports, WriteStays, At, Unpack, Abandons, Unpacking
  <1>2. DiskTyped'
    BY <1>1, RecordUpdates DEF DiskTyped, ImportedIs, UnpackIs, WriteRecords, ExecRecords,
       WriteStays, At, Others, Quiet, TargetIntact, Consumed, Committed, Abandons,
         CommitStands, disk, contract
  <1>3. StepIs'
    BY <1>1, <1>2, RecordUpdates DEF DiskTyped, StepIs, WriteIs, UnpackIs, WriteRecords,
       ExecRecords, WriteStays, At, Others, Quiet, TargetIntact, Consumed, Committed, Abandons,
         CommitStands, disk, contract
  <1>4. WriteIs'
    BY <1>1 DEF WriteIs, Committed, WriteStays, Others, Quiet, disk, contract
  <1>5. UnpackIs' /\ DestinationIs'
    BY <1>1 DEF UnpackIs, DestinationIs, WriteStays, Others, Quiet, disk, contract
  <1>6. /\ ImportedIs' /\ kind' = kind /\ published' = published
        /\ exec' = Idle \/ exec'.op = "abandon"
    BY <1>1, <1>2, RecordUpdates DEF DiskTyped, WriteIs, WriteRecords, ExecRecords, StepIs,
       ImportedIs, UnpackIs, control, WriteStays, At, Others, Quiet, TargetIntact, Consumed,
         Committed, Abandons, CommitStands, disk, contract
  <1>7. exec' = Idle => Achieved("abandon")'
    BY <1>1, <1>2, RecordUpdates DEF DiskTyped, WriteIs, WriteRecords, ExecRecords, StepIs,
       Achieved, Nothing, ImportedIs, UnpackIs, WriteStays, At, Others, Quiet, TargetIntact,
         Consumed, Committed, Abandons, CommitStands, disk, contract
  <1>. QED  BY <1>1, <1>2, <1>3, <1>4, <1>5, <1>6, <1>7, AbandonGoesOn

LEMMA NoUnpackToAbandonKeeps == ASSUME CopyIInv, NoUnpackToAbandon,
  UNCHANGED <<control, queue>> PROVE CopyIInv'
  <1>1. /\ DiskTyped /\ StepIs /\ WriteIs /\ UnpackIs /\ DestinationIs
        /\ exec.op = "abandon" /\ ImportedIs
    BY AbandonRuns DEF CopyIInv, Imports, NoUnpackToAbandon, At, Unpack, Abandons, Unpacking
  <1>2. DiskTyped'
    BY <1>1, RecordUpdates DEF DiskTyped, ImportedIs, UnpackIs, WriteRecords, ExecRecords,
       NoUnpackToAbandon, At, Others, Quiet, Unpacking, disk, contract
  <1>3. StepIs'
    BY <1>1, <1>2, RecordUpdates DEF DiskTyped, StepIs, WriteIs, UnpackIs, WriteRecords,
       ExecRecords, NoUnpackToAbandon, At, Others, Quiet, Committed, Unpacking, disk, contract
  <1>4. WriteIs'
    BY <1>1 DEF WriteIs, Committed, NoUnpackToAbandon, Others, Quiet, disk, contract
  <1>5. UnpackIs' /\ DestinationIs'
    BY <1>1 DEF UnpackIs, DestinationIs, NoUnpackToAbandon, Others, Quiet, disk, contract
  <1>6. /\ ImportedIs' /\ kind' = kind /\ published' = published
        /\ exec' = Idle \/ exec'.op = "abandon"
    BY <1>1, <1>2, RecordUpdates DEF DiskTyped, WriteIs, WriteRecords, ExecRecords, StepIs,
       ImportedIs, UnpackIs, control, NoUnpackToAbandon, At, Others, Quiet, Committed,
         Unpacking, disk, contract
  <1>7. exec' = Idle => Achieved("abandon")'
    BY <1>1, <1>2, RecordUpdates DEF DiskTyped, WriteIs, WriteRecords, ExecRecords, StepIs,
       Achieved, Nothing, ImportedIs, UnpackIs, NoUnpackToAbandon, At, Others, Quiet,
         Committed, Unpacking, disk, contract
  <1>. QED  BY <1>1, <1>2, <1>3, <1>4, <1>5, <1>6, <1>7, AbandonGoesOn

LEMMA DecidesKeeps == ASSUME CopyIInv, Decides, UNCHANGED <<control, queue>> PROVE CopyIInv'
  <1>1. /\ DiskTyped /\ StepIs /\ WriteIs /\ UnpackIs /\ DestinationIs
        /\ exec.op = "abandon" /\ ImportedIs
    BY AbandonRuns DEF CopyIInv, Imports, Decides, At, Unpack, Abandons, Unpacking
  <1>2. DiskTyped'
    <2>1. exec' \in ExecRecords
      BY <1>1, RecordUpdates DEF Decides, At, Others, Quiet, Absent, BackedUp, Unpacking,
         RestOfUndo, Unmoved, MovedAway, CanRollBack, CanCommit, contract
    <2>2. wrec' \in WriteRecords /\ urec' \in UnpackRecords
      BY <1>1, RecordUpdates DEF DiskTyped, Decides, At, Others, Quiet, Absent, BackedUp,
         Unpacking, RestOfUndo, Unmoved, MovedAway, CanRollBack, CanCommit, contract
    <2>3. archive' \in BOOLEAN /\ meta' \in BOOLEAN
      BY <1>1 DEF DiskTyped, Decides, At, Others, Quiet, Absent, BackedUp, Unpacking,
         RestOfUndo, Unmoved, MovedAway, CanRollBack, CanCommit, contract
    <2>4. /\ temp' \in {"none", "partial", "full"} /\ staging' \in {"none", "partial", "full"}
          /\ published' \in {0, 1}
      BY <1>1 DEF DiskTyped, UnpackIs, ImportedIs, Decides, At, Others, Quiet, Absent,
         BackedUp, Unpacking, RestOfUndo, Unmoved, MovedAway, CanRollBack, CanCommit, contract
    <2>5. dest' \in {"none", "old", "new", "edited"} /\ backup' \in {"none", "old", "edited"}
      BY <1>1 DEF DiskTyped, UnpackIs, DestinationIs, Decides, At, Others, Quiet, Absent,
         BackedUp, Unpacking, RestOfUndo, Unmoved, MovedAway, CanRollBack, CanCommit, contract
    <2>. QED  BY <1>1, <2>1, <2>2, <2>3, <2>4, <2>5 DEF DiskTyped, Decides, At, Others, Quiet,
                 Absent, BackedUp, Unpacking, RestOfUndo, Unmoved, MovedAway, CanRollBack,
                   CanCommit, contract
  <1>3. StepIs'
    BY <1>1, <1>2, RecordUpdates DEF DiskTyped, StepIs, WriteIs, UnpackIs, UnpackRecords,
       ExecRecords, Decides, At, Others, Quiet, Committed, Absent, BackedUp, Unpacking,
         RestOfUndo, Unmoved, MovedAway, CanRollBack, CanCommit, contract
  <1>4. WriteIs'
    BY <1>1 DEF WriteIs, Committed, Decides, Others, Quiet, RestOfUndo, contract
  <1>5. UnpackIs'
    <2>1. /\ urec.status # "none" /\ urec.leaving = "none"
          /\ UNCHANGED <<kind, backup, staging, published>>
      BY <1>1 DEF Decides, UnpackIs, RestOfUndo, Quiet, Others, contract
    <2>2. CanRollBack => published = 0
      BY <1>1, <2>1 DEF CanRollBack, UnpackIs, DiskTyped, UnpackRecords
    <2>3. CanCommit => published = 1
      BY <1>1, <2>1 DEF CanCommit, UnpackIs, DiskTyped, UnpackRecords
    <2>4. CASE UNCHANGED urec
      BY <1>1, <2>1, <2>4 DEF UnpackIs
    <2>5. CASE CanRollBack /\ Undo("rollback")
      BY <1>1, <2>1, <2>2, <2>5, RecordUpdates DEF UnpackIs
    <2>6. CASE CanCommit /\ Undo("commit")
      BY <1>1, <2>1, <2>3, <2>6, RecordUpdates DEF UnpackIs
    <2>. QED  BY <2>4, <2>5, <2>6 DEF Decides
  <1>6. DestinationIs'
    BY <1>1, <1>2, RecordUpdates, ZenonT(60) DEF DiskTyped, StepIs, UnpackIs, DestinationIs,
       ImportedIs,
       UnpackRecords, ExecRecords, Decides, At, Others, Quiet, Committed, Absent, BackedUp,
         Unpacking, RestOfUndo, Unmoved, MovedAway, CanRollBack, CanCommit, contract
  <1>7. /\ ImportedIs' /\ kind' = kind /\ published' = published
        /\ exec' = Idle \/ exec'.op = "abandon"
    BY <1>1, <1>2, RecordUpdates, ZenonT(60) DEF DiskTyped, WriteIs, UnpackRecords, ExecRecords,
       StepIs,
       ImportedIs, UnpackIs, control, Decides, At, Others, Quiet, Committed, Absent, BackedUp,
         Unpacking, RestOfUndo, Unmoved, MovedAway, CanRollBack, CanCommit, contract
  <1>8. exec' = Idle => Achieved("abandon")'
    BY <1>1, <1>3, RecordUpdates DEF Decides, Achieved, At, Unpacking
  <1>. QED  BY <1>1, <1>2, <1>3, <1>4, <1>5, <1>6, <1>7, <1>8, AbandonGoesOn

LEMMA RollsBackKeeps == ASSUME CopyIInv, RollsBack, UNCHANGED <<control, queue>> PROVE CopyIInv'
  <1>1. /\ DiskTyped /\ StepIs /\ WriteIs /\ UnpackIs /\ DestinationIs
        /\ exec.op = "abandon" /\ ImportedIs
    BY AbandonRuns DEF CopyIInv, Imports, RollsBack, At, Unpack, Abandons, Unpacking
  <1>2. DiskTyped'
    BY <1>1, RecordUpdates DEF DiskTyped, ImportedIs, UnpackIs, UnpackRecords, ExecRecords,
       RollsBack, At, Others, Quiet, Absent, BackedUp, Unpacking, RestOfUndo, Unmoved,
         MovedAway, contract
  <1>3. StepIs'
    BY <1>1, <1>2, RecordUpdates DEF DiskTyped, StepIs, WriteIs, UnpackIs, UnpackRecords,
       ExecRecords, RollsBack, At, Others, Quiet, Committed, Absent, BackedUp, Unpacking,
         RestOfUndo, Unmoved, MovedAway, contract
  <1>4. WriteIs'
    BY <1>1 DEF WriteIs, Committed, RollsBack, Others, Quiet, RestOfUndo, contract
  <1>5. UnpackIs'
    BY <1>1, <1>2, RecordUpdates DEF DiskTyped, StepIs, WriteIs, UnpackIs, ImportedIs,
       UnpackRecords, ExecRecords, RollsBack, At, Others, Quiet, Committed, Absent, BackedUp,
         Unpacking, RestOfUndo, Unmoved, MovedAway, contract
  <1>6. DestinationIs'
    BY <1>1, <1>2, RecordUpdates DEF DiskTyped, StepIs, UnpackIs, DestinationIs, ImportedIs,
       UnpackRecords, ExecRecords, RollsBack, At, Others, Quiet, Committed, Absent, BackedUp,
         Unpacking, RestOfUndo, Unmoved, MovedAway, contract
  <1>7. /\ ImportedIs' /\ kind' = kind /\ published' = published
        /\ exec' = Idle \/ exec'.op = "abandon"
    BY <1>1, <1>2, RecordUpdates DEF DiskTyped, WriteIs, UnpackRecords, ExecRecords, StepIs,
       ImportedIs, UnpackIs, control, RollsBack, At, Others, Quiet, Committed, Absent,
         BackedUp, Unpacking, RestOfUndo, Unmoved, MovedAway, contract
  <1>8. exec' = Idle => Achieved("abandon")'
    BY <1>1, <1>2, RecordUpdates DEF DiskTyped, WriteIs, UnpackRecords, ExecRecords, StepIs,
       Achieved, Nothing, ImportedIs, UnpackIs, RollsBack, At, Others, Quiet, Committed,
         Absent, BackedUp, Unpacking, RestOfUndo, Unmoved, MovedAway, contract
  <1>. QED  BY <1>1, <1>2, <1>3, <1>4, <1>5, <1>6, <1>7, <1>8, AbandonGoesOn

LEMMA ConfirmsCommitKeeps == ASSUME CopyIInv, ConfirmsCommit,
  UNCHANGED <<control, queue>> PROVE CopyIInv'
  <1>1. /\ DiskTyped /\ StepIs /\ WriteIs /\ UnpackIs /\ DestinationIs
        /\ exec.op = "abandon" /\ ImportedIs
    BY AbandonRuns DEF CopyIInv, Imports, ConfirmsCommit, At, Unpack, Abandons, Unpacking
  <1>2. DiskTyped'
    BY <1>1, RecordUpdates DEF DiskTyped, ImportedIs, UnpackIs, UnpackRecords, ExecRecords,
       ConfirmsCommit, At, Others, Quiet, Absent, BackedUp, Unpacking, RestOfUndo, contract
  <1>3. StepIs'
    BY <1>1, <1>2, RecordUpdates DEF DiskTyped, StepIs, WriteIs, UnpackIs, UnpackRecords,
       ExecRecords, ConfirmsCommit, At, Others, Quiet, Committed, Absent, BackedUp, Unpacking,
         RestOfUndo, contract
  <1>4. WriteIs'
    BY <1>1 DEF WriteIs, Committed, ConfirmsCommit, Others, Quiet, RestOfUndo, contract
  <1>5. UnpackIs'
    BY <1>1, <1>2, RecordUpdates DEF DiskTyped, StepIs, WriteIs, UnpackIs, ImportedIs,
       UnpackRecords, ExecRecords, ConfirmsCommit, At, Others, Quiet, Committed, Absent,
         BackedUp, Unpacking, RestOfUndo, contract
  <1>6. DestinationIs'
    BY <1>1, <1>2, RecordUpdates DEF DiskTyped, StepIs, UnpackIs, DestinationIs, ImportedIs,
       UnpackRecords, ExecRecords, ConfirmsCommit, At, Others, Quiet, Committed, Absent,
         BackedUp, Unpacking, RestOfUndo, contract
  <1>7. /\ ImportedIs' /\ kind' = kind /\ published' = published
        /\ exec' = Idle \/ exec'.op = "abandon"
    BY <1>1, <1>2, RecordUpdates DEF DiskTyped, WriteIs, UnpackRecords, ExecRecords, StepIs,
       ImportedIs, UnpackIs, control, ConfirmsCommit, At, Others, Quiet, Committed, Absent,
         BackedUp, Unpacking, RestOfUndo, contract
  <1>8. exec' = Idle => Achieved("abandon")'
    BY <1>1, <1>2, RecordUpdates DEF DiskTyped, WriteIs, UnpackRecords, ExecRecords, StepIs,
       Achieved, Nothing, ImportedIs, UnpackIs, ConfirmsCommit, At, Others, Quiet, Committed,
         Absent, BackedUp, Unpacking, RestOfUndo, contract
  <1>. QED  BY <1>1, <1>2, <1>3, <1>4, <1>5, <1>6, <1>7, <1>8, AbandonGoesOn

LEMMA ForgetsKeeps == ASSUME CopyIInv, Forgets, UNCHANGED <<control, queue>> PROVE CopyIInv'
  <1>1. /\ DiskTyped /\ StepIs /\ WriteIs /\ UnpackIs /\ DestinationIs
        /\ exec.op = "abandon" /\ ImportedIs
    BY AbandonRuns DEF CopyIInv, Imports, Forgets, At, Unpack, Abandons, Unpacking
  <1>2. DiskTyped'
    <2>1. exec' \in ExecRecords
      BY <1>1, RecordUpdates DEF Forgets, At, Others, Quiet, Absent, BackedUp, Unpacking,
         RestOfUndo, Settled, contract
    <2>2. wrec' \in WriteRecords /\ urec' \in UnpackRecords
      BY <1>1, RecordUpdates DEF DiskTyped, Forgets, At, Others, Quiet, Absent, BackedUp,
         Unpacking, RestOfUndo, Settled, contract
    <2>3. archive' \in BOOLEAN /\ meta' \in BOOLEAN
      BY <1>1 DEF DiskTyped, Forgets, At, Others, Quiet, Absent, BackedUp, Unpacking,
         RestOfUndo, Settled, contract
    <2>4. /\ temp' \in {"none", "partial", "full"} /\ staging' \in {"none", "partial", "full"}
          /\ published' \in {0, 1}
      BY <1>1 DEF DiskTyped, UnpackIs, ImportedIs, Forgets, At, Others, Quiet, Absent,
         BackedUp, Unpacking, RestOfUndo, Settled, contract
    <2>5. dest' \in {"none", "old", "new", "edited"} /\ backup' \in {"none", "old", "edited"}
      BY <1>1 DEF DiskTyped, UnpackIs, DestinationIs, Forgets, At, Others, Quiet, Absent,
         BackedUp, Unpacking, RestOfUndo, Settled, contract
    <2>. QED  BY <1>1, <2>1, <2>2, <2>3, <2>4, <2>5 DEF DiskTyped, Forgets, At, Others, Quiet,
                 Absent, BackedUp, Unpacking, RestOfUndo, Settled, contract
  <1>3. StepIs'
    BY <1>1, <1>2, RecordUpdates DEF DiskTyped, StepIs, WriteIs, UnpackIs, WriteRecords,
       UnpackRecords, ExecRecords, Forgets, At, Others, Quiet, Committed, Absent, BackedUp,
         Unpacking, RestOfUndo, Settled, contract
  <1>4. WriteIs'
    BY <1>1, <1>2, RecordUpdates DEF DiskTyped, StepIs, WriteIs, UnpackIs, ImportedIs,
       WriteRecords, UnpackRecords, ExecRecords, Forgets, At, Others, Quiet, Committed, Absent,
         BackedUp, Unpacking, RestOfUndo, Settled, contract
  <1>5. UnpackIs'
    BY <1>1, <1>2, RecordUpdates DEF DiskTyped, StepIs, WriteIs, UnpackIs, ImportedIs,
       WriteRecords, UnpackRecords, ExecRecords, Forgets, At, Others, Quiet, Committed, Absent,
         BackedUp, Unpacking, RestOfUndo, Settled, contract
  <1>6. DestinationIs'
    BY <1>1, <1>2, RecordUpdates DEF DiskTyped, StepIs, UnpackIs, DestinationIs, ImportedIs,
       WriteRecords, UnpackRecords, ExecRecords, Forgets, At, Others, Quiet, Committed, Absent,
         BackedUp, Unpacking, RestOfUndo, Settled, contract
  <1>7. /\ ImportedIs' /\ kind' = kind /\ published' = published
        /\ exec' = Idle \/ exec'.op = "abandon"
    BY <1>1, <1>2, RecordUpdates DEF DiskTyped, WriteIs, WriteRecords, UnpackRecords,
       ExecRecords, StepIs, ImportedIs, UnpackIs, control, Forgets, At, Others, Quiet,
         Committed, Absent, BackedUp, Unpacking, RestOfUndo, Settled, contract
  <1>8. exec' = Idle => Achieved("abandon")'
    BY <1>1, <1>2, RecordUpdates DEF DiskTyped, WriteIs, WriteRecords, UnpackRecords,
       ExecRecords, StepIs, Achieved, Nothing, ImportedIs, UnpackIs, Forgets, At, Others,
         Quiet, Committed, Absent, BackedUp, Unpacking, RestOfUndo, Settled, contract
  <1>. QED  BY <1>1, <1>2, <1>3, <1>4, <1>5, <1>6, <1>7, <1>8, AbandonGoesOn

LEMMA CommandKeeps == ASSUME CopyIInv, ExecutorStep, UNCHANGED <<control, queue>>
  PROVE CopyIInv'
  <1>1. CASE Begins
    BY <1>1, BeginCommittedKeeps, BeginRefusedKeeps, BeginReceiptKeeps, BeginTempKeeps,
       BeginMetadataKeeps, BeginResumedKeeps DEF Begins
  <1>2. CASE Receives \/ Releases
    BY <1>2, ReceivesKeeps, ReleasesKeeps
  <1>3. CASE Finishes
    BY <1>3, FinishMarksKeeps, FinishReplacesKeeps, FinishCompletesKeeps DEF Finishes
  <1>4. CASE Unpacks
    BY <1>4, UnpackReceiptKeeps, UnpackRefusedKeeps, ExtractsKeeps, MovesAwayKeeps,
       MarksPublishingKeeps, PublishesKeeps, UnpackCleansKeeps DEF Unpacks
  <1>5. CASE AbandonsWrite
    BY <1>5, NoWriteToAbandonKeeps, MarksTempKeeps, DropsTempKeeps, KeepsCommitKeeps,
       SettlesCommitKeeps, WriteStaysKeeps DEF AbandonsWrite
  <1>6. CASE AbandonsUnpack
    BY <1>6, NoUnpackToAbandonKeeps, DecidesKeeps, RollsBackKeeps, ConfirmsCommitKeeps,
       ForgetsKeeps DEF AbandonsUnpack
  <1>. QED  BY <1>1, <1>2, <1>3, <1>4, <1>5, <1>6 DEF ExecutorStep

-----------------------------------------------------------------------------
(* Copies: the command loop, the crashes and the others                      *)

\* What does not depend on the control, the command that runs aside.
LEMMA DiskStays ==
    ASSUME CopyIInv, UNCHANGED <<contract, disk, published, edits>>, exec' = exec
           \/ exec' = Idle
    PROVE  DiskTyped' /\ StepIs' /\ WriteIs' /\ UnpackIs' /\ DestinationIs'
  <1>1. DiskTyped /\ StepIs /\ WriteIs /\ UnpackIs /\ DestinationIs
    BY DEF CopyIInv
  <1>2. /\ UNCHANGED <<kind, original, dest, archive, temp, meta, wrec, staging, backup, urec>>
        /\ UNCHANGED <<published, edits>>
    BY DEF contract, disk
  <1>3. DiskTyped'
    BY <1>1, <1>2, RecordUpdates DEF DiskTyped
  <1>4. StepIs'
    BY <1>1, <1>2, RecordUpdates DEF StepIs, At, Committed
  <1>. QED  BY <1>1, <1>2, <1>3, <1>4 DEF WriteIs, UnpackIs, DestinationIs, Committed

LEMMA TakesCommandKeeps == ASSUME CopyIInv, TakesCommand PROVE CopyIInv'
  <1>1. /\ DiskTyped /\ StepIs /\ WriteIs /\ UnpackIs /\ DestinationIs
        /\ ControlTyped /\ Undecided /\ ReceiptsTell /\ ImportedIs
        /\ CommandsAre /\ CheckpointIs /\ AttemptIs /\ AnswerIs
    BY DEF CopyIInv
  <1>2. /\ exec = Idle /\ queue # <<>> /\ queue' = Tail(queue)
        /\ UNCHANGED <<kind, overwrite, original, dest, archive, temp, meta, wrec, staging,
                       backup, urec, result, published, crashes, edits>>
        /\ UNCHANGED <<managed, ckpt, payload, job, pc, waiting, lost, retries>>
    BY DEF TakesCommand, Starts, contract, disk, control
  <1>3. PICK op : op = queue[1]
    OBVIOUS
  <1>4. /\ op \in Commands /\ queue' \in Seq(Commands) /\ 1 \in DOMAIN queue
        /\ Len(queue) \in Nat \ {0}
        /\ Len(queue') = Len(queue) - 1 /\ \A i \in DOMAIN queue' : queue'[i] = queue[i + 1]
        /\ DOMAIN queue = 1..Len(queue) /\ DOMAIN queue' = 1..Len(queue')
    BY <1>1, <1>2, <1>3 DEF ControlTyped
  <1>5. exec' = [op |-> op, at |-> "start"]
    BY <1>2, <1>3 DEF TakesCommand, Starts
  <1>6. exec' \in ExecRecords /\ exec'.op = op /\ exec'.at = "start"
    BY <1>4, <1>5 DEF ExecRecords
  <1>7. DiskTyped' /\ ControlTyped'
    BY <1>1, <1>2, <1>4, <1>6 DEF DiskTyped, ControlTyped
  <1>8. op = "unpack" => kind = "dir"
    BY <1>1, <1>3, <1>4 DEF CommandsAre, DiskTyped
  <1>9. StepIs'
    BY <1>2, <1>4, <1>6, <1>8 DEF StepIs, At, Commands, Imports
  <1>10. WriteIs' /\ UnpackIs' /\ DestinationIs' /\ ImportedIs'
    BY <1>1, <1>2 DEF WriteIs, UnpackIs, DestinationIs, ImportedIs, Committed
  <1>11. StillImports' => StillImports
    BY <1>2, <1>3, <1>4, <1>6 DEF StillImports
  <1>12. Undecided' /\ ReceiptsTell'
    BY <1>1, <1>2, <1>11 DEF Undecided, ReceiptsTell, PublicationShows, Committed
  <1>13. CommandsAre'
    BY <1>1, <1>2, <1>3, <1>4, <1>6 DEF CommandsAre
  <1>14. CheckpointIs' /\ AttemptIs'
    BY <1>1, <1>2 DEF CheckpointIs, AttemptIs, Ended
  <1>15. AnswerIs'
    <2>. SUFFICES ASSUME waiting
                  PROVE  /\ queue' # <<>> => queue'[Len(queue')] = Command[pc]
                         /\ queue' = <<>> => exec'.op = Command[pc]
                         /\ exec' # Idle
      BY <1>2 DEF AnswerIs
    <2>1. queue[Len(queue)] = Command[pc]
      BY <1>1, <1>2 DEF AnswerIs
    <2>2. queue' = <<>> => Len(queue) = 1
      BY <1>4
    <2>3. queue' # <<>> => Len(queue') \in DOMAIN queue'
      BY <1>4
    <2>4. exec' # Idle
      BY <1>4, <1>6 DEF Idle, Commands, Imports
    <2>. QED  BY <1>3, <1>4, <1>6, <2>1, <2>2, <2>3, <2>4
  <1>. QED  BY <1>7, <1>9, <1>10, <1>12, <1>13, <1>14, <1>15 DEF CopyIInv

LEMMA ExecutorCrashKeeps == ASSUME CopyIInv, ExecutorCrash PROVE CopyIInv'
  <1>1. /\ exec # Idle /\ exec' = Idle /\ result' = "error" /\ queue' = <<>>
        /\ UNCHANGED <<contract, disk, published, edits>>
        /\ UNCHANGED <<managed, ckpt, payload, job, pc, waiting, lost, retries>>
    BY DEF ExecutorCrash, Crash, Replies, control
  <1>2. /\ ControlTyped /\ Undecided /\ ReceiptsTell /\ ImportedIs
        /\ CommandsAre /\ CheckpointIs /\ AttemptIs /\ exec'.op = "idle"
    BY <1>1 DEF CopyIInv, Idle
  <1>3. DiskTyped' /\ StepIs' /\ WriteIs' /\ UnpackIs' /\ DestinationIs'
    BY <1>1, DiskStays
  <1>4. ControlTyped' /\ ImportedIs'
    BY <1>1, <1>2 DEF ControlTyped, ImportedIs, disk
  <1>5. StillImports' => StillImports
    BY <1>1, <1>2 DEF StillImports
  <1>6. Undecided' /\ ReceiptsTell'
    BY <1>1, <1>2, <1>5 DEF Undecided, ReceiptsTell, PublicationShows, Committed, contract, disk
  <1>7. CommandsAre'
    BY <1>1, <1>2 DEF CommandsAre, Imports
  <1>8. CheckpointIs' /\ AttemptIs'
    BY <1>1, <1>2 DEF CheckpointIs, AttemptIs, Ended, contract, disk
  <1>9. AnswerIs'
    BY <1>1 DEF AnswerIs, Achieved
  <1>. QED  BY <1>3, <1>4, <1>6, <1>7, <1>8, <1>9 DEF CopyIInv

LEMMA SomeoneEditsKeeps == ASSUME CopyIInv, SomeoneEdits PROVE CopyIInv'
  <1>1. /\ dest' \in {"edited", "none"} /\ edits' = edits + 1
        /\ UNCHANGED <<kind, overwrite, original, archive, temp, meta, wrec, staging, backup,
                       urec, exec, result, published>>
        /\ UNCHANGED <<managed, ckpt, payload, job, pc, waiting, queue>>
    BY DEF SomeoneEdits, UserEdits, contract, control
  <1>2. DiskTyped' /\ ControlTyped' /\ DestinationIs'
    BY <1>1 DEF CopyIInv, DiskTyped, ControlTyped, DestinationIs
  <1>3. StepIs' /\ WriteIs' /\ UnpackIs'
    BY <1>1 DEF CopyIInv, StepIs, WriteIs, UnpackIs, At, Committed
  <1>4. Undecided' /\ ReceiptsTell' /\ ImportedIs'
    BY <1>1 DEF CopyIInv, Undecided, StillImports, ReceiptsTell, PublicationShows, Committed,
                ImportedIs
  <1>5. CommandsAre' /\ CheckpointIs' /\ AttemptIs'
    BY <1>1 DEF CopyIInv, CommandsAre, CheckpointIs, AttemptIs, Nothing, Ended
  <1>6. AnswerIs'
    BY <1>1 DEF CopyIInv, AnswerIs, Achieved, Nothing
  <1>. QED  BY <1>2, <1>3, <1>4, <1>5, <1>6 DEF CopyIInv

-----------------------------------------------------------------------------
(* Copies: the steps of Control, which leave the import alone                *)

LEMMA ControlGoesOn ==
    ASSUME CopyIInv, UNCHANGED tvars, ControlTyped', Undecided', ReceiptsTell',
           ImportedIs', CommandsAre', CheckpointIs', AttemptIs', AnswerIs'
    PROVE  CopyIInv'
  <1>1. UNCHANGED <<contract, disk, published, edits>> /\ exec' = exec
    BY DEF tvars
  <1>. QED  BY <1>1, DiskStays DEF CopyIInv

LEMMA CheckpointRecord == ASSUME ControlTyped
  PROVE  /\ NoCheckpoint \in Checkpoints /\ NoCheckpoint.step = "none"
         /\ ~NoCheckpoint.released /\ ~NoCheckpoint.abandoning
         /\ \A s \in {"exported", "importing", "imported"} :
              /\ AtStep(s) \in Checkpoints /\ AtStep(s).step = s
              /\ AtStep(s).released = ckpt.released /\ AtStep(s).abandoning = ckpt.abandoning
         /\ [ckpt EXCEPT !.abandoning = TRUE] \in Checkpoints
         /\ [ckpt EXCEPT !.abandoning = TRUE].abandoning
         /\ [ckpt EXCEPT !.abandoning = TRUE].step = ckpt.step
         /\ [ckpt EXCEPT !.abandoning = TRUE].released = ckpt.released
         /\ \A b \in BOOLEAN :
              /\ [ckpt EXCEPT !.released = b] \in Checkpoints
              /\ [ckpt EXCEPT !.released = b].released = b
              /\ [ckpt EXCEPT !.released = b].step = ckpt.step
              /\ [ckpt EXCEPT !.released = b].abandoning = ckpt.abandoning
  BY DEF ControlTyped, Checkpoints, NoCheckpoint, AtStep

\* What Control has before it at any step.
LEMMA ControlKnows == ASSUME CopyIInv, UNCHANGED tvars
  PROVE  /\ ControlTyped /\ Undecided /\ ReceiptsTell /\ ImportedIs
         /\ CommandsAre /\ CheckpointIs /\ AttemptIs /\ AnswerIs
         /\ UNCHANGED <<kind, original, dest, archive, temp, meta, wrec, staging, backup, urec,
                        exec, result, published, edits>>
         /\ job = "running" => ~Ended /\ ~ckpt.abandoning /\ StillImports /\ ~ckpt.released
         /\ pc \in {"idle", "abandon"} <=> job # "running"
  BY DEF CopyIInv, tvars, contract, disk, CheckpointIs, AttemptIs, Ended, StillImports,
         ControlTyped

LEMMA AttemptStartsKeeps == ASSUME CopyIInv, AttemptStarts PROVE CopyIInv'
  <1>1. /\ job = "running" /\ pc = "start" /\ UNCHANGED tvars
        /\ UNCHANGED <<managed, waiting, queue>>
    BY DEF AttemptStarts
  <1>2. /\ ControlTyped /\ Undecided /\ ReceiptsTell /\ ImportedIs
        /\ CommandsAre /\ CheckpointIs /\ AttemptIs /\ AnswerIs
        /\ UNCHANGED <<kind, original, dest, archive, temp, meta, wrec, staging, backup, urec,
                       exec, result, published, edits>>
        /\ ~Ended /\ ~ckpt.abandoning /\ StillImports /\ ~ckpt.released
    BY <1>1, ControlKnows
  <1>3. ~waiting
    BY <1>1, <1>2 DEF AttemptIs, Command
  <1>4. CASE ckpt.step = "none" /\ ckpt' = AtStep("exported") /\ payload'
             /\ UNCHANGED <<job, pc>>
    <2>1. /\ exec = Idle /\ queue = <<>> /\ Nothing /\ published = 0
          /\ ckpt' \in Checkpoints /\ ckpt'.step = "exported"
          /\ ~ckpt'.abandoning /\ ~ckpt'.released
      BY <1>2, <1>4, CheckpointRecord DEF CommandsAre, CheckpointIs
    <2>2. wrec = NoWrite /\ wrec.status = "none" /\ wrec.leaving = "none"
      BY <2>1, RecordUpdates DEF Nothing, CopyIInv
    <2>3. urec = NoUnpack /\ urec.status = "none" /\ urec.leaving = "none"
      BY <2>1, RecordUpdates DEF Nothing, CopyIInv
    <2>4. ControlTyped' /\ Undecided' /\ ReceiptsTell' /\ ImportedIs'
      BY <1>1, <1>2, <1>4, <2>1, <2>2, <2>3
         DEF ControlTyped, Undecided, ReceiptsTell, PublicationShows, Committed, ImportedIs
    <2>5. CommandsAre'
      BY <1>1, <1>2, <2>1, RecordUpdates DEF CommandsAre, Nothing, CopyIInv
    <2>6. CheckpointIs' /\ AttemptIs' /\ AnswerIs'
      BY <1>1, <1>2, <1>3, <1>4, <2>1 DEF CheckpointIs, AttemptIs, AnswerIs, Importing
    <2>. QED  BY <1>1, <2>4, <2>5, <2>6, ControlGoesOn
  <1>5. CASE AttemptEnds("failed") /\ UNCHANGED <<ckpt, payload>>
    <2>1. job' = "failed" /\ pc' = "idle"
      BY <1>5 DEF AttemptEnds
    <2>2. ControlTyped' /\ Undecided' /\ ReceiptsTell' /\ ImportedIs' /\ CommandsAre'
      BY <1>1, <1>2, <1>5, <2>1
         DEF ControlTyped, Undecided, StillImports, ReceiptsTell, PublicationShows, Committed,
             ImportedIs, CommandsAre, Nothing
    <2>3. CheckpointIs' /\ AttemptIs' /\ AnswerIs'
      BY <1>1, <1>2, <1>3, <1>5, <2>1
         DEF CheckpointIs, AttemptIs, AnswerIs, Importing, Ended, Nothing
    <2>. QED  BY <1>1, <2>2, <2>3, ControlGoesOn
  <1>6. CASE /\ ckpt.step \in {"exported", "importing"}
             /\ ckpt' = AtStep("importing") /\ pc' = "begin" /\ UNCHANGED <<payload, job>>
    <2>1. /\ ckpt' \in Checkpoints /\ ckpt'.step = "importing"
          /\ ~ckpt'.abandoning /\ ~ckpt'.released
      BY <1>2, <1>6, CheckpointRecord
    <2>2. /\ exec.op # "release" /\ \A i \in DOMAIN queue : queue[i] # "release"
      BY <1>2, <1>6, RecordUpdates DEF CommandsAre, CopyIInv
    <2>3. ControlTyped' /\ Undecided' /\ ReceiptsTell' /\ ImportedIs'
      BY <1>1, <1>2, <1>6, <2>1
         DEF ControlTyped, Command, Undecided, ReceiptsTell, PublicationShows, Committed,
             ImportedIs
    <2>4. CommandsAre'
      BY <1>1, <1>2, <2>1, <2>2 DEF CommandsAre
    <2>5. CheckpointIs' /\ AttemptIs' /\ AnswerIs'
      BY <1>1, <1>2, <1>3, <1>6, <2>1 DEF CheckpointIs, AttemptIs, AnswerIs, Importing, Ended
    <2>. QED  BY <1>1, <2>3, <2>4, <2>5, ControlGoesOn
  <1>7. CASE /\ ckpt.step = "imported" /\ UNCHANGED <<ckpt, payload>>
             /\ (pc' = "release" /\ UNCHANGED job) \/ (pc' = "idle" /\ job' = "succeeded")
    <2>1. ControlTyped' /\ Undecided' /\ ReceiptsTell' /\ ImportedIs' /\ CommandsAre'
      BY <1>1, <1>2, <1>7
         DEF ControlTyped, Command, Undecided, StillImports, ReceiptsTell, ImportedIs,
             CommandsAre
    <2>2. CheckpointIs' /\ AttemptIs' /\ AnswerIs'
      BY <1>1, <1>2, <1>3, <1>7
         DEF CheckpointIs, AttemptIs, AnswerIs, ImportedIs, Importing, Ended
    <2>. QED  BY <1>1, <2>1, <2>2, ControlGoesOn
  <1>. QED  BY <1>4, <1>5, <1>6, <1>7 DEF AttemptStarts, AttemptEnds

LEMMA CallsKeeps == ASSUME CopyIInv, Calls PROVE CopyIInv'
  <1>1. /\ pc \in DOMAIN Command /\ ~waiting /\ waiting' = TRUE /\ UNCHANGED tvars
        /\ queue' = Append(queue, Command[pc])
        /\ UNCHANGED <<managed, ckpt, payload, job, pc>>
    BY DEF Calls
  <1>2. /\ ControlTyped /\ Undecided /\ ReceiptsTell /\ ImportedIs
        /\ CommandsAre /\ CheckpointIs /\ AttemptIs /\ AnswerIs
        /\ UNCHANGED <<kind, original, dest, archive, temp, meta, wrec, staging, backup, urec,
                       exec, result, published, edits>>
        /\ job = "running" => ~Ended /\ ~ckpt.abandoning /\ StillImports /\ ~ckpt.released
        /\ pc \in {"idle", "abandon"} <=> job # "running"
    BY <1>1, ControlKnows
  <1>3. PICK op : op = Command[pc]
    OBVIOUS
  <1>4. /\ op \in Commands
        /\ op = "abandon" <=> pc = "abandon"
        /\ op = "release" <=> pc = "release"
        /\ op = "unpack" <=> pc \in {"unpack", "reunpack"}
        /\ op \in Imports => pc \in Importing
    BY <1>1, <1>3 DEF Command, Commands, Imports, Importing
  <1>5. /\ queue' \in Seq(Commands) /\ queue' # <<>> /\ queue'[Len(queue')] = op
        /\ Len(queue) \in Nat /\ DOMAIN queue = 1..Len(queue)
        /\ DOMAIN queue' = 1..Len(queue) + 1 /\ queue'[Len(queue) + 1] = op
        /\ \A i \in DOMAIN queue : queue'[i] = queue[i]
    BY <1>1, <1>2, <1>3, <1>4 DEF ControlTyped
  <1>6. StillImports' => StillImports
    <2>1. ckpt.abandoning => op = "abandon"
      BY <1>1, <1>2, <1>4 DEF Command
    <2>2. \A i \in DOMAIN queue' : i \in DOMAIN queue \/ queue'[i] = op
      BY <1>5
    <2>. QED  BY <1>1, <1>2, <1>5, <2>1, <2>2 DEF StillImports
  <1>7. ControlTyped' /\ Undecided' /\ ReceiptsTell' /\ ImportedIs'
    BY <1>1, <1>2, <1>5, <1>6
       DEF ControlTyped, Undecided, ReceiptsTell, PublicationShows, Committed, ImportedIs
  <1>8. CommandsAre'
    <2>1. ckpt.step \notin {"none", "exported"}
      BY <1>1, <1>2, <1>4 DEF AttemptIs, Command, Importing
    <2>2. op = "release" => ckpt.step = "imported"
      BY <1>2, <1>4 DEF AttemptIs
    <2>3. op \in Imports => ckpt.step = "importing" /\ ~ckpt.abandoning
      BY <1>2, <1>4 DEF AttemptIs, Importing
    <2>4. op = "abandon" => ckpt.abandoning
      BY <1>2, <1>4 DEF AttemptIs
    <2>5. op # "abandon" => ~ckpt.abandoning
      BY <1>1, <1>2, <1>4 DEF AttemptIs, Command
    <2>6. op = "unpack" => kind = "dir"
      BY <1>2, <1>4 DEF AttemptIs
    <2>7. \A i \in DOMAIN queue' : i \in DOMAIN queue \/ queue'[i] = op
      BY <1>5
    <2>8. /\ op = "abandon"
          \/ (exec.op # "abandon" /\ \A i \in DOMAIN queue : queue[i] # "abandon")
      BY <1>2, <2>5 DEF CommandsAre
    <2>9. ASSUME NEW i \in DOMAIN queue', NEW j \in DOMAIN queue', i < j, queue'[i] = "abandon"
          PROVE  queue'[j] = "abandon"
      <3>1. i \in DOMAIN queue
        BY <1>5, <2>9
      <3>. QED  BY <1>2, <1>5, <2>7, <2>8, <2>9, <3>1 DEF CommandsAre
    <2>10. /\ ckpt.step = "importing" =>
               exec.op # "release" /\ \A i \in DOMAIN queue' : queue'[i] # "release"
           /\ ckpt.step = "imported" =>
               exec.op \notin Imports /\ \A i \in DOMAIN queue' : queue'[i] \notin Imports
      BY <1>2, <1>5, <2>2, <2>3, <2>7 DEF CommandsAre
    <2>11. /\ ~ckpt.abandoning =>
               exec.op # "abandon" /\ \A i \in DOMAIN queue' : queue'[i] # "abandon"
           /\ exec.op = "abandon" => \A i \in DOMAIN queue' : queue'[i] = "abandon"
           /\ kind = "file" => \A i \in DOMAIN queue' : queue'[i] # "unpack"
      BY <1>2, <1>5, <2>4, <2>6, <2>7, <2>8 DEF CommandsAre
    <2>. QED  BY <1>1, <1>2, <2>1, <2>9, <2>10, <2>11 DEF CommandsAre
  <1>9. CheckpointIs' /\ AttemptIs'
    <2>1. pc # "record" /\ (pc = "abandon" => ~ckpt.released) /\ ~ckpt.released
      BY <1>1, <1>2 DEF AttemptIs, Command
    <2>. QED  BY <1>1, <1>2, <2>1 DEF CheckpointIs, AttemptIs, Ended, Nothing
  <1>10. AnswerIs'
    BY <1>1, <1>3, <1>5 DEF AnswerIs
  <1>. QED  BY <1>1, <1>7, <1>8, <1>9, <1>10, ControlGoesOn

\* Calls that are withdrawn or lost leave the others in their order.
LEMMA QueueShrinks ==
    ASSUME ControlTyped, CommandsAre,
           \/ queue' \in {queue, <<>>}
           \/ queue # <<>> /\ queue' = SubSeq(queue, 1, Len(queue) - 1)
    PROVE  /\ queue' \in Seq(Commands)
           /\ \A i \in DOMAIN queue' : i \in DOMAIN queue /\ queue'[i] = queue[i]
           /\ \A i, j \in DOMAIN queue' : i < j /\ queue'[i] = "abandon"
              => queue'[j] = "abandon"
           /\ queue = <<>> => queue' = <<>>
  <1>1. queue \in Seq(Commands)
    BY DEF ControlTyped
  <1>2. /\ queue' \in Seq(Commands)
        /\ queue = <<>> => queue' = <<>>
        /\ \A i \in DOMAIN queue' : i \in DOMAIN queue /\ queue'[i] = queue[i]
    <2>1. CASE queue' = <<>>
      BY <2>1
    <2>3. CASE queue' = queue
      BY <1>1, <2>3
    <2>2. CASE queue # <<>> /\ queue' = SubSeq(queue, 1, Len(queue) - 1)
      <3>1. Len(queue) \in Nat \ {0}
        BY <1>1, <2>2
      <3>2. queue' \in Seq(Commands) /\ Len(queue') = Len(queue) - 1
        <4>1. \A i \in 1..Len(queue) - 1 : queue[i] \in Commands
          BY <1>1, <3>1
        <4>2. PICK n \in Nat : n = Len(queue) - 1
          BY <3>1
        <4>3. /\ SubSeq(queue, 1, n) \in Seq(Commands)
              /\ Len(SubSeq(queue, 1, n)) = IF 1 <= n THEN n - 1 + 1 ELSE 0
          BY <4>1, <4>2, SubSeqProperties
        <4>. QED  BY <2>2, <4>2, <4>3
      <3>3. \A i \in 1..Len(queue') : i \in 1..Len(queue) /\ queue'[i] = queue[i]
        <4>. SUFFICES ASSUME NEW i \in 1..Len(queue')
                      PROVE  i \in 1..Len(queue) /\ queue'[i] = queue[i]
          OBVIOUS
        <4>1. i \in 1..Len(queue) /\ i <= Len(queue) - 1
          BY <3>1, <3>2
        <4>. QED  BY <1>1, <2>2, <3>1, <4>1
      <3>. QED  BY <1>1, <2>2, <3>2, <3>3
    <2>. QED  BY <2>1, <2>2, <2>3
  <1>. QED  BY <1>2 DEF CommandsAre

LEMMA OutcomeKeeps ==
    ASSUME CopyIInv, NEW r, Outcome(r), UNCHANGED <<tvars, managed, payload>>,
           \/ queue' \in {queue, <<>>}
           \/ queue # <<>> /\ queue' = SubSeq(queue, 1, Len(queue) - 1),
           r = "error" \/ (r = result /\ exec = Idle /\ queue = <<>>)
    PROVE  CopyIInv'
  <1>1. /\ waiting /\ waiting' = FALSE /\ UNCHANGED tvars
        /\ UNCHANGED <<managed, payload>>
    BY DEF Outcome
  <1>2. /\ ControlTyped /\ Undecided /\ ReceiptsTell /\ ImportedIs
        /\ CommandsAre /\ CheckpointIs /\ AttemptIs /\ AnswerIs
        /\ UNCHANGED <<kind, original, dest, archive, temp, meta, wrec, staging, backup, urec,
                       exec, result, published, edits>>
        /\ job = "running" => ~Ended /\ ~ckpt.abandoning /\ StillImports /\ ~ckpt.released
        /\ pc \in {"idle", "abandon"} <=> job # "running"
    BY <1>1, ControlKnows
  <1>3. /\ queue' \in Seq(Commands)
        /\ \A i \in DOMAIN queue' : i \in DOMAIN queue /\ queue'[i] = queue[i]
        /\ \A i, j \in DOMAIN queue' : i < j /\ queue'[i] = "abandon" => queue'[j] = "abandon"
        /\ queue = <<>> => queue' = <<>>
    BY <1>2, QueueShrinks
  <1>4. StillImports' /\ ckpt' = ckpt => StillImports
    BY <1>2, <1>3 DEF StillImports
  <1>5. pc \in DOMAIN Command
    BY <1>1, <1>2 DEF AttemptIs
  <1>6. r # "error" => Achieved(Command[pc]) /\ exec = Idle /\ queue = <<>> /\ r = result
    BY <1>1, <1>2 DEF AnswerIs
  <1>7. AnswerIs'
    BY <1>1 DEF AnswerIs
  <1>8. CommandsAre' \/ ckpt'.step # ckpt.step \/ ckpt'.abandoning # ckpt.abandoning
    BY <1>1, <1>2, <1>3 DEF CommandsAre, Nothing
  <1>9. CASE pc \in Importing
    <2>1. /\ ckpt.step = "importing" /\ job = "running" /\ PublicationShows
          /\ ~ckpt.abandoning /\ ~ckpt.released
      BY <1>2, <1>9 DEF AttemptIs, Importing, ReceiptsTell
    <2>2. /\ UNCHANGED ckpt
          /\ \/ pc' = "idle" /\ job' = "failed"
             \/ /\ job' = "running" /\ pc' \in {"download", "finish", "again"}
             \/ /\ job' = "running" /\ pc' = "reunpack" /\ pc = "unpack"
             \/ /\ job' = "running" /\ pc' = "unpack" /\ kind = "dir" /\ r # "error"
                /\ \/ pc \in {"begin", "again"} /\ r = "completed"
                   \/ pc = "finish" /\ r = "ok"
             \/ /\ job' = "running" /\ pc' = "record" /\ r # "error"
                /\ \/ kind = "file" /\ pc \in {"begin", "again"} /\ r = "completed"
                   \/ kind = "file" /\ pc = "finish" /\ r = "ok"
                   \/ pc \in {"unpack", "reunpack"} /\ r = "ok"
      BY <1>5, <1>9, <2>1, CopyIInv
         DEF Outcome, Importing, Command, GoOn, Written, AttemptEnds, CopyIInv, DiskTyped
    <2>3. ControlTyped'
      BY <1>1, <1>2, <1>3, <2>2 DEF ControlTyped, Command
    <2>4. Undecided' /\ ReceiptsTell' /\ ImportedIs' /\ CommandsAre'
      BY <1>2, <1>4, <1>8, <2>2
         DEF Undecided, ReceiptsTell, PublicationShows, Committed, ImportedIs
    <2>5. CheckpointIs'
      BY <1>1, <1>2, <2>1, <2>2 DEF CheckpointIs, Ended
    <2>6. pc' \in {"unpack", "reunpack"} => kind = "dir" /\ wrec.status = "completed"
      BY <1>2, <1>6, <2>2 DEF AttemptIs, Achieved, Command
    <2>7. pc' = "record" =>
            /\ exec = Idle /\ queue' = <<>> /\ published = 1
            /\ wrec.status = "completed" /\ urec.status \in {"none", "completed"}
      <3>. SUFFICES ASSUME pc' = "record"
                    PROVE  /\ published = 1 /\ wrec.status = "completed"
                           /\ urec.status \in {"none", "completed"}
        BY <1>3, <1>6, <2>2
      <3>1. CASE kind = "file"
        <4>1. wrec.status = "completed"
          BY <1>2, <1>6, <2>2, <3>1 DEF AttemptIs, Achieved, Command
        <4>2. urec.status = "none"
          BY <3>1, RecordUpdates DEF CopyIInv, UnpackIs
        <4>. QED  BY <2>1, <3>1, <4>1, <4>2 DEF PublicationShows, Committed
      <3>2. CASE kind # "file"
        BY <1>2, <1>6, <2>2, <3>2 DEF AttemptIs, Achieved, Command
      <3>. QED  BY <3>1, <3>2
    <2>8. AttemptIs'
      BY <1>1, <1>2, <2>1, <2>2, <2>6, <2>7 DEF AttemptIs, Command, Importing
    <2>. QED  BY <1>1, <1>7, <2>3, <2>4, <2>5, <2>8, ControlGoesOn
  <1>10. CASE pc = "release"
    <2>1. /\ job' = "succeeded" /\ pc' = "idle" /\ job = "running"
          /\ ckpt' = [ckpt EXCEPT !.released = (r = "ok")]
      BY <1>2, <1>10 DEF Outcome, AttemptEnds
    <2>2. /\ ckpt' \in Checkpoints /\ ckpt'.released = (r = "ok")
          /\ ckpt'.step = "imported" /\ ckpt.step = "imported" /\ ~ckpt'.abandoning
          /\ ~ckpt.abandoning
      BY <1>2, <1>10, <2>1, CheckpointRecord DEF AttemptIs
    <2>3. ControlTyped'
      BY <1>1, <1>2, <1>3, <2>1, <2>2 DEF ControlTyped
    <2>4. Undecided' /\ ReceiptsTell' /\ ImportedIs' /\ CommandsAre'
      BY <1>2, <1>8, <2>1, <2>2 DEF Undecided, ReceiptsTell, ImportedIs
    <2>5. r = "ok" => exec = Idle /\ queue' = <<>> /\ Nothing
      BY <1>3, <1>6, <1>10 DEF Achieved, Command
    <2>6. CheckpointIs'
      <3>1. published = 1 /\ payload
        BY <1>2, <2>2 DEF ImportedIs, CheckpointIs
      <3>2. ckpt'.released => exec' = Idle /\ queue' = <<>> /\ Nothing'
        BY <1>2, <2>2, <2>5 DEF Nothing
      <3>. QED  BY <1>1, <1>2, <2>1, <2>2, <3>1, <3>2 DEF CheckpointIs
    <2>7. AttemptIs'
      BY <1>1, <2>1 DEF AttemptIs, Importing
    <2>. QED  BY <1>1, <1>7, <2>3, <2>4, <2>6, <2>7, ControlGoesOn
  <1>11. CASE pc = "abandon"
    <2>1. /\ pc' = "idle" /\ job' = job /\ ckpt' = IF r = "ok" THEN NoCheckpoint ELSE ckpt
      BY <1>11 DEF Outcome
    <2>2. /\ ckpt' \in Checkpoints /\ job # "running" /\ ckpt.abandoning /\ Ended
          /\ ckpt.step # "none" /\ ~ckpt.released
      BY <1>2, <1>11, <2>1, CheckpointRecord DEF AttemptIs, CheckpointIs, ControlTyped
    <2>3. ControlTyped'
      BY <1>1, <1>2, <1>3, <2>1, <2>2 DEF ControlTyped
    <2>4. CASE r # "ok"
      <3>1. Undecided' /\ ReceiptsTell' /\ ImportedIs' /\ CommandsAre'
        BY <1>2, <1>4, <1>8, <2>1, <2>4
           DEF Undecided, ReceiptsTell, PublicationShows, Committed, ImportedIs
      <3>2. CheckpointIs' /\ AttemptIs'
        BY <1>1, <1>2, <2>1, <2>2, <2>4 DEF CheckpointIs, AttemptIs, Importing, Ended
      <3>. QED  BY <1>1, <1>7, <2>3, <3>1, <3>2, ControlGoesOn
    <2>5. CASE r = "ok"
      <3>1. /\ exec = Idle /\ queue' = <<>> /\ Nothing
            /\ ckpt'.step = "none" /\ ~ckpt'.abandoning /\ ~ckpt'.released
        BY <1>2, <1>3, <1>6, <1>11, <2>1, <2>5, CheckpointRecord DEF Achieved, Command
      <3>2. wrec.leaving = "none" /\ urec.leaving = "none"
        BY <3>1, RecordUpdates DEF Nothing, CopyIInv
      <3>3. exec.op = "idle"
        BY <3>1, RecordUpdates DEF CopyIInv
      <3>4. Undecided' /\ ReceiptsTell' /\ ImportedIs' /\ CommandsAre'
        BY <1>2, <3>1, <3>2, <3>3 DEF Undecided, ReceiptsTell, ImportedIs, CommandsAre, Nothing
      <3>5. CheckpointIs' /\ AttemptIs'
        BY <1>1, <1>2, <2>1, <2>2, <3>1 DEF CheckpointIs, AttemptIs, Importing, Ended
      <3>. QED  BY <1>1, <1>7, <2>3, <3>4, <3>5, ControlGoesOn
    <2>. QED  BY <2>4, <2>5
  <1>. QED  BY <1>5, <1>9, <1>10, <1>11 DEF Command, Importing

LEMMA HearsKeeps == ASSUME CopyIInv, Hears \/ LosesAnswer PROVE CopyIInv'
  <1>1. CASE Hears
    BY <1>1, OutcomeKeeps DEF Hears
  <1>2. CASE LosesAnswer
    BY <1>2, OutcomeKeeps DEF LosesAnswer
  <1>. QED  BY <1>1, <1>2

LEMMA RecordsKeeps == ASSUME CopyIInv, Records PROVE CopyIInv'
  <1>1. /\ pc = "record" /\ pc' = "release" /\ ckpt' = AtStep("imported") /\ UNCHANGED tvars
        /\ UNCHANGED <<managed, payload, job, waiting, queue>>
    BY DEF Records
  <1>2. /\ ControlTyped /\ Undecided /\ ReceiptsTell /\ ImportedIs
        /\ CommandsAre /\ CheckpointIs /\ AttemptIs /\ AnswerIs
        /\ UNCHANGED <<kind, original, dest, archive, temp, meta, wrec, staging, backup, urec,
                       exec, result, published, edits>>
        /\ job = "running" => ~Ended /\ ~ckpt.abandoning /\ StillImports /\ ~ckpt.released
        /\ pc \in {"idle", "abandon"} <=> job # "running"
    BY <1>1, ControlKnows
  <1>3. /\ exec = Idle /\ queue = <<>> /\ published = 1 /\ ~waiting /\ job = "running"
        /\ wrec.status = "completed" /\ urec.status \in {"none", "completed"}
        /\ ckpt.step = "importing"
    BY <1>1, <1>2 DEF AttemptIs, Command, Importing
  <1>4. /\ ckpt' \in Checkpoints /\ ckpt'.step = "imported"
        /\ ~ckpt'.abandoning /\ ~ckpt'.released
    BY <1>1, <1>2, <1>3, CheckpointRecord
  <1>5. temp = "none" /\ ~meta /\ exec.op = "idle"
    BY <1>3, RecordUpdates DEF CopyIInv, WriteIs
  <1>6. ControlTyped' /\ Undecided' /\ ReceiptsTell' /\ ImportedIs'
    BY <1>1, <1>2, <1>3, <1>4, <1>5
       DEF ControlTyped, Command, Undecided, ReceiptsTell, ImportedIs
  <1>7. CommandsAre'
    BY <1>1, <1>2, <1>3, <1>4, <1>5 DEF CommandsAre, Imports
  <1>8. CheckpointIs' /\ AttemptIs' /\ AnswerIs'
    BY <1>1, <1>2, <1>3, <1>4 DEF CheckpointIs, AttemptIs, AnswerIs, Importing
  <1>. QED  BY <1>1, <1>6, <1>7, <1>8, ControlGoesOn

\* The job ends or is taken up again: neither the checkpoint nor the import changes.
LEMMA JobChanges ==
    ASSUME CopyIInv, UNCHANGED <<tvars, managed, ckpt, payload>>, waiting' = FALSE,
           queue' \in {queue, <<>>},
           \/ job' = job /\ job # "running" /\ pc' = "idle"
           \/ job = "running" /\ job' = "failed" /\ pc' = "idle"
           \/ managed /\ job = "failed" /\ job' = "deleted" /\ UNCHANGED pc
           \/ /\ managed /\ job = "failed" /\ ~ckpt.abandoning
              /\ job' = "running" /\ pc' = "start"
    PROVE  CopyIInv'
  <1>1. /\ ControlTyped /\ Undecided /\ ReceiptsTell /\ ImportedIs
        /\ CommandsAre /\ CheckpointIs /\ AttemptIs /\ AnswerIs
        /\ UNCHANGED <<kind, original, dest, archive, temp, meta, wrec, staging, backup, urec,
                       exec, result, published, edits>>
        /\ UNCHANGED <<managed, ckpt, payload>>
        /\ job = "running" => ~Ended /\ ~ckpt.abandoning /\ StillImports /\ ~ckpt.released
        /\ pc \in {"idle", "abandon"} <=> job # "running"
    BY ControlKnows
  <1>2. /\ queue' \in Seq(Commands)
        /\ \A i \in DOMAIN queue' : i \in DOMAIN queue /\ queue'[i] = queue[i]
        /\ \A i, j \in DOMAIN queue' : i < j /\ queue'[i] = "abandon" => queue'[j] = "abandon"
        /\ queue = <<>> => queue' = <<>>
    BY <1>1, QueueShrinks
  <1>3. StillImports' => StillImports
    BY <1>1, <1>2 DEF StillImports
  <1>4. ControlTyped'
    BY <1>1, <1>2 DEF ControlTyped
  <1>8. Undecided' /\ ReceiptsTell' /\ ImportedIs'
    BY <1>1, <1>3
       DEF Undecided, ReceiptsTell, PublicationShows, Committed, ImportedIs
  <1>5. CommandsAre' /\ AnswerIs'
    BY <1>1, <1>2 DEF CommandsAre, Nothing, AnswerIs
  <1>6. CheckpointIs'
    BY <1>1, <1>2 DEF CheckpointIs, Ended, Nothing
  <1>7. AttemptIs'
    BY <1>1 DEF AttemptIs, Importing
  <1>. QED  BY <1>4, <1>5, <1>6, <1>7, <1>8, ControlGoesOn

LEMMA JobKeeps == ASSUME CopyIInv, Cancel \/ Retry \/ Delete \/ ControlCrash PROVE CopyIInv'
  <1>1. ControlTyped /\ AttemptIs
    BY DEF CopyIInv
  <1>2. CASE Cancel
    BY <1>2, JobChanges DEF Cancel, AttemptEnds
  <1>3. CASE Retry
    <2>1. pc = "idle" /\ waiting = FALSE
      BY <1>1, <1>3 DEF Retry, AttemptIs, Command, ControlTyped
    <2>. QED  BY <1>3, <2>1, JobChanges DEF Retry
  <1>4. CASE Delete
    <2>1. CASE waiting = FALSE
      BY <1>4, <2>1, JobChanges DEF Delete
    <2>2. CASE waiting
      <3>1. ckpt.abandoning /\ Ended
        BY <1>1, <1>4, <2>2 DEF Delete, AttemptIs, Command, CopyIInv, CheckpointIs
      <3>. QED  BY <1>4, <3>1 DEF Delete, Ended
    <2>. QED  BY <1>1, <2>1, <2>2 DEF ControlTyped
  <1>5. CASE ControlCrash
    <2>1. (job' = job /\ job # "running") \/ (job = "running" /\ job' = "failed")
      BY <1>5 DEF ControlCrash
    <2>. QED  BY <1>5, <2>1, JobChanges DEF ControlCrash
  <1>. QED  BY <1>2, <1>3, <1>4, <1>5

LEMMA AbandonKeeps == ASSUME CopyIInv, Abandon PROVE CopyIInv'
  <1>1. /\ Ended /\ ckpt.step # "none" /\ ~ckpt.abandoning
        /\ ckpt' = [ckpt EXCEPT !.abandoning = TRUE] /\ UNCHANGED tvars
        /\ UNCHANGED <<managed, payload, job, pc, waiting, queue>>
    BY DEF Abandon
  <1>2. /\ ControlTyped /\ Undecided /\ ReceiptsTell /\ ImportedIs
        /\ CommandsAre /\ CheckpointIs /\ AttemptIs /\ AnswerIs
        /\ UNCHANGED <<kind, original, dest, archive, temp, meta, wrec, staging, backup, urec,
                       exec, result, published, edits>>
    BY <1>1, ControlKnows
  <1>3. /\ ckpt' \in Checkpoints /\ ckpt'.step = ckpt.step /\ ckpt'.abandoning
        /\ ckpt'.released = ckpt.released
    BY <1>1, <1>2, CheckpointRecord
  <1>4. ControlTyped' /\ Undecided' /\ ReceiptsTell' /\ ImportedIs'
    BY <1>1, <1>2, <1>3
       DEF ControlTyped, Undecided, StillImports, ReceiptsTell, PublicationShows, Committed,
           ImportedIs
  <1>5. CommandsAre' /\ AnswerIs'
    BY <1>1, <1>2, <1>3 DEF CommandsAre, Nothing, AnswerIs, Achieved
  <1>6. CheckpointIs' /\ AttemptIs'
    BY <1>1, <1>2, <1>3 DEF CheckpointIs, AttemptIs, Ended, Nothing
  <1>. QED  BY <1>1, <1>4, <1>5, <1>6, ControlGoesOn

LEMMA PruneKeeps == ASSUME CopyIInv, Prune PROVE CopyIInv'
  <1>1. /\ ckpt.abandoning \/ ckpt.step = "none"
        /\ payload' = FALSE /\ UNCHANGED tvars
        /\ UNCHANGED <<managed, ckpt, job, pc, waiting, queue>>
    BY DEF Prune
  <1>2. /\ ControlTyped /\ Undecided /\ ReceiptsTell /\ ImportedIs
        /\ CommandsAre /\ CheckpointIs /\ AttemptIs /\ AnswerIs
        /\ UNCHANGED <<kind, original, dest, archive, temp, meta, wrec, staging, backup, urec,
                       exec, result, published, edits>>
    BY <1>1, ControlKnows
  <1>3. ControlTyped' /\ Undecided' /\ ReceiptsTell' /\ ImportedIs'
    BY <1>1, <1>2, ZenonT(60)
       DEF ControlTyped, Undecided, StillImports, ReceiptsTell, PublicationShows, Committed,
           ImportedIs
  <1>4. CommandsAre' /\ AnswerIs'
    BY <1>1, <1>2 DEF CommandsAre, Nothing, AnswerIs, Achieved
  <1>5. CheckpointIs' /\ AttemptIs'
    BY <1>1, <1>2 DEF CheckpointIs, AttemptIs, Ended, Nothing
  <1>. QED  BY <1>1, <1>3, <1>4, <1>5, ControlGoesOn

LEMMA ReconcileKeeps == ASSUME CopyIInv, Reconcile PROVE CopyIInv'
  <1>1. /\ ckpt.abandoning /\ pc = "idle" /\ UNCHANGED tvars
        /\ UNCHANGED <<managed, payload, job, waiting, queue>>
    BY DEF Reconcile
  <1>2. /\ ControlTyped /\ Undecided /\ ReceiptsTell /\ ImportedIs
        /\ CommandsAre /\ CheckpointIs /\ AttemptIs /\ AnswerIs
        /\ UNCHANGED <<kind, original, dest, archive, temp, meta, wrec, staging, backup, urec,
                       exec, result, published, edits>>
    BY <1>1, ControlKnows
  <1>3. ~waiting /\ job # "running" /\ Ended /\ ckpt.step # "none"
    BY <1>1, <1>2 DEF AttemptIs, CheckpointIs, Command
  <1>4. CASE /\ ckpt.step = "exported" \/ ckpt.released
             /\ ckpt' = NoCheckpoint /\ UNCHANGED pc
    <2>1. exec = Idle /\ queue = <<>> /\ Nothing
      BY <1>2, <1>4 DEF CommandsAre, CheckpointIs
    <2>2. /\ ckpt' \in Checkpoints /\ ckpt'.step = "none"
          /\ ~ckpt'.abandoning /\ ~ckpt'.released
      BY <1>2, <1>4, CheckpointRecord
    <2>3. wrec.leaving = "none" /\ urec.leaving = "none" /\ exec.op = "idle"
      BY <2>1, RecordUpdates DEF Nothing, CopyIInv
    <2>4. ControlTyped' /\ Undecided' /\ ReceiptsTell' /\ ImportedIs'
      BY <1>1, <1>2, <1>4, <2>2, <2>3
         DEF ControlTyped, Undecided, ReceiptsTell, ImportedIs
    <2>5. CommandsAre' /\ AnswerIs'
      BY <1>1, <1>2, <1>3, <2>1, <2>2, <2>3 DEF CommandsAre, Nothing, AnswerIs
    <2>6. CheckpointIs' /\ AttemptIs'
      BY <1>1, <1>2, <1>3, <1>4, <2>2 DEF CheckpointIs, AttemptIs, Ended, Importing
    <2>. QED  BY <1>1, <2>4, <2>5, <2>6, ControlGoesOn
  <1>5. CASE /\ ~(ckpt.step = "exported" \/ ckpt.released)
             /\ pc' = "abandon" /\ UNCHANGED ckpt
    <2>1. ControlTyped' /\ Undecided' /\ ReceiptsTell' /\ ImportedIs'
      BY <1>1, <1>2, <1>5
         DEF ControlTyped, Command, Undecided, StillImports, ReceiptsTell, PublicationShows,
             Committed, ImportedIs
    <2>2. CommandsAre' /\ AnswerIs'
      BY <1>1, <1>2, <1>3, <1>5 DEF CommandsAre, Nothing, AnswerIs
    <2>3. CheckpointIs' /\ AttemptIs'
      BY <1>1, <1>2, <1>3, <1>5
         DEF CheckpointIs, AttemptIs, Ended, Importing, Nothing, ControlTyped, Checkpoints
    <2>. QED  BY <1>1, <2>1, <2>2, <2>3, ControlGoesOn
  <1>. QED  BY <1>4, <1>5 DEF Reconcile

-----------------------------------------------------------------------------
(* Copies: the theorem                                                       *)

LEMMA CopyStarts == CopyInit => CopyIInv
  <1>. SUFFICES ASSUME CopyInit PROVE CopyIInv
    OBVIOUS
  <1>. USE DEF CopyInit, TransferInit, NoWrite, NoUnpack, NoCheckpoint, Idle
  <1>1. DiskTyped
    <2>1. wrec \in WriteRecords /\ urec \in UnpackRecords /\ exec \in ExecRecords
      BY DEF WriteRecords, UnpackRecords, ExecRecords
    <2>2. archive \in BOOLEAN /\ meta \in BOOLEAN
      OBVIOUS
    <2>. QED  BY <2>1, <2>2 DEF DiskTyped
  <1>5. ControlTyped
    <2>1. payload \in BOOLEAN /\ waiting \in BOOLEAN /\ managed \in BOOLEAN
      OBVIOUS
    <2>2. ckpt \in Checkpoints /\ queue \in Seq(Commands)
      BY DEF Checkpoints
    <2>. QED  BY <2>1, <2>2 DEF ControlTyped
  <1>2. StepIs /\ WriteIs /\ UnpackIs /\ DestinationIs
    BY DEF StepIs, WriteIs, UnpackIs, DestinationIs, At, Committed
  <1>3. Undecided /\ ReceiptsTell /\ ImportedIs
    BY DEF Undecided, ReceiptsTell, ImportedIs
  <1>4. CommandsAre /\ CheckpointIs /\ AttemptIs /\ AnswerIs
    BY DEF CommandsAre, CheckpointIs, AttemptIs, AnswerIs, Nothing, Importing, Ended
  <1>. QED  BY <1>1, <1>2, <1>3, <1>4, <1>5 DEF CopyIInv

LEMMA CopyStutters == ASSUME CopyIInv, UNCHANGED copyvars PROVE CopyIInv'
  <1>1. /\ UNCHANGED tvars /\ UNCHANGED <<managed, ckpt, payload, job, pc, waiting, queue>>
    BY DEF copyvars, control
  <1>2. /\ ControlTyped /\ Undecided /\ ReceiptsTell /\ ImportedIs
        /\ CommandsAre /\ CheckpointIs /\ AttemptIs /\ AnswerIs
        /\ UNCHANGED <<kind, original, dest, archive, temp, meta, wrec, staging, backup, urec,
                       exec, result, published, edits>>
    BY <1>1, ControlKnows
  <1>3. ControlTyped' /\ Undecided' /\ ReceiptsTell' /\ ImportedIs'
    BY <1>1, <1>2
       DEF ControlTyped, Undecided, StillImports, ReceiptsTell, PublicationShows, Committed,
           ImportedIs
  <1>4. CommandsAre' /\ AnswerIs'
    BY <1>1, <1>2 DEF CommandsAre, Nothing, AnswerIs, Achieved
  <1>5. CheckpointIs' /\ AttemptIs'
    BY <1>1, <1>2 DEF CheckpointIs, AttemptIs, Ended, Nothing
  <1>. QED  BY <1>1, <1>3, <1>4, <1>5, ControlGoesOn

LEMMA CopyStepKeeps == CopyIInv /\ [CopyNext]_copyvars => CopyIInv'
  <1>. SUFFICES ASSUME CopyIInv, [CopyNext]_copyvars PROVE CopyIInv'
    OBVIOUS
  <1>1. CASE ControlStep \/ LosesAnswer
    BY <1>1, AttemptStartsKeeps, CallsKeeps, HearsKeeps, RecordsKeeps, AbandonKeeps,
       PruneKeeps, ReconcileKeeps DEF ControlStep
  <1>2. CASE Cancel \/ Retry \/ Delete \/ ControlCrash
    BY <1>2, JobKeeps
  <1>3. CASE ExecutorActs
    BY <1>3, CommandKeeps DEF ExecutorActs
  <1>4. CASE TakesCommand \/ ExecutorCrash \/ SomeoneEdits
    BY <1>4, TakesCommandKeeps, ExecutorCrashKeeps, SomeoneEditsKeeps
  <1>5. CASE UNCHANGED copyvars
    BY <1>5, CopyStutters
  <1>. QED  BY <1>1, <1>2, <1>3, <1>4, <1>5 DEF CopyNext

LEMMA CopyShows == CopyIInv => CopyInv
  <1>. SUFFICES ASSUME CopyIInv PROVE CopyInv
    OBVIOUS
  <1>1. CopyTypeOK
    BY DEF CopyIInv, DiskTyped, ControlTyped, WriteRecords, UnpackRecords, Checkpoints,
           CopyTypeOK
  <1>2. OriginalIsSafe
    BY DEF CopyIInv, DestinationIs, OriginalIsSafe
  <1>3. PayloadRetained
    BY DEF CopyIInv, CheckpointIs, Ended, PayloadRetained
  <1>4. PublishedOnce
    BY DEF CopyIInv, DiskTyped, ImportedIs, CheckpointIs, PublishedOnce
  <1>5. ForgottenIsClean
    <2>. SUFFICES ASSUME ckpt.step = "none"
                  PROVE  /\ Nothing
                         /\ published = 0 => ~archive /\ backup = "none"
                         /\ edits = 0 => dest = IF published = 1 THEN "new" ELSE original
      BY DEF ForgottenIsClean, Nothing
    <2>1. Nothing /\ urec.status = "none" /\ wrec.status = "none"
      BY RecordUpdates DEF CopyIInv, CommandsAre, Nothing
    <2>2. published = 0 => ~archive /\ backup = "none"
      BY <2>1 DEF CopyIInv, DiskTyped, WriteIs, UnpackIs, Committed
    <2>3. edits = 0 => dest = IF published = 1 THEN "new" ELSE original
      BY <2>1 DEF CopyIInv, DiskTyped, DestinationIs
    <2>. QED  BY <2>1, <2>2, <2>3
  <1>. QED  BY <1>1, <1>2, <1>3, <1>4, <1>5 DEF CopyInv

\* Whatever calls are lost and wherever either side stops: the original stays safe
\* until the copy is published whole, the copy is published once, an attempt has its
\* payload, and a copy that Control has forgotten left nothing private behind.
\* (_copy_cross_executor, _reconcile_abandoned_transfers; transfer_abandon_import)
THEOREM CopiesAreSound == CopySpec => []CopyInv
  <1>. QED  BY CopyStarts, CopyStepKeeps, CopyShows, PTL DEF CopySpec

=============================================================================
