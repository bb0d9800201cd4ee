---------------------- MODULE ExecutorConnectionProofs ----------------------
(***************************************************************************)
(* The delivery loop for any finite set of commands, any keys and any      *)
(* limit on concurrent commands.                                           *)
(***************************************************************************)
EXTENDS ExecutorConnection, FiniteSetTheorems, TLAPS

SameKey(c, d) == KeyOf[c] # NoKey /\ KeyOf[c] = KeyOf[d] /\ c # d

\* The poll belongs to the connected loop, and an open one has room for what it
\* may bring.
PollHasRoom ==
    /\ polling # "off" => phase = "connected"
    /\ polling = "open" => Cardinality(Live) < MaxConcurrent

\* The count of inventory mutations misses none that waits or runs.
MutationsAreCounted ==
    phase # "stopped" =>
        \A c \in Mutating : task[c] \in {"blocked", "executing"} => c \in mutations

\* Arrivals tell received commands apart.
ArrivalsAreDistinct ==
    /\ \A c \in Cmds : task[c] # "none" => arrival[c] >= 1 /\ arrival[c] <= received
    /\ \A c, d \in Cmds : task[c] # "none" /\ task[d] # "none" /\ c # d =>
           arrival[c] # arrival[d]

\* The tail of a key is its last live command.
TailIsLast ==
    /\ \A k \in Keys : tail[k] # NoCmd => tail[k] \in Live /\ KeyOf[tail[k]] = k
    /\ \A c \in Live : KeyOf[c] # NoKey =>
           tail[KeyOf[c]] # NoCmd /\ arrival[c] <= arrival[tail[KeyOf[c]]]

\* A blocked command waits for the one right before it.
WaitsForPrevious ==
    \A c \in Cmds : task[c] = "blocked" =>
        /\ KeyOf[c] # NoKey /\ pred[c] \in Cmds /\ KeyOf[pred[c]] = KeyOf[c]
        /\ task[pred[c]] # "none" /\ arrival[pred[c]] < arrival[c]
        /\ \A d \in Live : SameKey(c, d) /\ arrival[d] < arrival[c] =>
               arrival[d] <= arrival[pred[c]]

\* Nothing older than a finished command of the key is left.
FinishedAreOldest ==
    \A c, d \in Cmds : SameKey(c, d) /\ task[c] = "done" /\ d \in Live =>
        arrival[c] < arrival[d]

IInv == /\ Inv /\ PollHasRoom /\ MutationsAreCounted /\ ArrivalsAreDistinct
        /\ TailIsLast /\ WaitsForPrevious /\ FinishedAreOldest

Assumptions == /\ KeyOf \in [Cmds -> Keys \cup {NoKey}] /\ NoKey \notin Keys
               /\ Mutating \subseteq Cmds /\ NoCmd \notin Cmds
               /\ MaxConcurrent \in Nat \ {0} /\ IsFiniteSet(Cmds)

-----------------------------------------------------------------------------

LEMMA Assumed == Assumptions
BY KeyAssumption, MutatingAssumption, NoCmdAssumption, MaxConcurrentAssumption,
   FiniteAssumption DEF Assumptions

LEMMA InitEstablishes == Init => IInv
<1> SUFFICES ASSUME Init PROVE IInv
    OBVIOUS
<1>1. Live = {}
  BY DEF Init, Live
<1>2. TypeOK
  BY DEF Init, TypeOK, Phases
<1>3. ConcurrencyBounded /\ PollHasRoom
  BY <1>1, FS_EmptySet, Assumed DEF Init, ConcurrencyBounded, PollHasRoom, Assumptions
<1>4. SerialPerKey /\ HelloInventoryIsStable /\ UpdateIsQuiescent
  BY <1>1 DEF Init, SerialPerKey, HelloInventoryIsStable, UpdateIsQuiescent
<1>5. /\ MutationsAreCounted /\ ArrivalsAreDistinct /\ TailIsLast /\ WaitsForPrevious
      /\ FinishedAreOldest
  BY <1>1, Assumed DEF Init, MutationsAreCounted, ArrivalsAreDistinct, TailIsLast,
                       WaitsForPrevious, FinishedAreOldest, Assumptions
<1>6. QED
  BY <1>2, <1>3, <1>4, <1>5 DEF IInv, Inv

\* The number of live commands when they only become fewer, or one more.
LEMMA LiveCounts ==
    ASSUME TypeOK
    PROVE  /\ IsFiniteSet(Live) /\ Cardinality(Live) \in Nat
           /\ Live' \subseteq Live =>
                Cardinality(Live') \in Nat /\ Cardinality(Live') <= Cardinality(Live)
           /\ \A c \in Cmds : c \notin Live /\ Live' = Live \cup {c} =>
                Cardinality(Live') = Cardinality(Live) + 1
<1>1. IsFiniteSet(Live)
  BY Assumed, FS_Subset DEF Live, Assumptions
<1>2. QED
  BY <1>1, FS_Subset, FS_AddElement, FS_CardinalityType

\* A step of the loop that leaves the commands alone.
LEMMA LoopPreserves ==
    ASSUME IInv, LoopStep PROVE IInv'
<1>1. UNCHANGED taskVars /\ Live' = Live
  BY DEF LoopStep, SendHello, Drained, HeartbeatEndsLoop, RetryAfterDelay, ParkForOwner,
         HelloAccepted, PolicyDecides, ConnectionFails, SendPoll, PollEmpty, taskVars, Live
<1>2. /\ phase' \in Phases /\ update' \in BOOLEAN /\ owner' \in BOOLEAN
      /\ polling' \in {"off", "capacity", "open"}
  BY DEF IInv, Inv, TypeOK, Phases, LoopStep, SendHello, Drained, HeartbeatEndsLoop,
         RetryAfterDelay, ParkForOwner, HelloAccepted, PolicyDecides, ConnectionFails,
         SendPoll, PollEmpty, LoopHead
<1>3. /\ polling' # "off" => phase' = "connected"
      /\ polling' = "open" => polling = "open" \/ HasCapacity
  BY DEF IInv, PollHasRoom, LoopStep, SendHello, Drained, HeartbeatEndsLoop,
         RetryAfterDelay, ParkForOwner, HelloAccepted, PolicyDecides, ConnectionFails,
         SendPoll, PollEmpty, LoopHead
<1>4. /\ phase' \in {"hello", "draining", "policy"} =>
             phase \in {"hello", "draining", "policy"} \/ mutations = {}
      /\ phase' = "policy" /\ update' => (phase = "policy" /\ update) \/ Live = {}
      /\ phase = "stopped" => phase' = "stopped"
      /\ phase' # "stopped" => phase # "stopped"
  BY DEF LoopStep, SendHello, Drained, HeartbeatEndsLoop, RetryAfterDelay, ParkForOwner,
         HelloAccepted, PolicyDecides, ConnectionFails, SendPoll, PollEmpty, LoopHead,
         BarrierOpen
<1>5. TypeOK'
  BY <1>1, <1>2 DEF IInv, Inv, TypeOK, taskVars
<1>6. /\ SerialPerKey' /\ ArrivalsAreDistinct' /\ TailIsLast'
      /\ WaitsForPrevious' /\ FinishedAreOldest'
  BY <1>1 DEF IInv, Inv, SerialPerKey, ArrivalsAreDistinct, TailIsLast, WaitsForPrevious,
              FinishedAreOldest, taskVars
<1>7. ConcurrencyBounded' /\ PollHasRoom'
  BY <1>1, <1>3 DEF IInv, Inv, ConcurrencyBounded, PollHasRoom, HasCapacity
<1>8. MutationsAreCounted'
  BY <1>1, <1>4 DEF IInv, MutationsAreCounted, taskVars
<1>9. HelloInventoryIsStable'
  BY <1>1, <1>4 DEF IInv, Inv, HelloInventoryIsStable, MutationsAreCounted, taskVars
<1>10. UpdateIsQuiescent'
  BY <1>1, <1>4 DEF IInv, Inv, UpdateIsQuiescent
<1>11. QED
  BY <1>5, <1>6, <1>7, <1>8, <1>9, <1>10 DEF IInv, Inv

LEMMA StopPreserves ==
    ASSUME IInv, Stop PROVE IInv'
<1>1. /\ phase' = "stopped" /\ polling' = "off"
      /\ task' = [c \in Cmds |-> IF c \in Live THEN "done" ELSE task[c]]
      /\ tail' = [k \in Keys |-> NoCmd]
      /\ mutations' = {c \in mutations : task[c] = "blocked"}
      /\ UNCHANGED <<update, owner, pred, received, arrival, executions>>
  BY DEF Stop
<1>2. TypeOK /\ ConcurrencyBounded
  BY DEF IInv, Inv
<1>3. \A c \in Cmds : /\ task'[c] \in {"none", "done"}
                      /\ task'[c] # "none" <=> task[c] # "none"
  BY <1>1, <1>2 DEF Live, TypeOK
<1>4. Live' = {}
  BY <1>3 DEF Live
<1>5. TypeOK'
  BY <1>1, <1>2, <1>3 DEF TypeOK, Phases
<1>6. ConcurrencyBounded' /\ PollHasRoom'
  BY <1>1, <1>4, FS_EmptySet, Assumed DEF ConcurrencyBounded, PollHasRoom, Assumptions
<1>7. ArrivalsAreDistinct'
  BY <1>1, <1>3 DEF IInv, ArrivalsAreDistinct
<1>8. /\ SerialPerKey' /\ HelloInventoryIsStable' /\ UpdateIsQuiescent'
      /\ MutationsAreCounted' /\ TailIsLast' /\ WaitsForPrevious' /\ FinishedAreOldest'
  BY <1>1, <1>3, <1>4 DEF SerialPerKey, HelloInventoryIsStable, UpdateIsQuiescent,
       MutationsAreCounted, TailIsLast, WaitsForPrevious, FinishedAreOldest
<1>9. QED
  BY <1>5, <1>6, <1>7, <1>8 DEF IInv, Inv

LEMMA DeliveryPreserves ==
    ASSUME IInv, NEW c \in Cmds, Fresh(c), PollDelivers(c) PROVE IInv'
<1> USE Assumed DEF Assumptions
<1>1. /\ polling = "open" /\ polling' = "capacity" /\ task[c] = "none" /\ c \notin Live
      /\ pred' = [pred EXCEPT ![c] = Predecessor(c)]
      /\ task' = [task EXCEPT ![c] = IF Predecessor(c) = NoCmd THEN "executing" ELSE "blocked"]
      /\ tail' = [k \in Keys |-> IF k = KeyOf[c] THEN c ELSE tail[k]]
      /\ mutations' = RegisteredMutations(c)
      /\ received' = received + 1 /\ arrival' = [arrival EXCEPT ![c] = received + 1]
      /\ UNCHANGED <<phase, update, owner, executions>>
  BY DEF PollDelivers, Fresh
<1>2. /\ TypeOK /\ ConcurrencyBounded /\ SerialPerKey /\ PollHasRoom /\ MutationsAreCounted
      /\ ArrivalsAreDistinct /\ TailIsLast /\ WaitsForPrevious /\ FinishedAreOldest
  BY DEF IInv, Inv
<1>3. phase = "connected"
  BY <1>1, <1>2 DEF PollHasRoom
<1>4. Predecessor(c) \in Cmds \cup {NoCmd}
  BY <1>2 DEF Predecessor, TypeOK
<1>5. /\ task'[c] = IF Predecessor(c) = NoCmd THEN "executing" ELSE "blocked"
      /\ arrival'[c] = received + 1 /\ pred'[c] = Predecessor(c)
      /\ \A d \in Cmds \ {c} : /\ task'[d] = task[d] /\ arrival'[d] = arrival[d]
                              /\ pred'[d] = pred[d]
  BY <1>1, <1>2 DEF TypeOK
<1>6. Live' = Live \cup {c}
  BY <1>5 DEF Live
<1>7. TypeOK'
  <2>1. mutations' \in SUBSET Mutating
    BY <1>1, <1>2 DEF RegisteredMutations, TypeOK
  <2>2. task' \in [Cmds -> {"none", "blocked", "executing", "submitting", "done"}]
    BY <1>1, <1>2 DEF TypeOK
  <2>3. pred' \in [Cmds -> Cmds \cup {NoCmd}] /\ tail' \in [Keys -> Cmds \cup {NoCmd}]
    BY <1>1, <1>2, <1>4 DEF TypeOK
  <2>4. received' \in Nat /\ arrival' \in [Cmds -> Nat]
    BY <1>1, <1>2 DEF TypeOK
  <2>5. QED
    BY <1>1, <1>2, <2>1, <2>2, <2>3, <2>4 DEF TypeOK
<1>8. ConcurrencyBounded' /\ PollHasRoom'
  <2>1. Cardinality(Live') = Cardinality(Live) + 1 /\ Cardinality(Live) \in Nat
    BY <1>1, <1>2, <1>6, LiveCounts
  <2>2. QED
    BY <1>1, <1>2, <1>3, <2>1 DEF ConcurrencyBounded, PollHasRoom
<1>9. MutationsAreCounted'
  BY <1>1, <1>2, <1>5 DEF MutationsAreCounted, RegisteredMutations
<1>10. HelloInventoryIsStable' /\ UpdateIsQuiescent'
  BY <1>1, <1>3 DEF HelloInventoryIsStable, UpdateIsQuiescent
<1>11. \A d \in Cmds : /\ arrival[d] \in Nat /\ received \in Nat
                       /\ task[d] # "none" => d # c /\ arrival[d] < arrival'[c]
  BY <1>1, <1>2, <1>5 DEF ArrivalsAreDistinct, TypeOK
<1>12. ArrivalsAreDistinct'
  <2>1. \A d \in Cmds \ {c} : task'[d] # "none" => /\ arrival'[d] >= 1
                               /\ arrival'[d] <= received' /\ arrival'[d] < arrival'[c]
    BY <1>1, <1>2, <1>5, <1>11 DEF ArrivalsAreDistinct
  <2>2. arrival'[c] >= 1 /\ arrival'[c] <= received'
    BY <1>1, <1>5, <1>11
  <2>3. QED
    BY <1>2, <1>5, <1>11, <2>1, <2>2 DEF ArrivalsAreDistinct
<1>13. \A d \in Live : d # c /\ task'[d] = task[d] /\ arrival'[d] = arrival[d]
                       /\ arrival[d] < arrival'[c] /\ d \in Cmds
  BY <1>1, <1>5, <1>11 DEF Live
<1>14. SerialPerKey'
  <2>1. ASSUME task'[c] = "executing", NEW d \in Cmds, SameKey(c, d), d \in Live
        PROVE  FALSE
    <3>1. tail[KeyOf[c]] = NoCmd /\ KeyOf[d] # NoKey /\ KeyOf[d] = KeyOf[c]
      BY <2>1, <1>5 DEF Predecessor, SameKey
    <3>2. QED
      BY <2>1, <3>1, <1>2 DEF TailIsLast
  <2>2. ASSUME NEW x \in Cmds, NEW y \in Cmds, SameKey(x, y),
               task'[x] \in {"executing", "submitting"}, y \in Live'
        PROVE  arrival'[x] < arrival'[y]
    <3>1. CASE x = c
      BY <2>1, <2>2, <3>1, <1>5, <1>6 DEF SameKey
    <3>2. CASE x # c /\ y = c
      BY <2>2, <3>2, <1>5, <1>11
    <3>3. CASE x # c /\ y # c
      BY <2>2, <3>3, <1>2, <1>5, <1>6 DEF SerialPerKey, SameKey
    <3>4. QED
      BY <3>1, <3>2, <3>3
  <2>3. QED
    BY <2>2 DEF SerialPerKey, SameKey
<1>15. TailIsLast'
  <2>1. ASSUME NEW k \in Keys, tail'[k] # NoCmd PROVE tail'[k] \in Live' /\ KeyOf[tail'[k]] = k
    BY <2>1, <1>1, <1>2, <1>6 DEF TailIsLast
  <2>2. ASSUME NEW d \in Live', KeyOf[d] # NoKey
        PROVE  tail'[KeyOf[d]] # NoCmd /\ arrival'[d] <= arrival'[tail'[KeyOf[d]]]
    <3>1. d \in Cmds /\ KeyOf[d] \in Keys
      BY <2>2 DEF Live
    <3>2. CASE KeyOf[d] = KeyOf[c]
      BY <1>1, <1>5, <1>6, <1>11, <1>13, <2>2, <3>1, <3>2
    <3>3. CASE KeyOf[d] # KeyOf[c]
      <4>1. d \in Live /\ tail'[KeyOf[d]] = tail[KeyOf[d]]
        BY <1>1, <1>6, <2>2, <3>1, <3>3
      <4>2. /\ tail[KeyOf[d]] # NoCmd /\ tail[KeyOf[d]] \in Live
            /\ arrival[d] <= arrival[tail[KeyOf[d]]]
        BY <1>2, <2>2, <3>1, <4>1 DEF TailIsLast
      <4>3. QED
        BY <1>13, <4>1, <4>2
    <3>4. QED
      BY <3>2, <3>3
  <2>3. QED
    BY <2>1, <2>2 DEF TailIsLast
<1>16. WaitsForPrevious'
  <2>1. ASSUME NEW x \in Cmds, task'[x] = "blocked", x # c
        PROVE  /\ KeyOf[x] # NoKey /\ pred'[x] \in Cmds /\ KeyOf[pred'[x]] = KeyOf[x]
               /\ task'[pred'[x]] # "none" /\ arrival'[pred'[x]] < arrival'[x]
               /\ \A d \in Live' : SameKey(x, d) /\ arrival'[d] < arrival'[x] =>
                      arrival'[d] <= arrival'[pred'[x]]
    <3>1. /\ task[x] = "blocked" /\ pred'[x] = pred[x] /\ pred[x] \in Cmds
          /\ task[pred[x]] # "none" /\ pred[x] # c /\ arrival'[x] = arrival[x]
          /\ arrival'[pred[x]] = arrival[pred[x]] /\ task'[pred[x]] = task[pred[x]]
      BY <1>1, <1>2, <1>5, <2>1 DEF WaitsForPrevious
    <3>2. arrival[x] < arrival'[c] /\ arrival[x] \in Nat /\ arrival'[c] \in Nat
      BY <1>7, <1>11, <3>1 DEF TypeOK
    <3>3. \A d \in Live' : arrival'[d] < arrival'[x] => d \in Live
      BY <1>6, <3>1, <3>2
    <3>4. QED
      BY <1>2, <1>13, <3>1, <3>3 DEF WaitsForPrevious
  <2>2. ASSUME task'[c] = "blocked"
        PROVE  /\ KeyOf[c] # NoKey /\ pred'[c] \in Cmds /\ KeyOf[pred'[c]] = KeyOf[c]
               /\ task'[pred'[c]] # "none" /\ arrival'[pred'[c]] < arrival'[c]
               /\ \A d \in Live' : SameKey(c, d) /\ arrival'[d] < arrival'[c] =>
                      arrival'[d] <= arrival'[pred'[c]]
    <3> DEFINE t == tail[KeyOf[c]]
    <3>1. KeyOf[c] # NoKey /\ KeyOf[c] \in Keys /\ t # NoCmd /\ pred'[c] = t
      BY <1>5, <2>2 DEF Predecessor
    <3>2. t \in Live /\ KeyOf[t] = KeyOf[c]
      BY <1>2, <3>1 DEF TailIsLast
    <3>3. /\ t \in Cmds /\ task'[t] # "none" /\ arrival'[t] < arrival'[c]
          /\ arrival'[t] = arrival[t]
      BY <1>13, <3>2 DEF Live
    <3> HIDE DEF t
    <3>4. ASSUME NEW d \in Live', SameKey(c, d) PROVE arrival'[d] <= arrival'[t]
      <4>1. d \in Live
        BY <1>6, <3>4 DEF SameKey
      <4>2. QED
        BY <1>2, <1>13, <3>3, <3>4, <4>1 DEF TailIsLast, SameKey, t
    <3>5. QED
      BY <3>1, <3>2, <3>3, <3>4
  <2>3. QED
    BY <2>1, <2>2 DEF WaitsForPrevious
<1>17. FinishedAreOldest'
  <2>1. ASSUME NEW x \in Cmds, NEW y \in Cmds, SameKey(x, y), task'[x] = "done", y \in Live'
        PROVE  arrival'[x] < arrival'[y]
    <3>1. x # c /\ task[x] = "done"
      BY <1>5, <2>1
    <3>2. CASE y = c
      BY <1>5, <1>11, <3>1, <3>2
    <3>3. CASE y # c
      BY <1>2, <1>5, <1>6, <2>1, <3>1, <3>3 DEF FinishedAreOldest
    <3>4. QED
      BY <3>2, <3>3
  <2>2. QED
    BY <2>1 DEF FinishedAreOldest
<1>18. QED
  BY <1>7, <1>8, <1>9, <1>10, <1>12, <1>14, <1>15, <1>16, <1>17 DEF IInv, Inv

LEMMA UnblockPreserves ==
    ASSUME IInv, NEW c \in Cmds, Unblock(c) PROVE IInv'
<1> USE Assumed DEF Assumptions
<1>1. /\ task[c] = "blocked" /\ task[pred[c]] = "done"
      /\ task' = [task EXCEPT ![c] = "executing"]
      /\ UNCHANGED <<phase, update, polling, pred, tail, mutations, owner, received,
                     arrival, executions>>
  BY DEF Unblock
<1>2. /\ TypeOK /\ ConcurrencyBounded /\ SerialPerKey /\ PollHasRoom /\ MutationsAreCounted
      /\ ArrivalsAreDistinct /\ TailIsLast /\ WaitsForPrevious /\ FinishedAreOldest
      /\ HelloInventoryIsStable /\ UpdateIsQuiescent
  BY DEF IInv, Inv
<1>3. task'[c] = "executing" /\ \A d \in Cmds \ {c} : task'[d] = task[d]
  BY <1>1, <1>2 DEF TypeOK
<1>4. Live' = Live
  BY <1>1, <1>3 DEF Live
<1>5. TypeOK'
  BY <1>1, <1>2 DEF TypeOK
<1>6. SerialPerKey'
  <2>1. ASSUME NEW d \in Live, SameKey(c, d) PROVE arrival[c] < arrival[d]
    <3>1. /\ pred[c] \in Cmds /\ KeyOf[pred[c]] = KeyOf[c]
          /\ arrival[d] < arrival[c] => arrival[d] <= arrival[pred[c]]
      BY <1>1, <1>2, <2>1 DEF WaitsForPrevious
    <3>2. d # pred[c] /\ d \in Cmds /\ task[d] # "none"
      BY <1>1, <2>1 DEF Live
    <3>3. arrival[pred[c]] < arrival[d]
      BY <1>1, <1>2, <2>1, <3>1, <3>2 DEF FinishedAreOldest, SameKey
    <3>4. /\ arrival[d] \in Nat /\ arrival[c] \in Nat /\ arrival[pred[c]] \in Nat
          /\ arrival[d] # arrival[c]
      BY <1>1, <1>2, <2>1, <3>1, <3>2 DEF TypeOK, ArrivalsAreDistinct, SameKey
    <3>5. QED
      BY <3>1, <3>3, <3>4
  <2>2. QED
    BY <1>1, <1>2, <1>3, <1>4, <2>1 DEF SerialPerKey, SameKey
<1>7. /\ ConcurrencyBounded' /\ PollHasRoom' /\ UpdateIsQuiescent' /\ TailIsLast'
  BY <1>1, <1>2, <1>4 DEF ConcurrencyBounded, PollHasRoom, UpdateIsQuiescent, TailIsLast
<1>8. MutationsAreCounted' /\ HelloInventoryIsStable'
  BY <1>1, <1>2, <1>3 DEF MutationsAreCounted, HelloInventoryIsStable
<1>9. \A d \in Cmds : /\ task'[d] = "none" <=> task[d] = "none"
                      /\ task'[d] = "blocked" => task[d] = "blocked"
                      /\ task'[d] = "done" => task[d] = "done"
  BY <1>1, <1>3
<1>10. ArrivalsAreDistinct' /\ FinishedAreOldest'
  BY <1>1, <1>2, <1>4, <1>9 DEF ArrivalsAreDistinct, FinishedAreOldest
<1>11. WaitsForPrevious'
  BY <1>1, <1>2, <1>4, <1>9 DEF WaitsForPrevious
<1>12. QED
  BY <1>5, <1>6, <1>7, <1>8, <1>10, <1>11 DEF IInv, Inv

LEMMA FinishPreserves ==
    ASSUME IInv, NEW c \in Cmds, FinishExecution(c) PROVE IInv'
<1> USE Assumed DEF Assumptions
<1>1. /\ task[c] = "executing" /\ task' = [task EXCEPT ![c] = "submitting"]
      /\ mutations' = mutations \ {c} /\ executions' = [executions EXCEPT ![c] = @ + 1]
      /\ UNCHANGED <<phase, update, polling, pred, tail, owner, received, arrival>>
  BY DEF FinishExecution
<1>2. /\ TypeOK /\ ConcurrencyBounded /\ SerialPerKey /\ PollHasRoom /\ MutationsAreCounted
      /\ ArrivalsAreDistinct /\ TailIsLast /\ WaitsForPrevious /\ FinishedAreOldest
      /\ HelloInventoryIsStable /\ UpdateIsQuiescent
  BY DEF IInv, Inv
<1>3. task'[c] = "submitting" /\ \A d \in Cmds \ {c} : task'[d] = task[d]
  BY <1>1, <1>2 DEF TypeOK
<1>4. Live' = Live
  BY <1>1, <1>3 DEF Live
<1>5. TypeOK'
  <2>1. executions' \in [Cmds -> Nat]
    <3>1. executions[c] + 1 \in Nat
      BY <1>2 DEF TypeOK
    <3>2. QED
      BY <1>1, <1>2, <3>1 DEF TypeOK
  <2>2. QED
    BY <1>1, <1>2, <2>1 DEF TypeOK
<1>6. SerialPerKey'
  BY <1>1, <1>2, <1>3, <1>4 DEF SerialPerKey
<1>7. /\ ConcurrencyBounded' /\ PollHasRoom' /\ UpdateIsQuiescent' /\ TailIsLast'
  BY <1>1, <1>2, <1>4 DEF ConcurrencyBounded, PollHasRoom, UpdateIsQuiescent, TailIsLast
<1>8. MutationsAreCounted' /\ HelloInventoryIsStable'
  BY <1>1, <1>2, <1>3 DEF MutationsAreCounted, HelloInventoryIsStable
<1>9. \A d \in Cmds : /\ task'[d] = "none" <=> task[d] = "none"
                      /\ task'[d] = "blocked" => task[d] = "blocked"
                      /\ task'[d] = "done" => task[d] = "done"
  BY <1>1, <1>3
<1>10. ArrivalsAreDistinct' /\ FinishedAreOldest'
  BY <1>1, <1>2, <1>4, <1>9 DEF ArrivalsAreDistinct, FinishedAreOldest
<1>11. WaitsForPrevious'
  BY <1>1, <1>2, <1>4, <1>9 DEF WaitsForPrevious
<1>12. QED
  BY <1>5, <1>6, <1>7, <1>8, <1>10, <1>11 DEF IInv, Inv

\* Accepted, rejected or given up: the command is over and its place is free.
LEMMA CompletePreserves ==
    ASSUME IInv, NEW c \in Cmds,
           SubmitEnds(c) \/ SubmitRejected(c) \/ SubmitGivesUp(c)
    PROVE  IInv'
<1> USE Assumed DEF Assumptions
<1>1. /\ task[c] = "submitting" /\ task' = [task EXCEPT ![c] = "done"]
      /\ tail' = [k \in Keys |-> IF tail[k] = c THEN NoCmd ELSE tail[k]]
      /\ owner' \in BOOLEAN
      /\ UNCHANGED <<phase, update, polling, pred, mutations, received, arrival, executions>>
  BY DEF SubmitEnds, SubmitRejected, SubmitGivesUp, Complete, IInv, Inv, TypeOK
<1>2. /\ TypeOK /\ ConcurrencyBounded /\ SerialPerKey /\ PollHasRoom /\ MutationsAreCounted
      /\ ArrivalsAreDistinct /\ TailIsLast /\ WaitsForPrevious /\ FinishedAreOldest
      /\ HelloInventoryIsStable /\ UpdateIsQuiescent
  BY DEF IInv, Inv
<1>3. task'[c] = "done" /\ \A d \in Cmds \ {c} : task'[d] = task[d]
  BY <1>1, <1>2 DEF TypeOK
<1>4. Live' = Live \ {c} /\ c \in Live
  BY <1>1, <1>3 DEF Live
<1>5. TypeOK'
  BY <1>1, <1>2 DEF TypeOK
<1>6. SerialPerKey'
  BY <1>1, <1>2, <1>3, <1>4 DEF SerialPerKey
<1>7. ConcurrencyBounded' /\ PollHasRoom' /\ UpdateIsQuiescent'
  <2>1. /\ Cardinality(Live') \in Nat /\ Cardinality(Live) \in Nat
        /\ Cardinality(Live') <= Cardinality(Live)
    BY <1>2, <1>4, LiveCounts
  <2>2. QED
    BY <1>1, <1>2, <1>4, <2>1 DEF ConcurrencyBounded, PollHasRoom, UpdateIsQuiescent
<1>8. MutationsAreCounted' /\ HelloInventoryIsStable'
  BY <1>1, <1>2, <1>3 DEF MutationsAreCounted, HelloInventoryIsStable
<1>9. \A d \in Cmds : /\ task'[d] = "none" <=> task[d] = "none"
                      /\ task'[d] = "blocked" => task[d] = "blocked"
                      /\ task'[d] = "done" => task[d] = "done" \/ d = c
  BY <1>1, <1>3
<1>10. ArrivalsAreDistinct'
  BY <1>1, <1>2, <1>9 DEF ArrivalsAreDistinct
<1>11. \A d \in Live : SameKey(c, d) => arrival[c] < arrival[d]
  BY <1>1, <1>2 DEF SerialPerKey, SameKey, Live
<1>12. FinishedAreOldest'
  BY <1>1, <1>2, <1>4, <1>9, <1>11 DEF FinishedAreOldest
<1>13. TailIsLast'
  <2>1. ASSUME NEW k \in Keys, tail'[k] # NoCmd PROVE tail'[k] \in Live' /\ KeyOf[tail'[k]] = k
    BY <2>1, <1>1, <1>2, <1>4 DEF TailIsLast
  <2>2. ASSUME NEW d \in Live', KeyOf[d] # NoKey
        PROVE  tail'[KeyOf[d]] # NoCmd /\ arrival'[d] <= arrival'[tail'[KeyOf[d]]]
    <3>1. d \in Live /\ d # c /\ d \in Cmds /\ KeyOf[d] \in Keys
      BY <1>4, <2>2 DEF Live
    <3>2. tail[KeyOf[d]] # NoCmd /\ arrival[d] <= arrival[tail[KeyOf[d]]]
      BY <1>2, <2>2, <3>1 DEF TailIsLast
    <3>3. tail[KeyOf[d]] # c
      <4>1. SUFFICES ASSUME tail[KeyOf[d]] = c PROVE FALSE
        OBVIOUS
      <4>2. KeyOf[c] = KeyOf[d]
        BY <1>2, <3>1, <3>2, <4>1 DEF TailIsLast
      <4>3. arrival[c] < arrival[d] /\ arrival[d] <= arrival[c]
        BY <1>11, <2>2, <3>1, <3>2, <4>1, <4>2 DEF SameKey
      <4>4. arrival[c] \in Nat /\ arrival[d] \in Nat
        BY <1>2, <3>1 DEF TypeOK
      <4>5. QED
        BY <4>3, <4>4
    <3>4. QED
      BY <1>1, <3>1, <3>2, <3>3
  <2>3. QED
    BY <2>1, <2>2 DEF TailIsLast
<1>14. WaitsForPrevious'
  BY <1>1, <1>2, <1>4, <1>9 DEF WaitsForPrevious
<1>15. QED
  BY <1>5, <1>6, <1>7, <1>8, <1>10, <1>12, <1>13, <1>14 DEF IInv, Inv

LEMMA NextPreserves == IInv /\ [Next]_vars => IInv'
<1> SUFFICES ASSUME IInv, [Next]_vars PROVE IInv'
    OBVIOUS
<1>1. CASE UNCHANGED vars
  BY <1>1 DEF vars, IInv, Inv, TypeOK, Live, SerialPerKey, ConcurrencyBounded,
              HelloInventoryIsStable, UpdateIsQuiescent, PollHasRoom, MutationsAreCounted,
              ArrivalsAreDistinct, TailIsLast, WaitsForPrevious, FinishedAreOldest
<1>2. CASE LoopStep \/ Stop
  BY <1>2, LoopPreserves, StopPreserves
<1>3. CASE \E c \in Cmds : CommandStep(c)
  BY <1>3, DeliveryPreserves, UnblockPreserves, FinishPreserves, CompletePreserves
     DEF CommandStep
<1>4. QED
  BY <1>1, <1>2, <1>3 DEF Next

-----------------------------------------------------------------------------

\* executor/connection.py: whatever requests fail and whenever the loop reconnects,
\* drains, parks or stops, commands of one session or transfer run alone and in the
\* order they were offered in, never more than the limit, the inventory of a hello is
\* settled, and an update finds nothing at work.
THEOREM ConnectionCorrect == Spec => []Inv
<1>1. IInv => Inv
  BY DEF IInv
<1>2. QED
  BY InitEstablishes, NextPreserves, <1>1, PTL DEF Spec

\* executor/connection.py: the inventory a hello carries is settled until Control has
\* answered it.
THEOREM InventoryCorrect == Spec => []HelloInventoryIsStable
<1>1. Inv => HelloInventoryIsStable
  BY DEF Inv
<1>2. QED
  BY ConnectionCorrect, <1>1, PTL

\* executor/connection.py: the runtime is handed over for an update only when no command
\* is waiting, running or being submitted.
THEOREM UpdateCorrect == Spec => []UpdateIsQuiescent
<1>1. Inv => UpdateIsQuiescent
  BY DEF Inv
<1>2. QED
  BY ConnectionCorrect, <1>1, PTL

=============================================================================
