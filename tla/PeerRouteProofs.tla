-------------------------- MODULE PeerRouteProofs ---------------------------
(***************************************************************************)
(* A direct copy keeps its promises for any number of faults and retries.  *)
(* PeerIInv is inductive, with a lemma for each action and in it one step  *)
(* for each part that the action can disturb.                              *)
(***************************************************************************)
EXTENDS PeerRoute, SequenceTheorems, TLAPS

-----------------------------------------------------------------------------
(* What is known of Control, its commands, the receiver and the bytes        *)

Steps == {"prepare", "send", "verify", "cancel", "undo", "checkpoint", "begin", "finish",
  "again",
          "record", "release", "claim", "relay", "start", "failed", "done"}
Ops == {"prepare", "status", "cancel", "begin", "finish", "release", "claim", "relay"}

\* The types, of which PeerTypeOK is a consequence.
Checkpoints == [route : {"none", "peer", "relay"}, version : Versions, imported : BOOLEAN]
Senders == [stage : {"idle", "connecting", "sending", "ok", "error"},
            to : 0..MaxRetries + 1, version : Versions]
Callings == [op : Ops \cup {"idle"}, id : 0..MaxRetries + 1, version : Versions]
LeaseStates == {"none", "pending", "receiving", "received", "failed", "cancelling",
                "cleanup_failed"}
Leases == [id : 0..MaxRetries + 1, state : LeaseStates, version : Versions]
Writes == [status : {"none", "receiving", "committed"}, got : {"none", "part", "full"},
           version : Versions, unclaimed : BOOLEAN]
Holders == [who : {"none", "prepare", "cancel", "claim", "expiry", "session"},
            at : {"none", "serve", "join", "disk"}, keep : BOOLEAN]

ControlTyped ==
    /\ pc \in Steps /\ waiting \in BOOLEAN /\ ckpt \in Checkpoints
    /\ frozen \in Versions /\ resumed \in BOOLEAN
    /\ source \in {"a", "b"} /\ sender \in Senders
    /\ retries \in 0..MaxRetries /\ forfeited \in BOOLEAN
DestinationTyped ==
    /\ exec \in Callings /\ queue \in Seq(Callings) /\ lease \in Leases
    /\ receiver \in {"none", "reading", "answering", "draining", "aborting"}
    /\ expiry \in {"off", "armed", "locking"} /\ holder \in Holders
    /\ write \in Writes /\ dest \in Versions

\* What the step of Control tells of the checkpoint.
StepIs ==
    /\ pc \in {"prepare", "send", "verify", "checkpoint", "cancel", "undo"} =>
         ckpt.route = "none"
    /\ pc \in {"begin", "finish", "again", "claim"} => ckpt.route = "peer"
    /\ pc = "relay" => ckpt.route = "relay"
    /\ pc \in {"begin", "finish", "again", "relay"} =>
         ~ckpt.imported /\ frozen = ckpt.version
    /\ pc \in {"record", "release"} => ckpt.route # "none"
    /\ pc = "release" => ckpt.imported
    /\ pc = "claim" => ~resumed
    /\ resumed => ckpt.route # "none"
    /\ ckpt.route = "none" => ~ckpt.imported /\ dest = "none" /\ write.status # "committed"
    /\ dest # "none" => dest = ckpt.version

\* The commands that the destination has not ended are those of the checkpoint's route.
CommandFits(c) ==
    /\ ckpt.route = "none" => c.op \in {"prepare", "status", "cancel"}
    /\ ckpt.route = "peer" => c.op \in {"begin", "finish", "release", "claim"}
    /\ ckpt.route = "relay" => c.op \in {"relay", "release"}
    /\ c.op \in {"finish", "relay"} => c.version = ckpt.version
    /\ ckpt.imported => c.op \in {"release", "claim"}
    /\ c.op = "release" => ckpt.imported

CommandsFit ==
    /\ exec.op # "idle" => CommandFits(exec) /\ exec.id # 0
    /\ exec.op = "idle" => exec = NoCall
    /\ \A i \in DOMAIN queue : CommandFits(queue[i]) /\ queue[i].id # 0 /\ queue[i].op # "idle"

NoneOf(op) == exec.op # op /\ \A i \in DOMAIN queue : queue[i].op # op

\* The attempt that wrote the peer checkpoint claims once, and no other does.
ClaimIsOver == pc \in {"failed", "done", "start"} \/ resumed \/ (pc = "claim" /\ waiting)
ClaimsOnce ==
    /\ ~ClaimIsOver => NoneOf("claim")
    /\ \A i, j \in DOMAIN queue : queue[i].op = "claim" /\ queue[j].op = "claim" => i = j
    /\ exec.op = "claim" => \A i \in DOMAIN queue : queue[i].op # "claim"

\* An attempt that has sent has no receiver to open any more.
SendFollows ==
    /\ sender.to <= retries + 1
    /\ sender.to = retries + 1 => NoneOf("prepare") /\ pc \notin {"start", "prepare"}
    /\ pc = "send" => NoneOf("prepare")

\* The lease, its receiver, its timer and the lock.
LeaseIs ==
    /\ lease.id = 0 => lease = NoLease /\ receiver = "none" /\ expiry = "off"
                       /\ holder.who \in {"none", "prepare"}
    /\ lease.id # 0 => lease.state # "none"
    /\ receiver \in {"reading", "answering", "draining"} =>
         /\ lease.state = "receiving" /\ holder = Free /\ write.status = "receiving"
         /\ ckpt.route = "none"
    /\ receiver = "aborting" => lease.state \in {"failed", "cancelling"} /\ ckpt.route = "none"
    /\ lease.state \in {"pending", "receiving"} => ckpt.route = "none"
    /\ lease.state = "pending" => write.status = "receiving"
    /\ lease.state = "received" => holder = Free /\ receiver = "none"
    /\ ckpt.route = "relay" => lease.id = 0
HolderIs ==
    /\ holder.who = "none" => holder = Free /\ lease.state # "cancelling"
    /\ holder.who = "prepare" =>
         /\ holder.at = "serve" /\ exec.op = "prepare" /\ lease.id = 0
         /\ write.status = "receiving" /\ write.unclaimed = FALSE
    /\ holder.who \in {"cancel", "claim"} => exec.op = holder.who
    /\ holder.who \in {"cancel", "claim", "expiry", "session"} =>
         /\ lease.id # 0 /\ expiry = "off" /\ holder.at \in {"join", "disk"}
         /\ lease.state \notin {"pending", "receiving", "received"}
    /\ holder.at = "disk" => receiver = "none"

\* What was received is whole.
WriteIs ==
    /\ write.status = "none" => write = NoWrite
    /\ lease.state = "received" /\ ~ckpt.imported => write.status # "none" /\ write.got = "full"
    /\ lease.state = "received" /\ write.status = "receiving" =>
         write.got = "full" /\ write.version = lease.version
    /\ receiver \in {"answering", "draining"} =>
         write.got = "full" /\ write.version = lease.version /\ write.unclaimed
    /\ sender.stage = "ok" /\ sender.to = retries + 1 /\ ckpt.route = "none"
         /\ write.status = "receiving" => write.unclaimed

\* The bytes that Control may record: nothing but an expiry that keeps them holds the lock.
Verified ==
    /\ write.got = "full" /\ receiver = "none"
    /\ lease.id = 0 \/ lease.state \in {"received", "cancelling"}
    /\ holder.who \in {"none", "expiry"} /\ (holder.who = "expiry" => holder.keep)

\* The answer that Control awaits is that of its own command.
Idle == exec = NoCall /\ queue = <<>>
Awaited(op) == (queue # <<>> /\ queue[Len(queue)].op = op) \/ (queue = <<>> /\ exec.op = op)
AnswerIs ==
    /\ pc = "verify" /\ waiting => Awaited("status")
       \/ (Idle /\ (result = "received" => Verified))
    /\ pc = "cancel" /\ waiting =>
         Awaited("cancel") \/ (Idle /\ (result \in {"yes", "no"} => lease.id = 0))
    /\ pc = "checkpoint" => Idle /\ Verified
    /\ pc = "record" => Idle

\* Bytes that Control has recorded are given up by nobody.
Kept ==
    Promised /\ ~forfeited =>
        /\ write.got = "full"
        /\ write.status = "receiving" =>
             /\ holder.who \in {"claim", "expiry"} => holder.keep
             /\ lease.id # 0 =>
                  \/ lease.state \in {"received", "cancelling"}
                  \/ /\ lease.state = "cleanup_failed" /\ expiry = "off"
                     /\ NoneOf("claim") /\ ClaimIsOver

\* The step at which Control calls with op.
CallOf(op) ==
    /\ op = "prepare" <=> pc = "prepare"
    /\ op = "status" <=> pc = "verify"
    /\ op = "cancel" <=> pc \in {"cancel", "undo"}
    /\ op = "begin" <=> pc \in {"begin", "again"}
    /\ op = "finish" <=> pc = "finish"
    /\ op = "release" <=> pc = "release"
    /\ op = "claim" <=> pc = "claim"
    /\ op = "relay" <=> pc = "relay"

PeerIInv ==
    /\ ControlTyped /\ DestinationTyped /\ StepIs /\ CommandsFit /\ ClaimsOnce /\ SendFollows
    /\ LeaseIs /\ HolderIs /\ WriteIs /\ AnswerIs /\ Kept


-----------------------------------------------------------------------------
(* The operators                                                             *)

\* A change of a field keeps the other ones.
LEMMA RecordUpdates ==
    /\ \A l \in Leases, s \in LeaseStates : [l EXCEPT !.state = s] \in Leases
    /\ \A w \in Writes, b \in BOOLEAN : [w EXCEPT !.unclaimed = b] \in Writes
    /\ \A w \in Writes : [w EXCEPT !.status = "committed"] \in Writes
    /\ \A w \in Writes, g \in {"part", "full"}, v \in Versions :
         [w EXCEPT !.got = g, !.version = v] \in Writes
    /\ \A w \in Writes, v \in Versions :
         [w EXCEPT !.status = "committed", !.got = "full", !.version = v] \in Writes
    /\ \A h \in Holders : [h EXCEPT !.at = "disk"] \in Holders
    /\ \A s \in Senders, g \in {"sending", "ok", "error"} : [s EXCEPT !.stage = g] \in Senders
    /\ \A c \in Checkpoints : [c EXCEPT !.imported = TRUE] \in Checkpoints
  BY DEF Leases, LeaseStates, Writes, Holders, Senders, Checkpoints

LEMMA RestsAreTyped ==
    /\ NoCall \in Callings /\ NoLease \in Leases /\ NoWrite \in Writes
    /\ Free \in Holders /\ NoSend \in Senders
  BY RetriesAssumption
     DEF NoCall, Callings, Ops, NoLease, Leases, LeaseStates, NoWrite, Writes, Free, Holders,
         NoSend, Senders, Versions

\* What a command's withdrawal, its taking and its offer leave of the queue.
LEMMA QueueChanges ==
    ASSUME NEW q \in Seq(Callings)
    PROVE  /\ DOMAIN q = 1..Len(q) /\ Len(q) \in Nat /\ (q = <<>> <=> Len(q) = 0)
           /\ \A c \in Callings :
                /\ Append(q, c) \in Seq(Callings) /\ Append(q, c) # <<>>
                /\ Len(Append(q, c)) = Len(q) + 1
                /\ \A i \in 1..Len(q) : Append(q, c)[i] = q[i]
                /\ Append(q, c)[Len(q) + 1] = c
                /\ DOMAIN Append(q, c) = 1..Len(q) + 1
           /\ q # <<>> =>
                /\ Head(q) \in Callings /\ Head(q) = q[1]
                /\ Tail(q) \in Seq(Callings) /\ Len(Tail(q)) = Len(q) - 1
                /\ DOMAIN Tail(q) = 1..Len(q) - 1
                /\ \A i \in 1..Len(q) - 1 : Tail(q)[i] = q[i + 1]
                /\ SubSeq(q, 1, Len(q) - 1) \in Seq(Callings)
                /\ Len(SubSeq(q, 1, Len(q) - 1)) = Len(q) - 1
                /\ DOMAIN SubSeq(q, 1, Len(q) - 1) = 1..Len(q) - 1
                /\ \A i \in 1..Len(q) - 1 : SubSeq(q, 1, Len(q) - 1)[i] = q[i]
<1>1. /\ DOMAIN q = 1..Len(q) /\ Len(q) \in Nat /\ (q = <<>> <=> Len(q) = 0)
  OBVIOUS
<1>2. ASSUME NEW c \in Callings
      PROVE  /\ Append(q, c) \in Seq(Callings) /\ Append(q, c) # <<>>
             /\ Len(Append(q, c)) = Len(q) + 1
             /\ \A i \in 1..Len(q) : Append(q, c)[i] = q[i]
             /\ Append(q, c)[Len(q) + 1] = c
             /\ DOMAIN Append(q, c) = 1..Len(q) + 1
  OBVIOUS
<1>3. ASSUME q # <<>>
      PROVE  /\ Head(q) \in Callings /\ Head(q) = q[1]
             /\ Tail(q) \in Seq(Callings) /\ Len(Tail(q)) = Len(q) - 1
             /\ DOMAIN Tail(q) = 1..Len(q) - 1
             /\ \A i \in 1..Len(q) - 1 : Tail(q)[i] = q[i + 1]
  BY <1>3
<1>4. ASSUME q # <<>>
      PROVE  LET front == SubSeq(q, 1, Len(q) - 1)
             IN /\ front \in Seq(Callings) /\ Len(front) = Len(q) - 1
                /\ DOMAIN front = 1..Len(q) - 1
                /\ \A i \in 1..Len(q) - 1 : front[i] = q[i]
  <2>1. PICK n \in Nat : n = Len(q) - 1
    BY <1>4
  <2>2. /\ SubSeq(q, 1, n) \in Seq(Callings)
        /\ Len(SubSeq(q, 1, n)) = IF 1 <= n THEN n - 1 + 1 ELSE 0
        /\ \A i \in 1..n - 1 + 1 : SubSeq(q, 1, n)[i] = q[1 + i - 1]
    <3>1. \A i \in 1..n : q[i] \in Callings
      BY <2>1
    <3> QED  BY <2>1, <3>1, SubSeqProperties
  <2>3. Len(SubSeq(q, 1, n)) = n /\ DOMAIN SubSeq(q, 1, n) = 1..n
    BY <2>1, <2>2
  <2>4. \A i \in 1..n : SubSeq(q, 1, n)[i] = q[i]
    <3> TAKE i \in 1..n
    <3>1. i \in 1..n - 1 + 1 /\ 1 + i - 1 = i
      BY <2>1
    <3> QED  BY <2>2, <3>1
  <2> QED  BY <2>1, <2>2, <2>3, <2>4
<1> QED  BY <1>1, <1>2, <1>3, <1>4



-----------------------------------------------------------------------------
(* Control's steps keep what is known, losing an answer and stopping included*)

LEMMA StartsKeeps ==
    ASSUME PeerIInv, Starts
    PROVE  PeerIInv'
<1>1. UNCHANGED <<waiting, ckpt, source, sender, queue, exec, result, lease, receiver, expiry,
      holder, write, dest, retries, forfeited>>
  BY DEF Starts, RestOfControl, control, commands, manager
<1>2. DestinationTyped' /\ CommandsFit' /\ LeaseIs' /\ HolderIs' /\ WriteIs'
  BY <1>1 DEF PeerIInv, DestinationTyped, CommandsFit, CommandFits, LeaseIs, HolderIs, WriteIs
<1>3. ControlTyped'
  BY <1>1 DEF PeerIInv, ControlTyped, Steps, Checkpoints, Senders, Versions, Starts,
     RestOfControl
<1>4. StepIs'
  BY RetriesAssumption, <1>1 DEF PeerIInv, StepIs, NoWrite, ControlTyped, Steps, Checkpoints,
     Senders, Versions, NoSend, DestinationTyped, Callings, Ops, Leases, LeaseStates, Writes,
       Holders, NoCall, NoLease, Free, Starts, RestOfControl
<1>5. ClaimsOnce'
  BY <1>1 DEF PeerIInv, ClaimsOnce, NoneOf, ClaimIsOver, CommandsFit, CommandFits, NoCall,
     Starts, RestOfControl
<1>6. SendFollows'
  BY <1>1 DEF PeerIInv, SendFollows, NoneOf, NoCall, NoSend, Starts, RestOfControl
<1>7. AnswerIs'
  BY <1>1 DEF PeerIInv, AnswerIs, Awaited, Idle, Verified, Free, NoCall, Starts, RestOfControl
<1>8. Kept'
  <2>1. Promised' => resumed' /\ Promised
    BY <1>1 DEF Starts, Promised
  <2> QED  BY <1>1, <2>1 DEF PeerIInv, Kept, NoneOf, ClaimIsOver
<1> QED  BY <1>2, <1>3, <1>4, <1>5, <1>6, <1>7, <1>8 DEF PeerIInv

LEMMA CallsKeeps ==
    ASSUME PeerIInv, Calls
    PROVE  PeerIInv'
<1>1. UNCHANGED <<pc, ckpt, frozen, resumed, source, sender, exec, result, lease, receiver,
      expiry,
      holder, write, dest, retries, forfeited>>
  BY DEF Calls, RestOfControl, control, commands, manager
<1>2. waiting = FALSE /\ waiting' = TRUE /\ queue \in Seq(Callings)
  BY DEF PeerIInv, Calls, ControlTyped, DestinationTyped
<1>3. PICK c \in Callings : /\ queue' = Append(queue, c) /\ c.id # 0 /\ c.version = frozen
                             /\ c.op \in Ops /\ CallOf(c.op)
  <2>1. /\ retries + 1 \in 0..MaxRetries + 1 /\ retries + 1 # 0 /\ frozen \in Versions
        /\ pc \in DOMAIN Command
        /\ queue' = Append(queue, [op |-> Command[pc], id |-> retries + 1, version |-> frozen])
    BY RetriesAssumption DEF PeerIInv, Calls, ControlTyped
  <2>2. Command[pc] \in Ops /\ CallOf(Command[pc])
    BY <2>1 DEF Command, Ops, CallOf
  <2> QED  BY <2>1, <2>2 DEF Callings
<1>4. /\ queue' \in Seq(Callings) /\ Len(queue) \in Nat /\ Len(queue') = Len(queue) + 1
      /\ DOMAIN queue = 1..Len(queue) /\ DOMAIN queue' = 1..Len(queue')
      /\ \A i \in 1..Len(queue) : queue'[i] = queue[i]
      /\ queue'[Len(queue')] = c /\ queue' # <<>>
  BY <1>2, <1>3, QueueChanges
<1>5. StepIs' /\ LeaseIs' /\ HolderIs' /\ WriteIs'
  BY <1>1 DEF PeerIInv, StepIs, LeaseIs, HolderIs, WriteIs
<1>6. ControlTyped'
  BY <1>1, <1>2, <1>3, <1>4 DEF PeerIInv, ControlTyped, Steps, Checkpoints, Senders, Versions,
     CallOf
<1>7. DestinationTyped'
  BY <1>1, <1>2, <1>3, <1>4 DEF PeerIInv, DestinationTyped, Callings, Ops, Leases, LeaseStates,
     Writes, Holders, Versions, CallOf
<1>8. CommandsFit'
  <2>1. CommandFits(c)'
    BY <1>1, <1>3, <1>2 DEF PeerIInv, StepIs, CommandFits, CallOf, Ops
  <2> QED  BY <1>1, <1>3, <1>4, <2>1 DEF PeerIInv, CommandsFit, CommandFits, Ops
<1>9. ClaimsOnce'
  <2>1. retries' = retries /\ resumed' = resumed /\ pc' = pc /\ exec' = exec
    BY <1>1
  <2>2. CASE c.op = "claim"
    <3>1. NoneOf("claim") /\ ClaimIsOver'
      BY <1>2, <1>3, <2>1, <2>2 DEF PeerIInv, ClaimsOnce, ClaimIsOver, CallOf, StepIs,
         ControlTyped
    <3> QED  BY <1>4, <2>1, <3>1 DEF ClaimsOnce, NoneOf
  <2>3. CASE c.op # "claim"
    BY <1>2, <1>4, <2>1, <2>3 DEF PeerIInv, ClaimsOnce, NoneOf, ClaimIsOver
  <2> QED  BY <2>2, <2>3
<1>10. SendFollows'
  BY <1>1, <1>2, <1>3, <1>4 DEF PeerIInv, SendFollows, NoneOf, NoCall, NoSend, CallOf
<1>11. AnswerIs'
  BY <1>1, <1>2, <1>3, <1>4 DEF PeerIInv, AnswerIs, Awaited, CallOf, Ops
<1>12. Kept'
  BY <1>1, <1>2, <1>3, <1>4 DEF PeerIInv, Kept, Promised, NoneOf, ClaimIsOver, Free, LeaseIs,
     NoLease, HolderIs, CommandsFit, CommandFits, NoCall, StepIs, NoWrite, WriteIs, AnswerIs,
       Awaited, Idle, Verified, ClaimsOnce, CallOf
<1> QED  BY <1>5, <1>6, <1>7, <1>8, <1>9, <1>10, <1>11, <1>12 DEF PeerIInv

LEMMA SendsKeeps ==
    ASSUME PeerIInv, Sends
    PROVE  PeerIInv'
<1>1. UNCHANGED <<pc, ckpt, frozen, resumed, source, queue, exec, result, lease, receiver,
      expiry,
      holder, write, dest, retries, forfeited>>
  BY DEF Sends, control, commands, manager
<1>2. DestinationTyped' /\ StepIs' /\ CommandsFit' /\ LeaseIs' /\ HolderIs'
  BY <1>1 DEF PeerIInv, DestinationTyped, StepIs, CommandsFit, CommandFits, LeaseIs, HolderIs
<1>3. ControlTyped'
  BY RetriesAssumption, <1>1 DEF PeerIInv, ControlTyped, Steps, Checkpoints, Senders, Versions,
     NoSend, DestinationTyped, Callings, Ops, Leases, LeaseStates, Writes, Holders, NoCall,
       NoLease, NoWrite, Free, Sends
<1>4. ClaimsOnce'
  BY <1>1 DEF PeerIInv, ClaimsOnce, NoneOf, ClaimIsOver, NoCall, Sends
<1>5. SendFollows'
  BY RetriesAssumption, <1>1 DEF PeerIInv, SendFollows, NoneOf, NoCall, NoSend, ControlTyped,
     Steps, Checkpoints, Senders, Versions, DestinationTyped, Callings, Ops, Leases,
       LeaseStates, Writes, Holders, NoLease, NoWrite, Free, Sends
<1>6. WriteIs'
  BY <1>1 DEF PeerIInv, WriteIs, NoWrite, Sends
<1>7. AnswerIs'
  BY <1>1 DEF PeerIInv, AnswerIs, Awaited, Idle, Verified, Free, NoCall, Sends
<1>8. Kept'
  BY <1>1 DEF PeerIInv, Kept, Promised, NoneOf, ClaimIsOver, Free, Sends
<1> QED  BY <1>2, <1>3, <1>4, <1>5, <1>6, <1>7, <1>8 DEF PeerIInv

LEMMA HearsKeeps ==
    ASSUME PeerIInv, Hears
    PROVE  PeerIInv'
<1>1. UNCHANGED <<frozen, resumed, source, sender, queue, exec, result, lease, receiver,
      expiry, holder,
      write, dest, retries, forfeited>>
  BY DEF Hears, RestOfControl, Outcome, GoOn, Cancels, Claims, FallsBack, control, commands,
     manager
<1>2. DestinationTyped' /\ HolderIs'
  BY <1>1 DEF PeerIInv, DestinationTyped, HolderIs
<1>3. ControlTyped'
  <2>1. pc' \in Steps /\ waiting' \in BOOLEAN
    BY <1>1 DEF PeerIInv, ControlTyped, Steps, Hears, RestOfControl, Outcome, GoOn, Cancels,
       Claims
  <2>2. ckpt' \in Checkpoints
    <3>1. frozen \in Versions /\ ckpt \in Checkpoints
      BY DEF PeerIInv, ControlTyped
    <3>2. \A r \in {"peer", "relay"} :
            [route |-> r, version |-> frozen, imported |-> FALSE] \in Checkpoints
      BY <3>1 DEF Checkpoints
    <3> QED  BY <1>1, <3>1, <3>2, RecordUpdates DEF Hears, RestOfControl, Outcome, GoOn,
      Cancels, Claims
  <2>3. sender' \in Senders
    BY <1>1, RecordUpdates, RestsAreTyped DEF PeerIInv, ControlTyped, Hears, RestOfControl,
       Outcome, GoOn, Cancels, Claims
  <2>4. retries' \in 0..MaxRetries /\ frozen' \in Versions /\ resumed' \in BOOLEAN
        /\ source' \in {"a", "b"}
    BY <1>1 DEF PeerIInv, ControlTyped
  <2>5. forfeited' \in BOOLEAN
    BY <1>1 DEF PeerIInv, ControlTyped, Hears, RestOfControl, Outcome, GoOn, Cancels, Claims
  <2> QED  BY <2>1, <2>2, <2>3, <2>4, <2>5 DEF ControlTyped
<1>4. StepIs'
  BY <1>1 DEF PeerIInv, StepIs, NoWrite, Hears, RestOfControl, Outcome, GoOn, Cancels, Claims,
     FallsBack
<1>5. CommandsFit'
  BY <1>1 DEF PeerIInv, CommandsFit, CommandFits, NoCall, Hears, RestOfControl, Outcome, GoOn,
     Cancels, Claims, FallsBack
<1>6. ClaimsOnce'
  BY <1>1 DEF PeerIInv, ClaimsOnce, NoneOf, ClaimIsOver, NoCall, Hears, RestOfControl, Outcome,
     GoOn, Cancels, Claims, FallsBack
<1>7. SendFollows'
  BY <1>1 DEF PeerIInv, SendFollows, NoneOf, NoCall, NoSend, Hears, RestOfControl, Outcome,
     GoOn, Cancels, Claims, FallsBack
<1>8. LeaseIs'
  BY <1>1 DEF PeerIInv, LeaseIs, NoLease, Free, HolderIs, CommandsFit, CommandFits, NoCall,
     AnswerIs, Awaited, Idle, Verified, WriteIs, NoWrite, StepIs, Hears, RestOfControl,
       Outcome, GoOn, Cancels, Claims, FallsBack
<1>9. WriteIs'
  BY <1>1 DEF PeerIInv, WriteIs, NoWrite, LeaseIs, NoLease, Free, HolderIs, CommandsFit,
     CommandFits, NoCall, StepIs, SendFollows, NoneOf, NoSend, Hears, RestOfControl, Outcome,
       GoOn, Cancels, Claims, FallsBack
<1>10. AnswerIs'
  BY <1>1 DEF PeerIInv, AnswerIs, Awaited, Idle, Verified, Free, NoCall, Hears, RestOfControl,
     Outcome, GoOn, Cancels, Claims, FallsBack
<1>11. Kept'
  BY <1>1 DEF PeerIInv, Kept, Promised, NoneOf, ClaimIsOver, Free, Hears, RestOfControl,
     Outcome, GoOn, Cancels, Claims, FallsBack
<1> QED  BY <1>2, <1>3, <1>4, <1>5, <1>6, <1>7, <1>8, <1>9, <1>10, <1>11 DEF PeerIInv

LEMMA HearsSenderKeeps ==
    ASSUME PeerIInv, HearsSender
    PROVE  PeerIInv'
<1>1. UNCHANGED <<frozen, resumed, source, queue, exec, result, lease, receiver, expiry,
      holder, write,
      dest, retries, forfeited>>
  BY DEF HearsSender, Outcome, GoOn, Cancels, Claims, FallsBack, control, commands, manager
<1>2. DestinationTyped' /\ HolderIs'
  BY <1>1 DEF PeerIInv, DestinationTyped, HolderIs
<1>3. ControlTyped'
  <2>1. pc' \in Steps /\ waiting' \in BOOLEAN
    BY <1>1 DEF PeerIInv, ControlTyped, Steps, HearsSender, Outcome, GoOn, Cancels, Claims
  <2>2. ckpt' \in Checkpoints
    <3>1. frozen \in Versions /\ ckpt \in Checkpoints
      BY DEF PeerIInv, ControlTyped
    <3>2. \A r \in {"peer", "relay"} :
            [route |-> r, version |-> frozen, imported |-> FALSE] \in Checkpoints
      BY <3>1 DEF Checkpoints
    <3> QED  BY <1>1, <3>1, <3>2, RecordUpdates DEF HearsSender, Outcome, GoOn, Cancels, Claims
  <2>3. sender' \in Senders
    BY <1>1, RecordUpdates, RestsAreTyped DEF PeerIInv, ControlTyped, HearsSender, Outcome,
       GoOn, Cancels, Claims
  <2>4. retries' \in 0..MaxRetries /\ frozen' \in Versions /\ resumed' \in BOOLEAN
        /\ source' \in {"a", "b"}
    BY <1>1 DEF PeerIInv, ControlTyped
  <2>5. forfeited' \in BOOLEAN
    BY <1>1 DEF PeerIInv, ControlTyped, HearsSender, Outcome, GoOn, Cancels, Claims
  <2> QED  BY <2>1, <2>2, <2>3, <2>4, <2>5 DEF ControlTyped
<1>4. StepIs'
  BY <1>1 DEF PeerIInv, StepIs, NoWrite, HearsSender, Outcome, GoOn, Cancels, Claims, FallsBack
<1>5. CommandsFit'
  BY <1>1 DEF PeerIInv, CommandsFit, CommandFits, NoCall, HearsSender, Outcome, GoOn, Cancels,
     Claims, FallsBack
<1>6. ClaimsOnce'
  BY <1>1 DEF PeerIInv, ClaimsOnce, NoneOf, ClaimIsOver, NoCall, HearsSender, Outcome, GoOn,
     Cancels, Claims, FallsBack
<1>7. SendFollows'
  BY RetriesAssumption, <1>1 DEF PeerIInv, SendFollows, NoneOf, NoCall, NoSend, ControlTyped,
     Steps, Checkpoints, Senders, Versions, DestinationTyped, Callings, Ops, Leases,
       LeaseStates, Writes, Holders, NoLease, NoWrite, Free, HearsSender, Outcome, GoOn,
         Cancels, Claims, FallsBack
<1>8. LeaseIs'
  BY <1>1 DEF PeerIInv, LeaseIs, NoLease, Free, HearsSender, Outcome, GoOn, Cancels, Claims,
     FallsBack
<1>9. WriteIs'
  BY RetriesAssumption, <1>1 DEF PeerIInv, WriteIs, NoWrite, ControlTyped, Steps, Checkpoints,
     Senders, Versions, NoSend, DestinationTyped, Callings, Ops, Leases, LeaseStates, Writes,
       Holders, NoCall, NoLease, Free, HearsSender, Outcome, GoOn, Cancels, Claims, FallsBack
<1>10. AnswerIs'
  BY <1>1 DEF PeerIInv, AnswerIs, Awaited, Idle, Verified, Free, NoCall, HearsSender, Outcome,
     GoOn, Cancels, Claims, FallsBack
<1>11. Kept'
  BY <1>1 DEF PeerIInv, Kept, Promised, NoneOf, ClaimIsOver, Free, HearsSender, Outcome, GoOn,
     Cancels, Claims, FallsBack
<1> QED  BY <1>2, <1>3, <1>4, <1>5, <1>6, <1>7, <1>8, <1>9, <1>10, <1>11 DEF PeerIInv

LEMMA RecordsKeeps ==
    ASSUME PeerIInv, Records
    PROVE  PeerIInv'
<1>1. UNCHANGED <<waiting, frozen, resumed, source, sender, queue, exec, result, lease,
      receiver,
      expiry, holder, write, dest, retries, forfeited>>
  BY DEF Records, RestOfControl, control, commands, manager
<1>2. DestinationTyped' /\ HolderIs'
  BY <1>1 DEF PeerIInv, DestinationTyped, HolderIs
<1>3. ControlTyped'
  <2>1. pc' \in Steps /\ waiting' \in BOOLEAN
    BY <1>1 DEF PeerIInv, ControlTyped, Steps, Records, RestOfControl
  <2>2. ckpt' \in Checkpoints
    <3>1. frozen \in Versions /\ ckpt \in Checkpoints
      BY DEF PeerIInv, ControlTyped
    <3>2. \A r \in {"peer", "relay"} :
            [route |-> r, version |-> frozen, imported |-> FALSE] \in Checkpoints
      BY <3>1 DEF Checkpoints
    <3> QED  BY <1>1, <3>1, <3>2, RecordUpdates DEF Records, RestOfControl
  <2>3. sender' \in Senders
    BY <1>1, RecordUpdates, RestsAreTyped DEF PeerIInv, ControlTyped, Records, RestOfControl
  <2>4. retries' \in 0..MaxRetries /\ frozen' \in Versions /\ resumed' \in BOOLEAN
        /\ source' \in {"a", "b"}
    BY <1>1 DEF PeerIInv, ControlTyped
  <2>5. forfeited' \in BOOLEAN
    BY <1>1 DEF PeerIInv, ControlTyped, Records, RestOfControl
  <2> QED  BY <2>1, <2>2, <2>3, <2>4, <2>5 DEF ControlTyped
<1>4. StepIs'
  BY RetriesAssumption, <1>1 DEF PeerIInv, StepIs, NoWrite, ControlTyped, Steps, Checkpoints,
     Senders, Versions, NoSend, DestinationTyped, Callings, Ops, Leases, LeaseStates, Writes,
       Holders, NoCall, NoLease, Free, Records, RestOfControl
<1>5. CommandsFit'
  BY <1>1 DEF PeerIInv, CommandsFit, CommandFits, NoCall, StepIs, NoWrite, AnswerIs, Awaited,
     Idle, Verified, Free, Records, RestOfControl
<1>6. ClaimsOnce'
  BY <1>1 DEF PeerIInv, ClaimsOnce, NoneOf, ClaimIsOver, NoCall, Records, RestOfControl
<1>7. SendFollows'
  BY <1>1 DEF PeerIInv, SendFollows, NoneOf, NoCall, NoSend, Records, RestOfControl
<1>8. LeaseIs'
  BY RetriesAssumption, <1>1 DEF PeerIInv, LeaseIs, NoLease, Free, ControlTyped, Steps,
     Checkpoints, Senders, Versions, NoSend, DestinationTyped, Callings, Ops, Leases,
       LeaseStates, Writes, Holders, NoCall, NoWrite, HolderIs, CommandsFit, CommandFits,
         AnswerIs, Awaited, Idle, Verified, WriteIs, StepIs, Records, RestOfControl
<1>9. WriteIs'
  BY RetriesAssumption, <1>1 DEF PeerIInv, WriteIs, NoWrite, ControlTyped, Steps, Checkpoints,
     Senders, Versions, NoSend, DestinationTyped, Callings, Ops, Leases, LeaseStates, Writes,
       Holders, NoCall, NoLease, Free, LeaseIs, HolderIs, CommandsFit, CommandFits, StepIs,
         SendFollows, NoneOf, Records, RestOfControl
<1>10. AnswerIs'
  BY <1>1 DEF PeerIInv, AnswerIs, Awaited, Idle, Verified, Free, NoCall, Records, RestOfControl
<1>11. Kept'
  BY RetriesAssumption, <1>1 DEF PeerIInv, Kept, Promised, NoneOf, ClaimIsOver, Free,
     ControlTyped, Steps, Checkpoints, Senders, Versions, NoSend, DestinationTyped, Callings,
       Ops, Leases, LeaseStates, Writes, Holders, NoCall, NoLease, NoWrite, LeaseIs, HolderIs,
         CommandsFit, CommandFits, StepIs, WriteIs, AnswerIs, Awaited, Idle, Verified,
           ClaimsOnce, Records, RestOfControl
<1> QED  BY <1>2, <1>3, <1>4, <1>5, <1>6, <1>7, <1>8, <1>9, <1>10, <1>11 DEF PeerIInv

LEMMA RecordFailsKeeps ==
    ASSUME PeerIInv, RecordFails
    PROVE  PeerIInv'
<1>1. UNCHANGED <<waiting, ckpt, frozen, resumed, source, sender, queue, exec, result, lease,
      receiver,
      expiry, holder, write, dest, retries, forfeited>>
  BY DEF RecordFails, GoOn, Claims, Fault, RestOfControl, control, commands, manager
<1>2. DestinationTyped' /\ HolderIs'
  BY <1>1 DEF PeerIInv, DestinationTyped, HolderIs
<1>3. ControlTyped'
  <2>1. pc' \in Steps /\ waiting' \in BOOLEAN
    BY <1>1 DEF PeerIInv, ControlTyped, Steps, RecordFails, GoOn, Claims, Fault, RestOfControl
  <2>2. ckpt' \in Checkpoints
    <3>1. frozen \in Versions /\ ckpt \in Checkpoints
      BY DEF PeerIInv, ControlTyped
    <3>2. \A r \in {"peer", "relay"} :
            [route |-> r, version |-> frozen, imported |-> FALSE] \in Checkpoints
      BY <3>1 DEF Checkpoints
    <3> QED  BY <1>1, <3>1, <3>2, RecordUpdates DEF RecordFails, GoOn, Claims, Fault,
      RestOfControl
  <2>3. sender' \in Senders
    BY <1>1, RecordUpdates, RestsAreTyped DEF PeerIInv, ControlTyped, RecordFails, GoOn,
       Claims, Fault, RestOfControl
  <2>4. retries' \in 0..MaxRetries /\ frozen' \in Versions /\ resumed' \in BOOLEAN
        /\ source' \in {"a", "b"}
    BY <1>1 DEF PeerIInv, ControlTyped
  <2>5. forfeited' \in BOOLEAN
    BY <1>1 DEF PeerIInv, ControlTyped, RecordFails, GoOn, Claims, Fault, RestOfControl
  <2> QED  BY <2>1, <2>2, <2>3, <2>4, <2>5 DEF ControlTyped
<1>4. StepIs'
  BY RetriesAssumption, <1>1 DEF PeerIInv, StepIs, NoWrite, ControlTyped, Steps, Checkpoints,
     Senders, Versions, NoSend, DestinationTyped, Callings, Ops, Leases, LeaseStates, Writes,
       Holders, NoCall, NoLease, Free, RecordFails, GoOn, Claims, Fault, RestOfControl
<1>5. CommandsFit'
  BY <1>1 DEF PeerIInv, CommandsFit, CommandFits, NoCall, StepIs, NoWrite, AnswerIs, Awaited,
     Idle, Verified, Free, RecordFails, GoOn, Claims, Fault, RestOfControl
<1>6. ClaimsOnce'
  BY <1>1 DEF PeerIInv, ClaimsOnce, NoneOf, ClaimIsOver, NoCall, RecordFails, GoOn, Claims,
     Fault, RestOfControl
<1>7. SendFollows'
  BY <1>1 DEF PeerIInv, SendFollows, NoneOf, NoCall, NoSend, RecordFails, GoOn, Claims, Fault,
     RestOfControl
<1>8. LeaseIs'
  BY RetriesAssumption, <1>1 DEF PeerIInv, LeaseIs, NoLease, Free, ControlTyped, Steps,
     Checkpoints, Senders, Versions, NoSend, DestinationTyped, Callings, Ops, Leases,
       LeaseStates, Writes, Holders, NoCall, NoWrite, HolderIs, CommandsFit, CommandFits,
         AnswerIs, Awaited, Idle, Verified, WriteIs, StepIs, RecordFails, GoOn, Claims, Fault,
           RestOfControl
<1>9. WriteIs'
  BY RetriesAssumption, <1>1 DEF PeerIInv, WriteIs, NoWrite, ControlTyped, Steps, Checkpoints,
     Senders, Versions, NoSend, DestinationTyped, Callings, Ops, Leases, LeaseStates, Writes,
       Holders, NoCall, NoLease, Free, LeaseIs, HolderIs, CommandsFit, CommandFits, StepIs,
         SendFollows, NoneOf, RecordFails, GoOn, Claims, Fault, RestOfControl
<1>10. AnswerIs'
  BY <1>1 DEF PeerIInv, AnswerIs, Awaited, Idle, Verified, Free, NoCall, RecordFails, GoOn,
     Claims, Fault, RestOfControl
<1>11. Kept'
  BY RetriesAssumption, <1>1 DEF PeerIInv, Kept, Promised, NoneOf, ClaimIsOver, Free,
     ControlTyped, Steps, Checkpoints, Senders, Versions, NoSend, DestinationTyped, Callings,
       Ops, Leases, LeaseStates, Writes, Holders, NoCall, NoLease, NoWrite, LeaseIs, HolderIs,
         CommandsFit, CommandFits, StepIs, WriteIs, AnswerIs, Awaited, Idle, Verified,
           ClaimsOnce, RecordFails, GoOn, Claims, Fault, RestOfControl
<1> QED  BY <1>2, <1>3, <1>4, <1>5, <1>6, <1>7, <1>8, <1>9, <1>10, <1>11 DEF PeerIInv

LEMMA LosesAnswerKeeps ==
    ASSUME PeerIInv, LosesAnswer
    PROVE  PeerIInv'
<1>1. UNCHANGED <<frozen, resumed, source, sender, exec, result, lease, receiver, expiry,
      holder, write,
      dest, retries, forfeited>>
  BY DEF LosesAnswer, RestOfControl, Outcome, GoOn, Cancels, Claims, FallsBack, Fault, control,
     commands, manager
<1>2. /\ queue' \in Seq(Callings) /\ Len(queue) \in Nat /\ Len(queue') \in Nat
      /\ DOMAIN queue = 1..Len(queue) /\ DOMAIN queue' = 1..Len(queue')
      /\ Len(queue') <= Len(queue) /\ \A i \in 1..Len(queue') : queue'[i] = queue[i]
  <2>1. queue \in Seq(Callings)
    BY DEF PeerIInv, DestinationTyped
  <2>2. CASE queue' = queue
    BY <2>1, <2>2, QueueChanges
  <2>3. CASE queue' = <<>>
    BY <2>1, <2>3, QueueChanges
  <2>4. CASE queue # <<>> /\ queue' = SubSeq(queue, 1, Len(queue) - 1)
    <3>1. Len(queue) \in Nat /\ Len(queue) # 0 /\ Len(queue') = Len(queue) - 1
      BY <2>1, <2>4, QueueChanges
    <3> QED  BY <2>1, <2>4, <3>1, QueueChanges
  <2> QED  BY <2>2, <2>3, <2>4 DEF LosesAnswer, RestOfControl, Abandons
<1>3. HolderIs'
  BY <1>1 DEF PeerIInv, HolderIs
<1>4. ControlTyped'
  BY <1>1, <1>2 DEF PeerIInv, ControlTyped, Steps, Checkpoints, Senders, Versions, LosesAnswer,
     RestOfControl, Outcome, GoOn, Cancels, Claims, FallsBack, Fault
<1>5. DestinationTyped'
  BY <1>1, <1>2 DEF PeerIInv, DestinationTyped, Callings, Ops, Leases, LeaseStates, Writes,
     Holders, Versions, LosesAnswer, RestOfControl, Outcome, GoOn, Cancels, Claims, FallsBack,
       Fault
<1>6. StepIs'
  BY <1>1, <1>2 DEF PeerIInv, StepIs, NoWrite, LosesAnswer, RestOfControl, Outcome, GoOn,
     Cancels, Claims, FallsBack, Fault
<1>7. CommandsFit'
  BY <1>1, <1>2 DEF PeerIInv, CommandsFit, CommandFits, NoCall, LosesAnswer, RestOfControl,
     Outcome, GoOn, Cancels, Claims, FallsBack, Fault
<1>8. ClaimsOnce'
  <2>1. NoneOf("claim") => NoneOf("claim")'
    BY <1>1, <1>2 DEF NoneOf
  <2>2. ClaimIsOver => ClaimIsOver'
    BY <1>1 DEF PeerIInv, ControlTyped, StepIs, ClaimIsOver, LosesAnswer, Outcome, GoOn,
       Cancels, Claims
  <2> QED  BY <1>1, <1>2, <2>1, <2>2 DEF PeerIInv, ClaimsOnce, NoneOf
<1>9. SendFollows'
  <2>1. NoneOf("prepare") => NoneOf("prepare")'
    BY <1>1, <1>2 DEF NoneOf
  <2>2. pc' \notin {"start", "prepare", "send"}
    BY DEF LosesAnswer, Outcome, GoOn, Cancels, Claims
  <2> QED  BY <1>1, <2>1, <2>2 DEF PeerIInv, SendFollows
<1>10. LeaseIs'
  BY <1>1, <1>2 DEF PeerIInv, LeaseIs, NoLease, Free, LosesAnswer, RestOfControl, Outcome,
     GoOn, Cancels, Claims, FallsBack, Fault
<1>11. WriteIs'
  BY <1>1, <1>2 DEF PeerIInv, WriteIs, NoWrite, LosesAnswer, RestOfControl, Outcome, GoOn,
     Cancels, Claims, FallsBack, Fault
<1>12. AnswerIs'
  BY <1>1, <1>2 DEF PeerIInv, AnswerIs, Awaited, Idle, Verified, Free, NoCall, LosesAnswer,
     RestOfControl, Outcome, GoOn, Cancels, Claims, FallsBack, Fault
<1>13. Kept'
  BY <1>1, <1>2 DEF PeerIInv, Kept, Promised, NoneOf, ClaimIsOver, Free, LosesAnswer,
     RestOfControl, Outcome, GoOn, Cancels, Claims, FallsBack, Fault
<1> QED  BY <1>3, <1>4, <1>5, <1>6, <1>7, <1>8, <1>9, <1>10, <1>11, <1>12, <1>13 DEF PeerIInv

LEMMA InterruptedKeeps ==
    ASSUME PeerIInv, Interrupted
    PROVE  PeerIInv'
<1>1. UNCHANGED <<ckpt, frozen, resumed, source, sender, exec, result, lease, receiver, expiry,
      holder,
      write, dest, retries, forfeited>>
  BY DEF Interrupted, RestOfControl, GoOn, Claims, Fault, control, commands, manager
<1>2. /\ queue' \in Seq(Callings) /\ Len(queue) \in Nat /\ Len(queue') \in Nat
      /\ DOMAIN queue = 1..Len(queue) /\ DOMAIN queue' = 1..Len(queue')
      /\ Len(queue') <= Len(queue) /\ \A i \in 1..Len(queue') : queue'[i] = queue[i]
  <2>1. queue \in Seq(Callings)
    BY DEF PeerIInv, DestinationTyped
  <2>2. CASE queue' = queue
    BY <2>1, <2>2, QueueChanges
  <2>3. CASE queue' = <<>>
    BY <2>1, <2>3, QueueChanges
  <2>4. CASE queue # <<>> /\ queue' = SubSeq(queue, 1, Len(queue) - 1)
    <3>1. Len(queue) \in Nat /\ Len(queue) # 0 /\ Len(queue') = Len(queue) - 1
      BY <2>1, <2>4, QueueChanges
    <3> QED  BY <2>1, <2>4, <3>1, QueueChanges
  <2> QED  BY <2>2, <2>3, <2>4 DEF Interrupted, RestOfControl, Abandons
<1>3. LeaseIs' /\ HolderIs' /\ WriteIs'
  BY <1>1 DEF PeerIInv, LeaseIs, HolderIs, WriteIs
<1>4. ControlTyped'
  BY <1>1, <1>2, ZenonT(60) DEF PeerIInv, ControlTyped, Steps, Checkpoints, Senders, Versions,
     Interrupted,
     RestOfControl, GoOn, Claims, Fault
<1>5. DestinationTyped'
  BY <1>1, <1>2 DEF PeerIInv, DestinationTyped, Callings, Ops, Leases, LeaseStates, Writes,
     Holders, Versions, Interrupted, RestOfControl, GoOn, Claims, Fault
<1>6. StepIs'
  BY <1>1, <1>2 DEF PeerIInv, StepIs, NoWrite, Interrupted, RestOfControl, GoOn, Claims, Fault
<1>7. CommandsFit'
  BY <1>1, <1>2 DEF PeerIInv, CommandsFit, CommandFits, NoCall, Interrupted, RestOfControl,
     GoOn, Claims, Fault
<1>8. ClaimsOnce'
  <2>1. NoneOf("claim") => NoneOf("claim")'
    BY <1>1, <1>2 DEF NoneOf
  <2>2. ClaimIsOver => ClaimIsOver'
    BY <1>1 DEF PeerIInv, ControlTyped, StepIs, ClaimIsOver, Interrupted, GoOn, Claims
  <2> QED  BY <1>1, <1>2, <2>1, <2>2 DEF PeerIInv, ClaimsOnce, NoneOf
<1>9. SendFollows'
  <2>1. NoneOf("prepare") => NoneOf("prepare")'
    BY <1>1, <1>2 DEF NoneOf
  <2>2. pc' \notin {"start", "prepare", "send"}
    BY DEF Interrupted, GoOn, Claims
  <2> QED  BY <1>1, <2>1, <2>2 DEF PeerIInv, SendFollows
<1>10. AnswerIs'
  BY <1>1, <1>2 DEF PeerIInv, AnswerIs, Awaited, Idle, Verified, Free, NoCall, Interrupted,
     RestOfControl, GoOn, Claims, Fault
<1>11. Kept'
  BY <1>1, <1>2 DEF PeerIInv, Kept, Promised, NoneOf, ClaimIsOver, Free, Interrupted,
     RestOfControl, GoOn, Claims, Fault
<1> QED  BY <1>3, <1>4, <1>5, <1>6, <1>7, <1>8, <1>9, <1>10, <1>11 DEF PeerIInv

LEMMA ControlCrashKeeps ==
    ASSUME PeerIInv, ControlCrash
    PROVE  PeerIInv'
<1>1. UNCHANGED <<ckpt, frozen, resumed, source, sender, exec, result, lease, receiver, expiry,
      holder,
      write, dest, retries, forfeited>>
  BY DEF ControlCrash, RestOfControl, Fault, control, commands, manager
<1>2. /\ queue' \in Seq(Callings) /\ Len(queue) \in Nat /\ Len(queue') \in Nat
      /\ DOMAIN queue = 1..Len(queue) /\ DOMAIN queue' = 1..Len(queue')
      /\ Len(queue') <= Len(queue) /\ \A i \in 1..Len(queue') : queue'[i] = queue[i]
  <2>1. queue \in Seq(Callings)
    BY DEF PeerIInv, DestinationTyped
  <2>2. CASE queue' = queue
    BY <2>1, <2>2, QueueChanges
  <2>3. CASE queue' = <<>>
    BY <2>1, <2>3, QueueChanges
  <2>4. CASE queue # <<>> /\ queue' = SubSeq(queue, 1, Len(queue) - 1)
    <3>1. Len(queue) \in Nat /\ Len(queue) # 0 /\ Len(queue') = Len(queue) - 1
      BY <2>1, <2>4, QueueChanges
    <3> QED  BY <2>1, <2>4, <3>1, QueueChanges
  <2> QED  BY <2>2, <2>3, <2>4 DEF ControlCrash, Abandons
<1>3. LeaseIs' /\ HolderIs' /\ WriteIs'
  BY <1>1 DEF PeerIInv, LeaseIs, HolderIs, WriteIs
<1>4. ControlTyped'
  BY <1>1, <1>2 DEF PeerIInv, ControlTyped, Steps, Checkpoints, Senders, Versions,
     ControlCrash, RestOfControl, Fault
<1>5. DestinationTyped'
  BY <1>1, <1>2 DEF PeerIInv, DestinationTyped, Callings, Ops, Leases, LeaseStates, Writes,
     Holders, Versions, ControlCrash, RestOfControl, Fault
<1>6. StepIs'
  BY <1>1, <1>2 DEF PeerIInv, StepIs, NoWrite, ControlCrash, RestOfControl, Fault
<1>7. CommandsFit'
  BY <1>1, <1>2 DEF PeerIInv, CommandsFit, CommandFits, NoCall, ControlCrash, RestOfControl,
     Fault
<1>8. ClaimsOnce'
  <2>1. NoneOf("claim") => NoneOf("claim")'
    BY <1>1, <1>2 DEF NoneOf
  <2>2. ClaimIsOver => ClaimIsOver'
    BY <1>1 DEF PeerIInv, ControlTyped, StepIs, ClaimIsOver, ControlCrash
  <2> QED  BY <1>1, <1>2, <2>1, <2>2 DEF PeerIInv, ClaimsOnce, NoneOf
<1>9. SendFollows'
  <2>1. NoneOf("prepare") => NoneOf("prepare")'
    BY <1>1, <1>2 DEF NoneOf
  <2>2. pc' \notin {"start", "prepare", "send"}
    BY DEF ControlCrash
  <2> QED  BY <1>1, <2>1, <2>2 DEF PeerIInv, SendFollows
<1>10. AnswerIs'
  BY <1>1, <1>2 DEF PeerIInv, AnswerIs, Awaited, Idle, Verified, Free, NoCall, ControlCrash,
     RestOfControl, Fault
<1>11. Kept'
  BY <1>1, <1>2 DEF PeerIInv, Kept, Promised, NoneOf, ClaimIsOver, Free, ControlCrash,
     RestOfControl, Fault
<1> QED  BY <1>3, <1>4, <1>5, <1>6, <1>7, <1>8, <1>9, <1>10, <1>11 DEF PeerIInv

LEMMA RetryKeeps ==
    ASSUME PeerIInv, Retry
    PROVE  PeerIInv'
<1>1. UNCHANGED <<waiting, ckpt, frozen, resumed, source, sender, queue, exec, result, lease,
      receiver,
      expiry, holder, write, dest, forfeited>>
  BY DEF Retry, control, commands, manager
<1>2. DestinationTyped' /\ CommandsFit' /\ LeaseIs' /\ HolderIs'
  BY <1>1 DEF PeerIInv, DestinationTyped, CommandsFit, CommandFits, LeaseIs, HolderIs
<1>3. ControlTyped'
  BY RetriesAssumption, <1>1 DEF PeerIInv, ControlTyped, Steps, Checkpoints, Senders, Versions,
     NoSend, DestinationTyped, Callings, Ops, Leases, LeaseStates, Writes, Holders, NoCall,
       NoLease, NoWrite, Free, Retry
<1>4. StepIs'
  BY <1>1 DEF PeerIInv, StepIs, NoWrite, Retry
<1>5. ClaimsOnce'
  BY RetriesAssumption, <1>1 DEF PeerIInv, ClaimsOnce, NoneOf, ClaimIsOver, NoCall,
     ControlTyped, Steps, Checkpoints, Senders, Versions, NoSend, DestinationTyped, Callings,
       Ops, Leases, LeaseStates, Writes, Holders, NoLease, NoWrite, Free, Retry
<1>6. SendFollows'
  BY RetriesAssumption, <1>1 DEF PeerIInv, SendFollows, NoneOf, NoCall, NoSend, ControlTyped,
     Steps, Checkpoints, Senders, Versions, DestinationTyped, Callings, Ops, Leases,
       LeaseStates, Writes, Holders, NoLease, NoWrite, Free, Retry
<1>7. WriteIs'
  BY <1>1 DEF PeerIInv, WriteIs, NoWrite, LeaseIs, NoLease, Free, HolderIs, CommandsFit,
     CommandFits, NoCall, StepIs, SendFollows, NoneOf, NoSend, Retry
<1>8. AnswerIs'
  BY <1>1 DEF PeerIInv, AnswerIs, Awaited, Idle, Verified, Free, NoCall, Retry
<1>9. Kept'
  BY RetriesAssumption, <1>1 DEF PeerIInv, Kept, Promised, NoneOf, ClaimIsOver, Free,
     ControlTyped, Steps, Checkpoints, Senders, Versions, NoSend, DestinationTyped, Callings,
       Ops, Leases, LeaseStates, Writes, Holders, NoCall, NoLease, NoWrite, Retry
<1> QED  BY <1>2, <1>3, <1>4, <1>5, <1>6, <1>7, <1>8, <1>9 DEF PeerIInv

-----------------------------------------------------------------------------
(* The commands at the destination keep it                                 *)

LEMMA TakesKeeps ==
    ASSUME PeerIInv, Takes
    PROVE  PeerIInv'
<1>1. UNCHANGED <<pc, waiting, ckpt, frozen, resumed, source, sender, result, lease, receiver,
      expiry,
      holder, write, dest, retries, forfeited>>
  BY DEF Takes, Outside, control, commands, manager
<1>2. /\ exec = NoCall /\ exec' = queue[1] /\ exec' \in Callings /\ queue' \in Seq(Callings)
      /\ Len(queue) \in Nat \ {0} /\ Len(queue') = Len(queue) - 1
      /\ DOMAIN queue = 1..Len(queue) /\ DOMAIN queue' = 1..Len(queue')
      /\ \A i \in 1..Len(queue') : queue'[i] = queue[i + 1]
      /\ queue # <<>> /\ (queue' = <<>> <=> Len(queue) = 1)
  <2>1. queue \in Seq(Callings) /\ queue # <<>> /\ exec = NoCall
        /\ exec' = Head(queue) /\ queue' = Tail(queue)
    BY DEF PeerIInv, DestinationTyped, Takes
  <2>2. /\ queue' \in Seq(Callings) /\ Len(queue) \in Nat /\ Len(queue) # 0
        /\ Len(queue') = Len(queue) - 1 /\ exec' \in Callings
    BY <2>1, QueueChanges
  <2>3. queue' = <<>> <=> Len(queue') = 0
    BY <2>2, QueueChanges
  <2>4. /\ DOMAIN queue = 1..Len(queue) /\ DOMAIN queue' = 1..Len(queue')
        /\ exec' = queue[1] /\ \A i \in 1..Len(queue') : queue'[i] = queue[i + 1]
    BY <2>1, <2>2, QueueChanges
  <2> QED  BY <2>1, <2>2, <2>3, <2>4
<1>3. ControlTyped' /\ StepIs' /\ LeaseIs' /\ WriteIs'
  BY <1>1 DEF PeerIInv, ControlTyped, StepIs, LeaseIs, WriteIs
<1>4. DestinationTyped'
  BY <1>1, <1>2 DEF PeerIInv, DestinationTyped, Callings, Ops, Leases, LeaseStates, Writes,
     Holders, Versions
<1>5. CommandsFit'
  BY <1>1, <1>2 DEF PeerIInv, CommandsFit, CommandFits, NoCall
<1>6. ClaimsOnce'
  <2>1. NoneOf("claim") => NoneOf("claim")'
    <3>1. \A i \in 1..Len(queue') : i + 1 \in 1..Len(queue)
      BY <1>2
    <3>2. 1 \in 1..Len(queue)
      BY <1>2
    <3> QED  BY <1>2, <3>1, <3>2 DEF NoneOf
  <2>2. ClaimIsOver' = ClaimIsOver
    BY <1>1 DEF ClaimIsOver
  <2>3. \A i, j \in DOMAIN queue' : queue'[i].op = "claim" /\ queue'[j].op = "claim" => i = j
    <3> SUFFICES ASSUME NEW i \in DOMAIN queue', NEW j \in DOMAIN queue',
                        queue'[i].op = "claim", queue'[j].op = "claim"
                 PROVE  i = j
      OBVIOUS
    <3>1. i \in Nat /\ j \in Nat /\ i + 1 \in DOMAIN queue /\ j + 1 \in DOMAIN queue
      BY <1>2
    <3>2. queue[i + 1].op = "claim" /\ queue[j + 1].op = "claim"
      BY <1>2
    <3>3. i + 1 = j + 1
      BY <3>1, <3>2 DEF PeerIInv, ClaimsOnce
    <3> QED  BY <3>1, <3>3
  <2>4. exec'.op = "claim" => \A i \in DOMAIN queue' : queue'[i].op # "claim"
    <3> SUFFICES ASSUME NEW i \in DOMAIN queue', queue[1].op = "claim", queue'[i].op = "claim"
                 PROVE  FALSE
      BY <1>2
    <3>1. i \in 1..Len(queue') /\ i + 1 \in DOMAIN queue /\ 1 \in DOMAIN queue /\ i + 1 # 1
      BY <1>2
    <3>2. queue[i + 1].op = "claim"
      BY <1>2, <3>1
    <3> QED  BY <3>1, <3>2 DEF PeerIInv, ClaimsOnce
  <2> QED  BY <2>1, <2>2, <2>3, <2>4 DEF PeerIInv, ClaimsOnce
<1>7. SendFollows'
  <2>1. NoneOf("prepare") => NoneOf("prepare")'
    <3>1. \A i \in 1..Len(queue') : i + 1 \in 1..Len(queue)
      BY <1>2
    <3>2. 1 \in 1..Len(queue)
      BY <1>2
    <3> QED  BY <1>2, <3>1, <3>2 DEF NoneOf
  <2> QED  BY <1>1, <2>1 DEF PeerIInv, SendFollows
<1>8. HolderIs'
  BY RetriesAssumption, <1>1, <1>2 DEF PeerIInv, HolderIs, Free, ControlTyped, Steps,
     Checkpoints, Senders, Versions, NoSend, DestinationTyped, Callings, Ops, Leases,
       LeaseStates, Writes, Holders, NoCall, NoLease, NoWrite
<1>9. AnswerIs'
  BY <1>1, <1>2 DEF PeerIInv, AnswerIs, Awaited, Idle, Verified, NoCall
<1>10. Kept'
  <2>1. NoneOf("claim") => NoneOf("claim")'
    <3>1. \A i \in 1..Len(queue') : i + 1 \in 1..Len(queue)
      BY <1>2
    <3>2. 1 \in 1..Len(queue)
      BY <1>2
    <3> QED  BY <1>2, <3>1, <3>2 DEF NoneOf
  <2> QED  BY <1>1, <2>1 DEF PeerIInv, Kept, Promised, ClaimIsOver
<1> QED  BY <1>3, <1>4, <1>5, <1>6, <1>7, <1>8, <1>9, <1>10 DEF PeerIInv

LEMMA PrepareRefusedKeeps ==
    ASSUME PeerIInv, PrepareRefused
    PROVE  PeerIInv'
<1>1. UNCHANGED <<pc, waiting, ckpt, frozen, resumed, source, sender, queue, lease, receiver,
      expiry,
      holder, write, dest, retries, forfeited>>
  BY DEF PrepareRefused, Replies, Outside, Fault, control, commands, manager
<1>2. ControlTyped' /\ StepIs' /\ LeaseIs' /\ WriteIs'
  BY <1>1 DEF PeerIInv, ControlTyped, StepIs, LeaseIs, WriteIs
<1>3. DestinationTyped'
  BY RetriesAssumption, <1>1 DEF PeerIInv, DestinationTyped, Callings, Ops, Leases,
     LeaseStates, Writes, Holders, Versions, NoCall, NoLease, NoWrite, Free, ControlTyped,
       Steps, Checkpoints, Senders, NoSend, PrepareRefused, Replies, Outside, Fault
<1>4. CommandsFit'
  BY <1>1 DEF PeerIInv, CommandsFit, CommandFits, NoCall, PrepareRefused, Replies, Outside,
     Fault
<1>5. ClaimsOnce'
  BY <1>1 DEF PeerIInv, ClaimsOnce, NoneOf, ClaimIsOver, NoCall, PrepareRefused, Replies,
     Outside, Fault
<1>6. SendFollows'
  BY <1>1 DEF PeerIInv, SendFollows, NoneOf, NoCall, NoSend, PrepareRefused, Replies, Outside,
     Fault
<1>7. HolderIs'
  BY <1>1 DEF PeerIInv, HolderIs, Free, PrepareRefused, Replies, Outside, Fault
<1>8. AnswerIs'
  BY <1>1 DEF PeerIInv, AnswerIs, Awaited, Idle, Verified, Free, NoCall, PrepareRefused,
     Replies, Outside, Fault
<1>9. Kept'
  BY RetriesAssumption, <1>1 DEF PeerIInv, Kept, Promised, NoneOf, ClaimIsOver, Free,
     ControlTyped, Steps, Checkpoints, Senders, Versions, NoSend, DestinationTyped, Callings,
       Ops, Leases, LeaseStates, Writes, Holders, NoCall, NoLease, NoWrite, PrepareRefused,
         Replies, Outside, Fault
<1> QED  BY <1>2, <1>3, <1>4, <1>5, <1>6, <1>7, <1>8, <1>9 DEF PeerIInv

LEMMA PrepareBeginsKeeps ==
    ASSUME PeerIInv, PrepareBegins
    PROVE  PeerIInv'
<1>1. UNCHANGED <<pc, waiting, ckpt, frozen, resumed, source, sender, queue, exec, result,
      lease,
      receiver, expiry, dest, retries, forfeited>>
  BY DEF PrepareBegins, Outside, control, commands, manager
<1>2. ControlTyped' /\ CommandsFit' /\ ClaimsOnce' /\ SendFollows'
  BY <1>1 DEF PeerIInv, ControlTyped, CommandsFit, CommandFits, ClaimsOnce, NoneOf,
     ClaimIsOver, SendFollows
<1>3. DestinationTyped'
  BY RetriesAssumption, <1>1, ZenonT(60) DEF PeerIInv, DestinationTyped, Callings, Ops, Leases,
     LeaseStates, Writes, Holders, Versions, NoCall, NoLease, NoWrite, Free, ControlTyped,
       Steps, Checkpoints, Senders, NoSend, PrepareBegins, Outside
<1>4. StepIs'
  BY <1>1 DEF PeerIInv, StepIs, NoWrite, PrepareBegins, Outside
<1>5. LeaseIs'
  BY <1>1 DEF PeerIInv, LeaseIs, NoLease, Free, PrepareBegins, Outside
<1>6. HolderIs'
  BY RetriesAssumption, <1>1 DEF PeerIInv, HolderIs, Free, ControlTyped, Steps, Checkpoints,
     Senders, Versions, NoSend, DestinationTyped, Callings, Ops, Leases, LeaseStates, Writes,
       Holders, NoCall, NoLease, NoWrite, PrepareBegins, Outside
<1>7. WriteIs'
  BY <1>1 DEF PeerIInv, WriteIs, NoWrite, LeaseIs, NoLease, Free, HolderIs, CommandsFit,
     CommandFits, NoCall, StepIs, SendFollows, NoneOf, NoSend, PrepareBegins, Outside
<1>8. AnswerIs'
  BY <1>1 DEF PeerIInv, AnswerIs, Awaited, Idle, Verified, Free, NoCall, PrepareBegins, Outside
<1>9. Kept'
  BY <1>1 DEF PeerIInv, Kept, Promised, NoneOf, ClaimIsOver, Free, LeaseIs, NoLease, HolderIs,
     CommandsFit, CommandFits, NoCall, StepIs, NoWrite, WriteIs, AnswerIs, Awaited, Idle,
       Verified, ClaimsOnce, PrepareBegins, Outside
<1> QED  BY <1>2, <1>3, <1>4, <1>5, <1>6, <1>7, <1>8, <1>9 DEF PeerIInv

LEMMA PrepareServesKeeps ==
    ASSUME PeerIInv, PrepareServes
    PROVE  PeerIInv'
<1>1. UNCHANGED <<pc, waiting, ckpt, frozen, resumed, source, sender, queue, receiver, dest,
      retries,
      forfeited>>
  BY DEF PrepareServes, Replies, Outside, Fault, Aborted, control, commands, manager
<1>2. ControlTyped'
  BY <1>1 DEF PeerIInv, ControlTyped
<1>3. DestinationTyped'
  <2>1. exec' \in Callings /\ queue' \in Seq(Callings)
    BY <1>1, RestsAreTyped DEF PeerIInv, DestinationTyped, PrepareServes, Replies, Aborted
  <2>2. lease' \in Leases
    BY <1>1 DEF PeerIInv, DestinationTyped, LeaseStates, Leases, Callings, PrepareServes
  <2>3. /\ receiver' \in {"none", "reading", "answering", "draining", "aborting"}
        /\ expiry' \in {"off", "armed", "locking"}
    BY <1>1 DEF PeerIInv, DestinationTyped, PrepareServes, Replies, Aborted
  <2>4. holder' \in Holders
    BY <1>1, RecordUpdates, RestsAreTyped DEF PeerIInv, DestinationTyped, PrepareServes,
       Replies, Aborted
  <2>5. write' \in Writes /\ dest' \in Versions
    BY <1>1, RecordUpdates, RestsAreTyped DEF PeerIInv, DestinationTyped, PrepareServes,
       Replies, Aborted
  <2> QED  BY <2>1, <2>2, <2>3, <2>4, <2>5 DEF DestinationTyped
<1>4. StepIs'
  BY <1>1 DEF PeerIInv, StepIs, NoWrite, PrepareServes, Replies, Outside, Fault, Aborted
<1>5. CommandsFit'
  BY <1>1 DEF PeerIInv, CommandsFit, CommandFits, NoCall, PrepareServes, Replies, Outside,
     Fault, Aborted
<1>6. ClaimsOnce'
  BY <1>1 DEF PeerIInv, ClaimsOnce, NoneOf, ClaimIsOver, NoCall, PrepareServes, Replies,
     Outside, Fault, Aborted
<1>7. SendFollows'
  BY <1>1 DEF PeerIInv, SendFollows, NoneOf, NoCall, NoSend, PrepareServes, Replies, Outside,
     Fault, Aborted
<1>8. LeaseIs'
  BY RetriesAssumption, <1>1 DEF PeerIInv, LeaseIs, NoLease, Free, ControlTyped, Steps,
     Checkpoints, Senders, Versions, NoSend, DestinationTyped, Callings, Ops, Leases,
       LeaseStates, Writes, Holders, NoCall, NoWrite, HolderIs, CommandsFit, CommandFits,
         AnswerIs, Awaited, Idle, Verified, WriteIs, StepIs, PrepareServes, Replies, Outside,
           Fault, Aborted
<1>9. HolderIs'
  BY <1>1 DEF PeerIInv, HolderIs, Free, LeaseIs, NoLease, CommandsFit, CommandFits, NoCall,
     WriteIs, NoWrite, PrepareServes, Replies, Outside, Fault, Aborted
<1>10. WriteIs'
  BY <1>1 DEF PeerIInv, WriteIs, NoWrite, LeaseIs, NoLease, Free, HolderIs, CommandsFit,
     CommandFits, NoCall, StepIs, SendFollows, NoneOf, NoSend, PrepareServes, Replies, Outside,
       Fault, Aborted
<1>11. AnswerIs'
  BY <1>1 DEF PeerIInv, AnswerIs, Awaited, Idle, Verified, Free, NoCall, PrepareServes,
     Replies, Outside, Fault, Aborted
<1>12. Kept'
  BY <1>1 DEF PeerIInv, Kept, Promised, NoneOf, ClaimIsOver, Free, LeaseIs, NoLease, HolderIs,
     CommandsFit, CommandFits, NoCall, StepIs, NoWrite, WriteIs, AnswerIs, Awaited, Idle,
       Verified, ClaimsOnce, PrepareServes, Replies, Outside, Fault, Aborted
<1> QED  BY <1>2, <1>3, <1>4, <1>5, <1>6, <1>7, <1>8, <1>9, <1>10, <1>11, <1>12 DEF PeerIInv

LEMMA StatusRepliesKeeps ==
    ASSUME PeerIInv, StatusReplies
    PROVE  PeerIInv'
<1>1. UNCHANGED <<pc, waiting, ckpt, frozen, resumed, source, sender, queue, lease, receiver,
      expiry,
      holder, write, dest, retries, forfeited>>
  BY DEF StatusReplies, Replies, Unmoved, Outside, control, commands, manager
<1>2. ControlTyped' /\ StepIs' /\ LeaseIs' /\ WriteIs'
  BY <1>1 DEF PeerIInv, ControlTyped, StepIs, LeaseIs, WriteIs
<1>3. DestinationTyped'
  BY RetriesAssumption, <1>1 DEF PeerIInv, DestinationTyped, Callings, Ops, Leases,
     LeaseStates, Writes, Holders, Versions, NoCall, NoLease, NoWrite, Free, ControlTyped,
       Steps, Checkpoints, Senders, NoSend, StatusReplies, Replies, Unmoved, Outside
<1>4. CommandsFit'
  BY <1>1 DEF PeerIInv, CommandsFit, CommandFits, NoCall, StatusReplies, Replies, Unmoved,
     Outside
<1>5. ClaimsOnce'
  BY <1>1 DEF PeerIInv, ClaimsOnce, NoneOf, ClaimIsOver, NoCall, StatusReplies, Replies,
     Unmoved, Outside
<1>6. SendFollows'
  BY <1>1 DEF PeerIInv, SendFollows, NoneOf, NoCall, NoSend, StatusReplies, Replies, Unmoved,
     Outside
<1>7. HolderIs'
  BY <1>1 DEF PeerIInv, HolderIs, Free, StatusReplies, Replies, Unmoved, Outside
<1>8. AnswerIs'
  BY <1>1 DEF PeerIInv, AnswerIs, Awaited, Idle, Verified, Free, NoCall, LeaseIs, NoLease,
     HolderIs, CommandsFit, CommandFits, StepIs, NoWrite, WriteIs, StatusReplies, Replies,
       Unmoved, Outside
<1>9. Kept'
  BY RetriesAssumption, <1>1 DEF PeerIInv, Kept, Promised, NoneOf, ClaimIsOver, Free,
     ControlTyped, Steps, Checkpoints, Senders, Versions, NoSend, DestinationTyped, Callings,
       Ops, Leases, LeaseStates, Writes, Holders, NoCall, NoLease, NoWrite, StatusReplies,
         Replies, Unmoved, Outside
<1> QED  BY <1>2, <1>3, <1>4, <1>5, <1>6, <1>7, <1>8, <1>9 DEF PeerIInv

LEMMA CancelBeginsKeeps ==
    ASSUME PeerIInv, CancelBegins
    PROVE  PeerIInv'
<1>1. UNCHANGED <<pc, waiting, ckpt, frozen, resumed, source, sender, queue, exec, result,
      write, dest,
      retries, forfeited>>
  BY DEF CancelBegins, Locked, Teardown, Keepable, Outside, control, commands, manager
<1>2. ControlTyped' /\ StepIs' /\ CommandsFit' /\ ClaimsOnce' /\ SendFollows'
  BY <1>1 DEF PeerIInv, ControlTyped, StepIs, CommandsFit, CommandFits, ClaimsOnce, NoneOf,
     ClaimIsOver, SendFollows
<1>3. DestinationTyped'
  <2>1. exec' \in Callings /\ queue' \in Seq(Callings)
    BY <1>1, RestsAreTyped DEF PeerIInv, DestinationTyped, CancelBegins, Locked, Teardown
  <2>2. lease' \in Leases
    BY <1>1, RecordUpdates, RestsAreTyped DEF PeerIInv, DestinationTyped, LeaseStates,
       CancelBegins, Locked, Teardown
  <2>3. /\ receiver' \in {"none", "reading", "answering", "draining", "aborting"}
        /\ expiry' \in {"off", "armed", "locking"}
    BY <1>1 DEF PeerIInv, DestinationTyped, CancelBegins, Locked, Teardown
  <2>4. holder' \in Holders
    <3>1. \A who \in {"cancel", "claim"}, keep \in BOOLEAN, at \in {"join", "disk"} :
             [who |-> who, keep |-> keep, at |-> at] \in Holders
      BY DEF Holders
    <3>2. Keepable \in BOOLEAN
      BY DEF Keepable
    <3> QED  BY <3>1, <3>2 DEF CancelBegins, Locked, Teardown
  <2>5. write' \in Writes /\ dest' \in Versions
    BY <1>1, RecordUpdates, RestsAreTyped DEF PeerIInv, DestinationTyped, CancelBegins, Locked,
       Teardown
  <2> QED  BY <2>1, <2>2, <2>3, <2>4, <2>5 DEF DestinationTyped
<1>4. LeaseIs'
  BY RetriesAssumption, <1>1 DEF PeerIInv, LeaseIs, NoLease, Free, ControlTyped, Steps,
     Checkpoints, Senders, Versions, NoSend, DestinationTyped, Callings, Ops, Leases,
       LeaseStates, Writes, Holders, NoCall, NoWrite, CancelBegins, Locked, Teardown, Keepable,
         Outside
<1>5. HolderIs'
  BY RetriesAssumption, <1>1 DEF PeerIInv, HolderIs, Free, ControlTyped, Steps, Checkpoints,
     Senders, Versions, NoSend, DestinationTyped, Callings, Ops, Leases, LeaseStates, Writes,
       Holders, NoCall, NoLease, NoWrite, CancelBegins, Locked, Teardown, Keepable, Outside
<1>6. WriteIs'
  BY RetriesAssumption, <1>1 DEF PeerIInv, WriteIs, NoWrite, ControlTyped, Steps, Checkpoints,
     Senders, Versions, NoSend, DestinationTyped, Callings, Ops, Leases, LeaseStates, Writes,
       Holders, NoCall, NoLease, Free, CancelBegins, Locked, Teardown, Keepable, Outside
<1>7. AnswerIs'
  BY <1>1 DEF PeerIInv, AnswerIs, Awaited, Idle, Verified, Free, NoCall, CancelBegins, Locked,
     Teardown, Keepable, Outside
<1>8. Kept'
  <2>1. CASE Promised /\ ~forfeited
    <3>1. exec.op = "claim" /\ Locked("claim", Keepable)
      BY <2>1 DEF PeerIInv, Promised, CommandsFit, CommandFits, CancelBegins
    <3>2. write.status = "receiving" => Keepable
      BY <2>1, <3>1 DEF PeerIInv, Kept, NoneOf, Keepable, Locked
    <3>3. holder'.keep = Keepable /\ lease'.state = "cancelling" /\ write' = write
      BY <1>1, <3>1 DEF Locked, Teardown, PeerIInv, DestinationTyped, Leases
    <3> QED  BY <2>1, <3>2, <3>3 DEF PeerIInv, Kept
  <2>2. CASE ~(Promised /\ ~forfeited)
    BY <1>1, <2>2 DEF Kept, Promised
  <2> QED  BY <2>1, <2>2
<1> QED  BY <1>2, <1>3, <1>4, <1>5, <1>6, <1>7, <1>8 DEF PeerIInv

LEMMA CancelFindsNoneKeeps ==
    ASSUME PeerIInv, CancelFindsNone
    PROVE  PeerIInv'
<1>1. UNCHANGED <<pc, waiting, ckpt, frozen, resumed, source, sender, queue, lease, receiver,
      expiry,
      holder, dest, retries, forfeited>>
  BY DEF CancelFindsNone, Replies, Unmoved, Outside, Claimed, control, commands, manager
<1>2. ControlTyped'
  BY <1>1 DEF PeerIInv, ControlTyped
<1>3. DestinationTyped'
  <2>1. exec' \in Callings /\ queue' \in Seq(Callings)
    BY <1>1, RestsAreTyped DEF PeerIInv, DestinationTyped, CancelFindsNone, Replies, Claimed
  <2>2. lease' \in Leases
    BY <1>1, RecordUpdates, RestsAreTyped DEF PeerIInv, DestinationTyped, LeaseStates,
       CancelFindsNone, Replies, Claimed
  <2>3. /\ receiver' \in {"none", "reading", "answering", "draining", "aborting"}
        /\ expiry' \in {"off", "armed", "locking"}
    BY <1>1 DEF PeerIInv, DestinationTyped, CancelFindsNone, Replies, Claimed
  <2>4. holder' \in Holders
    BY <1>1, RecordUpdates, RestsAreTyped DEF PeerIInv, DestinationTyped, CancelFindsNone,
       Replies, Claimed
  <2>5. write' \in Writes /\ dest' \in Versions
    BY <1>1, RecordUpdates, RestsAreTyped DEF PeerIInv, DestinationTyped, CancelFindsNone,
       Replies, Claimed
  <2> QED  BY <2>1, <2>2, <2>3, <2>4, <2>5 DEF DestinationTyped
<1>4. StepIs'
  BY <1>1 DEF PeerIInv, StepIs, NoWrite, CancelFindsNone, Replies, Unmoved, Outside, Claimed
<1>5. CommandsFit'
  BY <1>1 DEF PeerIInv, CommandsFit, CommandFits, NoCall, CancelFindsNone, Replies, Unmoved,
     Outside, Claimed
<1>6. ClaimsOnce'
  BY <1>1 DEF PeerIInv, ClaimsOnce, NoneOf, ClaimIsOver, NoCall, CancelFindsNone, Replies,
     Unmoved, Outside, Claimed
<1>7. SendFollows'
  BY <1>1 DEF PeerIInv, SendFollows, NoneOf, NoCall, NoSend, CancelFindsNone, Replies, Unmoved,
     Outside, Claimed
<1>8. LeaseIs'
  BY <1>1 DEF PeerIInv, LeaseIs, NoLease, Free, CancelFindsNone, Replies, Unmoved, Outside,
     Claimed
<1>9. HolderIs'
  BY <1>1 DEF PeerIInv, HolderIs, Free, CancelFindsNone, Replies, Unmoved, Outside, Claimed
<1>10. WriteIs'
  <2>1. lease = NoLease /\ receiver = "none" /\ write \in Writes
    BY DEF PeerIInv, LeaseIs, CancelFindsNone, DestinationTyped
  <2>2. CASE write' = write
    BY <1>1, <2>2 DEF PeerIInv, WriteIs
  <2>3. CASE exec.op = "claim" /\ write' = [write EXCEPT !.unclaimed = FALSE]
             /\ write.status = "receiving"
    <3>1. write'.status = "receiving" /\ ckpt.route # "none"
      BY <2>1, <2>3 DEF PeerIInv, CommandsFit, CommandFits, Writes
    <3> QED  BY <1>1, <2>1, <3>1 DEF WriteIs, NoLease
  <2> QED  BY <2>2, <2>3 DEF CancelFindsNone, Claimed
<1>11. AnswerIs'
  BY <1>1 DEF PeerIInv, AnswerIs, Awaited, Idle, Verified, Free, NoCall, CancelFindsNone,
     Replies, Unmoved, Outside, Claimed
<1>12. Kept'
  BY <1>1 DEF PeerIInv, Kept, Promised, NoneOf, ClaimIsOver, Free, CancelFindsNone, Replies,
     Unmoved, Outside, Claimed
<1> QED  BY <1>2, <1>3, <1>4, <1>5, <1>6, <1>7, <1>8, <1>9, <1>10, <1>11, <1>12 DEF PeerIInv

LEMMA BeginWriteKeeps ==
    ASSUME PeerIInv, BeginWrite
    PROVE  PeerIInv'
<1>1. UNCHANGED <<pc, waiting, ckpt, frozen, resumed, source, sender, queue, lease, receiver,
      expiry,
      holder, dest, retries, forfeited>>
  BY DEF BeginWrite, Replies, Unmoved, Outside, control, commands, manager
<1>2. ControlTyped'
  BY <1>1 DEF PeerIInv, ControlTyped
<1>3. DestinationTyped'
  <2>1. exec' \in Callings /\ queue' \in Seq(Callings)
    BY <1>1, RestsAreTyped DEF PeerIInv, DestinationTyped, BeginWrite, Replies
  <2>2. lease' \in Leases
    BY <1>1, RecordUpdates, RestsAreTyped DEF PeerIInv, DestinationTyped, LeaseStates,
       BeginWrite, Replies
  <2>3. /\ receiver' \in {"none", "reading", "answering", "draining", "aborting"}
        /\ expiry' \in {"off", "armed", "locking"}
    BY <1>1 DEF PeerIInv, DestinationTyped, BeginWrite, Replies
  <2>4. holder' \in Holders
    BY <1>1, RecordUpdates, RestsAreTyped DEF PeerIInv, DestinationTyped, BeginWrite, Replies
  <2>5. write' \in Writes /\ dest' \in Versions
    BY <1>1 DEF PeerIInv, DestinationTyped, Writes, Versions, NoWrite, BeginWrite
  <2> QED  BY <2>1, <2>2, <2>3, <2>4, <2>5 DEF DestinationTyped
<1>4. StepIs'
  BY <1>1 DEF PeerIInv, StepIs, NoWrite, BeginWrite, Replies, Unmoved, Outside
<1>5. CommandsFit'
  BY <1>1 DEF PeerIInv, CommandsFit, CommandFits, NoCall, BeginWrite, Replies, Unmoved, Outside
<1>6. ClaimsOnce'
  BY <1>1 DEF PeerIInv, ClaimsOnce, NoneOf, ClaimIsOver, NoCall, BeginWrite, Replies, Unmoved,
     Outside
<1>7. SendFollows'
  BY <1>1 DEF PeerIInv, SendFollows, NoneOf, NoCall, NoSend, BeginWrite, Replies, Unmoved,
     Outside
<1>8. LeaseIs'
  BY <1>1 DEF PeerIInv, LeaseIs, NoLease, Free, BeginWrite, Replies, Unmoved, Outside
<1>9. HolderIs'
  BY <1>1 DEF PeerIInv, HolderIs, Free, BeginWrite, Replies, Unmoved, Outside
<1>10. WriteIs'
  BY <1>1 DEF PeerIInv, WriteIs, NoWrite, LeaseIs, NoLease, Free, HolderIs, CommandsFit,
     CommandFits, NoCall, StepIs, SendFollows, NoneOf, NoSend, BeginWrite, Replies, Unmoved,
       Outside
<1>11. AnswerIs'
  BY <1>1 DEF PeerIInv, AnswerIs, Awaited, Idle, Verified, Free, NoCall, BeginWrite, Replies,
     Unmoved, Outside
<1>12. Kept'
  BY <1>1 DEF PeerIInv, Kept, Promised, NoneOf, ClaimIsOver, Free, LeaseIs, NoLease, HolderIs,
     CommandsFit, CommandFits, NoCall, StepIs, NoWrite, WriteIs, AnswerIs, Awaited, Idle,
       Verified, ClaimsOnce, BeginWrite, Replies, Unmoved, Outside
<1> QED  BY <1>2, <1>3, <1>4, <1>5, <1>6, <1>7, <1>8, <1>9, <1>10, <1>11, <1>12 DEF PeerIInv

LEMMA PublishesKeeps ==
    ASSUME PeerIInv, Publishes
    PROVE  PeerIInv'
<1>1. UNCHANGED <<pc, waiting, ckpt, frozen, resumed, source, sender, queue, lease, receiver,
      expiry,
      holder, retries, forfeited>>
  BY DEF Publishes, FinishWrite, Replies, control, commands, manager
<1>2. ControlTyped'
  BY <1>1 DEF PeerIInv, ControlTyped
<1>3. DestinationTyped'
  BY RetriesAssumption, <1>1 DEF PeerIInv, DestinationTyped, Callings, Ops, Leases,
     LeaseStates, Writes, Holders, Versions, NoCall, NoLease, NoWrite, Free, ControlTyped,
       Steps, Checkpoints, Senders, NoSend, Publishes, FinishWrite, Replies
<1>4. StepIs'
  BY <1>1 DEF PeerIInv, StepIs, NoWrite, CommandsFit, CommandFits, NoCall, LeaseIs, NoLease,
     Free, AnswerIs, Awaited, Idle, Verified, Publishes, FinishWrite, Replies
<1>5. CommandsFit'
  BY <1>1 DEF PeerIInv, CommandsFit, CommandFits, NoCall, Publishes, FinishWrite, Replies
<1>6. ClaimsOnce'
  BY <1>1 DEF PeerIInv, ClaimsOnce, NoneOf, ClaimIsOver, NoCall, Publishes, FinishWrite, Replies
<1>7. SendFollows'
  BY <1>1 DEF PeerIInv, SendFollows, NoneOf, NoCall, NoSend, Publishes, FinishWrite, Replies
<1>8. LeaseIs'
  BY <1>1 DEF PeerIInv, LeaseIs, NoLease, Free, HolderIs, CommandsFit, CommandFits, NoCall,
     AnswerIs, Awaited, Idle, Verified, WriteIs, NoWrite, StepIs, Publishes, FinishWrite,
       Replies
<1>9. HolderIs'
  BY <1>1 DEF PeerIInv, HolderIs, Free, Publishes, FinishWrite, Replies
<1>10. WriteIs'
  <2>1. CASE write' = write
    BY <1>1, <2>1 DEF PeerIInv, WriteIs
  <2>2. CASE /\ write.status = "receiving" /\ write.got = "full"
             /\ write' = [write EXCEPT !.status = "committed"]
    <3>1. write \in Writes
      BY DEF PeerIInv, DestinationTyped
    <3>2. /\ write'.status = "committed" /\ write'.got = "full"
          /\ write'.version = write.version /\ write'.unclaimed = write.unclaimed
      BY <2>2, <3>1 DEF Writes
    <3> QED  BY <1>1, <2>2, <3>2 DEF PeerIInv, WriteIs
  <2> QED  BY <2>1, <2>2 DEF Publishes, FinishWrite
<1>11. AnswerIs'
  BY <1>1 DEF PeerIInv, AnswerIs, Awaited, Idle, Verified, Free, NoCall, Publishes,
     FinishWrite, Replies
<1>12. Kept'
  BY RetriesAssumption, <1>1 DEF PeerIInv, Kept, Promised, NoneOf, ClaimIsOver, Free,
     ControlTyped, Steps, Checkpoints, Senders, Versions, NoSend, DestinationTyped, Callings,
       Ops, Leases, LeaseStates, Writes, Holders, NoCall, NoLease, NoWrite, Publishes,
         FinishWrite, Replies
<1> QED  BY <1>2, <1>3, <1>4, <1>5, <1>6, <1>7, <1>8, <1>9, <1>10, <1>11, <1>12 DEF PeerIInv

LEMMA ReleaseReceiptsKeeps ==
    ASSUME PeerIInv, ReleaseReceipts
    PROVE  PeerIInv'
<1>1. UNCHANGED <<pc, waiting, ckpt, frozen, resumed, source, sender, queue, lease, receiver,
      expiry,
      holder, dest, retries, forfeited>>
  BY DEF ReleaseReceipts, Replies, Unmoved, Outside, control, commands, manager
<1>2. ControlTyped'
  BY <1>1 DEF PeerIInv, ControlTyped
<1>3. DestinationTyped'
  BY RetriesAssumption, <1>1 DEF PeerIInv, DestinationTyped, Callings, Ops, Leases,
     LeaseStates, Writes, Holders, Versions, NoCall, NoLease, NoWrite, Free, ControlTyped,
       Steps, Checkpoints, Senders, NoSend, ReleaseReceipts, Replies, Unmoved, Outside
<1>4. StepIs'
  BY <1>1 DEF PeerIInv, StepIs, NoWrite, ReleaseReceipts, Replies, Unmoved, Outside
<1>5. CommandsFit'
  BY <1>1 DEF PeerIInv, CommandsFit, CommandFits, NoCall, ReleaseReceipts, Replies, Unmoved,
     Outside
<1>6. ClaimsOnce'
  BY <1>1 DEF PeerIInv, ClaimsOnce, NoneOf, ClaimIsOver, NoCall, ReleaseReceipts, Replies,
     Unmoved, Outside
<1>7. SendFollows'
  BY <1>1 DEF PeerIInv, SendFollows, NoneOf, NoCall, NoSend, ReleaseReceipts, Replies, Unmoved,
     Outside
<1>8. LeaseIs'
  BY <1>1 DEF PeerIInv, LeaseIs, NoLease, Free, HolderIs, CommandsFit, CommandFits, NoCall,
     AnswerIs, Awaited, Idle, Verified, WriteIs, NoWrite, StepIs, ReleaseReceipts, Replies,
       Unmoved, Outside
<1>9. HolderIs'
  BY <1>1 DEF PeerIInv, HolderIs, Free, ReleaseReceipts, Replies, Unmoved, Outside
<1>10. WriteIs'
  BY <1>1 DEF PeerIInv, WriteIs, NoWrite, LeaseIs, NoLease, Free, HolderIs, CommandsFit,
     CommandFits, NoCall, StepIs, SendFollows, NoneOf, NoSend, ReleaseReceipts, Replies,
       Unmoved, Outside
<1>11. AnswerIs'
  BY <1>1 DEF PeerIInv, AnswerIs, Awaited, Idle, Verified, Free, NoCall, ReleaseReceipts,
     Replies, Unmoved, Outside
<1>12. Kept'
  BY <1>1 DEF PeerIInv, Kept, Promised, NoneOf, ClaimIsOver, Free, LeaseIs, NoLease, HolderIs,
     CommandsFit, CommandFits, NoCall, StepIs, NoWrite, WriteIs, AnswerIs, Awaited, Idle,
       Verified, ClaimsOnce, ReleaseReceipts, Replies, Unmoved, Outside
<1> QED  BY <1>2, <1>3, <1>4, <1>5, <1>6, <1>7, <1>8, <1>9, <1>10, <1>11, <1>12 DEF PeerIInv

LEMMA RelaysKeeps ==
    ASSUME PeerIInv, Relays
    PROVE  PeerIInv'
<1>1. UNCHANGED <<pc, waiting, ckpt, frozen, resumed, source, sender, queue, lease, receiver,
      expiry,
      holder, retries, forfeited>>
  BY DEF Relays, Replies, control, commands, manager
<1>2. ControlTyped'
  BY <1>1 DEF PeerIInv, ControlTyped
<1>3. DestinationTyped'
  <2>1. exec' \in Callings /\ queue' \in Seq(Callings)
    BY <1>1, RestsAreTyped DEF PeerIInv, DestinationTyped, Relays, Replies
  <2>2. lease' \in Leases
    BY <1>1, RecordUpdates, RestsAreTyped DEF PeerIInv, DestinationTyped, LeaseStates, Relays,
       Replies
  <2>3. /\ receiver' \in {"none", "reading", "answering", "draining", "aborting"}
        /\ expiry' \in {"off", "armed", "locking"}
    BY <1>1 DEF PeerIInv, DestinationTyped, Relays, Replies
  <2>4. holder' \in Holders
    BY <1>1, RecordUpdates, RestsAreTyped DEF PeerIInv, DestinationTyped, Relays, Replies
  <2>5. write' \in Writes /\ dest' \in Versions
    <3>1. exec.version \in Versions /\ write.version \in Versions /\ "mixed" \in Versions
      BY DEF PeerIInv, DestinationTyped, Callings, Writes, Versions
    <3>2. /\ dest' \in {dest, exec.version}
          /\ \/ write' = write
             \/ write' = [write EXCEPT !.status = "committed", !.got = "full",
                                      !.version = exec.version]
             \/ write' = [write EXCEPT !.got = "full", !.version = write.version]
             \/ write' = [write EXCEPT !.got = "full", !.version = "mixed"]
      BY <3>1 DEF Relays
    <3>3. write \in Writes /\ dest \in Versions
      BY DEF PeerIInv, DestinationTyped
    <3>4. /\ [write EXCEPT !.status = "committed", !.got = "full",
                             !.version = exec.version] \in Writes
          /\ [write EXCEPT !.got = "full", !.version = write.version] \in Writes
          /\ [write EXCEPT !.got = "full", !.version = "mixed"] \in Writes
      BY <3>1, <3>3, RecordUpdates
    <3> QED  BY <3>1, <3>2, <3>3, <3>4
  <2> QED  BY <2>1, <2>2, <2>3, <2>4, <2>5 DEF DestinationTyped
<1>4. StepIs'
  BY <1>1 DEF PeerIInv, StepIs, NoWrite, CommandsFit, CommandFits, NoCall, LeaseIs, NoLease,
     Free, AnswerIs, Awaited, Idle, Verified, Relays, Replies
<1>5. CommandsFit'
  BY <1>1 DEF PeerIInv, CommandsFit, CommandFits, NoCall, Relays, Replies
<1>6. ClaimsOnce'
  BY <1>1 DEF PeerIInv, ClaimsOnce, NoneOf, ClaimIsOver, NoCall, Relays, Replies
<1>7. SendFollows'
  BY <1>1 DEF PeerIInv, SendFollows, NoneOf, NoCall, NoSend, Relays, Replies
<1>8. LeaseIs'
  BY <1>1 DEF PeerIInv, LeaseIs, NoLease, Free, HolderIs, CommandsFit, CommandFits, NoCall,
     AnswerIs, Awaited, Idle, Verified, WriteIs, NoWrite, StepIs, Relays, Replies
<1>9. HolderIs'
  BY <1>1 DEF PeerIInv, HolderIs, Free, Relays, Replies
<1>10. WriteIs'
  <2>1. ckpt.route = "relay" /\ lease = NoLease /\ receiver = "none"
    BY DEF PeerIInv, LeaseIs, CommandsFit, CommandFits, Relays, DestinationTyped, ControlTyped,
           Checkpoints
  <2>2. write.got # "none" => write.status # "none"
    BY DEF PeerIInv, WriteIs, NoWrite
  <2>3. write' = write \/ write'.status # "none"
    BY <2>2 DEF Relays, PeerIInv, DestinationTyped, Writes
  <2> QED  BY <1>1, <2>1, <2>3 DEF PeerIInv, WriteIs, NoLease
<1>11. AnswerIs'
  BY <1>1 DEF PeerIInv, AnswerIs, Awaited, Idle, Verified, Free, NoCall, Relays, Replies
<1>12. Kept'
  BY <1>1 DEF PeerIInv, Kept, Promised, NoneOf, ClaimIsOver, Free, LeaseIs, NoLease, HolderIs,
     CommandsFit, CommandFits, NoCall, StepIs, NoWrite, WriteIs, AnswerIs, Awaited, Idle,
       Verified, ClaimsOnce, Relays, Replies
<1> QED  BY <1>2, <1>3, <1>4, <1>5, <1>6, <1>7, <1>8, <1>9, <1>10, <1>11, <1>12 DEF PeerIInv

-----------------------------------------------------------------------------
(* The bytes and their receiver keep it                                    *)

LEMMA ConnectsKeeps ==
    ASSUME PeerIInv, Connects
    PROVE  PeerIInv'
<1>1. UNCHANGED <<pc, waiting, ckpt, frozen, resumed, source, queue, exec, result, expiry,
      holder,
      write, dest, retries, forfeited>>
  BY DEF Connects, RestOfReceiving, control, commands, manager
<1>2. StepIs' /\ CommandsFit' /\ ClaimsOnce'
  BY <1>1 DEF PeerIInv, StepIs, CommandsFit, CommandFits, ClaimsOnce, NoneOf, ClaimIsOver
<1>3. ControlTyped'
  <2>1. pc' \in Steps /\ waiting' \in BOOLEAN
    BY <1>1 DEF PeerIInv, ControlTyped, Steps, Connects
  <2>2. ckpt' \in Checkpoints
    <3>1. frozen \in Versions /\ ckpt \in Checkpoints
      BY DEF PeerIInv, ControlTyped
    <3>2. \A r \in {"peer", "relay"} :
            [route |-> r, version |-> frozen, imported |-> FALSE] \in Checkpoints
      BY <3>1 DEF Checkpoints
    <3> QED  BY <1>1, <3>1, <3>2, RecordUpdates DEF Connects
  <2>3. sender' \in Senders
    BY <1>1, RecordUpdates, RestsAreTyped DEF PeerIInv, ControlTyped, Connects
  <2>4. retries' \in 0..MaxRetries /\ frozen' \in Versions /\ resumed' \in BOOLEAN
        /\ source' \in {"a", "b"}
    BY <1>1 DEF PeerIInv, ControlTyped
  <2>5. forfeited' \in BOOLEAN
    BY <1>1 DEF PeerIInv, ControlTyped, Connects
  <2> QED  BY <2>1, <2>2, <2>3, <2>4, <2>5 DEF ControlTyped
<1>4. DestinationTyped'
  BY <1>1 DEF PeerIInv, DestinationTyped, Callings, Ops, Leases, LeaseStates, Writes, Holders,
     Versions, Connects, RestOfReceiving
<1>5. SendFollows'
  BY <1>1 DEF PeerIInv, SendFollows, NoneOf, NoCall, NoSend, Connects, RestOfReceiving
<1>6. LeaseIs'
  BY RetriesAssumption, <1>1 DEF PeerIInv, LeaseIs, NoLease, Free, ControlTyped, Steps,
     Checkpoints, Senders, Versions, NoSend, DestinationTyped, Callings, Ops, Leases,
       LeaseStates, Writes, Holders, NoCall, NoWrite, HolderIs, CommandsFit, CommandFits,
         AnswerIs, Awaited, Idle, Verified, WriteIs, StepIs, Connects, RestOfReceiving
<1>7. HolderIs'
  BY RetriesAssumption, <1>1 DEF PeerIInv, HolderIs, Free, ControlTyped, Steps, Checkpoints,
     Senders, Versions, NoSend, DestinationTyped, Callings, Ops, Leases, LeaseStates, Writes,
       Holders, NoCall, NoLease, NoWrite, Connects, RestOfReceiving
<1>8. WriteIs'
  BY <1>1 DEF PeerIInv, WriteIs, NoWrite, Connects, RestOfReceiving
<1>9. AnswerIs'
  BY <1>1 DEF PeerIInv, AnswerIs, Awaited, Idle, Verified, Free, NoCall, LeaseIs, NoLease,
     HolderIs, CommandsFit, CommandFits, StepIs, NoWrite, WriteIs, Connects, RestOfReceiving
<1>10. Kept'
  BY <1>1 DEF PeerIInv, Kept, Promised, NoneOf, ClaimIsOver, Free, Connects, RestOfReceiving
<1> QED  BY <1>2, <1>3, <1>4, <1>5, <1>6, <1>7, <1>8, <1>9, <1>10 DEF PeerIInv

LEMMA ReceivesKeeps ==
    ASSUME PeerIInv, Receives
    PROVE  PeerIInv'
<1>1. UNCHANGED <<pc, waiting, ckpt, frozen, resumed, source, sender, queue, exec, result,
      lease,
      receiver, expiry, holder, dest, retries, forfeited>>
  BY DEF Receives, RestOfReceiving, control, commands, manager
<1>2. ControlTyped' /\ CommandsFit' /\ ClaimsOnce' /\ SendFollows'
  BY <1>1 DEF PeerIInv, ControlTyped, CommandsFit, CommandFits, ClaimsOnce, NoneOf,
     ClaimIsOver, SendFollows
<1>3. DestinationTyped'
  BY RetriesAssumption, <1>1, ZenonT(60) DEF PeerIInv, DestinationTyped, Callings, Ops, Leases,
     LeaseStates, Writes, Holders, Versions, NoCall, NoLease, NoWrite, Free, ControlTyped,
       Steps, Checkpoints, Senders, NoSend, Receives, RestOfReceiving
<1>4. StepIs'
  BY <1>1 DEF PeerIInv, StepIs, NoWrite, Receives, RestOfReceiving
<1>5. LeaseIs'
  BY <1>1 DEF PeerIInv, LeaseIs, NoLease, Free, Receives, RestOfReceiving
<1>6. HolderIs'
  BY <1>1 DEF PeerIInv, HolderIs, Free, Receives, RestOfReceiving
<1>7. WriteIs'
  BY <1>1 DEF PeerIInv, WriteIs, NoWrite, LeaseIs, NoLease, Free, HolderIs, CommandsFit,
     CommandFits, NoCall, StepIs, SendFollows, NoneOf, NoSend, Receives, RestOfReceiving
<1>8. AnswerIs'
  BY <1>1 DEF PeerIInv, AnswerIs, Awaited, Idle, Verified, Free, NoCall, Receives,
     RestOfReceiving
<1>9. Kept'
  BY <1>1 DEF PeerIInv, Kept, Promised, NoneOf, ClaimIsOver, Free, Receives, RestOfReceiving
<1> QED  BY <1>2, <1>3, <1>4, <1>5, <1>6, <1>7, <1>8, <1>9 DEF PeerIInv

LEMMA MarksKeeps ==
    ASSUME PeerIInv, Marks
    PROVE  PeerIInv'
<1>1. UNCHANGED <<pc, waiting, ckpt, frozen, resumed, source, sender, queue, exec, result,
      lease,
      expiry, holder, dest, retries, forfeited>>
  BY DEF Marks, RestOfReceiving, control, commands, manager
<1>2. ControlTyped' /\ CommandsFit' /\ ClaimsOnce' /\ SendFollows'
  BY <1>1 DEF PeerIInv, ControlTyped, CommandsFit, CommandFits, ClaimsOnce, NoneOf,
     ClaimIsOver, SendFollows
<1>3. DestinationTyped'
  BY <1>1 DEF PeerIInv, DestinationTyped, Callings, Ops, Leases, LeaseStates, Writes, Holders,
     Versions, Marks, RestOfReceiving
<1>4. StepIs'
  BY <1>1 DEF PeerIInv, StepIs, NoWrite, Marks, RestOfReceiving
<1>5. LeaseIs'
  BY <1>1 DEF PeerIInv, LeaseIs, NoLease, Free, Marks, RestOfReceiving
<1>6. HolderIs'
  BY <1>1 DEF PeerIInv, HolderIs, Free, LeaseIs, NoLease, CommandsFit, CommandFits, NoCall,
     WriteIs, NoWrite, Marks, RestOfReceiving
<1>7. WriteIs'
  BY <1>1 DEF PeerIInv, WriteIs, NoWrite, Marks, RestOfReceiving
<1>8. AnswerIs'
  BY <1>1 DEF PeerIInv, AnswerIs, Awaited, Idle, Verified, Free, NoCall, Marks, RestOfReceiving
<1>9. Kept'
  BY <1>1 DEF PeerIInv, Kept, Promised, NoneOf, ClaimIsOver, Free, Marks, RestOfReceiving
<1> QED  BY <1>2, <1>3, <1>4, <1>5, <1>6, <1>7, <1>8, <1>9 DEF PeerIInv

LEMMA AnswersKeeps ==
    ASSUME PeerIInv, Answers
    PROVE  PeerIInv'
<1>1. UNCHANGED <<pc, waiting, ckpt, frozen, resumed, source, queue, exec, result, expiry,
      holder,
      write, dest, retries, forfeited>>
  BY DEF Answers, RestOfReceiving, control, commands, manager
<1>2. StepIs' /\ CommandsFit' /\ ClaimsOnce'
  BY <1>1 DEF PeerIInv, StepIs, CommandsFit, CommandFits, ClaimsOnce, NoneOf, ClaimIsOver
<1>3. ControlTyped'
  BY <1>1 DEF PeerIInv, ControlTyped, Steps, Checkpoints, Senders, Versions, Answers,
     RestOfReceiving
<1>4. DestinationTyped'
  BY <1>1 DEF PeerIInv, DestinationTyped, Callings, Ops, Leases, LeaseStates, Writes, Holders,
     Versions, Answers, RestOfReceiving
<1>5. SendFollows'
  BY RetriesAssumption, <1>1 DEF PeerIInv, SendFollows, NoneOf, NoCall, NoSend, ControlTyped,
     Steps, Checkpoints, Senders, Versions, DestinationTyped, Callings, Ops, Leases,
       LeaseStates, Writes, Holders, NoLease, NoWrite, Free, Answers, RestOfReceiving
<1>6. LeaseIs'
  BY RetriesAssumption, <1>1 DEF PeerIInv, LeaseIs, NoLease, Free, ControlTyped, Steps,
     Checkpoints, Senders, Versions, NoSend, DestinationTyped, Callings, Ops, Leases,
       LeaseStates, Writes, Holders, NoCall, NoWrite, Answers, RestOfReceiving
<1>7. HolderIs'
  BY RetriesAssumption, <1>1 DEF PeerIInv, HolderIs, Free, ControlTyped, Steps, Checkpoints,
     Senders, Versions, NoSend, DestinationTyped, Callings, Ops, Leases, LeaseStates, Writes,
       Holders, NoCall, NoLease, NoWrite, LeaseIs, CommandsFit, CommandFits, WriteIs, Answers,
         RestOfReceiving
<1>8. WriteIs'
  BY RetriesAssumption, <1>1 DEF PeerIInv, WriteIs, NoWrite, ControlTyped, Steps, Checkpoints,
     Senders, Versions, NoSend, DestinationTyped, Callings, Ops, Leases, LeaseStates, Writes,
       Holders, NoCall, NoLease, Free, Answers, RestOfReceiving
<1>9. AnswerIs'
  BY RetriesAssumption, <1>1 DEF PeerIInv, AnswerIs, Awaited, Idle, Verified, Free, NoCall,
     ControlTyped, Steps, Checkpoints, Senders, Versions, NoSend, DestinationTyped, Callings,
       Ops, Leases, LeaseStates, Writes, Holders, NoLease, NoWrite, Answers, RestOfReceiving
<1>10. Kept'
  BY RetriesAssumption, <1>1 DEF PeerIInv, Kept, Promised, NoneOf, ClaimIsOver, Free,
     ControlTyped, Steps, Checkpoints, Senders, Versions, NoSend, DestinationTyped, Callings,
       Ops, Leases, LeaseStates, Writes, Holders, NoCall, NoLease, NoWrite, Answers,
         RestOfReceiving
<1> QED  BY <1>2, <1>3, <1>4, <1>5, <1>6, <1>7, <1>8, <1>9, <1>10 DEF PeerIInv

LEMMA ReceiveFailsKeeps ==
    ASSUME PeerIInv, ReceiveFails
    PROVE  PeerIInv'
<1>1. UNCHANGED <<pc, waiting, ckpt, frozen, resumed, source, sender, queue, exec, result,
      expiry,
      holder, write, dest, retries, forfeited>>
  BY DEF ReceiveFails, RestOfReceiving, Fault, control, commands, manager
<1>2. ControlTyped' /\ StepIs' /\ CommandsFit' /\ ClaimsOnce' /\ SendFollows'
  BY <1>1 DEF PeerIInv, ControlTyped, StepIs, CommandsFit, CommandFits, ClaimsOnce, NoneOf,
     ClaimIsOver, SendFollows
<1>3. DestinationTyped'
  BY <1>1 DEF PeerIInv, DestinationTyped, Callings, Ops, Leases, LeaseStates, Writes, Holders,
     Versions, ReceiveFails, RestOfReceiving, Fault
<1>4. LeaseIs'
  BY <1>1 DEF PeerIInv, LeaseIs, NoLease, Free, ReceiveFails, RestOfReceiving, Fault
<1>5. HolderIs'
  BY <1>1 DEF PeerIInv, HolderIs, Free, ReceiveFails, RestOfReceiving, Fault
<1>6. WriteIs'
  BY <1>1 DEF PeerIInv, WriteIs, NoWrite, ReceiveFails, RestOfReceiving, Fault
<1>7. AnswerIs'
  BY <1>1 DEF PeerIInv, AnswerIs, Awaited, Idle, Verified, Free, NoCall, ReceiveFails,
     RestOfReceiving, Fault
<1>8. Kept'
  BY <1>1 DEF PeerIInv, Kept, Promised, NoneOf, ClaimIsOver, Free, LeaseIs, NoLease, HolderIs,
     CommandsFit, CommandFits, NoCall, StepIs, NoWrite, WriteIs, AnswerIs, Awaited, Idle,
       Verified, ClaimsOnce, ReceiveFails, RestOfReceiving, Fault
<1> QED  BY <1>2, <1>3, <1>4, <1>5, <1>6, <1>7, <1>8 DEF PeerIInv

LEMMA ReceiveAbortsKeeps ==
    ASSUME PeerIInv, ReceiveAborts
    PROVE  PeerIInv'
<1>1. UNCHANGED <<pc, waiting, ckpt, frozen, resumed, source, sender, queue, exec, result,
      expiry,
      holder, dest, retries, forfeited>>
  BY DEF ReceiveAborts, RestOfReceiving, Aborted, Fault, control, commands, manager
<1>2. ControlTyped' /\ CommandsFit' /\ ClaimsOnce' /\ SendFollows'
  BY <1>1 DEF PeerIInv, ControlTyped, CommandsFit, CommandFits, ClaimsOnce, NoneOf,
     ClaimIsOver, SendFollows
<1>3. DestinationTyped'
  <2>1. exec' \in Callings /\ queue' \in Seq(Callings)
    BY <1>1, RestsAreTyped DEF PeerIInv, DestinationTyped, ReceiveAborts, Aborted
  <2>2. lease' \in Leases
    BY <1>1, RecordUpdates, RestsAreTyped DEF PeerIInv, DestinationTyped, LeaseStates,
       ReceiveAborts, Aborted
  <2>3. /\ receiver' \in {"none", "reading", "answering", "draining", "aborting"}
        /\ expiry' \in {"off", "armed", "locking"}
    BY <1>1 DEF PeerIInv, DestinationTyped, ReceiveAborts, Aborted
  <2>4. holder' \in Holders
    BY <1>1, RecordUpdates, RestsAreTyped DEF PeerIInv, DestinationTyped, ReceiveAborts, Aborted
  <2>5. write' \in Writes /\ dest' \in Versions
    BY <1>1, RecordUpdates, RestsAreTyped DEF PeerIInv, DestinationTyped, ReceiveAborts, Aborted
  <2> QED  BY <2>1, <2>2, <2>3, <2>4, <2>5 DEF DestinationTyped
<1>4. StepIs'
  BY <1>1 DEF PeerIInv, StepIs, NoWrite, ReceiveAborts, RestOfReceiving, Aborted, Fault
<1>5. LeaseIs'
  BY RetriesAssumption, <1>1 DEF PeerIInv, LeaseIs, NoLease, Free, ControlTyped, Steps,
     Checkpoints, Senders, Versions, NoSend, DestinationTyped, Callings, Ops, Leases,
       LeaseStates, Writes, Holders, NoCall, NoWrite, ReceiveAborts, RestOfReceiving, Aborted,
         Fault
<1>6. HolderIs'
  BY RetriesAssumption, <1>1 DEF PeerIInv, HolderIs, Free, ControlTyped, Steps, Checkpoints,
     Senders, Versions, NoSend, DestinationTyped, Callings, Ops, Leases, LeaseStates, Writes,
       Holders, NoCall, NoLease, NoWrite, LeaseIs, CommandsFit, CommandFits, WriteIs,
         ReceiveAborts, RestOfReceiving, Aborted, Fault
<1>7. WriteIs'
  BY RetriesAssumption, <1>1 DEF PeerIInv, WriteIs, NoWrite, ControlTyped, Steps, Checkpoints,
     Senders, Versions, NoSend, DestinationTyped, Callings, Ops, Leases, LeaseStates, Writes,
       Holders, NoCall, NoLease, Free, ReceiveAborts, RestOfReceiving, Aborted, Fault
<1>8. AnswerIs'
  BY RetriesAssumption, <1>1 DEF PeerIInv, AnswerIs, Awaited, Idle, Verified, Free, NoCall,
     ControlTyped, Steps, Checkpoints, Senders, Versions, NoSend, DestinationTyped, Callings,
       Ops, Leases, LeaseStates, Writes, Holders, NoLease, NoWrite, ReceiveAborts,
         RestOfReceiving, Aborted, Fault
<1>9. Kept'
  BY <1>1 DEF PeerIInv, Kept, Promised, NoneOf, ClaimIsOver, Free, LeaseIs, NoLease, HolderIs,
     CommandsFit, CommandFits, NoCall, StepIs, NoWrite, WriteIs, AnswerIs, Awaited, Idle,
       Verified, ClaimsOnce, ReceiveAborts, RestOfReceiving, Aborted, Fault
<1> QED  BY <1>2, <1>3, <1>4, <1>5, <1>6, <1>7, <1>8, <1>9 DEF PeerIInv

LEMMA SenderFailsKeeps ==
    ASSUME PeerIInv, SenderFails
    PROVE  PeerIInv'
<1>1. UNCHANGED <<pc, waiting, ckpt, frozen, resumed, source, queue, exec, result, lease,
      receiver,
      expiry, holder, write, dest, retries, forfeited>>
  BY DEF SenderFails, Fault, control, commands, manager
<1>2. DestinationTyped' /\ StepIs' /\ CommandsFit' /\ ClaimsOnce' /\ LeaseIs' /\ HolderIs'
      /\ AnswerIs' /\ Kept'
  BY <1>1 DEF PeerIInv, DestinationTyped, StepIs, CommandsFit, CommandFits, ClaimsOnce, NoneOf,
     ClaimIsOver, LeaseIs, HolderIs, AnswerIs, Awaited, Idle, Verified, Kept, Promised
<1>3. ControlTyped'
  BY <1>1 DEF PeerIInv, ControlTyped, Steps, Checkpoints, Senders, Versions, SenderFails, Fault
<1>4. SendFollows'
  BY <1>1 DEF PeerIInv, SendFollows, NoneOf, NoCall, NoSend, SenderFails, Fault
<1>5. WriteIs'
  BY <1>1 DEF PeerIInv, WriteIs, NoWrite, SenderFails, Fault
<1> QED  BY <1>2, <1>3, <1>4, <1>5 DEF PeerIInv

LEMMA SenderIgnoredKeeps ==
    ASSUME PeerIInv, SenderIgnored
    PROVE  PeerIInv'
<1>1. UNCHANGED <<pc, waiting, ckpt, frozen, resumed, source, queue, exec, result, lease,
      receiver,
      expiry, holder, write, dest, retries, forfeited>>
  BY DEF SenderIgnored, control, commands, manager
<1>2. DestinationTyped' /\ StepIs' /\ CommandsFit' /\ ClaimsOnce' /\ LeaseIs' /\ HolderIs'
      /\ AnswerIs' /\ Kept'
  BY <1>1 DEF PeerIInv, DestinationTyped, StepIs, CommandsFit, CommandFits, ClaimsOnce, NoneOf,
     ClaimIsOver, LeaseIs, HolderIs, AnswerIs, Awaited, Idle, Verified, Kept, Promised
<1>3. ControlTyped'
  BY RetriesAssumption, <1>1 DEF PeerIInv, ControlTyped, Steps, Checkpoints, Senders, Versions,
     NoSend, DestinationTyped, Callings, Ops, Leases, LeaseStates, Writes, Holders, NoCall,
       NoLease, NoWrite, Free, SenderIgnored
<1>4. SendFollows'
  BY RetriesAssumption, <1>1 DEF PeerIInv, SendFollows, NoneOf, NoCall, NoSend, ControlTyped,
     Steps, Checkpoints, Senders, Versions, DestinationTyped, Callings, Ops, Leases,
       LeaseStates, Writes, Holders, NoLease, NoWrite, Free, SenderIgnored
<1>5. WriteIs'
  BY RetriesAssumption, <1>1 DEF PeerIInv, WriteIs, NoWrite, ControlTyped, Steps, Checkpoints,
     Senders, Versions, NoSend, DestinationTyped, Callings, Ops, Leases, LeaseStates, Writes,
       Holders, NoCall, NoLease, Free, SenderIgnored
<1> QED  BY <1>2, <1>3, <1>4, <1>5 DEF PeerIInv

-----------------------------------------------------------------------------
(* The ends of a lease, and what happens outside, keep it                  *)

LEMMA JoinsKeeps ==
    ASSUME PeerIInv, Joins
    PROVE  PeerIInv'
<1>1. UNCHANGED <<pc, waiting, ckpt, frozen, resumed, source, sender, queue, exec, result,
      lease,
      receiver, expiry, write, dest, retries, forfeited>>
  BY DEF Joins, Outside, control, commands, manager
<1>2. ControlTyped' /\ StepIs' /\ CommandsFit' /\ ClaimsOnce' /\ SendFollows' /\ WriteIs'
  BY <1>1 DEF PeerIInv, ControlTyped, StepIs, CommandsFit, CommandFits, ClaimsOnce, NoneOf,
     ClaimIsOver, SendFollows, WriteIs
<1>3. DestinationTyped'
  BY <1>1 DEF PeerIInv, DestinationTyped, Callings, Ops, Leases, LeaseStates, Writes, Holders,
     Versions, Joins, Outside
<1>4. LeaseIs'
  BY <1>1 DEF PeerIInv, LeaseIs, NoLease, Free, Joins, Outside
<1>5. HolderIs'
  BY <1>1 DEF PeerIInv, HolderIs, Free, Joins, Outside
<1>6. AnswerIs'
  BY <1>1 DEF PeerIInv, AnswerIs, Awaited, Idle, Verified, Free, NoCall, Joins, Outside
<1>7. Kept'
  BY <1>1 DEF PeerIInv, Kept, Promised, NoneOf, ClaimIsOver, Free, Joins, Outside
<1> QED  BY <1>2, <1>3, <1>4, <1>5, <1>6, <1>7 DEF PeerIInv

LEMMA SettlesKeeps ==
    ASSUME PeerIInv, Settles
    PROVE  PeerIInv'
<1>1. UNCHANGED <<pc, waiting, ckpt, frozen, resumed, source, sender, queue, receiver, expiry,
      dest,
      retries>>
  BY DEF Settles, Done, Replies, Outside, Aborted, Claimed, Forfeits, Fault, control, commands,
     manager
<1>2. /\ queue' = queue
      /\ \/ /\ holder.who \in {"cancel", "claim"} /\ exec.op = holder.who /\ exec' = NoCall
            /\ result' \in {"yes", "error"} /\ (result' = "yes" => lease' = NoLease)
         \/ holder.who \in {"expiry", "session"} /\ exec' = exec /\ result' = result
  BY DEF PeerIInv, HolderIs, Settles, Done, Replies, DestinationTyped, Holders, commands, Free
<1>3. /\ receiver = "none" /\ holder' = Free /\ lease.id # 0 /\ expiry = "off"
      /\ lease'.state \in {"none", "cleanup_failed"}
      /\ lease' = NoLease \/ (lease'.id # 0 /\ lease'.state = "cleanup_failed")
  BY <1>2 DEF PeerIInv, HolderIs, Settles, DestinationTyped, Leases, NoLease
<1>4. /\ holder.keep => /\ write'.status = write.status /\ write'.got = write.got
                        /\ write'.version = write.version
      /\ ~holder.keep => write' = write \/ (write' = NoWrite /\ write.status = "receiving")
      /\ write' = write \/ write'.status = "receiving" \/ write' = NoWrite
      /\ write.status # "receiving" => write' = write
      /\ holder.who # "claim" => write' = write \/ write' = NoWrite
      /\ holder.who = "expiry" /\ holder.keep => write' = write /\ lease' = NoLease
  BY DEF PeerIInv, Settles, DestinationTyped, Writes, Aborted, Claimed
<1>5. ControlTyped'
  <2>1. pc' \in Steps /\ waiting' \in BOOLEAN
    BY <1>1 DEF PeerIInv, ControlTyped, Steps, Settles, Forfeits
  <2>2. ckpt' \in Checkpoints
    <3>1. frozen \in Versions /\ ckpt \in Checkpoints
      BY DEF PeerIInv, ControlTyped
    <3>2. \A r \in {"peer", "relay"} :
            [route |-> r, version |-> frozen, imported |-> FALSE] \in Checkpoints
      BY <3>1 DEF Checkpoints
    <3> QED  BY <1>1, <3>1, <3>2, RecordUpdates DEF Settles, Forfeits
  <2>3. sender' \in Senders
    BY <1>1, RecordUpdates, RestsAreTyped DEF PeerIInv, ControlTyped, Settles, Forfeits
  <2>4. retries' \in 0..MaxRetries /\ frozen' \in Versions /\ resumed' \in BOOLEAN
        /\ source' \in {"a", "b"}
    BY <1>1 DEF PeerIInv, ControlTyped
  <2>5. forfeited' \in BOOLEAN
    BY <1>1 DEF PeerIInv, ControlTyped, Settles, Forfeits
  <2> QED  BY <2>1, <2>2, <2>3, <2>4, <2>5 DEF ControlTyped
<1>6. DestinationTyped'
  <2>1. exec' \in Callings /\ queue' \in Seq(Callings)
    BY <1>2, RestsAreTyped DEF PeerIInv, DestinationTyped
  <2>2. lease' \in Leases
    BY <1>1, RecordUpdates, RestsAreTyped DEF PeerIInv, DestinationTyped, LeaseStates, Settles,
       Done, Replies, Aborted, Claimed
  <2>3. /\ receiver' \in {"none", "reading", "answering", "draining", "aborting"}
        /\ expiry' \in {"off", "armed", "locking"}
    BY <1>1 DEF PeerIInv, DestinationTyped, Settles, Done, Replies, Aborted, Claimed
  <2>4. holder' \in Holders
    BY <1>1, RecordUpdates, RestsAreTyped DEF PeerIInv, DestinationTyped, Settles, Done,
       Replies, Aborted, Claimed
  <2>5. write' \in Writes /\ dest' \in Versions
    <3>1. Aborted(write) \in Writes /\ Claimed(write) \in Writes
      BY RecordUpdates, RestsAreTyped DEF PeerIInv, DestinationTyped, Aborted, Claimed
    <3> QED  BY <1>1, <3>1 DEF PeerIInv, DestinationTyped, Settles
  <2> QED  BY <2>1, <2>2, <2>3, <2>4, <2>5 DEF DestinationTyped
<1>7. StepIs'
  BY <1>1, <1>2, <1>3, <1>4 DEF PeerIInv, StepIs, NoWrite, Settles, Done, Replies, Outside,
     Aborted, Claimed, Forfeits, Fault
<1>8. CommandsFit'
  BY <1>1, <1>2 DEF PeerIInv, CommandsFit, CommandFits, NoCall
<1>9. ClaimsOnce'
  BY <1>1, <1>2 DEF PeerIInv, ClaimsOnce, ClaimIsOver, NoneOf, NoCall
<1>10. SendFollows'
  BY <1>1, <1>2 DEF PeerIInv, SendFollows, NoneOf, NoCall
<1>11. LeaseIs'
  BY <1>1, <1>2, <1>3, <1>4 DEF PeerIInv, LeaseIs, Free, NoLease
<1>12. HolderIs'
  BY <1>1, <1>2, <1>3 DEF PeerIInv, HolderIs, Free
<1>13. WriteIs'
  BY <1>1, <1>2, <1>3, <1>4 DEF PeerIInv, WriteIs, Free, NoLease, NoWrite, LeaseIs,
     CommandsFit, CommandFits
<1>14. AnswerIs'
  <2>1. Verified /\ Idle => Verified'
    BY <1>1, <1>2, <1>3, <1>4 DEF Verified, Idle, Free, NoLease, NoCall
  <2>2. Idle => Idle' /\ result' = result
    BY <1>2 DEF Idle, NoCall
  <2>3. lease.id = 0 => lease'.id = 0
    BY <1>3
  <2>4. Awaited("status") => Awaited("status")'
    BY <1>2 DEF Awaited
  <2>5. Awaited("cancel") =>
          Awaited("cancel")' \/ (Idle' /\ (result' \in {"yes", "no"} => lease'.id = 0))
    BY <1>2 DEF Awaited, Idle, NoLease
  <2> QED  BY <1>1, <2>1, <2>2, <2>3, <2>4, <2>5 DEF PeerIInv, AnswerIs
<1>15. Kept'
  <2>1. CASE Promised /\ ~forfeited /\ ~forfeited'
    <3>1. holder.who # "cancel" /\ write.got = "full" /\ write.status # "none"
      BY <1>2, <2>1 DEF PeerIInv, Promised, CommandsFit, CommandFits, Kept, WriteIs, NoWrite
    <3>2. CASE write.status # "receiving"
      BY <1>1, <1>4, <2>1, <3>1, <3>2 DEF Kept
    <3>3. CASE write.status = "receiving" /\ holder.who = "session"
      BY <2>1, <3>1, <3>3 DEF Settles, Forfeits, Aborted
    <3>4. CASE write.status = "receiving" /\ holder.who \in {"claim", "expiry"}
      <4>1. holder.keep
        BY <2>1, <3>4 DEF PeerIInv, Kept
      <4>2. CASE lease' = NoLease
        BY <1>1, <1>3, <1>4, <3>1, <4>1, <4>2 DEF Kept, Free, NoLease
      <4>3. CASE lease' # NoLease
        <5>1. exec.op = "claim" /\ exec' = NoCall
          BY <1>2, <1>4, <3>4, <4>1, <4>3
        <5>2. NoneOf("claim")' /\ ClaimIsOver'
          BY <1>1, <1>2, <5>1 DEF PeerIInv, ClaimsOnce, NoneOf, ClaimIsOver, NoCall
        <5> QED  BY <1>1, <1>3, <1>4, <3>1, <4>1, <4>3, <5>2 DEF Kept, Free
      <4> QED  BY <4>2, <4>3
    <3> QED  BY <1>2, <3>1, <3>2, <3>3, <3>4
  <2>2. CASE ~(Promised /\ ~forfeited /\ ~forfeited')
    BY <1>1, <2>2 DEF Kept, Promised, Settles, Forfeits
  <2> QED  BY <2>1, <2>2
<1> QED  BY <1>5, <1>6, <1>7, <1>8, <1>9, <1>10, <1>11, <1>12, <1>13, <1>14, <1>15 DEF PeerIInv

LEMMA ExpiresKeeps ==
    ASSUME PeerIInv, Expires
    PROVE  PeerIInv'
<1>1. UNCHANGED <<pc, waiting, ckpt, frozen, resumed, source, sender, queue, exec, result,
      lease,
      receiver, holder, write, dest, retries, forfeited>>
  BY DEF Expires, Aside, control, commands, manager
<1>2. ControlTyped' /\ StepIs' /\ CommandsFit' /\ ClaimsOnce' /\ SendFollows' /\ WriteIs'
      /\ AnswerIs'
  BY <1>1 DEF PeerIInv, ControlTyped, StepIs, CommandsFit, CommandFits, ClaimsOnce, NoneOf,
     ClaimIsOver, SendFollows, WriteIs, AnswerIs, Awaited, Idle, Verified
<1>3. DestinationTyped'
  BY <1>1 DEF PeerIInv, DestinationTyped, Callings, Ops, Leases, LeaseStates, Writes, Holders,
     Versions, Expires, Aside
<1>4. LeaseIs'
  BY <1>1 DEF PeerIInv, LeaseIs, NoLease, Free, Expires, Aside
<1>5. HolderIs'
  BY <1>1 DEF PeerIInv, HolderIs, Free, Expires, Aside
<1>6. Kept'
  BY <1>1 DEF PeerIInv, Kept, Promised, NoneOf, ClaimIsOver, Free, Expires, Aside
<1> QED  BY <1>2, <1>3, <1>4, <1>5, <1>6 DEF PeerIInv

LEMMA ExpiryLocksKeeps ==
    ASSUME PeerIInv, ExpiryLocks
    PROVE  PeerIInv'
<1>1. UNCHANGED <<pc, waiting, ckpt, frozen, resumed, source, sender, queue, exec, result,
      write, dest,
      retries, forfeited>>
  BY DEF ExpiryLocks, Locked, Teardown, Keepable, Aside, control, commands, manager
<1>2. ControlTyped' /\ StepIs' /\ CommandsFit' /\ ClaimsOnce' /\ SendFollows'
  BY <1>1 DEF PeerIInv, ControlTyped, StepIs, CommandsFit, CommandFits, ClaimsOnce, NoneOf,
     ClaimIsOver, SendFollows
<1>3. DestinationTyped'
  BY <1>1 DEF PeerIInv, DestinationTyped, Callings, Ops, Leases, LeaseStates, Writes, Holders,
     Versions, ExpiryLocks, Locked, Teardown, Keepable, Aside
<1>4. LeaseIs'
  BY RetriesAssumption, <1>1 DEF PeerIInv, LeaseIs, NoLease, Free, ControlTyped, Steps,
     Checkpoints, Senders, Versions, NoSend, DestinationTyped, Callings, Ops, Leases,
       LeaseStates, Writes, Holders, NoCall, NoWrite, ExpiryLocks, Locked, Teardown, Keepable,
         Aside
<1>5. HolderIs'
  BY <1>1 DEF PeerIInv, HolderIs, Free, ExpiryLocks, Locked, Teardown, Keepable, Aside
<1>6. WriteIs'
  BY <1>1 DEF PeerIInv, WriteIs, NoWrite, ExpiryLocks, Locked, Teardown, Keepable, Aside
<1>7. AnswerIs'
  BY RetriesAssumption, <1>1, ZenonT(60) DEF PeerIInv, AnswerIs, Awaited, Idle, Verified, Free,
     NoCall,
     ControlTyped, Steps, Checkpoints, Senders, Versions, NoSend, DestinationTyped, Callings,
       Ops, Leases, LeaseStates, Writes, Holders, NoLease, NoWrite, ExpiryLocks, Locked,
         Teardown, Keepable, Aside
<1>8. Kept'
  <2>1. CASE Promised /\ ~forfeited
    <3>1. expiry # "off" /\ Locked("expiry", Keepable)
      BY <2>1 DEF PeerIInv, Promised, CommandsFit, CommandFits, ExpiryLocks
    <3>2. write.status = "receiving" => Keepable
      BY <2>1, <3>1 DEF PeerIInv, Kept, NoneOf, Keepable, Locked
    <3>3. holder'.keep = Keepable /\ lease'.state = "cancelling" /\ write' = write
      BY <1>1, <3>1 DEF Locked, Teardown, PeerIInv, DestinationTyped, Leases
    <3> QED  BY <2>1, <3>2, <3>3 DEF PeerIInv, Kept
  <2>2. CASE ~(Promised /\ ~forfeited)
    BY <1>1, <2>2 DEF Kept, Promised
  <2> QED  BY <2>1, <2>2
<1> QED  BY <1>2, <1>3, <1>4, <1>5, <1>6, <1>7, <1>8 DEF PeerIInv

LEMMA SessionChangesKeeps ==
    ASSUME PeerIInv, SessionChanges
    PROVE  PeerIInv'
<1>1. UNCHANGED <<pc, waiting, ckpt, frozen, resumed, source, sender, queue, exec, result,
      write, dest,
      retries, forfeited>>
  BY DEF SessionChanges, Locked, Teardown, Aside, Fault, control, commands, manager
<1>2. ControlTyped' /\ StepIs' /\ CommandsFit' /\ ClaimsOnce' /\ SendFollows'
  BY <1>1 DEF PeerIInv, ControlTyped, StepIs, CommandsFit, CommandFits, ClaimsOnce, NoneOf,
     ClaimIsOver, SendFollows
<1>3. DestinationTyped'
  BY <1>1 DEF PeerIInv, DestinationTyped, Callings, Ops, Leases, LeaseStates, Writes, Holders,
     Versions, SessionChanges, Locked, Teardown, Aside, Fault
<1>4. LeaseIs'
  BY RetriesAssumption, <1>1 DEF PeerIInv, LeaseIs, NoLease, Free, ControlTyped, Steps,
     Checkpoints, Senders, Versions, NoSend, DestinationTyped, Callings, Ops, Leases,
       LeaseStates, Writes, Holders, NoCall, NoWrite, SessionChanges, Locked, Teardown, Aside,
         Fault
<1>5. HolderIs'
  BY <1>1 DEF PeerIInv, HolderIs, Free, SessionChanges, Locked, Teardown, Aside, Fault
<1>6. WriteIs'
  BY <1>1 DEF PeerIInv, WriteIs, NoWrite, SessionChanges, Locked, Teardown, Aside, Fault
<1>7. AnswerIs'
  BY <1>1 DEF PeerIInv, AnswerIs, Awaited, Idle, Verified, Free, NoCall, SessionChanges,
     Locked, Teardown, Aside, Fault
<1>8. Kept'
  BY <1>1 DEF PeerIInv, Kept, Promised, NoneOf, ClaimIsOver, Free, SessionChanges, Locked,
     Teardown, Aside, Fault
<1> QED  BY <1>2, <1>3, <1>4, <1>5, <1>6, <1>7, <1>8 DEF PeerIInv

LEMMA StopsKeeps ==
    ASSUME PeerIInv, Stops
    PROVE  PeerIInv'
<1>1. UNCHANGED <<pc, waiting, ckpt, frozen, resumed, source, sender, dest, retries>>
  BY DEF Stops, Aborted, Forfeits, Aside, Fault, control, commands, manager
<1>2. ControlTyped'
  <2>1. pc' \in Steps /\ waiting' \in BOOLEAN
    BY <1>1 DEF PeerIInv, ControlTyped, Steps, Stops, Forfeits
  <2>2. ckpt' \in Checkpoints
    <3>1. frozen \in Versions /\ ckpt \in Checkpoints
      BY DEF PeerIInv, ControlTyped
    <3>2. \A r \in {"peer", "relay"} :
            [route |-> r, version |-> frozen, imported |-> FALSE] \in Checkpoints
      BY <3>1 DEF Checkpoints
    <3> QED  BY <1>1, <3>1, <3>2, RecordUpdates DEF Stops, Forfeits
  <2>3. sender' \in Senders
    BY <1>1, RecordUpdates, RestsAreTyped DEF PeerIInv, ControlTyped, Stops, Forfeits
  <2>4. retries' \in 0..MaxRetries /\ frozen' \in Versions /\ resumed' \in BOOLEAN
        /\ source' \in {"a", "b"}
    BY <1>1 DEF PeerIInv, ControlTyped
  <2>5. forfeited' \in BOOLEAN
    BY <1>1 DEF PeerIInv, ControlTyped, Stops, Forfeits
  <2> QED  BY <2>1, <2>2, <2>3, <2>4, <2>5 DEF ControlTyped
<1>3. DestinationTyped'
  BY RetriesAssumption, <1>1 DEF PeerIInv, DestinationTyped, Callings, Ops, Leases,
     LeaseStates, Writes, Holders, Versions, NoCall, NoLease, NoWrite, Free, ControlTyped,
       Steps, Checkpoints, Senders, NoSend, Stops, Aborted, Forfeits, Aside, Fault
<1>4. StepIs'
  BY <1>1 DEF PeerIInv, StepIs, NoWrite, Stops, Aborted, Forfeits, Aside, Fault
<1>5. CommandsFit'
  BY <1>1 DEF PeerIInv, CommandsFit, CommandFits, NoCall, Stops, Aborted, Forfeits, Aside, Fault
<1>6. ClaimsOnce'
  BY <1>1 DEF PeerIInv, ClaimsOnce, NoneOf, ClaimIsOver, NoCall, Stops, Aborted, Forfeits,
     Aside, Fault
<1>7. SendFollows'
  BY <1>1 DEF PeerIInv, SendFollows, NoneOf, NoCall, NoSend, Stops, Aborted, Forfeits, Aside,
     Fault
<1>8. LeaseIs'
  BY <1>1 DEF PeerIInv, LeaseIs, NoLease, Free, Stops, Aborted, Forfeits, Aside, Fault
<1>9. HolderIs'
  BY RetriesAssumption, <1>1 DEF PeerIInv, HolderIs, Free, ControlTyped, Steps, Checkpoints,
     Senders, Versions, NoSend, DestinationTyped, Callings, Ops, Leases, LeaseStates, Writes,
       Holders, NoCall, NoLease, NoWrite, Stops, Aborted, Forfeits, Aside, Fault
<1>10. WriteIs'
  BY RetriesAssumption, <1>1 DEF PeerIInv, WriteIs, NoWrite, ControlTyped, Steps, Checkpoints,
     Senders, Versions, NoSend, DestinationTyped, Callings, Ops, Leases, LeaseStates, Writes,
       Holders, NoCall, NoLease, Free, Stops, Aborted, Forfeits, Aside, Fault
<1>11. AnswerIs'
  BY <1>1 DEF PeerIInv, AnswerIs, Awaited, Idle, Verified, Free, NoCall, LeaseIs, NoLease,
     HolderIs, CommandsFit, CommandFits, StepIs, NoWrite, WriteIs, Stops, Aborted, Forfeits,
       Aside, Fault
<1>12. Kept'
  BY RetriesAssumption, <1>1 DEF PeerIInv, Kept, Promised, NoneOf, ClaimIsOver, Free,
     ControlTyped, Steps, Checkpoints, Senders, Versions, NoSend, DestinationTyped, Callings,
       Ops, Leases, LeaseStates, Writes, Holders, NoCall, NoLease, NoWrite, Stops, Aborted,
         Forfeits, Aside, Fault
<1> QED  BY <1>2, <1>3, <1>4, <1>5, <1>6, <1>7, <1>8, <1>9, <1>10, <1>11, <1>12 DEF PeerIInv

LEMMA KilledKeeps ==
    ASSUME PeerIInv, Killed
    PROVE  PeerIInv'
<1>1. UNCHANGED <<pc, waiting, ckpt, frozen, resumed, source, sender, write, dest, retries,
      forfeited>>
  BY DEF Killed, Aside, Fault, control, commands, manager
<1>2. ControlTyped' /\ StepIs'
  BY <1>1 DEF PeerIInv, ControlTyped, StepIs
<1>3. DestinationTyped'
  BY RetriesAssumption, <1>1 DEF PeerIInv, DestinationTyped, Callings, Ops, Leases,
     LeaseStates, Writes, Holders, Versions, NoCall, NoLease, NoWrite, Free, ControlTyped,
       Steps, Checkpoints, Senders, NoSend, Killed, Aside, Fault
<1>4. CommandsFit'
  BY <1>1 DEF PeerIInv, CommandsFit, CommandFits, NoCall, Killed, Aside, Fault
<1>5. ClaimsOnce'
  BY <1>1 DEF PeerIInv, ClaimsOnce, NoneOf, ClaimIsOver, NoCall, Killed, Aside, Fault
<1>6. SendFollows'
  BY <1>1 DEF PeerIInv, SendFollows, NoneOf, NoCall, NoSend, Killed, Aside, Fault
<1>7. LeaseIs'
  BY <1>1 DEF PeerIInv, LeaseIs, NoLease, Free, Killed, Aside, Fault
<1>8. HolderIs'
  BY RetriesAssumption, <1>1 DEF PeerIInv, HolderIs, Free, ControlTyped, Steps, Checkpoints,
     Senders, Versions, NoSend, DestinationTyped, Callings, Ops, Leases, LeaseStates, Writes,
       Holders, NoCall, NoLease, NoWrite, Killed, Aside, Fault
<1>9. WriteIs'
  BY RetriesAssumption, <1>1 DEF PeerIInv, WriteIs, NoWrite, ControlTyped, Steps, Checkpoints,
     Senders, Versions, NoSend, DestinationTyped, Callings, Ops, Leases, LeaseStates, Writes,
       Holders, NoCall, NoLease, Free, Killed, Aside, Fault
<1>10. AnswerIs'
  BY RetriesAssumption, <1>1 DEF PeerIInv, AnswerIs, Awaited, Idle, Verified, Free, NoCall,
     ControlTyped, Steps, Checkpoints, Senders, Versions, NoSend, DestinationTyped, Callings,
       Ops, Leases, LeaseStates, Writes, Holders, NoLease, NoWrite, Killed, Aside, Fault
<1>11. Kept'
  BY RetriesAssumption, <1>1 DEF PeerIInv, Kept, Promised, NoneOf, ClaimIsOver, Free,
     ControlTyped, Steps, Checkpoints, Senders, Versions, NoSend, DestinationTyped, Callings,
       Ops, Leases, LeaseStates, Writes, Holders, NoCall, NoLease, NoWrite, Killed, Aside, Fault
<1> QED  BY <1>2, <1>3, <1>4, <1>5, <1>6, <1>7, <1>8, <1>9, <1>10, <1>11 DEF PeerIInv

LEMMA PrunesKeeps ==
    ASSUME PeerIInv, Prunes
    PROVE  PeerIInv'
<1>1. UNCHANGED <<pc, waiting, ckpt, frozen, resumed, source, sender, queue, exec, result,
      lease,
      receiver, expiry, holder, dest, retries>>
  BY DEF Prunes, Forfeits, Aside, Fault, control, commands, manager
<1>2. CommandsFit' /\ ClaimsOnce' /\ SendFollows'
  BY <1>1 DEF PeerIInv, CommandsFit, CommandFits, ClaimsOnce, NoneOf, ClaimIsOver, SendFollows
<1>3. ControlTyped'
  BY <1>1 DEF PeerIInv, ControlTyped, Steps, Checkpoints, Senders, Versions, Prunes, Forfeits,
     Aside, Fault
<1>4. DestinationTyped'
  BY RetriesAssumption, <1>1 DEF PeerIInv, DestinationTyped, Callings, Ops, Leases,
     LeaseStates, Writes, Holders, Versions, NoCall, NoLease, NoWrite, Free, ControlTyped,
       Steps, Checkpoints, Senders, NoSend, Prunes, Forfeits, Aside, Fault
<1>5. StepIs'
  BY <1>1 DEF PeerIInv, StepIs, NoWrite, Prunes, Forfeits, Aside, Fault
<1>6. LeaseIs'
  BY <1>1 DEF PeerIInv, LeaseIs, NoLease, Free, Prunes, Forfeits, Aside, Fault
<1>7. HolderIs'
  BY <1>1 DEF PeerIInv, HolderIs, Free, Prunes, Forfeits, Aside, Fault
<1>8. WriteIs'
  BY <1>1 DEF PeerIInv, WriteIs, NoWrite, LeaseIs, NoLease, Free, HolderIs, CommandsFit,
     CommandFits, NoCall, StepIs, SendFollows, NoneOf, NoSend, Prunes, Forfeits, Aside, Fault
<1>9. AnswerIs'
  BY <1>1 DEF PeerIInv, AnswerIs, Awaited, Idle, Verified, Free, NoCall, Prunes, Forfeits,
     Aside, Fault
<1>10. Kept'
  BY <1>1 DEF PeerIInv, Kept, Promised, NoneOf, ClaimIsOver, Free, Prunes, Forfeits, Aside,
     Fault
<1> QED  BY <1>2, <1>3, <1>4, <1>5, <1>6, <1>7, <1>8, <1>9, <1>10 DEF PeerIInv

LEMMA SourceChangesKeeps ==
    ASSUME PeerIInv, SourceChanges
    PROVE  PeerIInv'
<1>1. UNCHANGED <<pc, waiting, ckpt, frozen, resumed, sender, queue, exec, result, lease,
      receiver,
      expiry, holder, write, dest, retries, forfeited>>
  BY DEF SourceChanges, Fault, control, commands, manager
<1>2. DestinationTyped' /\ StepIs' /\ CommandsFit' /\ ClaimsOnce' /\ SendFollows'
      /\ LeaseIs' /\ HolderIs' /\ WriteIs' /\ AnswerIs' /\ Kept'
  BY <1>1 DEF PeerIInv, DestinationTyped, StepIs, CommandsFit, CommandFits, ClaimsOnce, NoneOf,
     ClaimIsOver, SendFollows, LeaseIs, HolderIs, WriteIs, AnswerIs, Awaited, Idle, Verified,
       Kept, Promised
<1>3. ControlTyped'
  BY <1>1 DEF PeerIInv, ControlTyped, Steps, Checkpoints, Senders, Versions, SourceChanges,
     Fault
<1> QED  BY <1>2, <1>3 DEF PeerIInv

-----------------------------------------------------------------------------
(* The theorem                                                               *)

LEMMA PeerStarts == PeerInit => PeerIInv
<1> SUFFICES ASSUME PeerInit PROVE PeerIInv
  OBVIOUS
<1>1. queue = <<>> /\ queue \in Seq(Callings) /\ DOMAIN queue = {}
  BY DEF PeerInit
<1>2. ControlTyped
  <2>1. sender \in Senders /\ ckpt \in Checkpoints
    BY RestsAreTyped DEF PeerInit, Checkpoints, Versions
  <2>2. retries \in 0..MaxRetries
    BY RetriesAssumption DEF PeerInit
  <2> QED  BY <2>1, <2>2 DEF PeerInit, ControlTyped, Steps, Versions
<1>3. DestinationTyped
  BY <1>1, RestsAreTyped DEF PeerInit, DestinationTyped, Versions
<1>4. StepIs /\ CommandsFit /\ ClaimsOnce /\ SendFollows
  BY <1>1, RetriesAssumption
     DEF PeerInit, StepIs, NoWrite, CommandsFit, NoCall, ClaimsOnce, NoneOf, SendFollows, NoSend
<1>5. LeaseIs /\ HolderIs /\ WriteIs /\ AnswerIs /\ Kept
  BY DEF PeerInit, LeaseIs, HolderIs, WriteIs, AnswerIs, Kept, Promised, NoLease, NoWrite, Free,
         NoSend
<1> QED  BY <1>2, <1>3, <1>4, <1>5 DEF PeerIInv

LEMMA PeerStepKeeps ==
    ASSUME PeerIInv, [PeerNext]_peervars
    PROVE  PeerIInv'
<1>1. CASE ControlStep
  BY <1>1, StartsKeeps, CallsKeeps, SendsKeeps, HearsKeeps, HearsSenderKeeps, RecordsKeeps
     DEF ControlStep
<1>2. CASE DestinationStep
  BY <1>2, TakesKeeps, PrepareRefusedKeeps, PrepareBeginsKeeps, PrepareServesKeeps,
     StatusRepliesKeeps, CancelBeginsKeeps, CancelFindsNoneKeeps, BeginWriteKeeps,
     PublishesKeeps, ReleaseReceiptsKeeps, RelaysKeeps
     DEF DestinationStep
<1>3. CASE ReceiverStep
  BY <1>3, ConnectsKeeps, ReceivesKeeps, MarksKeeps, AnswersKeeps, ReceiveFailsKeeps,
     ReceiveAbortsKeeps, SenderFailsKeeps, SenderIgnoredKeeps
     DEF ReceiverStep
<1>4. CASE RecordFails \/ LosesAnswer \/ Interrupted \/ ControlCrash \/ Retry
  BY <1>4, RecordFailsKeeps, LosesAnswerKeeps, InterruptedKeeps, ControlCrashKeeps, RetryKeeps
<1>5. CASE Joins \/ Settles \/ Expires \/ ExpiryLocks
  BY <1>5, JoinsKeeps, SettlesKeeps, ExpiresKeeps, ExpiryLocksKeeps
<1>6. CASE SessionChanges \/ Stops \/ Killed \/ Prunes \/ SourceChanges
  BY <1>6, SessionChangesKeeps, StopsKeeps, KilledKeeps, PrunesKeeps, SourceChangesKeeps
<1>7. CASE UNCHANGED peervars
  <2>1. UNCHANGED <<pc, waiting, ckpt, frozen, resumed, source, sender, queue, exec, result,
        lease,
                    receiver, expiry, holder, write, dest, retries, forfeited>>
    BY <1>7 DEF peervars, control, commands, manager
  <2> QED
    BY <2>1 DEF PeerIInv, ControlTyped, DestinationTyped, StepIs, CommandsFit, CommandFits,
                ClaimsOnce, ClaimIsOver, NoneOf, SendFollows, LeaseIs, HolderIs, WriteIs,
                AnswerIs, Awaited, Idle, Verified, Kept, Promised
<1> QED  BY <1>1, <1>2, <1>3, <1>4, <1>5, <1>6, <1>7 DEF PeerNext

LEMMA PeerSound == PeerIInv => PeerInv
<1> SUFFICES ASSUME PeerIInv PROVE PeerInv
  OBVIOUS
<1>1. PeerTypeOK
  <2>1. DOMAIN Command = {"prepare", "verify", "cancel", "undo", "begin", "finish", "again",
                          "release", "claim", "relay"}
    BY DEF Command
  <2>2. Ops \cup {"idle"} \subseteq {"idle"} \cup {Command[step] : step \in DOMAIN Command}
    BY DEF Command, Ops
  <2>3. Callings \subseteq Call
    BY <2>2 DEF Callings, Call
  <2>4. exec \in Call /\ \A i \in DOMAIN queue : queue[i] \in Call
    BY <2>3 DEF PeerIInv, DestinationTyped
  <2>5. /\ lease.state \in LeaseStates
        /\ sender.stage \in {"idle", "connecting", "sending", "ok", "error"}
        /\ ckpt.route \in {"none", "peer", "relay"}
        /\ write.status \in {"none", "receiving", "committed"}
    BY DEF PeerIInv, ControlTyped, DestinationTyped, Leases, Senders, Checkpoints, Writes
  <2>6. pc \in DOMAIN Command \cup {"start", "send", "checkpoint", "record", "failed", "done"}
    BY <2>1 DEF PeerIInv, ControlTyped, Steps
  <2> QED
    BY <2>4, <2>5, <2>6 DEF PeerTypeOK, PeerIInv, ControlTyped, DestinationTyped, LeaseStates
<1>2. RoutesExclude
  BY DEF PeerIInv, StepIs, LeaseIs, CommandsFit, CommandFits, RoutesExclude
<1>3. PublishedIsRecorded
  BY DEF PeerIInv, StepIs, PublishedIsRecorded
<1>4. PromiseIsKept
  BY DEF PeerIInv, Kept, PromiseIsKept
<1>5. ReceivedIsWhole
  BY DEF PeerIInv, WriteIs, ReceivedIsWhole
<1> QED  BY <1>1, <1>2, <1>3, <1>4, <1>5 DEF PeerInv

\* A direct copy keeps its promises under any number of faults and retries: one route at
\* a time writes to the destination, what is published is what Control has recorded, and
\* bytes it has recorded stay until they are published, unless a change of the session, a
\* stop or the pruning of scratch files gives them up.
THEOREM PeerCopiesAreSound == PeerSpec => []PeerInv
<1>1. PeerInit => PeerIInv
  BY PeerStarts
<1>2. PeerIInv /\ [PeerNext]_peervars => PeerIInv'
  BY PeerStepKeeps
<1>3. PeerIInv => PeerInv
  BY PeerSound
<1> QED  BY <1>1, <1>2, <1>3, PTL DEF PeerSpec

=============================================================================
