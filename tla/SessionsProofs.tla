--------------------------- MODULE SessionsProofs ---------------------------
(***************************************************************************)
(* Proofs about the sessions of an executor (ControlSessions) and about    *)
(* the tasks they are attached to (TaskState), about both together         *)
(* (MCAdmission), and about the sessions that are being ended while        *)
(* Control stops (ControlShutdown).                                        *)
(***************************************************************************)
EXTENDS MCAdmission, ControlShutdown, FiniteSetTheorems, TLAPS

-----------------------------------------------------------------------------
(* The sessions of one executor: what holds in every state                   *)

NoCreate(s) == \A i \in DOMAIN mail[s] : mail[s][i].op # "create"

\* What the operation that holds a session's lock may rely on: hellos change the
\* row without it.
OperationKnowsTheRow(s) ==
    /\ op[s].at \in {"creating", "confirming"} => record[s] \in {"creating", "active"}
    /\ op[s].at = "creating" => rpc[s] # "none"
    /\ op[s].at = "tool" => record[s] = "active"
    /\ op[s].at \in {"checking", "looking"} =>
         /\ record[s] \in {"creating", "active"} /\ op[s].for \in {"sweep", "admission"}
         /\ op[s].at = "looking" \/ seen[s] = "active" => record[s] = "active"
    /\ op[s].at \in {"preparing", "ending"} => record[s] \in {"terminating", "ended"}
    /\ "continue" \in tasks[s] => record[s] \in {"terminating", "ended"}

\* The create command of a session is the first it is sent, and only the last
\* command may still be awaited, by the operation that sent it.
CommandsAreOrdered(s) ==
    \A i \in 1 .. Len(mail[s]) :
        /\ i > 1 => mail[s][i].op = "terminate"
        /\ mail[s][i].awaited =>
             /\ i = Len(mail[s]) /\ rpc[s] = "offered"
             /\ op[s].at = IF mail[s][i].op = "create" THEN "creating" ELSE "ending"

\* Nothing exists of a session before its create command is taken.
StartsFromNothing(s) ==
    /\ record[s] = "none" => op[s] = Free
    /\ record[s] = "none" \/ (op[s].at = "creating" /\ rpc[s] = "queued") =>
         mail[s] = <<>> /\ s \notin exists

\* An answer fits its command, and one that says "absent" stays true while it is
\* on its way.
AbsenceLasts(s) ==
    op[s].at \in {"creating", "ending"} /\ rpc[s] \in {"executed", "answered"} =>
        /\ reply[s] = "absent" => s \notin exists /\ NoCreate(s)
        /\ op[s].at = "creating" => reply[s] \in {"ok", "absent", "unconfirmed"}

HelloIsCurrent == link = "hello" => inventory = exists /\ \A s \in Sessions : mail[s] = <<>>

ConfirmedHasEnded(s) == s \in confirmed => record[s] = "ended" /\ s \notin exists /\ NoCreate(s)

Sound(s) == /\ OperationKnowsTheRow(s) /\ StartsFromNothing(s) /\ CommandsAreOrdered(s)
            /\ AbsenceLasts(s) /\ ConfirmedHasEnded(s)

SessionsIInv ==
    /\ TypeOK /\ mail \in [Sessions -> Seq(Commands)] /\ HelloIsCurrent
    /\ \A s \in Sessions : Sound(s)

LEMMA SessionsInitEstablishes == Init => SessionsIInv
  <1>. SUFFICES ASSUME Init PROVE SessionsIInv
    OBVIOUS
  <1>1. TypeOK /\ mail \in [Sessions -> Seq(Commands)]
    <2>1. \A s \in Sessions : mail[s] = <<>> /\ op[s] = Free
      BY DEF Init
    <2>2. \A s \in Sessions : mail[s] \in Seq(Commands) /\ Len(mail[s]) <= MaxMail
      <3>1. <<>> \in Seq(Commands) /\ Len(<<>>) = 0
        OBVIOUS
      <3>2. Len(<<>>) <= MaxMail
        BY <3>1, MaxMailAssumption
      <3>. QED  BY <2>1, <3>1, <3>2, Zenon
    <2>3. mail \in [Sessions -> Seq(Commands)]
      BY <2>2 DEF Init
    <2>4. op \in [Sessions -> [at : {"free"}, for : {"nobody"}]]
      BY DEF Init, Free
    <2>5. op \in [Sessions -> [at : {"free", "creating", "confirming", "tool", "checking",
                                   "looking", "preparing", "ending"},
                             for : {"nobody", "user", "force", "hello", "sweep",
                                    "admission"}]]
      BY <2>4
    <2>6. /\ record \in [Sessions -> {"none", "creating", "active", "terminating", "ended",
                                     "forgotten"}]
          /\ missing \in [Sessions -> {"no", "recent", "old"}]
          /\ seen \in [Sessions -> {"none", "creating", "stale creating", "active"}]
          /\ tasks \in [Sessions -> SUBSET {"continue", "only if creating"}]
          /\ rpc \in [Sessions -> {"none", "queued", "offered", "lost", "executed", "answered"}]
          /\ reply \in [Sessions -> {"none", "ok", "absent", "error", "unconfirmed", "busy"}]
      BY DEF Init
    <2>7. /\ confirmed \subseteq Sessions /\ old \subseteq Sessions /\ exists \subseteq Sessions
          /\ admission \in {"free", "held"} /\ online \in BOOLEAN /\ idle \subseteq Sessions
          /\ link \in {"connected", "away", "hello"} /\ inventory \subseteq Sessions
      BY DEF Init
    <2>8. faults \in 0 .. MaxFaults
      BY MaxFaultsAssumption DEF Init
    <2>. QED  BY <2>2, <2>3, <2>5, <2>6, <2>7, <2>8 DEF TypeOK
  <1>2. HelloIsCurrent
    BY DEF Init, HelloIsCurrent
  <1>3. ASSUME NEW s \in Sessions PROVE Sound(s)
    <2>1. /\ record[s] = "none" /\ op[s].at = "free" /\ op[s] = Free /\ tasks[s] = {}
          /\ mail[s] = <<>> /\ Len(mail[s]) = 0 /\ exists = {} /\ confirmed = {}
      BY DEF Init, Free
    <2>. QED  BY <2>1 DEF Sound, OperationKnowsTheRow, StartsFromNothing, CommandsAreOrdered,
                          AbsenceLasts, ConfirmedHasEnded
  <1>. QED  BY <1>1, <1>2, <1>3 DEF SessionsIInv

\* What becomes of the commands of a session whose caller is gone.
LEMMA UnawaitedFacts ==
    ASSUME mail \in [Sessions -> Seq(Commands)], NEW s \in Sessions
    PROVE  /\ Unawaited(s) \in [Sessions -> Seq(Commands)]
           /\ \A t \in Sessions : t # s => Unawaited(s)[t] = mail[t]
           /\ Len(Unawaited(s)[s]) = Len(mail[s])
           /\ \A i \in 1 .. Len(mail[s]) : /\ Unawaited(s)[s][i].op = mail[s][i].op
                                           /\ ~Unawaited(s)[s][i].awaited
           /\ mail[s] = <<>> => Unawaited(s)[s] = <<>>
  <1> DEFINE Box == [i \in 1 .. Len(mail[s]) |-> [mail[s][i] EXCEPT !.awaited = FALSE]]
  <1>1. Unawaited(s) = [mail EXCEPT ![s] = Box] /\ Len(mail[s]) \in Nat
    <2>1. mail[s] \in Seq(Commands)
      OBVIOUS
    <2>2. DOMAIN mail[s] = 1 .. Len(mail[s]) /\ Len(mail[s]) \in Nat
      BY <2>1
    <2>. QED  BY <2>2 DEF Unawaited
  <1>2. \A i \in 1 .. Len(mail[s]) : mail[s][i] \in Commands
    OBVIOUS
  <1>3. \A i \in 1 .. Len(mail[s]) : /\ Box[i] \in Commands /\ Box[i].op = mail[s][i].op
                                     /\ ~Box[i].awaited
    BY <1>2 DEF Commands
  <1>4. Box \in Seq(Commands) /\ Len(Box) = Len(mail[s])
    BY <1>1, <1>3
  <1>5. mail[s] = <<>> => Box = <<>>
    BY <1>4
  <1>6. Unawaited(s)[s] = Box
    BY <1>1
  <1>. QED  BY <1>1, <1>3, <1>4, <1>5, <1>6

-----------------------------------------------------------------------------
(* The sessions of one executor: every step keeps it                         *)

\* A step that touches at most session s.
TouchesOnly(s) ==
    /\ \A t \in Sessions \ {s} :
         /\ record'[t] = record[t] /\ op'[t] = op[t] /\ seen'[t] = seen[t]
         /\ tasks'[t] = tasks[t] /\ rpc'[t] = rpc[t] /\ reply'[t] = reply[t]
         /\ mail'[t] = mail[t] /\ (t \in exists' => t \in exists)
         /\ (t \in confirmed' => t \in confirmed)

WellTyped == TypeOK /\ mail \in [Sessions -> Seq(Commands)]

ControlTyped ==
    /\ record \in [Sessions -> {"none", "creating", "active", "terminating", "ended",
                                "forgotten"}]
    /\ confirmed \subseteq Sessions /\ old \subseteq Sessions
    /\ missing \in [Sessions -> {"no", "recent", "old"}]

LEMMA OneSessionSuffices ==
    ASSUME SessionsIInv, NEW s \in Sessions, WellTyped', HelloIsCurrent', TouchesOnly(s),
           Sound(s)'
    PROVE  SessionsIInv'
  <1>1. ASSUME NEW t \in Sessions \ {s} PROVE Sound(t)'
    <2>1. Sound(t)
      BY DEF SessionsIInv
    <2>. QED  BY <2>1 DEF TouchesOnly, Sound, OperationKnowsTheRow, StartsFromNothing,
                         CommandsAreOrdered, AbsenceLasts, ConfirmedHasEnded, NoCreate, Free
  <1>. QED  BY <1>1 DEF SessionsIInv, WellTyped

\* Whatever an operation does to the row of its session, it may release the lock if
\* the row moves forward and the absence it confirms is real.
MovesRow(s) ==
    /\ ControlTyped'
    /\ \A t \in Sessions \ {s} :
         record'[t] = record[t] /\ (t \in confirmed' => t \in confirmed)
    /\ record[s] # "none" => record'[s] # "none"
    /\ record[s] \in {"terminating", "ended"} => record'[s] \in {"terminating", "ended"}
    /\ s \in confirmed' => record'[s] = "ended" /\ s \notin exists /\ NoCreate(s)

LEMMA ReleaseSuffices ==
    ASSUME SessionsIInv, NEW s \in Sessions, Release(s),
           UNCHANGED <<admission, tasks, network>>,
           MovesRow(s)
    PROVE  SessionsIInv'
  <1>. USE DEF Release, network, MovesRow
  <1>0. Sound(s) /\ WellTyped /\ HelloIsCurrent
    BY DEF SessionsIInv, WellTyped
  <1>1. /\ mail' \in [Sessions -> Seq(Commands)]
        /\ \A t \in Sessions : t # s => mail'[t] = mail[t]
        /\ Len(mail'[s]) = Len(mail[s])
        /\ \A i \in 1 .. Len(mail[s]) : mail'[s][i].op = mail[s][i].op /\ ~mail'[s][i].awaited
        /\ mail[s] = <<>> => mail'[s] = <<>>
    BY <1>0, UnawaitedFacts DEF WellTyped
  <1>2. WellTyped'
    <2>1. \A t \in Sessions : mail'[t] \in Seq(Commands) /\ Len(mail'[t]) <= MaxMail
      BY <1>0, <1>1 DEF WellTyped, TypeOK
    <2>. QED  BY <1>0, <1>1, <2>1 DEF WellTyped, TypeOK, ControlTyped, Free
  <1>3. HelloIsCurrent'
    BY <1>0, <1>1 DEF HelloIsCurrent
  <1>4. /\ op'[s] = Free /\ op'[s].at = "free" /\ tasks'[s] = tasks[s]
        /\ rpc'[s] = "none"
    BY <1>0 DEF WellTyped, TypeOK, Free
  <1>5. TouchesOnly(s)
    BY <1>0, <1>1, ZenonT(60) DEF TouchesOnly, WellTyped, TypeOK
  <1>6. NoCreate(s) => NoCreate(s)'
    <2>1. DOMAIN mail[s] = 1 .. Len(mail[s]) /\ DOMAIN mail'[s] = 1 .. Len(mail[s])
      BY <1>0, <1>1 DEF WellTyped
    <2>. QED  BY <1>1, <2>1 DEF NoCreate
  <1>7. Sound(s)'
    <2>1. OperationKnowsTheRow(s)' /\ AbsenceLasts(s)'
      BY <1>0, <1>4 DEF Sound, OperationKnowsTheRow, AbsenceLasts
    <2>2. StartsFromNothing(s)'
      BY <1>0, <1>1, <1>4 DEF Sound, StartsFromNothing
    <2>3. CommandsAreOrdered(s)'
      BY <1>0, <1>1, <1>4 DEF Sound, CommandsAreOrdered
    <2>4. ConfirmedHasEnded(s)'
      BY <1>0, <1>1, <1>6 DEF Sound, ConfirmedHasEnded
    <2>. QED  BY <2>1, <2>2, <2>3, <2>4 DEF Sound
  <1>. QED  BY <1>2, <1>3, <1>5, <1>7, OneSessionSuffices

LEMMA CreateReturnsPreserves ==
    ASSUME SessionsIInv, NEW s \in Sessions, CreateReturns(s)
    PROVE  SessionsIInv'
  <1>0. Sound(s) /\ WellTyped
    BY DEF SessionsIInv, WellTyped
  <1>1. MovesRow(s)
    <2>1. reply[s] \in {"ok", "absent", "unconfirmed"}
      BY <1>0 DEF Sound, AbsenceLasts, CreateReturns
    <2>2. record[s] \in {"creating", "active"} /\ s \notin confirmed
      BY <1>0 DEF Sound, OperationKnowsTheRow, ConfirmedHasEnded, CreateReturns
    <2>. QED  BY <1>0, <2>1, <2>2, ZenonT(60)
              DEF MovesRow, CreateReturns, SetStatus, Discard, WellTyped, TypeOK, ControlTyped,
                  control
  <1>. QED  BY <1>1, ReleaseSuffices DEF CreateReturns

LEMMA ConfirmReturnsPreserves ==
    ASSUME SessionsIInv, NEW s \in Sessions, ConfirmReturns(s)
    PROVE  SessionsIInv'
  <1>0. Sound(s) /\ WellTyped
    BY DEF SessionsIInv, WellTyped
  <1>1. MovesRow(s)
    <2>1. record[s] \in {"creating", "active"} /\ s \notin confirmed
      BY <1>0 DEF Sound, OperationKnowsTheRow, ConfirmedHasEnded, ConfirmReturns
    <2>. QED  BY <1>0, <2>1, ZenonT(60)
              DEF MovesRow, ConfirmReturns, SetStatus, WellTyped, TypeOK, ControlTyped, control
  <1>. QED  BY <1>1, ReleaseSuffices DEF ConfirmReturns

\* An unchanged row may always be released.
LEMMA RowStays ==
    ASSUME SessionsIInv, NEW s \in Sessions, UNCHANGED <<record, confirmed, old>>,
           missing' \in [Sessions -> {"no", "recent", "old"}]
    PROVE  MovesRow(s)
  <1>0. Sound(s) /\ WellTyped
    BY DEF SessionsIInv, WellTyped
  <1>. QED  BY <1>0 DEF MovesRow, ControlTyped, WellTyped, TypeOK, Sound, ConfirmedHasEnded

LEMMA ReadsPreserve ==
    ASSUME SessionsIInv, NEW s \in Sessions, ToolReturns(s) \/ ReadFails(s)
    PROVE  SessionsIInv'
  <1>0. WellTyped
    BY DEF SessionsIInv, WellTyped
  <1>1. MovesRow(s)
    BY <1>0, RowStays DEF ToolReturns, ReadFails, control, WellTyped, TypeOK
  <1>. QED  BY <1>1, ReleaseSuffices DEF ToolReturns, ReadFails

\* An end that is confirmed or forced.
LEMMA EndingMovesRow ==
    ASSUME SessionsIInv, NEW s \in Sessions, NEW confirm \in BOOLEAN, MarkEnded(s, confirm),
           confirm => s \notin exists /\ NoCreate(s)
    PROVE  MovesRow(s)
  <1>0. Sound(s) /\ WellTyped
    BY DEF SessionsIInv, WellTyped
  <1>1. /\ record' = [record EXCEPT ![s] = "ended"] /\ old' = old \ {s}
        /\ confirmed' = IF confirm THEN confirmed \cup {s} ELSE confirmed \ {s}
        /\ missing' = [missing EXCEPT ![s] = "no"]
    BY DEF MarkEnded, SetStatus
  <1>2. ControlTyped'
    BY <1>0, <1>1 DEF WellTyped, TypeOK, ControlTyped
  <1>3. record'[s] = "ended" /\ \A t \in Sessions \ {s} : record'[t] = record[t]
    BY <1>0, <1>1 DEF WellTyped, TypeOK
  <1>. QED  BY <1>1, <1>2, <1>3 DEF MovesRow

LEMMA EndReturnsPreserves ==
    ASSUME SessionsIInv, NEW s \in Sessions, EndReturns(s)
    PROVE  SessionsIInv'
  <1>0. Sound(s) /\ WellTyped
    BY DEF SessionsIInv, WellTyped
  <1>1. MovesRow(s)
    <2>1. CASE reply[s] = "absent"
      <3>1. s \notin exists /\ NoCreate(s)
        BY <1>0, <2>1 DEF Sound, AbsenceLasts, EndReturns
      <3>. QED  BY <2>1, <3>1, EndingMovesRow DEF EndReturns
    <2>2. CASE reply[s] # "absent"
      BY <1>0, <2>2, RowStays DEF EndReturns, control, WellTyped, TypeOK
    <2>. QED  BY <2>1, <2>2
  <1>. QED  BY <1>1, ReleaseSuffices DEF EndReturns

LEMMA EndFailsPreserves ==
    ASSUME SessionsIInv, NEW s \in Sessions, EndFails(s) \/ CannotAskTermination(s)
    PROVE  SessionsIInv'
  <1>0. WellTyped
    BY DEF SessionsIInv, WellTyped
  <1>1. MovesRow(s)
    <2>1. CASE MarkEnded(s, FALSE)
      BY <2>1, EndingMovesRow
    <2>2. CASE UNCHANGED control
      BY <1>0, <2>2, RowStays DEF control, WellTyped, TypeOK
    <2>. QED  BY <2>1, <2>2 DEF EndFails, CannotAskTermination
  <1>. QED  BY <1>1, ReleaseSuffices DEF EndFails, CannotAskTermination

\* The operation that holds a session's lock.
OpStages == {"free", "creating", "confirming", "tool", "checking", "looking", "preparing",
  "ending"}
Owners == {"nobody", "user", "force", "hello", "sweep", "admission"}
OpTyped == op \in [Sessions -> [at : OpStages, for : Owners]]

LEMMA ProceedFacts ==
    ASSUME WellTyped, NEW s \in Sessions, NEW at \in OpStages, Proceed(s, at)
    PROVE  /\ OpTyped' /\ op'[s].at = at /\ op'[s].for = op[s].for
           /\ \A t \in Sessions \ {s} : op'[t] = op[t]
  <1>1. op \in [Sessions -> [at : OpStages, for : Owners]]
    BY DEF WellTyped, TypeOK, OpStages, Owners
  <1>2. op[s] \in [at : OpStages, for : Owners]
    BY <1>1
  <1>3. op' = [op EXCEPT ![s] = [op[s] EXCEPT !.at = at]]
    BY DEF Proceed
  <1>4. /\ [op[s] EXCEPT !.at = at] \in [at : OpStages, for : Owners]
        /\ [op[s] EXCEPT !.at = at].at = at /\ [op[s] EXCEPT !.at = at].for = op[s].for
    BY <1>2
  <1>. QED  BY <1>1, <1>3, <1>4 DEF OpTyped

LEMMA TakeFacts ==
    ASSUME WellTyped, NEW s \in Sessions, NEW at \in OpStages, NEW for \in Owners,
           Take(s, at, for)
    PROVE  /\ OpTyped' /\ op'[s] = [at |-> at, for |-> for]
           /\ op'[s].at = at /\ op'[s].for = for
           /\ \A t \in Sessions \ {s} : op'[t] = op[t]
  <1>1. op \in [Sessions -> [at : OpStages, for : Owners]]
    BY DEF WellTyped, TypeOK, OpStages, Owners
  <1>. QED  BY <1>1 DEF Take, OpTyped

LEMMA FreeFact == Free.at = "free"
  BY DEF Free

\* A record is removed while it is still being created.
LEMMA DiscardMovesRow ==
    ASSUME SessionsIInv, NEW s \in Sessions, op[s].at = "creating", Discard(s)
    PROVE  MovesRow(s)
  <1>0. Sound(s) /\ WellTyped
    BY DEF SessionsIInv, WellTyped
  <1>1. record[s] \in {"creating", "active"} /\ s \notin confirmed
    BY <1>0 DEF Sound, OperationKnowsTheRow, ConfirmedHasEnded
  <1>2. CASE UNCHANGED control
    BY <1>0, <1>2, RowStays DEF control, WellTyped, TypeOK
  <1>3. CASE /\ record' = [record EXCEPT ![s] = "forgotten"] /\ old' = old \ {s}
             /\ UNCHANGED <<confirmed, missing>>
    BY <1>0, <1>1, <1>3 DEF MovesRow, WellTyped, TypeOK, ControlTyped
  <1>. QED  BY <1>2, <1>3 DEF Discard

LEMMA CreateFailsPreserves ==
    ASSUME SessionsIInv, NEW s \in Sessions, CreateFails(s)
    PROVE  SessionsIInv'
  <1>0. Sound(s) /\ WellTyped /\ HelloIsCurrent
    BY DEF SessionsIInv, WellTyped
  <1>1. CASE Discard(s) /\ Release(s)
    BY <1>1, DiscardMovesRow, ReleaseSuffices DEF CreateFails
  <1>2. CASE Release(s) /\ UNCHANGED control
    <2>1. MovesRow(s)
      BY <1>0, <1>2, RowStays DEF control, WellTyped, TypeOK
    <2>. QED  BY <1>2, <2>1, ReleaseSuffices DEF CreateFails
  <1>3. CASE Proceed(s, "confirming") /\ Ask(s) /\ mail' = Unawaited(s)
             /\ UNCHANGED <<control, seen>>
    <2>1. /\ mail' \in [Sessions -> Seq(Commands)]
          /\ \A t \in Sessions : t # s => mail'[t] = mail[t]
          /\ Len(mail'[s]) = Len(mail[s])
          /\ \A i \in 1 .. Len(mail[s]) : mail'[s][i].op = mail[s][i].op /\ ~mail'[s][i].awaited
          /\ mail[s] = <<>> => mail'[s] = <<>>
      BY <1>0, <1>3, UnawaitedFacts DEF WellTyped
    <2>2. /\ op' = [op EXCEPT ![s].at = "confirming"] /\ rpc' = [rpc EXCEPT ![s] = "queued"]
          /\ reply' = [reply EXCEPT ![s] = "none"]
          /\ UNCHANGED <<record, confirmed, old, missing, seen, admission, tasks, online, link,
                         inventory, exists, idle, faults>>
      BY <1>3 DEF CreateFails, Proceed, Ask, control, network
    <2>3. /\ OpTyped' /\ op'[s].at = "confirming" /\ rpc'[s] = "queued"
          /\ \A t \in Sessions \ {s} : op'[t] = op[t]
      <3>1. Proceed(s, "confirming") /\ "confirming" \in OpStages
        BY <1>3 DEF CreateFails, OpStages
      <3>2. rpc'[s] = "queued"
        BY <1>0, <2>2 DEF WellTyped, TypeOK
      <3>. QED  BY <1>0, <3>1, <3>2, ProceedFacts
    <2>4. record[s] \in {"creating", "active"}
      BY <1>0 DEF Sound, OperationKnowsTheRow, CreateFails
    <2>5. WellTyped'
      <3>1. \A t \in Sessions : mail'[t] \in Seq(Commands) /\ Len(mail'[t]) <= MaxMail
        BY <1>0, <2>1 DEF WellTyped, TypeOK
      <3>. QED  BY <1>0, <2>1, <2>2, <2>3, <3>1 DEF WellTyped, TypeOK, OpTyped, OpStages, Owners
    <2>6. HelloIsCurrent'
      BY <1>0, <2>1, <2>2 DEF HelloIsCurrent
    <2>7. TouchesOnly(s)
      BY <1>0, <2>1, <2>2, <2>3, ZenonT(60) DEF TouchesOnly, WellTyped, TypeOK
    <2>8. Sound(s)'
      <3>1. OperationKnowsTheRow(s)' /\ AbsenceLasts(s)' /\ StartsFromNothing(s)'
        BY <1>0, <2>2, <2>3, <2>4 DEF Sound, OperationKnowsTheRow, AbsenceLasts,
           StartsFromNothing
      <3>2. CommandsAreOrdered(s)'
        BY <1>0, <2>1 DEF Sound, CommandsAreOrdered
      <3>3. ConfirmedHasEnded(s)'
        BY <1>0, <2>2, <2>4 DEF Sound, ConfirmedHasEnded
      <3>. QED  BY <3>1, <3>2, <3>3 DEF Sound
    <2>. QED  BY <2>5, <2>6, <2>7, <2>8, OneSessionSuffices
  <1>. QED  BY <1>1, <1>2, <1>3 DEF CreateFails

\* A step that moves a session's operation on and leaves its commands alone.
LEMMA LockSuffices ==
    ASSUME SessionsIInv, NEW s \in Sessions, WellTyped', TouchesOnly(s),
           UNCHANGED <<link, inventory, mail, exists>>,
           OperationKnowsTheRow(s)', StartsFromNothing(s)', AbsenceLasts(s)',
           rpc[s] = "offered" /\ op[s].at \in {"creating", "ending"}
             => rpc'[s] = "offered" /\ op'[s].at = op[s].at,
           ConfirmedHasEnded(s)'
    PROVE  SessionsIInv'
  <1>0. Sound(s) /\ WellTyped /\ HelloIsCurrent
    BY DEF SessionsIInv, WellTyped
  <1>1. HelloIsCurrent'
    BY <1>0 DEF HelloIsCurrent
  <1>2. CommandsAreOrdered(s)'
    BY <1>0 DEF Sound, CommandsAreOrdered
  <1>. QED  BY <1>1, <1>2, OneSessionSuffices DEF Sound

LEMMA AdmitPreserves ==
    ASSUME SessionsIInv, NEW s \in Sessions, Admit(s)
    PROVE  SessionsIInv'
  <1>0. Sound(s) /\ WellTyped /\ HelloIsCurrent
    BY DEF SessionsIInv, WellTyped
  <1>. USE DEF Admit, SetStatus, Ask, executor
  <1>1. /\ OpTyped' /\ op'[s].at = "creating"
        /\ \A t \in Sessions \ {s} : op'[t] = op[t]
    BY <1>0, TakeFacts DEF OpStages, Owners, Free
  <1>2. WellTyped'
    BY <1>0, <1>1 DEF WellTyped, TypeOK, OpTyped, OpStages, Owners
  <1>3. TouchesOnly(s)
    BY <1>0, <1>1 DEF TouchesOnly, WellTyped, TypeOK
  <1>4. /\ op[s].at = "free" /\ rpc'[s] = "queued" /\ record'[s] = "creating"
        /\ mail[s] = <<>> /\ s \notin exists /\ s \notin confirmed /\ tasks'[s] = tasks[s]
    <2>1. record[s] = "none" /\ op[s] = Free /\ mail[s] = <<>> /\ s \notin exists
      BY <1>0 DEF Sound, StartsFromNothing
    <2>2. s \notin confirmed
      BY <1>0, <2>1 DEF Sound, ConfirmedHasEnded
    <2>3. rpc'[s] = "queued" /\ record'[s] = "creating" /\ tasks'[s] = tasks[s]
      BY <1>0 DEF WellTyped, TypeOK
    <2>. QED  BY <2>1, <2>2, <2>3 DEF Free
  <1>5. /\ OperationKnowsTheRow(s)' /\ StartsFromNothing(s)' /\ AbsenceLasts(s)'
        /\ ConfirmedHasEnded(s)'
    BY <1>0, <1>1, <1>4
    DEF Sound, OperationKnowsTheRow, StartsFromNothing, AbsenceLasts, ConfirmedHasEnded
  <1>6. Len(mail[s]) = 0 /\ HelloIsCurrent'
    BY <1>0, <1>4 DEF HelloIsCurrent
  <1>7. CommandsAreOrdered(s)'
    BY <1>6 DEF CommandsAreOrdered
  <1>. QED  BY <1>2, <1>3, <1>5, <1>6, <1>7, OneSessionSuffices DEF Sound

LEMMA BeginEndPreserves ==
    ASSUME SessionsIInv, NEW s \in Sessions, NEW for \in Owners, BeginEnd(s, for),
           s \in NonEnded, op[s].at \in {"free", "checking", "looking"},
           tasks' \in [Sessions -> SUBSET {"continue", "only if creating"}],
           \A t \in Sessions \ {s} : tasks'[t] = tasks[t],
           rpc' = rpc \/ rpc' = [rpc EXCEPT ![s] = "none"],
           UNCHANGED <<admission, reply, mail, network>>
    PROVE  SessionsIInv'
  <1>0. Sound(s) /\ WellTyped
    BY DEF SessionsIInv, WellTyped
  <1>1. /\ OpTyped' /\ op'[s].at = "preparing"
        /\ \A t \in Sessions \ {s} : op'[t] = op[t]
    <2>1. Take(s, "preparing", for) /\ "preparing" \in OpStages
      BY DEF BeginEnd, OpStages
    <2>. QED  BY <1>0, <2>1, TakeFacts
  <1>2. /\ record' \in [Sessions -> {"none", "creating", "active", "terminating", "ended",
                                     "forgotten"}]
        /\ record'[s] = "terminating" /\ \A t \in Sessions \ {s} : record'[t] = record[t]
        /\ old' \subseteq Sessions
    <2>1. CASE record[s] = "terminating"
      BY <1>0, <2>1 DEF BeginEnd, WellTyped, TypeOK
    <2>2. CASE record[s] # "terminating"
      <3>1. record' = [record EXCEPT ![s] = "terminating"] /\ old' = old \ {s}
        BY <2>2 DEF BeginEnd, SetStatus
      <3>. QED  BY <1>0, <3>1, ZenonT(60) DEF WellTyped, TypeOK
    <2>. QED  BY <2>1, <2>2
  <1>3. /\ rpc' \in [Sessions -> {"none", "queued", "offered", "lost", "executed", "answered"}]
        /\ \A t \in Sessions \ {s} : rpc'[t] = rpc[t]
    BY <1>0, ZenonT(60) DEF WellTyped, TypeOK
  <1>u. /\ seen' = [seen EXCEPT ![s] = "none"]
        /\ UNCHANGED <<confirmed, missing, admission, reply, mail, online, link, inventory,
                       exists, idle, faults>>
    BY DEF BeginEnd, network
  <1>4. WellTyped'
    <2>1. /\ seen' \in [Sessions -> {"none", "creating", "stale creating", "active"}]
          /\ confirmed' \subseteq Sessions
      BY <1>0, <1>u DEF WellTyped, TypeOK
    <2>2. op' \in [Sessions -> [at : {"free", "creating", "confirming", "tool", "checking",
                                      "looking", "preparing", "ending"},
                               for : {"nobody", "user", "force", "hello", "sweep",
                                      "admission"}]]
      BY <1>1 DEF OpTyped, OpStages, Owners
    <2>3. /\ missing' = missing /\ admission' = admission /\ reply' = reply /\ mail' = mail
          /\ online' = online /\ link' = link /\ inventory' = inventory
          /\ exists' = exists /\ idle' = idle /\ faults' = faults
      BY <1>u
    <2>4. /\ missing' \in [Sessions -> {"no", "recent", "old"}]
          /\ admission' \in {"free", "held"}
          /\ reply' \in [Sessions -> {"none", "ok", "absent", "error", "unconfirmed", "busy"}]
          /\ online' \in BOOLEAN /\ link' \in {"connected", "away", "hello"}
          /\ inventory' \subseteq Sessions /\ exists' \subseteq Sessions
          /\ idle' \subseteq Sessions /\ faults' \in 0..MaxFaults
      BY <1>0, <2>3 DEF WellTyped, TypeOK
    <2>5. /\ \A t \in Sessions : mail'[t] \in Seq(Commands) /\ Len(mail'[t]) <= MaxMail
          /\ mail' \in [Sessions -> Seq(Commands)]
      BY <1>0, <2>3, Zenon DEF WellTyped, TypeOK
    <2>. QED  BY <1>2, <1>3, <2>1, <2>2, <2>4, <2>5 DEF WellTyped, TypeOK
  <1>5. TouchesOnly(s)
    <2>1. \A t \in Sessions \ {s} : seen'[t] = seen[t]
      BY <1>0, <1>u, ZenonT(60) DEF WellTyped, TypeOK
    <2>. QED  BY <1>1, <1>2, <1>3, <1>u, <2>1 DEF TouchesOnly
  <1>6. s \notin confirmed
    BY <1>0 DEF Sound, ConfirmedHasEnded, NonEnded
  <1>7. OperationKnowsTheRow(s)' /\ StartsFromNothing(s)' /\ AbsenceLasts(s)'
    BY <1>1, <1>2 DEF OperationKnowsTheRow, StartsFromNothing, AbsenceLasts
  <1>8. ConfirmedHasEnded(s)'
    BY <1>6 DEF ConfirmedHasEnded, BeginEnd
  <1>. QED  BY <1>4, <1>5, <1>7, <1>8, LockSuffices DEF network

LEMMA EndSessionPreserves ==
    ASSUME SessionsIInv, NEW s \in Sessions, NEW for \in {"user", "force"}, EndSession(s, for)
    PROVE  SessionsIInv'
  <1>1. WellTyped
    BY DEF SessionsIInv, WellTyped
  <1>2. BeginEnd(s, for) /\ s \in NonEnded /\ op[s].at = "free" /\ for \in Owners
    BY DEF EndSession, Free, Owners
  <1>3. UNCHANGED <<admission, reply, mail, network>> /\ rpc' = rpc /\ tasks' = tasks
    BY DEF EndSession, request, executor, network
  <1>4. tasks \in [Sessions -> SUBSET {"continue", "only if creating"}]
    BY <1>1 DEF WellTyped, TypeOK
  <1>. QED  BY <1>2, <1>3, <1>4, BeginEndPreserves

LEMMA ContinueTerminationPreserves ==
    ASSUME SessionsIInv, NEW s \in Sessions, NEW kind \in {"continue", "only if creating"},
           ContinueTermination(s, kind)
    PROVE  SessionsIInv'
  <1>0. Sound(s) /\ WellTyped
    BY DEF SessionsIInv, WellTyped
  <1>1. /\ tasks' \in [Sessions -> SUBSET {"continue", "only if creating"}]
        /\ \A t \in Sessions \ {s} : tasks'[t] = tasks[t]
        /\ tasks'[s] \subseteq tasks[s]
    BY <1>0 DEF ContinueTermination, WellTyped, TypeOK
  <1>2. CASE StillApplies(s, kind)
    <2>1. BeginEnd(s, "hello") /\ s \in NonEnded /\ op[s].at = "free" /\ "hello" \in Owners
      <3>1. op[s] = Free /\ BeginEnd(s, "hello")
        BY <1>2 DEF ContinueTermination
      <3>. QED  BY <1>2, <3>1, FreeFact DEF StillApplies, Owners
    <2>2. UNCHANGED <<admission, reply, mail, network>> /\ rpc' = rpc
      BY DEF ContinueTermination, request, executor, network
    <2>. QED  BY <1>1, <2>1, <2>2, BeginEndPreserves
  <1>3. CASE ~StillApplies(s, kind)
    <2>1. UNCHANGED <<control, op, seen, admission, request, executor>>
      BY <1>3 DEF ContinueTermination
    <2>. USE DEF control, request, executor
    <2>2. WellTyped' /\ TouchesOnly(s)
      BY <1>0, <1>1, <2>1 DEF WellTyped, TypeOK, TouchesOnly
    <2>3. /\ OperationKnowsTheRow(s)' /\ StartsFromNothing(s)' /\ AbsenceLasts(s)'
          /\ ConfirmedHasEnded(s)'
      BY <1>0, <1>1, <2>1
      DEF Sound, OperationKnowsTheRow, StartsFromNothing, AbsenceLasts, ConfirmedHasEnded,
          NoCreate
    <2>. QED  BY <2>1, <2>2, <2>3, LockSuffices
  <1>. QED  BY <1>2, <1>3

LEMMA AutoEndCheckedPreserves ==
    ASSUME SessionsIInv, NEW s \in Sessions, AutoEndChecked(s)
    PROVE  SessionsIInv'
  <1>0. Sound(s) /\ WellTyped
    BY DEF SessionsIInv, WellTyped
  <1>. USE DEF AutoEndChecked
  <1>1. /\ record[s] \in {"creating", "active"} /\ op[s].for \in {"sweep", "admission"}
        /\ seen[s] = "active" => record[s] = "active"
        /\ s \notin confirmed
    BY <1>0 DEF Sound, OperationKnowsTheRow, ConfirmedHasEnded
  <1>2. CASE BeginEnd(s, op[s].for) /\ UNCHANGED <<request, mail>>
    <2>1. /\ s \in NonEnded /\ op[s].at = "checking" /\ op[s].for \in Owners
          /\ rpc' = rpc /\ tasks' = tasks
          /\ UNCHANGED <<admission, reply, mail, network>>
      BY <1>1, <1>2 DEF NonEnded, Owners, request
    <2>2. tasks \in [Sessions -> SUBSET {"continue", "only if creating"}]
      BY <1>0 DEF WellTyped, TypeOK
    <2>. QED  BY <1>2, <2>1, <2>2, BeginEndPreserves
  <1>3. CASE seen[s] = "active" /\ Proceed(s, "looking") /\ Ask(s)
             /\ UNCHANGED <<control, seen, mail>>
    <2>1. /\ OpTyped' /\ op'[s].at = "looking" /\ op'[s].for = op[s].for
          /\ \A t \in Sessions \ {s} : op'[t] = op[t]
      BY <1>0, <1>3, ProceedFacts DEF OpStages, Free
    <2>2. WellTyped'
      BY <1>0, <1>3, <2>1 DEF WellTyped, TypeOK, OpTyped, OpStages, Owners, control, network,
         Ask
    <2>3. TouchesOnly(s)
      BY <1>0, <1>3, <2>1 DEF TouchesOnly, WellTyped, TypeOK, control, network, Ask
    <2>4. /\ OperationKnowsTheRow(s)' /\ StartsFromNothing(s)' /\ AbsenceLasts(s)'
          /\ ConfirmedHasEnded(s)'
      BY <1>0, <1>1, <1>3, <2>1
      DEF Sound, OperationKnowsTheRow, StartsFromNothing, AbsenceLasts, ConfirmedHasEnded,
          control, network, Ask
    <2>. QED  BY <1>3, <2>2, <2>3, <2>4, LockSuffices DEF network
  <1>4. CASE Release(s) /\ UNCHANGED control
    <2>1. MovesRow(s)
      BY <1>0, <1>4, RowStays DEF control, WellTyped, TypeOK
    <2>. QED  BY <1>4, <2>1, ReleaseSuffices
  <1>. QED  BY <1>2, <1>3, <1>4

LEMMA AutoEndLookedUpPreserves ==
    ASSUME SessionsIInv, NEW s \in Sessions, AutoEndLookedUp(s)
    PROVE  SessionsIInv'
  <1>0. Sound(s) /\ WellTyped
    BY DEF SessionsIInv, WellTyped
  <1>. USE DEF AutoEndLookedUp
  <1>1. record[s] \in {"creating", "active"} /\ op[s].for \in {"sweep", "admission"}
    BY <1>0 DEF Sound, OperationKnowsTheRow
  <1>2. CASE reply[s] = "ok"
    <2>1. /\ BeginEnd(s, op[s].for) /\ s \in NonEnded /\ op[s].at = "looking"
          /\ op[s].for \in Owners /\ rpc' = [rpc EXCEPT ![s] = "none"] /\ tasks' = tasks
          /\ UNCHANGED <<admission, reply, mail, network>>
      BY <1>1, <1>2 DEF NonEnded, Owners
    <2>2. tasks \in [Sessions -> SUBSET {"continue", "only if creating"}]
      BY <1>0 DEF WellTyped, TypeOK
    <2>. QED  BY <2>1, <2>2, BeginEndPreserves
  <1>3. CASE reply[s] # "ok"
    <2>1. missing' \in [Sessions -> {"no", "recent", "old"}]
      <3>1. missing \in [Sessions -> {"no", "recent", "old"}]
        BY <1>0 DEF WellTyped, TypeOK
      <3>2. missing' = [missing EXCEPT ![s] = IF reply[s] = "busy" THEN "no"
                                              ELSE IF @ = "no" THEN "recent" ELSE @]
        BY <1>3
      <3>. QED  BY <3>1, <3>2
    <2>2. MovesRow(s)
      BY <1>3, <2>1, RowStays
    <2>. QED  BY <1>3, <2>2, ReleaseSuffices
  <1>. QED  BY <1>2, <1>3

LEMMA CallToolPreserves ==
    ASSUME SessionsIInv, NEW s \in Sessions, CallTool(s)
    PROVE  SessionsIInv'
  <1>0. Sound(s) /\ WellTyped
    BY DEF SessionsIInv, WellTyped
  <1>. USE DEF CallTool, Ask, control, executor
  <1>1. /\ OpTyped' /\ op'[s].at = "tool"
        /\ \A t \in Sessions \ {s} : op'[t] = op[t]
    BY <1>0, TakeFacts DEF OpStages, Owners, Free
  <1>2. WellTyped' /\ TouchesOnly(s)
    BY <1>0, <1>1 DEF WellTyped, TypeOK, OpTyped, OpStages, Owners, TouchesOnly
  <1>3. /\ OperationKnowsTheRow(s)' /\ StartsFromNothing(s)' /\ AbsenceLasts(s)'
        /\ ConfirmedHasEnded(s)'
    BY <1>0, <1>1
    DEF Sound, OperationKnowsTheRow, StartsFromNothing, AbsenceLasts, ConfirmedHasEnded
  <1>. QED  BY <1>2, <1>3, LockSuffices DEF Free

LEMMA AskTerminationPreserves ==
    ASSUME SessionsIInv, NEW s \in Sessions, AskTermination(s)
    PROVE  SessionsIInv'
  <1>0. Sound(s) /\ WellTyped
    BY DEF SessionsIInv, WellTyped
  <1>. USE DEF AskTermination, Ask, control, executor
  <1>1. /\ OpTyped' /\ op'[s].at = "ending"
        /\ \A t \in Sessions \ {s} : op'[t] = op[t]
    BY <1>0, ProceedFacts DEF OpStages, Free
  <1>2. WellTyped' /\ TouchesOnly(s) /\ rpc'[s] = "queued"
    BY <1>0, <1>1 DEF WellTyped, TypeOK, OpTyped, OpStages, Owners, TouchesOnly
  <1>c. record[s] \in {"terminating", "ended"} /\ rpc'[s] = "queued"
    BY <1>0, <1>2 DEF Sound, OperationKnowsTheRow
  <1>3. OperationKnowsTheRow(s)' /\ StartsFromNothing(s)' /\ AbsenceLasts(s)'
    BY <1>1, <1>c DEF OperationKnowsTheRow, StartsFromNothing, AbsenceLasts
  <1>4. ConfirmedHasEnded(s)'
    BY <1>0 DEF Sound, ConfirmedHasEnded, NoCreate
  <1>. QED  BY <1>2, <1>3, <1>4, LockSuffices

LEMMA AutoEndPreserves ==
    ASSUME SessionsIInv, NEW s \in Sessions, NEW for \in {"sweep", "admission"}, AutoEnd(s, for)
    PROVE  SessionsIInv'
  <1>0. Sound(s) /\ WellTyped
    BY DEF SessionsIInv, WellTyped
  <1>. USE DEF control, request, executor
  <1>1. /\ OpTyped' /\ op'[s].at = "checking" /\ op'[s].for = for
        /\ \A t \in Sessions \ {s} : op'[t] = op[t]
    <2>1. Take(s, "checking", for) /\ "checking" \in OpStages /\ for \in Owners
      BY DEF AutoEnd, OpStages, Owners
    <2>. QED  BY <1>0, <2>1, TakeFacts
  <1>2. /\ record[s] \in {"creating", "active"} /\ op[s].at = "free"
        /\ UNCHANGED <<control, admission, tasks, request, executor>>
        /\ seen' = [seen EXCEPT ![s] = IF record[s] = "creating" /\ s \in old
                                       THEN "stale creating" ELSE record[s]]
    BY FreeFact DEF AutoEnd
  <1>3. /\ seen' \in [Sessions -> {"none", "creating", "stale creating", "active"}]
        /\ seen'[s] = "active" => record[s] = "active"
        /\ \A t \in Sessions \ {s} : seen'[t] = seen[t]
    BY <1>0, <1>2 DEF WellTyped, TypeOK
  <1>4. WellTyped' /\ TouchesOnly(s)
    BY <1>0, <1>1, <1>2, <1>3 DEF WellTyped, TypeOK, OpTyped, OpStages, Owners, TouchesOnly
  <1>5. OperationKnowsTheRow(s)'
    BY <1>0, <1>1, <1>2, <1>3 DEF Sound, OperationKnowsTheRow
  <1>6. StartsFromNothing(s)' /\ AbsenceLasts(s)' /\ ConfirmedHasEnded(s)'
    BY <1>0, <1>1, <1>2 DEF Sound, StartsFromNothing, AbsenceLasts, ConfirmedHasEnded, NoCreate
  <1>. QED  BY <1>2, <1>4, <1>5, <1>6, LockSuffices

\* A step that leaves the sessions' rows, locks and commands alone.
LEMMA NothingElseSuffices ==
    ASSUME SessionsIInv, WellTyped', HelloIsCurrent',
           UNCHANGED <<record, confirmed, op, seen, tasks, rpc, reply, mail>>,
           exists' \subseteq exists
    PROVE  SessionsIInv'
  <1>1. ASSUME NEW t \in Sessions PROVE Sound(t)'
    <2>1. Sound(t)
      BY DEF SessionsIInv
    <2>. QED  BY <2>1 DEF Sound, OperationKnowsTheRow, StartsFromNothing, CommandsAreOrdered,
                         AbsenceLasts, ConfirmedHasEnded, NoCreate
  <1>. QED  BY <1>1 DEF SessionsIInv, WellTyped

LEMMA LinkPreserves ==
    ASSUME SessionsIInv,
           LinkDrops \/ SendHello \/ LoseHello \/ PresenceLapses \/ Heartbeat \/ TimePasses
             \/ BeginAdmission \/ RefuseAdmission \/ \E s \in Sessions : Observes(s)
    PROVE  SessionsIInv'
  <1>0. WellTyped /\ HelloIsCurrent
    BY DEF SessionsIInv, WellTyped
  <1>. USE DEF control, locks, request, executor
  <1>1. CASE LinkDrops \/ SendHello \/ LoseHello \/ PresenceLapses \/ Heartbeat
    <2>1. /\ UNCHANGED <<control, locks, request, mail, exists, idle, faults>>
          /\ online' \in BOOLEAN /\ link' \in {"connected", "away", "hello"}
          /\ inventory' \subseteq Sessions
      BY <1>0, <1>1 DEF LinkDrops, SendHello, LoseHello, PresenceLapses, Heartbeat, WellTyped,
         TypeOK
    <2>2. WellTyped'
      BY <1>0, <2>1 DEF WellTyped, TypeOK
    <2>3. HelloIsCurrent'
      BY <1>0, <1>1
      DEF HelloIsCurrent, LinkDrops, SendHello, LoseHello, PresenceLapses, Heartbeat
    <2>. QED  BY <2>1, <2>2, <2>3, NothingElseSuffices
  <1>2. CASE TimePasses
    <2>1. /\ old' \subseteq Sessions /\ idle' \subseteq Sessions
          /\ missing' \in [Sessions -> {"no", "recent", "old"}]
          /\ UNCHANGED <<record, confirmed, locks, request, online, link, inventory, mail,
                         exists, faults>>
      BY <1>0, <1>2 DEF TimePasses, WellTyped, TypeOK, NonEnded
    <2>2. WellTyped' /\ HelloIsCurrent'
      BY <1>0, <2>1 DEF WellTyped, TypeOK, HelloIsCurrent
    <2>. QED  BY <2>1, <2>2, NothingElseSuffices
  <1>3. CASE BeginAdmission \/ RefuseAdmission
    <2>1. admission' \in {"free", "held"}
          /\ UNCHANGED <<control, op, seen, tasks, request, executor>>
      BY <1>3 DEF BeginAdmission, RefuseAdmission
    <2>2. WellTyped' /\ HelloIsCurrent'
      BY <1>0, <2>1 DEF WellTyped, TypeOK, HelloIsCurrent
    <2>. QED  BY <2>1, <2>2, NothingElseSuffices
  <1>4. ASSUME NEW s \in Sessions, Observes(s) PROVE SessionsIInv'
    <2>1. UNCHANGED <<record, confirmed, old, locks, request, executor>>
      BY <1>4 DEF Observes
    <2>2. missing' \in [Sessions -> {"no", "recent", "old"}]
      <3>1. missing \in [Sessions -> {"no", "recent", "old"}]
        BY <1>0 DEF WellTyped, TypeOK
      <3>2. missing' = [missing EXCEPT ![s] = IF s \in exists THEN "no"
                                              ELSE IF @ = "no" THEN "recent" ELSE @]
        BY <1>4 DEF Observes
      <3>. QED  BY <3>1, <3>2
    <2>3. WellTyped' /\ HelloIsCurrent'
      BY <1>0, <2>1, <2>2 DEF WellTyped, TypeOK, HelloIsCurrent
    <2>. QED  BY <2>1, <2>3, NothingElseSuffices
  <1>. QED  BY <1>1, <1>2, <1>3, <1>4

LEMMA OfferPreserves ==
    ASSUME SessionsIInv, NEW s \in Sessions, NEW arrives \in BOOLEAN, Offer(s, arrives)
    PROVE  SessionsIInv'
  <1>0. Sound(s) /\ WellTyped /\ HelloIsCurrent /\ Len(mail[s]) \in Nat
    BY DEF SessionsIInv, WellTyped
  <1>. USE DEF control, locks
  <1>1. /\ link = "connected" /\ rpc[s] = "queued"
        /\ rpc' = [rpc EXCEPT ![s] = IF arrives THEN "offered" ELSE "lost"]
        /\ UNCHANGED <<control, locks, reply, online, link, inventory, exists, idle, faults>>
    BY DEF Offer
  <1>2. /\ rpc'[s] \in {"offered", "lost"} /\ (arrives => rpc'[s] = "offered")
        /\ rpc' \in [Sessions -> {"none", "queued", "offered", "lost", "executed", "answered"}]
        /\ \A t \in Sessions \ {s} : rpc'[t] = rpc[t]
    BY <1>0, <1>1 DEF WellTyped, TypeOK
  <1>3. HelloIsCurrent'
    BY <1>1 DEF HelloIsCurrent
  <1>4. OperationKnowsTheRow(s)' /\ AbsenceLasts(s)'
    BY <1>0, <1>1, <1>2 DEF Sound, OperationKnowsTheRow, AbsenceLasts
  <1>5. CASE mail' = mail
    <2>1. WellTyped' /\ TouchesOnly(s)
      BY <1>0, <1>1, <1>2, <1>5 DEF WellTyped, TypeOK, TouchesOnly
    <2>2. StartsFromNothing(s)' /\ CommandsAreOrdered(s)' /\ ConfirmedHasEnded(s)'
      BY <1>0, <1>1, <1>2, <1>5
      DEF Sound, StartsFromNothing, CommandsAreOrdered, ConfirmedHasEnded, NoCreate
    <2>. QED  BY <1>3, <1>4, <2>1, <2>2, OneSessionSuffices DEF Sound
  <1>6. CASE /\ arrives /\ op[s].at \in {"creating", "ending"}
             /\ mail' = [mail EXCEPT ![s] = Append(@, [op |-> OrderedOp(s), awaited |-> TRUE])]
    <2> DEFINE m == [op |-> OrderedOp(s), awaited |-> TRUE]
    <2>1. m \in Commands /\ m.op = OrderedOp(s) /\ m.awaited
      BY DEF OrderedOp, Commands
    <2>2. /\ Append(mail[s], m) \in Seq(Commands)
          /\ Len(Append(mail[s], m)) = Len(mail[s]) + 1
          /\ Append(mail[s], m)[Len(mail[s]) + 1] = m
          /\ \A i \in 1 .. Len(mail[s]) : Append(mail[s], m)[i] = mail[s][i]
      BY <1>0, <2>1 DEF WellTyped
    <2>3. /\ mail' \in [Sessions -> Seq(Commands)] /\ mail'[s] = Append(mail[s], m)
          /\ \A t \in Sessions \ {s} : mail'[t] = mail[t]
      BY <1>0, <1>6, <2>2 DEF WellTyped
    <2>4. Len(mail[s]) + 1 <= MaxMail
      BY <1>0, <1>6, MaxMailAssumption DEF Offer
    <2>5. WellTyped'
      <3>1. \A t \in Sessions : mail'[t] \in Seq(Commands) /\ Len(mail'[t]) <= MaxMail
        BY <1>0, <2>2, <2>3, <2>4 DEF WellTyped, TypeOK
      <3>. QED  BY <1>0, <1>1, <1>2, <2>3, <3>1 DEF WellTyped, TypeOK
    <2>6. TouchesOnly(s)
      BY <1>1, <1>2, <2>3 DEF TouchesOnly
    <2>7. record[s] # "none"
      BY <1>0, <1>6, FreeFact DEF Sound, StartsFromNothing
    <2>8. StartsFromNothing(s)'
      BY <1>1, <1>2, <2>7 DEF StartsFromNothing
    <2>9. op[s].at = "creating" => mail[s] = <<>> /\ Len(mail[s]) = 0
      BY <1>0, <1>1 DEF Sound, StartsFromNothing
    <2>10. CommandsAreOrdered(s)'
      <3>1. \A i \in 1 .. Len(mail[s]) : ~mail[s][i].awaited
            /\ (i > 1 => mail[s][i].op = "terminate")
        BY <1>0, <1>1 DEF Sound, CommandsAreOrdered
      <3>2. Len(mail[s]) + 1 > 1 => OrderedOp(s) = "terminate"
        BY <1>0, <2>9 DEF OrderedOp
      <3>3. op[s].at = IF OrderedOp(s) = "create" THEN "creating" ELSE "ending"
        BY <1>6 DEF OrderedOp
      <3>4. 1 .. Len(mail'[s]) = (1 .. Len(mail[s])) \cup {Len(mail[s]) + 1}
        BY <1>0, <2>2, <2>3
      <3>5. ASSUME NEW i \in 1 .. Len(mail[s])
            PROVE  ~mail'[s][i].awaited /\ (i > 1 => mail'[s][i].op = "terminate")
        BY <2>2, <2>3, <3>1
      <3>6. mail'[s][Len(mail[s]) + 1] = m /\ Len(mail'[s]) = Len(mail[s]) + 1
        BY <2>2, <2>3
      <3>. QED  BY <1>1, <1>2, <1>6, <2>1, <3>2, <3>3, <3>4, <3>5, <3>6 DEF CommandsAreOrdered
    <2>11. ConfirmedHasEnded(s)'
      <3>1. s \in confirmed => record[s] = "ended" /\ s \notin exists /\ NoCreate(s)
        BY <1>0 DEF Sound, ConfirmedHasEnded
      <3>2. op[s].at = "creating" => record[s] \in {"creating", "active"}
        BY <1>0 DEF Sound, OperationKnowsTheRow
      <3>3. s \in confirmed => OrderedOp(s) = "terminate"
        BY <3>1, <3>2 DEF OrderedOp
      <3>4. /\ DOMAIN mail[s] = 1 .. Len(mail[s])
            /\ DOMAIN mail'[s] = (1 .. Len(mail[s])) \cup {Len(mail[s]) + 1}
        BY <1>0, <2>2, <2>3 DEF WellTyped
      <3>5. s \in confirmed => NoCreate(s)'
        BY <2>1, <2>2, <2>3, <3>1, <3>3, <3>4 DEF NoCreate
      <3>. QED  BY <1>1, <3>1, <3>5 DEF ConfirmedHasEnded
    <2>. QED  BY <1>3, <1>4, <2>5, <2>6, <2>8, <2>10, <2>11, OneSessionSuffices DEF Sound
  <1>. QED  BY <1>5, <1>6 DEF Offer

LEMMA ExecutePreserves ==
    ASSUME SessionsIInv, NEW s \in Sessions, NEW result \in Results, Execute(s, result)
    PROVE  SessionsIInv'
  <1>0. Sound(s) /\ WellTyped /\ HelloIsCurrent /\ mail[s] \in Seq(Commands)
        /\ Len(mail[s]) \in Nat
    BY DEF SessionsIInv, WellTyped
  <1> DEFINE m == Head(mail[s])
             n == Len(mail[s])
  <1>1. /\ mail[s] # <<>> /\ mail' = [mail EXCEPT ![s] = Tail(@)]
        /\ \/ /\ m.op = "create"
              /\ \/ result = "ok" /\ exists' = exists \cup {s}
                 \/ result = "absent" /\ exists' = exists \ {s}
                 \/ result = "unconfirmed" /\ exists' \in {exists, exists \cup {s}}
           \/ /\ m.op # "create"
              /\ \/ result = "absent" /\ exists' = exists \ {s}
                 \/ result = "error" /\ exists' = exists
        /\ rpc' = IF m.awaited THEN [rpc EXCEPT ![s] = "executed"] ELSE rpc
        /\ reply' = IF m.awaited THEN [reply EXCEPT ![s] = result] ELSE reply
        /\ idle' = IF m.op = "create" THEN idle \ {s} ELSE idle
        /\ UNCHANGED <<record, confirmed, old, missing, admission, op, seen, tasks, online,
                       link, inventory, faults>>
    BY DEF Execute, control, locks
  <1>2. /\ m = mail[s][1] /\ m \in Commands /\ n >= 1
        /\ Tail(mail[s]) \in Seq(Commands) /\ Len(Tail(mail[s])) = n - 1
        /\ \A i \in 1 .. n - 1 : Tail(mail[s])[i] = mail[s][i + 1] /\ i + 1 \in 1 .. n
    BY <1>0, <1>1
  <1>3. /\ mail' \in [Sessions -> Seq(Commands)] /\ mail'[s] = Tail(mail[s])
        /\ \A t \in Sessions \ {s} : mail'[t] = mail[t]
    BY <1>0, <1>1, <1>2 DEF WellTyped
  <1>4. ASSUME NEW i \in 1 .. n - 1 PROVE mail'[s][i].op = "terminate"
    <2>1. mail'[s][i] = mail[s][i + 1] /\ i + 1 \in 1 .. n
      BY <1>2, <1>3
    <2>2. i + 1 > 1
      BY <1>0
    <2>. QED  BY <1>0, <2>1, <2>2 DEF Sound, CommandsAreOrdered
  <1>5. NoCreate(s)'
    <2>1. DOMAIN mail'[s] = 1 .. n - 1
      BY <1>2, <1>3
    <2>. QED  BY <1>4, <2>1 DEF NoCreate
  <1>6. /\ rpc' \in [Sessions -> {"none", "queued", "offered", "lost", "executed", "answered"}]
        /\ reply' \in [Sessions -> {"none", "ok", "absent", "error", "unconfirmed", "busy"}]
        /\ \A t \in Sessions \ {s} : rpc'[t] = rpc[t] /\ reply'[t] = reply[t]
        /\ m.awaited => rpc'[s] = "executed" /\ reply'[s] = result
        /\ ~m.awaited => rpc'[s] = rpc[s] /\ reply'[s] = reply[s]
    <2>1. /\ rpc \in [Sessions -> {"none", "queued", "offered", "lost", "executed", "answered"}]
          /\ reply \in [Sessions -> {"none", "ok", "absent", "error", "unconfirmed", "busy"}]
      BY <1>0 DEF WellTyped, TypeOK
    <2>2. CASE m.awaited
      BY <1>1, <2>1, <2>2 DEF Results
    <2>3. CASE ~m.awaited
      BY <1>1, <2>1, <2>3
    <2>. QED  BY <2>2, <2>3
  <1>7. /\ exists' \subseteq Sessions /\ idle' \subseteq Sessions
        /\ \A t \in Sessions \ {s} : t \in exists' => t \in exists
        /\ m.op # "create" => exists' \subseteq exists
        /\ result = "absent" => s \notin exists'
    BY <1>0, <1>1 DEF WellTyped, TypeOK
  <1>8. WellTyped'
    <2>1. \A t \in Sessions : mail'[t] \in Seq(Commands) /\ Len(mail'[t]) <= MaxMail
      <3>1. \A t \in Sessions : Len(mail[t]) <= MaxMail
        BY <1>0 DEF WellTyped, TypeOK
      <3>. QED  BY <1>0, <1>2, <1>3, <3>1, MaxMailAssumption
    <2>. QED  BY <1>0, <1>1, <1>3, <1>6, <1>7, <2>1 DEF WellTyped, TypeOK
  <1>9. HelloIsCurrent'
    BY <1>0, <1>1 DEF HelloIsCurrent
  <1>10. TouchesOnly(s)
    BY <1>1, <1>3, <1>6, <1>7 DEF TouchesOnly
  <1>11. 1 \in 1 .. n
    BY <1>0, <1>2
  <1>12. m.awaited => /\ rpc[s] = "offered" /\ n = 1
                      /\ op[s].at = IF m.op = "create" THEN "creating" ELSE "ending"
    BY <1>0, <1>2, <1>11 DEF Sound, CommandsAreOrdered
  <1>13. record[s] # "none" /\ ~(op[s].at = "creating" /\ rpc[s] = "queued")
    BY <1>0, <1>1 DEF Sound, StartsFromNothing
  <1>14. OperationKnowsTheRow(s)' /\ StartsFromNothing(s)'
    BY <1>0, <1>1, <1>6, <1>12, <1>13 DEF Sound, OperationKnowsTheRow, StartsFromNothing
  <1>15. CommandsAreOrdered(s)'
    <2>1. CASE m.awaited
      <3>1. n = 1
        BY <1>12, <2>1
      <3>2. Len(mail'[s]) = n - 1
        BY <1>2, <1>3
      <3>3. Len(mail'[s]) = 0 /\ DOMAIN mail'[s] = {}
        BY <1>2, <1>3, <3>1, <3>2
      <3>. QED  BY <3>3 DEF CommandsAreOrdered
    <2>2. CASE ~m.awaited
      <3>1. ASSUME NEW i \in 1 .. n - 1, mail'[s][i].awaited
            PROVE  /\ i + 1 = n /\ rpc[s] = "offered"
                   /\ op[s].at = IF mail'[s][i].op = "create" THEN "creating" ELSE "ending"
        <4>1. mail'[s][i] = mail[s][i + 1] /\ i + 1 \in 1 .. n
          BY <1>2, <1>3
        <4>. QED  BY <1>0, <3>1, <4>1 DEF Sound, CommandsAreOrdered
      <3>2. Len(mail'[s]) = n - 1
        BY <1>2, <1>3
      <3>3. rpc'[s] = rpc[s] /\ op'[s] = op[s]
        BY <1>1, <1>6, <2>2
      <3>4. ASSUME NEW i \in 1 .. n - 1
            PROVE  /\ mail'[s][i].op = "terminate"
                   /\ mail'[s][i].awaited =>
                        /\ i = n - 1 /\ rpc'[s] = "offered"
                        /\ op'[s].at = IF mail'[s][i].op = "create" THEN "creating" ELSE "ending"
        <4>1. mail'[s][i].op = "terminate"
          BY <1>4
        <4>2. mail'[s][i].awaited => i + 1 = n
          BY <3>1
        <4>3. mail'[s][i].awaited => i = n - 1
          BY <1>0, <4>2
        <4>. QED  BY <3>1, <3>3, <4>1, <4>3
      <3>. QED  BY <3>2, <3>4 DEF CommandsAreOrdered
    <2>. QED  BY <2>1, <2>2
  <1>16. AbsenceLasts(s)'
    <2>1. CASE m.awaited
      BY <1>1, <1>5, <1>6, <1>7, <1>12, <2>1 DEF AbsenceLasts
    <2>2. CASE ~m.awaited
      <3>1. ASSUME op[s].at \in {"creating", "ending"}, rpc[s] \in {"executed", "answered"}
            PROVE  /\ op[s].at = "creating" => reply[s] \in {"ok", "absent", "unconfirmed"}
                   /\ reply[s] = "absent" => s \notin exists'
        <4>1. /\ reply[s] = "absent" => s \notin exists /\ NoCreate(s)
              /\ op[s].at = "creating" => reply[s] \in {"ok", "absent", "unconfirmed"}
          BY <1>0, <3>1 DEF Sound, AbsenceLasts
        <4>2. NoCreate(s) => m.op # "create"
          BY <1>0, <1>2, <1>11 DEF NoCreate
        <4>. QED  BY <1>7, <4>1, <4>2
      <3>. QED  BY <1>1, <1>5, <1>6, <2>2, <3>1 DEF AbsenceLasts
    <2>. QED  BY <2>1, <2>2
  <1>17. ConfirmedHasEnded(s)'
    <2>1. s \in confirmed => record[s] = "ended" /\ s \notin exists /\ NoCreate(s)
      BY <1>0 DEF Sound, ConfirmedHasEnded
    <2>2. NoCreate(s) => m.op # "create"
      BY <1>0, <1>2, <1>11 DEF NoCreate
    <2>. QED  BY <1>1, <1>5, <1>7, <2>1, <2>2 DEF ConfirmedHasEnded
  <1>. QED  BY <1>8, <1>9, <1>10, <1>14, <1>15, <1>16, <1>17, OneSessionSuffices DEF Sound

LEMMA ServePreserves ==
    ASSUME SessionsIInv, NEW s \in Sessions, Serve(s) \/ Answer(s)
    PROVE  SessionsIInv'
  <1>0. Sound(s) /\ WellTyped /\ HelloIsCurrent
    BY DEF SessionsIInv, WellTyped
  <1>1. /\ UNCHANGED <<control, locks, online, link, inventory, mail, exists, faults>>
        /\ idle' \subseteq Sessions
        /\ rpc' \in [Sessions -> {"none", "queued", "offered", "lost", "executed", "answered"}]
        /\ reply' \in [Sessions -> {"none", "ok", "absent", "error", "unconfirmed", "busy"}]
        /\ \A t \in Sessions \ {s} : rpc'[t] = rpc[t] /\ reply'[t] = reply[t]
        /\ \/ /\ op[s].at \in {"tool", "confirming", "looking"} /\ rpc'[s] = "executed"
           \/ rpc[s] = "executed" /\ rpc'[s] = "answered" /\ reply'[s] = reply[s]
    BY <1>0, ZenonT(60) DEF Serve, Answer, executor, WellTyped, TypeOK
  <1>. USE DEF control, locks
  <1>2. WellTyped' /\ TouchesOnly(s)
    BY <1>0, <1>1 DEF WellTyped, TypeOK, TouchesOnly
  <1>3. OperationKnowsTheRow(s)' /\ StartsFromNothing(s)'
    BY <1>0, <1>1 DEF Sound, OperationKnowsTheRow, StartsFromNothing
  <1>4. AbsenceLasts(s)' /\ ConfirmedHasEnded(s)'
    BY <1>0, <1>1 DEF Sound, AbsenceLasts, ConfirmedHasEnded, NoCreate
  <1>5. rpc[s] = "offered" => op[s].at \notin {"creating", "ending"}
    BY <1>1
  <1>. QED  BY <1>1, <1>2, <1>3, <1>4, <1>5, LockSuffices

LEMMA HelloPreserves ==
    ASSUME SessionsIInv, ProcessHello
    PROVE  SessionsIInv'
  <1>0. WellTyped /\ HelloIsCurrent /\ \A s \in Sessions : Sound(s)
    BY DEF SessionsIInv, WellTyped
  <1>1. inventory = exists /\ \A s \in Sessions : mail[s] = <<>>
    BY <1>0 DEF HelloIsCurrent, ProcessHello
  <1>2. /\ record' = [s \in Sessions |-> Reconciled(s)]
        /\ old' = {s \in old : record'[s] = record[s]}
        /\ confirmed' = confirmed \cup {s \in Sessions : record[s] # record'[s]
                                                         /\ record'[s] = "ended"}
        /\ missing' = [s \in Sessions |-> Observed(s)]
        /\ tasks' = [s \in Sessions |-> tasks[s] \cup Scheduled(s)]
        /\ online' = TRUE /\ link' = "connected" /\ inventory' = {}
        /\ UNCHANGED <<admission, op, seen, rpc, reply, mail, exists, idle, faults>>
    BY DEF ProcessHello, request
  <1>3. \A s \in Sessions :
          /\ Reconciled(s) \in {"none", "creating", "active", "terminating", "ended",
             "forgotten"}
          /\ Observed(s) \in {"no", "recent", "old"}
          /\ tasks[s] \cup Scheduled(s) \in SUBSET {"continue", "only if creating"}
    BY <1>0 DEF Reconciled, Observed, Scheduled, WellTyped, TypeOK
  <1>4. WellTyped'
    BY <1>0, <1>2, <1>3 DEF WellTyped, TypeOK
  <1>5. HelloIsCurrent'
    BY <1>2 DEF HelloIsCurrent
  <1>6. ASSUME NEW s \in Sessions PROVE Sound(s)'
    <2>0. Sound(s)
      BY <1>0
    <2>1. record'[s] = Reconciled(s) /\ tasks'[s] = tasks[s] \cup Scheduled(s)
      BY <1>2
    <2>2. OperationKnowsTheRow(s)'
      BY <1>2, <2>0, <2>1 DEF Sound, OperationKnowsTheRow, Reconciled, Scheduled
    <2>3. StartsFromNothing(s)' /\ CommandsAreOrdered(s)' /\ AbsenceLasts(s)'
      BY <1>2, <2>0, <2>1
      DEF Sound, StartsFromNothing, CommandsAreOrdered, AbsenceLasts, NoCreate, Reconciled
    <2>4. ConfirmedHasEnded(s)'
      <3>1. NoCreate(s)'
        BY <1>1, <1>2 DEF NoCreate
      <3>2. CASE s \in confirmed
        BY <1>2, <2>0, <2>1, <3>1, <3>2 DEF Sound, ConfirmedHasEnded, Reconciled
      <3>3. CASE s \notin confirmed
        BY <1>1, <1>2, <2>1, <3>1, <3>3 DEF ConfirmedHasEnded, Reconciled
      <3>. QED  BY <3>2, <3>3
    <2>. QED  BY <2>2, <2>3, <2>4 DEF Sound
  <1>. QED  BY <1>4, <1>5, <1>6 DEF SessionsIInv, WellTyped

LEMMA ExecutorRestartsPreserves ==
    ASSUME SessionsIInv, NEW keepsState \in BOOLEAN, ExecutorRestarts(keepsState)
    PROVE  SessionsIInv'
  <1>0. WellTyped /\ \A s \in Sessions : Sound(s)
    BY DEF SessionsIInv, WellTyped
  <1>1. /\ faults < MaxFaults /\ faults' = faults + 1 /\ link' = "away" /\ inventory' = {}
        /\ mail' = [s \in Sessions |-> <<>>] /\ exists' \subseteq exists
        /\ UNCHANGED <<record, confirmed, old, missing, admission, op, seen, tasks, online,
                       idle>>
        /\ rpc' = [s \in Sessions |-> IF rpc[s] \in {"offered", "executed"} THEN "lost"
                                                                         ELSE rpc[s]]
        /\ reply' = [s \in Sessions |-> IF rpc[s] = "executed" THEN "none" ELSE reply[s]]
    BY DEF ExecutorRestarts, control, locks
  <1>2. <<>> \in Seq(Commands) /\ Len(<<>>) = 0 /\ DOMAIN <<>> = {}
    OBVIOUS
  <1>3. mail' \in [Sessions -> Seq(Commands)] /\ \A s \in Sessions : mail'[s] = <<>>
    BY <1>1, <1>2
  <1>4. WellTyped'
    <2>1. \A s \in Sessions : mail'[s] \in Seq(Commands) /\ Len(mail'[s]) <= MaxMail
      BY <1>2, <1>3, MaxMailAssumption
    <2>2. faults' \in 0 .. MaxFaults
      <3>1. faults \in 0 .. MaxFaults /\ faults < MaxFaults /\ faults' = faults + 1
        BY <1>0, <1>1 DEF WellTyped, TypeOK
      <3>. QED  BY <3>1, MaxFaultsAssumption
    <2>3. /\ rpc' \in [Sessions -> {"none", "queued", "offered", "lost", "executed",
                                    "answered"}]
          /\ reply' \in [Sessions -> {"none", "ok", "absent", "error", "unconfirmed", "busy"}]
      BY <1>0, <1>1 DEF WellTyped, TypeOK
    <2>. QED  BY <1>0, <1>1, <1>3, <2>1, <2>2, <2>3 DEF WellTyped, TypeOK
  <1>5. HelloIsCurrent'
    BY <1>1 DEF HelloIsCurrent
  <1>6. ASSUME NEW s \in Sessions PROVE Sound(s)'
    <2>1. Sound(s) /\ NoCreate(s)' /\ 1 .. Len(mail'[s]) = {} /\ mail'[s] = <<>>
      BY <1>0, <1>2, <1>3 DEF NoCreate
    <2>. QED  BY <1>1, <2>1 DEF Sound, OperationKnowsTheRow, StartsFromNothing,
                                CommandsAreOrdered, AbsenceLasts, ConfirmedHasEnded
  <1>. QED  BY <1>4, <1>5, <1>6 DEF SessionsIInv, WellTyped

LEMMA ControlRestartsPreserves ==
    ASSUME SessionsIInv, ControlRestarts
    PROVE  SessionsIInv'
  <1>0. WellTyped /\ \A s \in Sessions : Sound(s)
    BY DEF SessionsIInv, WellTyped
  <1> DEFINE Left(s) == [i \in 1 .. Len(mail[s]) |-> [mail[s][i] EXCEPT !.awaited = FALSE]]
  <1>1. ASSUME NEW s \in Sessions
        PROVE  /\ Left(s) \in Seq(Commands) /\ Len(Left(s)) = Len(mail[s])
               /\ DOMAIN mail[s] = 1 .. Len(mail[s]) /\ DOMAIN Left(s) = 1 .. Len(mail[s])
               /\ \A i \in 1 .. Len(mail[s]) : Left(s)[i].op = mail[s][i].op
                  /\ ~Left(s)[i].awaited
               /\ mail[s] = <<>> => Left(s) = <<>>
    <2>1. mail[s] \in Seq(Commands) /\ Len(mail[s]) \in Nat
      BY <1>0 DEF WellTyped
    <2>2. \A i \in 1 .. Len(mail[s]) : mail[s][i] \in Commands
      BY <2>1
    <2>3. \A i \in 1 .. Len(mail[s]) : /\ Left(s)[i] \in Commands
                                       /\ Left(s)[i].op = mail[s][i].op
                                       /\ ~Left(s)[i].awaited
      BY <2>2 DEF Commands
    <2>4. Left(s) \in [1 .. Len(mail[s]) -> Commands]
      BY <2>3
    <2>5. Left(s) \in Seq(Commands) /\ Len(Left(s)) = Len(mail[s])
      BY <2>1, <2>4
    <2>6. mail[s] = <<>> => Left(s) = <<>>
      BY <2>5
    <2>7. DOMAIN mail[s] = 1 .. Len(mail[s]) /\ DOMAIN Left(s) = 1 .. Len(mail[s])
      BY <2>1
    <2>. QED  BY <2>3, <2>5, <2>6, <2>7
  <1>2. /\ faults < MaxFaults /\ faults' = faults + 1 /\ missing' = [s \in Sessions |-> "no"]
        /\ admission' = "free" /\ op' = [s \in Sessions |-> Free]
        /\ seen' = [s \in Sessions |-> "none"] /\ tasks' = [s \in Sessions |-> {}]
        /\ rpc' = [s \in Sessions |-> "none"] /\ reply' = [s \in Sessions |-> "none"]
        /\ online' = FALSE /\ link' = "away" /\ inventory' = {}
        /\ UNCHANGED <<record, confirmed, old, exists, idle>>
    BY DEF ControlRestarts
  <1>3. mail' = [s \in Sessions |-> Left(s)]
    BY <1>1 DEF ControlRestarts
  <1> HIDE DEF Left
  <1>4. mail' \in [Sessions -> Seq(Commands)] /\ \A s \in Sessions : mail'[s] = Left(s)
    BY <1>1, <1>3
  <1>5. WellTyped'
    <2>1. \A s \in Sessions : mail'[s] \in Seq(Commands) /\ Len(mail'[s]) <= MaxMail
      BY <1>0, <1>1, <1>4 DEF WellTyped, TypeOK
    <2>2. faults' \in 0 .. MaxFaults
      <3>1. faults \in 0 .. MaxFaults /\ faults < MaxFaults /\ faults' = faults + 1
        BY <1>0, <1>2 DEF WellTyped, TypeOK
      <3>. QED  BY <3>1, MaxFaultsAssumption
    <2>3. op' \in [Sessions -> [at : OpStages, for : Owners]]
      BY <1>2 DEF Free, OpStages, Owners
    <2>4. /\ missing' \in [Sessions -> {"no", "recent", "old"}]
          /\ seen' \in [Sessions -> {"none", "creating", "stale creating", "active"}]
          /\ tasks' \in [Sessions -> SUBSET {"continue", "only if creating"}]
          /\ rpc' \in [Sessions -> {"none", "queued", "offered", "lost", "executed",
             "answered"}]
          /\ reply' \in [Sessions -> {"none", "ok", "absent", "error", "unconfirmed", "busy"}]
      BY <1>2
    <2>. QED  BY <1>0, <1>2, <1>4, <2>1, <2>2, <2>3, <2>4 DEF WellTyped, TypeOK, OpStages,
                 Owners
  <1>6. HelloIsCurrent'
    BY <1>2 DEF HelloIsCurrent
  <1>7. ASSUME NEW s \in Sessions PROVE Sound(s)'
    <2>1. /\ Sound(s) /\ op'[s] = Free /\ op'[s].at = "free" /\ tasks'[s] = {}
          /\ rpc'[s] = "none"
      BY <1>0, <1>2, FreeFact
    <2>2. mail[s] = <<>> => mail'[s] = <<>>
      BY <1>1, <1>4
    <2>3. NoCreate(s) => NoCreate(s)'
      <3>1. DOMAIN mail[s] = 1 .. Len(mail[s]) /\ DOMAIN mail'[s] = 1 .. Len(mail[s])
        BY <1>1, <1>4
      <3>2. \A i \in 1 .. Len(mail[s]) : mail'[s][i].op = mail[s][i].op
        BY <1>1, <1>4
      <3>. QED  BY <3>1, <3>2 DEF NoCreate
    <2>4. OperationKnowsTheRow(s)' /\ StartsFromNothing(s)' /\ AbsenceLasts(s)'
      BY <1>2, <2>1, <2>2 DEF Sound, OperationKnowsTheRow, StartsFromNothing, AbsenceLasts
    <2>5. ConfirmedHasEnded(s)'
      BY <1>2, <2>1, <2>3 DEF Sound, ConfirmedHasEnded
    <2>6. CommandsAreOrdered(s)'
      <3>1. \A i \in 1 .. Len(mail[s]) : i > 1 => mail[s][i].op = "terminate"
        BY <2>1 DEF Sound, CommandsAreOrdered
      <3>2. /\ Len(mail'[s]) = Len(mail[s])
            /\ \A i \in 1 .. Len(mail[s]) : mail'[s][i].op = mail[s][i].op
               /\ ~mail'[s][i].awaited
        BY <1>1, <1>4
      <3>. QED  BY <3>1, <3>2 DEF CommandsAreOrdered
    <2>. QED  BY <2>4, <2>5, <2>6 DEF Sound
  <1>. QED  BY <1>5, <1>6, <1>7 DEF SessionsIInv, WellTyped

LEMMA SessionsNextPreserves == SessionsIInv /\ [Next]_vars => SessionsIInv'
  <1>. SUFFICES ASSUME SessionsIInv, [Next]_vars PROVE SessionsIInv'
    OBVIOUS
  <1>1. CASE UNCHANGED vars
    <2>. USE <1>1 DEF vars, control, locks, request, executor
    <2>1. WellTyped' /\ HelloIsCurrent'
      BY DEF SessionsIInv, WellTyped, TypeOK, HelloIsCurrent
    <2>. QED  BY <2>1, NothingElseSuffices
  <1>2. CASE BeginAdmission \/ RefuseAdmission \/ LinkDrops \/ SendHello \/ LoseHello
             \/ PresenceLapses \/ Heartbeat \/ TimePasses \/ \E s \in Sessions : Observes(s)
    BY <1>2, LinkPreserves
  <1>3. CASE \/ ProcessHello \/ ControlRestarts
             \/ \E keepsState \in BOOLEAN : ExecutorRestarts(keepsState)
    BY <1>3, HelloPreserves, ControlRestartsPreserves, ExecutorRestartsPreserves
  <1>4. ASSUME NEW s \in Sessions, UserStep(s) PROVE SessionsIInv'
    BY <1>4, AdmitPreserves, CallToolPreserves, EndSessionPreserves,
       AutoEndPreserves DEF UserStep
  <1>5. ASSUME NEW s \in Sessions, Continue(s) PROVE SessionsIInv'
    BY <1>5, CreateReturnsPreserves, ConfirmReturnsPreserves, ReadsPreserve,
       EndReturnsPreserves,
       AskTerminationPreserves, AutoEndCheckedPreserves, AutoEndLookedUpPreserves DEF Continue
  <1>6. ASSUME NEW s \in Sessions, Fail(s) PROVE SessionsIInv'
    BY <1>6, EndFailsPreserves, CreateFailsPreserves, ReadsPreserve DEF Fail
  <1>7. ASSUME NEW s \in Sessions, NEW kind \in {"continue", "only if creating"},
               ContinueTermination(s, kind)
        PROVE  SessionsIInv'
    BY <1>7, ContinueTerminationPreserves
  <1>8. ASSUME NEW s \in Sessions,
               \/ \E arrives \in BOOLEAN : Offer(s, arrives)
               \/ \E result \in Results : Execute(s, result)
               \/ Serve(s) \/ Answer(s)
        PROVE  SessionsIInv'
    BY <1>8, OfferPreserves, ExecutePreserves, ServePreserves
  <1>. QED  BY <1>1, <1>2, <1>3, <1>4, <1>5, <1>6, <1>7, <1>8 DEF Next, Environment

\* Absence is confirmed only of sessions that are gone and cannot come back, and tools
\* work only in active sessions: for any number of sessions, any length of the executor's
\* backlog and any number of restarts on either side.
THEOREM SessionsAreSound == Spec => []SessionsInv
  <1>1. SessionsIInv => SessionsInv
    <2>. SUFFICES ASSUME SessionsIInv PROVE SessionsInv
      OBVIOUS
    <2>1. TypeOK /\ \A s \in Sessions : Sound(s)
      BY DEF SessionsIInv
    <2>2. ConfirmedIsAbsent
      BY <2>1 DEF ConfirmedIsAbsent, Sound, ConfirmedHasEnded, NoCreate, TypeOK
    <2>3. ToolInActiveSession
      BY <2>1 DEF ToolInActiveSession, Sound, OperationKnowsTheRow
    <2>. QED  BY <2>1, <2>2, <2>3 DEF SessionsInv
  <1>. QED  BY <1>1, SessionsInitEstablishes, SessionsNextPreserves, PTL DEF Spec

-----------------------------------------------------------------------------
(* The sessions of one executor: what a step does to their rows              *)

LiveRow(r) == r \in {"creating", "active", "terminating"}

\* A row moves forward, and only admission makes one live.
Forward(s) ==
    /\ StaysEnding(s) /\ SparedByHellos(s) /\ ForgottenUnstarted(s)
    /\ LiveRow(record'[s]) => LiveRow(record[s])

LEMMA UnchangedRow ==
    ASSUME NEW s \in Sessions, record'[s] = record[s]
    PROVE  Forward(s)
  BY DEF Forward, StaysEnding, SparedByHellos, ForgottenUnstarted

LEMMA CreationMovesForward ==
    ASSUME SessionsIInv, NEW s \in Sessions,
           CreateReturns(s) \/ CreateFails(s) \/ ConfirmReturns(s)
    PROVE  \A t \in Sessions : Forward(t)
  <1>0. Sound(s) /\ record \in [Sessions -> {"none", "creating", "active", "terminating",
        "ended",
                                             "forgotten"}]
    BY DEF SessionsIInv, TypeOK
  <1>1. record[s] \in {"creating", "active"}
    BY <1>0 DEF Sound, OperationKnowsTheRow, CreateReturns, CreateFails, ConfirmReturns
  <1>2. CASE UNCHANGED record
    BY <1>2, UnchangedRow
  <1>3. CASE record' = [record EXCEPT ![s] = "active"]
    BY <1>0, <1>1, <1>3, UnchangedRow
    DEF Forward, StaysEnding, SparedByHellos, ForgottenUnstarted, LiveRow
  <1>4. CASE record' = [record EXCEPT ![s] = "forgotten"]
             /\ ~(rpc[s] = "answered" /\ reply[s] # "absent")
             /\ op[s].at = "creating" /\ rpc[s] \notin {"offered", "lost", "executed"}
    <2>1. record'[s] = "forgotten" /\ \A t \in Sessions \ {s} : record'[t] = record[t]
      BY <1>0, <1>4
    <2>2. rpc[s] \in {"queued", "answered"}
      BY <1>0, <1>4 DEF Sound, OperationKnowsTheRow, SessionsIInv, TypeOK
    <2>3. s \notin exists /\ \A i \in DOMAIN mail[s] : mail[s][i].op # "create"
      <3>1. CASE rpc[s] = "queued"
        BY <1>0, <1>4, <3>1 DEF Sound, StartsFromNothing
      <3>2. CASE rpc[s] = "answered"
        BY <1>0, <1>4, <3>2 DEF Sound, AbsenceLasts, NoCreate
      <3>. QED  BY <2>2, <3>1, <3>2
    <2>. QED  BY <1>1, <2>1, <2>3, UnchangedRow
              DEF Forward, StaysEnding, SparedByHellos, ForgottenUnstarted, LiveRow
  <1>5. CASE record' = [record EXCEPT ![s] = "forgotten"] /\ rpc[s] = "answered"
             /\ reply[s] # "absent"
    BY <1>0, <1>1, <1>5, UnchangedRow
    DEF Forward, StaysEnding, SparedByHellos, ForgottenUnstarted, LiveRow
  <1>6. CreateReturns(s) => reply[s] \in {"ok", "absent", "unconfirmed"}
    BY <1>0 DEF Sound, AbsenceLasts, CreateReturns
  <1>. QED  BY <1>2, <1>3, <1>4, <1>5, <1>6
            DEF CreateReturns, CreateFails, ConfirmReturns, SetStatus, Discard, MayHaveRun,
                control

LEMMA EndsMoveForward ==
    ASSUME SessionsIInv, NEW s \in Sessions,
           EndReturns(s) \/ EndFails(s) \/ CannotAskTermination(s)
    PROVE  \A t \in Sessions : Forward(t)
  <1>0. Sound(s) /\ record \in [Sessions -> {"none", "creating", "active", "terminating",
        "ended",
                                             "forgotten"}]
    BY DEF SessionsIInv, TypeOK
  <1>1. record[s] \in {"terminating", "ended"}
    BY <1>0 DEF Sound, OperationKnowsTheRow, EndReturns, EndFails, CannotAskTermination
  <1>2. CASE UNCHANGED record
    BY <1>2, UnchangedRow
  <1>3. CASE record' = [record EXCEPT ![s] = "ended"]
    BY <1>0, <1>1, <1>3, UnchangedRow
    DEF Forward, StaysEnding, SparedByHellos, ForgottenUnstarted, LiveRow
  <1>. QED  BY <1>2, <1>3
            DEF EndReturns, EndFails, CannotAskTermination, MarkEnded, SetStatus, control

LEMMA BeginEndMovesForward ==
    ASSUME SessionsIInv, NEW s \in Sessions, NEW for \in Owners, BeginEnd(s, for),
           s \in NonEnded, for = "hello" => record[s] # "active"
    PROVE  \A t \in Sessions : Forward(t)
  <1>0. WellTyped /\ record \in [Sessions -> {"none", "creating", "active", "terminating",
        "ended",
                                              "forgotten"}]
    BY DEF SessionsIInv, TypeOK, WellTyped
  <1>1. CASE UNCHANGED record
    BY <1>1, UnchangedRow
  <1>2. CASE record' = [record EXCEPT ![s] = "terminating"]
    <2>1. record'[s] = "terminating" /\ \A t \in Sessions \ {s} : record'[t] = record[t]
      BY <1>0, <1>2
    <2>2. op'[s].for = for
      <3>1. Take(s, "preparing", for) /\ "preparing" \in OpStages
        BY DEF BeginEnd, OpStages
      <3>. QED  BY <1>0, <3>1, TakeFacts
    <2>. QED  BY <2>1, <2>2, UnchangedRow
              DEF Forward, StaysEnding, SparedByHellos, ForgottenUnstarted, LiveRow, NonEnded
  <1>. QED  BY <1>1, <1>2 DEF BeginEnd, SetStatus

LEMMA StopsMoveForward ==
    ASSUME SessionsIInv, NEW s \in Sessions,
           \/ \E for \in {"user", "force"} : EndSession(s, for)
           \/ AutoEndChecked(s) \/ AutoEndLookedUp(s)
           \/ \E kind \in {"continue", "only if creating"} : ContinueTermination(s, kind)
    PROVE  \A t \in Sessions : Forward(t)
  <1>0. Sound(s)
    BY DEF SessionsIInv
  <1>1. CASE UNCHANGED record
    BY <1>1, UnchangedRow
  <1>2. CASE \E for \in {"user", "force"} : EndSession(s, for)
    <2>1. PICK for \in {"user", "force"} : BeginEnd(s, for) /\ s \in NonEnded
      BY <1>2 DEF EndSession
    <2>. QED  BY <2>1, BeginEndMovesForward DEF Owners
  <1>3. CASE /\ op[s].at \in {"checking", "looking"} /\ BeginEnd(s, op[s].for)
    <2>1. record[s] \in {"creating", "active"} /\ op[s].for \in {"sweep", "admission"}
      BY <1>0, <1>3 DEF Sound, OperationKnowsTheRow
    <2>. QED  BY <1>3, <2>1, BeginEndMovesForward DEF Owners, NonEnded
  <1>4. ASSUME NEW kind \in {"continue", "only if creating"}, StillApplies(s, kind),
               kind \in tasks[s], BeginEnd(s, "hello")
        PROVE  \A t \in Sessions : Forward(t)
    <2>1. record[s] # "active" /\ s \in NonEnded
      BY <1>0, <1>4 DEF Sound, OperationKnowsTheRow, StillApplies
    <2>. QED  BY <1>4, <2>1, BeginEndMovesForward DEF Owners
  <1>. QED  BY <1>1, <1>2, <1>3, <1>4
            DEF AutoEndChecked, AutoEndLookedUp, ContinueTermination, control

LEMMA HelloMovesForward ==
    ASSUME SessionsIInv, ProcessHello
    PROVE  \A t \in Sessions : Forward(t)
  <1>1. \A t \in Sessions : record'[t] = Reconciled(t)
    BY DEF ProcessHello
  <1>. QED  BY <1>1 DEF Reconciled, Forward, StaysEnding, SparedByHellos, ForgottenUnstarted,
               LiveRow

LEMMA StepsMoveForward ==
    ASSUME SessionsIInv, [Next]_vars
    PROVE  \/ \A t \in Sessions : Forward(t)
           \/ \E s \in Sessions : Admit(s)
  <1>. USE DEF control
  <1>1. CASE UNCHANGED record
    BY <1>1, UnchangedRow
  <1>2. CASE UNCHANGED vars \/ BeginAdmission \/ RefuseAdmission \/ Environment
             \/ \E s \in Sessions : Observes(s)
    <2>1. UNCHANGED record
      BY <1>2 DEF BeginAdmission, RefuseAdmission, Environment, Observes, vars, LinkDrops,
                  SendHello, LoseHello, PresenceLapses, Heartbeat, ControlRestarts, TimePasses,
                  ExecutorRestarts, Offer, Execute, Serve, Answer
    <2>. QED  BY <1>1, <2>1
  <1>3. ASSUME NEW s \in Sessions, UserStep(s)
        PROVE  (\A t \in Sessions : Forward(t)) \/ Admit(s)
    <2>1. CASE CallTool(s) \/ \E for \in {"sweep", "admission"} : AutoEnd(s, for)
      BY <1>1, <2>1, UnchangedRow DEF CallTool, AutoEnd
    <2>. QED  BY <1>3, <2>1, StopsMoveForward DEF UserStep
  <1>4. ASSUME NEW s \in Sessions, Continue(s) \/ Fail(s)
        PROVE  \A t \in Sessions : Forward(t)
    <2>1. CASE ToolReturns(s) \/ AskTermination(s) \/ ReadFails(s)
      BY <2>1, UnchangedRow DEF ToolReturns, AskTermination, ReadFails
    <2>. QED  BY <1>4, <2>1, CreationMovesForward, EndsMoveForward, StopsMoveForward
              DEF Continue, Fail
  <1>5. ASSUME NEW s \in Sessions, NEW kind \in {"continue", "only if creating"},
               ContinueTermination(s, kind)
        PROVE  \A t \in Sessions : Forward(t)
    BY <1>5, StopsMoveForward
  <1>. QED  BY <1>2, <1>3, <1>4, <1>5, HelloMovesForward DEF Next

\* Rows only move forward, whatever answer, hello or operation is late: for any number of
\* sessions and any number of restarts.
THEOREM RowsOnlyMoveForward == Spec => RowsMoveForward
  <1>1. SessionsIInv /\ [Next]_vars
          => [\A s \in Sessions : StaysEnding(s) /\ SparedByHellos(s)
            /\ ForgottenUnstarted(s)]_vars
    <2>. SUFFICES ASSUME SessionsIInv, [Next]_vars
                  PROVE  \A s \in Sessions : StaysEnding(s) /\ SparedByHellos(s)
                                               /\ ForgottenUnstarted(s)
      OBVIOUS
    <2>1. CASE \A t \in Sessions : Forward(t)
      BY <2>1 DEF Forward
    <2>2. ASSUME NEW s \in Sessions, Admit(s)
          PROVE  \A t \in Sessions : StaysEnding(t) /\ SparedByHellos(t)
            /\ ForgottenUnstarted(t)
      <3>1. record[s] = "none" /\ record' = [record EXCEPT ![s] = "creating"]
        BY <2>2 DEF Admit, SetStatus
      <3>2. record'[s] = "creating" /\ \A t \in Sessions \ {s} : record'[t] = record[t]
        BY <3>1 DEF SessionsIInv, TypeOK
      <3>. QED  BY <3>1, <3>2 DEF StaysEnding, SparedByHellos, ForgottenUnstarted
    <2>. QED  BY <2>1, <2>2, StepsMoveForward
  <1>. QED  BY <1>1, SessionsInitEstablishes, SessionsNextPreserves, PTL DEF Spec,
               RowsMoveForward

LEMMA CapacityPreserved == SessionsIInv /\ CapacityBounded /\ [Next]_vars => CapacityBounded'
  <1>. SUFFICES ASSUME SessionsIInv, CapacityBounded, [Next]_vars PROVE CapacityBounded'
    OBVIOUS
  <1>1. IsFiniteSet(NonEnded) /\ Cardinality(NonEnded) \in Nat
    <2>1. NonEnded \subseteq Sessions
      BY DEF NonEnded
    <2>2. IsFiniteSet(NonEnded)
      BY <2>1, SessionsAssumption, FS_Subset
    <2>. QED  BY <2>2, FS_CardinalityType
  <1>2. CASE \A t \in Sessions : Forward(t)
    <2>1. NonEnded' \subseteq NonEnded
      BY <1>2 DEF NonEnded, Forward, LiveRow
    <2>2. Cardinality(NonEnded') <= Cardinality(NonEnded) /\ Cardinality(NonEnded') \in Nat
      <3>1. IsFiniteSet(NonEnded') /\ Cardinality(NonEnded') <= Cardinality(NonEnded)
        BY <1>1, <2>1, FS_Subset
      <3>. QED  BY <3>1, FS_CardinalityType
    <2>. QED  BY <1>1, <2>2, MaxSessionsAssumption DEF CapacityBounded
  <1>3. ASSUME NEW s \in Sessions, Admit(s) PROVE CapacityBounded'
    <2>1. NonEnded' = NonEnded \cup {s} /\ s \notin NonEnded
      <3>1. record[s] = "none" /\ record' = [record EXCEPT ![s] = "creating"]
        BY <1>3 DEF Admit, SetStatus
      <3>2. record'[s] = "creating" /\ \A t \in Sessions \ {s} : record'[t] = record[t]
        BY <3>1 DEF SessionsIInv, TypeOK
      <3>. QED  BY <3>1, <3>2 DEF NonEnded
    <2>2. Cardinality(NonEnded') = Cardinality(NonEnded) + 1
      BY <1>1, <2>1, FS_AddElement
    <2>3. Cardinality(NonEnded) < MaxSessions
      BY <1>3 DEF Admit, HasCapacity
    <2>. QED  BY <1>1, <2>2, <2>3, MaxSessionsAssumption DEF CapacityBounded
  <1>. QED  BY <1>2, <1>3, StepsMoveForward

LEMMA CapacityInitially == Init => CapacityBounded
  <1>1. Init => NonEnded = {}
    BY DEF Init, NonEnded
  <1>. QED  BY <1>1, FS_EmptySet, MaxSessionsAssumption DEF CapacityBounded

-----------------------------------------------------------------------------
(* One task: what holds in every state                                       *)

Statuses == {"absent", "active", "blocked", "completed", "cancelled"}
Documents == [status : Statuses, work : BOOLEAN, count : Nat, claim : Nat, expired : BOOLEAN,
              reserved : BOOLEAN, attempts : Nat]
Rows == [life : {"none", "creating", "reported", "live", "ended", "gone"}, attached : BOOLEAN,
         implicit : BOOLEAN]
Steps == Slots \cup {"free", "uncount", "remove", "sweep"}

TaskTypeOK ==
    /\ task \in Documents /\ rows \in [Slots -> Rows]
    /\ holder \in [op : Steps, row : Rows]
    /\ held \in [Hosts -> Nat] /\ issued \in Nat
    /\ sent \subseteq 1 .. issued /\ touched \subseteq 1 .. issued
    /\ \A h \in Hosts : held[h] \in 0 .. issued
    /\ task.claim \in 0 .. issued

\* The write that the holder still owes the task's count, or that it has not
\* yet written to the rows.
Owed == IF holder.op \in Slots \/ holder.op = "uncount" THEN 1 ELSE 0

CountsAreOwed == task.count >= Cardinality(Attached) + Owed

\* A session that was found absent, whatever its row says of the confirmation now.
FoundAbsent(s) == s \in absent /\ rows[s].life \in {"ended", "gone"}

\* What the operation that holds the task's lock may rely on.  A confirmation is only
\* written by whoever found the session absent.
HolderKnows ==
    /\ \A s \in Slots : rows[s].life = "gone" => s \in absent
    /\ holder.op \in Slots => /\ rows[holder.op] = NoRow /\ holder.row.attached /\ Exists
                              /\ holder.row.life = "creating"
    /\ holder.op = "remove" => Attached = {}
    /\ holder.op = "sweep" => \A s \in Attached : FoundAbsent(s)

NothingWithoutTask ==
    ~Exists => /\ task = NoTask /\ Attached = {} /\ sent = {} /\ touched = {}

\* An attempt is spent on every claim that is dispatched, and a claim that is
\* dispatched is reserved for as long as the task knows it.
AttemptsAreSpent ==
    /\ Cardinality(sent) <= task.attempts /\ task.attempts <= MaxAttempts
    /\ task.reserved => task.claim \in sent
    /\ task.claim # 0 /\ ~task.reserved => task.claim \notin sent
    /\ task.claim \notin touched
    /\ sent \cap touched = {}

TaskIInv == TaskTypeOK /\ CountsAreOwed /\ HolderKnows /\ NothingWithoutTask /\ AttemptsAreSpent

LEMMA TaskInitEstablishes == TaskInit => TaskIInv
  <1>. SUFFICES ASSUME TaskInit PROVE TaskIInv
    OBVIOUS
  <1>1. /\ task = NoTask /\ rows = [s \in Slots |-> NoRow] /\ holder = NoHolder
        /\ held = [h \in Hosts |-> 0] /\ issued = 0 /\ sent = {} /\ touched = {}
    BY DEF TaskInit
  <1>2. NoTask \in Documents /\ NoRow \in Rows /\ NoHolder \in [op : Steps, row : Rows]
    BY DEF NoTask, NoRow, NoHolder, Documents, Statuses, Rows, Steps
  <1>3. TaskTypeOK
    BY <1>1, <1>2 DEF TaskTypeOK, NoTask
  <1>4. Attached = {} /\ Owed = 0 /\ Cardinality(Attached) = 0 /\ holder.op = "free"
    <2>1. Attached = {} /\ holder.op = "free"
      BY <1>1 DEF Attached, NoRow, NoHolder
    <2>. QED  BY <2>1, SlotsAssumption, FS_EmptySet DEF Owed
  <1>5. CountsAreOwed /\ HolderKnows /\ NothingWithoutTask
    BY <1>1, <1>4, SlotsAssumption
    DEF CountsAreOwed, HolderKnows, NothingWithoutTask, NoTask, NoRow
  <1>6. AttemptsAreSpent
    BY <1>1, FS_EmptySet, MaxAttemptsAssumption DEF AttemptsAreSpent, NoTask
  <1>. QED  BY <1>3, <1>5, <1>6 DEF TaskIInv

LEMMA AttachedIsFinite == IsFiniteSet(Attached) /\ Cardinality(Attached) \in Nat
  <1>1. Attached \subseteq Slots
    BY DEF Attached
  <1>2. IsFiniteSet(Attached)
    BY <1>1, SlotsAssumption, FS_Subset
  <1>. QED  BY <1>2, FS_CardinalityType

LEMMA SentIsFinite ==
    ASSUME TaskTypeOK
    PROVE  IsFiniteSet(sent) /\ Cardinality(sent) \in Nat
  <1>1. IsFiniteSet(1 .. issued)
    BY FS_Interval DEF TaskTypeOK
  <1>2. IsFiniteSet(sent)
    BY <1>1, FS_Subset DEF TaskTypeOK
  <1>. QED  BY <1>2, FS_CardinalityType

LEMMA WithdrawnFacts ==
    ASSUME NEW t \in Documents
    PROVE  /\ Withdrawn(t) \in Documents
           /\ Withdrawn(t).status = t.status /\ Withdrawn(t).count = t.count
           /\ Withdrawn(t).attempts = t.attempts /\ Withdrawn(t).reserved = t.reserved
           /\ Withdrawn(t).claim = IF t.reserved THEN t.claim ELSE 0
  BY DEF Withdrawn, Documents

LEMMA ClearedFacts ==
    ASSUME NEW t \in Documents
    PROVE  /\ Cleared(t) \in Documents
           /\ Cleared(t).status = t.status /\ Cleared(t).count = t.count
           /\ Cleared(t).attempts = t.attempts /\ ~Cleared(t).reserved /\ Cleared(t).claim = 0
  BY DEF Cleared, Documents

\* A step that changes the document of an existing task, but neither its count nor the rows.
LEMMA DocumentSuffices ==
    ASSUME TaskIInv, UNCHANGED <<rows, absent, holder>>, task' \in Documents,
           task'.count = task.count, task'.status # "absent",
           held' \in [Hosts -> Nat], issued' \in Nat, sent' \subseteq 1 .. issued',
           touched' \subseteq 1 .. issued', \A h \in Hosts : held'[h] \in 0 .. issued',
           task'.claim \in 0 .. issued', AttemptsAreSpent'
    PROVE  TaskIInv'
  <1>1. TaskTypeOK'
    BY DEF TaskIInv, TaskTypeOK
  <1>2. Attached' = Attached /\ Owed' = Owed
    BY DEF Attached, Owed
  <1>3. CountsAreOwed'
    BY <1>2 DEF TaskIInv, CountsAreOwed
  <1>4. HolderKnows' /\ NothingWithoutTask'
    BY <1>2 DEF TaskIInv, HolderKnows, NothingWithoutTask, Exists, FoundAbsent
  <1>. QED  BY <1>1, <1>3, <1>4 DEF TaskIInv

\* Activity on the document of a task.
LEMMA ActivityPreserves ==
    ASSUME TaskIInv, Exists, Touch, UNCHANGED <<rows, absent, holder, held, issued, sent>>,
           task' \in Documents, task'.status # "absent", task'.count = task.count,
           task'.attempts = task.attempts, task'.reserved = task.reserved,
           task'.claim = IF task.reserved THEN task.claim ELSE 0
    PROVE  TaskIInv'
  <1>1. TaskTypeOK /\ AttemptsAreSpent /\ task.reserved \in BOOLEAN
    BY DEF TaskIInv, TaskTypeOK, Documents
  <1>2. touched' = IF task.claim = 0
        \/ task.reserved THEN touched ELSE touched \cup {task.claim}
    BY DEF Touch
  <1>3. touched' \subseteq 1 .. issued' /\ 0 \notin touched' /\ 0 \notin sent
    <2>1. /\ touched \subseteq 1 .. issued /\ sent \subseteq 1 .. issued /\ issued \in Nat
          /\ task.claim \in 0 .. issued /\ issued' = issued
      BY <1>1 DEF TaskTypeOK
    <2>2. task.claim # 0 => task.claim \in 1 .. issued
      BY <2>1
    <2>3. touched' \subseteq 1 .. issued
      BY <1>2, <2>1, <2>2
    <2>. QED  BY <2>1, <2>3
  <1>4. task'.claim \in 0 .. issued'
    BY <1>1 DEF TaskTypeOK
  <1>5. AttemptsAreSpent'
    <2>1. CASE task.reserved
      BY <1>1, <1>2, <2>1 DEF AttemptsAreSpent
    <2>2. CASE ~task.reserved
      BY <1>1, <1>2, <1>3, <2>2 DEF AttemptsAreSpent
    <2>. QED  BY <2>1, <2>2
  <1>. QED  BY <1>1, <1>3, <1>4, <1>5, DocumentSuffices DEF TaskTypeOK

LEMMA DocumentWorkPreserves ==
    ASSUME TaskIInv, Mutate \/ Observe
    PROVE  TaskIInv'
  <1>1. Exists /\ Touch /\ History /\ UNCHANGED <<rows, absent, holder>> /\ task \in Documents
    BY DEF TaskIInv, TaskTypeOK, Mutate, Observe
  <1>2. /\ Withdrawn(task) \in Documents
        /\ Withdrawn(task).status = task.status /\ Withdrawn(task).count = task.count
        /\ Withdrawn(task).attempts = task.attempts /\ Withdrawn(task).reserved = task.reserved
        /\ Withdrawn(task).claim = IF task.reserved THEN task.claim ELSE 0
    BY <1>1, WithdrawnFacts
  <1> DEFINE w == Withdrawn(task)
  <1>3. \/ task' = w \/ \E b \in BOOLEAN : task' = [w EXCEPT !.work = b]
        \/ \E st \in {"blocked", "active", "completed", "cancelled"} :
           task' = [w EXCEPT !.status = st]
    BY DEF Mutate, Observe
  <1>4. w.status # "absent"
    BY <1>1, <1>2 DEF Exists
  <1> HIDE DEF w
  <1>w. w = Withdrawn(task)
    BY DEF w
  <1>5. /\ task' \in Documents /\ task'.status # "absent" /\ task'.count = w.count
        /\ task'.attempts = w.attempts /\ task'.reserved = w.reserved /\ task'.claim = w.claim
    <2>1. w \in Documents
      BY <1>2, <1>w
    <2>2. CASE task' = w
      BY <1>4, <2>1, <2>2
    <2>3. CASE \E b \in BOOLEAN : task' = [w EXCEPT !.work = b]
      BY <1>4, <2>1, <2>3 DEF Documents
    <2>4. CASE \E st \in {"blocked", "active", "completed", "cancelled"} :
                 task' = [w EXCEPT !.status = st]
      BY <2>1, <2>4 DEF Documents, Statuses
    <2>. QED  BY <1>3, <2>2, <2>3, <2>4
  <1>. QED  BY <1>1, <1>2, <1>5, <1>w, ActivityPreserves DEF History

LEMMA CreatePreserves ==
    ASSUME TaskIInv, Create
    PROVE  TaskIInv'
  <1>1. /\ task = NoTask /\ Attached = {} /\ sent = {} /\ touched = {}
        /\ task' = [NoTask EXCEPT !.status = "active"]
        /\ UNCHANGED <<rows, absent, holder, held, issued, sent, touched>>
    BY DEF TaskIInv, NothingWithoutTask, Create, History
  <1>2. /\ task' \in Documents /\ task'.status = "active" /\ task'.count = task.count
        /\ task'.claim = 0 /\ ~task'.reserved /\ task'.attempts = 0
    BY <1>1 DEF NoTask, Documents, Statuses
  <1>3. AttemptsAreSpent'
    BY <1>1, <1>2, FS_EmptySet, MaxAttemptsAssumption DEF AttemptsAreSpent
  <1>. QED  BY <1>1, <1>2, <1>3, DocumentSuffices DEF TaskIInv, TaskTypeOK

LEMMA ElapsePreserves ==
    ASSUME TaskIInv, Elapse
    PROVE  TaskIInv'
  <1>1. UNCHANGED <<rows, absent, holder, held, issued, sent, touched>> /\ TaskTypeOK
        /\ AttemptsAreSpent
    BY DEF Elapse, History, TaskIInv
  <1>2. CASE UNCHANGED task
    BY <1>1, <1>2 DEF TaskIInv, TaskTypeOK, CountsAreOwed, HolderKnows, NothingWithoutTask,
                      AttemptsAreSpent, Attached, Owed, Exists, FoundAbsent
  <1>3. CASE task' = [task EXCEPT !.expired = TRUE] /\ task.claim # 0
    <2>1. /\ task' \in Documents /\ task'.status = task.status /\ task'.count = task.count
          /\ task'.claim = task.claim /\ task'.reserved = task.reserved
          /\ task'.attempts = task.attempts
      BY <1>1, <1>3 DEF TaskTypeOK, Documents
    <2>2. task.status # "absent"
      BY <1>3 DEF TaskIInv, NothingWithoutTask, NoTask, Exists
    <2>3. AttemptsAreSpent'
      BY <1>1, <2>1 DEF AttemptsAreSpent
    <2>. QED  BY <1>1, <2>1, <2>2, <2>3, DocumentSuffices DEF TaskTypeOK
  <1>. QED  BY <1>2, <1>3 DEF Elapse

LEMMA CurrentFacts ==
    ASSUME TaskIInv
    PROVE  /\ Current \in Documents /\ Current.status = task.status
           /\ Current.count = task.count
           /\ Current.attempts = task.attempts
           /\ \/ Current = task
              \/ Current.claim = 0 /\ ~Current.reserved
           /\ Current.claim \in 0 .. issued
           /\ Current.reserved => Current.claim \in sent
           /\ Current.claim # 0 /\ ~Current.reserved => Current.claim \notin sent
           /\ Current.claim \notin touched
  <1>1. TaskTypeOK /\ AttemptsAreSpent /\ task \in Documents /\ issued \in Nat
    BY DEF TaskIInv, TaskTypeOK
  <1>2. 0 \notin touched /\ task.claim \in 0 .. issued /\ 0 \in 0 .. issued
    BY <1>1 DEF TaskTypeOK
  <1>3. CASE Current = task
    BY <1>1, <1>2, <1>3 DEF AttemptsAreSpent
  <1>4. CASE Current = Cleared(task)
    BY <1>1, <1>2, <1>4, ClearedFacts
  <1>. QED  BY <1>3, <1>4 DEF Current

LEMMA ClaimPreserves ==
    ASSUME TaskIInv, NEW h \in Hosts, Claim(h)
    PROVE  TaskIInv'
  <1>1. TaskTypeOK /\ AttemptsAreSpent
    BY DEF TaskIInv
  <1>2. /\ Current.claim = 0 /\ issued' = issued + 1 /\ held' = [held EXCEPT ![h] = issued']
        /\ task' = [Current EXCEPT !.claim = issued'] /\ Exists
        /\ UNCHANGED <<rows, absent, holder, sent, touched>>
    BY DEF Claim, Eligible
  <1>3. /\ issued \in Nat /\ issued' \in Nat /\ issued' \notin 1 .. issued
        /\ issued' \in 0 .. issued' /\ issued' # 0
        /\ 0 .. issued \subseteq 0 .. issued' /\ 1 .. issued \subseteq 1 .. issued'
    BY <1>1, <1>2 DEF TaskTypeOK
  <1>4. Current \in Documents /\ ~Current.reserved
    <2>1. 0 \notin sent
      BY <1>1, <1>3 DEF TaskTypeOK
    <2>. QED  BY <1>2, <2>1, CurrentFacts DEF Documents
  <1>5. /\ task' \in Documents /\ task'.status = task.status /\ task'.count = task.count
        /\ task'.claim = issued' /\ ~task'.reserved /\ task'.attempts = task.attempts
    BY <1>2, <1>3, <1>4, CurrentFacts DEF Documents
  <1>6. sent \subseteq 1 .. issued /\ touched \subseteq 1 .. issued
    BY <1>1 DEF TaskTypeOK
  <1>7. AttemptsAreSpent'
    BY <1>1, <1>2, <1>3, <1>5, <1>6 DEF AttemptsAreSpent
  <1>8. held' \in [Hosts -> Nat] /\ \A g \in Hosts : held'[g] \in 0 .. issued'
    <2>1. held \in [Hosts -> Nat] /\ \A g \in Hosts : held[g] \in 0 .. issued
      BY <1>1 DEF TaskTypeOK
    <2>. QED  BY <1>2, <1>3, <2>1
  <1>. QED  BY <1>2, <1>3, <1>5, <1>6, <1>7, <1>8, DocumentSuffices DEF Exists

LEMMA ValidatePreserves ==
    ASSUME TaskIInv, NEW h \in Hosts, Validate(h)
    PROVE  TaskIInv'
  <1>1. TaskTypeOK /\ AttemptsAreSpent /\ Exists /\ held[h] \in 0 .. issued /\ held[h] # 0
    BY DEF TaskIInv, Validate, TaskTypeOK
  <1>2. UNCHANGED <<rows, absent, holder, issued, touched>> /\ issued \in Nat
    BY <1>1 DEF Validate, TaskTypeOK
  <1>3. /\ Current \in Documents /\ Current.status = task.status /\ Current.count = task.count
        /\ Current.attempts = task.attempts /\ Current.attempts \in Nat
        /\ Current.reserved \in BOOLEAN
    BY CurrentFacts DEF Documents
  <1>4. ASSUME MayDispatch(held[h]), sent' = sent \cup {held[h]}, UNCHANGED held,
               task' = IF Current.reserved THEN Current
                       ELSE [Current EXCEPT !.reserved = TRUE, !.attempts = @ + 1]
        PROVE  TaskIInv'
    <2>1. /\ Current.claim = held[h] /\ (Current.reserved \/ Current.attempts < MaxAttempts)
      BY <1>4 DEF MayDispatch
    <2>2. /\ task' \in Documents /\ task'.status = task.status /\ task'.count = task.count
          /\ task'.reserved /\ task'.claim = held[h]
          /\ task'.attempts = IF Current.reserved THEN task.attempts ELSE task.attempts + 1
      <3>1. CASE Current.reserved
        BY <1>3, <1>4, <2>1, <3>1
      <3>2. CASE ~Current.reserved
        <4>1. Current.attempts + 1 \in Nat
          BY <1>3
        <4>2. task' = [Current EXCEPT !.reserved = TRUE, !.attempts = Current.attempts + 1]
          BY <1>4, <3>2
        <4>. QED  BY <1>3, <2>1, <3>2, <4>1, <4>2 DEF Documents
      <3>. QED  BY <3>1, <3>2
    <2>3. held[h] \notin touched /\ sent \subseteq 1 .. issued /\ held[h] \in 1 .. issued
      BY <1>1, <1>2, <2>1, CurrentFacts DEF TaskTypeOK
    <2>4. Cardinality(sent') <= task'.attempts /\ task'.attempts <= MaxAttempts
      <3>1. /\ IsFiniteSet(sent) /\ Cardinality(sent) \in Nat
            /\ Cardinality(sent) <= task.attempts /\ task.attempts <= MaxAttempts
        BY <1>1, SentIsFinite DEF AttemptsAreSpent
      <3>2. CASE Current.reserved
        <4>1. sent' = sent
          BY <1>4, <2>1, <3>2, CurrentFacts
        <4>. QED  BY <2>2, <3>1, <3>2, <4>1
      <3>3. CASE ~Current.reserved
        <4>1. Cardinality(sent') = Cardinality(sent) + 1
          BY <1>1, <1>4, <2>1, <3>1, <3>3, CurrentFacts, FS_AddElement
        <4>. QED  BY <1>3, <2>1, <2>2, <3>1, <3>3, <4>1, MaxAttemptsAssumption
      <3>. QED  BY <3>2, <3>3
    <2>5. AttemptsAreSpent'
      BY <1>1, <1>2, <1>4, <2>2, <2>3, <2>4 DEF AttemptsAreSpent
    <2>6. sent' \subseteq 1 .. issued'
      BY <1>2, <1>4, <2>3
    <2>. QED  BY <1>1, <1>2, <1>4, <2>2, <2>5, <2>6, DocumentSuffices DEF TaskTypeOK, Exists
  <1>5. ASSUME held' = [held EXCEPT ![h] = 0], UNCHANGED sent,
               task' = Current \/ task' = Cleared(Current)
        PROVE  TaskIInv'
    <2>1. /\ task' \in Documents /\ task'.status = task.status /\ task'.count = task.count
          /\ task'.attempts = task.attempts /\ task'.claim \in 0 .. issued
          /\ task'.reserved => task'.claim \in sent
          /\ task'.claim # 0 /\ ~task'.reserved => task'.claim \notin sent
          /\ task'.claim \notin touched
      <3>1. 0 \in 0 .. issued /\ 0 \notin touched
        BY <1>1, <1>2 DEF TaskTypeOK
      <3>. QED  BY <1>3, <1>5, <3>1, CurrentFacts, ClearedFacts
    <2>2. AttemptsAreSpent'
      BY <1>1, <1>2, <1>5, <2>1 DEF AttemptsAreSpent
    <2>3. held' \in [Hosts -> Nat] /\ \A g \in Hosts : held'[g] \in 0 .. issued
      BY <1>1, <1>2, <1>5 DEF TaskTypeOK
    <2>. QED  BY <1>1, <1>2, <1>5, <2>1, <2>2, <2>3, DocumentSuffices DEF TaskTypeOK, Exists
  <1>. QED  BY <1>4, <1>5 DEF Validate

LEMMA ReportPreserves ==
    ASSUME TaskIInv, NEW h \in Hosts, NEW accepted \in BOOLEAN, Report(h, accepted)
    PROVE  TaskIInv'
  <1>1. TaskTypeOK /\ AttemptsAreSpent /\ Exists /\ issued \in Nat /\ task \in Documents
    BY DEF TaskIInv, Report, TaskTypeOK
  <1>2. /\ held' = [held EXCEPT ![h] = 0]
        /\ UNCHANGED <<rows, absent, holder, issued, sent, touched>>
        /\ task' = task \/ task' = Cleared(task)
    BY DEF Report
  <1>3. 0 \in 0 .. issued /\ 0 \notin touched
    BY <1>1 DEF TaskTypeOK
  <1>4. /\ task' \in Documents /\ task'.status = task.status /\ task'.count = task.count
        /\ task'.claim \in 0 .. issued
    BY <1>1, <1>2, <1>3, ClearedFacts DEF TaskTypeOK
  <1>5. AttemptsAreSpent'
    BY <1>1, <1>2, <1>3, ClearedFacts DEF AttemptsAreSpent
  <1>6. held' \in [Hosts -> Nat] /\ \A g \in Hosts : held'[g] \in 0 .. issued
    BY <1>1, <1>2 DEF TaskTypeOK
  <1>. QED  BY <1>1, <1>2, <1>4, <1>5, <1>6, DocumentSuffices DEF TaskTypeOK, Exists

\* A step that changes the rows or the holder of the lock, but not the claims.
LEMMA RowsSuffice ==
    ASSUME TaskIInv, UNCHANGED <<held, issued, sent, touched>>,
           task' \in Documents, task'.status # "absent" \/ task' = task,
           task'.claim = task.claim, task'.reserved = task.reserved,
           task'.attempts = task.attempts,
           rows' \in [Slots -> Rows], holder' \in [op : Steps, row : Rows],
           CountsAreOwed', HolderKnows', ~Exists' => Attached' = {}
    PROVE  TaskIInv'
  <1>1. TaskTypeOK'
    BY DEF TaskIInv, TaskTypeOK
  <1>2. AttemptsAreSpent'
    BY DEF TaskIInv, AttemptsAreSpent
  <1>3. NothingWithoutTask'
    BY DEF TaskIInv, NothingWithoutTask, Exists
  <1>. QED  BY <1>1, <1>2, <1>3 DEF TaskIInv

LEMMA AdmitSessionPreserves ==
    ASSUME TaskIInv, NEW s \in Slots, NEW implicit \in BOOLEAN, AdmitSession(s, implicit)
    PROVE  TaskIInv'
  <1> DEFINE r == [life |-> "creating", attached |-> TRUE, implicit |-> implicit]
  <1>1. /\ holder = NoHolder /\ rows[s] = NoRow /\ holder' = [op |-> s, row |-> r]
        /\ UNCHANGED <<rows, absent, held, issued, sent, touched>> /\ task \in Documents
        /\ task.count \in Nat
    BY DEF AdmitSession, Unlocked, History, TaskIInv, TaskTypeOK, Documents
  <1>2. /\ task' \in Documents /\ task'.status # "absent" /\ task'.count = task.count + 1
        /\ task'.claim = task.claim /\ task'.reserved = task.reserved
        /\ task'.attempts = task.attempts
    <2>1. CASE implicit
      <3>1. task = NoTask /\ task' = [NoTask EXCEPT !.status = "active", !.count = 1]
        BY <2>1 DEF AdmitSession, TaskIInv, NothingWithoutTask
      <3>2. task' = [status |-> "active", work |-> FALSE, count |-> 1, claim |-> 0,
                     expired |-> FALSE, reserved |-> FALSE, attempts |-> 0]
        BY <3>1 DEF NoTask
      <3>3. task.count = 0 /\ task.claim = 0 /\ task.reserved = FALSE /\ task.attempts = 0
        BY <3>1 DEF NoTask
      <3>4. task' \in Documents
        BY <3>2 DEF Documents, Statuses
      <3>5. /\ task'.status = "active" /\ task'.count = 1 /\ task'.claim = 0
            /\ task'.reserved = FALSE /\ task'.attempts = 0
        BY <3>2
      <3>6. task'.count = task.count + 1
        BY <3>3, <3>5
      <3>7. task'.status # "absent"
        BY <3>5
      <3>. QED  BY <3>3, <3>4, <3>5, <3>6, <3>7, Zenon
    <2>2. CASE ~implicit
      <3>1. task' = [task EXCEPT !.count = task.count + 1] /\ task.status # "absent"
        BY <2>2 DEF AdmitSession, Exists
      <3>2. task.count + 1 \in Nat
        BY <1>1
      <3>. QED  BY <1>1, <3>1, <3>2 DEF Documents
    <2>. QED  BY <2>1, <2>2
  <1>3. r \in Rows /\ r.attached /\ r.life = "creating" /\ s \in Steps
    BY DEF Rows, Steps
  <1>4. /\ holder'.op = s /\ holder'.row = r /\ holder' \in [op : Steps, row : Rows]
        /\ s \notin {"free", "uncount", "remove", "sweep"}
    BY <1>1, <1>3, SlotsAssumption
  <1>5. Attached' = Attached /\ Owed' = 1 /\ Owed = 0
    <2>1. Owed = 0
      BY <1>1, SlotsAssumption DEF Owed, NoHolder
    <2>. QED  BY <1>1, <1>4, <2>1 DEF Attached, Owed
  <1>6. CountsAreOwed'
    BY <1>1, <1>2, <1>5, AttachedIsFinite DEF TaskIInv, CountsAreOwed
  <1>7. HolderKnows'
    BY <1>1, <1>2, <1>3, <1>4 DEF TaskIInv, HolderKnows, Exists
  <1>. QED  BY <1>1, <1>2, <1>4, <1>6, <1>7, RowsSuffice DEF TaskIInv, TaskTypeOK, Exists

LEMMA PutRowPreserves ==
    ASSUME TaskIInv, PutRow
    PROVE  TaskIInv'
  <1>1. /\ holder.op \in Slots /\ rows' = [rows EXCEPT ![holder.op] = holder.row]
        /\ holder' = NoHolder /\ UNCHANGED <<task, absent, held, issued, sent, touched>>
        /\ rows[holder.op] = NoRow /\ holder.row.attached /\ Exists
           /\ holder.row.life = "creating"
    BY DEF PutRow, Quiet, History, TaskIInv, HolderKnows
  <1>2. /\ rows \in [Slots -> Rows] /\ task \in Documents /\ task.count \in Nat
        /\ holder \in [op : Steps, row : Rows]
    BY DEF TaskIInv, TaskTypeOK, Documents
  <1>3. Attached' = Attached \cup {holder.op} /\ holder.op \notin Attached
    BY <1>1, <1>2 DEF Attached, NoRow
  <1>4. Cardinality(Attached') = Cardinality(Attached) + 1
    BY <1>3, AttachedIsFinite, FS_AddElement
  <1>5. Owed = 1 /\ Owed' = 0 /\ holder'.op = "free"
    BY <1>1, SlotsAssumption DEF Owed, NoHolder
  <1>6. CountsAreOwed'
    BY <1>1, <1>2, <1>4, <1>5, AttachedIsFinite DEF TaskIInv, CountsAreOwed
  <1>7. HolderKnows'
    <2>1. \A s \in Slots : rows'[s].life = "gone" => s \in absent'
      BY <1>1, <1>2 DEF TaskIInv, HolderKnows
    <2>. QED  BY <1>5, <2>1, SlotsAssumption DEF HolderKnows
  <1>8. rows' \in [Slots -> Rows] /\ holder' \in [op : Steps, row : Rows]
    BY <1>1, <1>2 DEF NoHolder, NoRow, Rows, Steps
  <1>. QED  BY <1>1, <1>2, <1>6, <1>7, <1>8, RowsSuffice DEF Exists

\* The rows that are attached may only become fewer, and those of the holder stay.
LEMMA FewerRowsSuffice ==
    ASSUME TaskIInv, UNCHANGED <<task, held, issued, sent, touched>>,
           rows' \in [Slots -> Rows], Attached' \subseteq Attached,
           holder' = holder \/ holder' = NoHolder,
           holder'.op \in Slots => rows'[holder'.op] = NoRow,
           holder'.op = "sweep" => \A s \in Attached' : FoundAbsent(s)',
           \A s \in Slots : rows'[s].life = "gone" => s \in absent'
    PROVE  TaskIInv'
  <1>1. TaskTypeOK /\ task \in Documents /\ task.count \in Nat
    BY DEF TaskIInv, TaskTypeOK, Documents
  <1>2. holder' \in [op : Steps, row : Rows]
    <2>1. NoHolder \in [op : Steps, row : Rows]
      BY DEF NoHolder, NoRow, Steps, Rows
    <2>. QED  BY <1>1, <2>1 DEF TaskTypeOK
  <1>3. /\ Cardinality(Attached') <= Cardinality(Attached)
        /\ Cardinality(Attached) \in Nat /\ Cardinality(Attached') \in Nat
    BY AttachedIsFinite, FS_Subset, FS_CardinalityType
  <1>4. Owed' \in {0, 1} /\ Owed \in {0, 1} /\ Owed' <= Owed
    <2>1. CASE holder' = holder
      BY <2>1 DEF Owed
    <2>2. CASE holder' = NoHolder
      BY <2>2, SlotsAssumption DEF Owed, NoHolder
    <2>. QED  BY <2>1, <2>2
  <1>5. CountsAreOwed'
    <2>1. task.count >= Cardinality(Attached) + Owed
      BY DEF TaskIInv, CountsAreOwed
    <2>. QED  BY <1>1, <1>3, <1>4, <2>1 DEF CountsAreOwed
  <1>6. HolderKnows'
    <2>1. CASE holder' = holder
      BY <2>1 DEF TaskIInv, HolderKnows, Exists
    <2>2. CASE holder' = NoHolder
      BY <2>2, SlotsAssumption DEF HolderKnows, NoHolder
    <2>. QED  BY <2>1, <2>2
  <1>7. ~Exists' => Attached' = {}
    BY DEF TaskIInv, NothingWithoutTask, Exists
  <1>. QED  BY <1>1, <1>2, <1>5, <1>6, <1>7, RowsSuffice

LEMMA RowLivesPreserves ==
    ASSUME TaskIInv, NEW s \in Slots, NEW c \in LifeChanges, Lives(s, c[1], c[2])
    PROVE  TaskIInv'
  <1>1. /\ rows \in [Slots -> Rows] /\ HolderKnows
        /\ UNCHANGED <<task, holder, held, issued, sent, touched>>
        /\ rows[s].life = c[1] /\ rows' = [rows EXCEPT ![s].life = c[2]]
        /\ absent' = IF c[2] = "gone" THEN absent \cup {s} ELSE absent
    BY DEF TaskIInv, TaskTypeOK, Lives, Quiet, History
  <1>2. /\ c[1] \in {"creating", "reported", "live", "gone"}
        /\ c[2] \in {"reported", "live", "ended", "gone"}
        /\ c[1] = "gone" => c[2] = "ended"
    BY DEF LifeChanges
  <1>3. rows' = [rows EXCEPT ![s] = [rows[s] EXCEPT !.life = c[2]]] /\ rows[s] \in Rows
    BY <1>1
  <1>4. /\ [rows[s] EXCEPT !.life = c[2]] \in Rows
        /\ [rows[s] EXCEPT !.life = c[2]].attached = rows[s].attached
        /\ [rows[s] EXCEPT !.life = c[2]].life = c[2]
    BY <1>2, <1>3 DEF Rows
  <1>5. rows' \in [Slots -> Rows] /\ Attached' = Attached /\ rows'[s].life = c[2]
    BY <1>1, <1>3, <1>4 DEF Attached
  <1>6. \A t \in Slots \ {s} : rows'[t] = rows[t]
    BY <1>1, <1>3
  <1>7. rows[s] # NoRow
    BY <1>1, <1>2 DEF NoRow
  <1>8. \A t \in Slots : rows'[t].life = "gone" => t \in absent'
    BY <1>1, <1>5, <1>6 DEF HolderKnows
  <1>9. holder.op = "sweep" => \A t \in Attached' : FoundAbsent(t)'
    <2>1. FoundAbsent(s) => FoundAbsent(s)'
      BY <1>1, <1>2, <1>5 DEF FoundAbsent
    <2>2. \A t \in Slots \ {s} : FoundAbsent(t) => FoundAbsent(t)'
      BY <1>1, <1>6 DEF FoundAbsent
    <2>3. Attached \subseteq Slots
      BY DEF Attached
    <2>. QED  BY <1>1, <1>5, <2>1, <2>2, <2>3 DEF HolderKnows
  <1>. QED  BY <1>1, <1>5, <1>6, <1>7, <1>8, <1>9, FewerRowsSuffice DEF HolderKnows

LEMMA StopPreserves ==
    ASSUME TaskIInv, Stop
    PROVE  TaskIInv'
  <1>1. /\ rows \in [Slots -> Rows]
        /\ UNCHANGED <<task, rows, absent, held, issued, sent, touched>>
        /\ holder' = NoHolder /\ \A s \in Slots : rows[s].life = "gone" => s \in absent
    BY DEF TaskIInv, TaskTypeOK, HolderKnows, Stop
  <1>. QED  BY <1>1, SlotsAssumption, FewerRowsSuffice DEF Attached, NoHolder

LEMMA RemovePreserves ==
    ASSUME TaskIInv, Remove
    PROVE  TaskIInv'
  <1>1. /\ UNCHANGED <<task, absent, held, issued, sent, touched>>
        /\ holder' = [NoHolder EXCEPT !.op = "remove"]
        /\ rows' = [s \in Slots |-> IF s \in Attached
                       THEN [rows[s] EXCEPT !.attached = FALSE, !.implicit = FALSE]
                       ELSE rows[s]]
        /\ rows \in [Slots -> Rows] /\ task \in Documents /\ task.count \in Nat
        /\ holder = NoHolder
    BY DEF Remove, Quiet, History, Unlocked, TaskIInv, TaskTypeOK, Documents
  <1>2. holder'.op = "remove" /\ holder' \in [op : Steps, row : Rows] /\ holder.op = "free"
    BY <1>1 DEF NoHolder, NoRow, Steps, Rows
  <1>3. \A s \in Slots : /\ rows'[s] \in Rows /\ ~rows'[s].attached
                         /\ rows'[s].life = rows[s].life
    <2>. SUFFICES ASSUME NEW s \in Slots
                  PROVE  /\ rows'[s] \in Rows /\ ~rows'[s].attached
                         /\ rows'[s].life = rows[s].life
      OBVIOUS
    <2>1. rows[s] \in Rows
      BY <1>1
    <2>2. CASE s \in Attached
      BY <1>1, <2>1, <2>2 DEF Rows
    <2>3. CASE s \notin Attached
      BY <1>1, <2>1, <2>3 DEF Attached
    <2>. QED  BY <2>2, <2>3
  <1>4. rows' \in [Slots -> Rows] /\ Attached' = {}
    BY <1>1, <1>3 DEF Attached
  <1>5. Owed' = 0 /\ Cardinality(Attached') = 0
    BY <1>2, <1>4, SlotsAssumption, FS_EmptySet DEF Owed
  <1>6. CountsAreOwed'
    <2>1. task' = task /\ task.count \in Nat
      BY <1>1
    <2>2. task'.count >= 0 + 0
      BY <2>1
    <2>. QED  BY <1>5, <2>2 DEF CountsAreOwed
  <1>7. HolderKnows'
    <2>1. \A s \in Slots : rows'[s].life = "gone" => s \in absent'
      BY <1>1, <1>3 DEF TaskIInv, HolderKnows
    <2>. QED  BY <1>2, <1>4, <2>1, SlotsAssumption DEF HolderKnows
  <1>. QED  BY <1>1, <1>2, <1>4, <1>6, <1>7, RowsSuffice

LEMMA FailCreatePreserves ==
    ASSUME TaskIInv, NEW s \in Slots, FailCreate(s)
    PROVE  TaskIInv'
  <1>1. /\ rows \in [Slots -> Rows] /\ rows' = [rows EXCEPT ![s] = NoRow] /\ HolderKnows
        /\ UNCHANGED <<task, absent, held, issued, sent, touched>> /\ NoRow \in Rows
           /\ ~NoRow.attached
        /\ task \in Documents /\ task.count \in Nat
    BY DEF FailCreate, Quiet, History, TaskIInv, TaskTypeOK, NoRow, Rows, Documents
  <1>2. /\ rows' \in [Slots -> Rows] /\ rows'[s] = NoRow
        /\ \A t \in Slots \ {s} : rows'[t] = rows[t]
    BY <1>1
  <1>3. Attached' = Attached \ {s}
    BY <1>1, <1>2 DEF Attached
  <1>a. \A t \in Slots : rows'[t].life = "gone" => t \in absent'
    BY <1>1, <1>2 DEF HolderKnows, NoRow
  <1>4. CASE UNCHANGED holder
    <2>1. holder.op = "sweep" => \A t \in Attached' : FoundAbsent(t)'
      BY <1>1, <1>2, <1>3 DEF HolderKnows, FoundAbsent, Attached
    <2>2. holder.op \in Slots => rows'[holder.op] = NoRow
      BY <1>1, <1>2 DEF HolderKnows
    <2>. QED  BY <1>1, <1>2, <1>3, <1>a, <1>4, <2>1, <2>2, FewerRowsSuffice
  <1>5. CASE ~rows[s].attached /\ holder = NoHolder /\ holder' = [NoHolder EXCEPT !.op = "free"]
    <2>1. holder' = NoHolder
      BY <1>5 DEF NoHolder
    <2>. QED  BY <1>4, <1>5, <2>1
  <1>6. CASE rows[s].attached /\ holder = NoHolder
             /\ holder' = [NoHolder EXCEPT !.op = "uncount"]
    <2>1. holder'.op = "uncount" /\ holder' \in [op : Steps, row : Rows] /\ holder.op = "free"
      BY <1>6 DEF NoHolder, NoRow, Steps, Rows
    <2>2. s \in Attached
      BY <1>6 DEF Attached
    <2>3. Cardinality(Attached') = Cardinality(Attached) - 1
      BY <1>3, <2>2, AttachedIsFinite, FS_RemoveElement
    <2>4. Owed = 0 /\ Owed' = 1
      BY <2>1, SlotsAssumption DEF Owed
    <2>5. CountsAreOwed'
      BY <1>1, <2>3, <2>4, AttachedIsFinite DEF TaskIInv, CountsAreOwed
    <2>6. HolderKnows'
      BY <1>a, <2>1, SlotsAssumption DEF HolderKnows
    <2>7. Exists
      BY <2>2 DEF TaskIInv, NothingWithoutTask
    <2>. QED  BY <1>1, <1>2, <2>1, <2>5, <2>6, <2>7, RowsSuffice DEF Exists
  <1>. QED  BY <1>4, <1>5, <1>6 DEF FailCreate, Unlocked

\* The file of the task is gone, and with it all its claims.
LEMMA GonePreserves ==
    ASSUME TaskIInv, task' = NoTask, NoClaims, Attached = {}, UNCHANGED <<rows, absent>>,
           holder' = NoHolder
    PROVE  TaskIInv'
  <1>1. /\ NoTask \in Documents /\ NoHolder \in [op : Steps, row : Rows] /\ NoTask.count = 0
        /\ NoTask.claim = 0 /\ ~NoTask.reserved /\ NoTask.attempts = 0
           /\ NoTask.status = "absent"
        /\ NoHolder.op = "free"
    BY DEF NoTask, NoHolder, NoRow, Documents, Statuses, Steps, Rows
  <1>2. /\ held' = [h \in Hosts |-> 0] /\ issued' = 0 /\ sent' = {} /\ touched' = {}
    BY DEF NoClaims
  <1>3. TaskTypeOK'
    BY <1>1, <1>2 DEF TaskTypeOK, TaskIInv
  <1>4. Attached' = {} /\ Owed' = 0 /\ Cardinality(Attached') = 0
    BY <1>1, SlotsAssumption, FS_EmptySet DEF Attached, Owed
  <1>5. CountsAreOwed' /\ HolderKnows' /\ NothingWithoutTask'
    BY <1>1, <1>2, <1>4, SlotsAssumption
    DEF TaskIInv, CountsAreOwed, HolderKnows, NothingWithoutTask
  <1>6. AttemptsAreSpent'
    BY <1>1, <1>2, FS_EmptySet, MaxAttemptsAssumption DEF AttemptsAreSpent
  <1>. QED  BY <1>3, <1>5, <1>6 DEF TaskIInv

LEMMA SecondWritePreserves ==
    ASSUME TaskIInv, SecondWrite \/ DiscardImplicit
    PROVE  TaskIInv'
  <1>1. CASE SecondWrite /\ holder.op = "remove" /\ task' = NoTask /\ NoClaims
    BY <1>1, GonePreserves DEF SecondWrite, TaskIInv, HolderKnows
  <1>2. CASE DiscardImplicit /\ Attached = {}
    BY <1>2, GonePreserves DEF DiscardImplicit, Unlocked
  <1>3. CASE DiscardImplicit /\ Attached # {}
    BY <1>3, FewerRowsSuffice DEF DiscardImplicit, Quiet, History, TaskIInv, TaskTypeOK,
                                  HolderKnows, Attached, FoundAbsent
  <1>4. CASE SecondWrite /\ holder.op = "uncount"
             /\ task' = [task EXCEPT !.count = IF @ > 0 THEN @ - 1 ELSE 0] /\ Quiet
    <2>1. /\ task \in Documents /\ task.count \in Nat /\ holder' = NoHolder
          /\ UNCHANGED <<rows, absent, held, issued, sent, touched>> /\ rows \in [Slots -> Rows]
          /\ task.count >= Cardinality(Attached) + 1
      BY <1>4 DEF SecondWrite, Quiet, History, TaskIInv, TaskTypeOK, Documents, CountsAreOwed,
         Owed
    <2>2. task' = [task EXCEPT !.count = task.count - 1] /\ task.count - 1 \in Nat
      BY <1>4, <2>1, AttachedIsFinite
    <2>3. /\ task' \in Documents /\ task'.status = task.status /\ task'.count = task.count - 1
          /\ task'.claim = task.claim /\ task'.reserved = task.reserved
          /\ task'.attempts = task.attempts
      BY <2>1, <2>2 DEF Documents
    <2>4. task.status # "absent"
      <3>1. task.count # 0
        BY <2>1, AttachedIsFinite
      <3>. QED  BY <3>1 DEF TaskIInv, NothingWithoutTask, NoTask, Exists
    <2>5. NoHolder \in [op : Steps, row : Rows] /\ holder'.op = "free"
      BY <2>1 DEF NoHolder, NoRow, Steps, Rows
    <2>6. Attached' = Attached /\ Owed' = 0
      BY <2>1, <2>5, SlotsAssumption DEF Attached, Owed
    <2>7. CountsAreOwed' /\ HolderKnows'
      BY <2>1, <2>3, <2>5, <2>6, AttachedIsFinite, SlotsAssumption DEF TaskIInv,
         CountsAreOwed, HolderKnows
    <2>. QED  BY <2>1, <2>3, <2>4, <2>5, <2>7, RowsSuffice DEF Exists
  <1>. QED  BY <1>1, <1>2, <1>3, <1>4 DEF SecondWrite

LEMMA SweepPreserves ==
    ASSUME TaskIInv, SweepReads \/ SweepWrites
    PROVE  TaskIInv'
  <1>0. /\ task \in Documents /\ rows \in [Slots -> Rows] /\ TaskTypeOK /\ AttemptsAreSpent
        /\ task.count \in Nat /\ issued \in Nat
    BY DEF TaskIInv, TaskTypeOK, Documents
  <1>1. CASE SweepReads
    <2>1. /\ task.status = "active" /\ holder = NoHolder
          /\ holder' = [NoHolder EXCEPT !.op = "sweep"]
          /\ UNCHANGED <<rows, absent, held, issued, sent, touched>>
          /\ \A s \in Attached : Over(s)
          /\ task' = Withdrawn([task EXCEPT !.reserved = FALSE])
      BY <1>1 DEF SweepReads, Unlocked, Quiet, History
    <2>2. /\ [task EXCEPT !.reserved = FALSE] \in Documents
          /\ [task EXCEPT !.reserved = FALSE].status = task.status
          /\ [task EXCEPT !.reserved = FALSE].count = task.count
          /\ [task EXCEPT !.reserved = FALSE].attempts = task.attempts
          /\ ~[task EXCEPT !.reserved = FALSE].reserved
      BY <1>0 DEF Documents
    <2>3. /\ task' \in Documents /\ task'.status = "active" /\ task'.count = task.count
          /\ task'.attempts = task.attempts /\ ~task'.reserved /\ task'.claim = 0
      BY <2>1, <2>2, WithdrawnFacts
    <2>4. /\ holder' \in [op : Steps, row : Rows] /\ holder'.op = "sweep" /\ holder.op = "free"
      BY <2>1 DEF NoHolder, NoRow, Steps, Rows
    <2>5. TaskTypeOK'
      BY <1>0, <2>1, <2>3, <2>4 DEF TaskTypeOK
    <2>6. Attached' = Attached /\ Owed' = 0 /\ Owed = 0
      BY <2>1, <2>4, SlotsAssumption DEF Attached, Owed
    <2>7. CountsAreOwed'
      BY <2>3, <2>6 DEF TaskIInv, CountsAreOwed
    <2>8. HolderKnows'
      BY <2>1, <2>4, <2>6, SlotsAssumption
      DEF TaskIInv, HolderKnows, Over, FoundAbsent, Attached
    <2>9. NothingWithoutTask'
      BY <2>3 DEF NothingWithoutTask, Exists
    <2>10. AttemptsAreSpent'
      <3>1. 0 \notin touched
        BY <1>0 DEF TaskTypeOK
      <3>. QED  BY <1>0, <2>1, <2>3, <3>1 DEF AttemptsAreSpent
    <2>. QED  BY <2>5, <2>7, <2>8, <2>9, <2>10 DEF TaskIInv
  <1>2. CASE SweepWrites
    <2>1. /\ holder.op = "sweep" /\ task' = [task EXCEPT !.status = "blocked"]
          /\ holder' = NoHolder /\ UNCHANGED <<rows, absent, held, issued, sent, touched>>
      BY <1>2 DEF SweepWrites, History
    <2>2. /\ task' \in Documents /\ task'.status = "blocked" /\ task'.count = task.count
          /\ task'.claim = task.claim /\ task'.reserved = task.reserved
          /\ task'.attempts = task.attempts
      BY <1>0, <2>1 DEF Documents, Statuses
    <2>3. NoHolder \in [op : Steps, row : Rows] /\ holder'.op = "free"
      BY <2>1 DEF NoHolder, NoRow, Steps, Rows
    <2>4. Attached' = Attached /\ Owed' = 0 /\ Owed = 0
      BY <2>1, <2>3, SlotsAssumption DEF Attached, Owed
    <2>5. CountsAreOwed'
      BY <2>2, <2>4 DEF TaskIInv, CountsAreOwed
    <2>6. HolderKnows'
      BY <2>1, <2>3, SlotsAssumption DEF TaskIInv, HolderKnows
    <2>. QED  BY <1>0, <2>1, <2>2, <2>3, <2>5, <2>6, RowsSuffice DEF Exists
  <1>. QED  BY <1>1, <1>2

LEMMA TaskNextPreserves == TaskIInv /\ [TaskNext]_taskvars => TaskIInv'
  <1>. SUFFICES ASSUME TaskIInv, [TaskNext]_taskvars PROVE TaskIInv'
    OBVIOUS
  <1>1. CASE UNCHANGED taskvars
    BY <1>1, FewerRowsSuffice
    DEF taskvars, TaskIInv, TaskTypeOK, HolderKnows, Attached, FoundAbsent
  <1>2. CASE Create \/ Mutate \/ Observe \/ Remove \/ PutRow \/ SecondWrite \/ DiscardImplicit
             \/ SweepReads \/ SweepWrites \/ Elapse
    BY <1>2, CreatePreserves, DocumentWorkPreserves, RemovePreserves, PutRowPreserves,
       SecondWritePreserves, SweepPreserves, ElapsePreserves
  <1>3. CASE Stop
    BY <1>3, StopPreserves
  <1>5. ASSUME NEW s \in Slots,
               \/ \E implicit \in BOOLEAN : AdmitSession(s, implicit)
               \/ \E c \in LifeChanges : Lives(s, c[1], c[2])
               \/ FailCreate(s)
        PROVE  TaskIInv'
    BY <1>5, AdmitSessionPreserves, RowLivesPreserves, FailCreatePreserves
  <1>6. ASSUME NEW h \in Hosts,
               Claim(h) \/ Validate(h) \/ \E accepted \in BOOLEAN : Report(h, accepted)
        PROVE  TaskIInv'
    BY <1>6, ClaimPreserves, ValidatePreserves, ReportPreserves
  <1>. QED  BY <1>1, <1>2, <1>3, <1>5, <1>6 DEF TaskNext

LEMMA TaskIInvSuffices == TaskIInv => TaskInv
  <1>. SUFFICES ASSUME TaskIInv PROVE TaskInv
    OBVIOUS
  <1>1. CountIsConservative
    <2>1. task.count \in Nat
      BY DEF TaskIInv, TaskTypeOK, Documents
    <2>. QED  BY <2>1, AttachedIsFinite DEF TaskIInv, CountsAreOwed, Owed, CountIsConservative
  <1>2. AttachedTaskExists
    BY DEF TaskIInv, NothingWithoutTask, AttachedTaskExists
  <1>3. DispatchesAreBounded
    <2>1. task.attempts \in Nat /\ Cardinality(sent) \in Nat
      BY SentIsFinite DEF TaskIInv, TaskTypeOK, Documents
    <2>. QED  BY <2>1, MaxAttemptsAssumption DEF TaskIInv, AttemptsAreSpent,
                 DispatchesAreBounded
  <1>. QED  BY <1>1, <1>2, <1>3 DEF TaskInv

\* Whatever sessions come and go, and wherever Control stops between two writes: the
\* sessions that name a task are never undercounted, none names a task that is gone, and
\* the task is continued at most MaxAttempts times, never on a claim that saw activity.
THEOREM TasksAreSound == TaskSpec => []TaskInv
  BY TaskIInvSuffices, TaskInitEstablishes, TaskNextPreserves, PTL DEF TaskSpec

\* The sweep blocks a task only when every session that names it has ended and was found
\* absent, although a forced end may take the confirmation back while the sweep decides.
THEOREM SweepsOnlyTheIdle == TaskSpec => SweepBlocksTheIdle
  <1>1. TaskIInv /\ [TaskNext]_taskvars
          => [holder.op = "sweep" /\ task'.status = "blocked"
                => \A s \in Attached :
                     s \in absent /\ rows[s].life \in {"ended", "gone"}]_taskvars
    BY DEF TaskIInv, HolderKnows, FoundAbsent
  <1>. QED  BY <1>1, TaskInitEstablishes, TaskNextPreserves, PTL DEF TaskSpec,
               SweepBlocksTheIdle

-----------------------------------------------------------------------------
(* Sessions and tasks side by side                                           *)

\* Never more sessions that are not ended than their limit, and never a task that counts
\* fewer sessions than it has or is continued more often than it may be.
THEOREM AdmissionIsSound == AdmissionSpec => []AdmissionInv
  <1> DEFINE All == SessionsIInv /\ CapacityBounded /\ TaskIInv
  <1>1. AdmissionInit => All
    BY SessionsInitEstablishes, CapacityInitially, TaskInitEstablishes DEF AdmissionInit
  <1>2. All /\ [AdmissionNext]_<<part, vars, taskvars>> => All'
    <2>. SUFFICES ASSUME All, [AdmissionNext]_<<part, vars, taskvars>> PROVE All'
      OBVIOUS
    <2>1. [Next]_vars /\ [TaskNext]_taskvars
      BY DEF AdmissionNext
    <2>. QED  BY <2>1, SessionsNextPreserves, CapacityPreserved, TaskNextPreserves
  <1>3. All => AdmissionInv
    BY TaskIInvSuffices DEF AdmissionInv
  <1>. QED  BY <1>1, <1>2, <1>3, PTL DEF AdmissionSpec

-----------------------------------------------------------------------------
(* The closing of Control                                                    *)

\* What is known of who may still turn to something.
Standing == ShutdownTypeOK /\ StopsInOrder

\* One of the three turns to something else about one session.  Who is stopped does not
\* turn; nothing else that matters changes.
LEMMA TurnKeeps ==
    ASSUME Standing, NEW k \in Enders, NEW s \in SweptSessions,
           NEW to \in {"idle", "locking"} \cup Inside, Turns(k, s, to),
           k = "sweep" => sweeper = "passing",
           k = "user" => server # "stopped",
           k = "hello" => stage \notin {"transport", "closed"},
           sweeper' = sweeper, server' = server, stage' = stage, todo' \subseteq todo
    PROVE  /\ ending' \in [Enders -> [SweptSessions -> {"idle", "locking"} \cup Inside]]
           /\ StopsInOrder'
<1>1. ending' \in [Enders -> [SweptSessions -> {"idle", "locking"} \cup Inside]]
  BY DEF Standing, ShutdownTypeOK, Turns
<1>2. \A x \in Enders : x # k => ending'[x] = ending[x]
  BY DEF Standing, ShutdownTypeOK, Turns
<1>3. "user" \in Enders /\ "hello" \in Enders /\ "sweep" \in Enders
  BY DEF Enders
<1> QED BY <1>1, <1>2, <1>3 DEF Standing, StopsInOrder, Nobody

\* A command of one session becomes something else.
LEMMA CommandTypes ==
    ASSUME ShutdownTypeOK, NEW s \in SweptSessions,
           NEW to \in {"none", "queued", "offered", "answered", "interrupted"},
           Sends(s, to)
    PROVE  command' \in [SweptSessions -> {"none", "queued", "offered", "answered",
                                           "interrupted"}]
BY DEF ShutdownTypeOK, Sends

\* A row becomes something else.
LEMMA RowTypes ==
    ASSUME ShutdownTypeOK, NEW s \in SweptSessions,
           NEW to \in {"active", "terminating", "ended"}, Marks(s, to)
    PROVE  status' \in [SweptSessions -> {"active", "terminating", "ended"}]
BY DEF ShutdownTypeOK, Marks

\* Somebody who is not idle has not been stopped.
LEMMA BusyIsNotStopped ==
    ASSUME Standing, NEW k \in Enders, NEW s \in SweptSessions, ending[k][s] # "idle"
    PROVE  /\ k = "sweep" => sweeper = "passing"
           /\ k = "user" => server # "stopped"
           /\ k = "hello" => stage \notin {"transport", "closed"}
BY DEF Standing, StopsInOrder, Nobody

\* What is quiet when all is closed follows from what stops when.
LEMMA OrderIsQuiet ==
    /\ StopsInOrder => ClosedIsQuiet
    /\ StopsInOrder' => ClosedIsQuiet'
BY DEF StopsInOrder, ClosedIsQuiet, Enders

\* Nobody but those who stop what they stop for cuts a call off.
LEMMA UncutKeeps ==
    ASSUME ShutdownInv, ShutdownTypeOK', StopsInOrder', cut' = cut
    PROVE  ShutdownInv'
BY OrderIsQuiet DEF ShutdownInv, SweepIsNotCut

\* A step about one session: of a user, of a hello or of the sweep.
LEMMA EndingKeeps ==
    ASSUME ShutdownInv, NEW s \in SweptSessions, NEW k \in Enders,
           \/ UserAsks(s) \/ HelloSchedules(s) \/ Locks(k, s) \/ Calls(k, s) \/ Fails(k, s)
           \/ Ended(k, s)
    PROVE  ShutdownInv'
<1> USE DEF ShutdownInv, Standing
<1>1. CASE UserAsks(s)
  <2>1. ShutdownTypeOK' /\ StopsInOrder'
    BY <1>1, TurnKeeps DEF UserAsks, ShutdownTypeOK, Enders, Inside
  <2> QED BY <1>1, <2>1, UncutKeeps DEF UserAsks
<1>2. CASE HelloSchedules(s)
  <2>1. ShutdownTypeOK' /\ StopsInOrder'
    BY <1>2, TurnKeeps DEF HelloSchedules, ShutdownTypeOK, StopsInOrder, Enders, Inside
  <2> QED BY <1>2, <2>1, UncutKeeps DEF HelloSchedules
<1>3. CASE Locks(k, s)
  <2>1. ending[k][s] # "idle" BY <1>3 DEF Locks
  <2>2. ShutdownTypeOK' /\ StopsInOrder'
    BY <1>3, <2>1, BusyIsNotStopped, TurnKeeps, RowTypes DEF Locks, ShutdownTypeOK, Inside
  <2> QED BY <1>3, <2>2, UncutKeeps DEF Locks
<1>4. CASE Calls(k, s)
  <2>1. ending[k][s] # "idle" BY <1>4 DEF Calls
  <2>2. ShutdownTypeOK' /\ StopsInOrder'
    BY <1>4, <2>1, BusyIsNotStopped, TurnKeeps, RowTypes, CommandTypes
       DEF Calls, GivesUp, ShutdownTypeOK, Inside
  <2> QED BY <1>4, <2>2, UncutKeeps DEF Calls
<1>5. CASE Fails(k, s)
  <2>1. ending[k][s] # "idle" BY <1>5 DEF Fails
  <2>2. ShutdownTypeOK' /\ StopsInOrder'
    BY <1>5, <2>1, BusyIsNotStopped, TurnKeeps, RowTypes, CommandTypes
       DEF Fails, GivesUp, ShutdownTypeOK
  <2> QED BY <1>5, <2>2, UncutKeeps DEF Fails
<1>6. CASE Ended(k, s)
  <2>1. ending[k][s] # "idle" BY <1>6 DEF Ended
  <2>2. ShutdownTypeOK' /\ StopsInOrder'
    BY <1>6, <2>1, BusyIsNotStopped, TurnKeeps, RowTypes, CommandTypes
       DEF Ended, ShutdownTypeOK
  <2> QED BY <1>6, <2>2, UncutKeeps DEF Ended
<1> QED BY <1>1, <1>2, <1>3, <1>4, <1>5, <1>6

\* A step of the sweep about one session.
LEMMA SweepKeeps ==
    ASSUME ShutdownInv, NEW s \in SweptSessions,
           SweepTakes(s) \/ SweepLocks(s) \/ SweepDecides(s) \/ SweepSpares(s)
    PROVE  ShutdownInv'
<1> USE DEF ShutdownInv, Standing
<1>0. "sweep" \in Enders BY DEF Enders
<1>1. CASE SweepTakes(s)
  <2>1. ShutdownTypeOK' /\ StopsInOrder'
    <3>1. CASE Turns("sweep", s, "locking")
      BY <1>0, <1>1, <3>1, TurnKeeps DEF SweepTakes, ShutdownTypeOK
    <3>2. CASE UNCHANGED ending
      BY <1>1, <3>2 DEF SweepTakes, ShutdownTypeOK, StopsInOrder, Nobody
    <3> QED BY <1>1, <3>1, <3>2 DEF SweepTakes
  <2> QED BY <1>1, <2>1, UncutKeeps DEF SweepTakes
<1>2. CASE SweepLocks(s)
  <2>1. ending["sweep"][s] # "idle" BY <1>2 DEF SweepLocks
  <2>2. ShutdownTypeOK' /\ StopsInOrder'
    BY <1>0, <1>2, <2>1, BusyIsNotStopped, TurnKeeps, RowTypes, CommandTypes
       DEF SweepLocks, ShutdownTypeOK, Inside
  <2> QED BY <1>2, <2>2, UncutKeeps DEF SweepLocks
<1>3. CASE SweepDecides(s)
  <2>1. ending["sweep"][s] # "idle" BY <1>3 DEF SweepDecides
  <2>2. ShutdownTypeOK' /\ StopsInOrder'
    BY <1>0, <1>3, <2>1, BusyIsNotStopped, TurnKeeps, RowTypes, CommandTypes
       DEF SweepDecides, ShutdownTypeOK, Inside
  <2> QED BY <1>3, <2>2, UncutKeeps DEF SweepDecides
<1>4. CASE SweepSpares(s)
  <2>1. ending["sweep"][s] # "idle" BY <1>4 DEF SweepSpares
  <2>2. ShutdownTypeOK' /\ StopsInOrder'
    BY <1>0, <1>4, <2>1, BusyIsNotStopped, TurnKeeps, CommandTypes
       DEF SweepSpares, ShutdownTypeOK
  <2> QED BY <1>4, <2>2, UncutKeeps DEF SweepSpares
<1> QED BY <1>1, <1>2, <1>3, <1>4

\* What goes on around the sessions, and moves nobody.
LEMMA SurroundingsKeep ==
    ASSUME ShutdownInv,
           \/ \E s \in SweptSessions : HelloConfirms(s) \/ Offers(s) \/ Answers(s)
           \/ SweepWakes \/ SweepRests \/ Fences \/ Heard \/ Unheard \/ ServerDrains
    PROVE  ShutdownInv'
<1> USE DEF ShutdownInv
<1>1. CASE \E s \in SweptSessions : HelloConfirms(s) \/ Offers(s) \/ Answers(s)
  <2>1. ShutdownTypeOK'
    BY <1>1, RowTypes, CommandTypes DEF HelloConfirms, Offers, Answers, ShutdownTypeOK
  <2>2. StopsInOrder' /\ cut' = cut
    BY <1>1 DEF HelloConfirms, Offers, Answers, StopsInOrder, Nobody
  <2> QED BY <2>1, <2>2, UncutKeeps
<1>2. CASE SweepWakes \/ SweepRests
  <2>1. ShutdownTypeOK' /\ StopsInOrder' /\ cut' = cut
    BY <1>2 DEF SweepWakes, SweepRests, ShutdownTypeOK, StopsInOrder, Nobody
  <2> QED BY <2>1, UncutKeeps
<1>3. CASE Fences
  <2>1. ShutdownTypeOK' BY <1>3 DEF Fences, Interrupts, ShutdownTypeOK
  <2>2. StopsInOrder' /\ cut' = cut BY <1>3 DEF Fences, StopsInOrder, Nobody
  <2> QED BY <2>1, <2>2, UncutKeeps
<1>4. CASE Heard \/ Unheard \/ ServerDrains
  <2>1. ShutdownTypeOK' BY <1>4 DEF Heard, Unheard, ServerDrains, ShutdownTypeOK
  <2>2. StopsInOrder' /\ cut' = cut
    BY <1>4 DEF Heard, Unheard, ServerDrains, StopsInOrder, Nobody
  <2> QED BY <2>1, <2>2, UncutKeeps
<1> QED BY <1>1, <1>2, <1>3, <1>4

\* All tasks of a user or of a hello are cancelled: the sweep is not cut off.
LEMMA CancelKeeps ==
    ASSUME ShutdownInv, NEW k \in {"user", "hello"}, Cancels(k)
    PROVE  /\ ending' = [ending EXCEPT ![k] = Nobody]
           /\ ending' \in [Enders -> [SweptSessions -> {"idle", "locking"} \cup Inside]]
           /\ command' \in [SweptSessions -> {"none", "queued", "offered", "answered",
                                              "interrupted"}]
           /\ cut' \subseteq Enders \X SweptSessions /\ SweepIsNotCut'
<1>1. k \in Enders /\ k # "sweep" BY DEF Enders
<1>2. ending' = [ending EXCEPT ![k] = Nobody] BY DEF Cancels
<1>3. ending' \in [Enders -> [SweptSessions -> {"idle", "locking"} \cup Inside]]
  BY <1>1, <1>2 DEF ShutdownInv, ShutdownTypeOK, Nobody
<1>4. command' \in [SweptSessions -> {"none", "queued", "offered", "answered", "interrupted"}]
  BY DEF Cancels, ShutdownInv, ShutdownTypeOK
<1>5. cut' \subseteq Enders \X SweptSessions /\ SweepIsNotCut'
  BY <1>1 DEF Cancels, ShutdownInv, ShutdownTypeOK, SweepIsNotCut
<1> QED BY <1>2, <1>3, <1>4, <1>5

\* The server stops, and what users asked for with it.
LEMMA ServerStopsKeeps == ASSUME ShutdownInv, ServerStops PROVE ShutdownInv'
<1>1. Cancels("user") BY DEF ServerStops
<1>2. ShutdownTypeOK' /\ SweepIsNotCut'
  BY <1>1, CancelKeeps DEF ServerStops, ShutdownInv, ShutdownTypeOK
<1>3. StopsInOrder'
  BY <1>1, CancelKeeps DEF ServerStops, ShutdownInv, ShutdownTypeOK, StopsInOrder, Nobody,
     Enders
<1> QED BY <1>2, <1>3, OrderIsQuiet DEF ShutdownInv

\* A step of aclose.
LEMMA CloseKeeps == ASSUME ShutdownInv, CloseStep PROVE ShutdownInv'
<1> USE DEF ShutdownInv
<1>1. CASE CloseBegins \/ SweepJoined \/ ServicesClose
  <2>1. ShutdownTypeOK' /\ StopsInOrder' /\ cut' = cut
    BY <1>1 DEF CloseBegins, SweepJoined, ServicesClose, ShutdownTypeOK, Stages, StopsInOrder,
       Nobody
  <2> QED BY <2>1, UncutKeeps
<1>2. CASE SessionsClose
  <2>1. Cancels("hello") BY <1>2 DEF SessionsClose
  <2>2. ShutdownTypeOK' /\ SweepIsNotCut'
    BY <1>2, <2>1, CancelKeeps DEF SessionsClose, ShutdownTypeOK, Stages
  <2>3. StopsInOrder'
    BY <1>2, <2>1, CancelKeeps DEF SessionsClose, ShutdownTypeOK, StopsInOrder, Nobody, Enders
  <2> QED BY <2>2, <2>3, OrderIsQuiet
<1>3. CASE TransportCloses
  <2>1. \A s \in SweptSessions : ending["sweep"][s] = "idle"
    BY <1>3 DEF TransportCloses, StopsInOrder, Nobody
  <2>2. SweepIsNotCut' /\ cut' \subseteq Enders \X SweptSessions
    BY <1>3, <2>1 DEF TransportCloses, SweepIsNotCut, ShutdownTypeOK
  <2>3. ShutdownTypeOK'
    BY <1>3, <2>2 DEF TransportCloses, Interrupts, ShutdownTypeOK, Stages
  <2>4. StopsInOrder' BY <1>3 DEF TransportCloses, StopsInOrder, Nobody
  <2> QED BY <2>2, <2>3, <2>4, OrderIsQuiet
<1> QED BY <1>1, <1>2, <1>3 DEF CloseStep

\* However users, hellos and the sweep end sessions while Control stops: a termination of
\* the sweep that the executor has is never cut off, and nobody is left in a closed runtime.
THEOREM ShutdownCorrect == ShutdownSpec => []ShutdownInv
<1>1. ShutdownInit => ShutdownInv
  <2> SUFFICES ASSUME ShutdownInit PROVE ShutdownInv OBVIOUS
  <2>1. ShutdownTypeOK BY DEF ShutdownInit, ShutdownTypeOK, Stages, Nobody, Enders
  <2>2. StopsInOrder BY DEF ShutdownInit, StopsInOrder, Nobody, Enders
  <2> QED BY <2>1, <2>2, OrderIsQuiet DEF ShutdownInit, ShutdownInv, SweepIsNotCut
<1>2. ShutdownInv /\ [ShutdownNext]_shutvars => ShutdownInv'
  <2> SUFFICES ASSUME ShutdownInv, [ShutdownNext]_shutvars PROVE ShutdownInv' OBVIOUS
  <2>1. CASE UNCHANGED shutvars
    <3>1. ShutdownTypeOK' /\ StopsInOrder' /\ cut' = cut
      BY <2>1 DEF shutvars, ShutdownInv, ShutdownTypeOK, StopsInOrder, Nobody
    <3> QED BY <3>1, UncutKeeps
  <2>2. ASSUME NEW s \in SweptSessions, SessionStep(s) PROVE ShutdownInv'
    BY <2>2, EndingKeeps, SweepKeeps DEF SessionStep
  <2>3. ASSUME NEW s \in SweptSessions, UserAsks(s) \/ HelloSchedules(s) PROVE ShutdownInv'
    <3>1. "user" \in Enders BY DEF Enders
    <3> QED BY <2>3, <3>1, EndingKeeps
  <2>4. ASSUME NEW s \in SweptSessions, NEW k \in Enders, Fails(k, s) PROVE ShutdownInv'
    BY <2>4, EndingKeeps
  <2>5. ASSUME NEW s \in SweptSessions, SweepDecides(s) PROVE ShutdownInv'
    BY <2>5, SweepKeeps
  <2> QED BY <2>1, <2>2, <2>3, <2>4, <2>5, SurroundingsKeep, ServerStopsKeeps, CloseKeeps
          DEF ShutdownNext
<1> QED BY <1>1, <1>2, PTL DEF ShutdownSpec

=============================================================================
