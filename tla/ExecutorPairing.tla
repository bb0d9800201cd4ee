-------------------------- MODULE ExecutorPairing --------------------------
(***************************************************************************)
(* Device-code pairing (src/src/workgate/control/pairing.py): bounded      *)
(* attempts, one owner decision each, delivery of the bearer by polling    *)
(* until it is proved, and the owner's revocation of an executor           *)
(* (src/src/workgate/control/executors.py), whose last step clears what is *)
(* not delivered yet.                                                      *)
(*                                                                         *)
(* Every operation holds the service's lock.  Only the approval of a       *)
(* replacement suspends while it holds it: the trust record is already     *)
(* replaced when replace_executor awaits the closing of terminal streams.  *)
(***************************************************************************)
EXTENDS Naturals, FiniteSets

CONSTANTS
  Devices,      \* device codes: each attempt gets a fresh one
  Executors,    \* executor ids
  Creds,        \* bearers: each approval issues a fresh one
  NoExecutor,
  NoCred,
  NoDevice,
  MaxAttempts   \* max_pending_attempts

ASSUME MaxAttemptsAssumption == MaxAttempts \in Nat \ {0}
ASSUME NoneAssumption ==
  NoExecutor \notin Executors /\ NoCred \notin Creds /\ NoDevice \notin Devices
ASSUME FiniteDevices == IsFiniteSet(Devices)

VARIABLES
  attempt,     \* _attempts
  trust,       \* the trust record of each executor
  approving,   \* the approval that holds the lock while streams are closed
  clearing,    \* executors whose revocation has yet to clear their delivery
  proving,     \* bearers authenticated by the transport, not yet seen here
  held,        \* the bearer each device has received
  issued,      \* history: for which device and executor a bearer was issued
  proved,      \* history: bearers whose proof was processed
  stale,       \* history: executors whose replacement was interrupted
  uncleared    \* history: executors whose revocation was interrupted

history == <<issued, proved, stale, uncleared>>
vars == <<attempt, trust, approving, clearing, proving, held, history>>

None == [state |-> "none", executor |-> NoExecutor, cred |-> NoCred]
Gone == [None EXCEPT !.state = "gone"]
Idle == [device |-> NoDevice, executor |-> NoExecutor, cred |-> NoCred]

Live == {d \in Devices : attempt[d].state \in {"pending", "denied", "approved"}}

TypeOK ==
  /\ attempt \in [Devices -> [state : {"none", "pending", "denied", "approved", "gone"},
                              executor : Executors \cup {NoExecutor},
                              cred : Creds \cup {NoCred}]]
  /\ trust \in [Executors -> [cred : Creds \cup {NoCred}, revoked : BOOLEAN]]
  /\ approving \in [device : Devices \cup {NoDevice},
                    executor : Executors \cup {NoExecutor}, cred : Creds \cup {NoCred}]
  /\ clearing \subseteq Executors
  /\ proving \subseteq Creds
  /\ held \in [Devices -> Creds \cup {NoCred}]
  /\ issued \in [Creds -> [device : Devices \cup {NoDevice},
                           executor : Executors \cup {NoExecutor}]]
  /\ proved \subseteq Creds
  /\ stale \subseteq Executors /\ uncleared \subseteq Executors

Init ==
  /\ attempt = [d \in Devices |-> None]
  /\ trust = [e \in Executors |-> [cred |-> NoCred, revoked |-> FALSE]]
  /\ approving = Idle
  /\ clearing = {}
  /\ proving = {}
  /\ held = [d \in Devices |-> NoCred]
  /\ issued = [c \in Creds |-> [device |-> NoDevice, executor |-> NoExecutor]]
  /\ proved = {}
  /\ stale = {} /\ uncleared = {}

----------------------------------------------------------------------------
(* Helpers *)

LockFree == approving = Idle

Fresh(c) == issued[c].device = NoDevice

Carries(d, e) == attempt[d].executor = e /\ attempt[d].cred # NoCred

\* Attempts in "gone" are removed with their secrets.
Without(gone) == [d \in Devices |-> IF d \in gone THEN Gone ELSE attempt[d]]

\* _drop_other_delivery_locked, then the decision is recorded.
Approved_KeepsOthers(d, e, c) ==   \* an older delivery survives
  [attempt EXCEPT ![d] = [state |-> "approved", executor |-> e, cred |-> c]]

Approved(d, e, c) ==
  [Without({x \in Devices : x # d /\ Carries(x, e)})
     EXCEPT ![d] = [state |-> "approved", executor |-> e, cred |-> c]]

----------------------------------------------------------------------------
(* Attempts and decisions *)

HasRoom == Cardinality(Live) < MaxAttempts

StartPairing(d) ==
  /\ LockFree
  /\ attempt[d].state = "none"
  /\ HasRoom
  /\ attempt' = [attempt EXCEPT ![d].state = "pending"]
  /\ UNCHANGED <<trust, approving, clearing, proving, held, history>>

\* Any operation prunes what has expired.
Expire(d) ==
  /\ LockFree
  /\ d \in Live
  /\ attempt' = Without({d})
  /\ UNCHANGED <<trust, approving, clearing, proving, held, history>>

Undecided_Mutant(d) == attempt[d].state \in {"pending", "denied"}   \* denial can be undone

Undecided(d) == attempt[d].state = "pending"

Deny(d) ==
  /\ LockFree
  /\ Undecided(d)
  /\ attempt' = [attempt EXCEPT ![d].state = "denied"]
  /\ UNCHANGED <<trust, approving, clearing, proving, held, history>>

ApproveNew(d, e, c) ==
  /\ LockFree
  /\ Undecided(d)
  /\ trust[e].cred = NoCred
  /\ Fresh(c)
  /\ trust' = [trust EXCEPT ![e].cred = c]
  /\ issued' = [issued EXCEPT ![c] = [device |-> d, executor |-> e]]
  /\ attempt' = Approved(d, e, c)
  /\ UNCHANGED <<approving, clearing, proving, held, proved, stale, uncleared>>

\* The record is durable and the transport fenced; the decision is not recorded
\* before the executor's streams are closed.
ApproveReplacement(d, e, c) ==
  /\ LockFree
  /\ Undecided(d)
  /\ trust[e].cred # NoCred
  /\ Fresh(c)
  /\ trust' = [trust EXCEPT ![e] = [cred |-> c, revoked |-> FALSE]]
  /\ issued' = [issued EXCEPT ![c] = [device |-> d, executor |-> e]]
  /\ approving' = [device |-> d, executor |-> e, cred |-> c]
  /\ UNCHANGED <<attempt, clearing, proving, held, proved, stale, uncleared>>

ReplacementApproved ==
  /\ ~LockFree
  /\ attempt' = Approved(approving.device, approving.executor, approving.cred)
  /\ stale' = stale \ {approving.executor}
  /\ approving' = Idle
  /\ UNCHANGED <<trust, clearing, proving, held, issued, proved, uncleared>>

\* The approving request is cancelled: the attempt stays undecided.
ReplacementInterrupted ==
  /\ ~LockFree
  /\ stale' = stale \cup {approving.executor}
  /\ approving' = Idle
  /\ UNCHANGED <<attempt, trust, clearing, proving, held, issued, proved, uncleared>>

----------------------------------------------------------------------------
(* Delivery *)

\* A poll neither consumes nor renews the bearer.
Poll(d) ==
  /\ LockFree
  /\ attempt[d].state = "approved"
  /\ attempt[d].cred # NoCred
  /\ held' = [held EXCEPT ![d] = attempt[d].cred]
  /\ UNCHANGED <<attempt, trust, approving, clearing, proving, history>>

\* The transport authenticates a bearer and calls complete_authenticated_proof.
Authenticate(d) ==
  /\ held[d] # NoCred
  /\ LET t == trust[issued[held[d]].executor] IN t.cred = held[d] /\ ~t.revoked
  /\ proving' = proving \cup {held[d]}
  /\ UNCHANGED <<attempt, trust, approving, clearing, held, history>>

CompleteProof(c) ==
  /\ LockFree
  /\ c \in proving
  /\ attempt' = Without({d \in Devices : attempt[d].cred = c})
  /\ proving' = proving \ {c}
  /\ proved' = proved \cup {c}
  /\ UNCHANGED <<trust, approving, clearing, held, issued, stale, uncleared>>

----------------------------------------------------------------------------
(* The owner revokes an executor; Control restarts *)

Revoke(e) ==
  /\ trust[e].cred # NoCred
  /\ trust' = [trust EXCEPT ![e].revoked = TRUE]
  /\ clearing' = clearing \cup {e}
  /\ UNCHANGED <<attempt, approving, proving, held, history>>

\* clear_executor_delivery: whatever the executor's attempts carry by now.
ClearDelivery(e) ==
  /\ LockFree
  /\ e \in clearing
  /\ attempt' = Without({d \in Devices : Carries(d, e)})
  /\ clearing' = clearing \ {e}
  /\ UNCHANGED <<trust, approving, proving, held, history>>

\* The revoking request is cancelled before it clears.
RevokeInterrupted(e) ==
  /\ e \in clearing
  /\ clearing' = clearing \ {e}
  /\ uncleared' = uncleared \cup {e}
  /\ UNCHANGED <<attempt, trust, approving, proving, held, issued, proved, stale>>

\* No attempt survives; trust does.
ControlRestarts ==
  /\ attempt' = [d \in Devices |-> IF d \in Live THEN Gone ELSE attempt[d]]
  /\ approving' = Idle
  /\ clearing' = {}
  /\ proving' = {}
  /\ stale' = {} /\ uncleared' = {}
  /\ UNCHANGED <<trust, held, issued, proved>>

----------------------------------------------------------------------------

DeviceStep(d) == StartPairing(d) \/ Poll(d) \/ Authenticate(d)

OwnerStep ==
  \/ \E d \in Devices :
       Deny(d) \/ \E e \in Executors, c \in Creds :
                     ApproveNew(d, e, c) \/ ApproveReplacement(d, e, c)
  \/ \E e \in Executors : Revoke(e)

ServiceStep ==
  \/ ReplacementApproved \/ ReplacementInterrupted \/ ControlRestarts
  \/ \E d \in Devices : Expire(d)
  \/ \E c \in Creds : CompleteProof(c)
  \/ \E e \in Executors : ClearDelivery(e) \/ RevokeInterrupted(e)

Next == OwnerStep \/ ServiceStep \/ \E d \in Devices : DeviceStep(d)

Spec == Init /\ [][Next]_vars

----------------------------------------------------------------------------
(* Properties *)

\* A device only ever receives a bearer that the owner approved for it, and one
\* bearer never reaches two devices.
HeldByItsDevice ==
  \A d \in Devices : held[d] # NoCred => issued[held[d]].device = d

\* max_pending_attempts bounds the attempts kept in memory, decided ones included.
AttemptsBounded == Cardinality(Live) <= MaxAttempts

\* What a device can still fetch is the executor's current bearer: an approval
\* withdraws every older delivery, unless it was interrupted after the trust record
\* was replaced.
DeliveryIsCurrent ==
  \A d \in Devices : attempt[d].cred # NoCred =>
    LET e == attempt[d].executor IN
      \/ attempt[d].cred = trust[e].cred
      \/ e = approving.executor \/ e \in stale

\* Once a revocation has run to its end, no device can fetch a bearer of that
\* executor, also when an approval was in progress while it was revoked.
RevokedIsNotDelivered ==
  \A e \in Executors, d \in Devices :
    trust[e].revoked /\ Carries(d, e) => e \in clearing \cup uncleared

\* The bearer of a finished proof is nowhere kept in plain text, and does not come
\* back, whatever approval was in progress.
ProvedIsErased ==
  \A c \in proved, d \in Devices : attempt[d].cred # c

\* Well-typed and bounded; each bearer is at its device or can still be fetched, and
\* neither a revoked nor a proved one can.
Inv == /\ TypeOK /\ HeldByItsDevice /\ AttemptsBounded
       /\ DeliveryIsCurrent /\ RevokedIsNotDelivered /\ ProvedIsErased

\* "Apply one authenticated owner approval/denial decision exactly once": a denied
\* attempt is never served, an approved one never changes hands.
DecisionIsFinal ==
  [][\A d \in Devices :
       /\ attempt[d].state = "denied" => attempt'[d].state \in {"denied", "gone"}
       /\ attempt[d].state = "approved" => attempt'[d] \in {attempt[d], Gone}]_vars
=============================================================================
