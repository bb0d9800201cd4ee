------------------------ MODULE MCExecutorConnection ------------------------
(***************************************************************************)
(* Two parts of an Executor: its delivery loop, with three commands of one *)
(* session or transfer (two of them inventory mutations) and one that is   *)
(* not ordered; and its peer receiver, with the copy it is part of.  They  *)
(* share no variable: a behaviour runs one of them, chosen at the start,   *)
(* and the other rests in its initial state.                               *)
(***************************************************************************)
EXTENDS ExecutorConnection, PeerRoute

CONSTANTS c1, c2, c3, c4, k1

MCKeyOf == [c \in Cmds |-> IF c = c4 THEN NoKey ELSE k1]

VARIABLE part  \* the component that runs

ConnectionInit == part \in {"delivery", "peer"} /\ Init /\ PeerInit

ConnectionNext ==
    /\ UNCHANGED part
    /\ \/ part = "delivery" /\ Next /\ UNCHANGED peervars
       \/ part = "peer" /\ PeerNext /\ UNCHANGED vars

\* The fairness of each component, while it runs.
ConnectionFairness ==
    LET Delivering == part = "delivery"
        Receiving == part = "peer"
    IN /\ \A c \in Cmds :
            WF_vars(Delivering /\ (Unblock(c) \/ FinishExecution(c) \/ SubmitEnds(c)))
       /\ WF_vars(Delivering /\ Drained)
       /\ WF_peervars(Receiving /\ DestinationStep)
       /\ WF_peervars(Receiving /\ ReceiverStep)
       /\ WF_peervars(Receiving /\ (Joins \/ Settles))
       /\ WF_peervars(Receiving /\ (Expires \/ ExpiryLocks))

ConnectionSpec ==
    /\ ConnectionInit /\ [][ConnectionNext]_<<part, vars, peervars>>
    /\ ConnectionFairness
=============================================================================
