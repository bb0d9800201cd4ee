----------------------------- MODULE MCSessions -----------------------------
(***************************************************************************)
(* Sessions against their executor, and the sessions that are being ended  *)
(* when Control stops.  The two share no variable: a behaviour runs one of *)
(* them, chosen at the start, and the other rests in its initial state.    *)
(***************************************************************************)
EXTENDS ControlSessions, ControlShutdown

VARIABLE part  \* the component that runs

MCSessionsInit == part \in {"sessions", "shutdown"} /\ Init /\ ShutdownInit

MCSessionsNext ==
    /\ UNCHANGED part
    /\ \/ part = "sessions" /\ Next /\ UNCHANGED shutvars
       \/ part = "shutdown" /\ ShutdownNext /\ UNCHANGED vars

\* The fairness of each component, while it runs.
MCSessionsFairness ==
    LET Living == part = "sessions"
        Closing == part = "shutdown"
    IN /\ \A s \in Sessions :
            /\ WF_vars(Living /\ Continue(s)) /\ WF_vars(Living /\ Watchdog(s))
            /\ \A kind \in {"continue", "only if creating"} :
                 WF_vars(Living /\ ContinueTermination(s, kind))
            /\ WF_vars(Living /\ Offer(s, TRUE)) /\ WF_vars(Living /\ Answer(s))
            /\ WF_vars(Living /\ Serve(s)) /\ WF_vars(Living /\ Execute(s, "absent"))
       /\ SF_vars(Living /\ Reconnects) /\ WF_vars(Living /\ SendHello)
       /\ WF_vars(Living /\ ProcessHello) /\ WF_vars(Living /\ Heartbeat)
       /\ WF_shutvars(Closing /\ ServerStops) /\ WF_shutvars(Closing /\ CloseStep)
       /\ WF_shutvars(Closing /\ SweepRests)
       /\ \A s \in SweptSessions : WF_shutvars(Closing /\ SessionStep(s))

SessionsSpec ==
    /\ MCSessionsInit /\ [][MCSessionsNext]_<<part, vars, shutvars>>
    /\ MCSessionsFairness
=============================================================================
