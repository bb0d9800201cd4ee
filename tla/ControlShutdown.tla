-------------------------- MODULE ControlShutdown ---------------------------
(***************************************************************************)
(* Control stops while sessions are being ended.  A session is ended under *)
(* its lock, with a call to its executor, by a user's request, by a task   *)
(* that a hello scheduled, or by the retention sweep, which looks at one   *)
(* session after the other.  The HTTP server stops first and takes the     *)
(* requests with it; then the runtime waits for the sweep and closes its   *)
(* services in order.                                                      *)
(***************************************************************************)
EXTENDS Naturals

CONSTANT SweptSessions  \* sessions, all active at first

VARIABLES
    server,     \* the HTTP server: "serving", "draining" or "stopped"
    stage,      \* how far ControlRuntime.aclose is
    sweeper,    \* the sweep task: "asleep", "passing" or "ended"
    todo,       \* the sessions its pass has yet to look at
    ending,     \* what each of the three does about each session
    status,     \* the sessions' rows
    reachable,  \* the executor was heard of within offline_after_s
    command,    \* the command of the lock's holder
    cut         \* history: who was cut off from an executor that had the command

shutvars == <<server, stage, sweeper, todo, ending, status, reachable, command, cut>>

Enders == {"user", "hello", "sweep"}
Stages == {"open", "sweep", "jobs", "sessions", "transport", "closed"}

\* The holder of a session's lock looks the session up, stops its managed jobs and
\* calls the executor.
Inside == {"looking", "stopping", "calling"}
LockFree(s) == \A k \in Enders : ending[k][s] \notin Inside
Nobody == [s \in SweptSessions |-> "idle"]

ShutdownInit ==
    /\ server = "serving" /\ stage = "open" /\ sweeper = "asleep" /\ todo = {}
    /\ ending = [k \in Enders |-> Nobody]
    /\ status = [s \in SweptSessions |-> "active"]
    /\ reachable = TRUE /\ command = [s \in SweptSessions |-> "none"] /\ cut = {}

Turns(k, s, to) == ending' = [ending EXCEPT ![k][s] = to]
Marks(s, to) == status' = [status EXCEPT ![s] = to]
Sends(s, to) == command' = [command EXCEPT ![s] = to]

\* Where the transport takes a call, and until when.
Callable == reachable /\ stage # "closed"

-----------------------------------------------------------------------------
(* Ending a session                                                          *)

\* A user's request, and the task a hello schedules for a terminating session: they
\* wait for the lock.
UserAsks(s) ==
    /\ server = "serving" /\ ending["user"][s] = "idle" /\ status[s] # "ended"
    /\ Turns("user", s, "locking")
    /\ UNCHANGED <<server, stage, sweeper, todo, status, reachable, command, cut>>

HelloSchedules(s) ==
    /\ server = "serving" /\ ending["hello"][s] = "idle" /\ status[s] = "terminating"
    /\ Turns("hello", s, "locking")
    /\ UNCHANGED <<server, stage, sweeper, todo, status, reachable, command, cut>>

\* A hello without the session confirms its absence, without the lock.
HelloConfirms(s) ==
    /\ server = "serving" /\ status[s] = "terminating" /\ Marks(s, "ended")
    /\ UNCHANGED <<server, stage, sweeper, todo, ending, reachable, command, cut>>

\* _end_record_locked: the row is "terminating" before anything else happens.
Locks(k, s) ==
    /\ k # "sweep" /\ ending[k][s] = "locking" /\ LockFree(s)
    /\ IF status[s] = "ended" THEN Turns(k, s, "idle") /\ UNCHANGED status
       ELSE Turns(k, s, "stopping") /\ Marks(s, "terminating")
    /\ UNCHANGED <<server, stage, sweeper, todo, reachable, command, cut>>

\* The transport did not reach the executor: a user may have asked to end the session
\* all the same.
GivesUp(k, s) == UNCHANGED status \/ (k = "user" /\ Marks(s, "ended"))

\* The managed jobs are stopped, and the executor is called, without a time limit.
Calls(k, s) ==
    /\ ending[k][s] = "stopping"
    /\ IF Callable THEN Turns(k, s, "calling") /\ Sends(s, "queued") /\ UNCHANGED status
                   ELSE Turns(k, s, "idle") /\ UNCHANGED command /\ GivesUp(k, s)
    /\ UNCHANGED <<server, stage, sweeper, todo, reachable, cut>>

\* The executor could not do it, or the jobs could not be stopped.
Fails(k, s) ==
    /\ \/ ending[k][s] = "stopping" /\ UNCHANGED status
       \/ ending[k][s] = "calling" /\ command[s] = "answered" /\ UNCHANGED status
       \/ ending[k][s] = "calling" /\ command[s] = "interrupted" /\ GivesUp(k, s)
    /\ Turns(k, s, "idle") /\ Sends(s, "none")
    /\ UNCHANGED <<server, stage, sweeper, todo, reachable, cut>>

Ended(k, s) ==
    /\ ending[k][s] = "calling" /\ command[s] = "answered"
    /\ Turns(k, s, "idle") /\ Sends(s, "none") /\ Marks(s, "ended")
    /\ UNCHANGED <<server, stage, sweeper, todo, reachable, cut>>

-----------------------------------------------------------------------------
(* The retention sweep                                                       *)

SweepWakes ==
    /\ sweeper = "asleep" /\ stage = "open"
    /\ sweeper' = "passing" /\ todo' = {s \in SweptSessions : status[s] = "active"}
    /\ UNCHANGED <<server, stage, ending, status, reachable, command, cut>>

\* The next session: a lookup may already show that it is not to be ended.
SweepTakes(s) ==
    /\ sweeper = "passing" /\ ending["sweep"] = Nobody /\ s \in todo
    /\ todo' = todo \ {s}
    /\ \/ Turns("sweep", s, "locking")
       \/ UNCHANGED ending
    /\ UNCHANGED <<server, stage, sweeper, status, reachable, command, cut>>

\* _auto_end_if_eligible: nothing to do, or a lookup, or a session that has been
\* missing for long on an executor that is reachable.
SweepLocks(s) ==
    /\ ending["sweep"][s] = "locking" /\ LockFree(s)
    /\ \/ Turns("sweep", s, "idle") /\ UNCHANGED <<status, command>>
       \/ /\ status[s] = "active" /\ Callable
          /\ \/ Turns("sweep", s, "looking") /\ Sends(s, "queued") /\ UNCHANGED status
             \/ Turns("sweep", s, "stopping") /\ Marks(s, "terminating") /\ UNCHANGED command
    /\ UNCHANGED <<server, stage, sweeper, todo, reachable, cut>>

\* The executor has answered: the session is old enough, ...
SweepDecides(s) ==
    /\ ending["sweep"][s] = "looking" /\ command[s] = "answered"
    /\ Turns("sweep", s, "stopping") /\ Marks(s, "terminating") /\ Sends(s, "none")
    /\ UNCHANGED <<server, stage, sweeper, todo, reachable, cut>>

\* Variant: the lookup waits for its answer.
SweepSpares_Waits(s) ==
    /\ ending["sweep"][s] = "looking" /\ command[s] \in {"answered", "interrupted"}
    /\ Turns("sweep", s, "idle") /\ Sends(s, "none")
    /\ UNCHANGED <<server, stage, sweeper, todo, status, reachable, cut>>

\* ... or it is not, or the answer does not come within _LOOKUP_TIMEOUT_S.
SweepSpares(s) ==
    /\ ending["sweep"][s] = "looking"
    /\ Turns("sweep", s, "idle") /\ Sends(s, "none")
    /\ UNCHANGED <<server, stage, sweeper, todo, status, reachable, cut>>

\* The pass is over; a cancelled task ends with it.
SweepRests ==
    /\ sweeper = "passing" /\ ending["sweep"] = Nobody /\ todo = {}
    /\ sweeper' = IF stage = "open" THEN "asleep" ELSE "ended"
    /\ UNCHANGED <<server, stage, todo, ending, status, reachable, command, cut>>

-----------------------------------------------------------------------------
(* The executor and the server                                               *)

Offers(s) ==
    /\ server # "stopped" /\ command[s] = "queued" /\ Sends(s, "offered")
    /\ UNCHANGED <<server, stage, sweeper, todo, ending, status, reachable, cut>>

\* submit_result, by a request that was under way when the server began to stop.
Answers(s) ==
    /\ server # "stopped" /\ command[s] = "offered" /\ Sends(s, "answered")
    /\ UNCHANGED <<server, stage, sweeper, todo, ending, status, reachable, cut>>

\* Waiting callers are told that there will be no answer.
Interrupts ==
    command' = [s \in SweptSessions |->
                  IF command[s] \in {"queued", "offered"} THEN "interrupted" ELSE command[s]]

\* The owner revokes the executor.
Fences ==
    /\ server = "serving" /\ Interrupts
    /\ UNCHANGED <<server, stage, sweeper, todo, ending, status, reachable, cut>>

Heard ==
    /\ server # "stopped" /\ ~reachable /\ reachable' = TRUE
    /\ UNCHANGED <<server, stage, sweeper, todo, ending, status, command, cut>>

Unheard ==
    /\ reachable /\ reachable' = FALSE
    /\ UNCHANGED <<server, stage, sweeper, todo, ending, status, command, cut>>

\* uvicorn takes no new requests, ...
ServerDrains ==
    /\ server = "serving" /\ server' = "draining"
    /\ UNCHANGED <<stage, sweeper, todo, ending, status, reachable, command, cut>>

\* A call whose caller has not been told how it ended.
Waiting(k, s) == ending[k][s] = "calling" /\ command[s] # "interrupted"

\* Tasks that are cancelled leave their locks, and abandon their commands.
Cancels(k) ==
    /\ ending' = [ending EXCEPT ![k] = Nobody]
    /\ command' = [s \in SweptSessions |->
                     IF ending[k][s] \in Inside THEN "none" ELSE command[s]]
    /\ cut' = cut \cup ({k} \X {s \in SweptSessions : Waiting(k, s) /\ command[s] # "queued"})

\* ... and after timeout_graceful_shutdown cancels those that are left.
ServerStops ==
    /\ server = "draining" /\ server' = "stopped" /\ Cancels("user")
    /\ UNCHANGED <<stage, sweeper, todo, status, reachable>>

-----------------------------------------------------------------------------
(* ControlRuntime.aclose                                                     *)

\* Variant: the pass is cancelled with the task that started it.
CloseBegins_CancelsPass ==
    /\ server = "stopped" /\ stage = "open" /\ stage' = "sweep"
    /\ sweeper' = "ended" /\ Cancels("sweep")
    /\ UNCHANGED <<server, todo, status, reachable>>

\* The sweep task is cancelled: it ends at once if it is asleep, and waits for the
\* pass it has started otherwise.
CloseBegins ==
    /\ server = "stopped" /\ stage = "open" /\ stage' = "sweep"
    /\ sweeper' = IF sweeper = "asleep" THEN "ended" ELSE sweeper
    /\ UNCHANGED <<server, todo, ending, status, reachable, command, cut>>

SweepJoined ==
    /\ stage = "sweep" /\ sweeper = "ended" /\ stage' = "jobs"
    /\ UNCHANGED <<server, sweeper, todo, ending, status, reachable, command, cut>>

\* Managed jobs, streams, copies, capabilities and pairing: nothing of theirs is
\* waited for without limit.
ServicesClose ==
    /\ stage = "jobs" /\ stage' = "sessions"
    /\ UNCHANGED <<server, sweeper, todo, ending, status, reachable, command, cut>>

\* ControlSessionCoordinator.aclose cancels what hellos have scheduled.
SessionsClose ==
    /\ stage = "sessions" /\ stage' = "transport" /\ Cancels("hello")
    /\ UNCHANGED <<server, sweeper, todo, status, reachable>>

\* ExecutorTransport.aclose interrupts the callers that are left.
TransportCloses ==
    /\ stage = "transport" /\ stage' = "closed" /\ Interrupts
    /\ cut' = cut \cup {ks \in Enders \X SweptSessions :
                            ending[ks[1]][ks[2]] = "calling" /\ command[ks[2]] = "offered"}
    /\ UNCHANGED <<server, sweeper, todo, ending, status, reachable>>

CloseStep == CloseBegins \/ SweepJoined \/ ServicesClose \/ SessionsClose \/ TransportCloses

\* What the event loop and its timers bring about: neither commands nor answers.
SessionStep(s) ==
    \/ \E k \in Enders : \/ Locks(k, s) \/ Calls(k, s) \/ Ended(k, s)
                         \/ command[s] = "interrupted" /\ Fails(k, s)
    \/ SweepTakes(s) \/ SweepLocks(s) \/ SweepSpares(s)

ShutdownNext ==
    \/ \E s \in SweptSessions :
          \/ UserAsks(s) \/ HelloSchedules(s) \/ HelloConfirms(s) \/ SweepDecides(s)
          \/ Offers(s) \/ Answers(s) \/ SessionStep(s)
          \/ \E k \in Enders : Fails(k, s)
    \/ SweepWakes \/ SweepRests \/ Fences \/ Heard \/ Unheard
    \/ ServerDrains \/ ServerStops \/ CloseStep

ShutdownSpec == ShutdownInit /\ [][ShutdownNext]_shutvars

-----------------------------------------------------------------------------
(* Properties                                                                *)

ShutdownTypeOK ==
    /\ server \in {"serving", "draining", "stopped"} /\ stage \in Stages
    /\ sweeper \in {"asleep", "passing", "ended"} /\ todo \subseteq SweptSessions
    /\ ending \in [Enders -> [SweptSessions -> {"idle", "locking"} \cup Inside]]
    /\ status \in [SweptSessions -> {"active", "terminating", "ended"}]
    /\ reachable \in BOOLEAN /\ cut \subseteq Enders \X SweptSessions
    /\ command \in [SweptSessions -> {"none", "queued", "offered", "answered", "interrupted"}]

\* The pass of the sweep is never cut off from a termination the executor has: "Finish
\* any in-flight session termination before closing transport".
SweepIsNotCut == \A s \in SweptSessions : <<"sweep", s>> \notin cut

\* What has stopped stays stopped, and takes what it owns with it.
StopsInOrder ==
    /\ sweeper # "passing" => todo = {} /\ ending["sweep"] = Nobody
    /\ server = "stopped" => ending["user"] = Nobody
    /\ stage # "open" => server = "stopped"
    /\ stage \notin {"open", "sweep"} => sweeper = "ended"
    /\ stage \in {"transport", "closed"} => ending["hello"] = Nobody

\* Nobody is left inside a closed runtime.
ClosedIsQuiet == stage = "closed" => todo = {} /\ \A k \in Enders : ending[k] = Nobody

\* Well-typed, and closing neither cuts the sweep nor leaves anybody behind.
ShutdownInv == ShutdownTypeOK /\ StopsInOrder /\ SweepIsNotCut /\ ClosedIsQuiet

\* The sweep waits for a termination that nobody can answer any more: its own, or that
\* of a hello's task, which has the lock and would be cancelled later.
Held ==
    /\ stage = "sweep"
    /\ \E s \in SweptSessions :
          /\ ending["sweep"][s] # "idle" /\ command[s] \in {"queued", "offered"}
          /\ \E k \in {"hello", "sweep"} : ending[k][s] = "calling"

\* What is asked to stop is closed in the end, unless the sweep is held.
CloseEnds == (server = "draining" ~> stage = "closed") \/ <>[]Held
=============================================================================
