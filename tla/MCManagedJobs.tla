--------------------------- MODULE MCManagedJobs ---------------------------
(***************************************************************************)
(* What is started and has to end: a managed job of Control, a             *)
(* shell-backed job of an executor, and a shell command with a time limit. *)
(* They share no variable: a behaviour runs one of them, chosen at the     *)
(* start, and the others rest in their initial state.                      *)
(***************************************************************************)
EXTENDS ManagedJobs, ShellJobs, BoundedCommand

CONSTANT Parts  \* the kinds a run explores

VARIABLE part  \* the kind that runs

JobsInit ==
    /\ part \in Parts /\ Init /\ ShellInit /\ BoundedInit
    /\ part # "bounded" => listing = "children"

\* A command that is over may leave nothing to do.
CommandIsOver == shellCall = "over" /\ UNCHANGED boundedvars

JobsNext ==
    /\ UNCHANGED part
    /\ \/ part = "managed" /\ Next /\ UNCHANGED <<shellvars, boundedvars>>
       \/ part = "shell" /\ ShellNext /\ UNCHANGED <<vars, boundedvars>>
       \/ part = "bounded" /\ (BoundedNext \/ CommandIsOver) /\ UNCHANGED <<vars, shellvars>>

JobsSpec == JobsInit /\ [][JobsNext]_<<part, vars, shellvars, boundedvars>>

\* The fairness of each, while it runs.
JobsFairness ==
    LET Managed == part = "managed"
        Shell == part = "shell"
        Bounded == part = "bounded"
    IN /\ SF_vars(Managed /\ TaskStep)
       /\ WF_vars(Managed /\ WriterStep)
       /\ WF_vars(Managed /\ Observe)
       /\ \A x \in Calls : SF_vars(Managed /\ CallStep(x))
       /\ WF_shellvars(Shell /\ OperationStep)
       /\ SF_shellvars(Shell /\ Ask("look"))
       /\ SF_shellvars(Shell /\ SightedLook)
       /\ SF_shellvars(Shell /\ SightedCommit)
       /\ WF_boundedvars(Bounded /\ RunnerStep)
       /\ WF_boundedvars(Bounded /\ GroupTimesOut)
       /\ SF_boundedvars(Bounded /\ TreeTimesOut)
       /\ WF_boundedvars(Bounded /\ RunShellStep)

FairJobsSpec == JobsSpec /\ JobsFairness

(* Both kinds of job settle.  (reconcile_job)                                *)
JobsSettle == JobSettles /\ ShellJobSettles
=============================================================================
