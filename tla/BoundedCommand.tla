--------------------------- MODULE BoundedCommand ---------------------------
(***************************************************************************)
(* A shell command with a time limit on Linux: the call that starts it,    *)
(* limits it and gives up; the runner process between the two, which       *)
(* adopts whatever the command leaves behind and removes it before it      *)
(* answers; and the command's processes, which fork, leave their process   *)
(* group, orphan their children and exit whenever they like.  The runner   *)
(* sees them only by reading /proc one process after the other.            *)
(***************************************************************************)
EXTENDS Naturals, FiniteSets

CONSTANTS
    Procs,  \* bound: the processes the command may have, each identity used once
    Root    \* the shell

ASSUME RootAssumption ==
    IsFiniteSet(Procs) /\ Root \in Procs /\ "runner" \notin Procs /\ "init" \notin Procs

VARIABLES
    proc,       \* of each process: unborn, alive, zombie or gone
    parent,     \* its parent: a process, the runner or init
    group,      \* the processes in the shell's process group
    listing,    \* what the host offers: "children" files or only "status" files
    runner,     \* how far the runner is
    told,       \* a termination signal has reached its handler
    answer,     \* how it is going to exit
    groupClean, \* what it found about the process group
    scan,       \* the reading of /proc under way: why, and how far it is
    shellCall,  \* how far run_shell is
    ender,      \* its attempt to terminate the runner
    slot,       \* it holds one of max_concurrent_commands
    twice       \* history: it was cancelled while it terminated the runner

treevars == <<proc, parent, group>>
runnervars == <<runner, told, answer, groupClean, scan>>
callvars == <<shellCall, ender, slot, twice>>
boundedvars == <<treevars, listing, runnervars, callvars>>

Living == {p \in Procs : proc[p] = "alive"}
Zombies == {p \in Procs : proc[p] = "zombie"}
Present == Living \cup Zombies
ChildrenOf(x) == {p \in Present : parent[p] = x}
Exited == {"exited", "killed"}
RunnerLives == runner \notin Exited \cup {"absent"}
NoScan == [why |-> "none", todo |-> {}, seen |-> [p \in {} |-> Root], again |-> FALSE]

BoundedInit ==
    /\ proc = [p \in Procs |-> "unborn"] /\ parent = [p \in Procs |-> "init"]
    /\ group = {} /\ listing \in {"children", "status"}
    /\ runner = "absent" /\ told = FALSE /\ answer = "none" /\ groupClean = FALSE
    /\ scan = NoScan
    /\ shellCall = "queued" /\ ender = "none" /\ slot = FALSE /\ twice = FALSE

-----------------------------------------------------------------------------
(* Processes.  Whoever exits is a zombie until its parent waits for it; its *)
(* children go to the runner, which is their subreaper, or to init, which   *)
(* waits for whatever it gets.                                              *)

Exits(dead, heir) ==
    LET moved == [p \in Procs |-> IF parent[p] \in dead THEN heir ELSE parent[p]]
    IN /\ parent' = moved
       /\ proc' = [p \in Procs |->
                     IF p \notin dead \cup Zombies THEN proc[p]
                     ELSE IF moved[p] = "init" THEN "gone" ELSE "zombie"]

Heir == IF RunnerLives THEN "runner" ELSE "init"
Waited(S) == proc' = [p \in Procs |-> IF p \in S THEN "gone" ELSE proc[p]]

Fork(p, child) ==
    /\ p \in Living /\ proc[child] = "unborn"
    /\ proc' = [proc EXCEPT ![child] = "alive"]
    /\ parent' = [parent EXCEPT ![child] = p]
    /\ group' = IF p \in group THEN group \cup {child} ELSE group

LeavesGroup(p) ==
    /\ p \in Living \cap group /\ p # Root
    /\ group' = group \ {p} /\ UNCHANGED <<proc, parent>>

ProcessEnds(p) == p \in Living /\ Exits({p}, Heir) /\ UNCHANGED group
Waits(p) == p \in Zombies /\ parent[p] \in Living /\ Waited({p}) /\ UNCHANGED <<parent, group>>

ProcessStep ==
    /\ \E p \in Procs :
          ProcessEnds(p) \/ Waits(p) \/ LeavesGroup(p) \/ \E q \in Procs : Fork(p, q)
    /\ UNCHANGED <<listing, runnervars, callvars>>

-----------------------------------------------------------------------------
(* The runner: start and watch                                             *)

RunnerIsAlone == UNCHANGED <<listing, callvars>>
Reapable == ChildrenOf("runner") \cap Zombies
\* The runner exits on its own.
Leave(code) == runner' = "exited" /\ answer' = code /\ Exits({"runner"}, "init")
               /\ scan' = NoScan /\ UNCHANGED <<group, told, groupClean>>

\* Subreaper mode, a first look at /proc, then the handlers.
Boots ==
    /\ runner = "booting"
    /\ \/ runner' = "ready" /\ UNCHANGED <<treevars, told, answer, groupClean, scan>>
       \/ Leave("unclean")
    /\ RunnerIsAlone

Launches ==
    /\ runner = "ready"
    /\ \/ /\ runner' = "watching" /\ proc' = [proc EXCEPT ![Root] = "alive"]
          /\ parent' = [parent EXCEPT ![Root] = "runner"] /\ group' = {Root}
          /\ UNCHANGED <<told, answer, groupClean, scan>>
       \/ Leave("noShell")
    /\ RunnerIsAlone

\* The shell has exited and been waited for, or a signal was noted.
StopsWatching ==
    /\ runner = "watching" /\ (told \/ Root \in Zombies)
    /\ Waited({Root} \cap Zombies) /\ UNCHANGED <<parent, group>>
    /\ runner' = "group" /\ answer' = IF told THEN "mirror" ELSE "code"
    /\ UNCHANGED <<told, groupClean, scan>> /\ RunnerIsAlone

-----------------------------------------------------------------------------
(* Reading /proc: children files from the runner downwards, or the parent   *)
(* named by every process that existed when the directory was read.         *)

\* What a listing that starts now will read, when those of gone were just waited for.
Listed(gone) == (IF listing = "children" THEN ChildrenOf("runner") ELSE Present) \ gone
StartScan(why, gone) ==
    /\ runner' = "scan"
    /\ scan' = [why |-> why, todo |-> Listed(gone), seen |-> NoScan.seen, again |-> FALSE]

\* The processes a listing places under the runner.
Placed(seen) ==
    LET under[n \in 0 .. Cardinality(Procs)] ==
          IF n = 0 THEN {p \in DOMAIN seen : seen[p] = "runner"}
          ELSE under[n - 1] \cup {p \in DOMAIN seen : seen[p] \in under[n - 1]}
    IN under[Cardinality(Procs)]

Found == Placed(scan.seen)

\* The next process is read; one that is gone by now is as good as childless.
Reads(p) ==
    /\ runner = "scan" /\ p \in scan.todo
    /\ LET note == IF listing = "children" THEN [q \in {p} |-> "runner"]
                   ELSE [q \in {p} \cap Present |-> parent[p]]
           next == IF listing = "children" THEN ChildrenOf(p) \ DOMAIN scan.seen ELSE {}
           known == DOMAIN scan.seen \cup DOMAIN note
       IN scan' = [scan EXCEPT !.todo = (@ \ {p}) \cup next,
                               !.seen = [q \in known |-> IF q \in DOMAIN note THEN note[q]
                                                         ELSE scan.seen[q]]]
    /\ UNCHANGED <<treevars, runner, told, answer, groupClean>> /\ RunnerIsAlone

Scanned == runner = "scan" /\ scan.todo = {}
\* An empty listing of status files is not believed before it is repeated.
Repeats ==
    /\ Scanned /\ Found = {} /\ listing = "status" /\ ~scan.again
    /\ scan' = [scan EXCEPT !.todo = Present, !.seen = NoScan.seen, !.again = TRUE]
    /\ UNCHANGED <<treevars, runner, told, answer, groupClean>> /\ RunnerIsAlone

Concluded == Scanned /\ (Found # {} \/ listing = "children" \/ scan.again)

-----------------------------------------------------------------------------
(* The runner: cleaning up.  SIGTERM is a request: a process may exit on it, *)
(* or at any other time.  SIGKILL reaches all of a group at once, but what   *)
(* a listing found is killed one process after the other.                    *)

\* _reap_children, then another listing.
ReapAndScan(why) == Waited(Reapable) /\ UNCHANGED <<parent, group>> /\ StartScan(why, Reapable)
GroupIsGone == group \cap Present \subseteq Reapable

GroupStarts ==
    /\ runner = "group" /\ UNCHANGED treevars
    /\ \/ group \cap Present = {} /\ groupClean' = TRUE /\ StartScan("look", {})
       \/ group \cap Present # {} /\ runner' = "groupTerm" /\ UNCHANGED <<groupClean, scan>>
    /\ UNCHANGED <<told, answer>> /\ RunnerIsAlone

GroupGone ==
    /\ runner \in {"groupTerm", "groupKill"} /\ GroupIsGone
    /\ groupClean' = TRUE /\ ReapAndScan("look")
    /\ UNCHANGED <<told, answer>> /\ RunnerIsAlone

GroupTimesOut ==
    /\ \/ /\ runner = "groupTerm" /\ runner' = "groupKill"
          /\ Exits(group \cap Living, Heir) /\ UNCHANGED <<group, scan>>
       \/ runner = "groupKill" /\ ~GroupIsGone /\ ReapAndScan("look")
    /\ UNCHANGED <<told, answer, groupClean>> /\ RunnerIsAlone

Concludes(clean) == runner' = "verdict"
                    /\ scan' = [NoScan EXCEPT !.why = IF clean THEN "clean" ELSE "unclean"]

NothingFound ==
    /\ Concluded /\ Found = {} /\ scan.why # "sweep" /\ Concludes(TRUE)
    /\ UNCHANGED <<treevars, told, answer, groupClean>> /\ RunnerIsAlone

\* Whatever is found is asked to terminate, and waited for.
SomethingFound ==
    /\ Concluded /\ Found # {} /\ scan.why # "sweep"
    /\ ReapAndScan(IF scan.why = "look" THEN "term" ELSE scan.why)
    /\ UNCHANGED <<told, answer, groupClean>> /\ RunnerIsAlone

TreeTimesOut ==
    /\ Concluded /\ Found # {} /\ UNCHANGED treevars
    /\ \/ scan.why = "term" /\ StartScan("sweep", {})
       \/ scan.why = "kill" /\ Concludes(FALSE)
    /\ UNCHANGED <<told, answer, groupClean>> /\ RunnerIsAlone

SweepEnds ==
    /\ Concluded /\ scan.why = "sweep"
    /\ runner' = "kill" /\ scan' = [scan EXCEPT !.todo = Found]
    /\ UNCHANGED <<treevars, told, answer, groupClean>> /\ RunnerIsAlone

Kills(p) ==
    /\ runner = "kill" /\ p \in scan.todo
    /\ Exits({p} \cap Living, Heir) /\ UNCHANGED group
    /\ scan' = [scan EXCEPT !.todo = @ \ {p}]
    /\ UNCHANGED <<runner, told, answer, groupClean>> /\ RunnerIsAlone

KillsEnd ==
    /\ runner = "kill" /\ scan.todo = {} /\ ReapAndScan("kill")
    /\ UNCHANGED <<told, answer, groupClean>> /\ RunnerIsAlone

\* A file of /proc cannot be read, or a process may not be signalled.
ScanFails ==
    /\ runner = "scan" /\ UNCHANGED treevars
    /\ \/ scan.why = "term" /\ StartScan("sweep", {})
       \/ scan.why # "term" /\ Concludes(FALSE)
    /\ UNCHANGED <<told, answer, groupClean>> /\ RunnerIsAlone

\* Variant: the process group is all that is cleaned.
Judges_GroupOnly ==
    /\ runner = "verdict"
    /\ Leave(IF groupClean \/ GroupIsGone THEN answer ELSE "unclean") /\ RunnerIsAlone

\* The group gets a second chance once its members may have been adopted.
Judges ==
    /\ runner = "verdict"
    /\ Leave(IF scan.why = "clean" /\ (groupClean \/ GroupIsGone) THEN answer ELSE "unclean")
    /\ RunnerIsAlone

-----------------------------------------------------------------------------
(* run_shell                                                               *)

\* Variant: a signal that comes before there is a shell is overlooked.
Terminates_Early ==
    /\ \/ runner = "booting" /\ Leave("mirror")
       \/ /\ runner # "booting"
          /\ told' = (told \/ runner \notin {"absent", "ready"} \cup Exited)
          /\ UNCHANGED <<treevars, runner, answer, groupClean, scan>>

\* SIGTERM to the runner's own group: its end before the handlers, noted after.
Terminates ==
    /\ \/ runner = "booting" /\ Leave("mirror")
       \/ /\ runner # "booting" /\ told' = (told \/ RunnerLives)
          /\ UNCHANGED <<treevars, runner, answer, groupClean, scan>>

\* SIGKILL to the runner: its adopted children go to init.
KillsRunner ==
    \/ /\ RunnerLives /\ runner' = "killed" /\ Exits({"runner"}, "init") /\ scan' = NoScan
       /\ UNCHANGED <<group, told, answer, groupClean>>
    \/ ~RunnerLives /\ UNCHANGED <<treevars, runnervars>>

CallOnly == UNCHANGED <<treevars, listing, runnervars>>
CallEnds == shellCall' = "over" /\ slot' = FALSE

Acquires == shellCall = "queued" /\ shellCall' = "spawning" /\ slot' = TRUE
            /\ UNCHANGED <<ender, twice>> /\ CallOnly

\* The limit or a cancellation comes while the call waits for a slot.
GivesUpQueue == shellCall = "queued" /\ CallEnds /\ UNCHANGED <<ender, twice>> /\ CallOnly

StartsRunner ==
    /\ shellCall = "spawning" /\ runner = "absent" /\ runner' = "booting"
    /\ UNCHANGED <<treevars, listing, told, answer, groupClean, scan, callvars>>

HasRunner ==
    /\ shellCall = "spawning" /\ runner # "absent" /\ shellCall' = "waiting"
    /\ UNCHANGED <<ender, slot, twice>> /\ CallOnly

\* create_subprocess_exec is interrupted: asyncio kills what it has started.
GivesUpStart ==
    /\ shellCall = "spawning" /\ KillsRunner /\ CallEnds
    /\ UNCHANGED <<listing, ender, twice>>

Answers ==
    /\ shellCall = "waiting" /\ runner \in Exited /\ CallEnds
    /\ UNCHANGED <<ender, twice>> /\ CallOnly

\* The limit, or the caller's cancellation, which shields the termination.
Interrupts(how) ==
    /\ shellCall = "waiting" /\ shellCall' = how /\ ender' = "term" /\ Terminates
    /\ UNCHANGED <<listing, slot, twice>>

Escalates ==
    /\ ender = "term" /\ RunnerLives /\ ender' = "kill" /\ KillsRunner
    /\ UNCHANGED <<listing, shellCall, slot, twice>>

EnderReturns ==
    /\ ender \in {"term", "kill"} /\ runner \in Exited /\ ender' = "over"
    /\ UNCHANGED <<shellCall, slot, twice>> /\ CallOnly

Returns ==
    /\ shellCall \in {"timedOut", "cancelled"} /\ ender = "over" /\ CallEnds
    /\ UNCHANGED <<ender, twice>> /\ CallOnly

\* A cancellation during the termination: only a shielded one goes on.
CancelledAgain ==
    /\ shellCall \in {"timedOut", "cancelled"} /\ CallEnds /\ twice' = TRUE
    /\ ender' = IF shellCall = "timedOut" THEN "over" ELSE ender
    /\ CallOnly

-----------------------------------------------------------------------------
RunnerTimesOut == GroupTimesOut \/ TreeTimesOut
RunnerStep ==
    \/ Boots \/ Launches \/ StopsWatching \/ GroupStarts \/ GroupGone
    \/ Repeats \/ ScanFails \/ NothingFound \/ SomethingFound \/ SweepEnds \/ KillsEnd
    \/ Judges
    \/ \E p \in Procs : Reads(p) \/ Kills(p)
RunShellStep ==
    \/ Acquires \/ StartsRunner \/ HasRunner \/ Answers \/ Interrupts("timedOut")
    \/ Escalates \/ EnderReturns \/ Returns
Caller == GivesUpQueue \/ GivesUpStart \/ Interrupts("cancelled") \/ CancelledAgain

BoundedNext == ProcessStep \/ RunnerStep \/ RunnerTimesOut \/ RunShellStep \/ Caller
BoundedSpec == BoundedInit /\ [][BoundedNext]_boundedvars

-----------------------------------------------------------------------------
(* Properties                                                              *)

BoundedTypeOK ==
    /\ proc \in [Procs -> {"unborn", "alive", "zombie", "gone"}]
    /\ parent \in [Procs -> Procs \cup {"runner", "init"}] /\ group \subseteq Procs
    /\ answer \in {"none", "code", "mirror", "unclean", "noShell"}
    /\ shellCall \in {"queued", "spawning", "waiting", "timedOut", "cancelled", "over"}

(* A runner that exits with the command's code, or by the signal it was sent, leaves
   no process of the command, whichever forked, left its group or was orphaned while
   /proc was read.  ("guarantee that surviving descendants are removed",
   run_bounded_command)                                                          *)
CleanMeansGone ==
    runner = "exited" /\ answer \in {"code", "mirror"} => Present = {}

(* A command counts against the limit of concurrent commands for as long as its runner
   works, unless its call is cancelled again while it terminates it.  (run_shell)       *)
SlotCoversRunner == shellCall = "over" /\ RunnerLives => twice

BoundedInv == BoundedTypeOK /\ CleanMeansGone /\ SlotCoversRunner

(* Every call that gets its turn ends, and so does its runner, whatever the command's
   processes do and even if nobody is left to kill it.
   (run_shell, _cleanup_command_processes)                                       *)
CommandEnds == <>[](shellCall = "queued" \/ (shellCall = "over" /\ ~RunnerLives))
=============================================================================
