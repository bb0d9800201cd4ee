---------------------------- MODULE MCAdmission ----------------------------
(***************************************************************************)
(* Sessions that compete for a place, and sessions that attach to a task   *)
(* and leave it.  Control keeps the two in different records and locks; a  *)
(* behaviour runs one of them, chosen at the start, and the other rests in *)
(* its initial state.                                                      *)
(***************************************************************************)
EXTENDS ControlSessions, TaskState, TLC

VARIABLE part  \* the component that runs

AdmissionInit == part \in {"sessions", "tasks"} /\ Init /\ TaskInit

AdmissionNext ==
    /\ UNCHANGED part
    /\ \/ part = "sessions" /\ Next /\ UNCHANGED taskvars
       \/ part = "tasks" /\ TaskNext /\ UNCHANGED vars

AdmissionSpec == AdmissionInit /\ [][AdmissionNext]_<<part, vars, taskvars>>

\* Sessions and their rows are the same model values.
Symmetry == Permutations(Sessions) \cup Permutations(Hosts)

(* While sessions are admitted, those that are not ended stay within their limit;
   while sessions attach to a task, its attachments are never undercounted and its
   continuations stay within theirs.  (start_session, validate_continuation)            *)
AdmissionInv == CapacityBounded /\ TaskInv
=============================================================================
