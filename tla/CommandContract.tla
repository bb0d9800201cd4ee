-------------------------- MODULE CommandContract --------------------------
(***************************************************************************)
(* What Control promises of one remote command, with no mention of         *)
(* channels, polls, bearers or presence: a command is handed over at most  *)
(* once and never after its call gave up; a call returns a reply only if   *)
(* the command was answered after it was handed over; and a call whose     *)
(* command was answered or dropped ends.  ExecutorTransport implements it. *)
(***************************************************************************)
CONSTANT Cmds

VARIABLES
  phase,    \* where a command is: "new", "queued", "offered", "answered", "dropped"
  outcome   \* how its call ended: "none" so far, "reply" or "failure"

vars == <<phase, outcome>>

Live(c) == phase[c] \in {"queued", "offered"}

TypeOK ==
  /\ phase \in [Cmds -> {"new", "queued", "offered", "answered", "dropped"}]
  /\ outcome \in [Cmds -> {"none", "reply", "failure"}]

Init ==
  /\ phase = [c \in Cmds |-> "new"]
  /\ outcome = [c \in Cmds |-> "none"]

Submit(c) ==
  /\ phase[c] = "new"
  /\ phase' = [phase EXCEPT ![c] = "queued"]
  /\ UNCHANGED outcome

Offer(c) ==
  /\ phase[c] = "queued"
  /\ phase' = [phase EXCEPT ![c] = "offered"]
  /\ UNCHANGED outcome

Answer(c) ==
  /\ phase[c] = "offered"
  /\ phase' = [phase EXCEPT ![c] = "answered"]
  /\ UNCHANGED outcome

\* A fence drops any set of live commands at once.
Drop(S) ==
  /\ \A c \in S : Live(c)
  /\ phase' = [c \in Cmds |-> IF c \in S THEN "dropped" ELSE phase[c]]
  /\ UNCHANGED outcome

Return(c) ==
  /\ phase[c] = "answered"
  /\ outcome[c] = "none"
  /\ outcome' = [outcome EXCEPT ![c] = "reply"]
  /\ UNCHANGED phase

\* A call that is interrupted gives up a live command; it may also be interrupted
\* after the answer came.
Fail(c) ==
  /\ phase[c] # "new"
  /\ outcome[c] = "none"
  /\ phase' = [phase EXCEPT ![c] = IF Live(c) THEN "dropped" ELSE @]
  /\ outcome' = [outcome EXCEPT ![c] = "failure"]

Next ==
  \/ \E c \in Cmds : Submit(c) \/ Offer(c) \/ Answer(c) \/ Return(c) \/ Fail(c)
  \/ \E S \in SUBSET Cmds : Drop(S)

Ends(c) == phase[c] \in {"answered", "dropped"} /\ (Return(c) \/ Fail(c))

Spec == Init /\ [][Next]_vars

LiveSpec == Spec /\ \A c \in Cmds : WF_vars(Ends(c))
=============================================================================
