------------------------- MODULE MCControlSessions -------------------------
(***************************************************************************)
(* Small instances of ControlSessions.                                     *)
(***************************************************************************)
EXTENDS ControlSessions
=============================================================================
