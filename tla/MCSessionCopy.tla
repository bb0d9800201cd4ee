---------------------------- MODULE MCSessionCopy ---------------------------
(***************************************************************************)
(* A small instance of SessionCopy.                                        *)
(***************************************************************************)
EXTENDS SessionCopy
=============================================================================
