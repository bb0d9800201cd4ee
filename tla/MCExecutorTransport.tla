------------------------ MODULE MCExecutorTransport ------------------------
(***************************************************************************)
(* A small instance of ExecutorTransport for TLC.                          *)
(***************************************************************************)
EXTENDS ExecutorTransport
=============================================================================
