---------------------------- MODULE MCTransfers ----------------------------
(***************************************************************************)
(* What crosses Control: terminal streams, a copy between executors with   *)
(* its import, and several copies that compete for the payload store.      *)
(* They share no variable: a behaviour runs one of them, chosen at the     *)
(* start, and the others rest in an initial state.                         *)
(***************************************************************************)
EXTENDS StreamHub, SessionCopy, PayloadExports

VARIABLE part  \* the component that runs

TransfersInit ==
    /\ part \in {"streams", "copy", "exports"} /\ Init /\ CopyInit /\ ExportInit
    /\ part # "copy" => kind = "file" /\ ~overwrite /\ original = "none" /\ ~managed

TransfersNext ==
    /\ UNCHANGED part
    /\ \/ part = "streams" /\ Next /\ UNCHANGED <<copyvars, exportvars>>
       \/ part = "copy" /\ CopyNext /\ UNCHANGED <<vars, exportvars>>
       \/ part = "exports" /\ ExportNext /\ UNCHANGED <<vars, copyvars>>

\* The fairness of each component, while it runs.
TransfersFairness ==
    LET Streaming == part = "streams"
        Copying == part = "copy"
    IN /\ \A s \in Streams :
            /\ WF_vars(Streaming /\ Expire(s)) /\ WF_vars(Streaming /\ RelayCloses(s))
            /\ \A side \in Sides :
                 WF_vars(Streaming /\ ~IsLive(s) /\ SocketCloses(s, side))
       /\ \A f \in Sweeps : /\ WF_vars(Streaming /\ SweepNext(f))
                            /\ WF_vars(Streaming /\ SweepReturns(f))
       /\ WF_copyvars(Copying /\ TakesCommand)
       /\ WF_copyvars(Copying /\ ExecutorActs)
       /\ WF_copyvars(Copying /\ ControlStep)

TransfersSpec ==
    /\ TransfersInit /\ [][TransfersNext]_<<part, vars, copyvars, exportvars>>
    /\ TransfersFairness
=============================================================================
