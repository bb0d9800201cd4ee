------------------------- MODULE MCCommandDelivery -------------------------
(***************************************************************************)
(* Small instances of CommandDelivery: two commands of one session, the    *)
(* first of which changes the inventory.                                   *)
(***************************************************************************)
EXTENDS CommandDelivery, TLC

CONSTANTS c1, c2, k1

MCKeyOf == [c \in Cmds |-> k1]

Symmetry == Permutations(Polls)
=============================================================================
