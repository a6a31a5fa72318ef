--------------------------- MODULE MCCommandPlane ---------------------------
(***************************************************************************)
(* Instances of CommandPlane for TLC: one node, two commands.              *)
(***************************************************************************)
EXTENDS CommandPlane

CONSTANT n1

MCDest == [c \in Command |-> n1]

\* A client that chooses the ids and uses one for both commands, as in a retry.
MCIdOf == [c \in Command |-> CHOOSE i \in Id : TRUE]
=============================================================================
