--------------------------- MODULE MCClusterState ---------------------------
(***************************************************************************)
(* Instances of ClusterState for TLC.                                      *)
(***************************************************************************)
EXTENDS ClusterState, TLC

\* One sample that breaches a threshold classify reads, and one where only the
\* load average is high, which classify does not look at.
MCSample == {{"disk"}, {"load"}}

MCSymmetry == Permutations(Task) \cup Permutations(Info)
=============================================================================
