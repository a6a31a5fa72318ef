----------------------------- MODULE MCMonitor ------------------------------
(***************************************************************************)
(* Instances of Monitor for TLC.                                           *)
(***************************************************************************)
EXTENDS Monitor

\* A full disk: enough for a node with and without a reason.
MCFullDisk == {{"disk"}}
=============================================================================
