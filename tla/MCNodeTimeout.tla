--------------------------- MODULE MCNodeTimeout ----------------------------
(***************************************************************************)
(* Instances of NodeTimeout for TLC.  A third of a second is the tick.     *)
(***************************************************************************)
EXTENDS NodeTimeout
MCTimeouts == {0, 3, 5}
MCMetrics == {0, 5}
MCHeartbeats == {0, 2}
MCSteps == {-3, 3}
=============================================================================
