----------------------------- MODULE MCBlockIO ------------------------------
(***************************************************************************)
(* BlockIO for TLC: two threads on a file of up to three bytes.            *)
(***************************************************************************)
EXTENDS BlockIO
=============================================================================
