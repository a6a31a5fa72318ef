--------------------------- MODULE MCAgentSession ---------------------------
(***************************************************************************)
(* AgentSession for TLC; the constants are the defaults of config.rs and   *)
(* client.rs (2 s, doubled up to 30 s).                                    *)
(***************************************************************************)
EXTENDS AgentSession
=============================================================================
