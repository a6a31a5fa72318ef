-------------------------------- MODULE Wire --------------------------------
(***************************************************************************)
(* What crosses the link between daemon and agent: commands down to the    *)
(* node and their outcomes back (CommandExec), descriptions and samples up *)
(* (Telemetry).  The agent does one thing at a time (the select! loop of   *)
(* session in hpc-agent/src/client.rs), and so does this module: one       *)
(* exchange, of either kind, after another.                                *)
(***************************************************************************)
EXTENDS CommandExec

CONSTANTS Unit, Limits, NodeInfo, Reading, PbReport

ASSUME TelemetryAssumption ==
    /\ Unit \in Nat \ {0}
    /\ Limits \subseteq [cpu : Int, memory : Int, disk : Int, load_per_core : Int]
    /\ NodeInfo \subseteq [role : {"Unspecified", "Storage", "Compute", "Metadata",
                                   "Gateway"},
                           cpu_cores : Nat]
    /\ Reading \subseteq [cpu : Nat, memory : [total : Nat, used : Nat, available : Nat],
                          load : Nat, disks : Seq([total : Nat, available : Nat]),
                          rest : STRING]
    /\ PbReport \subseteq [cpu : Seq(Nat), load : Seq(Nat),
                           memory : Seq([total : Nat, used : Nat, available : Nat]),
                           disks : Seq([total : Nat, available : Nat]),
                           rest : Seq(STRING)]
    /\ \A p \in PbReport : Len(p.cpu) <= 1 /\ Len(p.load) <= 1 /\ Len(p.memory) <= 1
    /\ None \notin Reading

VARIABLES daemon_limits, monitor_limits, stage, info, report, message, record,
          reasons

sampling == <<daemon_limits, monitor_limits, stage, info, report, message,
              record, reasons>>

Up == INSTANCE Telemetry

WireInit == Init /\ Up!Init

CommandStep == stage = "idle" /\ Next /\ UNCHANGED sampling
SampleStep == phase = "idle" /\ Up!Next /\ UNCHANGED vars

WireNext == CommandStep \/ SampleStep

WireSpec == WireInit /\ [][WireNext]_<<vars, sampling>>

-----------------------------------------------------------------------------
(* Properties of Telemetry, in its words. *)

\* What the daemon holds of a node is what the agent said of its machine, field
\* by field, after two conversions by two programs; a part that an agent of
\* another version leaves out reads as zero (proto.rs).
SampleArrives == Up!SampleArrives

\* The daemon says Degraded if and only if cpu, memory or a disk of the machine
\* is at or over its limit, the monitor names exactly those at or over the
\* monitor's limit, and a node that is Degraded to the daemon is not healthy to a
\* monitor with limits as low or lower (state.rs classify, health.rs evaluate,
\* types.rs used_fraction).  The boundary is the code's: config.rs says "above".
VerdictsMatchMachine == Up!VerdictsMatchMachine

\* Refuted: config.rs, "above which a node is considered degraded".
DegradedMeansAbove == Up!DegradedMeansAbove
=============================================================================
