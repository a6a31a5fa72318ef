----------------------------- MODULE Telemetry ------------------------------
(***************************************************************************)
(* What a node's description and one of its samples turn into on their way *)
(* from the agent to the verdicts on the node: collect in                  *)
(* hpc-agent/src/metrics.rs, the conversions of proto.rs (one copy in the  *)
(* agent, one in the daemon), the thresholds of hpc-core/src/config.rs,    *)
(* classify in hpc-daemon/src/state.rs and, on the record the daemon shows *)
(* as JSON, the Detector of hpc-monitor/src/health.rs.  ClusterState and   *)
(* Monitor take a sample to be the set of resources over their threshold;  *)
(* this module is where that set comes from.                               *)
(*                                                                         *)
(* What makes it hard: two programs with a configuration each judge the    *)
(* same numbers by code of their own, a part that a message leaves out     *)
(* reads as zero, and machines report sizes that fractions do not expect:  *)
(* no memory, a disk of size 0, more space available than there is.        *)
(*                                                                         *)
(* Fractions are counted in parts: Unit parts are 1.0, or 100 % of a cpu.  *)
(* The fields no verdict reads are one value, rest.                        *)
(*                                                                         *)
(* Definitions named Mutant... are deliberate mistakes, each just before   *)
(* the definition it would replace; the specification never uses one.      *)
(***************************************************************************)
EXTENDS Integers, Sequences, SequencesExt

CONSTANTS
    Unit,
    Limits,    \* Thresholds a configuration file may have, in parts of Unit
    NodeInfo,  \* descriptions of this agent: role and cpu_cores
    Reading,   \* what sysinfo may say: cpu, memory, load, disks, rest
    PbReport,  \* pb::MetricsReport of an agent of another version
    None

VARIABLES
    daemon_limits, monitor_limits,
    stage,     \* where the exchange is
    info,      \* the NodeInfo the agent sends, None if it is another version's
    report,    \* the MetricsReport the agent collects, None likewise
    message,   \* what is on the wire
    record,    \* the daemon's NodeRecord
    reasons    \* what the monitor holds against the node

limits == <<daemon_limits, monitor_limits>>
exchange == <<stage, info, report, message, record, reasons>>
vars == <<limits, exchange>>

\* Thresholds::validate: 0.0 to 1.0, both ends included; the load has no limit.
validate(l) == {l.cpu, l.memory, l.disk} \subseteq 0..Unit

\* Each program has a configuration of its own and refuses to start without a
\* valid one.
Init ==
    /\ daemon_limits \in {l \in Limits : validate(l)}
    /\ monitor_limits \in {l \in Limits : validate(l)}
    /\ stage = "idle"
    /\ info = None /\ report = None /\ message = None
    /\ record = None /\ reasons = {}

-----------------------------------------------------------------------------
(* NodeInfo. *)

RoleNumber == [Unspecified |-> 0, Storage |-> 1, Compute |-> 2,
               Metadata |-> 3, Gateway |-> 4]

role_to_pb(r) == RoleNumber[r]

\* A number this version does not know becomes Unspecified.
role_from_pb(v) ==
    IF \E r \in DOMAIN RoleNumber : RoleNumber[r] = v
    THEN CHOOSE r \in DOMAIN RoleNumber : RoleNumber[r] = v ELSE "Unspecified"

NodeInfoToPb(i) == [i EXCEPT !.role = role_to_pb(@)]
NodeInfoFromPb(p) == [p EXCEPT !.role = role_from_pb(@)]

\* register_node, by this agent or by one that may know more roles.
Register(i, p) ==
    /\ stage = "idle" /\ stage' = "registered"
    /\ info' = i
    /\ record' = [info |-> NodeInfoFromPb(p), status |-> "Registered",
                  latest_metrics |-> None]
    /\ UNCHANGED <<limits, report, message, reasons>>

-----------------------------------------------------------------------------
(* MetricsReport. *)

\* A sub-message is optional: a sequence of one or of none.
Some(x) == <<x>>
OrDefault(option, default) == IF option = <<>> THEN default ELSE option[1]

NoMemory == [total |-> 0, used |-> 0, available |-> 0]

MemoryToPb(m) ==
    [total |-> m.total, used |-> m.used, available |-> m.available]
DiskToPb(d) == [total |-> d.total, available |-> d.available]

MetricsToPb(m) ==
    [cpu |-> Some(m.cpu), memory |-> Some(MemoryToPb(m.memory)),
     load |-> Some(m.load),
     disks |-> [i \in DOMAIN m.disks |-> DiskToPb(m.disks[i])],
     rest |-> Some(m.rest)]

\* used_bytes and available_bytes change places.
MutantMemoryFromPb(p) ==
    [total |-> p.total, used |-> p.available, available |-> p.used]

MemoryFromPb(p) ==
    [total |-> p.total, used |-> p.used, available |-> p.available]
DiskFromPb(p) == [total |-> p.total, available |-> p.available]

\* A sub-message that is left out is its default, all zero.
MetricsFromPb(p) ==
    [cpu |-> OrDefault(p.cpu, 0),
     memory |-> IF p.memory = <<>> THEN NoMemory ELSE MemoryFromPb(p.memory[1]),
     load |-> OrDefault(p.load, 0),
     disks |-> [i \in DOMAIN p.disks |-> DiskFromPb(p.disks[i])],
     rest |-> OrDefault(p.rest, "zero")]

Collect(m) ==
    /\ stage = "registered" /\ stage' = "wire"
    /\ report' = m /\ message' = MetricsToPb(m)
    /\ UNCHANGED <<limits, info, record, reasons>>

ForeignReport(p) ==
    /\ stage = "registered" /\ stage' = "wire"
    /\ message' = p
    /\ UNCHANGED <<limits, info, report, record, reasons>>

-----------------------------------------------------------------------------
(* The verdicts. *)

\* part / whole >= limit, in parts of Unit.
Reaches(part, whole, limit) == part * Unit >= limit * whole

\* MemoryMetrics::used_fraction >= limit; without memory the fraction is 0.
MemoryReaches(m, limit) ==
    IF m.total = 0 THEN Reaches(0, 1, limit) ELSE Reaches(m.used, m.total, limit)

\* Plain subtraction of unsigned numbers wraps (at 2^8 in place of 2^64).
MutantDiskReaches(d, limit) ==
    IF d.total = 0 THEN Reaches(0, 1, limit)
    ELSE Reaches((d.total - d.available) % 256, d.total, limit)

\* DiskMetrics::used_fraction >= limit, with saturating_sub.
DiskReaches(d, limit) ==
    IF d.total = 0 THEN Reaches(0, 1, limit)
    ELSE Reaches(IF d.available > d.total THEN 0 ELSE d.total - d.available,
                 d.total, limit)

\* The daemon.
classify(m, l) ==
    IF \/ Reaches(m.cpu, Unit, l.cpu)
       \/ MemoryReaches(m.memory, l.memory)
       \/ \E d \in ToSet(m.disks) : DiskReaches(d, l.disk)
    THEN "Degraded" ELSE "Healthy"

\* ingest_metrics.
Ingest ==
    /\ stage = "wire" /\ stage' = "stored"
    /\ record' = [record EXCEPT
           !.latest_metrics = MetricsFromPb(message),
           !.status = classify(MetricsFromPb(message), daemon_limits)]
    /\ UNCHANGED <<limits, info, report, message, reasons>>

\* The monitor, on a record that is not Unreachable.
evaluate(r, l) ==
    LET m == r.latest_metrics
        cores == IF r.info.cpu_cores = 0 THEN 1 ELSE r.info.cpu_cores
    IN  {x \in {"cpu", "memory", "disk", "load"} :
            CASE x = "cpu" -> Reaches(m.cpu, Unit, l.cpu)
              [] x = "memory" -> MemoryReaches(m.memory, l.memory)
              [] x = "disk" -> \E d \in ToSet(m.disks) : DiskReaches(d, l.disk)
              [] x = "load" -> m.load >= l.load_per_core * cores}

\* GET /api/v1/nodes: the record as JSON, by the types the daemon wrote it with.
Scrape ==
    /\ stage = "stored" /\ stage' = "done"
    /\ reasons' = evaluate(record, monitor_limits)
    /\ UNCHANGED <<limits, info, report, message, record>>

Settle ==
    /\ stage = "done" /\ stage' = "idle"
    /\ info' = None /\ report' = None /\ message' = None
    /\ record' = None /\ reasons' = {}
    /\ UNCHANGED limits

ForeignInfo == [role : 0..5, cpu_cores : {1}]

Next ==
    \/ \E i \in NodeInfo : Register(i, NodeInfoToPb(i))
    \/ \E p \in ForeignInfo : Register(None, p)
    \/ \E m \in Reading : Collect(m)
    \/ \E p \in PbReport : ForeignReport(p)
    \/ Ingest \/ Scrape \/ Settle

Spec == Init /\ [][Next]_vars

-----------------------------------------------------------------------------
(* Properties *)

\* What the daemon holds of a node and shows to the monitor and the CLI is what
\* the agent said of its machine, field by field, after two conversions by two
\* programs; a part that an agent of another version leaves out reads as an idle
\* machine, never as what an earlier message said (proto.rs).
SampleArrives ==
    record # None =>
        /\ info # None => record.info = info
        /\ record.latest_metrics # None =>
               LET got == record.latest_metrics
               IN  IF report # None THEN got = report
                   ELSE \A f \in {"cpu", "load", "memory"} :
                            IF message[f] # <<>> THEN message[f] = <<got[f]>>
                            ELSE got[f] = (IF f = "memory" THEN NoMemory ELSE 0)

\* A resource of the machine is at or over its limit: the code compares with >=,
\* against the "above" of config.rs (DegradedMeansAbove).  A limit of 0 is always
\* reached; otherwise a part of something that is not there reaches none.
FullDisk(d, limit) ==
    limit = 0 \/ (d.total > 0 /\ d.available * Unit <= (Unit - limit) * d.total)
FullMemory(m, limit) ==
    limit = 0 \/ (m.total > 0 /\ m.used * Unit >= limit * m.total)
Over(m, l) ==
    {x \in {"cpu", "memory", "disk"} :
        \/ x = "cpu" /\ m.cpu >= l.cpu
        \/ x = "memory" /\ FullMemory(m.memory, l.memory)
        \/ x = "disk" /\ \E i \in DOMAIN m.disks : FullDisk(m.disks[i], l.disk)}

\* Both verdicts are about the machine the agent sampled: the daemon says
\* Degraded if and only if cpu, memory or a disk of it is at or over its limit,
\* the monitor names exactly those that are at or over the monitor's limit, and a
\* node that is Degraded to the daemon is never healthy to a monitor with limits
\* as low or lower (config.rs: "used by the daemon and monitor to classify
\* health").  That both programs count a resource exactly at its limit is what
\* the code does, and not what config.rs says of the limits.
VerdictsMatchMachine ==
    report # None /\ stage \in {"stored", "done"} =>
        /\ record.status = "Degraded" <=> Over(report, daemon_limits) # {}
        /\ stage = "done" =>
               /\ reasons \ {"load"} = Over(report, monitor_limits)
               /\ (\A x \in DOMAIN daemon_limits :
                       monitor_limits[x] <= daemon_limits[x])
                  /\ record.status = "Degraded" => reasons # {}
-----------------------------------------------------------------------------
(* A claim of the documentation that the model refutes.  No run checks it;  *)
(* Wire repeats it, so that it can be an INVARIANT of its configuration.    *)

Above(part, whole, limit) ==
    IF whole = 0 THEN 0 > limit ELSE part * Unit > limit * whole

\* config.rs Thresholds: each limit is the fraction "above which a node is
\* considered degraded".  A node exactly at a limit is Degraded already.
DegradedMeansAbove ==
    report # None /\ stage \in {"stored", "done"} /\ record.status = "Degraded" =>
        \/ Above(report.cpu, Unit, daemon_limits.cpu)
        \/ Above(report.memory.used, report.memory.total, daemon_limits.memory)
        \/ \E i \in DOMAIN report.disks :
               Above(report.disks[i].total - report.disks[i].available,
                     report.disks[i].total, daemon_limits.disk)
=============================================================================
