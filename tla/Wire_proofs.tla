----------------------------- MODULE Wire_proofs ----------------------------
(***************************************************************************)
(* Proofs about Wire: what is said of a machine arrives as it was said,    *)
(* and both verdicts on it are right, for every machine, every pair of     *)
(* valid configurations and every resolution of fractions; what runs on a  *)
(* node is what was asked for, and what is recorded is what happened.      *)
(***************************************************************************)
EXTENDS Wire, SequenceTheorems, TLAPS

-----------------------------------------------------------------------------
(* Fractions, in parts of Unit. *)

Memory == [total : Nat, used : Nat, available : Nat]
Disk == [total : Nat, available : Nat]

\* Scaling both sides of a comparison.
LEMMA Scaling ==
    ASSUME NEW a \in Int, NEW b \in Int, NEW u \in Nat
    PROVE  /\ a <= b => a * u <= b * u
           /\ u # 0 /\ a < b => a * u < b * u
           /\ u # 0 => (a * u >= b * u <=> a >= b)
  <1>1. b * u = a * u + (b - a) * u /\ a * u \in Int /\ b * u \in Int
    OBVIOUS
  <1>2. a <= b => (b - a) * u >= 0
    OBVIOUS
  <1>3. u # 0 /\ a < b => (b - a) * u > 0
    OBVIOUS
  <1>4. /\ a <= b => a * u <= b * u
        /\ u # 0 /\ a < b => a * u < b * u
    BY <1>1, <1>2, <1>3
  <1> QED
    BY <1>1, <1>4

\* Moving a term to the other side of a comparison.
LEMMA Difference ==
    \A x, y, z \in Nat : \A p, q : p = x - z /\ q = x - y =>
        (p >= y <=> z <= q) /\ (z > x => ~(z <= q))
  OBVIOUS

\* used_fraction of a memory reaches a limit if and only if the memory is that
\* full; a machine without memory reaches only a limit of 0.
LEMMA MemoryVerdict ==
    ASSUME NEW m \in Memory, NEW limit \in 0..Unit
    PROVE  Up!MemoryReaches(m, limit) <=> Up!FullMemory(m, limit)
  <1>1. /\ Unit \in Nat \ {0} /\ limit \in Nat /\ m.total \in Nat /\ m.used \in Nat
        /\ m.used * Unit \in Nat /\ limit * m.total \in Nat /\ 0 * m.total = 0
    BY TelemetryAssumption DEF Memory
  <1>2. CASE m.total = 0
    BY <1>1, <1>2 DEF Up!MemoryReaches, Up!FullMemory, Up!Reaches
  <1>3. CASE m.total # 0
    BY <1>1, <1>3 DEF Up!MemoryReaches, Up!FullMemory, Up!Reaches
  <1> QED
    BY <1>2, <1>3

\* The same for a disk, also for one of size 0 and for one that has more space
\* available than there is.
LEMMA DiskVerdict ==
    ASSUME NEW d \in Disk, NEW limit \in 0..Unit
    PROVE  Up!DiskReaches(d, limit) <=> Up!FullDisk(d, limit)
  <1> DEFINE t == d.total
             a == d.available
  <1>1. /\ Unit \in Nat \ {0} /\ limit \in Nat /\ t \in Nat /\ a \in Nat
        /\ limit <= Unit
    BY TelemetryAssumption DEF Disk
  <1>2. /\ (Unit - limit) * t = Unit * t - limit * t
        /\ (t - a) * Unit = Unit * t - a * Unit
        /\ limit * t \in Nat /\ Unit * t \in Nat /\ a * Unit \in Nat
        /\ t # 0 /\ limit # 0 => limit * t > 0
    BY <1>1
  <1>3. CASE t = 0
    BY <1>1, <1>3 DEF Up!DiskReaches, Up!FullDisk, Up!Reaches
  <1>4. CASE t # 0 /\ a <= t
    <2>1. Up!DiskReaches(d, limit) <=> (t - a) * Unit >= limit * t
      BY <1>1, <1>4 DEF Up!DiskReaches, Up!Reaches
    <2>2. limit = 0 => (t - a) * Unit >= limit * t
      <3>1. t - a \in Nat
        BY <1>1, <1>4
      <3>2. (t - a) * Unit \in Nat
        BY <1>1, <3>1
      <3> QED
        BY <1>1, <3>2
    <2>3. (t - a) * Unit >= limit * t <=> a * Unit <= (Unit - limit) * t
      BY <1>2, Difference
    <2> QED
      BY <1>1, <1>4, <2>1, <2>2, <2>3 DEF Up!FullDisk
  <1>5. CASE t # 0 /\ a > t
    <2>1. Up!DiskReaches(d, limit) <=> 0 * Unit >= limit * t
      BY <1>1, <1>5 DEF Up!DiskReaches, Up!Reaches
    <2>2. 0 * Unit >= limit * t <=> limit = 0
      BY <1>1, <1>2, <1>5
    <2>3. a * Unit > Unit * t
      BY <1>1, <1>5, Scaling
    <2>4. ~(a * Unit <= (Unit - limit) * t)
      BY <1>2, <2>3, Difference
    <2> QED
      BY <1>1, <1>5, <2>1, <2>2, <2>4 DEF Up!FullDisk
  <1> QED
    BY <1>1, <1>3, <1>4, <1>5

-----------------------------------------------------------------------------
(* Verdicts. *)

Thresholds == [cpu : 0..Unit, memory : 0..Unit, disk : 0..Unit, load_per_core : Int]

Metrics == [cpu : Nat, memory : Memory, load : Nat, disks : Seq(Disk), rest : STRING]

\* The disks of a report, as the code goes through them and as a reader counts
\* them.
LEMMA DisksVerdict ==
    ASSUME NEW m \in Metrics, NEW limit \in 0..Unit
    PROVE  (\E d \in Up!ToSet(m.disks) : Up!DiskReaches(d, limit)) <=>
               \E i \in DOMAIN m.disks : Up!FullDisk(m.disks[i], limit)
  <1>1. \A i \in DOMAIN m.disks : m.disks[i] \in Disk
    BY DEF Metrics
  <1>2. Up!ToSet(m.disks) = {m.disks[i] : i \in DOMAIN m.disks}
    BY DEF Up!ToSet
  <1> QED
    BY <1>1, <1>2, DiskVerdict

\* The three resources that both programs judge.
LEMMA ResourceVerdict ==
    ASSUME NEW m \in Metrics, NEW l \in Thresholds
    PROVE  /\ Up!Reaches(m.cpu, Unit, l.cpu) <=> "cpu" \in Up!Over(m, l)
           /\ Up!MemoryReaches(m.memory, l.memory) <=> "memory" \in Up!Over(m, l)
           /\ (\E d \in Up!ToSet(m.disks) : Up!DiskReaches(d, l.disk)) <=>
                  "disk" \in Up!Over(m, l)
           /\ Up!Over(m, l) \subseteq {"cpu", "memory", "disk"}
  <1>1. Unit \in Nat \ {0} /\ m.cpu \in Nat /\ l.cpu \in Nat
    BY TelemetryAssumption DEF Metrics, Thresholds
  <1>2. Up!Reaches(m.cpu, Unit, l.cpu) <=> m.cpu >= l.cpu
    BY <1>1, Scaling DEF Up!Reaches
  <1>3. Up!MemoryReaches(m.memory, l.memory) <=> Up!FullMemory(m.memory, l.memory)
    BY MemoryVerdict DEF Metrics, Thresholds
  <1>4. (\E d \in Up!ToSet(m.disks) : Up!DiskReaches(d, l.disk)) <=>
            \E i \in DOMAIN m.disks : Up!FullDisk(m.disks[i], l.disk)
    BY DisksVerdict DEF Thresholds
  <1> QED
    BY <1>2, <1>3, <1>4 DEF Up!Over

\* The daemon's verdict.
LEMMA ClassifyVerdict ==
    ASSUME NEW m \in Metrics, NEW l \in Thresholds
    PROVE  Up!classify(m, l) = "Degraded" <=> Up!Over(m, l) # {}
  BY ResourceVerdict DEF Up!classify

\* The monitor's.
LEMMA EvaluateVerdict ==
    ASSUME NEW r, r.latest_metrics \in Metrics, NEW l \in Thresholds
    PROVE  Up!evaluate(r, l) \ {"load"} = Up!Over(r.latest_metrics, l)
  <1> DEFINE m == r.latest_metrics
  <1>1. /\ "cpu" \in Up!evaluate(r, l) <=> "cpu" \in Up!Over(m, l)
        /\ "memory" \in Up!evaluate(r, l) <=> "memory" \in Up!Over(m, l)
        /\ "disk" \in Up!evaluate(r, l) <=> "disk" \in Up!Over(m, l)
        /\ Up!evaluate(r, l) \subseteq {"cpu", "memory", "disk", "load"}
    BY ResourceVerdict DEF Up!evaluate
  <1>2. Up!Over(m, l) \subseteq {"cpu", "memory", "disk"}
    BY ResourceVerdict
  <1> QED
    BY <1>1, <1>2

\* Lower limits find at least as much.
LEMMA LowerLimits ==
    ASSUME NEW m \in Metrics, NEW l \in Thresholds, NEW k \in Thresholds,
           k.cpu <= l.cpu, k.memory <= l.memory, k.disk <= l.disk
    PROVE  Up!Over(m, l) \subseteq Up!Over(m, k)
  <1>1. /\ Unit \in Nat \ {0} /\ m.cpu \in Nat
        /\ l.cpu \in Nat /\ l.memory \in Nat /\ l.disk \in Nat
        /\ k.cpu \in Nat /\ k.memory \in Nat /\ k.disk \in Nat
    BY TelemetryAssumption DEF Metrics, Thresholds
  <1>2. m.cpu >= l.cpu => m.cpu >= k.cpu
    BY <1>1
  <1>3. Up!FullMemory(m.memory, l.memory) => Up!FullMemory(m.memory, k.memory)
    <2>1. /\ m.memory.total \in Nat /\ m.memory.used * Unit \in Nat
          /\ l.memory * m.memory.total \in Nat /\ k.memory * m.memory.total \in Nat
      <3>1. m.memory.total \in Nat /\ m.memory.used \in Nat
        BY DEF Metrics, Memory
      <3> QED
        BY <1>1, <3>1
    <2>2. k.memory * m.memory.total <= l.memory * m.memory.total
      BY <1>1, <2>1, Scaling
    <2>3. l.memory = 0 => k.memory = 0
      BY <1>1
    <2> QED
      BY <2>1, <2>2, <2>3 DEF Up!FullMemory
  <1>4. ASSUME NEW d \in Disk, Up!FullDisk(d, l.disk)
        PROVE  Up!FullDisk(d, k.disk)
    <2>1. /\ d.total \in Nat /\ d.available * Unit \in Nat
          /\ Unit - l.disk \in Int /\ Unit - k.disk \in Int
          /\ Unit - l.disk <= Unit - k.disk
          /\ (Unit - l.disk) * d.total \in Int /\ (Unit - k.disk) * d.total \in Int
      BY <1>1 DEF Disk
    <2>2. (Unit - l.disk) * d.total <= (Unit - k.disk) * d.total
      BY <2>1, Scaling
    <2>3. l.disk = 0 => k.disk = 0
      BY <1>1
    <2> QED
      BY <1>4, <2>1, <2>2, <2>3 DEF Up!FullDisk
  <1>5. \A i \in DOMAIN m.disks : m.disks[i] \in Disk
    BY DEF Metrics
  <1> QED
    BY <1>2, <1>3, <1>4, <1>5 DEF Up!Over

-----------------------------------------------------------------------------
(* Descriptions and samples arrive as they were sent. *)

\* A report is unchanged by the two conversions (proto.rs, From in both
\* directions).
LEMMA MetricsRoundTrip ==
    ASSUME NEW m \in Metrics
    PROVE  Up!MetricsFromPb(Up!MetricsToPb(m)) = m
  <1> DEFINE p == Up!MetricsToPb(m)
             g == Up!MetricsFromPb(p)
  <1>1. /\ p.cpu = <<m.cpu>> /\ p.load = <<m.load>> /\ p.rest = <<m.rest>>
        /\ p.memory = <<Up!MemoryToPb(m.memory)>>
        /\ p.disks = [i \in DOMAIN m.disks |-> Up!DiskToPb(m.disks[i])]
    BY DEF Up!MetricsToPb, Up!Some
  <1>2. g = [cpu |-> m.cpu, memory |-> Up!MemoryFromPb(Up!MemoryToPb(m.memory)),
             load |-> m.load,
             disks |-> [i \in DOMAIN p.disks |-> Up!DiskFromPb(p.disks[i])],
             rest |-> m.rest]
    <2> HIDE DEF p
    <2> QED
      BY <1>1 DEF Up!MetricsFromPb, Up!OrDefault
  <1>3. Up!MemoryFromPb(Up!MemoryToPb(m.memory)) = m.memory
    BY DEF Up!MemoryFromPb, Up!MemoryToPb, Metrics, Memory
  <1>4. [i \in DOMAIN p.disks |-> Up!DiskFromPb(p.disks[i])] = m.disks
    <2>1. \A i \in DOMAIN m.disks : Up!DiskFromPb(Up!DiskToPb(m.disks[i])) = m.disks[i]
      <3>1. \A d \in Disk : Up!DiskFromPb(Up!DiskToPb(d)) = d
        BY DEF Up!DiskFromPb, Up!DiskToPb, Disk
      <3> QED
        BY <3>1 DEF Metrics
    <2>2. DOMAIN p.disks = DOMAIN m.disks
      BY <1>1
    <2>3. [i \in DOMAIN m.disks |-> m.disks[i]] = m.disks
      BY DEF Metrics
    <2> HIDE DEF p
    <2> QED
      BY <1>1, <2>1, <2>2, <2>3
  <1> QED
    BY <1>2, <1>3, <1>4 DEF Metrics

\* So is a description.
LEMMA InfoRoundTrip ==
    ASSUME NEW i \in NodeInfo
    PROVE  Up!NodeInfoFromPb(Up!NodeInfoToPb(i)) = i
  <1>1. /\ i.role \in {"Unspecified", "Storage", "Compute", "Metadata", "Gateway"}
        /\ i = [role |-> i.role, cpu_cores |-> i.cpu_cores]
    BY TelemetryAssumption
  <1>2. DOMAIN Up!RoleNumber = {"Unspecified", "Storage", "Compute", "Metadata", "Gateway"}
    BY DEF Up!RoleNumber
  <1>3. \A r, s \in DOMAIN Up!RoleNumber : Up!RoleNumber[r] = Up!RoleNumber[s] => r = s
    BY <1>2 DEF Up!RoleNumber
  <1>4. Up!role_from_pb(Up!role_to_pb(i.role)) = i.role
    BY <1>1, <1>2, <1>3 DEF Up!role_from_pb, Up!role_to_pb
  <1> QED
    BY <1>1, <1>4 DEF Up!NodeInfoFromPb, Up!NodeInfoToPb

\* A message is that of the report this agent collected, or of another version.
Sent ==
    \/ report \in Reading /\ message = Up!MetricsToPb(report)
    \/ report = None /\ message \in PbReport

\* The record as register_node made it and as ingest_metrics changed it.
Registered(r, latest, status) ==
    /\ r = [info |-> r.info, status |-> status, latest_metrics |-> latest]
    /\ info # None => r.info = info

\* An exchange, stage by stage: what each party holds is what the message and the
\* limits made of it.
SampleInv ==
    /\ daemon_limits \in Thresholds /\ monitor_limits \in Thresholds
    /\ stage \in {"idle", "registered", "wire", "stored", "done"}
    /\ stage = "idle" => record = None
    /\ stage \in {"idle", "registered"} => report = None
    /\ stage \in {"registered", "wire"} => Registered(record, None, "Registered")
    /\ stage \in {"wire", "stored", "done"} => Sent
    /\ stage \in {"stored", "done"} =>
           Registered(record, Up!MetricsFromPb(message),
                      Up!classify(Up!MetricsFromPb(message), daemon_limits))
    /\ stage = "done" => reasons = Up!evaluate(record, monitor_limits)

\* A configuration that was loaded is valid.
LEMMA LimitsType ==
    ASSUME NEW l \in Limits, Up!validate(l)
    PROVE  l \in Thresholds
  BY TelemetryAssumption DEF Up!validate, Thresholds

\* No exchange has begun.
LEMMA InitSample == Up!Init => SampleInv
  BY LimitsType DEF Up!Init, SampleInv

\* Every step of an exchange keeps the invariant.
LEMMA NextSample ==
    ASSUME SampleInv, Up!Next
    PROVE  SampleInv'
  <1>1. ASSUME NEW i \in NodeInfo, Up!Register(i, Up!NodeInfoToPb(i))
        PROVE  SampleInv'
    BY <1>1, InfoRoundTrip DEF SampleInv, Up!Register, Registered, Up!limits
  <1>2. ASSUME NEW p \in Up!ForeignInfo, Up!Register(None, p)
        PROVE  SampleInv'
    BY <1>2 DEF SampleInv, Up!Register, Registered, Up!limits
  <1>3. ASSUME NEW m \in Reading, Up!Collect(m)
        PROVE  SampleInv'
    BY <1>3 DEF SampleInv, Up!Collect, Registered, Sent, Up!limits
  <1>4. ASSUME NEW p \in PbReport, Up!ForeignReport(p)
        PROVE  SampleInv'
    BY <1>4 DEF SampleInv, Up!ForeignReport, Registered, Sent, Up!limits
  <1>5. CASE Up!Ingest
    <2>1. /\ stage = "wire" /\ stage' = "stored"
          /\ record' = [info |-> record.info,
                        status |-> Up!classify(Up!MetricsFromPb(message), daemon_limits),
                        latest_metrics |-> Up!MetricsFromPb(message)]
          /\ UNCHANGED <<daemon_limits, monitor_limits, info, report, message, reasons>>
      BY <1>5 DEF Up!Ingest, SampleInv, Registered, Up!limits
    <2> QED
      BY <2>1 DEF SampleInv, Registered, Sent
  <1>6. CASE Up!Scrape
    BY <1>6 DEF SampleInv, Up!Scrape, Registered, Sent, Up!limits
  <1>7. CASE Up!Settle
    BY <1>7 DEF SampleInv, Up!Settle, Up!limits
  <1> QED
    BY <1>1, <1>2, <1>3, <1>4, <1>5, <1>6, <1>7 DEF Up!Next

\* An optional part of a message that is there.
LEMMA Single ==
    ASSUME NEW S, NEW q \in Seq(S), Len(q) <= 1, q # <<>>
    PROVE  q = <<q[1]>> /\ q[1] \in S
  <1>1. Len(q) \in Nat \ {0}
    BY EmptySeq
  <1>2. Len(q) = 1
    BY <1>1
  <1>3. q[1] \in S
    BY <1>2, ElementOfSeq
  <1>4. <<q[1]>> \in Seq(S) /\ Len(<<q[1]>>) = 1 /\ <<q[1]>>[1] = q[1]
    BY <1>3
  <1>5. \A i \in 1..Len(q) : q[i] = <<q[1]>>[i]
    BY <1>2, <1>4
  <1> QED
    BY <1>2, <1>3, <1>4, <1>5, SeqEqual

\* What is held of a machine is what was said of it.
LEMMA SampleHeld == SampleInv => SampleArrives
  <1> SUFFICES ASSUME SampleInv, record # None PROVE
          /\ info # None => record.info = info
          /\ record.latest_metrics # None =>
                 IF report # None THEN record.latest_metrics = report
                 ELSE \A f \in {"cpu", "load", "memory"} :
                          IF message[f] # <<>> THEN message[f] = <<record.latest_metrics[f]>>
                          ELSE record.latest_metrics[f] =
                                   (IF f = "memory" THEN Up!NoMemory ELSE 0)
    BY DEF SampleArrives, Up!SampleArrives
  <1>1. info # None => record.info = info
    BY DEF SampleInv, Registered
  <1>2. ASSUME record.latest_metrics # None
        PROVE  IF report # None THEN record.latest_metrics = report
               ELSE \A f \in {"cpu", "load", "memory"} :
                        IF message[f] # <<>> THEN message[f] = <<record.latest_metrics[f]>>
                        ELSE record.latest_metrics[f] =
                                 (IF f = "memory" THEN Up!NoMemory ELSE 0)
    <2>1. record.latest_metrics = Up!MetricsFromPb(message) /\ Sent
      BY <1>2 DEF SampleInv, Registered
    <2>2. CASE report \in Reading /\ message = Up!MetricsToPb(report)
      <3>1. report \in Metrics /\ report # None
        BY <2>2, TelemetryAssumption DEF Metrics, Memory, Disk
      <3> QED
        BY <2>1, <2>2, <3>1, MetricsRoundTrip
    <2>3. CASE report = None /\ message \in PbReport
      <3>1. /\ message.cpu \in Seq(Nat) /\ message.load \in Seq(Nat)
            /\ message.memory \in Seq(Memory)
            /\ Len(message.cpu) <= 1 /\ Len(message.load) <= 1 /\ Len(message.memory) <= 1
        BY <2>3, TelemetryAssumption DEF Memory
      <3>3. IF message.cpu # <<>> THEN message.cpu = <<record.latest_metrics.cpu>>
            ELSE record.latest_metrics.cpu = 0
        BY <2>1, <3>1, Single DEF Up!MetricsFromPb, Up!OrDefault
      <3>4. IF message.load # <<>> THEN message.load = <<record.latest_metrics.load>>
            ELSE record.latest_metrics.load = 0
        BY <2>1, <3>1, Single DEF Up!MetricsFromPb, Up!OrDefault
      <3>5. IF message.memory # <<>> THEN message.memory = <<record.latest_metrics.memory>>
            ELSE record.latest_metrics.memory = Up!NoMemory
        <4>1. \A x \in Memory : Up!MemoryFromPb(x) = x
          BY DEF Up!MemoryFromPb, Memory
        <4> QED
          BY <2>1, <3>1, <4>1, Single DEF Up!MetricsFromPb
      <3> QED
        BY <2>3, <3>3, <3>4, <3>5
    <2> QED
      BY <2>1, <2>2, <2>3 DEF Sent
  <1> QED
    BY <1>1, <1>2

\* Both verdicts are about the machine.
LEMMA VerdictsHeld == SampleInv => VerdictsMatchMachine
  <1> SUFFICES ASSUME SampleInv, report # None, stage \in {"stored", "done"} PROVE
          /\ record.status = "Degraded" <=> Up!Over(report, daemon_limits) # {}
          /\ stage = "done" =>
                 /\ reasons \ {"load"} = Up!Over(report, monitor_limits)
                 /\ (\A x \in DOMAIN daemon_limits :
                         monitor_limits[x] <= daemon_limits[x])
                    /\ record.status = "Degraded" => reasons # {}
    BY DEF VerdictsMatchMachine, Up!VerdictsMatchMachine
  <1>1. report \in Metrics /\ Up!MetricsFromPb(message) = report
    <2>1. report \in Reading /\ message = Up!MetricsToPb(report)
      BY DEF SampleInv, Sent
    <2>2. report \in Metrics
      BY <2>1, TelemetryAssumption DEF Metrics, Memory, Disk
    <2> QED
      BY <2>1, <2>2, MetricsRoundTrip
  <1>2. /\ record.latest_metrics = report
        /\ record.status = Up!classify(report, daemon_limits)
        /\ daemon_limits \in Thresholds /\ monitor_limits \in Thresholds
        /\ stage = "done" => reasons = Up!evaluate(record, monitor_limits)
    BY <1>1 DEF SampleInv, Registered
  <1>3. record.status = "Degraded" <=> Up!Over(report, daemon_limits) # {}
    BY <1>1, <1>2, ClassifyVerdict
  <1>4. stage = "done" => reasons \ {"load"} = Up!Over(report, monitor_limits)
    BY <1>1, <1>2, EvaluateVerdict
  <1>5. (\A x \in DOMAIN daemon_limits : monitor_limits[x] <= daemon_limits[x]) =>
            Up!Over(report, daemon_limits) \subseteq Up!Over(report, monitor_limits)
    BY <1>1, <1>2, LowerLimits DEF Thresholds
  <1> QED
    BY <1>3, <1>4, <1>5

-----------------------------------------------------------------------------
(* Commands. *)

FsPb == [command_id : {"given", "generated"}, action : 0..6, device : Text \cup {""},
         mount_point : Text, fs_type : {"", "x"}, options : {"", "x"},
         force : BOOLEAN]

\* A decoded request for a file system says what was asked for.
Faithful(a, r) ==
    r.kind = "fs" => /\ r.action = a.action
                     /\ r.mount_point = a.mount_point
                     /\ r.device # "" => r.device = a.device
                     /\ r.force => a.force = TRUE

\* On the wire is what this daemon made of an accepted request, or what another
\* daemon sent.
Ours ==
    /\ request \in FsRequest \cup DeployRequest /\ RestAccepts(request)
    /\ Faithful(asked, request)
    /\ wire = to_pb_command(request)
    /\ ack \in {IdOf(request), None}
Theirs == asked = None /\ request = None /\ ack = None /\ wire \in Foreign

\* What may be said of a command, from what became of its process.
Tells(success, code) ==
    /\ argv # None =>
           /\ success <=> process.how = "exited" /\ process.code = 0
           /\ code = IF process.how = "exited" THEN process.code ELSE -1
    /\ argv = None =>
           /\ success => wire.payload = "deploy" \/ ~allow_exec
           /\ code = IF success THEN 0 ELSE -1

Truthful(o) == o.command_id = wire.spec.command_id /\ Tells(o.success, o.exit_code)

\* A command, phase by phase.
CommandInv ==
    /\ phase \in {"idle", "rest", "wire", "running", "ended", "report", "done"}
    /\ phase = "idle" => asked = None /\ request = None /\ ack = None
    /\ phase = "rest" => /\ request \in FsRequest \cup DeployRequest
                         /\ Faithful(asked, request)
    /\ phase \in {"idle", "rest"} => wire = None /\ outcome = None
    /\ phase \in {"idle", "rest", "wire"} => argv = None
    /\ phase # "done" => stored = None
    /\ phase \in {"wire", "running", "ended", "report"} => Ours \/ Theirs
    /\ phase = "done" => \/ wire = None /\ argv = None /\ stored = None
                         \/ Ours \/ Theirs
    /\ phase \in {"running", "ended"} => wire.payload = "fs" /\ argv # None
    /\ argv # None => /\ allow_exec /\ wire.payload = "fs"
                      /\ argv = build_argv(FsSpec(wire.spec)) /\ argv # Invalid
    /\ phase = "report" => Truthful(outcome)
    /\ stored # None => Truthful(stored)

\* Numbers and actions: a known action survives the wire, and only the number of
\* Format is a format.
LEMMA ActionFacts ==
    /\ \A a \in FsAction : /\ fs_action_to_pb(a) \in 0..6
                           /\ fs_action_from_pb(fs_action_to_pb(a)) = a
    /\ \A v : /\ fs_action_from_pb(v) \in FsAction
              /\ fs_action_from_pb(v) = "Format" => v = FsNumber["Format"]
  <1>1. \A a, b \in FsAction : FsNumber[a] = FsNumber[b] => a = b
    BY DEF FsAction, FsNumber
  <1>2. \A a \in FsAction : FsNumber[a] \in 0..6
    BY DEF FsAction, FsNumber
  <1>3. ASSUME NEW v
        PROVE  /\ fs_action_from_pb(v) \in FsAction
               /\ fs_action_from_pb(v) # "Mount" => FsNumber[fs_action_from_pb(v)] = v
    <2>1. CASE \E a \in FsAction : FsNumber[a] = v
      <3>1. PICK a \in FsAction : FsNumber[a] = v
        BY <2>1
      <3>2. fs_action_from_pb(v) = CHOOSE x \in FsAction : FsNumber[x] = v
        BY <2>1, Zenon DEF fs_action_from_pb
      <3> QED
        BY <3>1, <3>2
    <2>2. CASE ~ \E a \in FsAction : FsNumber[a] = v
      <3>1. fs_action_from_pb(v) = "Mount"
        BY <2>2, Zenon DEF fs_action_from_pb
      <3> QED
        BY <3>1 DEF FsAction
    <2> QED
      BY <2>1, <2>2
  <1>4. ASSUME NEW a \in FsAction
        PROVE  fs_action_from_pb(FsNumber[a]) = a
    <2>1. fs_action_from_pb(FsNumber[a]) = CHOOSE x \in FsAction : FsNumber[x] = FsNumber[a]
      BY Zenon DEF fs_action_from_pb
    <2> QED
      BY <1>1, <2>1
  <1> QED
    BY <1>2, <1>3, <1>4 DEF fs_action_to_pb, FsAction

\* What this daemon puts on the wire.
LEMMA OursFacts ==
    ASSUME Ours
    PROVE  /\ wire.payload \in {"fs", "deploy"}
           /\ wire.spec.command_id = IdOf(request)
           /\ wire.payload = "fs" =>
                  /\ request \in FsRequest /\ wire.spec \in FsPb
                  /\ wire.spec = FsToPb(request)
                  /\ FsSpec(wire.spec).action = request.action
                  /\ wire.spec.action = FsNumber[request.action]
  <1>1. request \in FsRequest \cup DeployRequest /\ wire = to_pb_command(request)
    BY DEF Ours
  <1>2. request.kind \in {"fs", "deploy"} /\ (request.kind = "fs" => request \in FsRequest)
    BY <1>1 DEF FsRequest, DeployRequest
  <1>3. /\ wire.payload = request.kind
        /\ request.kind = "fs" => wire.spec = FsToPb(request)
        /\ request.kind # "fs" => wire.spec = DeployToPb(request)
    BY <1>1 DEF to_pb_command
  <1>4. wire.spec.command_id = IdOf(request)
    BY <1>3 DEF FsToPb, DeployToPb
  <1>5. ASSUME request \in FsRequest, wire.spec = FsToPb(request)
        PROVE  /\ wire.spec \in FsPb
               /\ FsSpec(wire.spec).action = request.action
               /\ wire.spec.action = FsNumber[request.action]
    <2>1. IdOf(request) \in {"given", "generated"} /\ request.action \in FsAction
      BY <1>5 DEF IdOf, FsRequest
    <2>a. /\ request.device \in Text \cup {""} /\ request.mount_point \in Text
          /\ request.fs_type \in {"", "x"} /\ request.options \in {"", "x"}
          /\ request.force \in BOOLEAN
      BY <1>5 DEF FsRequest
    <2>b. fs_action_to_pb(request.action) \in 0..6
      BY <2>1, ActionFacts
    <2>2. /\ wire.spec \in FsPb /\ wire.spec.action = fs_action_to_pb(request.action)
      <3>1. FsToPb(request) \in FsPb
        BY <2>1, <2>a, <2>b, Zenon DEF FsToPb, FsPb
      <3>2. FsToPb(request).action = fs_action_to_pb(request.action)
        BY DEF FsToPb
      <3> QED
        BY <1>5, <3>1, <3>2
    <2>3. FsSpec(wire.spec).action = fs_action_from_pb(wire.spec.action)
      BY <2>2 DEF FsSpec, FsPb
    <2> QED
      BY <2>1, <2>2, <2>3, ActionFacts DEF fs_action_to_pb
  <1> QED
    BY <1>2, <1>3, <1>4, <1>5

\* What another daemon may put there.
LEMMA TheirsFacts ==
    ASSUME Theirs
    PROVE  /\ wire.payload \in {"fs", "deploy", "none"}
           /\ wire.payload = "fs" => wire.spec \in FsPb
  <1>1. wire \in FsCommand \cup DeployCommand \cup EmptyCommand
    BY DEF Theirs, Foreign
  <1>2. wire \in FsCommand => wire.payload = "fs" /\ wire.spec \in FsPb
    BY DEF FsCommand, FsPb
  <1>3. wire \in DeployCommand => wire.payload = "deploy"
    BY DEF DeployCommand
  <1>4. wire \in EmptyCommand => wire.payload = "none"
    BY DEF EmptyCommand
  <1> QED
    BY <1>1, <1>2, <1>3, <1>4

\* The first and the last element of a tuple, and of a line that ends in a pair.
LEMMA PairEnds ==
    /\ \A a, b : /\ Head(<<a, b>>) = a /\ <<a, b>>[Len(<<a, b>>)] = b
    /\ \A a, b, c : /\ Head(<<a, b, c>>) = a /\ <<a, b, c>>[Len(<<a, b, c>>)] = c
    /\ \A a, b, c, d : /\ Head(<<a, b, c, d>>) = a
                       /\ <<a, b, c, d>>[Len(<<a, b, c, d>>)] = d
  OBVIOUS

\* The same for the line of a mount, whose options are a program's own.
LEMMA Joined ==
    ASSUME NEW S, NEW first \in S, NEW p \in Seq(S), NEW q \in Seq(S),
           NEW x \in S, NEW last \in S,
           NEW line, line = ((<<first>> \o p) \o q) \o <<x, last>>
    PROVE  Head(line) = first /\ line[Len(line)] = last
  <1>1. /\ \A u, v \in Seq(S) : u \o v \in Seq(S) /\ Len(u \o v) = Len(u) + Len(v)
        /\ \A u, v \in Seq(S) : Len(u) >= 1 => (u \o v)[1] = u[1]
    BY ConcatProperties
  <1> DEFINE f == <<first>>
             z == <<x, last>>
  <1>2. f \in Seq(S) /\ Len(f) = 1 /\ f[1] = first
    OBVIOUS
  <1>3. z \in Seq(S) /\ Len(z) = 2 /\ z[2] = last
    OBVIOUS
  <1>a. line = ((f \o p) \o q) \o z
    OBVIOUS
  <1> HIDE DEF f, z
  <1>4. PICK h \in Seq(S) : h = f \o p
    BY <1>1, <1>2
  <1>5. Len(h) = Len(f) + Len(p) /\ h[1] = f[1] /\ Len(p) \in Nat
    <2>1. Len(f \o p) = Len(f) + Len(p) /\ Len(p) \in Nat
      BY <1>2, ConcatProperties, LenProperties
    <2>2. (f \o p)[1] = f[1]
      <3>1. f \in Seq(S) /\ Len(f) >= 1
        BY <1>2
      <3> QED
        BY <1>1, <3>1
    <2> QED
      BY <1>4, <2>1, <2>2
  <1>6. PICK g \in Seq(S) : g = h \o q
    BY <1>1
  <1>7. Len(g) \in Nat /\ Len(g) >= 1 /\ g[1] = first
    BY <1>1, <1>2, <1>5, <1>6
  <1>8. line = g \o z
    BY <1>4, <1>6, <1>a
  <1>9. line \in Seq(S) /\ Len(line) = Len(g) + Len(z) /\ line[1] = g[1]
    <2>1. g \o z \in Seq(S) /\ Len(g \o z) = Len(g) + Len(z)
      BY <1>1, <1>3
    <2>2. (g \o z)[1] = g[1]
      BY <1>1, <1>3, <1>7
    <2> QED
      BY <1>8, <2>1, <2>2
  <1>10. line[Len(g) + 2] = z[2]
    <2>1. /\ Len(g) + 2 \in 1..(Len(g) + Len(z)) /\ ~(Len(g) + 2 <= Len(g))
          /\ (Len(g) + 2) - Len(g) = 2
      BY <1>3, <1>7
    <2>2. (g \o z)[Len(g) + 2] = z[(Len(g) + 2) - Len(g)]
      BY <1>3, <2>1, ConcatProperties
    <2> QED
      BY <1>8, <2>1, <2>2
  <1> QED
    BY <1>3, <1>7, <1>9, <1>10

\* The program and the last argument of what the executor starts; mkfs needs
\* format and force (executor.rs build_argv).
LEMMA ArgvFacts ==
    ASSUME NEW s, s.action \in FsAction, build_argv(s) # Invalid
    PROVE  /\ Head(build_argv(s)) = ProgramFor(s.action)
           /\ build_argv(s)[Len(build_argv(s))] =
                  IF s.action \in {"Check", "Format"} THEN s.device ELSE s.mount_point
           /\ s.action \in {"Check", "Format"} => s.device # ""
           /\ s.action = "Format" => s.force
  <1>1. CASE s.action = "Mount"
    <2> DEFINE a == IF s.fs_type = "" THEN <<>> ELSE <<"-t", s.fs_type>>
               b == IF s.options = "" THEN <<>> ELSE <<"-o", s.options>>
    <2>1. build_argv(s) = ((<<"mount">> \o a) \o b) \o <<s.device, s.mount_point>>
      BY <1>1 DEF build_argv
    <2> DEFINE S == {"mount", "-t", "-o", s.fs_type, s.options, s.device, s.mount_point}
    <2>2. a \in Seq(S)
      <3>1. <<>> \in Seq(S) /\ <<"-t", s.fs_type>> \in Seq(S)
        OBVIOUS
      <3> QED
        BY <3>1, Zenon
    <2>3. b \in Seq(S)
      <3>1. <<>> \in Seq(S) /\ <<"-o", s.options>> \in Seq(S)
        OBVIOUS
      <3> QED
        BY <3>1, Zenon
    <2>4. "mount" \in S /\ s.device \in S /\ s.mount_point \in S
      OBVIOUS
    <2> HIDE DEF a, b, S
    <2>5. PICK line : line = build_argv(s)
      OBVIOUS
    <2>6. Head(line) = "mount" /\ line[Len(line)] = s.mount_point
      BY <2>1, <2>2, <2>3, <2>4, <2>5, Joined
    <2>7. ProgramFor(s.action) = "mount"
      BY <1>1 DEF ProgramFor
    <2> QED
      BY <1>1, <2>5, <2>6, <2>7
  <1>2. CASE s.action = "Unmount"
    <2>1. build_argv(s) = <<"umount", s.mount_point>>
      BY <1>2 DEF build_argv
    <2>2. ProgramFor(s.action) = "umount"
      BY <1>2 DEF ProgramFor
    <2> QED
      BY <1>2, <2>1, <2>2, PairEnds
  <1>3. CASE s.action = "Remount"
    <2>1. build_argv(s) = <<"mount", "-o", <<"remount", s.options>>, s.mount_point>>
      BY <1>3 DEF build_argv
    <2>2. ProgramFor(s.action) = "mount"
      BY <1>3 DEF ProgramFor
    <2> QED
      BY <1>3, <2>1, <2>2, PairEnds
  <1>4. CASE s.action = "Check"
    <2>1. build_argv(s) = <<"fsck", "-n", s.device>>
      BY <1>4 DEF build_argv
    <2>4. s.device # ""
      BY <1>4 DEF build_argv
    <2>2. ProgramFor(s.action) = "fsck"
      BY <1>4 DEF ProgramFor
    <2>3. Head(build_argv(s)) = "fsck" /\ build_argv(s)[Len(build_argv(s))] = s.device
      BY <2>1
    <2> QED
      BY <1>4, <2>2, <2>3, <2>4
  <1>5. CASE s.action = "Format"
    <2>1. build_argv(s) = FormatArgv(s)
      BY <1>5 DEF build_argv
    <2>2. ~(~s.force \/ s.device = "" \/ s.fs_type = "")
      BY <2>1, Zenon DEF FormatArgv
    <2>3. build_argv(s) = <<"mkfs", s.fs_type, s.device>>
      BY <2>1, <2>2, Zenon DEF FormatArgv
    <2>4. ProgramFor(s.action) = "mkfs"
      BY <1>5 DEF ProgramFor
    <2>5. Head(build_argv(s)) = "mkfs" /\ build_argv(s)[Len(build_argv(s))] = s.device
      BY <2>3
    <2> QED
      BY <1>5, <2>2, <2>4, <2>5
  <1> QED
    BY <1>1, <1>2, <1>3, <1>4, <1>5 DEF FsAction

\* The agent reads back every field but the action as it is.
LEMMA FsSpecFacts ==
    ASSUME NEW p \in FsPb
    PROVE  /\ FsSpec(p).action = fs_action_from_pb(p.action)
           /\ FsSpec(p).device = p.device
           /\ FsSpec(p).mount_point = p.mount_point
           /\ FsSpec(p).force = p.force
  BY DEF FsSpec, FsPb

\* Short sequences over a set.
LEMMA Words ==
    ASSUME NEW S, NEW a \in S, NEW b \in S, NEW c \in S, NEW d \in S
    PROVE  /\ <<>> \in Seq(S) /\ <<a>> \in Seq(S) /\ <<a, b>> \in Seq(S)
           /\ <<a, b, c>> \in Seq(S) /\ <<a, b, c, d>> \in Seq(S)
  OBVIOUS

\* A command line is never mistaken for no command line.
LEMMA LineIsNotNone ==
    ASSUME NEW p \in FsPb
    PROVE  build_argv(FsSpec(p)) # None
  <1>1. PICK s : s = FsSpec(p)
    OBVIOUS
  <1>2. s.action \in FsAction
    BY <1>1, FsSpecFacts, ActionFacts
  <1>4. /\ s.device \in Text \cup {""} /\ s.mount_point \in Text
        /\ s.fs_type \in {"", "x"} /\ s.options \in {"", "x"}
    BY <1>1 DEF FsPb, FsSpec
  <1>5. <<"remount", s.options>> \in Word
    <2>1. <<"remount", s.options>> \in Seq({"remount", "", "x"})
      <3> DEFINE P == {"remount", "", "x"}
      <3>1. "remount" \in P /\ s.options \in P
        BY <1>4
      <3> HIDE DEF P
      <3>2. <<"remount", s.options>> \in Seq(P)
        BY <3>1, Words
      <3> QED
        BY <3>2 DEF P
    <2> QED
      BY <2>1 DEF Word
  <1>7. /\ s.device \in Word /\ s.mount_point \in Word /\ s.fs_type \in Word
        /\ s.options \in Word /\ "mount" \in Word /\ "-t" \in Word /\ "-o" \in Word
        /\ "umount" \in Word /\ "fsck" \in Word /\ "-n" \in Word /\ "mkfs" \in Word
    BY <1>4 DEF Word
  <1>3. build_argv(s) \in Seq(Word)
    <2>1. CASE s.action = "Mount"
      <3> DEFINE a == IF s.fs_type = "" THEN <<>> ELSE <<"-t", s.fs_type>>
                 b == IF s.options = "" THEN <<>> ELSE <<"-o", s.options>>
      <3>1. /\ <<>> \in Seq(Word) /\ <<"mount">> \in Seq(Word)
            /\ <<s.device, s.mount_point>> \in Seq(Word)
            /\ <<"-t", s.fs_type>> \in Seq(Word) /\ <<"-o", s.options>> \in Seq(Word)
        BY <1>7, Words
      <3>2. a \in Seq(Word) /\ b \in Seq(Word)
        BY <3>1, Zenon
      <3>3. build_argv(s) \in {<<>>, ((<<"mount">> \o a) \o b) \o <<s.device, s.mount_point>>}
        BY <2>1 DEF build_argv, Invalid
      <3> HIDE DEF a, b
      <3>4. (<<"mount">> \o a) \in Seq(Word)
        BY <3>1, <3>2, ConcatProperties
      <3>5. ((<<"mount">> \o a) \o b) \in Seq(Word)
        BY <3>2, <3>4, ConcatProperties
      <3>6. ((<<"mount">> \o a) \o b) \o <<s.device, s.mount_point>> \in Seq(Word)
        BY <3>1, <3>5, ConcatProperties
      <3> QED
        BY <3>1, <3>3, <3>6
    <2>2. CASE s.action = "Unmount"
      <3>1. <<>> \in Seq(Word) /\ <<"umount", s.mount_point>> \in Seq(Word)
        BY <1>7, Words
      <3>2. build_argv(s) \in {<<>>, <<"umount", s.mount_point>>}
        BY <2>2 DEF build_argv, Invalid
      <3> QED
        BY <3>1, <3>2, Zenon
    <2>3. CASE s.action = "Remount"
      <3>2. /\ <<>> \in Seq(Word)
            /\ <<"mount", "-o", <<"remount", s.options>>, s.mount_point>> \in Seq(Word)
        BY <1>5, <1>7, Words
      <3>3. build_argv(s) \in {<<>>, <<"mount", "-o", <<"remount", s.options>>, s.mount_point>>}
        BY <2>3 DEF build_argv, Invalid
      <3> QED
        BY <3>2, <3>3, Zenon
    <2>4. CASE s.action = "Check"
      <3>1. <<>> \in Seq(Word) /\ <<"fsck", "-n", s.device>> \in Seq(Word)
        BY <1>7, Words
      <3>2. build_argv(s) \in {<<>>, <<"fsck", "-n", s.device>>}
        BY <2>4 DEF build_argv, Invalid
      <3> QED
        BY <3>1, <3>2, Zenon
    <2>5. CASE s.action = "Format"
      <3>1. <<>> \in Seq(Word) /\ <<"mkfs", s.fs_type, s.device>> \in Seq(Word)
        BY <1>7, Words
      <3>2. build_argv(s) \in {<<>>, <<"mkfs", s.fs_type, s.device>>}
        BY <2>5 DEF build_argv, FormatArgv, Invalid
      <3> QED
        BY <3>1, <3>2, Zenon
    <2> QED
      BY <1>2, <2>1, <2>2, <2>3, <2>4, <2>5 DEF FsAction
  <1> QED
    BY <1>1, <1>3, ExecAssumption, Zenon

\* The agent answers a deployment under the id it came with.
LEMMA DeployIdFacts ==
    ASSUME Ours \/ Theirs, wire.payload = "deploy"
    PROVE  DeploySpec(wire.spec).command_id = wire.spec.command_id
  <1>1. CASE Ours
    <2>1. wire.spec = DeployToPb(request)
      BY <1>1 DEF Ours, to_pb_command
    <2> QED
      BY <2>1 DEF DeployToPb, DeploySpec
  <1>2. CASE Theirs
    <2>1. wire \in DeployCommand
      BY <1>2 DEF Theirs, Foreign, FsCommand, EmptyCommand
    <2>2. wire.spec \in [command_id : {"given"}, action : 0..5, component : Text]
      BY <2>1 DEF DeployCommand
    <2> QED
      BY <2>2 DEF DeploySpec
  <1> QED
    BY <1>1, <1>2

\* A body with every key serde insists on, from a client or from the CLI.
FsPosted == [kind : {"fs"}, id : {None, "given"}, action : FsAction,
             device : Text \cup {"", None}, mount_point : Text,
             fs_type : {"", "x", None}, options : {"", "x", None},
             force : {TRUE, None}]

\* serde's defaults add neither a device nor force to it.
LEMMA FsDecoded ==
    ASSUME NEW b \in FsPosted
    PROVE  /\ DecodedBody(b) \in FsRequest
           /\ DecodedBody(b).action = b.action
           /\ DecodedBody(b).mount_point = b.mount_point
           /\ DecodedBody(b).device = Or(b.device, "")
           /\ DecodedBody(b).force => b.force = TRUE
  <1> DEFINE d == Or(b.device, "")
             t == Or(b.fs_type, "")
             o == Or(b.options, "")
             f == Or(b.force, FALSE)
             r == [kind |-> "fs", id |-> b.id, action |-> b.action, device |-> d,
                   mount_point |-> b.mount_point, fs_type |-> t, options |-> o,
                   force |-> f]
  <1>1. /\ b.id \in {None, "given"} /\ b.action \in FsAction /\ b.mount_point \in Text
        /\ b.kind = "fs"
    BY DEF FsPosted
  <1>2. /\ d \in Text \cup {""} /\ t \in {"", "x"} /\ o \in {"", "x"} /\ f \in BOOLEAN
        /\ f => b.force = TRUE
    BY DEF FsPosted, Or
  <1>3. DecodedBody(b) = [b EXCEPT !.device = d, !.fs_type = t, !.options = o, !.force = f]
    BY <1>1 DEF DecodedBody
  <1> HIDE DEF d, t, o, f
  <1>4. DecodedBody(b) = r
    BY <1>1, <1>3 DEF FsPosted
  <1>5. "fs" \in {"fs"}
    OBVIOUS
  <1>6. r \in FsRequest
    BY <1>1, <1>2, <1>5, Zenon DEF FsRequest
  <1>7. r.action = b.action /\ r.mount_point = b.mount_point /\ r.device = d /\ r.force = f
    OBVIOUS
  <1> HIDE DEF r
  <1> QED
    BY <1>2, <1>4, <1>6, <1>7 DEF d

\* The same for a deployment: serde's default for its action is Install.
LEMMA DeployDecoded ==
    ASSUME NEW i \in {None, "given"}, NEW a \in DeployAction \cup {None},
           NEW c \in Text, NEW b,
           b = [kind |-> "deploy", id |-> i, action |-> a, component |-> c]
    PROVE  DecodedBody(b) \in DeployRequest /\ DecodedBody(b).kind = "deploy"
  <1>1. Or(a, "Install") \in DeployAction
    BY DEF Or, DeployAction
  <1> DEFINE r == [kind |-> "deploy", id |-> i, action |-> Or(a, "Install"),
                   component |-> c]
  <1>2. b.kind = "deploy" /\ b.action = a
    OBVIOUS
  <1>3. DecodedBody(b) = [b EXCEPT !.action = Or(a, "Install")]
    BY <1>2 DEF DecodedBody
  <1>4. DecodedBody(b) = r
    BY <1>3
  <1>5. "deploy" \in {"deploy"}
    OBVIOUS
  <1>6. r \in DeployRequest /\ r.kind = "deploy"
    BY <1>1, <1>5, Zenon DEF DeployRequest
  <1> HIDE DEF r
  <1> QED
    BY <1>4, <1>6

\* What the daemon takes a client's body to say.
LEMMA BodyDecoded ==
    ASSUME NEW b \in FsBody \cup DeployBody, Decodes(b)
    PROVE  /\ DecodedBody(b) \in FsRequest \cup DeployRequest
           /\ Faithful(b, DecodedBody(b))
  <1>1. CASE b \in FsBody
    <2>1. b \in FsPosted
      <3>1. /\ b.kind \in {"fs"} /\ b.id \in {None, "given"} /\ b.action \in FsAction
            /\ b.device \in Text \cup {"", None} /\ b.mount_point \in Text
            /\ b.fs_type \in {"", "x", None} /\ b.options \in {"", "x", None}
            /\ b.force \in {TRUE, None}
        BY <1>1 DEF FsBody, Decodes, Maybe
      <3>2. b = [kind |-> b.kind, id |-> b.id, action |-> b.action,
                 device |-> b.device, mount_point |-> b.mount_point,
                 fs_type |-> b.fs_type, options |-> b.options, force |-> b.force]
        BY <1>1 DEF FsBody
      <3> QED
        BY <3>1, <3>2 DEF FsPosted
    <2>2. Or(b.device, "") # "" => Or(b.device, "") = b.device
      BY DEF Or
    <2> QED
      BY <2>1, <2>2, FsDecoded DEF Faithful
  <1>2. CASE b \in DeployBody
    <2>1. /\ b.id \in {None, "given"} /\ b.action \in DeployAction \cup {None}
          /\ b.component \in Text
      BY <1>2 DEF DeployBody, Decodes, Maybe
    <2>2. b = [kind |-> "deploy", id |-> b.id, action |-> b.action,
               component |-> b.component]
      BY <1>2 DEF DeployBody
    <2>3. DecodedBody(b) \in DeployRequest /\ DecodedBody(b).kind = "deploy"
      BY <2>1, <2>2, DeployDecoded
    <2> QED
      BY <2>3 DEF Faithful
  <1> QED
    BY <1>1, <1>2

\* The CLI's body for a command line decodes to what the line means.
LEMMA LineDecoded ==
    ASSUME NEW l \in CliLine
    PROVE  /\ DecodedBody(cli_body(l)) \in FsRequest \cup DeployRequest
           /\ Faithful(Meaning(l), DecodedBody(cli_body(l)))
  <1> DEFINE r == DecodedBody(cli_body(l))
             a == Meaning(l)
  <1>1. CASE l.verb = "mount"
    <2>1. /\ l.device \in Text /\ l.mount_point \in Text
          /\ l.fs_type \in {"", "x"} /\ l.options \in {"", "x"}
      BY <1>1 DEF CliLine
    <2>2. cli_body(l) = mount_body(l)
      BY <1>1 DEF cli_body
    <2>3. a = [action |-> "Mount", device |-> l.device,
               mount_point |-> l.mount_point, force |-> FALSE]
      BY <1>1 DEF Meaning
    <2>4. a.action = "Mount" /\ a.device = l.device /\ a.mount_point = l.mount_point
      BY <2>3
    <2>5. mount_body(l) \in FsPosted
      <3>1. /\ "fs" \in {"fs"} /\ None \in {None, "given"} /\ "Mount" \in FsAction
            /\ l.device \in Text \cup {"", None} /\ l.fs_type \in {"", "x", None}
            /\ l.options \in {"", "x", None} /\ None \in {TRUE, None}
        BY <2>1 DEF FsAction
      <3> QED
        BY <2>1, <3>1, Zenon DEF mount_body, FsPosted
    <2>6. /\ mount_body(l).action = "Mount" /\ mount_body(l).device = l.device
          /\ mount_body(l).mount_point = l.mount_point /\ mount_body(l).force = None
      BY DEF mount_body
    <2>7. None # TRUE
      BY ExecAssumption
    <2>8. /\ r \in FsRequest /\ r.action = "Mount" /\ r.mount_point = l.mount_point
          /\ r.device = Or(l.device, "") /\ ~r.force
      BY <2>2, <2>5, <2>6, <2>7, FsDecoded
    <2>9. Or(l.device, "") # "" => Or(l.device, "") = l.device
      BY DEF Or
    <2> QED
      BY <2>4, <2>8, <2>9 DEF Faithful
  <1>2. CASE l.verb = "unmount"
    <2>1. l.mount_point \in Text
      BY <1>2 DEF CliLine
    <2>2. cli_body(l) = unmount_body(l)
      BY <1>2 DEF cli_body
    <2>3. a = [action |-> "Unmount", device |-> "",
               mount_point |-> l.mount_point, force |-> FALSE]
      BY <1>2 DEF Meaning
    <2>4. a.action = "Unmount" /\ a.mount_point = l.mount_point
      <3>1. [action |-> "Unmount", device |-> "",
             mount_point |-> l.mount_point, force |-> FALSE].action = "Unmount"
        OBVIOUS
      <3>2. [action |-> "Unmount", device |-> "",
             mount_point |-> l.mount_point, force |-> FALSE].mount_point = l.mount_point
        OBVIOUS
      <3> QED
        BY <2>3, <3>1, <3>2
    <2>5. unmount_body(l) \in FsPosted
      <3>1. /\ "fs" \in {"fs"} /\ None \in {None, "given"} /\ "Unmount" \in FsAction
            /\ None \in Text \cup {"", None} /\ None \in {"", "x", None}
            /\ None \in {TRUE, None}
        BY DEF FsAction
      <3> QED
        BY <2>1, <3>1, Zenon DEF unmount_body, FsPosted
    <2>6. /\ unmount_body(l).action = "Unmount" /\ unmount_body(l).device = None
          /\ unmount_body(l).mount_point = l.mount_point /\ unmount_body(l).force = None
      BY DEF unmount_body
    <2>7. None # TRUE /\ Or(None, "") = ""
      BY ExecAssumption DEF Or
    <2>8. /\ r \in FsRequest /\ r.action = "Unmount" /\ r.mount_point = l.mount_point
          /\ r.device = "" /\ ~r.force
      BY <2>2, <2>5, <2>6, <2>7, FsDecoded
    <2> QED
      BY <2>4, <2>8 DEF Faithful
  <1>3. CASE l.verb = "deploy"
    <2>1. l.component \in Text /\ l.action \in DeployAction
      BY <1>3 DEF CliLine
    <2>2. cli_body(l) = deploy_body(l)
      BY <1>3 DEF cli_body
    <2>3. r \in DeployRequest /\ r.kind = "deploy"
      BY <2>1, <2>2, DeployDecoded DEF deploy_body
    <2> QED
      BY <2>3 DEF Faithful
  <1> QED
    BY <1>1, <1>2, <1>3 DEF CliLine

\* A step of a command leaves the sample alone.
LEMMA SampleStutter ==
    ASSUME SampleInv, UNCHANGED sampling
    PROVE  SampleInv'
  BY DEF SampleInv, Sent, Registered, sampling

\* And the other way round.
LEMMA CommandStutter ==
    ASSUME CommandInv, UNCHANGED vars
    PROVE  CommandInv'
  <1>1. UNCHANGED <<allow_exec, phase, asked, request, ack, wire, argv, process,
                    outcome, stored>>
    BY DEF vars, command
  <1>2. /\ Ours' <=> Ours
        /\ Theirs' <=> Theirs
    BY <1>1 DEF Ours, Theirs, Faithful, RestAccepts
  <1>3. /\ Truthful(outcome)' <=> Truthful(outcome)
        /\ Truthful(stored)' <=> Truthful(stored)
    BY <1>1 DEF Truthful, Tells
  <1>4. Faithful(asked, request)' <=> Faithful(asked, request)
    BY <1>1 DEF Faithful
  <1> QED
    BY <1>1, <1>2, <1>3, <1>4 DEF CommandInv

\* Nothing has been asked for yet.
LEMMA InitCommand ==
    ASSUME Init
    PROVE  CommandInv
  BY DEF Init, CommandInv

\* A body, from a client or from the CLI.
LEMMA PostCommand ==
    ASSUME CommandInv, NEW b, Post(b),
           Decodes(b) => /\ DecodedBody(b) \in FsRequest \cup DeployRequest
                         /\ Faithful(asked', DecodedBody(b))
    PROVE  CommandInv'
  <1>1. /\ phase = "idle" /\ wire = None /\ argv = None /\ stored = None
        /\ outcome = None
        /\ UNCHANGED <<ack, wire, argv, outcome, stored>>
    BY DEF Post, CommandInv
  <1>2. CASE Decodes(b) /\ request' = DecodedBody(b) /\ phase' = "rest"
    BY <1>1, <1>2 DEF CommandInv, Faithful
  <1>3. CASE ~Decodes(b) /\ phase' = "done"
    BY <1>1, <1>3 DEF CommandInv
  <1> QED
    BY <1>2, <1>3 DEF Post

\* An outcome the executor makes, and what it leaves alone.
LEMMA FinishCommand ==
    ASSUME CommandInv, phase \in {"wire", "ended"},
           NEW success, NEW code, Tells(success, code),
           Finish(wire.spec.command_id, success, code),
           UNCHANGED <<allow_exec, asked, request, ack, wire, argv, process, stored>>
    PROVE  CommandInv'
  <1>1. /\ outcome' = OutcomeOf(wire.spec.command_id, success, code)
        /\ phase' = "report"
    BY DEF Finish
  <1>2. /\ outcome'.command_id = wire.spec.command_id
        /\ outcome'.success = success /\ outcome'.exit_code = code
    BY <1>1 DEF OutcomeOf
  <1>3. Truthful(outcome)'
    BY <1>2 DEF Truthful, Tells
  <1>4. (Ours \/ Theirs)'
    BY DEF CommandInv, Ours, Theirs, Faithful, RestAccepts
  <1> QED
    BY <1>1, <1>3, <1>4 DEF CommandInv

\* The end of a process, which nobody has told of yet.
LEMMA EndsCommand ==
    ASSUME CommandInv, NEW how, NEW code, Ends(how, code)
    PROVE  CommandInv'
  <1>1. /\ phase = "running" /\ phase' = "ended"
        /\ UNCHANGED <<allow_exec, asked, request, ack, wire, argv, outcome, stored>>
    BY DEF Ends
  <1>2. (Ours \/ Theirs)'
    BY <1>1 DEF CommandInv, Ours, Theirs, Faithful, RestAccepts
  <1> QED
    BY <1>1, <1>2 DEF CommandInv

\* Every step of a command keeps the invariant.
LEMMA NextCommand ==
    ASSUME CommandInv, Next
    PROVE  CommandInv'
  <1>1. ASSUME NEW b \in FsBody \cup DeployBody, Submit(b)
        PROVE  CommandInv'
    BY <1>1, BodyDecoded, PostCommand DEF Submit
  <1>2. ASSUME NEW l \in CliLine, CliSubmit(l)
        PROVE  CommandInv'
    BY <1>2, LineDecoded, PostCommand DEF CliSubmit
  <1>3. ASSUME NEW w \in Foreign, ForeignCommand(w)
        PROVE  CommandInv'
    BY <1>3 DEF ForeignCommand, CommandInv, Theirs
  <1>4. ASSUME NEW code \in {0, 1}, ProcessExits(code)
        PROVE  CommandInv'
    BY <1>4, EndsCommand DEF ProcessExits
  <1>5. CASE Refuse
    BY <1>5 DEF Refuse, command, CommandInv
  <1>6. CASE Dispatch
    <2>1. /\ phase = "rest" /\ phase' = "wire" /\ argv = None /\ stored = None
          /\ UNCHANGED <<argv, outcome, stored>>
      BY <1>6 DEF Dispatch, CommandInv
    <2>2. Ours'
      BY <1>6 DEF Dispatch, CommandInv, Ours, Faithful, RestAccepts
    <2> QED
      BY <2>1, <2>2 DEF CommandInv
  <1>7. CASE HandleDeploy
    <2>1. DeploySpec(wire.spec).command_id = wire.spec.command_id
      BY <1>7, DeployIdFacts DEF HandleDeploy, CommandInv
    <2>2. Tells(TRUE, 0)
      BY <1>7 DEF HandleDeploy, CommandInv, Tells
    <2> QED
      BY <1>7, <2>1, <2>2, FinishCommand DEF HandleDeploy
  <1>8. CASE HandleFs
    <2> DEFINE line == build_argv(FsSpec(wire.spec))
    <2>1. /\ phase = "wire" /\ wire.payload = "fs"
          /\ UNCHANGED <<allow_exec, asked, request, ack, wire, process, stored>>
      BY <1>8 DEF HandleFs
    <2>2. CASE Finish(wire.spec.command_id, FALSE, -1) /\ UNCHANGED argv
      <3>1. Tells(FALSE, -1)
        BY <2>1 DEF CommandInv, Tells
      <3> QED
        BY <2>1, <2>2, <3>1, FinishCommand
    <2>3. CASE ~allow_exec /\ Finish(wire.spec.command_id, TRUE, 0) /\ UNCHANGED argv
      <3>1. Tells(TRUE, 0)
        BY <2>1, <2>3 DEF CommandInv, Tells
      <3> QED
        BY <2>1, <2>3, <3>1, FinishCommand
    <2>4. CASE /\ line # Invalid /\ allow_exec /\ argv' = line
               /\ phase' = "running" /\ UNCHANGED outcome
      <3>1. (Ours \/ Theirs)'
        BY <2>1 DEF CommandInv, Ours, Theirs, Faithful, RestAccepts
      <3>2. stored' = None
        BY <2>1 DEF CommandInv
      <3>3. line' = line
        BY <2>1
      <3> HIDE DEF line
      <3>4. allow_exec' /\ wire'.payload = "fs" /\ argv' = line' /\ argv' # Invalid
        BY <2>1, <2>4, <3>3
      <3>5. argv' # None
        <4>1. wire.spec \in FsPb
          BY <2>1, OursFacts, TheirsFacts DEF CommandInv
        <4> QED
          BY <2>4, <4>1, LineIsNotNone DEF line
      <3> QED
        BY <2>4, <3>1, <3>2, <3>4, <3>5 DEF CommandInv, line
    <2> QED
      BY <1>8, <2>2, <2>3, <2>4 DEF HandleFs
  <1>9. CASE HandleEmpty
    BY <1>9 DEF HandleEmpty, command, CommandInv, Ours, Theirs, Faithful, RestAccepts
  <1>10. CASE SpawnFails \/ ProcessKilled
    BY <1>10, EndsCommand DEF SpawnFails, ProcessKilled
  <1>13. CASE RunFsEnds
    <2>1. phase = "ended" /\ argv # None
      BY <1>13 DEF RunFsEnds, CommandInv
    <2>2. Tells(Succeeded(process), ExitCode(process))
      BY <2>1 DEF Tells, Succeeded, ExitCode
    <2> QED
      BY <1>13, <2>1, <2>2, FinishCommand DEF RunFsEnds
  <1>11. CASE Report
    <2>1. /\ phase = "report" /\ phase' = "done"
          /\ stored' = CommandOutcome(CommandResult(outcome))
          /\ UNCHANGED <<allow_exec, asked, request, ack, wire, argv, process, outcome>>
      BY <1>11 DEF Report
    <2>2. /\ stored'.command_id = outcome.command_id
          /\ stored'.success = outcome.success /\ stored'.exit_code = outcome.exit_code
      BY <2>1 DEF CommandOutcome, CommandResult
    <2>3. Truthful(stored)'
      BY <2>1, <2>2 DEF CommandInv, Truthful, Tells
    <2>4. (Ours \/ Theirs)'
      BY <2>1 DEF CommandInv, Ours, Theirs, Faithful, RestAccepts
    <2> QED
      BY <2>1, <2>3, <2>4 DEF CommandInv
  <1>12. CASE Settle
    BY <1>12 DEF Settle, CommandInv
  <1> QED
    BY <1>1, <1>2, <1>3, <1>4, <1>5, <1>6, <1>7, <1>8, <1>9, <1>10, <1>11, <1>12,
       <1>13
       DEF Next

\* What a started process is, whoever sent the command.
LEMMA StartedFacts ==
    ASSUME CommandInv, argv # None
    PROVE  /\ allow_exec /\ wire.payload = "fs" /\ wire.spec \in FsPb
           /\ Ours \/ Theirs
           /\ Head(argv) = ProgramFor(fs_action_from_pb(wire.spec.action))
           /\ argv[Len(argv)] =
                  IF fs_action_from_pb(wire.spec.action) \in {"Check", "Format"}
                  THEN wire.spec.device ELSE wire.spec.mount_point
           /\ fs_action_from_pb(wire.spec.action) \in {"Check", "Format"} =>
                  wire.spec.device # ""
           /\ fs_action_from_pb(wire.spec.action) = "Format" => wire.spec.force
  <1>1. /\ allow_exec /\ wire.payload = "fs" /\ argv = build_argv(FsSpec(wire.spec))
        /\ argv # Invalid /\ (Ours \/ Theirs)
    BY DEF CommandInv
  <1>2. wire.spec \in FsPb
    BY <1>1, OursFacts, TheirsFacts
  <1>3. PICK s : s = FsSpec(wire.spec)
    OBVIOUS
  <1>4. /\ s.action = fs_action_from_pb(wire.spec.action) /\ s.action \in FsAction
        /\ s.device = wire.spec.device /\ s.mount_point = wire.spec.mount_point
        /\ s.force = wire.spec.force
    BY <1>2, <1>3, FsSpecFacts, ActionFacts
  <1>5. /\ Head(argv) = ProgramFor(s.action)
        /\ argv[Len(argv)] =
               IF s.action \in {"Check", "Format"} THEN s.device ELSE s.mount_point
        /\ s.action \in {"Check", "Format"} => s.device # ""
        /\ s.action = "Format" => s.force
    BY <1>1, <1>3, <1>4, ArgvFacts
  <1> QED
    BY <1>1, <1>2, <1>4, <1>5

\* mkfs is run for a format and for nothing else.
LEMMA OnlyMkfs ==
    ASSUME NEW a \in FsAction, ProgramFor(a) = "mkfs"
    PROVE  a = "Format"
  BY DEF ProgramFor, FsAction

\* Only a forced format makes a file system (FormatIsForced).
LEMMA ForcedHeld ==
    ASSUME CommandInv
    PROVE  FormatIsForced
  <1>1. ASSUME argv # None, Head(argv) = "mkfs"
        PROVE  wire.spec.action = FsNumber["Format"] /\ wire.spec.force
    <2>1. fs_action_from_pb(wire.spec.action) \in FsAction
      BY ActionFacts
    <2>2. fs_action_from_pb(wire.spec.action) = "Format"
      BY <1>1, <2>1, StartedFacts, OnlyMkfs
    <2> QED
      BY <1>1, <2>2, StartedFacts, ActionFacts
  <1>2. ASSUME asked # None, wire # None, wire.payload = "fs",
               wire.spec.action = FsNumber["Format"]
        PROVE  wire.spec.force
    <2>1. Ours
      BY <1>2 DEF CommandInv, Theirs
    <2>2. request \in FsRequest /\ wire.spec = FsToPb(request)
          /\ wire.spec.action = FsNumber[request.action]
      BY <1>2, <2>1, OursFacts
    <2>3. request.kind = "fs" /\ request.action \in FsAction
      BY <2>2 DEF FsRequest
    <2>4. request.action = "Format"
      BY <1>2, <2>2, <2>3 DEF FsNumber, FsAction
    <2>5. request.force
      BY <2>1, <2>3, <2>4 DEF Ours, RestAccepts
    <2> QED
      BY <2>2, <2>5 DEF FsToPb
  <1> QED
    BY <1>1, <1>2, StartedFacts DEF FormatIsForced

\* What runs is what was asked for (RunsWhatWasAsked).
LEMMA AskedHeld ==
    ASSUME CommandInv
    PROVE  RunsWhatWasAsked
  <1> SUFFICES ASSUME asked # None, argv # None
               PROVE  /\ Head(argv) = ProgramFor(asked.action)
                      /\ argv[Len(argv)] = IF asked.action \in {"Check", "Format"}
                                           THEN asked.device ELSE asked.mount_point
                      /\ wire.spec.force => asked.force = TRUE
    BY DEF RunsWhatWasAsked
  <1>1. Ours /\ wire.payload = "fs"
    BY StartedFacts DEF Theirs
  <1>2. /\ request \in FsRequest /\ wire.spec = FsToPb(request)
        /\ FsSpec(wire.spec).action = request.action /\ wire.spec \in FsPb
    BY <1>1, OursFacts
  <1>3. fs_action_from_pb(wire.spec.action) = request.action
    BY <1>2, FsSpecFacts
  <1>4. /\ wire.spec.device = request.device
        /\ wire.spec.mount_point = request.mount_point
        /\ wire.spec.force = request.force
    BY <1>2 DEF FsToPb
  <1>5. request.kind = "fs"
    BY <1>2 DEF FsRequest
  <1>6. /\ request.action = asked.action /\ request.mount_point = asked.mount_point
        /\ request.device # "" => request.device = asked.device
        /\ request.force => asked.force = TRUE
    BY <1>1, <1>5 DEF Ours, Faithful
  <1>7. /\ Head(argv) = ProgramFor(request.action)
        /\ argv[Len(argv)] = IF request.action \in {"Check", "Format"}
                             THEN request.device ELSE request.mount_point
        /\ request.action \in {"Check", "Format"} => request.device # ""
    BY <1>3, <1>4, StartedFacts
  <1> QED
    BY <1>4, <1>6, <1>7

\* The audit log says what happened (OutcomeIsTruthful).
LEMMA OutcomeHeld ==
    ASSUME CommandInv
    PROVE  OutcomeIsTruthful
  <1> SUFFICES ASSUME stored # None
               PROVE  /\ ack # None => stored.command_id = ack
                      /\ request # None /\ request.id # None =>
                             stored.command_id = request.id
                      /\ Tells(stored.success, stored.exit_code)
    BY DEF OutcomeIsTruthful, Tells
  <1>1. Truthful(stored) /\ (Ours \/ Theirs)
    BY DEF CommandInv
  <1>2. CASE Theirs
    BY <1>1, <1>2 DEF Theirs, Truthful
  <1>3. CASE Ours
    <2>1. stored.command_id = IdOf(request) /\ ack \in {IdOf(request), None}
      BY <1>1, <1>3, OursFacts DEF Truthful, Ours
    <2> QED
      BY <1>1, <2>1 DEF Truthful, IdOf
  <1> QED
    BY <1>1, <1>2, <1>3

-----------------------------------------------------------------------------
(* The theorems. *)

IInv == SampleInv /\ CommandInv

\* Both halves of the invariant hold whichever kind of exchange comes next.
THEOREM InductiveInvariant == WireSpec => []IInv
  <1>1. WireInit => IInv
    BY InitSample, InitCommand DEF WireInit, IInv
  <1>2. IInv /\ [WireNext]_<<vars, sampling>> => IInv'
    <2> SUFFICES ASSUME IInv, [WireNext]_<<vars, sampling>>
                 PROVE  IInv'
      OBVIOUS
    <2>1. CASE CommandStep
      BY <2>1, NextCommand, SampleStutter DEF CommandStep, IInv
    <2>2. CASE SampleStep
      BY <2>2, NextSample, CommandStutter DEF SampleStep, IInv
    <2>3. CASE UNCHANGED <<vars, sampling>>
      BY <2>3, SampleStutter, CommandStutter DEF IInv
    <2> QED
      BY <2>1, <2>2, <2>3 DEF WireNext
  <1> QED
    BY <1>1, <1>2, PTL DEF WireSpec

\* What the daemon holds of a node is what the agent said of its machine, and a
\* part another version leaves out reads as zero (grpc.rs, proto.rs).
THEOREM SamplesArrive == WireSpec => []SampleArrives
  <1>1. IInv => SampleArrives
    BY SampleHeld DEF IInv
  <1> QED
    BY <1>1, InductiveInvariant, PTL

\* Daemon and monitor both judge the machine as it is (state.rs classify,
\* health.rs evaluate), for every resolution of the fractions.
THEOREM VerdictsRight == WireSpec => []VerdictsMatchMachine
  <1>1. IInv => VerdictsMatchMachine
    BY VerdictsHeld DEF IInv
  <1> QED
    BY <1>1, InductiveInvariant, PTL

\* No file system is made without format and force, whatever daemon or client
\* asks for it (executor.rs build_argv, api.rs fs_command).
THEOREM FormatForced == WireSpec => []FormatIsForced
  <1>1. IInv => FormatIsForced
    BY ForcedHeld DEF IInv
  <1> QED
    BY <1>1, InductiveInvariant, PTL

\* The process is the one that was asked for, on what was named, from the CLI or
\* a client's body through both programs' conversions to the executor.
THEOREM AskedIsRun == WireSpec => []RunsWhatWasAsked
  <1>1. IInv => RunsWhatWasAsked
    BY AskedHeld DEF IInv
  <1> QED
    BY <1>1, InductiveInvariant, PTL

\* The audit log names the command by the id the client knows and tells what
\* became of its process: success exactly if it exited with code 0, -1 if it was
\* killed or never started (executor.rs run_fs, grpc.rs report_command_result).
THEOREM OutcomeTruthful == WireSpec => []OutcomeIsTruthful
  <1>1. IInv => OutcomeIsTruthful
    BY OutcomeHeld DEF IInv
  <1> QED
    BY <1>1, InductiveInvariant, PTL
=============================================================================
