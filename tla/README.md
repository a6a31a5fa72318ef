# A TLA+ verification project for hpc

hpc is a control plane for a cluster of storage and compute nodes: a daemon that
keeps the state of the cluster, an agent on every node, a monitor that exports
metrics, and tools for benchmarks and diagnostics.  This directory holds TLA+
models of its parts, TLC runs that check them on small instances, abstract
specifications of what the daemon's two cores promise, and TLAPS proofs about
every one of the models.  All safety properties that the runs check are proved for
every value of the constants, that both cores implement their abstract
specifications among them; liveness is model-checked.

`PROJECT.json` maps every definition to the lines it models, lists the runs,
the mutants that show each property can fail, the finding, the hazards, and the
theorems.

## 1. Inventory of the system

| component | state it keeps | operations | talks to |
|---|---|---|---|
| cluster state (`hpc-daemon/src/state.rs`) | node table and command-channel table behind two `RwLock`s, epoch | register, ingest metrics, heartbeat, reap, attach/detach channel, dispatch, deregister, record outcome | store; called by gRPC, REST and the reaper |
| store (`store.rs`) | redb file: nodes, outcomes | put, delete, load | cluster state |
| gRPC service (`grpc.rs`) | one bridge task per command stream | RegisterNode, Heartbeat, ReportMetrics, StreamCommands, ReportCommandResult | agents |
| REST API (`api.rs`) | none | status, nodes, deregister, deploy, fs, outcomes | CLI, monitor |
| reaper (`main.rs`) | a ticker | mark silent nodes Unreachable | cluster state |
| agent session (`hpc-agent/src/client.rs`) | epoch, backoff, two timers | connect, register, stream, report, heartbeat, run a command, reconnect | daemon |
| collector (`hpc-agent/src/metrics.rs`) | previous counters | collect | /proc, sysinfo |
| executor (`hpc-agent/src/executor.rs`) and protobuf conversions (`proto.rs`) | none | run deploy, run fs command | operating system |
| monitor (`hpc-monitor`) | Prometheus series, set of degraded nodes | scrape, update, render | REST API |
| block I/O shim (`hpc-ffi`) | none (the kernel's file) | open, read, write, sync, close | kernel |
| benchmark (`hpc-bench`) | scratch file | prepare, run patterns, remove | file system, shim |
| diagnostics (`hpc-diag`) | the bundle being built | collect, detect anomalies, write | /proc |
| CLI (`hpc-cli`) | none | one REST request per command line | REST API |
| telemetry, errors, scripts, CI | none | | |

What is hard here:

- **Concurrency.**  Handlers run as tokio tasks.  The node table's lock is
  released before the store is written, deregistration is three steps without a
  lock over them, the reaper takes its cutoff before it waits for the lock, and
  the bridge task of a stream outlives the stream.
- **Failure.**  The daemon crashes and starts again from the store with a new
  epoch; the store may fail; a session may break at any message, in particular
  between running a command and reporting its outcome.
- **Time.**  Whole seconds against durations, a reaper with its own period, two
  timers in a loop that also runs the commands.
- **Two programs, one fact.**  Daemon and agent convert every message with a copy
  of the conversions each and may be of different versions; daemon and monitor
  judge the same sample with code and thresholds of their own; a format is
  refused both at the REST boundary and by the executor.
- **Data at the edge.**  Counters that restart, sources that cannot be read,
  transfers that are short, sizes that are no multiples.

`PROJECT.json` has the hazards one by one, each at its line, with the properties
that would catch it.

## 2. Modules

Each module has its state as variables, one action per handler (or one per
stretch of a handler between two points where it waits) and its properties at
the end.  `MC...` modules only hold values for TLC.  Operators whose name starts
with `Mutant` are deliberate mistakes; no specification uses one.

**ClusterState** (state.rs, store.rs, the handlers of grpc.rs, the reaper and
shutdown of main.rs).  `nodes` and `store` are the table and the redb file,
`connected` the nodes with a command channel.  A task that has left the lock and
has still to write is in `pc`, `target` and `snapshot`: `RegisterNode` and
`IngestMetrics` change the table and leave a snapshot, `PutNode` writes it or
fails.  Deregistration is `DeregisterNode`, `DetachCommandChannel`,
`DeleteNode`; the reaper is `ReapCutoff`, `ReapSweep`.  `Crash` loses all but the
store; `Bootstrap` starts a process with a new epoch.  A sample is abstracted to
which thresholds it breaches; Telemetry is where that comes from.

**NodeLifecycle** (abstract).  What the daemon promises about its table to those
who read it over REST: no locks, no store, no clock.  A node appears by
registering, its status changes for one of five reasons, and a daemon that starts
takes no node for alive.  Registered means what state.rs makes of it, no verdict
since the last registration; the comment on it in types.rs says something else
(see the disagreements below).  ClusterState implements it under the mapping
`Lifecycle`, which hides the last-seen time of each record (`Shown`).

**CommandPlane** (the command path of api.rs, state.rs, grpc.rs and client.rs).
A command goes from the REST handler (`Submit`, `DispatchGetNode`,
`DispatchClone`, `DispatchSend`) through the first channel to the bridge task
(`BridgeRecv`, `BridgeSend`), through the second to the agent, which starts it
(`AgentReceive`), waits for its end without a timeout (`CommandEnds`, which may
never come) and reports its outcome (`AgentReport`).  Streams end on either side, are replaced
by reconnects, and their bridges detach late.  Channels have capacity
`QueueCap` and `OutCap` for the code's 64.

**CommandLog** (abstract).  What becomes of a command, without registry, channels
or streams: refused or accepted; if accepted, run once and after those accepted
before it for the same node, or lost with its session; if run, recorded, unless
the session failed meanwhile.  CommandPlane implements it under the mapping
`Log`: `FateOf` reads a command's fate off the place where it is.

**AgentSession** (client.rs run and session, against the handlers of grpc.rs).
One agent, one daemon that crashes, restarts and forgets nodes.

**NodeTimeout** (the timers of client.rs, the reaper, DaemonConfig::validate).
The failure detector in time; S ticks are a second.  ClusterState has the
detector's concurrency, this module its arithmetic.  The wall clock the daemon
reads may be set forward or back (`SetClock`); tokio's timers run on a clock of
their own.  A heartbeat interval of 0 panics where the code's timer does.

**Monitor** (hpc-monitor, beside the daemon).  The monitor is composed with a
daemon that behaves as NodeLifecycle promises (`Daemon`), so nodes appear, fall
silent and vanish, and the daemon stops and starts, between any two steps of the
monitor, also while it works through a snapshot.  A scrape may fail; `ScrapeOk`
clears the series, `Publish` fills them node by node, `Conclude` sets the
aggregates and logs transitions against the set kept from the last successful
scrape.

**CommandExec** (hpc-cli, REST validation, both proto.rs, executor.rs).  One
command from the command line, or the JSON body another client writes, to its
outcome.  A process that is started fails to start, is killed or exits; `process`
remembers which, so that the outcome can be held against what happened.  A body
may leave out any key; actions cross the wire as numbers; the
answer may be lost or come after the CLI's timeout.  Besides what this daemon
sends, the agent is given any well-formed message, as a daemon of another version
might send it.

**Telemetry** (metrics.rs of the agent, both proto.rs, Thresholds, classify,
Detector).  The other direction: a node's description and one sample, from
sysinfo through both conversions into the daemon's record and its verdict, and on
to the monitor's.  Fractions are counted in parts of `Unit`.

**Wire** composes CommandExec and Telemetry: one exchange of either kind after
another, as the agent's `select!` loop has it.

**BlockIO** (hpc_io.c and lib.rs of hpc-ffi).  The loops over pread and pwrite, a
kernel call at a time, with short transfers, EINTR, errors and end of file, for
several threads on one file that is open already.  `open` and `sync` with their
failures are in Bench, as the raw benchmark calls them (`RawOpen`, `RawSync`).

**Bench** (hpc-bench).  Runs, buffered or raw, that share a scratch file, with
I/O errors at any step.

**Collector** (metrics.rs of the agent).  Rates as differences of cumulative
counters while devices come and go and /proc cannot be read.  Ghost variables
count the traffic that really took place.

**Diag** (hpc-diag).  One collection, each source in any state when its turn
comes.

**ClusterState_proofs**, **CommandPlane_proofs**, **AgentSession_proofs**,
**NodeTimeout_proofs**, **Monitor_proofs**, **Wire_proofs**, **Storage_proofs**
(BlockIO and Bench) and **ProcFs_proofs** (Collector and Diag): section 5.  Models
whose proofs share a module have no name in common, so Bench and Diag prefix the
names of their specifications (`BenchSpec`, `DiagSpec`).

## 3. Runs

| run | question | properties |
|---|---|---|
| cluster_state | do verdicts, store and memory stay consistent under every interleaving of two handlers, store failure and restart, and is what readers see what NodeLifecycle promises? | TypeOK, AliveMeansHeard, UnreachableMeansSilent, PersistedStatusJustified, DegradedMeansBreach, MemoryMovesForward, ImplementsLifecycle |
| cluster_state_serial | without overlapping handlers, is everything written through, and is a silent node marked? | FactsWrittenThrough, DeregisterLeavesNothing, SilentNodeReaped |
| command_plane | does every command meet a fate CommandLog allows, in order and at most once, is the registry sound, is an accepted command run and does every agent come back, if the commands it has started end? | RegistryHoldsLiveBridges, RunsInOrderAtMostOnce, ImplementsCommandLog, AcceptedIsRun, AgentsReconnect |
| agent_session | are backoff and epoch right, and does the agent settle? | BackoffIsCappedExponential, EpochMismatchMeansRestart, AgentSettles |
| node_timeout | is detection neither early nor late, and when is a live agent safe? | NeverReapedEarly, ReapedInTime, NoFalseAlarm |
| monitor | are series, aggregates and transitions right after any history of daemon and scrapes, do the counts agree with the daemon's own, and is what lasts logged? | NoStaleSeries, AggregatesAgree, TransitionsAlternate, DegradationLogged |
| wire | is what runs what was asked, and does the outcome say what became of the process; do samples arrive, and do both verdicts fit the machine? | FormatIsForced, RunsWhatWasAsked, OutcomeIsTruthful, SampleArrives, VerdictsMatchMachine |
| block_io | do reads and writes transfer exactly what they say, and do the loops end? | ReadIsFaithful, WriteIsComplete, CallsReturn |
| bench | is the scratch file removed, and does a lone run succeed for every size? | ScratchRemoved, LoneRunSucceeds |
| collector | are rates bounded by the traffic that took place? | DiskRateIsTraffic, NetRateIsTraffic |
| diag | is every failure reported and nothing inferred from it? | ReportsAreExact, NothingInferredFromNothing |

The run cluster_state lists its module's type invariant, which the proofs use.
The other state machines have one too where a variable's range says more than its
name; those have been checked with TLC on the instances of the runs and are not
listed.

One run shows a disagreement between the code and its documentation: in
**stale_detach** TLC refutes `IsConnectedAccurate`, what the comment on
`is_connected` says.  An agent reconnects, the new stream is attached, and then
the bridge task of the old stream ends and removes the channel by node id: the
agent is connected and the daemon takes it for disconnected until the next
reconnect.

### Disagreements noticed while modelling

The models show these too.  Where a definition is named, it stands in its
module's section of refuted claims and can be given to TLC as an invariant or
property; no run lists it.

| where | what the code does | definition |
|---|---|---|
| state.rs:145, 194 | heartbeats and reaper verdicts are not written to the store | EveryMutationPersisted |
| state.rs:254 | a registration, report or opening stream that overlaps a deregistration leaves a record or a channel behind | DeregisterLeavesNothing, on ClusterState.cfg |
| state.rs:254 | a deregistration deletes the record of an overlapping, acknowledged registration | RegisteredIsPersisted, on ClusterState.cfg |
| types.rs:41 | Registered is said to mean "no metrics/heartbeat observed yet"; a heartbeat leaves a Registered node Registered, and a node that registers again is Registered with its old sample | HeartbeatEndsRegistered, RegisteredMeansUnreported |
| state.rs:151 | a heartbeat makes an Unreachable node Healthy although its last sample breaches a threshold | HealthyMeansNoBreach |
| state.rs:265 | the load threshold plays no part in the daemon's verdict | LoadBreachDegrades |
| state.rs:194 | the fraction of a second in node_timeout is dropped | NeverReapedEarly states the bound that holds |
| state.rs:265, health.rs:44 | config.rs:130-136 calls the limits those "above which a node is considered degraded"; the code's comparison is `>=`, so a node at exactly its limit is degraded | DegradedMeansAbove; VerdictsMatchMachine states the boundary the code has |
| executor.rs:92 | a command is awaited without a timeout: one that never ends holds its session, and with it every later command, for ever | EveryAcceptedEnds; AcceptedIsRun and AgentsReconnect except it |
| client.rs:152 | a command that ran leaves no outcome if its report fails | AuditTrailComplete |
| api.rs:222 | a client that repeats a command id overwrites the earlier outcome | AuditLogAppendOnly; CommandLog states what holds |
| client.rs:51 | the backoff is never reset, not even after a long session that ended well | CleanCloseResetsBackoff |
| client.rs:26 | a configured first backoff above MAX_BACKOFF, "Longest backoff between reconnect attempts", is slept in full | BackoffIsCappedExponential excepts the first wait |
| client.rs:122 | no heartbeat is sent while a command runs, so a busy node is marked Unreachable | NoFalseAlarm excepts commands |
| health.rs | an unreachable node counts in the series of nodes that breach a threshold | DegradedSeriesMeansBreach |
| health.rs:116 | a degraded node that is deregistered is logged as recovered | RecoveredMeansHealthy |
| bench lib.rs:107 | a failed preparation leaves the scratch file | ScratchRemovedOnEveryPath |
| bench lib.rs:127 | started_at is the time of the end | StartedAtIsTheStart |
| metrics.rs:237 | after a failed reading of /proc/net/dev the next rate is the whole counter | NetRateIsTraffic excepts it |
| metrics.rs:219 | partitions are not left out, although the comment says so | among Collector's Device |
| proc.rs:86 | a missing MemAvailable counts as 0 and is flagged as memory pressure | PressureWasObserved |

### Bounds

- ClusterState: one node suffices for its interleavings, since no operation
  relates two nodes.  Two tasks give every pair of overlapping handlers; the
  serial run has one.  `MaxTime = 3` with `NodeTimeout = 1` leaves room to be
  heard, fall silent, be reaped and come back after a restart.
- CommandPlane: channels of capacity 1 fill with two commands; two streams give
  an old and a current one; one fault (a broken session or a restart) and one
  deregistration.  The two commands share one id, as those of a client that
  repeats its request do.
- AgentSession: six sleeps take the backoff from 2 to its cap of 30 and past it;
  four faults allow a crash in every phase of a session.
- NodeTimeout: a third of a second is the coarsest tick at which cutting a
  duration to seconds can show; timeouts of 0, 1 and 1.67 s, metrics intervals
  of 0 and 1.67 s, heartbeats of 0 and 0.67 s, with and without commands,
  and a clock that is set one second forward or back,
  for 23 ticks from tick 9.
- Monitor: two nodes, each without a sample or with a full disk, and a daemon that
  stops and starts any number of times.
- Wire: texts that are empty, blank or neither, in every field, every key present
  or not; samples in halves (`Unit = 2`) on either side of each limit, limits from
  below 0 to above 1, no memory, a disk of size 0, one with more space available
  than it has, reports with any part left out, roles this version does not know.
- BlockIO: calls at a block past the start, lengths up to 2 and one signal per
  call give a short transfer, an interruption and an end of file in one call;
  two threads interleave.  All calls are at one offset and so overlap; that writes
  which do not overlap leave each other alone (the last part of WriteIsComplete)
  rests on the proof, for every set of offsets.
- Bench: two buffered runs and a raw one on one directory, sizes below, at and
  above the block and the chunk, one fault.
- Collector: counters up to 2 and a clock up to 2, so that a rate can be over one
  second or two; one device and two interfaces; either file of /proc may be
  unreadable at any sample.
- Diag: tables of up to two rows; meminfo with memory below, at and above the
  limit, without MemAvailable, and empty.

`CHECK_DEADLOCK FALSE` stands where a program ends (Bench, Diag) or where the
bound on faults or commands lets the model come to rest (AgentSession,
CommandPlane).

### Fairness

- ClusterState: the clock goes on and the reaper's loop is polled.  No fairness
  is asked of agents or clients.
- CommandPlane: tokio polls handlers, bridge tasks and sessions; the agent
  retries for ever; a peer that takes no data is given up by TCP.  Nothing makes
  a client submit, a session fail, or an idle half-open connection be noticed, and
  nothing makes a command end: the agent awaits it without a timeout
  (executor.rs:92-95), so `CommandEnds` has no fairness, and AcceptedIsRun and
  AgentsReconnect are claimed only of nodes that are again and again without a
  running command (`CommandsEnd`).
- AgentSession: the agent's steps and timers, and the restart of a crashed daemon.
- Monitor: update always ends; a scrape that can succeed again and again does.
  Nothing is asked of the daemon; that a report is taken back is claimed only if
  the daemon runs again and again (DegradationLogged).
- BlockIO: each thread's loop goes on; the number of signals is bounded.

## 4. What the properties rest on

- One lock acquisition is one step; the code between two awaits is atomic.
- redb transactions are atomic and durable; a crash between them loses nothing
  stored.
- The clock of ClusterState does not go back within a run; that of NodeTimeout may
  be set either way.
- Messages of a stream arrive in order or the stream breaks (HTTP/2).

## 5. Proofs

Every theorem holds for all values of the constants that the assumptions named
in its module allow.  Unless said otherwise those are only what the constants
are: sets of nodes, streams and commands, natural numbers for bounds, capacities
and durations, and a `None` that is none of the other values.

| theorem | states |
|---|---|
| **ClusterState_proofs** | |
| InductiveInvariant | `Spec => []IInv` |
| TypeCorrect | TypeOK |
| UnreachableJustified, AliveJustified | UnreachableMeansSilent, AliveMeansHeard |
| StoreConsistent | PersistedStatusJustified |
| DegradedJustified | DegradedMeansBreach |
| ForwardOnly | MemoryMovesForward |
| LifecycleImplemented | ImplementsLifecycle |
| SerialWriteThrough, SerialDeregister | FactsWrittenThrough, DeregisterLeavesNothing, for handlers that do not overlap |
| **CommandPlane_proofs** | |
| InductiveInvariant | `Spec => []IInv` |
| TypeCorrect | TypeOK, with the capacities of both channels |
| RegistryLive | RegistryHoldsLiveBridges |
| RunsInOrder, NeverRunTwice | RunsInOrderAtMostOnce; no command twice on any node |
| NothingMislaid | `Spec => [](IInv /\ LInv)` |
| CommandLogImplemented | ImplementsCommandLog |
| **AgentSession_proofs** | |
| EpochJustified | EpochMismatchMeansRestart |
| BackoffExponential | BackoffIsCappedExponential |
| **NodeTimeout_proofs** | |
| NotTooEarly, NotTooLate | NeverReapedEarly, ReapedInTime |
| LiveAgentTrusted | NoFalseAlarm |
| **Monitor_proofs** | |
| SeriesFresh, AccountsAgree | NoStaleSeries, AggregatesAgree |
| TransitionsOnly | TransitionsAlternate |
| **Wire_proofs** | |
| SamplesArrive, VerdictsRight | SampleArrives, VerdictsMatchMachine |
| FormatForced, AskedIsRun, OutcomeTruthful | FormatIsForced, RunsWhatWasAsked, OutcomeIsTruthful |
| **Storage_proofs** | |
| ReadFaithful, WriteComplete | ReadIsFaithful, WriteIsComplete |
| BenchTypes | BenchTypeOK, with the bounds on what is prepared and on every file |
| ScratchTidied, LoneRunSound | ScratchRemoved, LoneRunSucceeds |
| **ProcFs_proofs** | |
| DiskRateJustified, NetRateJustified | DiskRateIsTraffic, NetRateIsTraffic |
| EveryFailureReported, InferenceIsGrounded | ReportsAreExact, NothingInferredFromNothing |

The inductive invariants themselves are theorems of every module
(InductiveInvariant, BenchInvariant, DiagInvariant).

None of the properties is inductive alone.  Each inductive invariant was given to
TLC on the instance of its run before it was proved.

**ClusterState.**  The verdict of the reaper depends on a cutoff taken earlier, so
`ClockInv` bounds a pending cutoff by the present one; the table's records must
agree with the epoch and the clock (`TableInv`); and what reaches the store was on
its way in a task's snapshot, so `StoreInv` needs `TaskInv`, which says the same
of every snapshot.  `IInv` is their conjunction with TypeOK.  The proof has one
lemma per record a handler computes and one step per action.

*Handlers that do not overlap.*  Under the assumption `Serial` (one task, a store
that does not fail) the invariant adds what the one handler has still to do
(`HandlerInv`), the agreement of table and store when it has nothing to do
(`QuietInv`), and what a stopped daemon leaves (`DownInv`).  With two tasks TLC
refutes DeregisterLeavesNothing and the weaker half of FactsWrittenThrough
(RegisteredIsPersisted): the races come from the overlap and from nothing else.

*Refinement.*  Every behaviour of ClusterState is, seen through `Shown`, one of
NodeLifecycle.  For each step there is a lemma (`RegisterRefines`,
`IngestRefines`, `HeartbeatRefines`, `ReapRefines`, `BootstrapRefines`) saying
which abstract action it is; steps that only move a snapshot, the store, a channel
or the clock are stutters.  Two of them need the inductive invariant: that what
`Bootstrap` loads are records at all, and that a record `Heard` or `Ingested`
changes has the fields the abstract record keeps.

**CommandPlane.**  Order at the node follows from order on the way.  `Before` is
the order of acceptance.  `OrderInv` says that what is in the second channel, in
the bridge's hand and in the first channel, in that sequence, respects it;
`RanInv` that nothing an agent can still receive was accepted before something its
node has run.  The second is where reconnects matter: a new stream starts empty,
and an agent never goes back to an old one (`HoldInv`).  `SenderInv` covers the
handler that has cloned a sender and waits, during which its stream may be
replaced.  No bound on commands, streams, capacities or failures is used.

*Refinement.*  `FateOf` reads a command's fate off its place, so the proof must
know that it is in exactly one (`ApartInv`), that an accepted command that was
neither run nor lost is on the stream its agent reads (`TransitInv`), and that a
bridge which ends while its agent is still there has nothing left to send and
nobody who could send to it (`DrainInv`).  Each action then is one of CommandLog's
or leaves every fate alone.  Proving it showed that the cases of `FateOf` as first
written overlapped, which TLC resolves by order and the logic does not; they are
now an ordered choice.

**AgentSession.**  `AckInv` relates the epoch the agent was given to the daemon's
through every point at which either may crash.  The backoff is proved to be the
doubled delay at every attempt, also for a first delay above the cap
(BackoffIsCappedExponential is inductive together with the type invariant), from
the fact that `Power2`, a recursive function, is
what its definition says.  The provers have no induction over numbers; a least
counterexample does as well (`LeastNumber`, from the library's `WFMin`), and
`DoublingExists`, `DoublingUnique` and `Power2Doubles` use it.

**NodeTimeout.**  `SweptInv` says what the reaper's last sweep left: a node not
marked was, at that sweep, within whole seconds of the timeout, and the next sweep
is due within a period.  `PunctualInv` says when the agent's next message is due
at the latest.  The arithmetic is in four lemmas: cutting both times to seconds
costs less than one second in either direction (`WholeSeconds`), and the rest is
order and sums.  TimeoutAssumption asks that a second has at least one tick, that
every timeout is shorter than the time since 1970 at which the daemon starts, and
that setting the clock back does not take it before that origin.

**Monitor.**  In the middle of an update the series, the counters and the flagged
nodes describe the nodes the update has come to (NoStaleSeries, `TallyInv`), not
those it was given; the daemon changes its table meanwhile, so the snapshot and
the live table are apart in every part of the invariant.  `LoggedInv` ties what
was last logged of a node to the set kept from the last successful scrape.
`BlamedInv`, that a Degraded record has a sample with something in it, is a
promise of the daemon that the monitor's count needs.  The counters are
cardinalities: the proof uses the library's facts on finite sets.

**Wire.**  `SampleInv` and `CommandInv` follow an exchange phase by phase.  For
samples the work is in lemmas without state: what each conversion does to each
field and back (`MetricsRoundTrip`, `InfoRoundTrip`), and that the code's
comparisons of fractions are comparisons of sizes (`MemoryVerdict`, `DiskVerdict`)
for every `Unit`, so that the result does not depend on the resolution the runs
take.  For commands: an action's number is read back as the action
(`ActionFacts`), serde's defaults add neither a device nor force (`FsDecoded`),
a command line means what its body says (`LineDecoded`), and the first and last
argument of whatever the executor starts (`ArgvFacts`).  `Tells` carries what may
be said of a command, given what became of its process, from the executor to the
row of the audit log.

The assumptions of Wire say what descriptions, readings and reports are: they have
the fields and the ranges of the protobuf messages, and an optional part of a
report is there at most once.  A text is empty, blank or neither, as in the model.

**BlockIO.**  Both properties speak of calls that have returned, but other calls
go on: `ApartInv` says that no write under way meets the range of a call still
called clean, also after that call returned.  With it what a clean call has
transferred stays in the file (`HeldInv`), and nothing appears behind the end of
the file at which a read stopped (`EofInv`); `RetInv` ties a returned count to the
bytes transferred.  The file is a sequence that a write may extend past a gap, so
the lemmas say what each byte of the file is after a transfer.

**Collector.**  A counter that was listed at the last sample and is listed now has
moved by no more than what went through the device since (`DiskInv`); a device
that went and came back starts from zero and stays below.  The sum over the
interfaces obeys the same bound if it could be read (`NetInv`), although a single
interface may disappear from it.  That sum is a fold over a set, and the provers
have no induction over sets: `SumsTo` builds the fold for sets of at most k
interfaces, `TotalSums` shows that read_net_dev is its value for all of them, and
`SumsGrow`, by a smallest set that fails, that it grows by no more than what one
interface does.  The set of interfaces is assumed finite.

**Bench.**  Runs share files by name, so the invariant must say whose file is
whose.  `OwnInv`: a file made for one kind of run is never open in a run of the
other kind.  `TidyInv`: as long as no fault has left a file behind, every file
there is has a run that will still come to its clean-up, not necessarily the run
that made it.  `LoneInv`: of a run alone that met no fault, how many bytes its file
has at every step (`Sound`); that a block lies within it is arithmetic on the
division of the file size by the block size (`BlockFacts`) and on the last chunk
(`ChunkFacts`).  Every action of a run p keeps the same list of facts, `Kept(p)`:
what it leaves to the other runs, its own types, its own part of the three
invariants; `StepKeeps` concludes the whole invariant from them.  `GiveUpKept`,
`MoveKept`, `QuietMoveKept`, `WriteKept` and `CountKept` are the few kinds of step
there are.  The number of runs, the sizes and the faults have no bound; a file size
that is no multiple of the block or the chunk is covered.

**Diag.**  The sources still to be read are the rest of a fixed list (`OrderInv`),
so the number of sources taken says which fields of the bundle are settled.
`FieldInv` says what stands in the bundle for a source that was or was not read;
`ReportInv` that every report behind the caller's is for a source that failed, at
the place its rank among the failures gives; `AnomalyInv` what the heuristics were
given.  ReportsAreExact is stated with that rank, the number of failures up to a
source, and for every moment of the collection.  The contents of the files are
arbitrary; of the caller's reports only that they are a sequence is assumed.

Only model-checked: liveness (SilentNodeReaped, AcceptedIsRun, AgentsReconnect,
AgentSettles, DegradationLogged, CallsReturn), which is out of the prover's
reach.  DiagTypeOK, that no malformed row reaches the bundle, is neither proved nor
in a run: it is a fact about `SelectSeq`, which is recursive, and TLC finds it true
on the instance of the run diag.

## 6. Not modelled

- `open`, `sync` and `close` of hpc-ffi on their own: BlockIO starts with an open
  file.  The first two appear, with their failures, in Bench; the result of
  `close` is ignored by the code.
- Telemetry and error types, scripts, CI and build files: no state of the system.
- The REST routes that only read, but for the node list and the cluster status:
  they return a part of the state the models have.
- The CLI's tables and its bench report file, the text of log lines and of the
  metrics page: output.
- Reading TOML and the default values of a configuration.  Both `validate`
  functions are modelled, and the runs take any configuration they accept.
- The fields of descriptions and samples that no verdict reads (network, mounted
  file systems, swap, versions, labels): one value, `rest`, stands for those of a
  sample.
- Draining: no code gives a node that status.  The daemon's counts would leave such
  a node out and the monitor's count it as healthy; AggregatesAgree says nothing
  of it.
- A hostname that cannot be read: hpc-diag falls back to a placeholder and reports
  nothing, so ReportsAreExact does not count it among the sources.  And
  NothingInferredFromNothing is about sources that could not be read: a meminfo
  without SwapTotal still yields the anomaly of a machine without swap.
- Latency percentiles, throughput and IOPS of hpc-bench: quantiles of a histogram
  of a library, and divisions of floating-point numbers.

## 7. Plan

Done: the modules above, in the order cluster state, command plane, agent
session, monitor, executor, block I/O, benchmark, collector, failure detector in
time, diagnostics; the abstract specifications NodeLifecycle and CommandLog and
their refinements; the composition of the monitor with the daemon; command lines,
telemetry and both verdicts; a clock that is set; the proofs of section 5.

Open: the figures hpc-bench computes from its latencies, once the histogram of the
library it uses has a model.
