---------------------------- MODULE ClusterState ----------------------------
(***************************************************************************)
(* The daemon's node table (hpc-daemon/src/state.rs) and the durable store *)
(* behind it (hpc-daemon/src/store.rs), driven by concurrent gRPC and REST *)
(* handlers, by the background reaper (hpc-daemon/src/main.rs) and by      *)
(* crashes and restarts of the daemon process.                             *)
(*                                                                         *)
(* What makes it hard: register_node and ingest_metrics change the table   *)
(* under the write lock but write the record through to redb AFTER the     *)
(* lock is released, deregister_node is three separate steps, the reaper   *)
(* computes its cutoff before it waits for the lock, and heartbeats and    *)
(* reaping are never written through.  So every handler that has more than *)
(* one step is a task with a program counter, and tasks interleave.        *)
(***************************************************************************)
EXTENDS Naturals, FiniteSets

CONSTANTS
    Node,        \* node ids
    Info,        \* static node descriptions (NodeInfo without its id)
    Sample,      \* metrics samples, each the set of resources over threshold
    Task,        \* handler invocations that can be in progress at once
    NodeTimeout, \* cfg.node_timeout, in seconds
    StoreFaults, \* whether a redb transaction may fail
    MaxTime,     \* bound on the wall clock
    None         \* Rust's Option::None

Resource == {"cpu", "memory", "disk", "load"}

ASSUME SampleAssumption == Sample \subseteq SUBSET Resource
ASSUME TimeAssumption == NodeTimeout \in Nat /\ MaxTime \in Nat
ASSUME FaultAssumption == StoreFaults \in BOOLEAN
\* None is none of the values an Option in the code may hold.
ASSUME NoneAssumption ==
    /\ None \notin Node
    /\ None \notin Sample
    /\ None \notin [info : Info,
                    status : {"Registered", "Healthy", "Degraded",
                              "Unreachable", "Draining"},
                    last_seen_unix : Nat,
                    latest_metrics : Sample \cup {None}]
    /\ None \notin [info : Info,
                    status : {"Registered", "Healthy", "Degraded",
                              "Unreachable", "Draining"},
                    latest_metrics : Sample \cup {None}]

VARIABLES
    up,         \* the daemon process is running
    epoch,      \* SharedState.epoch: the second this process started
    now,        \* the wall clock, now_unix()
    nodes,      \* ClusterState.nodes: node id -> record, or None if absent
    connected,  \* keys of SharedState.channels
    store,      \* the NODES table of redb: node id -> record or None
    pc,         \* for each task, the step it takes next
    target,     \* the node a task is about
    snapshot,   \* the record a task cloned under the lock and will persist
    cutoff      \* the reaper's cutoff once computed, None between sweeps

vars == <<up, epoch, now, nodes, connected, store, pc, target, snapshot,
          cutoff>>

NodeStatus == {"Registered", "Healthy", "Degraded", "Unreachable", "Draining"}

NodeRecord == [info : Info,
               status : NodeStatus,
               last_seen_unix : Nat,
               latest_metrics : Sample \cup {None}]

(***************************************************************************)
(* Definitions named Mutant... are deliberate mistakes.  Each stands just  *)
(* before the definition it would replace and shows that a property notices*)
(* the mistake; the specification never uses one.                          *)
(***************************************************************************)

-----------------------------------------------------------------------------
(* The record a handler computes under the write lock. *)

(***************************************************************************)
(* NodeRecord::new: a freshly registered record with no metrics yet.       *)
(***************************************************************************)
NewRecord(i) == [info |-> i, status |-> "Registered",
                 last_seen_unix |-> now, latest_metrics |-> None]

(***************************************************************************)
(* register_node: create the record if the node is new, replace its        *)
(* description, reset its status.  Metrics from before a re-registration   *)
(* stay.                                                                   *)
(***************************************************************************)
Registered(n, i) ==
    LET entry == IF nodes[n] = None THEN NewRecord(i) ELSE nodes[n]
    IN  [entry EXCEPT !.info = i, !.status = "Registered",
                      !.last_seen_unix = now]

(***************************************************************************)
(* Health from one sample.  A sample is the set of resources at or above   *)
(* their threshold; load is in the sample but classify never looks at it.  *)
(***************************************************************************)
classify(s) == IF s \cap {"cpu", "memory", "disk"} # {} THEN "Degraded"
                                                        ELSE "Healthy"

\* The sample is stored and the status left as it was.
MutantIngestedKeepsStatus(record, s) ==
    [record EXCEPT !.last_seen_unix = now, !.latest_metrics = s]

\* The status is recomputed and the sample that explains it is dropped.
MutantIngestedDropsSample(record, s) ==
    [record EXCEPT !.status = classify(s), !.last_seen_unix = now]

Ingested(record, s) == [record EXCEPT !.status = classify(s),
                                      !.last_seen_unix = now,
                                      !.latest_metrics = s]

\* Every heartbeat clears the verdict.
MutantHeardAlwaysHealthy(record) ==
    [record EXCEPT !.last_seen_unix = now, !.status = "Healthy"]

(***************************************************************************)
(* heartbeat: a previously unreachable node becomes Healthy, whatever its  *)
(* latest sample says.                                                     *)
(***************************************************************************)
Heard(record) == [record EXCEPT
    !.last_seen_unix = now,
    !.status = IF @ = "Unreachable" THEN "Healthy" ELSE @]

\* saturating_sub with its operands the wrong way round.
MutantCutoffSwapped(t) == IF NodeTimeout >= t THEN NodeTimeout - t ELSE 0

\* Plain subtraction: it underflows in the first NodeTimeout seconds.
MutantCutoffUnderflows(t) == t - NodeTimeout

\* now_unix().saturating_sub(node_timeout)
Cutoff(t) == IF t >= NodeTimeout THEN t - NodeTimeout ELSE 0

\* The boundary second counts as stale.
MutantStaleInclusive(record, c) == record.last_seen_unix <= c

Stale(record, c) == record.last_seen_unix < c

\* The persisted status is trusted after a restart.
MutantRehydratedAsStored(record) == record

\* bootstrap: a node loaded from disk has not been seen by this process.
Rehydrated(record) == [record EXCEPT !.status = "Unreachable"]

-----------------------------------------------------------------------------
(* Task bookkeeping. *)

Begin(t, step, n, rec) ==
    /\ pc' = [pc EXCEPT ![t] = step]
    /\ target' = [target EXCEPT ![t] = n]
    /\ snapshot' = [snapshot EXCEPT ![t] = rec]

Finish(t) == Begin(t, "idle", None, None)

Goto(t, step) ==
    /\ pc' = [pc EXCEPT ![t] = step]
    /\ UNCHANGED <<target, snapshot>>

process == <<up, epoch, now>>

Init ==
    /\ up = TRUE
    /\ now = 0
    /\ epoch = now
    /\ nodes = [n \in Node |-> None]
    /\ connected = {}
    /\ store = [n \in Node |-> None]
    /\ pc = [t \in Task |-> "idle"]
    /\ target = [t \in Task |-> None]
    /\ snapshot = [t \in Task |-> None]
    /\ cutoff = None

(***************************************************************************)
(* register_node, the part under the write lock.                           *)
(***************************************************************************)
\* The new registration stays in memory only.
MutantRegisterNotPersisted(t, n, i) ==
    /\ up /\ pc[t] = "idle"
    /\ nodes' = [nodes EXCEPT ![n] = Registered(n, i)]
    /\ UNCHANGED <<process, connected, store, cutoff, pc, target, snapshot>>

RegisterNode(t, n, i) ==
    /\ up /\ pc[t] = "idle"
    /\ nodes' = [nodes EXCEPT ![n] = Registered(n, i)]
    /\ Begin(t, "put", n, Registered(n, i))
    /\ UNCHANGED <<process, connected, store, cutoff>>

(***************************************************************************)
(* ingest_metrics under the write lock.  An unknown node is an error and   *)
(* changes nothing, so there is no step for it.                            *)
(***************************************************************************)
IngestMetrics(t, n, s) ==
    /\ up /\ pc[t] = "idle"
    /\ nodes[n] # None
    /\ nodes' = [nodes EXCEPT ![n] = Ingested(nodes[n], s)]
    /\ Begin(t, "put", n, Ingested(nodes[n], s))
    /\ UNCHANGED <<process, connected, store, cutoff>>

(***************************************************************************)
(* store.put_node, after the lock is released: commit the cloned record.   *)
(* A failed transaction ends the handler with an error; memory keeps the   *)
(* change.                                                                 *)
(***************************************************************************)
\* The committed clone is also copied back into the table.
MutantPutNodeRefreshesMemory(t) ==
    /\ pc[t] = "put"
    /\ store' = [store EXCEPT ![target[t]] = snapshot[t]]
    /\ nodes' = [nodes EXCEPT ![target[t]] = snapshot[t]]
    /\ Finish(t)
    /\ UNCHANGED <<process, connected, cutoff>>

PutNode(t) ==
    /\ pc[t] = "put"
    /\ \/ store' = [store EXCEPT ![target[t]] = snapshot[t]]
       \/ StoreFaults /\ UNCHANGED store
    /\ Finish(t)
    /\ UNCHANGED <<process, nodes, connected, cutoff>>

(***************************************************************************)
(* heartbeat: one critical section; nothing is written through.            *)
(***************************************************************************)
Heartbeat(n) ==
    /\ up
    /\ nodes[n] # None
    /\ nodes' = [nodes EXCEPT ![n] = Heard(nodes[n])]
    /\ UNCHANGED <<process, connected, store, pc, target, snapshot, cutoff>>

(***************************************************************************)
(* reap_stale: the cutoff is computed first (saturating subtraction), then *)
(* the write lock is awaited and the whole table is swept.                 *)
(***************************************************************************)
ReapCutoff ==
    /\ up /\ cutoff = None
    /\ cutoff' = Cutoff(now)
    /\ UNCHANGED <<process, nodes, connected, store, pc, target, snapshot>>

ReapSweep ==
    /\ up /\ cutoff # None
    /\ nodes' = [n \in Node |->
           IF nodes[n] # None /\ Stale(nodes[n], cutoff)
           THEN [nodes[n] EXCEPT !.status = "Unreachable"]
           ELSE nodes[n]]
    /\ cutoff' = None
    /\ UNCHANGED <<process, connected, store, pc, target, snapshot>>

(***************************************************************************)
(* deregister_node: drop from memory, detach the command channel, delete   *)
(* the persisted record; three steps, each under its own lock.             *)
(***************************************************************************)
DeregisterNode(t, n) ==
    /\ up /\ pc[t] = "idle"
    /\ nodes' = [nodes EXCEPT ![n] = None]
    /\ Begin(t, "detach", n, None)
    /\ UNCHANGED <<process, connected, store, cutoff>>

\* The persisted record is forgotten.
MutantDetachEndsDeregister(t) ==
    /\ pc[t] = "detach"
    /\ connected' = connected \ {target[t]}
    /\ Finish(t)
    /\ UNCHANGED <<process, nodes, store, cutoff>>

DetachCommandChannel(t) ==
    /\ pc[t] = "detach"
    /\ connected' = connected \ {target[t]}
    /\ Goto(t, "delete")
    /\ UNCHANGED <<process, nodes, store, cutoff>>

DeleteNode(t) ==
    /\ pc[t] = "delete"
    /\ \/ store' = [store EXCEPT ![target[t]] = None]
       \/ StoreFaults /\ UNCHANGED store
    /\ Finish(t)
    /\ UNCHANGED <<process, nodes, connected, cutoff>>

(***************************************************************************)
(* stream_commands checks that the node is known under one lock and        *)
(* attaches its channel under another.  The bridge task detaches the       *)
(* channel when the stream ends, whenever that is.                         *)
(***************************************************************************)
StreamCommands(t, n) ==
    /\ up /\ pc[t] = "idle"
    /\ nodes[n] # None
    /\ Begin(t, "attach", n, None)
    /\ UNCHANGED <<process, nodes, connected, store, cutoff>>

AttachCommandChannel(t) ==
    /\ pc[t] = "attach"
    /\ connected' = connected \cup {target[t]}
    /\ Finish(t)
    /\ UNCHANGED <<process, nodes, store, cutoff>>

StreamClosed(n) ==
    /\ n \in connected
    /\ connected' = connected \ {n}
    /\ UNCHANGED <<process, nodes, store, pc, target, snapshot, cutoff>>

(***************************************************************************)
(* The process stops (crash, SIGTERM, a server failing): memory and every  *)
(* handler in progress are lost, the store stays.  bootstrap rehydrates    *)
(* the table with every node Unreachable and takes the clock as the epoch. *)
(***************************************************************************)
Crash ==
    /\ up
    /\ up' = FALSE
    /\ nodes' = [n \in Node |-> None]
    /\ connected' = {}
    /\ pc' = [t \in Task |-> "idle"]
    /\ target' = [t \in Task |-> None]
    /\ snapshot' = [t \in Task |-> None]
    /\ cutoff' = None
    /\ UNCHANGED <<epoch, now, store>>

Bootstrap ==
    /\ ~up
    /\ up' = TRUE
    /\ epoch' = now
    /\ nodes' = [n \in Node |->
           IF store[n] = None THEN None ELSE Rehydrated(store[n])]
    /\ UNCHANGED <<now, connected, store, pc, target, snapshot, cutoff>>

(***************************************************************************)
(* now_unix(): the system clock, in whole seconds, taken not to run        *)
(* backwards.                                                              *)
(***************************************************************************)
Tick ==
    /\ now < MaxTime
    /\ now' = now + 1
    /\ UNCHANGED <<up, epoch, nodes, connected, store, pc, target, snapshot,
                   cutoff>>

Handler(t) ==
    \/ \E n \in Node, i \in Info : RegisterNode(t, n, i)
    \/ \E n \in Node, s \in Sample : IngestMetrics(t, n, s)
    \/ \E n \in Node : DeregisterNode(t, n)
    \/ \E n \in Node : StreamCommands(t, n)
    \/ PutNode(t)
    \/ DetachCommandChannel(t)
    \/ DeleteNode(t)
    \/ AttachCommandChannel(t)

Next ==
    \/ \E t \in Task : Handler(t)
    \/ \E n \in Node : Heartbeat(n)
    \/ \E n \in Node : StreamClosed(n)
    \/ ReapCutoff
    \/ ReapSweep
    \/ Crash
    \/ Bootstrap
    \/ Tick

Spec == Init /\ [][Next]_vars

(***************************************************************************)
(* The clock advances and the reaper's interval fires for as long as the   *)
(* process runs; nothing else is promised (agents may go silent, handlers  *)
(* may hang, the process may stay down).                                   *)
(***************************************************************************)
FairSpec == Spec /\ WF_vars(Tick) /\ WF_vars(ReapCutoff) /\ WF_vars(ReapSweep)

-----------------------------------------------------------------------------
(* Properties *)

TaskStep == {"idle", "put", "detach", "delete", "attach"}

\* Every variable has its type, and a task that will persist a record has one
\* (state.rs: the clone made under the lock is what put_node writes).
TypeOK ==
    /\ up \in BOOLEAN
    /\ epoch \in Nat
    /\ now \in Nat
    /\ nodes \in [Node -> NodeRecord \cup {None}]
    /\ connected \in SUBSET Node
    /\ store \in [Node -> NodeRecord \cup {None}]
    /\ pc \in [Task -> TaskStep]
    /\ target \in [Task -> Node \cup {None}]
    /\ snapshot \in [Task -> NodeRecord \cup {None}]
    /\ cutoff \in Nat \cup {None}
    /\ \A t \in Task : /\ pc[t] # "idle" => target[t] \in Node
                       /\ pc[t] = "put" => snapshot[t] \in NodeRecord

\* A node shown with any status but Unreachable has been heard from by THIS
\* daemon process: a restart never carries a stale verdict over
\* (state.rs bootstrap: "A node loaded from disk hasn't been seen this run yet").
AliveMeansHeard ==
    \A n \in Node : nodes[n] # None /\ nodes[n].status # "Unreachable" =>
        /\ nodes[n].last_seen_unix >= epoch
        /\ nodes[n].last_seen_unix <= now

\* The reaper never marks a node that was heard from within node_timeout, even
\* though it computes the cutoff before it waits for the lock: an Unreachable
\* node is silent for longer than the timeout, or has been silent since before
\* this process started (types.rs: "No heartbeat within the liveness window").
UnreachableMeansSilent ==
    \A n \in Node : nodes[n] # None /\ nodes[n].status = "Unreachable" =>
        \/ nodes[n].last_seen_unix + NodeTimeout < now
        \/ nodes[n].last_seen_unix <= epoch

\* A status and the sample that explains it.
Justified(record) ==
    \/ record.status = "Registered"
    \/ /\ record.latest_metrics # None
       /\ record.status = classify(record.latest_metrics)

\* Whatever the interleaving of handlers, failures and restarts, the store holds
\* only consistent records: a persisted status is Registered or the verdict on
\* the sample persisted with it, never the reaper's or a heartbeat's.
PersistedStatusJustified ==
    \A n \in Node : store[n] # None => Justified(store[n])

\* A node shown as Degraded has a latest sample that breaches a threshold
\* classify looks at; no sequence of heartbeats, reaps, re-registrations and
\* restarts separates the two (types.rs NodeStatus::Degraded).
DegradedMeansBreach ==
    \A n \in Node : nodes[n] # None /\ nodes[n].status = "Degraded" =>
        /\ nodes[n].latest_metrics # None
        /\ classify(nodes[n].latest_metrics) = "Degraded"

\* While a process runs, memory only moves forward: a handler that finishes late
\* never brings a removed node back nor turns last_seen back; a node appears
\* only by registering (state.rs ingest_metrics and heartbeat: "unknown node").
MemoryMovesForward ==
    [][up /\ up' => \A n \in Node : nodes'[n] # None =>
          IF nodes[n] = None
          THEN nodes'[n].status = "Registered" /\ nodes'[n].last_seen_unix = now
          ELSE nodes'[n].last_seen_unix >= nodes[n].last_seen_unix]_vars

\* A node that stays silent while the daemon runs is eventually marked
\* Unreachable (state.rs reap_stale, main.rs reaper).  Asked of the seconds that
\* leave the clock room to pass the timeout within MaxTime.
SilentNodeReaped ==
    \A n \in Node, s \in {t \in 0..MaxTime : t + NodeTimeout < MaxTime} :
        (up /\ nodes[n] # None /\ nodes[n].last_seen_unix = s)
        ~> \/ ~up
           \/ nodes[n] = None
           \/ nodes[n].last_seen_unix # s
           \/ nodes[n].status = "Unreachable"

\* No handler is in progress on node n.
Quiet(n) == up /\ \A t \in Task : target[t] # n

\* Memory and store hold the same durable facts: presence, description, sample.
SameFacts(a, b) ==
    \/ a = None /\ b = None
    \/ /\ a # None /\ b # None
       /\ a.info = b.info
       /\ a.latest_metrics = b.latest_metrics

\* Whenever no handler is in progress on a node, the store holds the node's
\* description and sample as memory does.  True when handlers run one at a time
\* and the store does not fail.
FactsWrittenThrough == \A n \in Node : Quiet(n) => SameFacts(nodes[n], store[n])

\* deregister_node (state.rs): "drop it from memory, close any command stream,
\* and delete its persisted record".  Once no handler is in progress on a node
\* that memory does not hold, nothing of it is left.
DeregisterLeavesNothing ==
    \A n \in Node : Quiet(n) /\ nodes[n] = None =>
        store[n] = None /\ n \notin connected

\* A record without the time it was last seen.
Shown(r) == [info |-> r.info, status |-> r.status,
             latest_metrics |-> r.latest_metrics]

Lifecycle == INSTANCE NodeLifecycle WITH
    running <- up,
    table <- [n \in Node |-> IF nodes[n] = None THEN None ELSE Shown(nodes[n])],
    Verdict <- classify

\* Concurrent handlers, late writes, the reaper with its old cutoff and restarts
\* amount to one change of the table after another, each of a kind that
\* NodeLifecycle allows: no handler that was overtaken undoes or repeats what
\* another did, and no status changes without the event that earns it (state.rs).
\* NodeLifecycle takes Registered as state.rs does; see RegisteredMeansUnreported
\* and HeartbeatEndsRegistered for the words of types.rs.
ImplementsLifecycle == Lifecycle!Spec

-----------------------------------------------------------------------------
(* Claims of the documentation that the model refutes.  No run checks them; *)
(* with one as an INVARIANT (HeartbeatEndsRegistered: a PROPERTY) of        *)
(* ClusterState.cfg TLC shows how it fails.                                 *)

\* store.rs: "control-plane metadata that is small but must not be lost".  A node
\* that memory holds has a persisted record.  A deregistration that began before
\* the node registered again deletes it.
RegisteredIsPersisted ==
    \A n \in Node : Quiet(n) /\ nodes[n] # None => store[n] # None

\* NodeStatus in types.rs, "Registered but no metrics/heartbeat observed yet": a
\* Registered node has no sample.  One that registers again has its old one.
RegisteredMeansUnreported ==
    \A n \in Node : nodes[n] # None /\ nodes[n].status = "Registered" =>
        nodes[n].latest_metrics = None

\* The same words: with its first heartbeat a node is no longer Registered.
HeartbeatEndsRegistered ==
    [][\A n \in Node : Heartbeat(n) => nodes'[n].status # "Registered"]_vars

\* The claim of state.rs and store.rs: "Every mutation is also written through
\* to the durable Store".  When no handler is in progress on a node, the store
\* holds what memory holds, the time it was last seen included.
EveryMutationPersisted ==
    \A n \in Node : Quiet(n) =>
        /\ SameFacts(nodes[n], store[n])
        /\ nodes[n] # None =>
               nodes[n].last_seen_unix = store[n].last_seen_unix

\* NodeStatus in types.rs: a node that is "Reachable but breaching one or more
\* degradation thresholds" is Degraded, so a Healthy node's latest sample does
\* not breach one.
HealthyMeansNoBreach ==
    \A n \in Node : nodes[n] # None /\ nodes[n].status = "Healthy"
                      /\ nodes[n].latest_metrics # None =>
        classify(nodes[n].latest_metrics) # "Degraded"

\* config.rs: thresholds "used by the daemon and monitor to classify health",
\* one of them the "Load-average-per-core ratio above which a node is degraded".
\* A node that reports normally with its load over the threshold is Degraded.
LoadBreachDegrades ==
    \A n \in Node : nodes[n] # None /\ nodes[n].status = "Healthy"
                      /\ nodes[n].latest_metrics # None =>
        "load" \notin nodes[n].latest_metrics
=============================================================================
