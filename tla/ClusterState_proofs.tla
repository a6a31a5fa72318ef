------------------------ MODULE ClusterState_proofs -------------------------
(***************************************************************************)
(* Proofs about ClusterState for every set of nodes, descriptions, samples *)
(* and tasks, every timeout, with and without store failures.              *)
(***************************************************************************)
EXTENDS ClusterState, TLAPS

(***************************************************************************)
(* What is true of a record in the table of a daemon with epoch e at time  *)
(* c, and of a record in the store or on its way there.                    *)
(***************************************************************************)
LiveRecord(r, e, c) ==
    /\ r.last_seen_unix <= c
    /\ r.status # "Unreachable" => r.last_seen_unix >= e
    /\ r.status = "Unreachable" => \/ r.last_seen_unix + NodeTimeout < c
                                   \/ r.last_seen_unix <= e
    /\ r.status = "Degraded" => /\ r.latest_metrics # None
                                /\ classify(r.latest_metrics) = "Degraded"

SavedRecord(r, c) ==
    /\ r.last_seen_unix <= c
    /\ Justified(r)

ClockInv ==
    /\ epoch <= now
    /\ cutoff # None => cutoff <= Cutoff(now)

TableInv == \A n \in Node : nodes[n] # None => LiveRecord(nodes[n], epoch, now)

StoreInv == \A n \in Node : store[n] # None => SavedRecord(store[n], now)

TaskInv ==
    \A t \in Task : snapshot[t] # None => SavedRecord(snapshot[t], now)

IInv == TypeOK /\ ClockInv /\ TableInv /\ StoreInv /\ TaskInv

-----------------------------------------------------------------------------
(* The records the handlers compute. *)

\* classify answers with one of two statuses (state.rs classify).
LEMMA ClassifyType ==
    ASSUME NEW s
    PROVE  classify(s) \in {"Healthy", "Degraded"}
  BY DEF classify

\* register_node builds a well-formed record seen now, from an absent node or
\* from the record the table holds.
LEMMA RegisteredRecord ==
    ASSUME TypeOK, ClockInv, NEW n \in Node, NEW i \in Info
    PROVE  /\ Registered(n, i) \in NodeRecord
           /\ Registered(n, i) # None
           /\ LiveRecord(Registered(n, i), epoch, now)
           /\ SavedRecord(Registered(n, i), now)
  <1>1. nodes[n] # None => nodes[n] \in NodeRecord
    BY DEF TypeOK
  <1>2. NewRecord(i) \in NodeRecord
    BY DEF NewRecord, NodeRecord, NodeStatus, TypeOK
  <1> DEFINE entry == IF nodes[n] = None THEN NewRecord(i) ELSE nodes[n]
             record == [entry EXCEPT !.info = i, !.status = "Registered",
                                     !.last_seen_unix = now]
  <1>3. entry \in NodeRecord
    BY <1>1, <1>2
  <1>4. /\ record \in NodeRecord
        /\ record.status = "Registered"
        /\ record.last_seen_unix = now
    BY <1>3 DEF NodeRecord, NodeStatus, TypeOK
  <1>5. Registered(n, i) = record
    BY DEF Registered
  <1> HIDE DEF entry, record
  <1>6. record # None
    BY <1>4, NoneAssumption DEF NodeRecord, NodeStatus
  <1>7. LiveRecord(record, epoch, now) /\ SavedRecord(record, now)
    BY <1>4 DEF LiveRecord, SavedRecord, Justified, ClockInv, TypeOK
  <1> QED
    BY <1>4, <1>5, <1>6, <1>7

\* ingest_metrics builds a well-formed record whose status is the verdict on the
\* sample stored in it.
LEMMA IngestedRecord ==
    ASSUME TypeOK, ClockInv, NEW r \in NodeRecord, NEW s \in Sample
    PROVE  /\ Ingested(r, s) \in NodeRecord
           /\ Ingested(r, s) # None
           /\ Ingested(r, s).last_seen_unix = now
           /\ LiveRecord(Ingested(r, s), epoch, now)
           /\ SavedRecord(Ingested(r, s), now)
  <1> DEFINE record == Ingested(r, s)
  <1>1. classify(s) \in {"Healthy", "Degraded"}
    BY ClassifyType
  <1>2. /\ record \in NodeRecord
        /\ record.status = classify(s)
        /\ record.last_seen_unix = now
        /\ record.latest_metrics = s
    BY <1>1 DEF Ingested, NodeRecord, NodeStatus, TypeOK
  <1> HIDE DEF record
  <1>3. record # None /\ s # None
    BY <1>2, NoneAssumption DEF NodeRecord, NodeStatus
  <1>4. LiveRecord(record, epoch, now) /\ SavedRecord(record, now)
    BY <1>1, <1>2, <1>3 DEF LiveRecord, SavedRecord, Justified, ClockInv, TypeOK
  <1> QED
    BY <1>2, <1>3, <1>4 DEF record

\* heartbeat keeps a table record well formed and refreshes it.
LEMMA HeardRecord ==
    ASSUME TypeOK, ClockInv, NEW r \in NodeRecord, LiveRecord(r, epoch, now)
    PROVE  /\ Heard(r) \in NodeRecord
           /\ Heard(r) # None
           /\ Heard(r).last_seen_unix = now
           /\ LiveRecord(Heard(r), epoch, now)
  <1> DEFINE record == Heard(r)
  <1>1. /\ record \in NodeRecord
        /\ record.status = IF r.status = "Unreachable" THEN "Healthy"
                                                        ELSE r.status
        /\ record.last_seen_unix = now
        /\ record.latest_metrics = r.latest_metrics
    BY DEF Heard, NodeRecord, NodeStatus, TypeOK
  <1> HIDE DEF record
  <1>2. record # None
    BY <1>1, NoneAssumption DEF NodeRecord, NodeStatus
  <1>3. LiveRecord(record, epoch, now)
    BY <1>1 DEF LiveRecord, ClockInv, TypeOK
  <1> QED
    BY <1>1, <1>2, <1>3 DEF record

\* Marking a record Unreachable changes nothing else of it (reap_stale and
\* bootstrap).
LEMMA MarkedRecord ==
    ASSUME NEW r \in NodeRecord
    PROVE  LET m == [r EXCEPT !.status = "Unreachable"]
           IN  /\ m \in NodeRecord
               /\ m # None
               /\ m.status = "Unreachable"
               /\ m.last_seen_unix = r.last_seen_unix
  <1> DEFINE m == [r EXCEPT !.status = "Unreachable"]
  <1>1. /\ m \in NodeRecord
        /\ m.status = "Unreachable"
        /\ m.last_seen_unix = r.last_seen_unix
    BY DEF NodeRecord, NodeStatus
  <1>2. m # None
    BY <1>1, NoneAssumption DEF NodeRecord, NodeStatus
  <1> QED
    BY <1>1, <1>2

-----------------------------------------------------------------------------
(* The invariant is inductive: one lemma per kind of step. *)

\* The initial state: an empty table and an empty store.
LEMMA InitIInv == Init => IInv
  <1> SUFFICES ASSUME Init PROVE IInv
    OBVIOUS
  <1>1. TypeOK
    BY DEF Init, TypeOK, TaskStep
  <1>2. ClockInv /\ TableInv /\ StoreInv /\ TaskInv
    BY DEF Init, ClockInv, TableInv, StoreInv, TaskInv
  <1> QED
    BY <1>1, <1>2 DEF IInv

\* A task that starts or ends leaves every other task as it was.
LEMMA BeginTask ==
    ASSUME TypeOK, TaskInv, NEW t \in Task,
           NEW step \in TaskStep, NEW n \in Node \cup {None},
           NEW rec \in NodeRecord \cup {None},
           step # "idle" => n \in Node,
           step = "put" => rec \in NodeRecord,
           rec # None => SavedRecord(rec, now),
           Begin(t, step, n, rec), now' = now
    PROVE  /\ pc' \in [Task -> TaskStep]
           /\ target' \in [Task -> Node \cup {None}]
           /\ snapshot' \in [Task -> NodeRecord \cup {None}]
           /\ \A u \in Task : /\ pc'[u] # "idle" => target'[u] \in Node
                              /\ pc'[u] = "put" => snapshot'[u] \in NodeRecord
           /\ TaskInv'
  <1>1. /\ pc' \in [Task -> TaskStep]
        /\ target' \in [Task -> Node \cup {None}]
        /\ snapshot' \in [Task -> NodeRecord \cup {None}]
    BY DEF TypeOK, Begin
  <1>2. \A u \in Task : /\ pc'[u] # "idle" => target'[u] \in Node
                        /\ pc'[u] = "put" => snapshot'[u] \in NodeRecord
    BY DEF TypeOK, Begin
  <1>3. TaskInv'
    BY DEF TypeOK, Begin, TaskInv
  <1> QED
    BY <1>1, <1>2, <1>3

\* register_node and ingest_metrics under the lock: the table and the clone get
\* the same record, seen now.
LEMMA LockedUpdateIInv ==
    ASSUME IInv, NEW t \in Task, NEW n \in Node, NEW rec \in NodeRecord,
           rec # None, LiveRecord(rec, epoch, now), SavedRecord(rec, now),
           nodes' = [nodes EXCEPT ![n] = rec],
           Begin(t, "put", n, rec),
           UNCHANGED <<process, connected, store, cutoff>>
    PROVE  IInv'
  <1> USE DEF process
  <1>1. /\ pc' \in [Task -> TaskStep]
        /\ target' \in [Task -> Node \cup {None}]
        /\ snapshot' \in [Task -> NodeRecord \cup {None}]
        /\ \A u \in Task : /\ pc'[u] # "idle" => target'[u] \in Node
                           /\ pc'[u] = "put" => snapshot'[u] \in NodeRecord
        /\ TaskInv'
    <2>1. "put" \in TaskStep
      BY DEF TaskStep
    <2> QED
      BY <2>1, BeginTask DEF IInv
  <1>2. TypeOK'
    BY <1>1 DEF IInv, TypeOK
  <1>3. TableInv'
    BY DEF IInv, TypeOK, TableInv
  <1>4. ClockInv' /\ StoreInv'
    BY DEF IInv, ClockInv, StoreInv, Cutoff
  <1> QED
    BY <1>1, <1>2, <1>3, <1>4 DEF IInv

\* A step that moves a task on and may change the store, but not the table
\* (put_node, delete_node, and the checks and steps of the channel handlers).
LEMMA TaskStepIInv ==
    ASSUME IInv, NEW t \in Task, NEW step \in TaskStep \ {"put"},
           NEW n \in Node \cup {None}, step # "idle" => n \in Node,
           Begin(t, step, n, None),
           store' \in [Node -> NodeRecord \cup {None}], StoreInv',
           connected' \in SUBSET Node,
           nodes' \in [Node -> NodeRecord \cup {None}], TableInv',
           UNCHANGED <<process, cutoff>>
    PROVE  IInv'
  <1> USE DEF process
  <1>1. /\ pc' \in [Task -> TaskStep]
        /\ target' \in [Task -> Node \cup {None}]
        /\ snapshot' \in [Task -> NodeRecord \cup {None}]
        /\ \A u \in Task : /\ pc'[u] # "idle" => target'[u] \in Node
                           /\ pc'[u] = "put" => snapshot'[u] \in NodeRecord
        /\ TaskInv'
    BY BeginTask DEF IInv
  <1>2. TypeOK'
    BY <1>1 DEF IInv, TypeOK
  <1>3. ClockInv'
    BY DEF IInv, ClockInv, Cutoff
  <1> QED
    BY <1>1, <1>2, <1>3 DEF IInv

LEMMA PutNodeIInv ==
    ASSUME IInv, NEW t \in Task, PutNode(t)
    PROVE  IInv'
  <1> USE DEF process
  <1>1. /\ target[t] \in Node
        /\ snapshot[t] \in NodeRecord
    BY DEF IInv, TypeOK, PutNode
  <1>2. snapshot[t] # None /\ SavedRecord(snapshot[t], now)
    BY <1>1, NoneAssumption DEF IInv, TaskInv, NodeRecord, NodeStatus
  <1>3. store' \in [Node -> NodeRecord \cup {None}] /\ StoreInv'
    BY <1>1, <1>2 DEF IInv, TypeOK, StoreInv, PutNode
  <1>4. nodes' \in [Node -> NodeRecord \cup {None}] /\ TableInv'
    BY DEF IInv, TypeOK, TableInv, PutNode
  <1>5. connected' \in SUBSET Node
    BY DEF IInv, TypeOK, PutNode
  <1>6. Begin(t, "idle", None, None)
    BY DEF PutNode, Finish
  <1>7. "idle" \in TaskStep \ {"put"}
    BY DEF TaskStep
  <1> QED
    BY <1>3, <1>4, <1>5, <1>6, <1>7, TaskStepIInv DEF PutNode

\* deregister_node's three steps and stream_commands' two.
LEMMA ChannelStepsIInv ==
    ASSUME IInv, NEW t \in Task,
           \/ \E n \in Node : DeregisterNode(t, n)
           \/ \E n \in Node : StreamCommands(t, n)
           \/ DetachCommandChannel(t)
           \/ DeleteNode(t)
           \/ AttachCommandChannel(t)
    PROVE  IInv'
  <1> USE DEF process
  <1>0. {"idle", "detach", "delete", "attach"} \subseteq TaskStep \ {"put"}
    BY DEF TaskStep
  <1>1. ASSUME NEW n \in Node, DeregisterNode(t, n)
        PROVE  IInv'
    <2>1. nodes' \in [Node -> NodeRecord \cup {None}] /\ TableInv'
      BY <1>1 DEF IInv, TypeOK, TableInv, DeregisterNode
    <2>2. /\ store' \in [Node -> NodeRecord \cup {None}] /\ StoreInv'
          /\ connected' \in SUBSET Node
      BY <1>1 DEF IInv, TypeOK, StoreInv, DeregisterNode
    <2> QED
      BY <1>0, <1>1, <2>1, <2>2, TaskStepIInv DEF DeregisterNode
  <1>2. ASSUME NEW n \in Node, StreamCommands(t, n)
        PROVE  IInv'
    <2>1. /\ nodes' \in [Node -> NodeRecord \cup {None}] /\ TableInv'
          /\ store' \in [Node -> NodeRecord \cup {None}] /\ StoreInv'
          /\ connected' \in SUBSET Node
      BY <1>2 DEF IInv, TypeOK, TableInv, StoreInv, StreamCommands
    <2> QED
      BY <1>0, <1>2, <2>1, TaskStepIInv DEF StreamCommands
  <1>3. CASE DetachCommandChannel(t)
    <2>1. target[t] \in Node
      BY <1>3 DEF IInv, TypeOK, DetachCommandChannel
    <2>2. /\ pc' \in [Task -> TaskStep]
          /\ \A u \in Task : /\ pc'[u] # "idle" => target'[u] \in Node
                             /\ pc'[u] = "put" => snapshot'[u] \in NodeRecord
      BY <1>0, <1>3, <2>1 DEF IInv, TypeOK, DetachCommandChannel, Goto
    <2>3. TypeOK'
      BY <1>3, <2>2 DEF IInv, TypeOK, DetachCommandChannel, Goto
    <2>4. ClockInv' /\ TableInv' /\ StoreInv' /\ TaskInv'
      BY <1>3 DEF IInv, ClockInv, TableInv, StoreInv, TaskInv, Cutoff,
                  DetachCommandChannel, Goto
    <2> QED
      BY <2>3, <2>4 DEF IInv
  <1>4. CASE DeleteNode(t)
    <2>1. store' \in [Node -> NodeRecord \cup {None}] /\ StoreInv'
      BY <1>4 DEF IInv, TypeOK, StoreInv, DeleteNode
    <2>2. /\ nodes' \in [Node -> NodeRecord \cup {None}] /\ TableInv'
          /\ connected' \in SUBSET Node
      BY <1>4 DEF IInv, TypeOK, TableInv, DeleteNode
    <2>3. Begin(t, "idle", None, None)
      BY <1>4 DEF DeleteNode, Finish
    <2> QED
      BY <1>0, <1>4, <2>1, <2>2, <2>3, TaskStepIInv DEF DeleteNode
  <1>5. CASE AttachCommandChannel(t)
    <2>1. target[t] \in Node
      BY <1>5 DEF IInv, TypeOK, AttachCommandChannel
    <2>2. /\ nodes' \in [Node -> NodeRecord \cup {None}] /\ TableInv'
          /\ store' \in [Node -> NodeRecord \cup {None}] /\ StoreInv'
          /\ connected' \in SUBSET Node
      BY <1>5, <2>1 DEF IInv, TypeOK, TableInv, StoreInv, AttachCommandChannel
    <2>3. Begin(t, "idle", None, None)
      BY <1>5 DEF AttachCommandChannel, Finish
    <2> QED
      BY <1>0, <1>5, <2>2, <2>3, TaskStepIInv DEF AttachCommandChannel
  <1> QED
    BY <1>1, <1>2, <1>3, <1>4, <1>5

\* A handler's step.
LEMMA HandlerIInv ==
    ASSUME IInv, NEW t \in Task, Handler(t)
    PROVE  IInv'
  <1>1. ASSUME NEW n \in Node, NEW i \in Info, RegisterNode(t, n, i)
        PROVE  IInv'
    <2>1. /\ Registered(n, i) \in NodeRecord
          /\ Registered(n, i) # None
          /\ LiveRecord(Registered(n, i), epoch, now)
          /\ SavedRecord(Registered(n, i), now)
      BY RegisteredRecord DEF IInv
    <2> QED
      BY <1>1, <2>1, LockedUpdateIInv DEF RegisterNode
  <1>2. ASSUME NEW n \in Node, NEW s \in Sample, IngestMetrics(t, n, s)
        PROVE  IInv'
    <2>1. nodes[n] \in NodeRecord
      BY <1>2 DEF IInv, TypeOK, IngestMetrics
    <2>2. /\ Ingested(nodes[n], s) \in NodeRecord
          /\ Ingested(nodes[n], s) # None
          /\ LiveRecord(Ingested(nodes[n], s), epoch, now)
          /\ SavedRecord(Ingested(nodes[n], s), now)
      BY <2>1, IngestedRecord DEF IInv
    <2> QED
      BY <1>2, <2>2, LockedUpdateIInv DEF IngestMetrics
  <1> QED
    BY <1>1, <1>2, PutNodeIInv, ChannelStepsIInv DEF Handler

\* The reaper's sweep: a record older than the cutoff computed earlier is older
\* than the cutoff of now.
LEMMA ReapSweepIInv ==
    ASSUME IInv, ReapSweep
    PROVE  IInv'
  <1> USE DEF process
  <1>1. ASSUME NEW n \in Node
        PROVE  /\ nodes'[n] \in NodeRecord \cup {None}
               /\ nodes'[n] # None => LiveRecord(nodes'[n], epoch, now)
    <2>1. CASE nodes[n] # None /\ Stale(nodes[n], cutoff)
      <3>1. nodes[n] \in NodeRecord
        BY <2>1 DEF IInv, TypeOK
      <3> DEFINE m == [nodes[n] EXCEPT !.status = "Unreachable"]
      <3>2. nodes'[n] = m
        BY <2>1 DEF ReapSweep
      <3>3. /\ m \in NodeRecord
            /\ m.status = "Unreachable"
            /\ m.last_seen_unix = nodes[n].last_seen_unix
        BY <3>1, MarkedRecord
      <3>4. nodes[n].last_seen_unix \in Nat
        BY <3>1 DEF NodeRecord
      <3> HIDE DEF m
      <3>5. /\ nodes[n].last_seen_unix < cutoff
            /\ cutoff <= Cutoff(now)
            /\ cutoff \in Nat
            /\ now \in Nat
        BY <2>1 DEF IInv, TypeOK, ClockInv, ReapSweep, Stale
      <3>6. nodes[n].last_seen_unix + NodeTimeout < now
        BY <3>4, <3>5, TimeAssumption DEF Cutoff
      <3>7. LiveRecord(m, epoch, now)
        BY <3>3, <3>4, <3>5, <3>6, TimeAssumption DEF LiveRecord
      <3> QED
        BY <3>2, <3>3, <3>7
    <2>2. CASE ~(nodes[n] # None /\ Stale(nodes[n], cutoff))
      BY <2>2 DEF IInv, TypeOK, TableInv, ReapSweep
    <2> QED
      BY <2>1, <2>2
  <1>2. nodes' \in [Node -> NodeRecord \cup {None}]
    BY <1>1 DEF ReapSweep
  <1>3. TypeOK'
    BY <1>2 DEF IInv, TypeOK, ReapSweep
  <1>4. TableInv'
    BY <1>1 DEF TableInv, ReapSweep
  <1>5. ClockInv' /\ StoreInv' /\ TaskInv'
    BY DEF IInv, ClockInv, StoreInv, TaskInv, ReapSweep
  <1> QED
    BY <1>3, <1>4, <1>5 DEF IInv

\* bootstrap: every rehydrated record is Unreachable and was saved before now.
LEMMA BootstrapIInv ==
    ASSUME IInv, Bootstrap
    PROVE  IInv'
  <1>1. ASSUME NEW n \in Node
        PROVE  /\ nodes'[n] \in NodeRecord \cup {None}
               /\ nodes'[n] # None => LiveRecord(nodes'[n], now, now)
    <2>1. CASE store[n] # None
      <3>1. store[n] \in NodeRecord
        BY <2>1 DEF IInv, TypeOK
      <3> DEFINE m == [store[n] EXCEPT !.status = "Unreachable"]
      <3>2. nodes'[n] = m
        BY <2>1 DEF Bootstrap, Rehydrated
      <3>3. /\ m \in NodeRecord
            /\ m.status = "Unreachable"
            /\ m.last_seen_unix = store[n].last_seen_unix
        BY <3>1, MarkedRecord
      <3>4. store[n].last_seen_unix <= now
        BY <2>1 DEF IInv, StoreInv, SavedRecord
      <3> HIDE DEF m
      <3>5. LiveRecord(m, now, now)
        BY <3>3, <3>4 DEF LiveRecord
      <3> QED
        BY <3>2, <3>3, <3>5
    <2>2. CASE store[n] = None
      BY <2>2 DEF Bootstrap
    <2> QED
      BY <2>1, <2>2
  <1>2. nodes' \in [Node -> NodeRecord \cup {None}]
    BY <1>1 DEF Bootstrap
  <1>3. TypeOK'
    BY <1>2 DEF IInv, TypeOK, Bootstrap
  <1>4. TableInv'
    BY <1>1 DEF TableInv, Bootstrap
  <1>5. ClockInv' /\ StoreInv' /\ TaskInv'
    BY DEF IInv, TypeOK, ClockInv, StoreInv, TaskInv, Bootstrap
  <1> QED
    BY <1>3, <1>4, <1>5 DEF IInv

\* A heartbeat.
LEMMA HeartbeatIInv ==
    ASSUME IInv, NEW n \in Node, Heartbeat(n)
    PROVE  IInv'
  <1> USE DEF process
  <1>1. nodes[n] \in NodeRecord /\ LiveRecord(nodes[n], epoch, now)
    BY DEF IInv, TypeOK, TableInv, Heartbeat
  <1>2. Heard(nodes[n]) \in NodeRecord /\ LiveRecord(Heard(nodes[n]), epoch, now)
    BY <1>1, HeardRecord DEF IInv
  <1>3. TypeOK'
    BY <1>2 DEF IInv, TypeOK, Heartbeat
  <1>4. TableInv'
    BY <1>2 DEF IInv, TypeOK, TableInv, Heartbeat
  <1>5. ClockInv' /\ StoreInv' /\ TaskInv'
    BY DEF IInv, ClockInv, StoreInv, TaskInv, Cutoff, Heartbeat
  <1> QED
    BY <1>3, <1>4, <1>5 DEF IInv

\* Time passes: what was silent stays silent.
LEMMA TickIInv ==
    ASSUME IInv, Tick
    PROVE  IInv'
  <1>0. now \in Nat /\ now' = now + 1
    BY DEF IInv, TypeOK, Tick
  <1>1. TypeOK'
    BY <1>0 DEF IInv, TypeOK, Tick
  <1>2. ASSUME NEW r \in NodeRecord
        PROVE  /\ LiveRecord(r, epoch, now) => LiveRecord(r, epoch, now + 1)
               /\ SavedRecord(r, now) => SavedRecord(r, now + 1)
    <2>1. r.last_seen_unix \in Nat
      BY DEF NodeRecord
    <2> QED
      BY <1>0, <2>1, TimeAssumption DEF LiveRecord, SavedRecord, IInv, TypeOK
  <1>3. TableInv'
    BY <1>0, <1>2 DEF IInv, TypeOK, TableInv, Tick
  <1>4. StoreInv'
    BY <1>0, <1>2 DEF IInv, TypeOK, StoreInv, Tick
  <1>5. TaskInv'
    BY <1>0, <1>2 DEF IInv, TypeOK, TaskInv, Tick
  <1>6. ClockInv'
    BY <1>0, TimeAssumption DEF IInv, TypeOK, ClockInv, Cutoff, Tick
  <1> QED
    BY <1>1, <1>3, <1>4, <1>5, <1>6 DEF IInv

\* Every step preserves the invariant.
LEMMA NextIInv == IInv /\ [Next]_vars => IInv'
  <1> SUFFICES ASSUME IInv, [Next]_vars PROVE IInv'
    OBVIOUS
  <1>1. ASSUME NEW n \in Node, StreamClosed(n)
        PROVE  IInv'
    BY <1>1 DEF IInv, TypeOK, ClockInv, TableInv, StoreInv, TaskInv, Cutoff,
                StreamClosed, process
  <1>2. CASE ReapCutoff
    <2>1. Cutoff(now) \in Nat
      BY TimeAssumption DEF IInv, TypeOK, Cutoff
    <2> QED
      BY <1>2, <2>1 DEF IInv, TypeOK, ClockInv, TableInv, StoreInv, TaskInv,
                        ReapCutoff, process
  <1>3. CASE Crash
    <2>1. TypeOK'
      BY <1>3 DEF IInv, TypeOK, TaskStep, Crash
    <2> QED
      BY <1>3, <2>1 DEF IInv, ClockInv, TableInv, StoreInv, TaskInv, Crash
  <1>4. CASE UNCHANGED vars
    BY <1>4 DEF IInv, TypeOK, ClockInv, TableInv, StoreInv, TaskInv, Cutoff, vars
  <1> QED
    BY <1>1, <1>2, <1>3, <1>4, HandlerIInv, HeartbeatIInv, ReapSweepIInv,
       BootstrapIInv, TickIInv DEF Next

\* The inductive invariant holds in every reachable state.
THEOREM InductiveInvariant == Spec => []IInv
  BY InitIInv, NextIInv, PTL DEF Spec

\* Type correctness (ClusterState TypeOK).
THEOREM TypeCorrect == Spec => []TypeOK
  <1>1. IInv => TypeOK
    BY DEF IInv
  <1> QED
    BY <1>1, InductiveInvariant, PTL

\* An Unreachable node has been silent for longer than the timeout, or since the
\* daemon came up (state.rs reap_stale, bootstrap).
THEOREM UnreachableJustified == Spec => []UnreachableMeansSilent
  <1>1. IInv => UnreachableMeansSilent
    BY DEF IInv, TableInv, LiveRecord, UnreachableMeansSilent
  <1> QED
    BY <1>1, InductiveInvariant, PTL

\* A node with any other status has been heard by this life of the daemon: a
\* restart takes nobody for alive (state.rs bootstrap, heartbeat).
THEOREM AliveJustified == Spec => []AliveMeansHeard
  <1>1. IInv => AliveMeansHeard
    BY DEF IInv, TableInv, LiveRecord, AliveMeansHeard
  <1> QED
    BY <1>1, InductiveInvariant, PTL

\* The store holds only records whose status is Registered or the verdict on
\* the sample stored with it (register_node, ingest_metrics, put_node).
THEOREM StoreConsistent == Spec => []PersistedStatusJustified
  <1>1. IInv => PersistedStatusJustified
    BY DEF IInv, StoreInv, SavedRecord, PersistedStatusJustified
  <1> QED
    BY <1>1, InductiveInvariant, PTL

\* A Degraded node's latest sample breaches a threshold (classify).
THEOREM DegradedJustified == Spec => []DegradedMeansBreach
  <1>1. IInv => DegradedMeansBreach
    BY DEF IInv, TableInv, LiveRecord, DegradedMeansBreach
  <1> QED
    BY <1>1, InductiveInvariant, PTL

\* The table moves forward while the process runs: no late handler turns it back
\* (register_node, ingest_metrics, heartbeat, put_node).
THEOREM ForwardOnly == Spec => MemoryMovesForward
  <1> DEFINE Forward ==
        up /\ up' => \A n \in Node : nodes'[n] # None =>
          IF nodes[n] = None
          THEN nodes'[n].status = "Registered" /\ nodes'[n].last_seen_unix = now
          ELSE nodes'[n].last_seen_unix >= nodes[n].last_seen_unix
  <1>1. ASSUME IInv, [Next]_vars
        PROVE  Forward
    <2>0. ASSUME NEW n \in Node, nodes[n] # None
          PROVE  /\ nodes[n] \in NodeRecord
                 /\ nodes[n].last_seen_unix \in Nat
                 /\ nodes[n].last_seen_unix <= now
                 /\ now \in Nat
      BY <1>1, <2>0 DEF IInv, TypeOK, NodeRecord, TableInv, LiveRecord
    <2>1. CASE UNCHANGED <<up, nodes>>
      BY <2>0, <2>1
    <2>2. ASSUME NEW t \in Task, NEW n \in Node, NEW i \in Info,
                 RegisterNode(t, n, i)
          PROVE  Forward
      <3>1. /\ Registered(n, i).status = "Registered"
            /\ Registered(n, i).last_seen_unix = now
        <4> DEFINE entry == IF nodes[n] = None THEN NewRecord(i) ELSE nodes[n]
        <4>1. entry \in NodeRecord
          BY <1>1, <2>0 DEF NewRecord, NodeRecord, NodeStatus, IInv, TypeOK
        <4>2. LET record == [entry EXCEPT !.info = i, !.status = "Registered",
                                          !.last_seen_unix = now]
              IN  record.status = "Registered" /\ record.last_seen_unix = now
          BY <4>1 DEF NodeRecord
        <4> QED
          BY <4>2 DEF Registered
      <3>2. nodes' = [nodes EXCEPT ![n] = Registered(n, i)]
        BY <2>2 DEF RegisterNode
      <3> QED
        BY <1>1, <2>0, <3>1, <3>2 DEF IInv, TypeOK
    <2>3. ASSUME NEW t \in Task, NEW n \in Node, NEW s \in Sample,
                 IngestMetrics(t, n, s)
          PROVE  Forward
      <3>1. Ingested(nodes[n], s).last_seen_unix = now
        BY <1>1, <2>0, <2>3, IngestedRecord DEF IInv, IngestMetrics
      <3>2. /\ nodes' = [nodes EXCEPT ![n] = Ingested(nodes[n], s)]
            /\ nodes[n] # None
        BY <2>3 DEF IngestMetrics
      <3> QED
        BY <1>1, <2>0, <3>1, <3>2 DEF IInv, TypeOK
    <2>4. ASSUME NEW n \in Node, Heartbeat(n)
          PROVE  Forward
      <3>1. Heard(nodes[n]).last_seen_unix = now
        BY <1>1, <2>0, <2>4, HeardRecord DEF IInv, TableInv, Heartbeat
      <3>2. /\ nodes' = [nodes EXCEPT ![n] = Heard(nodes[n])]
            /\ nodes[n] # None
        BY <2>4 DEF Heartbeat
      <3> QED
        BY <1>1, <2>0, <3>1, <3>2 DEF IInv, TypeOK
    <2>5. CASE ReapSweep
      <3>1. ASSUME NEW n \in Node, nodes'[n] # None
            PROVE  /\ nodes[n] # None
                   /\ nodes'[n].last_seen_unix = nodes[n].last_seen_unix
        BY <2>0, <2>5, <3>1, MarkedRecord DEF ReapSweep
      <3> QED
        BY <2>0, <3>1
    <2>6. ASSUME NEW t \in Task, NEW n \in Node, DeregisterNode(t, n)
          PROVE  Forward
      BY <1>1, <2>0, <2>6 DEF DeregisterNode, IInv, TypeOK
    <2>7. CASE Crash
      BY <2>7 DEF Crash
    <2>8. CASE Bootstrap
      BY <2>8 DEF Bootstrap
    <2>9. CASE \/ \E t \in Task : \/ PutNode(t)
                                 \/ DetachCommandChannel(t)
                                 \/ DeleteNode(t)
                                 \/ AttachCommandChannel(t)
                                 \/ \E n \in Node : StreamCommands(t, n)
               \/ \E n \in Node : StreamClosed(n)
               \/ ReapCutoff
               \/ Tick
               \/ UNCHANGED vars
      BY <2>1, <2>9 DEF PutNode, DetachCommandChannel, DeleteNode,
           AttachCommandChannel, StreamCommands, StreamClosed, ReapCutoff, Tick,
           process, vars
    <2> HIDE DEF Forward
    <2> QED
      BY <1>1, <2>2, <2>3, <2>4, <2>5, <2>6, <2>7, <2>8, <2>9 DEF Next, Handler
  <1> QED
    BY <1>1, InductiveInvariant, PTL DEF Spec, MemoryMovesForward

-----------------------------------------------------------------------------
(***************************************************************************)
(* The cluster state implements NodeLifecycle, for every set of nodes,     *)
(* descriptions, samples and tasks, every timeout, with and without store  *)
(* failures.                                                               *)
(***************************************************************************)

\* The table as NodeLifecycle has it.
Table == [n \in Node |-> IF nodes[n] = None THEN None ELSE Shown(nodes[n])]

\* A record that is shown is one of NodeLifecycle's, unless it is Draining, and
\* none of them is None.
LEMMA ShownRecord ==
    ASSUME NEW r \in NodeRecord
    PROVE  /\ Shown(r) # None
           /\ r.status # "Draining" => Shown(r) \in Lifecycle!Record
  BY NoneAssumption DEF Shown, NodeRecord, NodeStatus, Lifecycle!Record

\* Changing the record of one node changes one entry of the table.
LEMMA TableExcept ==
    ASSUME NEW n \in Node, NEW r, IInv,
           nodes' = [nodes EXCEPT ![n] = r]
    PROVE  Table' = [Table EXCEPT ![n] = IF r = None THEN None ELSE Shown(r)]
  BY DEF Table, IInv, TypeOK

\* A node is in the table if and only if it has a record.
LEMMA TableEntry ==
    ASSUME IInv, NEW n \in Node
    PROVE  /\ nodes[n] = None <=> Table[n] = None
           /\ nodes[n] # None => Table[n] = Shown(nodes[n])
  <1>1. nodes[n] # None => nodes[n] \in NodeRecord
    BY DEF IInv, TypeOK
  <1> QED
    BY <1>1, ShownRecord DEF Table

-----------------------------------------------------------------------------
(* Each action is an action of NodeLifecycle, or shows nothing of itself. *)

\* register_node is a registration, also when the node is known already.
LEMMA RegisterRefines ==
    ASSUME IInv, NEW t \in Task, NEW n \in Node, NEW i \in Info,
           RegisterNode(t, n, i)
    PROVE  Lifecycle!Register(n, i)
  <1> DEFINE r == Registered(n, i)
             kept == IF nodes[n] = None THEN None ELSE nodes[n].latest_metrics
  <1>1. r \in NodeRecord /\ Shown(r) = [info |-> i, status |-> "Registered",
                                        latest_metrics |-> kept]
    <2>1. nodes[n] # None => nodes[n] \in NodeRecord
      BY DEF IInv, TypeOK
    <2>2. now \in Nat
      BY DEF IInv, TypeOK
    <2>3. CASE nodes[n] = None
      BY <2>2, <2>3 DEF Registered, NewRecord, NodeRecord, NodeStatus, Shown
    <2>4. CASE nodes[n] # None
      BY <2>1, <2>2, <2>4 DEF Registered, NodeRecord, NodeStatus, Shown
    <2> QED
      BY <2>3, <2>4
  <1>2. r # None
    BY <1>1, NoneAssumption DEF NodeRecord, NodeStatus
  <1>3. Table' = [Table EXCEPT ![n] = Shown(r)]
    BY <1>2, TableExcept DEF RegisterNode
  <1>4. kept = IF Table[n] # None THEN Table[n].latest_metrics ELSE None
    <2>1. CASE nodes[n] = None
      BY <2>1, TableEntry
    <2>2. CASE nodes[n] # None
      <3>1. Table[n] # None /\ Table[n] = Shown(nodes[n])
        BY <2>2, TableEntry
      <3>2. Shown(nodes[n]).latest_metrics = nodes[n].latest_metrics
        BY DEF Shown
      <3> QED
        BY <2>2, <3>1, <3>2
    <2> QED
      BY <2>1, <2>2
  <1> QED
    BY <1>1, <1>3, <1>4 DEF Lifecycle!Register, Lifecycle!Becomes,
       Lifecycle!Known, Table, RegisterNode, process

\* ingest_metrics is a report.
LEMMA IngestRefines ==
    ASSUME IInv, NEW t \in Task, NEW n \in Node, NEW s \in Sample,
           IngestMetrics(t, n, s)
    PROVE  Lifecycle!Report(n, s)
  <1> DEFINE r == Ingested(nodes[n], s)
  <1>1. nodes[n] \in NodeRecord /\ nodes[n] # None
    BY DEF IInv, TypeOK, IngestMetrics
  <1>2. now \in Nat
    BY DEF IInv, TypeOK
  <1>3. r \in NodeRecord
    BY <1>1, <1>2, ClassifyType DEF Ingested, NodeRecord, NodeStatus
  <1>4. Shown(r) = [info |-> Shown(nodes[n]).info, status |-> classify(s),
                    latest_metrics |-> s]
    BY <1>1 DEF Ingested, NodeRecord, Shown
  <1>5. r # None
    BY <1>3, NoneAssumption DEF NodeRecord, NodeStatus
  <1>6. Table' = [Table EXCEPT ![n] = Shown(r)]
    BY <1>5, TableExcept DEF IngestMetrics
  <1>7. Table[n] # None /\ Table[n] = Shown(nodes[n])
    BY <1>1, TableEntry
  <1> QED
    BY <1>4, <1>6, <1>7 DEF Lifecycle!Report, Lifecycle!Becomes,
       Lifecycle!Known, Table, IngestMetrics, process

\* A heartbeat revives a lost node and is not seen otherwise.
LEMMA HeartbeatRefines ==
    ASSUME IInv, NEW n \in Node, Heartbeat(n)
    PROVE  Lifecycle!Revive(n) \/ UNCHANGED <<up, Table>>
  <1> DEFINE r == Heard(nodes[n])
  <1>1. nodes[n] \in NodeRecord /\ nodes[n] # None
    BY DEF IInv, TypeOK, Heartbeat
  <1>2. now \in Nat
    BY DEF IInv, TypeOK
  <1>3. r \in NodeRecord
    BY <1>1, <1>2 DEF Heard, NodeRecord, NodeStatus
  <1>4. r # None
    BY <1>3, NoneAssumption DEF NodeRecord, NodeStatus
  <1>5. Table' = [Table EXCEPT ![n] = Shown(r)]
    BY <1>4, TableExcept DEF Heartbeat
  <1>6. Table[n] # None /\ Table[n] = Shown(nodes[n])
    BY <1>1, TableEntry
  <1>7. up /\ UNCHANGED up
    BY DEF Heartbeat, process
  <1>8. CASE nodes[n].status = "Unreachable"
    <2>1. Shown(r) = [Shown(nodes[n]) EXCEPT !.status = "Healthy"]
      BY <1>1, <1>8 DEF Heard, NodeRecord, Shown
    <2>2. Table[n].status = "Unreachable"
      BY <1>6, <1>8 DEF Shown
    <2> QED
      BY <1>5, <1>6, <1>7, <2>1, <2>2 DEF Lifecycle!Revive, Lifecycle!Becomes,
         Lifecycle!Known, Table
  <1>9. CASE nodes[n].status # "Unreachable"
    <2>1. Shown(r) = Shown(nodes[n])
      BY <1>1, <1>9 DEF Heard, NodeRecord, Shown
    <2>2. Table' = Table
      BY <1>5, <1>6, <2>1 DEF Table
    <2> QED
      BY <1>7, <2>2
  <1> QED
    BY <1>8, <1>9

\* A sweep of the reaper loses the nodes it finds stale.
LEMMA ReapRefines ==
    ASSUME IInv, ReapSweep
    PROVE  \E silent \in SUBSET Lifecycle!Known : Lifecycle!Lose(silent)
  <1> DEFINE silent == {n \in Node : nodes[n] # None /\ Stale(nodes[n], cutoff)}
  <1>1. silent \in SUBSET Lifecycle!Known
    BY TableEntry DEF Lifecycle!Known, Table
  <1>2. ASSUME NEW n \in Node
        PROVE  Table'[n] = IF n \in silent THEN Lifecycle!Lost(Table[n])
                                           ELSE Table[n]
    <2>1. CASE n \in silent
      <3>1. nodes[n] \in NodeRecord /\ nodes[n] # None
        BY <2>1 DEF IInv, TypeOK
      <3> DEFINE r == [nodes[n] EXCEPT !.status = "Unreachable"]
      <3>2. nodes'[n] = r
        BY <2>1 DEF ReapSweep
      <3>3. r \in NodeRecord
        BY <3>1 DEF NodeRecord, NodeStatus
      <3>4. r # None
        BY <3>3, NoneAssumption DEF NodeRecord, NodeStatus
      <3>5. Shown(r) = [Shown(nodes[n]) EXCEPT !.status = "Unreachable"]
        BY <3>1 DEF Shown, NodeRecord
      <3>6. Table'[n] = Shown(r)
        BY <3>2, <3>4 DEF Table
      <3>7. Table[n] = Shown(nodes[n])
        BY <3>1, TableEntry
      <3> QED
        BY <2>1, <3>5, <3>6, <3>7 DEF Lifecycle!Lost
    <2>2. CASE n \notin silent
      BY <2>2 DEF ReapSweep, Table
    <2> QED
      BY <2>1, <2>2
  <1>3. Table' = [n \in Node |-> IF n \in silent THEN Lifecycle!Lost(Table[n])
                                                 ELSE Table[n]]
    BY <1>2 DEF Table
  <1>4. up /\ UNCHANGED up
    BY DEF ReapSweep, process
  <1> HIDE DEF silent
  <1> QED
    BY <1>1, <1>3, <1>4 DEF Lifecycle!Lose, Table

\* What bootstrap reads from the store is a node known as lost.
LEMMA BootstrapRefines ==
    ASSUME IInv, Bootstrap
    PROVE  Lifecycle!Start
  <1>1. ASSUME NEW n \in Node
        PROVE  Table'[n] \in {r \in Lifecycle!Record : r.status = "Unreachable"}
                             \cup {None}
    <2>1. CASE store[n] = None
      BY <2>1 DEF Bootstrap, Table
    <2>2. CASE store[n] # None
      <3> DEFINE r == Rehydrated(store[n])
      <3>1. r \in NodeRecord /\ r.status = "Unreachable"
        BY <2>2 DEF IInv, TypeOK, Rehydrated, NodeRecord, NodeStatus
      <3>2. r # None
        BY <3>1, NoneAssumption DEF NodeRecord, NodeStatus
      <3>3. Table'[n] = Shown(r)
        BY <2>2, <3>2 DEF Bootstrap, Table
      <3>4. Shown(r) \in Lifecycle!Record /\ Shown(r).status = "Unreachable"
        BY <3>1, ShownRecord DEF Shown
      <3> QED
        BY <3>3, <3>4
    <2> QED
      BY <2>1, <2>2
  <1>2. Table' \in [Node -> {r \in Lifecycle!Record : r.status = "Unreachable"}
                            \cup {None}]
    BY <1>1 DEF Table
  <1> QED
    BY <1>2 DEF Lifecycle!Start, Bootstrap, Table

\* Every step of the daemon is a step of NodeLifecycle or is not seen.
LEMMA StepRefines ==
    IInv /\ [Next]_vars => [Lifecycle!Next]_(Lifecycle!vars)
  <1> SUFFICES ASSUME IInv, [Next]_vars
               PROVE  Lifecycle!Next \/ UNCHANGED <<up, Table>>
    BY DEF Lifecycle!vars, Table
  <1>1. ASSUME NEW t \in Task, Handler(t)
        PROVE  Lifecycle!Next \/ UNCHANGED <<up, Table>>
    <2>1. ASSUME NEW n \in Node, DeregisterNode(t, n)
          PROVE  Lifecycle!Remove(n)
      <3>1. Table' = [Table EXCEPT ![n] = None]
        BY <2>1, TableExcept DEF DeregisterNode
      <3> QED
        BY <2>1, <3>1 DEF Lifecycle!Remove, Lifecycle!Becomes, Table,
           DeregisterNode, process
    <2>2. CASE UNCHANGED <<up, nodes>>
      BY <2>2 DEF Table
    <2>3. ASSUME NEW n \in Node, StreamCommands(t, n)
          PROVE  UNCHANGED <<up, nodes>>
      BY <2>3 DEF StreamCommands, process
    <2>4. ASSUME \/ PutNode(t) \/ DetachCommandChannel(t)
                 \/ DeleteNode(t) \/ AttachCommandChannel(t)
          PROVE  UNCHANGED <<up, nodes>>
      BY <2>4 DEF PutNode, DetachCommandChannel, DeleteNode,
                  AttachCommandChannel, process
    <2> QED
      BY <1>1, <2>1, <2>2, <2>3, <2>4, RegisterRefines, IngestRefines
      DEF Handler, Lifecycle!Next
  <1>2. ASSUME NEW n \in Node, Heartbeat(n)
        PROVE  Lifecycle!Next \/ UNCHANGED <<up, Table>>
    BY <1>2, HeartbeatRefines DEF Lifecycle!Next
  <1>3. CASE ReapSweep
    BY <1>3, ReapRefines DEF Lifecycle!Next
  <1>4. CASE Crash
    <2>1. Table' = [n \in Node |-> None]
      BY <1>4 DEF Crash, Table
    <2> QED
      BY <1>4, <2>1 DEF Lifecycle!Next, Lifecycle!Stop, Lifecycle!Nobody, Table,
         Crash
  <1>5. CASE Bootstrap
    BY <1>5, BootstrapRefines DEF Lifecycle!Next
  <1>6. ASSUME \/ \E n \in Node : StreamClosed(n)
               \/ ReapCutoff \/ Tick \/ UNCHANGED vars
        PROVE  UNCHANGED <<up, Table>>
    BY <1>6 DEF StreamClosed, ReapCutoff, Tick, vars, process, Table
  <1> QED
    BY <1>1, <1>2, <1>3, <1>4, <1>5, <1>6 DEF Next

\* The cluster state implements the life of a node that its readers count on:
\* overlapping handlers, late writes, an old cutoff and restarts amount to one
\* change of the table after another, each for a reason NodeLifecycle knows
\* (state.rs register_node, ingest_metrics, heartbeat, reap_stale,
\* deregister_node, bootstrap).
THEOREM LifecycleImplemented == Spec => ImplementsLifecycle
  <1>1. Init => Lifecycle!Init
    BY DEF Init, Lifecycle!Init, Lifecycle!Nobody
  <1> QED
    BY <1>1, StepRefines, InductiveInvariant, PTL
    DEF Spec, ImplementsLifecycle, Lifecycle!Spec

-----------------------------------------------------------------------------
(***************************************************************************)
(* What the write-through of hpc-daemon/src/state.rs does guarantee: when  *)
(* handlers never overlap and the store does not fail, memory and store    *)
(* agree on every node between handlers, across crashes and restarts, with *)
(* heartbeats and reaper sweeps anywhere in between.  Both hypotheses are  *)
(* needed: TLC refutes the conclusion when two handlers overlap.           *)
(***************************************************************************)

\* Handlers run one at a time and every redb transaction commits.
Serial == (\A t, u \in Task : t = u) /\ ~StoreFaults

\* What is known of the node a handler is working on.
HandlerInv ==
    \A t \in Task :
        /\ pc[t] = "idle" => target[t] = None
        /\ pc[t] = "put" => /\ nodes[target[t]] # None
                            /\ SameFacts(nodes[target[t]], snapshot[t])
        /\ pc[t] = "attach" => /\ nodes[target[t]] # None
                               /\ SameFacts(nodes[target[t]], store[target[t]])
        /\ pc[t] \in {"detach", "delete"} => nodes[target[t]] = None
        /\ pc[t] = "delete" => target[t] \notin connected

\* Between handlers the two tables agree and only known nodes have a channel.
QuietInv ==
    \A n \in Node : Quiet(n) =>
        /\ SameFacts(nodes[n], store[n])
        /\ n \in connected => nodes[n] # None

DownInv == ~up => connected = {} /\ \A t \in Task : pc[t] = "idle"

SInv == HandlerInv /\ QuietInv /\ DownInv

-----------------------------------------------------------------------------
\* Marking or hearing a record changes none of its durable facts.
LEMMA FactsKept ==
    ASSUME now \in Nat, NEW r \in NodeRecord
    PROVE  LET h == Heard(r)
               m == [r EXCEPT !.status = "Unreachable"]
           IN  /\ h # None /\ h.info = r.info
               /\ h.latest_metrics = r.latest_metrics
               /\ m # None /\ m.info = r.info
               /\ m.latest_metrics = r.latest_metrics
  <1> DEFINE h == Heard(r)
             m == [r EXCEPT !.status = "Unreachable"]
  <1>1. /\ h \in NodeRecord
        /\ h.info = r.info
        /\ h.latest_metrics = r.latest_metrics
    BY DEF Heard, NodeRecord, NodeStatus
  <1>2. /\ m \in NodeRecord
        /\ m.info = r.info
        /\ m.latest_metrics = r.latest_metrics
    BY DEF NodeRecord, NodeStatus
  <1> HIDE DEF h, m
  <1>3. h # None /\ m # None
    BY <1>1, <1>2, NoneAssumption DEF NodeRecord, NodeStatus
  <1> QED
    BY <1>1, <1>2, <1>3 DEF h, m

\* A step that changes no task, no channel and not the store, and keeps every
\* table record's facts (heartbeat, reap_stale, the clock).
LEMMA TableStepSInv ==
    ASSUME SInv, IInv,
           UNCHANGED <<up, connected, store, pc, target, snapshot>>,
           \A n \in Node : /\ nodes'[n] = None <=> nodes[n] = None
                           /\ nodes[n] # None =>
                                /\ nodes'[n].info = nodes[n].info
                                /\ nodes'[n].latest_metrics =
                                       nodes[n].latest_metrics
    PROVE  SInv'
  <1>1. HandlerInv'
    BY DEF SInv, HandlerInv, SameFacts, IInv, TypeOK, TaskStep
  <1>2. QuietInv'
    BY DEF SInv, QuietInv, SameFacts, Quiet
  <1>3. DownInv'
    BY DEF SInv, DownInv
  <1> QED
    BY <1>1, <1>2, <1>3 DEF SInv

\* A handler's step, when it is the only handler.
LEMMA HandlerSInv ==
    ASSUME Serial, SInv, IInv, NEW t \in Task, Handler(t)
    PROVE  SInv'
  <1> USE DEF process
  <1>0. /\ \A u \in Task : u = t
        /\ pc \in [Task -> TaskStep]
        /\ target \in [Task -> Node \cup {None}]
        /\ snapshot \in [Task -> NodeRecord \cup {None}]
        /\ nodes \in [Node -> NodeRecord \cup {None}]
        /\ store \in [Node -> NodeRecord \cup {None}]
    BY DEF Serial, IInv, TypeOK
  <1>1. pc[t] # "idle" => up /\ target[t] \in Node
    BY DEF SInv, DownInv, IInv, TypeOK
  \* Everything is quiet before a handler starts, every other node while it runs.
  <1>2. ASSUME NEW n \in Node, up,
               pc[t] = "idle" \/ n # target[t]
        PROVE  Quiet(n)
    BY <1>0, <1>2, NoneAssumption DEF SInv, HandlerInv, Quiet
  <1>3. ASSUME NEW n \in Node, NEW rec \in NodeRecord,
               up, pc[t] = "idle",
               nodes' = [nodes EXCEPT ![n] = rec],
               Begin(t, "put", n, rec),
               UNCHANGED <<process, connected, store, cutoff>>
        PROVE  SInv'
    <2>1. rec # None
      BY NoneAssumption DEF NodeRecord, NodeStatus
    <2>2. HandlerInv'
      BY <1>0, <1>3, <2>1 DEF HandlerInv, Begin, SameFacts
    <2>3. QuietInv'
      <3> SUFFICES ASSUME NEW k \in Node, Quiet(k)'
                   PROVE  /\ SameFacts(nodes[k], store[k])'
                          /\ (k \in connected => nodes[k] # None)'
        BY DEF QuietInv
      <3>1. k # n
        BY <1>0, <1>3 DEF Quiet, Begin
      <3>2. Quiet(k)
        BY <1>2, <1>3
      <3> QED
        BY <1>0, <1>3, <3>1, <3>2 DEF SInv, QuietInv, SameFacts
    <2>4. DownInv'
      BY <1>3 DEF DownInv
    <2> QED
      BY <2>2, <2>3, <2>4 DEF SInv
  <1>4. ASSUME NEW n \in Node, NEW i \in Info, RegisterNode(t, n, i)
        PROVE  SInv'
    <2>1. Registered(n, i) \in NodeRecord
      BY RegisteredRecord DEF IInv
    <2> QED
      BY <1>3, <1>4, <2>1 DEF RegisterNode
  <1>5. ASSUME NEW n \in Node, NEW s \in Sample, IngestMetrics(t, n, s)
        PROVE  SInv'
    <2>1. Ingested(nodes[n], s) \in NodeRecord
      BY <1>0, <1>5, IngestedRecord DEF IInv, IngestMetrics
    <2> QED
      BY <1>3, <1>5, <2>1 DEF IngestMetrics
  <1>6. CASE PutNode(t)
    <2>1. /\ store' = [store EXCEPT ![target[t]] = snapshot[t]]
          /\ target[t] \in Node
          /\ up
      BY <1>1, <1>6 DEF PutNode, Serial
    <2>2. HandlerInv'
      BY <1>0, <1>6 DEF HandlerInv, PutNode, Finish, Begin
    <2>3. QuietInv'
      <3> SUFFICES ASSUME NEW k \in Node
                   PROVE  /\ SameFacts(nodes[k], store[k])'
                          /\ (k \in connected => nodes[k] # None)'
        BY DEF QuietInv
      <3>1. CASE k = target[t]
        BY <1>0, <1>6, <2>1, <3>1 DEF SInv, HandlerInv, PutNode, SameFacts
      <3>2. CASE k # target[t]
        <4>1. Quiet(k)
          BY <1>2, <2>1, <3>2
        <4> QED
          BY <1>0, <1>6, <2>1, <3>2, <4>1 DEF SInv, QuietInv, PutNode, SameFacts
      <3> QED
        BY <3>1, <3>2
    <2>4. DownInv'
      BY <1>6, <2>1 DEF DownInv, PutNode
    <2> QED
      BY <2>2, <2>3, <2>4 DEF SInv
  <1>7. ASSUME NEW n \in Node, DeregisterNode(t, n)
        PROVE  SInv'
    <2>1. HandlerInv'
      BY <1>0, <1>7 DEF HandlerInv, DeregisterNode, Begin
    <2>2. QuietInv'
      <3> SUFFICES ASSUME NEW k \in Node, Quiet(k)'
                   PROVE  /\ SameFacts(nodes[k], store[k])'
                          /\ (k \in connected => nodes[k] # None)'
        BY DEF QuietInv
      <3>1. k # n
        BY <1>0, <1>7 DEF Quiet, DeregisterNode, Begin
      <3>2. Quiet(k)
        BY <1>2, <1>7 DEF DeregisterNode
      <3> QED
        BY <1>0, <1>7, <3>1, <3>2 DEF SInv, QuietInv, SameFacts, DeregisterNode
    <2>3. DownInv'
      BY <1>7 DEF DownInv, DeregisterNode
    <2> QED
      BY <2>1, <2>2, <2>3 DEF SInv
  <1>8. ASSUME NEW n \in Node, StreamCommands(t, n)
        PROVE  SInv'
    <2>0. Quiet(n)
      BY <1>2, <1>8 DEF StreamCommands
    <2>1. HandlerInv'
      BY <1>0, <1>8, <2>0 DEF SInv, QuietInv, HandlerInv, SameFacts,
                              StreamCommands, Begin
    <2>2. QuietInv'
      BY <1>2, <1>8 DEF SInv, QuietInv, StreamCommands, SameFacts
    <2>3. DownInv'
      BY <1>8 DEF DownInv, StreamCommands
    <2> QED
      BY <2>1, <2>2, <2>3 DEF SInv
  <1>9. CASE DetachCommandChannel(t)
    <2>1. HandlerInv'
      BY <1>0, <1>1, <1>9 DEF SInv, HandlerInv, DetachCommandChannel, Goto
    <2>2. QuietInv'
      BY <1>9 DEF SInv, QuietInv, Quiet, DetachCommandChannel, Goto, SameFacts
    <2>3. DownInv'
      BY <1>1, <1>9 DEF DownInv, DetachCommandChannel
    <2> QED
      BY <2>1, <2>2, <2>3 DEF SInv
  <1>10. CASE DeleteNode(t)
    <2>1. /\ store' = [store EXCEPT ![target[t]] = None]
          /\ target[t] \in Node
          /\ up
      BY <1>1, <1>10 DEF DeleteNode, Serial
    <2>2. HandlerInv'
      BY <1>0, <1>10 DEF HandlerInv, DeleteNode, Finish, Begin
    <2>3. QuietInv'
      <3> SUFFICES ASSUME NEW k \in Node
                   PROVE  /\ SameFacts(nodes[k], store[k])'
                          /\ (k \in connected => nodes[k] # None)'
        BY DEF QuietInv
      <3>1. CASE k = target[t]
        BY <1>0, <1>10, <2>1, <3>1 DEF SInv, HandlerInv, DeleteNode, SameFacts
      <3>2. CASE k # target[t]
        <4>1. Quiet(k)
          BY <1>2, <2>1, <3>2
        <4> QED
          BY <1>0, <1>10, <2>1, <3>2, <4>1 DEF SInv, QuietInv, DeleteNode, SameFacts
      <3> QED
        BY <3>1, <3>2
    <2>4. DownInv'
      BY <1>10, <2>1 DEF DownInv, DeleteNode
    <2> QED
      BY <2>2, <2>3, <2>4 DEF SInv
  <1>11. CASE AttachCommandChannel(t)
    <2>1. target[t] \in Node /\ up
      BY <1>1, <1>11 DEF AttachCommandChannel
    <2>2. HandlerInv'
      BY <1>0, <1>11 DEF HandlerInv, AttachCommandChannel, Finish, Begin
    <2>3. QuietInv'
      <3> SUFFICES ASSUME NEW k \in Node
                   PROVE  /\ SameFacts(nodes[k], store[k])'
                          /\ (k \in connected => nodes[k] # None)'
        BY DEF QuietInv
      <3>1. CASE k = target[t]
        BY <1>11, <2>1, <3>1 DEF SInv, HandlerInv, AttachCommandChannel, SameFacts
      <3>2. CASE k # target[t]
        <4>1. Quiet(k)
          BY <1>2, <2>1, <3>2
        <4> QED
          BY <1>11, <3>2, <4>1 DEF SInv, QuietInv, AttachCommandChannel, SameFacts
      <3> QED
        BY <3>1, <3>2
    <2>4. DownInv'
      BY <1>11, <2>1 DEF DownInv, AttachCommandChannel
    <2> QED
      BY <2>2, <2>3, <2>4 DEF SInv
  <1> QED
    BY <1>4, <1>5, <1>6, <1>7, <1>8, <1>9, <1>10, <1>11 DEF Handler

\* Every step preserves the serial invariant.
LEMMA NextSInv ==
    ASSUME Serial, SInv, IInv, [Next]_vars
    PROVE  SInv'
  <1> USE DEF process
  <1>0. now \in Nat /\ nodes \in [Node -> NodeRecord \cup {None}]
    BY DEF IInv, TypeOK
  <1>1. ASSUME NEW n \in Node, Heartbeat(n)
        PROVE  SInv'
    <2>1. \A k \in Node : /\ nodes'[k] = None <=> nodes[k] = None
                          /\ nodes[k] # None =>
                               /\ nodes'[k].info = nodes[k].info
                               /\ nodes'[k].latest_metrics =
                                      nodes[k].latest_metrics
      BY <1>0, <1>1, FactsKept DEF Heartbeat
    <2> QED
      BY <1>1, <2>1, TableStepSInv DEF Heartbeat
  <1>2. CASE ReapSweep
    <2>1. \A k \in Node : /\ nodes'[k] = None <=> nodes[k] = None
                          /\ nodes[k] # None =>
                               /\ nodes'[k].info = nodes[k].info
                               /\ nodes'[k].latest_metrics =
                                      nodes[k].latest_metrics
      BY <1>0, <1>2, FactsKept DEF ReapSweep
    <2> QED
      BY <1>2, <2>1, TableStepSInv DEF ReapSweep
  <1>3. CASE ReapCutoff \/ Tick \/ UNCHANGED vars
    BY <1>3, TableStepSInv DEF ReapCutoff, Tick, vars
  <1>4. ASSUME NEW n \in Node, StreamClosed(n)
        PROVE  SInv'
    <2>1. HandlerInv'
      BY <1>4 DEF SInv, HandlerInv, StreamClosed, SameFacts
    <2>2. QuietInv' /\ DownInv'
      BY <1>4 DEF SInv, QuietInv, DownInv, Quiet, StreamClosed, SameFacts
    <2> QED
      BY <2>1, <2>2 DEF SInv
  <1>5. CASE Crash
    BY <1>5 DEF SInv, HandlerInv, QuietInv, DownInv, Quiet, Crash
  <1>6. CASE Bootstrap
    <2>1. \A t \in Task : pc[t] = "idle"
      BY <1>6 DEF SInv, DownInv, Bootstrap
    <2>2. HandlerInv'
      BY <1>6, <2>1 DEF SInv, HandlerInv, Bootstrap
    <2>3. QuietInv'
      <3> SUFFICES ASSUME NEW k \in Node
                   PROVE  /\ SameFacts(nodes'[k], store[k])
                          /\ k \notin connected
        BY <1>6 DEF QuietInv, Bootstrap
      <3>1. k \notin connected
        BY <1>6 DEF SInv, DownInv, Bootstrap
      <3>2. CASE store[k] = None
        BY <1>6, <3>1, <3>2 DEF Bootstrap, SameFacts
      <3>3. CASE store[k] # None
        <4>1. store[k] \in NodeRecord
          BY <3>3 DEF IInv, TypeOK
        <4>2. nodes'[k] = [store[k] EXCEPT !.status = "Unreachable"]
          BY <1>6, <3>3 DEF Bootstrap, Rehydrated
        <4> QED
          BY <1>0, <3>1, <3>3, <4>1, <4>2, FactsKept DEF SameFacts
      <3> QED
        BY <3>2, <3>3
    <2>4. DownInv'
      BY <1>6 DEF DownInv, Bootstrap
    <2> QED
      BY <2>2, <2>3, <2>4 DEF SInv
  <1> QED
    BY <1>1, <1>2, <1>3, <1>4, <1>5, <1>6, HandlerSInv DEF Next

\* The invariant of a daemon whose handlers do not overlap and whose store does
\* not fail (Serial).
THEOREM SerialInvariant ==
    ASSUME Serial
    PROVE  Spec => []SInv
  <1>1. Init => SInv
    BY DEF Init, SInv, HandlerInv, QuietInv, DownInv, SameFacts
  <1>2. IInv /\ SInv /\ [Next]_vars => SInv'
    BY NextSInv
  <1> QED
    BY <1>1, <1>2, InductiveInvariant, PTL DEF Spec

\* The write-through keeps its promise when handlers do not overlap and the
\* store does not fail (state.rs register_node, ingest_metrics, bootstrap):
\* between handlers the store holds what memory holds.
THEOREM SerialWriteThrough ==
    ASSUME Serial
    PROVE  Spec => []FactsWrittenThrough
  <1>1. SInv => FactsWrittenThrough
    BY DEF SInv, QuietInv, FactsWrittenThrough, SameFacts
  <1> QED
    BY <1>1, SerialInvariant, PTL

\* Under the same conditions nothing is left of a node that was removed, neither
\* in memory, in the store nor in the channel registry (state.rs
\* deregister_node).
THEOREM SerialDeregister ==
    ASSUME Serial
    PROVE  Spec => []DeregisterLeavesNothing
  <1>1. SInv => DeregisterLeavesNothing
    BY DEF SInv, QuietInv, DeregisterLeavesNothing, SameFacts
  <1> QED
    BY <1>1, SerialInvariant, PTL
=============================================================================
