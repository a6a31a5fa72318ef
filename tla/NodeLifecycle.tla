--------------------------- MODULE NodeLifecycle ----------------------------
(***************************************************************************)
(* What the daemon promises about its node table to those who read it over *)
(* REST (the monitor, the CLI), without saying how: no locks, no store, no *)
(* clock.  A node appears by registering and by nothing else, a status     *)
(* changes only with the event that earns it, a degraded node becomes      *)
(* healthy only through a sample or by first being lost, and a daemon that *)
(* starts takes no node for alive.                                         *)
(*                                                                         *)
(* Registered is what hpc-daemon/src/state.rs makes of it, no verdict since*)
(* the last registration, and not what NodeStatus in hpc-core/src/types.rs *)
(* says, "no metrics/heartbeat observed yet": a heartbeat leaves a         *)
(* Registered node Registered, and a node that registers again is          *)
(* Registered and keeps the sample it reported before.  ClusterState       *)
(* states the words of types.rs as the claims RegisteredMeansUnreported    *)
(* and HeartbeatEndsRegistered, which TLC refutes.                         *)
(*                                                                         *)
(* ClusterState implements this module (Lifecycle in ClusterState), and    *)
(* Monitor reads the table of a daemon that does.                          *)
(***************************************************************************)
CONSTANTS
    Node, Info, Sample,
    Verdict(_),  \* the status a sample earns: Healthy or Degraded
    None

VARIABLES
    running,     \* the daemon answers
    table        \* node id -> record, None if not registered

vars == <<running, table>>

Record == [info : Info,
           status : {"Registered", "Healthy", "Degraded", "Unreachable"},
           latest_metrics : Sample \cup {None}]

Nobody == [n \in Node |-> None]
Known == {n \in Node : table[n] # None}
Lost(r) == [r EXCEPT !.status = "Unreachable"]

Init == running = TRUE /\ table = Nobody

Becomes(n, r) ==
    /\ running /\ UNCHANGED running
    /\ table' = [table EXCEPT ![n] = r]

\* A new node has no sample; one that registers again keeps its last, so that a
\* Registered node may well have reported (against types.rs NodeStatus).
Register(n, i) ==
    Becomes(n, [info |-> i, status |-> "Registered",
                latest_metrics |-> IF n \in Known THEN table[n].latest_metrics
                                                  ELSE None])

Report(n, s) ==
    /\ n \in Known
    /\ Becomes(n, [info |-> table[n].info, status |-> Verdict(s),
                   latest_metrics |-> s])

\* A heartbeat brings a lost node back and says nothing about any other; a
\* Registered node that is heard from stays Registered (against types.rs).
Revive(n) ==
    /\ n \in Known /\ table[n].status = "Unreachable"
    /\ Becomes(n, [table[n] EXCEPT !.status = "Healthy"])

\* Nodes that have been silent for too long, all at once.
Lose(silent) ==
    /\ running /\ UNCHANGED running
    /\ table' = [n \in Node |-> IF n \in silent THEN Lost(table[n]) ELSE table[n]]

Remove(n) == Becomes(n, None)

Stop ==
    /\ running
    /\ running' = FALSE /\ table' = Nobody

\* What the daemon still knows of a node, it knows as lost.
Start ==
    /\ ~running
    /\ running' = TRUE
    /\ table' \in [Node -> {r \in Record : r.status = "Unreachable"} \cup {None}]

Next ==
    \/ \E n \in Node : \/ \E i \in Info : Register(n, i)
                       \/ \E s \in Sample : Report(n, s)
                       \/ Revive(n)
                       \/ Remove(n)
    \/ \E silent \in SUBSET Known : Lose(silent)
    \/ Stop
    \/ Start

Spec == Init /\ [][Next]_vars
=============================================================================
