------------------------------ MODULE Monitor -------------------------------
(***************************************************************************)
(* hpc-monitor: the scrape loop and the detector (health.rs) and the       *)
(* exported series (metrics.rs), reading the node table of a daemon that   *)
(* keeps the promises of NodeLifecycle: nodes join, fail, recover and leave*)
(* while a scrape is being published, and the daemon stops and comes back. *)
(*                                                                         *)
(* What makes it hard: the per-node series are cleared and refilled while  *)
(* Prometheus reads them, a failed scrape leaves everything as it was, and *)
(* the log speaks only of changes, relative to the last scrape that worked.*)
(* A reader of /metrics takes each family under its own lock, so what it   *)
(* may see of a family is the value of that family after any step.         *)
(*                                                                         *)
(* Definitions named Mutant... are deliberate mistakes, each just before   *)
(* the definition it would replace; the specification never uses one.      *)
(***************************************************************************)
EXTENDS Naturals, FiniteSets

CONSTANTS
    Node,      \* node ids
    Info,      \* static node descriptions
    Sample,    \* metrics samples, each the set of resources over threshold
    None

Resource == {"cpu", "memory", "disk", "load"}

ASSUME MonitorAssumption ==
    /\ Sample \subseteq SUBSET Resource
    /\ IsFiniteSet(Node)
    /\ None \notin Sample /\ None \notin {0, 1}
    /\ None \notin [info : Info,
                    status : {"Registered", "Healthy", "Degraded", "Unreachable"},
                    latest_metrics : Sample \cup {None}]

VARIABLES
    running,    \* the daemon answers
    cluster,    \* what GET /api/v1/nodes would answer now
    phase,      \* where run is
    nodes,      \* the snapshot being published, or published last
    todo,       \* nodes of the snapshot that update has not come to
    series,     \* the per-node gauge families: family -> node -> value
    tally,      \* update's local counters
    gauges,     \* the aggregate gauges
    flagged,    \* degraded_nodes, then degraded
    previously, \* previously_degraded
    logged      \* the last transition logged for each node

daemon == <<running, cluster>>
scraper == <<phase, nodes, todo, series, tally, gauges, flagged, previously,
             logged>>
vars == <<daemon, scraper>>

Verdict == {"healthy", "degraded", "unreachable"}
Family == {"up", "degraded", "usage"}

\* The daemon's verdict on a sample (classify in state.rs); both programs are
\* taken to have the same thresholds.
classify(s) == IF s \cap {"cpu", "memory", "disk"} # {} THEN "Degraded"
                                                        ELSE "Healthy"

Daemon == INSTANCE NodeLifecycle WITH table <- cluster, Verdict <- classify

Listed(snapshot) == {n \in Node : snapshot[n] # None}
Nobody == [n \in Node |-> None]
Zero == [v \in Verdict |-> 0]

Init ==
    /\ Daemon!Init
    /\ phase = "tick"
    /\ nodes = Nobody
    /\ todo = {}
    /\ series = [f \in Family |-> Nobody]
    /\ tally = Zero /\ gauges = [total |-> 0, count |-> Zero]
    /\ flagged = {} /\ previously = {}
    /\ logged = [n \in Node |-> "nothing"]

-----------------------------------------------------------------------------
(* The detector. *)

\* The reasons a node is considered degraded; one that cannot be reached has
\* that reason only, and one without a sample has none.
evaluate(r) ==
    IF r.status = "Unreachable" THEN {"unreachable"}
    ELSE IF r.latest_metrics = None THEN {} ELSE r.latest_metrics

\* The daemon's own counts, GET /api/v1/cluster/status.  A node that has just
\* registered counts as healthy, and a Draining one would be in no count but the
\* total.  No code makes a node Draining, so no record of Daemon has that status.
cluster_status(snapshot) ==
    LET counted == [healthy |-> {"Healthy", "Registered"},
                    degraded |-> {"Degraded"}, unreachable |-> {"Unreachable"}]
    IN  [total |-> Cardinality(Listed(snapshot)),
         count |-> [v \in Verdict |-> Cardinality(
             {n \in Listed(snapshot) : snapshot[n].status \in counted[v]})]]

\* A node that cannot be reached counts as degraded.
MutantVerdictOf(r) == IF r.status \in {"Unreachable", "Degraded"}
                      THEN "degraded" ELSE "healthy"

\* The counter a record adds to: every other status counts as healthy.
VerdictOf(r) == CASE r.status = "Unreachable" -> "unreachable"
                  [] r.status = "Degraded" -> "degraded"
                  [] OTHER -> "healthy"

-----------------------------------------------------------------------------
(* run: one scrape after another. *)

\* The degraded nodes are forgotten when a scrape fails.
MutantScrapeFailsForgets ==
    /\ phase = "tick"
    /\ previously' = {}
    /\ UNCHANGED <<daemon, phase, nodes, todo, series, tally, gauges,
                   flagged, logged>>

\* No answer, an error status or a body that does not decode: nothing changes
\* but the counter scrape_errors, which only Prometheus reads.
ScrapeFails ==
    /\ phase = "tick"
    /\ UNCHANGED <<daemon, phase, nodes, todo, series, tally, gauges,
                   flagged, previously, logged>>

\* The usage families are not cleared.
MutantResetForgetsUsage ==
    /\ series' = [series EXCEPT !["up"] = Nobody, !["degraded"] = Nobody]
    /\ tally' = Zero /\ flagged' = {}

\* update: clear the per-node families, start counting.
Reset ==
    /\ series' = [f \in Family |-> Nobody]
    /\ tally' = Zero /\ flagged' = {}

\* The scrape succeeds and update begins; the snapshot is the monitor's own.
ScrapeOk ==
    /\ phase = "tick" /\ running
    /\ nodes' = cluster /\ todo' = Listed(cluster)
    /\ Reset
    /\ phase' = "publish"
    /\ UNCHANGED <<daemon, gauges, previously, logged>>

\* update: one node of the snapshot.  usage stands for cpu_percent,
\* memory_ratio, load1 and disk_ratio, which are set if the node has a sample
\* and left as they are if it has none.
Publish(n) ==
    /\ phase = "publish" /\ n \in todo
    /\ todo' = todo \ {n}
    /\ series' = [series EXCEPT
           !["up"][n] = IF nodes[n].status # "Unreachable" THEN 1 ELSE 0,
           !["usage"][n] = IF nodes[n].latest_metrics # None
                           THEN nodes[n].latest_metrics ELSE @,
           !["degraded"][n] = IF evaluate(nodes[n]) # {} THEN 1 ELSE 0]
    /\ tally' = [tally EXCEPT ![VerdictOf(nodes[n])] = @ + 1]
    /\ flagged' = IF evaluate(nodes[n]) # {} THEN flagged \cup {n} ELSE flagged
    /\ UNCHANGED <<daemon, phase, nodes, gauges, previously,
                   logged>>

\* A node once degraded is never taken off the list.
MutantLogTransitionsAccumulates ==
    /\ logged' = [n \in Node |->
           IF n \in flagged \ previously THEN "degraded"
           ELSE IF n \in previously \ flagged THEN "recovered"
           ELSE logged[n]]
    /\ previously' = previously \cup flagged

\* run: what is new since the last scrape that worked.
LogTransitions ==
    /\ logged' = [n \in Node |->
           IF n \in flagged \ previously THEN "degraded"
           ELSE IF n \in previously \ flagged THEN "recovered"
           ELSE logged[n]]
    /\ previously' = flagged

\* update sets the aggregates last and returns; run logs the transitions.
Conclude ==
    /\ phase = "publish" /\ todo = {}
    /\ gauges' = [total |-> Cardinality(Listed(nodes)), count |-> tally]
    /\ LogTransitions
    /\ phase' = "tick"
    /\ UNCHANGED <<daemon, nodes, todo, series, tally, flagged>>

\* The daemon's table changes, or the daemon stops or starts.
DaemonStep == Daemon!Next /\ UNCHANGED scraper

Update == (\E n \in Node : Publish(n)) \/ Conclude

Next == ScrapeOk \/ ScrapeFails \/ Update \/ DaemonStep

Spec == Init /\ [][Next]_vars

\* The interval keeps ticking and an update always runs to its end; a daemon that
\* is up again and again answers in the end.
FairSpec == Spec /\ WF_vars(Update) /\ SF_vars(ScrapeOk)

-----------------------------------------------------------------------------
(* Properties *)

\* Every variable has its type; update's counters never exceed the number of
\* nodes.
TypeOK ==
    /\ running \in BOOLEAN
    /\ cluster \in [Node -> Daemon!Record \cup {None}]
    /\ phase \in {"tick", "publish"}
    /\ nodes \in [Node -> Daemon!Record \cup {None}]
    /\ todo \subseteq Listed(nodes)
    /\ series = [f \in Family |-> series[f]]
    /\ \A f \in {"up", "degraded"} : series[f] \in [Node -> {0, 1, None}]
    /\ series["usage"] \in [Node -> Sample \cup {None}]
    /\ tally \in [Verdict -> 0..Cardinality(Node)]
    /\ gauges \in [total : 0..Cardinality(Node),
                   count : [Verdict -> 0..Cardinality(Node)]]
    /\ flagged \subseteq Node /\ previously \subseteq Node
    /\ logged \in [Node -> {"nothing", "degraded", "recovered"}]

\* Whenever Prometheus reads a family, it shows of a node the very values of the
\* last snapshot scraped if update has come to that node, and nothing of any
\* other node: no value of an earlier scrape is left under a node still to come,
\* one that has left, or one that came back without a sample (metrics.rs:
\* "cleared and repopulated on every scrape so that nodes which leave the cluster
\* stop being exported (avoiding stale series)").
NoStaleSeries ==
    \A n \in Node :
        IF nodes[n] # None /\ n \notin todo
        THEN /\ series["up"][n] = IF nodes[n].status # "Unreachable" THEN 1 ELSE 0
             /\ series["degraded"][n] = IF evaluate(nodes[n]) # {} THEN 1 ELSE 0
             /\ series["usage"][n] = nodes[n].latest_metrics
        ELSE \A f \in Family : series[f][n] = None

Showing(f, v) == {n \in Node : series[f][n] = v}

\* Between updates three accounts of one table tell the same story although they
\* are computed by different code: the aggregates are the counts that the daemon
\* gives of that table (api.rs cluster_status), they add up to the nodes that are
\* shown, a node is counted unreachable if and only if it is shown as down, and
\* every node the daemon calls Degraded is one the detector flags, whatever
\* heartbeats, re-registrations and restarts of the daemon came before.
AggregatesAgree ==
    phase = "tick" =>
        /\ gauges = cluster_status(nodes)
        /\ gauges.total = Cardinality(Showing("up", 0) \cup Showing("up", 1))
        /\ gauges.total = gauges.count["healthy"] + gauges.count["degraded"]
                          + gauges.count["unreachable"]
        /\ gauges.count["unreachable"] = Cardinality(Showing("up", 0))
        /\ gauges.count["degraded"] <=
               Cardinality(Showing("up", 1) \cap Showing("degraded", 1))

\* The log speaks of transitions only: a node is reported degraded only if the
\* last report about it was not that, and recovered only if it was, across
\* failed scrapes and nodes that leave and come back (health.rs run).
TransitionsAlternate ==
    [][phase = "publish" /\ phase' = "tick" => \A n \in Node :
          /\ n \in flagged \ previously => logged[n] # "degraded"
          /\ n \in previously \ flagged => logged[n] = "degraded"]_vars

Bad(n) == cluster[n] # None /\ evaluate(cluster[n]) # {}

\* A node that stays degraded is reported as degraded, and one that is healthy or
\* gone whenever the daemon runs is not left reported as degraded, however many
\* scrapes fail and however often the daemon restarts on the way.
DegradationLogged ==
    \A n \in Node :
        /\ <>[]Bad(n) => <>[](logged[n] = "degraded")
        /\ <>[]~Bad(n) /\ []<>running => <>[](logged[n] # "degraded")

-----------------------------------------------------------------------------
(* Claims of the documentation that the model refutes.  No run checks them; *)
(* with one as an INVARIANT of a configuration TLC shows how it fails.      *)

\* metrics.rs, help text of hpc_node_degraded: "1 if the node breaches a
\* threshold".
DegradedSeriesMeansBreach ==
    phase = "tick" => \A n \in Showing("degraded", 1) :
        nodes[n].latest_metrics # None /\ nodes[n].latest_metrics # {}

\* health.rs: the loop "logs the *transitions* (newly degraded / recovered)".  A
\* node logged as recovered is a node of the cluster with nothing wrong.
RecoveredMeansHealthy ==
    phase = "tick" => \A n \in Node : logged[n] = "recovered" =>
        nodes[n] # None /\ evaluate(nodes[n]) = {}
=============================================================================
