--------------------------- MODULE Monitor_proofs ---------------------------
(***************************************************************************)
(* Proofs about Monitor for every finite set of nodes, every description   *)
(* and every sample, with a daemon that stops, starts and changes its      *)
(* table at any moment and scrapes that fail any number of times.          *)
(***************************************************************************)
EXTENDS Monitor, FiniteSetTheorems, TLAPS

(***************************************************************************)
(* The inductive invariant.                                                *)
(***************************************************************************)

\* The nodes of the snapshot that update has come to.
Done == Listed(nodes) \ todo

\* A record that is Degraded has a sample that is to blame.
Blamed(t) == \A n \in Node : t[n] # None /\ t[n].status = "Degraded" =>
                 t[n].latest_metrics # None /\ t[n].latest_metrics # {}

BlamedInv == Blamed(cluster) /\ Blamed(nodes)

\* The nodes of a set that add to a counter.
Counted(S, v) == {n \in S : VerdictOf(nodes[n]) = v}

\* update has counted and flagged those it has come to; between updates it has
\* come to all, and the aggregates are what it counted.
TallyInv ==
    /\ \A v \in Verdict : tally[v] = Cardinality(Counted(Done, v))
    /\ flagged = {n \in Done : evaluate(nodes[n]) # {}}
    /\ phase = "tick" =>
           /\ todo = {}
           /\ gauges = [total |-> Cardinality(Listed(nodes)), count |-> tally]

\* What was logged last of a node is whether it was degraded at the last scrape
\* that worked.
LoggedInv == \A n \in Node : n \in previously <=> logged[n] = "degraded"

IInv == TypeOK /\ BlamedInv /\ NoStaleSeries /\ TallyInv /\ LoggedInv

-----------------------------------------------------------------------------
(* The daemon's table. *)

\* A record, and what a record is not.
LEMMA RecordFacts ==
    /\ None \notin Daemon!Record
    /\ \A r \in Daemon!Record :
           /\ r.status \in {"Registered", "Healthy", "Degraded", "Unreachable"}
           /\ r.latest_metrics \in Sample \cup {None}
           /\ VerdictOf(r) \in Verdict
           /\ r.status = "Degraded" /\ r.latest_metrics # None /\ r.latest_metrics # {} =>
                  evaluate(r) # {}
  BY MonitorAssumption DEF Daemon!Record, VerdictOf, Verdict, evaluate

\* A verdict of Degraded is about a sample with something in it.
LEMMA ClassifyFacts ==
    ASSUME NEW s \in Sample
    PROVE  /\ classify(s) \in {"Healthy", "Degraded"}
           /\ classify(s) = "Degraded" => s # {} /\ s # None
  BY MonitorAssumption DEF classify

\* Every step of the daemon leaves a table of records in which Degraded is
\* deserved.
LEMMA DaemonInv ==
    ASSUME running \in BOOLEAN, cluster \in [Node -> Daemon!Record \cup {None}],
           Blamed(cluster), Daemon!Next
    PROVE  /\ running' \in BOOLEAN
           /\ cluster' \in [Node -> Daemon!Record \cup {None}]
           /\ Blamed(cluster')
  <1>1. ASSUME NEW n \in Node, NEW r \in Daemon!Record \cup {None}, Daemon!Becomes(n, r),
               r # None /\ r.status = "Degraded" =>
                   r.latest_metrics # None /\ r.latest_metrics # {}
        PROVE  /\ running' \in BOOLEAN
               /\ cluster' \in [Node -> Daemon!Record \cup {None}]
               /\ Blamed(cluster')
    BY <1>1 DEF Daemon!Becomes, Blamed
  <1>2. ASSUME NEW n \in Node, NEW i \in Info, Daemon!Register(n, i)
        PROVE  /\ running' \in BOOLEAN
               /\ cluster' \in [Node -> Daemon!Record \cup {None}]
               /\ Blamed(cluster')
    <2>1. PICK m \in Sample \cup {None} :
              m = IF n \in Daemon!Known THEN cluster[n].latest_metrics ELSE None
      BY RecordFacts DEF Daemon!Known
    <2>2. PICK r \in Daemon!Record :
              r = [info |-> i, status |-> "Registered", latest_metrics |-> m]
      BY DEF Daemon!Record
    <2>3. Daemon!Becomes(n, r) /\ r.status = "Registered"
      BY <1>2, <2>1, <2>2 DEF Daemon!Register
    <2> QED
      BY <1>1, <2>3
  <1>3. ASSUME NEW n \in Node, NEW s \in Sample, Daemon!Report(n, s)
        PROVE  /\ running' \in BOOLEAN
               /\ cluster' \in [Node -> Daemon!Record \cup {None}]
               /\ Blamed(cluster')
    <2>1. cluster[n] \in Daemon!Record
      BY <1>3 DEF Daemon!Report, Daemon!Known
    <2>2. PICK r \in Daemon!Record :
              r = [info |-> cluster[n].info, status |-> classify(s), latest_metrics |-> s]
      BY <2>1, ClassifyFacts DEF Daemon!Record
    <2>3. /\ Daemon!Becomes(n, r) /\ r.status = classify(s) /\ r.latest_metrics = s
      BY <1>3, <2>2 DEF Daemon!Report
    <2> QED
      BY <1>1, <2>3, ClassifyFacts
  <1>4. ASSUME NEW n \in Node, Daemon!Revive(n)
        PROVE  /\ running' \in BOOLEAN
               /\ cluster' \in [Node -> Daemon!Record \cup {None}]
               /\ Blamed(cluster')
    <2>1. cluster[n] \in Daemon!Record
      BY <1>4 DEF Daemon!Revive, Daemon!Known
    <2>2. PICK r \in Daemon!Record : r = [cluster[n] EXCEPT !.status = "Healthy"]
      BY <2>1 DEF Daemon!Record
    <2>3. r.status = "Healthy"
      BY <2>1, <2>2 DEF Daemon!Record
    <2> QED
      BY <1>1, <1>4, <2>2, <2>3 DEF Daemon!Revive
  <1>5. ASSUME NEW n \in Node, Daemon!Remove(n)
        PROVE  /\ running' \in BOOLEAN
               /\ cluster' \in [Node -> Daemon!Record \cup {None}]
               /\ Blamed(cluster')
    BY <1>1, <1>5 DEF Daemon!Remove
  <1>6. ASSUME NEW silent \in SUBSET Daemon!Known, Daemon!Lose(silent)
        PROVE  /\ running' \in BOOLEAN
               /\ cluster' \in [Node -> Daemon!Record \cup {None}]
               /\ Blamed(cluster')
    <2>1. ASSUME NEW n \in silent
          PROVE  /\ n \in Node /\ Daemon!Lost(cluster[n]) \in Daemon!Record
                 /\ Daemon!Lost(cluster[n]).status = "Unreachable"
      <3>1. n \in Node /\ cluster[n] \in Daemon!Record
        BY <1>6, <2>1 DEF Daemon!Known
      <3> QED
        BY <3>1 DEF Daemon!Lost, Daemon!Record
    <2>2. \A n \in Node : cluster'[n] = IF n \in silent THEN Daemon!Lost(cluster[n])
                                                        ELSE cluster[n]
      BY <1>6 DEF Daemon!Lose
    <2>3. cluster' \in [Node -> Daemon!Record \cup {None}]
      BY <1>6, <2>1 DEF Daemon!Lose
    <2>4. Blamed(cluster')
      BY <2>1, <2>2 DEF Blamed
    <2> QED
      BY <1>6, <2>3, <2>4 DEF Daemon!Lose
  <1>7. CASE Daemon!Stop
    BY <1>7 DEF Daemon!Stop, Daemon!Nobody, Blamed
  <1>8. CASE Daemon!Start
    BY <1>8 DEF Daemon!Start, Blamed
  <1> QED
    BY <1>2, <1>3, <1>4, <1>5, <1>6, <1>7, <1>8 DEF Daemon!Next

-----------------------------------------------------------------------------
(* The scrape loop. *)

\* The families show the nodes update has come to, as the snapshot has them, and
\* no other.
LEMMA ShownFacts ==
    NoStaleSeries <=> \A n \in Node :
        /\ n \in Done =>
               /\ series["up"][n] = IF nodes[n].status # "Unreachable" THEN 1 ELSE 0
               /\ series["degraded"][n] = IF evaluate(nodes[n]) # {} THEN 1 ELSE 0
               /\ series["usage"][n] = nodes[n].latest_metrics
        /\ n \notin Done => \A f \in Family : series[f][n] = None
  <1>1. \A n \in Node : n \in Done <=> nodes[n] # None /\ n \notin todo
    BY DEF Done, Listed
  <1> QED
    BY <1>1, Zenon DEF NoStaleSeries

\* There are no more nodes in a set than there are.
LEMMA CountType ==
    ASSUME NEW S, S \subseteq Node
    PROVE  IsFiniteSet(S) /\ Cardinality(S) \in 0..Cardinality(Node)
  <1>1. IsFiniteSet(Node) /\ Cardinality(Node) \in Nat
    BY MonitorAssumption, FS_CardinalityType
  <1>2. IsFiniteSet(S) /\ Cardinality(S) <= Cardinality(Node)
    BY <1>1, FS_Subset
  <1>3. Cardinality(S) \in Nat
    BY <1>2, FS_CardinalityType
  <1> QED
    BY <1>1, <1>2, <1>3

\* The invariant reads the scraper's variables, and of the daemon's table only
\* its type.
LEMMA DaemonStepInv ==
    ASSUME IInv, Daemon!Next \/ UNCHANGED daemon, UNCHANGED scraper
    PROVE  IInv'
  <1>1. /\ running' \in BOOLEAN
        /\ cluster' \in [Node -> Daemon!Record \cup {None}]
        /\ Blamed(cluster')
    BY DaemonInv DEF IInv, TypeOK, BlamedInv, daemon
  <1>2. TypeOK'
    BY <1>1 DEF IInv, TypeOK, scraper, Listed
  <1>3. BlamedInv'
    BY <1>1 DEF IInv, BlamedInv, Blamed, scraper
  <1>4. NoStaleSeries' /\ TallyInv' /\ LoggedInv'
    BY DEF IInv, NoStaleSeries, TallyInv, LoggedInv, Done, Counted, Listed, scraper
  <1> QED
    BY <1>2, <1>3, <1>4 DEF IInv

\* A new snapshot: every family is cleared and nothing is counted.
LEMMA ScrapeOkInv ==
    ASSUME IInv, ScrapeOk
    PROVE  IInv'
  <1>1. /\ nodes' = cluster /\ todo' = Listed(cluster) /\ phase' = "publish"
        /\ series' = [f \in Family |-> Nobody]
        /\ tally' = [v \in Verdict |-> 0] /\ flagged' = {}
        /\ UNCHANGED <<running, cluster, gauges, previously, logged>>
    BY DEF ScrapeOk, Reset, Zero, daemon
  <1>2. Done' = {}
    BY <1>1 DEF Done, Listed
  <1>3. TypeOK'
    <2>1. 0 \in 0..Cardinality(Node)
      BY CountType, MonitorAssumption, FS_CardinalityType
    <2>2. /\ series' = [f \in Family |-> series'[f]]
          /\ \A f \in {"up", "degraded"} : series'[f] \in [Node -> {0, 1, None}]
          /\ series'["usage"] \in [Node -> Sample \cup {None}]
      BY <1>1 DEF Family, Nobody
    <2>3. todo' \subseteq Listed(nodes')
      BY <1>1
    <2>4. tally' \in [Verdict -> 0..Cardinality(Node)]
      BY <1>1, <2>1
    <2> QED
      BY <1>1, <2>2, <2>3, <2>4 DEF IInv, TypeOK, Listed
  <1>4. BlamedInv' /\ LoggedInv'
    BY <1>1 DEF IInv, BlamedInv, Blamed, LoggedInv
  <1>5. NoStaleSeries'
    BY <1>1, <1>2 DEF NoStaleSeries, Done, Listed, Family, Nobody
  <1>6. TallyInv'
    <2>1. \A v \in Verdict : Counted(Done, v)' = {}
      BY <1>2 DEF Counted
    <2>2. \A v \in Verdict : Cardinality(Counted(Done, v)') = 0
      BY <2>1, FS_EmptySet
    <2>3. flagged' = {n \in Done' : evaluate(nodes'[n]) # {}}
      BY <1>1, <1>2
    <2> QED
      BY <1>1, <2>2, <2>3 DEF TallyInv
  <1> QED
    BY <1>3, <1>4, <1>5, <1>6 DEF IInv

\* One node more is shown, counted and flagged.
LEMMA PublishInv ==
    ASSUME IInv, NEW n \in Node, Publish(n)
    PROVE  IInv'
  <1>1. /\ phase = "publish" /\ n \in todo /\ todo' = todo \ {n}
        /\ tally' = [tally EXCEPT ![VerdictOf(nodes[n])] = @ + 1]
        /\ flagged' = IF evaluate(nodes[n]) # {} THEN flagged \cup {n} ELSE flagged
        /\ UNCHANGED <<running, cluster, phase, nodes, gauges, previously, logged>>
    BY DEF Publish, daemon
  <1>2. nodes[n] \in Daemon!Record /\ n \in Listed(nodes)
    BY <1>1 DEF IInv, TypeOK, Listed
  <1>3. /\ VerdictOf(nodes[n]) \in Verdict
        /\ nodes[n].latest_metrics \in Sample \cup {None}
    BY <1>2, RecordFacts
  <1>4. n \notin Done /\ Done' = Done \cup {n}
    BY <1>1, <1>2 DEF Done, Listed
  <1>a. series["usage"][n] = None
    BY <1>1 DEF IInv, NoStaleSeries, Family
  <1>5. /\ series' = [f \in Family |-> series'[f]]
        /\ series'["up"] = [series["up"] EXCEPT
               ![n] = IF nodes[n].status # "Unreachable" THEN 1 ELSE 0]
        /\ series'["usage"] = [series["usage"] EXCEPT ![n] = nodes[n].latest_metrics]
        /\ series'["degraded"] = [series["degraded"] EXCEPT
               ![n] = IF evaluate(nodes[n]) # {} THEN 1 ELSE 0]
    <2>1. nodes[n].latest_metrics =
              IF nodes[n].latest_metrics # None THEN nodes[n].latest_metrics
                                                ELSE series["usage"][n]
      BY <1>a
    <2>2. series' = [series EXCEPT
              !["up"][n] = IF nodes[n].status # "Unreachable" THEN 1 ELSE 0,
              !["usage"][n] = nodes[n].latest_metrics,
              !["degraded"][n] = IF evaluate(nodes[n]) # {} THEN 1 ELSE 0]
      BY <2>1 DEF Publish, Family, IInv, TypeOK
    <2> QED
      BY <2>2 DEF Family, IInv, TypeOK
  <1>6. NoStaleSeries'
    <2> SUFFICES ASSUME NEW m \in Node
                 PROVE  IF nodes'[m] # None /\ m \notin todo'
                        THEN /\ series'["up"][m] =
                                    IF nodes'[m].status # "Unreachable" THEN 1 ELSE 0
                             /\ series'["degraded"][m] =
                                    IF evaluate(nodes'[m]) # {} THEN 1 ELSE 0
                             /\ series'["usage"][m] = nodes'[m].latest_metrics
                        ELSE \A f \in Family : series'[f][m] = None
      BY DEF NoStaleSeries
    <2>1. CASE m = n
      <3>1. nodes'[m] # None /\ m \notin todo' /\ nodes' = nodes
        BY <1>1, <1>2, <2>1 DEF Listed
      <3> QED
        BY <1>5, <2>1, <3>1 DEF IInv, TypeOK
    <2>2. CASE m # n
      <3>1. /\ nodes' = nodes
            /\ m \in todo' <=> m \in todo
            /\ \A f \in Family : series'[f][m] = series[f][m]
        BY <1>1, <1>5, <2>2 DEF IInv, TypeOK, Family
      <3>2. \A f \in {"up", "degraded", "usage"} : f \in Family
        BY DEF Family
      <3> QED
        BY <1>1, <3>1, <3>2 DEF IInv, NoStaleSeries
    <2> QED
      BY <2>1, <2>2
  <1>7. \A v \in Verdict : tally'[v] = Cardinality(Counted(Done, v)')
    <2> SUFFICES ASSUME NEW v \in Verdict
                 PROVE  tally'[v] = Cardinality(Counted(Done, v)')
      OBVIOUS
    <2>1. IsFiniteSet(Counted(Done, v)) /\ tally[v] = Cardinality(Counted(Done, v))
      <3>1. Counted(Done, v) \subseteq Node
        BY DEF Counted, Done, Listed
      <3> QED
        BY <3>1, CountType DEF IInv, TallyInv
    <2>2. CASE v = VerdictOf(nodes[n])
      <3>1. Counted(Done, v)' = Counted(Done, v) \cup {n} /\ n \notin Counted(Done, v)
        BY <1>1, <1>4, <2>2 DEF Counted
      <3>2. Cardinality(Counted(Done, v)') = Cardinality(Counted(Done, v)) + 1
        BY <2>1, <3>1, FS_AddElement
      <3> QED
        BY <1>1, <1>3, <2>1, <2>2, <3>2 DEF IInv, TypeOK
    <2>3. CASE v # VerdictOf(nodes[n])
      <3>1. Counted(Done, v)' = Counted(Done, v)
        BY <1>1, <1>4, <2>3 DEF Counted
      <3> QED
        BY <1>1, <2>1, <2>3, <3>1 DEF IInv, TypeOK
    <2> QED
      BY <2>2, <2>3
  <1>8. TallyInv'
    <2>1. flagged' = {m \in Done' : evaluate(nodes'[m]) # {}}
      BY <1>1, <1>4 DEF IInv, TallyInv
    <2> QED
      BY <1>1, <1>7, <2>1 DEF TallyInv
  <1>9. TypeOK'
    <2>1. /\ \A f \in {"up", "degraded"} : series'[f] \in [Node -> {0, 1, None}]
          /\ series'["usage"] \in [Node -> Sample \cup {None}]
      <3>1. /\ series["up"] \in [Node -> {0, 1, None}]
            /\ series["degraded"] \in [Node -> {0, 1, None}]
            /\ series["usage"] \in [Node -> Sample \cup {None}]
        BY DEF IInv, TypeOK
      <3>2. series'["up"] \in [Node -> {0, 1, None}]
        BY <1>5, <3>1
      <3>3. series'["degraded"] \in [Node -> {0, 1, None}]
        BY <1>5, <3>1
      <3>4. series'["usage"] \in [Node -> Sample \cup {None}]
        BY <1>3, <1>5, <3>1
      <3> QED
        BY <3>2, <3>3, <3>4
    <2>2. \A v \in Verdict : Counted(Done, v)' \subseteq Node
      BY DEF Counted, Done, Listed
    <2>3. \A v \in Verdict : tally'[v] \in 0..Cardinality(Node)
      BY <1>7, <2>2, CountType
    <2>4. tally' \in [Verdict -> 0..Cardinality(Node)]
      BY <1>1, <2>3 DEF IInv, TypeOK
    <2>5. todo' \subseteq Listed(nodes')
      BY <1>1 DEF IInv, TypeOK, Listed
    <2>6. flagged' \subseteq Node
      BY <1>1 DEF IInv, TypeOK
    <2> QED
      BY <1>1, <1>5, <2>1, <2>4, <2>5, <2>6 DEF IInv, TypeOK, Listed
  <1>10. BlamedInv' /\ LoggedInv'
    BY <1>1 DEF IInv, BlamedInv, Blamed, LoggedInv
  <1> QED
    BY <1>6, <1>8, <1>9, <1>10 DEF IInv

\* The aggregates are set and the transitions logged.
LEMMA ConcludeInv ==
    ASSUME IInv, Conclude
    PROVE  IInv'
  <1>1. /\ phase = "publish" /\ todo = {} /\ phase' = "tick"
        /\ gauges' = [total |-> Cardinality(Listed(nodes)), count |-> tally]
        /\ logged' = [n \in Node |->
               IF n \in flagged \ previously THEN "degraded"
               ELSE IF n \in previously \ flagged THEN "recovered"
               ELSE logged[n]]
        /\ previously' = flagged
        /\ UNCHANGED <<running, cluster, nodes, todo, series, tally, flagged>>
    BY DEF Conclude, LogTransitions, daemon
  <1>2. LoggedInv'
    BY <1>1 DEF IInv, LoggedInv
  <1>3. BlamedInv' /\ NoStaleSeries' /\ TallyInv'
    BY <1>1 DEF IInv, BlamedInv, Blamed, NoStaleSeries, TallyInv, Done, Counted, Listed
  <1>4. TypeOK'
    <2>1. Cardinality(Listed(nodes)) \in 0..Cardinality(Node)
      BY CountType DEF Listed
    <2>2. gauges' \in [total : 0..Cardinality(Node),
                       count : [Verdict -> 0..Cardinality(Node)]]
      BY <1>1, <2>1 DEF IInv, TypeOK
    <2>3. logged' \in [Node -> {"nothing", "degraded", "recovered"}]
      BY <1>1 DEF IInv, TypeOK
    <2> QED
      BY <1>1, <2>2, <2>3 DEF IInv, TypeOK, Listed
  <1> QED
    BY <1>2, <1>3, <1>4 DEF IInv

LEMMA InitIInv == Init => IInv
  <1> SUFFICES ASSUME Init PROVE IInv
    OBVIOUS
  <1>1. /\ running = TRUE /\ cluster = Nobody /\ phase = "tick" /\ nodes = Nobody
        /\ todo = {} /\ series = [f \in Family |-> Nobody]
        /\ tally = [v \in Verdict |-> 0]
        /\ gauges = [total |-> 0, count |-> [v \in Verdict |-> 0]]
        /\ flagged = {} /\ previously = {}
        /\ logged = [n \in Node |-> "nothing"]
    BY DEF Init, Daemon!Init, Daemon!Nobody, Nobody, Zero
  <1>2. Listed(nodes) = {} /\ Done = {}
    BY <1>1 DEF Listed, Nobody, Done
  <1>3. 0 \in 0..Cardinality(Node) /\ Cardinality({}) = 0
    BY MonitorAssumption, FS_CardinalityType, FS_EmptySet
  <1>4. TypeOK
    BY <1>1, <1>3 DEF TypeOK, Nobody, Family
  <1>5. BlamedInv /\ LoggedInv
    BY <1>1 DEF BlamedInv, Blamed, LoggedInv, Nobody
  <1>6. NoStaleSeries
    BY <1>1, <1>2 DEF NoStaleSeries, Nobody, Family
  <1>7. TallyInv
    <2>1. \A v \in Verdict : Counted(Done, v) = {}
      BY <1>2 DEF Counted
    <2> QED
      BY <1>1, <1>2, <1>3, <2>1 DEF TallyInv
  <1> QED
    BY <1>4, <1>5, <1>6, <1>7 DEF IInv

\* Every step of the monitor or the daemon keeps the invariant.
LEMMA NextIInv == IInv /\ [Next]_vars => IInv'
  <1> SUFFICES ASSUME IInv, [Next]_vars PROVE IInv'
    OBVIOUS
  <1>1. CASE ScrapeFails \/ DaemonStep \/ UNCHANGED vars
    BY <1>1, DaemonStepInv DEF ScrapeFails, DaemonStep, vars, scraper
  <1> QED
    BY <1>1, ScrapeOkInv, PublishInv, ConcludeInv DEF Next, Update

-----------------------------------------------------------------------------
(* The theorems. *)

\* The inductive invariant of the monitor: what is shown, counted and flagged is
\* what update has come to, and the log is about the last scrape that worked.
THEOREM InductiveInvariant == Spec => []IInv
  BY InitIInv, NextIInv, PTL DEF Spec

\* Whenever Prometheus reads a family it finds only values of the last snapshot,
\* and of every node that update has come to (metrics.rs update).
THEOREM SeriesFresh == Spec => []NoStaleSeries
  BY InductiveInvariant, PTL DEF IInv

\* The log speaks of transitions only: degraded after something else, recovered
\* after degraded (health.rs run).
THEOREM TransitionsOnly == Spec => TransitionsAlternate
  <1>1. IInv /\ [Next]_vars =>
            [phase = "publish" /\ phase' = "tick" => \A n \in Node :
                /\ n \in flagged \ previously => logged[n] # "degraded"
                /\ n \in previously \ flagged => logged[n] = "degraded"]_vars
    BY DEF IInv, LoggedInv
  <1> QED
    BY <1>1, InductiveInvariant, PTL DEF Spec, TransitionsAlternate

\* Between updates the exporter's aggregates, the daemon's own counts of the same
\* table and the series tell one story (metrics.rs update, api.rs cluster_status,
\* health.rs evaluate).
THEOREM AccountsAgree == Spec => []AggregatesAgree
  <1>1. IInv => AggregatesAgree
    <2> SUFFICES ASSUME IInv, phase = "tick" PROVE
             /\ gauges = cluster_status(nodes)
             /\ gauges.total = Cardinality(Showing("up", 0) \cup Showing("up", 1))
             /\ gauges.total = gauges.count["healthy"] + gauges.count["degraded"]
                               + gauges.count["unreachable"]
             /\ gauges.count["unreachable"] = Cardinality(Showing("up", 0))
             /\ gauges.count["degraded"] <=
                    Cardinality(Showing("up", 1) \cap Showing("degraded", 1))
      BY DEF AggregatesAgree
    <2> DEFINE L == Listed(nodes)
               H == Counted(L, "healthy")
               D == Counted(L, "degraded")
               U == Counted(L, "unreachable")
    <2>1. /\ todo = {} /\ Done = L /\ L \subseteq Node
          /\ gauges = [total |-> Cardinality(L), count |-> tally]
      BY DEF IInv, TallyInv, Done, Listed
    <2>2. \A n \in L : nodes[n] \in Daemon!Record
      BY DEF IInv, TypeOK, Listed
    <2>3. \A n \in L : /\ nodes[n].status \in {"Registered", "Healthy", "Degraded",
                                               "Unreachable"}
                       /\ VerdictOf(nodes[n]) \in Verdict
      BY <2>2, RecordFacts
    <2>4. \A v \in Verdict : tally[v] = Cardinality(Counted(L, v))
      BY <2>1 DEF IInv, TallyInv
    <2>5. /\ \A n \in L : /\ VerdictOf(nodes[n]) = "healthy" <=>
                                 nodes[n].status \in {"Healthy", "Registered"}
                          /\ VerdictOf(nodes[n]) = "degraded" <=>
                                 nodes[n].status = "Degraded"
                          /\ VerdictOf(nodes[n]) = "unreachable" <=>
                                 nodes[n].status = "Unreachable"
      BY <2>3 DEF VerdictOf
    <2>6. /\ Cardinality(H) = tally["healthy"] /\ Cardinality(D) = tally["degraded"]
          /\ Cardinality(U) = tally["unreachable"]
      BY <2>4 DEF Verdict
    <2>7. /\ H = {n \in L : nodes[n].status \in {"Healthy", "Registered"}}
          /\ D = {n \in L : nodes[n].status \in {"Degraded"}}
          /\ U = {n \in L : nodes[n].status \in {"Unreachable"}}
      BY <2>5 DEF Counted
    <2>8. H \cup D \cup U = L /\ H \cap D = {} /\ (H \cup D) \cap U = {}
      BY <2>3, <2>7
    <2>9. /\ Showing("up", 0) = U
          /\ Showing("up", 0) \cup Showing("up", 1) = L
          /\ D \subseteq Showing("up", 1) \cap Showing("degraded", 1)
      <3>1. None # 0 /\ None # 1
        BY MonitorAssumption
      <3>2. /\ \A n \in Node : series["up"][n] = 0 <=> n \in U
            /\ \A n \in Node : series["up"][n] \in {0, 1} <=> n \in L
        <4>1. /\ \A n \in L : series["up"][n] =
                       IF nodes[n].status # "Unreachable" THEN 1 ELSE 0
              /\ \A n \in Node \ L : series["up"][n] = None
          BY <2>1, ShownFacts DEF IInv, Family
        <4> QED
          BY <2>1, <2>7, <3>1, <4>1
      <3>3. \A n \in D : n \in Node /\ series["up"][n] = 1
        BY <2>1, <2>7, ShownFacts DEF IInv
      <3>4. \A n \in D : evaluate(nodes[n]) # {}
        <4>1. \A n \in D : /\ nodes[n] \in Daemon!Record /\ nodes[n].status = "Degraded"
                           /\ nodes[n] # None /\ n \in Node
          BY <2>1, <2>2, <2>7, RecordFacts
        <4>2. \A n \in D : nodes[n].latest_metrics # None /\ nodes[n].latest_metrics # {}
          BY <4>1 DEF IInv, BlamedInv, Blamed
        <4> QED
          BY <4>1, <4>2, RecordFacts
      <3>5. \A n \in D : series["degraded"][n] = 1
        BY <2>1, <2>7, <3>3, <3>4, ShownFacts DEF IInv
      <3> QED
        BY <2>1, <2>7, <3>2, <3>3, <3>5 DEF Showing
    <2> HIDE DEF L, H, D, U
    <2>10. /\ IsFiniteSet(H) /\ IsFiniteSet(D) /\ IsFiniteSet(U)
           /\ Cardinality(H) \in Nat /\ Cardinality(D) \in Nat /\ Cardinality(U) \in Nat
      <3>1. H \subseteq Node /\ D \subseteq Node /\ U \subseteq Node
        BY <2>1, <2>8
      <3> QED
        BY <3>1, CountType, FS_CardinalityType
    <2>11. Cardinality(L) = Cardinality(H) + Cardinality(D) + Cardinality(U)
      <3>1. /\ IsFiniteSet(H \cup D)
            /\ Cardinality(H \cup D) = Cardinality(H) + Cardinality(D) - Cardinality(H \cap D)
        BY <2>10, FS_Union
      <3>2. Cardinality((H \cup D) \cup U)
               = Cardinality(H \cup D) + Cardinality(U) - Cardinality((H \cup D) \cap U)
        BY <2>10, <3>1, FS_Union
      <3>3. Cardinality(H \cap D) = 0 /\ Cardinality((H \cup D) \cap U) = 0
        BY <2>8, FS_EmptySet
      <3>4. Cardinality(L) = Cardinality((H \cup D) \cup U)
        BY <2>8
      <3>5. Cardinality(H \cup D) = Cardinality(H) + Cardinality(D)
        BY <2>10, <3>1, <3>3
      <3> QED
        BY <2>10, <3>2, <3>3, <3>4, <3>5
    <2>12. Cardinality(D) <= Cardinality(Showing("up", 1) \cap Showing("degraded", 1))
      <3>1. IsFiniteSet(Showing("up", 1) \cap Showing("degraded", 1))
        BY CountType DEF Showing
      <3> QED
        BY <2>9, <3>1, FS_Subset
    <2>13. gauges = cluster_status(nodes)
      <3>1. tally = [v \in Verdict |-> tally[v]]
        BY DEF IInv, TypeOK
      <3>2. \A v \in Verdict :
                tally[v] = Cardinality({n \in Listed(nodes) : nodes[n].status \in
                    [healthy |-> {"Healthy", "Registered"}, degraded |-> {"Degraded"},
                     unreachable |-> {"Unreachable"}][v]})
        <4>1. tally["healthy"] = Cardinality({n \in Listed(nodes) :
                  nodes[n].status \in {"Healthy", "Registered"}})
          BY <2>6, <2>7 DEF L
        <4>2. tally["degraded"] = Cardinality({n \in Listed(nodes) :
                  nodes[n].status \in {"Degraded"}})
          BY <2>6, <2>7 DEF L
        <4>3. tally["unreachable"] = Cardinality({n \in Listed(nodes) :
                  nodes[n].status \in {"Unreachable"}})
          BY <2>6, <2>7 DEF L
        <4> DEFINE counted == [healthy |-> {"Healthy", "Registered"},
                               degraded |-> {"Degraded"},
                               unreachable |-> {"Unreachable"}]
        <4>4. /\ counted["healthy"] = {"Healthy", "Registered"}
              /\ counted["degraded"] = {"Degraded"}
              /\ counted["unreachable"] = {"Unreachable"}
          OBVIOUS
        <4> HIDE DEF counted
        <4>5. \A v \in Verdict :
                  tally[v] = Cardinality({n \in Listed(nodes) :
                                 nodes[n].status \in counted[v]})
          BY <4>1, <4>2, <4>3, <4>4, Zenon DEF Verdict
        <4> QED
          BY <4>5 DEF counted
      <3> QED
        BY <2>1, <3>1, <3>2 DEF cluster_status, L
    <2>14. /\ gauges.total = Cardinality(L) /\ gauges.count["healthy"] = Cardinality(H)
           /\ gauges.count["degraded"] = Cardinality(D)
           /\ gauges.count["unreachable"] = Cardinality(U)
      BY <2>1, <2>6
    <2>15. /\ gauges.total = Cardinality(Showing("up", 0) \cup Showing("up", 1))
           /\ gauges.count["unreachable"] = Cardinality(Showing("up", 0))
      BY <2>9, <2>14
    <2> QED
      BY <2>11, <2>12, <2>13, <2>14, <2>15
  <1> QED
    BY <1>1, InductiveInvariant, PTL
=============================================================================
