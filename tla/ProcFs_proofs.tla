--------------------------- MODULE ProcFs_proofs ----------------------------
(***************************************************************************)
(* Proofs about the two readers of /proc.  Collector: for every set of     *)
(* devices, every finite set of interfaces, and counters and times of any  *)
(* size.  Diag: for every content of the files and every list of reports   *)
(* passed in.  The two models share nothing, so that a fact about one is a *)
(* fact about it alone.                                                    *)
(***************************************************************************)
EXTENDS Collector, Diag, FiniteSetTheorems, WellFoundedInduction, TLAPS

(***************************************************************************)
(* The sum over the interfaces, subset by subset, in the order in which    *)
(* read_net_dev takes them.                                                *)
(***************************************************************************)
Load(n, i) == IF n[i] = None THEN 0 ELSE n[i]

Some(s) == CHOOSE x \in s : TRUE

Sums(n, g) ==
    g = [s \in SUBSET Iface |->
            IF s = {} THEN 0 ELSE Load(n, Some(s)) + g[s \ {Some(s)}]]

Total(n) == (CHOOSE g : Sums(n, g))[Iface]

Counters == [Iface -> 0..MaxCount \cup {None}]

LEMMA ReadIsTotal == read_net_dev = Total(net) /\ read_net_dev' = Total(net')
  BY DEF read_net_dev, Total, Sums, Load, Some, MapThenSumSet, MapThenFoldSet

\* A set of numbers that is not empty has a least one.
LEMMA LeastNumber ==
    ASSUME NEW T \in SUBSET Nat, T # {}
    PROVE  \E x \in T : \A y \in T : x <= y
  <1> DEFINE R == {ss \in Nat \X Nat : ss[1] < ss[2]}
  <1>1. IsWellFoundedOn(R, Nat)
    BY NatLessThanWellFounded DEF OpToRel
  <1> HIDE DEF R
  <1>2. PICK x \in T : \A y \in T : <<y, x>> \notin R
    BY <1>1, WFMin
  <1>3. \A y \in T : ~(y < x)
    BY <1>2 DEF R
  <1> QED
    BY <1>3

\* Taking an interface away leaves a set with one fewer.
LEMMA OneFewer ==
    ASSUME NEW s \in SUBSET Iface
    PROVE  /\ Cardinality(s) \in Nat
           /\ Cardinality(s) <= Cardinality(Iface)
           /\ s # {} => /\ Some(s) \in s /\ Some(s) \in Iface
                        /\ s \ {Some(s)} \in SUBSET Iface
                        /\ Cardinality(s \ {Some(s)}) = Cardinality(s) - 1
  <1>1. IsFiniteSet(s) /\ Cardinality(s) <= Cardinality(Iface)
    BY FS_Subset, CollectorAssumption
  <1>2. Cardinality(s) \in Nat
    BY <1>1, FS_CardinalityType
  <1>3. ASSUME s # {} PROVE Some(s) \in s
    BY <1>3 DEF Some
  <1>4. ASSUME s # {}
        PROVE  Cardinality(s \ {Some(s)}) = Cardinality(s) - 1
    BY <1>1, <1>3, <1>4, FS_RemoveElement
  <1> QED
    BY <1>1, <1>2, <1>3, <1>4

(***************************************************************************)
(* The sums exist.  On the sets with at most k interfaces they do for      *)
(* every k, the sums for k + 1 being written down from those for k.        *)
(***************************************************************************)
Small(k) == {s \in SUBSET Iface : Cardinality(s) <= k}

Extended(n, g, k) ==
    [s \in Small(k) |->
        IF s = {} THEN 0 ELSE Load(n, Some(s)) + g[s \ {Some(s)}]]

LEMMA SumsTo == ASSUME NEW n
                PROVE  \A k \in Nat : \E g : g = Extended(n, g, k)
  <1> DEFINE T == {k \in Nat : ~ \E g : g = Extended(n, g, k)}
  <1>1. SUFFICES ASSUME T # {} PROVE FALSE
    OBVIOUS
  <1>2. PICK k \in T : \A m \in T : k <= m
    BY <1>1, LeastNumber
  <1>3. k \in Nat
    BY <1>2
  <1>4. CASE k = 0
    <2> DEFINE g == [s \in Small(0) |-> 0]
    <2>1. \A s \in Small(0) : s = {}
      <3> SUFFICES ASSUME NEW s \in Small(0), s # {} PROVE FALSE
        OBVIOUS
      <3>1. s \in SUBSET Iface /\ Cardinality(s) <= 0
        BY DEF Small
      <3>2. /\ Cardinality(s) \in Nat
            /\ s \ {Some(s)} \in SUBSET Iface
            /\ Cardinality(s \ {Some(s)}) = Cardinality(s) - 1
        BY <3>1, OneFewer
      <3>3. Cardinality(s \ {Some(s)}) \in Nat
        BY <3>2, OneFewer
      <3> QED
        BY <3>1, <3>2, <3>3
    <2>2. g = Extended(n, g, 0)
      BY <2>1 DEF Extended
    <2> QED
      BY <1>2, <1>4, <2>2
  <1>5. CASE k # 0
    <2>1. k - 1 \in Nat /\ k - 1 \notin T
      BY <1>2, <1>3, <1>5
    <2>2. PICK g : g = Extended(n, g, k - 1)
      BY <2>1
    <2> DEFINE h == Extended(n, g, k)
    <2>3. \A s \in Small(k - 1) : h[s] = g[s]
      <3> SUFFICES ASSUME NEW s \in Small(k - 1) PROVE h[s] = g[s]
        OBVIOUS
      <3>1. s \in Small(k)
        <4>1. s \in SUBSET Iface /\ Cardinality(s) <= k - 1
          BY DEF Small
        <4>2. Cardinality(s) \in Nat
          BY <4>1, OneFewer
        <4> QED
          BY <4>1, <4>2, <1>3 DEF Small
      <3>2. h[s] = IF s = {} THEN 0 ELSE Load(n, Some(s)) + g[s \ {Some(s)}]
        BY <3>1 DEF Extended
      <3>3. g[s] = IF s = {} THEN 0 ELSE Load(n, Some(s)) + g[s \ {Some(s)}]
        BY <2>2 DEF Extended
      <3> QED
        BY <3>2, <3>3
    <2>4. ASSUME NEW s \in Small(k), s # {}
          PROVE  h[s \ {Some(s)}] = g[s \ {Some(s)}]
      <3>1. s \in SUBSET Iface /\ Cardinality(s) <= k
        BY DEF Small
      <3>2. /\ Cardinality(s) \in Nat
            /\ s \ {Some(s)} \in SUBSET Iface
            /\ Cardinality(s \ {Some(s)}) = Cardinality(s) - 1
        BY <2>4, <3>1, OneFewer
      <3>3. s \ {Some(s)} \in Small(k - 1)
        BY <1>3, <3>1, <3>2 DEF Small
      <3> QED
        BY <2>3, <3>3
    <2> HIDE DEF h
    <2>5. Extended(n, g, k) = Extended(n, h, k)
      BY <2>4 DEF Extended
    <2>6. h = Extended(n, h, k)
      BY <2>5 DEF h
    <2> QED
      BY <1>2, <2>6
  <1> QED
    BY <1>4, <1>5

\* What read_net_dev sums is defined: the total is the value for all of Iface
\* of a function that adds one interface after the other.
LEMMA TotalSums == ASSUME NEW n
                   PROVE  \E g : Sums(n, g) /\ Total(n) = g[Iface]
  <1>1. Cardinality(Iface) \in Nat
    BY OneFewer
  <1>2. PICK g : g = Extended(n, g, Cardinality(Iface))
    BY <1>1, SumsTo
  <1>3. Small(Cardinality(Iface)) = SUBSET Iface
    BY OneFewer DEF Small
  <1>4. Sums(n, g)
    BY <1>2, <1>3 DEF Sums, Extended
  <1>5. Sums(n, CHOOSE f : Sums(n, f))
    BY <1>4
  <1> QED
    BY <1>5 DEF Total

\* Equal, and at most k more, one interface at a time.
LEMMA SumsGrow ==
    ASSUME NEW m \in Counters, NEW n \in Counters, NEW k \in {0, 1},
           NEW j \in Iface, Load(n, j) <= Load(m, j) + k,
           \A i \in Iface \ {j} : Load(n, i) <= Load(m, i),
           NEW f, Sums(m, f), NEW g, Sums(n, g)
    PROVE  \A s \in SUBSET Iface :
               /\ f[s] \in Nat /\ g[s] \in Nat
               /\ g[s] <= f[s] + (IF j \in s THEN k ELSE 0)
  <1> DEFINE Good(s) == /\ f[s] \in Nat /\ g[s] \in Nat
                        /\ g[s] <= f[s] + (IF j \in s THEN k ELSE 0)
             T == {c \in Nat : \E s \in SUBSET Iface :
                                 ~Good(s) /\ c = Cardinality(s)}
  <1>1. SUFFICES ASSUME NEW b \in SUBSET Iface, ~Good(b) PROVE FALSE
    OBVIOUS
  <1> HIDE DEF Good
  <1>2. T \in SUBSET Nat /\ T # {}
    BY <1>1, OneFewer
  <1>3. PICK c \in T : \A d \in T : c <= d
    BY <1>2, LeastNumber
  <1>4. PICK s \in SUBSET Iface : ~Good(s) /\ c = Cardinality(s)
    BY <1>3
  <1>5. s # {} => Good(s \ {Some(s)})
    <2> SUFFICES ASSUME s # {}, ~Good(s \ {Some(s)}) PROVE FALSE
      OBVIOUS
    <2>1. /\ Cardinality(s) \in Nat
          /\ s \ {Some(s)} \in SUBSET Iface
          /\ Cardinality(s \ {Some(s)}) = Cardinality(s) - 1
      BY OneFewer
    <2>2. Cardinality(s \ {Some(s)}) \in Nat
      BY <2>1, OneFewer
    <2>3. Cardinality(s \ {Some(s)}) \in T
      BY <2>1, <2>2
    <2> QED
      BY <1>3, <1>4, <2>1, <2>3
  <1>6. /\ f[s] = IF s = {} THEN 0 ELSE Load(m, Some(s)) + f[s \ {Some(s)}]
        /\ g[s] = IF s = {} THEN 0 ELSE Load(n, Some(s)) + g[s \ {Some(s)}]
    BY DEF Sums
  <1>7. \A i \in Iface : Load(m, i) \in Nat /\ Load(n, i) \in Nat
    BY CollectorAssumption DEF Load, Counters
  <1>8. CASE s = {}
    BY <1>4, <1>6, <1>8 DEF Good
  <1>9. CASE s # {}
    <2>1. Some(s) \in s /\ Some(s) \in Iface
      BY <1>9, OneFewer
    <2>2. Good(s \ {Some(s)})
      BY <1>5, <1>9
    <2>3. Load(m, Some(s)) \in Nat /\ Load(n, Some(s)) \in Nat
      BY <1>7, <2>1
    <2>4. CASE Some(s) = j
      BY <1>4, <1>6, <1>9, <2>1, <2>2, <2>3, <2>4 DEF Good
    <2>5. CASE Some(s) # j
      <3>1. Load(n, Some(s)) <= Load(m, Some(s))
        BY <2>1, <2>5
      <3> QED
        BY <1>4, <1>6, <1>9, <2>1, <2>2, <2>3, <2>5, <3>1 DEF Good
    <2> QED
      BY <2>4, <2>5
  <1> QED
    BY <1>8, <1>9

\* What the interfaces have counted together grows by at most k.
LEMMA TotalGrows ==
    ASSUME NEW m \in Counters, NEW n \in Counters, NEW k \in {0, 1},
           NEW j \in Iface, Load(n, j) <= Load(m, j) + k,
           \A i \in Iface \ {j} : Load(n, i) <= Load(m, i)
    PROVE  /\ Total(m) \in Nat /\ Total(n) \in Nat
           /\ Total(n) <= Total(m) + k
  <1>1. PICK f : Sums(m, f) /\ Total(m) = f[Iface]
    BY TotalSums
  <1>2. PICK g : Sums(n, g) /\ Total(n) = g[Iface]
    BY TotalSums
  <1>3. /\ f[Iface] \in Nat /\ g[Iface] \in Nat
        /\ g[Iface] <= f[Iface] + (IF j \in Iface THEN k ELSE 0)
    BY <1>1, <1>2, SumsGrow
  <1> QED
    BY <1>1, <1>2, <1>3

LEMMA TotalType == ASSUME NEW n \in Counters PROVE Total(n) \in Nat
  <1>1. CASE Iface = {}
    <2>1. PICK g : Sums(n, g) /\ Total(n) = g[Iface]
      BY TotalSums
    <2>2. g[Iface] = 0
      BY <1>1, <2>1 DEF Sums
    <2> QED
      BY <2>1, <2>2
  <1>2. CASE Iface # {}
    <2>1. PICK j \in Iface : TRUE
      BY <1>2
    <2>2. \A i \in Iface : Load(n, i) \in Nat
      BY CollectorAssumption DEF Load, Counters
    <2>3. /\ \A i \in Iface : Load(n, i) <= Load(n, i)
          /\ Load(n, j) <= Load(n, j) + 0
      BY <2>1, <2>2
    <2> QED
      BY <2>1, <2>3, TotalGrows
  <1> QED
    BY <1>1, <1>2

-----------------------------------------------------------------------------
(* Rates. *)

\* Dividing by the seconds and multiplying again gains nothing.
LEMMA DivideMultiply ==
    ASSUME NEW a \in Nat, NEW b \in Nat \ {0}
    PROVE  /\ a \div b \in Nat
           /\ (a \div b) * b <= a
           /\ a \div b <= a
  OBVIOUS

\* A rate over some seconds is at most what the counter moved, and never
\* negative.
LEMMA RateFacts ==
    ASSUME NEW cur \in Nat, NEW old \in Nat, NEW secs \in Nat, secs # 0
    PROVE  /\ rate(cur, old, secs) \in Nat
           /\ rate(cur, old, secs) <= cur
           /\ cur <= old => rate(cur, old, secs) * secs = 0
           /\ cur > old => rate(cur, old, secs) * secs <= cur - old
  <1>1. CASE cur < old
    BY <1>1 DEF rate
  <1>2. CASE cur >= old
    <2>1. cur - old \in Nat /\ rate(cur, old, secs) = (cur - old) \div secs
      BY <1>2 DEF rate
    <2>2. /\ rate(cur, old, secs) \in Nat
          /\ rate(cur, old, secs) * secs <= cur - old
          /\ rate(cur, old, secs) <= cur - old
      BY <2>1, DivideMultiply
    <2>3. rate(cur, old, secs) * secs \in Nat
      BY <2>2
    <2> QED
      BY <1>2, <2>1, <2>2, <2>3
  <1> QED
    BY <1>1, <1>2

(***************************************************************************)
(* The inductive invariant: a counter that was there at the last sample    *)
(* and is there now has moved by no more than what went through it since;  *)
(* likewise the sum over the interfaces, if it could be read.              *)
(***************************************************************************)
DiskInv ==
    prev # None =>
        \A d \in Device :
            disk[d] # None /\ prev.disk[d] # None
                => disk[d] <= prev.disk[d] + moved[d]

NetInv == prev # None /\ ~blind => Total(net) <= prev.net + carried

IInv == /\ TypeOK
        /\ DiskInv /\ NetInv
        /\ DiskRateIsTraffic /\ NetRateIsTraffic

LEMMA InitIInv == Init => IInv
  <1> SUFFICES ASSUME Init PROVE IInv
    OBVIOUS
  <1>1. TypeOK
    BY CollectorAssumption DEF Init, TypeOK, NoRates
  <1>2. DiskInv /\ NetInv
    BY DEF Init, DiskInv, NetInv
  <1>3. DiskRateIsTraffic /\ NetRateIsTraffic
    BY DEF Init, DiskRateIsTraffic, NetRateIsTraffic, NoRates
  <1> QED
    BY <1>1, <1>2, <1>3 DEF IInv

LEMMA DiskTrafficIInv ==
    ASSUME IInv, NEW d \in Device, DiskTraffic(d) PROVE IInv'
  <1>1. TypeOK'
    BY CollectorAssumption DEF IInv, TypeOK, DiskTraffic
  <1>2. DiskInv'
    BY CollectorAssumption DEF IInv, TypeOK, DiskInv, DiskTraffic
  <1>3. NetInv'
    BY DEF IInv, NetInv, DiskTraffic
  <1>4. DiskRateIsTraffic' /\ NetRateIsTraffic'
    BY DEF IInv, DiskRateIsTraffic, NetRateIsTraffic, DiskTraffic
  <1> QED
    BY <1>1, <1>2, <1>3, <1>4 DEF IInv

LEMMA NetTrafficIInv ==
    ASSUME IInv, NEW j \in Iface, NetTraffic(j) PROVE IInv'
  <1>1. TypeOK'
    BY CollectorAssumption DEF IInv, TypeOK, NetTraffic
  <1>2. DiskInv'
    BY DEF IInv, DiskInv, NetTraffic
  <1>3. net \in Counters /\ net' \in Counters
    BY <1>1 DEF IInv, TypeOK, Counters
  <1>4. /\ Load(net', j) <= Load(net, j) + 1
        /\ \A i \in Iface \ {j} : Load(net', i) <= Load(net, i)
    BY <1>3, CollectorAssumption DEF Load, Counters, NetTraffic
  <1>5. /\ Total(net) \in Nat /\ Total(net') \in Nat
        /\ Total(net') <= Total(net) + 1
    BY <1>3, <1>4, TotalGrows
  <1>6. NetInv'
    BY <1>5 DEF IInv, TypeOK, NetInv, NetTraffic
  <1>7. DiskRateIsTraffic' /\ NetRateIsTraffic'
    BY DEF IInv, DiskRateIsTraffic, NetRateIsTraffic, NetTraffic
  <1> QED
    BY <1>1, <1>2, <1>6, <1>7 DEF IInv

LEMMA HotplugIInv == ASSUME IInv, Hotplug PROVE IInv'
  <1>1. TypeOK'
    BY CollectorAssumption DEF IInv, TypeOK, Hotplug, ghosts
  <1>2. DiskInv'
    <2>1. CASE UNCHANGED disk
      BY <2>1 DEF IInv, DiskInv, Hotplug, ghosts
    <2>2. ASSUME NEW e \in Device, NEW c \in {0, None},
                 disk' = [disk EXCEPT ![e] = c]
          PROVE  DiskInv'
      BY <2>2, CollectorAssumption DEF IInv, TypeOK, DiskInv, Hotplug, ghosts
    <2> QED
      BY <2>1, <2>2 DEF Hotplug
  <1>3. NetInv'
    <2>1. CASE UNCHANGED net
      BY <2>1 DEF IInv, NetInv, Hotplug, ghosts
    <2>2. ASSUME NEW j \in Iface, NEW c \in {0, None},
                 net' = [net EXCEPT ![j] = c]
          PROVE  NetInv'
      <3>1. net \in Counters /\ net' \in Counters
        BY <1>1 DEF IInv, TypeOK, Counters
      <3>2. /\ Load(net', j) <= Load(net, j) + 0
            /\ \A i \in Iface \ {j} : Load(net', i) <= Load(net, i)
        BY <2>2, <3>1, CollectorAssumption DEF Load, Counters
      <3>3. /\ Total(net) \in Nat /\ Total(net') \in Nat
            /\ Total(net') <= Total(net) + 0
        BY <3>1, <3>2, TotalGrows
      <3> QED
        BY <3>3 DEF IInv, TypeOK, NetInv, Hotplug, ghosts
    <2> QED
      BY <2>1, <2>2 DEF Hotplug
  <1>4. DiskRateIsTraffic' /\ NetRateIsTraffic'
    BY DEF IInv, DiskRateIsTraffic, NetRateIsTraffic, Hotplug, ghosts
  <1> QED
    BY <1>1, <1>2, <1>3, <1>4 DEF IInv

LEMMA TickIInv == ASSUME IInv, Tick PROVE IInv'
  <1>1. TypeOK'
    BY CollectorAssumption DEF IInv, TypeOK, Tick, ghosts
  <1>2. DiskInv' /\ NetInv'
    BY DEF IInv, DiskInv, NetInv, Tick, ghosts
  <1>3. DiskRateIsTraffic' /\ NetRateIsTraffic'
    BY DEF IInv, DiskRateIsTraffic, NetRateIsTraffic, Tick, ghosts
  <1> QED
    BY <1>1, <1>2, <1>3 DEF IInv

\* A device's rate, whichever of the two readings know the device: it is 0
\* unless both do.
LEMMA DiskRateFacts ==
    ASSUME NEW cur \in 0..MaxCount \cup {None},
           NEW old \in 0..MaxCount \cup {None},
           NEW went \in Nat, NEW secs \in Nat, secs # 0,
           cur # None /\ old # None => cur <= old + went
    PROVE  /\ DiskRate(cur, old, secs) \in 0..MaxCount
           /\ DiskRate(cur, old, secs) * secs <= went
  <1> DEFINE c == Or(cur, 0)
             o == Or(old, Or(cur, 0))
  <1>1. c \in Nat /\ o \in Nat /\ c <= MaxCount
    BY CollectorAssumption DEF Or
  <1>2. c <= o + went
    BY <1>1, CollectorAssumption DEF Or
  <1>3. DiskRate(cur, old, secs) = rate(c, o, secs)
    BY DEF DiskRate
  <1> HIDE DEF c, o
  <1>4. /\ rate(c, o, secs) \in Nat
        /\ rate(c, o, secs) <= c
        /\ c <= o => rate(c, o, secs) * secs = 0
        /\ c > o => rate(c, o, secs) * secs <= c - o
    BY <1>1, RateFacts
  <1>5. rate(c, o, secs) \in 0..MaxCount
    BY <1>1, <1>4, CollectorAssumption
  <1>6. rate(c, o, secs) * secs \in Nat
    BY <1>4
  <1>7. rate(c, o, secs) * secs <= went
    BY <1>1, <1>2, <1>4, <1>6
  <1> QED
    BY <1>3, <1>5, <1>7

LEMMA SampledIInv ==
    ASSUME IInv, NEW d \in {read_diskstats, NoDevices}, NEW n, NEW b,
           Sampled(d, n), blind' = b,
           \/ n = Total(net) /\ b = FALSE
           \/ n = 0 /\ b = TRUE
    PROVE  IInv'
  <1> DEFINE secs == now - prev.at
  <1>1. net \in Counters /\ Total(net) \in Nat
    BY TotalType DEF IInv, TypeOK, Counters
  <1>2. n \in Nat /\ n <= Total(net)
    BY <1>1
  <1>3. /\ d \in [Device -> 0..MaxCount \cup {None}]
        /\ \A x \in Device : d[x] # None => d[x] = disk[x]
    BY DEF IInv, TypeOK, read_diskstats, NoDevices
  <1>4. /\ prev' = [at |-> now, disk |-> d, net |-> n]
        /\ report' = Rates(d, n)
        /\ actual' = [disk |-> moved, net |-> carried, blind |-> blind]
        /\ moved' = [x \in Device |-> 0] /\ carried' = 0
        /\ UNCHANGED <<disk, net, now>>
    BY DEF Sampled
  <1>5. CASE prev = None \/ now = prev.at
    <2>1. report' = NoRates
      BY <1>4, <1>5 DEF Rates
    <2>2. TypeOK'
      BY <1>2, <1>3, <1>4, <2>1, CollectorAssumption
      DEF IInv, TypeOK, NoRates
    <2>3. DiskRateIsTraffic' /\ NetRateIsTraffic'
      BY <1>4, <2>1, CollectorAssumption
      DEF IInv, TypeOK, DiskRateIsTraffic, NetRateIsTraffic, NoRates
    <2>4. DiskInv' /\ NetInv'
      BY <1>1, <1>2, <1>3, <1>4, CollectorAssumption
      DEF IInv, TypeOK, DiskInv, NetInv
    <2> QED
      BY <2>2, <2>3, <2>4 DEF IInv
  <1>6. CASE prev # None /\ now # prev.at
    <2>1. secs \in Nat /\ secs # 0 /\ secs <= MaxTime /\ prev.net \in Nat
      BY <1>6, CollectorAssumption DEF IInv, TypeOK
    <2>2. report' = [disk |-> [x \in Device |->
                                  DiskRate(d[x], prev.disk[x], secs)],
                     net |-> rate(n, prev.net, secs),
                     secs |-> secs]
      BY <1>4, <1>6 DEF Rates
    <2> HIDE DEF secs
    <2>3. ASSUME NEW x \in Device
          PROVE  /\ DiskRate(d[x], prev.disk[x], secs) \in 0..MaxCount
                 /\ DiskRate(d[x], prev.disk[x], secs) * secs <= moved[x]
      <3>1. /\ d[x] \in 0..MaxCount \cup {None}
            /\ prev.disk[x] \in 0..MaxCount \cup {None}
            /\ moved[x] \in Nat
        BY <1>3, <1>6, CollectorAssumption DEF IInv, TypeOK
      <3>2. d[x] # None /\ prev.disk[x] # None
                => d[x] <= prev.disk[x] + moved[x]
        BY <1>3, <1>6 DEF IInv, DiskInv
      <3> QED
        BY <2>1, <3>1, <3>2, DiskRateFacts
    <2>4. /\ rate(n, prev.net, secs) \in Nat
          /\ n <= prev.net => rate(n, prev.net, secs) * secs = 0
          /\ n > prev.net => rate(n, prev.net, secs) * secs <= n - prev.net
      BY <1>2, <2>1, RateFacts
    <2>5. ~blind => rate(n, prev.net, secs) * secs <= carried
      <3> SUFFICES ASSUME ~blind PROVE rate(n, prev.net, secs) * secs <= carried
        OBVIOUS
      <3>1. n <= prev.net + carried /\ carried \in Nat
        BY <1>1, <1>2, <1>6, <2>1, CollectorAssumption
        DEF IInv, TypeOK, NetInv
      <3>2. rate(n, prev.net, secs) * secs \in Nat
        BY <2>1, <2>4
      <3> QED
        BY <1>2, <2>1, <2>4, <3>1, <3>2
    <2>6. TypeOK'
      <3>1. /\ report'.disk \in [Device -> 0..MaxCount]
            /\ report'.net \in Nat
            /\ report'.secs \in 0..MaxTime
        BY <2>1, <2>2, <2>3, <2>4, CollectorAssumption
      <3> QED
        BY <1>2, <1>3, <1>4, <3>1, CollectorAssumption DEF IInv, TypeOK
    <2>7. DiskRateIsTraffic'
      BY <1>4, <2>2, <2>3 DEF DiskRateIsTraffic
    <2>8. NetRateIsTraffic'
      BY <1>4, <2>2, <2>5 DEF NetRateIsTraffic
    <2>9. DiskInv' /\ NetInv'
      BY <1>1, <1>2, <1>3, <1>4, CollectorAssumption
      DEF IInv, TypeOK, DiskInv, NetInv
    <2> QED
      BY <2>6, <2>7, <2>8, <2>9 DEF IInv
  <1> QED
    BY <1>5, <1>6

LEMMA NextIInv == IInv /\ [Next]_vars => IInv'
  <1> SUFFICES ASSUME IInv, [Next]_vars PROVE IInv'
    OBVIOUS
  <1>1. ASSUME NEW d \in Device, DiskTraffic(d) PROVE IInv'
    BY <1>1, DiskTrafficIInv
  <1>2. ASSUME NEW i \in Iface, NetTraffic(i) PROVE IInv'
    BY <1>2, NetTrafficIInv
  <1>3. CASE Hotplug
    BY <1>3, HotplugIInv
  <1>4. CASE Tick
    BY <1>4, TickIInv
  <1>5. CASE Collect
    <2>1. PICK d \in {read_diskstats, NoDevices} :
              \/ Sampled(d, read_net_dev) /\ blind' = FALSE
              \/ Sampled(d, 0) /\ blind' = TRUE
      BY <1>5 DEF Collect
    <2>2. CASE Sampled(d, read_net_dev) /\ blind' = FALSE
      <3>1. Sampled(d, Total(net))
        BY <2>2, ReadIsTotal
      <3> QED
        BY <2>2, <3>1, SampledIInv
    <2>3. CASE Sampled(d, 0) /\ blind' = TRUE
      BY <2>3, SampledIInv
    <2> QED
      BY <2>1, <2>2, <2>3
  <1>6. CASE UNCHANGED vars
    BY <1>6 DEF IInv, TypeOK, DiskInv, NetInv, DiskRateIsTraffic,
                NetRateIsTraffic, vars, ghosts
  <1> QED
    BY <1>1, <1>2, <1>3, <1>4, <1>5, <1>6 DEF Next

\* The collector's invariant: what is kept from the last sample explains what
\* the counters show now (metrics.rs Collector.prev).
THEOREM InductiveInvariant == Spec => []IInv
  BY InitIInv, NextIInv, PTL DEF Spec

\* No block device is reported with more than went through it, whatever
\* devices come, go and start again and whichever readings fail (metrics.rs
\* build_disks, rate).
THEOREM DiskRateJustified == Spec => []DiskRateIsTraffic
  <1>1. IInv => DiskRateIsTraffic
    BY DEF IInv
  <1> QED
    BY <1>1, InductiveInvariant, PTL

\* Nor is the network, over any number of interfaces, when the earlier of the
\* two readings succeeded (metrics.rs build_network, rate).
THEOREM NetRateJustified == Spec => []NetRateIsTraffic
  <1>1. IInv => NetRateIsTraffic
    BY DEF IInv
  <1> QED
    BY <1>1, InductiveInvariant, PTL

(***************************************************************************)
(* Diag.  The order of the sources first.                                  *)
(***************************************************************************)

LEMMA SourceFacts ==
    /\ Len(Sources) = 5
    /\ \A j \in 1..5 : Sources[j] \in Source
    /\ \A i, j \in 1..5 : Sources[i] = Sources[j] => i = j
    /\ Sources[1] = "meminfo" /\ Sources[4] = "mounts" /\ Sources[5] = "version"
    /\ \A s \in Source : \E j \in 1..5 : s = Sources[j]
  <1>1. /\ Len(Sources) = 5 /\ DOMAIN Sources = 1..5
        /\ Sources[1] = "meminfo" /\ Sources[2] = "diskstats"
        /\ Sources[3] = "net_dev" /\ Sources[4] = "mounts" /\ Sources[5] = "version"
    BY DEF Sources
  <1>2. \A j \in 1..5 : j = 1 \/ j = 2 \/ j = 3 \/ j = 4 \/ j = 5
    OBVIOUS
  <1>3. Source = {Sources[i] : i \in 1..5}
    BY <1>1 DEF Source, ToSet
  <1>4. ASSUME NEW i \in 1..5, NEW j \in 1..5, Sources[i] = Sources[j] PROVE i = j
    <2>1. CASE i = 1
      BY <1>1, <1>2, <1>4, <2>1
    <2>2. CASE i = 2
      BY <1>1, <1>2, <1>4, <2>2
    <2>3. CASE i = 3
      BY <1>1, <1>2, <1>4, <2>3
    <2>4. CASE i = 4
      BY <1>1, <1>2, <1>4, <2>4
    <2>5. CASE i = 5
      BY <1>1, <1>2, <1>4, <2>5
    <2> QED
      BY <1>2, <2>1, <2>2, <2>3, <2>4, <2>5
  <1> QED
    BY <1>1, <1>3, <1>4

(***************************************************************************)
(* The inductive invariant: what has been read, what the bundle holds for  *)
(* it, which reports were added, and what the heuristics were given.       *)
(***************************************************************************)
Report == ToSet(Contributed) \cup {unavailable(s) : s \in Source}

Taken == Len(Sources) - Len(todo)

OrderInv ==
    /\ todo \in Seq(Source) /\ Len(todo) <= 5
    /\ \A i \in 1..Len(todo) : todo[i] = Sources[Taken + i]
    /\ stage # "collect" => todo = <<>>
    /\ DOMAIN seen = Source /\ DOMAIN bundle = Source
    /\ seen = [s \in Source |-> seen[s]] /\ bundle = [s \in Source |-> bundle[s]]

\* What became of source number j.
FieldInv(j) ==
    LET s == Sources[j]
    IN  /\ seen[s] = Missing => bundle[s] = Default(s)
        /\ seen[s] # Missing /\ s = "meminfo" => bundle[s] = parse_meminfo(seen[s])

ReportInv ==
    /\ reports \in Seq(Report)
    /\ \A i \in DOMAIN reports : i > Len(Contributed) =>
           \E k \in Failed(Taken) : reports[i] = unavailable(Sources[k])
    /\ ReportsAreExact

AnomalyInv ==
    anomalies = IF stage = "collect" THEN {}
                ELSE detect_anomalies(bundle["meminfo"], bundle["version"],
                                      bundle["mounts"])

DiagInv == OrderInv /\ (\A j \in 1..Taken : FieldInv(j)) /\ ReportInv /\ AnomalyInv

LEMMA FailedFacts ==
    ASSUME NEW k \in 0..5
    PROVE  /\ IsFiniteSet(Failed(k)) /\ Cardinality(Failed(k)) \in Nat
           /\ IsFiniteSet(Failed(k)') /\ Cardinality(Failed(k)') \in Nat
  <1>1. IsFiniteSet(1..k)
    BY FS_Interval
  <1>2. Failed(k) \subseteq 1..k /\ Failed(k)' \subseteq 1..k
    BY DEF Failed
  <1> QED
    BY <1>1, <1>2, FS_Subset, FS_CardinalityType

LEMMA DiagInitInv == DiagInit => DiagInv
  <1> SUFFICES ASSUME DiagInit PROVE DiagInv
    OBVIOUS
  <1>1. todo = Sources /\ Sources \in Seq(Source) /\ Taken = 0
    BY SourceFacts DEF DiagInit, Taken, Sources
  <1>2. OrderInv
    BY <1>1, SourceFacts DEF DiagInit, OrderInv
  <1>3. Failed(0) = {}
    BY DEF Failed
  <1>4. ReportInv
    <2>1. Failed(Taken) = {} /\ Cardinality(Failed(Taken)) = 0
      BY <1>1, <1>3, FS_EmptySet
    <2>2. reports = Contributed /\ reports \in Seq(Report) /\ Len(reports) \in Nat
      BY DiagAssumption DEF DiagInit, Report
    <2>3. DOMAIN reports = 1..Len(reports)
      BY <2>2
    <2> QED
      BY <2>1, <2>2, <2>3 DEF ReportInv, ReportsAreExact, Taken
  <1>5. AnomalyInv
    BY DEF DiagInit, AnomalyInv
  <1> QED
    BY <1>1, <1>2, <1>4, <1>5 DEF DiagInv

\* The next source is read: it is number Taken + 1, and what was found earlier
\* stays.
LEMMA CollectFacts ==
    ASSUME DiagInv, collect_with_reports
    PROVE  \E t \in 0..4 : \E f :
               LET s == Sources[t + 1]
               IN  /\ t = Taken /\ Taken' = t + 1 /\ s \in Source
                   /\ seen' = [seen EXCEPT ![s] = f]
                   /\ bundle' = [bundle EXCEPT ![s] = IF f = Missing THEN Default(s)
                                                      ELSE Parsed(s, f)]
                   /\ reports' = IF f = Missing THEN Append(reports, unavailable(s))
                                 ELSE reports
                   /\ OrderInv'
                   /\ seen'[s] = f
                   /\ bundle'[s] = IF f = Missing THEN Default(s) ELSE Parsed(s, f)
                   /\ \A j \in 1..t : /\ seen'[Sources[j]] = seen[Sources[j]]
                                      /\ bundle'[Sources[j]] = bundle[Sources[j]]
  <1>1. OrderInv /\ stage = "collect" /\ stage' = stage /\ todo # <<>>
        /\ todo' = Tail(todo)
    BY DEF DiagInv, collect_with_reports
  <1>2. /\ todo \in Seq(Source) /\ Len(todo) \in 1..5 /\ Len(Sources) = 5
        /\ Head(todo) = todo[1]
    <2>1. todo \in Seq(Source) /\ Len(todo) <= 5 /\ Len(Sources) = 5
      BY <1>1, SourceFacts DEF OrderInv
    <2>2. Len(todo) \in Nat /\ Len(todo) # 0
      BY <1>1, <2>1
    <2>3. Head(todo) = todo[1]
      BY <2>1
    <2>4. \A n \in Nat : n <= 5 /\ n # 0 => n \in 1..5
      OBVIOUS
    <2> QED
      BY <2>1, <2>2, <2>3, <2>4
  <1>3. /\ todo' \in Seq(Source) /\ Len(todo') = Len(todo) - 1
        /\ \A i \in 1..Len(todo') : todo'[i] = todo[i + 1]
    BY <1>1, <1>2
  <1>4. PICK t \in 0..4 : t = Taken /\ Taken' = t + 1 /\ Len(todo) = 5 - t
    <2>1. Taken = 5 - Len(todo) /\ Taken' = 5 - Len(todo')
      BY SourceFacts DEF Taken
    <2>2. Taken \in 0..4 /\ Taken' = Taken + 1 /\ Len(todo) = 5 - Taken
      BY <1>2, <1>3, <2>1
    <2> QED
      BY <2>2
  <1>5. Head(todo) = Sources[t + 1]
    BY <1>1, <1>2, <1>4 DEF OrderInv
  <1>6. PICK f :
            /\ seen' = [seen EXCEPT ![Sources[t + 1]] = f]
            /\ IF f = Missing
               THEN /\ bundle' = [bundle EXCEPT ![Sources[t + 1]] = Default(Sources[t + 1])]
                    /\ reports' = Append(reports, unavailable(Sources[t + 1]))
               ELSE /\ bundle' = [bundle EXCEPT ![Sources[t + 1]] = Parsed(Sources[t + 1], f)]
                    /\ reports' = reports
    BY <1>5 DEF collect_with_reports, WithUnavailable
  <1> DEFINE s == Sources[t + 1]
             v == IF f = Missing THEN Default(s) ELSE Parsed(s, f)
  <1>7. s \in Source
    BY SourceFacts
  <1>8. /\ seen' = [seen EXCEPT ![s] = f] /\ bundle' = [bundle EXCEPT ![s] = v]
        /\ reports' = IF f = Missing THEN Append(reports, unavailable(s)) ELSE reports
    BY <1>6
  <1>9. \A j \in 1..t : Sources[j] \in Source /\ Sources[j] # s
    BY SourceFacts
  <1> HIDE DEF s, v
  <1>10. /\ DOMAIN seen = Source /\ DOMAIN bundle = Source
         /\ seen = [x \in Source |-> seen[x]] /\ bundle = [x \in Source |-> bundle[x]]
    BY <1>1 DEF OrderInv
  <1>11. /\ seen' = [x \in Source |-> IF x = s THEN f ELSE seen[x]]
         /\ bundle' = [x \in Source |-> IF x = s THEN v ELSE bundle[x]]
    BY <1>7, <1>8, <1>10
  <1>12. /\ seen'[s] = f /\ bundle'[s] = v
         /\ \A j \in 1..t : /\ seen'[Sources[j]] = seen[Sources[j]]
                            /\ bundle'[Sources[j]] = bundle[Sources[j]]
    BY <1>7, <1>9, <1>11
  <1>13. /\ DOMAIN seen' = Source /\ DOMAIN bundle' = Source
         /\ seen' = [x \in Source |-> seen'[x]]
         /\ bundle' = [x \in Source |-> bundle'[x]]
    BY <1>11
  <1>14. \A i \in 1..Len(todo') : todo'[i] = Sources[Taken' + i]
    <2> SUFFICES ASSUME NEW i \in 1..Len(todo') PROVE todo'[i] = Sources[Taken' + i]
      OBVIOUS
    <2>1. todo'[i] = todo[i + 1] /\ i + 1 \in 1..Len(todo)
      BY <1>2, <1>3
    <2>2. todo[i + 1] = Sources[Taken + (i + 1)]
      BY <1>1, <2>1 DEF OrderInv
    <2>3. Taken + (i + 1) = Taken' + i
      BY <1>4
    <2> QED
      BY <2>1, <2>2, <2>3
  <1>15. OrderInv'
    BY <1>1, <1>2, <1>3, <1>13, <1>14 DEF OrderInv
  <1> QED
    BY <1>4, <1>7, <1>8, <1>12, <1>15 DEF s, v

LEMMA CollectInv == ASSUME DiagInv, collect_with_reports PROVE DiagInv'
  <1>1. PICK t \in 0..4 : \E f :
               LET s == Sources[t + 1]
               IN  /\ t = Taken /\ Taken' = t + 1 /\ s \in Source
                   /\ seen' = [seen EXCEPT ![s] = f]
                   /\ bundle' = [bundle EXCEPT ![s] = IF f = Missing THEN Default(s)
                                                      ELSE Parsed(s, f)]
                   /\ reports' = IF f = Missing THEN Append(reports, unavailable(s))
                                 ELSE reports
                   /\ OrderInv'
                   /\ seen'[s] = f
                   /\ bundle'[s] = IF f = Missing THEN Default(s) ELSE Parsed(s, f)
                   /\ \A j \in 1..t : /\ seen'[Sources[j]] = seen[Sources[j]]
                                      /\ bundle'[Sources[j]] = bundle[Sources[j]]
    BY CollectFacts
  <1> DEFINE s == Sources[t + 1]
             n == Len(Contributed)
             c == Cardinality(Failed(t))
  <1>2. PICK f :
            /\ t = Taken /\ Taken' = t + 1 /\ s \in Source
            /\ reports' = IF f = Missing THEN Append(reports, unavailable(s)) ELSE reports
            /\ OrderInv'
            /\ seen'[s] = f
            /\ bundle'[s] = IF f = Missing THEN Default(s) ELSE Parsed(s, f)
            /\ \A j \in 1..t : /\ seen'[Sources[j]] = seen[Sources[j]]
                               /\ bundle'[Sources[j]] = bundle[Sources[j]]
    BY <1>1
  <1>3. ASSUME NEW j \in 1..Taken' PROVE FieldInv(j)'
    <2>1. CASE j \in 1..t
      <3>1. FieldInv(j)
        BY <1>2, <2>1 DEF DiagInv
      <3> QED
        BY <1>2, <2>1, <3>1 DEF FieldInv
    <2>2. CASE j = t + 1
      <3>1. s = "meminfo" => Parsed(s, f) = parse_meminfo(f)
        BY DEF Parsed
      <3> QED
        BY <1>2, <2>2, <3>1 DEF FieldInv
    <2> QED
      BY <1>2, <1>3, <2>1, <2>2
  <1>4. \A k \in 0..t : Failed(k)' = Failed(k)
    BY <1>2 DEF Failed
  <1>5. /\ f = Missing => Failed(t + 1)' = Failed(t) \cup {t + 1}
        /\ f # Missing => Failed(t + 1)' = Failed(t)
    <2>1. \A j \in 1..(t + 1) : j \in 1..t \/ j = t + 1
      OBVIOUS
    <2>2. Failed(t) \subseteq 1..t /\ 1..t \subseteq 1..(t + 1)
      BY DEF Failed
    <2>3. Failed(t + 1)' = {j \in 1..(t + 1) : seen'[Sources[j]] = Missing}
      BY DEF Failed
    <2>4. \A j \in 1..t : j \in Failed(t) <=> seen'[Sources[j]] = Missing
      BY <1>2 DEF Failed
    <2>5. seen'[Sources[t + 1]] = f
      BY <1>2
    <2>6. t + 1 \in 1..(t + 1) /\ t + 1 \notin 1..t
      OBVIOUS
    <2>7. \A j : j \in Failed(t + 1)' <=> \/ j \in Failed(t)
                                          \/ j = t + 1 /\ f = Missing
      <3> HIDE DEF s
      <3> QED
        BY <2>1, <2>2, <2>3, <2>4, <2>5, <2>6
    <2> QED
      BY <2>7
  <1>6. t \in 0..5 /\ t + 1 \in 0..5 /\ t + 1 \notin Failed(t)
    BY DEF Failed
  <1>7. /\ IsFiniteSet(Failed(t)) /\ c \in Nat
        /\ f = Missing => Cardinality(Failed(t + 1)') = c + 1
        /\ f # Missing => Cardinality(Failed(t + 1)') = c
    BY <1>5, <1>6, FailedFacts, FS_AddElement
  <1>8. /\ n \in Nat /\ reports \in Seq(Report) /\ Len(reports) = n + c
        /\ \A i \in 1..n : reports[i] = Contributed[i]
        /\ \A k \in Failed(t) : reports[n + Cardinality(Failed(k))] = unavailable(Sources[k])
        /\ \A i \in DOMAIN reports : i > n =>
               \E k \in Failed(t) : reports[i] = unavailable(Sources[k])
    BY <1>2, DiagAssumption DEF DiagInv, ReportInv, ReportsAreExact, Taken
  <1>9. unavailable(s) \in Report
    BY <1>2 DEF Report
  <1>10. AnomalyInv'
    BY DEF DiagInv, AnomalyInv, collect_with_reports
  <1>11. \A k \in Failed(t) :
             /\ Failed(k)' = Failed(k) /\ Cardinality(Failed(k)) \in Nat
             /\ Cardinality(Failed(k)) \in 1..c
    <2> SUFFICES ASSUME NEW k \in Failed(t)
                 PROVE  /\ Failed(k)' = Failed(k) /\ Cardinality(Failed(k)) \in Nat
                        /\ Cardinality(Failed(k)) \in 1..c
      OBVIOUS
    <2>1. k \in 1..t /\ k \in 0..5 /\ k \in Failed(k) /\ Failed(k) \subseteq Failed(t)
      BY DEF Failed
    <2>2. Cardinality(Failed(k)) \in Nat /\ Cardinality(Failed(k)) <= c
      BY <1>7, <2>1, FailedFacts, FS_Subset
    <2>3. Cardinality(Failed(k)) # 0
      BY <2>1, FailedFacts, FS_EmptySet
    <2> QED
      BY <1>4, <1>7, <2>1, <2>2, <2>3
  <1>12. ReportInv'
    <2> DEFINE F == Failed(t + 1)'
    <2>1. Taken' = t + 1 /\ Len(Sources) - Len(todo') = t + 1
      BY <1>2 DEF Taken
    <2>2. SUFFICES
             /\ reports' \in Seq(Report)
             /\ \A i \in DOMAIN reports' : i > n =>
                    \E k \in F : reports'[i] = unavailable(Sources[k])
             /\ Len(reports') = n + Cardinality(F)
             /\ \A i \in 1..n : reports'[i] = Contributed[i]
             /\ \A k \in F : reports'[n + Cardinality(Failed(k)')] = unavailable(Sources[k])
      BY <2>1 DEF ReportInv, ReportsAreExact
    <2>3. CASE f # Missing
      <3>1. reports' = reports /\ F = Failed(t) /\ Cardinality(F) = c
        BY <1>2, <1>5, <1>7, <2>3
      <3> HIDE DEF F
      <3> QED
        BY <1>8, <1>11, <3>1
    <2>4. CASE f = Missing
      <3>1. /\ reports' = Append(reports, unavailable(s)) /\ F = Failed(t) \cup {t + 1}
            /\ Cardinality(F) = c + 1
        BY <1>2, <1>5, <1>7, <2>4
      <3> HIDE DEF F, s, n, c
      <3>2. /\ reports' \in Seq(Report) /\ Len(reports') = n + (c + 1)
            /\ reports'[n + (c + 1)] = unavailable(s)
            /\ \A i \in 1..(n + c) : reports'[i] = reports[i]
            /\ DOMAIN reports' = 1..(n + (c + 1)) /\ DOMAIN reports = 1..(n + c)
        BY <1>7, <1>8, <1>9, <3>1
      <3>3. \A i \in 1..n : reports'[i] = Contributed[i]
        BY <1>7, <1>8, <3>2
      <3>4. ASSUME NEW k \in F
            PROVE  reports'[n + Cardinality(Failed(k)')] = unavailable(Sources[k])
        <4>1. CASE k \in Failed(t)
          <5>1. /\ Failed(k)' = Failed(k) /\ Cardinality(Failed(k)) \in 1..c
                /\ reports[n + Cardinality(Failed(k))] = unavailable(Sources[k])
            BY <1>8, <1>11, <4>1
          <5>2. n + Cardinality(Failed(k)) \in 1..(n + c)
            BY <1>7, <1>8, <5>1
          <5> QED
            BY <3>2, <5>1, <5>2
        <4>2. CASE k = t + 1
          BY <3>1, <3>2, <4>2 DEF s, F
        <4> QED
          BY <3>1, <4>1, <4>2
      <3>5. ASSUME NEW i \in DOMAIN reports', i > n
            PROVE  \E k \in F : reports'[i] = unavailable(Sources[k])
        <4>1. CASE i \in 1..(n + c)
          <5>1. PICK k \in Failed(t) : reports[i] = unavailable(Sources[k])
            BY <1>8, <3>2, <3>5, <4>1
          <5> QED
            BY <3>1, <3>2, <4>1, <5>1
        <4>2. CASE i = n + (c + 1)
          BY <3>1, <3>2, <4>2 DEF s
        <4> QED
          BY <1>7, <1>8, <3>2, <3>5, <4>1, <4>2
      <3> QED
        BY <3>1, <3>2, <3>3, <3>4, <3>5
    <2> QED
      BY <2>3, <2>4
  <1> QED
    BY <1>2, <1>3, <1>10, <1>12 DEF DiagInv

\* A step that reads nothing leaves everything that was found.
LEMMA LaterInv ==
    ASSUME DiagInv, UNCHANGED <<todo, bundle, reports, seen>>,
           stage' # "collect" => todo = <<>>, AnomalyInv'
    PROVE  DiagInv'
  <1>1. OrderInv' /\ Taken' = Taken
    BY DEF DiagInv, OrderInv, Taken
  <1>2. \A j \in 1..Taken' : FieldInv(j)'
    BY <1>1 DEF DiagInv, FieldInv
  <1>3. \A k : Failed(k)' = Failed(k)
    BY DEF Failed
  <1>4. ReportsAreExact'
    BY <1>3 DEF DiagInv, ReportInv, ReportsAreExact
  <1>5. ReportInv'
    BY <1>1, <1>3, <1>4 DEF DiagInv, ReportInv
  <1> QED
    BY <1>1, <1>2, <1>5 DEF DiagInv

LEMMA DiagStepInv == DiagInv /\ [DiagNext]_diagVars => DiagInv'
  <1> SUFFICES ASSUME DiagInv, [DiagNext]_diagVars PROVE DiagInv'
    OBVIOUS
  <1>1. CASE collect_with_reports
    BY <1>1, CollectInv
  <1>2. CASE Detect
    <2>1. AnomalyInv' /\ todo = <<>> /\ UNCHANGED <<todo, bundle, reports, seen>>
      BY <1>2 DEF Detect, AnomalyInv
    <2> QED
      BY <2>1, LaterInv
  <1>3. CASE Write
    <2>1. /\ stage = "write" /\ stage' = "done"
          /\ UNCHANGED <<todo, bundle, reports, anomalies, seen>>
      BY <1>3 DEF Write, Finish, fields
    <2>2. todo = <<>> /\ AnomalyInv'
      BY <2>1 DEF DiagInv, OrderInv, AnomalyInv
    <2> QED
      BY <2>1, <2>2, LaterInv
  <1>4. CASE UNCHANGED diagVars
    <2>1. UNCHANGED <<todo, stage, bundle, reports, anomalies, seen>>
      BY <1>4 DEF diagVars, fields
    <2>2. AnomalyInv' /\ (stage' # "collect" => todo = <<>>)
      BY <2>1 DEF DiagInv, OrderInv, AnomalyInv
    <2> QED
      BY <2>1, <2>2, LaterInv
  <1> QED
    BY <1>1, <1>2, <1>3, <1>4 DEF DiagNext

\* A category holds only if its source could be read.
LEMMA InferredFromSource ==
    ASSUME DiagInv, NEW a \in anomalies
    PROVE  /\ seen[Basis(a.category)] # Missing
           /\ a.category = "memory_pressure" => "MemTotal" \in DOMAIN seen["meminfo"]
  <1> DEFINE mem == bundle["meminfo"]
             kernel == bundle["version"]
             mounts == bundle["mounts"]
             fs == {m.fs : m \in ToSet(mounts)}
  <1>1. stage # "collect" /\ a \in detect_anomalies(mem, kernel, mounts)
    BY DEF DiagInv, AnomalyInv
  <1>2. Taken = 5
    BY <1>1, SourceFacts DEF DiagInv, OrderInv, Taken
  <1>3. /\ seen["meminfo"] = Missing => mem = Missing
        /\ seen["meminfo"] # Missing => mem = parse_meminfo(seen["meminfo"])
        /\ seen["mounts"] = Missing => mounts = <<>>
        /\ seen["version"] = Missing => kernel = Malformed
    <2>1. FieldInv(1) /\ FieldInv(4) /\ FieldInv(5)
      BY <1>2 DEF DiagInv
    <2>2. /\ Sources[1] = "meminfo" /\ Sources[4] = "mounts"
          /\ Sources[5] = "version"
      BY SourceFacts
    <2>3. /\ Default("meminfo") = Missing /\ Default("mounts") = <<>>
          /\ Default("version") = Malformed
      BY DEF Default
    <2> QED
      BY <2>1, <2>2, <2>3 DEF FieldInv
  <1>4. \/ \E c \in Conditions(mem, kernel, fs) : a = Anomaly(c, "machine")
        \/ \E m \in ToSet(mounts) : a = Anomaly("ephemeral_state_dir", m.point)
        \/ \E m \in ToSet(mounts) : a = Anomaly("root_read_only", m.point)
    <2> HIDE DEF mem, kernel, mounts
    <2> QED
      BY <1>1 DEF detect_anomalies
  <1> HIDE DEF mem, kernel, fs
  <1>5. mounts = <<>> => ToSet(mounts) = {}
    BY DEF ToSet
  <1>6. mounts = <<>> => Cardinality(fs) = 0
    <2>1. mounts = <<>> => fs = {}
      BY <1>5 DEF fs
    <2> HIDE DEF mounts
    <2> QED
      BY <2>1, FS_EmptySet
  <1> HIDE DEF mounts
  <1>7. ASSUME NEW c \in Conditions(mem, kernel, fs), a = Anomaly(c, "machine")
        PROVE  /\ seen[Basis(a.category)] # Missing
               /\ a.category = "memory_pressure" => "MemTotal" \in DOMAIN seen["meminfo"]
    <2>1. a.category = c
      BY <1>7 DEF Anomaly
    <2>2. c \in {"memory_pressure", "no_swap", "old_kernel", "heterogeneous_filesystems"}
      BY <1>7 DEF Conditions
    <2>3. CASE c = "memory_pressure"
      <3>1. mem # Missing /\ mem["MemTotal"] > 0
        BY <1>7, <2>3 DEF Conditions
      <3>2. Basis(c) = "meminfo"
        BY <2>3 DEF Basis
      <3>3. "MemTotal" \in DOMAIN seen["meminfo"]
        <4> SUFFICES ASSUME "MemTotal" \notin DOMAIN seen["meminfo"] PROVE FALSE
          OBVIOUS
        <4>1. mem = parse_meminfo(seen["meminfo"])
          BY <1>3, <3>1
        <4>2. mem["MemTotal"] = 0
          BY <4>1 DEF parse_meminfo, MemKey
        <4> QED
          BY <3>1, <4>2
      <3> QED
        BY <1>3, <2>1, <3>1, <3>2, <3>3
    <2>4. CASE c = "no_swap"
      <3>1. mem # Missing
        BY <1>7, <2>4 DEF Conditions
      <3>2. Basis(c) = "meminfo"
        BY <2>4 DEF Basis
      <3> QED
        BY <1>3, <2>1, <2>4, <3>1, <3>2
    <2>5. CASE c = "old_kernel"
      <3>1. kernel # Malformed
        BY <1>7, <2>5 DEF Conditions
      <3>2. Basis(c) = "version"
        BY <2>5 DEF Basis
      <3> QED
        BY <1>3, <2>1, <2>5, <3>1, <3>2
    <2>6. CASE c = "heterogeneous_filesystems"
      <3>1. Cardinality(fs) > 1
        BY <1>7, <2>6 DEF Conditions
      <3>2. Basis(c) = "mounts"
        BY <2>6 DEF Basis
      <3> QED
        BY <1>3, <1>6, <2>1, <2>6, <3>1, <3>2
    <2> QED
      BY <2>2, <2>3, <2>4, <2>5, <2>6
  <1>8. ASSUME NEW m \in ToSet(mounts),
               NEW c \in {"ephemeral_state_dir", "root_read_only"},
               a = Anomaly(c, m.point)
        PROVE  /\ seen[Basis(a.category)] # Missing
               /\ a.category = "memory_pressure" => "MemTotal" \in DOMAIN seen["meminfo"]
    <2>1. a.category = c /\ Basis(c) = "mounts"
      BY <1>8 DEF Anomaly, Basis
    <2> QED
      BY <1>3, <1>5, <1>8, <2>1
  <1> QED
    BY <1>4, <1>7, <1>8

\* The inductive invariant of a collection: what each source that was read left
\* in the bundle and among the reports, and what the heuristics were given.
THEOREM DiagInvariant == DiagSpec => []DiagInv
  BY DiagInitInv, DiagStepInv, PTL DEF DiagSpec

\* lib.rs collect_with_reports: at every moment the reports are those of the
\* caller and then one for each source that could not be read, in order.
THEOREM EveryFailureReported == DiagSpec => []ReportsAreExact
  <1>1. DiagInv => ReportsAreExact
    BY DEF DiagInv, ReportInv
  <1> QED
    BY <1>1, DiagInvariant, PTL

\* report.rs detect_anomalies: no category is inferred from a source that the
\* bundle reports as unavailable, nor pressure for a memory of unknown size,
\* whatever the files contain.
THEOREM InferenceIsGrounded == DiagSpec => []NothingInferredFromNothing
  <1>1. ASSUME DiagInv PROVE NothingInferredFromNothing
    <2> SUFFICES ASSUME NEW a \in anomalies
                 PROVE  /\ \A i \in DOMAIN reports : i > Len(Contributed) =>
                               reports[i] # unavailable(Basis(a.category))
                        /\ a.category = "memory_pressure" =>
                               "MemTotal" \in DOMAIN seen["meminfo"]
      BY DEF NothingInferredFromNothing
    <2>1. /\ seen[Basis(a.category)] # Missing
          /\ a.category = "memory_pressure" => "MemTotal" \in DOMAIN seen["meminfo"]
      BY <1>1, InferredFromSource
    <2>2. ASSUME NEW i \in DOMAIN reports, i > Len(Contributed),
                 reports[i] = unavailable(Basis(a.category))
          PROVE  FALSE
      <3>1. PICK k \in Failed(Taken) : reports[i] = unavailable(Sources[k])
        BY <1>1, <2>2 DEF DiagInv, ReportInv
      <3>2. Sources[k] = Basis(a.category)
        BY <2>2, <3>1 DEF unavailable
      <3> QED
        BY <2>1, <3>1, <3>2 DEF Failed
    <2> QED
      BY <2>1, <2>2
  <1> QED
    BY <1>1, DiagInvariant, PTL
=============================================================================
