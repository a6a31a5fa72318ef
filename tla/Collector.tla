----------------------------- MODULE Collector ------------------------------
(***************************************************************************)
(* The agent's metrics collector (hpc-agent/src/metrics.rs): throughput as *)
(* the difference of two readings of the kernel's cumulative counters.     *)
(*                                                                         *)
(* What makes it hard: a device may come and go or start again from zero   *)
(* between two readings, reading /proc may fail, two samples may fall into *)
(* the same instant, and whatever a sample read is what the next one is    *)
(* compared with.  One counter stands for the bytes read and written of a  *)
(* device, and one for the four sums over the network interfaces.          *)
(*                                                                         *)
(* Definitions named Mutant... are deliberate mistakes, each just before   *)
(* the definition it would replace; the specification never uses one.      *)
(***************************************************************************)
EXTENDS Integers, FiniteSetsExt

CONSTANTS
    Device,     \* what read_diskstats keeps: all but loop and ram devices
    Iface,      \* network interfaces except lo
    MaxCount,   \* bound on a counter and on the traffic between two samples
    MaxTime,    \* bound on the clock
    None

ASSUME CollectorAssumption ==
    /\ MaxCount \in Nat /\ MaxTime \in Nat
    /\ None \notin Nat
    /\ IsFiniteSet(Iface)

VARIABLES
    disk,    \* /proc/diskstats: device -> counter, None if not listed
    net,     \* /proc/net/dev: interface -> counter, None if not listed
    prev,    \* Collector.prev
    report,  \* the rates of the last sample and the seconds they are over
    now,     \* the monotonic clock
    moved,   \* ghost: what really went through each device since prev
    carried, \* ghost: what really went over the network since prev
    blind,   \* ghost: net_dev could not be read for prev
    actual   \* ghost: moved, carried and blind as the last sample found them

ghosts == <<moved, carried, blind, actual>>
vars == <<disk, net, prev, report, now, ghosts>>

NoRates == [disk |-> [d \in Device |-> 0], net |-> 0, secs |-> 0]

Init ==
    /\ disk \in [Device -> {0, None}]
    /\ net \in [Iface -> {0, None}]
    /\ prev = None
    /\ report = NoRates
    /\ now = 0
    /\ moved = [d \in Device |-> 0] /\ carried = 0
    /\ blind = FALSE
    /\ actual = [disk |-> moved, net |-> 0, blind |-> FALSE]

-----------------------------------------------------------------------------
(* The machine. *)

DiskTraffic(d) ==
    /\ disk[d] # None /\ disk[d] < MaxCount /\ moved[d] < MaxCount
    /\ disk' = [disk EXCEPT ![d] = @ + 1]
    /\ moved' = [moved EXCEPT ![d] = @ + 1]
    /\ UNCHANGED <<net, prev, report, now, carried, blind, actual>>

NetTraffic(i) ==
    /\ net[i] # None /\ net[i] < MaxCount /\ carried < MaxCount
    /\ net' = [net EXCEPT ![i] = @ + 1]
    /\ carried' = carried + 1
    /\ UNCHANGED <<disk, prev, report, now, moved, blind, actual>>

\* A device or an interface is removed, added or starts again from zero.
Hotplug ==
    /\ \/ \E d \in Device, c \in {0, None} :
              disk' = [disk EXCEPT ![d] = c] /\ UNCHANGED net
       \/ \E i \in Iface, c \in {0, None} :
              net' = [net EXCEPT ![i] = c] /\ UNCHANGED disk
    /\ UNCHANGED <<prev, report, now, ghosts>>

Tick ==
    /\ now < MaxTime /\ now' = now + 1
    /\ UNCHANGED <<disk, net, prev, report, ghosts>>

-----------------------------------------------------------------------------
(* collect. *)

read_diskstats == disk

read_net_dev ==
    MapThenSumSet(LAMBDA i : IF net[i] = None THEN 0 ELSE net[i], Iface)

\* The difference is taken modulo the width of the counter (2^8 stands for
\* 2^64).
MutantRate(cur, old, secs) ==
    IF secs = 0 THEN 0 ELSE ((cur - old) % 256) \div secs

\* cur.saturating_sub(old) over the seconds; 0 if no time has passed.
rate(cur, old, secs) ==
    IF secs = 0 \/ cur < old THEN 0 ELSE (cur - old) \div secs

Or(value, default) == IF value = None THEN default ELSE value

\* A device without an earlier reading is compared with zero.
MutantDiskRate(cur, old, secs) == rate(Or(cur, 0), Or(old, 0), secs)

\* build_disks: a missing reading is 0 now, and was what it is now before.
DiskRate(cur, old, secs) == rate(Or(cur, 0), Or(old, Or(cur, 0)), secs)

\* build_disks and build_network, with the seconds since prev.
Rates(d, n) ==
    IF prev = None \/ now = prev.at THEN NoRates
    ELSE LET secs == now - prev.at
         IN  [disk |-> [x \in Device |-> DiskRate(d[x], prev.disk[x], secs)],
              net |-> rate(n, prev.net, secs),
              secs |-> secs]

\* One sample: d and n are what the two readings of /proc gave.
Sampled(d, n) ==
    /\ report' = Rates(d, n)
    /\ prev' = [at |-> now, disk |-> d, net |-> n]
    /\ actual' = [disk |-> moved, net |-> carried, blind |-> blind]
    /\ moved' = [x \in Device |-> 0] /\ carried' = 0
    /\ UNCHANGED <<disk, net, now>>

\* A reading that fails yields no devices, or zeros.
NoDevices == [d \in Device |-> None]

Collect ==
    \E d \in {read_diskstats, NoDevices} :
        \/ Sampled(d, read_net_dev) /\ blind' = FALSE
        \/ Sampled(d, 0) /\ blind' = TRUE

Next == \/ \E d \in Device : DiskTraffic(d)
        \/ \E i \in Iface : NetTraffic(i)
        \/ Hotplug \/ Tick \/ Collect

Spec == Init /\ [][Next]_vars

-----------------------------------------------------------------------------
(* Properties *)

\* Every variable has its type; a rate is never more than a counter can have
\* moved.
TypeOK ==
    /\ disk \in [Device -> 0..MaxCount \cup {None}]
    /\ net \in [Iface -> 0..MaxCount \cup {None}]
    /\ prev # None => /\ prev.at \in 0..now
                      /\ prev.disk \in [Device -> 0..MaxCount \cup {None}]
                      /\ prev.net \in Nat
    /\ report.disk \in [Device -> 0..MaxCount]
    /\ report.net \in Nat
    /\ report.secs \in 0..MaxTime
    /\ now \in 0..MaxTime
    /\ moved \in [Device -> 0..MaxCount] /\ carried \in 0..MaxCount
    /\ actual.disk \in [Device -> 0..MaxCount] /\ actual.net \in 0..MaxCount

\* The rate reported for a block device never exceeds what went through it
\* between the two samples, although it may be unplugged, come back with its
\* counter at zero, or be missing from a reading (metrics.rs build_disks, rate:
\* "guarding against counter resets").
DiskRateIsTraffic ==
    \A d \in Device : report.disk[d] * report.secs <= actual.disk[d]

\* The same for the sum over the network interfaces (metrics.rs build_network),
\* unless the earlier of the two readings of /proc/net/dev failed: then it
\* counted as zero, and the rate is the whole counter.
NetRateIsTraffic ==
    ~actual.blind => report.net * report.secs <= actual.net
=============================================================================
