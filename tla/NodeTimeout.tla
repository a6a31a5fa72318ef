---------------------------- MODULE NodeTimeout -----------------------------
(***************************************************************************)
(* The failure detector in time: the agent's heartbeat and metrics timers  *)
(* against the daemon's reaper, under any configuration that               *)
(* DaemonConfig::validate accepts (the agent's own is never validated).    *)
(*                                                                         *)
(* ClusterState has the detector's concurrency with an arbitrary clock;    *)
(* this module has its arithmetic.  What makes it hard: durations are      *)
(* finer than the whole seconds the daemon computes with (as_secs cuts     *)
(* them), the reaper has a period of its own, a call takes time, the       *)
(* agent's one loop runs nothing else while it executes a command, and     *)
(* now_unix is the wall clock, which may be set while the timers run on.   *)
(*                                                                         *)
(* Time is counted in ticks, S of them a second.  A timer fires, and a     *)
(* call is answered, before the tick in which it is due is over: Tick      *)
(* waits for them.  A sweep of the reaper takes no time.                   *)
(*                                                                         *)
(* Definitions named Mutant... are deliberate mistakes, each just before   *)
(* the definition it would replace; the specification never uses one.      *)
(***************************************************************************)
EXTENDS Integers, FiniteSetsExt

CONSTANTS
    S,          \* ticks in a second
    Timeouts,   \* values of node_timeout, in ticks
    Metrics,    \* values of metrics_interval
    Heartbeats, \* values of heartbeat_interval
    Steps,      \* by how much the wall clock may be set, once
    MaxDelay,   \* the longest a call takes
    Start,      \* first tick of the clock
    MaxTime     \* last one

ASSUME TimeoutAssumption ==
    /\ S \in Nat \ {0}
    /\ Timeouts \subseteq Nat /\ Metrics \subseteq Nat
    /\ Heartbeats \subseteq Nat
    /\ MaxDelay \in Nat /\ Start \in Nat /\ MaxTime \in Nat
    /\ Start % S = 0
    /\ \A t \in Timeouts : t < Start
    /\ \A d \in Steps : d \in Int /\ Start + d >= 0

VARIABLES
    cfg,         \* node_timeout, metrics_interval, heartbeat_interval, and of
                 \* this behaviour whether the daemon sends commands and by how
                 \* much the wall clock is set
    now,         \* the monotonic clock
    skew,        \* by how much the wall clock has been set
    agent,       \* what its loop does: idle, calling, running, dead
    callEnd,     \* when the call under way is answered at the latest
    beatDue,     \* heartbeat_timer
    reportDue,   \* metrics_timer
    reapDue,     \* the reaper's ticker
    lastSeen,    \* last_seen_unix, in seconds
    unreachable, \* the node's status is Unreachable
    heard,       \* ghost: the tick of the last message
    heardSkew    \* ghost: skew at that tick

agentVars == <<agent, callEnd, beatDue, reportDue>>
nodeVars == <<lastSeen, unreachable, heard, heardSkew>>
vars == <<cfg, now, skew, agentVars, reapDue, nodeVars>>

\* Duration::as_secs, which drops what is not a whole second.
as_secs(d) == d \div S

now_unix == as_secs(now + skew)

\* DaemonConfig::validate.
validate(c) == c.timeout >= c.metrics

Config == {c \in [timeout : Timeouts, metrics : Metrics, heartbeat : Heartbeats,
                  commands : BOOLEAN, step : Steps] : validate(c)}

\* The cadence the daemon directs the agent to report at: whole seconds, at
\* least one.  The agent takes it because it is never zero.
Directed(c) == Max({as_secs(c.metrics), 1}) * S

\* node_timeout / 2, at least a second.  A half that falls between two ticks is
\* rounded up.
ReapPeriod(c) == Max({(c.timeout + 1) \div 2, S})

\* After registering, session makes its timers, and tokio's interval panics if its
\* period is zero: nothing validates heartbeat_interval.
Begun(c) == IF c.heartbeat = 0 THEN "dead" ELSE "idle"

\* The node has just registered; the daemon has been up for any time.
Init ==
    /\ cfg \in Config
    /\ now \in Start..(Start + S - 1)
    /\ skew = 0 /\ heardSkew = 0
    /\ agent = Begun(cfg) /\ callEnd = now
    /\ beatDue = now /\ reportDue = now
    /\ reapDue \in now..(now + ReapPeriod(cfg))
    /\ lastSeen = now_unix /\ unreachable = FALSE /\ heard = now

-----------------------------------------------------------------------------
(* The agent's loop.  A timer that has missed ticks makes up for them        *)
(* (tokio's MissedTickBehavior::Burst).                                      *)

CallDaemon == agent' = "calling" /\ callEnd' = now + MaxDelay

SendHeartbeat ==
    /\ agent = "idle" /\ beatDue <= now
    /\ CallDaemon
    /\ beatDue' = beatDue + cfg.heartbeat
    /\ UNCHANGED <<cfg, now, skew, reportDue, reapDue, nodeVars>>

SendMetrics ==
    /\ agent = "idle" /\ reportDue <= now
    /\ CallDaemon
    /\ reportDue' = reportDue + Directed(cfg)
    /\ UNCHANGED <<cfg, now, skew, beatDue, reapDue, nodeVars>>

\* The status is cleared and the time of the message forgotten.
MutantSeenKeepsTime ==
    /\ lastSeen' = lastSeen /\ unreachable' = FALSE
    /\ heard' = now /\ heardSkew' = skew

\* heartbeat and ingest_metrics: the node has been seen.
Seen ==
    /\ lastSeen' = now_unix
    /\ unreachable' = FALSE
    /\ heard' = now /\ heardSkew' = skew

CallAnswered ==
    /\ agent = "calling"
    /\ agent' = "idle"
    /\ Seen
    /\ UNCHANGED <<cfg, now, skew, callEnd, beatDue, reportDue, reapDue>>

\* handle_command runs in the loop and waits for the command to end.
HandleCommand ==
    /\ cfg.commands /\ agent = "idle" /\ agent' = "running"
    /\ UNCHANGED <<cfg, now, skew, callEnd, beatDue, reportDue, reapDue, nodeVars>>

\* Its outcome is reported, which does not count as a sign of life.
CommandEnds ==
    /\ agent = "running" /\ agent' = "idle"
    /\ UNCHANGED <<cfg, now, skew, callEnd, beatDue, reportDue, reapDue, nodeVars>>

Die ==
    /\ agent # "dead" /\ agent' = "dead"
    /\ UNCHANGED <<cfg, now, skew, callEnd, beatDue, reportDue, reapDue, nodeVars>>

\* A new process registers; its timers tick at once.
Restart ==
    /\ agent = "dead" /\ agent' = Begun(cfg)
    /\ Seen
    /\ beatDue' = now /\ reportDue' = now
    /\ UNCHANGED <<cfg, now, skew, callEnd, reapDue>>

-----------------------------------------------------------------------------
(* The daemon. *)

\* The comparison takes in the last second of the window.
MutantCutoffLate == now_unix - as_secs(cfg.timeout) + 1

\* The subtraction saturates from the wrong side.
MutantCutoffFloor == Min({now_unix - as_secs(cfg.timeout), 0})

\* now_unix().saturating_sub(node_timeout.as_secs())
Cutoff == Max({now_unix - as_secs(cfg.timeout), 0})

Reap ==
    /\ reapDue <= now
    /\ reapDue' = reapDue + ReapPeriod(cfg)
    /\ unreachable' = (unreachable \/ lastSeen < Cutoff)
    /\ UNCHANGED <<cfg, now, skew, agentVars, lastSeen, heard, heardSkew>>

-----------------------------------------------------------------------------
\* The wall clock is set, by an operator or by NTP.
SetClock ==
    /\ skew = 0 /\ cfg.step # 0
    /\ skew' = cfg.step
    /\ UNCHANGED <<cfg, now, agentVars, reapDue, nodeVars>>

\* Time passes when nothing is due.
Tick ==
    /\ now < MaxTime
    /\ reapDue > now
    /\ agent = "calling" => callEnd > now
    /\ agent = "idle" => beatDue > now /\ reportDue > now
    /\ now' = now + 1
    /\ UNCHANGED <<cfg, skew, agentVars, reapDue, nodeVars>>

Next ==
    \/ SendHeartbeat \/ SendMetrics \/ CallAnswered
    \/ HandleCommand \/ CommandEnds
    \/ Die \/ Restart
    \/ Reap
    \/ SetClock
    \/ Tick

Spec == Init /\ [][Next]_vars

-----------------------------------------------------------------------------
(* Properties *)

\* Every variable has its type; the due times never run away from the clock.
TypeOK ==
    /\ cfg \in Config
    /\ now \in Nat
    /\ agent \in {"idle", "calling", "running", "dead"}
    /\ callEnd \in Nat /\ beatDue \in Nat /\ reportDue \in Nat
    /\ reapDue \in now..(now + ReapPeriod(cfg))
    /\ skew \in {0, cfg.step} /\ heardSkew \in {0, skew}
    /\ lastSeen = as_secs(heard + heardSkew)
    /\ unreachable \in BOOLEAN
    /\ heard \in Start..now

Silence == now - heard

\* How far the wall clock was set since the node was last heard.
SetForward == Max({skew - heardSkew, 0})
SetBack == Max({heardSkew - skew, 0})

\* No false alarm from rounding: the reaper computes with whole seconds on both
\* sides, and still marks no node that was heard within the whole seconds of
\* node_timeout; only a clock set forward can make it, and by no more than it was
\* set (state.rs reap_stale, types.rs now_unix).
NeverReapedEarly ==
    unreachable => Silence + SetForward > as_secs(cfg.timeout) * S

\* Detection in bounded time: a node silent for node_timeout, a second of
\* rounding and a period of the reaper is Unreachable, whether its agent died,
\* hangs in a command or panicked on its configuration; a clock set back delays
\* that by no more than it was set (state.rs reap_stale, main.rs the reaper's
\* period).
ReapedInTime ==
    Silence > (as_secs(cfg.timeout) + 1) * S + ReapPeriod(cfg) + SetBack =>
        unreachable

\* The slack the code needs: the agent is punctual enough for node_timeout if
\* the more frequent of its two timers, with a call on top, stays within it.
Ample ==
    Min({cfg.heartbeat, Directed(cfg)}) + MaxDelay <= as_secs(cfg.timeout) * S

\* A live agent is never Unreachable if the configuration leaves that slack,
\* whichever call is slow and however the reaper's sweeps fall, and although the
\* clock is set back (client.rs session, state.rs reap_stale).  True as long as
\* it is sent no commands and the clock is not set forward: a command that runs
\* for longer than node_timeout gets its node marked, and so does such a step.
NoFalseAlarm ==
    Ample /\ ~cfg.commands /\ cfg.step <= 0 /\ agent # "dead" => ~unreachable
=============================================================================
