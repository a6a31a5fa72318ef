---------------------------- MODULE AgentSession ----------------------------
(***************************************************************************)
(* The agent's reconnect loop and the part of the daemon it talks to:      *)
(* hpc-agent/src/client.rs run and session, and the epoch and the          *)
(* "reregister" directive of hpc-daemon/src/grpc.rs.                       *)
(*                                                                         *)
(* What makes it hard: the daemon may restart, forget the node or be       *)
(* unreachable at any point of a session; its epoch is a wall-clock second *)
(* so two lives of the daemon may share one; the agent keeps the epoch it  *)
(* read at registration; and the backoff is the only state that survives a *)
(* session.                                                                *)
(*                                                                         *)
(* Definitions named Mutant... are deliberate mistakes, each just before   *)
(* the definition it would replace; the specification never uses one.      *)
(***************************************************************************)
EXTENDS Naturals

CONSTANTS
    ReconnectBackoff, \* cfg.reconnect_backoff, in seconds
    MaxBackoff,       \* MAX_BACKOFF
    MaxSleeps,        \* bound on how many sleeps are counted
    MaxFaults,        \* bound on failures of either side
    MaxTime           \* bound on the wall clock

ASSUME BackoffAssumption ==
    ReconnectBackoff \in Nat /\ MaxBackoff \in Nat
ASSUME BoundAssumption ==
    MaxSleeps \in Nat /\ MaxFaults \in Nat /\ MaxTime \in Nat \ {0}

VARIABLES
    \* the agent
    phase,    \* where session (or run) is
    backoff,  \* run's backoff
    epoch,    \* the epoch of the last RegisterAck, 0 outside a session
    live,     \* the process that answered RegisterNode still runs
    attached, \* the process that answered StreamCommands still runs
    result,   \* how the last session ended
    sleeps,   \* how many times run has slept
    \* the daemon, as the agent sees it
    up, daemonEpoch, known, now, faults

agent == <<phase, backoff, epoch, live, attached, result, sleeps>>
daemon == <<up, daemonEpoch, known, now>>
vars == <<agent, daemon, faults>>

Init ==
    /\ phase = "connect" /\ backoff = ReconnectBackoff
    /\ epoch = 0 /\ live = FALSE /\ attached = FALSE
    /\ result = "none" /\ sleeps = 0
    /\ now = 1 /\ daemonEpoch = 1 /\ up = TRUE /\ known = FALSE
    /\ faults = 0

-----------------------------------------------------------------------------
(* One session. *)

EndSession(how) ==
    /\ phase' = "sleep" /\ result' = how
    /\ epoch' = 0 /\ live' = FALSE /\ attached' = FALSE
    /\ UNCHANGED <<backoff, sleeps>>

\* A step of the session fails: the daemon is down, or the RPC is lost.
Fails ==
    \/ ~up /\ UNCHANGED faults
    \/ faults < MaxFaults /\ faults' = faults + 1

Connect ==
    /\ phase = "connect"
    /\ \/ /\ up
          /\ phase' = "register"
          /\ UNCHANGED <<backoff, epoch, live, attached, result, sleeps, faults>>
       \/ Fails /\ EndSession("err")
    /\ UNCHANGED daemon

\* The ack carries the time instead of the epoch.
MutantAckEpoch == now

\* RegisterAck.cluster_epoch
AckEpoch == daemonEpoch

\* The daemon may have registered the node although the answer was lost.
RegisterNode ==
    /\ phase = "register"
    /\ \/ /\ up
          /\ known' = TRUE
          /\ epoch' = AckEpoch
          /\ live' = TRUE
          /\ phase' = "stream"
          /\ UNCHANGED <<backoff, attached, result, sleeps, faults>>
       \/ /\ Fails
          /\ EndSession("err")
          /\ known' \in {known, up \/ known}
    /\ UNCHANGED <<up, daemonEpoch, now>>

\* A stream the daemon refuses is asked for again without registering again.
MutantStreamRetried ==
    /\ phase = "stream"
    /\ \/ /\ up /\ known
          /\ phase' = "serve" /\ attached' = TRUE
          /\ UNCHANGED <<backoff, epoch, live, result, sleeps, faults>>
       \/ Fails /\ EndSession("err")
    /\ UNCHANGED daemon

\* NOT_FOUND when the node was removed in between.
StreamCommands ==
    /\ phase = "stream"
    /\ \/ /\ up /\ known
          /\ phase' = "serve" /\ attached' = TRUE
          /\ UNCHANGED <<backoff, epoch, live, result, sleeps, faults>>
       \/ up /\ ~known /\ EndSession("err") /\ UNCHANGED faults
       \/ Fails /\ EndSession("err")
    /\ UNCHANGED daemon

\* report_metrics for a node the daemon does not know fails with INTERNAL; the
\* call that succeeds changes nothing here.
MetricsTick ==
    /\ phase = "serve"
    /\ \/ up /\ ~known /\ EndSession("err") /\ UNCHANGED faults
       \/ Fails /\ EndSession("err")
    /\ UNCHANGED daemon

\* The directive in the answer of heartbeat, from the epoch the agent sent.
Reregister(e) == (e # 0 /\ e # daemonEpoch) \/ ~known

HeartbeatTick ==
    /\ phase = "serve"
    /\ \/ up /\ Reregister(epoch) /\ EndSession("ok") /\ UNCHANGED faults
       \/ Fails /\ EndSession("err")
    /\ UNCHANGED daemon

\* inbound.message() yields None: deregistered, or a stale bridge detached it.
StreamClosed ==
    /\ phase = "serve" /\ up
    /\ faults < MaxFaults /\ faults' = faults + 1
    /\ EndSession("ok")
    /\ UNCHANGED daemon

\* inbound.message() fails: the process that served the stream is gone.
StreamBroken ==
    /\ phase = "serve" /\ ~attached
    /\ EndSession("err")
    /\ UNCHANGED <<daemon, faults>>

-----------------------------------------------------------------------------
(* run: sleep, then double the backoff, whichever way the session ended. *)

\* The cap is applied before doubling.
MutantDoubledCapFirst(b) == 2 * (IF b < MaxBackoff THEN b ELSE MaxBackoff)

Doubled(b) == IF 2 * b < MaxBackoff THEN 2 * b ELSE MaxBackoff

Sleep ==
    /\ phase = "sleep"
    /\ phase' = "connect"
    /\ backoff' = Doubled(backoff)
    /\ sleeps' = IF sleeps < MaxSleeps THEN sleeps + 1 ELSE sleeps
    /\ UNCHANGED <<epoch, live, attached, result, daemon, faults>>

-----------------------------------------------------------------------------
(* The daemon and its clock. *)

DaemonStop ==
    /\ up /\ faults < MaxFaults
    /\ faults' = faults + 1
    /\ up' = FALSE /\ live' = FALSE /\ attached' = FALSE
    /\ UNCHANGED <<phase, backoff, epoch, result, sleeps, daemonEpoch, known, now>>

\* bootstrap: the epoch is the current second.  The node is known if its record
\* had reached the store.
DaemonStart ==
    /\ ~up
    /\ up' = TRUE /\ daemonEpoch' = now
    /\ known' \in {known, FALSE}
    /\ UNCHANGED <<agent, now, faults>>

Deregister ==
    /\ up /\ known /\ faults < MaxFaults
    /\ faults' = faults + 1
    /\ known' = FALSE
    /\ UNCHANGED <<agent, up, daemonEpoch, now>>

Tick ==
    /\ now < MaxTime /\ now' = now + 1
    /\ UNCHANGED <<agent, up, daemonEpoch, known, faults>>

Next == \/ Connect \/ RegisterNode \/ StreamCommands \/ MetricsTick
        \/ HeartbeatTick \/ StreamClosed \/ StreamBroken \/ Sleep
        \/ DaemonStop \/ DaemonStart \/ Deregister \/ Tick

Spec == Init /\ [][Next]_vars

\* The agent's loop never stops and its timers keep firing; the operator brings
\* the daemon back.
FairSpec == /\ Spec
            /\ WF_vars(Connect) /\ WF_vars(RegisterNode) /\ WF_vars(StreamCommands)
            /\ WF_vars(MetricsTick) /\ WF_vars(HeartbeatTick)
            /\ WF_vars(StreamBroken) /\ WF_vars(Sleep) /\ WF_vars(DaemonStart)

-----------------------------------------------------------------------------
(* Properties *)

\* Every variable has its type, and an agent that serves has an epoch to send.
TypeOK ==
    /\ phase \in {"connect", "register", "stream", "serve", "sleep"}
    /\ backoff \in Nat
    /\ epoch \in Nat /\ live \in BOOLEAN /\ attached \in BOOLEAN
    /\ phase \in {"stream", "serve"} <=> epoch # 0
    /\ result \in {"none", "ok", "err"}
    /\ sleeps \in 0..MaxSleeps
    /\ up \in BOOLEAN /\ known \in BOOLEAN
    /\ daemonEpoch \in 1..now /\ now \in 1..MaxTime
    /\ faults \in 0..MaxFaults

Power2[k \in Nat] == IF k = 0 THEN 1 ELSE 2 * Power2[k - 1]

\* The k-th reconnect waits for the base backoff times 2^k, up to the cap,
\* whatever happened in the sessions (client.rs: "reconnects with capped
\* exponential backoff"); the first wait is the configured one, which nothing
\* caps.
BackoffIsCappedExponential ==
    sleeps < MaxSleeps =>
        backoff = IF sleeps = 0 \/ ReconnectBackoff * Power2[sleeps] < MaxBackoff
                  THEN ReconnectBackoff * Power2[sleeps] ELSE MaxBackoff

\* grpc.rs heartbeat: "A mismatched epoch means the daemon restarted".  An agent
\* whose session is with the process that runs now is never told to re-register
\* because of its epoch.
EpochMismatchMeansRestart ==
    phase \in {"stream", "serve"} /\ live => epoch = daemonEpoch

\* Once failures stop, the agent ends up serving, known to the daemon and with
\* the epoch of the process that runs, whatever was lost before: a registration,
\* the node's record, the stream or the daemon itself (client.rs run).
AgentSettles == <>[](phase = "serve" /\ up /\ known /\ epoch = daemonEpoch)

-----------------------------------------------------------------------------
(* Claims of the documentation that the model refutes.  No run checks them; *)
(* with one as an INVARIANT of a configuration TLC shows how it fails.      *)

\* client.rs run: "On a clean stream close we reset backoff; on repeated errors
\* it grows."  After a session that ended cleanly the agent waits for the base
\* backoff.
CleanCloseResetsBackoff ==
    phase = "sleep" /\ result = "ok" => backoff = ReconnectBackoff
=============================================================================
