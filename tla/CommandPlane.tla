---------------------------- MODULE CommandPlane ----------------------------
(***************************************************************************)
(* How a command gets from a REST request to an agent and its outcome back *)
(* into the audit log: dispatch and the channel registry of                *)
(* hpc-daemon/src/state.rs, the deploy and fs handlers of api.rs, the      *)
(* stream_commands bridge of grpc.rs, the agent session of                 *)
(* hpc-agent/src/client.rs, and the OUTCOMES table of store.rs.            *)
(*                                                                         *)
(* What makes it hard: the registry is keyed by node id and an entry is    *)
(* removed by whichever bridge of that node ends, a REST handler holds a   *)
(* clone of a sender across an await on a full channel, the daemon notices *)
(* that an agent left later than the agent does, a session torn down while *)
(* a command runs takes the command's outcome with it, and a command that  *)
(* never ends, for which nothing in the code sets a limit, holds up all    *)
(* that its agent would do.                                                *)
(*                                                                         *)
(* A stream is one StreamCommands call with its two channels and its       *)
(* bridge task; slots are reused once nothing refers to them.              *)
(*                                                                         *)
(* Definitions named Mutant... are deliberate mistakes, each just before   *)
(* the definition it would replace; the specification never uses one.      *)
(***************************************************************************)
EXTENDS Naturals, Sequences, FiniteSets, SequencesExt

CONSTANTS
    Node,          \* node ids, one agent each
    Stream,        \* slots for StreamCommands calls in existence at once
    Command,       \* REST requests, each carrying one command
    Dest,          \* Command -> Node: the node in the request's path
    Id,            \* command ids
    IdOf,          \* Command -> Id: generated, or supplied in the request
    QueueCap,      \* capacity of the registry's channel (64 in state.rs)
    OutCap,        \* capacity of the bridge's outgoing channel (64 in grpc.rs)
    MaxFaults,     \* bound on sessions that fail and daemon crashes
    MaxDeregister, \* bound on administrative removals
    None

ASSUME CommandAssumption ==
    /\ Dest \in [Command -> Node]
    /\ IdOf \in [Command -> Id]
    /\ QueueCap \in Nat \ {0} /\ OutCap \in Nat \ {0}
    /\ MaxFaults \in Nat /\ MaxDeregister \in Nat
    /\ None \notin Node \cup Stream \cup Command \cup Id

VARIABLES
    known,     \* keys of ClusterState.nodes
    channels,  \* SharedState.channels: node -> the stream its sender feeds
    request,   \* REST handler of each command: the await it is at
    sender,    \* the stream whose sender a handler has cloned
    bridge,    \* bridge task of each stream: where it is
    owner,     \* the node a stream was opened for
    queue,     \* the channel dispatch feeds and the bridge reads
    hand,      \* the command a bridge has received and not yet sent on
    out,       \* the bridge's outgoing channel and the HTTP/2 stream after it
    open,      \* the receiving half of out exists
    session,   \* the agent's session: where it is
    stream,    \* the stream an agent reads, None if it has none or it broke
    job,       \* the command an agent has begun and not yet reported
    orphan,    \* a stream_commands handler whose agent has already left
    removing,  \* a deregister_node between dropping the node and detaching it
    outcomes,  \* the OUTCOMES table: command id -> command, None if absent
    faults, deregisters,
    sent, ran, \* ghost: order of acceptance, order of execution
    hurt       \* ghost: accepted commands whose stream lost its agent

daemon == <<known, channels, removing>>
rest == <<request, sender>>
streams == <<bridge, owner, queue, hand, out, open>>
agents == <<session, stream, job, orphan>>
budget == <<faults, deregisters>>
ghosts == <<sent, ran, hurt>>
vars == <<daemon, rest, streams, agents, outcomes, budget, ghosts>>

Init ==
    /\ known = {} /\ removing = {}
    /\ channels = [n \in Node |-> None]
    /\ request = [c \in Command |-> "new"]
    /\ sender = [c \in Command |-> None]
    /\ bridge = [s \in Stream |-> "free"]
    /\ owner = [s \in Stream |-> None]
    /\ queue = [s \in Stream |-> <<>>]
    /\ hand = [s \in Stream |-> None]
    /\ out = [s \in Stream |-> <<>>]
    /\ open = [s \in Stream |-> FALSE]
    /\ session = [n \in Node |-> "down"]
    /\ stream = [n \in Node |-> None]
    /\ job = [n \in Node |-> None]
    /\ orphan = [n \in Node |-> FALSE]
    /\ outcomes = [i \in Id |-> None]
    /\ faults = 0 /\ deregisters = 0
    /\ sent = <<>> /\ ran = <<>> /\ hurt = {}

-----------------------------------------------------------------------------
(* REST handlers: api.rs deploy and fs_command, state.rs dispatch. *)

Reply(c, step) ==
    /\ request' = [request EXCEPT ![c] = step]
    /\ sender' = [sender EXCEPT ![c] = None]

\* is_connected, then on to dispatch, or 409.
Submit(c) ==
    /\ request[c] = "new"
    /\ Reply(c, IF channels[Dest[c]] # None THEN "get_node" ELSE "rejected")
    /\ UNCHANGED <<daemon, streams, agents, outcomes, budget, ghosts>>

\* dispatch, first await: the node must be known, or 404.
DispatchGetNode(c) ==
    /\ request[c] = "get_node"
    /\ Reply(c, IF Dest[c] \in known THEN "clone" ELSE "rejected")
    /\ UNCHANGED <<daemon, streams, agents, outcomes, budget, ghosts>>

\* dispatch, second await: clone the sender, or 409.
DispatchClone(c) ==
    /\ request[c] = "clone"
    /\ \/ /\ channels[Dest[c]] # None
          /\ request' = [request EXCEPT ![c] = "send"]
          /\ sender' = [sender EXCEPT ![c] = channels[Dest[c]]]
       \/ /\ channels[Dest[c]] = None
          /\ Reply(c, "rejected")
    /\ UNCHANGED <<daemon, streams, agents, outcomes, budget, ghosts>>

\* The bridge's receiver exists until its task has ended.
ReceiverAlive(s) == bridge[s] \in {"recv", "send", "detach"}

Held(s) == \E n \in Node : stream[n] = s

\* dispatch, third await: send() takes a free place in the channel; the reply
\* says accepted.
DispatchSend(c) ==
    /\ request[c] = "send"
    /\ ReceiverAlive(sender[c])
    /\ Len(queue[sender[c]]) < QueueCap
    /\ queue' = [queue EXCEPT ![sender[c]] = Append(@, c)]
    /\ sent' = Append(sent, c)
    /\ hurt' = IF Held(sender[c]) THEN hurt ELSE hurt \cup {c}
    /\ Reply(c, "accepted")
    /\ UNCHANGED <<daemon, bridge, owner, hand, out, open, agents, outcomes,
                   budget, ran>>

\* send() fails when the receiver is gone: "command channel closed".
DispatchClosed(c) ==
    /\ request[c] = "send"
    /\ ~ReceiverAlive(sender[c])
    /\ Reply(c, "rejected")
    /\ UNCHANGED <<daemon, streams, agents, outcomes, budget, ghosts>>

\* The HTTP client goes away and its handler is dropped at its await.
RequestCancelled(c) ==
    /\ request[c] \in {"get_node", "clone", "send"}
    /\ Reply(c, "cancelled")
    /\ UNCHANGED <<daemon, streams, agents, outcomes, budget, ghosts>>

-----------------------------------------------------------------------------
(* The bridge task of grpc.rs stream_commands. *)

\* The command is forwarded before it is taken off the channel.
MutantRecvPeeks(s) ==
    /\ bridge[s] = "recv"
    /\ queue[s] # <<>>
    /\ hand' = [hand EXCEPT ![s] = Head(queue[s])]
    /\ bridge' = [bridge EXCEPT ![s] = "send"]
    /\ UNCHANGED <<daemon, rest, owner, queue, out, open, agents, outcomes,
                   budget, ghosts>>

\* commands.recv() yields a command.
BridgeRecv(s) ==
    /\ bridge[s] = "recv"
    /\ queue[s] # <<>>
    /\ hand' = [hand EXCEPT ![s] = Head(queue[s])]
    /\ queue' = [queue EXCEPT ![s] = Tail(@)]
    /\ bridge' = [bridge EXCEPT ![s] = "send"]
    /\ UNCHANGED <<daemon, rest, owner, out, open, agents, outcomes, budget,
                   ghosts>>

\* The bridge task itself keeps a clone of the sender.
MutantBridgeKeepsSender(s) == FALSE

\* Every sender is gone: the registry's and each clone a handler holds.
NoSender(s) ==
    /\ \A n \in Node : channels[n] # s
    /\ \A c \in Command : sender[c] # s

\* The stream closes as soon as its senders are gone.
MutantBridgeEndsUndrained(s) ==
    /\ bridge[s] = "recv"
    /\ NoSender(s)
    /\ bridge' = [bridge EXCEPT ![s] = "detach"]
    /\ UNCHANGED <<daemon, rest, owner, queue, hand, out, open, agents,
                   outcomes, budget, ghosts>>

\* commands.recv() yields None, but only once the channel is drained.
BridgeEnd(s) ==
    /\ bridge[s] = "recv"
    /\ queue[s] = <<>>
    /\ NoSender(s)
    /\ bridge' = [bridge EXCEPT ![s] = "detach"]
    /\ UNCHANGED <<daemon, rest, owner, queue, hand, out, open, agents,
                   outcomes, budget, ghosts>>

\* out_tx.send() waits for a place, and delivers.
BridgeSend(s) ==
    /\ bridge[s] = "send"
    /\ open[s]
    /\ Len(out[s]) < OutCap
    /\ out' = [out EXCEPT ![s] = Append(@, hand[s])]
    /\ hand' = [hand EXCEPT ![s] = None]
    /\ bridge' = [bridge EXCEPT ![s] = "recv"]
    /\ UNCHANGED <<daemon, rest, owner, queue, open, agents, outcomes, budget,
                   ghosts>>

\* out_tx.closed() while waiting for a command, or a failed out_tx.send(): the
\* command in hand is lost.
BridgeHangup(s) ==
    /\ bridge[s] \in {"recv", "send"}
    /\ ~open[s]
    /\ hand' = [hand EXCEPT ![s] = None]
    /\ bridge' = [bridge EXCEPT ![s] = "detach"]
    /\ UNCHANGED <<daemon, rest, owner, queue, out, open, agents, outcomes,
                   budget, ghosts>>

\* The agent end of a stream and the bridge are both gone: the slot is free.
Freed(s) ==
    /\ bridge' = [bridge EXCEPT ![s] = "free"]
    /\ owner' = [owner EXCEPT ![s] = None]
    /\ queue' = [queue EXCEPT ![s] = <<>>]
    /\ hand' = [hand EXCEPT ![s] = None]
    /\ out' = [out EXCEPT ![s] = <<>>]
    /\ open' = [open EXCEPT ![s] = FALSE]

\* The entry of a stream that ended stays.
MutantDetachForgotten(n) == UNCHANGED channels

\* detach_command_channel removes the node's entry, whichever stream it belongs
\* to.
Detach(n) == channels' = [channels EXCEPT ![n] = None]

\* The bridge detaches, then its task ends and drops both of its channel halves.
BridgeDetach(s) ==
    /\ bridge[s] = "detach"
    /\ Detach(owner[s])
    /\ \/ /\ Held(s)
          /\ bridge' = [bridge EXCEPT ![s] = "done"]
          /\ queue' = [queue EXCEPT ![s] = <<>>]
          /\ UNCHANGED <<owner, hand, out, open>>
       \/ ~Held(s) /\ Freed(s)
    /\ UNCHANGED <<known, removing, rest, agents, outcomes, budget, ghosts>>

\* The server learns that the agent has left: the response stream is dropped.
NoticeHangup(s) ==
    /\ open[s] /\ ~Held(s)
    /\ open' = [open EXCEPT ![s] = FALSE]
    /\ UNCHANGED <<daemon, rest, bridge, owner, queue, hand, out, agents,
                   outcomes, budget, ghosts>>

-----------------------------------------------------------------------------
(* The agent: client.rs run and session. *)

\* connect and register_node.
AgentRegister(n) ==
    /\ session[n] = "down"
    /\ session' = [session EXCEPT ![n] = "registered"]
    /\ known' = known \cup {n}
    /\ UNCHANGED <<channels, removing, rest, streams, stream, job, orphan,
                   outcomes, budget, ghosts>>

\* stream_commands, first step: an unknown node ends the session with NOT_FOUND.
AgentOpenStream(n) ==
    /\ session[n] = "registered"
    /\ session' = [session EXCEPT
           ![n] = IF n \in known THEN "attaching" ELSE "down"]
    /\ UNCHANGED <<daemon, rest, streams, stream, job, orphan, outcomes, budget,
                   ghosts>>

\* attach_command_channel: the new sender replaces, and so drops, an older one.
\* The bridge starts.
AttachStream(n, s, listening) ==
    /\ bridge[s] = "free"
    /\ \A c \in Command : sender[c] # s
    /\ channels' = [channels EXCEPT ![n] = s]
    /\ bridge' = [bridge EXCEPT ![s] = "recv"]
    /\ owner' = [owner EXCEPT ![s] = n]
    /\ open' = [open EXCEPT ![s] = listening]
    /\ UNCHANGED <<known, removing, rest, queue, hand, out, job, outcomes,
                   budget, ghosts>>

AgentAttach(n, s) ==
    /\ session[n] = "attaching"
    /\ AttachStream(n, s, TRUE)
    /\ session' = [session EXCEPT ![n] = "serving"]
    /\ stream' = [stream EXCEPT ![n] = s]
    /\ UNCHANGED orphan

\* The agent left while its handler waited for the lock; the handler attaches a
\* stream nobody will read.
OrphanAttach(n, s) ==
    /\ orphan[n]
    /\ AttachStream(n, s, FALSE)
    /\ orphan' = [orphan EXCEPT ![n] = FALSE]
    /\ UNCHANGED <<session, stream>>

\* Commands on a stream, not yet taken by the agent.
Travelling(s) == ToSet(queue[s]) \cup ToSet(out[s]) \cup ({hand[s]} \ {None})

\* A session ends and its end of the stream is dropped.
EndSession(n) ==
    /\ session' = [session EXCEPT ![n] = "down"]
    /\ stream' = [stream EXCEPT ![n] = None]
    /\ job' = [job EXCEPT ![n] = None]
    /\ \/ /\ stream[n] # None
          /\ hurt' = hurt \cup Travelling(stream[n])
          /\ \/ bridge[stream[n]] = "done" /\ Freed(stream[n])
             \/ bridge[stream[n]] # "done" /\ UNCHANGED streams
       \/ stream[n] = None /\ UNCHANGED <<streams, hurt>>

\* inbound.message() yields a command: handle_command starts it at once, and the
\* session does nothing else until it has ended.
AgentReceive(n) ==
    /\ session[n] = "serving" /\ stream[n] # None
    /\ out[stream[n]] # <<>>
    /\ job' = [job EXCEPT ![n] = Head(out[stream[n]])]
    /\ out' = [out EXCEPT ![stream[n]] = Tail(@)]
    /\ ran' = Append(ran, Head(out[stream[n]]))
    /\ session' = [session EXCEPT ![n] = "running"]
    /\ UNCHANGED <<daemon, rest, bridge, owner, queue, hand, open, stream,
                   orphan, outcomes, budget, sent, hurt>>

\* Command::output().await, which has no timeout, returns: run_deploy and run_fs
\* have an outcome.  Nothing makes this happen.
CommandEnds(n) ==
    /\ session[n] = "running"
    /\ session' = [session EXCEPT ![n] = "reporting"]
    /\ UNCHANGED <<daemon, rest, streams, stream, job, orphan, outcomes, budget,
                   ghosts>>

\* A row once written is kept.
MutantPutOutcomeKeepsFirst(c) ==
    outcomes' = [outcomes EXCEPT ![IdOf[c]] = IF @ = None THEN c ELSE @]

\* put_outcome: one row per command id, replacing what the row held.
PutOutcome(c) == outcomes' = [outcomes EXCEPT ![IdOf[c]] = c]

\* report_command_result succeeds.
AgentReport(n) ==
    /\ session[n] = "reporting"
    /\ PutOutcome(job[n])
    /\ session' = [session EXCEPT ![n] = "serving"]
    /\ job' = [job EXCEPT ![n] = None]
    /\ UNCHANGED <<daemon, rest, streams, stream, orphan, budget, ghosts>>

\* inbound.message() yields None: the bridge has ended and all is read.
AgentStreamClosed(n) ==
    /\ session[n] = "serving" /\ stream[n] # None
    /\ bridge[stream[n]] = "done" /\ out[stream[n]] = <<>>
    /\ EndSession(n)
    /\ UNCHANGED <<daemon, rest, orphan, outcomes, budget, sent, ran>>

\* inbound.message() fails: the daemon that served the stream is gone.
AgentStreamBroken(n) ==
    /\ session[n] = "serving" /\ stream[n] = None
    /\ EndSession(n)
    /\ UNCHANGED <<daemon, rest, orphan, outcomes, budget, sent, ran>>

\* A heartbeat from a node the daemon does not know: "reregister".
AgentReregister(n) ==
    /\ session[n] = "serving" /\ n \notin known
    /\ EndSession(n)
    /\ UNCHANGED <<daemon, rest, orphan, outcomes, budget, sent, ran>>

\* A failed RPC ends the session wherever it is, and so does the agent's death.
\* A report that fails may have been recorded; a stream_commands handler may
\* outlive the session that called it.
AgentFails(n) ==
    /\ session[n] # "down"
    /\ faults < MaxFaults
    /\ faults' = faults + 1
    /\ EndSession(n)
    /\ \/ session[n] = "reporting" /\ PutOutcome(job[n])
       \/ UNCHANGED outcomes
    /\ \/ session[n] = "attaching" /\ orphan' = [orphan EXCEPT ![n] = TRUE]
       \/ UNCHANGED orphan
    /\ UNCHANGED <<daemon, rest, deregisters, sent, ran>>

-----------------------------------------------------------------------------
(* The daemon as a whole. *)

\* deregister_node: the node leaves the table, then its channel is detached.
DeregisterNode(n) ==
    /\ n \notin removing
    /\ deregisters < MaxDeregister
    /\ deregisters' = deregisters + 1
    /\ known' = known \ {n}
    /\ removing' = removing \cup {n}
    /\ UNCHANGED <<channels, rest, streams, agents, outcomes, faults, ghosts>>

DeregisterDetach(n) ==
    /\ n \in removing
    /\ removing' = removing \ {n}
    /\ Detach(n)
    /\ UNCHANGED <<known, rest, streams, agents, outcomes, budget, ghosts>>

\* The daemon stops and comes back: handlers, channels and bridges are gone,
\* the nodes (from the store) and the audit log stay.  An agent that is running
\* a command notices when it is done.
DaemonRestart ==
    /\ faults < MaxFaults
    /\ faults' = faults + 1
    /\ channels' = [n \in Node |-> None]
    /\ removing' = {}
    /\ request' = [c \in Command |-> IF request[c] \in {"get_node", "clone", "send"}
                                     THEN "cancelled" ELSE request[c]]
    /\ sender' = [c \in Command |-> None]
    /\ hurt' = hurt \cup UNION {Travelling(s) : s \in Stream}
    /\ bridge' = [s \in Stream |-> "free"]
    /\ owner' = [s \in Stream |-> None]
    /\ queue' = [s \in Stream |-> <<>>]
    /\ hand' = [s \in Stream |-> None]
    /\ out' = [s \in Stream |-> <<>>]
    /\ open' = [s \in Stream |-> FALSE]
    /\ stream' = [n \in Node |-> None]
    /\ session' = [n \in Node |-> IF session[n] = "attaching" THEN "down"
                                                              ELSE session[n]]
    /\ orphan' = [n \in Node |-> FALSE]
    /\ UNCHANGED <<known, job, outcomes, deregisters, sent, ran>>

Rest(c) == \/ Submit(c) \/ DispatchGetNode(c) \/ DispatchClone(c)
           \/ DispatchSend(c) \/ DispatchClosed(c) \/ RequestCancelled(c)

Bridge(s) == \/ BridgeRecv(s) \/ BridgeEnd(s) \/ BridgeSend(s)
             \/ BridgeHangup(s) \/ BridgeDetach(s)

Attach(n) == \E s \in Stream : AgentAttach(n, s) \/ OrphanAttach(n, s)

Agent(n) == \/ AgentRegister(n) \/ AgentOpenStream(n) \/ AgentReceive(n)
            \/ AgentReport(n) \/ AgentStreamClosed(n) \/ AgentStreamBroken(n)
            \/ AgentReregister(n)

Next ==
    \/ \E c \in Command : Rest(c)
    \/ \E s \in Stream : Bridge(s) \/ NoticeHangup(s)
    \/ \E n \in Node : \/ Agent(n) \/ CommandEnds(n)
                       \/ Attach(n) \/ AgentFails(n)
                       \/ DeregisterNode(n) \/ DeregisterDetach(n)
    \/ DaemonRestart

Spec == Init /\ [][Next]_vars

(***************************************************************************)
(* Fairness: tokio keeps polling handlers, bridges and agent sessions; the *)
(* agent retries and heartbeats for ever; TCP gives up on a peer that      *)
(* never takes the data waiting for it.  Nothing makes a client submit,    *)
(* a session fail, an idle half-open connection be noticed or a command    *)
(* end: the process it starts may wait for ever for a device.              *)
(***************************************************************************)
Fairness ==
    /\ \A c \in Command :
           WF_vars(DispatchGetNode(c) \/ DispatchClone(c) \/ DispatchSend(c)
                   \/ DispatchClosed(c))
    /\ \A s \in Stream : /\ WF_vars(Bridge(s))
                         /\ WF_vars(out[s] # <<>> /\ NoticeHangup(s))
    /\ \A n \in Node : /\ WF_vars(Agent(n))
                       /\ WF_vars(Attach(n))
                       /\ WF_vars(DeregisterDetach(n))

FairSpec == Spec /\ Fairness

-----------------------------------------------------------------------------
(* Properties *)

\* Every variable has its type; channels never exceed their capacity.
TypeOK ==
    /\ known \subseteq Node /\ removing \subseteq Node
    /\ channels \in [Node -> Stream \cup {None}]
    /\ request \in [Command -> {"new", "get_node", "clone", "send", "accepted",
                                "rejected", "cancelled"}]
    /\ sender \in [Command -> Stream \cup {None}]
    /\ bridge \in [Stream -> {"free", "recv", "send", "detach", "done"}]
    /\ owner \in [Stream -> Node \cup {None}]
    /\ queue \in [Stream -> Seq(Command)] /\ out \in [Stream -> Seq(Command)]
    /\ \A s \in Stream : Len(queue[s]) <= QueueCap /\ Len(out[s]) <= OutCap
    /\ hand \in [Stream -> Command \cup {None}]
    /\ open \in [Stream -> BOOLEAN]
    /\ session \in [Node -> {"down", "registered", "attaching", "serving",
                             "running", "reporting"}]
    /\ stream \in [Node -> Stream \cup {None}]
    /\ job \in [Node -> Command \cup {None}]
    /\ orphan \in [Node -> BOOLEAN]
    /\ outcomes \in [Id -> Command \cup {None}]
    /\ faults \in 0..MaxFaults /\ deregisters \in 0..MaxDeregister
    /\ sent \in Seq(Command) /\ ran \in Seq(Command) /\ hurt \subseteq Command

\* The registry never keeps the sender of a stream whose bridge has ended, so a
\* dispatch cannot be accepted for ever into a channel nobody reads
\* (detach_command_channel runs before the bridge task ends).
RegistryHoldsLiveBridges ==
    \A n \in Node : channels[n] # None =>
        ReceiverAlive(channels[n]) /\ owner[channels[n]] = n

\* A node runs each command at most once and in the order dispatch accepted
\* them, across reconnects, stale bridges and daemon restarts (client.rs
\* session, grpc.rs bridge): a command left on an old stream never surfaces
\* after one accepted later.
RunsInOrderAtMostOnce ==
    \A i, j \in 1..Len(ran) : i < j /\ Dest[ran[i]] = Dest[ran[j]] =>
        \E k, l \in 1..Len(sent) : k < l /\ sent[k] = ran[i] /\ sent[l] = ran[j]

\* What has become of a command, as CommandLog tells it.
FateOf(c) ==
    IF c \in ToSet(ran) THEN IF \E n \in Node : job[n] = c THEN "running" ELSE "done"
    ELSE IF c \in hurt THEN "lost"
    ELSE IF request[c] = "accepted" THEN "accepted"
    ELSE IF request[c] \in {"rejected", "cancelled"} THEN "refused"
    ELSE "asked"

Log == INSTANCE CommandLog WITH
    fate <- [c \in Command |-> FateOf(c)],
    order <- sent, log <- outcomes, failures <- faults

\* Registry, bridges and streams amount to CommandLog: across reconnects, stale
\* bridges, cancelled requests and restarts no command changes its fate without
\* cause, none is lost under a session that lasts, an outcome goes missing only
\* in a failure and at most one in each, and a row of the audit log changes only
\* when the command that has its id is reported (client.rs session; store.rs
\* put_outcome, "Append a command outcome to the audit log").
ImplementsCommandLog == Log!Spec

\* No command hangs on a node for ever.
CommandsEnd(n) == []<>(session[n] # "running")

\* A command the REST API answered "accepted" is run and its report ends, unless
\* the agent at the other end of its stream leaves, the daemon restarts, or some
\* command on that node never ends (executor.rs awaits the process without a
\* timeout): a stream whose sender was removed from the registry is drained
\* before it closes, and a half-open one takes down only what was sent into it.
AcceptedIsRun ==
    \A c \in Command :
        CommandsEnd(Dest[c]) =>
            (request[c] = "accepted" ~> FateOf(c) \in {"done", "lost"})

Connected(n) == /\ n \in known
                /\ stream[n] # None
                /\ channels[n] = stream[n]

\* Once sessions stop failing, every agent whose commands end comes by a stream
\* that dispatch can reach and keeps it, although a stale bridge or an orphaned
\* handler may take a fresh stream out of the registry (client.rs run).
AgentsReconnect == \A n \in Node : CommandsEnd(n) => <>[]Connected(n)

\* is_connected (state.rs): "Whether an agent currently has a live command
\* stream."  While no removal is under way, an agent that is reading a stream
\* with a running bridge counts as connected.
IsConnectedAccurate ==
    \A n \in Node :
        stream[n] # None /\ open[stream[n]] /\ bridge[stream[n]] = "recv" =>
            channels[n] # None

-----------------------------------------------------------------------------
(* Claims of the documentation that the model refutes.  No run checks them; *)
(* with one as an INVARIANT of a configuration TLC shows how it fails.      *)

\* store.rs put_outcome: "Append a command outcome to the audit log".  A client
\* that chooses its command ids and repeats one replaces the earlier outcome.
AuditLogAppendOnly ==
    [][\A i \in Id : outcomes[i] # None => outcomes'[i] = outcomes[i]]_vars

\* client.rs: "each command is executed and its outcome reported"; executor.rs:
\* "so the control plane's audit trail is complete".  A command that was run and
\* is no longer being reported is in the audit log.
AuditTrailComplete ==
    \A c \in ToSet(ran) : (\A n \in Node : job[n] # c) => outcomes[IdOf[c]] = c

\* client.rs: "each command is executed and its outcome reported".  Of a command
\* that was accepted there is an end at some time, or it is lost, whatever the
\* commands do.  One that hangs keeps every later one of its node waiting.
EveryAcceptedEnds ==
    \A c \in Command : request[c] = "accepted" ~> FateOf(c) \in {"done", "lost"}
=============================================================================
