----------------------------- MODULE CommandLog -----------------------------
(***************************************************************************)
(* What becomes of a command, as its sender and a reader of the audit log  *)
(* may count on it, without registry, channels, bridges or streams: it is  *)
(* refused or accepted; an accepted one is run once, after those accepted  *)
(* before it for the same node, or lost with the session it travelled in;  *)
(* one that was run is recorded, and its outcome is missing only if the    *)
(* agent's session failed while it ran or was reported.                    *)
(*                                                                         *)
(* CommandPlane implements this module (Log in CommandPlane).              *)
(***************************************************************************)
EXTENDS Naturals, Sequences

CONSTANTS
    Command, Node, Id,
    Dest,        \* Command -> Node
    IdOf,        \* Command -> Id: the row of the audit log
    None

VARIABLES
    fate,        \* what has become of each command
    order,       \* the commands in the order they were accepted
    log,         \* the audit log: id -> the command last recorded under it
    failures     \* how many sessions failed and daemons stopped

vars == <<fate, order, log, failures>>

Fate == {"asked", "refused", "accepted", "lost", "running", "done"}

Init ==
    /\ fate = [c \in Command |-> "asked"]
    /\ order = <<>>
    /\ log = [i \in Id |-> None]
    /\ failures = 0

With(f) == {c \in Command : fate[c] = f}
For(n) == {c \in Command : Dest[c] = n}
Become(cs, f) == [c \in Command |-> IF c \in cs THEN f ELSE fate[c]]
Recorded(c) == [log EXCEPT ![IdOf[c]] = c]

Refuse(c) ==
    /\ fate[c] = "asked"
    /\ fate' = Become({c}, "refused")
    /\ UNCHANGED <<order, log, failures>>

\* A command accepted for an agent that has just left is lost at once.
Accept(c) ==
    /\ fate[c] = "asked"
    /\ \E f \in {"accepted", "lost"} : fate' = Become({c}, f)
    /\ order' = Append(order, c)
    /\ UNCHANGED <<log, failures>>

Earlier(c) == {d \in For(Dest[c]) :
                  \E i, j \in DOMAIN order : i < j /\ order[i] = d /\ order[j] = c}

\* The agent runs one command at a time.
Run(c) ==
    /\ fate[c] = "accepted"
    /\ For(Dest[c]) \cap With("running") = {}
    /\ Earlier(c) \cap With("accepted") = {}
    /\ fate' = Become({c}, "running")
    /\ UNCHANGED <<order, log, failures>>

Record(c) ==
    /\ fate[c] = "running"
    /\ fate' = Become({c}, "done")
    /\ log' = Recorded(c)
    /\ UNCHANGED <<order, failures>>

\* A session that ends in good order takes what the node has not begun.
Leave(n) ==
    /\ For(n) \cap With("running") = {}
    /\ \E cs \in SUBSET (For(n) \cap With("accepted")) : fate' = Become(cs, "lost")
    /\ UNCHANGED <<order, log, failures>>

\* One that fails also ends the report of the command it ran, which may or may
\* not have been recorded.
Fail(n) ==
    /\ failures' = failures + 1
    /\ \E cs \in SUBSET (For(n) \cap With("accepted")) :
           fate' = [c \in Command |->
               IF c \in cs THEN "lost"
               ELSE IF c \in For(n) \cap With("running") THEN "done"
               ELSE fate[c]]
    /\ \/ UNCHANGED log
       \/ \E c \in For(n) \cap With("running") : log' = Recorded(c)
    /\ UNCHANGED order

\* The daemon stops: requests it has not answered come to nothing, commands it
\* held are lost, and what was recorded or is being run stays.
Restart ==
    /\ failures' = failures + 1
    /\ \E unanswered \in SUBSET With("asked"), cs \in SUBSET With("accepted") :
           fate' = [c \in Command |-> IF c \in unanswered THEN "refused"
                                      ELSE IF c \in cs THEN "lost"
                                      ELSE fate[c]]
    /\ UNCHANGED <<order, log>>

Next ==
    \/ \E c \in Command : Refuse(c) \/ Accept(c) \/ Run(c) \/ Record(c)
    \/ \E n \in Node : Leave(n) \/ Fail(n)
    \/ Restart

Spec == Init /\ [][Next]_vars
=============================================================================
