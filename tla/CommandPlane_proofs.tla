------------------------ MODULE CommandPlane_proofs -------------------------
(***************************************************************************)
(* Proofs about CommandPlane for every set of nodes, streams and commands, *)
(* every destination and id of a command, every capacity of the channels   *)
(* and any number of failures, removals and restarts.                      *)
(***************************************************************************)
EXTENDS CommandPlane, TLAPS

(***************************************************************************)
(* The order of acceptance, as a relation on commands, and a sequence that *)
(* respects it.                                                            *)
(***************************************************************************)
Before(o, a, b) ==
    \E k, l \in DOMAIN o : k < l /\ o[k] = a /\ o[l] = b

Ordered(o, q) ==
    \A i, j \in DOMAIN q : i < j => Before(o, q[i], q[j])

Once(q) == \A i, j \in DOMAIN q : q[i] = q[j] => i = j

(***************************************************************************)
(* The inductive invariant.                                                *)
(***************************************************************************)

\* What a session is at while it has a command, and while it has a stream.
Busy == {"running", "reporting"}
Serving == {"serving", "running", "reporting"}

\* A free slot holds nothing; a bridge in use belongs to a node and holds a
\* command exactly while it sends.
SlotInv ==
    \A s \in Stream :
        /\ bridge[s] = "free" => /\ queue[s] = <<>> /\ out[s] = <<>>
                                 /\ owner[s] = None
        /\ bridge[s] # "free" => owner[s] \in Node
        /\ bridge[s] = "send" <=> hand[s] # None

\* An agent reads only a stream opened for it, in a session that serves; it has
\* a job exactly while it runs or reports a command.
HoldInv ==
    \A n \in Node :
        /\ stream[n] # None => owner[stream[n]] = n
        /\ session[n] \in Busy <=> job[n] # None

\* A handler that waits to send holds a sender, and no other handler does; until
\* the slot is free that sender leads to the node of its request.
SenderInv ==
    \A c \in Command :
        /\ request[c] = "send" <=> sender[c] # None
        /\ sender[c] # None /\ bridge[sender[c]] # "free" =>
               owner[sender[c]] = Dest[c]

\* A command is accepted once.
SentInv ==
    /\ \A c \in Command : c \in ToSet(sent) <=> request[c] = "accepted"
    /\ Once(sent)

\* What travels on a stream was accepted for the node the stream was opened for.
PlaceInv ==
    \A s \in Stream : \A c \in Travelling(s) :
        c \in ToSet(sent) /\ Dest[c] = owner[s]

\* Commands travel in the order they were accepted: those sent on, the one in
\* hand, those still in the channel.
OrderInv ==
    \A s \in Stream :
        /\ Ordered(sent, queue[s]) /\ Ordered(sent, out[s])
        /\ \A a \in ToSet(out[s]) :
               \A b \in ToSet(queue[s]) \cup ({hand[s]} \ {None}) : Before(sent, a, b)
        /\ \A b \in ToSet(queue[s]) : hand[s] # None => Before(sent, hand[s], b)

\* What runs was accepted, and nothing that an agent can still receive was
\* accepted before something its node has run.
RanInv ==
    /\ ToSet(ran) \subseteq ToSet(sent)
    /\ \A n \in Node : stream[n] # None =>
           \A a \in ToSet(ran), b \in Travelling(stream[n]) :
               Dest[a] = n => Before(sent, a, b)

RanOrderInv ==
    \A i, j \in DOMAIN ran :
        i < j /\ Dest[ran[i]] = Dest[ran[j]] => Before(sent, ran[i], ran[j])

IInv == /\ TypeOK /\ SlotInv /\ HoldInv /\ RegistryHoldsLiveBridges /\ SenderInv
        /\ SentInv /\ PlaceInv /\ OrderInv /\ RanInv /\ RanOrderInv

USE DEF Busy, Serving

-----------------------------------------------------------------------------
(* Sequences. *)

\* The empty channel.
LEMMA EmptyFacts == ToSet(<<>>) = {} /\ \A o : Ordered(o, <<>>)
  BY DEF ToSet, Ordered

\* What a sequence holds are elements of its type.
LEMMA ToSetType ==
    ASSUME NEW C, NEW q \in Seq(C)
    PROVE  ToSet(q) \subseteq C
  BY DEF ToSet

\* A channel after a send.
LEMMA AppendFacts ==
    ASSUME NEW C, NEW q \in Seq(C), NEW c \in C
    PROVE  /\ Append(q, c) \in Seq(C)
           /\ Len(Append(q, c)) = Len(q) + 1
           /\ ToSet(Append(q, c)) = ToSet(q) \cup {c}
  <1>1. /\ Append(q, c) \in Seq(C) /\ Len(Append(q, c)) = Len(q) + 1
        /\ DOMAIN Append(q, c) = 1..(Len(q) + 1) /\ DOMAIN q = 1..Len(q)
        /\ Append(q, c)[Len(q) + 1] = c
        /\ \A i \in 1..Len(q) : Append(q, c)[i] = q[i]
        /\ Len(q) \in Nat
    OBVIOUS
  <1>2. ASSUME NEW x \in ToSet(Append(q, c)) PROVE x \in ToSet(q) \cup {c}
    BY <1>1 DEF ToSet
  <1>3. ASSUME NEW x \in ToSet(q) \cup {c} PROVE x \in ToSet(Append(q, c))
    <2>1. CASE x = c
      BY <1>1, <2>1 DEF ToSet
    <2>2. CASE x \in ToSet(q)
      <3>1. PICK i \in 1..Len(q) : x = q[i]
        BY <1>1, <2>2 DEF ToSet
      <3>2. i \in 1..(Len(q) + 1) /\ Append(q, c)[i] = x
        BY <1>1, <3>1
      <3> QED
        BY <1>1, <3>2 DEF ToSet
    <2> QED
      BY <1>3, <2>1, <2>2
  <1> QED
    BY <1>1, <1>2, <1>3

\* A channel after a receive.
LEMMA TailFacts ==
    ASSUME NEW C, NEW q \in Seq(C), q # <<>>
    PROVE  /\ Head(q) \in C /\ Tail(q) \in Seq(C)
           /\ Len(Tail(q)) <= Len(q)
           /\ ToSet(q) = {Head(q)} \cup ToSet(Tail(q))
  <1>1. /\ Head(q) \in C /\ Tail(q) \in Seq(C)
        /\ Len(Tail(q)) = Len(q) - 1 /\ Len(q) \in Nat \ {0}
        /\ DOMAIN Tail(q) = 1..(Len(q) - 1) /\ DOMAIN q = 1..Len(q)
        /\ Head(q) = q[1] /\ \A i \in 1..(Len(q) - 1) : Tail(q)[i] = q[i + 1]
    OBVIOUS
  <1>2. ASSUME NEW x \in ToSet(q) PROVE x \in {Head(q)} \cup ToSet(Tail(q))
    <2>1. PICK i \in 1..Len(q) : x = q[i]
      BY <1>1 DEF ToSet
    <2>2. CASE i = 1
      BY <1>1, <2>1, <2>2
    <2>3. CASE i # 1
      <3>1. i - 1 \in 1..(Len(q) - 1) /\ Tail(q)[i - 1] = x
        BY <1>1, <2>1, <2>3
      <3> QED
        BY <1>1, <3>1 DEF ToSet
    <2> QED
      BY <2>2, <2>3
  <1>3. ASSUME NEW x \in {Head(q)} \cup ToSet(Tail(q)) PROVE x \in ToSet(q)
    <2>1. CASE x = Head(q)
      BY <1>1, <2>1 DEF ToSet
    <2>2. CASE x \in ToSet(Tail(q))
      <3>1. PICK i \in 1..(Len(q) - 1) : x = Tail(q)[i]
        BY <1>1, <2>2 DEF ToSet
      <3>2. i + 1 \in 1..Len(q) /\ q[i + 1] = x
        BY <1>1, <3>1
      <3> QED
        BY <1>1, <3>2 DEF ToSet
    <2> QED
      BY <1>3, <2>1, <2>2
  <1> QED
    BY <1>1, <1>2, <1>3

\* Accepting one more command keeps the order of the others and puts it after
\* them.
LEMMA BeforeAppend ==
    ASSUME NEW C, NEW o \in Seq(C), NEW c \in C
    PROVE  /\ \A a, b : Before(o, a, b) => Before(Append(o, c), a, b)
           /\ \A a \in ToSet(o) : Before(Append(o, c), a, c)
           /\ \A q : Ordered(o, q) => Ordered(Append(o, c), q)
  <1>1. /\ DOMAIN Append(o, c) = 1..(Len(o) + 1) /\ DOMAIN o = 1..Len(o)
        /\ Append(o, c)[Len(o) + 1] = c
        /\ \A i \in 1..Len(o) : Append(o, c)[i] = o[i]
        /\ Len(o) \in Nat
    OBVIOUS
  <1>2. ASSUME NEW a, NEW b, Before(o, a, b) PROVE Before(Append(o, c), a, b)
    <2>1. PICK k \in 1..Len(o), l \in 1..Len(o) : k < l /\ o[k] = a /\ o[l] = b
      BY <1>1, <1>2 DEF Before
    <2>2. k \in 1..(Len(o) + 1) /\ l \in 1..(Len(o) + 1)
      BY <1>1, <2>1
    <2> QED
      BY <1>1, <2>1, <2>2 DEF Before
  <1>3. ASSUME NEW a \in ToSet(o) PROVE Before(Append(o, c), a, c)
    <2>1. PICK k \in 1..Len(o) : o[k] = a
      BY <1>1 DEF ToSet
    <2>2. k \in 1..(Len(o) + 1) /\ Len(o) + 1 \in 1..(Len(o) + 1) /\ k < Len(o) + 1
      BY <1>1, <2>1
    <2> QED
      BY <1>1, <2>1, <2>2 DEF Before
  <1>4. ASSUME NEW q, Ordered(o, q) PROVE Ordered(Append(o, c), q)
    BY <1>2, <1>4 DEF Ordered
  <1> QED
    BY <1>2, <1>3, <1>4

\* A channel stays in order when a command accepted after all it holds is put at
\* its end.
LEMMA OrderedAppend ==
    ASSUME NEW C, NEW q \in Seq(C), NEW c \in C, NEW o, Ordered(o, q),
           \A a \in ToSet(q) : Before(o, a, c)
    PROVE  Ordered(o, Append(q, c))
  <1>1. /\ DOMAIN Append(q, c) = 1..(Len(q) + 1) /\ DOMAIN q = 1..Len(q)
        /\ Append(q, c)[Len(q) + 1] = c
        /\ \A i \in 1..Len(q) : Append(q, c)[i] = q[i]
        /\ Len(q) \in Nat
    OBVIOUS
  <1>2. ASSUME NEW i \in DOMAIN Append(q, c), NEW j \in DOMAIN Append(q, c), i < j
        PROVE  Before(o, Append(q, c)[i], Append(q, c)[j])
    <2>1. i \in 1..Len(q) /\ Append(q, c)[i] = q[i] /\ q[i] \in ToSet(q)
      BY <1>1, <1>2 DEF ToSet
    <2>2. CASE j \in 1..Len(q)
      BY <1>1, <1>2, <2>1, <2>2 DEF Ordered
    <2>3. CASE j = Len(q) + 1
      BY <1>1, <2>1, <2>3
    <2> QED
      BY <1>1, <1>2, <2>2, <2>3
  <1> QED
    BY <1>2 DEF Ordered

\* What is received from an ordered channel was accepted before what is left.
LEMMA OrderedTail ==
    ASSUME NEW C, NEW q \in Seq(C), q # <<>>, NEW o, Ordered(o, q)
    PROVE  /\ Ordered(o, Tail(q))
           /\ \A a \in ToSet(Tail(q)) : Before(o, Head(q), a)
  <1>1. /\ Len(q) \in Nat \ {0}
        /\ DOMAIN Tail(q) = 1..(Len(q) - 1) /\ DOMAIN q = 1..Len(q)
        /\ Head(q) = q[1] /\ \A i \in 1..(Len(q) - 1) : Tail(q)[i] = q[i + 1]
    OBVIOUS
  <1>2. ASSUME NEW i \in DOMAIN Tail(q), NEW j \in DOMAIN Tail(q), i < j
        PROVE  Before(o, Tail(q)[i], Tail(q)[j])
    <2>1. i + 1 \in DOMAIN q /\ j + 1 \in DOMAIN q /\ i + 1 < j + 1
      BY <1>1, <1>2
    <2> QED
      BY <1>1, <1>2, <2>1 DEF Ordered
  <1>3. ASSUME NEW a \in ToSet(Tail(q)) PROVE Before(o, Head(q), a)
    <2>1. PICK i \in DOMAIN Tail(q) : a = Tail(q)[i]
      BY DEF ToSet
    <2>2. 1 \in DOMAIN q /\ i + 1 \in DOMAIN q /\ 1 < i + 1 /\ a = q[i + 1]
      BY <1>1, <2>1
    <2> QED
      BY <1>1, <2>2 DEF Ordered
  <1> QED
    BY <1>2, <1>3 DEF Ordered

\* Accepting a command for the first time.
LEMMA OnceAppend ==
    ASSUME NEW C, NEW q \in Seq(C), NEW c \in C, Once(q), c \notin ToSet(q)
    PROVE  Once(Append(q, c))
  <1>1. /\ DOMAIN Append(q, c) = 1..(Len(q) + 1) /\ DOMAIN q = 1..Len(q)
        /\ Append(q, c)[Len(q) + 1] = c
        /\ \A i \in 1..Len(q) : Append(q, c)[i] = q[i]
        /\ Len(q) \in Nat
    OBVIOUS
  <1>2. \A i \in 1..Len(q) : q[i] # c
    BY <1>1 DEF ToSet
  <1>3. \A i \in 1..(Len(q) + 1) : i \in 1..Len(q) \/ i = Len(q) + 1
    BY <1>1
  <1>4. ASSUME NEW i \in 1..(Len(q) + 1), NEW j \in 1..(Len(q) + 1),
               Append(q, c)[i] = Append(q, c)[j]
        PROVE  i = j
    <2>1. CASE i \in 1..Len(q) /\ j \in 1..Len(q)
      BY <1>1, <1>4, <2>1 DEF Once
    <2>2. CASE i = Len(q) + 1 /\ j \in 1..Len(q)
      BY <1>1, <1>2, <1>4, <2>2
    <2>3. CASE j = Len(q) + 1 /\ i \in 1..Len(q)
      BY <1>1, <1>2, <1>4, <2>3
    <2> QED
      BY <1>3, <2>1, <2>2, <2>3
  <1> QED
    BY <1>1, <1>4 DEF Once

-----------------------------------------------------------------------------
(* REST handlers. *)

\* Streams, agents and the order of commands stay as they are when only the
\* registry and the handlers change.
LEMMA StreamsKept ==
    ASSUME IInv, UNCHANGED <<streams, stream, session, job, sent, ran>>
    PROVE  SlotInv' /\ HoldInv' /\ PlaceInv' /\ OrderInv' /\ RanInv'
           /\ RanOrderInv'
  <1> USE DEF IInv, streams
  <1>1. SlotInv' /\ HoldInv'
    BY DEF SlotInv, HoldInv
  <1>2. PlaceInv' /\ RanInv'
    BY DEF PlaceInv, RanInv, Travelling
  <1>3. OrderInv' /\ RanOrderInv'
    BY DEF OrderInv, RanOrderInv
  <1> QED
    BY <1>1, <1>2, <1>3

\* A handler answers or moves on without having sent.
LEMMA ReplyInv ==
    ASSUME IInv, NEW c \in Command, NEW step, Reply(c, step),
           step \in {"get_node", "clone", "rejected", "cancelled"},
           request[c] # "accepted",
           UNCHANGED <<daemon, streams, agents, outcomes, budget, ghosts>>
    PROVE  IInv'
  <1> USE DEF daemon, agents, budget, ghosts, Reply
  <1>1. TypeOK'
    BY DEF IInv, TypeOK, streams
  <1>2. SenderInv'
    <2> SUFFICES ASSUME NEW d \in Command
                 PROVE  /\ request'[d] = "send" <=> sender'[d] # None
                        /\ sender'[d] # None /\ bridge[sender'[d]] # "free" =>
                               owner[sender'[d]] = Dest[d]
      BY DEF SenderInv, streams
    <2> QED
      BY DEF IInv, SenderInv, TypeOK
  <1>3. SentInv'
    BY DEF IInv, SentInv, TypeOK
  <1>4. RegistryHoldsLiveBridges'
    BY DEF IInv, RegistryHoldsLiveBridges, ReceiverAlive, streams
  <1> QED
    BY <1>1, <1>2, <1>3, <1>4, StreamsKept DEF IInv

\* dispatch clones a sender of the registry, which leads to the node.
LEMMA CloneInv ==
    ASSUME IInv, NEW c \in Command, request[c] = "clone",
           channels[Dest[c]] # None,
           request' = [request EXCEPT ![c] = "send"],
           sender' = [sender EXCEPT ![c] = channels[Dest[c]]],
           UNCHANGED <<daemon, streams, agents, outcomes, budget, ghosts>>
    PROVE  IInv'
  <1> USE DEF daemon, agents, budget, ghosts
  <1>a. Dest[c] \in Node
    BY CommandAssumption
  <1>0. /\ channels[Dest[c]] \in Stream
        /\ owner[channels[Dest[c]]] = Dest[c]
    BY <1>a DEF IInv, TypeOK, RegistryHoldsLiveBridges
  <1>1. TypeOK'
    BY <1>0 DEF IInv, TypeOK, streams
  <1>2. SenderInv'
    <2> SUFFICES ASSUME NEW d \in Command
                 PROVE  /\ request'[d] = "send" <=> sender'[d] # None
                        /\ sender'[d] # None /\ bridge[sender'[d]] # "free" =>
                               owner[sender'[d]] = Dest[d]
      BY DEF SenderInv, streams
    <2> QED
      BY <1>0 DEF IInv, SenderInv, TypeOK
  <1>3. SentInv'
    BY DEF IInv, SentInv, TypeOK
  <1>4. RegistryHoldsLiveBridges'
    BY DEF IInv, RegistryHoldsLiveBridges, ReceiverAlive, streams
  <1> QED
    BY <1>1, <1>2, <1>3, <1>4, StreamsKept DEF IInv

\* A send puts the command last, on a stream of its node.
LEMMA SendInv ==
    ASSUME IInv, NEW c \in Command, DispatchSend(c)
    PROVE  IInv'
  <1> DEFINE s == sender[c]
  <1>0. /\ s \in Stream /\ bridge[s] # "free" /\ owner[s] = Dest[c]
        /\ owner[s] \in Node /\ request[c] = "send" /\ c \notin ToSet(sent)
    BY DEF IInv, TypeOK, SenderInv, SentInv, SlotInv, DispatchSend, ReceiverAlive
  <1>1. /\ request' = [request EXCEPT ![c] = "accepted"]
        /\ sender' = [sender EXCEPT ![c] = None]
        /\ queue' = [queue EXCEPT ![s] = Append(queue[s], c)]
        /\ sent' = Append(sent, c)
        /\ UNCHANGED <<daemon, bridge, owner, hand, out, open, agents, outcomes,
                       budget, ran>>
    BY DEF DispatchSend, Reply
  <1>2. /\ queue[s] \in Seq(Command) /\ sent \in Seq(Command)
        /\ queue \in [Stream -> Seq(Command)]
    BY <1>0 DEF IInv, TypeOK
  <1>3. /\ queue'[s] = Append(queue[s], c) /\ queue'[s] \in Seq(Command)
        /\ Len(queue'[s]) = Len(queue[s]) + 1
        /\ ToSet(queue'[s]) = ToSet(queue[s]) \cup {c}
        /\ \A t \in Stream \ {s} : queue'[t] = queue[t]
    BY <1>0, <1>1, <1>2, AppendFacts
  <1>4. /\ sent' \in Seq(Command)
        /\ ToSet(sent') = ToSet(sent) \cup {c}
        /\ \A a, b : Before(sent, a, b) => Before(sent', a, b)
        /\ \A a \in ToSet(sent) : Before(sent', a, c)
        /\ \A q : Ordered(sent, q) => Ordered(sent', q)
    BY <1>1, <1>2, AppendFacts, BeforeAppend
  <1>5. TypeOK'
    <2>1. /\ queue' \in [Stream -> Seq(Command)]
          /\ Len(queue'[s]) <= QueueCap
      BY <1>0, <1>1, <1>2, <1>3, CommandAssumption DEF DispatchSend, IInv, TypeOK
    <2>2. \A t \in Stream : Len(queue'[t]) <= QueueCap
      BY <1>3, <2>1 DEF IInv, TypeOK
    <2>3. hurt' \subseteq Command
      BY DEF DispatchSend, IInv, TypeOK
    <2> QED
      BY <1>1, <1>4, <2>1, <2>2, <2>3 DEF IInv, TypeOK, daemon, agents, budget
  <1>6. SlotInv' /\ HoldInv' /\ RegistryHoldsLiveBridges'
    BY <1>0, <1>1, <1>3
       DEF IInv, SlotInv, HoldInv, RegistryHoldsLiveBridges, ReceiverAlive, daemon,
           agents
  <1>7. SenderInv'
    BY <1>1 DEF IInv, SenderInv, TypeOK
  <1>8. SentInv'
    <2>1. Once(sent')
      BY <1>0, <1>1, <1>2, OnceAppend DEF IInv, SentInv
    <2>2. \A d \in Command : d \in ToSet(sent') <=> request'[d] = "accepted"
      BY <1>1, <1>4 DEF IInv, SentInv, TypeOK
    <2> QED
      BY <2>1, <2>2 DEF SentInv
  <1>9. PlaceInv'
    BY <1>0, <1>1, <1>3, <1>4 DEF IInv, PlaceInv, Travelling
  <1>10. OrderInv'
    <2> SUFFICES ASSUME NEW t \in Stream
                 PROVE  /\ Ordered(sent', queue'[t]) /\ Ordered(sent', out[t])
                        /\ \A a \in ToSet(out[t]) :
                               \A b \in ToSet(queue'[t]) \cup ({hand[t]} \ {None}) :
                                   Before(sent', a, b)
                        /\ \A b \in ToSet(queue'[t]) :
                               hand[t] # None => Before(sent', hand[t], b)
      BY <1>1 DEF OrderInv
    <2>1. CASE t # s
      BY <1>3, <1>4, <2>1 DEF IInv, OrderInv
    <2>2. CASE t = s
      <3>1. Travelling(s) \subseteq ToSet(sent)
        BY <1>0 DEF IInv, PlaceInv
      <3>2. \A a \in ToSet(queue[s]) : Before(sent', a, c)
        BY <1>4, <3>1 DEF Travelling
      <3>3. Ordered(sent', queue'[s])
        BY <1>0, <1>2, <1>3, <1>4, <3>2, OrderedAppend DEF IInv, OrderInv
      <3>4. \A a \in ToSet(out[s]) :
               \A b \in ToSet(queue[s]) \cup ({hand[s]} \ {None}) :
                   Before(sent, a, b)
        BY <1>0 DEF IInv, OrderInv
      <3>5. \A a \in ToSet(out[s]) : Before(sent', a, c)
        BY <1>4, <3>1 DEF Travelling
      <3>6. hand[s] # None => Before(sent', hand[s], c)
        BY <1>4, <3>1 DEF Travelling
      <3>7. Ordered(sent', out[s]) /\ \A b \in ToSet(queue[s]) :
               hand[s] # None => Before(sent', hand[s], b)
        BY <1>0, <1>4 DEF IInv, OrderInv
      <3> HIDE DEF s
      <3> QED
        BY <1>3, <1>4, <2>2, <3>3, <3>4, <3>5, <3>6, <3>7
    <2> QED
      BY <2>1, <2>2
  <1>11. RanInv'
    <2>1. ToSet(ran) \subseteq ToSet(sent)
      BY DEF IInv, RanInv
    <2>2. \A t \in Stream : Travelling(t)' \subseteq Travelling(t) \cup {c}
      BY <1>1, <1>3 DEF Travelling
    <2>3. \A n \in Node : stream[n] # None => stream[n] \in Stream
      BY DEF IInv, TypeOK
    <2>4. ASSUME NEW n \in Node, stream'[n] # None, NEW a \in ToSet(ran'),
                 NEW b \in Travelling(stream[n])', Dest[a] = n
          PROVE  Before(sent', a, b)
      <3>1. stream' = stream /\ ran' = ran
        BY <1>1 DEF agents
      <3>2. b \in Travelling(stream[n]) \cup {c}
        BY <2>2, <2>3, <2>4, <3>1 DEF Travelling
      <3> QED
        BY <1>4, <2>1, <2>4, <3>1, <3>2 DEF IInv, RanInv
    <2> QED
      BY <1>1, <1>4, <2>1, <2>4 DEF RanInv
  <1>12. RanOrderInv'
    BY <1>1, <1>4 DEF IInv, RanOrderInv
  <1> QED
    BY <1>5, <1>6, <1>7, <1>8, <1>9, <1>10, <1>11, <1>12 DEF IInv

\* Every step of a REST handler keeps the invariant.
LEMMA RestInv ==
    ASSUME IInv, NEW c \in Command, Rest(c)
    PROVE  IInv'
  <1>1. CASE Submit(c)
    BY <1>1, ReplyInv DEF Submit
  <1>2. CASE DispatchGetNode(c)
    BY <1>2, ReplyInv DEF DispatchGetNode
  <1>3. CASE DispatchClone(c)
    BY <1>3, ReplyInv, CloneInv DEF DispatchClone
  <1>4. CASE DispatchSend(c)
    BY <1>4, SendInv
  <1>5. CASE DispatchClosed(c)
    BY <1>5, ReplyInv DEF DispatchClosed
  <1>6. CASE RequestCancelled(c)
    BY <1>6, ReplyInv DEF RequestCancelled
  <1> QED
    BY <1>1, <1>2, <1>3, <1>4, <1>5, <1>6 DEF Rest

-----------------------------------------------------------------------------
(* Bridges. *)

Empty(s) == queue[s] = <<>> /\ out[s] = <<>> /\ hand[s] = None

\* Commands may leave a stream, all of one kind at once, and a stream may change
\* hands when it is empty: what is left is where it belongs and in order.
LEMMA StreamsShrink ==
    ASSUME IInv, UNCHANGED <<sent, ran>>, TypeOK',
           \A t \in Stream :
               /\ queue'[t] \in {queue[t], <<>>}
               /\ out'[t] \in {out[t], <<>>}
               /\ hand'[t] \in {hand[t], None}
               /\ owner'[t] = owner[t] \/ Empty(t)',
           \A n \in Node :
               stream'[n] \in {stream[n], None} \/ Empty(stream[n])'
    PROVE  PlaceInv' /\ OrderInv' /\ RanInv' /\ RanOrderInv'
  <1>1. \A t \in Stream : ToSet(queue'[t]) \subseteq ToSet(queue[t])
                         /\ ToSet(out'[t]) \subseteq ToSet(out[t])
    BY EmptyFacts
  <1>2. \A t \in Stream : Travelling(t)' \subseteq Travelling(t)
    BY <1>1 DEF Travelling
  <1>3. \A t \in Stream : Empty(t)' => Travelling(t)' = {}
    BY EmptyFacts DEF Travelling, Empty
  <1>4. PlaceInv'
    BY <1>2, <1>3 DEF IInv, PlaceInv
  <1>5. OrderInv'
    <2> SUFFICES ASSUME NEW t \in Stream
                 PROVE  /\ Ordered(sent, queue'[t]) /\ Ordered(sent, out'[t])
                        /\ \A a \in ToSet(out'[t]) :
                               \A b \in ToSet(queue'[t]) \cup ({hand'[t]} \ {None}) :
                                   Before(sent, a, b)
                        /\ \A b \in ToSet(queue'[t]) :
                               hand'[t] # None => Before(sent, hand'[t], b)
      BY DEF OrderInv
    <2>1. Ordered(sent, queue'[t]) /\ Ordered(sent, out'[t])
      BY EmptyFacts DEF IInv, OrderInv
    <2> QED
      BY <1>1, <2>1 DEF IInv, OrderInv
  <1>6. RanInv'
    <2>1. ASSUME NEW n \in Node, stream'[n] # None, NEW a \in ToSet(ran),
                 NEW b \in Travelling(stream[n])', Dest[a] = n
          PROVE  Before(sent, a, b)
      <3>1. stream'[n] \in Stream
        BY <2>1 DEF TypeOK
      <3>2. ~Empty(stream[n])'
        BY <1>3, <2>1, <3>1 DEF Empty, Travelling
      <3>3. stream'[n] = stream[n] /\ b \in Travelling(stream[n])
        BY <1>2, <2>1, <3>1, <3>2 DEF Travelling
      <3> QED
        BY <2>1, <3>3 DEF IInv, RanInv
    <2> QED
      BY <2>1 DEF IInv, RanInv
  <1>7. RanOrderInv'
    BY DEF IInv, RanOrderInv
  <1> QED
    BY <1>4, <1>5, <1>6, <1>7

\* A command moves from the channel into the bridge's hand.
LEMMA RecvInv ==
    ASSUME IInv, NEW s \in Stream, BridgeRecv(s)
    PROVE  IInv'
  <1>0. /\ queue[s] \in Seq(Command) /\ queue[s] # <<>> /\ hand[s] = None
        /\ queue \in [Stream -> Seq(Command)]
    BY DEF IInv, TypeOK, SlotInv, BridgeRecv
  <1> DEFINE c == Head(queue[s])
  <1>1. /\ hand' = [hand EXCEPT ![s] = c]
        /\ queue' = [queue EXCEPT ![s] = Tail(queue[s])]
        /\ bridge' = [bridge EXCEPT ![s] = "send"]
        /\ UNCHANGED <<daemon, rest, owner, out, open, agents, outcomes, budget,
                       ghosts>>
    BY DEF BridgeRecv
  <1>2. /\ c \in Command /\ Tail(queue[s]) \in Seq(Command)
        /\ Len(Tail(queue[s])) <= Len(queue[s])
        /\ ToSet(queue[s]) = {c} \cup ToSet(Tail(queue[s]))
    BY <1>0, TailFacts
  <1>3. /\ Ordered(sent, Tail(queue[s]))
        /\ \A a \in ToSet(Tail(queue[s])) : Before(sent, c, a)
    BY <1>0, OrderedTail DEF IInv, OrderInv
  <1> HIDE DEF c
  <1>4. /\ hand'[s] = c /\ c # None /\ queue'[s] = Tail(queue[s])
        /\ \A t \in Stream \ {s} : queue'[t] = queue[t] /\ hand'[t] = hand[t]
    BY <1>1, <1>2, CommandAssumption DEF IInv, TypeOK
  <1>5. TypeOK'
    <2>1. queue' \in [Stream -> Seq(Command)]
      BY <1>0, <1>1, <1>2
    <2>2. \A t \in Stream : Len(queue'[t]) <= QueueCap
      <3>1. /\ Len(queue[s]) \in Nat /\ Len(Tail(queue[s])) \in Nat
            /\ \A t \in Stream : Len(queue[t]) <= QueueCap
        BY <1>0, <1>2 DEF IInv, TypeOK
      <3>2. Len(Tail(queue[s])) <= QueueCap
        BY <1>2, <3>1, CommandAssumption
      <3> QED
        BY <1>4, <3>1, <3>2
    <2> QED
      BY <1>1, <1>2, <2>1, <2>2
         DEF IInv, TypeOK, daemon, rest, agents, budget, ghosts
  <1>6. SlotInv' /\ HoldInv' /\ RegistryHoldsLiveBridges' /\ SenderInv' /\ SentInv'
    <2>1. \A t \in Stream : /\ bridge'[t] = "free" <=> bridge[t] = "free"
                            /\ ReceiverAlive(t) => ReceiverAlive(t)'
      BY <1>1 DEF BridgeRecv, IInv, TypeOK, ReceiverAlive
    <2>2. SlotInv'
      BY <1>1, <1>4, <2>1 DEF BridgeRecv, IInv, SlotInv, TypeOK
    <2>3. HoldInv' /\ SentInv'
      BY <1>1 DEF IInv, HoldInv, SentInv, agents, rest, ghosts
    <2>4. RegistryHoldsLiveBridges'
      BY <1>1, <2>1 DEF IInv, RegistryHoldsLiveBridges, daemon, TypeOK
    <2>5. SenderInv'
      BY <1>1, <2>1 DEF IInv, SenderInv, rest, TypeOK
    <2> QED
      BY <2>2, <2>3, <2>4, <2>5
  <1>7. \A t \in Stream : Travelling(t)' = Travelling(t)
    BY <1>0, <1>1, <1>2, <1>4 DEF Travelling
  <1>8. PlaceInv' /\ RanInv' /\ RanOrderInv'
    <2>1. /\ owner' = owner /\ sent' = sent /\ ran' = ran /\ stream' = stream
          /\ \A n \in Node : stream[n] # None => stream[n] \in Stream
      BY <1>1 DEF ghosts, agents, IInv, TypeOK
    <2>2. PlaceInv'
      BY <1>7, <2>1 DEF IInv, PlaceInv
    <2>3. \A n \in Node : stream[n] # None =>
              Travelling(stream[n])' = Travelling(stream[n])
      BY <1>7, <2>1 DEF Travelling
    <2> QED
      BY <2>1, <2>2, <2>3 DEF IInv, RanInv, RanOrderInv
  <1>9. OrderInv'
    <2> SUFFICES ASSUME NEW t \in Stream
                 PROVE  /\ Ordered(sent, queue'[t]) /\ Ordered(sent, out[t])
                        /\ \A a \in ToSet(out[t]) :
                               \A b \in ToSet(queue'[t]) \cup ({hand'[t]} \ {None}) :
                                   Before(sent, a, b)
                        /\ \A b \in ToSet(queue'[t]) :
                               hand'[t] # None => Before(sent, hand'[t], b)
      BY <1>1 DEF OrderInv, ghosts
    <2>1. CASE t # s
      BY <1>4, <2>1 DEF IInv, OrderInv
    <2>2. CASE t = s
      BY <1>2, <1>3, <1>4, <2>2 DEF IInv, OrderInv
    <2> QED
      BY <2>1, <2>2
  <1> QED
    BY <1>5, <1>6, <1>8, <1>9 DEF IInv

\* The command in hand is sent on.
LEMMA SendOnInv ==
    ASSUME IInv, NEW s \in Stream, BridgeSend(s)
    PROVE  IInv'
  <1> DEFINE c == hand[s]
  <1>0. /\ out[s] \in Seq(Command) /\ c \in Command /\ c # None
        /\ out \in [Stream -> Seq(Command)]
    BY DEF IInv, TypeOK, SlotInv, BridgeSend
  <1>1. /\ out' = [out EXCEPT ![s] = Append(out[s], c)]
        /\ hand' = [hand EXCEPT ![s] = None]
        /\ bridge' = [bridge EXCEPT ![s] = "recv"]
        /\ UNCHANGED <<daemon, rest, owner, queue, open, agents, outcomes, budget,
                       ghosts>>
    BY DEF BridgeSend
  <1>2. /\ Append(out[s], c) \in Seq(Command)
        /\ Len(Append(out[s], c)) = Len(out[s]) + 1
        /\ ToSet(Append(out[s], c)) = ToSet(out[s]) \cup {c}
    BY <1>0, AppendFacts
  <1>3. Ordered(sent, Append(out[s], c))
    BY <1>0, OrderedAppend DEF IInv, OrderInv
  <1>4. /\ hand'[s] = None /\ out'[s] = Append(out[s], c)
        /\ \A t \in Stream \ {s} : out'[t] = out[t] /\ hand'[t] = hand[t]
    BY <1>1 DEF IInv, TypeOK
  <1>5. TypeOK'
    <2>1. out' \in [Stream -> Seq(Command)]
      BY <1>0, <1>1, <1>2
    <2>2. \A t \in Stream : Len(out'[t]) <= OutCap
      BY <1>0, <1>2, <1>4, CommandAssumption DEF IInv, TypeOK, BridgeSend
    <2> QED
      BY <1>1, <2>1, <2>2
         DEF IInv, TypeOK, daemon, rest, agents, budget, ghosts
  <1>6. SlotInv' /\ HoldInv' /\ RegistryHoldsLiveBridges' /\ SenderInv' /\ SentInv'
    <2>1. \A t \in Stream : /\ bridge'[t] = "free" <=> bridge[t] = "free"
                            /\ ReceiverAlive(t) => ReceiverAlive(t)'
      BY <1>1 DEF BridgeSend, IInv, TypeOK, ReceiverAlive
    <2>2. SlotInv'
      BY <1>1, <1>4, <2>1 DEF BridgeSend, IInv, SlotInv, TypeOK
    <2>3. HoldInv' /\ SentInv'
      BY <1>1 DEF IInv, HoldInv, SentInv, agents, rest, ghosts
    <2>4. RegistryHoldsLiveBridges'
      BY <1>1, <2>1 DEF IInv, RegistryHoldsLiveBridges, daemon, TypeOK
    <2>5. SenderInv'
      BY <1>1, <2>1 DEF IInv, SenderInv, rest, TypeOK
    <2> QED
      BY <2>2, <2>3, <2>4, <2>5
  <1>7. \A t \in Stream : Travelling(t)' = Travelling(t)
    BY <1>0, <1>1, <1>2, <1>4 DEF Travelling
  <1>8. PlaceInv' /\ RanInv' /\ RanOrderInv'
    <2>1. /\ owner' = owner /\ sent' = sent /\ ran' = ran /\ stream' = stream
          /\ \A n \in Node : stream[n] # None => stream[n] \in Stream
      BY <1>1 DEF ghosts, agents, IInv, TypeOK
    <2>2. PlaceInv'
      BY <1>7, <2>1 DEF IInv, PlaceInv
    <2>3. \A n \in Node : stream[n] # None =>
              Travelling(stream[n])' = Travelling(stream[n])
      BY <1>7, <2>1 DEF Travelling
    <2> QED
      BY <2>1, <2>2, <2>3 DEF IInv, RanInv, RanOrderInv
  <1>9. OrderInv'
    <2> SUFFICES ASSUME NEW t \in Stream
                 PROVE  /\ Ordered(sent, queue[t]) /\ Ordered(sent, out'[t])
                        /\ \A a \in ToSet(out'[t]) :
                               \A b \in ToSet(queue[t]) \cup ({hand'[t]} \ {None}) :
                                   Before(sent, a, b)
                        /\ \A b \in ToSet(queue[t]) :
                               hand'[t] # None => Before(sent, hand'[t], b)
      BY <1>1 DEF OrderInv, ghosts
    <2>1. CASE t # s
      BY <1>4, <2>1 DEF IInv, OrderInv
    <2>2. CASE t = s
      BY <1>0, <1>2, <1>3, <1>4, <2>2 DEF IInv, OrderInv
    <2> QED
      BY <2>1, <2>2
  <1> QED
    BY <1>5, <1>6, <1>8, <1>9 DEF IInv

\* A bridge gives up: its channel drained and its senders gone, or its agent
\* gone.
LEMMA GivesUpInv ==
    ASSUME IInv, NEW s \in Stream, BridgeEnd(s) \/ BridgeHangup(s)
    PROVE  IInv'
  <1>1. /\ bridge[s] \in {"recv", "send"}
        /\ bridge' = [bridge EXCEPT ![s] = "detach"]
        /\ hand' = [hand EXCEPT ![s] = None]
        /\ UNCHANGED <<daemon, rest, owner, queue, out, open, agents, outcomes,
                       budget, ghosts>>
    BY DEF BridgeEnd, BridgeHangup, IInv, SlotInv, TypeOK
  <1>2. TypeOK'
    BY <1>1 DEF IInv, TypeOK, daemon, rest, agents, budget, ghosts
  <1>3. \A t \in Stream : /\ bridge'[t] = "free" <=> bridge[t] = "free"
                          /\ ReceiverAlive(t) => ReceiverAlive(t)'
    BY <1>1 DEF IInv, TypeOK, ReceiverAlive
  <1>4. SlotInv'
    BY <1>1, <1>3 DEF IInv, SlotInv, TypeOK
  <1>5. HoldInv' /\ SentInv'
    BY <1>1 DEF IInv, HoldInv, SentInv, agents, rest, ghosts
  <1>6. RegistryHoldsLiveBridges'
    BY <1>1, <1>3 DEF IInv, RegistryHoldsLiveBridges, daemon, TypeOK
  <1>7. SenderInv'
    BY <1>1, <1>3 DEF IInv, SenderInv, rest, TypeOK
  <1>8. PlaceInv' /\ OrderInv' /\ RanInv' /\ RanOrderInv'
    <2>1. /\ UNCHANGED <<queue, out, owner, stream, sent, ran>>
          /\ \A t \in Stream : hand'[t] \in {hand[t], None}
      BY <1>1 DEF agents, ghosts, IInv, TypeOK
    <2> QED
      BY <1>2, <2>1, StreamsShrink
  <1> QED
    BY <1>2, <1>4, <1>5, <1>6, <1>7, <1>8 DEF IInv

\* What Freed makes of the slots.
LEMMA FreedFacts ==
    ASSUME TypeOK, NEW s \in Stream, Freed(s)
    PROVE  /\ bridge'[s] = "free" /\ owner'[s] = None /\ queue'[s] = <<>>
           /\ hand'[s] = None /\ out'[s] = <<>> /\ open'[s] = FALSE
           /\ \A t \in Stream \ {s} :
                  /\ bridge'[t] = bridge[t] /\ owner'[t] = owner[t]
                  /\ queue'[t] = queue[t] /\ hand'[t] = hand[t]
                  /\ out'[t] = out[t]
           /\ bridge' \in [Stream -> {"free", "recv", "send", "detach", "done"}]
           /\ owner' \in [Stream -> Node \cup {None}]
           /\ queue' \in [Stream -> Seq(Command)]
           /\ out' \in [Stream -> Seq(Command)]
           /\ \A t \in Stream : Len(queue'[t]) <= QueueCap /\ Len(out'[t]) <= OutCap
           /\ hand' \in [Stream -> Command \cup {None}]
           /\ open' \in [Stream -> BOOLEAN]
  <1>1. <<>> \in Seq(Command) /\ Len(<<>>) <= QueueCap /\ Len(<<>>) <= OutCap
    BY CommandAssumption
  <1> QED
    BY <1>1 DEF TypeOK, Freed

\* A bridge detaches its node before its channel is gone, so the registry keeps
\* no sender of a channel without a reader.
LEMMA DetachInv ==
    ASSUME IInv, NEW s \in Stream, BridgeDetach(s)
    PROVE  IInv'
  <1>0. /\ bridge[s] = "detach" /\ owner[s] \in Node /\ hand[s] = None
        /\ channels' = [channels EXCEPT ![owner[s]] = None]
        /\ UNCHANGED <<known, removing, rest, agents, outcomes, budget, ghosts>>
    BY DEF IInv, SlotInv, BridgeDetach, Detach
  <1>1. \A n \in Node : channels'[n] # None =>
            channels'[n] = channels[n] /\ channels[n] \in Stream \ {s}
    BY <1>0 DEF IInv, TypeOK, RegistryHoldsLiveBridges
  <1>2. channels' \in [Node -> Stream \cup {None}]
    BY <1>0 DEF IInv, TypeOK
  <1>3. CASE /\ bridge' = [bridge EXCEPT ![s] = "done"]
             /\ queue' = [queue EXCEPT ![s] = <<>>]
             /\ UNCHANGED <<owner, hand, out, open>>
    <2>1. TypeOK'
      <3>1. <<>> \in Seq(Command) /\ Len(<<>>) <= QueueCap
        BY CommandAssumption
      <3> QED
        BY <1>0, <1>2, <1>3, <3>1 DEF IInv, TypeOK, rest, agents, budget, ghosts
    <2>2. \A t \in Stream : /\ bridge'[t] = "free" <=> bridge[t] = "free"
                            /\ t # s => bridge'[t] = bridge[t]
                            /\ queue'[t] \in {queue[t], <<>>}
      BY <1>0, <1>3 DEF IInv, TypeOK
    <2>3. SlotInv'
      BY <1>0, <1>3, <2>2 DEF IInv, SlotInv, TypeOK
    <2>4. HoldInv' /\ SentInv'
      BY <1>0, <1>3 DEF IInv, HoldInv, SentInv, agents, rest, ghosts
    <2>5. RegistryHoldsLiveBridges'
      BY <1>1, <1>3, <2>2 DEF IInv, RegistryHoldsLiveBridges, ReceiverAlive
    <2>6. SenderInv'
      BY <1>0, <1>3, <2>2 DEF IInv, SenderInv, rest, TypeOK
    <2>7. PlaceInv' /\ OrderInv' /\ RanInv' /\ RanOrderInv'
      BY <1>0, <1>3, <2>1, <2>2, StreamsShrink DEF agents, ghosts
    <2> QED
      BY <2>1, <2>3, <2>4, <2>5, <2>6, <2>7 DEF IInv
  <1>4. CASE ~Held(s) /\ Freed(s)
    <2>0. TypeOK
      BY DEF IInv
    <2>1. TypeOK'
      BY <1>0, <1>2, <1>4, <2>0, FreedFacts DEF TypeOK, rest, agents, budget, ghosts
    <2>a. /\ bridge'[s] = "free" /\ owner'[s] = None /\ queue'[s] = <<>>
          /\ hand'[s] = None /\ out'[s] = <<>>
          /\ \A t \in Stream \ {s} :
                 /\ bridge'[t] = bridge[t] /\ owner'[t] = owner[t]
                 /\ queue'[t] = queue[t] /\ hand'[t] = hand[t]
                 /\ out'[t] = out[t]
      BY <1>4, <2>0, FreedFacts
    <2>2. SlotInv'
      BY <2>a DEF IInv, SlotInv
    <2>3. HoldInv'
      <3>1. \A n \in Node : stream[n] # None => stream[n] \in Stream \ {s}
        BY <1>4 DEF Held, IInv, TypeOK
      <3>2. stream' = stream /\ session' = session /\ job' = job
        BY <1>0 DEF agents
      <3> QED
        BY <2>a, <3>1, <3>2 DEF IInv, HoldInv
    <2>4. SentInv'
      BY <1>0 DEF IInv, SentInv, rest, ghosts
    <2>5. RegistryHoldsLiveBridges'
      BY <1>1, <2>a DEF IInv, RegistryHoldsLiveBridges, ReceiverAlive
    <2>6. SenderInv'
      <3>1. \A c \in Command : sender[c] # None => sender[c] \in Stream
        BY <2>0 DEF TypeOK
      <3> QED
        BY <1>0, <2>a, <3>1 DEF IInv, SenderInv, rest
    <2>7. PlaceInv' /\ OrderInv' /\ RanInv' /\ RanOrderInv'
      <3>1. \A t \in Stream :
               /\ queue'[t] \in {queue[t], <<>>}
               /\ out'[t] \in {out[t], <<>>}
               /\ hand'[t] \in {hand[t], None}
               /\ owner'[t] = owner[t] \/ Empty(t)'
        BY <2>a DEF Empty
      <3> QED
        BY <1>0, <2>1, <3>1, StreamsShrink DEF agents, ghosts
    <2> QED
      BY <2>1, <2>2, <2>3, <2>4, <2>5, <2>6, <2>7 DEF IInv
  <1> QED
    BY <1>3, <1>4 DEF BridgeDetach

\* The response stream is dropped.
LEMMA NoticeInv ==
    ASSUME IInv, NEW s \in Stream, NoticeHangup(s)
    PROVE  IInv'
  <1>1. /\ open' = [open EXCEPT ![s] = FALSE]
        /\ UNCHANGED <<daemon, rest, bridge, owner, queue, hand, out, agents,
                       outcomes, budget, ghosts>>
    BY DEF NoticeHangup
  <1>2. TypeOK'
    BY <1>1 DEF IInv, TypeOK, daemon, rest, agents, budget, ghosts
  <1>3. SlotInv' /\ HoldInv' /\ RegistryHoldsLiveBridges' /\ SenderInv' /\ SentInv'
    BY <1>1 DEF IInv, SlotInv, HoldInv, RegistryHoldsLiveBridges, ReceiverAlive,
                SenderInv, SentInv, daemon, rest, agents, ghosts
  <1>4. PlaceInv' /\ OrderInv' /\ RanInv' /\ RanOrderInv'
    BY <1>1, <1>2, StreamsShrink DEF agents, ghosts
  <1> QED
    BY <1>2, <1>3, <1>4 DEF IInv

\* Every step of a bridge keeps the invariant.
LEMMA BridgeInv ==
    ASSUME IInv, NEW s \in Stream, Bridge(s) \/ NoticeHangup(s)
    PROVE  IInv'
  BY RecvInv, SendOnInv, GivesUpInv, DetachInv, NoticeInv DEF Bridge

-----------------------------------------------------------------------------
(* Agents. *)

\* What travels are commands.
LEMMA TravellingType ==
    ASSUME TypeOK, NEW s \in Stream
    PROVE  Travelling(s) \subseteq Command
  <1>1. queue[s] \in Seq(Command) /\ out[s] \in Seq(Command)
        /\ hand[s] \in Command \cup {None}
    BY DEF TypeOK
  <1> QED
    BY <1>1, ToSetType DEF Travelling

\* The agent registers or asks for a stream; a node is dropped from the table.
LEMMA QuietInv ==
    ASSUME IInv,
           known' \subseteq Node, removing' \subseteq Node,
           deregisters' \in 0..MaxDeregister,
           session' \in [Node -> {"down", "registered", "attaching", "serving",
                                  "running", "reporting"}],
           \A n \in Node : session'[n] \in Busy <=> session[n] \in Busy,
           UNCHANGED <<channels, rest, streams, stream, job, orphan, outcomes,
                       faults, ghosts>>
    PROVE  IInv'
  <1> USE DEF rest, streams, ghosts
  <1>1. TypeOK'
    BY DEF IInv, TypeOK
  <1>2. SlotInv' /\ HoldInv' /\ RegistryHoldsLiveBridges' /\ SenderInv' /\ SentInv'
    BY DEF IInv, SlotInv, HoldInv, RegistryHoldsLiveBridges, ReceiverAlive,
           SenderInv, SentInv
  <1>3. PlaceInv' /\ OrderInv' /\ RanInv' /\ RanOrderInv'
    BY <1>1, StreamsShrink
  <1> QED
    BY <1>1, <1>2, <1>3 DEF IInv

\* A registry entry is removed.
LEMMA DeregisterDetachInv ==
    ASSUME IInv, NEW n \in Node, DeregisterDetach(n)
    PROVE  IInv'
  <1>1. /\ channels' = [channels EXCEPT ![n] = None]
        /\ removing' = removing \ {n}
        /\ UNCHANGED <<known, rest, streams, agents, outcomes, budget, ghosts>>
    BY DEF DeregisterDetach, Detach
  <1>2. TypeOK'
    BY <1>1 DEF IInv, TypeOK, rest, streams, agents, budget, ghosts
  <1>3. RegistryHoldsLiveBridges'
    BY <1>1 DEF IInv, RegistryHoldsLiveBridges, ReceiverAlive, TypeOK, streams
  <1>4. SenderInv' /\ SentInv'
    BY <1>1 DEF IInv, SenderInv, SentInv, rest, streams, ghosts
  <1> QED
    BY <1>1, <1>2, <1>3, <1>4, StreamsKept DEF IInv, agents, ghosts

\* A stream starts on a free, empty slot that no handler still refers to.
LEMMA AttachInv ==
    ASSUME IInv, NEW n \in Node, NEW s \in Stream,
           AgentAttach(n, s) \/ OrphanAttach(n, s)
    PROVE  IInv'
  <1>1. /\ bridge[s] = "free" /\ \A c \in Command : sender[c] # s
        /\ channels' = [channels EXCEPT ![n] = s]
        /\ bridge' = [bridge EXCEPT ![s] = "recv"]
        /\ owner' = [owner EXCEPT ![s] = n]
        /\ UNCHANGED <<known, removing, rest, queue, hand, out, job, outcomes,
                       budget, ghosts>>
    BY DEF AgentAttach, OrphanAttach, AttachStream
  <1>2. open' \in [Stream -> BOOLEAN]
    BY DEF AgentAttach, OrphanAttach, AttachStream, IInv, TypeOK
  <1>3. /\ stream' \in [Node -> Stream \cup {None}]
        /\ stream'[n] \in {stream[n], s}
        /\ \A m \in Node \ {n} : stream'[m] = stream[m]
        /\ orphan' \in [Node -> BOOLEAN]
        /\ session' \in [Node -> {"down", "registered", "attaching", "serving",
                                  "running", "reporting"}]
        /\ \A m \in Node : session'[m] \in Busy <=> session[m] \in Busy
    BY DEF AgentAttach, OrphanAttach, IInv, TypeOK
  <1>4. queue[s] = <<>> /\ out[s] = <<>> /\ hand[s] = None /\ owner[s] = None
    BY <1>1 DEF IInv, SlotInv
  <1>5. TypeOK'
    BY <1>1, <1>2, <1>3 DEF IInv, TypeOK, rest, budget, ghosts
  <1>6. /\ bridge'[s] = "recv" /\ owner'[s] = n
        /\ \A t \in Stream \ {s} : bridge'[t] = bridge[t] /\ owner'[t] = owner[t]
        /\ channels'[n] = s
        /\ \A m \in Node \ {n} : channels'[m] = channels[m]
    BY <1>1 DEF IInv, TypeOK
  <1>7. SlotInv'
    BY <1>1, <1>4, <1>6 DEF IInv, SlotInv
  <1>8. HoldInv'
    <2>1. \A m \in Node : stream[m] # None => stream[m] \in Stream \ {s}
      BY <1>4, CommandAssumption DEF IInv, HoldInv, TypeOK
    <2> QED
      BY <1>1, <1>3, <1>6, <2>1 DEF IInv, HoldInv
  <1>9. RegistryHoldsLiveBridges'
    <2>1. ASSUME NEW m \in Node, channels[m] # None
          PROVE  channels[m] \in Stream \ {s}
      <3>1. channels[m] \in Stream /\ ReceiverAlive(channels[m])
        BY <2>1 DEF IInv, RegistryHoldsLiveBridges, TypeOK
      <3>2. bridge[channels[m]] # "free"
        BY <3>1 DEF ReceiverAlive
      <3> QED
        BY <1>1, <3>1, <3>2
    <2> QED
      BY <1>6, <2>1 DEF IInv, RegistryHoldsLiveBridges, ReceiverAlive
  <1>10. SenderInv'
    <2>1. \A c \in Command : sender[c] # None => sender[c] \in Stream \ {s}
      BY <1>1 DEF IInv, TypeOK
    <2> QED
      BY <1>1, <1>6, <2>1 DEF IInv, SenderInv, rest
  <1>11. SentInv'
    BY <1>1 DEF IInv, SentInv, rest, ghosts
  <1>12. PlaceInv' /\ OrderInv' /\ RanInv' /\ RanOrderInv'
    <2>1. Empty(s)'
      BY <1>1, <1>4 DEF Empty
    <2>2. \A t \in Stream : owner'[t] = owner[t] \/ Empty(t)'
      BY <1>6, <2>1 DEF Empty
    <2>3. \A m \in Node : stream'[m] \in {stream[m], None} \/ Empty(stream[m])'
      <3> SUFFICES ASSUME NEW m \in Node, stream'[m] # stream[m]
                   PROVE  Empty(stream[m])'
        OBVIOUS
      <3>1. stream'[m] = s
        BY <1>3
      <3> QED
        BY <2>1, <3>1 DEF Empty
    <2> QED
      BY <1>1, <1>5, <2>2, <2>3, StreamsShrink DEF ghosts
  <1> QED
    BY <1>5, <1>7, <1>8, <1>9, <1>10, <1>11, <1>12 DEF IInv

\* The agent takes the oldest command of its stream and runs it.
LEMMA ReceiveInv ==
    ASSUME IInv, NEW n \in Node, AgentReceive(n)
    PROVE  IInv'
  <1> DEFINE s == stream[n]
             c == Head(out[s])
  <1>0. /\ s \in Stream /\ owner[s] = n /\ out[s] # <<>>
        /\ out[s] \in Seq(Command) /\ out \in [Stream -> Seq(Command)]
        /\ session[n] = "serving" /\ stream[n] # None /\ ran \in Seq(Command)
    BY DEF IInv, TypeOK, HoldInv, AgentReceive
  <1>1. /\ job' = [job EXCEPT ![n] = c]
        /\ out' = [out EXCEPT ![s] = Tail(out[s])]
        /\ ran' = Append(ran, c)
        /\ session' = [session EXCEPT ![n] = "running"]
        /\ UNCHANGED <<daemon, rest, bridge, owner, queue, hand, open, stream,
                       orphan, outcomes, budget, sent, hurt>>
    BY DEF AgentReceive
  <1>2. /\ c \in Command /\ Tail(out[s]) \in Seq(Command)
        /\ Len(Tail(out[s])) <= Len(out[s])
        /\ ToSet(out[s]) = {c} \cup ToSet(Tail(out[s]))
    BY <1>0, TailFacts
  <1>3. /\ Ordered(sent, Tail(out[s]))
        /\ \A a \in ToSet(Tail(out[s])) : Before(sent, c, a)
    BY <1>0, OrderedTail DEF IInv, OrderInv
  <1>4. /\ ran' \in Seq(Command) /\ ToSet(ran') = ToSet(ran) \cup {c}
    BY <1>0, <1>1, <1>2, AppendFacts
  <1>5. c \in Travelling(s) /\ c \in ToSet(sent) /\ Dest[c] = n
    BY <1>0, <1>2 DEF IInv, PlaceInv, Travelling
  <1> HIDE DEF c, s
  <1>6. /\ out'[s] = Tail(out[s]) /\ c # None
        /\ \A t \in Stream \ {s} : out'[t] = out[t]
    BY <1>0, <1>1, <1>2, CommandAssumption
  <1>7. TypeOK'
    <2>1. out' \in [Stream -> Seq(Command)]
      BY <1>0, <1>1, <1>2
    <2>2. \A t \in Stream : Len(out'[t]) <= OutCap
      <3>1. Len(out[s]) \in Nat /\ Len(Tail(out[s])) \in Nat /\ Len(out[s]) <= OutCap
        BY <1>0, <1>2 DEF IInv, TypeOK
      <3>2. Len(out'[s]) <= OutCap
        BY <1>2, <1>6, <3>1, CommandAssumption
      <3>3. \A t \in Stream \ {s} : Len(out'[t]) <= OutCap
        BY <1>6 DEF IInv, TypeOK
      <3> QED
        BY <3>2, <3>3
    <2> QED
      BY <1>1, <1>2, <1>4, <2>1, <2>2 DEF IInv, TypeOK, daemon, rest, budget
  <1>8. SlotInv'
    BY <1>0, <1>1, <1>6 DEF IInv, SlotInv
  <1>9. HoldInv'
    BY <1>1, <1>6 DEF IInv, HoldInv, TypeOK
  <1>10. RegistryHoldsLiveBridges' /\ SenderInv' /\ SentInv'
    BY <1>1 DEF IInv, RegistryHoldsLiveBridges, ReceiverAlive, SenderInv, SentInv,
                daemon, rest
  <1>11. \A t \in Stream : Travelling(t)' \subseteq Travelling(t)
    BY <1>1, <1>2, <1>6 DEF Travelling
  <1>12. PlaceInv'
    BY <1>1, <1>11 DEF IInv, PlaceInv
  <1>13. OrderInv'
    <2> SUFFICES ASSUME NEW t \in Stream
                 PROVE  /\ Ordered(sent, queue[t]) /\ Ordered(sent, out'[t])
                        /\ \A a \in ToSet(out'[t]) :
                               \A b \in ToSet(queue[t]) \cup ({hand[t]} \ {None}) :
                                   Before(sent, a, b)
                        /\ \A b \in ToSet(queue[t]) :
                               hand[t] # None => Before(sent, hand[t], b)
      BY <1>1 DEF OrderInv
    <2>1. CASE t # s
      BY <1>6, <2>1 DEF IInv, OrderInv
    <2>2. CASE t = s
      BY <1>2, <1>3, <1>6, <2>2 DEF IInv, OrderInv
    <2> QED
      BY <2>1, <2>2
  <1>14. \A b \in ToSet(queue[s]) \cup ({hand[s]} \ {None}) \cup ToSet(out'[s]) :
            Before(sent, c, b)
    BY <1>0, <1>2, <1>3, <1>6 DEF IInv, OrderInv
  <1>15. RanInv'
    <2>1. ASSUME NEW m \in Node, stream'[m] # None, NEW a \in ToSet(ran'),
                 NEW b \in Travelling(stream[m])', Dest[a] = m
          PROVE  Before(sent, a, b)
      <3>1. stream'[m] = stream[m] /\ stream[m] \in Stream
            /\ b \in Travelling(stream[m])
        BY <1>1, <1>11, <2>1 DEF IInv, TypeOK, Travelling
      <3>2. CASE a \in ToSet(ran)
        BY <2>1, <3>1, <3>2 DEF IInv, RanInv
      <3>3. CASE a = c
        <4>1. m = n /\ stream[m] = s
          BY <1>5, <2>1, <3>3 DEF s
        <4>2. b \in ToSet(queue[s]) \cup ({hand[s]} \ {None}) \cup ToSet(out'[s])
          BY <1>1, <2>1, <3>1, <4>1 DEF Travelling
        <4> QED
          BY <1>14, <3>3, <4>2
      <3> QED
        BY <1>4, <2>1, <3>2, <3>3
    <2>2. ToSet(ran') \subseteq ToSet(sent')
      BY <1>1, <1>4, <1>5 DEF IInv, RanInv
    <2> QED
      BY <1>1, <2>1, <2>2 DEF RanInv
  <1>16. RanOrderInv'
    <2>1. /\ DOMAIN ran' = 1..(Len(ran) + 1) /\ DOMAIN ran = 1..Len(ran)
          /\ ran'[Len(ran) + 1] = c
          /\ \A i \in 1..Len(ran) : ran'[i] = ran[i]
          /\ Len(ran) \in Nat
      BY <1>0, <1>1, <1>2
    <2>2. \A a \in ToSet(ran) : Dest[a] = n => Before(sent, a, c)
      BY <1>0, <1>5 DEF IInv, RanInv, s
    <2>3. ASSUME NEW i \in DOMAIN ran', NEW j \in DOMAIN ran', i < j,
                 Dest[ran'[i]] = Dest[ran'[j]]
          PROVE  Before(sent, ran'[i], ran'[j])
      <3>1. i \in 1..Len(ran) /\ ran'[i] = ran[i] /\ ran[i] \in ToSet(ran)
        BY <2>1, <2>3 DEF ToSet
      <3>2. CASE j \in 1..Len(ran)
        BY <2>1, <2>3, <3>1, <3>2 DEF IInv, RanOrderInv
      <3>3. CASE j = Len(ran) + 1
        BY <1>5, <2>1, <2>2, <2>3, <3>1, <3>3
      <3> QED
        BY <2>1, <2>3, <3>2, <3>3
    <2> QED
      BY <1>1, <2>3 DEF RanOrderInv
  <1> QED
    BY <1>7, <1>8, <1>9, <1>10, <1>12, <1>13, <1>15, <1>16 DEF IInv

\* The outcome is recorded.
LEMMA ReportInv ==
    ASSUME IInv, NEW n \in Node, AgentReport(n)
    PROVE  IInv'
  <1>1. job[n] \in Command /\ IdOf[job[n]] \in Id
    BY CommandAssumption DEF AgentReport, IInv, HoldInv, TypeOK
  <1>2. /\ session[n] = "reporting"
        /\ outcomes' = [outcomes EXCEPT ![IdOf[job[n]]] = job[n]]
        /\ session' = [session EXCEPT ![n] = "serving"]
        /\ job' = [job EXCEPT ![n] = None]
        /\ UNCHANGED <<daemon, rest, streams, stream, orphan, budget, ghosts>>
    BY DEF AgentReport, PutOutcome
  <1>3. TypeOK'
    BY <1>1, <1>2 DEF IInv, TypeOK, daemon, rest, streams, budget, ghosts
  <1>4. SlotInv' /\ RegistryHoldsLiveBridges' /\ SenderInv' /\ SentInv'
    BY <1>2 DEF IInv, SlotInv, RegistryHoldsLiveBridges, ReceiverAlive, SenderInv,
                SentInv, daemon, rest, streams, ghosts
  <1>5. HoldInv'
    BY <1>2 DEF IInv, HoldInv, TypeOK, streams
  <1>6. PlaceInv' /\ OrderInv' /\ RanInv' /\ RanOrderInv'
    BY <1>2, <1>3, StreamsShrink DEF streams, ghosts
  <1> QED
    BY <1>3, <1>4, <1>5, <1>6 DEF IInv

\* A session ends, in good order or not.
LEMMA EndSessionInv ==
    ASSUME IInv, NEW n \in Node, EndSession(n),
           outcomes' \in [Id -> Command \cup {None}],
           orphan' \in [Node -> BOOLEAN], faults' \in 0..MaxFaults,
           UNCHANGED <<daemon, rest, deregisters, sent, ran>>
    PROVE  IInv'
  <1> DEFINE s == stream[n]
  <1>0. TypeOK
    BY DEF IInv
  <1>1. /\ session' = [session EXCEPT ![n] = "down"]
        /\ stream' = [stream EXCEPT ![n] = None]
        /\ job' = [job EXCEPT ![n] = None]
        /\ UNCHANGED streams \/ (s # None /\ bridge[s] = "done" /\ Freed(s))
        /\ hurt' = hurt \/ (s # None /\ hurt' = hurt \cup Travelling(s))
    BY DEF EndSession
  <1>2. hurt' \subseteq Command
    <2>1. s # None => s \in Stream
      BY <1>0 DEF TypeOK
    <2> QED
      BY <1>0, <1>1, <2>1, TravellingType DEF TypeOK
  <1>3. SentInv'
    BY DEF IInv, SentInv, rest
  <1>4. /\ stream' \in [Node -> Stream \cup {None}]
        /\ \A m \in Node : stream'[m] \in {stream[m], None}
        /\ stream'[n] = None
        /\ \A m \in Node : session'[m] \in Busy <=> job'[m] # None
    BY <1>0, <1>1 DEF TypeOK, IInv, HoldInv
  <1>5. CASE UNCHANGED streams
    <2>1. TypeOK'
      BY <1>0, <1>1, <1>2, <1>5 DEF TypeOK, daemon, rest, streams
    <2>2. SlotInv' /\ RegistryHoldsLiveBridges' /\ SenderInv'
      BY <1>5 DEF IInv, SlotInv, RegistryHoldsLiveBridges, ReceiverAlive, SenderInv,
                  daemon, rest, streams
    <2>3. HoldInv'
      BY <1>4, <1>5 DEF IInv, HoldInv, streams
    <2>4. PlaceInv' /\ OrderInv' /\ RanInv' /\ RanOrderInv'
      BY <1>4, <1>5, <2>1, StreamsShrink DEF streams
    <2> QED
      BY <1>3, <2>1, <2>2, <2>3, <2>4 DEF IInv
  <1>6. CASE s # None /\ bridge[s] = "done" /\ Freed(s)
    <2>0. s \in Stream /\ owner[s] = n
      BY <1>0, <1>6 DEF TypeOK, IInv, HoldInv
    <2>1. /\ bridge'[s] = "free" /\ owner'[s] = None /\ queue'[s] = <<>>
          /\ hand'[s] = None /\ out'[s] = <<>>
          /\ \A t \in Stream \ {s} :
                 /\ bridge'[t] = bridge[t] /\ owner'[t] = owner[t]
                 /\ queue'[t] = queue[t] /\ hand'[t] = hand[t]
                 /\ out'[t] = out[t]
      BY <1>0, <1>6, <2>0, FreedFacts
    <2>2. TypeOK'
      <3>1. /\ bridge' \in [Stream -> {"free", "recv", "send", "detach", "done"}]
            /\ owner' \in [Stream -> Node \cup {None}]
            /\ queue' \in [Stream -> Seq(Command)]
            /\ out' \in [Stream -> Seq(Command)]
            /\ \A t \in Stream : Len(queue'[t]) <= QueueCap /\ Len(out'[t]) <= OutCap
            /\ hand' \in [Stream -> Command \cup {None}]
            /\ open' \in [Stream -> BOOLEAN]
        BY <1>0, <1>6, <2>0, FreedFacts
      <3> QED
        BY <1>0, <1>1, <1>2, <3>1 DEF TypeOK, daemon, rest
    <2> HIDE DEF s
    <2>3. SlotInv'
      BY <2>1 DEF IInv, SlotInv
    <2>4. HoldInv'
      <3>1. \A m \in Node : stream'[m] # None =>
               stream'[m] = stream[m] /\ stream[m] \in Stream \ {s}
        BY <1>0, <1>4, <2>0 DEF IInv, HoldInv, TypeOK, s
      <3> QED
        BY <1>4, <2>1, <3>1 DEF IInv, HoldInv
    <2>5. RegistryHoldsLiveBridges'
      <3>1. ASSUME NEW m \in Node, channels[m] # None
            PROVE  channels[m] \in Stream \ {s}
        <4>1. channels[m] \in Stream /\ ReceiverAlive(channels[m])
          BY <1>0, <3>1 DEF IInv, RegistryHoldsLiveBridges, TypeOK
        <4> QED
          BY <1>6, <4>1 DEF ReceiverAlive
      <3> QED
        BY <2>1, <3>1 DEF IInv, RegistryHoldsLiveBridges, ReceiverAlive, daemon
    <2>6. SenderInv'
      <3>1. \A c \in Command : sender[c] # None => sender[c] \in Stream
        BY <1>0 DEF TypeOK
      <3> QED
        BY <2>1, <3>1 DEF IInv, SenderInv, rest
    <2>7. PlaceInv' /\ OrderInv' /\ RanInv' /\ RanOrderInv'
      <3>1. \A t \in Stream :
               /\ queue'[t] \in {queue[t], <<>>}
               /\ out'[t] \in {out[t], <<>>}
               /\ hand'[t] \in {hand[t], None}
               /\ owner'[t] = owner[t] \/ Empty(t)'
        BY <2>1 DEF Empty
      <3> QED
        BY <1>4, <2>2, <3>1, StreamsShrink
    <2> QED
      BY <1>3, <2>2, <2>3, <2>4, <2>5, <2>6, <2>7 DEF IInv
  <1> QED
    BY <1>1, <1>5, <1>6

\* A failed session may have had its report recorded and may leave a handler
\* behind.
LEMMA AgentFailsInv ==
    ASSUME IInv, NEW n \in Node, AgentFails(n)
    PROVE  IInv'
  <1>1. session[n] = "reporting" => job[n] \in Command /\ IdOf[job[n]] \in Id
    BY CommandAssumption DEF IInv, HoldInv, TypeOK
  <1>2. outcomes' \in [Id -> Command \cup {None}]
    BY <1>1 DEF AgentFails, PutOutcome, IInv, TypeOK
  <1>3. orphan' \in [Node -> BOOLEAN]
    BY DEF AgentFails, IInv, TypeOK
  <1>4. faults' \in 0..MaxFaults
    BY CommandAssumption DEF AgentFails, IInv, TypeOK
  <1> QED
    BY <1>2, <1>3, <1>4, EndSessionInv DEF AgentFails

\* The daemon comes back with empty slots and an empty registry.
LEMMA RestartInv ==
    ASSUME IInv, DaemonRestart
    PROVE  IInv'
  <1>1. TypeOK'
    <2>1. hurt' \subseteq Command
      BY TravellingType DEF DaemonRestart, IInv, TypeOK
    <2>2. faults' \in 0..MaxFaults
      BY CommandAssumption DEF DaemonRestart, IInv, TypeOK
    <2>3. /\ queue' \in [Stream -> Seq(Command)] /\ out' \in [Stream -> Seq(Command)]
          /\ \A s \in Stream : Len(queue'[s]) <= QueueCap /\ Len(out'[s]) <= OutCap
      BY CommandAssumption DEF DaemonRestart
    <2> QED
      BY <2>1, <2>2, <2>3 DEF DaemonRestart, IInv, TypeOK
  <1>2. SlotInv' /\ RegistryHoldsLiveBridges'
    BY DEF DaemonRestart, SlotInv, RegistryHoldsLiveBridges
  <1>3. HoldInv'
    BY DEF DaemonRestart, IInv, HoldInv, TypeOK
  <1>4. SenderInv' /\ SentInv'
    BY DEF DaemonRestart, IInv, SenderInv, SentInv, TypeOK
  <1>5. PlaceInv' /\ OrderInv' /\ RanInv' /\ RanOrderInv'
    <2>1. \A t \in Stream : queue'[t] = <<>> /\ out'[t] = <<>> /\ hand'[t] = None
      BY DEF DaemonRestart
    <2>2. \A n \in Node : stream'[n] = None
      BY DEF DaemonRestart
    <2> QED
      BY <1>1, <2>1, <2>2, StreamsShrink DEF DaemonRestart, Empty
  <1> QED
    BY <1>1, <1>2, <1>3, <1>4, <1>5 DEF IInv

-----------------------------------------------------------------------------
(* The theorems. *)

LEMMA InitIInv == Init => IInv
  <1> SUFFICES ASSUME Init PROVE IInv
    OBVIOUS
  <1>1. TypeOK
    <2>1. <<>> \in Seq(Command) /\ Len(<<>>) = 0
      OBVIOUS
    <2> QED
      BY <2>1, CommandAssumption DEF Init, TypeOK
  <1>2. SlotInv /\ HoldInv /\ RegistryHoldsLiveBridges /\ SenderInv
    BY DEF Init, SlotInv, HoldInv, RegistryHoldsLiveBridges, SenderInv
  <1>3. SentInv
    BY EmptyFacts DEF Init, SentInv, Once
  <1>4. PlaceInv /\ OrderInv /\ RanInv /\ RanOrderInv
    BY EmptyFacts DEF Init, PlaceInv, Travelling, OrderInv, RanInv, RanOrderInv
  <1> QED
    BY <1>1, <1>2, <1>3, <1>4 DEF IInv

\* Every step of a handler, a bridge, an agent or the daemon keeps the invariant.
LEMMA NextIInv == IInv /\ [Next]_vars => IInv'
  <1> SUFFICES ASSUME IInv, [Next]_vars PROVE IInv'
    OBVIOUS
  <1>1. CASE \E c \in Command : Rest(c)
    BY <1>1, RestInv
  <1>2. CASE \E s \in Stream : Bridge(s) \/ NoticeHangup(s)
    BY <1>2, BridgeInv
  <1>3. ASSUME NEW n \in Node, Agent(n) PROVE IInv'
    <2>1. CASE AgentRegister(n)
      BY <2>1, QuietInv DEF AgentRegister, IInv, TypeOK, daemon, budget
    <2>2. CASE AgentOpenStream(n)
      BY <2>2, QuietInv DEF AgentOpenStream, IInv, TypeOK, daemon, budget
    <2>3. CASE AgentReceive(n)
      BY <2>3, ReceiveInv
    <2>4. CASE AgentReport(n)
      BY <2>4, ReportInv
    <2>5. CASE AgentStreamClosed(n) \/ AgentStreamBroken(n) \/ AgentReregister(n)
      <3>1. EndSession(n) /\ UNCHANGED <<daemon, rest, orphan, outcomes, budget,
                                         sent, ran>>
        BY <2>5 DEF AgentStreamClosed, AgentStreamBroken, AgentReregister
      <3> QED
        BY <3>1, EndSessionInv DEF IInv, TypeOK, budget
    <2> QED
      BY <1>3, <2>1, <2>2, <2>3, <2>4, <2>5 DEF Agent
  <1>4. ASSUME NEW n \in Node, Attach(n) PROVE IInv'
    BY <1>4, AttachInv DEF Attach
  <1>5. ASSUME NEW n \in Node, AgentFails(n) PROVE IInv'
    BY <1>5, AgentFailsInv
  <1>6. ASSUME NEW n \in Node, DeregisterNode(n) PROVE IInv'
    <2>1. deregisters' \in 0..MaxDeregister
      BY <1>6, CommandAssumption DEF DeregisterNode, IInv, TypeOK
    <2> QED
      BY <1>6, <2>1, QuietInv DEF DeregisterNode, IInv, TypeOK, agents
  <1>7. ASSUME NEW n \in Node, DeregisterDetach(n) PROVE IInv'
    BY <1>7, DeregisterDetachInv
  <1>8. CASE DaemonRestart
    BY <1>8, RestartInv
  <1>9. CASE UNCHANGED vars
    <2>1. TypeOK'
      BY <1>9 DEF IInv, TypeOK, vars, daemon, rest, streams, agents, budget, ghosts
    <2>2. SenderInv' /\ SentInv' /\ RegistryHoldsLiveBridges'
      BY <1>9 DEF IInv, SenderInv, SentInv, RegistryHoldsLiveBridges, ReceiverAlive,
                  vars, daemon, rest, streams, ghosts
    <2> QED
      BY <1>9, <2>1, <2>2, StreamsKept DEF IInv, vars, agents, ghosts
  <1>10. ASSUME NEW n \in Node, CommandEnds(n) PROVE IInv'
    BY <1>10, QuietInv DEF CommandEnds, IInv, TypeOK, daemon, budget
  <1> QED
    BY <1>1, <1>2, <1>3, <1>4, <1>5, <1>6, <1>7, <1>8, <1>9,
       <1>10 DEF Next

\* The inductive invariant of the command plane: slots, senders and streams
\* belong to the node they are used for, and what travels is in order.
THEOREM InductiveInvariant == Spec => []IInv
  BY InitIInv, NextIInv, PTL DEF Spec

\* Type correctness; no channel ever exceeds its capacity (state.rs and grpc.rs
\* mpsc::channel).
THEOREM TypeCorrect == Spec => []TypeOK
  <1>1. IInv => TypeOK
    BY DEF IInv
  <1> QED
    BY <1>1, InductiveInvariant, PTL

\* The registry never holds the sender of a bridge that has ended, nor one of
\* another node, although a bridge removes whichever entry its node has
\* (state.rs detach_command_channel, grpc.rs stream_commands).
THEOREM RegistryLive == Spec => []RegistryHoldsLiveBridges
  <1>1. IInv => RegistryHoldsLiveBridges
    BY DEF IInv
  <1> QED
    BY <1>1, InductiveInvariant, PTL

\* A node runs its commands in the order dispatch accepted them and, as a command
\* is accepted once, none twice, across reconnects, stale bridges and restarts
\* (client.rs session, grpc.rs bridge).
THEOREM RunsInOrder == Spec => []RunsInOrderAtMostOnce
  <1>1. IInv => RunsInOrderAtMostOnce
    <2> SUFFICES ASSUME IInv, NEW i \in 1..Len(ran), NEW j \in 1..Len(ran),
                        i < j, Dest[ran[i]] = Dest[ran[j]]
                 PROVE  \E k, l \in 1..Len(sent) :
                            k < l /\ sent[k] = ran[i] /\ sent[l] = ran[j]
      BY DEF RunsInOrderAtMostOnce
    <2>1. DOMAIN ran = 1..Len(ran) /\ DOMAIN sent = 1..Len(sent)
      BY DEF IInv, TypeOK
    <2>2. Before(sent, ran[i], ran[j])
      BY <2>1 DEF IInv, RanOrderInv
    <2> QED
      BY <2>1, <2>2 DEF Before
  <1> QED
    BY <1>1, InductiveInvariant, PTL

\* No command runs twice, on its node or on any other (client.rs handle_command).
THEOREM NeverRunTwice == Spec => []Once(ran)
  <1>1. IInv => Once(ran)
    <2> SUFFICES ASSUME IInv, NEW i \in DOMAIN ran, NEW j \in DOMAIN ran,
                        ran[i] = ran[j], i < j
                 PROVE  FALSE
      <3>1. DOMAIN ran \subseteq Int
        BY DEF IInv, TypeOK
      <3> QED
        BY <3>1 DEF Once
    <2>1. PICK k \in DOMAIN sent, l \in DOMAIN sent :
              k < l /\ sent[k] = ran[i] /\ sent[l] = ran[j]
      BY DEF IInv, RanOrderInv, Before
    <2>2. k = l
      BY <2>1 DEF IInv, SentInv, Once
    <2> QED
      BY <2>1, <2>2 DEF IInv, TypeOK
  <1> QED
    BY <1>1, InductiveInvariant, PTL

-----------------------------------------------------------------------------
(***************************************************************************)
(* CommandPlane implements CommandLog: every step of a handler, a bridge,  *)
(* an agent or the daemon is a step of CommandLog or leaves the fate of    *)
(* every command, the order of acceptance and the audit log alone.         *)
(***************************************************************************)

(***************************************************************************)
(* What the proof needs beyond IInv: where a command is when it has been   *)
(* accepted and neither run nor lost.                                      *)
(***************************************************************************)

\* A command is in one place: on one stream, or run.
ApartInv ==
    /\ \A s, t \in Stream : s # t => Travelling(s) \cap Travelling(t) = {}
    /\ \A s \in Stream : Travelling(s) \cap ToSet(ran) = {}

\* What an agent reports is a command of its node that it has run.
JobInv ==
    \A n \in Node : job[n] # None => job[n] \in ToSet(ran) /\ Dest[job[n]] = n

\* An agent has a stream only in a session that serves; the daemon has not
\* noticed that it left, and nothing on the stream is lost.
ReadInv ==
    \A n \in Node : stream[n] # None =>
        /\ session[n] \in Serving
        /\ open[stream[n]]
        /\ Travelling(stream[n]) \cap hurt = {}

\* A bridge that ends with its agent still there has drained its channel, and
\* nobody can send into it any more.
DrainInv ==
    \A s \in Stream : bridge[s] = "detach" /\ open[s] => queue[s] = <<>> /\ NoSender(s)

\* An accepted command that was neither run nor lost is on the stream its node's
\* agent reads.
TransitInv ==
    /\ hurt \subseteq ToSet(sent)
    /\ \A c \in Command :
           request[c] = "accepted" /\ c \notin ToSet(ran) /\ c \notin hurt =>
               stream[Dest[c]] # None /\ c \in Travelling(stream[Dest[c]])

LInv == ApartInv /\ JobInv /\ ReadInv /\ DrainInv /\ TransitInv

-----------------------------------------------------------------------------
(* The invariant is inductive. *)

\* Two agents never read the same stream.
LEMMA StreamFacts ==
    ASSUME IInv
    PROVE  /\ \A c \in Command : Dest[c] \in Node /\ c # None
           /\ \A n \in Node : stream[n] # None =>
                  stream[n] \in Stream /\ owner[stream[n]] = n
           /\ \A m, n \in Node : stream[m] # None /\ stream[m] = stream[n] => m = n
           /\ None \notin Stream
  BY CommandAssumption DEF IInv, TypeOK, HoldInv

\* A step that takes nothing from the stream of an agent.
LEMMA PlacesKept ==
    ASSUME IInv, LInv, UNCHANGED <<sent, ran, hurt, stream>>,
           \A n \in Node : job'[n] \in {job[n], None},
           \A t \in Stream : Travelling(t)' \subseteq Travelling(t),
           \A t \in Stream : Held(t) =>
               Travelling(t)' = Travelling(t) /\ (open[t] => open'[t]),
           \A c \in Command : request'[c] = "accepted" <=> request[c] = "accepted",
           \A n \in Node : stream[n] # None => session'[n] \in Serving
    PROVE  ApartInv' /\ JobInv' /\ ReadInv' /\ TransitInv'
  <1>1. \A n \in Node : stream[n] # None =>
            /\ stream[n] \in Stream /\ Held(stream[n])
            /\ Travelling(stream[n])' = Travelling(stream[n])
    <2> SUFFICES ASSUME NEW n \in Node, stream[n] # None
                 PROVE  /\ stream[n] \in Stream /\ Held(stream[n])
                        /\ Travelling(stream[n])' = Travelling(stream[n])
      OBVIOUS
    <2>1. stream[n] \in Stream /\ Held(stream[n])
      BY StreamFacts DEF Held
    <2>2. PICK t \in Stream : t = stream[n]
      BY <2>1
    <2>3. Travelling(t)' = Travelling(t)
      BY <2>1, <2>2
    <2>4. stream'[n] = t
      BY <2>2
    <2>5. Travelling(stream[n])' = Travelling(t)'
      BY <2>4 DEF Travelling
    <2> QED
      BY <2>1, <2>2, <2>3, <2>5
  <1>2. ApartInv'
    BY DEF LInv, ApartInv
  <1>3. JobInv'
    BY DEF LInv, JobInv
  <1>4. ReadInv'
    BY <1>1 DEF LInv, ReadInv
  <1>5. TransitInv'
    <2>1. \A c \in Command : Dest[c] \in Node
      BY StreamFacts
    <2> QED
      BY <1>1, <2>1 DEF LInv, TransitInv
  <1> QED
    BY <1>2, <1>3, <1>4, <1>5

\* A step after which a channel that was closed to senders still is.
LEMMA DrainKept ==
    ASSUME IInv, LInv,
           \A t \in Stream : bridge'[t] = "detach" /\ open'[t] =>
               bridge[t] = "detach" /\ open[t] /\ queue'[t] = queue[t],
           \A n \in Node : channels'[n] \in {channels[n], None},
           \A c \in Command : sender'[c] \in {sender[c], None}
    PROVE  DrainInv'
  BY StreamFacts DEF LInv, DrainInv, NoSender

\* A handler's answer.
LEMMA ReplyLInv ==
    ASSUME IInv, LInv, NEW c \in Command, NEW step, Reply(c, step),
           step \in {"get_node", "clone", "rejected", "cancelled"},
           request[c] # "accepted",
           UNCHANGED <<daemon, streams, agents, outcomes, budget, ghosts>>
    PROVE  LInv'
  <1> USE DEF daemon, streams, agents, ghosts
  <1>1. /\ \A d \in Command : request'[d] = "accepted" <=> request[d] = "accepted"
        /\ \A d \in Command : sender'[d] \in {sender[d], None}
    BY DEF Reply, IInv, TypeOK
  <1>2. \A t \in Stream : Travelling(t)' = Travelling(t)
    BY DEF Travelling
  <1>3. ApartInv' /\ JobInv' /\ ReadInv' /\ TransitInv'
    BY <1>1, <1>2, PlacesKept DEF LInv, ReadInv
  <1>4. DrainInv'
    BY <1>1, DrainKept
  <1> QED
    BY <1>3, <1>4 DEF LInv

\* A sender that can be cloned is not one of a closed channel.
LEMMA CloneLInv ==
    ASSUME IInv, LInv, NEW c \in Command, request[c] = "clone",
           channels[Dest[c]] # None,
           request' = [request EXCEPT ![c] = "send"],
           sender' = [sender EXCEPT ![c] = channels[Dest[c]]],
           UNCHANGED <<daemon, streams, agents, outcomes, budget, ghosts>>
    PROVE  LInv'
  <1> USE DEF daemon, streams, agents, ghosts
  <1>0. Dest[c] \in Node
    BY StreamFacts
  <1>1. /\ \A d \in Command : request'[d] = "accepted" <=> request[d] = "accepted"
        /\ \A d \in Command : sender'[d] \in {sender[d], channels[Dest[c]]}
    BY DEF IInv, TypeOK
  <1>2. \A t \in Stream : Travelling(t)' = Travelling(t)
    BY DEF Travelling
  <1>3. ApartInv' /\ JobInv' /\ ReadInv' /\ TransitInv'
    BY <1>1, <1>2, PlacesKept DEF LInv, ReadInv
  <1>4. DrainInv'
    BY <1>0, <1>1 DEF LInv, DrainInv, NoSender
  <1> QED
    BY <1>3, <1>4 DEF LInv

\* A command is accepted: onto the stream its agent reads, or lost at once.
LEMMA SendLInv ==
    ASSUME IInv, LInv, NEW c \in Command, DispatchSend(c)
    PROVE  LInv'
  <1>0. PICK s \in Stream :
            /\ s = sender[c] /\ bridge[s] # "free" /\ owner[s] = Dest[c]
            /\ request[c] = "send" /\ c \notin ToSet(sent) /\ c # None
            /\ Dest[c] \in Node
    <2>1. request[c] = "send" /\ bridge[sender[c]] # "free"
      BY DEF DispatchSend, ReceiverAlive
    <2>2. sender[c] \in Stream /\ owner[sender[c]] = Dest[c]
      BY <2>1 DEF IInv, TypeOK, SenderInv
    <2>3. c \notin ToSet(sent)
      BY <2>1 DEF IInv, SentInv
    <2> QED
      BY <2>1, <2>2, <2>3, StreamFacts
  <1>1. /\ request' = [request EXCEPT ![c] = "accepted"]
        /\ sender' = [sender EXCEPT ![c] = None]
        /\ queue' = [queue EXCEPT ![s] = Append(queue[s], c)]
        /\ sent' = Append(sent, c)
        /\ hurt' = IF Held(s) THEN hurt ELSE hurt \cup {c}
        /\ UNCHANGED <<daemon, bridge, owner, hand, out, open, agents, outcomes,
                       budget, ran>>
    BY <1>0 DEF DispatchSend, Reply
  <1>2. ToSet(sent') = ToSet(sent) \cup {c}
    BY <1>1, AppendFacts DEF IInv, TypeOK
  <1>3. /\ ToSet(queue'[s]) = ToSet(queue[s]) \cup {c}
        /\ \A t \in Stream \ {s} : queue'[t] = queue[t]
    BY <1>0, <1>1, AppendFacts DEF IInv, TypeOK
  <1>4. /\ Travelling(s)' = Travelling(s) \cup {c}
        /\ \A t \in Stream \ {s} : Travelling(t)' = Travelling(t)
    BY <1>1, <1>3 DEF Travelling
  <1>5. /\ \A t \in Stream : c \notin Travelling(t)
        /\ c \notin ToSet(ran) /\ c \notin hurt
    BY <1>0 DEF IInv, PlaceInv, RanInv, LInv, TransitInv
  <1>6. UNCHANGED <<session, stream, job, ran, open, bridge, channels>>
    BY <1>1 DEF agents, daemon
  <1>7. ApartInv'
    BY <1>4, <1>5, <1>6 DEF LInv, ApartInv
  <1>8. JobInv'
    BY <1>6 DEF LInv, JobInv
  <1>9. \A n \in Node : stream[n] # None =>
            /\ stream[n] \in Stream /\ (stream[n] = s => Held(s))
            /\ Travelling(stream[n])' =
                   Travelling(stream[n]) \cup (IF stream[n] = s THEN {c} ELSE {})
    <2> SUFFICES ASSUME NEW n \in Node, stream[n] # None
                 PROVE  /\ stream[n] \in Stream /\ (stream[n] = s => Held(s))
                        /\ Travelling(stream[n])' =
                              Travelling(stream[n])
                                  \cup (IF stream[n] = s THEN {c} ELSE {})
      OBVIOUS
    <2>1. PICK t \in Stream : t = stream[n]
      BY StreamFacts
    <2>2. Travelling(stream[n])' = Travelling(t)'
      BY <1>6, <2>1 DEF Travelling
    <2> QED
      BY <1>4, <2>1, <2>2 DEF Held
  <1>10. ReadInv'
    <2> SUFFICES ASSUME NEW n \in Node, stream'[n] # None
                 PROVE  /\ session'[n] \in Serving
                        /\ open'[stream'[n]]
                        /\ Travelling(stream[n])' \cap hurt' = {}
      BY DEF ReadInv
    <2>1. stream'[n] = stream[n] /\ session'[n] = session[n] /\ open' = open
      BY <1>6
    <2>2. /\ session[n] \in Serving /\ open[stream[n]]
          /\ Travelling(stream[n]) \cap hurt = {}
      BY <2>1 DEF LInv, ReadInv
    <2>3. Travelling(stream[n])' \cap hurt' = {}
      <3>1. CASE stream[n] = s
        <4>1. hurt' = hurt
          BY <1>1, <1>9, <2>1, <3>1
        <4>2. Travelling(stream[n])' = Travelling(stream[n]) \cup {c}
          BY <1>9, <2>1, <3>1
        <4> QED
          BY <1>5, <2>2, <4>1, <4>2
      <3>2. CASE stream[n] # s
        <4>1. hurt' \subseteq hurt \cup {c}
          BY <1>1
        <4>2. /\ Travelling(stream[n])' = Travelling(stream[n])
              /\ stream[n] \in Stream
          BY <1>9, <2>1, <3>2
        <4> QED
          BY <1>5, <2>2, <4>1, <4>2
      <3> QED
        BY <3>1, <3>2
    <2> QED
      BY <2>1, <2>2, <2>3
  <1>11. TransitInv'
    <2>1. hurt' \subseteq ToSet(sent')
      BY <1>1, <1>2 DEF LInv, TransitInv
    <2>2. ASSUME NEW d \in Command, request'[d] = "accepted", d \notin ToSet(ran'),
                 d \notin hurt'
          PROVE  stream'[Dest[d]] # None /\ d \in Travelling(stream[Dest[d]])'
      <3>1. CASE d = c
        <4>1. PICK n \in Node : stream[n] = s
          BY <1>1, <2>2, <3>1 DEF Held
        <4>2. n = Dest[c] /\ s # None
          BY <1>0, <4>1, StreamFacts
        <4>3. stream[Dest[d]] = s /\ stream[Dest[d]] # None /\ Dest[d] \in Node
          BY <3>1, <4>1, <4>2
        <4> QED
          BY <1>6, <1>9, <3>1, <4>3
      <3>2. CASE d # c
        <4>1. Dest[d] \in Node
          BY StreamFacts
        <4>2. /\ request[d] = "accepted" /\ d \notin ToSet(ran) /\ d \notin hurt
          BY <1>1, <1>6, <2>2, <3>2 DEF IInv, TypeOK
        <4>3. stream[Dest[d]] # None /\ d \in Travelling(stream[Dest[d]])
          BY <4>2 DEF LInv, TransitInv
        <4> QED
          BY <1>6, <1>9, <4>1, <4>3
      <3> QED
        BY <3>1, <3>2
    <2> QED
      BY <2>1, <2>2 DEF TransitInv
  <1>12. DrainInv'
    <2>1. ~(bridge[s] = "detach" /\ open[s])
      BY <1>0 DEF LInv, DrainInv, NoSender
    <2>2. \A t \in Stream : bridge'[t] = "detach" /\ open'[t] =>
              bridge[t] = "detach" /\ open[t] /\ queue'[t] = queue[t]
      BY <1>3, <1>6, <2>1
    <2>3. \A d \in Command : sender'[d] \in {sender[d], None}
      BY <1>1 DEF IInv, TypeOK
    <2> QED
      BY <1>6, <2>2, <2>3, DrainKept
  <1> QED
    BY <1>7, <1>8, <1>10, <1>11, <1>12 DEF LInv

\* Every step of a REST handler keeps the invariant.
LEMMA RestLInv ==
    ASSUME IInv, LInv, NEW c \in Command, Rest(c)
    PROVE  LInv'
  <1>1. CASE Submit(c)
    BY <1>1, ReplyLInv DEF Submit
  <1>2. CASE DispatchGetNode(c)
    BY <1>2, ReplyLInv DEF DispatchGetNode
  <1>3. CASE DispatchClone(c)
    BY <1>3, ReplyLInv, CloneLInv DEF DispatchClone
  <1>4. CASE DispatchSend(c)
    BY <1>4, SendLInv
  <1>5. CASE DispatchClosed(c)
    BY <1>5, ReplyLInv DEF DispatchClosed
  <1>6. CASE RequestCancelled(c)
    BY <1>6, ReplyLInv DEF RequestCancelled
  <1> QED
    BY <1>1, <1>2, <1>3, <1>4, <1>5, <1>6 DEF Rest

\* A bridge moves a command along, or gives up: on a stream an agent reads it
\* gives up only when there is nothing left.
LEMMA BridgeLInv ==
    ASSUME IInv, LInv, NEW s \in Stream, Bridge(s) \/ NoticeHangup(s)
    PROVE  LInv'
  <1>0. /\ Held(s) => open[s]
        /\ hand[s] \in Command \cup {None} /\ bridge[s] = "send" <=> hand[s] # None
        /\ queue[s] \in Seq(Command) /\ out[s] \in Seq(Command)
    BY StreamFacts DEF LInv, ReadInv, Held, IInv, TypeOK, SlotInv
  <1>1. UNCHANGED <<rest, session, stream, job, sent, ran, hurt>>
    BY DEF Bridge, BridgeRecv, BridgeEnd, BridgeSend, BridgeHangup, BridgeDetach,
           NoticeHangup, agents, ghosts
  <1>2. \A t \in Stream \ {s} :
            /\ queue'[t] = queue[t] /\ hand'[t] = hand[t] /\ out'[t] = out[t]
            /\ bridge'[t] = bridge[t] /\ open'[t] = open[t]
    BY DEF Bridge, BridgeRecv, BridgeEnd, BridgeSend, BridgeHangup, BridgeDetach,
           NoticeHangup, Freed, IInv, TypeOK
  <1>3. \A t \in Stream \ {s} : Travelling(t)' = Travelling(t)
    BY <1>2 DEF Travelling
  <1>4. \A n \in Node : channels'[n] \in {channels[n], None}
    BY DEF Bridge, BridgeRecv, BridgeEnd, BridgeSend, BridgeHangup, BridgeDetach,
           Detach, NoticeHangup, daemon, IInv, TypeOK
  <1>5. /\ Travelling(s)' \subseteq Travelling(s)
        /\ Held(s) => Travelling(s)' = Travelling(s) /\ (open[s] => open'[s])
        /\ bridge'[s] = "detach" /\ open'[s] => queue'[s] = <<>> /\ NoSender(s)
    <2>1. CASE BridgeRecv(s)
      <3>1. /\ ToSet(queue[s]) = {Head(queue[s])} \cup ToSet(Tail(queue[s]))
            /\ Head(queue[s]) \in Command
        BY <1>0, <2>1, TailFacts DEF BridgeRecv
      <3>2. /\ queue'[s] = Tail(queue[s]) /\ hand'[s] = Head(queue[s]) /\ hand[s] = None
            /\ out' = out /\ open' = open /\ bridge'[s] = "send"
        BY <1>0, <2>1 DEF BridgeRecv, IInv, TypeOK
      <3>3. Head(queue[s]) # None
        BY <3>1, StreamFacts
      <3> QED
        BY <3>1, <3>2, <3>3 DEF Travelling
    <2>2. CASE BridgeEnd(s)
      BY <2>2 DEF BridgeEnd, Travelling
    <2>3. CASE BridgeSend(s)
      <3>1. hand[s] \in Command /\ hand[s] # None
        BY <1>0, <2>3 DEF BridgeSend
      <3>2. ToSet(Append(out[s], hand[s])) = ToSet(out[s]) \cup {hand[s]}
        BY <1>0, <3>1, AppendFacts
      <3>3. /\ out'[s] = Append(out[s], hand[s]) /\ hand'[s] = None /\ queue' = queue
            /\ open' = open /\ bridge'[s] = "recv"
        BY <2>3 DEF BridgeSend, IInv, TypeOK
      <3> QED
        BY <3>1, <3>2, <3>3 DEF Travelling
    <2>4. CASE BridgeHangup(s)
      <3>1. hand'[s] = None /\ queue' = queue /\ out' = out /\ open' = open /\ ~open[s]
        BY <2>4 DEF BridgeHangup, IInv, TypeOK
      <3> QED
        BY <1>0, <3>1 DEF Travelling
    <2>5. CASE BridgeDetach(s)
      <3>0. bridge[s] = "detach" /\ hand[s] = None
        BY <1>0, <2>5 DEF BridgeDetach
      <3>1. CASE Held(s)
        <4>1. queue[s] = <<>>
          BY <1>0, <3>0, <3>1 DEF LInv, DrainInv
        <4>2. /\ queue'[s] = <<>> /\ hand' = hand /\ out' = out /\ open' = open
              /\ bridge'[s] = "done"
          BY <2>5, <3>1 DEF BridgeDetach, IInv, TypeOK
        <4> QED
          BY <4>1, <4>2 DEF Travelling
      <3>2. CASE ~Held(s)
        <4>1. /\ queue'[s] = <<>> /\ hand'[s] = None /\ out'[s] = <<>>
              /\ bridge'[s] = "free"
          BY <2>5, <3>2 DEF BridgeDetach, Freed, IInv, TypeOK
        <4> QED
          BY <3>2, <4>1, EmptyFacts DEF Travelling
      <3> QED
        BY <3>1, <3>2
    <2>6. CASE NoticeHangup(s)
      BY <2>6 DEF NoticeHangup, Travelling, IInv, TypeOK
    <2> QED
      BY <2>1, <2>2, <2>3, <2>4, <2>5, <2>6 DEF Bridge
  <1>6. ApartInv' /\ JobInv' /\ ReadInv' /\ TransitInv'
    <2>1. \A t \in Stream : Travelling(t)' \subseteq Travelling(t)
      BY <1>3, <1>5
    <2>2. \A t \in Stream : Held(t) =>
              Travelling(t)' = Travelling(t) /\ (open[t] => open'[t])
      BY <1>2, <1>3, <1>5
    <2> QED
      BY <1>1, <2>1, <2>2, PlacesKept DEF LInv, ReadInv, rest
  <1>7. DrainInv'
    <2>1. NoSender(s) => NoSender(s)'
      BY <1>1, <1>4, StreamFacts DEF NoSender, rest
    <2>2. \A t \in Stream \ {s} : NoSender(t) => NoSender(t)'
      BY <1>1, <1>4, StreamFacts DEF NoSender, rest
    <2> QED
      BY <1>2, <1>5, <2>1, <2>2 DEF LInv, DrainInv
  <1> QED
    BY <1>6, <1>7 DEF LInv

\* A step that leaves handlers and streams alone: a registration, a removal, a
\* report.
LEMMA QuietLInv ==
    ASSUME IInv, LInv, UNCHANGED <<rest, streams, stream, ghosts>>,
           \A n \in Node : job'[n] \in {job[n], None},
           \A n \in Node : channels'[n] \in {channels[n], None},
           \A n \in Node : session[n] \in Serving =>
               session'[n] \in Serving
    PROVE  LInv'
  <1> USE DEF rest, streams, ghosts
  <1>1. \A t \in Stream : Travelling(t)' = Travelling(t)
    BY DEF Travelling
  <1>2. ApartInv' /\ JobInv' /\ ReadInv' /\ TransitInv'
    BY <1>1, PlacesKept DEF LInv, ReadInv
  <1>3. DrainInv'
    BY DrainKept
  <1> QED
    BY <1>2, <1>3 DEF LInv

\* A stream starts on an empty slot; its agent had none before.
LEMMA AttachLInv ==
    ASSUME IInv, LInv, NEW n \in Node, NEW s \in Stream,
           AgentAttach(n, s) \/ OrphanAttach(n, s)
    PROVE  LInv'
  <1>1. /\ bridge[s] = "free" /\ \A c \in Command : sender[c] # s
        /\ channels' = [channels EXCEPT ![n] = s]
        /\ bridge' = [bridge EXCEPT ![s] = "recv"]
        /\ UNCHANGED <<rest, queue, hand, out, job, ghosts>>
    BY DEF AgentAttach, OrphanAttach, AttachStream
  <1>2. /\ bridge'[s] = "recv" /\ queue[s] = <<>> /\ out[s] = <<>> /\ hand[s] = None
        /\ owner[s] = None
        /\ \A t \in Stream \ {s} : bridge'[t] = bridge[t] /\ open'[t] = open[t]
        /\ \A m \in Node : channels'[m] \in {channels[m], s}
    BY <1>1 DEF IInv, SlotInv, TypeOK, AgentAttach, OrphanAttach, AttachStream
  <1>3. /\ Travelling(s) = {} /\ Travelling(s)' = {}
        /\ \A t \in Stream : Travelling(t)' = Travelling(t)
    BY <1>1, <1>2, EmptyFacts DEF Travelling
  <1>4. \A m \in Node :
            \/ stream'[m] = stream[m] /\ session'[m] = session[m]
            \/ /\ m = n /\ stream[m] = None /\ stream'[m] = s
               /\ session'[m] = "serving" /\ open'[s]
    <2>1. CASE AgentAttach(n, s)
      <3>1. session[n] = "attaching" /\ stream[n] = None
        BY <2>1 DEF AgentAttach, LInv, ReadInv
      <3> QED
        BY <2>1, <3>1 DEF AgentAttach, AttachStream, IInv, TypeOK
    <2>2. CASE OrphanAttach(n, s)
      BY <2>2 DEF OrphanAttach
    <2> QED
      BY <2>1, <2>2
  <1>5. \A m \in Node : stream[m] # None => stream[m] \in Stream \ {s}
    <2>1. \A m \in Node : m # None
      BY CommandAssumption
    <2> QED
      BY <1>2, <2>1, StreamFacts
  <1>6. ApartInv' /\ JobInv'
    BY <1>1, <1>3 DEF LInv, ApartInv, JobInv, ghosts
  <1>7. ReadInv'
    <2> SUFFICES ASSUME NEW m \in Node, stream'[m] # None
                 PROVE  /\ session'[m] \in Serving
                        /\ open'[stream'[m]]
                        /\ Travelling(stream[m])' \cap hurt' = {}
      BY DEF ReadInv
    <2>1. PICK t \in Stream : t = stream'[m]
      BY <1>4, <1>5
    <2>2. Travelling(stream[m])' = Travelling(t)
      <3>1. Travelling(stream[m])' = Travelling(t)'
        BY <2>1 DEF Travelling
      <3> QED
        BY <1>3, <3>1
    <2>3. CASE t = s
      BY <1>2, <1>3, <1>4, <1>5, <2>1, <2>2, <2>3
    <2>4. CASE t # s
      BY <1>1, <1>2, <1>4, <2>1, <2>2, <2>4 DEF LInv, ReadInv, ghosts
    <2> QED
      BY <2>3, <2>4
  <1>8. TransitInv'
    <2>1. ASSUME NEW d \in Command, request'[d] = "accepted", d \notin ToSet(ran'),
                 d \notin hurt'
          PROVE  stream'[Dest[d]] # None /\ d \in Travelling(stream[Dest[d]])'
      <3>1. Dest[d] \in Node
        BY StreamFacts
      <3>2. stream[Dest[d]] # None /\ d \in Travelling(stream[Dest[d]])
        BY <1>1, <2>1 DEF LInv, TransitInv, rest, ghosts
      <3>3. stream'[Dest[d]] = stream[Dest[d]] /\ stream[Dest[d]] \in Stream
        BY <1>4, <1>5, <3>1, <3>2
      <3>4. PICK t \in Stream : t = stream[Dest[d]]
        BY <3>3
      <3>5. Travelling(stream[Dest[d]])' = Travelling(t)'
        BY <3>3, <3>4 DEF Travelling
      <3> QED
        BY <1>3, <3>2, <3>3, <3>4, <3>5
    <2> QED
      BY <1>1, <2>1 DEF LInv, TransitInv, ghosts
  <1>9. DrainInv'
    <2> SUFFICES ASSUME NEW t \in Stream, bridge'[t] = "detach", open'[t]
                 PROVE  queue'[t] = <<>> /\ NoSender(t)'
      BY DEF DrainInv
    <2>1. t # s /\ bridge[t] = "detach" /\ open[t]
      BY <1>2
    <2>2. queue[t] = <<>> /\ NoSender(t)
      BY <2>1 DEF LInv, DrainInv
    <2> QED
      BY <1>1, <1>2, <2>1, <2>2 DEF NoSender, rest
  <1> QED
    BY <1>6, <1>7, <1>8, <1>9 DEF LInv

\* A command accepted once does not precede itself, and precedes only those that
\* do not precede it.
LEMMA BeforeStrict ==
    ASSUME IInv
    PROVE  \A a, b : Before(sent, a, b) => a # b /\ ~Before(sent, b, a)
  <1>1. DOMAIN sent \subseteq Int
    BY DEF IInv, TypeOK
  <1>2. \A i, j \in DOMAIN sent : sent[i] = sent[j] => i = j
    BY DEF IInv, SentInv, Once
  <1>3. ASSUME NEW a, NEW b, Before(sent, a, b)
        PROVE  a # b /\ ~Before(sent, b, a)
    <2>1. PICK k \in DOMAIN sent, l \in DOMAIN sent : k < l /\ sent[k] = a /\ sent[l] = b
      BY <1>3 DEF Before
    <2>2. a # b
      BY <1>1, <1>2, <2>1
    <2>3. ASSUME NEW i \in DOMAIN sent, NEW j \in DOMAIN sent,
                 i < j, sent[i] = b, sent[j] = a
          PROVE  FALSE
      <3>1. i = l /\ j = k
        BY <1>2, <2>1, <2>3
      <3> QED
        BY <1>1, <2>1, <2>3, <3>1
    <2> QED
      BY <2>2, <2>3 DEF Before
  <1> QED
    BY <1>3

\* An agent takes one command from its stream; those left were accepted later.
LEMMA ReceiveFacts ==
    ASSUME IInv, NEW n \in Node, AgentReceive(n)
    PROVE  \E s \in Stream, c \in Command :
               /\ s = stream[n] /\ session[n] = "serving"
               /\ c \in Travelling(s) /\ Dest[c] = n
               /\ job' = [job EXCEPT ![n] = c]
               /\ session' = [session EXCEPT ![n] = "running"]
               /\ ToSet(ran') = ToSet(ran) \cup {c}
               /\ Travelling(s)' = Travelling(s) \ {c}
               /\ \A t \in Stream \ {s} : Travelling(t)' = Travelling(t)
               /\ \A b \in Travelling(s) \ {c} : Before(sent, c, b)
               /\ UNCHANGED <<daemon, rest, bridge, owner, queue, hand, open, stream,
                              outcomes, budget, sent, hurt>>
  <1>1. PICK s \in Stream : s = stream[n]
    BY DEF AgentReceive, IInv, TypeOK
  <1>2. /\ out[s] \in Seq(Command) /\ out[s] # <<>> /\ ran \in Seq(Command)
        /\ session[n] = "serving"
    BY <1>1 DEF AgentReceive, IInv, TypeOK
  <1>3. /\ Head(out[s]) \in Command
        /\ ToSet(out[s]) = {Head(out[s])} \cup ToSet(Tail(out[s]))
        /\ \A a \in ToSet(Tail(out[s])) : Before(sent, Head(out[s]), a)
    BY <1>2, TailFacts, OrderedTail DEF IInv, OrderInv
  <1>4. PICK c \in Command : c = Head(out[s])
    BY <1>3
  <1>5. /\ job' = [job EXCEPT ![n] = c]
        /\ ran' = Append(ran, c)
        /\ session' = [session EXCEPT ![n] = "running"]
        /\ UNCHANGED <<daemon, rest, bridge, owner, queue, hand, open, stream,
                       outcomes, budget, sent, hurt>>
    BY <1>1, <1>4 DEF AgentReceive
  <1>6. out'[s] = Tail(out[s]) /\ \A t \in Stream \ {s} : out'[t] = out[t]
    BY <1>1 DEF AgentReceive, IInv, TypeOK
  <1>7. ToSet(ran') = ToSet(ran) \cup {c}
    BY <1>2, <1>5, AppendFacts
  <1>8. c \in Travelling(s) /\ Dest[c] = n
    BY <1>1, <1>3, <1>4 DEF IInv, PlaceInv, Travelling, HoldInv, AgentReceive
  <1>9. \A b \in ToSet(queue[s]) \cup ({hand[s]} \ {None}) \cup ToSet(out'[s]) :
            Before(sent, c, b)
    BY <1>3, <1>4, <1>6 DEF IInv, OrderInv
  <1>10. c \notin ToSet(queue[s]) \cup ({hand[s]} \ {None}) \cup ToSet(out'[s])
    BY <1>9, BeforeStrict
  <1>11. /\ Travelling(s) = ToSet(queue[s]) \cup ({hand[s]} \ {None}) \cup ToSet(out'[s])
                                \cup {c}
         /\ Travelling(s)' = ToSet(queue[s]) \cup ({hand[s]} \ {None}) \cup ToSet(out'[s])
    BY <1>3, <1>4, <1>5, <1>6 DEF Travelling
  <1>12. Travelling(s)' = Travelling(s) \ {c}
    BY <1>10, <1>11
  <1>13. \A b \in Travelling(s) \ {c} : Before(sent, c, b)
    BY <1>9, <1>11
  <1>14. \A t \in Stream \ {s} : Travelling(t)' = Travelling(t)
    BY <1>5, <1>6 DEF Travelling
  <1> QED
    BY <1>1, <1>2, <1>5, <1>7, <1>8, <1>12, <1>13, <1>14

\* A command moves from the stream to those that were run.
LEMMA ReceiveLInv ==
    ASSUME IInv, LInv, NEW n \in Node, AgentReceive(n)
    PROVE  LInv'
  <1>1. PICK s \in Stream, c \in Command :
            /\ s = stream[n] /\ c \in Travelling(s) /\ Dest[c] = n
            /\ job' = [job EXCEPT ![n] = c]
            /\ session' = [session EXCEPT ![n] = "running"]
            /\ ToSet(ran') = ToSet(ran) \cup {c}
            /\ Travelling(s)' = Travelling(s) \ {c}
            /\ \A t \in Stream \ {s} : Travelling(t)' = Travelling(t)
            /\ UNCHANGED <<channels, rest, bridge, queue, open, stream, sent, hurt>>
    BY ReceiveFacts DEF daemon
  <1>2. ApartInv'
    BY <1>1 DEF LInv, ApartInv
  <1>3. JobInv'
    BY <1>1 DEF LInv, JobInv, IInv, TypeOK
  <1>4. \A m \in Node : stream[m] # None =>
            /\ stream[m] \in Stream
            /\ Travelling(stream[m])' = Travelling(stream[m]) \ {c}
    <2> SUFFICES ASSUME NEW m \in Node, stream[m] # None
                 PROVE  /\ stream[m] \in Stream
                        /\ Travelling(stream[m])' = Travelling(stream[m]) \ {c}
      OBVIOUS
    <2>1. PICK t \in Stream : t = stream[m]
      BY StreamFacts
    <2>2. Travelling(stream[m])' = Travelling(t)'
      BY <1>1, <2>1 DEF Travelling
    <2>3. t # s => c \notin Travelling(t)
      BY <1>1 DEF LInv, ApartInv
    <2> QED
      BY <1>1, <2>1, <2>2, <2>3
  <1>5. ReadInv'
    BY <1>1, <1>4 DEF LInv, ReadInv, IInv, TypeOK
  <1>6. TransitInv'
    <2>1. \A d \in Command : Dest[d] \in Node
      BY StreamFacts
    <2> QED
      BY <1>1, <1>4, <2>1 DEF LInv, TransitInv, rest
  <1>7. DrainInv'
    BY <1>1 DEF LInv, DrainInv, NoSender, rest
  <1> QED
    BY <1>2, <1>3, <1>5, <1>6, <1>7 DEF LInv

\* What an agent's session takes with it when it ends.
Taken(n) == IF stream[n] = None THEN {} ELSE Travelling(stream[n])

\* A session that ends loses what is on its stream and no other.
LEMMA EndSessionFacts ==
    ASSUME IInv, LInv, NEW n \in Node, EndSession(n)
    PROVE  /\ session' = [session EXCEPT ![n] = "down"]
           /\ stream' = [stream EXCEPT ![n] = None]
           /\ job' = [job EXCEPT ![n] = None]
           /\ hurt' = hurt \cup Taken(n)
           /\ \A t \in Stream :
                  /\ Travelling(t)' \subseteq Travelling(t)
                  /\ t # stream[n] => Travelling(t)' = Travelling(t) /\ open'[t] = open[t]
                  /\ bridge'[t] = "detach" /\ open'[t] =>
                         bridge[t] = "detach" /\ open[t] /\ queue'[t] = queue[t]
           /\ Taken(n) \subseteq ToSet(sent)
           /\ \A c \in Taken(n) : Dest[c] = n /\ c \notin ToSet(ran) /\ c \notin hurt
  <1>1. /\ session' = [session EXCEPT ![n] = "down"]
        /\ stream' = [stream EXCEPT ![n] = None]
        /\ job' = [job EXCEPT ![n] = None]
        /\ hurt' = hurt \cup Taken(n)
    BY DEF EndSession, Taken
  <1>2. /\ Taken(n) \subseteq ToSet(sent)
        /\ \A c \in Taken(n) : Dest[c] = n /\ c \notin ToSet(ran) /\ c \notin hurt
    <2>1. CASE stream[n] = None
      BY <2>1 DEF Taken
    <2>2. CASE stream[n] # None
      <3>1. PICK s \in Stream : s = stream[n] /\ owner[s] = n
        BY <2>2, StreamFacts
      <3>2. Taken(n) = Travelling(s)
        BY <2>2, <3>1 DEF Taken
      <3> QED
        BY <2>2, <3>1, <3>2 DEF IInv, PlaceInv, LInv, ApartInv, ReadInv
    <2> QED
      BY <2>1, <2>2
  <1>3. ASSUME NEW t \in Stream
        PROVE  /\ Travelling(t)' \subseteq Travelling(t)
               /\ t # stream[n] => Travelling(t)' = Travelling(t) /\ open'[t] = open[t]
               /\ bridge'[t] = "detach" /\ open'[t] =>
                      bridge[t] = "detach" /\ open[t] /\ queue'[t] = queue[t]
    <2>1. CASE UNCHANGED streams
      BY <2>1 DEF Travelling, streams
    <2>2. CASE stream[n] # None /\ Freed(stream[n])
      <3>1. CASE t = stream[n]
        <4>1. queue'[t] = <<>> /\ out'[t] = <<>> /\ hand'[t] = None /\ bridge'[t] = "free"
          BY <2>2, <3>1 DEF Freed, IInv, TypeOK
        <4> QED
          BY <3>1, <4>1, EmptyFacts DEF Travelling
      <3>2. CASE t # stream[n]
        <4>1. /\ queue'[t] = queue[t] /\ out'[t] = out[t] /\ hand'[t] = hand[t]
              /\ bridge'[t] = bridge[t] /\ open'[t] = open[t]
          BY <2>2, <3>2 DEF Freed, IInv, TypeOK
        <4> QED
          BY <4>1 DEF Travelling
      <3> QED
        BY <3>1, <3>2
    <2> QED
      BY <2>1, <2>2 DEF EndSession
  <1> QED
    BY <1>1, <1>2, <1>3

LEMMA EndSessionLInv ==
    ASSUME IInv, LInv, NEW n \in Node, EndSession(n),
           UNCHANGED <<daemon, rest, sent, ran>>
    PROVE  LInv'
  <1>1. /\ session' = [session EXCEPT ![n] = "down"]
        /\ stream' = [stream EXCEPT ![n] = None]
        /\ job' = [job EXCEPT ![n] = None]
        /\ hurt' = hurt \cup Taken(n)
        /\ Taken(n) \subseteq ToSet(sent)
    BY EndSessionFacts
  <1>2. \A t \in Stream :
            /\ Travelling(t)' \subseteq Travelling(t)
            /\ t # stream[n] => Travelling(t)' = Travelling(t) /\ open'[t] = open[t]
            /\ bridge'[t] = "detach" /\ open'[t] =>
                   bridge[t] = "detach" /\ open[t] /\ queue'[t] = queue[t]
    BY EndSessionFacts
  <1>3. ApartInv'
    BY <1>2 DEF LInv, ApartInv
  <1>4. JobInv'
    BY <1>1 DEF LInv, JobInv, IInv, TypeOK
  <1>5. \A m \in Node : stream'[m] # None =>
            /\ m # n /\ stream'[m] = stream[m] /\ session'[m] = session[m]
            /\ stream[m] \in Stream /\ open'[stream[m]] = open[stream[m]]
            /\ Travelling(stream[m])' = Travelling(stream[m])
            /\ Travelling(stream[m]) \cap Taken(n) = {}
    <2> SUFFICES ASSUME NEW m \in Node, stream'[m] # None
                 PROVE  /\ m # n /\ stream'[m] = stream[m] /\ session'[m] = session[m]
                        /\ stream[m] \in Stream /\ open'[stream[m]] = open[stream[m]]
                        /\ Travelling(stream[m])' = Travelling(stream[m])
                        /\ Travelling(stream[m]) \cap Taken(n) = {}
      OBVIOUS
    <2>1. m # n /\ stream'[m] = stream[m] /\ session'[m] = session[m]
      BY <1>1 DEF IInv, TypeOK
    <2>2. PICK t \in Stream : t = stream[m]
      BY <2>1, StreamFacts
    <2>3. t # stream[n]
      BY <2>1, <2>2, StreamFacts
    <2>4. Travelling(stream[m])' = Travelling(t)'
      BY <2>1, <2>2 DEF Travelling
    <2>5. Travelling(t) \cap Taken(n) = {}
      BY <2>3, StreamFacts DEF Taken, LInv, ApartInv
    <2> QED
      BY <1>2, <2>1, <2>2, <2>3, <2>4, <2>5
  <1>6. ReadInv'
    BY <1>1, <1>5 DEF LInv, ReadInv
  <1>7. TransitInv'
    <2>1. ASSUME NEW d \in Command, request'[d] = "accepted", d \notin ToSet(ran'),
                 d \notin hurt'
          PROVE  stream'[Dest[d]] # None /\ d \in Travelling(stream[Dest[d]])'
      <3>1. Dest[d] \in Node
        BY StreamFacts
      <3>2. stream[Dest[d]] # None /\ d \in Travelling(stream[Dest[d]])
        BY <1>1, <2>1 DEF LInv, TransitInv, rest
      <3>3. Dest[d] # n
        BY <1>1, <2>1, <3>2 DEF Taken
      <3>4. stream'[Dest[d]] = stream[Dest[d]]
        BY <1>1, <3>1, <3>3 DEF IInv, TypeOK
      <3> QED
        BY <1>5, <3>1, <3>2, <3>4
    <2> QED
      BY <1>1, <2>1 DEF LInv, TransitInv
  <1>8. DrainInv'
    BY <1>2, DrainKept DEF daemon, rest
  <1> QED
    BY <1>3, <1>4, <1>6, <1>7, <1>8 DEF LInv

\* A restart empties every stream; what was on one is lost.
LEMMA RestartLInv ==
    ASSUME IInv, LInv, DaemonRestart
    PROVE  LInv'
  <1>1. /\ \A t \in Stream : /\ queue'[t] = <<>> /\ out'[t] = <<>> /\ hand'[t] = None
                             /\ bridge'[t] = "free"
        /\ \A n \in Node : stream'[n] = None
        /\ hurt' = hurt \cup UNION {Travelling(s) : s \in Stream}
        /\ \A c \in Command : request'[c] = "accepted" <=> request[c] = "accepted"
        /\ UNCHANGED <<job, sent, ran>>
    BY DEF DaemonRestart
  <1>2. \A t \in Stream : Travelling(t)' = {}
    BY <1>1, EmptyFacts DEF Travelling
  <1>3. ApartInv' /\ JobInv'
    BY <1>1, <1>2 DEF LInv, ApartInv, JobInv
  <1>4. ReadInv' /\ DrainInv'
    BY <1>1 DEF ReadInv, DrainInv
  <1>5. TransitInv'
    <2>1. hurt' \subseteq ToSet(sent')
      BY <1>1 DEF LInv, TransitInv, IInv, PlaceInv
    <2>2. ASSUME NEW d \in Command, request'[d] = "accepted", d \notin ToSet(ran'),
                 d \notin hurt'
          PROVE  FALSE
      <3>1. stream[Dest[d]] # None /\ d \in Travelling(stream[Dest[d]])
        BY <1>1, <2>2 DEF LInv, TransitInv
      <3>2. stream[Dest[d]] \in Stream
        BY <3>1, StreamFacts
      <3> QED
        BY <1>1, <2>2, <3>1, <3>2
    <2> QED
      BY <2>1, <2>2 DEF TransitInv
  <1> QED
    BY <1>3, <1>4, <1>5 DEF LInv

LEMMA InitLInv == Init => LInv
  <1> SUFFICES ASSUME Init PROVE LInv
    OBVIOUS
  <1>1. \A t \in Stream : Travelling(t) = {}
    BY EmptyFacts DEF Init, Travelling
  <1>2. ApartInv
    BY <1>1 DEF ApartInv
  <1>3. JobInv /\ ReadInv /\ DrainInv
    BY DEF Init, JobInv, ReadInv, DrainInv
  <1>4. TransitInv
    BY DEF Init, TransitInv
  <1> QED
    BY <1>2, <1>3, <1>4 DEF LInv

\* Every step of a handler, a bridge, an agent or the daemon keeps the invariant.
LEMMA NextLInv == IInv /\ LInv /\ [Next]_vars => LInv'
  <1> SUFFICES ASSUME IInv, LInv, [Next]_vars PROVE LInv'
    OBVIOUS
  <1>1. CASE \E c \in Command : Rest(c)
    BY <1>1, RestLInv
  <1>2. CASE \E s \in Stream : Bridge(s) \/ NoticeHangup(s)
    BY <1>2, BridgeLInv
  <1>3. ASSUME NEW n \in Node, Agent(n) PROVE LInv'
    <2>1. CASE AgentRegister(n)
      BY <2>1, QuietLInv DEF AgentRegister, IInv, TypeOK
    <2>2. CASE AgentOpenStream(n)
      BY <2>2, QuietLInv DEF AgentOpenStream, IInv, TypeOK, daemon
    <2>3. CASE AgentReceive(n)
      BY <2>3, ReceiveLInv
    <2>4. CASE AgentReport(n)
      BY <2>4, QuietLInv DEF AgentReport, IInv, TypeOK, daemon
    <2>5. CASE AgentStreamClosed(n) \/ AgentStreamBroken(n) \/ AgentReregister(n)
      BY <2>5, EndSessionLInv DEF AgentStreamClosed, AgentStreamBroken, AgentReregister
    <2> QED
      BY <1>3, <2>1, <2>2, <2>3, <2>4, <2>5 DEF Agent
  <1>4. ASSUME NEW n \in Node, Attach(n) PROVE LInv'
    BY <1>4, AttachLInv DEF Attach
  <1>5. ASSUME NEW n \in Node, AgentFails(n) PROVE LInv'
    BY <1>5, EndSessionLInv DEF AgentFails
  <1>6. ASSUME NEW n \in Node, DeregisterNode(n) PROVE LInv'
    BY <1>6, QuietLInv DEF DeregisterNode, agents
  <1>7. ASSUME NEW n \in Node, DeregisterDetach(n) PROVE LInv'
    BY <1>7, QuietLInv DEF DeregisterDetach, Detach, agents, IInv, TypeOK
  <1>8. CASE DaemonRestart
    BY <1>8, RestartLInv
  <1>9. CASE UNCHANGED vars
    BY <1>9, QuietLInv DEF vars, daemon, agents
  <1>10. ASSUME NEW n \in Node, CommandEnds(n) PROVE LInv'
    BY <1>10, QuietLInv DEF CommandEnds, IInv, TypeOK, daemon
  <1> QED
    BY <1>1, <1>2, <1>3, <1>4, <1>5, <1>6, <1>7, <1>8, <1>9,
       <1>10 DEF Next

\* An accepted command is, at every moment, run, lost with the stream it was on,
\* or on the one stream its node's agent reads (state.rs dispatch, grpc.rs
\* stream_commands, client.rs session).
THEOREM NothingMislaid == Spec => [](IInv /\ LInv)
  <1>1. Init => IInv /\ LInv
    BY InitIInv, InitLInv
  <1>2. IInv /\ LInv /\ [Next]_vars => IInv' /\ LInv'
    BY NextIInv, NextLInv
  <1> QED
    BY <1>1, <1>2, PTL DEF Spec

-----------------------------------------------------------------------------
(* Every step is a step of CommandLog. *)

Fates == [c \in Command |-> FateOf(c)]

\* What the fate of a command says of it.
LEMMA FateFacts ==
    ASSUME IInv, LInv, NEW c \in Command
    PROVE  /\ FateOf(c) = "accepted" <=>
                  request[c] = "accepted" /\ c \notin ToSet(ran) /\ c \notin hurt
           /\ FateOf(c) = "running" <=> \E n \in Node : job[n] = c
           /\ FateOf(c) = "asked" <=> request[c] \in {"new", "get_node", "clone", "send"}
           /\ request[c] # "accepted" => c \notin ToSet(ran) /\ c \notin hurt
  <1>1. request[c] # "accepted" => c \notin ToSet(ran) /\ c \notin hurt
    BY DEF IInv, SentInv, RanInv, LInv, TransitInv
  <1>2. \A n \in Node : job[n] = c => c \in ToSet(ran)
    BY StreamFacts DEF LInv, JobInv
  <1>3. request[c] \in {"new", "get_node", "clone", "send", "accepted", "rejected",
                        "cancelled"}
    BY DEF IInv, TypeOK
  <1> QED
    BY <1>1, <1>2, <1>3 DEF FateOf

\* A step that leaves requests, streams' losses and agents' jobs alone.
LEMMA SameFates ==
    ASSUME UNCHANGED <<request, job, ran, hurt, sent, outcomes, faults>>
    PROVE  UNCHANGED <<Fates, sent, outcomes, faults>>
  BY DEF Fates, FateOf

\* A handler goes on, or answers that the command is refused.
LEMMA ReplyRefines ==
    ASSUME IInv, LInv, NEW c \in Command, NEW step,
           request' = [request EXCEPT ![c] = step],
           step \in {"get_node", "clone", "send", "rejected", "cancelled"},
           request[c] \in {"new", "get_node", "clone", "send"},
           UNCHANGED <<agents, outcomes, budget, ghosts>>
    PROVE  Log!Next \/ UNCHANGED <<Fates, sent, outcomes, faults>>
  <1> USE DEF agents, budget, ghosts
  <1>1. request'[c] = step /\ \A d \in Command \ {c} : request'[d] = request[d]
    BY DEF IInv, TypeOK
  <1>2. \A d \in Command \ {c} : FateOf(d)' = FateOf(d)
    BY <1>1 DEF FateOf
  <1>3. FateOf(c) = "asked" /\ c \notin ToSet(ran) /\ c \notin hurt
    BY FateFacts
  <1>4. CASE step \in {"get_node", "clone", "send"}
    <2>1. FateOf(c)' = "asked"
      BY <1>1, <1>3, <1>4 DEF FateOf
    <2> QED
      BY <1>2, <1>3, <2>1 DEF Fates
  <1>5. CASE step \in {"rejected", "cancelled"}
    <2>1. FateOf(c)' = "refused"
      BY <1>1, <1>3, <1>5 DEF FateOf
    <2>2. Fates' = [d \in Command |-> IF d \in {c} THEN "refused" ELSE Fates[d]]
      BY <1>2, <2>1 DEF Fates
    <2>3. Log!Refuse(c)
      BY <1>3, <2>2 DEF Log!Refuse, Log!Become, Fates
    <2> QED
      BY <2>3 DEF Log!Next
  <1> QED
    BY <1>4, <1>5

\* A command is accepted, in the order of acceptance.
LEMMA SendRefines ==
    ASSUME IInv, LInv, NEW c \in Command, DispatchSend(c)
    PROVE  Log!Next
  <1>1. /\ request[c] = "send"
        /\ request' = [request EXCEPT ![c] = "accepted"]
        /\ sent' = Append(sent, c)
        /\ hurt' \in {hurt, hurt \cup {c}}
        /\ UNCHANGED <<job, ran, outcomes, faults>>
    BY DEF DispatchSend, Reply, agents, budget
  <1>2. request'[c] = "accepted" /\ \A d \in Command \ {c} : request'[d] = request[d]
    BY <1>1 DEF IInv, TypeOK
  <1>3. \A d \in Command \ {c} : FateOf(d)' = FateOf(d)
    BY <1>1, <1>2 DEF FateOf
  <1>4. FateOf(c) = "asked" /\ c \notin ToSet(ran)
    BY <1>1, FateFacts
  <1>5. PICK f \in {"accepted", "lost"} : FateOf(c)' = f
    BY <1>1, <1>2, <1>4 DEF FateOf
  <1>6. Fates' = [d \in Command |-> IF d \in {c} THEN f ELSE Fates[d]]
    BY <1>3, <1>5 DEF Fates
  <1>7. Log!Accept(c)
    BY <1>1, <1>4, <1>6 DEF Log!Accept, Log!Become, Fates
  <1> QED
    BY <1>7 DEF Log!Next

LEMMA RestRefines ==
    ASSUME IInv, LInv, NEW c \in Command, Rest(c)
    PROVE  Log!Next \/ UNCHANGED <<Fates, sent, outcomes, faults>>
  <1>1. CASE Submit(c)
    BY <1>1, ReplyRefines DEF Submit, Reply
  <1>2. CASE DispatchGetNode(c)
    BY <1>2, ReplyRefines DEF DispatchGetNode, Reply
  <1>3. CASE DispatchClone(c)
    BY <1>3, ReplyRefines DEF DispatchClone, Reply
  <1>4. CASE DispatchSend(c)
    BY <1>4, SendRefines
  <1>5. CASE DispatchClosed(c)
    BY <1>5, ReplyRefines DEF DispatchClosed, Reply
  <1>6. CASE RequestCancelled(c)
    BY <1>6, ReplyRefines DEF RequestCancelled, Reply
  <1> QED
    BY <1>1, <1>2, <1>3, <1>4, <1>5, <1>6 DEF Rest

\* An agent runs a command: it runs no other, and none accepted earlier for its
\* node is still to come.
LEMMA ReceiveRefines ==
    ASSUME IInv, LInv, NEW n \in Node, AgentReceive(n)
    PROVE  Log!Next
  <1>1. PICK s \in Stream, c \in Command :
            /\ s = stream[n] /\ session[n] = "serving"
            /\ c \in Travelling(s) /\ Dest[c] = n
            /\ job' = [job EXCEPT ![n] = c]
            /\ ToSet(ran') = ToSet(ran) \cup {c}
            /\ \A b \in Travelling(s) \ {c} : Before(sent, c, b)
            /\ UNCHANGED <<request, outcomes, faults, sent, hurt>>
    BY ReceiveFacts DEF rest, budget
  <1>2. /\ job[n] = None /\ job'[n] = c /\ \A m \in Node \ {n} : job'[m] = job[m]
    BY <1>1 DEF IInv, TypeOK, HoldInv
  <1>3. FateOf(c) = "accepted"
    <2>1. c \notin ToSet(ran) /\ c \notin hurt /\ request[c] = "accepted"
      BY <1>1, StreamFacts DEF IInv, PlaceInv, SentInv, LInv, ApartInv, ReadInv
    <2> QED
      BY <2>1, FateFacts
  <1>4. \A d \in Command : Dest[d] = n => FateOf(d) # "running"
    <2>1. \A d \in Command, m \in Node : job[m] = d => Dest[d] = m
      BY StreamFacts DEF LInv, JobInv
    <2> QED
      BY <1>2, <2>1, FateFacts, StreamFacts
  <1>5. \A d \in Command : Dest[d] = n /\ FateOf(d) = "accepted" => ~Before(sent, d, c)
    <2> SUFFICES ASSUME NEW d \in Command, Dest[d] = n, FateOf(d) = "accepted"
                 PROVE  ~Before(sent, d, c)
      OBVIOUS
    <2>1. d \in Travelling(s)
      BY <1>1, FateFacts DEF LInv, TransitInv
    <2> QED
      BY <1>1, <2>1, BeforeStrict
  <1>6. FateOf(c)' = "running"
    BY <1>1, <1>2 DEF FateOf
  <1>7. \A d \in Command \ {c} : FateOf(d)' = FateOf(d)
    <2>1. ASSUME NEW d \in Command \ {c}
          PROVE  (\E m \in Node : job'[m] = d) <=> (\E m \in Node : job[m] = d)
      BY <1>2, StreamFacts
    <2> QED
      BY <1>1, <2>1 DEF FateOf
  <1>8. Fates' = [d \in Command |-> IF d \in {c} THEN "running" ELSE Fates[d]]
    BY <1>6, <1>7 DEF Fates
  <1>9. Log!Run(c)
    <2>1. Log!For(Dest[c]) \cap Log!With("running") = {}
      BY <1>1, <1>4 DEF Log!For, Log!With
    <2>2. Log!Earlier(c) \cap Log!With("accepted") = {}
      BY <1>1, <1>5 DEF Log!Earlier, Log!For, Log!With, Before
    <2> QED
      BY <1>1, <1>3, <1>8, <2>1, <2>2 DEF Log!Run, Log!Become, Fates
  <1> QED
    BY <1>9 DEF Log!Next

\* The command an agent has run is recorded under its id.
LEMMA ReportRefines ==
    ASSUME IInv, LInv, NEW n \in Node, AgentReport(n)
    PROVE  Log!Next
  <1>0. /\ job[n] \in Command /\ job[n] \in ToSet(ran) /\ Dest[job[n]] = n
        /\ job' = [job EXCEPT ![n] = None]
        /\ outcomes' = [outcomes EXCEPT ![IdOf[job[n]]] = job[n]]
        /\ UNCHANGED <<request, sent, ran, hurt, faults>>
    BY DEF AgentReport, PutOutcome, IInv, TypeOK, HoldInv, LInv, JobInv, rest, ghosts,
           budget
  <1>1. PICK c \in Command :
            /\ c = job[n] /\ c \in ToSet(ran) /\ Dest[c] = n
            /\ job' = [job EXCEPT ![n] = None]
            /\ outcomes' = [outcomes EXCEPT ![IdOf[c]] = c]
            /\ UNCHANGED <<request, sent, ran, hurt, faults>>
    BY <1>0
  <1>2. job'[n] = None /\ \A m \in Node \ {n} : job'[m] = job[m]
    BY <1>1 DEF IInv, TypeOK
  <1>3. FateOf(c) = "running"
    BY <1>1, FateFacts
  <1>4. FateOf(c)' = "done"
    <2>1. \A m \in Node : job'[m] # c
      BY <1>1, <1>2, StreamFacts DEF LInv, JobInv
    <2> QED
      BY <1>1, <2>1 DEF FateOf
  <1>5. \A d \in Command \ {c} : FateOf(d)' = FateOf(d)
    <2>1. ASSUME NEW d \in Command \ {c}
          PROVE  (\E m \in Node : job'[m] = d) <=> (\E m \in Node : job[m] = d)
      BY <1>1, <1>2, StreamFacts
    <2> QED
      BY <1>1, <2>1 DEF FateOf
  <1>6. Fates' = [d \in Command |-> IF d \in {c} THEN "done" ELSE Fates[d]]
    BY <1>4, <1>5 DEF Fates
  <1>7. Log!Record(c)
    BY <1>1, <1>3, <1>6 DEF Log!Record, Log!Become, Log!Recorded, Fates
  <1> QED
    BY <1>7 DEF Log!Next

\* What the end of a session does to the commands: those on its stream are lost,
\* and the one it ran is no longer being reported.
LEMMA EndSessionFates ==
    ASSUME IInv, LInv, NEW n \in Node, EndSession(n),
           UNCHANGED <<request, sent, ran>>
    PROVE  /\ Taken(n) \in SUBSET (Log!For(n) \cap Log!With("accepted"))
           /\ Log!For(n) \cap Log!With("running") = {job[n]} \ {None}
           /\ Fates' = [c \in Command |->
                  IF c \in Taken(n) THEN "lost"
                  ELSE IF c \in Log!For(n) \cap Log!With("running") THEN "done"
                  ELSE Fates[c]]
  <1>1. /\ job' = [job EXCEPT ![n] = None]
        /\ hurt' = hurt \cup Taken(n)
        /\ Taken(n) \subseteq ToSet(sent)
        /\ \A c \in Taken(n) : Dest[c] = n /\ c \notin ToSet(ran) /\ c \notin hurt
    BY EndSessionFacts
  <1>2. job'[n] = None /\ \A m \in Node \ {n} : job'[m] = job[m]
    BY <1>1 DEF IInv, TypeOK
  <1>3. \A c \in Taken(n) : c \in Command /\ FateOf(c) = "accepted"
    <2>1. \A c \in Taken(n) : c \in Command
      BY <1>1, ToSetType DEF IInv, TypeOK
    <2>2. \A c \in Taken(n) : request[c] = "accepted"
      BY <1>1, <2>1 DEF IInv, SentInv
    <2> QED
      BY <1>1, <2>1, <2>2, FateFacts
  <1>4. \A c \in Command : Dest[c] = n /\ FateOf(c) = "running" <=> job[n] = c
    <2>1. \A c \in Command, m \in Node : job[m] = c => Dest[c] = m
      BY StreamFacts DEF LInv, JobInv
    <2> QED
      BY <2>1, FateFacts
  <1>5. job[n] \in Command \cup {None}
    BY DEF IInv, TypeOK
  <1>6. Log!For(n) \cap Log!With("running") = {job[n]} \ {None}
    BY <1>4, <1>5, StreamFacts DEF Log!For, Log!With
  <1>7. ASSUME NEW c \in Command
        PROVE  FateOf(c)' = IF c \in Taken(n) THEN "lost"
                            ELSE IF c = job[n] THEN "done"
                            ELSE FateOf(c)
    <2>1. CASE c \in Taken(n)
      BY <1>1, <2>1 DEF FateOf
    <2>2. CASE c = job[n]
      <3>1. c \in ToSet(ran) /\ \A m \in Node : job'[m] # c
        BY <1>2, <2>2, StreamFacts DEF LInv, JobInv
      <3> QED
        BY <1>1, <2>2, <3>1 DEF FateOf
    <2>3. CASE c \notin Taken(n) /\ c # job[n]
      <3>1. (\E m \in Node : job'[m] = c) <=> (\E m \in Node : job[m] = c)
        BY <1>2, <2>3, StreamFacts
      <3> QED
        BY <1>1, <2>3, <3>1 DEF FateOf
    <2> QED
      BY <2>1, <2>2, <2>3
  <1>8. \A c \in Command : c = job[n] <=> c \in Log!For(n) \cap Log!With("running")
    BY <1>6, StreamFacts
  <1>9. Fates' = [c \in Command |->
            IF c \in Taken(n) THEN "lost"
            ELSE IF c \in Log!For(n) \cap Log!With("running") THEN "done"
            ELSE Fates[c]]
    BY <1>7, <1>8 DEF Fates
  <1>10. Taken(n) \in SUBSET (Log!For(n) \cap Log!With("accepted"))
    BY <1>1, <1>3 DEF Log!For, Log!With
  <1> QED
    BY <1>6, <1>9, <1>10

\* A session that ends in good order is not reporting.
LEMMA LeaveRefines ==
    ASSUME IInv, LInv, NEW n \in Node, session[n] = "serving", EndSession(n),
           UNCHANGED <<request, sent, ran, outcomes, faults>>
    PROVE  Log!Next
  <1>1. job[n] = None
    BY DEF IInv, HoldInv
  <1>2. /\ Taken(n) \in SUBSET (Log!For(n) \cap Log!With("accepted"))
        /\ Log!For(n) \cap Log!With("running") = {}
        /\ Fates' = [c \in Command |-> IF c \in Taken(n) THEN "lost" ELSE Fates[c]]
    BY <1>1, EndSessionFates
  <1>3. Log!Leave(n)
    BY <1>2 DEF Log!Leave, Log!Become, Fates
  <1> QED
    BY <1>3 DEF Log!Next

\* One that fails while it reports may have been recorded.
LEMMA FailRefines ==
    ASSUME IInv, LInv, NEW n \in Node, AgentFails(n)
    PROVE  Log!Next
  <1>1. /\ Taken(n) \in SUBSET (Log!For(n) \cap Log!With("accepted"))
        /\ Log!For(n) \cap Log!With("running") = {job[n]} \ {None}
        /\ Fates' = [c \in Command |->
               IF c \in Taken(n) THEN "lost"
               ELSE IF c \in Log!For(n) \cap Log!With("running") THEN "done"
               ELSE Fates[c]]
    BY EndSessionFates DEF AgentFails, rest
  <1>2. \/ UNCHANGED outcomes
        \/ \E c \in Log!For(n) \cap Log!With("running") : outcomes' = Log!Recorded(c)
    <2>1. session[n] = "reporting" => job[n] \in {job[n]} \ {None}
      BY DEF IInv, HoldInv
    <2> QED
      BY <1>1, <2>1 DEF AgentFails, PutOutcome, Log!Recorded
  <1>3. faults' = faults + 1 /\ UNCHANGED sent
    BY DEF AgentFails
  <1>4. Log!Fail(n)
    BY <1>1, <1>2, <1>3 DEF Log!Fail, Fates
  <1> QED
    BY <1>4 DEF Log!Next

\* The daemon restarts: open requests come to nothing and every stream is lost.
LEMMA RestartRefines ==
    ASSUME IInv, LInv, DaemonRestart
    PROVE  Log!Next
  <1> DEFINE U == {c \in Command : request[c] \in {"get_node", "clone", "send"}}
             L == {c \in Command : c \notin hurt /\ \E s \in Stream : c \in Travelling(s)}
  <1>1. /\ \A c \in Command : request'[c] = IF c \in U THEN "cancelled" ELSE request[c]
        /\ hurt' = hurt \cup L
        /\ faults' = faults + 1
        /\ UNCHANGED <<job, outcomes, sent, ran>>
    <2>1. \A s \in Stream : Travelling(s) \subseteq Command
      BY TravellingType DEF IInv
    <2>2. hurt' = hurt \cup UNION {Travelling(s) : s \in Stream}
      BY DEF DaemonRestart
    <2>3. hurt' = hurt \cup L
      BY <2>1, <2>2
    <2> QED
      BY <2>3 DEF DaemonRestart
  <1>2. \A c \in L : /\ c \in Command /\ request[c] = "accepted"
                     /\ c \notin ToSet(ran) /\ c \notin hurt
    <2>1. \A s \in Stream : \A c \in Travelling(s) :
              c \in ToSet(sent) /\ c \notin ToSet(ran)
      BY DEF IInv, PlaceInv, LInv, ApartInv
    <2>2. ToSet(sent) \subseteq Command
      BY ToSetType DEF IInv, TypeOK
    <2> QED
      BY <2>1, <2>2 DEF IInv, SentInv
  <1>3. L \in SUBSET Log!With("accepted") /\ U \in SUBSET Log!With("asked")
    BY <1>2, FateFacts DEF Log!With
  <1>4. ASSUME NEW c \in Command
        PROVE  FateOf(c)' = IF c \in U THEN "refused"
                            ELSE IF c \in L THEN "lost"
                            ELSE FateOf(c)
    <2>1. c \in U => c \notin ToSet(ran) /\ c \notin hurt /\ c \notin L
      BY <1>2, FateFacts
    <2> HIDE DEF L, U
    <2> QED
      BY <1>1, <1>2, <2>1 DEF FateOf
  <1> HIDE DEF L, U
  <1>5. Fates' = [c \in Command |-> IF c \in U THEN "refused"
                                    ELSE IF c \in L THEN "lost" ELSE Fates[c]]
    BY <1>4 DEF Fates
  <1>6. Log!Restart
    BY <1>1, <1>3, <1>5 DEF Log!Restart, Fates
  <1> QED
    BY <1>6 DEF Log!Next

LEMMA StepRefines == IInv /\ LInv /\ [Next]_vars => [Log!Next]_(Log!vars)
  <1> SUFFICES ASSUME IInv, LInv, [Next]_vars
               PROVE  Log!Next \/ UNCHANGED <<Fates, sent, outcomes, faults>>
    BY DEF Log!vars, Fates
  <1>1. CASE \E c \in Command : Rest(c)
    BY <1>1, RestRefines
  <1>2. ASSUME NEW s \in Stream, Bridge(s) \/ NoticeHangup(s)
        PROVE  UNCHANGED <<Fates, sent, outcomes, faults>>
    BY <1>2, SameFates
    DEF Bridge, BridgeRecv, BridgeEnd, BridgeSend, BridgeHangup, BridgeDetach,
        NoticeHangup, rest, agents, budget, ghosts
  <1>3. ASSUME NEW n \in Node, Agent(n)
        PROVE  Log!Next \/ UNCHANGED <<Fates, sent, outcomes, faults>>
    <2>1. CASE AgentRegister(n) \/ AgentOpenStream(n)
      BY <2>1, SameFates DEF AgentRegister, AgentOpenStream, rest, budget, ghosts
    <2>2. CASE AgentReceive(n)
      BY <2>2, ReceiveRefines
    <2>3. CASE AgentReport(n)
      BY <2>3, ReportRefines
    <2>4. CASE AgentStreamClosed(n) \/ AgentStreamBroken(n) \/ AgentReregister(n)
      BY <2>4, LeaveRefines
      DEF AgentStreamClosed, AgentStreamBroken, AgentReregister, rest, budget
    <2> QED
      BY <1>3, <2>1, <2>2, <2>3, <2>4 DEF Agent
  <1>4. ASSUME NEW n \in Node, Attach(n)
        PROVE  UNCHANGED <<Fates, sent, outcomes, faults>>
    BY <1>4, SameFates
    DEF Attach, AgentAttach, OrphanAttach, AttachStream, rest, budget, ghosts
  <1>5. ASSUME NEW n \in Node, AgentFails(n) PROVE Log!Next
    BY <1>5, FailRefines
  <1>6. ASSUME NEW n \in Node, DeregisterNode(n) \/ DeregisterDetach(n)
        PROVE  UNCHANGED <<Fates, sent, outcomes, faults>>
    BY <1>6, SameFates DEF DeregisterNode, DeregisterDetach, rest, agents, budget, ghosts
  <1>7. CASE DaemonRestart
    BY <1>7, RestartRefines
  <1>8. CASE UNCHANGED vars
    BY <1>8, SameFates DEF vars, rest, agents, budget, ghosts
  <1>9. ASSUME NEW n \in Node, CommandEnds(n)
        PROVE  UNCHANGED <<Fates, sent, outcomes, faults>>
    BY <1>9, SameFates DEF CommandEnds, rest, budget, ghosts
  <1> QED
    BY <1>1, <1>2, <1>3, <1>4, <1>5, <1>6, <1>7, <1>8, <1>9 DEF Next

\* Handlers, registry, bridges, streams and sessions amount to CommandLog: no
\* command changes its fate without cause, a node runs one at a time and none
\* before an earlier one that is still to come, none is lost under a session that
\* lasts, and an outcome goes missing only in a failure (state.rs dispatch,
\* grpc.rs stream_commands, client.rs session, store.rs put_outcome).
THEOREM CommandLogImplemented == Spec => ImplementsCommandLog
  <1>1. Init => Log!Init
    <2> SUFFICES ASSUME Init PROVE Log!Init
      OBVIOUS
    <2>1. \A c \in Command : FateOf(c) = "asked"
      BY EmptyFacts DEF Init, FateOf
    <2> QED
      BY <2>1 DEF Init, Log!Init
  <1> QED
    BY <1>1, StepRefines, NothingMislaid, PTL
    DEF Spec, ImplementsCommandLog, Log!Spec
=============================================================================
