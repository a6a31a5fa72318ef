------------------------ MODULE AgentSession_proofs -------------------------
(***************************************************************************)
(* Proofs about AgentSession for every backoff and cap and any number of   *)
(* failures of either side.                                                *)
(***************************************************************************)
EXTENDS AgentSession, WellFoundedInduction, TLAPS

(***************************************************************************)
(* Powers of two.  A recursive function is what its definition says only   *)
(* if some function satisfies the definition; the least number without an  *)
(* initial segment of such a function does not exist.                      *)
(***************************************************************************)

\* A non-empty set of naturals has a least element.
LEMMA LeastNumber ==
    ASSUME NEW T \in SUBSET Nat, T # {}
    PROVE  \E x \in T : \A y \in T : x <= y
  <1> DEFINE R == {ss \in Nat \X Nat : ss[1] < ss[2]}
  <1>1. IsWellFoundedOn(R, Nat)
    BY NatLessThanWellFounded DEF OpToRel
  <1> HIDE DEF R
  <1>2. PICK x \in T : \A y \in T : <<y, x>> \notin R
    BY <1>1, WFMin
  <1>3. \A y \in T : ~(y < x)
    BY <1>2 DEF R
  <1> QED
    BY <1>3

\* Below n, f doubles from 1.
DoublesTo(f, n) ==
    /\ f \in [0..n -> Nat]
    /\ f[0] = 1
    /\ \A k \in 1..n : f[k] = 2 * f[k - 1]

LEMMA DoublingExists == \A n \in Nat : \E f : DoublesTo(f, n)
  <1> DEFINE T == {n \in Nat : ~ \E f : DoublesTo(f, n)}
  <1>1. SUFFICES ASSUME T # {} PROVE FALSE
    OBVIOUS
  <1>2. PICK n \in T : \A m \in T : n <= m
    BY <1>1, LeastNumber
  <1>3. n \in Nat
    BY <1>2
  <1>4. CASE n = 0
    <2>1. DoublesTo([k \in 0..0 |-> 1], 0)
      BY DEF DoublesTo
    <2> QED
      BY <1>2, <1>4, <2>1
  <1>5. CASE n # 0
    <2>1. n - 1 \in Nat /\ n - 1 \notin T
      BY <1>2, <1>3, <1>5
    <2>2. PICK f : DoublesTo(f, n - 1)
      BY <2>1
    <2> DEFINE g == [k \in 0..n |-> IF k = n THEN 2 * f[n - 1] ELSE f[k]]
    <2>3. DoublesTo(g, n)
      <3>1. f \in [0..(n - 1) -> Nat] /\ f[0] = 1
            /\ \A k \in 1..(n - 1) : f[k] = 2 * f[k - 1]
        BY <2>2 DEF DoublesTo
      <3>2. g \in [0..n -> Nat] /\ g[0] = 1
        BY <1>3, <1>5, <3>1
      <3>3. ASSUME NEW k \in 1..n PROVE g[k] = 2 * g[k - 1]
        BY <1>3, <1>5, <3>1
      <3> QED
        BY <3>2, <3>3 DEF DoublesTo
    <2> QED
      BY <1>2, <2>3
  <1> QED
    BY <1>4, <1>5

\* Two such functions agree where both are defined.
LEMMA DoublingUnique ==
    ASSUME NEW m \in Nat, NEW n \in Nat, NEW f, NEW g,
           DoublesTo(f, m), DoublesTo(g, n),
           NEW k \in Nat, k <= m, k <= n
    PROVE  f[k] = g[k]
  <1> DEFINE T == {i \in Nat : i <= m /\ i <= n /\ f[i] # g[i]}
  <1>1. SUFFICES ASSUME T # {} PROVE FALSE
    OBVIOUS
  <1>2. PICK i \in T : \A j \in T : i <= j
    BY <1>1, LeastNumber
  <1>3. i # 0 /\ i \in Nat /\ i <= m /\ i <= n /\ f[i] # g[i]
    BY <1>2 DEF DoublesTo
  <1>4. i - 1 \in Nat /\ i - 1 \notin T
    BY <1>2, <1>3
  <1>5. f[i - 1] = g[i - 1]
    BY <1>3, <1>4
  <1>6. f[i] = 2 * f[i - 1] /\ g[i] = 2 * g[i - 1]
    BY <1>3 DEF DoublesTo
  <1> QED
    BY <1>3, <1>5, <1>6

\* Power2 doubles from 1.
LEMMA Power2Doubles ==
    /\ Power2[0] = 1
    /\ \A k \in Nat : Power2[k] \in Nat /\ Power2[k + 1] = 2 * Power2[k]
  <1> DEFINE F(n) == CHOOSE f : DoublesTo(f, n)
             P == [n \in Nat |-> F(n)[n]]
             Def(f) == [k \in Nat |-> IF k = 0 THEN 1 ELSE 2 * f[k - 1]]
  <1>1. \A n \in Nat : DoublesTo(F(n), n)
    BY DoublingExists
  <1>2. ASSUME NEW n \in Nat
        PROVE  /\ F(n)[n] \in Nat
               /\ F(0)[0] = 1
               /\ n # 0 => F(n)[n] = 2 * F(n - 1)[n - 1]
    <2> HIDE DEF F
    <2>1. F(n)[n] \in Nat /\ F(0)[0] = 1
      BY <1>1 DEF DoublesTo
    <2>2. ASSUME n # 0 PROVE F(n)[n] = 2 * F(n - 1)[n - 1]
      <3>1. n - 1 \in Nat
        BY <2>2
      <3>2. DoublesTo(F(n), n) /\ DoublesTo(F(n - 1), n - 1)
        BY <1>1, <3>1
      <3>3. F(n)[n - 1] = F(n - 1)[n - 1]
        BY <3>1, <3>2, DoublingUnique
      <3>4. F(n)[n] = 2 * F(n)[n - 1]
        BY <2>2, <3>2 DEF DoublesTo
      <3> QED
        BY <3>3, <3>4
    <2> QED
      BY <2>1, <2>2
  <1>3. P = Def(P)
    <2> HIDE DEF F
    <2> QED
      BY <1>2
  <1>4. Power2 = CHOOSE f : f = Def(f)
    BY DEF Power2
  <1>5. Power2 = Def(Power2)
    <2> HIDE DEF P, Def
    <2> QED
      BY <1>3, <1>4
  <1>6. \A k \in Nat : Power2[k] = IF k = 0 THEN 1 ELSE 2 * Power2[k - 1]
    BY <1>5
  <1>7. \A k \in Nat : Power2[k] \in Nat
    <2> DEFINE T == {k \in Nat : Power2[k] \notin Nat}
    <2>1. SUFFICES ASSUME T # {} PROVE FALSE
      OBVIOUS
    <2>2. PICK k \in T : \A j \in T : k <= j
      BY <2>1, LeastNumber
    <2>3. k # 0
      BY <1>6, <2>2
    <2>4. k - 1 \in Nat /\ k - 1 \notin T
      BY <2>2, <2>3
    <2> QED
      BY <1>6, <2>2, <2>3, <2>4
  <1>8. ASSUME NEW k \in Nat PROVE Power2[k + 1] = 2 * Power2[k]
    BY <1>6
  <1> QED
    BY <1>6, <1>7, <1>8

-----------------------------------------------------------------------------
(* The state.                                                              *)

\* An acknowledgement the agent still relies on came from a process that runs,
\* so that process has not stopped since and its epoch is the one it had then.
AckInv ==
    /\ live => up
    /\ phase \in {"stream", "serve"} /\ live => epoch = daemonEpoch

IInv == TypeOK /\ AckInv /\ BackoffIsCappedExponential

\* What the actions that end a session leave of it.
LEMMA EndSessionInv ==
    ASSUME TypeOK, AckInv, NEW how \in {"ok", "err"}, EndSession(how),
           known' \in BOOLEAN, faults' \in 0..MaxFaults,
           UNCHANGED <<up, daemonEpoch, now>>
    PROVE  TypeOK' /\ AckInv'
  BY DEF TypeOK, AckInv, EndSession

\* A failed step stays within the budget of failures.
LEMMA FailsInv ==
    ASSUME TypeOK, Fails
    PROVE  faults' \in 0..MaxFaults
  BY BoundAssumption DEF TypeOK, Fails

\* Every step keeps types and acknowledgements.
LEMMA NextAck == TypeOK /\ AckInv /\ [Next]_vars => TypeOK' /\ AckInv'
  <1> SUFFICES ASSUME TypeOK, AckInv, [Next]_vars
               PROVE  TypeOK' /\ AckInv'
    OBVIOUS
  <1>0. known \in BOOLEAN /\ faults \in 0..MaxFaults /\ up \in BOOLEAN
    BY DEF TypeOK
  <1>1. CASE Connect
    <2>1. CASE Fails /\ EndSession("err")
      BY <1>0, <1>1, <2>1, FailsInv, EndSessionInv DEF Connect, daemon
    <2>2. CASE phase' = "register" /\ UNCHANGED <<backoff, epoch, live, attached,
                                                 result, sleeps, faults>>
      BY <1>1, <2>2 DEF Connect, daemon, TypeOK, AckInv
    <2> QED
      BY <1>1, <2>1, <2>2 DEF Connect
  <1>2. CASE RegisterNode
    <2>1. CASE Fails /\ EndSession("err") /\ known' \in {known, up \/ known}
      <3>1. known' \in BOOLEAN
        BY <1>0, <2>1
      <3> QED
        BY <1>2, <2>1, <3>1, FailsInv, EndSessionInv DEF RegisterNode
    <2>2. CASE /\ up /\ known' = TRUE /\ epoch' = AckEpoch /\ live' = TRUE
               /\ phase' = "stream"
               /\ UNCHANGED <<backoff, attached, result, sleeps, faults>>
      BY <1>2, <2>2 DEF RegisterNode, AckEpoch, TypeOK, AckInv
    <2> QED
      BY <1>2, <2>1, <2>2 DEF RegisterNode
  <1>3. CASE StreamCommands
    <2>1. CASE /\ phase' = "serve" /\ attached' = TRUE
               /\ UNCHANGED <<backoff, epoch, live, result, sleeps, faults>>
      BY <1>3, <2>1 DEF StreamCommands, daemon, TypeOK, AckInv
    <2>2. CASE (Fails \/ UNCHANGED faults) /\ EndSession("err")
      BY <1>0, <1>3, <2>2, FailsInv, EndSessionInv DEF StreamCommands, daemon
    <2> QED
      BY <1>3, <2>1, <2>2 DEF StreamCommands
  <1>4. CASE MetricsTick
    <2>1. (Fails \/ UNCHANGED faults) /\ EndSession("err")
      BY <1>4 DEF MetricsTick
    <2> QED
      BY <1>0, <1>4, <2>1, FailsInv, EndSessionInv DEF MetricsTick, daemon
  <1>5. CASE HeartbeatTick
    <2>1. (Fails \/ UNCHANGED faults) /\ \E how \in {"ok", "err"} : EndSession(how)
      BY <1>5 DEF HeartbeatTick
    <2> QED
      BY <1>0, <1>5, <2>1, FailsInv, EndSessionInv DEF HeartbeatTick, daemon
  <1>6. CASE StreamClosed
    BY <1>0, <1>6, EndSessionInv, BoundAssumption DEF StreamClosed, daemon
  <1>7. CASE StreamBroken
    BY <1>0, <1>7, EndSessionInv DEF StreamBroken, daemon
  <1>8. CASE Sleep
    BY <1>8, BackoffAssumption, BoundAssumption
       DEF Sleep, Doubled, daemon, TypeOK, AckInv
  <1>9. CASE DaemonStop
    <2>1. up' \in BOOLEAN /\ live' \in BOOLEAN /\ attached' \in BOOLEAN
      BY <1>9 DEF DaemonStop
    <2>2. ~live' /\ faults' \in 0..MaxFaults
      BY <1>9, BoundAssumption DEF DaemonStop, TypeOK
    <2> QED
      BY <1>9, <2>1, <2>2 DEF DaemonStop, TypeOK, AckInv
  <1>10. CASE DaemonStart
    <2>1. up' \in BOOLEAN /\ known' \in BOOLEAN
      BY <1>0, <1>10 DEF DaemonStart
    <2>2. daemonEpoch' \in 1..now' /\ ~live'
      BY <1>10 DEF DaemonStart, agent, TypeOK, AckInv
    <2> QED
      BY <1>10, <2>1, <2>2 DEF DaemonStart, agent, TypeOK, AckInv
  <1>11. CASE Deregister
    <2>1. known' \in BOOLEAN
      BY <1>11 DEF Deregister
    <2>2. faults' \in 0..MaxFaults
      BY <1>11, BoundAssumption DEF Deregister, TypeOK
    <2> QED
      BY <1>11, <2>1, <2>2 DEF Deregister, agent, TypeOK, AckInv
  <1>12. CASE Tick
    BY <1>12, BoundAssumption DEF Tick, agent, TypeOK, AckInv
  <1>13. CASE UNCHANGED vars
    BY <1>13 DEF vars, agent, daemon, TypeOK, AckInv
  <1> QED
    BY <1>1, <1>2, <1>3, <1>4, <1>5, <1>6, <1>7, <1>8, <1>9, <1>10, <1>11, <1>12,
       <1>13 DEF Next

\* Every step keeps the backoff a capped power: only Sleep touches it.
LEMMA NextBackoff ==
    TypeOK /\ BackoffIsCappedExponential /\ [Next]_vars
        => BackoffIsCappedExponential'
  <1> SUFFICES ASSUME TypeOK, BackoffIsCappedExponential, [Next]_vars
               PROVE  BackoffIsCappedExponential'
    OBVIOUS
  <1>1. CASE UNCHANGED <<backoff, sleeps>>
    BY <1>1 DEF BackoffIsCappedExponential
  <1>2. CASE Sleep
    <2>1. SUFFICES ASSUME sleeps' < MaxSleeps
                   PROVE  backoff' = IF \/ sleeps' = 0
                                        \/ ReconnectBackoff * Power2[sleeps'] < MaxBackoff
                                     THEN ReconnectBackoff * Power2[sleeps']
                                     ELSE MaxBackoff
      BY DEF BackoffIsCappedExponential
    <2>2. sleeps \in Nat /\ sleeps < MaxSleeps /\ sleeps' = sleeps + 1
      BY <1>2, <2>1, BoundAssumption DEF Sleep, TypeOK
    <2> DEFINE p == Power2[sleeps]
               b == ReconnectBackoff * p
    <2>3. p \in Nat /\ Power2[sleeps'] = 2 * p
      BY <2>2, Power2Doubles
    <2>4. b \in Nat /\ ReconnectBackoff * Power2[sleeps'] = 2 * b
      <3> HIDE DEF p
      <3> QED
        BY <2>3, BackoffAssumption
    <2>5. backoff = IF sleeps = 0 \/ b < MaxBackoff THEN b ELSE MaxBackoff
      BY <2>2 DEF BackoffIsCappedExponential
    <2>6. backoff' = IF 2 * backoff < MaxBackoff THEN 2 * backoff ELSE MaxBackoff
      BY <1>2 DEF Sleep, Doubled
    <2> HIDE DEF b, p
    <2> QED
      BY <2>2, <2>4, <2>5, <2>6, BackoffAssumption
  <1> QED
    BY <1>1, <1>2
       DEF Next, Connect, RegisterNode, StreamCommands, MetricsTick, HeartbeatTick,
           StreamClosed, StreamBroken, EndSession, DaemonStop, DaemonStart,
           Deregister, Tick, vars, agent

\* The agent and the daemon as it sees it keep their types, what the agent
\* believes of the process it is registered with is true, and its backoff is the
\* capped power (client.rs run, session).
THEOREM InductiveInvariant == Spec => []IInv
  <1>1. Init => IInv
    <2> SUFFICES ASSUME Init PROVE IInv
      OBVIOUS
    <2>1. TypeOK
      <3>1. live \in BOOLEAN /\ attached \in BOOLEAN /\ up \in BOOLEAN
            /\ known \in BOOLEAN
        BY DEF Init
      <3> QED
        BY <3>1, BackoffAssumption, BoundAssumption DEF Init, TypeOK
    <2>2. AckInv
      BY DEF Init, AckInv
    <2>3. BackoffIsCappedExponential
      BY Power2Doubles, BackoffAssumption DEF Init, BackoffIsCappedExponential
    <2> QED
      BY <2>1, <2>2, <2>3 DEF IInv
  <1>2. IInv /\ [Next]_vars => IInv'
    BY NextAck, NextBackoff DEF IInv
  <1> QED
    BY <1>1, <1>2, PTL DEF Spec

\* An agent registered with the process that runs is never told to re-register
\* because of its epoch, however often the daemon stopped and came back within
\* one second (grpc.rs heartbeat: "A mismatched epoch means the daemon
\* restarted").
THEOREM EpochJustified == Spec => []EpochMismatchMeansRestart
  <1>1. IInv => EpochMismatchMeansRestart
    BY DEF IInv, AckInv, EpochMismatchMeansRestart
  <1> QED
    BY <1>1, InductiveInvariant, PTL

\* The k-th reconnect waits for the base backoff times 2^k, up to the cap that
\* the first wait alone may exceed, for every base and cap (client.rs run:
\* "reconnects with capped exponential backoff").
THEOREM BackoffExponential == Spec => []BackoffIsCappedExponential
  <1>1. IInv => BackoffIsCappedExponential
    BY DEF IInv
  <1> QED
    BY <1>1, InductiveInvariant, PTL
=============================================================================
