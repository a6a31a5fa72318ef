------------------------- MODULE NodeTimeout_proofs -------------------------
(***************************************************************************)
(* Proofs about NodeTimeout for every configuration that                   *)
(* DaemonConfig::validate accepts, every length of a second in ticks,      *)
(* every delay of a call and every step of the wall clock.                 *)
(***************************************************************************)
EXTENDS NodeTimeout, TLAPS

-----------------------------------------------------------------------------
(* Arithmetic. *)

\* The greater and the smaller of two numbers.
LEMMA MaxMinOfTwo ==
    ASSUME NEW a \in Int, NEW b \in Int
    PROVE  /\ Max({a, b}) = IF a >= b THEN a ELSE b
           /\ Min({a, b}) = IF a <= b THEN a ELSE b
  <1>1. ASSUME NEW m \in {a, b}, \A y \in {a, b} : m >= y PROVE Max({a, b}) = m
    <2>1. /\ Max({a, b}) \in {a, b} /\ \A y \in {a, b} : Max({a, b}) >= y
      BY <1>1 DEF Max
    <2> QED
      BY <1>1, <2>1
  <1>2. ASSUME NEW m \in {a, b}, \A y \in {a, b} : m <= y PROVE Min({a, b}) = m
    <2>1. /\ Min({a, b}) \in {a, b} /\ \A y \in {a, b} : Min({a, b}) <= y
      BY <1>2 DEF Min
    <2> QED
      BY <1>2, <2>1
  <1> QED
    BY <1>1, <1>2

\* Cutting a time to whole seconds loses less than one.
LEMMA AsSecs ==
    ASSUME NEW d \in Int
    PROVE  /\ as_secs(d) \in Int
           /\ as_secs(d) * S <= d /\ d < as_secs(d) * S + S
           /\ d >= 0 => as_secs(d) >= 0
  BY TimeoutAssumption DEF as_secs

\* Products with S keep order and sums.
LEMMA TimesS ==
    ASSUME NEW x \in Int, NEW y \in Int
    PROVE  /\ x * S \in Int
           /\ (x + y) * S = x * S + y * S
           /\ x <= y => x * S <= y * S
           /\ x < y => x * S + S <= y * S
  <1>1. S \in Int /\ S >= 1
    BY TimeoutAssumption
  <1>2. x * S \in Int /\ (x + y) * S = x * S + y * S
    BY <1>1
  <1>3. ASSUME NEW z \in Int, z >= 0 PROVE z * S >= 0 /\ (z >= 1 => z * S >= S)
    BY <1>1, <1>3
  <1>4. (y - x) * S = y * S - x * S /\ y - x \in Int /\ y * S \in Int
    BY <1>1
  <1> QED
    BY <1>1, <1>2, <1>3, <1>4

\* Whole seconds on both sides of the comparison: a time that lies more than n
\* whole seconds back lies more than n seconds back, and one that does not lies
\* less than n + 1 seconds back.
LEMMA WholeSeconds ==
    ASSUME NEW a \in Int, NEW b \in Int, NEW n \in Int
    PROVE  /\ as_secs(a) < as_secs(b) - n => b - a > n * S
           /\ as_secs(a) >= as_secs(b) - n => b - a < (n + 1) * S
  <1> DEFINE p == as_secs(a)
             q == as_secs(b)
  <1>1. /\ p \in Int /\ q \in Int
        /\ p * S <= a /\ a < p * S + S /\ q * S <= b /\ b < q * S + S
    BY AsSecs
  <1> HIDE DEF p, q
  <1>2. /\ p * S \in Int /\ q * S \in Int /\ n * S \in Int /\ S \in Int
        /\ (p + n) * S = p * S + n * S /\ (n + 1) * S = n * S + S
    BY <1>1, TimesS, TimeoutAssumption
  <1>3. ASSUME p < q - n PROVE b - a > n * S
    <2>1. (p + n) * S + S <= q * S
      BY <1>1, <1>3, TimesS
    <2> QED
      BY <1>1, <1>2, <2>1
  <1>4. ASSUME p >= q - n PROVE b - a < (n + 1) * S
    <2>1. q * S <= (p + n) * S
      BY <1>1, <1>4, TimesS
    <2> QED
      BY <1>1, <1>2, <2>1
  <1> QED
    BY <1>3, <1>4 DEF p, q

\* What the constants' assumptions say of a configuration.
LEMMA ConfigFacts ==
    ASSUME NEW c \in Config
    PROVE  /\ c.timeout \in Nat /\ c.metrics \in Nat /\ c.heartbeat \in Nat
           /\ c.step \in Int /\ Start + c.step >= 0 /\ c.commands \in BOOLEAN
           /\ Directed(c) \in Nat /\ ReapPeriod(c) \in Nat /\ ReapPeriod(c) >= S
           /\ as_secs(c.timeout) \in Nat
  <1>1. /\ c.timeout \in Nat /\ c.metrics \in Nat /\ c.heartbeat \in Nat
        /\ c.step \in Int /\ Start + c.step >= 0 /\ c.commands \in BOOLEAN
    BY TimeoutAssumption DEF Config
  <1>2. S \in Int /\ S >= 1
    BY TimeoutAssumption
  <1>3. as_secs(c.metrics) \in Int /\ as_secs(c.timeout) \in Nat
    BY <1>1, AsSecs
  <1>4. Max({as_secs(c.metrics), 1}) \in Nat
    BY <1>3, MaxMinOfTwo
  <1>5. (c.timeout + 1) \div 2 \in Int
    BY <1>1
  <1>6. Max({(c.timeout + 1) \div 2, S}) \in Nat /\ Max({(c.timeout + 1) \div 2, S}) >= S
    BY <1>2, <1>5, MaxMinOfTwo
  <1> QED
    BY <1>1, <1>2, <1>3, <1>4, <1>6 DEF Directed, ReapPeriod

-----------------------------------------------------------------------------
(* The inductive invariant. *)

\* The last sweep of the reaper, one period before the next, would have marked a
\* node that had been silent for too long then.
SweptInv ==
    ~unreachable =>
        reapDue - ReapPeriod(cfg) - heard < (as_secs(cfg.timeout) + 1) * S + SetBack

Period == Min({cfg.heartbeat, Directed(cfg)})

\* A live agent that runs no commands calls at the latest a period after its last
\* call was answered, and is answered within the longest delay.
PunctualInv ==
    ~cfg.commands =>
        /\ agent # "running"
        /\ agent = "idle" => /\ beatDue <= heard + cfg.heartbeat
                             /\ reportDue <= heard + Directed(cfg)
                             /\ now <= heard + Period
        /\ agent = "calling" => /\ beatDue <= now + cfg.heartbeat
                                /\ reportDue <= now + Directed(cfg)
                                /\ now <= callEnd
                                /\ callEnd <= heard + Period + MaxDelay

IInv == TypeOK /\ NeverReapedEarly /\ SweptInv /\ PunctualInv

\* The clock of a state: the wall clock was set at most once, so it cannot have
\* moved both ways since the node was heard.
LEMMA ClockFacts ==
    ASSUME TypeOK
    PROVE  /\ now \in Int /\ heard \in Int /\ reapDue \in Int
           /\ skew \in Int /\ heardSkew \in Int
           /\ heard <= now /\ now <= reapDue /\ reapDue <= now + ReapPeriod(cfg)
           /\ heard + heardSkew >= 0 /\ now + skew >= 0
           /\ SetForward \in Nat /\ SetBack \in Nat
           /\ skew - heardSkew <= SetForward /\ heardSkew - skew <= SetBack
           /\ skew = heardSkew => SetForward = 0 /\ SetBack = 0
           /\ cfg.step <= 0 => SetForward = 0
  <1>1. cfg.step \in Int /\ Start + cfg.step >= 0 /\ ReapPeriod(cfg) \in Nat
        /\ Start \in Nat
    BY ConfigFacts, TimeoutAssumption DEF TypeOK
  <1>2. /\ now \in Int /\ heard \in Int /\ reapDue \in Int
        /\ skew \in Int /\ heardSkew \in Int /\ Start <= heard
        /\ heard <= now /\ now <= reapDue /\ reapDue <= now + ReapPeriod(cfg)
        /\ skew \in {0, cfg.step} /\ heardSkew \in {0, skew}
    BY <1>1 DEF TypeOK
  <1>3. /\ SetForward = IF skew - heardSkew >= 0 THEN skew - heardSkew ELSE 0
        /\ SetBack = IF heardSkew - skew >= 0 THEN heardSkew - skew ELSE 0
    BY <1>2, MaxMinOfTwo DEF SetForward, SetBack
  <1> QED
    BY <1>1, <1>2, <1>3

\* The period is that of the more frequent timer.
LEMMA PeriodFacts ==
    ASSUME cfg \in Config
    PROVE  /\ Period \in Nat /\ Period \in {cfg.heartbeat, Directed(cfg)}
           /\ Period <= cfg.heartbeat /\ Period <= Directed(cfg)
  <1>1. cfg.heartbeat \in Nat /\ Directed(cfg) \in Nat
    BY ConfigFacts
  <1>2. /\ cfg.heartbeat <= Directed(cfg) => Period = cfg.heartbeat
        /\ ~(cfg.heartbeat <= Directed(cfg)) => Period = Directed(cfg)
    <2>1. cfg.heartbeat \in Int /\ Directed(cfg) \in Int
      BY <1>1
    <2> HIDE DEF Directed
    <2> QED
      BY <2>1, MaxMinOfTwo DEF Period
  <1> QED
    BY <1>1, <1>2

\* The initial states.
LEMMA InitIInv == Init => IInv
  <1> SUFFICES ASSUME Init PROVE IInv
    OBVIOUS
  <1>0. /\ cfg \in Config /\ Start \in Nat /\ S \in Nat /\ S >= 1
        /\ ReapPeriod(cfg) \in Nat /\ as_secs(cfg.timeout) \in Nat
        /\ cfg.heartbeat \in Nat /\ Directed(cfg) \in Nat
    BY ConfigFacts, TimeoutAssumption DEF Init
  <1>1. TypeOK
    <2>1. /\ now \in Nat /\ now >= Start /\ heard = now
          /\ reapDue \in now..(now + ReapPeriod(cfg))
          /\ skew = 0 /\ heardSkew = 0 /\ callEnd = now /\ beatDue = now
          /\ reportDue = now
      BY <1>0 DEF Init
    <2>2. lastSeen = as_secs(heard + heardSkew)
      BY <2>1 DEF Init, now_unix
    <2>3. agent \in {"idle", "calling", "running", "dead"}
      BY DEF Init, Begun
    <2>4. unreachable \in BOOLEAN
      BY DEF Init
    <2> QED
      BY <1>0, <2>1, <2>2, <2>3, <2>4 DEF TypeOK
  <1>2. NeverReapedEarly
    BY DEF Init, NeverReapedEarly
  <1>3. SweptInv
    <2>1. (as_secs(cfg.timeout) + 1) * S >= S /\ (as_secs(cfg.timeout) + 1) * S \in Int
      BY <1>0
    <2>2. SetBack \in Nat /\ reapDue - ReapPeriod(cfg) - heard <= 0
      BY <1>0, <1>1, ClockFacts DEF Init
    <2> QED
      BY <1>0, <1>1, <2>1, <2>2, ClockFacts DEF SweptInv
  <1>4. PunctualInv
    <2>1. Period \in Nat
      BY <1>0, PeriodFacts
    <2>2. agent \in {"idle", "dead"} /\ heard = now /\ beatDue = now
          /\ reportDue = now /\ now \in Int
      BY <1>0 DEF Init, Begun
    <2> QED
      BY <1>0, <2>1, <2>2 DEF PunctualInv
  <1> QED
    BY <1>1, <1>2, <1>3, <1>4 DEF IInv

\* A step of the agent alone, and what it has to show about its timers.
LEMMA AgentStep ==
    ASSUME IInv, UNCHANGED <<cfg, now, skew, reapDue, nodeVars>>,
           agent' \in {"idle", "calling", "running", "dead"},
           callEnd' \in Nat, beatDue' \in Nat, reportDue' \in Nat,
           PunctualInv'
    PROVE  IInv'
  <1>1. TypeOK'
    BY DEF IInv, TypeOK, nodeVars
  <1>2. NeverReapedEarly' /\ SweptInv'
    BY DEF IInv, NeverReapedEarly, SweptInv, Silence, SetForward, SetBack, nodeVars
  <1> QED
    BY <1>1, <1>2 DEF IInv

\* The agent calls, on either timer.
LEMMA SendInv ==
    ASSUME IInv, SendHeartbeat \/ SendMetrics
    PROVE  IInv'
  <1>0. /\ cfg \in Config /\ cfg.heartbeat \in Nat /\ Directed(cfg) \in Nat
        /\ now \in Nat /\ heard \in Int /\ heard <= now /\ MaxDelay \in Nat
        /\ beatDue \in Nat /\ reportDue \in Nat /\ cfg.commands \in BOOLEAN
    BY ConfigFacts, TimeoutAssumption DEF IInv, TypeOK
  <1>1. /\ agent = "idle" /\ agent' = "calling" /\ callEnd' = now + MaxDelay
        /\ UNCHANGED <<cfg, now, skew, reapDue, nodeVars>>
        /\ \/ beatDue <= now /\ beatDue' = beatDue + cfg.heartbeat
              /\ reportDue' = reportDue
           \/ reportDue <= now /\ reportDue' = reportDue + Directed(cfg)
              /\ beatDue' = beatDue
    BY DEF SendHeartbeat, SendMetrics, CallDaemon
  <1>2. callEnd' \in Nat /\ beatDue' \in Nat /\ reportDue' \in Nat
    BY <1>0, <1>1
  <1>3. PunctualInv'
    <2> SUFFICES ASSUME ~cfg.commands
                 PROVE  /\ beatDue' <= now + cfg.heartbeat
                        /\ reportDue' <= now + Directed(cfg)
                        /\ now <= callEnd'
                        /\ callEnd' <= heard + Period + MaxDelay
      BY <1>1 DEF PunctualInv, Period, nodeVars
    <2>1. /\ beatDue <= heard + cfg.heartbeat /\ reportDue <= heard + Directed(cfg)
          /\ now <= heard + Period
      BY <1>1 DEF IInv, PunctualInv
    <2>2. Period \in Nat
      BY <1>0, PeriodFacts
    <2> QED
      BY <1>0, <1>1, <2>1, <2>2
  <1> QED
    BY <1>1, <1>2, <1>3, AgentStep

\* The node is seen: it has been silent for no time at all.
LEMMA SeenInv ==
    ASSUME IInv, Seen, UNCHANGED <<cfg, now, skew, reapDue>>,
           agent' \in {"idle", "dead"},
           callEnd' \in Nat, beatDue' \in Nat, reportDue' \in Nat,
           ~cfg.commands /\ agent' = "idle" =>
               beatDue' <= now + cfg.heartbeat /\ reportDue' <= now + Directed(cfg)
    PROVE  IInv'
  <1>0. TypeOK
    BY DEF IInv
  <1>1. /\ lastSeen' = as_secs(now + skew) /\ unreachable' = FALSE
        /\ heard' = now /\ heardSkew' = skew
    BY DEF Seen, now_unix
  <1>2. now \in Nat /\ now \in Start..now /\ skew \in {0, cfg.step}
    BY <1>0, TimeoutAssumption DEF TypeOK
  <1>3. TypeOK'
    BY <1>0, <1>1, <1>2 DEF TypeOK
  <1>4. NeverReapedEarly'
    BY <1>1 DEF NeverReapedEarly
  <1>5. SweptInv'
    <2>1. as_secs(cfg.timeout) \in Nat /\ ReapPeriod(cfg) \in Nat /\ S \in Nat /\ S >= 1
      BY <1>0, ConfigFacts, TimeoutAssumption DEF TypeOK
    <2>2. (as_secs(cfg.timeout) + 1) * S >= 1 /\ (as_secs(cfg.timeout) + 1) * S \in Int
      BY <2>1
    <2>3. SetBack' \in Nat
      <3>1. SetBack' = Max({skew - skew, 0})
        BY <1>1 DEF SetBack
      <3>2. skew - skew = 0
        BY <1>0, ClockFacts
      <3> QED
        BY <3>1, <3>2, MaxMinOfTwo
    <2>4. reapDue - ReapPeriod(cfg) - now <= 0 /\ reapDue \in Int
      BY <1>0, <2>1, ClockFacts
    <2>5. reapDue' - ReapPeriod(cfg') - heard' < (as_secs(cfg'.timeout) + 1) * S + SetBack'
      BY <1>1, <1>2, <2>1, <2>2, <2>3, <2>4
    <2> QED
      BY <2>5 DEF SweptInv
  <1>6. PunctualInv'
    <2>1. cfg \in Config
      BY <1>0 DEF TypeOK
    <2>2. Period \in Nat /\ Period' = Period
      BY <2>1, PeriodFacts DEF Period
    <2>3. now <= now + Period
      BY <1>2, <2>2
    <2> QED
      BY <1>1, <2>2, <2>3 DEF PunctualInv
  <1> QED
    BY <1>3, <1>4, <1>5, <1>6 DEF IInv

\* The reaper's sweep decides in whole seconds.
LEMMA ReapInv ==
    ASSUME IInv, Reap
    PROVE  IInv'
  <1> DEFINE T == as_secs(cfg.timeout)
  <1>0. /\ TypeOK /\ T \in Nat /\ ReapPeriod(cfg) \in Nat /\ cfg \in Config
        /\ S \in Nat
    BY ConfigFacts, TimeoutAssumption DEF IInv, TypeOK
  <1>1. /\ reapDue = now /\ reapDue' = now + ReapPeriod(cfg)
        /\ unreachable' = (unreachable \/ lastSeen < Cutoff)
        /\ UNCHANGED <<cfg, now, skew, agentVars, lastSeen, heard, heardSkew>>
    BY <1>0, ClockFacts DEF Reap
  <1>2. TypeOK'
    <2>1. unreachable' \in BOOLEAN
      BY <1>1
    <2>2. reapDue' \in now..(now + ReapPeriod(cfg))
      BY <1>0, <1>1, ClockFacts
    <2> QED
      BY <1>0, <1>1, <2>1, <2>2 DEF TypeOK, agentVars
  <1>3. /\ now \in Int /\ heard \in Int /\ skew \in Int /\ heardSkew \in Int
        /\ heard + heardSkew >= 0 /\ SetForward \in Nat /\ SetBack \in Nat
        /\ skew - heardSkew <= SetForward /\ heardSkew - skew <= SetBack
        /\ lastSeen = as_secs(heard + heardSkew)
    BY <1>0, ClockFacts DEF TypeOK
  <1>4. as_secs(heard + heardSkew) >= 0 /\ as_secs(heard + heardSkew) \in Int
        /\ as_secs(now + skew) \in Int
    BY <1>3, AsSecs
  <1>5. Cutoff = IF as_secs(now + skew) - T >= 0 THEN as_secs(now + skew) - T ELSE 0
    BY <1>0, <1>4, MaxMinOfTwo DEF Cutoff, now_unix
  <1>6. lastSeen < Cutoff <=> as_secs(heard + heardSkew) < as_secs(now + skew) - T
    BY <1>0, <1>3, <1>4, <1>5
  <1> HIDE DEF T
  <1>7. /\ T * S \in Int /\ (T + 1) * S \in Int
        /\ lastSeen < Cutoff => (now + skew) - (heard + heardSkew) > T * S
        /\ ~(lastSeen < Cutoff) => (now + skew) - (heard + heardSkew) < (T + 1) * S
    <2>1. T * S \in Int /\ (T + 1) * S \in Int
      BY <1>0
    <2>2. ~(lastSeen < Cutoff) => as_secs(heard + heardSkew) >= as_secs(now + skew) - T
      BY <1>0, <1>4, <1>6
    <2> QED
      BY <1>0, <1>3, <1>6, <2>1, <2>2, WholeSeconds
  <1>8. SetForward' = SetForward /\ SetBack' = SetBack /\ Silence' = now - heard
    BY <1>1 DEF SetForward, SetBack, Silence
  <1>9. NeverReapedEarly'
    <2> SUFFICES ASSUME unreachable' PROVE now - heard + SetForward > T * S
      BY <1>1, <1>8 DEF NeverReapedEarly, T
    <2>1. CASE unreachable
      BY <2>1 DEF IInv, NeverReapedEarly, Silence, T
    <2>2. CASE lastSeen < Cutoff
      BY <1>3, <1>7, <2>2
    <2> QED
      BY <1>1, <2>1, <2>2
  <1>10. SweptInv'
    <2>1. ASSUME ~unreachable'
          PROVE  reapDue' - ReapPeriod(cfg') - heard'
                     < (as_secs(cfg'.timeout) + 1) * S + SetBack'
      <3>1. ~(lastSeen < Cutoff)
        BY <1>1, <2>1
      <3>2. now + ReapPeriod(cfg) - ReapPeriod(cfg) - heard < (T + 1) * S + SetBack
        BY <1>0, <1>3, <1>7, <3>1
      <3>3. /\ reapDue' = now + ReapPeriod(cfg) /\ cfg' = cfg /\ heard' = heard
        BY <1>1
      <3> QED
        BY <1>0, <1>3, <1>7, <1>8, <3>2, <3>3 DEF T
    <2> QED
      BY <2>1 DEF SweptInv
  <1>11. PunctualInv'
    BY <1>1 DEF IInv, PunctualInv, Period, agentVars
  <1> QED
    BY <1>2, <1>9, <1>10, <1>11 DEF IInv

\* The wall clock is set: the node was heard before.
LEMMA SetClockInv ==
    ASSUME IInv, SetClock
    PROVE  IInv'
  <1>0. TypeOK /\ cfg.step \in Int
    BY ConfigFacts DEF IInv, TypeOK
  <1>1. /\ skew = 0 /\ heardSkew = 0 /\ skew' = cfg.step
        /\ UNCHANGED <<cfg, now, agentVars, reapDue, nodeVars>>
    BY <1>0 DEF SetClock, TypeOK
  <1>2. TypeOK'
    BY <1>0, <1>1 DEF TypeOK, agentVars, nodeVars
  <1>3. SetForward = 0 /\ SetBack = 0 /\ SetForward' \in Nat /\ SetBack' \in Nat
    <2>1. SetForward = 0 /\ SetBack = 0
      BY <1>0, <1>1, ClockFacts
    <2>2. /\ heardSkew' = 0
          /\ SetForward' = Max({cfg.step - 0, 0}) /\ SetBack' = Max({0 - cfg.step, 0})
      BY <1>1 DEF SetForward, SetBack, nodeVars
    <2>3. cfg.step - 0 \in Int /\ 0 - cfg.step \in Int
      BY <1>0
    <2> QED
      BY <2>1, <2>2, <2>3, MaxMinOfTwo
  <1>4. /\ now \in Int /\ heard \in Int /\ reapDue \in Int
        /\ as_secs(cfg.timeout) \in Nat /\ ReapPeriod(cfg) \in Nat
        /\ as_secs(cfg.timeout) * S \in Int /\ (as_secs(cfg.timeout) + 1) * S \in Int
    <2>1. as_secs(cfg.timeout) \in Nat /\ ReapPeriod(cfg) \in Nat /\ S \in Int
      BY <1>0, ConfigFacts, TimeoutAssumption DEF TypeOK
    <2> QED
      BY <1>0, <2>1, ClockFacts
  <1>5. NeverReapedEarly'
    BY <1>1, <1>3, <1>4 DEF IInv, NeverReapedEarly, Silence, nodeVars
  <1>6. SweptInv'
    BY <1>1, <1>3, <1>4 DEF IInv, SweptInv, nodeVars
  <1>7. PunctualInv'
    BY <1>1 DEF IInv, PunctualInv, Period, agentVars, nodeVars
  <1> QED
    BY <1>2, <1>5, <1>6, <1>7 DEF IInv

\* Time passes: an agent at rest has no timer due, one that waits for an answer
\* is not overdue.
LEMMA TickInv ==
    ASSUME IInv, Tick
    PROVE  IInv'
  <1>0. /\ TypeOK /\ cfg \in Config /\ cfg.heartbeat \in Nat
        /\ Directed(cfg) \in Nat /\ ReapPeriod(cfg) \in Nat
        /\ as_secs(cfg.timeout) \in Nat /\ S \in Int /\ cfg.commands \in BOOLEAN
    BY ConfigFacts, TimeoutAssumption DEF IInv, TypeOK
  <1>1. /\ now' = now + 1 /\ reapDue > now
        /\ agent = "calling" => callEnd > now
        /\ agent = "idle" => beatDue > now /\ reportDue > now
        /\ UNCHANGED <<cfg, skew, agentVars, reapDue, nodeVars>>
    BY DEF Tick
  <1>2. /\ now \in Int /\ heard \in Int /\ reapDue \in Int /\ callEnd \in Int
        /\ beatDue \in Int /\ reportDue \in Int /\ heard <= now
        /\ SetForward \in Nat
    BY <1>0, ClockFacts DEF TypeOK
  <1>3. TypeOK'
    <2>1. now' \in Nat /\ reapDue' \in now'..(now' + ReapPeriod(cfg))
          /\ heard' \in Start..now'
      BY <1>0, <1>1, TimeoutAssumption DEF TypeOK, nodeVars
    <2> QED
      BY <1>0, <1>1, <2>1 DEF TypeOK, agentVars, nodeVars
  <1>4. NeverReapedEarly'
    <2>1. as_secs(cfg.timeout) * S \in Int
      BY <1>0
    <2>2. SetForward' = SetForward
      BY <1>1 DEF SetForward, nodeVars
    <2> QED
      BY <1>1, <1>2, <2>1, <2>2 DEF IInv, NeverReapedEarly, Silence, nodeVars
  <1>5. SweptInv'
    BY <1>1 DEF IInv, SweptInv, SetBack, nodeVars
  <1>6. PunctualInv'
    <2> SUFFICES ASSUME ~cfg.commands
                 PROVE  /\ agent # "running"
                        /\ agent = "idle" => /\ beatDue <= heard + cfg.heartbeat
                                             /\ reportDue <= heard + Directed(cfg)
                                             /\ now + 1 <= heard + Period
                        /\ agent = "calling" => /\ beatDue <= now + 1 + cfg.heartbeat
                                                /\ reportDue <= now + 1 + Directed(cfg)
                                                /\ now + 1 <= callEnd
                                                /\ callEnd <= heard + Period + MaxDelay
      BY <1>1 DEF PunctualInv, Period, agentVars, nodeVars
    <2>1. Period \in Nat /\ Period \in {cfg.heartbeat, Directed(cfg)}
      BY <1>0, PeriodFacts
    <2>2. agent # "running"
      BY DEF IInv, PunctualInv
    <2>3. ASSUME agent = "idle"
          PROVE  /\ beatDue <= heard + cfg.heartbeat
                 /\ reportDue <= heard + Directed(cfg)
                 /\ now + 1 <= heard + Period
      <3>1. beatDue <= heard + cfg.heartbeat /\ reportDue <= heard + Directed(cfg)
        BY <2>3 DEF IInv, PunctualInv
      <3> QED
        BY <1>0, <1>1, <1>2, <2>1, <2>3, <3>1
    <2>4. ASSUME agent = "calling"
          PROVE  /\ beatDue <= now + 1 + cfg.heartbeat
                 /\ reportDue <= now + 1 + Directed(cfg)
                 /\ now + 1 <= callEnd
                 /\ callEnd <= heard + Period + MaxDelay
      <3>1. /\ beatDue <= now + cfg.heartbeat /\ reportDue <= now + Directed(cfg)
            /\ callEnd <= heard + Period + MaxDelay
        BY <2>4 DEF IInv, PunctualInv
      <3> QED
        BY <1>0, <1>1, <1>2, <2>4, <3>1
    <2> QED
      BY <2>2, <2>3, <2>4
  <1> QED
    BY <1>3, <1>4, <1>5, <1>6 DEF IInv

\* Every step keeps the invariant.
LEMMA NextIInv == IInv /\ [Next]_vars => IInv'
  <1> SUFFICES ASSUME IInv, [Next]_vars PROVE IInv'
    OBVIOUS
  <1>0. /\ cfg \in Config /\ cfg.heartbeat \in Nat /\ Directed(cfg) \in Nat
        /\ now \in Nat /\ callEnd \in Nat /\ beatDue \in Nat /\ reportDue \in Nat
        /\ cfg.commands \in BOOLEAN
    BY ConfigFacts DEF IInv, TypeOK
  <1>1. CASE SendHeartbeat \/ SendMetrics
    BY <1>1, SendInv
  <1>2. CASE CallAnswered
    <2>1. ~cfg.commands =>
              beatDue <= now + cfg.heartbeat /\ reportDue <= now + Directed(cfg)
      BY <1>2 DEF CallAnswered, IInv, PunctualInv
    <2> QED
      BY <1>0, <1>2, <2>1, SeenInv DEF CallAnswered
  <1>3. CASE HandleCommand
    <2>1. PunctualInv'
      BY <1>3 DEF HandleCommand, PunctualInv
    <2> QED
      BY <1>0, <1>3, <2>1, AgentStep DEF HandleCommand
  <1>4. CASE CommandEnds
    <2>1. PunctualInv'
      BY <1>4 DEF CommandEnds, IInv, PunctualInv
    <2> QED
      BY <1>0, <1>4, <2>1, AgentStep DEF CommandEnds
  <1>5. CASE Die
    <2>1. PunctualInv'
      BY <1>5 DEF Die, PunctualInv
    <2> QED
      BY <1>0, <1>5, <2>1, AgentStep DEF Die
  <1>6. CASE Restart
    <2>1. now <= now + cfg.heartbeat /\ now <= now + Directed(cfg)
      BY <1>0
    <2>2. agent' \in {"idle", "dead"}
      BY <1>6 DEF Restart, Begun
    <2> QED
      BY <1>0, <1>6, <2>1, <2>2, SeenInv DEF Restart
  <1>7. CASE Reap
    BY <1>7, ReapInv
  <1>8. CASE SetClock
    BY <1>8, SetClockInv
  <1>9. CASE Tick
    BY <1>9, TickInv
  <1>10. CASE UNCHANGED vars
    <2>1. PunctualInv'
      BY <1>10 DEF IInv, PunctualInv, Period, vars, agentVars, nodeVars
    <2>2. agent' \in {"idle", "calling", "running", "dead"}
      BY <1>10 DEF vars, agentVars, IInv, TypeOK
    <2> QED
      BY <1>0, <1>10, <2>1, <2>2, AgentStep DEF vars, agentVars
  <1> QED
    BY <1>1, <1>2, <1>3, <1>4, <1>5, <1>6, <1>7, <1>8, <1>9, <1>10 DEF Next

\* The inductive invariant of the failure detector.
THEOREM InductiveInvariant == Spec => []IInv
  BY InitIInv, NextIInv, PTL DEF Spec

\* The reaper, which computes with whole seconds on both sides, marks no node
\* that was heard within the whole seconds of node_timeout, unless the clock was
\* set forward, and then by no more than it was set (state.rs reap_stale).
THEOREM NotTooEarly == Spec => []NeverReapedEarly
  <1>1. IInv => NeverReapedEarly
    BY DEF IInv
  <1> QED
    BY <1>1, InductiveInvariant, PTL

\* A node silent for node_timeout, a second of rounding and a period of the
\* reaper is Unreachable; a clock set back delays that by no more than it was set
\* (state.rs reap_stale, main.rs).
THEOREM NotTooLate == Spec => []ReapedInTime
  <1>1. IInv => ReapedInTime
    <2> SUFFICES ASSUME IInv, ~unreachable
                 PROVE  ~(now - heard > (as_secs(cfg.timeout) + 1) * S
                                            + ReapPeriod(cfg) + SetBack)
      BY DEF ReapedInTime, Silence
    <2>1. /\ as_secs(cfg.timeout) \in Nat /\ ReapPeriod(cfg) \in Nat /\ S \in Int
      BY ConfigFacts, TimeoutAssumption DEF IInv, TypeOK
    <2>2. (as_secs(cfg.timeout) + 1) * S \in Int
      BY <2>1
    <2>3. now \in Int /\ heard \in Int /\ reapDue \in Int /\ SetBack \in Nat
          /\ now <= reapDue
      BY ClockFacts DEF IInv
    <2>4. reapDue - ReapPeriod(cfg) - heard < (as_secs(cfg.timeout) + 1) * S + SetBack
      BY DEF IInv, SweptInv
    <2> QED
      BY <2>1, <2>2, <2>3, <2>4
  <1> QED
    BY <1>1, InductiveInvariant, PTL

\* A live agent that is sent no commands is never marked, if the more frequent of
\* its timers and one call fit into the whole seconds of node_timeout and the
\* clock is not set forward (client.rs session, state.rs reap_stale).
THEOREM LiveAgentTrusted == Spec => []NoFalseAlarm
  <1>1. IInv => NoFalseAlarm
    <2> SUFFICES ASSUME IInv, Ample, ~cfg.commands, cfg.step <= 0, agent # "dead",
                        unreachable
                 PROVE  FALSE
      BY DEF NoFalseAlarm
    <2>1. /\ cfg \in Config /\ MaxDelay \in Nat /\ now \in Int /\ heard \in Int
          /\ callEnd \in Int /\ SetForward = 0 /\ as_secs(cfg.timeout) * S \in Int
      <3>1. as_secs(cfg.timeout) \in Nat /\ S \in Int /\ MaxDelay \in Nat
            /\ cfg \in Config
        BY ConfigFacts, TimeoutAssumption DEF IInv, TypeOK
      <3> QED
        BY <3>1, ClockFacts DEF IInv, TypeOK
    <2>2. Period \in Nat /\ Period + MaxDelay <= as_secs(cfg.timeout) * S
      BY <2>1, PeriodFacts DEF Ample, Period
    <2>3. now <= heard + Period + MaxDelay
      <3>1. agent \in {"idle", "calling"}
        BY DEF IInv, PunctualInv, TypeOK
      <3>2. CASE agent = "idle"
        BY <2>1, <2>2, <3>2 DEF IInv, PunctualInv
      <3>3. CASE agent = "calling"
        BY <2>1, <2>2, <3>3 DEF IInv, PunctualInv
      <3> QED
        BY <3>1, <3>2, <3>3
    <2>4. now - heard > as_secs(cfg.timeout) * S
      BY <2>1 DEF IInv, NeverReapedEarly, Silence
    <2> QED
      BY <2>1, <2>2, <2>3, <2>4
  <1> QED
    BY <1>1, InductiveInvariant, PTL
=============================================================================
