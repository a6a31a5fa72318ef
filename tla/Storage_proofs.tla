--------------------------- MODULE Storage_proofs ---------------------------
(***************************************************************************)
(* Proofs about the two parts that work on files.  BlockIO: for every set  *)
(* of threads, every offset and length and any number of interrupts.       *)
(* Bench: for every set of runs, their options, the sequence of scenarios, *)
(* the chunk size and any number of faults.  The two models share nothing, *)
(* so that a fact about one is a fact about it alone.                      *)
(***************************************************************************)
EXTENDS BlockIO, Bench, SequenceTheorems, TLAPS

(***************************************************************************)
(* The inductive invariant.                                                *)
(***************************************************************************)

\* No write under way meets the range of another thread's clean call.
ApartInv ==
    \A t, u \in Thread :
        t # u /\ clean[t] /\ u \in active /\ call[u].op = "write" =>
            ~Meets(call[u], call[t])

\* What a clean call has transferred so far is in the file: what it read, or the
\* thread's own bytes.
HeldInv ==
    \A t \in Thread : clean[t] => \A i \in 1..done[t] :
        /\ call[t].off + i <= Len(file)
        /\ file[call[t].off + i] = IF call[t].op = "read" THEN buf[t][i] ELSE t

\* A call that returned gave its count, and a write only a full one.
RetInv ==
    \A t \in Thread : t \notin active /\ ret[t] >= 0 =>
        /\ ret[t] = done[t]
        /\ call[t].op = "write" => done[t] = call[t].len

\* Nothing was written since behind the end of the file that a clean read met.
EofInv ==
    \A t \in Thread :
        /\ t \notin active /\ ret[t] >= 0 /\ clean[t]
        /\ call[t].op = "read" /\ done[t] < call[t].len
        => \A i \in Range1(call[t]) :
               i > call[t].off + done[t] => i > Len(file) \/ file[i] = Hole

IInv == TypeOK /\ ApartInv /\ HeldInv /\ RetInv /\ EofInv

-----------------------------------------------------------------------------
(* Calls and the file. *)

\* The fields of a call.
LEMMA CallFacts ==
    ASSUME TypeOK, NEW t \in Thread
    PROVE  /\ call[t].op \in {"read", "write"}
           /\ call[t].off \in Nat /\ call[t].len \in 0..MaxLen
           /\ done[t] \in Nat /\ done[t] <= call[t].len
           /\ At(t) \in Nat /\ Left(t) \in Nat /\ Len(file) \in Nat
           /\ At(t) = call[t].off + done[t]
           /\ Left(t) = call[t].len - done[t]
           /\ Range1(call[t]) = (call[t].off + 1)..(call[t].off + call[t].len)
  <1>1. call[t] \in Call \cup {NoCall} /\ done[t] \in 0..MaxLen /\ done[t] <= call[t].len
    BY DEF TypeOK
  <1>2. /\ call[t].op \in {"read", "write"}
        /\ call[t].off \in Nat /\ call[t].len \in 0..MaxLen
    <2>1. CASE call[t] \in Call
      BY <2>1, BlockAssumption DEF Call
    <2>2. CASE call[t] = NoCall
      <3>1. NoCall.op = "read" /\ NoCall.off = 0 /\ NoCall.len = 0
        BY DEF NoCall
      <3> QED
        BY <2>2, <3>1, BlockAssumption
    <2> QED
      BY <1>1, <2>1, <2>2
  <1>3. Len(file) \in Nat
    BY DEF TypeOK
  <1> QED
    BY <1>1, <1>2, <1>3, BlockAssumption DEF At, Left, Range1

\* A part of a sequence.
LEMMA SubSeqFacts ==
    ASSUME NEW S, NEW s \in Seq(S), NEW p \in Nat, NEW n \in Nat, p + n <= Len(s)
    PROVE  /\ SubSeq(s, p + 1, p + n) \in Seq(S) /\ Len(SubSeq(s, p + 1, p + n)) = n
           /\ \A i \in 1..n : SubSeq(s, p + 1, p + n)[i] = s[p + i]
  <1>1. \A i \in (p + 1)..(p + n) : s[i] \in S
    OBVIOUS
  <1>2. /\ SubSeq(s, p + 1, p + n) \in Seq(S)
        /\ Len(SubSeq(s, p + 1, p + n)) =
               IF p + 1 <= p + n THEN (p + n) - (p + 1) + 1 ELSE 0
        /\ \A i \in 1..((p + n) - (p + 1) + 1) :
               SubSeq(s, p + 1, p + n)[i] = s[(p + 1) + i - 1]
    BY <1>1, SubSeqProperties
  <1>3. (p + n) - (p + 1) + 1 = n /\ (p + 1 <= p + n <=> n # 0)
    OBVIOUS
  <1>4. \A i \in 1..n : (p + 1) + i - 1 = p + i
    OBVIOUS
  <1> QED
    BY <1>2, <1>3, <1>4

\* Two sequences joined.
LEMMA JoinFacts ==
    ASSUME NEW S, NEW a \in Seq(S), NEW b \in Seq(S)
    PROVE  /\ a \o b \in Seq(S) /\ Len(a \o b) = Len(a) + Len(b)
           /\ \A i \in 1..Len(a) : (a \o b)[i] = a[i]
           /\ \A i \in 1..Len(b) : (a \o b)[Len(a) + i] = b[i]
  <1>1. /\ a \o b \in Seq(S) /\ Len(a \o b) = Len(a) + Len(b)
        /\ \A i \in 1..(Len(a) + Len(b)) :
               (a \o b)[i] = IF i <= Len(a) THEN a[i] ELSE b[i - Len(a)]
        /\ Len(a) \in Nat /\ Len(b) \in Nat
    BY ConcatProperties
  <1>2. ASSUME NEW i \in 1..Len(b) PROVE (a \o b)[Len(a) + i] = b[i]
    <2>1. /\ Len(a) + i \in 1..(Len(a) + Len(b)) /\ ~(Len(a) + i <= Len(a))
          /\ (Len(a) + i) - Len(a) = i
      BY <1>1
    <2> QED
      BY <1>1, <2>1
  <1>3. ASSUME NEW i \in 1..Len(a) PROVE (a \o b)[i] = a[i]
    BY <1>1
  <1> QED
    BY <1>1, <1>2, <1>3

\* A transfer of n bytes by a call that has transferred d of its len: it stays
\* within the call, and what it adds comes behind what there was.
LEMMA RangeFacts ==
    ASSUME NEW off \in Nat, NEW m \in Nat, NEW len \in 0..m, NEW d \in Nat,
           NEW n \in 1..m, NEW p, p = off + d, n <= len - d
    PROVE  /\ d + n <= len /\ d + n \in 0..m /\ n \in Nat /\ p \in Nat
           /\ (p + 1)..(p + n) \subseteq (off + 1)..(off + len)
           /\ \A i \in 1..(d + n) : off + i \in 1..(p + n)
           /\ \A i \in 1..(d + n) : off + i \notin (p + 1)..(p + n) => i \in 1..d
  OBVIOUS

\* The greater of two numbers.
LEMMA MaxOfTwo ==
    ASSUME NEW a \in Int, NEW b \in Int
    PROVE  Max({a, b}) \in Int /\ Max({a, b}) >= a /\ Max({a, b}) >= b
           /\ Max({a, b}) \in {a, b}
  <1>1. \E m \in {a, b} : \A y \in {a, b} : m >= y
    OBVIOUS
  <1> QED
    BY <1>1 DEF Max

\* The file after a transfer of pwrite.
LEMMA WrittenFacts ==
    ASSUME NEW t \in Thread, NEW p \in Nat, NEW n \in Nat,
           file \in Seq(Thread \cup {Hole})
    PROVE  /\ Written(t, p, n) \in Seq(Thread \cup {Hole})
           /\ Len(Written(t, p, n)) \in Nat
           /\ Len(Written(t, p, n)) >= Len(file) /\ Len(Written(t, p, n)) >= p + n
           /\ \A i \in 1..Len(Written(t, p, n)) :
                  Written(t, p, n)[i] = IF i \in (p + 1)..(p + n) THEN t
                                        ELSE IF i <= Len(file) THEN file[i] ELSE Hole
  <1> DEFINE m == Max({Len(file), p + n})
             g(i) == IF i \in (p + 1)..(p + n) THEN t
                     ELSE IF i <= Len(file) THEN file[i] ELSE Hole
             w == [i \in 1..m |-> g(i)]
  <1>1. Len(file) \in Nat /\ p + n \in Nat
    OBVIOUS
  <1>2. m \in Nat /\ m >= Len(file) /\ m >= p + n
    <2>1. Len(file) \in Int /\ p + n \in Int
      BY <1>1
    <2>2. m \in Int /\ m >= Len(file) /\ m >= p + n
      BY <2>1, MaxOfTwo
    <2> HIDE DEF m
    <2> QED
      BY <1>1, <2>2
  <1>3. Written(t, p, n) = w
    BY DEF Written
  <1> HIDE DEF m
  <1>4. ASSUME NEW i \in 1..m PROVE g(i) \in Thread \cup {Hole}
    OBVIOUS
  <1> HIDE DEF g
  <1>5. w \in Seq(Thread \cup {Hole}) /\ Len(w) = m /\ \A i \in 1..m : w[i] = g(i)
    BY <1>2, <1>4
  <1> QED
    BY <1>2, <1>3, <1>5 DEF g

-----------------------------------------------------------------------------
(* Every step keeps the invariant. *)

\* A call enters the shim: it is clean unless a write under way meets it, and it
\* spoils the calls it meets if it writes.
LEMMA EnterInv ==
    ASSUME IInv, NEW t \in Thread, NEW c \in Call, Enter(t, c)
    PROVE  IInv'
  <1> USE DEF IInv
  <1>1. /\ t \notin active /\ active' = active \cup {t}
        /\ call' = [call EXCEPT ![t] = c]
        /\ done' = [done EXCEPT ![t] = 0] /\ buf' = [buf EXCEPT ![t] = <<>>]
        /\ UNCHANGED <<file, ret, interrupts>>
    BY DEF Enter
  <1>2. clean' = [u \in Thread |->
           IF u = t
           THEN \A v \in active : call[v].op = "write" => ~Meets(call[v], c)
           ELSE clean[u] /\ ~(c.op = "write" /\ Meets(call[u], c))]
    BY DEF Enter
  <1>3. \A u \in Thread \ {t} :
            /\ call'[u] = call[u] /\ done'[u] = done[u] /\ buf'[u] = buf[u]
            /\ clean'[u] => clean[u] /\ ~(c.op = "write" /\ Meets(call[u], c))
            /\ u \in active' <=> u \in active
    BY <1>1, <1>2 DEF TypeOK
  <1>4. /\ call'[t] = c /\ done'[t] = 0 /\ buf'[t] = <<>> /\ t \in active'
        /\ clean'[t] => \A v \in active : call[v].op = "write" => ~Meets(call[v], c)
    BY <1>1, <1>2 DEF TypeOK
  <1>5. TypeOK'
    <2>1. clean' \in [Thread -> BOOLEAN]
      <3>1. \A u \in Thread : clean[u] \in BOOLEAN
        BY DEF TypeOK
      <3> QED
        BY <1>2, <3>1
    <2>2. c.len \in 0..MaxLen /\ 0 \in 0..MaxLen /\ Len(<<>>) = 0
      BY BlockAssumption DEF Call
    <2>3. /\ call' \in [Thread -> Call \cup {NoCall}] /\ active' \subseteq Thread
          /\ done' \in [Thread -> 0..MaxLen]
          /\ ret' \in [Thread -> -1..MaxLen] /\ interrupts' \in 0..MaxInterrupts
          /\ file' \in Seq(Thread \cup {Hole})
      BY <1>1, <2>2 DEF TypeOK
    <2>4. buf' \in [Thread -> Seq(Thread \cup {Hole})]
      BY <1>1 DEF TypeOK
    <2>5. ASSUME NEW u \in Thread
          PROVE  /\ done'[u] <= call'[u].len
                 /\ call'[u].op = "read" => Len(buf'[u]) = done'[u]
      <3>1. CASE u = t
        BY <1>4, <2>2, <3>1
      <3>2. CASE u # t
        BY <1>3, <3>2 DEF TypeOK
      <3> QED
        BY <3>1, <3>2
    <2> QED
      BY <2>1, <2>3, <2>4, <2>5 DEF TypeOK
  <1>6. ApartInv'
    <2> SUFFICES ASSUME NEW u \in Thread, NEW v \in Thread, u # v, clean'[u],
                        v \in active', call'[v].op = "write"
                 PROVE  ~Meets(call'[v], call'[u])
      BY DEF ApartInv, Meets, Range1
    <2>1. \A a, b : Meets(a, b) <=> Meets(b, a)
      BY DEF Meets
    <2>2. CASE u = t
      BY <1>3, <1>4, <2>2
    <2>3. CASE v = t
      BY <1>3, <1>4, <2>1, <2>3
    <2>4. CASE u # t /\ v # t
      BY <1>3, <2>4 DEF ApartInv
    <2> QED
      BY <2>2, <2>3, <2>4
  <1>7. HeldInv'
    <2> SUFFICES ASSUME NEW u \in Thread, clean'[u], NEW i \in 1..done'[u]
                 PROVE  /\ call'[u].off + i <= Len(file)
                        /\ file[call'[u].off + i] =
                               IF call'[u].op = "read" THEN buf'[u][i] ELSE u
      BY <1>1 DEF HeldInv
    <2>1. u # t
      BY <1>4
    <2> QED
      BY <1>3, <2>1 DEF HeldInv
  <1>8. RetInv'
    BY <1>1, <1>3, <1>4 DEF RetInv
  <1>9. EofInv'
    <2> SUFFICES ASSUME NEW u \in Thread, u \notin active', ret[u] >= 0, clean'[u],
                        call'[u].op = "read", done'[u] < call'[u].len,
                        NEW i \in Range1(call'[u]), i > call'[u].off + done'[u]
                 PROVE  i > Len(file) \/ file[i] = Hole
      BY <1>1 DEF EofInv, Range1
    <2>1. u # t
      BY <1>4
    <2> QED
      BY <1>3, <2>1 DEF EofInv
  <1> QED
    BY <1>5, <1>6, <1>7, <1>8, <1>9

\* A call returns a count or an error.
LEMMA ReturnInv ==
    ASSUME IInv, NEW t \in Thread, t \in active, NEW value, Return(t, value),
           interrupts' \in 0..MaxInterrupts,
           \/ value = -1
           \/ value = done[t] /\ done[t] = call[t].len
           \/ value = done[t] /\ call[t].op = "read" /\ At(t) >= Len(file)
    PROVE  IInv'
  <1> USE DEF IInv
  <1>1. /\ active' = active \ {t} /\ ret' = [ret EXCEPT ![t] = value]
        /\ UNCHANGED <<file, call, done, buf, clean>>
    BY DEF Return
  <1>2. value \in -1..MaxLen /\ (value = -1 \/ value >= 0) /\ done[t] \in Nat
    <2>1. done[t] \in 0..MaxLen /\ MaxLen \in Nat
      BY BlockAssumption DEF TypeOK
    <2> QED
      BY <2>1
  <1>3. ret'[t] = value /\ \A u \in Thread \ {t} : ret'[u] = ret[u]
    BY <1>1 DEF TypeOK
  <1>4. TypeOK'
    BY <1>1, <1>2 DEF TypeOK
  <1>5. ApartInv' /\ HeldInv'
    BY <1>1 DEF ApartInv, HeldInv, Meets, Range1
  <1>6. RetInv'
    <2> SUFFICES ASSUME NEW u \in Thread, u \notin active', ret'[u] >= 0
                 PROVE  /\ ret'[u] = done[u]
                        /\ call[u].op = "write" => done[u] = call[u].len
      BY <1>1 DEF RetInv
    <2>1. CASE u = t
      BY <1>2, <1>3, <2>1
    <2>2. CASE u # t
      BY <1>1, <1>3, <2>2 DEF RetInv
    <2> QED
      BY <2>1, <2>2
  <1>7. EofInv'
    <2> SUFFICES ASSUME NEW u \in Thread, u \notin active', ret'[u] >= 0, clean[u],
                        call[u].op = "read", done[u] < call[u].len,
                        NEW i \in Range1(call[u]), i > call[u].off + done[u]
                 PROVE  i > Len(file) \/ file[i] = Hole
      BY <1>1 DEF EofInv, Range1
    <2>1. CASE u = t
      <3>1. At(t) >= Len(file)
        BY <1>2, <1>3, <2>1, CallFacts
      <3> QED
        BY <2>1, <3>1, CallFacts
    <2>2. CASE u # t
      BY <1>1, <1>3, <2>2 DEF EofInv
    <2> QED
      BY <2>1, <2>2
  <1> QED
    BY <1>4, <1>5, <1>6, <1>7

\* The bytes of a read are appended to those it has.
Byte == Thread \cup {Hole}

LEMMA ReadOn ==
    ASSUME NEW a \in Seq(Byte), NEW s \in Seq(Byte), NEW p \in Nat, NEW n \in Nat,
           p + n <= Len(s)
    PROVE  \E b \in Seq(Byte) :
               /\ b = a \o SubSeq(s, p + 1, p + n)
               /\ Len(b) = Len(a) + n
               /\ \A i \in 1..Len(a) : b[i] = a[i]
               /\ \A i \in 1..n : b[Len(a) + i] = s[p + i]
  <1> DEFINE new == SubSeq(s, p + 1, p + n)
  <1>1. new \in Seq(Byte) /\ Len(new) = n /\ \A i \in 1..n : new[i] = s[p + i]
    BY SubSeqFacts
  <1> HIDE DEF new
  <1>2. PICK b \in Seq(Byte) : b = new
    BY <1>1
  <1>3. /\ a \o b \in Seq(Byte) /\ Len(a \o b) = Len(a) + Len(b)
        /\ \A i \in 1..Len(a) : (a \o b)[i] = a[i]
        /\ \A i \in 1..Len(b) : (a \o b)[Len(a) + i] = b[i]
    BY JoinFacts
  <1>4. Len(b) = n /\ \A i \in 1..n : b[i] = s[p + i]
    BY <1>1, <1>2
  <1>5. PICK c \in Seq(Byte) : c = a \o b
    BY <1>3
  <1>6. /\ Len(c) = Len(a) + n
        /\ \A i \in 1..Len(a) : c[i] = a[i]
        /\ \A i \in 1..n : c[Len(a) + i] = s[p + i]
    <2>1. Len(c) = Len(a) + n /\ \A i \in 1..Len(a) : c[i] = a[i]
      BY <1>3, <1>4, <1>5, Zenon
    <2>2. ASSUME NEW i \in 1..n PROVE c[Len(a) + i] = s[p + i]
      BY <1>3, <1>4, <1>5, <2>2, Zenon
    <2> QED
      BY <2>1, <2>2
  <1>7. c = a \o SubSeq(s, p + 1, p + n)
    BY <1>2, <1>5 DEF new
  <1> QED
    BY <1>6, <1>7, Zenon

\* A read takes n bytes of the file.
LEMMA PreadInv ==
    ASSUME IInv, NEW t \in Thread, NEW n \in 1..MaxLen, Pread(t, n)
    PROVE  IInv'
  <1> USE DEF IInv
  <1> DEFINE new == SubSeq(file, At(t) + 1, At(t) + n)
  <1>1. /\ t \in active /\ call[t].op = "read" /\ n <= Left(t) /\ At(t) + n <= Len(file)
        /\ buf' = [buf EXCEPT ![t] = @ \o new]
        /\ done' = [done EXCEPT ![t] = @ + n]
        /\ UNCHANGED <<file, call, active, ret, clean, interrupts>>
    BY DEF Pread, Looping
  <1>2. n \in Nat /\ n >= 1 /\ MaxLen \in Nat
    BY BlockAssumption
  <1>3. /\ call[t].off \in Nat /\ call[t].len \in 0..MaxLen /\ done[t] \in Nat
        /\ At(t) \in Nat /\ Len(file) \in Nat
        /\ At(t) = call[t].off + done[t] /\ Left(t) = call[t].len - done[t]
    BY CallFacts
  <1>4. file \in Seq(Byte) /\ buf[t] \in Seq(Byte) /\ Len(buf[t]) = done[t]
    BY <1>1 DEF TypeOK, Byte
  <1>5. PICK p \in Nat : p = At(t) /\ p + n <= Len(file)
    BY <1>1, <1>3
  <1>6. /\ buf[t] \o new \in Seq(Byte)
        /\ Len(buf[t] \o new) = done[t] + n
        /\ \A i \in 1..done[t] : (buf[t] \o new)[i] = buf[t][i]
        /\ \A i \in 1..n : (buf[t] \o new)[done[t] + i] = file[At(t) + i]
    <2>1. PICK a \in Seq(Byte) : a = buf[t]
      BY <1>4
    <2>2. PICK s \in Seq(Byte) : s = file
      BY <1>4
    <2>3. PICK k \in Nat : k = n
      BY <1>2
    <2>4. p + k <= Len(s)
      BY <1>5, <2>2, <2>3
    <2>5. PICK b \in Seq(Byte) :
              /\ b = a \o SubSeq(s, p + 1, p + k)
              /\ Len(b) = Len(a) + k
              /\ \A i \in 1..Len(a) : b[i] = a[i]
              /\ \A i \in 1..k : b[Len(a) + i] = s[p + i]
      BY <2>4, ReadOn
    <2>6. b = buf[t] \o new
      BY <1>5, <2>1, <2>2, <2>3, <2>5
    <2> HIDE DEF new
    <2> QED
      BY <1>4, <1>5, <2>1, <2>2, <2>3, <2>5, <2>6
  <1> HIDE DEF new
  <1>7. /\ buf'[t] = buf[t] \o new /\ done'[t] = done[t] + n
        /\ \A u \in Thread \ {t} : buf'[u] = buf[u] /\ done'[u] = done[u]
    BY <1>1 DEF TypeOK
  <1>8. done[t] + n <= call[t].len /\ done[t] + n \in 0..MaxLen
    <2>1. n <= call[t].len - done[t]
      BY <1>1, <1>3
    <2> QED
      BY <1>2, <1>3, <2>1, RangeFacts
  <1>9. TypeOK'
    <2>1. /\ buf' \in [Thread -> Seq(Thread \cup {Hole})]
          /\ done' \in [Thread -> 0..MaxLen]
      BY <1>1, <1>6, <1>8 DEF TypeOK, Byte
    <2>2. ASSUME NEW u \in Thread
          PROVE  /\ done'[u] <= call[u].len
                 /\ call[u].op = "read" => Len(buf'[u]) = done'[u]
      <3>1. CASE u = t
        BY <1>6, <1>7, <1>8, <3>1
      <3>2. CASE u # t
        BY <1>7, <3>2 DEF TypeOK
      <3> QED
        BY <3>1, <3>2
    <2> QED
      BY <1>1, <2>1, <2>2 DEF TypeOK
  <1>10. ApartInv'
    BY <1>1 DEF ApartInv, Meets, Range1
  <1>11. HeldInv'
    <2> SUFFICES ASSUME NEW u \in Thread, clean[u], NEW i \in 1..done'[u]
                 PROVE  /\ call[u].off + i <= Len(file)
                        /\ file[call[u].off + i] =
                               IF call[u].op = "read" THEN buf'[u][i] ELSE u
      <3>1. file' = file /\ call' = call /\ clean' = clean
        BY <1>1
      <3> QED
        BY <3>1 DEF HeldInv
    <2>1. CASE u # t
      BY <1>7, <2>1 DEF HeldInv
    <2>2. CASE u = t /\ i <= done[t]
      <3>1. i \in 1..done[t]
        BY <1>3, <2>2
      <3>2. buf'[t][i] = buf[t][i]
        BY <1>6, <1>7, <3>1, Zenon
      <3> QED
        BY <1>1, <2>2, <3>1, <3>2 DEF HeldInv
    <2>3. CASE u = t /\ i > done[t]
      <3>1. PICK j \in 1..n : i = done[t] + j
        <4>1. i \in 1..(done[t] + n)
          BY <1>7, <2>3
        <4>2. PICK d \in Nat : d = done[t]
          BY <1>3
        <4>3. i \in 1..(d + n) /\ i > d
          BY <2>3, <4>1, <4>2
        <4> HIDE DEF IInv
        <4>4. i - d \in 1..n /\ i = d + (i - d)
          BY <1>2, <4>3
        <4> QED
          BY <4>2, <4>4
      <3>2. buf'[t][i] = file[At(t) + j]
        BY <1>6, <1>7, <3>1
      <3>3. PICK at \in Nat : at = At(t)
        BY <1>3
      <3>4. at + j = call[t].off + i /\ at + j <= Len(file)
        <4>1. at = call[t].off + done[t] /\ at + n <= Len(file)
          BY <1>1, <1>3, <3>3
        <4>2. PICK d \in Nat : d = done[t]
          BY <1>3
        <4>3. PICK off \in Nat : off = call[t].off
          BY <1>3
        <4>4. at = off + d /\ i = d + j /\ j <= n /\ Len(file) \in Nat
          BY <1>3, <3>1, <4>1, <4>2, <4>3
        <4>5. at + j = off + i /\ at + j <= Len(file)
          BY <1>2, <4>1, <4>4
        <4> QED
          BY <4>3, <4>5
      <3> QED
        BY <1>1, <2>3, <3>2, <3>3, <3>4
    <2>4. i <= done[t] \/ i > done[t]
      BY <1>3
    <2> QED
      BY <2>1, <2>2, <2>3, <2>4
  <1>12. RetInv'
    BY <1>1, <1>7 DEF RetInv
  <1>13. EofInv'
    <2> SUFFICES ASSUME NEW u \in Thread, u \notin active, ret[u] >= 0, clean[u],
                        call[u].op = "read", done'[u] < call[u].len,
                        NEW i \in Range1(call[u]), i > call[u].off + done'[u]
                 PROVE  i > Len(file) \/ file[i] = Hole
      BY <1>1 DEF EofInv, Range1
    <2> QED
      BY <1>1, <1>7 DEF EofInv
  <1> QED
    BY <1>9, <1>10, <1>11, <1>12, <1>13

\* A write puts n bytes into the file; what others have transferred lies
\* elsewhere, or their call is no longer clean.
LEMMA PwriteInv ==
    ASSUME IInv, NEW t \in Thread, NEW n \in 1..MaxLen, Pwrite(t, n)
    PROVE  IInv'
  <1> USE DEF IInv
  <1>1. /\ t \in active /\ call[t].op = "write" /\ n <= Left(t)
        /\ file' = Written(t, At(t), n)
        /\ done' = [done EXCEPT ![t] = @ + n]
        /\ UNCHANGED <<call, active, buf, ret, clean, interrupts>>
    BY DEF Pwrite, Looping
  <1>2. n \in Nat /\ n >= 1 /\ MaxLen \in Nat
    BY BlockAssumption
  <1>3. /\ call[t].off \in Nat /\ call[t].len \in 0..MaxLen /\ done[t] \in Nat
        /\ At(t) \in Nat /\ Len(file) \in Nat
        /\ At(t) = call[t].off + done[t] /\ Left(t) = call[t].len - done[t]
        /\ Range1(call[t]) = (call[t].off + 1)..(call[t].off + call[t].len)
    BY CallFacts
  <1>4. /\ file' \in Seq(Thread \cup {Hole}) /\ Len(file') \in Nat
        /\ Len(file') >= Len(file) /\ Len(file') >= At(t) + n
        /\ \A i \in 1..Len(file') :
               file'[i] = IF i \in (At(t) + 1)..(At(t) + n) THEN t
                          ELSE IF i <= Len(file) THEN file[i] ELSE Hole
    <2>1. file \in Seq(Thread \cup {Hole})
      BY DEF TypeOK
    <2>2. At(t) \in Nat /\ n \in Nat
      BY <1>2, <1>3
    <2>3. PICK p \in Nat : p = At(t)
      BY <2>2
    <2>4. file' = Written(t, p, n)
      BY <1>1, <2>3
    <2> HIDE DEF IInv
    <2>5. /\ Written(t, p, n) \in Seq(Thread \cup {Hole})
          /\ Len(Written(t, p, n)) \in Nat
          /\ Len(Written(t, p, n)) >= Len(file) /\ Len(Written(t, p, n)) >= p + n
          /\ \A i \in 1..Len(Written(t, p, n)) :
                 Written(t, p, n)[i] = IF i \in (p + 1)..(p + n) THEN t
                                       ELSE IF i <= Len(file) THEN file[i] ELSE Hole
      BY <2>1, <2>2, WrittenFacts, Zenon
    <2> QED
      BY <2>3, <2>4, <2>5, Zenon
  <1>5. done'[t] = done[t] + n /\ \A u \in Thread \ {t} : done'[u] = done[u]
    BY <1>1 DEF TypeOK
  <1>6. /\ done[t] + n <= call[t].len /\ done[t] + n \in 0..MaxLen
        /\ (At(t) + 1)..(At(t) + n) \subseteq
               (call[t].off + 1)..(call[t].off + call[t].len)
        /\ \A i \in 1..(done[t] + n) : call[t].off + i \in 1..(At(t) + n)
        /\ \A i \in 1..(done[t] + n) :
               call[t].off + i \notin (At(t) + 1)..(At(t) + n) => i \in 1..done[t]
    <2>1. n <= call[t].len - done[t]
      BY <1>1, <1>3
    <2>2. PICK off \in Nat : off = call[t].off
      BY <1>3
    <2>3. PICK len \in 0..MaxLen : len = call[t].len
      BY <1>3
    <2>4. PICK d \in Nat : d = done[t]
      BY <1>3
    <2>5. PICK p : p = At(t) /\ p = off + d
      BY <1>3, <2>2, <2>4
    <2>6. n <= len - d
      BY <2>1, <2>3, <2>4
    <2>7. /\ d + n <= len /\ d + n \in 0..MaxLen
          /\ (p + 1)..(p + n) \subseteq (off + 1)..(off + len)
          /\ \A i \in 1..(d + n) : off + i \in 1..(p + n)
          /\ \A i \in 1..(d + n) : off + i \notin (p + 1)..(p + n) => i \in 1..d
      BY <1>2, <2>5, <2>6, RangeFacts
    <2> QED
      BY <2>2, <2>3, <2>4, <2>5, <2>7
  <1>7. (At(t) + 1)..(At(t) + n) \subseteq Range1(call[t])
    BY <1>3, <1>6
  <1>8. ASSUME NEW u \in Thread, u # t, clean[u], NEW i \in Range1(call[u])
        PROVE  i \notin (At(t) + 1)..(At(t) + n) /\ i \in Nat /\ i >= 1
    <2>1. ~Meets(call[t], call[u])
      BY <1>1, <1>8 DEF ApartInv
    <2>2. i \notin Range1(call[t])
      BY <1>8, <2>1 DEF Meets
    <2>3. i \in Nat /\ i >= 1
      <3>1. /\ call[u].off \in Nat /\ call[u].len \in Nat
            /\ i \in (call[u].off + 1)..(call[u].off + call[u].len)
        BY <1>8, CallFacts
      <3> QED
        BY <3>1
    <2> QED
      BY <1>7, <2>2, <2>3
  <1>9. TypeOK'
    <2>1. done' \in [Thread -> 0..MaxLen]
      BY <1>1, <1>6 DEF TypeOK
    <2>2. ASSUME NEW u \in Thread
          PROVE  /\ done'[u] <= call[u].len
                 /\ call[u].op = "read" => Len(buf[u]) = done'[u]
      <3>1. CASE u = t
        BY <1>1, <1>5, <1>6, <3>1
      <3>2. CASE u # t
        BY <1>5, <3>2 DEF TypeOK
      <3> QED
        BY <3>1, <3>2
    <2> QED
      BY <1>1, <1>4, <2>1, <2>2 DEF TypeOK
  <1>10. ApartInv'
    BY <1>1 DEF ApartInv, Meets, Range1
  <1>11. HeldInv'
    <2> SUFFICES ASSUME NEW u \in Thread, clean[u], NEW i \in 1..done'[u]
                 PROVE  /\ call[u].off + i <= Len(file')
                        /\ file'[call[u].off + i] =
                               IF call[u].op = "read" THEN buf[u][i] ELSE u
      BY <1>1 DEF HeldInv
    <2> DEFINE k == call[u].off + i
    <2>1. call[u].off \in Nat /\ done[u] \in Nat /\ done[u] <= call[u].len
          /\ call[u].len \in Nat
          /\ Range1(call[u]) = (call[u].off + 1)..(call[u].off + call[u].len)
      BY CallFacts
    <2>2. CASE u # t
      <3>1. i \in 1..done[u]
        BY <1>5, <2>2
      <3>2. /\ k <= Len(file)
            /\ file[k] = IF call[u].op = "read" THEN buf[u][i] ELSE u
        BY <3>1 DEF HeldInv
      <3>3. k \in Range1(call[u]) /\ k \in Nat
        BY <2>1, <3>1
      <3>4. k \notin (At(t) + 1)..(At(t) + n) /\ k >= 1
        BY <1>8, <2>2, <3>3
      <3>5. k \in 1..Len(file')
        BY <1>3, <1>4, <3>2, <3>3, <3>4
      <3>6. file'[k] = file[k]
        BY <1>4, <3>2, <3>4, <3>5
      <3> HIDE DEF k
      <3>7. k <= Len(file')
        BY <3>5
      <3> QED
        BY <3>2, <3>6, <3>7 DEF k
    <2>3. CASE u = t
      <3>1. i \in 1..(done[t] + n) /\ k = call[t].off + i
        BY <1>5, <2>3
      <3>2. k \in 1..Len(file')
        <4>1. k \in 1..(At(t) + n)
          BY <1>6, <3>1
        <4> QED
          BY <1>2, <1>3, <1>4, <4>1
      <3>3. file'[k] = t
        <4>1. CASE k \in (At(t) + 1)..(At(t) + n)
          BY <1>4, <3>2, <4>1
        <4>2. CASE k \notin (At(t) + 1)..(At(t) + n)
          <5>1. i \in 1..done[t]
            BY <1>6, <3>1, <4>2
          <5>2. k <= Len(file) /\ file[k] = t
            BY <1>1, <2>3, <5>1 DEF HeldInv
          <5> QED
            BY <1>4, <3>2, <4>2, <5>2
        <4> QED
          BY <4>1, <4>2
      <3> QED
        BY <1>1, <2>3, <3>2, <3>3
    <2> QED
      BY <2>2, <2>3
  <1>12. RetInv'
    BY <1>1, <1>5 DEF RetInv
  <1>13. EofInv'
    <2> SUFFICES ASSUME NEW u \in Thread, u \notin active, ret[u] >= 0, clean[u],
                        call[u].op = "read", done'[u] < call[u].len,
                        NEW i \in Range1(call[u]), i > call[u].off + done'[u]
                 PROVE  i > Len(file') \/ file'[i] = Hole
      BY <1>1 DEF EofInv, Range1
    <2>1. u # t /\ done'[u] = done[u]
      BY <1>1, <1>5
    <2>2. i \notin (At(t) + 1)..(At(t) + n) /\ i \in Nat /\ i >= 1
      BY <1>8, <2>1
    <2>3. i > Len(file) \/ file[i] = Hole
      BY <2>1 DEF EofInv
    <2>4. CASE i <= Len(file')
      <3>1. file'[i] = IF i <= Len(file) THEN file[i] ELSE Hole
        BY <1>4, <2>2, <2>4
      <3> QED
        BY <1>3, <2>2, <2>3, <3>1
    <2> QED
      BY <1>4, <2>2, <2>4
  <1> QED
    BY <1>9, <1>10, <1>11, <1>12, <1>13

\* Every step of every thread keeps the invariant.
LEMMA NextInv ==
    ASSUME IInv, [Next]_vars
    PROVE  IInv'
  <1> USE DEF IInv
  <1>1. CASE UNCHANGED vars
    BY <1>1 DEF vars, TypeOK, ApartInv, HeldInv, RetInv, EofInv, Meets, Range1
  <1>2. ASSUME NEW t \in Thread, NEW c \in Call, Enter(t, c)
        PROVE  IInv'
    BY <1>2, EnterInv
  <1>3. ASSUME NEW t \in Thread, Complete(t)
        PROVE  IInv'
    BY <1>3, ReturnInv DEF Complete, TypeOK
  <1>4. ASSUME NEW t \in Thread, PreadEof(t)
        PROVE  IInv'
    BY <1>4, ReturnInv DEF PreadEof, Looping, TypeOK
  <1>5. ASSUME NEW t \in Thread, NEW n \in 1..MaxLen, Pread(t, n) \/ Pwrite(t, n)
        PROVE  IInv'
    BY <1>5, PreadInv, PwriteInv
  <1>6. ASSUME NEW t \in Thread, Interrupted(t)
        PROVE  IInv'
    <2>1. interrupts' \in 0..MaxInterrupts
      BY <1>6, BlockAssumption DEF Interrupted, TypeOK
    <2>2. UNCHANGED <<file, call, active, done, buf, ret, clean>>
      BY <1>6 DEF Interrupted
    <2>3. TypeOK'
      BY <2>1, <2>2 DEF TypeOK
    <2> QED
      BY <2>2, <2>3 DEF ApartInv, HeldInv, RetInv, EofInv, Meets, Range1
  <1>7. ASSUME NEW t \in Thread, Fails(t)
        PROVE  IInv'
    BY <1>7, ReturnInv DEF Fails, TypeOK
  <1> QED
    BY <1>1, <1>2, <1>3, <1>4, <1>5, <1>6, <1>7 DEF Next, Loop, Transfer

-----------------------------------------------------------------------------
(* The theorems. *)

\* Types, and what every call has transferred, returned and met (hpc_io.c
\* hpc_io_pread_full, hpc_io_pwrite_full).
THEOREM InductiveInvariant == Spec => []IInv
  <1>1. Init => IInv
    <2> SUFFICES ASSUME Init PROVE IInv
      OBVIOUS
    <2>1. NoCall.op = "read" /\ NoCall.off = 0 /\ NoCall.len = 0
      BY DEF NoCall
    <2>2. TypeOK
      BY <2>1, BlockAssumption DEF Init, TypeOK
    <2>3. ApartInv /\ HeldInv
      BY DEF Init, ApartInv, HeldInv
    <2>4. RetInv /\ EofInv
      BY <2>1 DEF Init, RetInv, EofInv
    <2> QED
      BY <2>2, <2>3, <2>4 DEF IInv
  <1>2. IInv /\ [Next]_vars => IInv'
    BY NextInv
  <1> QED
    BY <1>1, <1>2, PTL DEF Spec

\* A read returns the bytes of the file, and fewer than asked only at its end,
\* whatever short reads, interrupts and other calls come between (hpc_io.h:
\* "A return value smaller than `len` indicates end-of-file was reached").
THEOREM ReadFaithful == Spec => []ReadIsFaithful
  <1>1. IInv => ReadIsFaithful
    <2> SUFFICES ASSUME IInv, NEW t \in Thread, Returned(t, "read")
                 PROVE  /\ ret[t] = Len(buf[t])
                        /\ clean[t] =>
                             /\ ret[t] < call[t].len => \A i \in Range1(call[t]) :
                                  i > call[t].off + ret[t] => i > Len(file) \/ file[i] = Hole
                             /\ \A i \in 1..ret[t] : buf[t][i] = file[call[t].off + i]
      BY DEF ReadIsFaithful
    <2>1. t \notin active /\ call[t].op = "read" /\ ret[t] >= 0
      BY DEF Returned
    <2>2. ret[t] = done[t] /\ Len(buf[t]) = done[t]
      BY <2>1 DEF IInv, RetInv, TypeOK
    <2>3. clean[t] => \A i \in 1..done[t] : buf[t][i] = file[call[t].off + i]
      BY <2>1 DEF IInv, HeldInv
    <2>4. clean[t] /\ done[t] < call[t].len => \A i \in Range1(call[t]) :
              i > call[t].off + done[t] => i > Len(file) \/ file[i] = Hole
      BY <2>1, <2>2 DEF IInv, EofInv
    <2> QED
      BY <2>2, <2>3, <2>4
  <1> QED
    BY <1>1, InductiveInvariant, PTL

\* A write that reports success has written every byte of its block, and it stays
\* unless another call overlaps it (hpc_io.h: "Write exactly `len` bytes").
THEOREM WriteComplete == Spec => []WriteIsComplete
  <1>1. IInv => WriteIsComplete
    <2> SUFFICES ASSUME IInv, NEW t \in Thread, Returned(t, "write")
                 PROVE  /\ ret[t] = call[t].len
                        /\ clean[t] => \A i \in Range1(call[t]) :
                               i <= Len(file) /\ file[i] = t
      BY DEF WriteIsComplete
    <2>1. t \notin active /\ call[t].op = "write" /\ ret[t] >= 0
      BY DEF Returned
    <2>2. ret[t] = done[t] /\ done[t] = call[t].len
      BY <2>1 DEF IInv, RetInv
    <2>3. ASSUME clean[t], NEW i \in Range1(call[t])
          PROVE  i <= Len(file) /\ file[i] = t
      <3>1. call[t].off \in Nat /\ call[t].len \in Nat
            /\ i \in (call[t].off + 1)..(call[t].off + call[t].len)
        BY <2>3, CallFacts DEF IInv
      <3>2. i - call[t].off \in 1..done[t] /\ call[t].off + (i - call[t].off) = i
        BY <2>2, <3>1
      <3> QED
        BY <2>1, <2>3, <3>2 DEF IInv, HeldInv
    <2> QED
      BY <2>2, <2>3
  <1> QED
    BY <1>1, InductiveInvariant, PTL

(***************************************************************************)
(* Bench.  Blocks and chunks first.                                        *)
(***************************************************************************)

LEMMA MinOfTwo ==
    ASSUME NEW a \in Nat, NEW b \in Nat
    PROVE  Min({a, b}) = IF a <= b THEN a ELSE b
  <1>1. \E x \in {a, b} : \A y \in {a, b} : x <= y
    OBVIOUS
  <1> QED
    BY <1>1 DEF Min

\* The blocks of a valid run lie within its file.
LEMMA BlockFacts ==
    ASSUME NEW o \in Options, Valid(o)
    PROVE  /\ o.block_size \in Nat \ {0} /\ o.file_size \in Nat
           /\ blocks(o) \in Nat
           /\ blocks(o) <= o.file_size
           /\ blocks(o) * o.block_size <= o.file_size
           /\ \A k \in Nat : k < blocks(o) =>
                  /\ k * o.block_size + o.block_size = (k + 1) * o.block_size
                  /\ k * o.block_size + o.block_size <= blocks(o) * o.block_size
                  /\ k * o.block_size + o.block_size <= o.file_size
  <1> DEFINE f == o.file_size
             b == o.block_size
             q == f \div b
  <1>1. f \in Nat /\ b \in Nat /\ b # 0 /\ f >= b
    BY BenchAssumption DEF Valid
  <1> HIDE DEF f, b
  <1>2. /\ q \in Nat /\ q >= 1 /\ q * b <= f /\ q <= f
    BY <1>1
  <1>3. blocks(o) = q
    <2>1. blocks(o) = Max({q, 1})
      BY DEF blocks, f, b
    <2> HIDE DEF q
    <2>2. q \in Int /\ q >= 1
      BY <1>2
    <2>3. Max({q, 1}) >= q /\ Max({q, 1}) \in {q, 1}
      BY <2>2, MaxOfTwo
    <2> QED
      BY <2>1, <2>2, <2>3
  <1> HIDE DEF q
  <1>4. ASSUME NEW k \in Nat, k < q
        PROVE  k * b + b = (k + 1) * b /\ k * b + b <= q * b
    <2>1. k * b + b = (k + 1) * b
      BY <1>1
    <2>2. PICK d \in Nat : q = (k + 1) + d
      <3>1. q - (k + 1) \in Nat /\ q = (k + 1) + (q - (k + 1))
        BY <1>2, <1>4
      <3> QED
        BY <3>1
    <2>3. q * b = (k + 1) * b + d * b
      BY <1>1, <2>2
    <2>4. d * b \in Nat /\ (k + 1) * b \in Nat
      BY <1>1
    <2> QED
      BY <2>1, <2>3, <2>4
  <1>5. ASSUME NEW k \in Nat, k < q PROVE k * b + b <= f
    <2>1. k * b + b <= q * b
      BY <1>4, <1>5
    <2>2. k * b + b \in Nat /\ q * b \in Nat
      BY <1>1, <1>2
    <2> QED
      BY <1>1, <1>2, <2>1, <2>2
  <1> QED
    BY <1>1, <1>2, <1>3, <1>4, <1>5 DEF f, b

\* A chunk ends within the file, and there is one until the file is complete.
LEMMA ChunkFacts ==
    ASSUME NEW o \in Options, NEW w \in Nat, w <= o.file_size
    PROVE  /\ Chunk(o, w) \in Nat
           /\ w + Chunk(o, w) <= o.file_size
           /\ Chunk(o, w) = 0 => w = o.file_size
  <1> DEFINE rest == o.file_size - w
  <1>1. o.file_size \in Nat /\ rest \in Nat /\ w + rest = o.file_size
    BY BenchAssumption
  <1>2. Chunk(o, w) = Min({rest, PrepChunk})
    BY DEF Chunk
  <1> HIDE DEF rest
  <1>3. Chunk(o, w) = IF rest <= PrepChunk THEN rest ELSE PrepChunk
    BY <1>1, <1>2, MinOfTwo, BenchAssumption
  <1> QED
    BY <1>1, <1>3, BenchAssumption

(***************************************************************************)
(* The inductive invariant.  Its type part first, process by process.      *)
(***************************************************************************)
Types ==
    /\ entry \in [File -> Proc \cup {None}]
    /\ size \in [Proc -> Nat]
    /\ step \in [Proc -> {"new", "open", "prepare", "scenario", "io", "write",
                          "read", "clean", "end"}]
    /\ opts \in [Proc -> Options \cup {NoOptions}]
    /\ fd \in [Proc -> Proc \cup {None}]
    /\ progress \in [Proc -> Nat]
    /\ scenario \in [Proc -> 1..(Len(Patterns) + 1)]
    /\ result \in [Proc -> {"ok", "err", None}]
    /\ now \in 0..MaxTime /\ faults \in 0..MaxFaults
    /\ unclean \subseteq {"prepare", "remove"} /\ short \subseteq Proc

Local(p) ==
    /\ progress[p] <= opts[p].file_size
    /\ step[p] \in {"prepare", "io", "write", "read"} <=> fd[p] # None
    /\ step[p] \in {"io", "write", "read"} => progress[p] <= blocks(opts[p])
    /\ step[p] \in {"new", "open"} => progress[p] = 0
    /\ step[p] = "io" => scenario[p] <= Len(Patterns)
    /\ step[p] \notin {"new", "end"} => opts[p] \in Options /\ Valid(opts[p])

Bounded(i) == size[i] > 0 => \E o \in Options : size[i] <= o.file_size

LEMMA TypeSplit ==
    BenchTypeOK <=> Types /\ \A p \in Proc : Local(p) /\ Bounded(p)
  BY DEF BenchTypeOK, Types, Local, Bounded

\* A file made for one kind of run is never open in a run of the other kind.
OwnInv ==
    /\ \A f \in File : entry[f] # None => FileOf(entry[f]) = f
    /\ \A p \in Proc : fd[p] # None => FileOf(fd[p]) = FileOf(p)

\* A scratch file that no fault left behind has a run that will remove it.
Working == {"prepare", "scenario", "io", "write", "read", "clean"}

TidyInv ==
    unclean = {} => \A f \in File : entry[f] # None =>
        \E p \in Proc : FileOf(p) = f /\ step[p] \in Working

\* How far the file of a run that is alone has come.
Alone(p) ==
    /\ \A q \in Proc \ {p} : FileOf(q) = FileOf(p) => step[q] = "new"
    /\ faults = 0

Sound(p) ==
    /\ result[p] = "err" => step[p] = "end" /\ ~Valid(opts[p])
    /\ p \notin short
    /\ step[p] \in {"new", "open"} => entry[FileOf(p)] = None
    /\ step[p] \in {"prepare", "scenario", "io", "write", "read"} =>
           entry[FileOf(p)] = p
    /\ step[p] \in {"prepare", "io", "write", "read"} => fd[p] = p
    /\ step[p] = "prepare" => size[p] >= progress[p]
    /\ step[p] \in {"scenario", "io"} => size[p] >= opts[p].file_size
    /\ step[p] = "write" => size[p] >= progress[p] * opts[p].block_size
    /\ step[p] = "read" => size[p] >= blocks(opts[p]) * opts[p].block_size

LoneInv == \A p \in Proc : Alone(p) => Sound(p)

BenchInv == BenchTypeOK /\ OwnInv /\ TidyInv /\ LoneInv

(***************************************************************************)
(* What every step of a run does, whichever it is: it leaves the other     *)
(* runs and the file of the other kind alone, types its own state, and     *)
(* keeps its own part of the invariant.                                    *)
(***************************************************************************)
OthersKept(p) ==
    /\ \A q \in Proc \ {p} :
           /\ step'[q] = step[q] /\ opts'[q] = opts[q] /\ fd'[q] = fd[q]
           /\ progress'[q] = progress[q] /\ scenario'[q] = scenario[q]
           /\ result'[q] = result[q] /\ (q \in short' <=> q \in short)
    /\ \A f \in File \ {FileOf(p)} : entry'[f] = entry[f]
    /\ \A i \in Proc : FileOf(i) # FileOf(p) => size'[i] = size[i]

OwnKept(p) ==
    /\ faults <= faults' /\ unclean \subseteq unclean' /\ step'[p] # "new"
    /\ entry'[FileOf(p)] # None => FileOf(entry'[FileOf(p)]) = FileOf(p)
    /\ fd'[p] # None => FileOf(fd'[p]) = FileOf(p)
    /\ unclean' = {} => \/ step'[p] \in Working
                        \/ entry'[FileOf(p)] = None
                        \/ step[p] \notin Working /\ entry' = entry
    /\ faults' = 0 /\ Sound(p) => Sound(p)'

LEMMA StepKeeps ==
    ASSUME BenchInv, NEW p \in Proc, OthersKept(p), OwnKept(p),
           Types', Local(p)', \A i \in Proc : Bounded(i)'
    PROVE  BenchInv'
  <1>1. Types /\ \A q \in Proc : Local(q) /\ Bounded(q)
    BY TypeSplit DEF BenchInv
  <1>2. BenchTypeOK'
    <2>1. \A q \in Proc \ {p} : Local(q)'
      BY <1>1 DEF OthersKept, Local
    <2>2. \A q \in Proc : Local(q)' /\ Bounded(q)'
      BY <2>1
    <2> QED
      BY <2>2 DEF BenchTypeOK, Types, Local, Bounded
  <1>3. OwnInv'
    BY DEF BenchInv, OwnInv, OthersKept, OwnKept, File, FileOf
  <1>4. TidyInv'
    <2> SUFFICES ASSUME unclean' = {}, NEW f \in File, entry'[f] # None
                 PROVE  \E q \in Proc : FileOf(q) = f /\ step'[q] \in Working
      BY DEF TidyInv
    <2>1. unclean = {}
      BY DEF OwnKept
    <2>2. CASE f = FileOf(p) /\ step'[p] \in Working
      BY <2>2
    <2>3. CASE ~(f = FileOf(p) /\ step'[p] \in Working)
      <3>1. entry[f] # None /\ (f = FileOf(p) => step[p] \notin Working)
        BY <2>3 DEF OthersKept, OwnKept
      <3>2. PICK q \in Proc : FileOf(q) = f /\ step[q] \in Working
        BY <2>1, <3>1 DEF BenchInv, TidyInv
      <3>3. q # p
        BY <3>1, <3>2
      <3> QED
        BY <3>2, <3>3 DEF OthersKept
    <2> QED
      BY <2>2, <2>3
  <1>5. LoneInv'
    <2> SUFFICES ASSUME NEW q \in Proc, Alone(q)' PROVE Sound(q)'
      BY DEF LoneInv
    <2>1. faults = 0 /\ faults' = 0
      BY <1>1 DEF Alone, OwnKept, Types
    <2>2. CASE q = p
      <3>1. Alone(p)
        BY <2>1, <2>2 DEF Alone, OthersKept
      <3> QED
        BY <2>1, <2>2, <3>1 DEF BenchInv, LoneInv, OwnKept
    <2>3. CASE q # p
      <3>1. FileOf(q) # FileOf(p)
        BY <2>3 DEF Alone, OwnKept
      <3>2. Alone(q)
        BY <2>1, <2>3, <3>1 DEF Alone, OthersKept
      <3>3. Sound(q)
        BY <3>2 DEF BenchInv, LoneInv
      <3>4. /\ entry'[FileOf(q)] = entry[FileOf(q)] /\ size'[q] = size[q]
            /\ step'[q] = step[q] /\ opts'[q] = opts[q] /\ fd'[q] = fd[q]
            /\ progress'[q] = progress[q] /\ result'[q] = result[q]
            /\ q \in short' <=> q \in short
        BY <2>3, <3>1 DEF OthersKept, FileOf, File
      <3> QED
        BY <3>3, <3>4 DEF Sound
    <2> QED
      BY <2>2, <2>3
  <1> QED
    BY <1>2, <1>3, <1>4, <1>5 DEF BenchInv

Kept(p) ==
    /\ OthersKept(p) /\ OwnKept(p)
    /\ Types' /\ Local(p)' /\ \A i \in Proc : Bounded(i)'

LEMMA KeptSuffices == ASSUME BenchInv, NEW p \in Proc, Kept(p) PROVE BenchInv'
  BY StepKeeps DEF Kept

\* What is known of a run before its step.
LEMMA BeforeFacts ==
    ASSUME BenchInv, NEW p \in Proc
    PROVE  /\ Types /\ Local(p) /\ OwnInv
           /\ \A i \in Proc : Bounded(i)
           /\ FileOf(p) \in File
           /\ None \notin Proc /\ None # "ok" /\ None # "err"
           /\ opts[p].file_size \in Nat /\ opts[p].block_size \in Nat
  <1>1. Types /\ \A i \in Proc : Local(i) /\ Bounded(i)
    BY TypeSplit DEF BenchInv
  <1>2. opts[p].file_size \in Nat /\ opts[p].block_size \in Nat
    <2>1. opts[p] \in Options \/ opts[p] = NoOptions
      BY <1>1 DEF Types
    <2>2. NoOptions.file_size = 0 /\ NoOptions.block_size = 0
      BY DEF NoOptions
    <2>3. ASSUME opts[p] \in Options
          PROVE  opts[p].file_size \in Nat /\ opts[p].block_size \in Nat
      BY <2>3, BenchAssumption
    <2> QED
      BY <2>1, <2>2, <2>3
  <1> QED
    BY <1>1, <1>2, BenchAssumption DEF BenchInv, FileOf, File

\* A file after bytes were written up to a position.
LEMMA GrownFacts ==
    ASSUME Types, NEW i \in Proc, NEW bytes \in Nat
    PROVE  /\ Grown(i, bytes) \in [Proc -> Nat]
           /\ Grown(i, bytes)[i] >= bytes /\ Grown(i, bytes)[i] >= size[i]
           /\ Grown(i, bytes)[i] \in {size[i], bytes}
           /\ \A k \in Proc \ {i} : Grown(i, bytes)[k] = size[k]
  <1>1. size[i] \in Nat /\ size \in [Proc -> Nat]
    BY DEF Types
  <1> DEFINE m == Max({size[i], bytes})
  <1>2. m >= size[i] /\ m >= bytes /\ m \in {size[i], bytes}
    BY <1>1, MaxOfTwo
  <1>3. Grown(i, bytes) = [size EXCEPT ![i] = m]
    BY DEF Grown
  <1> HIDE DEF m
  <1> QED
    BY <1>1, <1>2, <1>3

\* A run gives up: with a fault, or with an error that a run alone does not
\* meet.
LEMMA GiveUpKept ==
    ASSUME BenchInv, NEW p \in Proc, NEW s \in {"end", "clean"},
           step[p] \notin {"new", "clean", "end"},
           Goto(p, s), result' = [result EXCEPT ![p] = "err"],
           fd' = [fd EXCEPT ![p] = None],
           UNCHANGED <<disk, progress, scenario, run, now, short>>,
           Fault \/ (UNCHANGED faults /\ ~Sound(p)),
           unclean' = IF s = "end" THEN unclean \cup {"prepare"} ELSE unclean
    PROVE  Kept(p)
  <1>1. Types /\ Local(p) /\ OwnInv /\ FileOf(p) \in File
    BY BeforeFacts
  <1>2. OthersKept(p)
    BY <1>1 DEF Types, OthersKept, Goto, disk, run
  <1>3. Types'
    BY <1>1, BenchAssumption DEF Types, Goto, Fault, disk, run
  <1>4. faults <= faults' /\ (faults' = 0 => ~Sound(p))
    BY <1>1, BenchAssumption DEF Fault, Types
  <1>5. step'[p] = s /\ fd'[p] = None /\ entry' = entry
    BY <1>1 DEF Types, Goto, disk
  <1>6. OwnKept(p)
    BY <1>1, <1>4, <1>5 DEF OwnKept, OwnInv, Working
  <1>7. Local(p)'
    BY <1>1, <1>5 DEF Local, run
  <1>8. \A i \in Proc : Bounded(i)'
    BY BeforeFacts DEF Bounded, disk
  <1> QED
    BY <1>2, <1>3, <1>6, <1>7, <1>8 DEF Kept

\* The options are looked at and the run is under way, or ends at once.
LEMMA StartKept ==
    ASSUME BenchInv, NEW p \in Proc, NEW o \in Options, Start(p, o)
    PROVE  Kept(p)
  <1>1. Types /\ Local(p) /\ OwnInv /\ FileOf(p) \in File /\ step[p] = "new"
    BY BeforeFacts DEF Start
  <1>2. /\ opts' = [opts EXCEPT ![p] = o]
        /\ UNCHANGED <<disk, progress, scenario, now, unclean, short>>
        /\ fd'[p] = None /\ \A q \in Proc \ {p} : fd'[q] = fd[q]
        /\ fd' \in [Proc -> Proc \cup {None}]
    BY <1>1 DEF Start, Abort, Types, Local, disk
  <1>3. \/ Valid(o) /\ Goto(p, "open") /\ UNCHANGED <<result, faults>>
        \/ /\ Goto(p, "end") /\ result' = [result EXCEPT ![p] = "err"]
           /\ (~Valid(o) /\ UNCHANGED faults) \/ Fault
    BY DEF Start, Abort
  <1>4. OthersKept(p)
    BY <1>1, <1>2, <1>3 DEF Types, OthersKept, Goto, disk
  <1>5. Types'
    <2>1. /\ step' \in [Proc -> {"new", "open", "prepare", "scenario", "io",
                                 "write", "read", "clean", "end"}]
          /\ result' \in [Proc -> {"ok", "err", None}]
      BY <1>1, <1>3 DEF Types, Goto
    <2>2. opts' \in [Proc -> Options \cup {NoOptions}]
      BY <1>1, <1>2 DEF Types
    <2>3. faults' \in 0..MaxFaults
      BY <1>1, <1>3, BenchAssumption DEF Types, Fault
    <2> QED
      BY <1>1, <1>2, <2>1, <2>2, <2>3 DEF Types, disk
  <1>6. /\ opts'[p] = o /\ step'[p] \in {"open", "end"}
        /\ step'[p] = "open" => Valid(o) /\ result'[p] = result[p]
        /\ step'[p] = "end" /\ faults' = 0 => ~Valid(o)
        /\ faults <= faults'
        /\ entry' = entry /\ progress' = progress /\ short' = short /\ size' = size
    BY <1>1, <1>2, <1>3, BenchAssumption DEF Types, Goto, Fault, disk
  <1>7. Sound(p) /\ faults' = 0 => Sound(p)'
    BY <1>1, <1>6 DEF Sound
  <1>8. OwnKept(p)
    BY <1>1, <1>2, <1>6, <1>7 DEF OwnKept, OwnInv, Working
  <1>9. Local(p)'
    <2>1. progress[p] = 0 /\ o.file_size \in Nat
      BY <1>1, BenchAssumption DEF Local
    <2> QED
      BY <1>2, <1>6, <2>1 DEF Local
  <1>10. \A i \in Proc : Bounded(i)'
    BY <1>6, BeforeFacts DEF Bounded
  <1> QED
    BY <1>4, <1>5, <1>8, <1>9, <1>10 DEF Kept

\* A run goes on, to a step at which it still has a file to remove.
LEMMA MoveKept ==
    ASSUME BenchInv, NEW p \in Proc, NEW s \in Working, step[p] \notin {"new", "end"},
           Goto(p, s), UNCHANGED <<run, result, now, faults, unclean>>,
           NEW e \in Proc \cup {None}, entry' = [entry EXCEPT ![FileOf(p)] = e],
           e # None => FileOf(e) = FileOf(p),
           NEW d \in Proc \cup {None}, fd' = [fd EXCEPT ![p] = d],
           d # None => FileOf(d) = FileOf(p),
           NEW w \in Nat, progress' = [progress EXCEPT ![p] = w],
           scenario' \in [Proc -> 1..(Len(Patterns) + 1)],
           \A q \in Proc \ {p} : scenario'[q] = scenario[q],
           size' \in [Proc -> Nat],
           \A i \in Proc : FileOf(i) # FileOf(p) => size'[i] = size[i],
           short' \in {short, short \cup {p}},
           Local(p)', \A i \in Proc : Bounded(i)', Sound(p) => Sound(p)'
    PROVE  Kept(p)
  <1>1. Types /\ Local(p) /\ OwnInv /\ FileOf(p) \in File
    BY BeforeFacts
  <1>2. OthersKept(p)
    BY <1>1 DEF Types, OthersKept, Goto, run
  <1>3. Types'
    <2>1. /\ entry' \in [File -> Proc \cup {None}]
          /\ fd' \in [Proc -> Proc \cup {None}]
          /\ progress' \in [Proc -> Nat]
      BY <1>1 DEF Types
    <2>2. step' \in [Proc -> {"new", "open", "prepare", "scenario", "io",
                              "write", "read", "clean", "end"}]
      BY <1>1 DEF Types, Goto, Working
    <2>3. short' \subseteq Proc
      BY <1>1 DEF Types
    <2> QED
      BY <1>1, <2>1, <2>2, <2>3 DEF Types, run
  <1>4. step'[p] = s /\ fd'[p] = d /\ entry'[FileOf(p)] = e
    BY <1>1 DEF Types, Goto
  <1>5. OwnKept(p)
    <2>1. faults <= faults' /\ step'[p] \in Working /\ step'[p] # "new"
      BY <1>1, <1>4, BenchAssumption DEF Types, Working
    <2> QED
      BY <1>4, <2>1 DEF OwnKept
  <1> QED
    BY <1>2, <1>3, <1>5 DEF Kept

\* Nothing but the run's own step, count and open file changes.
LEMMA QuietMoveKept ==
    ASSUME BenchInv, NEW p \in Proc, NEW s \in Working, step[p] \notin {"new", "end"},
           Goto(p, s), UNCHANGED <<run, disk, result, now, faults, unclean>>,
           NEW d \in Proc \cup {None}, fd' = [fd EXCEPT ![p] = d],
           d # None => FileOf(d) = FileOf(p),
           NEW w \in Nat, progress' = [progress EXCEPT ![p] = w],
           scenario' \in [Proc -> 1..(Len(Patterns) + 1)],
           \A q \in Proc \ {p} : scenario'[q] = scenario[q],
           short' \in {short, short \cup {p}},
           Local(p)', Sound(p) => Sound(p)'
    PROVE  Kept(p)
  <1>1. Types /\ OwnInv /\ FileOf(p) \in File /\ \A i \in Proc : Bounded(i)
    BY BeforeFacts
  <1>2. PICK e \in Proc \cup {None} : e = entry[FileOf(p)]
    BY <1>1 DEF Types
  <1>3. /\ entry' = [entry EXCEPT ![FileOf(p)] = e]
        /\ e # None => FileOf(e) = FileOf(p)
    BY <1>1, <1>2 DEF Types, OwnInv, disk
  <1>4. size' = size /\ size' \in [Proc -> Nat] /\ \A i \in Proc : Bounded(i)'
    BY <1>1 DEF Types, Bounded, disk
  <1> QED
    BY <1>3, <1>4, MoveKept

\* The file that open(2) yields belongs to this kind of run; for a run alone it
\* is its own.
LEMMA CreateFacts ==
    ASSUME BenchInv, NEW p \in Proc, Create(p)
    PROVE  \E i \in Proc :
               /\ FileOf(i) = FileOf(p) /\ (entry[FileOf(p)] = None => i = p)
               /\ entry' = [entry EXCEPT ![FileOf(p)] = i]
               /\ fd' = [fd EXCEPT ![p] = i] /\ fd'[p] = i
               /\ entry'[FileOf(p)] = i
  <1>1. Types /\ OwnInv /\ FileOf(p) \in File
    BY BeforeFacts
  <1> DEFINE i == IF entry[FileOf(p)] = None THEN p ELSE entry[FileOf(p)]
  <1>2. i \in Proc /\ FileOf(i) = FileOf(p) /\ (entry[FileOf(p)] = None => i = p)
    BY <1>1 DEF Types, OwnInv
  <1>3. entry' = [entry EXCEPT ![FileOf(p)] = i] /\ fd' = [fd EXCEPT ![p] = i]
    BY DEF Create
  <1> HIDE DEF i
  <1>4. fd'[p] = i /\ entry'[FileOf(p)] = i
    BY <1>1, <1>3 DEF Types
  <1> QED
    BY <1>2, <1>3, <1>4

LEMMA PrepareOpenKept ==
    ASSUME BenchInv, NEW p \in Proc, PrepareOpen(p)
    PROVE  Kept(p)
  <1>1. /\ Types /\ Local(p) /\ \A i \in Proc : Bounded(i)
        /\ step[p] = "open" /\ FileOf(p) \in File
    BY BeforeFacts DEF PrepareOpen
  <1>2. CASE /\ Create(p)
             /\ size' = [size EXCEPT ![fd'[p]] = 0]
             /\ Goto(p, "prepare")
             /\ UNCHANGED <<progress, scenario, result, faults, unclean>>
    <2>1. PICK i \in Proc :
              /\ FileOf(i) = FileOf(p) /\ (entry[FileOf(p)] = None => i = p)
              /\ entry' = [entry EXCEPT ![FileOf(p)] = i]
              /\ fd' = [fd EXCEPT ![p] = i] /\ fd'[p] = i
              /\ entry'[FileOf(p)] = i
      BY <1>2, CreateFacts
    <2>2. /\ UNCHANGED <<run, now, short>> /\ step'[p] = "prepare"
          /\ size' = [size EXCEPT ![i] = 0]
          /\ progress' = [progress EXCEPT ![p] = progress[p]]
          /\ progress[p] \in Nat
      BY <1>1, <1>2, <2>1 DEF PrepareOpen, Types, Goto
    <2>3. size' \in [Proc -> Nat]
          /\ \A k \in Proc : FileOf(k) # FileOf(p) => size'[k] = size[k]
      BY <1>1, <2>1, <2>2 DEF Types
    <2>4. ASSUME NEW k \in Proc PROVE Bounded(k)'
      <3>1. size'[k] = 0 \/ size'[k] = size[k]
        BY <1>1, <2>2 DEF Types
      <3> QED
        BY <1>1, <3>1 DEF Bounded
    <2>5. Local(p)'
      BY <1>1, <1>2, <2>1, <2>2, BenchAssumption DEF Local, run
    <2>6. Sound(p) => Sound(p)'
      <3> SUFFICES ASSUME Sound(p) PROVE Sound(p)'
        OBVIOUS
      <3>1. i = p /\ result[p] # "err" /\ p \notin short /\ progress[p] = 0
        BY <1>1, <2>1 DEF Sound, Local
      <3>2. /\ size'[p] = 0 /\ result'[p] # "err" /\ p \notin short'
            /\ progress'[p] = 0 /\ entry'[FileOf(p)] = p /\ fd'[p] = p
        BY <1>1, <1>2, <2>1, <2>2, <3>1 DEF Types
      <3> QED
        BY <2>2, <3>2 DEF Sound
    <2>7. /\ step[p] \notin {"new", "end"} /\ Goto(p, "prepare")
          /\ UNCHANGED <<run, result, now, faults, unclean>>
          /\ scenario' \in [Proc -> 1..(Len(Patterns) + 1)]
          /\ \A q \in Proc \ {p} : scenario'[q] = scenario[q]
          /\ short' \in {short, short \cup {p}} /\ "prepare" \in Working
      BY <1>1, <1>2, <2>2 DEF Types, Working
    <2> QED
      BY <2>1, <2>2, <2>3, <2>4, <2>5, <2>6, <2>7, MoveKept
  <1>3. CASE Fault /\ Abort(p) /\ unclean' = unclean \cup {"prepare"}
    BY <1>1, <1>3, GiveUpKept DEF PrepareOpen, Abort
  <1> QED
    BY <1>2, <1>3 DEF PrepareOpen

\* A run writes into its open file, up to some byte within the file's size.
LEMMA WriteKept ==
    ASSUME BenchInv, NEW p \in Proc, step[p] \in {"prepare", "io", "write"},
           NEW bytes \in Nat, bytes <= opts[p].file_size,
           size' = Grown(fd[p], bytes),
           NEW w \in Nat, w <= opts[p].file_size,
           step[p] \in {"io", "write"} => w <= blocks(opts[p]),
           step[p] = "prepare" => bytes >= w,
           step[p] = "write" => bytes = w * opts[p].block_size,
           progress' = [progress EXCEPT ![p] = w],
           UNCHANGED <<entry, step, fd, scenario, result, faults, unclean, run, now,
                       short>>
    PROVE  Kept(p)
  <1>1. /\ Types /\ Local(p) /\ OwnInv /\ \A i \in Proc : Bounded(i)
        /\ FileOf(p) \in File /\ opts[p].file_size \in Nat
    BY BeforeFacts
  <1>2. PICK i \in Proc : i = fd[p] /\ FileOf(i) = FileOf(p)
    BY <1>1 DEF Types, Local, OwnInv
  <1>3. /\ size' \in [Proc -> Nat]
        /\ size'[i] >= bytes /\ size'[i] >= size[i] /\ size'[i] \in {size[i], bytes}
        /\ \A k \in Proc \ {i} : size'[k] = size[k]
    BY <1>1, <1>2, GrownFacts
  <1>4. ASSUME NEW k \in Proc PROVE Bounded(k)'
    <2>1. CASE size'[k] = size[k]
      BY <1>1, <2>1 DEF Bounded
    <2>2. CASE size'[k] = bytes
      <3>1. opts[p] \in Options
        BY <1>1 DEF Local
      <3> QED
        BY <2>2, <3>1 DEF Bounded
    <2> QED
      BY <1>3, <2>1, <2>2
  <1>5. progress'[p] = w /\ opts' = opts /\ step' = step /\ fd' = fd
    BY <1>1 DEF Types, run
  <1>6. Local(p)'
    BY <1>1, <1>5 DEF Local
  <1>7. Sound(p) => Sound(p)'
    <2> SUFFICES ASSUME Sound(p) PROVE Sound(p)'
      OBVIOUS
    <2>1. i = p
      BY <1>2 DEF Sound
    <2>2. size'[p] >= bytes /\ size'[p] >= size[p] /\ size'[p] \in Nat /\ size[p] \in Nat
      BY <1>1, <1>3, <2>1 DEF Types
    <2>3. /\ step[p] = "prepare" => size'[p] >= progress'[p]
          /\ step[p] = "io" => size'[p] >= opts[p].file_size
          /\ step[p] = "write" => size'[p] >= progress'[p] * opts[p].block_size
      BY <1>1, <1>5, <2>2 DEF Sound
    <2> QED
      BY <1>5, <2>3 DEF Sound
  <1>8. PICK e \in Proc \cup {None} : e = entry[FileOf(p)]
    BY <1>1 DEF Types
  <1>9. /\ entry' = [entry EXCEPT ![FileOf(p)] = e] /\ fd' = [fd EXCEPT ![p] = i]
        /\ e # None => FileOf(e) = FileOf(p)
        /\ Goto(p, step[p])
    BY <1>1, <1>2, <1>8 DEF Types, OwnInv, Goto
  <1>10. /\ step[p] \in Working /\ step[p] \notin {"new", "end"}
         /\ scenario' \in [Proc -> 1..(Len(Patterns) + 1)]
         /\ \A q \in Proc \ {p} : scenario'[q] = scenario[q]
         /\ short' \in {short, short \cup {p}}
         /\ \A k \in Proc : FileOf(k) # FileOf(p) => size'[k] = size[k]
    BY <1>1, <1>2, <1>3 DEF Types, Working
  <1> QED
    BY <1>2, <1>3, <1>4, <1>6, <1>7, <1>9, <1>10, MoveKept

LEMMA PrepareWriteKept ==
    ASSUME BenchInv, NEW p \in Proc, PrepareWrite(p)
    PROVE  Kept(p)
  <1> DEFINE w == progress[p] + Chunk(opts[p], progress[p])
  <1>1. /\ Types /\ Local(p) /\ step[p] = "prepare" /\ opts[p].file_size \in Nat
    BY BeforeFacts DEF PrepareWrite
  <1>2. /\ w \in Nat /\ w <= opts[p].file_size
    BY <1>1, ChunkFacts DEF Types, Local
  <1>3. CASE /\ progress' = [progress EXCEPT ![p] = @ + Chunk(opts[p], progress[p])]
             /\ size' = Grown(fd[p], progress'[p])
             /\ UNCHANGED <<entry, step, fd, scenario, result, faults, unclean>>
    <2>1. progress' = [progress EXCEPT ![p] = w] /\ progress'[p] = w
      BY <1>1, <1>3 DEF Types
    <2>2. size' = Grown(fd[p], w) /\ UNCHANGED <<run, now, short>>
      BY <1>3, <2>1 DEF PrepareWrite
    <2> HIDE DEF w
    <2>3. w >= w
      BY <1>2
    <2> QED
      BY <1>1, <1>2, <1>3, <2>1, <2>2, <2>3, WriteKept
  <1>4. CASE Fault /\ Abort(p) /\ unclean' = unclean \cup {"prepare"}
    BY <1>1, <1>4, GiveUpKept DEF PrepareWrite, Abort
  <1> QED
    BY <1>3, <1>4 DEF PrepareWrite

LEMMA PrepareDoneKept ==
    ASSUME BenchInv, NEW p \in Proc, PrepareDone(p)
    PROVE  Kept(p)
  <1>1. /\ Types /\ Local(p) /\ step[p] = "prepare" /\ opts[p].file_size \in Nat
    BY BeforeFacts DEF PrepareDone
  <1>2. progress[p] = opts[p].file_size
    BY <1>1, ChunkFacts DEF Types, Local, PrepareDone
  <1>3. CASE /\ Goto(p, "scenario") /\ fd' = [fd EXCEPT ![p] = None]
             /\ UNCHANGED <<disk, progress, scenario, result, faults, unclean>>
    <2>1. /\ step'[p] = "scenario" /\ fd'[p] = None /\ UNCHANGED <<run, now, short>>
          /\ progress' = [progress EXCEPT ![p] = progress[p]] /\ progress[p] \in Nat
      BY <1>1, <1>3 DEF Types, Goto, PrepareDone
    <2>2. Local(p)'
      BY <1>1, <1>3, <2>1 DEF Local, run
    <2>3. Sound(p) => Sound(p)'
      BY <1>1, <1>2, <1>3, <2>1 DEF Sound, run, disk
    <2>4. /\ step[p] \notin {"new", "end"} /\ "scenario" \in Working
          /\ scenario' \in [Proc -> 1..(Len(Patterns) + 1)]
          /\ \A q \in Proc \ {p} : scenario'[q] = scenario[q]
          /\ short' \in {short, short \cup {p}}
      BY <1>1, <1>3, <2>1 DEF Types, Working
    <2> QED
      BY <1>3, <2>1, <2>2, <2>3, <2>4, QuietMoveKept
  <1>4. CASE Fault /\ Abort(p) /\ unclean' = unclean \cup {"prepare"}
    BY <1>1, <1>4, GiveUpKept DEF PrepareDone, Abort
  <1> QED
    BY <1>3, <1>4 DEF PrepareDone

LEMMA OpenScenarioKept ==
    ASSUME BenchInv, NEW p \in Proc, OpenScenario(p)
    PROVE  Kept(p)
  <1>1. /\ Types /\ Local(p) /\ OwnInv /\ step[p] = "scenario"
        /\ opts[p].file_size \in Nat /\ FileOf(p) \in File
    BY BeforeFacts DEF OpenScenario
  <1>2. CASE /\ entry[FileOf(p)] # None
             /\ fd' = [fd EXCEPT ![p] = entry[FileOf(p)]]
             /\ progress' = [progress EXCEPT ![p] = 0]
             /\ Goto(p, "io")
             /\ UNCHANGED <<disk, scenario, result, faults>>
    <2>1. PICK d \in Proc \cup {None} : d = entry[FileOf(p)]
      BY <1>1 DEF Types
    <2>2. /\ fd' = [fd EXCEPT ![p] = d] /\ FileOf(d) = FileOf(p)
          /\ UNCHANGED <<run, now, unclean, short>>
          /\ step'[p] = "io" /\ fd'[p] = d /\ d # None /\ progress'[p] = 0
          /\ scenario' = scenario /\ scenario[p] <= Len(Patterns)
      BY <1>1, <1>2, <2>1 DEF Types, OwnInv, OpenScenario, Goto
    <2>3. blocks(opts[p]) \in Nat
      BY <1>1, BlockFacts DEF Local
    <2>4. Local(p)'
      BY <1>1, <2>2, <2>3 DEF Local, run
    <2>5. Sound(p) => Sound(p)'
      BY <1>1, <1>2, <2>1, <2>2 DEF Sound, run, disk
    <2>6. /\ step[p] \notin {"new", "end"} /\ "io" \in Working
          /\ scenario' \in [Proc -> 1..(Len(Patterns) + 1)]
          /\ \A q \in Proc \ {p} : scenario'[q] = scenario[q]
          /\ short' \in {short, short \cup {p}}
      BY <1>1, <1>2, <2>2 DEF Types, Working
    <2> QED
      BY <1>2, <2>2, <2>4, <2>5, <2>6, QuietMoveKept
  <1>3. CASE Cleanup(p) /\ (Fault \/ (UNCHANGED faults /\ entry[FileOf(p)] = None))
    <2>1. entry[FileOf(p)] = None => ~Sound(p)
      BY <1>1, BenchAssumption DEF Sound
    <2> QED
      BY <1>1, <1>3, <2>1, GiveUpKept DEF OpenScenario, Cleanup
  <1> QED
    BY <1>2, <1>3 DEF OpenScenario

\* Block k of a run's file.
LEMMA EndFacts ==
    ASSUME BenchInv, NEW p \in Proc, step[p] \in {"io", "write", "read"},
           NEW k \in Nat, k < blocks(opts[p])
    PROVE  /\ End(p, k) \in Nat /\ End(p, k) <= opts[p].file_size
           /\ End(p, k) = (k + 1) * opts[p].block_size
           /\ End(p, k) <= blocks(opts[p]) * opts[p].block_size
           /\ blocks(opts[p]) * opts[p].block_size \in Nat
  <1>1. opts[p] \in Options /\ Valid(opts[p])
    BY BeforeFacts DEF Local
  <1>2. /\ opts[p].block_size \in Nat /\ opts[p].file_size \in Nat
        /\ blocks(opts[p]) \in Nat
        /\ k * opts[p].block_size + opts[p].block_size = (k + 1) * opts[p].block_size
        /\ k * opts[p].block_size + opts[p].block_size <=
               blocks(opts[p]) * opts[p].block_size
        /\ k * opts[p].block_size + opts[p].block_size <= opts[p].file_size
    BY <1>1, BlockFacts
  <1> QED
    BY <1>2 DEF End

\* One more block is done; nothing is written.
LEMMA CountKept ==
    ASSUME BenchInv, NEW p \in Proc, step[p] \in {"io", "read"},
           progress[p] < blocks(opts[p]),
           progress' = [progress EXCEPT ![p] = @ + 1],
           UNCHANGED <<disk, step, fd, scenario, result, faults, run, now, unclean>>,
           short' \in {short, short \cup {p}},
           Sound(p) => p \notin short'
    PROVE  Kept(p)
  <1>1. /\ Types /\ Local(p) /\ OwnInv /\ FileOf(p) \in File
        /\ opts[p] \in Options /\ Valid(opts[p])
    BY BeforeFacts DEF Local
  <1>2. /\ blocks(opts[p]) \in Nat /\ blocks(opts[p]) <= opts[p].file_size
        /\ opts[p].file_size \in Nat
    BY <1>1, BlockFacts
  <1>3. PICK w \in Nat : w = progress[p] + 1
    BY <1>1 DEF Types
  <1>4. /\ progress' = [progress EXCEPT ![p] = w] /\ progress'[p] = w
        /\ w <= blocks(opts[p]) /\ w <= opts[p].file_size
    BY <1>1, <1>2, <1>3 DEF Types
  <1>5. PICK d \in Proc : d = fd[p] /\ FileOf(d) = FileOf(p)
    BY <1>1 DEF Types, Local, OwnInv
  <1>6. fd' = [fd EXCEPT ![p] = d] /\ Goto(p, step[p])
    BY <1>1, <1>5 DEF Types, Goto
  <1>7. Local(p)'
    BY <1>1, <1>4 DEF Local, run
  <1>8. Sound(p) => Sound(p)'
    BY DEF Sound, run, disk
  <1>9. /\ step[p] \in Working /\ step[p] \notin {"new", "end"}
        /\ scenario' \in [Proc -> 1..(Len(Patterns) + 1)]
        /\ \A q \in Proc \ {p} : scenario'[q] = scenario[q]
    BY <1>1 DEF Types, Working
  <1> QED
    BY <1>4, <1>5, <1>6, <1>7, <1>8, <1>9, QuietMoveKept

LEMMA ScenarioIoKept ==
    ASSUME BenchInv, NEW p \in Proc, ScenarioIo(p)
    PROVE  Kept(p)
  <1>1. /\ Types /\ Local(p) /\ step[p] = "io" /\ progress[p] < blocks(opts[p])
        /\ opts[p] \in Options /\ Valid(opts[p])
    BY BeforeFacts DEF ScenarioIo, Local
  <1>2. /\ blocks(opts[p]) \in Nat /\ blocks(opts[p]) <= opts[p].file_size
        /\ opts[p].file_size \in Nat /\ progress[p] \in Nat
    BY <1>1, BlockFacts DEF Types
  <1>3. PICK k \in Index(p) :
         \/ /\ size' = Grown(fd[p], End(p, k))
            /\ progress' = [progress EXCEPT ![p] = @ + 1]
            /\ UNCHANGED <<entry, step, fd, scenario, result, faults>>
         \/ /\ progress' = [progress EXCEPT ![p] = @ + 1]
            /\ UNCHANGED <<disk, step, fd, scenario, result, faults>>
         \/ size[fd[p]] < End(p, k) /\ Cleanup(p) /\ UNCHANGED faults
         \/ Fault /\ Cleanup(p)
    BY DEF ScenarioIo
  <1>4. k \in Nat /\ k < blocks(opts[p])
    BY <1>1, <1>2 DEF Index
  <1>5. End(p, k) \in Nat /\ End(p, k) <= opts[p].file_size
    BY <1>1, <1>4, EndFacts
  <1>6. UNCHANGED <<run, now, unclean, short>>
    BY DEF ScenarioIo
  <1>7. CASE /\ size' = Grown(fd[p], End(p, k))
             /\ progress' = [progress EXCEPT ![p] = @ + 1]
             /\ UNCHANGED <<entry, step, fd, scenario, result, faults>>
    <2>1. PICK w \in Nat : /\ w = progress[p] + 1 /\ w <= blocks(opts[p])
                           /\ w <= opts[p].file_size
      BY <1>1, <1>2
    <2>2. progress' = [progress EXCEPT ![p] = w]
      BY <1>1, <1>7, <2>1 DEF Types
    <2> QED
      BY <1>1, <1>5, <1>6, <1>7, <2>1, <2>2, WriteKept
  <1>8. CASE /\ progress' = [progress EXCEPT ![p] = @ + 1]
             /\ UNCHANGED <<disk, step, fd, scenario, result, faults>>
    <2>1. Sound(p) => p \notin short'
      BY <1>6 DEF Sound
    <2> QED
      BY <1>1, <1>6, <1>8, <2>1, CountKept
  <1>9. CASE size[fd[p]] < End(p, k) /\ Cleanup(p) /\ UNCHANGED faults
    <2>1. ~Sound(p)
      <3> SUFFICES ASSUME Sound(p) PROVE FALSE
        OBVIOUS
      <3>1. fd[p] = p /\ size[p] >= opts[p].file_size /\ size[p] \in Nat
        BY <1>1 DEF Sound, Types
      <3> QED
        BY <1>2, <1>5, <1>9, <3>1
    <2> QED
      BY <1>1, <1>6, <1>9, <2>1, GiveUpKept DEF Cleanup
  <1>10. CASE Fault /\ Cleanup(p)
    BY <1>1, <1>6, <1>10, GiveUpKept DEF Cleanup
  <1> QED
    BY <1>3, <1>7, <1>8, <1>9, <1>10

LEMMA ScenarioDoneKept ==
    ASSUME BenchInv, NEW p \in Proc, ScenarioDone(p)
    PROVE  Kept(p)
  <1>1. /\ Types /\ Local(p) /\ step[p] = "io"
    BY BeforeFacts DEF ScenarioDone
  <1>2. UNCHANGED <<run, now, unclean, short>>
    BY DEF ScenarioDone
  <1>3. CASE /\ Goto(p, "scenario")
             /\ scenario' = [scenario EXCEPT ![p] = @ + 1]
             /\ fd' = [fd EXCEPT ![p] = None]
             /\ UNCHANGED <<disk, progress, result, faults>>
    <2>1. /\ step'[p] = "scenario" /\ fd'[p] = None
          /\ progress' = [progress EXCEPT ![p] = progress[p]] /\ progress[p] \in Nat
      BY <1>1, <1>3 DEF Types, Goto
    <2>2. scenario[p] + 1 \in 1..(Len(Patterns) + 1)
      BY <1>1, BenchAssumption DEF Types, Local
    <2>3. /\ scenario' \in [Proc -> 1..(Len(Patterns) + 1)]
          /\ \A q \in Proc \ {p} : scenario'[q] = scenario[q]
      BY <1>1, <1>3, <2>2 DEF Types
    <2>4. Local(p)'
      BY <1>1, <1>2, <1>3, <2>1 DEF Local, run
    <2>5. Sound(p) => Sound(p)'
      BY <1>1, <1>2, <1>3, <2>1 DEF Sound, run, disk
    <2>6. step[p] \notin {"new", "end"} /\ "scenario" \in Working
      BY <1>1 DEF Working
    <2> QED
      BY <1>2, <1>3, <2>1, <2>3, <2>4, <2>5, <2>6, QuietMoveKept
  <1>4. CASE Fault /\ Cleanup(p)
    BY <1>1, <1>2, <1>4, GiveUpKept DEF Cleanup
  <1> QED
    BY <1>3, <1>4 DEF ScenarioDone

LEMMA AllScenariosDoneKept ==
    ASSUME BenchInv, NEW p \in Proc, AllScenariosDone(p)
    PROVE  Kept(p)
  <1>1. /\ Types /\ Local(p) /\ step[p] = "scenario" /\ Goto(p, "clean")
        /\ UNCHANGED <<run, disk, fd, progress, scenario, result, now, faults, unclean,
                       short>>
    BY BeforeFacts DEF AllScenariosDone
  <1>2. /\ step'[p] = "clean" /\ fd[p] = None /\ fd' = [fd EXCEPT ![p] = None]
        /\ progress' = [progress EXCEPT ![p] = progress[p]] /\ progress[p] \in Nat
    BY <1>1 DEF Types, Goto, Local
  <1>3. Local(p)'
    BY <1>1, <1>2 DEF Local, run
  <1>4. Sound(p) => Sound(p)'
    BY <1>1, <1>2 DEF Sound, run, disk
  <1>5. /\ step[p] \notin {"new", "end"} /\ "clean" \in Working
        /\ scenario' \in [Proc -> 1..(Len(Patterns) + 1)]
        /\ \A q \in Proc \ {p} : scenario'[q] = scenario[q]
    BY <1>1 DEF Types, Working
  <1> QED
    BY <1>1, <1>2, <1>3, <1>4, <1>5, QuietMoveKept

-----------------------------------------------------------------------------
(* The raw run. *)

LEMMA RawOpenKept ==
    ASSUME BenchInv, NEW p \in Proc, RawOpen(p)
    PROVE  Kept(p)
  <1>1. /\ Types /\ Local(p) /\ \A i \in Proc : Bounded(i)
        /\ step[p] = "open" /\ opts[p].block_size \in Nat
        /\ UNCHANGED <<run, now, unclean, short>>
    BY BeforeFacts DEF RawOpen
  <1>2. CASE /\ Create(p) /\ Goto(p, "write")
             /\ UNCHANGED <<size, progress, scenario, result, faults>>
    <2>1. PICK i \in Proc :
              /\ FileOf(i) = FileOf(p) /\ (entry[FileOf(p)] = None => i = p)
              /\ entry' = [entry EXCEPT ![FileOf(p)] = i]
              /\ fd' = [fd EXCEPT ![p] = i] /\ fd'[p] = i
              /\ entry'[FileOf(p)] = i
      BY <1>2, CreateFacts
    <2>2. /\ step'[p] = "write" /\ progress' = [progress EXCEPT ![p] = progress[p]]
          /\ progress[p] = 0 /\ progress[p] \in Nat
          /\ opts[p] \in Options /\ Valid(opts[p])
      BY <1>1, <1>2 DEF Types, Goto, Local
    <2>3. blocks(opts[p]) \in Nat
      BY <2>2, BlockFacts
    <2>4. Local(p)'
      BY <1>1, <1>2, <2>1, <2>2, <2>3, BenchAssumption DEF Local, run
    <2>5. Sound(p) => Sound(p)'
      <3> SUFFICES ASSUME Sound(p) PROVE Sound(p)'
        OBVIOUS
      <3>1. /\ i = p /\ result'[p] # "err" /\ p \notin short'
            /\ size'[p] \in Nat /\ progress'[p] = 0
        BY <1>1, <1>2, <2>1, <2>2 DEF Sound, Types
      <3>2. progress'[p] * opts'[p].block_size = 0
        BY <1>1, <3>1 DEF run
      <3> QED
        BY <2>1, <2>2, <3>1, <3>2 DEF Sound
    <2>6. /\ step[p] \notin {"new", "end"} /\ "write" \in Working
          /\ scenario' \in [Proc -> 1..(Len(Patterns) + 1)]
          /\ \A q \in Proc \ {p} : scenario'[q] = scenario[q]
          /\ size' \in [Proc -> Nat] /\ short' \in {short, short \cup {p}}
      BY <1>1, <1>2 DEF Types, Working
    <2>7. \A k \in Proc : Bounded(k)' /\ size'[k] = size[k]
      BY <1>1, <1>2 DEF Bounded
    <2> QED
      BY <1>1, <1>2, <2>1, <2>2, <2>4, <2>5, <2>6, <2>7, MoveKept
  <1>3. CASE Fault /\ Cleanup(p)
    BY <1>1, <1>3, GiveUpKept DEF Cleanup
  <1> QED
    BY <1>2, <1>3 DEF RawOpen

LEMMA RawWriteKept ==
    ASSUME BenchInv, NEW p \in Proc, RawWrite(p)
    PROVE  Kept(p)
  <1>1. /\ Types /\ Local(p) /\ step[p] = "write" /\ progress[p] < blocks(opts[p])
        /\ opts[p] \in Options /\ Valid(opts[p])
        /\ UNCHANGED <<run, now, unclean, short>>
    BY BeforeFacts DEF RawWrite, Local
  <1>2. /\ blocks(opts[p]) \in Nat /\ blocks(opts[p]) <= opts[p].file_size
        /\ opts[p].file_size \in Nat /\ progress[p] \in Nat
    BY <1>1, BlockFacts DEF Types
  <1>3. CASE /\ size' = Grown(fd[p], End(p, progress[p]))
             /\ progress' = [progress EXCEPT ![p] = @ + 1]
             /\ UNCHANGED <<entry, step, fd, scenario, result, faults>>
    <2>1. PICK w \in Nat : /\ w = progress[p] + 1 /\ w <= blocks(opts[p])
                           /\ w <= opts[p].file_size
      BY <1>1, <1>2
    <2>2. progress' = [progress EXCEPT ![p] = w]
      BY <1>1, <1>3, <2>1 DEF Types
    <2>3. PICK bytes \in Nat : /\ bytes = End(p, progress[p])
                               /\ bytes <= opts[p].file_size
                               /\ bytes = w * opts[p].block_size
      BY <1>1, <1>2, <2>1, EndFacts
    <2> QED
      BY <1>1, <1>3, <2>1, <2>2, <2>3, WriteKept
  <1>4. CASE Fault /\ Cleanup(p)
    BY <1>1, <1>4, GiveUpKept DEF Cleanup
  <1> QED
    BY <1>3, <1>4 DEF RawWrite

LEMMA RawSyncKept ==
    ASSUME BenchInv, NEW p \in Proc, RawSync(p)
    PROVE  Kept(p)
  <1>1. /\ Types /\ Local(p) /\ OwnInv /\ step[p] = "write"
        /\ progress[p] = blocks(opts[p]) /\ opts[p] \in Options /\ Valid(opts[p])
        /\ UNCHANGED <<run, now, unclean, short>>
    BY BeforeFacts DEF RawSync, Local
  <1>2. CASE /\ Goto(p, "read") /\ progress' = [progress EXCEPT ![p] = 0]
             /\ UNCHANGED <<disk, fd, scenario, result, faults>>
    <2>1. PICK d \in Proc : d = fd[p] /\ FileOf(d) = FileOf(p)
      BY <1>1 DEF Types, Local, OwnInv
    <2>2. /\ fd' = [fd EXCEPT ![p] = d] /\ step'[p] = "read" /\ progress'[p] = 0
      BY <1>1, <1>2, <2>1 DEF Types, Goto
    <2>3. blocks(opts[p]) \in Nat /\ opts[p].file_size \in Nat
      BY <1>1, BlockFacts
    <2>4. Local(p)'
      BY <1>1, <1>2, <2>2, <2>3 DEF Local, run
    <2>5. Sound(p) => Sound(p)'
      BY <1>1, <1>2, <2>2 DEF Sound, run, disk
    <2>6. /\ step[p] \notin {"new", "end"} /\ "read" \in Working
          /\ scenario' \in [Proc -> 1..(Len(Patterns) + 1)]
          /\ \A q \in Proc \ {p} : scenario'[q] = scenario[q]
          /\ short' \in {short, short \cup {p}}
      BY <1>1, <1>2 DEF Types, Working
    <2> QED
      BY <1>1, <1>2, <2>1, <2>2, <2>4, <2>5, <2>6, QuietMoveKept
  <1>3. CASE Fault /\ Cleanup(p)
    BY <1>1, <1>3, GiveUpKept DEF Cleanup
  <1> QED
    BY <1>2, <1>3 DEF RawSync

LEMMA RawReadKept ==
    ASSUME BenchInv, NEW p \in Proc, RawRead(p)
    PROVE  Kept(p)
  <1>1. /\ Types /\ Local(p) /\ step[p] = "read" /\ progress[p] < blocks(opts[p])
        /\ opts[p] \in Options /\ Valid(opts[p]) /\ progress[p] \in Nat
        /\ UNCHANGED <<run, now, unclean>>
    BY BeforeFacts DEF RawRead, Local, Types
  <1>2. CASE /\ progress' = [progress EXCEPT ![p] = @ + 1]
             /\ short' = IF size[fd[p]] < End(p, progress[p])
                           THEN short \cup {p} ELSE short
             /\ UNCHANGED <<disk, step, fd, scenario, result, faults>>
    <2>1. Sound(p) => p \notin short'
      <3> SUFFICES ASSUME Sound(p) PROVE p \notin short'
        OBVIOUS
      <3>1. /\ fd[p] = p /\ p \notin short /\ size[p] \in Nat
            /\ size[p] >= blocks(opts[p]) * opts[p].block_size
        BY <1>1 DEF Sound, Types
      <3>2. /\ End(p, progress[p]) <= blocks(opts[p]) * opts[p].block_size
            /\ End(p, progress[p]) \in Nat
            /\ blocks(opts[p]) * opts[p].block_size \in Nat
        BY <1>1, EndFacts
      <3>3. ~(size[fd[p]] < End(p, progress[p]))
        BY <3>1, <3>2
      <3> QED
        BY <1>2, <3>1, <3>3
    <2>2. short' \in {short, short \cup {p}}
      BY <1>2
    <2> QED
      BY <1>1, <1>2, <2>1, <2>2, CountKept
  <1>3. CASE Fault /\ Cleanup(p) /\ UNCHANGED short
    BY <1>1, <1>3, GiveUpKept DEF Cleanup
  <1> QED
    BY <1>2, <1>3 DEF RawRead

LEMMA RawDoneKept ==
    ASSUME BenchInv, NEW p \in Proc, RawDone(p)
    PROVE  Kept(p)
  <1>1. /\ Types /\ Local(p) /\ step[p] = "read" /\ Goto(p, "clean")
        /\ fd' = [fd EXCEPT ![p] = None]
        /\ UNCHANGED <<run, disk, progress, scenario, result, now, faults, unclean,
                       short>>
    BY BeforeFacts DEF RawDone
  <1>2. /\ step'[p] = "clean" /\ fd'[p] = None
        /\ progress' = [progress EXCEPT ![p] = progress[p]] /\ progress[p] \in Nat
    BY <1>1 DEF Types, Goto
  <1>3. Local(p)'
    BY <1>1, <1>2 DEF Local, run
  <1>4. Sound(p) => Sound(p)'
    BY <1>1, <1>2 DEF Sound, run, disk
  <1>5. /\ step[p] \notin {"new", "end"} /\ "clean" \in Working
        /\ scenario' \in [Proc -> 1..(Len(Patterns) + 1)]
        /\ \A q \in Proc \ {p} : scenario'[q] = scenario[q]
    BY <1>1 DEF Types, Working
  <1> QED
    BY <1>1, <1>2, <1>3, <1>4, <1>5, QuietMoveKept

-----------------------------------------------------------------------------

\* The name is gone, or a fault left it and says so.
LEMMA RemoveFileKept ==
    ASSUME BenchInv, NEW p \in Proc, RemoveFile(p)
    PROVE  Kept(p)
  <1>1. /\ Types /\ Local(p) /\ OwnInv /\ step[p] = "clean" /\ FileOf(p) \in File
        /\ UNCHANGED <<run, size, fd, progress, scenario, now, short>>
        /\ Goto(p, "end")
        /\ result' = [result EXCEPT ![p] = IF @ = None THEN "ok" ELSE @]
    BY BeforeFacts DEF RemoveFile
  <1>2. \/ /\ entry' = [entry EXCEPT ![FileOf(p)] = None]
           /\ UNCHANGED <<faults, unclean>>
        \/ Fault /\ unclean' = unclean \cup {"remove"} /\ UNCHANGED entry
    BY DEF RemoveFile
  <1>3. /\ step'[p] = "end" /\ step' \in [Proc -> {"new", "open", "prepare", "scenario",
                                          "io", "write", "read", "clean", "end"}]
        /\ \A q \in Proc \ {p} : step'[q] = step[q]
    BY <1>1 DEF Types, Goto
  <1>4. /\ result' \in [Proc -> {"ok", "err", None}]
        /\ \A q \in Proc \ {p} : result'[q] = result[q]
        /\ result'[p] = "err" => result[p] = "err"
    BY <1>1 DEF Types
  <1>5. /\ entry' \in [File -> Proc \cup {None}]
        /\ \A f \in File \ {FileOf(p)} : entry'[f] = entry[f]
        /\ entry'[FileOf(p)] \in {None, entry[FileOf(p)]}
        /\ unclean' = {} => entry'[FileOf(p)] = None
    BY <1>1, <1>2 DEF Types
  <1>6. /\ faults' \in 0..MaxFaults /\ faults <= faults'
        /\ unclean' \subseteq {"prepare", "remove"} /\ unclean \subseteq unclean'
    <2>1. faults \in 0..MaxFaults /\ unclean \subseteq {"prepare", "remove"}
      BY <1>1 DEF Types
    <2>2. faults' \in 0..MaxFaults /\ faults <= faults'
      BY <1>2, <2>1, BenchAssumption DEF Fault
    <2>3. unclean' = unclean \/ unclean' = unclean \cup {"remove"}
      BY <1>2
    <2> QED
      BY <2>1, <2>2, <2>3
  <1>7. OthersKept(p)
    BY <1>1, <1>3, <1>4, <1>5 DEF OthersKept, run
  <1>8. Types'
    BY <1>1, <1>3, <1>4, <1>5, <1>6 DEF Types, run
  <1>9. Sound(p) => Sound(p)'
    BY <1>1, <1>3, <1>4 DEF Sound
  <1>10. OwnKept(p)
    <2>1. entry'[FileOf(p)] # None => FileOf(entry'[FileOf(p)]) = FileOf(p)
      BY <1>1, <1>5 DEF OwnInv
    <2>2. fd'[p] # None => FileOf(fd'[p]) = FileOf(p)
      BY <1>1 DEF OwnInv
    <2> QED
      BY <1>3, <1>5, <1>6, <1>9, <2>1, <2>2 DEF OwnKept
  <1>11. Local(p)'
    BY <1>1, <1>3 DEF Local, run
  <1>12. \A i \in Proc : Bounded(i)'
    BY <1>1, BeforeFacts DEF Bounded
  <1> QED
    BY <1>7, <1>8, <1>10, <1>11, <1>12 DEF Kept

LEMMA RunKept == ASSUME BenchInv, NEW p \in Proc, Run(p) PROVE Kept(p)
  BY StartKept, PrepareOpenKept, PrepareWriteKept, PrepareDoneKept, OpenScenarioKept,
     ScenarioIoKept, ScenarioDoneKept, AllScenariosDoneKept, RawOpenKept, RawWriteKept,
     RawSyncKept, RawReadKept, RawDoneKept, RemoveFileKept
  DEF Run

LEMMA BenchInitInv == BenchInit => BenchInv
  <1> SUFFICES ASSUME BenchInit PROVE BenchInv
    OBVIOUS
  <1>1. /\ entry \in [File -> Proc \cup {None}] /\ size \in [Proc -> Nat]
        /\ step \in [Proc -> {"new", "open", "prepare", "scenario", "io", "write",
                              "read", "clean", "end"}]
        /\ opts \in [Proc -> Options \cup {NoOptions}]
        /\ fd \in [Proc -> Proc \cup {None}] /\ progress \in [Proc -> Nat]
        /\ result \in [Proc -> {"ok", "err", None}]
    BY DEF BenchInit
  <1>2. /\ scenario \in [Proc -> 1..(Len(Patterns) + 1)]
        /\ now \in 0..MaxTime /\ faults \in 0..MaxFaults
    BY BenchAssumption DEF BenchInit
  <1>3. Types
    BY <1>1, <1>2 DEF Types, BenchInit
  <1>4. ASSUME NEW p \in Proc PROVE Local(p) /\ Bounded(p)
    <2>1. /\ size[p] = 0 /\ step[p] = "new" /\ opts[p] = NoOptions
          /\ fd[p] = None /\ progress[p] = 0
      BY DEF BenchInit
    <2>2. opts[p].file_size = 0
      BY <2>1 DEF NoOptions
    <2> QED
      BY <2>1, <2>2 DEF Local, Bounded
  <1>5. BenchTypeOK
    BY <1>3, <1>4, TypeSplit
  <1>6. OwnInv /\ TidyInv
    BY DEF BenchInit, OwnInv, TidyInv
  <1>7. LoneInv
    BY BenchAssumption DEF BenchInit, LoneInv, Sound, FileOf, File
  <1> QED
    BY <1>5, <1>6, <1>7 DEF BenchInv

LEMMA BenchStepInv == BenchInv /\ [BenchNext]_benchVars => BenchInv'
  <1> SUFFICES ASSUME BenchInv, [BenchNext]_benchVars PROVE BenchInv'
    OBVIOUS
  <1>1. ASSUME NEW p \in Proc, Run(p) PROVE BenchInv'
    BY <1>1, RunKept, KeptSuffices
  <1>2. CASE Tick \/ UNCHANGED benchVars
    <2>1. /\ UNCHANGED <<entry, size, opts, step, fd, progress, scenario, result,
                         faults, unclean, short>>
          /\ now' = now \/ (now < MaxTime /\ now' = now + 1)
      BY <1>2 DEF Tick, benchVars, disk, run
    <2>2. Types /\ \A q \in Proc : Local(q) /\ Bounded(q)
      BY TypeSplit DEF BenchInv
    <2>3. now' \in 0..MaxTime
      BY <2>1, <2>2, BenchAssumption DEF Types
    <2>4. Types'
      BY <2>1, <2>2, <2>3 DEF Types
    <2>5. \A q \in Proc : Local(q)' /\ Bounded(q)'
      BY <2>1, <2>2 DEF Local, Bounded
    <2>6. BenchTypeOK'
      BY <2>4, <2>5 DEF BenchTypeOK, Types, Local, Bounded
    <2>7. OwnInv' /\ TidyInv'
      BY <2>1 DEF BenchInv, OwnInv, TidyInv
    <2>8. LoneInv'
      BY <2>1 DEF BenchInv, LoneInv, Alone, Sound
    <2> QED
      BY <2>6, <2>7, <2>8 DEF BenchInv
  <1> QED
    BY <1>1, <1>2 DEF BenchNext

\* The inductive invariant of the benchmark's scratch files: types, the bounds
\* on what is prepared and grown, whose file a run has open, who will remove a
\* file, and how far the file of a run alone has come.
THEOREM BenchInvariant == BenchSpec => []BenchInv
  BY BenchInitInv, BenchStepInv, PTL DEF BenchSpec

\* Every variable keeps its type, no run prepares more bytes or counts more
\* blocks than its options say, and no scratch file outgrows every request.
THEOREM BenchTypes == BenchSpec => []BenchTypeOK
  <1>1. BenchInv => BenchTypeOK
    BY DEF BenchInv
  <1> QED
    BY <1>1, BenchInvariant, PTL

\* lib.rs run and ffi_raw.rs run: when all runs are over, however they were
\* interleaved, no scratch file is left unless a clean-up was skipped or failed.
THEOREM ScratchTidied == BenchSpec => []ScratchRemoved
  <1>1. BenchInv => ScratchRemoved
    BY DEF BenchInv, TidyInv, ScratchRemoved, Working
  <1> QED
    BY <1>1, BenchInvariant, PTL

\* A run alone in its directory and without an I/O error ends well for every
\* block and file size, chunk and sequence of scenarios, and no raw read is
\* short.
THEOREM LoneRunSound == BenchSpec => []LoneRunSucceeds
  <1>1. BenchInv => LoneRunSucceeds
    BY DEF BenchInv, LoneInv, Alone, Sound, LoneRunSucceeds
  <1> QED
    BY <1>1, BenchInvariant, PTL
=============================================================================
