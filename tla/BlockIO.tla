------------------------------ MODULE BlockIO -------------------------------
(***************************************************************************)
(* The block I/O shim: the loops of hpc-ffi/src/hpc_io.c around pread and  *)
(* pwrite, as hpc-ffi/src/lib.rs read_block_at and write_block_at call     *)
(* them, with several threads using one BlockFile.                         *)
(*                                                                         *)
(* What makes it hard: every system call may transfer less than it was     *)
(* asked to, be interrupted or fail, end of file is the only reason to     *)
(* return less, and other calls move the file between two system calls of  *)
(* one loop.                                                               *)
(*                                                                         *)
(* Definitions named Mutant... are deliberate mistakes, each just before   *)
(* the definition it would replace; the specification never uses one.      *)
(***************************************************************************)
EXTENDS Integers, Sequences, SequencesExt, FiniteSetsExt

CONSTANTS
    Thread,        \* threads that share the BlockFile
    Offsets,       \* the offsets of calls
    MaxLen,        \* bound on the length of a call
    MaxInterrupts, \* bound on EINTR
    Hole           \* the byte a file reads as where nothing was written

ASSUME BlockAssumption ==
    /\ Offsets \subseteq Nat /\ MaxLen \in Nat /\ MaxInterrupts \in Nat
    /\ Hole \notin Thread

VARIABLES
    file,       \* the bytes of the file; a thread writes bytes of its own
    call,       \* the call each thread made last: op, off, len
    active,     \* the threads whose call has not returned
    done,       \* bytes transferred so far by a thread's call
    buf,        \* bytes read so far
    ret,        \* the value returned: a count, or -1 for -errno
    clean,      \* ghost: no other write has met the range of this call
    interrupts

vars == <<file, call, active, done, buf, ret, clean, interrupts>>

Call == [op : {"read", "write"}, off : Offsets, len : 0..MaxLen]
NoCall == [op |-> "read", off |-> 0, len |-> 0]

Init ==
    /\ file = <<>>
    /\ call = [t \in Thread |-> NoCall]
    /\ active = {}
    /\ done = [t \in Thread |-> 0]
    /\ buf = [t \in Thread |-> <<>>]
    /\ ret = [t \in Thread |-> 0]
    /\ clean = [t \in Thread |-> FALSE]
    /\ interrupts = 0

\* The byte positions (from 1) a call is about.
Range1(c) == (c.off + 1)..(c.off + c.len)
Meets(c, d) == Range1(c) \cap Range1(d) # {}

\* read_block_at or write_block_at enters the shim.
Enter(t, c) ==
    /\ t \notin active
    /\ call' = [call EXCEPT ![t] = c]
    /\ active' = active \cup {t}
    /\ done' = [done EXCEPT ![t] = 0]
    /\ buf' = [buf EXCEPT ![t] = <<>>]
    /\ clean' = [u \in Thread |->
           IF u = t
           THEN \A v \in active : call[v].op = "write" => ~Meets(call[v], c)
           ELSE clean[u] /\ ~(c.op = "write" /\ Meets(call[u], c))]
    /\ UNCHANGED <<file, ret, interrupts>>

Return(t, value) ==
    /\ active' = active \ {t}
    /\ ret' = [ret EXCEPT ![t] = value]
    /\ UNCHANGED <<file, call, done, buf, clean>>

\* Every byte has been transferred.
Complete(t) ==
    /\ t \in active
    /\ done[t] = call[t].len
    /\ Return(t, done[t])
    /\ UNCHANGED interrupts

Looping(t, op) == t \in active /\ call[t].op = op /\ done[t] < call[t].len

At(t) == call[t].off + done[t]
Left(t) == call[t].len - done[t]

\* pread transfers n > 0 bytes.
Pread(t, n) ==
    /\ Looping(t, "read")
    /\ n <= Left(t) /\ At(t) + n <= Len(file)
    /\ buf' = [buf EXCEPT ![t] = @ \o SubSeq(file, At(t) + 1, At(t) + n)]
    /\ done' = [done EXCEPT ![t] = @ + n]
    /\ UNCHANGED <<file, call, active, ret, clean, interrupts>>

\* 0 is not taken for the end of the file.
MutantPreadEof(t) == FALSE

\* pread returns 0, at or past the end of the file.
PreadEof(t) ==
    /\ Looping(t, "read")
    /\ At(t) >= Len(file)
    /\ Return(t, done[t])
    /\ UNCHANGED interrupts

\* The file with n bytes of thread t at position p; a gap reads as holes.
Written(t, p, n) ==
    [i \in 1..Max({Len(file), p + n}) |->
        IF i \in (p + 1)..(p + n) THEN t
        ELSE IF i <= Len(file) THEN file[i] ELSE Hole]

\* A short write is taken for a complete one.
MutantPwrite(t, n) ==
    /\ Looping(t, "write")
    /\ n <= Left(t)
    /\ file' = Written(t, At(t), n)
    /\ done' = [done EXCEPT ![t] = call[t].len]
    /\ UNCHANGED <<call, active, buf, ret, clean, interrupts>>

\* pwrite transfers n > 0 bytes.
Pwrite(t, n) ==
    /\ Looping(t, "write")
    /\ n <= Left(t)
    /\ file' = Written(t, At(t), n)
    /\ done' = [done EXCEPT ![t] = @ + n]
    /\ UNCHANGED <<call, active, buf, ret, clean, interrupts>>

\* EINTR ends a read like the end of the file does.
MutantInterrupted(t) ==
    /\ t \in active /\ done[t] < call[t].len
    /\ interrupts < MaxInterrupts
    /\ interrupts' = interrupts + 1
    /\ Return(t, done[t])

\* EINTR: once more.
Interrupted(t) ==
    /\ t \in active /\ done[t] < call[t].len
    /\ interrupts < MaxInterrupts
    /\ interrupts' = interrupts + 1
    /\ UNCHANGED <<file, call, active, done, buf, ret, clean>>

\* Any other error: what was transferred stays, the caller gets an error.
Fails(t) ==
    /\ t \in active /\ done[t] < call[t].len
    /\ Return(t, -1)
    /\ UNCHANGED interrupts

Transfer(t) == \E n \in 1..MaxLen : Pread(t, n) \/ Pwrite(t, n)

Loop(t) == Complete(t) \/ PreadEof(t) \/ Transfer(t)

Next == \E t \in Thread : \/ \E c \in Call : Enter(t, c)
                          \/ Loop(t) \/ Interrupted(t) \/ Fails(t)

Spec == Init /\ [][Next]_vars

\* A system call that is not interrupted returns, and pwrite of at least one
\* byte never returns 0.
FairSpec == Spec /\ \A t \in Thread : WF_vars(Loop(t))

-----------------------------------------------------------------------------
(* Properties *)

\* Every variable has its type and no call transfers more than it was asked to:
\* the shim never writes past len.
TypeOK ==
    /\ file \in Seq(Thread \cup {Hole})
    /\ call \in [Thread -> Call \cup {NoCall}]
    /\ active \subseteq Thread
    /\ done \in [Thread -> 0..MaxLen]
    /\ buf \in [Thread -> Seq(Thread \cup {Hole})]
    /\ ret \in [Thread -> -1..MaxLen]
    /\ \A t \in Thread : /\ done[t] <= call[t].len
                         /\ call[t].op = "read" => Len(buf[t]) = done[t]
    /\ clean \in [Thread -> BOOLEAN]
    /\ interrupts \in 0..MaxInterrupts

Returned(t, op) == t \notin active /\ call[t].op = op /\ call[t].len > 0
                   /\ ret[t] >= 0

\* hpc_io.h: "A return value smaller than `len` indicates end-of-file was
\* reached", whatever the sequence of short reads and interrupts; and the bytes
\* returned are those of the file, unless another call writes them meanwhile.
ReadIsFaithful ==
    \A t \in Thread : Returned(t, "read") =>
        /\ ret[t] = Len(buf[t])
        /\ clean[t] => /\ ret[t] < call[t].len => \A i \in Range1(call[t]) :
                              i > call[t].off + ret[t] => i > Len(file) \/ file[i] = Hole
                       /\ \A i \in 1..ret[t] : buf[t][i] = file[call[t].off + i]

\* hpc_io.h: "Write exactly `len` bytes".  A write that reports success has
\* written every byte of its block, and no later step of another call that does
\* not overlap it takes one away.
WriteIsComplete ==
    \A t \in Thread : Returned(t, "write") =>
        /\ ret[t] = call[t].len
        /\ clean[t] => \A i \in Range1(call[t]) : i <= Len(file) /\ file[i] = t

\* Every call returns.
CallsReturn == \A t \in Thread : t \in active ~> t \notin active
=============================================================================
