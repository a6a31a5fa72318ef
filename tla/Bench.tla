------------------------------- MODULE Bench --------------------------------
(***************************************************************************)
(* The benchmark suite's scratch files: hpc-bench/src/lib.rs run, with     *)
(* prepare_file and the four scenarios, and hpc-bench/src/ffi_raw.rs run.  *)
(* Processes that benchmark the same directory share its scratch files.    *)
(*                                                                         *)
(* What makes it hard: a file is opened by name again for every scenario,  *)
(* another run may truncate or unlink it in between, every operation may   *)
(* fail, and the clean-up is written out on some paths and not on others.  *)
(* Byte counts are kept: the file size need not be a multiple of the block *)
(* size or of the chunk that prepare_file writes.                          *)
(*                                                                         *)
(* Definitions named Mutant... are deliberate mistakes, each just before   *)
(* the definition it would replace; the specification never uses one.      *)
(***************************************************************************)
EXTENDS Naturals, Sequences, FiniteSetsExt

CONSTANTS
    Proc,      \* processes, one run each
    Raw,       \* those that use ffi_raw::run; the others use run
    Options,   \* block_size and file_size pairs a run may be given
    Patterns,  \* the scenarios of a run: [write, random], in order
    PrepChunk, \* PREP_CHUNK
    MaxFaults, \* bound on failed I/O operations
    MaxTime,   \* bound on the clock
    None

ASSUME BenchAssumption ==
    /\ Raw \subseteq Proc
    /\ Options \subseteq [block_size : Nat, file_size : Nat]
    /\ Patterns \in Seq([write : BOOLEAN, random : BOOLEAN])
    /\ PrepChunk \in Nat \ {0}
    /\ MaxFaults \in Nat /\ MaxTime \in Nat
    /\ None \notin Proc \cup {"ok", "err"}

VARIABLES
    entry,     \* directory: file name -> inode (the process that made it)
    size,      \* bytes of each inode
    step,      \* where each run is
    opts,      \* its options
    fd,        \* the inode it has open
    progress,  \* bytes prepared, or blocks of the scenario
    scenario,  \* index of the scenario
    result,    \* "ok" or "err" once it has ended
    began,     \* the second it was started
    reported,  \* started_at_unix of the report
    now, faults,
    unclean,   \* ghost: why a scratch file was left: "prepare" or "remove" failed
    short      \* ghost: raw runs that read less than a block

disk == <<entry, size>>
run == <<opts, began>>
benchVars == <<disk, run, step, fd, progress, scenario, result, reported, now,
               faults, unclean, short>>

File == {"bench", "ffi"}
FileOf(p) == IF p \in Raw THEN "ffi" ELSE "bench"

NoOptions == [block_size |-> 0, file_size |-> 0]

BenchInit ==
    /\ entry = [f \in File |-> None]
    /\ size = [p \in Proc |-> 0]
    /\ step = [p \in Proc |-> "new"]
    /\ opts = [p \in Proc |-> NoOptions]
    /\ fd = [p \in Proc |-> None]
    /\ progress = [p \in Proc |-> 0]
    /\ scenario = [p \in Proc |-> 1]
    /\ result = [p \in Proc |-> None]
    /\ began = [p \in Proc |-> 0]
    /\ reported = [p \in Proc |-> None]
    /\ now = 0 /\ faults = 0
    /\ unclean = {} /\ short = {}

-----------------------------------------------------------------------------
(* Steps of every run. *)

Valid(o) == o.block_size # 0 /\ o.file_size >= o.block_size

blocks(o) == Max({o.file_size \div o.block_size, 1})

Goto(p, s) == step' = [step EXCEPT ![p] = s]

Fault == faults < MaxFaults /\ faults' = faults + 1

\* run returns an error without touching the directory.
Abort(p) ==
    /\ Goto(p, "end") /\ result' = [result EXCEPT ![p] = "err"]
    /\ fd' = [fd EXCEPT ![p] = None]
    /\ UNCHANGED <<disk, progress, scenario, reported>>

\* The error is returned once the scratch file has been removed.
Cleanup(p) ==
    /\ Goto(p, "clean") /\ result' = [result EXCEPT ![p] = "err"]
    /\ fd' = [fd EXCEPT ![p] = None]
    /\ UNCHANGED <<disk, progress, scenario, reported>>

\* validate and create_dir_all.
Start(p, o) ==
    /\ step[p] = "new"
    /\ opts' = [opts EXCEPT ![p] = o]
    /\ began' = [began EXCEPT ![p] = now]
    /\ \/ /\ Valid(o)
          /\ Goto(p, "open")
          /\ UNCHANGED <<disk, fd, progress, scenario, result, reported, faults>>
       \/ ~Valid(o) /\ Abort(p) /\ UNCHANGED faults
       \/ Fault /\ Abort(p)
    /\ UNCHANGED <<now, unclean, short>>

\* open(2) by name, with O_CREAT.
Create(p) ==
    LET inode == IF entry[FileOf(p)] = None THEN p ELSE entry[FileOf(p)]
    IN  /\ entry' = [entry EXCEPT ![FileOf(p)] = inode]
        /\ fd' = [fd EXCEPT ![p] = inode]

Grown(inode, bytes) == [size EXCEPT ![inode] = Max({@, bytes})]

-----------------------------------------------------------------------------
(* lib.rs run. *)

\* prepare_file: create and truncate.
PrepareOpen(p) ==
    /\ step[p] = "open" /\ p \notin Raw
    /\ \/ /\ Create(p)
          /\ size' = [size EXCEPT ![fd'[p]] = 0]
          /\ Goto(p, "prepare")
          /\ UNCHANGED <<progress, scenario, result, reported, faults, unclean>>
       \/ Fault /\ Abort(p) /\ unclean' = unclean \cup {"prepare"}
    /\ UNCHANGED <<run, now, short>>

\* The last chunk is left out when it is not a whole one.
MutantChunk(o, written) ==
    IF o.file_size - written >= PrepChunk THEN PrepChunk ELSE 0

\* remaining.min(PREP_CHUNK)
Chunk(o, written) == Min({o.file_size - written, PrepChunk})

PrepareWrite(p) ==
    /\ step[p] = "prepare"
    /\ Chunk(opts[p], progress[p]) > 0
    /\ \/ /\ progress' = [progress EXCEPT ![p] = @ + Chunk(opts[p], progress[p])]
          /\ size' = Grown(fd[p], progress'[p])
          /\ UNCHANGED <<entry, step, fd, scenario, result, reported, faults, unclean>>
       \/ Fault /\ Abort(p) /\ unclean' = unclean \cup {"prepare"}
    /\ UNCHANGED <<run, now, short>>

\* flush, sync_all, and the file is closed.
PrepareDone(p) ==
    /\ step[p] = "prepare"
    /\ Chunk(opts[p], progress[p]) = 0
    /\ \/ /\ Goto(p, "scenario")
          /\ fd' = [fd EXCEPT ![p] = None]
          /\ UNCHANGED <<disk, progress, scenario, result, reported, faults, unclean>>
       \/ Fault /\ Abort(p) /\ unclean' = unclean \cup {"prepare"}
    /\ UNCHANGED <<run, now, short>>

\* A scenario opens the file by name, without creating it.
OpenScenario(p) ==
    /\ step[p] = "scenario" /\ scenario[p] <= Len(Patterns)
    /\ \/ /\ entry[FileOf(p)] # None
          /\ fd' = [fd EXCEPT ![p] = entry[FileOf(p)]]
          /\ progress' = [progress EXCEPT ![p] = 0]
          /\ Goto(p, "io")
          /\ UNCHANGED <<disk, scenario, result, reported, faults>>
       \/ entry[FileOf(p)] = None /\ Cleanup(p) /\ UNCHANGED faults
       \/ Fault /\ Cleanup(p)
    /\ UNCHANGED <<run, now, unclean, short>>

\* block_offset: the block itself, or any block.
Index(p) == IF Patterns[scenario[p]].random THEN 0..(blocks(opts[p]) - 1)
                                            ELSE {progress[p]}

\* Byte position after block k.
End(p, k) == k * opts[p].block_size + opts[p].block_size

\* write_all at a block, or read_exact, which fails at the end of the file.
ScenarioIo(p) ==
    /\ step[p] = "io" /\ progress[p] < blocks(opts[p])
    /\ \E k \in Index(p) :
         \/ /\ Patterns[scenario[p]].write
            /\ size' = Grown(fd[p], End(p, k))
            /\ progress' = [progress EXCEPT ![p] = @ + 1]
            /\ UNCHANGED <<entry, step, fd, scenario, result, reported, faults>>
         \/ /\ ~Patterns[scenario[p]].write /\ size[fd[p]] >= End(p, k)
            /\ progress' = [progress EXCEPT ![p] = @ + 1]
            /\ UNCHANGED <<disk, step, fd, scenario, result, reported, faults>>
         \/ /\ ~Patterns[scenario[p]].write /\ size[fd[p]] < End(p, k)
            /\ Cleanup(p) /\ UNCHANGED faults
         \/ Fault /\ Cleanup(p)
    /\ UNCHANGED <<run, now, unclean, short>>

\* The result is pushed and the file closed; flush may fail after writes.
ScenarioDone(p) ==
    /\ step[p] = "io" /\ progress[p] = blocks(opts[p])
    /\ \/ /\ Goto(p, "scenario")
          /\ scenario' = [scenario EXCEPT ![p] = @ + 1]
          /\ fd' = [fd EXCEPT ![p] = None]
          /\ UNCHANGED <<disk, progress, result, reported, faults>>
       \/ Patterns[scenario[p]].write /\ Fault /\ Cleanup(p)
    /\ UNCHANGED <<run, now, unclean, short>>

AllScenariosDone(p) ==
    /\ step[p] = "scenario" /\ scenario[p] > Len(Patterns)
    /\ Goto(p, "clean")
    /\ UNCHANGED <<run, disk, fd, progress, scenario, result, reported, now, faults,
                   unclean, short>>

-----------------------------------------------------------------------------
(* ffi_raw.rs run. *)

\* BlockFile::open creates but does not truncate.
RawOpen(p) ==
    /\ step[p] = "open" /\ p \in Raw
    /\ \/ Create(p) /\ Goto(p, "write")
          /\ UNCHANGED <<size, progress, scenario, result, reported, faults>>
       \/ Fault /\ Cleanup(p)
    /\ UNCHANGED <<run, now, unclean, short>>

RawWrite(p) ==
    /\ step[p] = "write" /\ progress[p] < blocks(opts[p])
    /\ \/ /\ size' = Grown(fd[p], End(p, progress[p]))
          /\ progress' = [progress EXCEPT ![p] = @ + 1]
          /\ UNCHANGED <<entry, step, fd, scenario, result, reported, faults>>
       \/ Fault /\ Cleanup(p)
    /\ UNCHANGED <<run, now, unclean, short>>

\* sync, then the read phase.
RawSync(p) ==
    /\ step[p] = "write" /\ progress[p] = blocks(opts[p])
    /\ \/ /\ Goto(p, "read") /\ progress' = [progress EXCEPT ![p] = 0]
          /\ UNCHANGED <<disk, fd, scenario, result, reported, faults>>
       \/ Fault /\ Cleanup(p)
    /\ UNCHANGED <<run, now, unclean, short>>

\* The number of bytes read is not looked at.
RawRead(p) ==
    /\ step[p] = "read" /\ progress[p] < blocks(opts[p])
    /\ \/ /\ progress' = [progress EXCEPT ![p] = @ + 1]
          /\ short' = IF size[fd[p]] < End(p, progress[p]) THEN short \cup {p} ELSE short
          /\ UNCHANGED <<disk, step, fd, scenario, result, reported, faults>>
       \/ Fault /\ Cleanup(p) /\ UNCHANGED short
    /\ UNCHANGED <<run, now, unclean>>

RawDone(p) ==
    /\ step[p] = "read" /\ progress[p] = blocks(opts[p])
    /\ Goto(p, "clean")
    /\ fd' = [fd EXCEPT ![p] = None]
    /\ UNCHANGED <<run, disk, progress, scenario, result, reported, now, faults,
                   unclean, short>>

-----------------------------------------------------------------------------

\* A failed run leaves its file for inspection.
MutantRemoveFile(p) ==
    /\ step[p] = "clean"
    /\ entry' = IF result[p] = None THEN [entry EXCEPT ![FileOf(p)] = None] ELSE entry
    /\ Goto(p, "end")
    /\ result' = [result EXCEPT ![p] = IF @ = None THEN "ok" ELSE @]
    /\ reported' = [reported EXCEPT ![p] = now]
    /\ UNCHANGED <<run, size, fd, progress, scenario, now, faults, unclean, short>>

\* remove_file by name, best effort; then the report, if there is one.
RemoveFile(p) ==
    /\ step[p] = "clean"
    /\ \/ entry' = [entry EXCEPT ![FileOf(p)] = None] /\ UNCHANGED <<faults, unclean>>
       \/ Fault /\ unclean' = unclean \cup {"remove"} /\ UNCHANGED entry
    /\ Goto(p, "end")
    /\ result' = [result EXCEPT ![p] = IF @ = None THEN "ok" ELSE @]
    /\ reported' = [reported EXCEPT ![p] = IF result[p] = None THEN now ELSE @]
    /\ UNCHANGED <<run, size, fd, progress, scenario, now, short>>

Tick == /\ now < MaxTime /\ now' = now + 1
        /\ UNCHANGED <<disk, run, step, fd, progress, scenario, result, reported,
                       faults, unclean, short>>

Run(p) == \/ \E o \in Options : Start(p, o)
          \/ PrepareOpen(p) \/ PrepareWrite(p) \/ PrepareDone(p)
          \/ OpenScenario(p) \/ ScenarioIo(p) \/ ScenarioDone(p)
          \/ AllScenariosDone(p)
          \/ RawOpen(p) \/ RawWrite(p) \/ RawSync(p) \/ RawRead(p) \/ RawDone(p)
          \/ RemoveFile(p)

BenchNext == (\E p \in Proc : Run(p)) \/ Tick

BenchSpec == BenchInit /\ [][BenchNext]_benchVars

-----------------------------------------------------------------------------
(* Properties *)

\* Every variable has its type; a run never prepares more bytes than the file
\* is to have, and no file grows beyond what some run asked for.
BenchTypeOK ==
    /\ entry \in [File -> Proc \cup {None}]
    /\ size \in [Proc -> Nat]
    /\ step \in [Proc -> {"new", "open", "prepare", "scenario", "io", "write",
                          "read", "clean", "end"}]
    /\ opts \in [Proc -> Options \cup {NoOptions}]
    /\ fd \in [Proc -> Proc \cup {None}]
    /\ progress \in [Proc -> Nat]
    /\ \A p \in Proc :
           /\ progress[p] <= opts[p].file_size
           /\ step[p] \in {"prepare", "io", "write", "read"} <=> fd[p] # None
           /\ step[p] \in {"io", "write", "read"} => progress[p] <= blocks(opts[p])
           /\ step[p] \in {"new", "open"} => progress[p] = 0
           /\ step[p] = "io" => scenario[p] <= Len(Patterns)
           /\ step[p] \notin {"new", "end"} => opts[p] \in Options /\ Valid(opts[p])
           /\ size[p] > 0 => \E o \in Options : size[p] <= o.file_size
    /\ scenario \in [Proc -> 1..(Len(Patterns) + 1)]
    /\ result \in [Proc -> {"ok", "err", None}]
    /\ now \in 0..MaxTime /\ faults \in 0..MaxFaults
    /\ unclean \subseteq {"prepare", "remove"} /\ short \subseteq Proc

\* A run that has its scratch file for itself and meets no I/O error succeeds:
\* no scenario reads past the end of what prepare_file wrote, for any file size,
\* and a raw run, which does not look at the count, never reads a partial block.
LoneRunSucceeds ==
    \A p \in Proc :
        (\A q \in Proc \ {p} : FileOf(q) = FileOf(p) => step[q] = "new")
        /\ faults = 0 =>
            /\ result[p] = "err" => ~Valid(opts[p])
            /\ p \notin short

\* When every run has ended no scratch file is left, although runs that share
\* one unlink each other's files, unless a clean-up was skipped or failed.
ScratchRemoved ==
    (\A p \in Proc : step[p] \in {"new", "end"}) /\ unclean = {} =>
        \A f \in File : entry[f] = None

-----------------------------------------------------------------------------
(* Claims of the documentation that the model refutes.  No run checks them; *)
(* with one as an INVARIANT of a configuration TLC shows how it fails.      *)

\* lib.rs run: the scratch file is "removed at the end (even on the error
\* path)".  Once every run has ended, none is left unless removing it failed.
ScratchRemovedOnEveryPath ==
    (\A p \in Proc : step[p] \in {"new", "end"}) /\ "remove" \notin unclean =>
        \A f \in File : entry[f] = None

\* bench.rs prints the report as "started @" started_at_unix.
StartedAtIsTheStart ==
    \A p \in Proc \ Raw : reported[p] # None => reported[p] = began[p]
=============================================================================
