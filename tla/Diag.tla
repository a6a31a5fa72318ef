------------------------------- MODULE Diag ---------------------------------
(***************************************************************************)
(* hpc-diag: one collection of a diagnostic bundle (lib.rs, proc.rs,       *)
(* report.rs) and its writing to the output file (main.rs).                *)
(*                                                                         *)
(* What makes it hard: the five sources are read one after the other while *)
(* the machine goes on changing, any of them may be missing, a source that *)
(* can be read may still lack what is asked of it, and the heuristics see  *)
(* only what the parsers made of all that.                                 *)
(*                                                                         *)
(* A file is what its lines say: /proc/meminfo is a function from its keys *)
(* to numbers, a table is a sequence of rows some of which are malformed,  *)
(* /proc/version is a pair of numbers or a banner without one.             *)
(*                                                                         *)
(* Definitions named Mutant... are deliberate mistakes, each just before   *)
(* the definition it would replace; the specification never uses one.      *)
(***************************************************************************)
EXTENDS Integers, SequencesExt

CONSTANTS
    MemInfos,    \* contents of /proc/meminfo: key -> number, of some keys
    Rows,        \* rows of /proc/diskstats and /proc/net/dev
    MountRows,   \* rows of /proc/mounts: point, fs, ro
    Versions,    \* versions of the kernel, <<major, minor>>
    MaxRows,     \* bound on the rows of a table
    Contributed, \* the reports that the caller passes in
    Malformed,   \* a row with too few columns, a banner without a release
    Missing      \* a file that cannot be read; no bundle; no exit code

ASSUME DiagAssumption == Contributed \in Seq(ToSet(Contributed))

Sources == <<"meminfo", "diskstats", "net_dev", "mounts", "version">>
Source == ToSet(Sources)

Tables(rows) == SeqOf(rows \cup {Malformed}, MaxRows)

\* What each source may contain.
Contents(s) ==
    {Missing} \cup
    CASE s = "meminfo" -> MemInfos
      [] s = "mounts" -> Tables(MountRows)
      [] s = "version" -> Versions \cup {Malformed}
      [] OTHER -> Tables(Rows)

VARIABLES
    todo,      \* the sources still to be read
    stage,     \* collect, write, done
    bundle,    \* source -> its field of the bundle
    reports,   \* the other two fields
    anomalies,
    output,    \* the output file: Missing, "old", "partial" or "whole"
    exit,      \* the exit code, Missing while hpc-diag runs
    seen       \* ghost: source -> what was read of it

fields == <<bundle, reports, anomalies>>
diagVars == <<todo, stage, fields, output, exit, seen>>

DiagInit ==
    /\ todo = Sources /\ stage = "collect"
    /\ bundle = [s \in Source |-> Missing]
    /\ reports = Contributed /\ anomalies = {}
    /\ output \in {Missing, "old"} /\ exit = Missing
    /\ seen = [s \in Source |-> Missing]

-----------------------------------------------------------------------------
(* The parsers. *)

MemKey == {"MemTotal", "MemAvailable", "SwapTotal"}

\* A key that is not there counts as zero.
parse_meminfo(f) == [k \in MemKey |-> IF k \in DOMAIN f THEN f[k] ELSE 0]

\* parse_diskstats, parse_net_dev, parse_mounts: malformed rows are skipped.
parse_rows(f) == SelectSeq(f, LAMBDA r : r # Malformed)

\* The field of the bundle for what was read of a source.
Parsed(s, f) ==
    CASE s = "meminfo" -> parse_meminfo(f)
      [] s = "version" -> f
      [] OTHER -> parse_rows(f)

\* A file that cannot be read is taken for an empty one.
MutantDefault(s) ==
    CASE s = "meminfo" -> [k \in MemKey |-> 0]
      [] s = "version" -> Malformed
      [] OTHER -> <<>>

\* What stands for a source that cannot be read.
Default(s) ==
    CASE s = "meminfo" -> Missing
      [] s = "version" -> Malformed
      [] OTHER -> <<>>

unavailable(s) == [severity |-> "warning", kind |-> "collector_unavailable",
                   source |-> s]

\* Only the last failure is kept.
MutantWithUnavailable(s) == Append(Contributed, unavailable(s))

WithUnavailable(s) == Append(reports, unavailable(s))

\* The next source is read.  Between two readings the
\* machine may have become any other.
collect_with_reports ==
    /\ stage = "collect" /\ todo # <<>>
    /\ LET s == Head(todo)
       IN  \E f \in Contents(s) :
               /\ seen' = [seen EXCEPT ![s] = f]
               /\ IF f = Missing
                  THEN /\ bundle' = [bundle EXCEPT ![s] = Default(s)]
                       /\ reports' = WithUnavailable(s)
                  ELSE /\ bundle' = [bundle EXCEPT ![s] = Parsed(s, f)]
                       /\ UNCHANGED reports
    /\ todo' = Tail(todo)
    /\ UNCHANGED <<stage, anomalies, output, exit>>

-----------------------------------------------------------------------------
(* detect_anomalies. *)

Ephemeral == {"tmpfs", "ramfs", "overlay", "devtmpfs"}

Anomaly(category, detail) == [category |-> category, detail |-> detail]

\* available_fraction() < 0.10; of no memory the fraction is 0.
FractionBelowTenth(mem) ==
    mem["MemTotal"] = 0 \/ mem["MemAvailable"] * 10 < mem["MemTotal"]

\* The categories that hold of the machine as a whole.
Conditions(mem, kernel, filesystems) ==
    {c \in {"memory_pressure", "no_swap", "old_kernel",
            "heterogeneous_filesystems"} :
        CASE c = "memory_pressure" ->
                 /\ mem # Missing /\ mem["MemTotal"] > 0
                 /\ FractionBelowTenth(mem)
          [] c = "no_swap" -> mem # Missing /\ mem["SwapTotal"] = 0
          [] c = "old_kernel" ->
                 /\ kernel # Malformed
                 /\ \/ kernel[1] < 5
                    \/ kernel[1] = 5 /\ kernel[2] < 1
          [] c = "heterogeneous_filesystems" -> Cardinality(filesystems) > 1}

detect_anomalies(mem, kernel, mounts) ==
    {Anomaly(c, "machine") :
        c \in Conditions(mem, kernel, {m.fs : m \in ToSet(mounts)})}
    \cup {Anomaly("ephemeral_state_dir", m.point) :
            m \in {r \in ToSet(mounts) : r.fs \in Ephemeral /\ r.point = "/var"}}
    \cup {Anomaly("root_read_only", m.point) :
            m \in {r \in ToSet(mounts) : r.ro /\ r.point = "/"}}

Detect ==
    /\ stage = "collect" /\ todo = <<>>
    /\ stage' = "write"
    /\ anomalies' = detect_anomalies(bundle["meminfo"], bundle["version"],
                                     bundle["mounts"])
    /\ UNCHANGED <<todo, bundle, reports, output, exit, seen>>

-----------------------------------------------------------------------------
(* run_collect: std::fs::write, which truncates the file and then fills it.  *)

Finish(file, code) ==
    /\ stage = "write" /\ stage' = "done"
    /\ output' = file /\ exit' = code
    /\ UNCHANGED <<todo, fields, seen>>

Write ==
    \/ Finish("whole", 0)
    \/ Finish(output, 1)    \* the file cannot be opened
    \/ Finish("partial", 1) \* the disk is full

DiagNext == collect_with_reports \/ Detect \/ Write

DiagSpec == DiagInit /\ [][DiagNext]_diagVars

-----------------------------------------------------------------------------
(* Properties *)

\* Every variable has its type; a malformed row never reaches the bundle.
DiagTypeOK ==
    /\ IsSuffix(todo, Sources)
    /\ stage \in {"collect", "write", "done"}
    /\ \A s \in {"diskstats", "net_dev"} \ ToSet(todo) :
           bundle[s] \in SeqOf(Rows, MaxRows)
    /\ "mounts" \in ToSet(todo) \/ bundle["mounts"] \in SeqOf(MountRows, MaxRows)
    /\ \/ bundle["meminfo"] = Missing
       \/ bundle["meminfo"] \in [MemKey -> Nat]
    /\ bundle["version"] \in Versions \cup {Malformed, Missing}
    /\ output \in {Missing, "old", "partial", "whole"}
    /\ exit \in {Missing, 0, 1}

\* Which of the first k sources could not be read.
Failed(k) == {j \in 1..k : seen[Sources[j]] = Missing}

\* lib.rs: "Each collector that fails is recorded as a Warning report inside
\* the bundle".  After any number of readings the reports are those of the
\* caller followed by one for each source that could not be read, in the order
\* of reading and no other.
ReportsAreExact ==
    LET read == Len(Sources) - Len(todo)
        given == Len(Contributed)
    IN  /\ Len(reports) = given + Cardinality(Failed(read))
        /\ \A i \in 1..given : reports[i] = Contributed[i]
        /\ \A k \in Failed(read) :
               reports[given + Cardinality(Failed(k))] = unavailable(Sources[k])

\* The source a category is inferred from.
Basis(category) ==
    CASE category \in {"memory_pressure", "no_swap"} -> "meminfo"
      [] category = "old_kernel" -> "version"
      [] OTHER -> "mounts"

\* The bundle never contradicts itself: nothing is inferred from a source that
\* the same collection reports as unavailable, and although a key that is missing
\* counts as zero, no pressure is inferred for a memory of unknown size (lib.rs
\* collect_with_reports, proc.rs parse_meminfo, report.rs detect_anomalies).
NothingInferredFromNothing ==
    \A a \in anomalies :
        /\ \A i \in DOMAIN reports :
               i > Len(Contributed) => reports[i] # unavailable(Basis(a.category))
        /\ a.category = "memory_pressure" => "MemTotal" \in DOMAIN seen["meminfo"]

-----------------------------------------------------------------------------
(* Claims of the documentation that the model refutes.  No run checks them; *)
(* with one as an INVARIANT of a configuration TLC shows how it fails.      *)

\* lib.rs: the bundle describes "exactly what it could and could not observe".
\* Memory pressure is flagged when the kernel said how much is available.
PressureWasObserved ==
    Anomaly("memory_pressure", "machine") \in anomalies
        => "MemAvailable" \in DOMAIN seen["meminfo"]
=============================================================================
