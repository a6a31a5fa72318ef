------------------------------- MODULE MCWire -------------------------------
(***************************************************************************)
(* Wire for TLC: every combination of the fields of a command, and samples *)
(* on either side of every boundary, in halves (Unit = 2).                 *)
(***************************************************************************)
EXTENDS Wire

Limit(l) == [cpu |-> l, memory |-> l, disk |-> l, load_per_core |-> l]
MCLimits == {Limit(-1), Limit(0), Limit(1), Limit(2), Limit(3)}

MCNodeInfo == {[role |-> "Unspecified", cpu_cores |-> 0],
               [role |-> "Storage", cpu_cores |-> 1],
               [role |-> "Compute", cpu_cores |-> 2],
               [role |-> "Metadata", cpu_cores |-> 1],
               [role |-> "Gateway", cpu_cores |-> 1]}

\* No memory at all, free, half used, full; the kernel's own share is neither.
MCMemory == {[total |-> 0, used |-> 0, available |-> 0],
             [total |-> 4, used |-> 0, available |-> 3],
             [total |-> 4, used |-> 2, available |-> 1],
             [total |-> 4, used |-> 4, available |-> 0]}

\* A pseudo file system, full, half full, and one that claims more space than it
\* has; each beside a disk that is a third full.
MCDisk == {[total |-> 0, available |-> 0], [total |-> 2, available |-> 0],
           [total |-> 2, available |-> 1], [total |-> 2, available |-> 3]}

MCReading == [cpu : 0..2, memory : MCMemory, load : 0..2,
              disks : {<<>>} \cup {<<[total |-> 3, available |-> 2], d>> : d \in MCDisk},
              rest : {"x"}]

MCPbReport == [cpu : {<<>>, <<2>>}, load : {<<>>, <<2>>},
               memory : {<<>>, <<[total |-> 4, used |-> 4, available |-> 0]>>},
               disks : {<<>>, <<[total |-> 2, available |-> 0]>>},
               rest : {<<>>, <<"x">>}]
=============================================================================
