------------------------------- MODULE MCDiag -------------------------------
(***************************************************************************)
(* Instances of Diag for TLC.  A mount point that starts with /var is      *)
(* "/var".                                                                 *)
(***************************************************************************)
EXTENDS Diag
MCRows == {"eth0"}
MCMountRows == {[point |-> "/", fs |-> "ext4", ro |-> TRUE],
                [point |-> "/", fs |-> "overlay", ro |-> FALSE],
                [point |-> "/var", fs |-> "tmpfs", ro |-> FALSE]}
MCVersions == {<<4, 19>>, <<5, 0>>, <<5, 1>>, <<6, 5>>}

\* 20 units of memory: with a twentieth, a tenth and a half available.
MCMem(available, swap) ==
    [MemTotal |-> 20, MemAvailable |-> available, SwapTotal |-> swap]
MCMemInfos == {MCMem(1, 0), MCMem(2, 4), MCMem(10, 4)}

\* With a kernel that has no MemAvailable, and an empty file.
MCOldMemInfos == MCMemInfos \cup {[MemTotal |-> 20, SwapTotal |-> 4], <<>>}
MCContributed == <<[severity |-> "error", kind |-> "grpc_disconnect",
                    source |-> "hpc-daemon"]>>
=============================================================================
