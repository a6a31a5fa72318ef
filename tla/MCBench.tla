------------------------------ MODULE MCBench -------------------------------
(***************************************************************************)
(* Instances of Bench for TLC.                                             *)
(***************************************************************************)
EXTENDS Bench

\* No block size, less than a block, one block that is not a whole number of
\* chunks, and two blocks with a rest.
MCOptions == {[block_size |-> 0, file_size |-> 1],
              [block_size |-> 2, file_size |-> 1],
              [block_size |-> 3, file_size |-> 3],
              [block_size |-> 2, file_size |-> 5]}

\* A sequential read, a random write and a random read.
MCPatterns == <<[write |-> FALSE, random |-> FALSE],
                [write |-> TRUE, random |-> TRUE],
                [write |-> FALSE, random |-> TRUE]>>
=============================================================================
