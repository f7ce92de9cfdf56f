-------------------------------- MODULE MCFs --------------------------------
(* Small disks for Fs. *)
EXTENDS Fs, TLC

CONSTANTS fileA, fileB, fileC

Symmetry == Permutations(Client) \cup Permutations({fileB, fileC})

OneFile == <<[name |-> fileA, size |-> 1]>>

\* No page for an open file; none for a block (a request on a file without index
\* block needs at most one).
PageOrBlock == {{0}, Blk}
=============================================================================
