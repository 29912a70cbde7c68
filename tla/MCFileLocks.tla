----------------------------- MODULE MCFileLocks -----------------------------
(* Instances of FileLocks for TLC. *)
EXTENDS FileLocksProps, TLC

Symmetry == Permutations(Procs)
=============================================================================
