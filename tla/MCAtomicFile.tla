--------------------------- MODULE MCAtomicFile ---------------------------
(***************************************************************************)
(* AtomicFile with a few calls that replace the same file.                 *)
(***************************************************************************)
EXTENDS AtomicFile, TLC

Symmetry == Permutations(Writer)

=============================================================================
