--------------------------- MODULE MCRenewalLock ---------------------------
(***************************************************************************)
(* RenewalLock with a few runs of the program on a machine with a few      *)
(* process identifiers.                                                    *)
(***************************************************************************)
EXTENDS RenewalLock, TLC

Symmetry == Permutations(Proc) \union Permutations(Pid)

=============================================================================
