------------------------------ MODULE MCVault ------------------------------
(* A small instance of Vault for TLC. *)
EXTENDS Vault, TLC

CONSTANTS p1, p2, p3

\* The runs of the tool are interchangeable.
Symmetry == Permutations(Procs)
=============================================================================
