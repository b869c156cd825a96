---------------------------- MODULE MCBruteForce ----------------------------
(* A small instance of BruteForce for TLC. *)
EXTENDS BruteForce, TLC

CONSTANTS s1, s2

\* The sources are interchangeable.
Symmetry == Permutations(Sources)
=============================================================================
