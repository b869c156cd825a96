----------------------------- MODULE MCHoneyPot -----------------------------
(* A small instance of HoneyPot for TLC. *)
EXTENDS HoneyPot, TLC

CONSTANTS c1, c2, c3, c4, ftp, ssh, s1, s2

\* Connections are interchangeable.
Symmetry == Permutations(Conns)
=============================================================================
