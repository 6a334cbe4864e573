---- MODULE MCQuarantine ----
(* Instances of Quarantine for TLC. *)
EXTENDS Quarantine, TLC

CONSTANTS p1, p2, s1, s2, k1, k2

Symmetry == Permutations(Scanners) \cup Permutations(Clients)
====
