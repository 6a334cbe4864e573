---- MODULE MCServing ----
(* Instances of Serving for TLC. *)
EXTENDS Serving, TLC

CONSTANTS c1, c2, w1
====
