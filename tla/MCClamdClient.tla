---- MODULE MCClamdClient ----
(* Small instances of ClamdClient for TLC. *)
EXTENDS ClamdClient

MCSizes == {1, 2, 3}
====
