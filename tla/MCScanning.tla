----------------------------- MODULE MCScanning -----------------------------
(* Small instances of Scanning for TLC. *)
EXTENDS Scanning, TLC

CONSTANTS n1, n2, f1, f2, w1, w2

(* Up to renaming paths and inodes: two files, or one and a free path. *)
MCDirs == {(n1 :> f1) @@ (n2 :> f2), (n1 :> f1) @@ (n2 :> NoFile)}

=============================================================================
