------------------------------- MODULE MCFeeds -------------------------------
(* A small instance of Feeds for TLC: two mounts that may bear a mark and  *)
(* one that may not; a log, a document and an excluded file in a directory *)
(* of the first, a database in one of the second that itself bears an      *)
(* excluded extension.                                                     *)
EXTENDS Feeds, TLC

CONSTANTS home, images, log, doc, db, blob

Root == [point |-> "/", fs |-> "ext4"]
Data == [point |-> "/data", fs |-> "ext4"]
Proc == [point |-> "/proc", fs |-> "ext4"]
MCMounts == {Root, Data, Proc}
MCDirOf == blob :> home @@ log :> home @@ doc :> home @@ db :> images
MCMountOf == home :> Root @@ images :> Data
Paths == Files \cup Dirs \cup {"/", "/data", "/proc"}
MCAbove == [p \in Paths |-> {"/", p} \cup (IF p = blob THEN {"/vault"} ELSE {})]
MCExt == [p \in Paths |-> IF p = images THEN "img" ELSE "other"]
MCTraits == blob :> {} @@ log :> {"churn"} @@ doc :> {"media"} @@ db :> {"churn", "bin"}
==============================================================================
