---- MODULE MCSettings ----
(* Instances of Settings for TLC. *)
EXTENDS Settings, TLC

MCRaw == {"/proc", "~/vm", " ~/vm", "", "vm"}
MCTrim == [r \in MCRaw |-> IF r = " ~/vm" THEN "~/vm" ELSE r]
MCBuiltins == <<"/proc">>
MCLists == {<<"~/vm", "", " ~/vm">>, <<"vm">>}
ClientSymmetry == Permutations(Clients)

(* The loops of normalize_settings and restore_builtins, entry by entry, and *)
(* that Normal and Restored compute what they do.                            *)
LoopNormal(list) ==
    LET Keep(kept, r) == IF Trim[r] \in Blank \/ Contains(kept, Trim[r])
                         THEN kept ELSE Append(kept, Trim[r])
    IN  FoldLeft(Keep, <<>>, list)
LoopRestored(list) == list \o SelectSeq(Builtins, LAMBDA b : ~Contains(list, b))

ASSUME LoopsAgree ==
    \A list \in BoundedSeq(Raw, 3) :
        Normal(list) = LoopNormal(list) /\ Restored(list) = LoopRestored(list)
====
