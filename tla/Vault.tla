------------------------------- MODULE Vault -------------------------------
(***************************************************************************)
(* What the quarantine promises about the contents of files: an infected   *)
(* content goes into the vault in one step and comes back in one step, and *)
(* it disappears only if it was released: its owner wrote over it, asked   *)
(* to delete it, had another one restored over it, or has it back.         *)
(***************************************************************************)
CONSTANT Contents

VARIABLES
    place,     \* where each content is
    released   \* the contents the vault may let go of

places == <<place, released>>

Init ==
    /\ place = [c \in Contents |-> "nowhere"]
    /\ released = {}

(* The owner lets a content go: it is written over, deleted, or another    *)
(* one is restored over it.  It may still be in the vault.  One that was   *)
(* written over while it was moved may be kept in its stead.               *)
Drop(c) ==
    /\ place[c] = "path"
    /\ \E to \in {"gone", "vault"} : place' = [place EXCEPT ![c] = to]
    /\ \/ released' = released \cup {c}
       \/ \E kept \in Contents :
             place[kept] = "vault" /\ released' = (released \cup {c}) \ {kept}

Write(c) ==
    /\ place[c] = "nowhere"
    /\ \/ /\ place' = [place EXCEPT ![c] = "path"]
          /\ UNCHANGED released
       \/ \E old \in Contents, to \in {"gone", "vault"} :
             /\ place[old] = "path"
             /\ place' = [place EXCEPT ![c] = "path", ![old] = to]
             /\ released' = released \cup {old}

Put(c) ==
    /\ place[c] = "path"
    /\ place' = [place EXCEPT ![c] = "vault"]
    /\ released' = released \ {c}

Return(c) ==
    /\ place[c] = "vault"
    /\ place' = [place EXCEPT ![c] = "path"]
    /\ released' = released \cup {c}

Release(c) ==
    /\ released' = released \cup {c}
    /\ UNCHANGED place

Keep(c) ==
    /\ place[c] = "vault"
    /\ released' = released \ {c}
    /\ UNCHANGED place

Discard(S) ==
    /\ S \subseteq released
    /\ \A c \in S : place[c] = "vault"
    /\ place' = [c \in Contents |-> IF c \in S THEN "gone" ELSE place[c]]
    /\ UNCHANGED released

Next ==
    \/ \E c \in Contents :
          Write(c) \/ Drop(c) \/ Put(c) \/ Return(c) \/ Release(c) \/ Keep(c)
    \/ \E S \in SUBSET Contents : Discard(S)

Spec == Init /\ [][Next]_places
=============================================================================
