----------------------------- MODULE WorkLedger -----------------------------
(***************************************************************************)
(* What the scan queue promises its callers, without saying where a path   *)
(* waits: a path that is handed over is work until a worker serves it, a   *)
(* restart keeps all the work except what a worker had taken out of the    *)
(* store and not yet served, and only a crash may lose more.               *)
(***************************************************************************)
EXTENDS Naturals

CONSTANTS Paths, NoPath, Workers

VARIABLES
    work,       \* the paths waiting to be scanned
    lost,       \* the ones among them that were overlooked
    borrowed,   \* the ones among them that a worker took out of the store
    serving,    \* the path each worker is scanning
    open,       \* the service is running
    epoch       \* how often it was started

ledger == <<work, lost, borrowed, serving, open, epoch>>

Init ==
    /\ work = {}
    /\ lost = {}
    /\ borrowed = {}
    /\ serving = [w \in Workers |-> NoPath]
    /\ open = TRUE
    /\ epoch = 1

(* New work; a path that is work already is the same work.                 *)
Accept(S) ==
    /\ open
    /\ work' = work \cup S
    /\ UNCHANGED <<lost, borrowed, serving, open, epoch>>

(* A worker starts on a path; a second copy of it may stay behind.         *)
Serve(w, p) ==
    /\ open
    /\ serving[w] = NoPath
    /\ p \in work
    /\ serving' = [serving EXCEPT ![w] = p]
    /\ work' \in {work, work \ {p}}
    /\ borrowed' \subseteq borrowed
    /\ UNCHANGED <<lost, open, epoch>>

Finish(w) ==
    /\ open
    /\ serving[w] # NoPath
    /\ serving' = [serving EXCEPT ![w] = NoPath]
    /\ UNCHANGED <<work, lost, borrowed, open, epoch>>

Borrow(S) ==
    /\ open
    /\ S \subseteq work
    /\ borrowed' = borrowed \cup S
    /\ UNCHANGED <<work, lost, serving, open, epoch>>

GiveBack ==
    /\ open
    /\ borrowed' \subseteq borrowed
    /\ UNCHANGED <<work, lost, serving, open, epoch>>

(* Work that is overlooked is nobody's any more. It is written off when    *)
(* the service winds up, and new work is noted down.                       *)
Overlook(S) ==
    /\ open
    /\ S \subseteq work
    /\ lost' = lost \cup S
    /\ UNCHANGED <<work, borrowed, serving, open, epoch>>

WriteOff(S) ==
    /\ open
    /\ (work \ lost) \cup S \subseteq work' /\ work' \subseteq work \cup S
    /\ lost' = {}
    /\ UNCHANGED <<borrowed, serving, open, epoch>>

Close ==
    /\ open
    /\ open' = FALSE
    /\ serving = [w \in Workers |-> NoPath]
    /\ UNCHANGED <<work, lost, borrowed, serving, epoch>>

Begin ==
    /\ lost' = {}
    /\ borrowed' = {}
    /\ serving' = [w \in Workers |-> NoPath]
    /\ open' = TRUE
    /\ epoch' = epoch + 1

Reopen == ~open /\ work \ borrowed \subseteq work' /\ work' \subseteq work /\ Begin

Crash == open /\ work' \subseteq work /\ Begin

Next ==
    \/ \E S \in SUBSET Paths : Accept(S) \/ Borrow(S) \/ Overlook(S) \/ WriteOff(S)
    \/ \E w \in Workers, p \in Paths : Serve(w, p)
    \/ \E w \in Workers : Finish(w)
    \/ GiveBack
    \/ Close
    \/ Reopen
    \/ Crash

Spec == Init /\ [][Next]_ledger
=============================================================================
