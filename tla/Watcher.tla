------------------------------ MODULE Watcher ------------------------------
(***************************************************************************)
(* The life of the real-time watcher: `sync_realtime` and `stop_realtime`  *)
(* of server.rs, the signal thread of main.rs, `Handle::stop`, the watchdog *)
(* of `start`, `spawn_watcher` and the loop of `run` in realtime.rs, and    *)
(* the kernel's side of fanotify: a program that is executed while a group *)
(* is open waits until that group answers or is closed.                    *)
(*                                                                         *)
(* A handle is one start; a generation is one fanotify group with its      *)
(* threads, of which a handle may have several, one after the other.       *)
(***************************************************************************)
EXTENDS Integers, FiniteSets

CONSTANTS
    Callers,           \* connections that change the settings
    Signal,            \* the thread that waits for SIGTERM
    None,              \* no handle, no generation, no lock holder
    MAX_RESTARTS,      \* MAX_WATCHER_RESTARTS
    MaxHandles,        \* bound: starts
    MaxGenerations,    \* bound: fanotify groups
    MaxExecs,          \* bound: executions of programs
    MaxFaults          \* bound: stalls, read errors, failing restarts

ASSUME NoneAssumption == None \notin Callers \cup {Signal} \cup Nat
ASSUME CallerAssumption == Signal \notin Callers
ASSUME BoundAssumption ==
    {MAX_RESTARTS, MaxHandles, MaxGenerations, MaxExecs, MaxFaults} \subseteq Nat

Handles == 1..MaxHandles
Generations == 1..MaxGenerations
Threads == Callers \cup {Signal}

VARIABLES
    slot,      \* Daemon::realtime: the handle in the slot
    slotLock,  \* who holds the mutex of the slot
    handle,    \* per handle: stop flag, inner slot, its mutex, the note
    dog,       \* per handle: the watchdog's control point, restarts, generation
    gen,       \* per generation: its handle, fanotify group, intake thread
    waits,     \* the generations whose group holds up a program
    sweeps,    \* the generations with a catch-up sweep asked for or running
    muted,     \* history: handles whose note that they failed open was
               \* written over by a generation
    caller,    \* per thread: control point, handle, generation, setting
    used,      \* handles, generations, executions and faults so far
    down       \* the process has exited

note == <<sweeps, muted>>
vars == <<slot, slotLock, handle, dog, gen, waits, sweeps, muted, caller, used, down>>

NoHandle == [stop |-> FALSE, inner |-> None, lock |-> None, note |-> "none"]
NoDog == [at |-> "none", restarts |-> 0, old |-> None]
NoGen == [handle |-> None, fd |-> "none", intake |-> "none"]
IdleCaller == [at |-> "idle", handle |-> None, old |-> None, enabled |-> FALSE]

Init ==
    /\ slot = None
    /\ slotLock = None
    /\ handle = [h \in Handles |-> NoHandle]
    /\ dog = [h \in Handles |-> NoDog]
    /\ gen = [g \in Generations |-> NoGen]
    /\ waits = {}
    /\ sweeps = {}
    /\ muted = {}
    /\ caller = [t \in Threads |-> IdleCaller]
    /\ used = [handles |-> 0, gens |-> 0, execs |-> 0, faults |-> 0]
    /\ down = FALSE

Faulty == used.faults < MaxFaults /\ used' = [used EXCEPT !.faults = @ + 1]

(* FanFd::close: idempotent; the kernel lets every held-up program run.    *)
Closed(g) == [gen EXCEPT ![g].fd = "closed"]
CloseFd(g) == gen' = Closed(g) /\ waits' = waits \ {g}

(* spawn_watcher: a marked group and its threads, for handle h.            *)
Spawned(h) == [gen EXCEPT ![used.gens + 1] =
                  [handle |-> h, fd |-> "open", intake |-> "reading"]]

-----------------------------------------------------------------------------
(* Programs and the intake thread.                                         *)

(* A program is executed: every open group holds it up.                    *)
Exec ==
    /\ ~down /\ used.execs < MaxExecs
    /\ used' = [used EXCEPT !.execs = @ + 1]
    /\ waits' = waits \cup {g \in Generations : gen[g].fd = "open"}
    /\ UNCHANGED <<slot, slotLock, handle, dog, gen, caller, down, note>>

(* The loop of run looks at the stop flag and the descriptor once a turn.  *)
Reads(g) ==
    /\ gen[g].intake = "reading"
    /\ gen[g].fd = "open"
    /\ ~handle[gen[g].handle].stop

Answer(g) ==
    /\ Reads(g)
    /\ g \in waits
    /\ waits' = waits \ {g}
    /\ UNCHANGED <<slot, slotLock, handle, dog, gen, caller, used, down, note>>

(* No turn of the loop for more than WATCHDOG_STALL, or never again.       *)
Stall(g) ==
    /\ gen[g].intake = "reading"
    /\ Faulty
    /\ \E how \in {"stuck", "hung"} : gen' = [gen EXCEPT ![g].intake = how]
    /\ UNCHANGED <<slot, slotLock, handle, dog, waits, caller, down, note>>

Recover(g) ==
    /\ gen[g].intake = "stuck"
    /\ gen' = [gen EXCEPT ![g].intake = "reading"]
    /\ UNCHANGED <<slot, slotLock, handle, dog, waits, caller, used, down, note>>

(* The end of run begins with closing the descriptor.                      *)
Leave(g) ==
    /\ gen[g].intake = "reading"
    /\ \/ ~Reads(g) /\ UNCHANGED used
       \/ Faulty
    /\ gen' = [Closed(g) EXCEPT ![g].intake = "leaving"]
    /\ waits' = waits \ {g}
    /\ UNCHANGED <<slot, slotLock, handle, dog, caller, down, note>>

(* The helpers, the sweep cut short, and the workers are joined, queue and *)
(* cache saved.                                                            *)
WindUp(g) ==
    /\ gen[g].intake = "leaving"
    /\ gen' = [gen EXCEPT ![g].intake = "ended"]
    /\ sweeps' = sweeps \ {g}
    /\ UNCHANGED <<slot, slotLock, handle, dog, waits, caller, used, down, muted>>

-----------------------------------------------------------------------------
(* The note of a handle (`status_note`) is written by its watchdog, and by *)
(* the intake and the sweep thread of every generation the handle has had. *)
(* The status shows it as long as the handle is in the slot; of a handle   *)
(* that has been told to stop it is not kept here.                         *)

Shown(g) == ~handle[gen[g].handle].stop
Noted(h, text) == [handle[h] EXCEPT !.note = IF handle[h].stop THEN @ ELSE text]
Notes(h, text) == handle' = [handle EXCEPT ![h] = Noted(h, text)]
WritesOver(h, text) ==
    /\ Notes(h, text)
    /\ muted' = muted \cup {x \in {h} : handle[x].note = "failed open"}

(* note_overflow: the kernel dropped events, a sweep is asked for.         *)
Overflow(g) ==
    /\ Reads(g)
    /\ sweeps' = sweeps \cup {g}
    /\ WritesOver(gen[g].handle, "overflow")
    /\ UNCHANGED <<slot, slotLock, dog, gen, waits, caller, used, down>>

(* The end of run_catchup: it looks whether to exit, then clears the note. *)
(* Another sweep may have been asked for since it began.                   *)
SweepEnds(g) ==
    /\ g \in sweeps /\ Shown(g)
    /\ gen[g].intake \in {"reading", "stuck", "hung", "leaving"}
    /\ sweeps' \in {sweeps, sweeps \ {g}}
    /\ WritesOver(gen[g].handle, "none")
    /\ UNCHANGED <<slot, slotLock, dog, gen, waits, caller, used, down>>

-----------------------------------------------------------------------------
(* The watchdog of handle h.                                               *)

DogAt(h, at) == dog' = [dog EXCEPT ![h].at = at]

(* The heartbeat of the generation is older than WATCHDOG_STALL.           *)
MustSeeStale(g) == gen[g].intake \in {"stuck", "hung", "ended"}
MaySeeStale(g) == MustSeeStale(g) \/ gen[g].intake = "leaving"

NeverEnds(h) ==
    /\ dog[h].at = "sleep"
    /\ DogAt(h, "check")
    /\ UNCHANGED <<slot, slotLock, handle, gen, waits, caller, used, down, note>>

DogWakes(h) ==
    /\ dog[h].at = "sleep"
    /\ DogAt(h, IF handle[h].stop THEN "ended" ELSE "check")
    /\ UNCHANGED <<slot, slotLock, handle, gen, waits, caller, used, down, note>>

DogSeesHealthy(h) ==
    /\ dog[h].at = "check"
    /\ handle[h].lock = None
    /\ handle[h].inner # None => ~MustSeeStale(handle[h].inner)
    /\ DogAt(h, "sleep")
    /\ \/ UNCHANGED handle
       \/ handle[h].note = "restarted" /\ Notes(h, "none")
    /\ UNCHANGED <<slot, slotLock, gen, waits, caller, used, down, note>>

DogSeesStall(h) ==
    /\ dog[h].at = "check"
    /\ handle[h].lock = None
    /\ handle[h].inner # None /\ MaySeeStale(handle[h].inner)
    /\ dog' = [dog EXCEPT ![h].at = IF dog[h].restarts < MAX_RESTARTS
                                    THEN "take" ELSE "fail",
                          ![h].restarts = @ + 1]
    /\ UNCHANGED <<slot, slotLock, handle, gen, waits, caller, used, down, note>>

(* Too many restarts: the note, and the generation out of the slot, with   *)
(* its group and its threads as they are.                                  *)
DogGivesUp(h) ==
    /\ dog[h].at = "fail"
    /\ handle[h].lock = None
    /\ handle' = [handle EXCEPT ![h] = [Noted(h, "failed open") EXCEPT !.inner = None]]
    /\ DogAt(h, "ended")
    /\ UNCHANGED <<slot, slotLock, gen, waits, caller, used, down, note>>

TakesUnclosed(h) ==
    /\ dog[h].at = "take"
    /\ handle[h].lock = None
    /\ handle' = [handle EXCEPT ![h].inner = None]
    /\ dog' = [dog EXCEPT ![h].at = IF handle[h].inner = None THEN "spawn" ELSE "join",
                          ![h].old = handle[h].inner]
    /\ UNCHANGED <<slot, slotLock, gen, waits, caller, used, down, note>>

DogTakes(h) ==
    /\ dog[h].at = "take"
    /\ handle[h].lock = None
    /\ handle' = [handle EXCEPT ![h].inner = None]
    /\ dog' = [dog EXCEPT ![h].at = IF handle[h].inner = None THEN "spawn" ELSE "close",
                          ![h].old = handle[h].inner]
    /\ UNCHANGED <<slot, slotLock, gen, waits, caller, used, down, note>>

DogCloses(h) ==
    /\ dog[h].at = "close"
    /\ CloseFd(dog[h].old)
    /\ DogAt(h, "join")
    /\ UNCHANGED <<slot, slotLock, handle, caller, used, down, note>>

DogDetaches(h) ==
    /\ dog[h].at = "join"
    /\ dog' = [dog EXCEPT ![h].at = "spawn", ![h].old = None]
    /\ UNCHANGED <<slot, slotLock, handle, gen, waits, caller, used, down, note>>

DogJoins(h) ==
    /\ dog[h].at = "join"
    /\ gen[dog[h].old].intake = "ended"
    /\ dog' = [dog EXCEPT ![h].at = "spawn", ![h].old = None]
    /\ UNCHANGED <<slot, slotLock, handle, gen, waits, caller, used, down, note>>

DogSpawns(h) ==
    /\ dog[h].at = "spawn"
    /\ used.gens < MaxGenerations
    /\ gen' = Spawned(h)
    /\ used' = [used EXCEPT !.gens = @ + 1]
    /\ dog' = [dog EXCEPT ![h].at = "store", ![h].old = used.gens + 1]
    /\ UNCHANGED <<slot, slotLock, handle, waits, caller, down, note>>

EndsSilently(h) ==
    /\ dog[h].at = "spawn"
    /\ Faulty
    /\ DogAt(h, "ended")
    /\ UNCHANGED <<slot, slotLock, handle, gen, waits, caller, down, note>>

DogCannotSpawn(h) ==
    /\ dog[h].at = "spawn"
    /\ Faulty
    /\ Notes(h, "failed open")
    /\ DogAt(h, "ended")
    /\ UNCHANGED <<slot, slotLock, gen, waits, caller, down, note>>

DogStores(h) ==
    /\ dog[h].at = "store"
    /\ handle[h].lock = None
    /\ handle' = [handle EXCEPT ![h] = [Noted(h, "restarted") EXCEPT !.inner = dog[h].old]]
    /\ dog' = [dog EXCEPT ![h].at = "sleep", ![h].old = None]
    /\ UNCHANGED <<slot, slotLock, gen, waits, caller, used, down, note>>

DogStep(h) ==
    \/ DogWakes(h)
    \/ DogSeesHealthy(h)
    \/ DogSeesStall(h)
    \/ DogGivesUp(h)
    \/ DogTakes(h)
    \/ DogCloses(h)
    \/ DogJoins(h)
    \/ DogSpawns(h)
    \/ DogCannotSpawn(h)
    \/ DogStores(h)

-----------------------------------------------------------------------------
(* Connections (sync_realtime) and the signal thread (stop_realtime).      *)

At(t, at) == caller' = [caller EXCEPT ![t].at = at]

(* sync_realtime holds the slot's mutex to its end; stop_realtime only     *)
(* takes the handle out.  Then Handle::stop sets the stop flag.  A start    *)
(* beyond the bound is not asked for.                                      *)
TakeHandle(t) ==
    /\ caller[t].at = "idle"
    /\ slotLock = None
    /\ \E on \in IF t = Signal \/ used.handles = MaxHandles THEN {FALSE}
                  ELSE BOOLEAN :
          caller' = [caller EXCEPT ![t] =
             [IdleCaller EXCEPT !.at = IF slot = None THEN "start" ELSE "take",
                                !.handle = slot, !.enabled = on]]
    /\ slot' = None
    /\ slotLock' = IF t = Signal THEN None ELSE t
    /\ handle' = [h \in Handles |->
          IF h = slot THEN [handle[h] EXCEPT !.stop = TRUE, !.note = "none"] ELSE handle[h]]
    /\ sweeps' = {g \in sweeps : gen[g].handle # slot}
    /\ muted' = muted \ {slot}
    /\ UNCHANGED <<dog, gen, waits, used, down>>

(* Handle::stop keeps the mutex of the inner slot while it joins.          *)
TakeInner(t) ==
    /\ caller[t].at = "take"
    /\ LET h == caller[t].handle
       IN /\ handle[h].lock = None
          /\ caller' = [caller EXCEPT
                ![t].at = IF handle[h].inner = None THEN "join dog" ELSE "close",
                ![t].old = handle[h].inner]
          /\ handle' = [handle EXCEPT ![h].inner = None,
                ![h].lock = IF handle[h].inner = None THEN None ELSE t]
    /\ UNCHANGED <<slot, slotLock, dog, gen, waits, used, down, note>>

StopCloses(t) ==
    /\ caller[t].at = "close"
    /\ CloseFd(caller[t].old)
    /\ At(t, "join")
    /\ UNCHANGED <<slot, slotLock, handle, dog, used, down, note>>

StopJoins(t) ==
    /\ caller[t].at = "join"
    /\ gen[caller[t].old].intake = "ended"
    /\ handle' = [handle EXCEPT ![caller[t].handle].lock = None]
    /\ At(t, "join dog")
    /\ UNCHANGED <<slot, slotLock, dog, gen, waits, used, down, note>>

StopJoinsDog(t) ==
    /\ caller[t].at = "join dog"
    /\ dog[caller[t].handle].at = "ended"
    /\ caller' = [caller EXCEPT ![t].at = "start", ![t].handle = None, ![t].old = None]
    /\ UNCHANGED <<slot, slotLock, handle, dog, gen, waits, used, down, note>>

(* Start a new watcher if the setting asks for it and it can be started.   *)
Start(t) ==
    /\ caller[t].at = "start" /\ t # Signal /\ caller[t].enabled
    /\ used.handles < MaxHandles
    /\ used.gens < MaxGenerations
    /\ LET h == used.handles + 1
       IN /\ gen' = Spawned(h)
          /\ handle' = [handle EXCEPT ![h].inner = used.gens + 1]
          /\ dog' = [dog EXCEPT ![h].at = "sleep"]
          /\ slot' = h
    /\ used' = [used EXCEPT !.handles = @ + 1, !.gens = @ + 1]
    /\ slotLock' = None
    /\ caller' = [caller EXCEPT ![t] = IdleCaller]
    /\ UNCHANGED <<waits, down, note>>

(* The setting is off, or the start fails and the detail says so.          *)
NoStart(t) ==
    /\ caller[t].at = "start" /\ t # Signal
    /\ \/ ~caller[t].enabled /\ UNCHANGED used
       \/ Faulty
    /\ slotLock' = None
    /\ caller' = [caller EXCEPT ![t] = IdleCaller]
    /\ UNCHANGED <<slot, handle, dog, gen, waits, down, note>>

(* process::exit: the kernel closes every group and lets programs run.     *)
Exit ==
    /\ caller[Signal].at = "start"
    /\ down' = TRUE
    /\ waits' = {}
    /\ sweeps' = {}
    /\ gen' = [g \in Generations |->
          IF g > used.gens THEN gen[g]
          ELSE [gen[g] EXCEPT !.fd = "closed",
                   !.intake = IF @ = "ended" THEN @ ELSE "killed"]]
    /\ dog' = [h \in Handles |-> IF h > used.handles THEN dog[h]
                                 ELSE [dog[h] EXCEPT !.at = "ended"]]
    /\ caller' = [t \in Threads |-> [IdleCaller EXCEPT !.at = "gone"]]
    /\ UNCHANGED <<slot, slotLock, handle, used, muted>>

StopStep(t) ==
    \/ TakeInner(t)
    \/ StopCloses(t)
    \/ StopJoins(t)
    \/ StopJoinsDog(t)

CallerStep(t) == StopStep(t) \/ Start(t) \/ NoStart(t)

Next ==
    \/ Exec
    \/ \E g \in Generations :
          \/ Answer(g) \/ Stall(g) \/ Recover(g) \/ Leave(g) \/ WindUp(g)
          \/ Overflow(g) \/ SweepEnds(g)
    \/ \E h \in Handles : DogStep(h)
    \/ \E t \in Threads : TakeHandle(t) \/ CallerStep(t)
    \/ Exit

Spec == Init /\ [][Next]_vars

(* Every thread that can take a step takes one in the end, and a program   *)
(* held up is read about; nothing makes other processes execute programs,  *)
(* intakes stall, or connections change settings.                          *)
Fairness ==
    /\ \A g \in Generations :
          /\ WF_vars(Answer(g))
          /\ WF_vars(Recover(g))
          /\ WF_vars(~Reads(g) /\ Leave(g))
          /\ WF_vars(WindUp(g))
    /\ \A h \in Handles : WF_vars(DogStep(h))
    /\ \A t \in Threads : WF_vars(CallerStep(t))
    /\ WF_vars(Exit)

FairSpec == Spec /\ Fairness

-----------------------------------------------------------------------------
(* Properties.                                                             *)

(* Each variable stays in its set, and a mutex is held exactly by the      *)
(* thread whose code is between its lock and its unlock.                   *)
TypeOK ==
    /\ slot \in {None} \cup 1..used.handles
    /\ ~down => \A t \in Callers : slotLock = t <=> caller[t].at # "idle"
    /\ slotLock # Signal
    /\ \A h \in Handles :
          /\ handle[h].inner \in {None} \cup 1..used.gens
          /\ handle[h].note \in {"none", "restarted", "overflow", "failed open"}
          /\ ~down => \A t \in Threads :
                handle[h].lock = t <=>
                   caller[t].handle = h /\ caller[t].at \in {"close", "join"}
          /\ dog[h].at = "none" <=> h > used.handles
          /\ dog[h].restarts \in 0..MAX_RESTARTS + 1
    /\ \A g \in Generations : gen[g] = NoGen <=> g > used.gens
    /\ waits \subseteq {g \in Generations : gen[g].fd = "open"}
    /\ sweeps \subseteq {g \in Generations : gen[g].intake \notin {"none", "ended"}}
    /\ muted \subseteq 1..used.handles
    /\ down \in BOOLEAN

DogHas(g) ==
    LET d == dog[gen[g].handle]
    IN d.old = g /\ d.at \in {"close", "store"}

StopHas(g) ==
    \E t \in Threads :
       \/ caller[t].old = g /\ caller[t].at = "close"
       \/ caller[t].handle = gen[g].handle /\ caller[t].at = "take"

Watched(g) == handle[gen[g].handle].inner = g /\ dog[gen[g].handle].at # "ended"

(* The watchdog gave up on g, and its group was left as it was.            *)
GivenUp(g) ==
    LET h == gen[g].handle
    IN /\ handle[h].inner # g
       /\ dog[h].at = "ended" /\ dog[h].restarts > MAX_RESTARTS

(* The watchdog restarted the watcher while Handle::stop was waiting for   *)
(* it: nobody takes g out of the slot again.                               *)
Orphaned(g) ==
    LET h == gen[g].handle
    IN /\ handle[h].stop
       /\ \/ handle[h].inner = g
          \/ dog[h].old = g /\ dog[h].at = "store"
       /\ \A t \in Threads : caller[t].handle = h => caller[t].at # "take"

Open(g) == gen[g].fd = "open"
Blocked(g) == gen[g].intake \in {"stuck", "hung"}

(* "Never leave the fanotify fd open and unread" (PLAN.md): a group whose  *)
(* intake does not read is about to be closed by the watchdog or by a      *)
(* stop.  Two ways out are known: the watchdog gave up on it, or it was    *)
(* started by the watchdog of a handle that was being stopped.             *)
OpenIsAttended ==
    \A g \in Generations :
       Open(g) /\ Blocked(g) =>
          Watched(g) \/ DogHas(g) \/ StopHas(g) \/ GivenUp(g) \/ Orphaned(g)

(* The same without the exceptions.                                        *)
NeverOpenAndUnread ==
    \A g \in Generations :
       Open(g) /\ Blocked(g) => Watched(g) \/ DogHas(g) \/ StopHas(g)

(* A watcher in the daemon's slot protects, is being restarted by its      *)
(* watchdog, or says that it failed open ("visible failed-open mode",      *)
(* PLAN.md; "overflow/failed-open notes stay", realtime.rs).  One way out  *)
(* is known: the watchdog counted too many stalls, and the generation it   *)
(* left alone, whose threads run on, wrote its own note over that one.     *)
(* After a restart that failed no thread is left that could.               *)
ProtectedOrVisible ==
    /\ slot # None /\ ~down =>
          \/ dog[slot].at # "ended"
          \/ handle[slot].note = "failed open"
          \/ slot \in muted
    /\ \A h \in muted : dog[h].restarts > MAX_RESTARTS

Alive(g) == gen[g].intake \notin {"none", "ended", "killed"}

(* Restarts and settings changes do not leave two watchers at work on the  *)
(* same events and the same queue until the signal thread has taken the    *)
(* handle, except for a generation the watchdog gave up on or started      *)
(* during a stop.                                                          *)
OneGeneration ==
    caller[Signal].at = "idle" =>
       \A g1, g2 \in {g \in Generations : Alive(g) /\ ~GivenUp(g) /\ ~Orphaned(g)} :
          g1 = g2

(* OneAtWork: the slots, the locks and the generations fit each other, and *)
(* at most one generation is at work (realtime.rs watchdog, Handle::stop). *)
OneAtWork == TypeOK /\ OneGeneration

(* The exec gate never freezes the machine: a program that is held up runs *)
(* in the end, even if the intake that should answer hangs for ever.       *)
ExecsProceed ==
    waits # {} ~> \A g \in waits : GivenUp(g) \/ Orphaned(g)

Stopping == {t \in Threads : caller[t].at \notin {"idle", "start", "gone"}}

(* A stop, and with it a settings change or a SIGTERM, comes to its end    *)
(* unless an intake hangs for ever: the locks and joins of Handle::stop,   *)
(* of the watchdog and of run never wait for each other in a circle.       *)
StopReturns ==
    Stopping # {} ~> Stopping = {} \/ \E g \in Generations : gen[g].intake = "hung"
=============================================================================
