-------------------------------- MODULE Feeds --------------------------------
(***************************************************************************)
(* What feeds the scan queue of the real-time watcher (realtime.rs): the   *)
(* kernel's bounded queue of file events, the intake with its filters and  *)
(* the churn gate, the flush of the churn table by the housekeeping        *)
(* thread, and the sweep that catches up after the kernel dropped events.  *)
(* A generation of the watcher ends and another one begins; the files are  *)
(* written, opened and deleted all the while.                              *)
(*                                                                         *)
(* The scan queue itself is the set of its live paths and the table of     *)
(* pending paths (module ScanQueue has its inside; the database takes what *)
(* it is given), a scan is one step and never fails (modules Scanning and  *)
(* ClamdClient), the exec gate is left out (module Scanning), and so are   *)
(* renames.  Of the watchdog (module Watcher) there is what it writes to   *)
(* the status note, which it shares with the intake and the sweep.         *)
(***************************************************************************)
EXTENDS Integers, FiniteSets

CONSTANTS
    Files, Dirs,         \* every file is in a directory, a directory in a mount
    DirOf,               \* Files -> Dirs
    Mounts,              \* records: point, and fs, the type
    MountOf,             \* Dirs -> Mounts
    Above,               \* of a path: itself and every prefix it starts with
    Ext,                 \* of a path: its extension
    Prefixes,            \* exclusions.paths and the directories of the daemon
    Extensions,          \* exclusions.extensions
    Traits,              \* Files -> what classify finds in name and mode
    NoFile,
    WATCHABLE_FS_TYPES,  \* file systems that are worth a mark
    SKIP_MOUNT_PREFIXES, \* mount points that are not
    MAX_QUEUED_EVENTS,   \* capacity of the kernel's queue
    BOUNDED_MAP_CAP,     \* entries above which the churn table is cleared
    SWEEP_YIELD_AT,      \* live paths that make a sweep wait
    SWEEP_FLUSH_BATCH,   \* paths a sweep writes to the database at once
    MaxCalls             \* bound: calls on files, and generations that end or
                         \* are given up

ASSUME PlaceAssumption == DirOf \in [Files -> Dirs] /\ MountOf \in [Dirs -> Mounts]
ASSUME AboveAssumption == \A m \in Mounts : m.point \in Above[m.point]
ASSUME FileAssumption == NoFile \notin Files /\ Files \cap Dirs = {}
ASSUME SizeAssumption ==
    {MAX_QUEUED_EVENTS, BOUNDED_MAP_CAP, SWEEP_YIELD_AT, SWEEP_FLUSH_BATCH} \subseteq Nat \ {0}
ASSUME BoundAssumption == MaxCalls \in Nat

VARIABLES
    unseen,        \* files written since they were last scanned, not the excluded
    auto_catchup,  \* the setting
    marked,        \* the mounts with a mark
    events,        \* kernel: the events that wait, [file, kind]
    overflow,      \* kernel: the overflow event waits
    intake,        \* the intake: where it is, with which file
    churn,         \* the churn table; no entry, or one that cools or may be dirty
    hk,            \* housekeeping: the due paths in its hand
    requested,     \* catchup_requested
    note,          \* status_note tells of a sweep to come
    dog,           \* the watchdog: it watches; has its restart yet to tell, or
                   \* told it, and may still take that back; or is gone
    sweep,         \* the sweep thread: directories to go, batch in hand
    live, pending, \* the scan queue: in memory, in the database
    exit,          \* the generation is ending
    calls,         \* see MaxCalls
    lost,          \* history: unseen files that nothing will lead to (see Lose)
    wiped,         \* history: a note was taken away before its sweep had ended
    grants         \* history: queueings of a churn path in its cooldown

kernel == <<events, overflow>>
queue == <<live, pending>>
status == <<note, dog>>
history == <<lost, wiped, grants>>
vars == <<unseen, auto_catchup, marked, events, overflow, intake, churn, hk, requested,
          note, dog, sweep, live, pending, exit, calls, lost, wiped, grants>>

-----------------------------------------------------------------------------
(* Which paths are watched, excluded, and how urgent.                      *)

IsWatchable(m) == m.fs \in WATCHABLE_FS_TYPES /\ Above[m.point] \cap SKIP_MOUNT_PREFIXES = {}
WatchableMounts == {m \in Mounts : IsWatchable(m)}

IsExcluded(p) == Above[p] \cap Prefixes # {} \/ Ext[p] \in Extensions

(* Live databases and logs before everything; then whatever can run.       *)
Classify(f) ==
    IF "churn" \in Traits[f] THEN "churn"
    ELSE IF Traits[f] \cap {"exec bit", "library", "bin"} # {} THEN "exec"
    ELSE IF "media" \in Traits[f] THEN "media" ELSE "data"
Churns == {f \in Files : Classify(f) = "churn"}

Rank(f) == CASE Classify(f) = "exec" -> 0
             [] Classify(f) \in {"data", "churn"} -> 1
             [] Classify(f) = "media" -> 2

-----------------------------------------------------------------------------
Idle == [at |-> "idle", file |-> NoFile]
Sleep == [at |-> "sleep", dirs |-> {}, batch |-> {}]
NoEntry == [in |-> FALSE, cooling |-> FALSE, dirty |-> FALSE]
Fresh == [in |-> TRUE, cooling |-> TRUE, dirty |-> FALSE]

NoEntries == [f \in Files |-> NoEntry]
NoGrants == [f \in Files |-> 0]

Init ==
    /\ unseen = {} /\ lost = {} /\ pending = {} /\ live = {}
    /\ auto_catchup \in BOOLEAN
    /\ marked \in (SUBSET WatchableMounts) \ {{}}
    /\ events = {} /\ overflow = FALSE /\ intake = Idle
    /\ churn = NoEntries /\ grants = NoGrants /\ hk = {}
    /\ requested = FALSE /\ note = FALSE /\ wiped = FALSE /\ sweep = Sleep
    /\ dog = "watch"
    /\ exit = FALSE /\ calls = 0

-----------------------------------------------------------------------------
(* Where the memory of a write can be.                                     *)

(* A sweep asks is_excluded of directories too.                            *)
Swept(f) == MountOf[DirOf[f]] \in marked /\ ~IsExcluded(DirOf[f])

(* A sweep was asked for, or is to be as soon as the overflow is read; it  *)
(* will be made only where the setting says so.                            *)
Asked == overflow \/ requested \/ intake.at = "request"

Traced(f) ==
    \/ \E e \in events : e.file = f /\ e.kind \in {"write", "open"}
    \/ f \in live \cup pending \cup hk \cup sweep.batch \cup {intake.file}
    \/ churn[f].dirty
    \/ Swept(f) /\ (DirOf[f] \in sweep.dirs \/ (auto_catchup /\ Asked))

(* The exceptions, each an action that says Lose.                          *)
Lose(S) == lost' = lost \cup {f \in S \cap unseen' : ~Traced(f)'}

-----------------------------------------------------------------------------
(* The files and the kernel.  An event that does not fit is dropped, and   *)
(* one overflow event waits in its place.                                  *)

Reported(f, kind) ==
    LET e == [file |-> f, kind |-> kind]
        fits == e \in events \/ Cardinality(events) < MAX_QUEUED_EVENTS
    IN IF exit \/ MountOf[DirOf[f]] \notin marked THEN UNCHANGED kernel
       ELSE /\ events' = IF fits THEN events \cup {e} ELSE events
            /\ overflow' = (overflow \/ ~fits)

Counts == calls < MaxCalls /\ calls' = calls + 1

Calls ==
    /\ Counts
    /\ UNCHANGED <<auto_catchup, marked, intake, churn, hk, requested, status, sweep,
                   queue, exit, wiped, grants>>

(* A write is lost at once where there is no mark or no watcher, and when  *)
(* its event is dropped and no sweep will be made, or none that enters its *)
(* directory.                                                              *)
Write(f) ==
    /\ Calls
    /\ unseen' = IF IsExcluded(f) THEN unseen ELSE unseen \cup {f}
    /\ Reported(f, "write")
    /\ Lose({f})

Open(f) ==
    /\ Calls
    /\ Reported(f, "open")
    /\ UNCHANGED <<unseen, lost>>

(* clamd, freshclam and the daemon write and open files too.               *)
EngineCall(f) ==
    /\ Calls
    /\ Reported(f, "engine")
    /\ UNCHANGED <<unseen, lost>>

Delete(f) ==
    /\ Calls
    /\ events' = {IF e.file = f THEN [e EXCEPT !.kind = "deleted"] ELSE e : e \in events}
    /\ unseen' = unseen \ {f}
    /\ lost' = lost \ {f}
    /\ UNCHANGED overflow

-----------------------------------------------------------------------------
(* The churn gate.                                                         *)

Full == Cardinality({f \in Files : churn[f].in}) > BOUNDED_MAP_CAP
Table == IF Full THEN NoEntries ELSE churn
Grants == IF Full THEN NoGrants ELSE grants

ChurnTryQueue(f) ==
    IF Table[f].cooling
    THEN /\ churn' = [Table EXCEPT ![f].dirty = TRUE]
         /\ grants' = Grants
         /\ intake' = Idle
    ELSE /\ churn' = [Table EXCEPT ![f] = Fresh]
         /\ grants' = [Grants EXCEPT ![f] = @ + 1]
         /\ intake' = [at |-> "push", file |-> f]

Cool(f) ==
    /\ churn[f].cooling
    /\ churn' = [churn EXCEPT ![f].cooling = FALSE]
    /\ grants' = [grants EXCEPT ![f] = 0]
    /\ UNCHANGED <<unseen, auto_catchup, marked, kernel, intake, hk, requested, status, sweep,
                   queue, exit, calls, lost, wiped>>

DueInCooldown(f) == churn[f].dirty /\ churn[f].cooling
Due(f) == churn[f].dirty /\ ~churn[f].cooling

FlushedWithoutCooldown == [Fresh EXCEPT !.cooling = FALSE]
Flushed == Fresh

(* churn_flush: the due paths are taken under the mutex and pushed after.  *)
ChurnFlush ==
    /\ ~exit
    /\ hk = {}
    /\ hk' = {f \in Files : Due(f)}
    /\ hk' # {}
    /\ churn' = [f \in Files |-> IF f \in hk' THEN Flushed ELSE churn[f]]
    /\ grants' = [f \in Files |-> IF f \in hk' THEN grants[f] + 1 ELSE grants[f]]
    /\ UNCHANGED <<unseen, auto_catchup, marked, kernel, intake, requested, status, sweep,
                   queue, exit, calls, lost, wiped>>

FlushPush ==
    /\ \E f \in hk : hk' = hk \ {f} /\ live' = live \cup {f}
    /\ UNCHANGED <<unseen, auto_catchup, marked, kernel, intake, churn, requested, status,
                   sweep, pending, exit, calls, history>>

-----------------------------------------------------------------------------
(* intake_event.  The kernel gives events in order; no property here needs *)
(* more than that it gives them all.                                       *)

Read(e) ==
    /\ intake = Idle /\ ~exit
    /\ e \in events
    /\ events' = events \ {e}
    /\ UNCHANGED <<unseen, auto_catchup, marked, overflow, hk, requested, status, sweep,
                   pending, exit, calls, wiped>>

(* An open is looked up in the cache first.                                *)
Passes(e) ==
    /\ ~IsExcluded(e.file)
    /\ e.kind = "write" \/ (e.kind = "open" /\ e.file \in unseen)

IntakeSkips(e) ==
    /\ ~Passes(e)
    /\ Read(e)
    /\ UNCHANGED <<intake, churn, live, lost, grants>>

IntakeQueues(e) ==
    /\ Passes(e)
    /\ e.file \notin Churns
    /\ Read(e)
    /\ live' = live \cup {e.file}
    /\ UNCHANGED <<intake, churn, lost, grants>>

(* A table that is cleared forgets the marks in it.                        *)
IntakeAsksChurn(e) ==
    /\ Passes(e)
    /\ e.file \in Churns
    /\ Read(e)
    /\ ChurnTryQueue(e.file)
    /\ UNCHANGED live
    /\ Lose(IF Full THEN Churns ELSE {})

IntakePush ==
    /\ intake.at = "push"
    /\ live' = live \cup {intake.file}
    /\ intake' = Idle
    /\ UNCHANGED <<unseen, auto_catchup, marked, kernel, churn, hk, requested, status, sweep,
                   pending, exit, calls, history>>

(* note_overflow: first the note, then the request.                        *)
NoteOverflow ==
    /\ intake = Idle /\ ~exit
    /\ overflow
    /\ overflow' = FALSE
    /\ note' = TRUE
    /\ wiped' = FALSE
    /\ intake' = [Idle EXCEPT !.at = "request"]
    /\ UNCHANGED <<unseen, auto_catchup, marked, events, churn, hk, requested, dog, sweep, queue,
                   exit, calls, lost, grants>>

RequestCatchup ==
    /\ intake.at = "request"
    /\ requested' = TRUE
    /\ intake' = Idle
    /\ UNCHANGED <<unseen, auto_catchup, marked, kernel, churn, hk, status, sweep, queue, exit,
                   calls, history>>

-----------------------------------------------------------------------------
(* The sweep thread.                                                       *)

ClearsTheNote == FALSE
KeepsTheNote == note

(* The request is taken before the walk: one that comes later asks for     *)
(* another sweep.                                                          *)
SweepStart ==
    /\ sweep.at = "sleep" /\ ~exit
    /\ auto_catchup
    /\ requested
    /\ requested' = FALSE
    /\ note' = KeepsTheNote
    /\ sweep' = [at |-> "walk", batch |-> {},
                 dirs |-> {d \in Dirs : MountOf[d] \in marked /\ ~IsExcluded(d)}]
    /\ UNCHANGED <<unseen, auto_catchup, marked, kernel, intake, churn, hk, dog, queue,
                   exit, calls, history>>

Entries(d) == {f \in Files : DirOf[f] = d /\ ~IsExcluded(f)}

(* One directory: it waits for a shallow queue before it is read.  What    *)
(* cannot be read, the directory or an entry of it, is passed over without *)
(* a word, and lost.                                                       *)
SweepDir(d) ==
    /\ sweep.at = "walk" /\ ~exit
    /\ d \in sweep.dirs
    /\ Cardinality(live) < SWEEP_YIELD_AT
    /\ UNCHANGED <<unseen, auto_catchup, marked, kernel, intake, churn, hk, requested, status,
                   live, exit, calls, wiped, grants>>
    /\ \E unread \in SUBSET Entries(d) :
          LET batch == sweep.batch \cup (Entries(d) \ unread)
              full == Cardinality(batch) >= SWEEP_FLUSH_BATCH
          IN /\ sweep' = [sweep EXCEPT !.dirs = @ \ {d}, !.batch = IF full THEN {} ELSE batch]
             /\ pending' = IF full THEN pending \cup batch ELSE pending
             /\ Lose(unread)

(* The walk is done, or interrupted: what it leaves out is lost.           *)
SweepFlush ==
    /\ sweep.at = "walk"
    /\ exit \/ sweep.dirs = {}
    /\ pending' = pending \cup sweep.batch
    /\ sweep' = [Sleep EXCEPT !.at = "finish"]
    /\ UNCHANGED <<unseen, auto_catchup, marked, kernel, intake, churn, hk, requested, status,
                   live, exit, calls, wiped, grants>>
    /\ Lose(IF exit THEN Files ELSE {})

RequestForgotten == requested' = FALSE
RequestKept == UNCHANGED requested

(* A sweep was asked for, or is under way.                                 *)
SweepDue == requested \/ intake.at = "request" \/ sweep.at # "sleep"

(* The row of the scan says completed in either case; the note goes, also  *)
(* that of the next sweep.                                                 *)
SweepFinish ==
    /\ sweep.at = "finish"
    /\ UNCHANGED <<unseen, auto_catchup, marked, kernel, intake, churn, hk, dog, queue, exit,
                   calls, lost, grants>>
    /\ sweep' = Sleep
    /\ RequestKept
    /\ note' = (note /\ exit)
    /\ wiped' = (~exit /\ SweepDue')

-----------------------------------------------------------------------------
(* A worker scans the most urgent live path, a pending one when there is   *)
(* none.                                                                   *)
Scan(f) ==
    /\ \/ f \in live /\ \A g \in live : Rank(f) <= Rank(g)
       \/ f \in pending /\ live = {}
    /\ ~exit
    /\ live' = live \ {f}
    /\ pending' = IF f \in live THEN pending ELSE pending \ {f}
    /\ unseen' = unseen \ {f}
    /\ lost' = lost \ {f}
    /\ UNCHANGED <<auto_catchup, marked, kernel, intake, churn, hk, requested, status, sweep,
                   exit, calls, wiped, grants>>

-----------------------------------------------------------------------------
(* The end of a generation.  The group is closed first; the events in it,  *)
(* and the request for a sweep, are gone.                                  *)
Close ==
    /\ ~exit /\ intake = Idle
    /\ Counts
    /\ exit' = TRUE
    /\ events' = {} /\ overflow' = FALSE
    /\ requested' = FALSE /\ wiped' = FALSE
    /\ UNCHANGED <<unseen, auto_catchup, marked, intake, churn, hk, status, sweep, queue,
                   grants>>
    /\ Lose(Files)

NextGeneration ==
    /\ events' = {} /\ overflow' = FALSE /\ intake' = Idle
    /\ churn' = NoEntries /\ grants' = NoGrants /\ hk' = {}
    /\ requested' = FALSE /\ wiped' = FALSE /\ sweep' = Sleep
    /\ live' = {} /\ exit' = FALSE
    /\ marked' \in (SUBSET WatchableMounts) \ {{}}
    /\ UNCHANGED <<unseen, auto_catchup>>

(* Every handle has a note of its own.                                     *)
NewHandle == note' = FALSE /\ dog' = "watch"

(* The generation that the watchdog starts runs before the watchdog has    *)
(* written its note over that of the one before.                           *)
SameHandle == dog \in {"watch", "told"} /\ note' = note /\ dog' = "tell"

(* The threads have ended, the live paths are saved; the churn table goes  *)
(* with the generation.                                                    *)
Restart ==
    /\ exit
    /\ hk = {} /\ sweep = Sleep
    /\ pending' = pending \cup live
    /\ NextGeneration
    /\ NewHandle \/ SameHandle
    /\ UNCHANGED calls
    /\ Lose(Files)

Crash ==
    /\ Counts
    /\ UNCHANGED pending
    /\ NextGeneration /\ NewHandle
    /\ Lose(Files)

-----------------------------------------------------------------------------
(* The watchdog and the status note.  It writes that it restarted the      *)
(* watcher; after a while it looks whether its own note still stands and   *)
(* then, under another lock, takes away whatever stands; it writes that it *)
(* gave up, and lets the generation run on.                                *)

DogWrites ==
    /\ note' = FALSE
    /\ wiped' = (~exit /\ SweepDue)
    /\ UNCHANGED <<unseen, auto_catchup, marked, kernel, intake, churn, hk, requested, sweep,
                   queue, exit, lost, grants>>

DogTells == dog = "tell" /\ dog' = "told" /\ UNCHANGED calls /\ DogWrites
DogTakesBack == dog = "told" /\ dog' = "watch" /\ UNCHANGED calls /\ DogWrites
DogGivesUp ==
    /\ dog \in {"watch", "told"}
    /\ dog' = "gone"
    /\ Counts
    /\ DogWrites

-----------------------------------------------------------------------------
IntakeStep ==
    \/ \E e \in events : IntakeSkips(e) \/ IntakeQueues(e) \/ IntakeAsksChurn(e)
    \/ IntakePush
    \/ NoteOverflow
    \/ RequestCatchup

HousekeepingStep == ChurnFlush \/ FlushPush

DogStep == DogTells \/ DogTakesBack \/ DogGivesUp

SweepStep ==
    \/ SweepStart
    \/ \E d \in Dirs : SweepDir(d)
    \/ SweepFlush
    \/ SweepFinish

Next ==
    \/ \E f \in Files : Write(f) \/ Open(f) \/ EngineCall(f) \/ Delete(f) \/ Cool(f)
    \/ IntakeStep
    \/ HousekeepingStep
    \/ SweepStep
    \/ DogStep
    \/ \E f \in Files : Scan(f)
    \/ Close
    \/ Restart
    \/ Crash

Spec == Init /\ [][Next]_vars

(* Every thread runs, a cooldown elapses, a generation that ends is        *)
(* followed by another.                                                    *)
Fairness ==
    /\ WF_vars(IntakeStep) /\ WF_vars(HousekeepingStep) /\ WF_vars(SweepStep)
    /\ WF_vars(\E f \in Files : Scan(f))
    /\ WF_vars(\E f \in Files : Cool(f))
    /\ WF_vars(Restart)

FairSpec == Spec /\ Fairness

-----------------------------------------------------------------------------
(* Properties.                                                             *)

(* Each variable has its type; the kernel's queue and the churn table keep *)
(* within their sizes.                                                     *)
TypeOK ==
    /\ unseen \subseteq Files /\ lost \subseteq Files
    /\ auto_catchup \in BOOLEAN /\ overflow \in BOOLEAN /\ requested \in BOOLEAN
    /\ note \in BOOLEAN /\ exit \in BOOLEAN /\ wiped \in BOOLEAN
    /\ dog \in {"watch", "tell", "told", "gone"}
    /\ marked \subseteq Mounts
    /\ \A m \in marked : m.point \notin SKIP_MOUNT_PREFIXES
    /\ events \subseteq [file : Files, kind : {"write", "open", "engine", "deleted"}]
    /\ Cardinality(events) <= MAX_QUEUED_EVENTS
    /\ intake \in [at : {"idle", "push", "request"}, file : Files \cup {NoFile}]
    /\ churn \in [Files -> [in : BOOLEAN, cooling : BOOLEAN, dirty : BOOLEAN]]
    /\ Cardinality({f \in Files : churn[f].in}) <= BOUNDED_MAP_CAP + 1
    /\ hk \subseteq Files /\ live \subseteq Files /\ pending \subseteq Files
    /\ sweep \in [at : {"sleep", "walk", "finish"}, dirs : SUBSET Dirs, batch : SUBSET Files]
    /\ grants \in [Files -> Nat] /\ calls \in Nat

(* A file that was written and not scanned since is on its way to a scan:  *)
(* in an event, the queue, a hand or the churn table, or before a sweep    *)
(* that will be made and come past it (PLAN.md, "loss is detectable and    *)
(* recovered").  What is lost is lost by one of eight steps: a write that  *)
(* no mark covers; one dropped while auto_catchup is off, or in a          *)
(* directory a sweep will not enter; the clearing of the churn table; what *)
(* a sweep could not read; a sweep cut short; the end of a generation; a   *)
(* crash.                                                                  *)
NoWriteForgotten == \A f \in unseen : Traced(f) \/ f \in lost

(* While a sweep is asked for or under way the note says so, unless the    *)
(* end of the sweep before, or the watchdog, took it away; and the note of *)
(* a sweep to come stands only as long as there is one to come, but for a  *)
(* restart that the watchdog has yet to tell of (realtime.rs note_overflow,*)
(* run_catchup, start).                                                    *)
NoteTellsOfSweep ==
    ~exit => /\ SweepDue => note \/ wiped
             /\ note /\ dog # "tell" => SweepDue

(* StatusTellsOfSweep: the note in the status, the request and the sweep   *)
(* go together, over overflows in the middle of a sweep and over what the  *)
(* watchdog writes (realtime.rs note_overflow, run_catchup, start).        *)
StatusTellsOfSweep == TypeOK /\ NoteTellsOfSweep

(* The intake and the flush together queue a churn path at most once in a  *)
(* cooldown, as long as the table is not cleared (churn_try_queue).        *)
OncePerCooldown == \A f \in Files : grants[f] <= 1

(* The final content of every file is scanned in the end, whether its last *)
(* event was merged, gated, dropped by the kernel or left over by an       *)
(* earlier generation; without auto_catchup nothing is promised.           *)
EveryWriteIsScanned == []<>(auto_catchup => unseen \subseteq lost)
=============================================================================
