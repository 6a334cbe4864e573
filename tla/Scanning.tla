------------------------------ MODULE Scanning ------------------------------
(***************************************************************************)
(* From a file event to a verdict and a detection (realtime.rs): the       *)
(* intake thread with the exec gate (`intake_event`, `exec_verdict`), the  *)
(* workers (`scan_one`, `handle_detection`) and the verdict cache they     *)
(* share, over a file system that other processes write and rename in.     *)
(*                                                                         *)
(* A file is an inode with a stamp, the pair of modification second and    *)
(* size that the cache key takes from it, and a content that the engine    *)
(* calls infected or not.  The events carry the inode (the event's file    *)
(* descriptor); the engine is asked by path, at a later time.              *)
(*                                                                         *)
(* The queue is the one of WorkLedger: a set of paths that are waiting.    *)
(***************************************************************************)
EXTENDS Integers, Sequences, FiniteSets

CONSTANTS
    Files, NoFile,    \* inodes
    Names, NoName,    \* paths
    Dirs,             \* which inode each path may name at first
    Workers,          \* the scan worker threads
    BUDGET,           \* entries that fit the cache budget
    AutoQuarantine,   \* realtime.auto_quarantine
    MaxStamps,        \* bound: distinct stamps
    MaxCoarse,        \* bound: rewrites that keep modification second and size
    MaxRenames,       \* bound: renames by other processes
    MaxEvents,        \* bound: events
    MaxFailures,      \* bound: failing or skipped scans
    MaxLifetimes      \* bound: starts of the watcher

ASSUME NoneAssumption == NoFile \notin Files /\ NoName \notin Names
ASSUME BudgetAssumption == BUDGET \in Nat \ {0}
ASSUME FlagAssumption == AutoQuarantine \in BOOLEAN
ASSUME DirsAssumption ==
    /\ Dirs \subseteq [Names -> Files \cup {NoFile}]
    /\ \A d \in Dirs, n, m \in Names : d[n] = d[m] /\ d[n] # NoFile => n = m
ASSUME BoundAssumption ==
    /\ {MaxStamps, MaxCoarse, MaxRenames, MaxEvents, MaxFailures, MaxLifetimes} \subseteq Nat
    /\ MaxStamps >= 1

VARIABLES
    dir,        \* the inode each path names
    file,       \* stamp and content of each inode
    events,     \* the kernel's event queue
    cache,      \* Shared::cache: the verdict of each key
    saved,      \* the cache file
    waiting,    \* the queue's paths (lanes, backlog and database)
    followups,  \* the queue's gate lane
    intake,     \* the intake thread
    worker,     \* the workers
    phase,      \* the watcher runs, stops or is down
    used,       \* stamps, rewrites, renames, events, failures, starts so far
    told,       \* history: path and key of content that was handed over
                \* and not judged since
    failed,     \* history: what was handed over and dropped by a failed scan
    denied,     \* history: path and key of a denied exec, not recorded since
    found,      \* history: keys that a worker took for a detection, or whose
                \* denied exec it followed up
    again,      \* history: keys that were taken for a detection after that
    forgotten   \* history: keys whose infected verdict left the cache

fs == <<dir, file, events>>
queue == <<waiting, followups>>
history == <<told, failed, denied, found, again, forgotten>>
vars == <<dir, file, events, cache, saved, waiting, followups, intake, worker,
          phase, used, told, failed, denied, found, again, forgotten>>

Keys == Files \X (1..MaxStamps)
Key(f) == <<f, file[f].stamp>>
Named(f) == {n \in Names : dir[n] = f}
Verdicts == {"none", "clean", "infected"}
Entries == {k \in Keys : cache[k] # "none"}
Elems(s) == {s[i] : i \in DOMAIN s}

NoKey == <<NoFile, 0>>
IdleIntake == [at |-> "idle", file |-> NoFile, name |-> NoName, key |-> NoKey,
               outcome |-> "none"]
IdleWorker == [at |-> "idle", name |-> NoName, key |-> NoKey,
               outcome |-> "none", kind |-> "none"]

Init ==
    /\ dir \in Dirs
    /\ file \in [Files -> [stamp : {1}, bad : BOOLEAN]]
    /\ events = <<>>
    /\ cache = [k \in Keys |-> "none"]
    /\ saved = cache
    /\ waiting = {}
    /\ followups = <<>>
    /\ intake = IdleIntake
    /\ worker = [w \in Workers |-> IdleWorker]
    /\ phase = "running"
    /\ used = [stamps |-> 1, coarse |-> 0, renames |-> 0, events |-> 0,
               failures |-> 0, lifetimes |-> 1]
    /\ told = {}
    /\ failed = {}
    /\ denied = {}
    /\ found = {}
    /\ again = {}
    /\ forgotten = {}

-----------------------------------------------------------------------------
(* Other processes.  The kernel queues an event for a close after writing, *)
(* an open and an exec; nothing is queued while the watcher is not running.*)

Tell(kind, f) ==
    /\ used.events < MaxEvents
    /\ events' = IF phase = "running"
                 THEN Append(events, [kind |-> kind, file |-> f]) ELSE events

Unused(f) ==
    /\ Named(f) = {}
    /\ \A i \in DOMAIN events : events[i].file # f
    /\ intake.file # f

(* A path gets new content; the stamp is new unless the clock is too       *)
(* coarse to tell.                                                         *)
CloseWrite(n, f, bad) ==
    /\ dir[n] = f \/ (dir[n] = NoFile /\ Unused(f))
    /\ Tell("write", f)
    /\ dir' = [dir EXCEPT ![n] = f]
    /\ \/ /\ used.stamps < MaxStamps
          /\ file' = [file EXCEPT ![f] = [stamp |-> used.stamps + 1, bad |-> bad]]
          /\ used' = [used EXCEPT !.stamps = @ + 1, !.events = @ + 1]
       \/ /\ used.coarse < MaxCoarse
          /\ dir[n] = f
          /\ file' = [file EXCEPT ![f].bad = bad]
          /\ used' = [used EXCEPT !.coarse = @ + 1, !.events = @ + 1]
    /\ UNCHANGED <<cache, saved, queue, intake, worker, phase, history>>

Use(n, kind) ==
    /\ dir[n] # NoFile
    /\ Tell(kind, dir[n])
    /\ used' = [used EXCEPT !.events = @ + 1]
    /\ UNCHANGED <<dir, file, cache, saved, queue, intake, worker, phase,
                   history>>

(* No event tells of a rename: the new path is looked at when it is opened.*)
Rename(n, m) ==
    /\ used.renames < MaxRenames
    /\ n # m
    /\ dir[n] # NoFile
    /\ dir' = [dir EXCEPT ![m] = dir[n], ![n] = NoFile]
    /\ used' = [used EXCEPT !.renames = @ + 1]
    /\ told' = {t \in told : t[1] # n}
    /\ UNCHANGED <<file, events, cache, saved, queue, intake, worker, phase,
                   failed, denied, found, again, forgotten>>

-----------------------------------------------------------------------------
(* The cache.                                                              *)

Keeping(S) == [k \in Keys |-> IF k \in S THEN cache[k] ELSE "none"]

(* cache_put: over budget, an arbitrary half goes first.                   *)
Put(k, v) ==
    {[c EXCEPT ![k] = v] :
        c \in IF Cardinality(Entries) + 1 > BUDGET
              THEN {Keeping(S) : S \in {T \in SUBSET Entries :
                        Cardinality(Entries \ T) = Cardinality(Entries) \div 2}}
              ELSE {cache}}

Forgets(c) ==
    forgotten' = forgotten \cup {k \in Keys : cache[k] = "infected" /\ c[k] # "infected"}

(* What the engine says of the content a path has now.                     *)
Outcomes(n) ==
    (IF dir[n] = NoFile THEN {"gone"}
     ELSE {IF file[dir[n]].bad THEN "infected" ELSE "clean"})
    \cup (IF used.failures < MaxFailures THEN {"error", "skipped"} ELSE {})

Scanned(outcome) ==
    used' = IF outcome \in {"error", "skipped"}
            THEN [used EXCEPT !.failures = @ + 1] ELSE used

(* Somebody has a verdict for key k of path n; or the path is handed over, *)
(* unless the inode was renamed away from it since the event.              *)
Judged(n, k) == told' = told \ {<<n, k>>}
Handed(n, k) == told' = told \cup {t \in {<<n, k>>} : dir[n] = k[1]}

-----------------------------------------------------------------------------
(* intake_event: the next event, resolved to the path the inode has now.   *)

Event(kind, f, n) ==
    /\ phase = "running"
    /\ intake.at = "idle"
    /\ events # <<>>
    /\ Head(events) = [kind |-> kind, file |-> f]
    /\ dir[n] = f
    /\ events' = Tail(events)
    /\ UNCHANGED <<dir, file, cache, saved, worker, phase>>

(* The file is gone: an exec is allowed, a write or an open is forgotten.  *)
Vanished ==
    /\ phase = "running"
    /\ intake.at = "idle"
    /\ events # <<>>
    /\ Named(Head(events).file) = {}
    /\ events' = Tail(events)
    /\ UNCHANGED <<dir, file, cache, saved, queue, intake, worker, phase, used,
                   history>>

Written(f, n) ==
    /\ Event("write", f, n)
    /\ waiting' = waiting \cup {n}
    /\ Handed(n, Key(f))
    /\ UNCHANGED <<followups, intake, used, failed, denied, found, again, forgotten>>

(* Cache-first read check.                                                 *)
Opened(f, n) ==
    /\ Event("open", f, n)
    /\ IF cache[Key(f)] = "none"
       THEN waiting' = waiting \cup {n} /\ Handed(n, Key(f))
       ELSE UNCHANGED <<waiting, told>>
    /\ UNCHANGED <<followups, intake, used, failed, denied, found, again, forgotten>>

ForgetsFollowUp(n) == followups
FollowUp(n) == Append(followups, n)

(* The answer DENY; its bookkeeping is left to a worker.                   *)
Deny(n, k) ==
    /\ followups' = FollowUp(n)
    /\ denied' = denied \cup {<<n, k>>}
    /\ UNCHANGED waiting

(* The answer ALLOW without a verdict: the path is scanned later.          *)
RequeuesNothing(n) == waiting
Requeue(n) == waiting \cup {n}
FailOpen(n, k) ==
    /\ waiting' = Requeue(n)
    /\ Handed(n, k)
    /\ UNCHANGED <<followups, denied>>

ExecKnown(f, n) ==
    /\ Event("exec", f, n)
    /\ cache[Key(f)] # "none"
    /\ IF cache[Key(f)] = "infected" THEN Deny(n, Key(f))
       ELSE UNCHANGED <<queue, denied>>
    /\ UNCHANGED <<intake, used, told, failed, found, again, forgotten>>

(* The verdict budget of the batch is spent.                               *)
ExecOverBudget(f, n) ==
    /\ Event("exec", f, n)
    /\ cache[Key(f)] = "none"
    /\ FailOpen(n, Key(f))
    /\ UNCHANGED <<intake, used, failed, found, again, forgotten>>

ExecAsk(f, n) ==
    /\ Event("exec", f, n)
    /\ cache[Key(f)] = "none"
    /\ intake' = [at |-> "scan", file |-> f, name |-> n, key |-> Key(f),
                  outcome |-> "none"]
    /\ UNCHANGED <<queue, used, history>>

GateScan ==
    /\ intake.at = "scan"
    /\ \E o \in Outcomes(intake.name) :
          /\ intake' = [intake EXCEPT !.at = "answer", !.outcome = o]
          /\ Scanned(o)
    /\ UNCHANGED <<fs, cache, saved, queue, worker, phase, history>>

GateAnswer ==
    /\ intake.at = "answer"
    /\ CASE intake.outcome = "clean" ->
              /\ cache' \in Put(intake.key, "clean")
              /\ Judged(intake.name, intake.key)
              /\ UNCHANGED <<queue, denied>>
         [] intake.outcome = "infected" ->
              /\ cache' \in Put(intake.key, "infected")
              /\ Judged(intake.name, intake.key)
              /\ Deny(intake.name, intake.key)
         [] intake.outcome = "skipped" ->
              UNCHANGED <<cache, queue, told, denied>>
         [] intake.outcome \in {"error", "gone"} ->
              FailOpen(intake.name, intake.key) /\ UNCHANGED cache
    /\ Forgets(cache')
    /\ intake' = IdleIntake
    /\ UNCHANGED <<fs, saved, worker, phase, used, failed, found, again>>

-----------------------------------------------------------------------------
(* The workers.                                                            *)

Goes(w, to) == worker' = [worker EXCEPT ![w] = to]

Rest(w) == IdleWorker

(* pop: follow-ups first.                                                  *)
TakeFollowUp(w) ==
    /\ phase = "running"
    /\ worker[w].at = "idle"
    /\ followups # <<>>
    /\ followups' = Tail(followups)
    /\ Goes(w, [IdleWorker EXCEPT !.at = "act", !.name = Head(followups),
                                  !.kind = "denied"])
    /\ UNCHANGED <<fs, cache, saved, waiting, intake, phase, used, history>>

TakeScan(w, n) ==
    /\ phase = "running"
    /\ worker[w].at = "idle"
    /\ followups = <<>>
    /\ n \in waiting
    /\ waiting' = waiting \ {n}
    /\ Goes(w, [IdleWorker EXCEPT !.at = "look", !.name = n])
    /\ UNCHANGED <<fs, cache, saved, followups, intake, phase, used, history>>

(* scan_one up to the cache lookup.                                        *)
Look(w) ==
    /\ worker[w].at = "look"
    /\ LET n == worker[w].name
           f == dir[n]
       IN IF f = NoFile
          THEN Goes(w, Rest(w)) /\ UNCHANGED told
          ELSE IF cache[Key(f)] # "none"
          THEN Goes(w, Rest(w)) /\ Judged(n, Key(f))
          ELSE /\ Goes(w, [worker[w] EXCEPT !.at = "scan", !.key = Key(f)])
               /\ UNCHANGED told
    /\ UNCHANGED <<fs, cache, saved, queue, intake, phase, used, failed,
                   denied, found, again, forgotten>>

(* The engine's answer; at shutdown the connection may be cut.             *)
Scan(w) ==
    /\ worker[w].at = "scan"
    /\ \/ \E o \in Outcomes(worker[w].name) :
             /\ Goes(w, [worker[w] EXCEPT !.at = "settle", !.outcome = o])
             /\ Scanned(o)
       \/ /\ phase = "stopping"
          /\ Goes(w, [worker[w] EXCEPT !.at = "settle", !.outcome = "error"])
          /\ UNCHANGED used
    /\ UNCHANGED <<fs, cache, saved, queue, intake, phase, history>>

(* The verdict goes under the key of the content before the scan.          *)
StatAfterScan(w) ==
    IF dir[worker[w].name] = NoFile THEN worker[w].key
    ELSE Key(dir[worker[w].name])
StatBeforeScan(w) == worker[w].key

(* Check and set: the first scan of a version to find it infected acts.    *)
ActsAgain(k) == TRUE
FirstToFind(k) == cache[k] # "infected"

SettleInfected(w) ==
    /\ worker[w].at = "settle"
    /\ worker[w].outcome = "infected"
    /\ LET k == StatBeforeScan(w)
       IN /\ Judged(worker[w].name, worker[w].key)
          /\ IF FirstToFind(k)
             THEN /\ cache' = [cache EXCEPT ![k] = "infected"]
                  /\ Goes(w, [worker[w] EXCEPT !.at = "act", !.kind = "detected"])
                  /\ found' = found \cup {k}
                  /\ again' = again \cup ({k} \cap found)
             ELSE Goes(w, Rest(w)) /\ UNCHANGED <<cache, found, again>>
    /\ UNCHANGED <<fs, saved, queue, intake, phase, used, failed, denied, forgotten>>

SettleClean(w) ==
    /\ worker[w].at = "settle"
    /\ worker[w].outcome = "clean"
    /\ cache' \in Put(StatBeforeScan(w), "clean")
    /\ Forgets(cache')
    /\ Judged(worker[w].name, worker[w].key)
    /\ Goes(w, Rest(w))
    /\ UNCHANGED <<fs, saved, queue, intake, phase, used, failed, denied, found,
                   again>>

(* The path is not queued again.                                           *)
SettleFailed(w) ==
    /\ worker[w].at = "settle"
    /\ worker[w].outcome \in {"error", "skipped", "gone"}
    /\ failed' = IF worker[w].outcome = "gone" THEN failed
                 ELSE failed \cup {<<worker[w].name, worker[w].key>>}
    /\ Goes(w, Rest(w))
    /\ UNCHANGED <<fs, cache, saved, queue, intake, phase, used, told, denied,
                   found, again, forgotten>>

(* handle_detection: nothing to do if the path is gone, else a threat row, *)
(* and the file is moved away if so configured.                            *)
Act(w) ==
    /\ worker[w].at = "act"
    /\ Goes(w, IF dir[worker[w].name] # NoFile /\ AutoQuarantine
               THEN [worker[w] EXCEPT !.at = "move"] ELSE Rest(w))
    /\ denied' = {d \in denied : d[1] # worker[w].name}
    /\ found' = found \cup {d[2] : d \in denied \ denied'}
    /\ UNCHANGED <<fs, cache, saved, queue, intake, phase, used, told, failed,
                   again, forgotten>>

(* Quarantine::put; if it fails the file stays where it is.                *)
Move(w) ==
    /\ worker[w].at = "move"
    /\ dir' \in {dir, [dir EXCEPT ![worker[w].name] = NoFile]}
    /\ Goes(w, Rest(w))
    /\ UNCHANGED <<file, events, cache, saved, queue, intake, phase, used,
                   history>>

-----------------------------------------------------------------------------
(* The cache file, stop, crash and start.                                  *)

(* What is saved matters only to a later lifetime.                         *)
SaveCache ==
    /\ phase = "running"
    /\ used.lifetimes < MaxLifetimes
    /\ saved' = cache
    /\ UNCHANGED <<fs, cache, queue, intake, worker, phase, used, history>>

(* The descriptor is closed: the kernel lets the waiting execs go.         *)
Stop ==
    /\ phase = "running"
    /\ intake.at = "idle"
    /\ phase' = "stopping"
    /\ events' = <<>>
    /\ UNCHANGED <<dir, file, cache, saved, queue, intake, worker, used,
                   history>>

(* drain_paths and persist, after which the workers are idle: a follow-up  *)
(* becomes a path.                                                         *)
Down ==
    /\ phase = "stopping"
    /\ \A w \in Workers : worker[w].at = "idle"
    /\ phase' = "down"
    /\ waiting' = waiting \cup Elems(followups)
    /\ followups' = <<>>
    /\ saved' = cache
    /\ UNCHANGED <<fs, cache, intake, worker, used, history>>

Start ==
    /\ phase = "down"
    /\ used.lifetimes < MaxLifetimes
    /\ phase' = "running"
    /\ cache' = saved
    /\ Forgets(saved)
    /\ used' = [used EXCEPT !.lifetimes = @ + 1]
    /\ UNCHANGED <<fs, saved, queue, intake, worker, told, failed, denied, found, again>>

(* What waits in memory is lost, what is in the database stays.            *)
Crash ==
    /\ phase # "down"
    /\ used.lifetimes < MaxLifetimes
    /\ waiting' \in SUBSET waiting
    /\ followups' = <<>>
    /\ events' = <<>>
    /\ intake' = IdleIntake
    /\ worker' = [w \in Workers |-> IdleWorker]
    /\ phase' = "down"
    /\ cache' = saved
    /\ Forgets(saved)
    /\ told' = {t \in told : t[1] \in waiting'}
    /\ denied' = {}
    /\ UNCHANGED <<dir, file, saved, used, failed, found, again>>

-----------------------------------------------------------------------------

Others ==
    \/ \E n \in Names, f \in Files, bad \in BOOLEAN : CloseWrite(n, f, bad)
    \/ \E n \in Names, kind \in {"open", "exec"} : Use(n, kind)
    \/ \E n, m \in Names : Rename(n, m)

IntakeStep ==
    \/ Vanished
    \/ \E f \in Files, n \in Names :
          \/ Written(f, n)
          \/ Opened(f, n)
          \/ ExecKnown(f, n)
          \/ ExecOverBudget(f, n)
          \/ ExecAsk(f, n)
    \/ GateScan
    \/ GateAnswer

WorkerStep(w) ==
    \/ TakeFollowUp(w)
    \/ \E n \in Names : TakeScan(w, n)
    \/ Look(w)
    \/ Scan(w)
    \/ SettleInfected(w)
    \/ SettleClean(w)
    \/ SettleFailed(w)
    \/ Act(w)
    \/ Move(w)

Next ==
    \/ Others
    \/ IntakeStep
    \/ \E w \in Workers : WorkerStep(w)
    \/ SaveCache
    \/ Stop
    \/ Down
    \/ Start
    \/ Crash

Spec == Init /\ [][Next]_vars

(* The intake thread and the workers keep running; a scan ends with its    *)
(* read timeout at the latest.                                             *)
Fairness == WF_vars(IntakeStep) /\ \A w \in Workers : WF_vars(WorkerStep(w))

FairSpec == Spec /\ Fairness

-----------------------------------------------------------------------------
(* Properties.                                                             *)

Outcome == {"none", "clean", "infected", "error", "skipped", "gone"}
SomeKey == Keys \cup {NoKey}

(* Every variable has its type, and a thread has a path, a key and an      *)
(* outcome exactly from where its code has them.                           *)
TypeOK ==
    /\ dir \in [Names -> Files \cup {NoFile}]
    /\ file \in [Files -> [stamp : 1..MaxStamps, bad : BOOLEAN]]
    /\ events \in Seq([kind : {"write", "open", "exec"}, file : Files])
    /\ cache \in [Keys -> Verdicts]
    /\ saved \in [Keys -> Verdicts]
    /\ waiting \subseteq Names
    /\ followups \in Seq(Names)
    /\ intake \in [at : {"idle", "scan", "answer"}, file : Files \cup {NoFile},
                   name : Names \cup {NoName}, key : SomeKey, outcome : Outcome]
    /\ intake.at = "idle" <=> intake.name = NoName
    /\ worker \in [Workers ->
          [at : {"idle", "look", "scan", "settle", "act", "move"},
           name : Names \cup {NoName}, key : SomeKey, outcome : Outcome,
           kind : {"none", "denied", "detected"}]]
    /\ \A w \in Workers :
          /\ worker[w].at = "idle" <=> worker[w].name = NoName
          /\ worker[w].at \in {"scan", "settle"} => worker[w].key \in Keys
          /\ worker[w].kind # "none" <=> worker[w].at \in {"act", "move"}
    /\ phase \in {"running", "stopping", "down"}
    /\ used \in [stamps : Nat, coarse : Nat, renames : Nat, events : Nat,
                 failures : Nat, lifetimes : Nat]
    /\ told \subseteq Names \X Keys
    /\ failed \subseteq Names \X Keys
    /\ denied \subseteq Names \X Keys
    /\ found \subseteq SomeKey
    /\ again \subseteq SomeKey
    /\ forgotten \subseteq Keys

(* The path still has the content that the key stands for.                 *)
Current(n, k) == dir[n] # NoFile /\ Key(dir[n]) = k

(* A verdict the gate or a lookup would use is the one the engine has for  *)
(* the content that is there ("a rewrite mid-scan invalidates itself"):    *)
(* threads that read the key, ask the engine by path later and write the   *)
(* verdict later still must not mix two contents up, nor must a restart    *)
(* from the saved cache. A file whose exec was denied and that has not     *)
(* changed is infected. Two things the key cannot tell are excepted: a     *)
(* rename between key and scan, and a rewrite that keeps second and size.  *)
VerdictsAreTrue ==
    used.renames = 0 /\ used.coarse = 0 =>
       /\ \A n \in Names :
             dir[n] # NoFile /\ cache[Key(dir[n])] # "none"
                => (cache[Key(dir[n])] = "infected") = file[dir[n]].bad
       /\ \A d \in denied : Current(d[1], d[2]) => file[dir[d[1]]].bad

(* CacheIsSound: no interleaving of the gate, the workers, the save and    *)
(* the others who write puts a verdict beside the wrong content            *)
(* (realtime.rs exec_verdict, scan_one).                                   *)
CacheIsSound == TypeOK /\ VerdictsAreTrue

AtWork(n, k) ==
    \E w \in Workers :
       /\ worker[w].name = n
       /\ \/ worker[w].at = "look"
          \/ worker[w].at \in {"scan", "settle"} /\ worker[w].key = k

(* Content that was handed over by a write, a cache-miss open or an exec   *)
(* that the gate let through unchecked, and that is still there, is judged *)
(* or its path is waiting or being worked on; only a failed, skipped or    *)
(* interrupted scan drops it.                                              *)
Covered ==
    \A t \in told \ failed :
       Current(t[1], t[2]) => t[1] \in waiting \/ AtWork(t[1], t[2])

(* "A DENY's follow-up must not be lost" (realtime.rs push_gate_detection): *)
(* after a denied exec the path is on its way to a threat record for as    *)
(* long as the denied content is there.                                    *)
DenyFollowedUp ==
    \A d \in denied :
       Current(d[1], d[2]) =>
          \/ d[1] \in Elems(followups) \cup waiting
          \/ \E w \in Workers : worker[w].name = d[1]

(* As far as the code goes: it holds until a restart.                      *)
DenyFollowedUpInLife == used.lifetimes = 1 => DenyFollowedUp

(* An infected verdict hides its file from every later scan, so somebody   *)
(* must have acted on it: the worker that put it into the cache, or, when  *)
(* the gate did, the one that has or gets the follow-up.  As far as the    *)
(* code goes: until a restart.                                             *)
AtLeastOne ==
    used.lifetimes = 1 /\ phase # "down" =>
       \A k \in Keys : cache[k] = "infected" =>
          \/ k \in found
          \/ \E d \in denied :
                /\ d[2] = k
                /\ \/ d[1] \in Elems(followups)
                   \/ \E w \in Workers : worker[w].name = d[1] /\ worker[w].at = "act"

(* No scan passes for a detection once a version was acted on, unless its  *)
(* verdict left the cache in between: evicted, replaced by the clean       *)
(* verdict of a scan that overlapped a rewrite the key does not show, or   *)
(* not saved before a crash.  (A denied exec is followed up each time.)    *)
AtMostOne == again \subseteq forgotten

(* OneDetection: "concurrent scans of the same file version must produce   *)
(* exactly one detection" (realtime.rs scan_one), whichever of the workers *)
(* and the gate settles first, and whatever is evicted around them.        *)
OneDetection == AtLeastOne /\ AtMostOne

(* A worker gets to everything that is handed over: as long as the watcher *)
(* runs there is always a later moment at which all content that was       *)
(* handed over and stays has been judged or dropped by a failed scan (the  *)
(* events being bounded; live traffic without end is the queue's matter).  *)
HandedIsJudged ==
    []<>(phase # "running" \/ \A t \in told \ failed : ~Current(t[1], t[2]))
=============================================================================
