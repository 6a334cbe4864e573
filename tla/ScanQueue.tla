------------------------------ MODULE ScanQueue ------------------------------
(***************************************************************************)
(* The scan queue of the real-time watcher (crates/karibad/src/realtime.rs *)
(* `ScanQueue`), with the threads that share it during one generation of   *)
(* the watcher and across restarts of the daemon:                          *)
(*                                                                         *)
(*   - the intake thread pushes paths from file events and, when its loop  *)
(*     ends, runs the shutdown sequence at the end of `run`;               *)
(*   - the housekeeping thread moves the spill buffer into the database    *)
(*     and pushes churn paths whose cooldown has elapsed;                  *)
(*   - the sweep thread spills the paths it walks into the database;       *)
(*   - the workers pop tasks, refilling the backlog from the database.     *)
(*                                                                         *)
(* One action is one critical section of the mutex it runs under (`inner`, *)
(* `spill_buf` or the database), so everything another thread can do       *)
(* between two critical sections is a step of its own.                     *)
(*                                                                         *)
(* The database outlives a generation; the rest is memory.  The spill      *)
(* buffer, the rows of pending_scans and the backlog are sets: the order   *)
(* in which stale work is taken is not part of any property here, so a     *)
(* worker may take any of it.  The live lanes keep their order, because    *)
(* the code pops work at the front and overflow victims at the back.       *)
(***************************************************************************)
EXTENDS Integers, Sequences, FiniteSets

CONSTANTS
    Paths,           \* the files that events name
    NoPath,          \* "no path", for a thread that holds none
    Workers,         \* the scan worker threads
    Intake, Hk,      \* the two threads that call push_scan
    MEM_QUEUE_CAP,   \* in-memory cap of the live lanes
    DB_BATCH,        \* rows a worker takes from the database at once
    LaneOf,          \* the lane `classify` gives a path
    MaxPushes,       \* bound: calls that hand the queue work, over all lifetimes
    MaxLifetimes     \* bound: generations of the watcher

Lanes == {"exec", "data", "media"}
Lane == Lanes \cup {"churn"}
Pushers == {Intake, Hk}

ASSUME PathsAssumption == NoPath \notin Paths
ASSUME CapAssumption == MEM_QUEUE_CAP \in Nat \ {0}
ASSUME BatchAssumption == DB_BATCH \in Nat \ {0}
ASSUME LaneAssumption == LaneOf \in [Paths -> Lane]
ASSUME PushersAssumption == Intake # Hk
ASSUME BoundsAssumption == MaxPushes \in Nat /\ MaxLifetimes \in Nat \ {0}

VARIABLES
    gate,        \* queue.inner.gate: DENY follow-ups, by path
    lanes,       \* queue.inner.exec/data/media
    backlog,     \* queue.inner.backlog
    queued,      \* queue.inner.queued: the dedup set
    spill_buf,   \* queue.spill_buf
    pending,     \* the pending_scans table
    push,        \* where each pusher is inside push_scan
    hk,          \* housekeeping thread: control point and batch in hand
    worker,      \* each worker: control point, batch and path in hand
    sweeping,    \* the sweep thread has not ended
    main,        \* control point of the intake thread (`run`)
    salvage,     \* the paths `run` is about to persist
    exit,        \* the generation's exit flag
    pushes,      \* calls so far (bounded)
    lifetime,    \* generations started so far (bounded)
    owed,        \* history: paths handed to the queue, not yet popped since
    stuck        \* history: paths whose overflowing push coalesced with itself

inner == <<gate, lanes, backlog, queued>>
threads == <<push, hk, worker, sweeping, main, salvage, exit>>
bounds == <<pushes, lifetime>>
history == <<owed, stuck>>
vars == <<gate, lanes, backlog, queued, spill_buf, pending, push, hk, worker,
          sweeping, main, salvage, exit, pushes, lifetime, owed, stuck>>

-----------------------------------------------------------------------------
(* Sequences as the queue uses them.                                       *)

Elems(s) == {s[i] : i \in DOMAIN s}
Front(s) == SubSeq(s, 1, Len(s) - 1)
Last(s) == s[Len(s)]
NoDuplicates(s) == \A i, j \in DOMAIN s : s[i] = s[j] => i = j

InLanes == Elems(lanes["exec"]) \cup Elems(lanes["data"]) \cup Elems(lanes["media"])
Total == Len(lanes["exec"]) + Len(lanes["data"]) + Len(lanes["media"])

IdlePush == [at |-> "none", path |-> NoPath, lane |-> "data", victim |-> NoPath]
IdleHk == [at |-> "sleep", batch |-> {}]
IdleWorker == [at |-> "pop", batch |-> {}, path |-> NoPath]

Init ==
    /\ gate = <<>>
    /\ lanes = [l \in Lanes |-> <<>>]
    /\ backlog = {}
    /\ queued = {}
    /\ spill_buf = {}
    /\ pending = {}
    /\ push = [t \in Pushers |-> IdlePush]
    /\ hk = IdleHk
    /\ worker = [w \in Workers |-> IdleWorker]
    /\ sweeping = TRUE
    /\ main = "events"
    /\ salvage = {}
    /\ exit = FALSE
    /\ pushes = 0
    /\ lifetime = 1
    /\ owed = {}
    /\ stuck = {}

-----------------------------------------------------------------------------
(* push_scan.  A churn path waits in the data lane.                        *)

Slot(l) == IF l = "churn" THEN "data" ELSE l

(* The lane that gives up its newest entry: media, then data, then exec.   *)
VictimLane ==
    IF lanes["media"] # <<>> THEN "media"
    ELSE IF lanes["data"] # <<>> THEN "data" ELSE "exec"

AtCapOffByOne == Total > MEM_QUEUE_CAP
AtCap == Total >= MEM_QUEUE_CAP

Returned(t) == push' = [push EXCEPT ![t] = IdlePush]

(* The path is in `queued`: the call returns at once.                      *)
PushCoalesced(t, p, l) ==
    /\ p \in queued
    /\ Returned(t)
    /\ UNCHANGED <<lanes, queued>>

PushQueued(t, p, l) ==
    /\ p \notin queued
    /\ ~AtCap
    /\ lanes' = [lanes EXCEPT ![Slot(l)] = Append(@, p)]
    /\ queued' = queued \cup {p}
    /\ Returned(t)

(* The victim may be queued again, the new path is queued from here on.    *)
DedupAtCapKeepsVictim(p, victim) == queued \cup {p}
DedupAtCap(p, victim) == (queued \cup {p}) \ {victim}

(* At the cap: the dedup entry of p is already made when the victim leaves *)
(* its lane, and the mutex is released before the victim is buffered.  The *)
(* branch for "over the cap with every lane empty" needs a cap of zero.    *)
PushOverflow(t, p, l) ==
    /\ p \notin queued
    /\ AtCap
    /\ LET v == VictimLane
           victim == Last(lanes[v])
       IN /\ lanes' = [lanes EXCEPT ![v] = Front(@)]
          /\ queued' = DedupAtCap(p, victim)
          /\ push' = [push EXCEPT ![t] = [at |-> "victim", path |-> p,
                                          lane |-> l, victim |-> victim]]

PushScan(t, p, l) ==
    \/ PushCoalesced(t, p, l)
    \/ PushQueued(t, p, l)
    \/ PushOverflow(t, p, l)

(* The victim reaches the spill buffer.                                    *)
PushSpill(t) ==
    /\ push[t].at = "victim"
    /\ spill_buf' = spill_buf \cup {push[t].victim}
    /\ push' = [push EXCEPT ![t].at = "again", ![t].victim = NoPath]
    /\ UNCHANGED <<inner, pending, hk, worker, sweeping, main, salvage, exit,
                   bounds, history>>

(* push_scan calls itself with the path it came for.                       *)
PushAgain(t) ==
    /\ push[t].at = "again"
    /\ PushScan(t, push[t].path, push[t].lane)
    /\ stuck' = IF push[t].path \in queued THEN stuck \cup {push[t].path}
                ELSE stuck
    /\ UNCHANGED <<gate, backlog, spill_buf, pending, hk, worker, sweeping,
                   main, salvage, exit, bounds, owed>>

-----------------------------------------------------------------------------
(* Intake: a close-write or open event queues its path in the lane of      *)
(* `classify`, an exec the gate let through unchecked in the exec lane; a  *)
(* denied exec leaves its follow-up at the front of the line.              *)

IntakePush(p, l) ==
    /\ main = "events"
    /\ push[Intake].at = "none"
    /\ pushes < MaxPushes
    /\ l \in {LaneOf[p], "exec"}
    /\ PushScan(Intake, p, l)
    /\ pushes' = pushes + 1
    /\ owed' = owed \cup {p}
    /\ UNCHANGED <<gate, backlog, spill_buf, pending, hk, worker, sweeping,
                   main, salvage, exit, lifetime, stuck>>

PushGateDetection(p) ==
    /\ main = "events"
    /\ push[Intake].at = "none"
    /\ pushes < MaxPushes
    /\ gate' = Append(gate, p)
    /\ pushes' = pushes + 1
    /\ UNCHANGED <<lanes, backlog, queued, spill_buf, pending, threads,
                   lifetime, history>>

-----------------------------------------------------------------------------
(* Housekeeping: take the spill buffer, write it to the database, flush    *)
(* the churn paths that are due, sleep.                                    *)

HkTake ==
    /\ hk.at = "sleep"
    /\ ~exit
    /\ hk' = [at |-> "write", batch |-> spill_buf]
    /\ spill_buf' = {}
    /\ UNCHANGED <<inner, pending, push, worker, sweeping, main, salvage,
                   exit, bounds, history>>

HkWrite ==
    /\ hk.at = "write"
    /\ pending' = pending \cup hk.batch
    /\ hk' = [at |-> "flush", batch |-> {}]
    /\ UNCHANGED <<inner, spill_buf, push, worker, sweeping, main, salvage,
                   exit, bounds, history>>

HkPush(p) ==
    /\ hk.at = "flush"
    /\ push[Hk].at = "none"
    /\ pushes < MaxPushes
    /\ LaneOf[p] = "churn"
    /\ PushScan(Hk, p, "churn")
    /\ pushes' = pushes + 1
    /\ owed' = owed \cup {p}
    /\ UNCHANGED <<gate, backlog, spill_buf, pending, hk, worker, sweeping,
                   main, salvage, exit, lifetime, stuck>>

HkSleep ==
    /\ hk.at = "flush"
    /\ push[Hk].at = "none"
    /\ hk' = IdleHk
    /\ UNCHANGED <<inner, spill_buf, pending, push, worker, sweeping, main,
                   salvage, exit, bounds, history>>

HkEnd ==
    /\ hk.at = "sleep"
    /\ exit
    /\ hk' = [hk EXCEPT !.at = "done"]
    /\ UNCHANGED <<inner, spill_buf, pending, push, worker, sweeping, main,
                   salvage, exit, bounds, history>>

-----------------------------------------------------------------------------
(* Catch-up sweep: the paths it walks go straight to the database; when it *)
(* sees the exit flag it flushes what it has and ends.                     *)

SweepSpill(p) ==
    /\ sweeping
    /\ pushes < MaxPushes
    /\ pending' = pending \cup {p}
    /\ pushes' = pushes + 1
    /\ owed' = owed \cup {p}
    /\ UNCHANGED <<inner, spill_buf, threads, lifetime, stuck>>

SweepEnd ==
    /\ sweeping
    /\ exit
    /\ sweeping' = FALSE
    /\ UNCHANGED <<inner, spill_buf, pending, push, hk, worker, main, salvage,
                   exit, bounds, history>>

-----------------------------------------------------------------------------
(* The exit flag, as every turn of the loop in `pop` reads it.             *)
StopsOnceBacklogIsDone == exit /\ backlog = {}
Stops == exit

(* The dedup entry goes before the scan: a write during the scan queues    *)
(* the path again.                                                         *)
KeepsDedupEntry(q, p) == q
DropsDedupEntry(q, p) == q \ {p}

(* pop.  TakeNext is the loop body under `inner`, starting from the        *)
(* backlog b and the dedup set q; the lock is held from the insertion of a *)
(* batch to the next task, so the exit flag is read again in between.      *)

TakeNone(w, b, q) ==
    /\ Stops
    /\ worker' = [worker EXCEPT ![w] = [IdleWorker EXCEPT !.at = "done"]]
    /\ backlog' = b
    /\ queued' = q
    /\ UNCHANGED <<gate, lanes, owed>>

TakeGate(w, b, q) ==
    /\ ~Stops
    /\ gate # <<>>
    /\ worker' = [worker EXCEPT ![w] = [at |-> "detect", batch |-> {},
                                        path |-> Head(gate)]]
    /\ gate' = Tail(gate)
    /\ backlog' = b
    /\ queued' = q
    /\ UNCHANGED <<lanes, owed>>

Scanning(w, p, q) ==
    /\ worker' = [worker EXCEPT ![w] = [at |-> "scan", batch |-> {}, path |-> p]]
    /\ queued' = DropsDedupEntry(q, p)
    /\ owed' = owed \ {p}

TakeLive(w, l, b, q) ==
    /\ ~Stops
    /\ gate = <<>>
    /\ lanes[l] # <<>>
    /\ l = "data" => lanes["exec"] = <<>>
    /\ l = "media" => lanes["exec"] = <<>> /\ lanes["data"] = <<>>
    /\ Scanning(w, Head(lanes[l]), q)
    /\ lanes' = [lanes EXCEPT ![l] = Tail(@)]
    /\ backlog' = b
    /\ UNCHANGED gate

TakeBacklog(w, p, b, q) ==
    /\ ~Stops
    /\ gate = <<>>
    /\ \A l \in Lanes : lanes[l] = <<>>
    /\ p \in b
    /\ Scanning(w, p, q)
    /\ backlog' = b \ {p}
    /\ UNCHANGED <<gate, lanes>>

(* Nothing in memory: the lock is dropped to ask the database.             *)
TakeFetch(w, b, q) ==
    /\ ~Stops
    /\ gate = <<>>
    /\ \A l \in Lanes : lanes[l] = <<>>
    /\ b = {}
    /\ worker' = [worker EXCEPT ![w] = [IdleWorker EXCEPT !.at = "fetch"]]
    /\ backlog' = b
    /\ queued' = q
    /\ UNCHANGED <<gate, lanes, owed>>

TakeNext(w, b, q) ==
    \/ TakeNone(w, b, q)
    \/ TakeGate(w, b, q)
    \/ \E l \in Lanes : TakeLive(w, l, b, q)
    \/ \E p \in Paths : TakeBacklog(w, p, b, q)
    \/ TakeFetch(w, b, q)

PopTask(w) ==
    /\ worker[w].at = "pop"
    /\ TakeNext(w, backlog, queued)
    /\ UNCHANGED <<spill_buf, pending, push, hk, sweeping, main, salvage,
                   exit, bounds, stuck>>

(* take_pending: select up to DB_BATCH rows and delete them.               *)
FullBatches == {rows \in SUBSET pending : Cardinality(rows) = DB_BATCH}
Batches ==
    {rows \in SUBSET pending :
        \/ rows = pending /\ Cardinality(rows) <= DB_BATCH
        \/ Cardinality(rows) = DB_BATCH}

TakePending(w) ==
    /\ worker[w].at = "fetch"
    /\ \E rows \in Batches :
          /\ worker' = [worker EXCEPT ![w] = [at |-> "insert", batch |-> rows,
                                              path |-> NoPath]]
          /\ pending' = pending \ rows
    /\ UNCHANGED <<inner, spill_buf, push, hk, sweeping, main, salvage, exit,
                   bounds, history>>

(* A batch row whose path is already queued is dropped for the entry that  *)
(* is there.                                                               *)
Fresh(batch) == batch \ queued

InsertBatch(w) ==
    /\ worker[w].at = "insert"
    /\ worker[w].batch # {}
    /\ LET fresh == Fresh(worker[w].batch)
       IN TakeNext(w, backlog \cup fresh, queued \cup fresh)
    /\ UNCHANGED <<spill_buf, pending, push, hk, sweeping, main, salvage,
                   exit, bounds, stuck>>

(* No rows either: wait on the condition variable, at most one timeout.    *)
WaitForWork(w) ==
    /\ worker[w].at = "insert"
    /\ worker[w].batch = {}
    /\ worker' = [worker EXCEPT ![w] = IdleWorker]
    /\ UNCHANGED <<inner, spill_buf, pending, push, hk, sweeping, main,
                   salvage, exit, bounds, history>>

(* The scan or the follow-up of a DENY ends, whatever its outcome.         *)
AfterTaskKeepsPath(w) == [worker[w] EXCEPT !.at = "pop"]
AfterTask(w) == IdleWorker

FinishTask(w) ==
    /\ worker[w].at \in {"scan", "detect"}
    /\ worker' = [worker EXCEPT ![w] = AfterTask(w)]
    /\ UNCHANGED <<inner, spill_buf, pending, push, hk, sweeping, main,
                   salvage, exit, bounds, history>>

-----------------------------------------------------------------------------
(* The end of `run`: signal the threads, join the helpers, drain, persist, *)
(* join the workers.                                                       *)

NotRaised == exit
Raised == TRUE

LeaveLoop ==
    /\ main = "events"
    /\ push[Intake].at = "none"
    /\ main' = "join_helpers"
    /\ exit' = Raised
    /\ UNCHANGED <<inner, spill_buf, pending, push, hk, worker, sweeping,
                   salvage, bounds, history>>

JoinHelpers ==
    /\ main = "join_helpers"
    /\ hk.at = "done"
    /\ ~sweeping
    /\ salvage' = spill_buf
    /\ spill_buf' = {}
    /\ main' = "drain"
    /\ UNCHANGED <<inner, pending, push, hk, worker, sweeping, exit, bounds,
                   history>>

LeftInLiveLanes == Elems(gate) \cup InLanes
Left == Elems(gate) \cup InLanes \cup backlog

(* A follow-up that is still in the gate lane is drained as a plain path.  *)
(* A stuck path is lost for good here: the dedup set goes.                 *)
DrainPaths ==
    /\ main = "drain"
    /\ salvage' = salvage \cup Left
    /\ gate' = <<>>
    /\ lanes' = [l \in Lanes |-> <<>>]
    /\ backlog' = {}
    /\ queued' = {}
    /\ owed' = (owed \cup Elems(gate)) \ stuck
    /\ stuck' = {}
    /\ main' = "persist"
    /\ UNCHANGED <<spill_buf, pending, push, hk, worker, sweeping, exit,
                   bounds>>

Persist ==
    /\ main = "persist"
    /\ pending' = pending \cup salvage
    /\ salvage' = {}
    /\ main' = "join_workers"
    /\ UNCHANGED <<inner, spill_buf, push, hk, worker, sweeping, exit, bounds,
                   history>>

JoinWorkers ==
    /\ main = "join_workers"
    /\ \A w \in Workers : worker[w].at = "done"
    /\ main' = "down"
    /\ UNCHANGED <<inner, spill_buf, pending, push, hk, worker, sweeping,
                   salvage, exit, bounds, history>>

(* A new generation: the database is what it was, everything else starts   *)
(* empty, and what the old generation still owed is what the database has. *)
NewGeneration ==
    /\ lifetime < MaxLifetimes
    /\ gate' = <<>>
    /\ lanes' = [l \in Lanes |-> <<>>]
    /\ backlog' = {}
    /\ queued' = {}
    /\ spill_buf' = {}
    /\ push' = [t \in Pushers |-> IdlePush]
    /\ hk' = IdleHk
    /\ worker' = [w \in Workers |-> IdleWorker]
    /\ sweeping' = TRUE
    /\ main' = "events"
    /\ salvage' = {}
    /\ exit' = FALSE
    /\ lifetime' = lifetime + 1
    /\ owed' = owed \cap pending
    /\ stuck' = {}
    /\ UNCHANGED <<pending, pushes>>

Start == main = "down" /\ NewGeneration

(* The process is killed and started again; committed rows survive.        *)
Crash == main # "down" /\ NewGeneration

-----------------------------------------------------------------------------

IntakeStep ==
    \/ \E p \in Paths, l \in Lane : IntakePush(p, l)
    \/ \E p \in Paths : PushGateDetection(p)

HkStep == HkTake \/ HkWrite \/ HkSleep \/ HkEnd

WorkerStep(w) ==
    PopTask(w) \/ TakePending(w) \/ InsertBatch(w) \/ WaitForWork(w) \/ FinishTask(w)

Shutdown == JoinHelpers \/ DrainPaths \/ Persist \/ JoinWorkers

Next ==
    \/ IntakeStep
    \/ \E t \in Pushers : PushSpill(t) \/ PushAgain(t)
    \/ HkStep
    \/ \E p \in Paths : HkPush(p)
    \/ \E p \in Paths : SweepSpill(p)
    \/ SweepEnd
    \/ \E w \in Workers : WorkerStep(w)
    \/ LeaveLoop
    \/ Shutdown
    \/ Start
    \/ Crash

Spec == Init /\ [][Next]_vars

(* Every thread the watcher started keeps running: nothing in them blocks  *)
(* for ever, a scan ends at the latest with its read timeout.  Events, the *)
(* end of the intake loop, crashes and restarts are up to the environment. *)
Fairness ==
    /\ \A t \in Pushers : WF_vars(PushSpill(t)) /\ WF_vars(PushAgain(t))
    /\ WF_vars(HkStep)
    /\ WF_vars(SweepEnd)
    /\ \A w \in Workers : WF_vars(WorkerStep(w))
    /\ WF_vars(Shutdown)

FairSpec == Spec /\ Fairness

-----------------------------------------------------------------------------
(* Properties.                                                             *)

PushState ==
    [at : {"none", "victim", "again"}, path : Paths \cup {NoPath},
     lane : Lane, victim : Paths \cup {NoPath}]
HkState == [at : {"sleep", "write", "flush", "done"}, batch : SUBSET Paths]
WorkerState ==
    [at : {"pop", "fetch", "insert", "scan", "detect", "done"},
     batch : SUBSET Paths, path : Paths \cup {NoPath}]

(* Every variable has its type, and a thread holds a path, a victim or a   *)
(* batch exactly where its code has one in a local variable.               *)
TypeOK ==
    /\ gate \in Seq(Paths)
    /\ lanes \in [Lanes -> Seq(Paths)]
    /\ backlog \subseteq Paths
    /\ queued \subseteq Paths
    /\ spill_buf \subseteq Paths
    /\ pending \subseteq Paths
    /\ push \in [Pushers -> PushState]
    /\ \A t \in Pushers : /\ push[t].at = "none" <=> push[t].path = NoPath
                          /\ push[t].at = "victim" <=> push[t].victim # NoPath
    /\ hk \in HkState
    /\ worker \in [Workers -> WorkerState]
    /\ \A w \in Workers :
          /\ worker[w].at \in {"scan", "detect"} <=> worker[w].path # NoPath
          /\ worker[w].batch # {} => worker[w].at = "insert"
    /\ sweeping \in BOOLEAN
    /\ main \in {"events", "join_helpers", "drain", "persist", "join_workers",
                 "down"}
    /\ salvage \subseteq Paths
    /\ exit \in BOOLEAN
    /\ pushes \in Nat
    /\ lifetime \in Nat
    /\ owed \subseteq Paths
    /\ stuck \subseteq Paths

(* The lanes never hold more than the cap, although two threads push and   *)
(* each lets go of the mutex in the middle of an overflow                  *)
(* (realtime.rs push_scan, the comment on MEM_QUEUE_CAP).                  *)
CapRespected == Total <= MEM_QUEUE_CAP

(* "Dedup'd": a path waits at most once in memory, whichever of the lanes  *)
(* and the backlog it came to through events, overflow or the database.    *)
QueuedOnce ==
    /\ \A l \in Lanes : NoDuplicates(lanes[l])
    /\ \A k, l \in Lanes : k # l => Elems(lanes[k]) \cap Elems(lanes[l]) = {}
    /\ InLanes \cap backlog = {}

Retrying == {push[t].path : t \in Pushers} \ {NoPath}

(* The dedup set is what is in the lanes and the backlog, except for a     *)
(* path whose push is in the middle of an overflow or got stuck in one:    *)
(* otherwise a path would be queued twice, or never again.                 *)
DedupIsExact == queued = InLanes \cup backlog \cup Retrying \cup stuck

InHand ==
    (({push[t].victim : t \in Pushers} \cup {push[t].path : t \in Pushers})
        \ {NoPath})
    \cup hk.batch \cup salvage \cup UNION {worker[w].batch : w \in Workers}

Located == InLanes \cup backlog \cup spill_buf \cup pending \cup InHand

BeforeDrain == main \in {"events", "join_helpers", "drain"}

(* "Nothing is ever dropped" (realtime.rs push_scan): while the watcher    *)
(* runs, a path that was handed over and not taken for a scan since is in  *)
(* a lane, the backlog, the spill buffer, the database or on its way       *)
(* between two of them.                                                    *)
NothingDropped == BeforeDrain => owed \subseteq Located

(* EachPathOnce: what waits and what the dedup set says waits are the      *)
(* same, and every path is there once, at every interleaving of pushes,    *)
(* overflows, pops, batches and the drain (realtime.rs push_scan, pop).    *)
EachPathOnce == QueuedOnce /\ DedupIsExact

(* What the queue does drop, it drops in one way: the push of a path finds *)
(* the lanes full, buffers a victim and then takes its own dedup entry for *)
(* a duplicate.                                                            *)
LossOnlyByOverflow == BeforeDrain => owed \subseteq Located \cup stuck

(* Beside the stuck paths, the only waiting work a graceful shutdown leaves*)
(* out of the database is a batch a worker had just taken from it and put  *)
(* in the drained backlog.                                                 *)
ShutdownLosesOnlyBatches == main = "down" => owed \subseteq pending \cup backlog

(* Once the exit flag is set no worker starts a task: a shutdown never     *)
(* scans its way through a backlog (realtime.rs pop).                      *)
NoTaskAfterExit ==
    [][\A w \in Workers :
          exit /\ worker'[w].path # NoPath => worker'[w].path = worker[w].path]_vars

(* A path handed over is taken by a worker in the end, however often it    *)
(* moves to the spill buffer, the database and back, unless the watcher    *)
(* ends or the path got stuck in an overflow: with the bounded number of   *)
(* calls, the watcher comes to owe nothing again and again.                *)
OwedIsServed == []<>(exit \/ owed \subseteq stuck)

(* A watcher that leaves its loop gets through its joins (L5): no thread   *)
(* waits for one that waits for it.                                        *)
ShutdownCompletes == []<>(main \in {"down", "events"})

(* A worker's batch stays borrowed from the database in the drained        *)
(* backlog too: nothing there is persisted any more.                       *)
Borrowed ==
    (UNION {worker[w].batch : w \in Workers})
    \cup (IF BeforeDrain THEN {} ELSE backlog)

Ledger == INSTANCE WorkLedger WITH
    work <- Located \cup stuck,
    lost <- stuck,
    borrowed <- Borrowed,
    serving <- [w \in Workers |->
                   IF worker[w].at = "scan" THEN worker[w].path ELSE NoPath],
    open <- main # "down",
    epoch <- lifetime

(* The queue is an implementation of the ledger: no move between the       *)
(* lanes, the buffer, the database and the threads loses or invents work,  *)
(* what an overflow overlooks is written off at the drain, and a shutdown  *)
(* loses only borrowed work besides.                                       *)
KeepsLedger == Ledger!Spec
=============================================================================
